---------------------------- MODULE SharedObject ----------------------------
(***************************************************************************)
(* What shared_rptr promises: an object lives exactly as long as somebody  *)
(* anywhere in the system refers to it.  There is one set of holders per   *)
(* object, and no managers, counts or messages.                            *)
(***************************************************************************)
CONSTANTS Object, Holder

VARIABLES
  phase,    \* "none" before an object is made, "freed" after it is gone
  holders   \* who refers to each object

vars == <<phase, holders>>

Init ==
  /\ phase = [o \in Object |-> "none"]
  /\ holders = [o \in Object |-> {}]

\* make_shared_rptr
Create(o, h) ==
  /\ phase[o] = "none"
  /\ phase' = [phase EXCEPT ![o] = "alive"]
  /\ holders' = [holders EXCEPT ![o] = {h}]

\* A holder passes the reference on to another process.
Share(o, h) ==
  /\ holders[o] # {}
  /\ holders' = [holders EXCEPT ![o] = @ \cup {h}]
  /\ UNCHANGED phase

Release(o, h) ==
  /\ h \in holders[o]
  /\ holders' = [holders EXCEPT ![o] = @ \ {h}]
  /\ UNCHANGED phase

\* Only an object without holders is freed, and it never comes back.
Reclaim(o) ==
  /\ phase[o] = "alive"
  /\ holders[o] = {}
  /\ phase' = [phase EXCEPT ![o] = "freed"]
  /\ UNCHANGED holders

Next ==
  \E o \in Object :
    \/ \E h \in Holder : Create(o, h) \/ Share(o, h) \/ Release(o, h)
    \/ Reclaim(o)

SafeSpec == Init /\ [][Next]_vars

Spec == SafeSpec /\ \A o \in Object : WF_vars(Reclaim(o))

=============================================================================
