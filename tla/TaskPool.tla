------------------------------ MODULE TaskPool ------------------------------
(***************************************************************************)
(* What rexec and the event loop promise together: a pool of tasks, each   *)
(* of which is started once, on the process it was sent to, in any order.  *)
(* A task may be lost only when every user's main function has returned.   *)
(* This is the network that the models of the layers above assume.         *)
(***************************************************************************)
CONSTANTS Proc, MainProc, Task, Nowhere

VARIABLES
  main,   \* the mains that have returned
  place,  \* the process a task was sent to
  state   \* the life cycle of each task

vars == <<main, place, state>>

Init ==
  /\ main = {}
  /\ place = [t \in Task |-> Nowhere]
  /\ state = [t \in Task |-> "unsent"]

Returned(p) ==
  /\ p \in MainProc \ main
  /\ main' = main \cup {p}
  /\ UNCHANGED <<place, state>>

\* A task sent to a process that has left is lost at once.
Send(t, p) ==
  /\ state[t] = "unsent"
  /\ place' = [place EXCEPT ![t] = p]
  /\ \E s \in {"sent", "started", "lost"} :
       /\ s = "lost" => main = MainProc
       /\ state' = [state EXCEPT ![t] = s]
  /\ UNCHANGED main

Start(t) ==
  /\ state[t] = "sent"
  /\ state' = [state EXCEPT ![t] = "started"]
  /\ UNCHANGED <<main, place>>

Lose(T) ==
  /\ main = MainProc
  /\ T # {}
  /\ \A t \in T : state[t] = "sent"
  /\ state' = [t \in Task |-> IF t \in T THEN "lost" ELSE state[t]]
  /\ UNCHANGED <<main, place>>

Next ==
  \/ \E p \in MainProc : Returned(p)
  \/ \E t \in Task, p \in Proc : Send(t, p)
  \/ \E t \in Task : Start(t)
  \/ \E T \in SUBSET Task : Lose(T)

Settle(t) ==
  /\ state[t] = "sent"
  /\ Start(t) \/ \E T \in SUBSET Task : t \in T /\ Lose(T)

SafeSpec == Init /\ [][Next]_vars

\* Every task that is sent is started, or lost with the end of the program.
Spec == SafeSpec /\ \A t \in Task : WF_vars(Settle(t))

=============================================================================
