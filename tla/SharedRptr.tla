----------------------------- MODULE SharedRptr -----------------------------
(***************************************************************************)
(* The distributed reference counting of funhpc/shared_rptr.hpp.           *)
(*                                                                         *)
(* A shared_rptr is a handle to a manager on its own process.  A manager   *)
(* is either local (it holds the std::shared_ptr to the object) or remote  *)
(* (it holds a reference to its owner, a local manager on the object's     *)
(* process).  Serializing a shared_rptr into a task (save) counts a        *)
(* reference on the sending manager, and deserializing it (the archive     *)
(* constructor) makes a fresh manager that moves that reference to the     *)
(* owner with messages: decref1 and incref_then_decref2.                   *)
(*                                                                         *)
(* Messages are tasks of rexec: they are delivered once, in any order,     *)
(* because the event loop gives every task a thread of its own.            *)
(*                                                                         *)
(* A manager is named by a number that grows with time.  The number of the *)
(* manager that a message will construct is chosen when the message is     *)
(* sent, so equal payloads are distinct messages.  An address that is used *)
(* again after a delete is not modelled: as long as NoDangling holds, no   *)
(* message and no manager refers to the address of a deleted manager.      *)
(***************************************************************************)
EXTENDS Integers, FiniteSets

CONSTANTS
  Proc,         \* the processes (MPI ranks)
  NoProc,       \* the process of a null rptr
  MaxManagers,  \* how many managers are ever constructed (a bound)
  MaxHandles    \* how many shared_rptr name one manager at a time (a bound)

ASSUME ProcAssumption == NoProc \notin Proc
ASSUME BoundAssumption == MaxManagers \in Nat /\ MaxHandles \in Nat \ {0}

Manager == 1 .. MaxManagers
Null == 0
ManagerPtr == Manager \cup {Null}   \* an rptr<manager>

VARIABLES
  next,      \* the number of the next manager
  status,    \* the life cycle of each manager
  home,      \* the process a manager lives on
  obj,       \* manager::obj, the object a local manager keeps alive
  robj,      \* manager::robj, the name of the object
  owner,     \* manager::owner
  refcount,  \* manager::refcount
  handles,   \* the number of shared_rptr with this mgr
  msgs       \* the tasks sent by rexec and not yet run

vars == <<next, status, home, obj, robj, owner, refcount, handles, msgs>>

\* An object is named by the manager that first held it.
ObjectMsg == [type : {"object"}, id : Manager, dest : Proc, robj : ManagerPtr,
              owner : Manager, origin : Manager]
IncrefMsg == [type : {"incref_then_decref2"}, mgr : Manager,
              other1 : Manager, other2 : Manager]
DecrefMsg == [type : {"decref1"}, mgr : Manager, from : Manager]

TypeOK ==
  /\ next \in 1 .. MaxManagers + 1
  /\ status \in [Manager -> {"unborn", "live", "dying", "freed"}]
  /\ home \in [Manager -> Proc \cup {NoProc}]
  /\ obj \in [Manager -> ManagerPtr]
  /\ robj \in [Manager -> ManagerPtr]
  /\ owner \in [Manager -> ManagerPtr]
  /\ refcount \in [Manager -> Int]
  /\ handles \in [Manager -> Nat]
  /\ msgs \subseteq ObjectMsg \cup IncrefMsg \cup DecrefMsg

Init ==
  /\ next = 1
  /\ status = [m \in Manager |-> "unborn"]
  /\ home = [m \in Manager |-> NoProc]
  /\ obj = [m \in Manager |-> Null]
  /\ robj = [m \in Manager |-> Null]
  /\ owner = [m \in Manager |-> Null]
  /\ refcount = [m \in Manager |-> 0]
  /\ handles = [m \in Manager |-> 0]
  /\ msgs = {}

-----------------------------------------------------------------------------
(* manager *)

local(m) == owner[m] = Null

\* The message that drops a reference to m; from is the manager whose
\* construction or destruction sends it.
decref1(m, from) == [type |-> "decref1", mgr |-> m, from |-> from]

incref_then_decref2(m, other1, other2) ==
  [type |-> "incref_then_decref2", mgr |-> m,
   other1 |-> other1, other2 |-> other2]

incref(m) == refcount' = [refcount EXCEPT ![m] = @ + 1]

\* The thread that takes the count to zero is the one that deletes.
decref(m) ==
  /\ refcount' = [refcount EXCEPT ![m] = @ - 1]
  /\ status' = [status EXCEPT ![m] = IF refcount[m] = 1 THEN "dying" ELSE @]

\* Mutant: the destructor does not tell its owner.
DestroySilently(m) ==
  /\ status[m] = "dying"
  /\ status' = [status EXCEPT ![m] = "freed"]
  /\ obj' = [obj EXCEPT ![m] = Null]
  /\ UNCHANGED <<next, home, robj, owner, refcount, handles, msgs>>

\* The rest of that thread's decref: delete this, i.e. ~manager.
Destroy(m) ==
  /\ status[m] = "dying"
  /\ status' = [status EXCEPT ![m] = "freed"]
  /\ obj' = [obj EXCEPT ![m] = Null]
  /\ msgs' = IF local(m) THEN msgs ELSE msgs \cup {decref1(owner[m], m)}
  /\ UNCHANGED <<next, home, robj, owner, refcount, handles>>

\* The fields every constructor of manager sets: n is a fresh manager on p
\* with its first shared_rptr.
Construct(n, p, object, own, count) ==
  /\ status' = [status EXCEPT ![n] = "live"]
  /\ home' = [home EXCEPT ![n] = p]
  /\ robj' = [robj EXCEPT ![n] = object]
  /\ owner' = [owner EXCEPT ![n] = own]
  /\ refcount' = [refcount EXCEPT ![n] = count]
  /\ handles' = [handles EXCEPT ![n] = 1]

-----------------------------------------------------------------------------
(* shared_rptr *)

\* shared_rptr(std::shared_ptr): a new object on p and its local manager.
MakeShared(p) ==
  /\ next \in Manager
  /\ next' = next + 1
  /\ Construct(next, p, next, Null, 1)
  /\ obj' = [obj EXCEPT ![next] = next]
  /\ UNCHANGED msgs

\* shared_rptr(const shared_rptr &), and the second half of an assignment.
Copy(m) ==
  /\ handles[m] \in 1 .. MaxHandles - 1
  /\ handles' = [handles EXCEPT ![m] = @ + 1]
  /\ incref(m)
  /\ UNCHANGED <<next, status, home, obj, robj, owner, msgs>>

\* Mutant: reset does not clear mgr, so a second reset counts down again.
ResetAgain(m) ==
  /\ status[m] = "live"
  /\ handles' = [handles EXCEPT ![m] = @ - 1]
  /\ decref(m)
  /\ UNCHANGED <<next, home, obj, robj, owner, msgs>>

\* ~shared_rptr, and the first half of an assignment.
Reset(m) ==
  /\ handles[m] > 0
  /\ handles' = [handles EXCEPT ![m] = @ - 1]
  /\ decref(m)
  /\ UNCHANGED <<next, home, obj, robj, owner, msgs>>

\* Mutant: a serialized shared_rptr is not counted.
SaveUncounted(m, dest) ==
  /\ handles[m] > 0
  /\ dest # home[m]
  /\ next \in Manager
  /\ next' = next + 1
  /\ msgs' = msgs \cup {[type |-> "object", id |-> next, dest |-> dest,
                         robj |-> robj[m],
                         owner |-> IF local(m) THEN m ELSE owner[m],
                         origin |-> m]}
  /\ UNCHANGED <<status, home, obj, robj, owner, refcount, handles>>

\* A task that holds a shared_rptr is serialized for another process.
Save(m, dest) ==
  /\ handles[m] > 0
  /\ dest # home[m]
  /\ next \in Manager
  /\ next' = next + 1
  /\ incref(m)
  /\ msgs' = msgs \cup {[type |-> "object", id |-> next, dest |-> dest,
                         robj |-> robj[m],
                         owner |-> IF local(m) THEN m ELSE owner[m],
                         origin |-> m]}
  /\ UNCHANGED <<status, home, obj, robj, owner, handles>>

\* Mutant: the shortcut forgets the reference that the message carried.
LoadAtOwnerKept(msg) ==
  /\ home[msg.owner] = msg.dest
  /\ Construct(msg.id, msg.dest, msg.robj, Null, 1)
  /\ obj' = [obj EXCEPT ![msg.id] = obj[msg.owner]]
  /\ msgs' = msgs \ {msg}
  /\ UNCHANGED next

\* Mutant: the new manager does not hold itself until the owner has counted it.
LoadFromThirdUnheld(msg) ==
  /\ home[msg.owner] # msg.dest
  /\ home[msg.owner] # home[msg.origin]
  /\ Construct(msg.id, msg.dest, msg.robj, msg.owner, 1)
  /\ msgs' = (msgs \ {msg})
               \cup {incref_then_decref2(msg.owner, msg.origin, msg.id)}
  /\ UNCHANGED <<next, obj>>

\* Mutant: the origin is released at once, not by the owner after its incref.
LoadFromThirdEagerly(msg) ==
  /\ home[msg.owner] # msg.dest
  /\ home[msg.owner] # home[msg.origin]
  /\ Construct(msg.id, msg.dest, msg.robj, msg.owner, 2)
  /\ msgs' = (msgs \ {msg})
               \cup {incref_then_decref2(msg.owner, msg.id, msg.id),
                     decref1(msg.origin, msg.id)}
  /\ UNCHANGED <<next, obj>>

\* The archive constructor, when the task runs on msg.dest.  Its handle is
\* the argument of the task.
LoadAtOwner(msg) ==   \* the object is local: share the owner's shared_ptr
  /\ home[msg.owner] = msg.dest
  /\ Construct(msg.id, msg.dest, msg.robj, Null, 1)
  /\ obj' = [obj EXCEPT ![msg.id] = obj[msg.owner]]
  /\ msgs' = (msgs \ {msg}) \cup {decref1(msg.origin, msg.id)}
  /\ UNCHANGED next

LoadFromThird(msg) ==   \* neither side is the owner: transfer the reference
  /\ home[msg.owner] # msg.dest
  /\ home[msg.owner] # home[msg.origin]
  /\ Construct(msg.id, msg.dest, msg.robj, msg.owner, 2)
  /\ msgs' = (msgs \ {msg})
               \cup {incref_then_decref2(msg.owner, msg.origin, msg.id)}
  /\ UNCHANGED <<next, obj>>

LoadFromOwner(msg) ==   \* the reference that save took is the owner's
  /\ home[msg.owner] # msg.dest
  /\ home[msg.owner] = home[msg.origin]
  /\ Construct(msg.id, msg.dest, msg.robj, msg.owner, 1)
  /\ msgs' = msgs \ {msg}
  /\ UNCHANGED <<next, obj>>

Load(msg) ==
  /\ msg.type = "object"
  /\ LoadAtOwner(msg) \/ LoadFromThird(msg) \/ LoadFromOwner(msg)

RunIncref(msg) ==
  /\ msg.type = "incref_then_decref2"
  /\ incref(msg.mgr)
  /\ msgs' = (msgs \ {msg}) \cup {decref1(msg.other1, msg.other2),
                                  decref1(msg.other2, msg.other2)}
  /\ UNCHANGED <<next, status, home, obj, robj, owner, handles>>

RunDecref(msg) ==
  /\ msg.type = "decref1"
  /\ decref(msg.mgr)
  /\ msgs' = msgs \ {msg}
  /\ UNCHANGED <<next, home, obj, robj, owner, handles>>

-----------------------------------------------------------------------------

Deliver == \E msg \in msgs : Load(msg) \/ RunIncref(msg) \/ RunDecref(msg)

Next ==
  \/ \E p \in Proc : MakeShared(p)
  \/ \E m \in Manager : Copy(m)
  \/ \E m \in Manager : Reset(m)
  \/ \E m \in Manager, p \in Proc : Save(m, p)
  \/ \E m \in Manager : Destroy(m)
  \/ Deliver

Spec == Init /\ [][Next]_vars

\* The event loop delivers every message and the threads it starts run; what
\* the program does with its handles is not assumed.
FairSpec ==
  /\ Spec
  /\ WF_vars(Deliver)
  /\ WF_vars(\E m \in Manager : Destroy(m))

-----------------------------------------------------------------------------
(* Properties *)

Exists(m) == status[m] \in {"live", "dying"}

\* The managers a message holds a counted reference to.
Counted(msg) ==
  CASE msg.type = "object" -> {msg.origin}
    [] msg.type = "incref_then_decref2" -> {msg.other1, msg.other2}
    [] msg.type = "decref1" -> {msg.mgr}

\* A remote manager whose reference has not yet reached its owner.
Pending(c) ==
  \E msg \in msgs : msg.type = "incref_then_decref2" /\ msg.other2 = c

CountedMsgs(S, m) == {msg \in S : m \in Counted(msg)}
Dependants(m) == {c \in Manager : Exists(c) /\ owner[c] = m}
Registered(m) == {c \in Dependants(m) : ~Pending(c)}

\* The count of a manager is exactly the number of shared_rptr on its
\* process, of messages that carry a reference to it, and of remote managers
\* whose reference it has been told of: no interleaving of save, load and
\* the transfer messages counts a reference twice or loses one.
RefcountExact ==
  \A m \in Manager :
    refcount[m] = handles[m] + Cardinality(CountedMsgs(msgs, m))
                             + Cardinality(Registered(m))

\* A manager is deleted when nobody counts on it: every manager that a
\* message will dereference on arrival (mgr->incref, mgr->decref,
\* owner->obj), and every owner a remote manager will send its decref1 to,
\* still has a positive count.
NoDangling ==
  /\ \A msg \in msgs :
       /\ \A m \in Counted(msg) : status[m] = "live"
       /\ msg.type = "object" => status[msg.owner] = "live"
       /\ msg.type = "incref_then_decref2" => status[msg.mgr] = "live"
  /\ \A c \in Manager :
       Exists(c) /\ ~local(c) => status[owner[c]] = "live"

ObjectAlive(o) == \E m \in Manager : obj[m] = o

\* Whoever holds a shared_rptr, and whoever will receive one that is in
\* flight, finds the object alive, through a manager on the object's process.
NoEarlyFree ==
  /\ \A m \in Manager : handles[m] > 0 => ObjectAlive(robj[m])
  /\ \A msg \in msgs : msg.type = "object" => ObjectAlive(msg.robj)

\* manager::invariant(), which the constructors assert, holds as long as the
\* manager lives, and the object is on the owner's process.
ManagerInvariant ==
  \A m \in Manager : status[m] = "live" =>
    /\ refcount[m] >= 1
    /\ IF local(m)
       THEN obj[m] = robj[m] /\ home[robj[m]] = home[m]
       ELSE /\ obj[m] = Null
            /\ home[robj[m]] # home[m]
            /\ home[owner[m]] = home[robj[m]]
            /\ local(owner[m])

\* A count that has reached zero stays there: no late message brings a
\* manager that is being deleted back, and ~manager's assertion holds.
NoResurrection ==
  [][\A m \in Manager :
       status[m] \in {"dying", "freed"} => refcount'[m] = 0]_vars

\* The shared_rptr of an object are gone, those in flight included.
Unreferenced(o) ==
  /\ \A m \in Manager : robj[m] = o => handles[m] = 0
  /\ \A msg \in msgs : msg.type = "object" => msg.robj # o

\* Once the last shared_rptr of an object is gone, the messages under way
\* drain and the object and all of its managers are freed: no cycle of
\* managers that keep each other alive is left behind.
Reclaimed ==
  \A o \in Manager :
    (robj[o] = o /\ Unreferenced(o)) ~>
      (\A m \in Manager : robj[m] = o => status[m] = "freed")

-----------------------------------------------------------------------------
(* The protocol implements SharedObject: the holder h of an object is the  *)
(* manager h while it has shared_rptr, or the message that will construct  *)
(* manager h.                                                              *)

phaseBar ==
  [o \in Manager |-> IF robj[o] # o THEN "none"
                     ELSE IF ObjectAlive(o) THEN "alive" ELSE "freed"]

holdersBar ==
  [o \in Manager |->
     {m \in Manager : robj[m] = o /\ handles[m] > 0}
       \cup {msg.id : msg \in {x \in msgs : x.type = "object" /\ x.robj = o}}]

Abstract == INSTANCE SharedObject
  WITH Object <- Manager, Holder <- Manager,
       phase <- phaseBar, holders <- holdersBar

\* Every behaviour of the managers and their messages is one of the abstract
\* object: it is freed after its last shared_rptr is gone, wherever that was
\* and however the messages were reordered, never before, and it is freed.
ImplementsSharedObject == Abstract!Spec

=============================================================================
