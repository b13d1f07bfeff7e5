------------------------------- MODULE Server -------------------------------
(***************************************************************************)
(* The event loop of funhpc/server.cpp and rexec of funhpc/rexec.hpp: how  *)
(* a task gets from the thread that calls rexec to a thread on another     *)
(* process, and how all processes stop together.                           *)
(*                                                                         *)
(* On every process the main thread of the program runs eventloop: it      *)
(* takes the communication lock, hands the queued tasks to MPI, receives   *)
(* what has arrived, starts a detached thread for each task received,      *)
(* drops the lock and asks terminate_check whether to stop.  The user's    *)
(* main function and all tasks run in qthreads of their own, interleaved   *)
(* with the loop.                                                          *)
(*                                                                         *)
(* MPI is external: a send may complete before or after the message is     *)
(* received, Iprobe may miss a message that is still under way, and Test   *)
(* on the barrier succeeds some time after the last process has entered.   *)
(* What a user thread does is arbitrary: it may send tasks to anyone, take *)
(* and drop the communication lock, and end whenever it holds no lock.     *)
(***************************************************************************)
CONSTANTS
  Proc,      \* the processes; there are several (size() > 1)
  MainProc,  \* those that run the user's main function
  Task,      \* the tasks that are ever sent (a bound)
  Free, Loop, Gone, Nowhere, Nothing

ASSUME MainAssumption == MainProc \subseteq Proc /\ MainProc # {}
ASSUME DistinctAssumption ==
  /\ Proc \cap Task = {}
  /\ Free # Loop /\ Free # Gone /\ Loop # Gone
  /\ {Free, Loop, Gone, Nowhere, Nothing} \cap (Proc \cup Task) = {}

\* The thread of main on p is named p, the thread of a task by the task.
Thread == MainProc \cup Task

VARIABLES
  pc,          \* where the event loop of a process is
  terminating, \* the process has entered the barrier
  thread,      \* the life cycle of each user thread
  hand,        \* the serialized task that a thread in enqueue_task pushes
  dest,        \* the process a task was sent to
  sendQueue,   \* send_queue: the tasks that await the next round
  reqps,       \* reqps: the tasks that send_tasks has taken from the queue
  sendReqs,    \* send_reqs: the sends that have not been seen to complete
  wire,        \* the tasks in the hands of MPI
  queueMutex,  \* send_queue_mutex: its holder, or Gone after reset()
  commMutex    \* detail::comm_mutex

loopVars == <<pc, terminating>>
taskVars == <<hand, dest, sendQueue, reqps, sendReqs, wire>>
mutexes == <<queueMutex, commMutex>>
vars == <<pc, terminating, thread, hand, dest, sendQueue, reqps, sendReqs,
          wire, queueMutex, commMutex>>

TypeOK ==
  /\ pc \in [Proc -> {"lock", "take", "send", "recv", "check", "cleanup",
                      "returned"}]
  /\ terminating \in [Proc -> BOOLEAN]
  /\ thread \in [Thread -> {"none", "run", "crashed", "done"}]
  /\ hand \in [Thread -> Task \cup {Nothing}]
  /\ dest \in [Task -> Proc \cup {Nowhere}]
  /\ sendQueue \in [Proc -> SUBSET Task]
  /\ reqps \in [Proc -> SUBSET Task]
  /\ sendReqs \in [Proc -> SUBSET Task]
  /\ wire \subseteq Task
  /\ queueMutex \in [Proc -> Thread \cup {Free, Gone}]
  /\ commMutex \in [Proc -> Thread \cup {Free, Loop, Gone}]

\* eventloop, up to the loop.
Init ==
  /\ pc = [p \in Proc |-> "lock"]
  /\ terminating = [p \in Proc |-> FALSE]
  /\ thread = [th \in Thread |-> IF th \in MainProc THEN "run" ELSE "none"]
  /\ hand = [th \in Thread |-> Nothing]
  /\ dest = [t \in Task |-> Nowhere]
  /\ sendQueue = [p \in Proc |-> {}]
  /\ reqps = [p \in Proc |-> {}]
  /\ sendReqs = [p \in Proc |-> {}]
  /\ wire = {}
  /\ queueMutex = [p \in Proc |-> Free]
  /\ commMutex = [p \in Proc |-> Free]

-----------------------------------------------------------------------------
(* User threads *)

\* The process a thread runs on.
At(th) == IF th \in MainProc THEN th ELSE dest[th]

Fresh(t) == dest[t] = Nowhere

Running(th) == thread[th] = "run" /\ hand[th] = Nothing

\* rexec to the own process: a detached thread, without the queue.
RexecLocal(th, t) ==
  /\ Running(th)
  /\ Fresh(t)
  /\ dest' = [dest EXCEPT ![t] = At(th)]
  /\ thread' = [thread EXCEPT ![t] = "run"]
  /\ UNCHANGED <<loopVars, hand, sendQueue, reqps, sendReqs, wire, mutexes>>

\* rexec to another process: enqueue_task serializes the task and takes the
\* mutex ...
EnqueueLock(th, t, p) ==
  /\ Running(th)
  /\ Fresh(t)
  /\ p # At(th)
  /\ queueMutex[At(th)] = Free
  /\ queueMutex' = [queueMutex EXCEPT ![At(th)] = th]
  /\ dest' = [dest EXCEPT ![t] = p]
  /\ hand' = [hand EXCEPT ![th] = t]
  /\ UNCHANGED <<loopVars, thread, sendQueue, reqps, sendReqs, wire,
                 commMutex>>

\* Mutant: the queue keeps only the last task.
EnqueueOverwrite(th) ==
  /\ hand[th] # Nothing
  /\ queueMutex[At(th)] = th
  /\ sendQueue' = [sendQueue EXCEPT ![At(th)] = {hand[th]}]
  /\ queueMutex' = [queueMutex EXCEPT ![At(th)] = Free]
  /\ hand' = [hand EXCEPT ![th] = Nothing]
  /\ UNCHANGED <<loopVars, thread, dest, reqps, sendReqs, wire, commMutex>>

\* ... pushes it, and drops the mutex.
EnqueuePush(th) ==
  /\ hand[th] # Nothing
  /\ queueMutex[At(th)] = th
  /\ sendQueue' = [sendQueue EXCEPT ![At(th)] = @ \cup {hand[th]}]
  /\ queueMutex' = [queueMutex EXCEPT ![At(th)] = Free]
  /\ hand' = [hand EXCEPT ![th] = Nothing]
  /\ UNCHANGED <<loopVars, thread, dest, reqps, sendReqs, wire, commMutex>>

CommLock(th) ==
  /\ Running(th)
  /\ commMutex[At(th)] = Free
  /\ commMutex' = [commMutex EXCEPT ![At(th)] = th]
  /\ UNCHANGED <<loopVars, thread, taskVars, queueMutex>>

CommUnlock(th) ==
  /\ Running(th)
  /\ commMutex[At(th)] = th
  /\ commMutex' = [commMutex EXCEPT ![At(th)] = Free]
  /\ UNCHANGED <<loopVars, thread, taskVars, queueMutex>>

\* enqueue_task, comm_lock or comm_unlock through a unique_ptr that eventloop
\* has reset: the thread uses a mutex that does not exist.
Crash(th) ==
  /\ thread[th] = "run"
  /\ queueMutex[At(th)] = Gone
  /\ thread' = [thread EXCEPT ![th] = "crashed"]
  /\ UNCHANGED <<loopVars, taskVars, mutexes>>

\* The user's main or the task returns.
Finish(th) ==
  /\ Running(th)
  /\ commMutex[At(th)] # th
  /\ thread' = [thread EXCEPT ![th] = "done"]
  /\ UNCHANGED <<loopVars, taskVars, mutexes>>

-----------------------------------------------------------------------------
(* The event loop *)

\* Mutant: the loop takes the other mutex.
LoopLockQueue(p) ==
  /\ pc[p] = "lock"
  /\ queueMutex[p] = Free
  /\ queueMutex' = [queueMutex EXCEPT ![p] = Loop]
  /\ pc' = [pc EXCEPT ![p] = "take"]
  /\ UNCHANGED <<terminating, thread, taskVars, commMutex>>

LoopLock(p) ==
  /\ pc[p] = "lock"
  /\ commMutex[p] = Free
  /\ commMutex' = [commMutex EXCEPT ![p] = Loop]
  /\ pc' = [pc EXCEPT ![p] = "take"]
  /\ UNCHANGED <<terminating, thread, taskVars, queueMutex>>

\* send_tasks swaps the queue with an empty one, under the mutex of the queue
\* ...
TakeQueue(p) ==
  /\ pc[p] = "take"
  /\ queueMutex[p] = Free
  /\ reqps' = [reqps EXCEPT ![p] = sendQueue[p]]
  /\ sendQueue' = [sendQueue EXCEPT ![p] = {}]
  /\ pc' = [pc EXCEPT ![p] = "send"]
  /\ UNCHANGED <<terminating, thread, hand, dest, sendReqs, wire, mutexes>>

\* ... hands what it took to MPI, one task after the other, while other
\* threads push to the queue again ...
Isend(p, t) ==
  /\ pc[p] = "send"
  /\ t \in reqps[p]
  /\ reqps' = [reqps EXCEPT ![p] = @ \ {t}]
  /\ wire' = wire \cup {t}
  /\ sendReqs' = [sendReqs EXCEPT ![p] = @ \cup {t}]
  /\ UNCHANGED <<loopVars, thread, hand, dest, sendQueue, mutexes>>

\* Mutant: the queue is cleared once it has been sent.
TestSendsClear(p) ==
  /\ pc[p] = "send"
  /\ reqps[p] = {}
  /\ sendQueue' = [sendQueue EXCEPT ![p] = {}]
  /\ \E completed \in SUBSET sendReqs[p] :
       sendReqs' = [sendReqs EXCEPT ![p] = @ \ completed]
  /\ pc' = [pc EXCEPT ![p] = "recv"]
  /\ UNCHANGED <<terminating, thread, hand, dest, reqps, wire, mutexes>>

\* ... and forgets the sends that MPI_Test finds completed.
TestSends(p) ==
  /\ pc[p] = "send"
  /\ reqps[p] = {}
  /\ \E completed \in SUBSET sendReqs[p] :
       sendReqs' = [sendReqs EXCEPT ![p] = @ \ completed]
  /\ pc' = [pc EXCEPT ![p] = "recv"]
  /\ UNCHANGED <<terminating, thread, hand, dest, sendQueue, reqps, wire,
                 mutexes>>

\* One round of the loop of recv_tasks: Iprobe finds a message.
RecvTask(p, t) ==
  /\ pc[p] = "recv"
  /\ t \in wire
  /\ dest[t] = p
  /\ wire' = wire \ {t}
  /\ thread' = [thread EXCEPT ![t] = "run"]
  /\ UNCHANGED <<loopVars, hand, dest, sendQueue, reqps, sendReqs, mutexes>>

\* Its last round, and comm_unlock: Iprobe finds nothing (yet).
RecvNone(p) ==
  /\ pc[p] = "recv"
  /\ commMutex' = [commMutex EXCEPT ![p] = Free]
  /\ pc' = [pc EXCEPT ![p] = "check"]
  /\ UNCHANGED <<terminating, thread, taskVars, queueMutex>>

\* Mutant: a process without a main is never ready.
ReadyWithMain(p) == p \in MainProc /\ thread[p] = "done"

\* The argument of terminate_check: !fres.valid() || fres.ready().
ReadyToTerminate(p) == p \in MainProc => thread[p] = "done"

\* terminate_check enters the barrier at most once, and returns false ...
Continue(p) ==
  /\ pc[p] = "check"
  /\ terminating' = [terminating EXCEPT ![p] = @ \/ ReadyToTerminate(p)]
  /\ pc' = [pc EXCEPT ![p] = "lock"]
  /\ UNCHANGED <<thread, taskVars, mutexes>>

\* Mutant: a process leaves when it is ready itself.
LeaveAlone(p) ==
  /\ pc[p] = "check"
  /\ ReadyToTerminate(p)
  /\ terminating' = [terminating EXCEPT ![p] = TRUE]
  /\ pc' = [pc EXCEPT ![p] = "cleanup"]
  /\ UNCHANGED <<thread, taskVars, mutexes>>

\* ... or true.
Leave(p) ==
  /\ pc[p] = "check"
  /\ terminating' = [terminating EXCEPT ![p] = @ \/ ReadyToTerminate(p)]
  /\ \A q \in Proc : terminating'[q]
  /\ pc' = [pc EXCEPT ![p] = "cleanup"]
  /\ UNCHANGED <<thread, taskVars, mutexes>>

\* cancel_sends and the rest of eventloop.  MPI_Cancel may or may not be in
\* time to keep a message from being delivered.
Cleanup(p) ==
  /\ pc[p] = "cleanup"
  /\ \E cancelled \in SUBSET sendReqs[p] : wire' = wire \ cancelled
  /\ sendReqs' = [sendReqs EXCEPT ![p] = {}]
  /\ queueMutex' = [queueMutex EXCEPT ![p] = Gone]
  /\ commMutex' = [commMutex EXCEPT ![p] = Gone]
  /\ pc' = [pc EXCEPT ![p] = "returned"]
  /\ UNCHANGED <<terminating, thread, hand, dest, sendQueue, reqps>>

-----------------------------------------------------------------------------

Next ==
  \/ \E th \in Thread, t \in Task :
       RexecLocal(th, t) \/ \E p \in Proc : EnqueueLock(th, t, p)
  \/ \E th \in Thread :
       \/ EnqueuePush(th) \/ CommLock(th) \/ CommUnlock(th)
       \/ Crash(th) \/ Finish(th)
  \/ \E p \in Proc :
       \/ LoopLock(p) \/ TakeQueue(p) \/ TestSends(p) \/ RecvNone(p)
       \/ Continue(p) \/ Leave(p) \/ Cleanup(p)
       \/ \E t \in Task : Isend(p, t) \/ RecvTask(p, t)

Spec == Init /\ [][Next]_vars

\* The loop and the threads are scheduled, whoever holds a mutex drops it, a
\* mutex tried again and again is got, a message arrives, and the barrier is
\* seen to complete.  No user thread has to return.
FairSpec ==
  /\ Spec
  /\ \A th \in Thread : WF_vars(EnqueuePush(th)) /\ WF_vars(CommUnlock(th))
  /\ \A p \in Proc :
       /\ SF_vars(LoopLock(p)) /\ SF_vars(TakeQueue(p))
       /\ WF_vars(\E t \in Task : Isend(p, t)) /\ WF_vars(TestSends(p))
       /\ WF_vars(RecvNone(p)) /\ WF_vars(Continue(p)) /\ SF_vars(Leave(p))
       /\ WF_vars(Cleanup(p))
  /\ \A t \in Task : SF_vars(\E p \in Proc : RecvTask(p, t))

-----------------------------------------------------------------------------
(* Properties *)

Left(p) == pc[p] \in {"cleanup", "returned"}

\* No process stops sending and receiving while a user's main is still
\* running somewhere (the comment on terminate_check): the barrier is
\* completed only by processes whose own main has returned, and no process
\* enters it twice or leaves it early.
BarrierHolds ==
  \A p \in Proc :
    /\ Left(p) => \A q \in Proc : terminating[q]
    /\ terminating[p] => ReadyToTerminate(p)

\* A task is in exactly one place between the rexec that sends it and the
\* thread that runs it: in the hand of one sender, in one queue, taken from a
\* queue by one loop, with MPI, or started.  Nothing is sent twice, run twice
\* or dropped, until a sender has cancelled its sends or a thread has outlived
\* its queue.
Places(t) ==
  {<<"hand", th>> : th \in {x \in Thread : hand[x] = t}}
    \cup {<<"queue", p>> : p \in {x \in Proc : t \in sendQueue[x]}}
    \cup {<<"taken", p>> : p \in {x \in Proc : t \in reqps[x]}}
    \cup (IF t \in wire THEN {<<"wire", dest[t]>>} ELSE {})
    \cup (IF thread[t] # "none" THEN {<<"started", dest[t]>>} ELSE {})

OnePlace ==
  \A t \in Task :
    /\ \A x, y \in Places(t) : x = y
    /\ (~Fresh(t) /\ \A p \in Proc : pc[p] # "returned") => Places(t) # {}

\* The two mutexes keep the loop and the user threads apart: the loop is
\* between comm_lock and comm_unlock exactly when it holds the lock, so a
\* thread that has called comm_lock never overlaps with send_tasks and
\* recv_tasks; and only the holder of the queue's mutex has a task in hand.
MutualExclusion ==
  \A p \in Proc :
    /\ pc[p] \in {"take", "send", "recv"} <=> commMutex[p] = Loop
    /\ pc[p] # "returned" =>
         \A th \in Thread :
           (hand[th] # Nothing /\ At(th) = p) <=> queueMutex[p] = th

\* "Enqueue task (from any thread)": a thread that sends a task finds the
\* send queue's mutex in place, for as long as there are threads.
EnqueueFromAnyThread == \A th \in Thread : thread[th] # "crashed"

\* Once every user's main has returned, every process leaves its loop, tasks
\* still being sent or run or not.
Terminates ==
  (\A p \in MainProc : thread[p] = "done") ~>
    (\A p \in Proc : pc[p] = "returned")

-----------------------------------------------------------------------------
(* The event loop implements the pool of tasks of TaskPool.                *)

\* A process that has left its loop starts nothing, and one that has returned
\* sends nothing.
Undeliverable(t) ==
  /\ thread[t] = "none"
  /\ \/ Left(dest[t])
     \/ \E p \in Proc : pc[p] = "returned" /\ t \in sendQueue[p]
     \/ \E th \in Thread : hand[th] = t /\ pc[At(th)] = "returned"
     \/ Places(t) = {}

stateBar ==
  [t \in Task |->
     IF Fresh(t) THEN "unsent"
     ELSE IF thread[t] # "none" THEN "started"
     ELSE IF Undeliverable(t) THEN "lost"
     ELSE "sent"]

Pool == INSTANCE TaskPool
          WITH main <- {p \in MainProc : thread[p] = "done"},
               place <- dest, state <- stateBar

\* What the layers above rely on: no interleaving of the queue, MPI and the
\* shutdown starts a task twice or on another process, or loses one while a
\* user's main is running, and none waits for ever.
ImplementsTaskPool == Pool!Spec

=============================================================================
