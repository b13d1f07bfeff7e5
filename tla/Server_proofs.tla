---------------------------- MODULE Server_proofs ----------------------------
(***************************************************************************)
(* Proofs about the event loop, for every set of processes and tasks.      *)
(***************************************************************************)
EXTENDS Server, TLAPS

LEMMA Constants ==
  /\ MainProc \subseteq Proc
  /\ Proc \cap Task = {}
  /\ Free # Loop /\ Free # Gone /\ Loop # Gone
  /\ {Free, Loop, Gone, Nowhere, Nothing} \cap (Proc \cup Task) = {}
BY MainAssumption, DistinctAssumption

-----------------------------------------------------------------------------
(* The inductive invariant *)

\* A thread that exists has a process, and only such a thread holds a task.
Located ==
  \A th \in Thread :
    /\ thread[th] # "none" => At(th) \in Proc
    /\ hand[th] # Nothing => thread[th] \in {"run", "crashed"}

\* A mutex is Gone exactly when eventloop has returned, its holder is on the
\* process of the mutex.
Locks ==
  \A p \in Proc :
    /\ queueMutex[p] = Gone <=> pc[p] = "returned"
    /\ commMutex[p] = Gone <=> pc[p] = "returned"
    /\ pc[p] \in {"take", "send", "recv"} <=> commMutex[p] = Loop
    /\ \A th \in Thread :
         /\ queueMutex[p] = th => hand[th] # Nothing /\ At(th) = p
         /\ (hand[th] # Nothing /\ At(th) = p)
              => (queueMutex[p] = th \/ pc[p] = "returned")

\* Only send_tasks, past the mutex, has tasks that it took from the queue.
Taken == \A p \in Proc : pc[p] # "send" => reqps[p] = {}

\* A task that is anywhere has been sent.
Sent ==
  \A t \in Task :
    /\ \A th \in Thread : hand[th] = t => ~Fresh(t)
    /\ \A p \in Proc : t \in sendQueue[p] \cup reqps[p] => ~Fresh(t)
    /\ t \in wire => ~Fresh(t)
    /\ thread[t] # "none" => ~Fresh(t)

\* The places exclude each other.
Exclusive ==
  \A t \in Task :
    /\ \A x, y \in Thread : hand[x] = t /\ hand[y] = t => x = y
    /\ \A x, y \in Proc : t \in sendQueue[x] /\ t \in sendQueue[y] => x = y
    /\ \A x, y \in Proc : t \in reqps[x] /\ t \in reqps[y] => x = y
    /\ \A x, y \in Proc : t \in sendQueue[x] => t \notin reqps[y]
    /\ \A th \in Thread : hand[th] = t =>
         /\ t \notin wire
         /\ thread[t] = "none"
         /\ \A p \in Proc : t \notin sendQueue[p] /\ t \notin reqps[p]
    /\ \A p \in Proc : t \in sendQueue[p] => t \notin wire /\ thread[t] = "none"
    /\ \A p \in Proc : t \in reqps[p] => t \notin wire /\ thread[t] = "none"
    /\ t \in wire => thread[t] = "none"

\* Until a process has returned, a task that was sent is somewhere.
Kept ==
  \A t \in Task :
    ~Fresh(t) =>
      \/ \E p \in Proc : pc[p] = "returned"
      \/ \E th \in Thread : hand[th] = t
      \/ \E p \in Proc : t \in sendQueue[p] \/ t \in reqps[p]
      \/ t \in wire
      \/ thread[t] # "none"

IInv ==
  /\ TypeOK /\ BarrierHolds /\ Located /\ Locks
  /\ Taken /\ Sent /\ Exclusive /\ Kept

-----------------------------------------------------------------------------
(* Type correctness *)

LEMMA TypeInit == Init => TypeOK
BY Constants DEF Init, TypeOK, Thread

LEMMA TypeStep ==
  ASSUME TypeOK, Located, [Next]_vars
  PROVE TypeOK'
<1> USE Constants DEF TypeOK, Located, Thread, At, loopVars, taskVars, mutexes
<1>1. ASSUME NEW th \in Thread, NEW t \in Task, RexecLocal(th, t)
      PROVE TypeOK'
  BY <1>1 DEF RexecLocal, Running, Fresh
<1>2. ASSUME NEW th \in Thread, NEW t \in Task, NEW p \in Proc,
             EnqueueLock(th, t, p)
      PROVE TypeOK'
  BY <1>2 DEF EnqueueLock, Running, Fresh
<1>3. ASSUME NEW th \in Thread, EnqueuePush(th)
      PROVE TypeOK'
  BY <1>3 DEF EnqueuePush
<1>4. ASSUME NEW th \in Thread, CommLock(th)
      PROVE TypeOK'
  BY <1>4 DEF CommLock, Running
<1>5. ASSUME NEW th \in Thread, CommUnlock(th)
      PROVE TypeOK'
  BY <1>5 DEF CommUnlock, Running
<1>6. ASSUME NEW th \in Thread, Crash(th)
      PROVE TypeOK'
  BY <1>6 DEF Crash
<1>7. ASSUME NEW th \in Thread, Finish(th)
      PROVE TypeOK'
  BY <1>7 DEF Finish, Running
<1>8. ASSUME NEW p \in Proc, LoopLock(p)
      PROVE TypeOK'
  BY <1>8 DEF LoopLock
<1>9. ASSUME NEW p \in Proc, TakeQueue(p)
      PROVE TypeOK'
  BY <1>9 DEF TakeQueue
<1>10. ASSUME NEW p \in Proc, NEW t \in Task, Isend(p, t)
      PROVE TypeOK'
  BY <1>10 DEF Isend
<1>11. ASSUME NEW p \in Proc, TestSends(p)
      PROVE TypeOK'
  BY <1>11 DEF TestSends
<1>12. ASSUME NEW p \in Proc, RecvNone(p)
      PROVE TypeOK'
  BY <1>12 DEF RecvNone
<1>13. ASSUME NEW p \in Proc, Continue(p)
      PROVE TypeOK'
  BY <1>13 DEF Continue, ReadyToTerminate
<1>14. ASSUME NEW p \in Proc, Leave(p)
      PROVE TypeOK'
  BY <1>14 DEF Leave, ReadyToTerminate
<1>15. ASSUME NEW p \in Proc, Cleanup(p)
      PROVE TypeOK'
  BY <1>15 DEF Cleanup
<1>16. ASSUME NEW p \in Proc, NEW t \in Task, RecvTask(p, t)
      PROVE TypeOK'
  BY <1>16 DEF RecvTask
<1>17. CASE UNCHANGED vars
  BY <1>17 DEF vars
<1>18. QED
  BY <1>1, <1>2, <1>3, <1>4, <1>5, <1>6, <1>7, <1>8, <1>9, <1>10, <1>11, <1>12,
     <1>13, <1>14, <1>15, <1>16, <1>17 DEF Next

-----------------------------------------------------------------------------
(* Where threads are, and who holds the mutexes *)

LEMMA LocatedStep ==
  ASSUME TypeOK, TypeOK', Located, [Next]_vars
  PROVE Located'
<1> USE Constants DEF TypeOK, Located, Thread, At, Fresh, loopVars, taskVars,
   mutexes
<1>1. ASSUME NEW th \in Thread, NEW t \in Task, RexecLocal(th, t)
      PROVE Located'
  BY <1>1 DEF RexecLocal, Running
<1>2. ASSUME NEW th \in Thread, NEW t \in Task, NEW p \in Proc,
             EnqueueLock(th, t, p)
      PROVE Located'
  BY <1>2 DEF EnqueueLock, Running
<1>3. ASSUME NEW th \in Thread, EnqueuePush(th)
      PROVE Located'
  BY <1>3 DEF EnqueuePush
<1>4. ASSUME NEW th \in Thread, CommLock(th)
      PROVE Located'
  BY <1>4 DEF CommLock, Running
<1>5. ASSUME NEW th \in Thread, CommUnlock(th)
      PROVE Located'
  BY <1>5 DEF CommUnlock, Running
<1>6. ASSUME NEW th \in Thread, Crash(th)
      PROVE Located'
  BY <1>6 DEF Crash
<1>7. ASSUME NEW th \in Thread, Finish(th)
      PROVE Located'
  BY <1>7 DEF Finish, Running
<1>8. ASSUME NEW p \in Proc, LoopLock(p)
      PROVE Located'
  BY <1>8 DEF LoopLock
<1>9. ASSUME NEW p \in Proc, TakeQueue(p)
      PROVE Located'
  BY <1>9 DEF TakeQueue
<1>10. ASSUME NEW p \in Proc, NEW t \in Task, Isend(p, t)
      PROVE Located'
  BY <1>10 DEF Isend
<1>11. ASSUME NEW p \in Proc, TestSends(p)
      PROVE Located'
  BY <1>11 DEF TestSends
<1>12. ASSUME NEW p \in Proc, RecvNone(p)
      PROVE Located'
  BY <1>12 DEF RecvNone
<1>13. ASSUME NEW p \in Proc, Continue(p)
      PROVE Located'
  BY <1>13 DEF Continue, ReadyToTerminate
<1>14. ASSUME NEW p \in Proc, Leave(p)
      PROVE Located'
  BY <1>14 DEF Leave, ReadyToTerminate
<1>15. ASSUME NEW p \in Proc, Cleanup(p)
      PROVE Located'
  BY <1>15 DEF Cleanup
<1>16. ASSUME NEW p \in Proc, NEW t \in Task, RecvTask(p, t)
      PROVE Located'
  BY <1>16 DEF RecvTask
<1>17. CASE UNCHANGED vars
  BY <1>17 DEF vars
<1>18. QED
  BY <1>1, <1>2, <1>3, <1>4, <1>5, <1>6, <1>7, <1>8, <1>9, <1>10, <1>11, <1>12,
     <1>13, <1>14, <1>15, <1>16, <1>17 DEF Next

LEMMA LocksStep ==
  ASSUME TypeOK, TypeOK', Located, Sent, Locks, [Next]_vars
  PROVE Locks'
<1> USE Constants DEF TypeOK, Located, Locks, Sent, Thread, At, Fresh,
   loopVars, taskVars, mutexes
<1>1. ASSUME NEW th \in Thread, NEW t \in Task, RexecLocal(th, t)
      PROVE Locks'
  BY <1>1 DEF RexecLocal, Running
<1>2. ASSUME NEW th \in Thread, NEW t \in Task, NEW p \in Proc,
             EnqueueLock(th, t, p)
      PROVE Locks'
  BY <1>2 DEF EnqueueLock, Running
<1>3. ASSUME NEW th \in Thread, EnqueuePush(th)
      PROVE Locks'
  BY <1>3 DEF EnqueuePush
<1>4. ASSUME NEW th \in Thread, CommLock(th)
      PROVE Locks'
  BY <1>4 DEF CommLock, Running
<1>5. ASSUME NEW th \in Thread, CommUnlock(th)
      PROVE Locks'
  BY <1>5 DEF CommUnlock, Running
<1>6. ASSUME NEW th \in Thread, Crash(th)
      PROVE Locks'
  BY <1>6 DEF Crash
<1>7. ASSUME NEW th \in Thread, Finish(th)
      PROVE Locks'
  BY <1>7 DEF Finish, Running
<1>8. ASSUME NEW p \in Proc, LoopLock(p)
      PROVE Locks'
  BY <1>8 DEF LoopLock
<1>9. ASSUME NEW p \in Proc, TakeQueue(p)
      PROVE Locks'
  BY <1>9 DEF TakeQueue
<1>10. ASSUME NEW p \in Proc, NEW t \in Task, Isend(p, t)
      PROVE Locks'
  BY <1>10 DEF Isend
<1>11. ASSUME NEW p \in Proc, TestSends(p)
      PROVE Locks'
  BY <1>11 DEF TestSends
<1>12. ASSUME NEW p \in Proc, RecvNone(p)
      PROVE Locks'
  BY <1>12 DEF RecvNone
<1>13. ASSUME NEW p \in Proc, Continue(p)
      PROVE Locks'
  BY <1>13 DEF Continue, ReadyToTerminate
<1>14. ASSUME NEW p \in Proc, Leave(p)
      PROVE Locks'
  BY <1>14 DEF Leave, ReadyToTerminate
<1>15. ASSUME NEW p \in Proc, Cleanup(p)
      PROVE Locks'
  BY <1>15 DEF Cleanup
<1>16. ASSUME NEW p \in Proc, NEW t \in Task, RecvTask(p, t)
      PROVE Locks'
  BY <1>16 DEF RecvTask
<1>17. CASE UNCHANGED vars
  BY <1>17 DEF vars
<1>18. QED
  BY <1>1, <1>2, <1>3, <1>4, <1>5, <1>6, <1>7, <1>8, <1>9, <1>10, <1>11, <1>12,
     <1>13, <1>14, <1>15, <1>16, <1>17 DEF Next

-----------------------------------------------------------------------------
(* The barrier *)

LEMMA BarrierStep ==
  ASSUME TypeOK, TypeOK', Located, BarrierHolds, [Next]_vars
  PROVE BarrierHolds'
<1> USE Constants DEF ReadyToTerminate, TypeOK, BarrierHolds, Thread, Left,
   loopVars, taskVars, mutexes
<1>1. ASSUME NEW th \in Thread, NEW t \in Task, RexecLocal(th, t)
      PROVE BarrierHolds'
  BY <1>1 DEF RexecLocal, Running, Fresh
<1>2. ASSUME NEW th \in Thread, NEW t \in Task, NEW p \in Proc,
             EnqueueLock(th, t, p)
      PROVE BarrierHolds'
  BY <1>2 DEF EnqueueLock, Running, Fresh
<1>3. ASSUME NEW th \in Thread, EnqueuePush(th)
      PROVE BarrierHolds'
  BY <1>3 DEF EnqueuePush
<1>4. ASSUME NEW th \in Thread, CommLock(th)
      PROVE BarrierHolds'
  BY <1>4 DEF CommLock, Running
<1>5. ASSUME NEW th \in Thread, CommUnlock(th)
      PROVE BarrierHolds'
  BY <1>5 DEF CommUnlock, Running
<1>6. ASSUME NEW th \in Thread, Crash(th)
      PROVE BarrierHolds'
  BY <1>6 DEF Crash
<1>7. ASSUME NEW th \in Thread, Finish(th)
      PROVE BarrierHolds'
  BY <1>7 DEF Finish, Running
<1>8. ASSUME NEW p \in Proc, LoopLock(p)
      PROVE BarrierHolds'
  BY <1>8 DEF LoopLock
<1>9. ASSUME NEW p \in Proc, TakeQueue(p)
      PROVE BarrierHolds'
  BY <1>9 DEF TakeQueue
<1>10. ASSUME NEW p \in Proc, NEW t \in Task, Isend(p, t)
      PROVE BarrierHolds'
  BY <1>10 DEF Isend
<1>11. ASSUME NEW p \in Proc, TestSends(p)
      PROVE BarrierHolds'
  BY <1>11 DEF TestSends
<1>12. ASSUME NEW p \in Proc, RecvNone(p)
      PROVE BarrierHolds'
  BY <1>12 DEF RecvNone
<1>13. ASSUME NEW p \in Proc, Continue(p)
      PROVE BarrierHolds'
  BY <1>13 DEF Continue, ReadyToTerminate
<1>14. ASSUME NEW p \in Proc, Leave(p)
      PROVE BarrierHolds'
  BY <1>14 DEF Leave, ReadyToTerminate
<1>15. ASSUME NEW p \in Proc, Cleanup(p)
      PROVE BarrierHolds'
  BY <1>15 DEF Cleanup
<1>16. ASSUME NEW p \in Proc, NEW t \in Task, RecvTask(p, t)
      PROVE BarrierHolds'
  BY <1>16 DEF RecvTask
<1>17. CASE UNCHANGED vars
  BY <1>17 DEF vars, ReadyToTerminate
<1>18. QED
  BY <1>1, <1>2, <1>3, <1>4, <1>5, <1>6, <1>7, <1>8, <1>9, <1>10, <1>11, <1>12,
     <1>13, <1>14, <1>15, <1>16, <1>17 DEF Next

-----------------------------------------------------------------------------
(* The places of a task *)

LEMMA TakenStep ==
  ASSUME TypeOK, TypeOK', Located, Taken, [Next]_vars
  PROVE Taken'
<1> USE Constants DEF TypeOK, Taken, Thread, At, loopVars, taskVars, mutexes
<1>1. ASSUME NEW th \in Thread, NEW t \in Task, RexecLocal(th, t)
      PROVE Taken'
  BY <1>1 DEF RexecLocal, Running
<1>2. ASSUME NEW th \in Thread, NEW t \in Task, NEW p \in Proc,
             EnqueueLock(th, t, p)
      PROVE Taken'
  BY <1>2 DEF EnqueueLock, Running
<1>3. ASSUME NEW th \in Thread, EnqueuePush(th)
      PROVE Taken'
  BY <1>3 DEF EnqueuePush
<1>4. ASSUME NEW th \in Thread, CommLock(th)
      PROVE Taken'
  BY <1>4 DEF CommLock, Running
<1>5. ASSUME NEW th \in Thread, CommUnlock(th)
      PROVE Taken'
  BY <1>5 DEF CommUnlock, Running
<1>6. ASSUME NEW th \in Thread, Crash(th)
      PROVE Taken'
  BY <1>6 DEF Crash
<1>7. ASSUME NEW th \in Thread, Finish(th)
      PROVE Taken'
  BY <1>7 DEF Finish, Running
<1>8. ASSUME NEW p \in Proc, LoopLock(p)
      PROVE Taken'
  BY <1>8 DEF LoopLock
<1>9. ASSUME NEW p \in Proc, TakeQueue(p)
      PROVE Taken'
  BY <1>9 DEF TakeQueue
<1>10. ASSUME NEW p \in Proc, NEW t \in Task, Isend(p, t)
      PROVE Taken'
  BY <1>10 DEF Isend
<1>11. ASSUME NEW p \in Proc, TestSends(p)
      PROVE Taken'
  BY <1>11 DEF TestSends
<1>12. ASSUME NEW p \in Proc, RecvNone(p)
      PROVE Taken'
  BY <1>12 DEF RecvNone
<1>13. ASSUME NEW p \in Proc, Continue(p)
      PROVE Taken'
  BY <1>13 DEF Continue, ReadyToTerminate
<1>14. ASSUME NEW p \in Proc, Leave(p)
      PROVE Taken'
  BY <1>14 DEF Leave, ReadyToTerminate
<1>15. ASSUME NEW p \in Proc, Cleanup(p)
      PROVE Taken'
  BY <1>15 DEF Cleanup
<1>16. ASSUME NEW p \in Proc, NEW t \in Task, RecvTask(p, t)
      PROVE Taken'
  BY <1>16 DEF RecvTask
<1>17. CASE UNCHANGED vars
  BY <1>17 DEF vars
<1>18. QED
  BY <1>1, <1>2, <1>3, <1>4, <1>5, <1>6, <1>7, <1>8, <1>9, <1>10, <1>11, <1>12,
     <1>13, <1>14, <1>15, <1>16, <1>17 DEF Next

LEMMA SentStep ==
  ASSUME TypeOK, TypeOK', Located, Taken, Sent, [Next]_vars
  PROVE Sent'
<1> USE Constants DEF TypeOK, Located, Sent, Thread, At, Fresh, loopVars,
   taskVars, mutexes
<1>1. ASSUME NEW th \in Thread, NEW t \in Task, RexecLocal(th, t)
      PROVE Sent'
  BY <1>1 DEF RexecLocal, Running
<1>2. ASSUME NEW th \in Thread, NEW t \in Task, NEW p \in Proc,
             EnqueueLock(th, t, p)
      PROVE Sent'
  BY <1>2 DEF EnqueueLock, Running
<1>3. ASSUME NEW th \in Thread, EnqueuePush(th)
      PROVE Sent'
  BY <1>3 DEF EnqueuePush
<1>4. ASSUME NEW th \in Thread, CommLock(th)
      PROVE Sent'
  BY <1>4 DEF CommLock, Running
<1>5. ASSUME NEW th \in Thread, CommUnlock(th)
      PROVE Sent'
  BY <1>5 DEF CommUnlock, Running
<1>6. ASSUME NEW th \in Thread, Crash(th)
      PROVE Sent'
  BY <1>6 DEF Crash
<1>7. ASSUME NEW th \in Thread, Finish(th)
      PROVE Sent'
  BY <1>7 DEF Finish, Running
<1>8. ASSUME NEW p \in Proc, LoopLock(p)
      PROVE Sent'
  BY <1>8 DEF LoopLock
<1>9. ASSUME NEW p \in Proc, TakeQueue(p)
      PROVE Sent'
  BY <1>9 DEF TakeQueue
<1>10. ASSUME NEW p \in Proc, NEW t \in Task, Isend(p, t)
      PROVE Sent'
  BY <1>10 DEF Isend
<1>11. ASSUME NEW p \in Proc, TestSends(p)
      PROVE Sent'
  BY <1>11 DEF TestSends
<1>12. ASSUME NEW p \in Proc, RecvNone(p)
      PROVE Sent'
  BY <1>12 DEF RecvNone
<1>13. ASSUME NEW p \in Proc, Continue(p)
      PROVE Sent'
  BY <1>13 DEF Continue, ReadyToTerminate
<1>14. ASSUME NEW p \in Proc, Leave(p)
      PROVE Sent'
  BY <1>14 DEF Leave, ReadyToTerminate
<1>15. ASSUME NEW p \in Proc, Cleanup(p)
      PROVE Sent'
  BY <1>15 DEF Cleanup
<1>16. ASSUME NEW p \in Proc, NEW t \in Task, RecvTask(p, t)
      PROVE Sent'
  BY <1>16 DEF RecvTask
<1>17. CASE UNCHANGED vars
  BY <1>17 DEF vars
<1>18. QED
  BY <1>1, <1>2, <1>3, <1>4, <1>5, <1>6, <1>7, <1>8, <1>9, <1>10, <1>11, <1>12,
     <1>13, <1>14, <1>15, <1>16, <1>17 DEF Next

LEMMA ExclusiveStep ==
  ASSUME TypeOK, TypeOK', Located, Locks, Taken, Sent, Exclusive, [Next]_vars
  PROVE Exclusive'
<1> USE Constants DEF TypeOK, Taken, Sent, Exclusive, Thread, Fresh, loopVars,
   taskVars, mutexes
<1>1. ASSUME NEW th \in Thread, NEW t \in Task, RexecLocal(th, t)
      PROVE Exclusive'
  BY <1>1 DEF RexecLocal, Running
<1>2. ASSUME NEW th \in Thread, NEW t \in Task, NEW p \in Proc,
             EnqueueLock(th, t, p)
      PROVE Exclusive'
  BY <1>2 DEF EnqueueLock, Running
<1>3. ASSUME NEW th \in Thread, EnqueuePush(th)
      PROVE Exclusive'
  BY <1>3 DEF EnqueuePush
<1>4. ASSUME NEW th \in Thread, CommLock(th)
      PROVE Exclusive'
  BY <1>4 DEF CommLock, Running
<1>5. ASSUME NEW th \in Thread, CommUnlock(th)
      PROVE Exclusive'
  BY <1>5 DEF CommUnlock, Running
<1>6. ASSUME NEW th \in Thread, Crash(th)
      PROVE Exclusive'
  BY <1>6 DEF Crash
<1>7. ASSUME NEW th \in Thread, Finish(th)
      PROVE Exclusive'
  BY <1>7 DEF Finish, Running
<1>8. ASSUME NEW p \in Proc, LoopLock(p)
      PROVE Exclusive'
  BY <1>8 DEF LoopLock
<1>9. ASSUME NEW p \in Proc, TakeQueue(p)
      PROVE Exclusive'
  BY <1>9 DEF TakeQueue
<1>10. ASSUME NEW p \in Proc, NEW t \in Task, Isend(p, t)
      PROVE Exclusive'
  BY <1>10 DEF Isend
<1>11. ASSUME NEW p \in Proc, TestSends(p)
      PROVE Exclusive'
  BY <1>11 DEF TestSends
<1>12. ASSUME NEW p \in Proc, RecvNone(p)
      PROVE Exclusive'
  BY <1>12 DEF RecvNone
<1>13. ASSUME NEW p \in Proc, Continue(p)
      PROVE Exclusive'
  BY <1>13 DEF Continue, ReadyToTerminate
<1>14. ASSUME NEW p \in Proc, Leave(p)
      PROVE Exclusive'
  BY <1>14 DEF Leave, ReadyToTerminate
<1>15. ASSUME NEW p \in Proc, Cleanup(p)
      PROVE Exclusive'
  BY <1>15 DEF Cleanup
<1>16. ASSUME NEW p \in Proc, NEW t \in Task, RecvTask(p, t)
      PROVE Exclusive'
  BY <1>16 DEF RecvTask
<1>17. CASE UNCHANGED vars
  BY <1>17 DEF vars
<1>18. QED
  BY <1>1, <1>2, <1>3, <1>4, <1>5, <1>6, <1>7, <1>8, <1>9, <1>10, <1>11, <1>12,
     <1>13, <1>14, <1>15, <1>16, <1>17 DEF Next

LEMMA KeptStep ==
  ASSUME TypeOK, TypeOK', Located, Locks, Taken, Kept, [Next]_vars
  PROVE Kept'
<1> USE Constants DEF TypeOK, Locks, Taken, Kept, Thread, Fresh, loopVars,
   taskVars, mutexes
<1>1. ASSUME NEW th \in Thread, NEW t \in Task, RexecLocal(th, t)
      PROVE Kept'
  BY <1>1 DEF RexecLocal, Running
<1>2. ASSUME NEW th \in Thread, NEW t \in Task, NEW p \in Proc,
             EnqueueLock(th, t, p)
      PROVE Kept'
  BY <1>2 DEF EnqueueLock, Running
<1>3. ASSUME NEW th \in Thread, EnqueuePush(th)
      PROVE Kept'
  BY <1>3 DEF EnqueuePush
<1>4. ASSUME NEW th \in Thread, CommLock(th)
      PROVE Kept'
  BY <1>4 DEF CommLock, Running
<1>5. ASSUME NEW th \in Thread, CommUnlock(th)
      PROVE Kept'
  BY <1>5 DEF CommUnlock, Running
<1>6. ASSUME NEW th \in Thread, Crash(th)
      PROVE Kept'
  BY <1>6 DEF Crash
<1>7. ASSUME NEW th \in Thread, Finish(th)
      PROVE Kept'
  BY <1>7 DEF Finish, Running
<1>8. ASSUME NEW p \in Proc, LoopLock(p)
      PROVE Kept'
  BY <1>8 DEF LoopLock
<1>9. ASSUME NEW p \in Proc, TakeQueue(p)
      PROVE Kept'
  BY <1>9 DEF TakeQueue
<1>10. ASSUME NEW p \in Proc, NEW t \in Task, Isend(p, t)
      PROVE Kept'
  BY <1>10 DEF Isend
<1>11. ASSUME NEW p \in Proc, TestSends(p)
      PROVE Kept'
  BY <1>11 DEF TestSends
<1>12. ASSUME NEW p \in Proc, RecvNone(p)
      PROVE Kept'
  BY <1>12 DEF RecvNone
<1>13. ASSUME NEW p \in Proc, Continue(p)
      PROVE Kept'
  BY <1>13 DEF Continue, ReadyToTerminate
<1>14. ASSUME NEW p \in Proc, Leave(p)
      PROVE Kept'
  BY <1>14 DEF Leave, ReadyToTerminate
<1>15. ASSUME NEW p \in Proc, Cleanup(p)
      PROVE Kept'
  BY <1>15 DEF Cleanup
<1>16. ASSUME NEW p \in Proc, NEW t \in Task, RecvTask(p, t)
      PROVE Kept'
  BY <1>16 DEF RecvTask
<1>17. CASE UNCHANGED vars
  BY <1>17 DEF vars
<1>18. QED
  BY <1>1, <1>2, <1>3, <1>4, <1>5, <1>6, <1>7, <1>8, <1>9, <1>10, <1>11, <1>12,
     <1>13, <1>14, <1>15, <1>16, <1>17 DEF Next

-----------------------------------------------------------------------------
(* The theorems *)

LEMMA InvInit == Init => IInv
<1> SUFFICES ASSUME Init PROVE IInv
  OBVIOUS
<1>1. TypeOK
  BY TypeInit
<1>2. BarrierHolds
  BY Constants DEF Init, BarrierHolds, Left
<1>3. Located /\ Locks
  BY Constants DEF Init, Located, Locks, At, Thread
<1>4. Taken /\ Sent /\ Exclusive /\ Kept
  BY Constants DEF Init, Taken, Sent, Exclusive, Kept, Fresh, Thread
<1>5. QED
  BY <1>1, <1>2, <1>3, <1>4 DEF IInv

LEMMA InvStep == IInv /\ [Next]_vars => IInv'
<1> SUFFICES ASSUME IInv, [Next]_vars PROVE IInv'
  OBVIOUS
<1> USE DEF IInv
<1>1. TypeOK'
  BY TypeStep
<1>2. BarrierHolds'
  BY <1>1, BarrierStep
<1>3. Located' /\ Taken' /\ Sent'
  BY <1>1, LocatedStep, TakenStep, SentStep
<1>4. Locks' /\ Exclusive' /\ Kept'
  BY <1>1, LocksStep, ExclusiveStep, KeptStep
<1>5. QED
  BY <1>1, <1>2, <1>3, <1>4

LEMMA Invariance == Spec => []IInv
BY InvInit, InvStep, PTL DEF Spec

\* The event loops' state keeps its types: what a mutex, a queue or the hand
\* of a sender may hold, whatever the processes, mains and tasks.
THEOREM TypeCorrect == Spec => []TypeOK
BY Invariance, PTL DEF IInv

\* terminate_check: for any number of processes and any choice of those that
\* run main, none stops serving messages while a main is running anywhere.
THEOREM TerminationIsSafe == Spec => []BarrierHolds
BY Invariance, PTL DEF IInv

\* For any number of threads, comm_lock excludes send_tasks and recv_tasks,
\* and one thread at a time pushes to a queue.
THEOREM LocksExclude == Spec => []MutualExclusion
<1>1. IInv => MutualExclusion
  BY Constants DEF IInv, Locks, MutualExclusion, Thread
<1>2. QED
  BY <1>1, Invariance, PTL

\* Every task that was sent is in exactly one place, until eventloop returns.
THEOREM NothingIsSentTwice == Spec => []OnePlace
<1>1. IInv => OnePlace
  <2> SUFFICES ASSUME IInv, NEW t \in Task
               PROVE /\ \A x, y \in Places(t) : x = y
                     /\ (~Fresh(t) /\ \A p \in Proc : pc[p] # "returned")
                          => Places(t) # {}
    BY DEF OnePlace
  <2>1. \A x, y \in Places(t) : x = y
    BY DEF IInv, Exclusive, Places
  <2>2. ASSUME ~Fresh(t), \A p \in Proc : pc[p] # "returned"
        PROVE Places(t) # {}
    BY <2>2 DEF IInv, Kept, Places
  <2>3. QED
    BY <2>1, <2>2
<1>2. QED
  BY <1>1, Invariance, PTL

-----------------------------------------------------------------------------
(***************************************************************************)
(* The refinement.  Every step of the event loops and their threads is a   *)
(* step of TaskPool, or changes none of its variables.                     *)
(***************************************************************************)

mainBar == {p \in MainProc : thread[p] = "done"}

\* A task is in no place when no part of the state names it.
LEMMA NoPlace ==
  ASSUME NEW t \in Task
  PROVE  Places(t) = {} <=> /\ \A th \in Thread : hand[th] # t
                            /\ \A p \in Proc : t \notin sendQueue[p]
                            /\ \A p \in Proc : t \notin reqps[p]
                            /\ t \notin wire
                            /\ thread[t] = "none"
<1>1. ASSUME NEW th \in Thread, hand[th] = t PROVE <<"hand", th>> \in Places(t)
  BY <1>1 DEF Places
<1>2. ASSUME NEW p \in Proc, t \in sendQueue[p] PROVE <<"queue", p>> \in Places(t)
  BY <1>2 DEF Places
<1>3. ASSUME NEW p \in Proc, t \in reqps[p] PROVE <<"taken", p>> \in Places(t)
  BY <1>3 DEF Places
<1>4. t \in wire => <<"wire", dest[t]>> \in Places(t)
  BY DEF Places
<1>5. thread[t] # "none" => <<"started", dest[t]>> \in Places(t)
  BY DEF Places
<1>6. ASSUME \A th \in Thread : hand[th] # t, \A p \in Proc : t \notin sendQueue[p],
             \A p \in Proc : t \notin reqps[p], t \notin wire, thread[t] = "none"
      PROVE  Places(t) = {}
  BY <1>6 DEF Places
<1>7. QED BY <1>1, <1>2, <1>3, <1>4, <1>5, <1>6

\* Why a task that has not been started never will be.
Stranded(t) ==
  \/ Left(dest[t])
  \/ \E p \in Proc : pc[p] = "returned" /\ t \in sendQueue[p]
  \/ \E th \in Thread : hand[th] = t /\ pc[At(th)] = "returned"
  \/ /\ \A th \in Thread : hand[th] # t
     /\ \A p \in Proc : t \notin sendQueue[p]
     /\ \A p \in Proc : t \notin reqps[p]
     /\ t \notin wire

\* What the mapping says of the tasks, without their places.
Mapped ==
  \A t \in Task :
    stateBar[t] = IF Fresh(t) THEN "unsent"
                  ELSE IF thread[t] # "none" THEN "started"
                  ELSE IF Stranded(t) THEN "lost" ELSE "sent"

LEMMA StateBar == Mapped
  BY NoPlace DEF Mapped, stateBar, Undeliverable, Stranded

\* A step that changes no task's part in the mapping.
Quiet ==
  \A t \in Task :
    /\ Fresh(t)' <=> Fresh(t)
    /\ thread'[t] = "none" <=> thread[t] = "none"
    /\ ~Fresh(t) /\ thread[t] = "none" => (Stranded(t)' <=> Stranded(t))

\* The mapping depends on nothing else.
LEMMA QuietStep ==
  ASSUME Quiet
  PROVE  stateBar' = stateBar
<1>1. Mapped /\ Mapped'
  BY StateBar, PTL
<1>2. \A t \in Task : stateBar'[t] = stateBar[t]
  BY <1>1 DEF Mapped, Quiet
<1>3. QED BY <1>2 DEF stateBar

\* A process has left its loop only when every main has returned.
LEMMA LeftIsLate ==
  ASSUME IInv, NEW p \in Proc, Left(p)
  PROVE  mainBar = MainProc
  BY Constants DEF IInv, BarrierHolds, ReadyToTerminate, mainBar

\* No task is stranded before.
Late ==
  \A t \in Task :
    ~Fresh(t) /\ thread[t] = "none" /\ Stranded(t) => mainBar = MainProc

LEMMA StrandedIsLate == IInv => Late
<1> SUFFICES ASSUME IInv, NEW t \in Task, ~Fresh(t), thread[t] = "none", Stranded(t)
             PROVE  \E p \in Proc : Left(p)
  BY LeftIsLate DEF Late
<1>1. dest[t] \in Proc
  BY DEF IInv, TypeOK, Fresh
<1>2. \A p \in Proc : pc[p] = "returned" => Left(p)
  BY DEF Left
<1>3. ASSUME NEW th \in Thread, hand[th] = t PROVE At(th) \in Proc
  BY <1>3, Constants DEF IInv, Located
<1>4. (\A th \in Thread : hand[th] # t) /\ (\A p \in Proc : t \notin sendQueue[p])
        /\ (\A p \in Proc : t \notin reqps[p]) /\ t \notin wire
        => \E p \in Proc : pc[p] = "returned"
  BY DEF IInv, Kept
<1>5. QED BY <1>1, <1>2, <1>3, <1>4 DEF Stranded

\* A step that neither moves a task nor leaves a loop is quiet.
LEMMA QuietMeans ==
  ASSUME IInv, UNCHANGED <<hand, dest, sendQueue, reqps, wire>>,
         \A t \in Task : thread'[t] = "none" <=> thread[t] = "none",
         \A p \in Proc : /\ Left(p)' <=> Left(p)
                         /\ pc'[p] = "returned" <=> pc[p] = "returned"
  PROVE  stateBar' = stateBar
<1>1. ASSUME NEW t \in Task, ~Fresh(t), thread[t] = "none"
      PROVE  Stranded(t)' <=> Stranded(t)
  <2>1. dest[t] \in Proc
    BY <1>1 DEF IInv, TypeOK, Fresh
  <2>2. Left(dest[t])' <=> Left(dest[t])
    BY <2>1 DEF Left
  <2>3. ASSUME NEW th \in Thread, hand[th] = t
        PROVE  pc'[At(th)'] = "returned" <=> pc[At(th)] = "returned"
    <3>1. At(th) \in Proc /\ At(th)' = At(th)
      BY <2>3, Constants DEF IInv, Located, At
    <3>2. QED BY <3>1
  <2>4. QED BY <2>2, <2>3 DEF Stranded
<1>2. QED BY <1>1, QuietStep DEF Quiet, Fresh

\* Threads that lock, run and end, and a loop that stays in its round, do
\* nothing to the pool.
LEMMA QuietThreads ==
  ASSUME IInv, NEW th \in Thread,
         CommLock(th) \/ CommUnlock(th) \/ Crash(th) \/ Finish(th)
  PROVE  stateBar' = stateBar
<1>1. UNCHANGED <<pc, hand, dest, sendQueue, reqps, wire>>
  BY DEF CommLock, CommUnlock, Crash, Finish, taskVars, loopVars
<1>2. \A t \in Task : thread'[t] = "none" <=> thread[t] = "none"
  BY DEF CommLock, CommUnlock, Crash, Finish, Running, IInv, TypeOK, Thread
<1>3. QED BY <1>1, <1>2, QuietMeans DEF Left

LEMMA QuietLoop ==
  ASSUME IInv, NEW p \in Proc,
         LoopLock(p) \/ TestSends(p) \/ RecvNone(p) \/ Continue(p)
  PROVE  stateBar' = stateBar
<1>1. UNCHANGED <<thread, hand, dest, sendQueue, reqps, wire>>
  BY DEF LoopLock, TestSends, RecvNone, Continue, taskVars
<1>2. \A q \in Proc : /\ Left(q)' <=> Left(q)
                      /\ pc'[q] = "returned" <=> pc[q] = "returned"
  BY DEF LoopLock, TestSends, RecvNone, Continue, Left, IInv, TypeOK
<1>3. QED BY <1>1, <1>2, QuietMeans

\* A task goes from the hand of its sender to the queue, and from there to
\* MPI, while the process has not returned: it is on its way before and after.
LEMMA QuietPush ==
  ASSUME IInv, NEW th \in Thread, EnqueuePush(th)
  PROVE  stateBar' = stateBar
<1> PICK u \in Task : u = hand[th]
  BY DEF EnqueuePush, IInv, TypeOK
<1> PICK p \in Proc : p = At(th)
  BY DEF EnqueuePush, IInv, Located
<1>1. /\ sendQueue' = [sendQueue EXCEPT ![p] = @ \cup {u}]
      /\ hand' = [hand EXCEPT ![th] = Nothing]
      /\ UNCHANGED <<pc, thread, dest, reqps, wire>>
  BY DEF EnqueuePush, loopVars
<1>2. pc[p] # "returned"
  BY Constants DEF EnqueuePush, IInv, Locks, Thread
<1>3. \A t \in Task : /\ \A x \in Thread : hand[x] = t /\ hand'[x] # t => t = u /\ x = th
                      /\ \A x \in Thread : hand'[x] = t => hand[x] = t
                      /\ \A q \in Proc : t \in sendQueue'[q] <=>
                                           t \in sendQueue[q] \/ (q = p /\ t = u)
                      /\ ~(\E x \in Thread : hand'[x] = u)
  BY <1>1, Constants DEF IInv, TypeOK, Exclusive
<1>4. ASSUME NEW t \in Task PROVE Stranded(t)' <=> Stranded(t)
  <2>1. Left(dest[t])' <=> Left(dest[t])
    BY <1>1 DEF Left
  <2>2. \A x \in Thread : At(x)' = At(x)
    BY <1>1 DEF At
  <2>3. CASE t = u
    BY <1>1, <1>2, <1>3, <2>1, <2>2, <2>3 DEF Stranded, IInv, Exclusive
  <2>4. CASE t # u
    BY <1>1, <1>2, <1>3, <2>1, <2>2, <2>4 DEF Stranded
  <2>5. QED BY <2>3, <2>4
<1>5. QED BY <1>1, <1>4, QuietStep DEF Quiet, Fresh

\* A step that takes tasks from the queues and puts each elsewhere is quiet.
LEMMA QuietMove ==
  ASSUME IInv, UNCHANGED <<thread, hand, dest>>,
         \A q \in Proc : /\ Left(q)' <=> Left(q)
                         /\ pc'[q] = "returned" <=> pc[q] = "returned",
         \A t \in Task :
           /\ (\E q \in Proc : pc'[q] = "returned" /\ t \in sendQueue'[q])
                <=> (\E q \in Proc : pc[q] = "returned" /\ t \in sendQueue[q])
           /\ (\A q \in Proc : t \notin sendQueue'[q] \cup reqps'[q])
                /\ t \notin wire'
                <=> (\A q \in Proc : t \notin sendQueue[q] \cup reqps[q])
                      /\ t \notin wire
  PROVE  stateBar' = stateBar
<1>1. ASSUME NEW t \in Task, ~Fresh(t), thread[t] = "none"
      PROVE  Stranded(t)' <=> Stranded(t)
  <2>1. dest[t] \in Proc
    BY <1>1 DEF IInv, TypeOK, Fresh
  <2>2. Left(dest[t])' <=> Left(dest[t])
    BY <2>1 DEF Left
  <2>3. ASSUME NEW th \in Thread, hand[th] = t
        PROVE  pc'[At(th)'] = "returned" <=> pc[At(th)] = "returned"
    <3>1. At(th) \in Proc /\ At(th)' = At(th)
      BY <2>3, Constants DEF IInv, Located, At
    <3>2. QED BY <3>1
  <2>4. QED BY <2>2, <2>3 DEF Stranded
<1>2. QED BY <1>1, QuietStep DEF Quiet, Fresh

LEMMA QuietTake ==
  ASSUME IInv, NEW p \in Proc, TakeQueue(p)
  PROVE  stateBar' = stateBar
<1>1. /\ pc[p] = "take" /\ pc' = [pc EXCEPT ![p] = "send"]
      /\ sendQueue' = [sendQueue EXCEPT ![p] = {}]
      /\ reqps' = [reqps EXCEPT ![p] = sendQueue[p]]
      /\ UNCHANGED <<thread, hand, dest, wire>>
  BY DEF TakeQueue
<1>2. \A q \in Proc : /\ Left(q)' <=> Left(q)
                      /\ pc'[q] = "returned" <=> pc[q] = "returned"
  BY <1>1 DEF Left, IInv, TypeOK
<1>3. reqps[p] = {}
  BY <1>1 DEF IInv, Taken
<1>4. \A t \in Task, q \in Proc :
        /\ t \in sendQueue'[q] <=> t \in sendQueue[q] /\ q # p
        /\ t \in reqps'[q] <=> t \in reqps[q] \/ (q = p /\ t \in sendQueue[p])
  BY <1>1, <1>3 DEF IInv, TypeOK
<1>5. pc[p] # "returned"
  BY <1>1
<1>6. QED BY <1>1, <1>2, <1>4, <1>5, QuietMove

LEMMA QuietIsend ==
  ASSUME IInv, NEW p \in Proc, NEW u \in Task, Isend(p, u)
  PROVE  stateBar' = stateBar
<1>1. /\ u \in reqps[p]
      /\ reqps' = [reqps EXCEPT ![p] = @ \ {u}]
      /\ wire' = wire \cup {u}
      /\ UNCHANGED <<pc, thread, hand, dest, sendQueue>>
  BY DEF Isend, loopVars
<1>2. \A t \in Task, q \in Proc :
        t \in reqps'[q] <=> t \in reqps[q] /\ ~(q = p /\ t = u)
  BY <1>1 DEF IInv, TypeOK
<1>3. \A q \in Proc : Left(q)' <=> Left(q)
  BY <1>1 DEF Left
<1>4. ASSUME NEW t \in Task
      PROVE  (\A q \in Proc : t \notin sendQueue'[q] \cup reqps'[q])
               /\ t \notin wire'
               <=> (\A q \in Proc : t \notin sendQueue[q] \cup reqps[q])
                     /\ t \notin wire
  BY <1>1, <1>2
<1>5. QED BY <1>1, <1>3, <1>4, QuietMove

\* rexec to the own process starts the task at once.
LEMMA RexecSends ==
  ASSUME IInv, NEW th \in Thread, NEW t \in Task, RexecLocal(th, t)
  PROVE  \E p \in Proc : Pool!Send(t, p)
<1> PICK p \in Proc : p = At(th)
  BY DEF RexecLocal, Running, IInv, Located
<1>1. /\ Fresh(t) /\ Running(th)
      /\ dest' = [dest EXCEPT ![t] = p]
      /\ thread' = [thread EXCEPT ![t] = "run"]
      /\ UNCHANGED <<pc, hand, sendQueue, reqps, wire>>
  BY DEF RexecLocal, loopVars
<1>2. thread[t] = "none" /\ hand[t] = Nothing
  BY <1>1, Constants DEF IInv, Sent, Located, Thread
<1>3. \A q \in Task : q # t => stateBar'[q] = stateBar[q]
  <2> TAKE q \in Task
  <2> HAVE q # t
  <2>1. Fresh(q)' <=> Fresh(q)
    BY <1>1 DEF Fresh, IInv, TypeOK
  <2>2. thread'[q] = thread[q] /\ dest'[q] = dest[q]
    BY <1>1 DEF IInv, TypeOK
  <2>3. \A x \in Thread : hand[x] = q => At(x)' = At(x)
    BY <1>1, <1>2, Constants DEF At, IInv, TypeOK, Thread
  <2>4. Stranded(q)' <=> Stranded(q)
    BY <1>1, <2>2, <2>3 DEF Stranded, Left
  <2>5. Mapped /\ Mapped'
    BY StateBar, PTL
  <2>6. QED BY <2>1, <2>2, <2>4, <2>5 DEF Mapped
<1>4. stateBar[t] = "unsent" /\ stateBar'[t] = "started"
  <2>1. Mapped /\ Mapped'
    BY StateBar, PTL
  <2>2. ~Fresh(t)' /\ thread'[t] = "run"
    BY <1>1, Constants DEF Fresh, IInv, TypeOK, Thread
  <2>3. QED BY <1>1, <2>1, <2>2 DEF Mapped
<1>5. mainBar' = mainBar
  BY <1>1, <1>2, Constants DEF mainBar, IInv, TypeOK, Thread
<1>6. stateBar' = [stateBar EXCEPT ![t] = "started"]
  BY <1>3, <1>4 DEF stateBar
<1>7. QED BY <1>1, <1>4, <1>5, <1>6 DEF Pool!Send, mainBar

\* rexec to another process sends the task; if that process has left its
\* loop, the task is lost at once.
LEMMA EnqueueSends ==
  ASSUME IInv, IInv', NEW th \in Thread, NEW t \in Task, NEW p \in Proc,
         EnqueueLock(th, t, p)
  PROVE  Pool!Send(t, p)
<1>1. /\ Fresh(t) /\ Running(th)
      /\ dest' = [dest EXCEPT ![t] = p]
      /\ hand' = [hand EXCEPT ![th] = t]
      /\ UNCHANGED <<pc, thread, sendQueue, reqps, wire>>
  BY DEF EnqueueLock, loopVars
<1>2. thread[t] = "none" /\ hand[t] = Nothing /\ th # t
  BY <1>1, Constants DEF IInv, Sent, Located, Thread, Running
<1>3. Mapped /\ Mapped'
  BY StateBar, PTL
<1>4. \A q \in Task : q # t => stateBar'[q] = stateBar[q]
  <2> TAKE q \in Task
  <2> HAVE q # t
  <2>1. Fresh(q)' <=> Fresh(q)
    BY <1>1 DEF Fresh, IInv, TypeOK
  <2>2. dest'[q] = dest[q]
    BY <1>1 DEF IInv, TypeOK
  <2>3. \A x \in Thread : hand'[x] = q <=> hand[x] = q
    BY <1>1, Constants DEF Running, IInv, TypeOK
  <2>4. \A x \in Thread : hand[x] = q => At(x)' = At(x)
    BY <1>1, <1>2, Constants DEF At, IInv, TypeOK, Thread
  <2>5. Stranded(q)' <=> Stranded(q)
    BY <1>1, <2>2, <2>3, <2>4 DEF Stranded, Left
  <2>6. QED BY <1>1, <1>3, <2>1, <2>5 DEF Mapped
<1>5. ~Fresh(t)' /\ thread'[t] = "none"
  BY <1>1, <1>2, Constants DEF Fresh, IInv, TypeOK
<1>6. stateBar[t] = "unsent" /\ stateBar'[t] \in {"sent", "lost"}
  BY <1>1, <1>3, <1>5 DEF Mapped
<1>7. mainBar' = mainBar
  BY <1>1 DEF mainBar
<1>8. stateBar'[t] = "lost" => mainBar = MainProc
  <2>1. Late'
    BY StrandedIsLate, PTL
  <2>2. stateBar'[t] = "lost" => Stranded(t)'
    BY <1>3, <1>5 DEF Mapped
  <2>3. QED BY <1>5, <1>7, <2>1, <2>2 DEF Late
<1>9. stateBar' = [stateBar EXCEPT ![t] = stateBar'[t]]
  BY <1>4 DEF stateBar
<1>10. QED BY <1>1, <1>6, <1>7, <1>8, <1>9 DEF Pool!Send, mainBar

\* A task that arrives is on its way until then, and starts.
LEMMA RecvStarts ==
  ASSUME IInv, NEW p \in Proc, NEW t \in Task, RecvTask(p, t)
  PROVE  Pool!Start(t)
<1>1. /\ pc[p] = "recv" /\ t \in wire /\ dest[t] = p
      /\ wire' = wire \ {t}
      /\ thread' = [thread EXCEPT ![t] = "run"]
      /\ UNCHANGED <<pc, hand, dest, sendQueue, reqps>>
  BY DEF RecvTask, loopVars
<1>2. /\ ~Fresh(t) /\ thread[t] = "none"
      /\ \A th \in Thread : hand[th] # t
      /\ \A q \in Proc : t \notin sendQueue[q] /\ t \notin reqps[q]
  BY <1>1 DEF IInv, Sent, Exclusive
<1>3. ~Stranded(t)
  BY <1>1, <1>2 DEF Stranded, Left
<1>4. Mapped /\ Mapped'
  BY StateBar, PTL
<1>5. stateBar[t] = "sent" /\ stateBar'[t] = "started"
  <2>1. ~Fresh(t)' /\ thread'[t] = "run"
    BY <1>1, <1>2 DEF Fresh, IInv, TypeOK, Thread
  <2>2. QED BY <1>2, <1>3, <1>4, <2>1 DEF Mapped
<1>6. \A q \in Task : q # t => stateBar'[q] = stateBar[q]
  <2> TAKE q \in Task
  <2> HAVE q # t
  <2>1. Fresh(q)' <=> Fresh(q)
    BY <1>1 DEF Fresh
  <2>2. thread'[q] = thread[q]
    BY <1>1 DEF IInv, TypeOK
  <2>3. Stranded(q)' <=> Stranded(q)
    BY <1>1 DEF Stranded, Left, At
  <2>4. QED BY <1>4, <2>1, <2>2, <2>3 DEF Mapped
<1>7. stateBar' = [stateBar EXCEPT ![t] = "started"]
  BY <1>5, <1>6 DEF stateBar
<1>8. mainBar' = mainBar
  BY <1>1, <1>2, Constants DEF mainBar, IInv, TypeOK, Thread
<1>9. QED BY <1>1, <1>5, <1>7, <1>8 DEF Pool!Start, mainBar

\* A step that strands tasks, when every main has returned, loses them.
LEMMA LoseStep ==
  ASSUME mainBar = MainProc, UNCHANGED <<thread, dest>>,
         \A t \in Task : ~Fresh(t) /\ thread[t] = "none" /\ Stranded(t) => Stranded(t)'
  PROVE  \/ \E T \in SUBSET Task : Pool!Lose(T)
         \/ stateBar' = stateBar
<1>1. Mapped /\ Mapped'
  BY StateBar, PTL
<1>2. \A t \in Task : \/ stateBar'[t] = stateBar[t]
                      \/ stateBar[t] = "sent" /\ stateBar'[t] = "lost"
  BY <1>1 DEF Mapped, Fresh
<1> DEFINE T == {t \in Task : stateBar'[t] # stateBar[t]}
<1>3. stateBar' = [t \in Task |-> IF t \in T THEN "lost" ELSE stateBar[t]]
  BY <1>2 DEF stateBar
<1>4. \A t \in T : stateBar[t] = "sent"
  BY <1>2
<1>5. mainBar' = mainBar
  BY DEF mainBar
<1>6. CASE T = {}
  <2>1. \A t \in Task : stateBar'[t] = stateBar[t]
    BY <1>6
  <2>2. QED BY <2>1 DEF stateBar
<1>7. CASE T # {}
  <2>1. T \in SUBSET Task
    OBVIOUS
  <2> HIDE DEF T
  <2>2. Pool!Lose(T)
    BY <1>3, <1>4, <1>5, <1>7 DEF Pool!Lose, mainBar
  <2>3. QED BY <2>1, <2>2
<1>8. QED BY <1>6, <1>7

\* The first process to leave has seen every process in the barrier.
LEMMA LeaveLoses ==
  ASSUME IInv, NEW p \in Proc, Leave(p)
  PROVE  \/ \E T \in SUBSET Task : Pool!Lose(T)
         \/ stateBar' = stateBar
<1>1. /\ pc[p] = "check" /\ pc' = [pc EXCEPT ![p] = "cleanup"]
      /\ terminating' = [terminating EXCEPT ![p] = @ \/ ReadyToTerminate(p)]
      /\ \A q \in Proc : terminating'[q]
      /\ UNCHANGED <<thread, hand, dest, sendQueue, reqps, wire>>
  BY DEF Leave, taskVars
<1>2. \A q \in Proc : ReadyToTerminate(q)
  BY <1>1 DEF IInv, BarrierHolds, TypeOK
<1>3. mainBar = MainProc
  BY <1>2, Constants DEF mainBar, ReadyToTerminate
<1>4. \A q \in Proc : /\ Left(q) => Left(q)'
                      /\ pc'[q] = "returned" <=> pc[q] = "returned"
  BY <1>1 DEF Left, IInv, TypeOK
<1>5. ASSUME NEW t \in Task, ~Fresh(t), thread[t] = "none", Stranded(t)
      PROVE  Stranded(t)'
  <2>1. Left(dest[t]) => Left(dest[t])'
    BY <1>1, <1>4, <1>5 DEF IInv, TypeOK, Fresh, Left
  <2>2. ASSUME NEW th \in Thread, hand[th] = t, pc[At(th)] = "returned"
        PROVE  pc'[At(th)'] = "returned"
    <3>1. At(th) \in Proc /\ At(th)' = At(th)
      BY <1>1, <2>2, Constants DEF IInv, Located, At
    <3>2. QED BY <1>4, <2>2, <3>1
  <2>3. QED BY <1>1, <1>4, <1>5, <2>1, <2>2 DEF Stranded
<1>6. QED BY <1>1, <1>3, <1>5, LoseStep

\* cancel_sends may take back what nobody has received, and what is still in
\* the queue or in a sender's hand stays there.
LEMMA CleanupLoses ==
  ASSUME IInv, NEW p \in Proc, Cleanup(p)
  PROVE  \/ \E T \in SUBSET Task : Pool!Lose(T)
         \/ stateBar' = stateBar
<1>1. /\ pc[p] = "cleanup" /\ pc' = [pc EXCEPT ![p] = "returned"]
      /\ wire' \subseteq wire
      /\ UNCHANGED <<thread, hand, dest, sendQueue, reqps>>
  BY DEF Cleanup
<1>2. mainBar = MainProc
  BY <1>1, LeftIsLate DEF Left
<1>3. \A q \in Proc : /\ Left(q) => Left(q)'
                      /\ pc[q] = "returned" => pc'[q] = "returned"
  BY <1>1 DEF Left, IInv, TypeOK
<1>4. ASSUME NEW t \in Task, ~Fresh(t), thread[t] = "none", Stranded(t)
      PROVE  Stranded(t)'
  <2>1. Left(dest[t]) => Left(dest[t])'
    BY <1>1, <1>3, <1>4 DEF IInv, TypeOK, Fresh, Left
  <2>2. ASSUME NEW th \in Thread, hand[th] = t, pc[At(th)] = "returned"
        PROVE  pc'[At(th)'] = "returned"
    <3>1. At(th) \in Proc /\ At(th)' = At(th)
      BY <1>1, <2>2, Constants DEF IInv, Located, At
    <3>2. QED BY <1>3, <2>2, <3>1
  <2>3. QED BY <1>1, <1>3, <1>4, <2>1, <2>2 DEF Stranded
<1>5. QED BY <1>1, <1>2, <1>4, LoseStep

\* What a step does to the mains that have returned.
LEMMA MainStep ==
  ASSUME IInv, [Next]_vars
  PROVE  \/ mainBar' = mainBar
         \/ \E p \in MainProc \ mainBar :
              /\ Finish(p)
              /\ mainBar' = mainBar \cup {p}
<1>1. ASSUME NEW th \in Thread, Finish(th)
      PROVE  \/ mainBar' = mainBar
             \/ th \in MainProc \ mainBar /\ mainBar' = mainBar \cup {th}
  <2>1. thread[th] = "run" /\ thread' = [thread EXCEPT ![th] = "done"]
    BY <1>1 DEF Finish, Running
  <2>2. \A p \in MainProc : thread'[p] = "done" <=> thread[p] = "done" \/ p = th
    BY <2>1 DEF IInv, TypeOK, Thread
  <2>3. QED BY <2>1, <2>2 DEF mainBar
<1>2. ASSUME NEW th \in Thread, Crash(th) PROVE mainBar' = mainBar
  <2>1. \A p \in MainProc : thread'[p] = "done" <=> thread[p] = "done"
    BY <1>2 DEF Crash, IInv, TypeOK, Thread
  <2>2. QED BY <2>1 DEF mainBar
<1>3. ASSUME NEW t \in Task, thread' = [thread EXCEPT ![t] = "run"]
      PROVE  mainBar' = mainBar
  <2>1. \A p \in MainProc : p # t
    BY Constants
  <2>2. \A p \in MainProc : thread'[p] = thread[p]
    BY <1>3, <2>1 DEF IInv, TypeOK, Thread
  <2>3. QED BY <2>2 DEF mainBar
<1>4. ASSUME thread' = thread PROVE mainBar' = mainBar
  BY <1>4 DEF mainBar
<1>5. ASSUME NEW th \in Thread, NEW t \in Task, RexecLocal(th, t) \/ \E p \in Proc : EnqueueLock(th, t, p)
      PROVE  mainBar' = mainBar
  BY <1>3, <1>4, <1>5 DEF RexecLocal, EnqueueLock
<1>6. ASSUME NEW th \in Thread, EnqueuePush(th) \/ CommLock(th) \/ CommUnlock(th)
      PROVE  mainBar' = mainBar
  BY <1>4, <1>6 DEF EnqueuePush, CommLock, CommUnlock
<1>7. ASSUME NEW p \in Proc,
             \/ LoopLock(p) \/ TakeQueue(p) \/ TestSends(p) \/ RecvNone(p)
             \/ Continue(p) \/ Leave(p) \/ Cleanup(p)
             \/ \E t \in Task : Isend(p, t) \/ RecvTask(p, t)
      PROVE  mainBar' = mainBar
  BY <1>3, <1>4, <1>7
     DEF LoopLock, TakeQueue, Isend, TestSends, RecvNone, Continue, Leave,
         Cleanup, RecvTask
<1>8. CASE UNCHANGED vars
  BY <1>4, <1>8 DEF vars
<1>9. QED BY <1>1, <1>2, <1>5, <1>6, <1>7, <1>8 DEF Next

\* The variables of TaskPool under the mapping.
bars == <<mainBar, dest, stateBar>>

\* A step that is quiet for the tasks is a main that returns, or nothing.
LEMMA QuietRefines ==
  ASSUME IInv, [Next]_vars, stateBar' = stateBar, dest' = dest
  PROVE  Pool!Next \/ UNCHANGED bars
<1>1. ASSUME NEW p \in MainProc \ mainBar, mainBar' = mainBar \cup {p}
      PROVE  Pool!Returned(p)
  BY <1>1 DEF Pool!Returned, mainBar
<1>2. QED BY <1>1, MainStep DEF Pool!Next, bars

\* A step of the event loops is one of TaskPool's, or none.
LEMMA StepRefines == IInv /\ IInv' /\ [Next]_vars => [Pool!Next]_bars
<1> SUFFICES ASSUME IInv, IInv', [Next]_vars
             PROVE  Pool!Next \/ UNCHANGED bars
  OBVIOUS
<1>1. ASSUME NEW th \in Thread, NEW t \in Task, RexecLocal(th, t)
      PROVE  Pool!Next
  BY <1>1, RexecSends DEF Pool!Next
<1>2. ASSUME NEW th \in Thread, NEW t \in Task, NEW p \in Proc,
             EnqueueLock(th, t, p)
      PROVE  Pool!Next
  BY <1>2, EnqueueSends DEF Pool!Next
<1>3. ASSUME NEW th \in Thread, EnqueuePush(th)
      PROVE  Pool!Next \/ UNCHANGED bars
  BY <1>3, QuietPush, QuietRefines DEF EnqueuePush
<1>4. ASSUME NEW th \in Thread,
             CommLock(th) \/ CommUnlock(th) \/ Crash(th) \/ Finish(th)
      PROVE  Pool!Next \/ UNCHANGED bars
  <2>1. dest' = dest
    BY <1>4 DEF CommLock, CommUnlock, Crash, Finish, taskVars
  <2>2. QED BY <1>4, <2>1, QuietThreads, QuietRefines
<1>5. ASSUME NEW p \in Proc, LoopLock(p) \/ TestSends(p) \/ RecvNone(p) \/ Continue(p)
      PROVE  Pool!Next \/ UNCHANGED bars
  <2>1. dest' = dest
    BY <1>5 DEF LoopLock, TestSends, RecvNone, Continue, taskVars
  <2>2. QED BY <1>5, <2>1, QuietLoop, QuietRefines
<1>6. ASSUME NEW p \in Proc, TakeQueue(p) \/ \E t \in Task : Isend(p, t)
      PROVE  Pool!Next \/ UNCHANGED bars
  <2>1. dest' = dest /\ stateBar' = stateBar
    BY <1>6, QuietTake, QuietIsend DEF TakeQueue, Isend
  <2>2. QED BY <2>1, QuietRefines
<1>7. ASSUME NEW p \in Proc, NEW t \in Task, RecvTask(p, t)
      PROVE  Pool!Next
  BY <1>7, RecvStarts DEF Pool!Next
<1>8. ASSUME NEW p \in Proc, Leave(p)
      PROVE  Pool!Next \/ UNCHANGED bars
  <2>1. dest' = dest
    BY <1>8 DEF Leave, taskVars
  <2>2. QED BY <1>8, <2>1, LeaveLoses, QuietRefines DEF Pool!Next
<1>9. ASSUME NEW p \in Proc, Cleanup(p)
      PROVE  Pool!Next \/ UNCHANGED bars
  BY <1>9, CleanupLoses, QuietRefines DEF Pool!Next, Cleanup
<1>10. CASE UNCHANGED vars
  <2>1. stateBar' = stateBar
    BY <1>10, QuietMeans DEF vars, Left
  <2>2. QED BY <1>10, <2>1, QuietRefines DEF vars
<1>11. QED
  BY <1>1, <1>2, <1>3, <1>4, <1>5, <1>6, <1>7, <1>8, <1>9, <1>10 DEF Next

\* For any number of processes, mains and tasks, the event loops are a pool
\* of tasks: each task sent is started at most once and where it was sent to,
\* none is started that was not sent, and none is lost before every user's
\* main has returned.
THEOREM ImplementsPool == Spec => Pool!SafeSpec
<1>1. Init => Pool!Init
  <2> SUFFICES ASSUME Init PROVE Pool!Init
    OBVIOUS
  <2>1. mainBar = {}
    BY Constants DEF Init, mainBar, Thread
  <2>2. stateBar = [t \in Task |-> "unsent"]
    BY DEF Init, stateBar, Fresh
  <2>3. QED BY <2>1, <2>2 DEF Init, Pool!Init, mainBar
<1>2. [Pool!Next]_bars => [Pool!Next]_(Pool!vars)
  BY DEF Pool!vars, bars, mainBar
<1>3. QED
  BY <1>1, <1>2, StepRefines, Invariance, PTL DEF Spec, Pool!SafeSpec

=============================================================================
