-------------------------- MODULE AllThreads_proofs --------------------------
(***************************************************************************)
(* Proofs about all_threads::run, for any number of workers and tasks.     *)
(* The invariant counts workers, not tasks: the workers that are held by a *)
(* task with a sequence number below nthreads, and those of them whose     *)
(* task has counted itself done.  Then about initialize, which calls it,   *)
(* and about the nodes, ranks and PUs that it hands out.                   *)
(***************************************************************************)
EXTENDS Affinity, FiniteSetTheorems, WellFoundedInduction, TLAPS

\* Tasks that have taken a sequence number.
Begun == {t \in Task : pc[t] \notin {"unborn", "begin"}}

Holds(w, S) == runs[w] \in Task /\ pc[runs[w]] \in S

\* Workers held until all are done, and those whose task waits for the others.
Staying == {w \in Worker : Holds(w, {"gather", "done", "leave"})}
Leaving == {w \in Worker : Holds(w, {"leave"})}

Types ==
  /\ \A t \in Task : pc[t] \in {"unborn", "begin", "gather", "done", "leave", "end"}
  /\ pc[Caller] \in {"fork", "get", "returned"}
  /\ pc \in [Thread -> {"unborn", "begin", "gather", "done", "leave", "end",
                        "fork", "get", "returned"}]
  /\ runs \in [Worker -> Thread \cup {Nobody}]
  /\ ran \in [Worker -> Nat]
  /\ count_begin \in Nat
  /\ count_done \in Nat

\* A task that stays has a worker, a worker has a task that has not ended, and
\* no task has two.
Placed ==
  /\ \A t \in Task : pc[t] \in {"gather", "done", "leave"} => Runs(t)
  /\ \A w \in Worker : runs[w] \in Task =>
       Holds(w, {"begin", "gather", "done", "leave"})
  /\ \A v, w \in Worker : runs[v] = runs[w] /\ runs[v] \in Task => v = w

\* Before the last task is done, nobody who stays has left.
Gathering ==
  /\ count_done = Cardinality(Leaving)
  /\ IF count_begin < nthreads THEN Cardinality(Staying) = count_begin
                               ELSE Staying = Worker
  /\ \A w \in Worker : ran[w] = IF Holds(w, {"done", "leave"}) THEN 1 ELSE 0

\* Afterwards every worker has run f.
Finished ==
  /\ count_done = nthreads
  /\ count_begin >= nthreads
  /\ \A w \in Worker : ran[w] = 1
  /\ \A t \in Task : pc[t] \notin {"gather", "done"}

IInv ==
  /\ Types
  /\ Placed
  /\ count_begin = Cardinality(Begun)
  /\ IF count_done < nthreads THEN Gathering ELSE Finished
  /\ pc[Caller] = "returned" => \A t \in Task : pc[t] = "end"

-----------------------------------------------------------------------------
(* Counting *)

LEMMA Sizes ==
  /\ nthreads \in Nat /\ nthreads > 0
  /\ Cardinality(Task) \in Nat /\ Cardinality(Task) >= nthreads
BY AllThreadsAssumption, FS_CardinalityType, FS_EmptySet DEF nthreads

\* A set of workers is finite, and is all of them when it has their number.
LEMMA WorkerSet ==
  ASSUME NEW S, S \subseteq Worker
  PROVE  /\ IsFiniteSet(S) /\ Cardinality(S) \in Nat
         /\ Cardinality(S) <= nthreads
         /\ Cardinality(S) = nthreads => S = Worker
<1>1. S \in SUBSET Worker
  OBVIOUS
<1>2. IsFiniteSet(Worker)
  BY AllThreadsAssumption
<1>3. /\ IsFiniteSet(S) /\ Cardinality(S) <= Cardinality(Worker)
      /\ Cardinality(Worker) = Cardinality(S) => Worker = S
  BY <1>1, <1>2, FS_Subset
<1>4. QED BY <1>3, FS_CardinalityType DEF nthreads

LEMMA TaskSet ==
  ASSUME NEW S, S \subseteq Task
  PROVE  /\ IsFiniteSet(S) /\ Cardinality(S) \in Nat
         /\ Cardinality(S) <= Cardinality(Task)
<1>1. S \in SUBSET Task
  OBVIOUS
<1>2. IsFiniteSet(Task)
  BY AllThreadsAssumption
<1>3. IsFiniteSet(S) /\ Cardinality(S) <= Cardinality(Task)
  BY <1>1, <1>2, FS_Subset
<1>4. QED BY <1>3, FS_CardinalityType

-----------------------------------------------------------------------------
(* The steps *)

LEMMA IInvInit == Init => IInv
<1> SUFFICES ASSUME Init PROVE IInv
  OBVIOUS
<1>1. Types
  BY AllThreadsAssumption DEF Init, Types, Thread
<1>2. \A w \in Worker : runs[w] \notin Task
  BY AllThreadsAssumption DEF Init
<1>3. Placed
  BY <1>2, AllThreadsAssumption DEF Init, Placed, Thread
<1>4. Begun = {} /\ Staying = {} /\ Leaving = {}
  BY <1>2, AllThreadsAssumption DEF Init, Begun, Staying, Leaving, Holds, Thread
<1>5. QED
  BY <1>1, <1>2, <1>3, <1>4, Sizes, FS_EmptySet, AllThreadsAssumption
     DEF Init, IInv, Gathering, Holds, Thread

LEMMA ForkStep ==
  ASSUME IInv, NEW t \in Task, Fork(t)
  PROVE  IInv'
<1>1. /\ pc[t] = "unborn" /\ pc' = [pc EXCEPT ![t] = "begin"]
      /\ pc[Caller] = "fork" /\ Caller # t
      /\ UNCHANGED <<count_begin, count_done, runs, ran>>
  BY AllThreadsAssumption DEF Fork
<1>2. \A w \in Worker : runs[w] # t
  BY <1>1 DEF IInv, Placed, Holds
<1>3. Types'
  BY <1>1 DEF IInv, Types, Thread
<1>4. \A w \in Worker : \A S : Holds(w, S)' <=> Holds(w, S)
  BY <1>1, <1>2 DEF IInv, Types, Holds, Thread
<1>5. Begun' = Begun /\ Staying' = Staying /\ Leaving' = Leaving
  <2>1. Begun' = Begun
    BY <1>1 DEF IInv, Types, Begun, Thread
  <2>2. QED BY <2>1, <1>4 DEF Staying, Leaving
<1>6. Placed'
  BY <1>1, <1>2 DEF IInv, Types, Placed, Holds, Runs, Thread
<1>7. (count_done < nthreads => Gathering') /\ (~(count_done < nthreads) => Finished')
  BY <1>1, <1>4, <1>5 DEF IInv, Types, Gathering, Finished, Thread, nthreads
<1>8. QED BY <1>1, <1>3, <1>5, <1>6, <1>7 DEF IInv, Types, Thread, nthreads

\* The caller gives up its worker, or an idle worker takes a task: no task
\* that has begun is concerned.
LEMMA SwitchStep ==
  ASSUME IInv, NEW w \in Worker,
         \/ Get(w)
         \/ \E t \in Task : Dispatch(w, t)
  PROVE  IInv'
<1>1. /\ runs[w] \notin Task
      /\ \E x \in Task \cup {Nobody} :
           /\ runs' = [runs EXCEPT ![w] = x]
           /\ x \in Task => pc[x] = "begin" /\ ~Runs(x)
      /\ \A t \in Task : pc'[t] = pc[t]
      /\ UNCHANGED <<count_begin, count_done, ran>>
  BY AllThreadsAssumption DEF IInv, Types, Get, Dispatch, Thread
<1>2. Types'
  <2>1. runs' \in [Worker -> Thread \cup {Nobody}]
    BY <1>1 DEF IInv, Types, Thread
  <2>2. \/ UNCHANGED pc
        \/ pc[Caller] = "fork" /\ pc' = [pc EXCEPT ![Caller] = "get"]
    BY DEF Get, Dispatch
  <2>3. pc' \in [Thread -> {"unborn", "begin", "gather", "done", "leave", "end",
                            "fork", "get", "returned"}]
    BY <2>2 DEF IInv, Types
  <2>4. pc'[Caller] \in {"fork", "get", "returned"}
    BY <2>2 DEF IInv, Types, Thread
  <2>5. QED BY <1>1, <2>1, <2>3, <2>4 DEF IInv, Types
<1>3. \A v \in Worker : \A S : "begin" \notin S => (Holds(v, S)' <=> Holds(v, S))
  BY <1>1, AllThreadsAssumption DEF IInv, Types, Holds, Thread
<1>4. Begun' = Begun /\ Staying' = Staying /\ Leaving' = Leaving
  <2>1. Begun' = Begun
    BY <1>1 DEF Begun
  <2>2. QED BY <2>1, <1>3 DEF Staying, Leaving
<1>5. Placed'
  BY <1>1, AllThreadsAssumption DEF IInv, Types, Placed, Holds, Runs, Thread
<1>6. (count_done < nthreads => Gathering') /\ (~(count_done < nthreads) => Finished')
  BY <1>1, <1>3, <1>4 DEF IInv, Types, Gathering, Finished, nthreads
<1>7. \/ pc[Caller] # "returned" /\ pc'[Caller] # "returned"
      \/ UNCHANGED pc
  BY <1>1 DEF IInv, Types, Get, Dispatch, Thread
<1>8. QED BY <1>1, <1>2, <1>4, <1>5, <1>6, <1>7 DEF IInv, nthreads

LEMMA BeginStep ==
  ASSUME IInv, NEW w \in Worker, NEW t \in Task, Begin(w, t)
  PROVE  IInv'
<1>1. /\ runs[w] = t /\ pc[t] = "begin" /\ t # Caller
      /\ count_begin' = count_begin + 1
      /\ UNCHANGED <<count_done, ran>>
      /\ Holds(w, {"begin"})
      /\ w \notin Staying
  BY AllThreadsAssumption DEF Begin, Holds, Staying
<1>2. count_begin' = Cardinality(Begun')
  <2>1. Begun' = Begun \cup {t} /\ t \notin Begun
    BY <1>1 DEF IInv, Types, Begun, Begin, Thread
  <2>2. IsFiniteSet(Begun)
    BY TaskSet DEF Begun
  <2>3. QED BY <1>1, <2>1, <2>2, FS_AddElement DEF IInv
<1>3. Types'
  BY <1>1, AllThreadsAssumption DEF IInv, Types, Begin, Thread
<1>4. \A v \in Worker : v # w => runs[v] # t /\ runs'[v] = runs[v]
  BY <1>1 DEF IInv, Types, Placed, Begin
<1>5. Placed'
  BY <1>1, <1>4, AllThreadsAssumption
     DEF IInv, Types, Placed, Begin, Holds, Runs, Thread
<1>6. CASE count_begin >= nthreads
  <2>1. ~(count_done < nthreads)
    BY <1>1, <1>6, Sizes DEF IInv, Types, Gathering
  <2>2. Finished /\ pc' = [pc EXCEPT ![t] = "end"]
    BY <1>6, <2>1 DEF IInv, Begin
  <2>3. Finished'
    BY <1>1, <2>2, Sizes DEF IInv, Types, Finished, Thread, nthreads
  <2>4. QED BY <1>1, <1>2, <1>3, <1>5, <2>1, <2>2, <2>3
            DEF IInv, Types, Thread, nthreads
<1>7. CASE ~(count_begin >= nthreads)
  <2>1. count_begin < nthreads /\ count_done < nthreads /\ Gathering
    BY <1>7, Sizes DEF IInv, Types, Finished
  <2>2. pc' = [pc EXCEPT ![t] = "gather"] /\ UNCHANGED runs
    BY <1>7 DEF Begin
  <2>3. \A v \in Worker : \A S :
          v # w => (Holds(v, S)' <=> Holds(v, S))
    BY <1>4, <2>2 DEF IInv, Types, Holds, Thread
  <2>4. \A S : Holds(w, S)' <=> "gather" \in S
    BY <1>1, <2>2 DEF IInv, Types, Holds, Thread
  <2>5. Staying' = Staying \cup {w} /\ Leaving' = Leaving
    BY <1>1, <2>3, <2>4 DEF Staying, Leaving, Holds
  <2>6. Cardinality(Staying') = Cardinality(Staying) + 1
    BY <1>1, <2>5, WorkerSet, FS_AddElement DEF Staying
  <2>7. Cardinality(Staying') = count_begin'
    BY <1>1, <2>1, <2>6 DEF Gathering
  <2>8. Staying' \subseteq Worker
    BY DEF Staying
  <2>9. count_begin' < nthreads \/ Staying' = Worker
    BY <1>1, <2>1, <2>7, <2>8, WorkerSet, Sizes DEF IInv, Types
  <2>10. \A v \in Worker : ran'[v] = IF Holds(v, {"done", "leave"})' THEN 1 ELSE 0
    BY <1>1, <2>1, <2>3, <2>4 DEF Gathering, Holds
  <2>11. Gathering'
    <3>1. (IF count_begin < nthreads THEN Cardinality(Staying) = count_begin
                                     ELSE Staying = Worker)'
      BY <2>7, <2>9 DEF nthreads
    <3>2. QED BY <1>1, <2>1, <2>5, <2>10, <3>1 DEF Gathering
  <2>12. QED BY <1>1, <1>2, <1>3, <1>5, <2>1, <2>2, <2>11
             DEF IInv, Types, Thread, nthreads
<1>8. QED BY <1>6, <1>7

LEMMA WorkStep ==
  ASSUME IInv, NEW w \in Worker, NEW t \in Task, Work(w, t)
  PROVE  IInv'
<1>1. /\ runs[w] = t /\ pc[t] = "gather" /\ t # Caller
      /\ pc' = [pc EXCEPT ![t] = "done"]
      /\ ran' = [ran EXCEPT ![w] = @ + 1]
      /\ UNCHANGED <<count_begin, count_done, runs>>
      /\ Holds(w, {"gather"}) /\ ~Holds(w, {"done", "leave"})
  BY AllThreadsAssumption DEF Work, Holds
<1>2. count_done < nthreads /\ Gathering
  BY <1>1 DEF IInv, Finished
<1>3. Types'
  BY <1>1, AllThreadsAssumption DEF IInv, Types, Thread
<1>4. \A v \in Worker : v # w => runs[v] # t
  BY <1>1 DEF IInv, Placed
<1>5. Placed'
  BY <1>1, <1>4 DEF IInv, Types, Placed, Holds, Runs, Thread
<1>6. /\ \A v \in Worker : \A S : v # w => (Holds(v, S)' <=> Holds(v, S))
      /\ \A S : Holds(w, S)' <=> "done" \in S
  BY <1>1, <1>4 DEF IInv, Types, Holds, Thread
<1>7. Begun' = Begun /\ Staying' = Staying /\ Leaving' = Leaving
  <2>1. Begun' = Begun
    BY <1>1 DEF IInv, Types, Begun, Thread
  <2>2. QED BY <2>1, <1>1, <1>6 DEF Staying, Leaving, Holds
<1>8. \A v \in Worker : ran'[v] = IF Holds(v, {"done", "leave"})' THEN 1 ELSE 0
  BY <1>1, <1>2, <1>6 DEF IInv, Types, Gathering
<1>9. Gathering'
  BY <1>1, <1>2, <1>7, <1>8 DEF Gathering, nthreads
<1>10. QED BY <1>1, <1>2, <1>3, <1>5, <1>7, <1>9
           DEF IInv, Types, Thread, nthreads

LEMMA DoneStep ==
  ASSUME IInv, NEW w \in Worker, NEW t \in Task, Done(w, t)
  PROVE  IInv'
<1>1. /\ runs[w] = t /\ pc[t] = "done" /\ t # Caller
      /\ pc' = [pc EXCEPT ![t] = "leave"]
      /\ count_done' = count_done + 1
      /\ UNCHANGED <<count_begin, runs, ran>>
      /\ Holds(w, {"done"}) /\ ~Holds(w, {"leave"})
  BY AllThreadsAssumption DEF Done, Holds
<1>2. count_done < nthreads /\ Gathering
  BY <1>1 DEF IInv, Finished
<1>3. Types'
  BY <1>1, AllThreadsAssumption DEF IInv, Types, Thread
<1>4. \A v \in Worker : v # w => runs[v] # t
  BY <1>1 DEF IInv, Placed
<1>5. Placed'
  BY <1>1, <1>4 DEF IInv, Types, Placed, Holds, Runs, Thread
<1>6. /\ \A v \in Worker : \A S : v # w => (Holds(v, S)' <=> Holds(v, S))
      /\ \A S : Holds(w, S)' <=> "leave" \in S
  BY <1>1, <1>4 DEF IInv, Types, Holds, Thread
<1>7. Begun' = Begun
  BY <1>1 DEF IInv, Types, Begun, Thread
<1>8. Staying' = Staying /\ Leaving' = Leaving \cup {w} /\ w \notin Leaving
  <2>1. \A v \in Worker : Holds(v, {"gather", "done", "leave"})'
                           <=> Holds(v, {"gather", "done", "leave"})
    BY <1>1, <1>6 DEF Holds
  <2>2. \A v \in Worker : Holds(v, {"leave"})' <=> v = w \/ Holds(v, {"leave"})
    BY <1>6
  <2>3. Staying' = Staying
    BY <2>1 DEF Staying
  <2>4. Leaving' = Leaving \cup {w} /\ w \notin Leaving
    BY <1>1, <2>2 DEF Leaving
  <2>5. QED
    BY <2>3, <2>4
<1>9. Cardinality(Leaving') = count_done'
  BY <1>1, <1>2, <1>8, WorkerSet, FS_AddElement DEF Leaving, Gathering
<1>10. \A v \in Worker : ran'[v] = IF Holds(v, {"done", "leave"})' THEN 1 ELSE 0
  BY <1>1, <1>2, <1>6 DEF Gathering, Holds
<1>11. CASE count_done' < nthreads
  <2>1. Gathering'
    BY <1>1, <1>2, <1>8, <1>9, <1>10 DEF Gathering, nthreads
  <2>2. QED BY <1>1, <1>3, <1>5, <1>7, <1>11, <2>1
            DEF IInv, Types, Thread, nthreads
<1>12. CASE ~(count_done' < nthreads)
  <2>1. count_done' = nthreads
    BY <1>1, <1>2, <1>12, Sizes DEF IInv, Types
  <2>2. Leaving' = Worker
    <3>1. Leaving' \subseteq Worker
      BY DEF Leaving
    <3>2. QED BY <1>9, <2>1, <3>1, WorkerSet
  <2>3. Staying = Worker
    BY <1>8, <2>2 DEF Staying, Leaving, Holds
  <2>4. count_begin >= nthreads
    BY <1>2, <2>3, Sizes DEF IInv, Types, Gathering, nthreads
  <2>5. \A v \in Worker : Holds(v, {"leave"})'
    BY <2>2 DEF Leaving
  <2>6. \A v \in Worker : ran'[v] = 1
    BY <1>10, <2>5 DEF Holds
  <2>7. \A u \in Task : pc'[u] \notin {"gather", "done"}
    <3> SUFFICES ASSUME NEW u \in Task, pc'[u] \in {"gather", "done"}
                 PROVE  FALSE
      OBVIOUS
    <3>1. PICK v \in Worker : runs'[v] = u
      BY <1>5 DEF Placed, Runs
    <3>2. QED BY <2>5, <3>1 DEF Holds
  <2>8. Finished'
    BY <1>1, <2>1, <2>4, <2>6, <2>7 DEF Finished, nthreads
  <2>9. QED BY <1>1, <1>3, <1>5, <1>7, <1>12, <2>8
            DEF IInv, Types, Thread, nthreads
<1>13. QED BY <1>11, <1>12

LEMMA LeaveStep ==
  ASSUME IInv, NEW w \in Worker, NEW t \in Task, Leave(w, t)
  PROVE  IInv'
<1>1. /\ runs[w] = t /\ pc[t] = "leave" /\ t # Caller /\ count_done >= nthreads
      /\ pc' = [pc EXCEPT ![t] = "end"]
      /\ runs' = [runs EXCEPT ![w] = Nobody]
      /\ UNCHANGED <<count_begin, count_done, ran>>
  BY AllThreadsAssumption DEF Leave
<1>2. ~(count_done < nthreads) /\ Finished
  BY <1>1, Sizes DEF IInv, Types
<1>3. Types'
  BY <1>1, AllThreadsAssumption DEF IInv, Types, Thread
<1>4. \A v \in Worker : v # w => runs[v] # t
  BY <1>1 DEF IInv, Placed
<1>5. Placed'
  BY <1>1, <1>4, AllThreadsAssumption DEF IInv, Types, Placed, Holds, Runs, Thread
<1>6. Begun' = Begun
  BY <1>1 DEF IInv, Types, Begun, Thread
<1>7. Finished'
  BY <1>1, <1>2 DEF IInv, Types, Finished, Thread, nthreads
<1>8. QED BY <1>1, <1>2, <1>3, <1>5, <1>6, <1>7 DEF IInv, Types, Thread, nthreads

LEMMA ReturnStep == ASSUME IInv, Return PROVE IInv'
<1>1. /\ pc' = [pc EXCEPT ![Caller] = "returned"]
      /\ \A t \in Task : pc[t] = "end" /\ pc'[t] = "end"
      /\ UNCHANGED <<count_begin, count_done, runs, ran>>
  BY AllThreadsAssumption DEF Return, IInv, Types, Thread
<1>2. Types'
  BY <1>1 DEF IInv, Types, Thread
<1>3. \A v \in Worker : \A S : Holds(v, S)' <=> Holds(v, S)
  BY <1>1 DEF Holds
<1>4. Begun' = Begun /\ Staying' = Staying /\ Leaving' = Leaving
  BY <1>1, <1>3 DEF Begun, Staying, Leaving
<1>5. Placed'
  BY <1>1 DEF IInv, Placed, Holds, Runs
<1>6. (count_done < nthreads => Gathering') /\ (~(count_done < nthreads) => Finished')
  BY <1>1, <1>3, <1>4 DEF IInv, Gathering, Finished, nthreads
<1>7. QED BY <1>1, <1>2, <1>4, <1>5, <1>6 DEF IInv, nthreads

LEMMA IInvStep == IInv /\ [Next]_vars => IInv'
<1> SUFFICES ASSUME IInv, [Next]_vars PROVE IInv'
  OBVIOUS
<1>1. CASE \E t \in Task : Fork(t)
  BY <1>1, ForkStep
<1>2. CASE \E w \in Worker : Get(w)
  BY <1>2, SwitchStep
<1>3. ASSUME NEW w \in Worker, NEW t \in Task, Dispatch(w, t) PROVE IInv'
  BY <1>3, SwitchStep
<1>4. ASSUME NEW w \in Worker, NEW t \in Task, Run(w, t) PROVE IInv'
  BY <1>4, BeginStep, WorkStep, DoneStep, LeaveStep DEF Run
<1>5. CASE Return
  BY <1>5, ReturnStep
<1>6. CASE UNCHANGED vars
  BY <1>6 DEF vars, IInv, Types, Placed, Gathering, Finished, Begun, Staying,
              Leaving, Holds, Runs, nthreads
<1>7. QED BY <1>1, <1>2, <1>3, <1>4, <1>5, <1>6 DEF Next

LEMMA Invariance == Spec => []IInv
BY IInvInit, IInvStep, PTL DEF Spec

-----------------------------------------------------------------------------

\* The counters of run stay within the numbers of tasks and of workers, for
\* any workers and tasks.
THEOREM TypeCorrect == Spec => []TypeOK
<1>1. IInv => TypeOK
  <2> SUFFICES ASSUME IInv PROVE TypeOK
    OBVIOUS
  <2>1. Cardinality(Begun) <= Cardinality(Task)
    BY TaskSet DEF Begun
  <2>2. count_done <= nthreads
    BY Sizes DEF IInv, Types, Finished
  <2>3. QED BY <2>1, <2>2, Sizes DEF IInv, Types, TypeOK
<1>2. QED BY <1>1, Invariance, PTL

\* run calls the function once on each worker, and its last assertion holds,
\* however many workers there are, as long as there is a task for each.
THEOREM RunsOncePerWorker == Spec => []OncePerWorker
<1>1. IInv => OncePerWorker
  <2> SUFFICES ASSUME IInv PROVE OncePerWorker
    OBVIOUS
  <2>1. \A w \in Worker : ran[w] <= 1
    BY DEF IInv, Types, Gathering, Finished
  <2>2. ASSUME pc[Caller] = "returned" PROVE Finished
    <3>1. Begun = Task /\ Staying = {}
      BY <2>2 DEF IInv, Begun, Staying, Holds
    <3>2. count_begin >= nthreads
      BY <3>1, Sizes DEF IInv
    <3>3. Worker # {}
      BY AllThreadsAssumption
    <3>4. QED BY <3>1, <3>2, <3>3, Sizes DEF IInv, Types, Gathering
  <2>3. QED BY <2>1, <2>2 DEF OncePerWorker, Finished
<1>2. QED BY <1>1, Invariance, PTL

-----------------------------------------------------------------------------
(* initialize, which calls run to pin the workers                          *)

\* The part of a start that is a run: its beginning, and every step.
LEMMA StartIsRun ==
  /\ StartInit => Init
  /\ [StartNext]_allVars => [Next]_vars
<1>1. StartInit => Init
  BY DEF StartInit
<1>2. ASSUME [StartNext]_allVars PROVE [Next]_vars
  <2>1. CASE SetRankSize
    BY <2>1 DEF SetRankSize
  <2>2. CASE Call
    BY <2>2 DEF Call, Next
  <2>3. ASSUME NEW w \in Worker, NEW t \in Task, Wait(w, t) PROVE [Next]_vars
    BY <2>3 DEF Wait, Next, Run
  <2>4. ASSUME NEW w \in Worker, NEW t \in Task, ManageAffinity(w, t) PROVE [Next]_vars
    BY <2>4 DEF ManageAffinity, Next, Run
  <2>5. CASE Initialized
    BY <2>5 DEF Initialized, Next
  <2>6. CASE UNCHANGED allVars
    BY <2>6 DEF allVars
  <2>7. QED BY <1>2, <2>1, <2>2, <2>3, <2>4, <2>5, <2>6 DEF StartNext
<1>3. QED BY <1>1, <1>2

\* What initialize adds to run, ranks, labels and bindings, does not touch the
\* counters and tasks of run: every start is a run (set_all_cpu_affinities).
THEOREM StartImplementsRun == StartSpec => Spec
BY StartIsRun, PTL DEF StartSpec, Spec

\* So the function that pins is called once on each worker of the process, and
\* no two calls write one entry of cpu_infos.
THEOREM PinsOncePerWorker == StartSpec => []OncePerWorker
BY StartImplementsRun, RunsOncePerWorker, PTL

\* What a worker has reported and is bound to once manage_affinity has run on it.
Pinning(w) ==
  /\ cpu_infos[w] = [node |-> layout[start.rank].node, proc |-> layout[start.rank].node_proc,
                     thread |-> w]
  /\ bound[w] = binding(start.rank, w)

\* When the program is up, every worker has been pinned to its PU, and nowhere
\* else, and has reported as itself.
Reported == phase = "up" => \A w \in Worker : Pinning(w)

StartInv ==
  /\ phase \in {"rank", "affinity", "up", "exit"}
  /\ phase = "up" => pc[Caller] = "returned"
  /\ ran \in [Worker -> Nat]
  /\ DOMAIN cpu_infos = Worker /\ DOMAIN bound = Worker
  /\ cpu_infos = [w \in Worker |-> cpu_infos[w]] /\ bound = [w \in Worker |-> bound[w]]
  /\ phase = "rank" => \A w \in Worker : ran[w] = 0
  /\ phase # "exit" => \A w \in Worker : ran[w] > 0 => Pinning(w)

\* A step that calls no function and reports nothing.
LEMMA Unreported ==
  ASSUME StartInv, UNCHANGED <<ran, start, layout, cpu_infos, bound>>,
         phase' \in {phase, "up", "exit"}, phase # "exit", phase' = "up" => pc'[Caller] = "returned"
  PROVE  StartInv'
<1>1. \A w \in Worker : Pinning(w)' <=> Pinning(w)
  BY DEF Pinning, binding, thread_pu, node_thread, node_nthreads, PU
<1>2. QED BY <1>1 DEF StartInv

LEMMA ManageAffinityStep ==
  ASSUME StartInv, NEW w \in Worker, NEW t \in Task, ManageAffinity(w, t)
  PROVE  StartInv'
<1>1. /\ phase = "affinity" /\ ran' = [ran EXCEPT ![w] = @ + 1]
      /\ UNCHANGED <<start, layout>>
  BY DEF ManageAffinity, Work
<1>2. ran' \in [Worker -> Nat]
  BY <1>1 DEF StartInv
<1>3. CASE exact(start.rank)
  <2> DEFINE info == [node |-> layout[start.rank].node,
                      proc |-> layout[start.rank].node_proc, thread |-> w]
  <2>1. /\ cpu_infos' = [cpu_infos EXCEPT ![w] = info]
        /\ bound' = [bound EXCEPT ![w] = binding(start.rank, w)]
        /\ phase' = phase
    BY <1>3 DEF ManageAffinity
  <2>2. \A v \in Worker : binding(start.rank, v)' = binding(start.rank, v)
    BY <1>1 DEF binding, thread_pu, node_thread, node_nthreads, PU
  <2>3. Pinning(w)'
    BY <1>1, <2>1, <2>2 DEF Pinning, StartInv
  <2>4. \A v \in Worker : v # w => (Pinning(v)' <=> Pinning(v)) /\ ran'[v] = ran[v]
    BY <1>1, <2>1, <2>2 DEF Pinning, StartInv
  <2>5. \A v \in Worker : ran'[v] > 0 => Pinning(v)'
    BY <1>1, <2>3, <2>4 DEF StartInv
  <2>6. /\ DOMAIN cpu_infos' = Worker /\ DOMAIN bound' = Worker
        /\ cpu_infos' = [v \in Worker |-> cpu_infos'[v]]
        /\ bound' = [v \in Worker |-> bound'[v]]
    BY <2>1 DEF StartInv
  <2>7. QED BY <1>1, <1>2, <2>1, <2>5, <2>6 DEF StartInv
<1>4. CASE ~exact(start.rank)
  <2>1. phase' = "exit" /\ UNCHANGED <<cpu_infos, bound>>
    BY <1>4 DEF ManageAffinity
  <2>2. QED BY <1>2, <2>1 DEF StartInv
<1>5. QED BY <1>3, <1>4

LEMMA StartInvStep == StartInv /\ TypeOK /\ [StartNext]_allVars => StartInv'
<1> SUFFICES ASSUME StartInv, TypeOK, [StartNext]_allVars PROVE StartInv'
  OBVIOUS
<1>1. CASE SetRankSize
  <2>1. /\ phase = "rank" /\ phase' \in {"affinity", "exit"}
        /\ UNCHANGED <<count_begin, count_done, pc, runs, ran, start, cpu_infos, bound>>
    BY <1>1 DEF SetRankSize, vars
  <2>2. QED BY <2>1 DEF StartInv
<1>2. CASE Call
  <2>1. phase = "affinity" /\ UNCHANGED <<ran, start, layout, phase, cpu_infos, bound>>
    BY <1>2 DEF Call, Fork, Get, startVars
  <2>2. QED BY <2>1, Unreported
<1>3. ASSUME NEW w \in Worker, NEW t \in Task, Wait(w, t) PROVE StartInv'
  <2>1. phase = "affinity" /\ UNCHANGED <<ran, start, layout, phase, cpu_infos, bound>>
    BY <1>3 DEF Wait, Dispatch, Begin, Done, Leave, startVars
  <2>2. QED BY <2>1, Unreported
<1>4. CASE Initialized
  <2>1. Return /\ phase = "affinity" /\ phase' = "up"
        /\ UNCHANGED <<ran, start, layout, cpu_infos, bound>>
    BY <1>4 DEF Initialized, Return
  <2>2. pc'[Caller] = "returned"
    BY <2>1 DEF Return, TypeOK, Thread
  <2>3. QED BY <2>1, <2>2, Unreported
<1>5. CASE UNCHANGED allVars
  <2>1. UNCHANGED <<pc, ran, start, layout, phase, cpu_infos, bound>>
    BY <1>5 DEF allVars, vars, startVars
  <2>2. CASE phase = "exit"
    BY <2>1, <2>2 DEF StartInv
  <2>3. CASE phase # "exit"
    BY <2>1, <2>3, Unreported DEF StartInv
  <2>4. QED BY <2>2, <2>3
<1>6. QED BY <1>1, <1>2, <1>3, <1>4, <1>5, ManageAffinityStep DEF StartNext

\* Every worker is pinned, and reports, before the barrier of initialize.
THEOREM EveryWorkerPinned == StartSpec => []Reported
<1>1. StartInit => StartInv
  BY DEF StartInit, Init, StartInv
<1>2. StartInv /\ OncePerWorker => Reported
  BY DEF StartInv, OncePerWorker, Reported
<1>3. StartSpec => []TypeOK
  BY StartImplementsRun, TypeCorrect, PTL
<1>4. QED BY <1>1, <1>2, <1>3, StartInvStep, PinsOncePerWorker, PTL DEF StartSpec

-----------------------------------------------------------------------------
(* Numbers and processes *)

\* A set of natural numbers has a least one.
LEMMA Least ==
  ASSUME NEW S, S \subseteq Nat, S # {}
  PROVE  \E x \in S : \A y \in S : x <= y
<1> DEFINE LessThan == {ss \in Nat \X Nat : ss[1] < ss[2]}
<1>1. IsWellFoundedOn(LessThan, Nat)
  BY NatLessThanWellFounded DEF OpToRel
<1>2. PICK x \in S : \A y \in S : <<y, x>> \notin LessThan
  <2> HIDE DEF LessThan
  <2>1. QED
    BY <1>1, WFMin
<1>3. ASSUME NEW y \in S, y < x PROVE FALSE
  <2>1. <<y, x>> \in Nat \X Nat /\ <<y, x>>[1] = y /\ <<y, x>>[2] = x
    OBVIOUS
  <2>2. <<y, x>> \in LessThan
    BY <1>3, <2>1, Zenon DEF LessThan
  <2>3. QED
    BY <1>2, <2>2
<1>4. QED
  BY <1>3

\* Induction over the processes, which are counted from 0: a set that contains
\* -1 and with a number the next one contains all of them.
LEMMA Upwards ==
  ASSUME NEW n \in Nat, NEW S, -1 \in S, \A i \in 0 .. n - 1 : i - 1 \in S => i \in S
  PROVE  -1 .. n - 1 \subseteq S
<1> SUFFICES ASSUME (0 .. n - 1) \ S # {} PROVE FALSE
  OBVIOUS
<1> DEFINE Bad == (0 .. n - 1) \ S
<1>1. PICK x \in Bad : \A y \in Bad : x <= y
  <2>1. Bad \subseteq Nat /\ Bad # {}
    OBVIOUS
  <2> HIDE DEF Bad
  <2>2. QED
    BY <2>1, Least
<1>2. x - 1 \in S
  BY <1>1
<1>3. QED
  BY <1>1, <1>2

-----------------------------------------------------------------------------
(* Processes and nodes *)

LEMMA Machines ==
  ASSUME start \in Starts
  PROVE  /\ IsFiniteSet(Process) /\ Cardinality(Process) \in Nat \ {0}
         /\ Process = 0 .. Cardinality(Process) - 1
         /\ start.rank \in Process /\ start.node_npus \in Nat \ {0}
<1>1. IsFiniteSet(Process) /\ start.rank \in Process /\ Process = 0 .. Cardinality(Process) - 1
      /\ start.node_npus \in Nat \ {0}
  BY AffinityAssumption DEF Process
<1>2. Cardinality(Process) \in Nat
  BY <1>1, FS_CardinalityType
<1>3. Process # {}
  BY <1>1
<1>4. Cardinality(Process) # 0
  BY <1>1, <1>3, FS_EmptySet
<1>5. QED
  BY <1>1, <1>2, <1>4

\* A node is named by one of its processes.
LEMMA NodeGroup ==
  ASSUME start \in Starts, NEW p \in Process
  PROVE  /\ node_group(p) \in local(p)
         /\ \A q \in local(p) : node_group(p) <= q
<1>1. p \in local(p) /\ local(p) \subseteq Nat
  BY Machines DEF local
<1>2. \E q \in local(p) : \A r \in local(p) : q <= r
  BY <1>1, Least
<1>3. QED
  BY <1>2 DEF node_group

LEMMA SameNode ==
  ASSUME start \in Starts, NEW p \in Process, NEW q \in Process
  PROVE  /\ node_group(p) = node_group(q) <=> start.machine[p] = start.machine[q]
         /\ start.machine[p] = start.machine[q] => local(p) = local(q)
         /\ node_group(p) \in Process
<1>1. start.machine[p] = start.machine[q] => local(p) = local(q)
  BY DEF local
<1>2. local(p) = local(q) => node_group(p) = node_group(q)
  BY DEF node_group
<1>3. node_group(p) \in local(p) /\ node_group(q) \in local(q)
  BY NodeGroup
<1>4. QED
  BY <1>1, <1>2, <1>3 DEF local

-----------------------------------------------------------------------------
(* How the nodes are numbered *)

\* The root meets process p.
Met(before, p) ==
  LET g == node_group(p)
      new == before.group[g] < 0
      r == IF new THEN before.size ELSE before.group[g]
  IN  [group |-> [before.group EXCEPT ![g] = r],
       size |-> IF new THEN before.size + 1 ELSE before.size,
       ranks |-> [before.ranks EXCEPT ![p] = r]]
NoneMet == [group |-> [q \in Process |-> -1], size |-> 0, ranks |-> [q \in Process |-> -1]]

Meets(f) == f = [p \in Process \cup {-1} |-> IF p = -1 THEN NoneMet ELSE Met(f[p - 1], p)]

LEMMA MeetsExists ==
  ASSUME start \in Starts
  PROVE  \E f : Meets(f)
<1>1. PICK n \in Nat : n = Cardinality(Process) /\ Process = 0 .. n - 1
  BY Machines
<1> DEFINE Upto(f, k) == f = [p \in -1 .. k |-> IF p = -1 THEN NoneMet ELSE Met(f[p - 1], p)]
           Known == {k \in -1 .. n - 1 : \E f : Upto(f, k)}
<1>2. -1 \in Known
  <2> DEFINE g == [p \in -1 .. -1 |-> NoneMet]
  <2>1. g = [p \in -1 .. -1 |-> IF p = -1 THEN NoneMet ELSE Met(g[p - 1], p)]
    OBVIOUS
  <2>2. Upto(g, -1)
    BY <2>1
  <2>3. -1 \in -1 .. n - 1
    BY <1>1
  <2> HIDE DEF Upto
  <2>4. QED
    BY <2>2, <2>3
<1>3. ASSUME NEW k \in 0 .. n - 1, k - 1 \in Known PROVE k \in Known
  <2>1. PICK g : Upto(g, k - 1)
    BY <1>3
  <2> DEFINE h == [p \in -1 .. k |-> IF p = k THEN Met(g[k - 1], k) ELSE g[p]]
  <2>2. \A p \in -1 .. k - 1 : g[p] = IF p = -1 THEN NoneMet ELSE Met(g[p - 1], p)
    BY <2>1
  <2>3. \A p \in -1 .. k : h[p] = IF p = k THEN Met(g[k - 1], k) ELSE g[p]
    OBVIOUS
  <2>4. DOMAIN h = -1 .. k /\ h = [p \in -1 .. k |-> h[p]]
    OBVIOUS
  <2> HIDE DEF h
  <2>5. ASSUME NEW p \in -1 .. k PROVE h[p] = IF p = -1 THEN NoneMet ELSE Met(h[p - 1], p)
    <3>1. CASE p = k
      <4>1. k - 1 \in -1 .. k /\ k - 1 # k
        OBVIOUS
      <4>2. h[k - 1] = g[k - 1]
        BY <2>3, <4>1
      <4>3. QED
        BY <2>3, <3>1, <4>2
    <3>2. CASE p \in 0 .. k - 1
      <4>1. p - 1 \in -1 .. k /\ p - 1 # k /\ p # k /\ p # -1 /\ p \in -1 .. k - 1
        BY <3>2
      <4>2. h[p - 1] = g[p - 1] /\ h[p] = g[p]
        BY <2>3, <4>1
      <4>3. QED
        BY <2>2, <4>1, <4>2
    <3>3. CASE p = -1 /\ p # k
      BY <2>2, <2>3, <3>3
    <3>4. QED
      BY <3>1, <3>2, <3>3
  <2>6. Upto(h, k)
    BY <2>4, <2>5
  <2>7. k \in -1 .. n - 1
    OBVIOUS
  <2> HIDE DEF Upto
  <2>8. QED
    BY <2>6, <2>7
<1>4. n - 1 \in Known
  <2>1. -1 .. n - 1 \subseteq Known
    <3> HIDE DEF Known
    <3>1. QED
      BY <1>2, <1>3, Upwards
  <2>2. QED
    BY <2>1
<1>5. PICK f : Upto(f, n - 1)
  BY <1>4
<1>6. -1 .. n - 1 = Process \cup {-1}
  <2>1. -1 .. n - 1 = (0 .. n - 1) \cup {-1}
    BY <1>1
  <2>2. QED
    BY <1>1, <2>1
<1>7. Meets(f)
  BY <1>5, <1>6 DEF Meets
<1>8. QED
  BY <1>7

\* node_ranks is what is known after the last process.
LEMMA NodeRanks ==
  ASSUME start \in Starts
  PROVE  \E f : /\ Meets(f)
                /\ node_ranks.ranks = f[Cardinality(Process) - 1].ranks
                /\ node_ranks.size = f[Cardinality(Process) - 1].size
<1> DEFINE met == CHOOSE f : Meets(f)
<1>1. Meets(met)
  BY MeetsExists
<1>2. node_ranks = [ranks |-> met[Cardinality(Process) - 1].ranks,
                    size |-> met[Cardinality(Process) - 1].size]
  BY DEF node_ranks, Meets, Met, NoneMet
<1> HIDE DEF met
<1>3. node_ranks.ranks = met[Cardinality(Process) - 1].ranks
      /\ node_ranks.size = met[Cardinality(Process) - 1].size
  BY <1>2
<1>4. QED
  BY <1>1, <1>3

\* After process p: the nodes of the processes met are numbered from 0.
Numbered(m, p) ==
  /\ m.size \in Nat
  /\ m.group \in [Process -> -1 .. m.size - 1]
  /\ m.ranks \in [Process -> Int]
  /\ \A q \in Process : m.group[q] >= 0 <=> \E x \in Process : x <= p /\ node_group(x) = q
  /\ \A q, r \in Process : m.group[q] = m.group[r] /\ m.group[q] >= 0 => q = r
  /\ \A k \in 0 .. m.size - 1 : \E q \in Process : m.group[q] = k
  /\ \A x \in Process : x <= p => m.ranks[x] = m.group[node_group(x)]

LEMMA MetNumbers ==
  ASSUME start \in Starts, NEW p \in Process, NEW m, Numbered(m, p - 1)
  PROVE  Numbered(Met(m, p), p)
<1>1. PICK n \in Nat : Process = 0 .. n - 1
  BY Machines
<1>2. PICK g \in Process : g = node_group(p)
  BY SameNode
<1>3. \A x \in Process : node_group(x) \in Process
  BY SameNode
<1>4. m.group[g] \in -1 .. m.size - 1 /\ m.size \in Nat
  BY DEF Numbered
<1>5. \A x \in Process : x <= p <=> x <= p - 1 \/ x = p
  BY <1>1
<1>6. CASE m.group[g] < 0
  <2> DEFINE k == Met(m, p)
  <2>1. /\ k.group = [m.group EXCEPT ![g] = m.size]
        /\ k.size = m.size + 1
        /\ k.ranks = [m.ranks EXCEPT ![p] = m.size]
    BY <1>2, <1>6 DEF Met
  <2> HIDE DEF k
  <2>2. k.size \in Nat /\ k.ranks \in [Process -> Int] /\ k.group \in [Process -> -1 .. k.size - 1]
    <3>1. \A i \in -1 .. m.size - 1 : i \in -1 .. k.size - 1
      BY <1>4, <2>1
    <3>2. m.size \in -1 .. k.size - 1 /\ k.size \in Nat /\ m.size \in Int
      BY <1>4, <2>1
    <3>3. QED
      BY <2>1, <3>1, <3>2 DEF Numbered
  <2>3. \A q \in Process : k.group[q] = IF q = g THEN m.size ELSE m.group[q]
    BY <2>1 DEF Numbered
  <2>4. \A q \in Process : m.group[q] \in -1 .. m.size - 1
    BY DEF Numbered
  <2>5. \A q \in Process : k.group[q] >= 0 <=> \E x \in Process : x <= p /\ node_group(x) = q
    BY <1>2, <1>4, <1>5, <2>3 DEF Numbered
  <2>6. \A q, r \in Process : k.group[q] = k.group[r] /\ k.group[q] >= 0 => q = r
    BY <1>4, <2>3, <2>4 DEF Numbered
  <2>7. ASSUME NEW i \in 0 .. k.size - 1 PROVE \E q \in Process : k.group[q] = i
    <3>1. CASE i = m.size
      BY <2>3, <3>1
    <3>2. CASE i \in 0 .. m.size - 1
      <4>1. PICK q \in Process : m.group[q] = i
        BY <3>2 DEF Numbered
      <4>2. q # g
        BY <1>6, <3>2, <4>1
      <4>3. QED
        BY <2>3, <4>1, <4>2
    <3>3. QED
      BY <1>4, <2>1, <3>1, <3>2
  <2>8. ASSUME NEW x \in Process, x <= p PROVE k.ranks[x] = k.group[node_group(x)]
    <3>1. CASE x = p
      BY <1>2, <2>1, <2>3, <3>1 DEF Numbered
    <3>2. CASE x # p
      <4>1. x <= p - 1 /\ m.ranks[x] = m.group[node_group(x)] /\ k.ranks[x] = m.ranks[x]
        BY <1>5, <2>1, <2>8, <3>2 DEF Numbered
      <4>2. m.group[node_group(x)] >= 0
        BY <1>3, <4>1 DEF Numbered
      <4>3. node_group(x) # g
        BY <1>4, <1>6, <4>2
      <4>4. QED
        BY <1>3, <2>3, <4>1, <4>3
    <3>3. QED
      BY <3>1, <3>2
  <2>9. Numbered(k, p)
    BY <2>2, <2>5, <2>6, <2>7, <2>8 DEF Numbered
  <2>10. QED
    BY <2>9 DEF k
<1>7. CASE ~ (m.group[g] < 0)
  <2> DEFINE k == Met(m, p)
  <2>1. /\ k.group = m.group
        /\ k.size = m.size
        /\ k.ranks = [m.ranks EXCEPT ![p] = m.group[g]]
    BY <1>2, <1>7 DEF Met, Numbered
  <2> HIDE DEF k
  <2>2. k.ranks \in [Process -> Int]
    BY <1>4, <2>1 DEF Numbered
  <2>3. \A q \in Process : k.group[q] >= 0 <=> \E x \in Process : x <= p /\ node_group(x) = q
    <3>1. m.group[g] >= 0
      BY <1>4, <1>7
    <3>2. QED
      BY <1>2, <1>5, <2>1, <3>1 DEF Numbered
  <2>4. ASSUME NEW x \in Process, x <= p PROVE k.ranks[x] = k.group[node_group(x)]
    <3>1. CASE x = p
      BY <1>2, <2>1, <3>1 DEF Numbered
    <3>2. CASE x # p
      BY <1>5, <2>1, <2>4, <3>2 DEF Numbered
    <3>3. QED
      BY <3>1, <3>2
  <2>5. Numbered(k, p)
    BY <2>1, <2>2, <2>3, <2>4 DEF Numbered
  <2>6. QED
    BY <2>5 DEF k
<1>8. QED
  BY <1>6, <1>7

\* The nodes are numbered from 0 without a gap, and two processes have the same
\* number if and only if they are on the same machine.
LEMMA NodesNumbered ==
  ASSUME start \in Starts
  PROVE  /\ {node_ranks.ranks[p] : p \in Process} = 0 .. node_ranks.size - 1
         /\ \A p, q \in Process :
              node_ranks.ranks[p] = node_ranks.ranks[q] <=> start.machine[p] = start.machine[q]
<1>1. PICK n \in Nat : n = Cardinality(Process) /\ Process = 0 .. n - 1
  BY Machines
<1>2. PICK f : /\ Meets(f)
               /\ node_ranks.ranks = f[n - 1].ranks
               /\ node_ranks.size = f[n - 1].size
  BY <1>1, NodeRanks
<1>3. f[-1] = NoneMet /\ \A p \in Process : f[p] = Met(f[p - 1], p)
  <2>1. \A p \in Process \cup {-1} : f[p] = IF p = -1 THEN NoneMet ELSE Met(f[p - 1], p)
    BY <1>2 DEF Meets
  <2>2. QED
    BY <1>1, <2>1
<1> DEFINE S == {p \in -1 .. n - 1 : Numbered(f[p], p)}
<1>4. -1 \in S
  <2>1. Numbered(NoneMet, -1)
    BY <1>1 DEF Numbered, NoneMet
  <2>2. QED
    BY <1>1, <1>3, <2>1
<1>5. ASSUME NEW p \in 0 .. n - 1, p - 1 \in S PROVE p \in S
  <2>1. p \in Process /\ Numbered(f[p - 1], p - 1)
    BY <1>1, <1>5
  <2>2. Numbered(Met(f[p - 1], p), p)
    BY <2>1, MetNumbers
  <2>3. QED
    BY <1>3, <2>1, <2>2
<1>6. n - 1 \in S
  <2>1. -1 .. n - 1 \subseteq S
    <3> HIDE DEF S
    <3>1. QED
      BY <1>4, <1>5, Upwards
  <2>2. QED
    BY <2>1
<1>7. PICK m : m = f[n - 1]
  OBVIOUS
<1>8. Numbered(m, n - 1)
  BY <1>6, <1>7
<1>9. \A p \in Process : /\ p <= n - 1 /\ node_group(p) \in Process
                         /\ m.ranks[p] = m.group[node_group(p)]
                         /\ m.ranks[p] \in 0 .. m.size - 1
  <2>1. \A p \in Process : p <= n - 1 /\ node_group(p) \in Process
    <3>1. ASSUME NEW p \in Process PROVE p <= n - 1
      <4>1. p \in 0 .. n - 1
        BY <1>1
      <4>2. QED
        BY <4>1
    <3>2. \A p \in Process : node_group(p) \in Process
      BY SameNode
    <3>3. QED
      BY <3>1, <3>2
  <2>2. \A p \in Process : m.ranks[p] = m.group[node_group(p)] /\ m.group[node_group(p)] >= 0
    BY <1>8, <2>1 DEF Numbered
  <2>3. \A q \in Process : m.group[q] \in -1 .. m.size - 1 /\ m.size \in Nat
    BY <1>8 DEF Numbered
  <2>4. QED
    BY <2>1, <2>2, <2>3
<1>10. ASSUME NEW k \in 0 .. m.size - 1 PROVE \E p \in Process : m.ranks[p] = k
  <2>1. PICK q \in Process : m.group[q] = k
    BY <1>8 DEF Numbered
  <2>2. m.group[q] >= 0
    BY <2>1
  <2>3. PICK x \in Process : node_group(x) = q
    BY <1>8, <2>2 DEF Numbered
  <2>4. QED
    BY <1>9, <2>1, <2>3
<1>11. \A p, q \in Process : m.ranks[p] = m.ranks[q] <=> node_group(p) = node_group(q)
  BY <1>8, <1>9 DEF Numbered
<1>12. \A p, q \in Process : m.ranks[p] = m.ranks[q] <=> start.machine[p] = start.machine[q]
  BY <1>11, SameNode
<1>13. {m.ranks[p] : p \in Process} = 0 .. m.size - 1
  BY <1>9, <1>10
<1>14. QED
  BY <1>2, <1>7, <1>12, <1>13

-----------------------------------------------------------------------------
(* The threads of a node *)

\* The processes on a node have ranks from 0 there.
LEMMA LocalRanks ==
  ASSUME start \in Starts, NEW p \in Process
  PROVE  /\ local(p) \subseteq Process /\ IsFiniteSet(local(p)) /\ p \in local(p)
         /\ local_size(p) \in Nat \ {0}
         /\ \A q \in local(p) : local_rank(q) \in 0 .. local_size(p) - 1 /\ local_size(q) = local_size(p)
         /\ \A q, r \in local(p) : local_rank(q) = local_rank(r) => q = r
         /\ \A i \in 0 .. local_size(p) - 1 : \E q \in local(p) : local_rank(q) = i
<1> DEFINE L == local(p)
           s == local_size(p)
<1>1. L \subseteq Process /\ p \in L /\ Process \subseteq Nat
  BY Machines DEF local
<1>2. IsFiniteSet(L)
  BY <1>1, Machines, FS_Subset
<1>3. s = Cardinality(L) /\ s \in Nat /\ s # 0
  BY <1>1, <1>2, FS_CardinalityType, FS_EmptySet DEF local_size
<1>4. \A q \in L : local(q) = L
  BY DEF local
<1> DEFINE below(q) == {x \in L : x < q}
<1>5. \A q \in L : local_rank(q) = Cardinality(below(q))
  BY <1>4 DEF local_rank
<1> HIDE DEF L, s
<1>6. ASSUME NEW q \in L, NEW r \in L, q < r
      PROVE  Cardinality(below(q)) < Cardinality(below(r))
  <2>0. q < r /\ ~ (q < q) /\ \A x \in L : x < q => x < r
    <3>1. L \subseteq Nat
      BY <1>1
    <3>2. QED
      BY <1>6, <3>1
  <2>1. q \in below(r) /\ q \notin below(q) /\ below(q) \subseteq below(r) /\ below(r) \subseteq L
    BY <2>0, Zenon
  <2>2. IsFiniteSet(below(r))
    BY <1>2, <2>1, FS_Subset
  <2>3. below(q) \in SUBSET below(r) /\ below(q) # below(r)
    BY <2>1
  <2> HIDE DEF below
  <2>4. /\ IsFiniteSet(below(q)) /\ Cardinality(below(q)) <= Cardinality(below(r))
        /\ Cardinality(below(q)) # Cardinality(below(r))
    BY <2>2, <2>3, FS_Subset
  <2>5. Cardinality(below(q)) \in Nat /\ Cardinality(below(r)) \in Nat
    BY <2>2, <2>4, FS_CardinalityType
  <2>6. QED
    BY <2>4, <2>5
<1>7. ASSUME NEW q \in L PROVE Cardinality(below(q)) \in 0 .. s - 1
  <2>1. q \notin below(q) /\ below(q) \in SUBSET L
    BY <1>1, <1>7
  <2> HIDE DEF below
  <2>2. /\ IsFiniteSet(below(q)) /\ Cardinality(below(q)) <= Cardinality(L)
        /\ Cardinality(below(q)) # Cardinality(L)
    BY <1>2, <1>7, <2>1, FS_Subset
  <2>3. Cardinality(below(q)) \in Nat
    BY <2>2, FS_CardinalityType
  <2>4. QED
    BY <1>3, <2>2, <2>3
<1>8. ASSUME NEW q \in L, NEW r \in L, Cardinality(below(q)) = Cardinality(below(r)) PROVE q = r
  <2>1. q \in Nat /\ r \in Nat
    BY <1>1
  <2>2. Cardinality(below(q)) \in Int
    BY <1>7
  <2>3. ~ (q < r) /\ ~ (r < q)
    BY <1>6, <1>8, <2>2
  <2>4. QED
    BY <2>1, <2>3
<1> DEFINE f == [q \in L |-> Cardinality(below(q))]
           I == 0 .. s - 1
<1>9. f \in Surjection(L, I)
  <2>1. f \in Injection(L, I)
    <3>1. f \in [L -> I]
      BY <1>7
    <3>2. \A q, r \in L : f[q] = f[r] => q = r
      BY <1>8
    <3> HIDE DEF f, I
    <3>3. QED
      BY <3>1, <3>2 DEF Injection, IsInjective
  <2>2. IsFiniteSet(I) /\ Cardinality(I) = s
    <3>1. 0 \in Int /\ s - 1 \in Int /\ ~ (0 > s - 1) /\ (s - 1) - 0 + 1 = s
      BY <1>3
    <3>2. QED
      BY <3>1, FS_Interval
  <2> HIDE DEF f, I
  <2>3. QED
    BY <1>3, <2>1, <2>2, FS_Injection
<1>10. \A i \in I : \E q \in L : Cardinality(below(q)) = i
  <2>1. \A i \in I : \E q \in L : f[q] = i
    <3> HIDE DEF f, I
    <3>1. QED
      BY <1>9 DEF Surjection
  <2>2. QED
    BY <2>1
<1>11. \A q \in L : local_size(q) = s
  BY <1>4 DEF L, s, local_size
<1> HIDE DEF below
<1>12. QED
  BY <1>1, <1>2, <1>3, <1>5, <1>7, <1>8, <1>10, <1>11 DEF L, s

-----------------------------------------------------------------------------
(* Division *)

\* Multiplication by a natural number is monotonic.
LEMMA Times ==
  ASSUME NEW a \in Int, NEW b \in Int, NEW n \in Nat, a <= b
  PROVE  a * n <= b * n
<1>1. b * n = a * n + (b - a) * n /\ (b - a) * n >= 0 /\ a * n \in Int
  OBVIOUS
<1>2. QED
  BY <1>1

\* What quotient and remainder are.
LEMMA Quotient ==
  ASSUME NEW x \in Nat, NEW n \in Nat \ {0}
  PROVE  x \div n \in Nat /\ (x \div n) * n <= x /\ x < (x \div n + 1) * n
<1>1. x % n \in 0 .. n - 1 /\ x = n * (x \div n) + (x % n) /\ x \div n \in Int
  OBVIOUS
<1>2. PICK d \in Int, e \in 0 .. n - 1 : d = x \div n /\ e = x % n /\ x = n * d + e
  BY <1>1
<1>3. d * n = n * d /\ (d + 1) * n = n * d + n /\ n * d \in Int
  OBVIOUS
<1>4. d * n <= x /\ x < (d + 1) * n
  BY <1>2, <1>3
<1>5. d >= 0
  <2>1. CASE d + 1 <= 0
    <3>1. (d + 1) * n <= 0 * n
      BY <2>1, Times
    <3>2. QED
      BY <1>4, <3>1
  <2>2. QED
    BY <2>1
<1>6. QED
  BY <1>2, <1>4, <1>5

\* Only the quotient lies so.
LEMMA QuotientIs ==
  ASSUME NEW x \in Nat, NEW n \in Nat \ {0}, NEW d \in Nat, d * n <= x, x < (d + 1) * n
  PROVE  x \div n = d
<1>1. PICK e \in Nat : e = x \div n /\ e * n <= x /\ x < (e + 1) * n
  BY Quotient
<1>2. d * n \in Int /\ e * n \in Int /\ (d + 1) * n \in Int /\ (e + 1) * n \in Int
  OBVIOUS
<1>3. ~ (d + 1 <= e)
  <2>1. SUFFICES ASSUME d + 1 <= e PROVE FALSE
    OBVIOUS
  <2>2. (d + 1) * n <= e * n
    BY <2>1, Times
  <2>3. QED
    BY <1>1, <1>2, <2>2
<1>4. ~ (e + 1 <= d)
  <2>1. SUFFICES ASSUME e + 1 <= d PROVE FALSE
    OBVIOUS
  <2>2. (e + 1) * n <= d * n
    BY <2>1, Times
  <2>3. QED
    BY <1>1, <1>2, <2>2
<1>5. QED
  BY <1>1, <1>3, <1>4

\* Threads that are numbered process by process have different numbers.
LEMMA Numbers ==
  ASSUME NEW n \in Nat \ {0}, NEW a \in Nat, NEW b \in Nat,
         NEW i \in 0 .. n - 1, NEW j \in 0 .. n - 1, a * n + i = b * n + j
  PROVE  a = b /\ i = j
<1>1. PICK x \in Nat : x = a * n + i /\ x = b * n + j
  OBVIOUS
<1>2. (a + 1) * n = a * n + n /\ (b + 1) * n = b * n + n /\ a * n \in Int /\ b * n \in Int
  OBVIOUS
<1>3. a * n <= x /\ x < (a + 1) * n /\ b * n <= x /\ x < (b + 1) * n
  BY <1>1, <1>2
<1>4. x \div n = a /\ x \div n = b
  BY <1>3, QuotientIs
<1>5. a = b
  BY <1>4
<1>6. QED
  BY <1>2, <1>5

\* The first number whose product with n is x or more.
First(x, n) == (x + n - 1) \div n

LEMMA FirstIs ==
  ASSUME NEW x \in Nat, NEW n \in Nat \ {0}
  PROVE  /\ First(x, n) \in Nat
         /\ x <= First(x, n) * n /\ First(x, n) * n < x + n
         /\ \A i \in Nat : x <= i * n <=> First(x, n) <= i
<1>1. x + n - 1 \in Nat
  OBVIOUS
<1>2. PICK c \in Nat : c = First(x, n) /\ c * n <= x + n - 1 /\ x + n - 1 < (c + 1) * n
  BY <1>1, Quotient DEF First
<1>3. (c + 1) * n = c * n + n /\ c * n \in Int
  OBVIOUS
<1>4. x <= c * n /\ c * n < x + n
  BY <1>2, <1>3
<1>5. ASSUME NEW i \in Nat PROVE x <= i * n <=> c <= i
  <2>1. i * n \in Int /\ (i + 1) * n = i * n + n
    OBVIOUS
  <2>2. ASSUME c <= i PROVE x <= i * n
    <3>1. c * n <= i * n
      BY <2>2, Times
    <3>2. QED
      BY <1>3, <1>4, <2>1, <3>1
  <2>3. ASSUME i + 1 <= c PROVE ~ (x <= i * n)
    <3>1. (i + 1) * n <= c * n
      BY <2>3, Times
    <3>2. QED
      BY <1>3, <1>4, <2>1, <3>1
  <2>4. QED
    BY <2>2, <2>3
<1>6. QED
  BY <1>2, <1>4, <1>5

\* n threads on m PUs, fewer than n: the threads of a PU follow one another,
\* and there are as many, or one more or less, as on any other.
LEMMA Shared ==
  ASSUME NEW n \in Nat \ {0}, NEW m \in Nat \ {0}
  PROVE  /\ \A i \in 0 .. n - 1 : (i * m) \div n \in 0 .. m - 1
         /\ \A u \in 0 .. m - 1 : \A i \in 0 .. n - 1 :
              (i * m) \div n = u <=> First(u * n, m) <= i /\ i < First((u + 1) * n, m)
         /\ \A u \in 0 .. m - 1 : First((u + 1) * n, m) <= n
         /\ \A u \in 0 .. m - 1 : /\ First(u * n, m) <= First((u + 1) * n, m)
                                  /\ First(u * n, m) \in Nat /\ First((u + 1) * n, m) \in Nat
         /\ \A u, v \in 0 .. m - 1 :
              First((u + 1) * n, m) - First(u * n, m) <= First((v + 1) * n, m) - First(v * n, m) + 1
<1>1. \A u \in Nat : u * n \in Nat /\ (u + 1) * n = u * n + n /\ u * m \in Nat /\ (u + 1) * m = u * m + m
  OBVIOUS
<1>2. ASSUME NEW i \in 0 .. n - 1, NEW u \in Nat
      PROVE  (i * m) \div n = u <=> First(u * n, m) <= i /\ i < First((u + 1) * n, m)
  <2>1. PICK x \in Nat, y \in Nat, z \in Nat : x = i * m /\ y = u * n /\ z = (u + 1) * n
    BY <1>1
  <2>2. x \div n = u <=> y <= x /\ x < z
    BY <2>1, Quotient, QuotientIs
  <2>3. y <= x <=> First(y, m) <= i
    BY <2>1, FirstIs
  <2>4. z <= x <=> First(z, m) <= i
    BY <2>1, FirstIs
  <2>5. First(z, m) \in Nat
    BY FirstIs
  <2>6. QED
    BY <2>1, <2>2, <2>3, <2>4, <2>5
<1>3. ASSUME NEW u \in 0 .. m - 1 PROVE First((u + 1) * n, m) <= n
  <2>1. PICK z \in Nat : z = (u + 1) * n
    BY <1>1
  <2>2. z <= m * n
    BY <2>1, Times
  <2>3. z <= n * m
    BY <2>2
  <2>4. QED
    BY <2>1, <2>3, FirstIs
<1>4. ASSUME NEW i \in 0 .. n - 1 PROVE (i * m) \div n \in 0 .. m - 1
  <2>1. PICK x \in Nat : x = i * m
    BY <1>1
  <2>2. PICK u \in Nat : u = x \div n /\ u * n <= x
    BY Quotient
  <2>3. ASSUME m <= u PROVE FALSE
    <3>1. m * n <= u * n
      BY <2>3, Times
    <3>2. (i + 1) * m <= n * m
      BY Times
    <3>3. m * n = n * m /\ u * n \in Int /\ m * n \in Int
      OBVIOUS
    <3>4. QED
      BY <1>1, <2>1, <2>2, <3>1, <3>2, <3>3
  <2>4. QED
    BY <2>1, <2>2, <2>3
<1>5. ASSUME NEW u \in 0 .. m - 1
      PROVE  /\ First(u * n, m) <= First((u + 1) * n, m)
             /\ First(u * n, m) \in Nat /\ First((u + 1) * n, m) \in Nat
  <2>1. PICK y \in Nat, z \in Nat : y = u * n /\ z = (u + 1) * n /\ y <= z
    BY <1>1
  <2>2. PICK c \in Nat : c = First(z, m) /\ z <= c * m
    BY FirstIs
  <2>3. y <= c * m
    BY <1>1, <2>1, <2>2
  <2>4. First(y, m) <= c /\ First(y, m) \in Nat
    BY <2>3, FirstIs
  <2>5. QED
    BY <2>1, <2>2, <2>4
<1>6. ASSUME NEW u \in 0 .. m - 1, NEW v \in 0 .. m - 1
      PROVE  First((u + 1) * n, m) - First(u * n, m) <= First((v + 1) * n, m) - First(v * n, m) + 1
  <2>1. PICK y \in Nat, w \in Nat : y = u * n /\ w = v * n /\ (u + 1) * n = y + n /\ (v + 1) * n = w + n
    BY <1>1
  <2>0. \A x \in Nat : \E e \in Nat : e = First(x, m) /\ x <= e * m /\ e * m < x + m
    BY FirstIs
  <2>2. PICK a \in Nat, b \in Nat : /\ a = First(y, m) /\ y <= a * m /\ a * m < y + m
                                    /\ b = First(y + n, m) /\ y + n <= b * m /\ b * m < y + n + m
    <3>1. y + n \in Nat
      OBVIOUS
    <3>2. QED
      BY <2>0, <3>1
  <2>3. PICK c \in Nat, d \in Nat : /\ c = First(w, m) /\ w <= c * m /\ c * m < w + m
                                    /\ d = First(w + n, m) /\ w + n <= d * m /\ d * m < w + n + m
    <3>1. w + n \in Nat
      OBVIOUS
    <3>2. QED
      BY <2>0, <3>1
  <2>4. (b - a) * m = b * m - a * m /\ (d - c + 2) * m = d * m - c * m + 2 * m
    OBVIOUS
  <2>5. a * m \in Int /\ b * m \in Int /\ c * m \in Int /\ d * m \in Int
    OBVIOUS
  <2>6. (b - a) * m < n + m /\ (d - c + 2) * m > n + m
    BY <2>2, <2>3, <2>4, <2>5
  <2>7. ASSUME d - c + 2 <= b - a PROVE FALSE
    <3>1. (d - c + 2) * m <= (b - a) * m
      BY <2>7, Times
    <3>2. QED
      BY <2>4, <2>5, <2>6, <3>1
  <2>8. b - a <= d - c + 1
    BY <2>7
  <2>9. QED
    BY <2>1, <2>2, <2>3, <2>8
<1>7. \A u \in 0 .. m - 1 : \A i \in 0 .. n - 1 :
        (i * m) \div n = u <=> First(u * n, m) <= i /\ i < First((u + 1) * n, m)
  <2>1. 0 .. m - 1 \subseteq Nat
    OBVIOUS
  <2>2. QED
    BY <1>2, <2>1, Zenon
<1>8. QED
  BY <1>3, <1>4, <1>5, <1>6, <1>7, Zenon

-----------------------------------------------------------------------------
(* The PUs of threads *)

\* What set_rank_size leaves if it does not end the program.
Laid ==
  /\ start \in Starts
  /\ consistent(node_ranks)
  /\ layout = [p \in Process |->
                 [node |-> node_ranks.ranks[p], nnodes |-> node_ranks.size,
                  node_proc |-> local_rank(p), node_nprocs |-> local_size(p)]]

\* Every node has as many processes as any other.
LEMMA SameSize ==
  ASSUME Laid, NEW p \in Process, NEW q \in Process
  PROVE  local_size(p) = local_size(q)
<1>1. ASSUME NEW r \in Process PROVE local_size(r) = local_size(0)
  <2>1. PICK n : n = node_ranks.ranks[r]
    OBVIOUS
  <2>2. n \in 0 .. node_ranks.size - 1
    BY <2>1, NodesNumbered DEF Laid
  <2>3. {x \in Process : node_ranks.ranks[x] = n} = local(r)
    BY <2>1, NodesNumbered DEF Laid, local
  <2>4. QED
    BY <2>2, <2>3 DEF Laid, consistent, local_size
<1>2. QED
  BY <1>1

LEMMA Threads ==
  /\ nthreads \in Nat \ {0} /\ Worker = 0 .. nthreads - 1 /\ IsFiniteSet(Worker)
<1>1. Cardinality(Worker) \in Nat /\ Cardinality(Worker) # 0
  BY AllThreadsAssumption, FS_CardinalityType, FS_EmptySet
<1>2. QED
  BY <1>1, AllThreadsAssumption, AffinityAssumption DEF nthreads

\* The threads of a node are numbered from 0, and no two have one number.
LEMMA NodeThreads ==
  ASSUME Laid, NEW p \in Process
  PROVE  /\ node_nthreads(p) \in Nat \ {0}
         /\ \A q \in local(p) : node_nthreads(q) = node_nthreads(p)
         /\ \A q \in local(p), w \in Worker : node_thread(q, w) \in 0 .. node_nthreads(p) - 1
         /\ \A q, r \in local(p) : \A v, w \in Worker :
              node_thread(q, v) = node_thread(r, w) => q = r /\ v = w
         /\ \A i \in 0 .. node_nthreads(p) - 1 : \E q \in local(p), w \in Worker :
              node_thread(q, w) = i
<1> start \in Starts
  BY DEF Laid
<1>1. PICK n \in Nat \ {0} : n = nthreads /\ Worker = 0 .. n - 1
  BY Threads
<1>2. PICK s \in Nat \ {0} : s = local_size(p)
  BY LocalRanks
<1>3. \A q \in Process : /\ node_nthreads(q) = local_size(q) * n
                         /\ \A w \in Worker : node_thread(q, w) = local_rank(q) * n + w
  BY <1>1 DEF Laid, node_nthreads, node_thread
<1>4. local(p) \subseteq Process /\ \A q \in local(p) : local_size(q) = s /\ local_rank(q) \in 0 .. s - 1
  BY <1>2, LocalRanks
<1>5. \A q \in local(p) : node_nthreads(q) = s * n
  BY <1>3, <1>4
<1>6. node_nthreads(p) = s * n /\ s * n \in Nat \ {0}
  <2>1. s * n > 0 /\ s * n \in Nat
    BY Times
  <2>2. p \in local(p)
    BY DEF local
  <2>3. QED
    BY <1>5, <2>1, <2>2
<1>7. ASSUME NEW q \in local(p), NEW w \in Worker PROVE node_thread(q, w) \in 0 .. s * n - 1
  <2>1. PICK a \in 0 .. s - 1 : a = local_rank(q) /\ node_thread(q, w) = a * n + w
    BY <1>3, <1>4
  <2>2. w \in 0 .. n - 1
    BY <1>1
  <2>3. (a + 1) * n <= s * n
    BY Times
  <2>4. (a + 1) * n = a * n + n /\ a * n \in Nat /\ s * n \in Nat
    OBVIOUS
  <2>5. QED
    BY <2>1, <2>2, <2>3, <2>4
<1>8. ASSUME NEW q \in local(p), NEW r \in local(p), NEW v \in Worker, NEW w \in Worker,
             node_thread(q, v) = node_thread(r, w)
      PROVE  q = r /\ v = w
  <2>1. PICK a \in Nat, b \in Nat : a = local_rank(q) /\ b = local_rank(r)
    BY <1>4
  <2>2. a * n + v = b * n + w
    BY <1>3, <1>4, <1>8, <2>1
  <2>3. v \in 0 .. n - 1 /\ w \in 0 .. n - 1
    BY <1>1
  <2>4. a = b /\ v = w
    BY <2>2, <2>3, Numbers
  <2>5. QED
    BY <2>1, <2>4, LocalRanks
<1>9. ASSUME NEW i \in 0 .. s * n - 1
      PROVE  \E q \in local(p), w \in Worker : node_thread(q, w) = i
  <2>1. i \in Nat /\ i < s * n
    OBVIOUS
  <2>2. PICK a \in Nat : a * n <= i /\ i < (a + 1) * n
    BY <2>1, Quotient
  <2>3. (a + 1) * n = a * n + n /\ a * n \in Nat /\ s * n \in Nat
    OBVIOUS
  <2>4. ASSUME s <= a PROVE FALSE
    <3>1. s * n <= a * n
      BY <2>4, Times
    <3>2. QED
      BY <2>1, <2>2, <2>3, <3>1
  <2>5. a \in 0 .. s - 1
    BY <2>4
  <2>6. PICK q \in local(p) : local_rank(q) = a
    BY <1>2, <2>5, LocalRanks
  <2>7. PICK w \in 0 .. n - 1 : i = a * n + w
    <3>1. i - a * n \in 0 .. n - 1
      BY <2>1, <2>2, <2>3
    <3>2. i = a * n + (i - a * n)
      BY <2>1, <2>3
    <3>3. QED
      BY <3>1, <3>2
  <2>8. node_thread(q, w) = i
    BY <1>1, <1>3, <1>4, <2>6, <2>7
  <2>9. QED
    BY <1>1, <2>8
<1>10. QED
  BY <1>5, <1>6, <1>7, <1>8, <1>9

\* So as many threads have numbers in a set as it has elements.
LEMMA HowMany ==
  ASSUME Laid, NEW p \in Process, NEW I, I \subseteq 0 .. node_nthreads(p) - 1
  PROVE  Cardinality({th \in local(p) \X Worker : node_thread(th[1], th[2]) \in I}) = Cardinality(I)
<1> DEFINE S == {th \in local(p) \X Worker : node_thread(th[1], th[2]) \in I}
           f == [th \in S |-> node_thread(th[1], th[2])]
<1>1. IsFiniteSet(S)
  <2>1. IsFiniteSet(local(p)) /\ IsFiniteSet(Worker)
    BY LocalRanks, Threads DEF Laid
  <2>2. IsFiniteSet(local(p) \X Worker)
    BY <2>1, FS_Product
  <2>3. S \in SUBSET (local(p) \X Worker)
    OBVIOUS
  <2> HIDE DEF S
  <2>4. QED
    BY <2>2, <2>3, FS_Subset
<1>2. f \in [S -> I]
  OBVIOUS
<1>3. ASSUME NEW x \in S, NEW y \in S, f[x] = f[y] PROVE x = y
  <2>1. PICK q \in local(p), v \in Worker : x = <<q, v>>
    BY <1>3
  <2>2. PICK r \in local(p), w \in Worker : y = <<r, w>>
    BY <1>3
  <2>3. node_thread(q, v) = node_thread(r, w)
    BY <1>3, <2>1, <2>2
  <2>4. q = r /\ v = w
    BY <2>3, NodeThreads
  <2>5. QED
    BY <2>1, <2>2, <2>4
<1>4. ASSUME NEW i \in I PROVE \E x \in S : f[x] = i
  <2>1. PICK q \in local(p), w \in Worker : node_thread(q, w) = i
    BY NodeThreads
  <2>2. <<q, w>> \in S
    BY <2>1
  <2>3. QED
    BY <2>1, <2>2
<1>5. f \in Bijection(S, I)
  <2> HIDE DEF f, S
  <2>1. QED
    BY <1>2, <1>3, <1>4 DEF Bijection, Injection, Surjection, IsInjective
<1>6. ExistsBijection(S, I)
  <2> HIDE DEF f, S
  <2>1. QED
    BY <1>5 DEF ExistsBijection
<1>7. Cardinality(I) = Cardinality(S)
  <2> HIDE DEF f, S
  <2>1. QED
    BY <1>1, <1>6, FS_Bijection
<1>8. QED
  BY <1>7

\* The PUs that thread i of n is given, with m PUs.
Share(i, n, m) ==
  LET u == (i * m) \div n IN u .. u + (IF n > m THEN 1 ELSE m \div n) - 1

LEMMA Given ==
  ASSUME Laid, NEW p \in Process, NEW q \in local(p), NEW w \in Worker
  PROVE  LET u == thread_pu(q, w)
         IN  u .. u + thread_npus(q) - 1 =
               Share(node_thread(q, w), node_nthreads(p), start.node_npus)
<1>1. node_nthreads(q) = node_nthreads(p)
  BY NodeThreads
<1>2. QED
  BY <1>1 DEF Share, thread_pu, thread_npus, oversubscribing

\* The threads that are given PU u, n threads on m PUs.
Sharers(u, n, m) == {i \in 0 .. n - 1 : u \in Share(i, n, m)}

\* As many PUs as threads, or more: every thread has its own.
LEMMA Enough ==
  ASSUME NEW n \in Nat \ {0}, NEW m \in Nat \ {0}, ~ (n > m), m % n = 0
  PROVE  /\ \A i \in 0 .. n - 1 : Share(i, n, m) \subseteq 0 .. m - 1
         /\ \A u \in 0 .. m - 1 : Cardinality(Sharers(u, n, m)) = 1
<1>1. PICK k \in Nat \ {0} : k = m \div n /\ m = k * n
  <2>1. m % n \in 0 .. n - 1 /\ m = n * (m \div n) + (m % n) /\ m \div n \in Int
    OBVIOUS
  <2>2. PICK k \in Int : k = m \div n /\ m = n * k
    BY <2>1
  <2>3. ASSUME k <= 0 PROVE FALSE
    <3>1. k * n <= 0 * n
      BY <2>3, Times
    <3>2. QED
      BY <2>2, <3>1
  <2>4. QED
    BY <2>2, <2>3
<1>2. ASSUME NEW i \in 0 .. n - 1
      PROVE  /\ Share(i, n, m) = i * k .. i * k + k - 1
             /\ i * k \in Nat /\ (i + 1) * k = i * k + k /\ (i + 1) * k <= m
  <2>1. PICK a \in Nat : a = i * k /\ (i + 1) * k = a + k
    OBVIOUS
  <2>2. i * m = a * n /\ a * n \in Nat /\ (a + 1) * n = a * n + n
    BY <1>1, <2>1
  <2>3. (i * m) \div n = a
    BY <2>2, QuotientIs
  <2>4. Share(i, n, m) = a .. a + k - 1
    BY <1>1, <2>3 DEF Share
  <2>5. (i + 1) * k <= n * k
    BY Times
  <2>6. QED
    BY <1>1, <2>1, <2>4, <2>5
<1>3. ASSUME NEW i \in 0 .. n - 1 PROVE Share(i, n, m) \subseteq 0 .. m - 1
  <2>1. PICK a \in Nat : Share(i, n, m) = a .. a + k - 1 /\ a + k <= m
    BY <1>2
  <2>2. QED
    BY <2>1
<1>4. ASSUME NEW u \in 0 .. m - 1 PROVE Cardinality(Sharers(u, n, m)) = 1
  <2>1. PICK d \in Nat : d = u \div k /\ d * k <= u /\ u < (d + 1) * k
    BY Quotient
  <2>2. ASSUME n <= d PROVE FALSE
    <3>1. n * k <= d * k
      BY <2>2, Times
    <3>2. n * k = m /\ d * k \in Int
      BY <1>1
    <3>3. QED
      BY <2>1, <3>1, <3>2
  <2>3. d \in 0 .. n - 1
    BY <2>2
  <2>4. ASSUME NEW i \in 0 .. n - 1 PROVE u \in Share(i, n, m) <=> i = d
    <3>1. PICK a \in Nat : a = i * k /\ (i + 1) * k = a + k /\ Share(i, n, m) = a .. a + k - 1
      BY <1>2
    <3>2. u \in Share(i, n, m) <=> a <= u /\ u < a + k
      BY <3>1
    <3>3. ASSUME a <= u, u < a + k PROVE u \div k = i
      <4>1. i \in Nat /\ u \in Nat /\ i * k <= u /\ u < (i + 1) * k
        BY <3>1, <3>3
      <4>2. QED
        BY <4>1, QuotientIs
    <3>4. QED
      BY <2>1, <3>1, <3>2, <3>3
  <2>5. Sharers(u, n, m) = {d}
    BY <2>3, <2>4 DEF Sharers
  <2>6. QED
    BY <2>5, FS_Singleton
<1>5. QED
  BY <1>3, <1>4

\* Fewer PUs than threads: no PU has two threads more than any other.
LEMMA TooFew ==
  ASSUME NEW n \in Nat \ {0}, NEW m \in Nat \ {0}, n > m
  PROVE  /\ \A i \in 0 .. n - 1 : Share(i, n, m) \subseteq 0 .. m - 1
         /\ \A u, v \in 0 .. m - 1 :
              Cardinality(Sharers(u, n, m)) <= Cardinality(Sharers(v, n, m)) + 1
<1>1. ASSUME NEW i \in 0 .. n - 1
      PROVE  Share(i, n, m) = {(i * m) \div n} /\ (i * m) \div n \in 0 .. m - 1
  <2>1. PICK u \in 0 .. m - 1 : u = (i * m) \div n
    BY Shared
  <2>2. u .. u + 1 - 1 = {u}
    OBVIOUS
  <2>3. QED
    BY <2>1, <2>2 DEF Share
<1>2. ASSUME NEW u \in 0 .. m - 1
      PROVE  Cardinality(Sharers(u, n, m)) = First((u + 1) * n, m) - First(u * n, m)
  <2>1. PICK a \in Nat, b \in Nat : /\ a = First(u * n, m) /\ b = First((u + 1) * n, m)
                                    /\ a <= b /\ b <= n
    <3>1. /\ First(u * n, m) <= First((u + 1) * n, m) /\ First((u + 1) * n, m) <= n
          /\ First(u * n, m) \in Nat /\ First((u + 1) * n, m) \in Nat
      BY Shared, Zenon
    <3>2. QED
      BY <3>1, Zenon
  <2>2. \A i \in 0 .. n - 1 : (i * m) \div n = u <=> a <= i /\ i < b
    BY <2>1, Shared
  <2>3. Sharers(u, n, m) = {i \in 0 .. n - 1 : a <= i /\ i < b}
    BY <1>1, <2>2 DEF Sharers
  <2>4. {i \in 0 .. n - 1 : a <= i /\ i < b} = a .. b - 1
    BY <2>1
  <2>5. Cardinality(a .. b - 1) = b - a
    <3>1. a \in Int /\ b - 1 \in Int
      OBVIOUS
    <3>2. Cardinality(a .. b - 1) = IF a > b - 1 THEN 0 ELSE (b - 1) - a + 1
      BY <3>1, FS_Interval
    <3>3. QED
      BY <2>1, <3>2
  <2>6. QED
    BY <2>1, <2>3, <2>4, <2>5
<1>3. \A u, v \in 0 .. m - 1 : Cardinality(Sharers(u, n, m)) <= Cardinality(Sharers(v, n, m)) + 1
  <2>1. \A u, v \in 0 .. m - 1 :
          First((u + 1) * n, m) - First(u * n, m) <= First((v + 1) * n, m) - First(v * n, m) + 1
    BY Shared, Zenon
  <2>2. \A u \in 0 .. m - 1 :
          Cardinality(Sharers(u, n, m)) = First((u + 1) * n, m) - First(u * n, m)
    BY <1>2, Zenon
  <2>3. QED
    BY <2>1, <2>2
<1>4. QED
  BY <1>1, <1>3

-----------------------------------------------------------------------------
(* initialize, as a whole *)

\* What the start knows beyond its ranks: initialize goes on only where the
\* PUs of the node can be shared exactly.
LayInv ==
  /\ start \in Starts
  /\ phase \in {"affinity", "up"} =>
       Laid /\ \A w \in Worker : ran[w] > 0 => exact(start.rank)

\* While the start is what it was, so are the nodes and who is where.
LEMMA SameStart ==
  ASSUME UNCHANGED start
  PROVE  /\ Process' = Process /\ node_ranks' = node_ranks
         /\ consistent(node_ranks)' <=> consistent(node_ranks)
         /\ \A p \in Process : local_rank(p)' = local_rank(p) /\ local_size(p)' = local_size(p)
<1>1. Process' = Process
  BY DEF Process
<1>2. node_ranks' = node_ranks
  BY DEF node_ranks, node_group, local, Process
<1>3. ASSUME NEW p PROVE local_rank(p)' = local_rank(p) /\ local_size(p)' = local_size(p)
  <2>1. {q \in local(p) : q < p}' = {q \in local(p) : q < p} /\ local(p)' = local(p)
    BY DEF local, Process
  <2>2. QED
    BY <2>1 DEF local_rank, local_size
<1>4. local_size(0)' = local_size(0)
  BY <1>3
<1>5. \A n : {p \in Process : node_ranks.ranks[p] = n}' = {p \in Process : node_ranks.ranks[p] = n}
  BY <1>1, <1>2
<1>6. consistent(node_ranks)' <=> consistent(node_ranks)
  BY <1>2, <1>4, <1>5 DEF consistent
<1>7. QED
  BY <1>1, <1>2, <1>3, <1>6

LEMMA LayInvStep == LayInv /\ StartInv /\ TypeOK /\ [StartNext]_allVars => LayInv'
<1> SUFFICES ASSUME LayInv, StartInv, TypeOK, [StartNext]_allVars PROVE LayInv'
  OBVIOUS
<1>1. ASSUME UNCHANGED <<start, layout>>
      PROVE  /\ LayInv => start' \in Starts
             /\ Laid' <=> Laid
             /\ exact(start.rank)' <=> exact(start.rank)
  <2>1. Laid' <=> Laid
    <3>1. [p \in Process |->
                    [node |-> node_ranks.ranks[p], nnodes |-> node_ranks.size,
                     node_proc |-> local_rank(p), node_nprocs |-> local_size(p)]]' =
                 [p \in Process |->
                    [node |-> node_ranks.ranks[p], nnodes |-> node_ranks.size,
                     node_proc |-> local_rank(p), node_nprocs |-> local_size(p)]]
      BY <1>1, SameStart
    <3>2. QED
      BY <1>1, <3>1, SameStart DEF Laid
  <2>2. QED
    BY <1>1, <2>1 DEF LayInv, exact, oversubscribing, node_nthreads, nthreads
<1>2. ASSUME UNCHANGED <<ran, start, layout>>, phase = "affinity" \/ UNCHANGED phase PROVE LayInv'
  BY <1>1, <1>2 DEF LayInv
<1>3. CASE SetRankSize
  <2>1. phase = "rank" /\ UNCHANGED <<start, ran>> /\ \A w \in Worker : ran[w] = 0
    BY <1>3 DEF SetRankSize, vars, StartInv
  <2>2. CASE phase' \in {"affinity", "up"}
    <3>1. /\ consistent(node_ranks)
          /\ layout' = [p \in Process |->
                          [node |-> node_ranks.ranks[p], nnodes |-> node_ranks.size,
                           node_proc |-> local_rank(p), node_nprocs |-> local_size(p)]]
      BY <1>3, <2>2 DEF SetRankSize
    <3>2. Laid'
      BY <2>1, <3>1, SameStart DEF LayInv, Laid
    <3>3. QED
      BY <2>1, <3>2 DEF LayInv
  <2>3. QED
    BY <2>1, <2>2 DEF LayInv
<1>4. CASE Call
  <2>1. UNCHANGED <<ran, start, layout, phase>>
    BY <1>4 DEF Call, Fork, Get, startVars
  <2>2. QED
    BY <1>2, <2>1
<1>5. ASSUME NEW w \in Worker, NEW t \in Task, Wait(w, t) PROVE LayInv'
  <2>1. UNCHANGED <<ran, start, layout, phase>>
    BY <1>5 DEF Wait, Dispatch, Begin, Done, Leave, startVars
  <2>2. QED
    BY <1>2, <2>1
<1>6. ASSUME NEW w \in Worker, NEW t \in Task, ManageAffinity(w, t) PROVE LayInv'
  <2>1. phase = "affinity" /\ UNCHANGED <<start, layout>>
    BY <1>6 DEF ManageAffinity
  <2>2. CASE exact(start.rank)
    BY <1>1, <2>1, <2>2 DEF LayInv
  <2>3. CASE ~ exact(start.rank)
    BY <1>1, <1>6, <2>3 DEF LayInv, ManageAffinity
  <2>4. QED
    BY <2>2, <2>3
<1>7. CASE Initialized
  <2>1. phase = "affinity" /\ UNCHANGED <<ran, start, layout>>
    BY <1>7 DEF Initialized, Return
  <2>2. QED
    BY <1>2, <2>1
<1>8. CASE UNCHANGED allVars
  <2>1. UNCHANGED <<ran, start, layout, phase>>
    BY <1>8 DEF allVars, vars, startVars
  <2>2. QED
    BY <1>2, <2>1
<1>9. QED
  BY <1>3, <1>4, <1>5, <1>6, <1>7, <1>8 DEF StartNext

\* The threads of p's node, and what a thread is given.
NodesThreads(p) == {q \in Process : layout[q].node = layout[p].node} \X Worker
GivenTo(th) == LET u == thread_pu(th[1], th[2]) IN u .. u + thread_npus(th[1]) - 1

LEMMA Users ==
  ASSUME Laid, NEW p \in Process, NEW u
  PROVE  /\ NodesThreads(p) = local(p) \X Worker
         /\ Cardinality({th \in NodesThreads(p) : u \in GivenTo(th)}) =
              Cardinality(Sharers(u, node_nthreads(p), start.node_npus))
<1>1. NodesThreads(p) = local(p) \X Worker
  <2>1. \A q \in Process : layout[q].node = node_ranks.ranks[q]
    BY DEF Laid
  <2>2. \A q \in Process : layout[q].node = layout[p].node <=> start.machine[q] = start.machine[p]
    BY <2>1, NodesNumbered DEF Laid
  <2>3. QED
    BY <2>2 DEF NodesThreads, local
<1>2. PICK n \in Nat \ {0} : n = node_nthreads(p)
  BY NodeThreads
<1> DEFINE I == Sharers(u, n, start.node_npus)
<1>3. I \subseteq 0 .. n - 1
  BY DEF Sharers
<1>4. ASSUME NEW q \in local(p), NEW w \in Worker
      PROVE  u \in GivenTo(<<q, w>>) <=> node_thread(q, w) \in I
  <2>1. GivenTo(<<q, w>>) = Share(node_thread(q, w), n, start.node_npus)
    BY <1>2, Given DEF GivenTo
  <2>2. node_thread(q, w) \in 0 .. n - 1
    BY <1>2, NodeThreads
  <2>3. QED
    BY <2>1, <2>2 DEF Sharers
<1>5. {th \in local(p) \X Worker : u \in GivenTo(th)} =
        {th \in local(p) \X Worker : node_thread(th[1], th[2]) \in I}
  BY <1>4
<1>6. Cardinality({th \in local(p) \X Worker : node_thread(th[1], th[2]) \in I}) = Cardinality(I)
  BY <1>2, <1>3, HowMany
<1>7. QED
  BY <1>1, <1>2, <1>5, <1>6

\* Once the PUs of this process can be shared exactly, those of all can.
LEMMA PUsShared ==
  ASSUME Laid, exact(start.rank), NEW p \in Process
  PROVE  /\ \A w \in Worker : GivenTo(<<p, w>>) \subseteq PU
         /\ oversubscribing(p) =>
              \A u, v \in PU :
                Cardinality({th \in NodesThreads(p) : u \in GivenTo(th)}) <=
                  Cardinality({th \in NodesThreads(p) : v \in GivenTo(th)}) + 1
         /\ ~ oversubscribing(p) =>
              \A u \in PU : Cardinality({th \in NodesThreads(p) : u \in GivenTo(th)}) = 1
<1>1. PICK n \in Nat \ {0} : n = node_nthreads(p)
  BY NodeThreads
<1>2. PICK m \in Nat \ {0} : m = start.node_npus /\ PU = 0 .. m - 1
  BY Machines DEF Laid, PU
<1>3. n > m \/ m % n = 0
  <2>1. start.rank \in Process
    BY Machines DEF Laid
  <2>2. node_nthreads(start.rank) = n
    BY <1>1, <2>1, SameSize DEF node_nthreads, Laid
  <2>3. QED
    BY <1>2, <2>2 DEF exact, oversubscribing
<1>4. oversubscribing(p) <=> n > m
  BY <1>1, <1>2 DEF oversubscribing
<1>5. ASSUME NEW w \in Worker PROVE GivenTo(<<p, w>>) \subseteq PU
  <2>1. p \in local(p)
    BY DEF local
  <2>2. PICK i \in 0 .. n - 1 : i = node_thread(p, w)
    BY <1>1, <2>1, NodeThreads
  <2>3. GivenTo(<<p, w>>) = Share(i, n, m)
    BY <1>1, <1>2, <2>1, <2>2, Given DEF GivenTo
  <2>4. QED
    BY <1>2, <1>3, <2>3, Enough, TooFew
<1>6. \A u \in PU : Cardinality({th \in NodesThreads(p) : u \in GivenTo(th)}) =
                      Cardinality(Sharers(u, n, m))
  BY <1>1, <1>2, Users
<1>7. n > m => \A u, v \in PU : Cardinality(Sharers(u, n, m)) <= Cardinality(Sharers(v, n, m)) + 1
  BY <1>2, TooFew
<1>8. ~ (n > m) => \A u \in PU : Cardinality(Sharers(u, n, m)) = 1
  BY <1>2, <1>3, Enough
<1>9. QED
  BY <1>4, <1>5, <1>6, <1>7, <1>8

\* The workers of all processes on a node, however many processes, nodes and
\* PUs there are and wherever the processes are, share the PUs of the node: no
\* worker is sent off the node, no PU is given twice while there are enough,
\* and none is left out.  Each process finds its part alone (thread_affinity).
THEOREM WorkersShareTheNode == StartSpec => []Pinned
<1>1. StartInit => StartInv /\ LayInv
  BY DEF StartInit, Init, StartInv, LayInv
<1>2. ASSUME LayInv, OncePerWorker, StartInv, Reported PROVE Pinned
  <2> SUFFICES ASSUME phase = "up" PROVE Pinned
    BY DEF Pinned
  <2>1. Laid /\ start \in Starts
    BY <1>2 DEF LayInv
  <2>2. exact(start.rank)
    <3>1. PICK w \in Worker : TRUE
      BY AllThreadsAssumption
    <3>2. ran[w] = 1
      BY <1>2, <3>1 DEF StartInv, OncePerWorker
    <3>3. QED
      BY <1>2, <3>1, <3>2 DEF LayInv
  <2>3. \A p \in Process : layout[p].node = node_ranks.ranks[p] /\ layout[p].nnodes = node_ranks.size
    BY <2>1 DEF Laid
  <2>4. /\ {layout[p].node : p \in Process} = 0 .. layout[0].nnodes - 1
        /\ \A p, q \in Process :
             (layout[p].node = layout[q].node) <=> (start.machine[p] = start.machine[q])
    <3>1. 0 \in Process
      BY <2>1, Machines
    <3>2. {layout[p].node : p \in Process} = {node_ranks.ranks[p] : p \in Process}
      BY <2>3
    <3>3. QED
      BY <2>1, <2>3, <3>1, <3>2, NodesNumbered
  <2>5. \A w \in Worker : /\ cpu_infos[w].thread = w
                          /\ bound[w] \in {{thread_pu(start.rank, w)}, PU}
    <3>1. \A w \in Worker : Pinning(w)
      BY <1>2 DEF Reported
    <3>2. \A w \in Worker : binding(start.rank, w) \in {{thread_pu(start.rank, w)}, PU}
      BY DEF binding
    <3>3. ASSUME NEW w \in Worker
          PROVE  cpu_infos[w].thread = w /\ bound[w] = binding(start.rank, w)
      <4>1. cpu_infos[w] = [node |-> layout[start.rank].node,
                            proc |-> layout[start.rank].node_proc, thread |-> w]
        BY <3>1 DEF Pinning
      <4>2. QED
        BY <3>1, <4>1 DEF Pinning
    <3>4. QED
      BY <3>2, <3>3
  <2>6. \A p \in Process, w \in Worker : GivenTo(<<p, w>>) \subseteq PU
    BY <2>1, <2>2, PUsShared
  <2>7. \A p \in Process :
          IF oversubscribing(p)
          THEN \A u, v \in PU :
                 Cardinality({th \in NodesThreads(p) : u \in GivenTo(th)}) <=
                   Cardinality({th \in NodesThreads(p) : v \in GivenTo(th)}) + 1
          ELSE \A u \in PU : Cardinality({th \in NodesThreads(p) : u \in GivenTo(th)}) = 1
    BY <2>1, <2>2, PUsShared
  <2>8. QED
    BY <2>4, <2>5, <2>6, <2>7 DEF Pinned, NodesThreads, GivenTo
<1>3. StartSpec => []TypeOK
  BY StartImplementsRun, TypeCorrect, PTL
<1>4. QED
  BY <1>1, <1>2, <1>3, LayInvStep, StartInvStep, PinsOncePerWorker, EveryWorkerPinned, PTL
     DEF StartSpec

=============================================================================
