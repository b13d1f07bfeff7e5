----------------------------- MODULE AllThreads -----------------------------
(***************************************************************************)
(* all_threads::run of qthread/thread.cpp: a function is to be run once on *)
(* every worker of the process (hwloc pins every worker with it).  Many    *)
(* more tasks than workers are started; each takes a sequence number, the  *)
(* first ones spin until there is one on each worker, run the function,    *)
(* and spin again until all have run it.                                   *)
(*                                                                         *)
(* The scheduler of Qthreads is external: an idle worker takes any task    *)
(* that is ready, and keeps it until the task ends, for no task yields.    *)
(***************************************************************************)
EXTENDS Integers, FiniteSets

CONSTANTS
  Worker,   \* the workers of the process: hardware_concurrency() of them
  Task,     \* the tasks: overload_factor times as many
  Caller,   \* the thread that calls run
  Nobody    \* what an idle worker runs

ASSUME AllThreadsAssumption ==
  /\ IsFiniteSet(Worker) /\ Worker # {}
  /\ IsFiniteSet(Task) /\ Cardinality(Task) >= Cardinality(Worker)
  /\ Caller \notin Task /\ Nobody \notin Task \cup {Caller}

nthreads == Cardinality(Worker)
Thread == Task \cup {Caller}

VARIABLES
  count_begin,
  count_done,
  pc,       \* where a thread is
  runs,     \* the thread a worker runs
  ran       \* how often f was called on a worker

vars == <<count_begin, count_done, pc, runs, ran>>

TypeOK ==
  /\ count_begin \in 0 .. Cardinality(Task)
  /\ count_done \in 0 .. nthreads
  /\ pc \in [Thread -> {"unborn", "begin", "gather", "done", "leave", "end",
                        "fork", "get", "returned"}]
  /\ runs \in [Worker -> Thread \cup {Nobody}]
  /\ ran \in [Worker -> Nat]

\* The caller is a thread as well, and has a worker.
Init ==
  /\ count_begin = 0
  /\ count_done = 0
  /\ pc = [t \in Thread |-> IF t = Caller THEN "fork" ELSE "unborn"]
  /\ \E w \in Worker :
       runs = [v \in Worker |-> IF v = w THEN Caller ELSE Nobody]
  /\ ran = [w \in Worker |-> 0]

Runs(t) == \E w \in Worker : runs[w] = t

-----------------------------------------------------------------------------

\* qthread::async in the caller's loop.
Fork(t) ==
  /\ Runs(Caller)
  /\ pc[Caller] = "fork"
  /\ pc[t] = "unborn"
  /\ pc' = [pc EXCEPT ![t] = "begin"]
  /\ UNCHANGED <<count_begin, count_done, runs, ran>>

\* All are forked: the caller waits for them, and gives up its worker.
Get(w) ==
  /\ runs[w] = Caller
  /\ pc[Caller] = "fork"
  /\ \A t \in Task : pc[t] # "unborn"
  /\ pc' = [pc EXCEPT ![Caller] = "get"]
  /\ runs' = [runs EXCEPT ![w] = Nobody]
  /\ UNCHANGED <<count_begin, count_done, ran>>

\* An idle worker takes a task that no worker runs.
Dispatch(w, t) ==
  /\ runs[w] = Nobody
  /\ pc[t] = "begin"
  /\ ~Runs(t)
  /\ runs' = [runs EXCEPT ![w] = t]
  /\ UNCHANGED <<count_begin, count_done, pc, ran>>

\* Mutant: the sequence numbers start at one.
BeginAfter(w, t) ==
  /\ runs[w] = t
  /\ pc[t] = "begin"
  /\ count_begin' = count_begin + 1
  /\ IF count_begin + 1 >= nthreads
     THEN pc' = [pc EXCEPT ![t] = "end"] /\ runs' = [runs EXCEPT ![w] = Nobody]
     ELSE pc' = [pc EXCEPT ![t] = "gather"] /\ UNCHANGED runs
  /\ UNCHANGED <<count_done, ran>>

\* Mutant: one task too many stays.
BeginOneMore(w, t) ==
  /\ runs[w] = t
  /\ pc[t] = "begin"
  /\ count_begin' = count_begin + 1
  /\ IF count_begin > nthreads
     THEN pc' = [pc EXCEPT ![t] = "end"] /\ runs' = [runs EXCEPT ![w] = Nobody]
     ELSE pc' = [pc EXCEPT ![t] = "gather"] /\ UNCHANGED runs
  /\ UNCHANGED <<count_done, ran>>

\* mycount = count_begin++, and the early exit.
Begin(w, t) ==
  /\ runs[w] = t
  /\ pc[t] = "begin"
  /\ count_begin' = count_begin + 1
  /\ IF count_begin >= nthreads
     THEN pc' = [pc EXCEPT ![t] = "end"] /\ runs' = [runs EXCEPT ![w] = Nobody]
     ELSE pc' = [pc EXCEPT ![t] = "gather"] /\ UNCHANGED runs
  /\ UNCHANGED <<count_done, ran>>

\* while (count_begin < nthreads); then f().
Work(w, t) ==
  /\ runs[w] = t
  /\ pc[t] = "gather"
  /\ count_begin >= nthreads
  /\ ran' = [ran EXCEPT ![w] = @ + 1]
  /\ pc' = [pc EXCEPT ![t] = "done"]
  /\ UNCHANGED <<count_begin, count_done, runs>>

\* ++count_done
Done(w, t) ==
  /\ runs[w] = t
  /\ pc[t] = "done"
  /\ count_done' = count_done + 1
  /\ pc' = [pc EXCEPT ![t] = "leave"]
  /\ UNCHANGED <<count_begin, runs, ran>>

\* while (count_done < nthreads); and the end of the task.
Leave(w, t) ==
  /\ runs[w] = t
  /\ pc[t] = "leave"
  /\ count_done >= nthreads
  /\ pc' = [pc EXCEPT ![t] = "end"]
  /\ runs' = [runs EXCEPT ![w] = Nobody]
  /\ UNCHANGED <<count_begin, count_done, ran>>

\* Every get() has returned: a worker resumes the caller, which returns.
Return ==
  /\ pc[Caller] = "get"
  /\ \A t \in Task : pc[t] = "end"
  /\ \E w \in Worker : runs[w] = Nobody
  /\ pc' = [pc EXCEPT ![Caller] = "returned"]
  /\ UNCHANGED <<count_begin, count_done, runs, ran>>

-----------------------------------------------------------------------------

Run(w, t) ==
  Begin(w, t) \/ Work(w, t) \/ Done(w, t) \/ Leave(w, t)

Next ==
  \/ \E t \in Task : Fork(t)
  \/ \E w \in Worker : Get(w)
  \/ \E w \in Worker, t \in Task : Dispatch(w, t) \/ Run(w, t)
  \/ Return

Spec == Init /\ [][Next]_vars

\* The caller goes on, an idle worker looks for a task, and a worker executes
\* the one it has.
FairSpec ==
  /\ Spec
  /\ WF_vars(\E t \in Task : Fork(t)) /\ WF_vars(\E w \in Worker : Get(w))
  /\ WF_vars(Return)
  /\ \A w \in Worker :
       WF_vars(\E t \in Task : Dispatch(w, t)) /\ WF_vars(\E t \in Task : Run(w, t))

-----------------------------------------------------------------------------
(* Properties *)

\* No worker runs the function twice, so no two calls write one entry of
\* cpu_infos; and when run returns every worker has run it, and the assertion
\* count_done == nthreads holds.
OncePerWorker ==
  /\ \A w \in Worker : ran[w] <= 1
  /\ pc[Caller] = "returned" =>
       count_done = nthreads /\ \A w \in Worker : ran[w] = 1

\* run returns: the spinning tasks never keep the last ones from a worker.
RunReturns == <>(pc[Caller] = "returned")

=============================================================================
