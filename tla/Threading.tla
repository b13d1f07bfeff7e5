----------------------------- MODULE Threading -----------------------------
(***************************************************************************)
(* threading_disable and threading_enable of funhpc/server.cpp: a thread   *)
(* makes itself the only one that runs on its process.  It starts a task   *)
(* for every other worker, and the tasks block their workers on a rwlock   *)
(* that the thread holds.                                                  *)
(*                                                                         *)
(* There are at least two workers; with one the functions only set the     *)
(* flag.  The scheduler of Qthreads is external: an idle worker takes any  *)
(* thread that is ready, and keeps it until it yields or ends.  A thread   *)
(* that blocks on the rwlock, or spins, keeps its worker.                  *)
(***************************************************************************)
EXTENDS Integers, FiniteSets

CONSTANTS
  Worker,    \* the workers of the process
  User,      \* the user's threads
  Caller,    \* those of them that disable and enable threading
  MaxRounds, \* how often this is done (a bound)
  Nobody     \* what an idle worker runs

ASSUME ThreadingAssumption ==
  /\ IsFiniteSet(Worker) /\ Cardinality(Worker) > 1
  /\ Caller \subseteq User
  /\ MaxRounds \in Nat

Round == 1 .. MaxRounds

\* Mutant: a spinner for the caller's worker as well.
allworkers == Cardinality(Worker)

numworkers == Cardinality(Worker) - 1

\* The tasks started by the r-th threading_disable.
Spinner == Round \X (1 .. numworkers)
SpinnersOf(r) == {r} \X (1 .. numworkers)
Thread == User \cup Spinner

ASSUME ThreadAssumption == User \cap Spinner = {} /\ Nobody \notin Thread

VARIABLES
  threading_disabled,
  threads_disable,   \* the rwlock: its writer, "free", or "none"
  threads_counter,
  go,       \* the local variable go of each threading_disable
  round,    \* the number of calls of threading_disable
  mine,     \* the number of a caller's last one
  pc,       \* where a thread is
  runs      \* the thread a worker runs

globals == <<threading_disabled, threads_disable, threads_counter, go, round,
             mine>>
vars == <<threading_disabled, threads_disable, threads_counter, go, round,
          mine, pc, runs>>

UserPC == {"work", "flag", "create", "count", "start", "wrlock", "gather",
           "exclusive", "unlock", "drain", "terminated"}
SpinnerPC == {"unborn", "spin", "rdlock", "leave", "end"}

TypeOK ==
  /\ threading_disabled \in BOOLEAN
  /\ threads_disable \in {"none", "free", "locked"}
  /\ threads_counter \in 0 .. numworkers
  /\ go \in [Round -> {"false", "true", "gone"}]
  /\ round \in 0 .. MaxRounds
  /\ mine \in [Caller -> 0 .. MaxRounds]
  /\ \A t \in User : pc[t] \in UserPC
  /\ \A t \in Spinner : pc[t] \in SpinnerPC
  /\ runs \in [Worker -> Thread \cup {Nobody}]

Init ==
  /\ threading_disabled = FALSE
  /\ threads_disable = "none"
  /\ threads_counter = 0
  /\ go = [r \in Round |-> "gone"]
  /\ round = 0
  /\ mine = [u \in Caller |-> 0]
  /\ pc = [t \in Thread |-> IF t \in User THEN "work" ELSE "unborn"]
  /\ runs = [w \in Worker |-> Nobody]

Runs(t) == \E w \in Worker : runs[w] = t

\* A thread on a worker goes from one point of its code to the next.
Goto(t, from, to) ==
  /\ Runs(t)
  /\ pc[t] = from
  /\ pc' = [pc EXCEPT ![t] = to]

Ready(t) == pc[t] \notin {"unborn", "end", "terminated"} /\ ~Runs(t)

-----------------------------------------------------------------------------
(* Qthreads *)

Dispatch(w, t) ==
  /\ runs[w] = Nobody
  /\ Ready(t)
  /\ runs' = [runs EXCEPT ![w] = t]
  /\ UNCHANGED <<globals, pc>>

\* A thread of the user gives up its worker, to go on later.
Yield(w, t) ==
  /\ runs[w] = t
  /\ t \in User /\ pc[t] = "work"
  /\ runs' = [runs EXCEPT ![w] = Nobody]
  /\ UNCHANGED <<globals, pc>>

-----------------------------------------------------------------------------
(* threading_disable *)

\* The flag is read ...
DisableTest(u) ==
  /\ round < MaxRounds
  /\ Goto(u, "work", IF threading_disabled THEN "terminated" ELSE "flag")
  /\ UNCHANGED <<globals, runs>>

\* ... and set, the lock is made ...
DisableFlag(u) ==
  /\ Goto(u, "flag", "create")
  /\ threading_disabled' = TRUE
  /\ UNCHANGED <<threads_disable, threads_counter, go, round, mine, runs>>

DisableCreate(u) ==
  /\ Goto(u, "create", "count")
  /\ threads_disable' = "free"
  /\ UNCHANGED <<threading_disabled, threads_counter, go, round, mine, runs>>

\* ... the counter and the local go are set ...
DisableCount(u) ==
  /\ round < MaxRounds
  /\ Goto(u, "count", "start")
  /\ threads_counter' = 0
  /\ round' = round + 1
  /\ mine' = [mine EXCEPT ![u] = round + 1]
  /\ go' = [go EXCEPT ![round + 1] = "false"]
  /\ UNCHANGED <<threading_disabled, threads_disable, runs>>

\* ... the tasks are started, one after the other ...
DisableStart(u, t) ==
  /\ Runs(u) /\ pc[u] = "start"
  /\ t \in SpinnersOf(mine[u])
  /\ pc[t] = "unborn"
  /\ \A n \in 1 .. numworkers : n < t[2] => pc[<<t[1], n>>] # "unborn"
  /\ pc' = [pc EXCEPT ![t] = "spin"]
  /\ UNCHANGED <<globals, runs>>

\* ... and the worker is given up once.
DisableYield(w, u) ==
  /\ runs[w] = u
  /\ Goto(u, "start", "wrlock")
  /\ \A t \in SpinnersOf(mine[u]) : pc[t] # "unborn"
  /\ runs' = [runs EXCEPT ![w] = Nobody]
  /\ UNCHANGED globals

\* The write lock is taken, and the workers may go.
DisableLock(u) ==
  /\ Goto(u, "wrlock", "gather")
  /\ threads_disable = "free"
  /\ threads_disable' = "locked"
  /\ go' = [go EXCEPT ![mine[u]] = "true"]
  /\ UNCHANGED <<threading_disabled, threads_counter, round, mine, runs>>

\* Mutant: the caller does not wait for the last worker.
DisableGatherEarly(u) ==
  /\ Goto(u, "gather", "exclusive")
  /\ threads_counter >= numworkers - 1
  /\ go' = [go EXCEPT ![mine[u]] = "gone"]
  /\ UNCHANGED <<threading_disabled, threads_disable, threads_counter, round,
                 mine, runs>>

\* The spin loop ends and the function returns, its locals with it.
DisableGather(u) ==
  /\ Goto(u, "gather", "exclusive")
  /\ threads_counter = numworkers
  /\ go' = [go EXCEPT ![mine[u]] = "gone"]
  /\ UNCHANGED <<threading_disabled, threads_disable, threads_counter, round,
                 mine, runs>>

-----------------------------------------------------------------------------
(* threading_enable *)

\* The flag is tested, and cleared.
EnableFlag(u) ==
  /\ Goto(u, "exclusive", IF threading_disabled THEN "unlock" ELSE "terminated")
  /\ threading_disabled' = FALSE
  /\ UNCHANGED <<threads_disable, threads_counter, go, round, mine, runs>>

EnableUnlock(u) ==
  /\ Goto(u, "unlock", "drain")
  /\ threads_disable' = "free"
  /\ UNCHANGED <<threading_disabled, threads_counter, go, round, mine, runs>>

\* Mutant: the lock is destroyed at once.
EnableDestroy(u) ==
  /\ Goto(u, "drain", "work")
  /\ threads_disable' = "none"
  /\ UNCHANGED <<threading_disabled, threads_counter, go, round, mine, runs>>

\* The spin loop ends, and the lock is destroyed.
EnableDrain(u) ==
  /\ Goto(u, "drain", "work")
  /\ threads_counter = 0
  /\ threads_disable' = "none"
  /\ UNCHANGED <<threading_disabled, threads_counter, go, round, mine, runs>>

-----------------------------------------------------------------------------
(* The tasks *)

\* while (!go); then ++threads_counter.
Spin(t) ==
  /\ Goto(t, "spin", "rdlock")
  /\ go[t[1]] = "true"
  /\ threads_counter' = threads_counter + 1
  /\ UNCHANGED <<threading_disabled, threads_disable, go, round, mine, runs>>

\* The read lock is taken and dropped.
ReadLock(t) ==
  /\ Goto(t, "rdlock", "leave")
  /\ threads_disable = "free"
  /\ UNCHANGED <<globals, runs>>

\* Mutant: the task counts itself again.
SpinnerEndUp(w, t) ==
  /\ runs[w] = t
  /\ Goto(t, "leave", "end")
  /\ threads_counter' = threads_counter + 1
  /\ runs' = [runs EXCEPT ![w] = Nobody]
  /\ UNCHANGED <<threading_disabled, threads_disable, go, round, mine>>

\* --threads_counter, and the end of the task.
SpinnerEnd(w, t) ==
  /\ runs[w] = t
  /\ Goto(t, "leave", "end")
  /\ threads_counter' = threads_counter - 1
  /\ runs' = [runs EXCEPT ![w] = Nobody]
  /\ UNCHANGED <<threading_disabled, threads_disable, go, round, mine>>

-----------------------------------------------------------------------------

Disable(u) ==
  \/ DisableFlag(u) \/ DisableCreate(u) \/ DisableCount(u)
  \/ DisableLock(u) \/ DisableGather(u)
  \/ \E t \in Spinner : DisableStart(u, t)
  \/ \E w \in Worker : DisableYield(w, u)

Enable(u) == EnableUnlock(u) \/ EnableDrain(u)

Suspend(t) == Spin(t) \/ ReadLock(t) \/ \E w \in Worker : SpinnerEnd(w, t)

Next ==
  \/ \E w \in Worker, t \in Thread : Dispatch(w, t) \/ Yield(w, t)
  \/ \E u \in Caller : DisableTest(u) \/ Disable(u) \/ EnableFlag(u) \/ Enable(u)
  \/ \E t \in Spinner : Suspend(t)

Spec == Init /\ [][Next]_vars

\* A thread on a worker executes; a thread that is ready gets a worker if
\* workers are free again and again; and the user's threads yield.
FairSpec ==
  /\ Spec
  /\ \A u \in Caller : WF_vars(Disable(u)) /\ WF_vars(Enable(u))
  /\ \A t \in Spinner : WF_vars(Suspend(t))
  /\ \A t \in User : WF_vars(\E w \in Worker : Yield(w, t))
  /\ \A t \in Thread : SF_vars(\E w \in Worker : Dispatch(w, t))

-----------------------------------------------------------------------------
(* Properties *)

\* Between threading_disable and threading_enable the caller is the only
\* thread that runs, and that can run: every other worker is held by a task
\* that has found the lock taken or is about to.
Exclusive ==
  \A u \in Caller : pc[u] \in {"exclusive", "unlock"} =>
    /\ Runs(u)
    /\ threads_disable = "locked"
    /\ \A w \in Worker :
         runs[w] # u => runs[w] \in Spinner /\ pc[runs[w]] = "rdlock"

\* What a task uses is there: the local go of threading_disable until the
\* task has seen it, and the lock until the task has passed it.
InUse ==
  \A t \in Spinner :
    /\ pc[t] = "spin" => go[t[1]] # "gone"
    /\ pc[t] = "rdlock" => threads_disable # "none"

\* "Wait until all workers have unlocked the lock, and are active again":
\* when threading_enable returns, none of its tasks has a worker any more.
AllActive ==
  \A u \in Caller, r \in Round :
    (pc[u] = "work" /\ mine[u] = r) =>
      \A t \in SpinnersOf(r) : pc[t] = "end"

\* Both functions return.
DisableReturns ==
  \A u \in Caller :
    /\ pc[u] = "flag" ~> pc[u] = "exclusive"
    /\ pc[u] = "unlock" ~> pc[u] = "work"

=============================================================================
