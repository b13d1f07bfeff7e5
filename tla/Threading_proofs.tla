--------------------------- MODULE Threading_proofs ---------------------------
(***************************************************************************)
(* Proofs about threading_disable and threading_enable, for any number of  *)
(* workers, threads and rounds, and a single caller at a time: with two    *)
(* the functions do not do what they say.  The invariant says for every    *)
(* place in the caller's code what the lock, the flag and the local go     *)
(* are, and how far the tasks of this round may be; and it counts the      *)
(* tasks that are behind the flag, and the workers that they hold.         *)
(***************************************************************************)
EXTENDS Threading, FiniteSetTheorems, TLAPS

OneCaller == \E u : Caller = {u}

\* The tasks that have counted themselves, and the workers they hold.
Counted == {t \in Spinner : pc[t] \in {"rdlock", "leave"}}
Held == {w \in Worker : runs[w] \in Counted}

Types ==
  /\ threads_counter \in Nat
  /\ go \in [Round -> {"false", "true", "gone"}]
  /\ round \in 0 .. MaxRounds
  /\ mine \in [Caller -> 0 .. MaxRounds]
  /\ pc \in [Thread -> UserPC \cup SpinnerPC]
  /\ runs \in [Worker -> Thread \cup {Nobody}]

\* The threads that do not call, and the tasks of the other rounds.
Bystanders ==
  /\ \A t \in User \ Caller : pc[t] = "work"
  /\ \A t \in Spinner : /\ t[1] < round => pc[t] = "end"
                        /\ t[1] > round => pc[t] = "unborn"

\* No thread has two workers, and nobody gives one up but where the code says.
Placed ==
  /\ \A v, w \in Worker : runs[v] = runs[w] /\ runs[v] \in Thread => v = w
  /\ \A w \in Worker : runs[w] \in Thread => pc[runs[w]] \notin {"unborn", "end"}
  /\ \A t \in Counted : Runs(t)
  /\ \A u \in Caller : pc[u] \notin {"work", "wrlock"} => Runs(u)

\* The caller is at one of places; the rwlock, the flag and the local go are
\* as given, and the tasks of this round are at one of tasks.
Stage(u, places, lock, flag, local, tasks) ==
  /\ pc[u] \in places
  /\ threads_disable = lock
  /\ threading_disabled = flag
  /\ \A r \in Round : go[r] = IF r = round THEN local ELSE "gone"
  /\ \A t \in Spinner : t[1] = round => pc[t] \in tasks

Outside(u) == Stage(u, {"work", "flag"}, "none", FALSE, "gone", {"end"})
Flagged(u) == Stage(u, {"create"}, "none", TRUE, "gone", {"end"})
Created(u) == Stage(u, {"count"}, "free", TRUE, "gone", {"end"})

Starting(u) == Stage(u, {"start"}, "free", TRUE, "false", {"unborn", "spin"})
Started(u) == Stage(u, {"wrlock"}, "free", TRUE, "false", {"spin"})
Gathering(u) == Stage(u, {"gather"}, "locked", TRUE, "true", {"spin", "rdlock"})
Alone(u) == Stage(u, {"exclusive"}, "locked", TRUE, "gone", {"rdlock"})
Unlocking(u) == Stage(u, {"unlock"}, "locked", FALSE, "gone", {"rdlock"})
Draining(u) == Stage(u, {"drain"}, "free", FALSE, "gone", {"rdlock", "leave", "end"})

Stages(u) ==
  /\ mine[u] = round
  /\ \/ Outside(u) \/ Flagged(u) \/ Created(u)
     \/ /\ round \in Round
        /\ \/ Starting(u) \/ Started(u) \/ Gathering(u)
           \/ Alone(u) \/ Unlocking(u) \/ Draining(u)

IInv ==
  /\ Types
  /\ Bystanders
  /\ Placed
  /\ threads_counter = Cardinality(Counted)
  /\ threads_counter = Cardinality(Held)
  /\ \A u \in Caller : Stages(u)

-----------------------------------------------------------------------------
(* Threads and numbers *)

LEMMA Threads ==
  /\ Caller \subseteq User /\ User \subseteq Thread /\ Spinner \subseteq Thread
  /\ \A t \in Thread : t \in User <=> t \notin Spinner
  /\ Nobody \notin Thread
  /\ \A t \in Spinner : t[1] \in Round
  /\ \A t : t \in Spinner <=> \E r \in Round : t \in SpinnersOf(r)
  /\ \A r \in Round : \A t \in SpinnersOf(r) : t \in Spinner /\ t[1] = r
  /\ \A t \in Spinner : t \in SpinnersOf(t[1])
BY ThreadingAssumption, ThreadAssumption DEF Thread, Spinner, SpinnersOf

LEMMA Numbers ==
  /\ numworkers \in Nat /\ numworkers > 0
  /\ Round \subseteq Nat \ {0}
  /\ \A r \in Round : /\ IsFiniteSet(SpinnersOf(r))
                      /\ Cardinality(SpinnersOf(r)) = numworkers
<1>1. numworkers \in Nat /\ numworkers > 0
  BY ThreadingAssumption, FS_CardinalityType DEF numworkers
<1>2. Round \subseteq Nat \ {0}
  BY ThreadingAssumption DEF Round
<1>3. ASSUME NEW r \in Round
      PROVE  IsFiniteSet(SpinnersOf(r)) /\ Cardinality(SpinnersOf(r)) = numworkers
  <2>1. IsFiniteSet({r}) /\ Cardinality({r}) = 1
    BY FS_Singleton
  <2>2. IsFiniteSet(1 .. numworkers) /\ Cardinality(1 .. numworkers) = numworkers
    BY <1>1, FS_Interval
  <2>3. /\ IsFiniteSet({r} \X (1 .. numworkers))
        /\ Cardinality({r} \X (1 .. numworkers))
             = Cardinality({r}) * Cardinality(1 .. numworkers)
    BY <2>1, <2>2, FS_Product
  <2>4. QED BY <1>1, <2>1, <2>2, <2>3 DEF SpinnersOf
<1>4. QED BY <1>1, <1>2, <1>3

\* The workers held are workers.
LEMMA HeldFinite == IsFiniteSet(Held)
<1>1. Held \in SUBSET Worker /\ IsFiniteSet(Worker)
  BY ThreadingAssumption DEF Held
<1>2. QED BY <1>1, FS_Subset

\* Only tasks of this round are counted.
LEMMA CountedFinite ==
  ASSUME IInv, round \in Round
  PROVE  /\ Counted \subseteq SpinnersOf(round)
         /\ IsFiniteSet(Counted) /\ Cardinality(Counted) <= numworkers
<1>1. Counted \subseteq SpinnersOf(round)
  BY Threads, Numbers DEF Counted, IInv, Bystanders
<1>2. Counted \in SUBSET SpinnersOf(round)
  BY <1>1
<1>3. QED BY <1>1, <1>2, Numbers, FS_Subset

LEMMA NoneCounted ==
  ASSUME IInv, NEW u \in Caller,
         \/ Outside(u) \/ Flagged(u) \/ Created(u)
         \/ Starting(u) \/ Started(u)
  PROVE  Counted = {} /\ threads_counter = 0
<1>1. Counted = {}
  BY Threads, Numbers
     DEF Counted, IInv, Types, Bystanders, Outside, Flagged, Created, Starting,
         Started, Stage
<1>2. QED BY <1>1, FS_EmptySet DEF IInv

-----------------------------------------------------------------------------
(* The steps *)

LEMMA IInvInit == OneCaller => (Init => IInv)
<1> SUFFICES ASSUME OneCaller, Init PROVE IInv
  OBVIOUS
<1>1. \A t \in Spinner : pc[t] = "unborn"
  BY Threads DEF Init
<1>2. Counted = {}
  BY <1>1 DEF Counted
<1>3. Held = {}
  BY <1>2 DEF Held
<1>4. Types
  BY Threads, ThreadingAssumption DEF Init, Types, UserPC, SpinnerPC
<1>5. Bystanders
  BY <1>1, Threads, Numbers DEF Init, Bystanders
<1>6. Placed
  BY <1>2, Threads DEF Init, Placed
<1>7. ASSUME NEW u \in Caller PROVE Stages(u)
  BY Threads, Numbers DEF Init, Stages, Outside, Stage
<1>8. QED BY <1>2, <1>3, <1>4, <1>5, <1>6, <1>7, FS_EmptySet DEF Init, IInv

\* A worker takes a thread that is ready, or a user's thread gives one up.
LEMMA SwitchStep ==
  ASSUME IInv, OneCaller, NEW w \in Worker, NEW t \in Thread,
         Dispatch(w, t) \/ Yield(w, t)
  PROVE  IInv'
<1>1. /\ UNCHANGED <<globals, pc>>
      /\ \E x \in Thread \cup {Nobody} : runs' = [runs EXCEPT ![w] = x]
  BY Threads DEF Dispatch, Yield
<1>2. Counted' = Counted
  BY <1>1 DEF Counted
<1>3. t \notin Counted
  BY Threads DEF Dispatch, Yield, Ready, IInv, Placed, Counted
<1>4. Held' = Held
  BY <1>2, <1>3, Threads DEF Dispatch, Yield, Held, IInv, Types, Counted
<1>5. Types'
  BY <1>1 DEF IInv, Types, globals
<1>6. Bystanders'
  BY <1>1 DEF IInv, Bystanders, globals
<1>7. \A x \in Thread : x # t => (Runs(x)' <=> Runs(x))
  BY Threads DEF Dispatch, Yield, Runs, IInv, Types
<1>8. Placed'
  <2>1. \A v \in Worker : runs'[v] \in Thread /\ v # w => runs'[v] # t /\ runs'[v] = runs[v]
    BY DEF Dispatch, Yield, Ready, Runs, IInv, Types, Placed
  <2>2. runs'[w] \in Thread => runs'[w] = t /\ pc[t] \notin {"unborn", "end"}
    BY Threads DEF Dispatch, Yield, Ready, IInv, Types
  <2>3. \A v \in Worker : runs'[v] \in Thread => pc[runs'[v]] \notin {"unborn", "end"}
    BY <2>1, <2>2 DEF IInv, Placed
  <2>4. \A v, x \in Worker : runs'[v] = runs'[x] /\ runs'[v] \in Thread => v = x
    BY <2>1, <2>2 DEF IInv, Placed
  <2>5. \A x \in Counted : Runs(x)'
    BY <1>3, <1>7, Threads DEF IInv, Placed, Counted
  <2>6. \A u \in Caller : pc[u] \notin {"work", "wrlock"} => Runs(u)'
    <3> SUFFICES ASSUME NEW u \in Caller, pc[u] \notin {"work", "wrlock"}
                 PROVE  Runs(u)'
      OBVIOUS
    <3>1. Runs(u)
      BY DEF IInv, Placed
    <3>2. u # t
      BY <3>1 DEF Dispatch, Yield, Ready
    <3>3. QED BY <1>7, <3>1, <3>2, Threads
  <2>7. QED BY <1>1, <1>2, <2>3, <2>4, <2>5, <2>6 DEF Placed
<1>9. \A u \in Caller : Stages(u)'
  BY <1>1 DEF IInv, globals, Stages, Outside, Flagged, Created, Starting,
              Started, Gathering, Alone, Unlocking,
              Draining, Stage
<1>10. QED BY <1>1, <1>2, <1>4, <1>5, <1>6, <1>8, <1>9 DEF IInv, globals

\* What is the same for all steps of the caller that keep its worker and
\* start no task.
LEMMA CallerGoes ==
  ASSUME IInv, OneCaller, NEW u \in Caller, NEW to \in UserPC,
         Runs(u), pc' = [pc EXCEPT ![u] = to],
         go' \in [Round -> {"false", "true", "gone"}],
         UNCHANGED <<threads_counter, round, mine, runs>>
  PROVE  /\ Types' /\ Bystanders' /\ Placed'
         /\ threads_counter' = Cardinality(Counted')
         /\ threads_counter' = Cardinality(Held')
         /\ pc'[u] = to /\ \A t \in Spinner : pc'[t] = pc[t]
<1>1. /\ u \in Thread /\ u \notin Spinner
      /\ pc'[u] = to /\ \A t \in Thread : t # u => pc'[t] = pc[t]
  BY Threads DEF IInv, Types
<1>2. \A t \in Spinner : pc'[t] = pc[t]
  BY <1>1, Threads
<1>3. Counted' = Counted
  BY <1>2 DEF Counted
<1>4. Held' = Held
  BY <1>3 DEF Held
<1>5. Types'
  BY DEF IInv, Types
<1>6. Bystanders'
  BY <1>1, <1>2, Threads DEF IInv, Bystanders
<1>7. Placed'
  <2>1. \A x \in Caller : x = u
    BY DEF OneCaller
  <2>2. to \notin {"unborn", "end"}
    BY DEF UserPC
  <2>3. QED BY <1>1, <1>3, <2>1, <2>2 DEF IInv, Placed, Runs
<1>8. QED BY <1>1, <1>2, <1>3, <1>4, <1>5, <1>6, <1>7 DEF IInv

LEMMA DisableTestStep ==
  ASSUME IInv, OneCaller, NEW u \in Caller, DisableTest(u) PROVE IInv'
<1>1. Outside(u) /\ ~threading_disabled /\ mine[u] = round
  BY DEF DisableTest, Goto, IInv, Stages, Outside, Flagged, Created, Starting,
         Started, Gathering, Alone,
         Unlocking, Draining, Stage
<1>2. Runs(u) /\ pc' = [pc EXCEPT ![u] = "flag"] /\ UNCHANGED <<globals, runs>>
  BY <1>1 DEF DisableTest, Goto
<1>3. /\ Types' /\ Bystanders' /\ Placed'
      /\ threads_counter' = Cardinality(Counted') /\ threads_counter' = Cardinality(Held')
      /\ pc'[u] = "flag" /\ \A t \in Spinner : pc'[t] = pc[t]
  BY <1>2, CallerGoes DEF globals, UserPC, IInv, Types
<1>4. Outside(u)' /\ mine'[u] = round'
  BY <1>1, <1>2, <1>3 DEF Outside, Stage, globals
<1>5. QED BY <1>3, <1>4 DEF IInv, Stages, OneCaller

LEMMA DisableFlagStep ==
  ASSUME IInv, OneCaller, NEW u \in Caller, DisableFlag(u) PROVE IInv'
<1>1. Outside(u) /\ mine[u] = round /\ Caller = {u}
  BY DEF DisableFlag, Goto, IInv, Stages, Outside, Flagged, Created, Starting,
         Started,
         Gathering, Alone, Unlocking, Draining, Stage, OneCaller
<1>2. /\ Types' /\ Bystanders' /\ Placed'
      /\ threads_counter' = Cardinality(Counted') /\ threads_counter' = Cardinality(Held')
      /\ pc'[u] = "create" /\ \A t \in Spinner : pc'[t] = pc[t]
  BY CallerGoes DEF DisableFlag, Goto, UserPC, IInv, Types
<1>3. Flagged(u)' /\ mine'[u] = round'
  BY <1>1, <1>2 DEF DisableFlag, Goto, Outside, Flagged, Stage
<1>4. QED BY <1>1, <1>2, <1>3 DEF IInv, Stages

LEMMA DisableCreateStep ==
  ASSUME IInv, OneCaller, NEW u \in Caller, DisableCreate(u) PROVE IInv'
<1>1. Flagged(u) /\ mine[u] = round /\ Caller = {u}
  BY DEF DisableCreate, Goto, IInv, Stages, Outside, Flagged, Created, Starting,
         Started,
         Gathering, Alone, Unlocking, Draining, Stage, OneCaller
<1>2. /\ Types' /\ Bystanders' /\ Placed'
      /\ threads_counter' = Cardinality(Counted') /\ threads_counter' = Cardinality(Held')
      /\ pc'[u] = "count" /\ \A t \in Spinner : pc'[t] = pc[t]
  BY CallerGoes DEF DisableCreate, Goto, UserPC, IInv, Types
<1>3. Created(u)' /\ mine'[u] = round'
  BY <1>1, <1>2 DEF DisableCreate, Goto, Flagged, Created, Stage
<1>4. QED BY <1>1, <1>2, <1>3 DEF IInv, Stages

\* The next round begins: all tasks of the last have ended, and none of this
\* has been started.
LEMMA DisableCountStep ==
  ASSUME IInv, OneCaller, NEW u \in Caller, DisableCount(u) PROVE IInv'
<1>1. Created(u) /\ mine[u] = round /\ Caller = {u}
  BY DEF DisableCount, Goto, IInv, Stages, Outside, Flagged, Created, Starting,
         Started,
         Gathering, Alone, Unlocking, Draining, Stage, OneCaller
<1>2. /\ u \in Thread /\ u \notin Spinner /\ Runs(u) /\ pc[u] = "count"
      /\ round' = round + 1 /\ round \in Nat /\ round' \in Round
      /\ pc' = [pc EXCEPT ![u] = "start"]
      /\ UNCHANGED runs
  BY Threads, ThreadingAssumption DEF DisableCount, Goto, IInv, Types, Round
<1>3. /\ \A t \in Spinner : pc'[t] = pc[t]
      /\ \A t \in User : pc'[t] = IF t = u THEN "start" ELSE pc[t]
  BY <1>2, Threads DEF IInv, Types
<1>4. Counted = {} /\ Counted' = {}
  <2>1. Counted = {}
    BY <1>1, NoneCounted
  <2>2. QED BY <1>3, <2>1 DEF Counted
<1>5. Held' = {}
  BY <1>4 DEF Held
<1>6. Types'
  <2>1. pc' \in [Thread -> UserPC \cup SpinnerPC]
    BY <1>2 DEF IInv, Types, UserPC
  <2>2. round' \in 0 .. MaxRounds
    BY <1>2, ThreadingAssumption DEF Round
  <2>3. QED BY <1>2, <2>1, <2>2 DEF DisableCount, IInv, Types
<1>7. Bystanders'
  <2>1. \A t \in User \ Caller : pc'[t] = "work"
    BY <1>1, <1>3 DEF IInv, Bystanders
  <2>2. ASSUME NEW t \in Spinner
        PROVE  (t[1] < round' => pc'[t] = "end") /\ (t[1] > round' => pc'[t] = "unborn")
    <3>1. t[1] \in Nat
      BY Threads, Numbers
    <3>2. t[1] < round \/ t[1] = round \/ t[1] = round + 1 \/ t[1] > round + 1
      BY <1>2, <3>1
    <3>3. t[1] = round => pc[t] = "end"
      BY <1>1 DEF Created, Stage
    <3>4. QED BY <1>2, <1>3, <3>1, <3>2, <3>3 DEF IInv, Bystanders
  <2>3. QED BY <2>1, <2>2 DEF Bystanders
<1>8. Placed'
  <2>1. \A t \in Thread : pc[t] \notin {"unborn", "end"} => pc'[t] \notin {"unborn", "end"}
    BY <1>2, <1>3, Threads
  <2>2. QED BY <1>1, <1>2, <1>4, <2>1 DEF IInv, Placed, Runs
<1>9. Stages(u)'
  <2>1. mine'[u] = round'
    BY <1>2 DEF DisableCount, IInv, Types
  <2>2. \A r \in Round : go'[r] = IF r = round' THEN "false" ELSE "gone"
    BY <1>1, <1>2 DEF DisableCount, IInv, Types, Created, Stage
  <2>3. \A t \in Spinner : t[1] = round' => pc'[t] = "unborn"
    BY <1>2, <1>3, Threads, Numbers DEF IInv, Bystanders
  <2>4. Starting(u)'
    BY <1>1, <1>3, <2>2, <2>3, Threads DEF Starting, Created, Stage, DisableCount
  <2>5. QED BY <1>2, <2>1, <2>4 DEF Stages, Round
<1>10. threads_counter' = 0
  BY DEF DisableCount
<1>11. QED BY <1>1, <1>4, <1>5, <1>6, <1>7, <1>8, <1>9, <1>10, FS_EmptySet DEF IInv

\* A task that is started waits for the flag, and has no worker yet.
LEMMA DisableStartStep ==
  ASSUME IInv, OneCaller, NEW u \in Caller, NEW t \in Spinner, DisableStart(u, t)
  PROVE  IInv'
<1>1. Starting(u) /\ mine[u] = round /\ Caller = {u} /\ round \in Round
  BY DEF DisableStart, Goto, IInv, Stages, Outside, Flagged, Created, Starting,
         Started,
         Gathering, Alone, Unlocking, Draining, Stage, OneCaller
<1>2. /\ t \in Thread /\ t \notin User /\ t[1] = round
      /\ UNCHANGED <<globals, runs>>
      /\ \A x \in Thread : pc'[x] = IF x = t THEN "spin" ELSE pc[x]
  BY <1>1, Threads DEF DisableStart, IInv, Types
<1>3. \A x \in User : x # t /\ pc'[x] = pc[x]
  BY <1>2, Threads
<1>4. Counted = {} /\ Counted' = {}
  <2>1. Counted = {}
    BY <1>1, NoneCounted
  <2>2. QED BY <1>2, <2>1, Threads DEF Counted
<1>5. Held = {} /\ Held' = {}
  BY <1>4 DEF Held
<1>6. Types'
  BY <1>2 DEF DisableStart, globals, IInv, Types, SpinnerPC
<1>7. Bystanders'
  BY <1>1, <1>2, <1>3, Threads, Numbers DEF IInv, Bystanders, globals
<1>8. Placed'
  <2>1. \A x \in Thread : pc[x] \notin {"unborn", "end"} => pc'[x] \notin {"unborn", "end"}
    BY <1>2
  <2>2. QED BY <1>1, <1>2, <1>3, <1>4, <2>1, Threads DEF IInv, Placed, Runs
<1>9. Stages(u)'
  <2>1. \A x \in Spinner : x[1] = round => pc'[x] \in {"unborn", "spin"}
    BY <1>1, <1>2, Threads DEF Starting, Stage
  <2>2. pc'[u] = "start"
    BY <1>1, <1>3, Threads DEF Starting, Stage
  <2>3. QED BY <1>1, <1>2, <2>1, <2>2 DEF Stages, Starting, Stage, globals
<1>10. QED BY <1>1, <1>2, <1>4, <1>5, <1>6, <1>7, <1>8, <1>9 DEF IInv, globals

LEMMA DisableYieldStep ==
  ASSUME IInv, OneCaller, NEW u \in Caller, NEW w \in Worker, DisableYield(w, u)
  PROVE  IInv'
<1>1. Starting(u) /\ mine[u] = round /\ Caller = {u} /\ round \in Round
  BY DEF DisableYield, Goto, IInv, Stages, Outside, Flagged, Created, Starting,
         Started, Gathering, Alone,
         Unlocking, Draining, Stage, OneCaller
<1>2. /\ runs[w] = u /\ runs' = [runs EXCEPT ![w] = Nobody]
      /\ pc' = [pc EXCEPT ![u] = "wrlock"]
      /\ UNCHANGED globals
      /\ u \in Thread /\ u \in User /\ u \notin Spinner
  BY Threads DEF DisableYield, Goto
<1>3. \A t \in Thread : pc'[t] = IF t = u THEN "wrlock" ELSE pc[t]
  BY <1>2 DEF IInv, Types
<1>4. Counted = {} /\ Counted' = {}
  <2>1. Counted = {}
    BY <1>1, NoneCounted
  <2>2. QED BY <1>2, <1>3, <2>1, Threads DEF Counted
<1>5. Held = {} /\ Held' = {}
  BY <1>4 DEF Held
<1>6. Types'
  BY <1>2 DEF globals, IInv, Types, UserPC
<1>7. Bystanders'
  BY <1>1, <1>2, <1>3, Threads DEF IInv, Bystanders, globals
<1>8. Placed'
  BY <1>1, <1>2, <1>3, <1>4, Threads DEF IInv, Types, Placed
<1>9. Stages(u)'
  <2>1. \A t \in Spinner : t[1] = round => pc'[t] = "spin"
    BY <1>1, <1>2, <1>3, Threads DEF DisableYield, Starting, Stage
  <2>2. QED BY <1>1, <1>2, <1>3, <2>1 DEF Stages, Starting, Started, Stage, globals
<1>10. QED BY <1>1, <1>2, <1>4, <1>5, <1>6, <1>7, <1>8, <1>9 DEF IInv, globals

LEMMA DisableLockStep ==
  ASSUME IInv, OneCaller, NEW u \in Caller, DisableLock(u) PROVE IInv'
<1>1. Started(u) /\ mine[u] = round /\ Caller = {u} /\ round \in Round
  BY DEF DisableLock, Goto, IInv, Stages, Outside, Flagged, Created, Starting,
         Started, Gathering, Alone,
         Unlocking, Draining, Stage, OneCaller
<1>2. /\ Types' /\ Bystanders' /\ Placed'
      /\ threads_counter' = Cardinality(Counted') /\ threads_counter' = Cardinality(Held')
      /\ pc'[u] = "gather" /\ \A t \in Spinner : pc'[t] = pc[t]
  BY CallerGoes DEF DisableLock, Goto, UserPC, IInv, Types
<1>3. Gathering(u)' /\ mine'[u] = round' /\ round' \in Round
  BY <1>1, <1>2 DEF DisableLock, Goto, Started, Gathering, Stage, IInv, Types
<1>4. QED BY <1>1, <1>2, <1>3 DEF IInv, Stages

\* The last task has counted itself: all have, for there are numworkers.
LEMMA DisableGatherStep ==
  ASSUME IInv, OneCaller, NEW u \in Caller, DisableGather(u) PROVE IInv'
<1>1. Gathering(u) /\ mine[u] = round /\ Caller = {u} /\ round \in Round
  BY DEF DisableGather, Goto, IInv, Stages, Outside, Flagged, Created, Starting,
         Started, Gathering, Alone,
         Unlocking, Draining, Stage, OneCaller
<1>2. /\ Types' /\ Bystanders' /\ Placed'
      /\ threads_counter' = Cardinality(Counted') /\ threads_counter' = Cardinality(Held')
      /\ pc'[u] = "exclusive" /\ \A t \in Spinner : pc'[t] = pc[t]
  BY CallerGoes DEF DisableGather, Goto, UserPC, IInv, Types
<1>3. Counted = SpinnersOf(round)
  <2>1. Counted \in SUBSET SpinnersOf(round)
    BY <1>1, CountedFinite
  <2>2. Cardinality(Counted) = Cardinality(SpinnersOf(round))
    BY <1>1, Numbers DEF DisableGather, IInv
  <2>3. QED BY <1>1, <2>1, <2>2, Numbers, FS_Subset
<1>4. \A t \in Spinner : t[1] = round => pc[t] = "rdlock"
  BY <1>1, <1>3, Threads DEF Counted, Gathering, Stage
<1>5. Alone(u)' /\ mine'[u] = round' /\ round' \in Round
  BY <1>1, <1>2, <1>4 DEF DisableGather, Goto, Gathering, Alone, Stage, IInv, Types
<1>6. QED BY <1>1, <1>2, <1>5 DEF IInv, Stages

LEMMA EnableFlagStep ==
  ASSUME IInv, OneCaller, NEW u \in Caller, EnableFlag(u) PROVE IInv'
<1>1. Alone(u) /\ mine[u] = round /\ Caller = {u} /\ round \in Round
  BY DEF EnableFlag, Goto, IInv, Stages, Outside, Flagged, Created, Starting,
         Started, Gathering, Alone,
         Unlocking, Draining, Stage, OneCaller
<1>2. /\ Types' /\ Bystanders' /\ Placed'
      /\ threads_counter' = Cardinality(Counted') /\ threads_counter' = Cardinality(Held')
      /\ pc'[u] = "unlock" /\ \A t \in Spinner : pc'[t] = pc[t]
  BY <1>1, CallerGoes DEF EnableFlag, Goto, UserPC, IInv, Types, Alone, Stage
<1>3. Unlocking(u)' /\ mine'[u] = round' /\ round' \in Round
  BY <1>1, <1>2 DEF EnableFlag, Goto, Alone, Unlocking, Stage, IInv, Types
<1>4. QED BY <1>1, <1>2, <1>3 DEF IInv, Stages

LEMMA EnableUnlockStep ==
  ASSUME IInv, OneCaller, NEW u \in Caller, EnableUnlock(u) PROVE IInv'
<1>1. Unlocking(u) /\ mine[u] = round /\ Caller = {u} /\ round \in Round
  BY DEF EnableUnlock, Goto, IInv, Stages, Outside, Flagged, Created, Starting,
         Started, Gathering, Alone,
         Unlocking, Draining, Stage, OneCaller
<1>2. /\ Types' /\ Bystanders' /\ Placed'
      /\ threads_counter' = Cardinality(Counted') /\ threads_counter' = Cardinality(Held')
      /\ pc'[u] = "drain" /\ \A t \in Spinner : pc'[t] = pc[t]
  BY CallerGoes DEF EnableUnlock, Goto, UserPC, IInv, Types
<1>3. Draining(u)' /\ mine'[u] = round' /\ round' \in Round
  BY <1>1, <1>2 DEF EnableUnlock, Goto, Unlocking, Draining, Stage, IInv, Types
<1>4. QED BY <1>1, <1>2, <1>3 DEF IInv, Stages

\* The counter is back at zero: no task is behind the lock any more.
LEMMA EnableDrainStep ==
  ASSUME IInv, OneCaller, NEW u \in Caller, EnableDrain(u) PROVE IInv'
<1>1. Draining(u) /\ mine[u] = round /\ Caller = {u} /\ round \in Round
  BY DEF EnableDrain, Goto, IInv, Stages, Outside, Flagged, Created, Starting,
         Started, Gathering, Alone,
         Unlocking, Draining, Stage, OneCaller
<1>2. /\ Types' /\ Bystanders' /\ Placed'
      /\ threads_counter' = Cardinality(Counted') /\ threads_counter' = Cardinality(Held')
      /\ pc'[u] = "work" /\ \A t \in Spinner : pc'[t] = pc[t]
  BY CallerGoes DEF EnableDrain, Goto, UserPC, IInv, Types
<1>3. Counted = {}
  BY <1>1, CountedFinite, FS_EmptySet DEF EnableDrain, IInv
<1>4. \A t \in Spinner : t[1] = round => pc[t] = "end"
  BY <1>1, <1>3 DEF Counted, Draining, Stage
<1>5. Outside(u)' /\ mine'[u] = round' /\ round' \in Round
  BY <1>1, <1>2, <1>4 DEF EnableDrain, Goto, Draining, Outside, Stage, IInv, Types
<1>6. QED BY <1>1, <1>2, <1>5 DEF IInv, Stages

\* A task of this round goes on, and keeps its worker or leaves it.
LEMMA TaskGoes ==
  ASSUME IInv, NEW t \in Spinner, NEW to \in {"rdlock", "leave", "end"},
         pc[t] \notin {"unborn", "end"}, pc' = [pc EXCEPT ![t] = to],
         UNCHANGED <<go, round, mine>>, threads_counter' \in Nat,
         runs' \in [Worker -> Thread \cup {Nobody}]
  PROVE  /\ t \in Thread /\ t[1] = round /\ round \in Round
         /\ pc'[t] = to /\ \A x \in Thread : x # t => pc'[x] = pc[x]
         /\ \A u \in User : u # t /\ pc'[u] = pc[u]
         /\ Types' /\ Bystanders'
<1>1. /\ t \in Thread /\ t \notin User /\ t[1] \in Round
      /\ pc'[t] = to /\ \A x \in Thread : x # t => pc'[x] = pc[x]
  BY Threads DEF IInv, Types
<1>2. \A u \in User : u # t /\ pc'[u] = pc[u]
  BY <1>1, Threads
<1>3. Types'
  BY DEF IInv, Types, SpinnerPC
<1>4. t[1] = round
  <2>1. t[1] < round \/ t[1] = round \/ t[1] > round
    BY Threads, Numbers DEF IInv, Types
  <2>2. QED BY <2>1 DEF IInv, Bystanders
<1>5. Bystanders'
  BY <1>1, <1>2, <1>4, Numbers, Threads DEF IInv, Types, Bystanders
<1>6. QED BY <1>1, <1>2, <1>3, <1>4, <1>5

LEMMA SpinStep ==
  ASSUME IInv, OneCaller, NEW t \in Spinner, Spin(t) PROVE IInv'
<1>1. PICK u : Caller = {u}
  BY DEF OneCaller
<1>2. PICK w \in Worker : runs[w] = t
  BY DEF Spin, Goto, Runs
<1>3. /\ t \in Thread /\ t[1] = round /\ round \in Round
      /\ pc'[t] = "rdlock" /\ \A x \in Thread : x # t => pc'[x] = pc[x]
      /\ \A x \in User : x # t /\ pc'[x] = pc[x]
      /\ Types' /\ Bystanders'
  <2>1. /\ pc[t] = "spin" /\ pc' = [pc EXCEPT ![t] = "rdlock"]
        /\ threads_counter' \in Nat /\ runs' \in [Worker -> Thread \cup {Nobody}]
        /\ UNCHANGED <<go, round, mine>>
    BY DEF Spin, Goto, IInv, Types
  <2>2. QED BY <2>1, TaskGoes
<1>4. Gathering(u) /\ mine[u] = round
  BY <1>1, <1>3 DEF Spin, IInv, Stages, Outside, Flagged, Created, Starting,
                    Started, Gathering, Alone,
                    Unlocking, Draining, Stage
<1>5. Counted' = Counted \cup {t} /\ t \notin Counted
  BY <1>3, Threads DEF Counted, Spin, Goto
<1>6. Held' = Held \cup {w} /\ w \notin Held
  BY <1>2, <1>3, <1>5 DEF Held, Spin, IInv, Placed
<1>7. IsFiniteSet(Counted) /\ IsFiniteSet(Held)
  BY <1>3, CountedFinite, HeldFinite
<1>8. /\ threads_counter' = Cardinality(Counted')
      /\ threads_counter' = Cardinality(Held')
  BY <1>5, <1>6, <1>7, FS_AddElement DEF Spin, IInv
<1>9. Placed'
  <2>1. \A x \in Thread : pc[x] \notin {"unborn", "end"} => pc'[x] \notin {"unborn", "end"}
    BY <1>3
  <2>2. QED BY <1>1, <1>2, <1>3, <1>5, <2>1, Threads DEF Spin, IInv, Placed, Runs
<1>10. Stages(u)'
  BY <1>1, <1>3, <1>4, Threads DEF Spin, Gathering, Stages, Stage
<1>11. QED BY <1>1, <1>3, <1>8, <1>9, <1>10 DEF IInv

\* The lock is free, so the caller has dropped it already.
LEMMA ReadLockStep ==
  ASSUME IInv, OneCaller, NEW t \in Spinner, ReadLock(t) PROVE IInv'
<1>1. PICK u : Caller = {u}
  BY DEF OneCaller
<1>2. /\ t \in Thread /\ t[1] = round /\ round \in Round
      /\ pc'[t] = "leave" /\ \A x \in Thread : x # t => pc'[x] = pc[x]
      /\ \A x \in User : x # t /\ pc'[x] = pc[x]
      /\ Types' /\ Bystanders'
  BY TaskGoes DEF ReadLock, Goto, globals, IInv, Types
<1>3. Draining(u) /\ mine[u] = round
  BY <1>1, <1>2 DEF ReadLock, Goto, IInv, Stages, Outside, Flagged, Created, Starting,
                    Started, Gathering, Alone,
                    Unlocking, Draining, Stage
<1>4. Counted' = Counted
  BY <1>2, Threads DEF Counted, ReadLock, Goto
<1>5. Held' = Held
  BY <1>4 DEF Held, ReadLock
<1>6. Placed'
  <2>1. \A x \in Thread : pc[x] \notin {"unborn", "end"} => pc'[x] \notin {"unborn", "end"}
    BY <1>2
  <2>2. QED BY <1>1, <1>2, <1>4, <2>1, Threads DEF ReadLock, IInv, Placed, Runs
<1>7. Stages(u)'
  BY <1>1, <1>2, <1>3, Threads DEF ReadLock, globals, Draining, Stages, Stage
<1>8. QED BY <1>1, <1>2, <1>4, <1>5, <1>6, <1>7 DEF IInv, ReadLock, globals

LEMMA SpinnerEndStep ==
  ASSUME IInv, OneCaller, NEW w \in Worker, NEW t \in Spinner, SpinnerEnd(w, t)
  PROVE  IInv'
<1>1. PICK u : Caller = {u}
  BY DEF OneCaller
<1>2. /\ t \in Thread /\ t \in Counted /\ runs[w] = t /\ w \in Held
      /\ runs' = [runs EXCEPT ![w] = Nobody]
  BY Threads DEF SpinnerEnd, Goto, Counted, Held
<1>3. round \in Round
  BY <1>2, Threads, Numbers DEF SpinnerEnd, Goto, IInv, Types, Bystanders
<1>4. IsFiniteSet(Counted) /\ IsFiniteSet(Held)
  BY <1>3, CountedFinite, HeldFinite
<1>5. /\ Cardinality(Counted \ {t}) = threads_counter'
      /\ Cardinality(Held \ {w}) = threads_counter'
      /\ threads_counter' \in Nat
  <2>1. /\ Cardinality(Counted \ {t}) = Cardinality(Counted) - 1
        /\ Cardinality(Held \ {w}) = Cardinality(Held) - 1
    BY <1>2, <1>4, FS_RemoveElement
  <2>2. Cardinality(Counted \ {t}) \in Nat
    BY <1>4, FS_RemoveElement, FS_CardinalityType
  <2>3. QED BY <2>1, <2>2 DEF SpinnerEnd, IInv
<1>6. /\ t[1] = round
      /\ pc'[t] = "end" /\ \A x \in Thread : x # t => pc'[x] = pc[x]
      /\ \A x \in User : x # t /\ pc'[x] = pc[x]
      /\ Types' /\ Bystanders'
  BY <1>5, TaskGoes DEF SpinnerEnd, Goto, IInv, Types
<1>7. Draining(u) /\ mine[u] = round
  BY <1>1, <1>6 DEF SpinnerEnd, Goto, IInv, Stages, Outside, Flagged, Created, Starting,
                    Started, Gathering, Alone,
                    Unlocking, Draining, Stage
<1>8. Counted' = Counted \ {t}
  BY <1>6, Threads DEF Counted
<1>9. \A v \in Worker : v # w => runs'[v] = runs[v] /\ runs[v] # t
  BY <1>2 DEF IInv, Placed, Types
<1>10. runs'[w] = Nobody
  BY <1>2 DEF IInv, Types
<1>11. Held' = Held \ {w}
  BY <1>8, <1>9, <1>10, Threads DEF Held, Counted
<1>12. Placed'
  <2>1. \A x \in Thread : x # t => (Runs(x)' <=> Runs(x))
    BY <1>2, <1>9, <1>10, Threads DEF Runs
  <2>2. \A v \in Worker : runs'[v] \in Thread =>
          v # w /\ runs'[v] = runs[v] /\ runs[v] # t
    BY <1>9, <1>10, Threads
  <2>3. \A v \in Worker : runs'[v] \in Thread => pc'[runs'[v]] \notin {"unborn", "end"}
    BY <1>6, <2>2 DEF IInv, Placed
  <2>4. \A v, x \in Worker : runs'[v] = runs'[x] /\ runs'[v] \in Thread => v = x
    BY <2>2 DEF IInv, Placed
  <2>5. \A x \in Counted' : Runs(x)'
    BY <1>8, <2>1, Threads DEF IInv, Placed, Counted
  <2>6. \A x \in Caller : pc'[x] \notin {"work", "wrlock"} => Runs(x)'
    BY <1>6, <2>1, Threads DEF IInv, Placed
  <2>7. QED BY <2>3, <2>4, <2>5, <2>6 DEF Placed
<1>13. Stages(u)'
  BY <1>1, <1>6, <1>7, Threads DEF SpinnerEnd, Draining, Stages, Stage
<1>14. QED BY <1>1, <1>5, <1>6, <1>8, <1>11, <1>12, <1>13 DEF IInv

LEMMA IInvStep == OneCaller => (IInv /\ [Next]_vars => IInv')
<1> SUFFICES ASSUME OneCaller, IInv, [Next]_vars PROVE IInv'
  OBVIOUS
<1>1. ASSUME NEW w \in Worker, NEW t \in Thread, Dispatch(w, t) \/ Yield(w, t)
      PROVE  IInv'
  BY <1>1, SwitchStep
<1>2. ASSUME NEW u \in Caller, DisableTest(u) PROVE IInv'
  BY <1>2, DisableTestStep
<1>3. ASSUME NEW u \in Caller, Disable(u) PROVE IInv'
  BY <1>3, DisableFlagStep, DisableCreateStep, DisableCountStep,
     DisableStartStep, DisableYieldStep, DisableLockStep, DisableGatherStep
     DEF Disable
<1>4. ASSUME NEW u \in Caller, EnableFlag(u) \/ Enable(u) PROVE IInv'
  BY <1>4, EnableFlagStep, EnableUnlockStep, EnableDrainStep DEF Enable
<1>5. ASSUME NEW t \in Spinner, Suspend(t) PROVE IInv'
  BY <1>5, SpinStep, ReadLockStep, SpinnerEndStep DEF Suspend
<1>6. CASE UNCHANGED vars
  BY <1>6 DEF vars, IInv, Types, Bystanders, Placed, Counted, Held, Runs, Stages,
              Outside, Flagged, Created, Starting,
              Started, Gathering, Alone, Unlocking, Draining, Stage
<1>7. QED BY <1>1, <1>2, <1>3, <1>4, <1>5, <1>6 DEF Next

LEMMA Invariance == ASSUME OneCaller PROVE Spec => []IInv
BY IInvInit, IInvStep, PTL DEF Spec

-----------------------------------------------------------------------------

\* The counter of the tasks stays between zero and their number, whoever is
\* where.
THEOREM TypeCorrect == ASSUME OneCaller PROVE Spec => []TypeOK
<1>1. IInv => TypeOK
  <2> SUFFICES ASSUME IInv PROVE TypeOK
    OBVIOUS
  <2>1. PICK u : Caller = {u}
    BY DEF OneCaller
  <2>2. /\ threads_disable \in {"none", "free", "locked"}
        /\ threading_disabled \in BOOLEAN
        /\ pc[u] \in UserPC
    BY <2>1 DEF IInv, Stages, Outside, Flagged, Created, Starting,
                Started, Gathering, Alone, Unlocking, Draining,
                Stage, UserPC
  <2>3. \A t \in User : pc[t] \in UserPC
    BY <2>1, <2>2 DEF IInv, Bystanders, UserPC
  <2>4. ASSUME NEW t \in Spinner PROVE pc[t] \in SpinnerPC
    <3>1. t[1] < round \/ t[1] = round \/ t[1] > round
      BY Threads, Numbers DEF IInv, Types
    <3>2. t[1] = round => pc[t] \in SpinnerPC
      BY <2>1 DEF IInv, Stages, Outside, Flagged, Created, Starting,
                  Started, Gathering, Alone, Unlocking, Draining,
                  Stage, SpinnerPC
    <3>3. QED BY <3>1, <3>2 DEF IInv, Bystanders, SpinnerPC
  <2>5. threads_counter \in 0 .. numworkers
    <3>1. CASE round \in Round
      BY <3>1, CountedFinite, Numbers DEF IInv, Types
    <3>2. CASE round \notin Round
      BY <2>1, <3>2, NoneCounted, Numbers DEF IInv, Stages
    <3>3. QED BY <3>1, <3>2
  <2>6. QED BY <2>2, <2>3, <2>4, <2>5 DEF IInv, Types, TypeOK
<1>2. QED BY <1>1, Invariance, PTL

\* The local go of threading_disable and the rwlock outlive their use by the
\* tasks, on any number of workers: neither is a task still waiting for the
\* flag when the function returns, nor one behind the lock when it goes.
THEOREM TasksUseWhatIsThere == ASSUME OneCaller PROVE Spec => []InUse
<1>1. IInv => InUse
  <2> SUFFICES ASSUME IInv, NEW t \in Spinner
               PROVE  /\ pc[t] = "spin" => go[t[1]] # "gone"
                      /\ pc[t] = "rdlock" => threads_disable # "none"
    BY DEF InUse
  <2>1. PICK u : Caller = {u}
    BY DEF OneCaller
  <2>2. t[1] \in Round /\ (pc[t] \in {"spin", "rdlock"} => t[1] = round)
    BY Threads, Numbers DEF IInv, Types, Bystanders
  <2>3. QED BY <2>1, <2>2 DEF IInv, Stages, Outside, Flagged, Created, Starting,
                              Started, Gathering, Alone,
                              Unlocking, Draining, Stage
<1>2. QED BY <1>1, Invariance, PTL

\* threading_disable makes the caller the only thread that runs, on any number
\* of workers: the tasks are as many as the other workers, no two have one
\* worker, and the caller has one that no task has.
THEOREM CallerIsAlone == ASSUME OneCaller PROVE Spec => []Exclusive
<1>1. IInv => Exclusive
  <2> SUFFICES ASSUME IInv, NEW u \in Caller, pc[u] \in {"exclusive", "unlock"}
               PROVE  /\ Runs(u) /\ threads_disable = "locked"
                      /\ \A w \in Worker : runs[w] # u =>
                           runs[w] \in Spinner /\ pc[runs[w]] = "rdlock"
    BY DEF Exclusive
  <2>1. Alone(u) \/ Unlocking(u)
    BY DEF IInv, Stages, Outside, Flagged, Created, Starting,
           Started, Gathering, Alone, Unlocking, Draining, Stage
  <2>2. round \in Round
    BY <2>1 DEF IInv, Stages, Outside, Flagged, Created, Alone, Unlocking, Stage
  <2>3. PICK w \in Worker : runs[w] = u
    BY DEF IInv, Placed, Runs
  <2>4. Counted = SpinnersOf(round)
    <3>1. SpinnersOf(round) \subseteq Counted
      BY <2>1, <2>2, Threads DEF Counted, Alone, Unlocking, Stage
    <3>2. QED BY <2>2, <3>1, CountedFinite
  <2>5. Held \subseteq Worker \ {w}
    BY <2>3, Threads DEF Held, Counted
  <2>6. Cardinality(Held) = Cardinality(Worker \ {w})
    <3>1. Cardinality(Worker \ {w}) = numworkers
      BY <2>3, ThreadingAssumption, FS_RemoveElement DEF numworkers
    <3>2. Cardinality(Held) = numworkers
      BY <2>2, <2>4, Numbers DEF IInv
    <3>3. QED BY <3>1, <3>2
  <2>7. Held = Worker \ {w}
    <3>1. IsFiniteSet(Worker \ {w}) /\ Held \in SUBSET (Worker \ {w})
      BY <2>5, ThreadingAssumption, FS_RemoveElement
    <3>2. QED BY <2>6, <3>1, FS_Subset
  <2>8. \A t \in Counted : t \in Spinner /\ pc[t] = "rdlock"
    BY <2>1, <2>2, <2>4, Threads DEF Alone, Unlocking, Stage
  <2>9. QED BY <2>1, <2>3, <2>7, <2>8 DEF Held, Runs, Alone, Unlocking, Stage
<1>2. QED BY <1>1, Invariance, PTL

\* When threading_enable returns, none of its tasks is left.
THEOREM WorkersAreActive == ASSUME OneCaller PROVE Spec => []AllActive
<1>1. IInv => AllActive
  <2> SUFFICES ASSUME IInv, NEW u \in Caller, NEW r \in Round,
                      pc[u] = "work", mine[u] = r, NEW t \in SpinnersOf(r)
               PROVE  pc[t] = "end"
    BY DEF AllActive
  <2>1. Outside(u) /\ round = r
    BY DEF IInv, Stages, Outside, Flagged, Created, Starting,
           Started, Gathering, Alone, Unlocking, Draining, Stage
  <2>2. QED BY <2>1, Threads DEF Outside, Stage
<1>2. QED BY <1>1, Invariance, PTL

=============================================================================
