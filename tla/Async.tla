------------------------------- MODULE Async -------------------------------
(***************************************************************************)
(* Futures within and across processes: shared_state, future, promise,     *)
(* packaged_task and async of qthread/future.hpp, async of                 *)
(* funhpc/async.hpp, and the serialization of a shared_future              *)
(* (funhpc/serialize_shared_future.hpp).                                   *)
(*                                                                         *)
(* A cell is a shared_state together with the job that will make it ready. *)
(* The job runs in a thread of its own (launch::async), on another process *)
(* with the result sent back (continued and set_result), or in the first   *)
(* thread that waits (launch::deferred); or there is none and the user     *)
(* holds the promise.  A job may wait for other cells, whose triggers it   *)
(* then runs in turn.  A shared_future that is not ready travels as a      *)
(* pointer to a copy on the heap, and the receiver asks that process for   *)
(* the value.                                                              *)
(*                                                                         *)
(* Cells are numbered in the order they are made.  The tasks of rexec are  *)
(* a pool of messages, as TaskPool promises.  shared_ptr keeps a cell      *)
(* alive while it is used, so its deletion is not modelled; promises and   *)
(* copies are deleted by hand, and are.  The functions called are the      *)
(* user's: they return, and the result of the call of cell c is named c.   *)
(***************************************************************************)
EXTENDS Integers, Sequences

CONSTANTS
  Proc,      \* the processes
  NoProc,
  Waiter,    \* the user's threads that wait for futures (a bound)
  MaxCells   \* how many cells are ever made (a bound)

ASSUME AsyncAssumption ==
  /\ NoProc \notin Proc
  /\ MaxCells \in Nat
  /\ Waiter \cap (0 .. MaxCells) = {}

Cell == 1 .. MaxCells
None == 0

\* A user's thread, or the thread that runs the job of a cell.
Thread == Waiter \cup Cell

VARIABLES
  next,        \* the number of the next cell
  home,        \* the process of a cell
  at,          \* the process its function is called on
  job,         \* what the job does once it need not wait any more
  call,        \* the cell whose user function gives the value
  input,       \* the cells the job waits for, one after the other
  waited,      \* how many of these it has begun to wait for
  is_ready,    \* shared_state::is_ready is full
  has_trigger, \* shared_state::has_trigger
  value,       \* shared_state::value
  promise,     \* the promise that async or its thread has on the heap, or
               \* that the user holds
  copy,        \* the shared_future that save has on the heap, by receiver
  pc,          \* where a thread is
  jobs,        \* the jobs it runs, each while the one before waits
  waits,       \* the cell it waits for
  calls,       \* how often the user function of a cell was called
  msgs,        \* the tasks sent by rexec and not yet run, and the
               \* serialized futures on their way in one
  ended        \* the program has ended in the destructor of a promise

cellVars == <<home, at, job, call, input>>
threadVars == <<pc, jobs, waits>>
vars == <<next, cellVars, waited, is_ready, has_trigger, value, promise,
          copy, threadVars, calls, msgs, ended>>

Msg == [type : {"continued"}, cell : Cell]
         \cup [type : {"set_result"}, cell : Cell, value : Cell]
         \cup [type : {"future"}, cell : Cell, dest : Proc, ready : BOOLEAN,
               of : Cell]

TypeOK ==
  /\ next \in 1 .. MaxCells + 1
  /\ home \in [Cell -> Proc \cup {NoProc}]
  /\ at \in [Cell -> Proc \cup {NoProc}]
  /\ job \in [Cell -> {"none", "call", "remote", "value"}]
  /\ call \in [Cell -> Cell \cup {None}]
  /\ \A c \in Cell : /\ input[c] \in Seq(Cell)
                     /\ waited[c] \in 0 .. Len(input[c])
  /\ is_ready \in [Cell -> BOOLEAN]
  /\ has_trigger \in [Cell -> BOOLEAN]
  /\ value \in [Cell -> Cell \cup {None}]
  /\ promise \in [Cell -> {"none", "live", "held", "replaced", "deleted"}]
  /\ copy \in [Cell -> {"none", "live", "deleted"}]
  /\ pc \in [Thread -> {"idle", "run", "wait", "exchange", "read", "done"}]
  /\ \A t \in Thread : jobs[t] \in Seq(Cell)
  /\ waits \in [Thread -> Cell \cup {None}]
  /\ calls \in [Cell -> Nat]
  /\ msgs \subseteq Msg
  /\ ended \in BOOLEAN

Init ==
  /\ next = 1
  /\ home = [c \in Cell |-> NoProc]
  /\ at = [c \in Cell |-> NoProc]
  /\ job = [c \in Cell |-> "none"]
  /\ call = [c \in Cell |-> None]
  /\ input = [c \in Cell |-> <<>>]
  /\ waited = [c \in Cell |-> 0]
  /\ is_ready = [c \in Cell |-> FALSE]
  /\ has_trigger = [c \in Cell |-> FALSE]
  /\ value = [c \in Cell |-> None]
  /\ promise = [c \in Cell |-> "none"]
  /\ copy = [c \in Cell |-> "none"]
  /\ pc = [t \in Thread |-> "idle"]
  /\ jobs = [t \in Thread |-> <<>>]
  /\ waits = [t \in Thread |-> None]
  /\ calls = [c \in Cell |-> 0]
  /\ msgs = {}
  /\ ended = FALSE

Exists(c) == home[c] # NoProc

continued(c) == [type |-> "continued", cell |-> c]
set_result(c, v) == [type |-> "set_result", cell |-> c, value |-> v]

\* A new shared_state c on p.  Its job waits for the cells of s and then calls
\* f on q, or asks q to call it (remote), or has the value of the last of s.
Make(c, p, q, do, f, s) ==
  /\ home' = [home EXCEPT ![c] = p]
  /\ at' = [at EXCEPT ![c] = q]
  /\ job' = [job EXCEPT ![c] = do]
  /\ call' = [call EXCEPT ![c] = f]
  /\ input' = [input EXCEPT ![c] = s]

\* shared_state::set_value, whose assertion is !ready().
set_value(c, v) ==
  /\ value' = [value EXCEPT ![c] = v]
  /\ is_ready' = [is_ready EXCEPT ![c] = TRUE]

\* A thread starts to run the job of c.
Start(c) ==
  /\ pc' = [pc EXCEPT ![c] = "run"]
  /\ jobs' = [jobs EXCEPT ![c] = <<c>>]
  /\ UNCHANGED waits

\* async of a job on the own process: a thread of its own, or a trigger.
Launch(c, policy) ==
  \/ /\ policy = "async"
     /\ promise' = [promise EXCEPT ![c] = "live"]
     /\ Start(c)
     /\ UNCHANGED has_trigger
  \/ /\ policy = "deferred"
     /\ has_trigger' = [has_trigger EXCEPT ![c] = TRUE]
     /\ UNCHANGED <<promise, threadVars>>

Policy == {"async", "deferred"}

\* The cell that a job makes when it calls another process.
Inner(c) == c + 1

-----------------------------------------------------------------------------
(* async *)

\* launch::sync, or make_ready_future: a cell that is ready at once.
AsyncSync(p) ==
  /\ next \in Cell
  /\ next' = next + 1
  /\ Make(next, p, p, "none", next, <<>>)
  /\ set_value(next, next)
  /\ calls' = [calls EXCEPT ![next] = @ + 1]
  /\ UNCHANGED <<waited, has_trigger, promise, copy, threadVars, msgs, ended>>

\* On the own process.
AsyncLocal(p, policy) ==
  /\ next \in Cell
  /\ next' = next + 1
  /\ Make(next, p, p, "call", next, <<>>)
  /\ Launch(next, policy)
  /\ UNCHANGED <<waited, is_ready, value, copy, calls, msgs, ended>>

\* rlaunch::async or sync to another process (sync then waits, as any
\* thread may).
AsyncRemote(p, q) ==
  /\ next \in Cell
  /\ p # q
  /\ next' = next + 1
  /\ Make(next, p, q, "call", next, <<>>)
  /\ promise' = [promise EXCEPT ![next] = "live"]
  /\ msgs' = msgs \cup {continued(next)}
  /\ UNCHANGED <<waited, is_ready, has_trigger, value, copy, threadVars, calls, ended>>

\* rlaunch::deferred to another process.  The number of the inner cell is
\* kept for it.
AsyncDeferred(p, q) ==
  /\ next \in Cell /\ next + 1 \in Cell
  /\ p # q
  /\ next' = next + 2
  /\ Make(next, p, q, "remote", next, <<>>)
  /\ Launch(next, "deferred")
  /\ UNCHANGED <<waited, is_ready, value, copy, calls, msgs, ended>>

\* async to the process that the future d will tell, which turns out to be q.
AsyncLater(d, q, policy) ==
  /\ Exists(d) /\ ~is_ready[d]
  /\ next \in Cell /\ (q # home[d] => next + 1 \in Cell)
  /\ next' = IF q = home[d] THEN next + 1 ELSE next + 2
  /\ Make(next, home[d], q, IF q = home[d] THEN "call" ELSE "remote", next, <<d>>)
  /\ Launch(next, policy)
  /\ UNCHANGED <<waited, is_ready, value, copy, calls, msgs, ended>>

\* future::then and shared_future::then.
Then(c, policy) ==
  /\ Exists(c)
  /\ next \in Cell
  /\ next' = next + 1
  /\ Make(next, home[c], home[c], "call", next, <<c>>)
  /\ Launch(next, policy)
  /\ UNCHANGED <<waited, is_ready, value, copy, calls, msgs, ended>>

\* unwrap, where the value of c is the future d.
Unwrap(c, d) ==
  /\ Exists(c) /\ Exists(d)
  /\ c # d /\ home[c] = home[d]
  /\ next \in Cell
  /\ next' = next + 1
  /\ Make(next, home[c], home[c], "value", call[d], <<c, d>>)
  /\ Launch(next, "async")
  /\ UNCHANGED <<waited, is_ready, value, copy, calls, msgs, ended>>

-----------------------------------------------------------------------------
(* Promises and packaged tasks of the user, who sets each at most once.     *)

\* A promise and its get_future.
GetFuture(p) ==
  /\ next \in Cell
  /\ next' = next + 1
  /\ Make(next, p, p, "none", next, <<>>)
  /\ promise' = [promise EXCEPT ![next] = "held"]
  /\ UNCHANGED <<waited, is_ready, has_trigger, value, copy, threadVars, calls, msgs, ended>>

\* promise::set_value, also by the call of a packaged_task.
SetValue(c) ==
  /\ promise[c] = "held" /\ ~is_ready[c]
  /\ set_value(c, c)
  /\ calls' = [calls EXCEPT ![c] = @ + 1]
  /\ UNCHANGED <<next, cellVars, waited, has_trigger, promise, copy, threadVars, msgs, ended>>

\* ~promise throws (set_exception) if the value is not set and a future is
\* there to wait for it; no exception leaves a destructor.
EndPromise(c) ==
  /\ promise[c] = "held"
  /\ IF is_ready[c]
     THEN promise' = [promise EXCEPT ![c] = "deleted"] /\ UNCHANGED ended
     ELSE ended' = TRUE /\ UNCHANGED promise
  /\ UNCHANGED <<next, cellVars, waited, is_ready, has_trigger, value, copy, threadVars,
                 calls, msgs>>

\* promise::operator= and packaged_task::reset only let go of it.
ReplacePromise(c) ==
  /\ promise[c] = "held"
  /\ promise' = [promise EXCEPT ![c] = IF is_ready[c] THEN "deleted" ELSE "replaced"]
  /\ UNCHANGED <<next, cellVars, waited, is_ready, has_trigger, value, copy, threadVars,
                 calls, msgs, ended>>

-----------------------------------------------------------------------------
(* A job, in its own thread or in a thread that took the trigger.          *)

RunContinued(msg) ==
  /\ msg.type = "continued"
  /\ msgs' = msgs \ {msg}
  /\ Start(msg.cell)
  /\ UNCHANGED <<next, cellVars, waited, is_ready, has_trigger, value, promise, copy,
                 calls, ended>>

Runs(t, c) == pc[t] = "run" /\ jobs[t] # <<>> /\ c = jobs[t][Len(jobs[t])]

\* Mutant: the job does not wait for what it continues or copies.
HasInput_no(c) == FALSE
HasInput(c) == waited[c] < Len(input[c])

\* wait() or get() of the next cell it needs.
RunWait(t, c) ==
  /\ Runs(t, c) /\ HasInput(c)
  /\ waited' = [waited EXCEPT ![c] = @ + 1]
  /\ waits' = [waits EXCEPT ![t] = input[c][waited[c] + 1]]
  /\ pc' = [pc EXCEPT ![t] = "wait"]
  /\ UNCHANGED <<next, cellVars, is_ready, has_trigger, value, promise, copy, jobs,
                 calls, msgs, ended>>

\* The call of another process: async(...).get().
RunRemote(t, c) ==
  /\ Runs(t, c) /\ ~HasInput(c)
  /\ job[c] = "remote"
  /\ home' = [home EXCEPT ![Inner(c)] = home[c]]
  /\ at' = [at EXCEPT ![Inner(c)] = at[c], ![c] = home[c]]
  /\ call' = [call EXCEPT ![Inner(c)] = c]
  /\ input' = [input EXCEPT ![c] = Append(@, Inner(c))]
  /\ job' = [job EXCEPT ![Inner(c)] = "call", ![c] = "value"]
  /\ promise' = [promise EXCEPT ![Inner(c)] = "live"]
  /\ msgs' = msgs \cup {continued(Inner(c))}
  /\ UNCHANGED <<next, waited, is_ready, has_trigger, value, copy, threadVars, calls, ended>>

\* The function returns, pf->get() or the inner get() has: the result goes into
\* the promise, or back to it, or to those who wait for the trigger's cell; a
\* copy is deleted.
Finish(t, c) ==
  /\ Runs(t, c) /\ ~HasInput(c)
  /\ job[c] \in {"call", "value"}
  /\ calls' = IF job[c] = "call" THEN [calls EXCEPT ![call[c]] = @ + 1] ELSE calls
  /\ copy' = [copy EXCEPT ![c] = IF @ = "live" THEN "deleted" ELSE @]
  /\ jobs' = [jobs EXCEPT ![t] = SubSeq(@, 1, Len(@) - 1)]
  /\ LET v == IF job[c] = "call" THEN call[c] ELSE value[input[c][Len(input[c])]]
     IN \/ /\ t = c /\ at[c] = home[c]
           /\ set_value(c, v)
           /\ promise' = [promise EXCEPT ![c] = "deleted"]
           /\ pc' = [pc EXCEPT ![t] = "done"]
           /\ UNCHANGED <<waits, msgs>>
        \/ /\ t = c /\ at[c] # home[c]
           /\ msgs' = msgs \cup {set_result(c, v)}
           /\ pc' = [pc EXCEPT ![t] = "done"]
           /\ UNCHANGED <<is_ready, value, promise, waits>>
        \/ /\ t # c
           /\ set_value(c, v)
           /\ waits' = [waits EXCEPT ![t] = c]
           /\ pc' = [pc EXCEPT ![t] = "read"]
           /\ UNCHANGED <<promise, msgs>>
  /\ UNCHANGED <<next, cellVars, waited, has_trigger, ended>>

\* Mutant: the promise is not deleted.
RunSetResultLeak(msg) ==
  /\ msg.type = "set_result"
  /\ msgs' = msgs \ {msg}
  /\ set_value(msg.cell, msg.value)
  /\ UNCHANGED <<next, cellVars, waited, has_trigger, promise, copy, threadVars, calls, ended>>

RunSetResult(msg) ==
  /\ msg.type = "set_result"
  /\ msgs' = msgs \ {msg}
  /\ set_value(msg.cell, msg.value)
  /\ promise' = [promise EXCEPT ![msg.cell] = "deleted"]
  /\ UNCHANGED <<next, cellVars, waited, has_trigger, copy, threadVars, calls, ended>>

-----------------------------------------------------------------------------
(* shared_state::wait *)

\* A user's thread calls wait() or get().
Wait(t, c) ==
  /\ t \in Waiter
  /\ pc[t] = "idle"
  /\ Exists(c)
  /\ pc' = [pc EXCEPT ![t] = "wait"]
  /\ waits' = [waits EXCEPT ![t] = c]
  /\ UNCHANGED <<next, cellVars, waited, is_ready, has_trigger, value, promise, copy, jobs,
                 calls, msgs, ended>>

\* if (bool(has_trigger) ...
Test(t) ==
  /\ pc[t] = "wait"
  /\ pc' = [pc EXCEPT ![t] =
              IF has_trigger[waits[t]] THEN "exchange" ELSE "read"]
  /\ UNCHANGED <<next, cellVars, waited, is_ready, has_trigger, value, promise, copy,
                 jobs, waits, calls, msgs, ended>>

\* Of a thread that has taken the trigger of c, if it was there.
Trigger(t, c, there) ==
  IF there
  THEN /\ jobs' = [jobs EXCEPT ![t] = Append(@, c)]
       /\ waits' = [waits EXCEPT ![t] = None]
       /\ pc' = [pc EXCEPT ![t] = "run"]
  ELSE pc' = [pc EXCEPT ![t] = "read"] /\ UNCHANGED <<jobs, waits>>

\* Mutant: the flag is stored to, and what it was before is not asked.
ExchangeStore(t) ==
  /\ pc[t] = "exchange"
  /\ has_trigger' = [has_trigger EXCEPT ![waits[t]] = FALSE]
  /\ Trigger(t, waits[t], TRUE)
  /\ UNCHANGED <<next, cellVars, waited, is_ready, value, promise, copy, calls, msgs, ended>>

\* Mutant: the result of the exchange is inverted.
ExchangeInverted(t) ==
  /\ pc[t] = "exchange"
  /\ has_trigger' = [has_trigger EXCEPT ![waits[t]] = FALSE]
  /\ Trigger(t, waits[t], ~has_trigger[waits[t]])
  /\ UNCHANGED <<next, cellVars, waited, is_ready, value, promise, copy, calls, msgs, ended>>

\* ... && has_trigger.exchange(false))
Exchange(t) ==
  /\ pc[t] = "exchange"
  /\ has_trigger' = [has_trigger EXCEPT ![waits[t]] = FALSE]
  /\ Trigger(t, waits[t], has_trigger[waits[t]])
  /\ UNCHANGED <<next, cellVars, waited, is_ready, value, promise, copy, calls, msgs, ended>>

\* is_ready.readFF(): a user's thread goes on, or the job that waited.
Read(t) ==
  /\ pc[t] = "read"
  /\ is_ready[waits[t]]
  /\ pc' = [pc EXCEPT ![t] = IF jobs[t] = <<>> THEN "idle" ELSE "run"]
  /\ waits' = [waits EXCEPT ![t] = None]
  /\ UNCHANGED <<next, cellVars, waited, is_ready, has_trigger, value, promise, copy,
                 jobs, calls, msgs, ended>>

-----------------------------------------------------------------------------
(* Serialization of a shared_future *)

\* Mutant: the value is saved without asking whether it is there.
SaveValue(c, q) ==
  /\ Exists(c)
  /\ q # home[c]
  /\ next \in Cell
  /\ next' = next + 1
  /\ msgs' = msgs \cup {[type |-> "future", cell |-> next, dest |-> q,
                         ready |-> TRUE, of |-> value[c]]}
  /\ UNCHANGED <<cellVars, waited, is_ready, has_trigger, value, promise, copy,
                 threadVars, calls, ended>>

\* save.  The number of the receiver's cell is chosen here, so that messages
\* differ.
Save(c, q) ==
  /\ Exists(c)
  /\ q # home[c]
  /\ next \in Cell
  /\ next' = next + 1
  /\ msgs' = msgs \cup {[type |-> "future", cell |-> next, dest |-> q,
                         ready |-> is_ready[c],
                         of |-> IF is_ready[c] THEN value[c] ELSE c]}
  /\ copy' = [copy EXCEPT ![next] = IF is_ready[c] THEN @ ELSE "live"]
  /\ UNCHANGED <<cellVars, waited, is_ready, has_trigger, value, promise, threadVars,
                 calls, ended>>

\* load of a value: make_ready_future.
LoadReady(msg) ==
  /\ msg.type = "future" /\ msg.ready
  /\ Make(msg.cell, msg.dest, msg.dest, "none", msg.of, <<>>)
  /\ set_value(msg.cell, msg.of)
  /\ msgs' = msgs \ {msg}
  /\ UNCHANGED <<next, waited, has_trigger, promise, copy, threadVars, calls, ended>>

\* load of a pointer: async(pf.get_proc(), shared_future_get, pf).
LoadPointer(msg) ==
  /\ msg.type = "future" /\ ~msg.ready
  /\ Make(msg.cell, msg.dest, home[msg.of], "value", call[msg.of], <<msg.of>>)
  /\ promise' = [promise EXCEPT ![msg.cell] = "live"]
  /\ msgs' = (msgs \ {msg}) \cup {continued(msg.cell)}
  /\ UNCHANGED <<next, waited, is_ready, has_trigger, value, copy, threadVars, calls, ended>>

-----------------------------------------------------------------------------

Deliver(msg) ==
  RunContinued(msg) \/ RunSetResult(msg) \/ LoadReady(msg) \/ LoadPointer(msg)

Step(t) ==
  \/ Test(t) \/ Exchange(t) \/ Read(t)
  \/ \E c \in Cell : RunWait(t, c) \/ RunRemote(t, c) \/ Finish(t, c)

Calls ==
  \/ \E p \in Proc : AsyncSync(p) \/ GetFuture(p)
  \/ \E p \in Proc, policy \in Policy : AsyncLocal(p, policy)
  \/ \E p, q \in Proc : AsyncRemote(p, q) \/ AsyncDeferred(p, q)
  \/ \E c \in Cell, policy \in Policy :
       Then(c, policy) \/ \E q \in Proc : AsyncLater(c, q, policy)
  \/ \E c, d \in Cell : Unwrap(c, d)
  \/ \E c \in Cell : SetValue(c) \/ EndPromise(c) \/ ReplacePromise(c)
  \/ \E c \in Cell, q \in Proc : Save(c, q)
  \/ \E t \in Thread, c \in Cell : Wait(t, c)

Next ==
  /\ ~ended
  /\ Calls \/ (\E t \in Thread : Step(t)) \/ (\E msg \in msgs : Deliver(msg))

Spec == Init /\ [][Next]_vars

\* Threads are scheduled, the user's functions return, tasks are delivered.
FairSpec ==
  /\ Spec
  /\ \A t \in Thread : WF_vars(~ended /\ Step(t))
  /\ WF_vars(~ended /\ \E msg \in msgs : Deliver(msg))

-----------------------------------------------------------------------------
(* Properties *)

In(c, s) == \E i \in DOMAIN s : s[i] = c

\* Everything that will set the value of c: the trigger nobody has taken, the
\* thread that took it, the thread that runs the job, the message that
\* starts this thread, or brings its result, and the user's promise.
Setters(c) ==
  (IF has_trigger[c] THEN {<<"trigger", c>>} ELSE {})
    \cup {<<"thread", t>> : t \in {u \in Thread : In(c, jobs[u])}}
    \cup {<<"msg", msg>> : msg \in {m \in msgs :
            m.cell = c /\ m.type \in {"continued", "set_result"}}}
    \cup (IF promise[c] = "held" /\ ~is_ready[c] THEN {<<"user", c>>} ELSE {})

\* However threads race for a deferred future, and however calls, results
\* and copies cross on the network, a future that is not ready has exactly
\* one party that will make it ready, and one that is ready has none: nobody
\* waits for ever, and the assertion of set_value never fails.  Only a promise
\* that its user has overwritten is nobody's.
OneSetter ==
  \A c \in Cell : Exists(c) =>
    IF is_ready[c] \/ promise[c] = "replaced" THEN Setters(c) = {}
    ELSE \E s \in Setters(c) : Setters(c) = {s}

\* The value everyone sees, on whatever process and through however many
\* copies, is the result of the one call that was asked for; the function was
\* called once; and a continuation is not called before what it continues.
ValueOfCall ==
  /\ \A c \in Cell : is_ready[c] => value[c] = call[c] /\ calls[call[c]] = 1
  /\ \A c \in Cell : calls[c] <= 1
  /\ \A c \in Cell : \A i \in DOMAIN input[c] :
       is_ready[c] \/ (calls[c] = 1 /\ job[c] = "call") => is_ready[input[c][i]]

\* A promise is deleted when its result has arrived, neither earlier nor never;
\* and a copy lives exactly from save to the end of shared_future_get.
HeapExact ==
  \A c \in Cell :
    /\ promise[c] = "live" => ~is_ready[c]
    /\ promise[c] = "deleted" => is_ready[c]
    /\ copy[c] = "live" <=>
         \/ \E m \in msgs : m.cell = c /\ m.type = "future" /\ ~m.ready
         \/ /\ job[c] = "value" /\ at[c] # home[c]
            /\ continued(c) \in msgs \/ In(c, jobs[c])

\* The cells that c rests on: itself, and all that those it waits for do.
RestsOn[c \in Cell] ==
  {c} \cup UNION {RestsOn[input[c][i]] : i \in {j \in DOMAIN input[c] : input[c][j] < c}}

\* wait() returns, for every thread and every future: deferred or not, local
\* or remote, continued, unwrapped, however often it was passed on; unless it
\* rests on a promise that its user does not set.
WaitReturns ==
  \A t \in Waiter :
    pc[t] # "idle" ~>
      \/ pc[t] = "idle" \/ ended
      \/ \E d \in Cell : /\ promise[d] \in {"held", "replaced"} /\ ~is_ready[d]
                        /\ d \in RestsOn[IF jobs[t] = <<>> THEN waits[t] ELSE jobs[t][1]]

=============================================================================
