----------------------------- MODULE Async_proofs -----------------------------
(***************************************************************************)
(* Proofs about futures, for any number of processes, threads and cells.   *)
(* The invariant says at which stage of its life each cell is, and with it *)
(* everything that could set its value; what the jobs that a thread runs   *)
(* have to do with each other; and when the function behind a cell has     *)
(* been called.                                                            *)
(***************************************************************************)
EXTENDS Async, SequenceTheorems, TLAPS

Last(s) == s[Len(s)]

\* The threads that run the job of a cell, and the tasks that belong to it.
RunBy(c) == {t \in Thread : In(c, jobs[t])}
Sent(c) == {m \in msgs : m.cell = c /\ m.type \in {"continued", "set_result"}}

InputsReady(c) == \A i \in DOMAIN input[c] : is_ready[input[c][i]]

-----------------------------------------------------------------------------
(* The life of a cell *)

Has(c, trigger, threads, tasks, promises) ==
  /\ has_trigger[c] = trigger
  /\ RunBy(c) = threads
  /\ Sent(c) = tasks
  /\ promise[c] \in promises

Unused(c) ==
  /\ ~Exists(c) /\ ~is_ready[c]
  /\ job[c] = "none" /\ input[c] = <<>> /\ waited[c] = 0
  /\ Has(c, FALSE, {}, {}, {"none"})

\* Its job is not run yet: it is in the trigger, or has been sent.
Deferred(c) ==
  Exists(c) /\ ~is_ready[c] /\ waited[c] = 0 /\ Has(c, TRUE, {}, {}, {"none"})
Asked(c) ==
  Exists(c) /\ ~is_ready[c] /\ waited[c] = 0 /\ Has(c, FALSE, {}, {continued(c)}, {"live"})

\* One thread runs it: the one that took the trigger, or its own.
Taken(c) ==
  Exists(c) /\ ~is_ready[c] /\ \E t \in Thread \ {c} : Has(c, FALSE, {t}, {}, {"none"})
Own(c) ==
  Exists(c) /\ ~is_ready[c] /\ Has(c, FALSE, {c}, {}, {"live"})

\* The result is on its way, or there.
Answered(c) ==
  /\ Exists(c) /\ ~is_ready[c] /\ InputsReady(c)
  /\ Has(c, FALSE, {}, {set_result(c, call[c])}, {"live"})
Done(c) ==
  /\ Exists(c) /\ is_ready[c] /\ InputsReady(c) /\ value[c] = call[c]
  /\ Has(c, FALSE, {}, {}, {"none", "held", "deleted"})

\* The user has the promise, or has overwritten it.
Promised(c) ==
  /\ Exists(c) /\ ~is_ready[c] /\ job[c] = "none" /\ input[c] = <<>> /\ call[c] = c
  /\ Has(c, FALSE, {}, {}, {"held"})
Replaced(c) ==
  /\ Exists(c) /\ ~is_ready[c] /\ job[c] = "none" /\ input[c] = <<>>
  /\ Has(c, FALSE, {}, {}, {"replaced"})

Staged(c) ==
  \/ Unused(c) \/ Deferred(c) \/ Asked(c) \/ Taken(c) \/ Own(c)
  \/ Answered(c) \/ Done(c) \/ Promised(c) \/ Replaced(c)

-----------------------------------------------------------------------------
(* What a cell is for *)

Kind(c) ==
  /\ call[c] \in Cell /\ Exists(call[c])
  /\ \A i \in DOMAIN input[c] : Exists(input[c][i])
  /\ (job[c] = "call" /\ call[c] # c) =>
       c = Inner(call[c]) /\ job[call[c]] = "value" /\ input[c] = <<>>
  /\ job[c] = "remote" =>
       call[c] = c /\ Inner(c) \in Cell /\ Inner(c) < next /\ Unused(Inner(c))
  /\ job[c] = "value" => input[c] # <<>> /\ call[c] = call[Last(input[c])]

\* Its function has been called when the result is there, and not while its job
\* or its promise is under way.
UnderWay(c) == has_trigger[c] \/ RunBy(c) # {} \/ continued(c) \in Sent(c)

Called(c) ==
  /\ (UnderWay(c) /\ job[c] = "call") => calls[call[c]] = 0
  /\ ((promise[c] = "held" /\ ~is_ready[c]) \/ job[c] = "remote") => calls[c] = 0
  /\ (is_ready[c] \/ set_result(c, call[c]) \in Sent(c)) => calls[call[c]] = 1

\* A serialized future, and the number chosen for its cell.
Future(m) ==
  /\ ~Exists(m.cell) /\ m.cell < next /\ Exists(m.of)
  /\ m.ready => calls[m.of] = 1
  /\ ~m.ready => home[m.of] # m.dest
  /\ \A d \in Cell : job[d] = "remote" => m.cell # Inner(d)
  /\ \A n \in msgs : n.type = "future" /\ n.cell = m.cell => n = m

-----------------------------------------------------------------------------
(* The jobs of a thread *)

Waiting == {"wait", "exchange", "read"}

\* A thread that is not idle has its own job at the bottom; none occurs twice.
Stacked(t) ==
  /\ pc[t] \in {"idle", "done"} => jobs[t] = <<>>
  /\ pc[t] = "run" => jobs[t] # <<>>
  /\ (t \in Cell /\ pc[t] \notin {"idle", "done"}) => jobs[t] # <<>> /\ jobs[t][1] = t
  /\ pc[t] \in Waiting => waits[t] \in Cell
  /\ \A i, j \in DOMAIN jobs[t] : jobs[t][i] = jobs[t][j] => i = j

\* Each job waits for the cell of the one above it; the one on top for the
\* cell the thread waits for, if it does.
Current(c, d) == waited[c] >= 1 /\ input[c][waited[c]] = d

Linked(t) ==
  /\ \A i \in 1 .. Len(jobs[t]) - 1 : Current(jobs[t][i], jobs[t][i + 1])
  /\ jobs[t] # <<>> =>
       LET c == Last(jobs[t])
       IN  /\ pc[t] = "run" => waited[c] = 0 \/ is_ready[input[c][waited[c]]]
           /\ pc[t] \in Waiting => Current(c, waits[t])

\* What a job has waited for before is ready.
Awaited(c) == \A i \in 1 .. waited[c] - 1 : is_ready[input[c][i]]

-----------------------------------------------------------------------------

\* The serialized futures that point to a copy.
Pointers(c) == {m \in msgs : m.cell = c /\ m.type = "future" /\ ~m.ready}

Copied(c) ==
  copy[c] = "live" <=>
    \/ Pointers(c) # {}
    \/ /\ job[c] = "value" /\ at[c] # home[c]
       /\ continued(c) \in Sent(c) \/ c \in RunBy(c)

CellTypes ==
  /\ home \in [Cell -> Proc \cup {NoProc}]
  /\ at \in [Cell -> Proc \cup {NoProc}]
  /\ job \in [Cell -> {"none", "call", "remote", "value"}]
  /\ call \in [Cell -> Cell \cup {None}]
  /\ input \in [Cell -> Seq(Cell)]
  /\ waited \in [Cell -> Nat]
  /\ \A c \in Cell : waited[c] \in 0 .. Len(input[c])

ValueTypes ==
  /\ is_ready \in [Cell -> BOOLEAN]
  /\ has_trigger \in [Cell -> BOOLEAN]
  /\ value \in [Cell -> Cell \cup {None}]
  /\ promise \in [Cell -> {"none", "live", "held", "replaced", "deleted"}]
  /\ copy \in [Cell -> {"none", "live", "deleted"}]
  /\ calls \in [Cell -> Nat]

ThreadTypes ==
  /\ pc \in [Thread -> {"idle", "run", "wait", "exchange", "read", "done"}]
  /\ jobs \in [Thread -> Seq(Cell)]
  /\ waits \in [Thread -> Cell \cup {None}]

Types ==
  /\ CellTypes /\ ValueTypes /\ ThreadTypes
  /\ next \in 1 .. MaxCells + 1
  /\ msgs \subseteq Msg
  /\ ended \in BOOLEAN

Sound(c) ==
  /\ Staged(c) /\ Copied(c) /\ Awaited(c)
  /\ calls[c] \in {0, 1}
  /\ IF Exists(c) THEN Kind(c) /\ Called(c) ELSE calls[c] = 0
  /\ c >= next => ~Exists(c) /\ copy[c] = "none"

IInv ==
  /\ Types
  /\ \A c \in Cell : Sound(c)
  /\ \A m \in msgs : m.type = "future" => Future(m)
  /\ \A t \in Thread : Stacked(t) /\ Linked(t)

-----------------------------------------------------------------------------
(* Threads, messages and sequences *)

LEMMA Threads ==
  /\ Cell \subseteq Thread /\ Cell \subseteq Nat \ {0} /\ None \notin Cell
  /\ \A t \in Waiter : t \notin Cell /\ t # None
  /\ \A t \in Thread : t \in Waiter \/ t \in Cell
  /\ \A c : c \in Cell <=> c \in Nat /\ c >= 1 /\ c <= MaxCells
  /\ MaxCells \in Nat
BY AsyncAssumption DEF Thread, Cell, None

LEMMA Messages ==
  ASSUME Types, NEW m \in msgs
  PROVE  /\ m.cell \in Cell
         /\ m.type = "continued" => m = continued(m.cell)
         /\ m.type = "set_result" => m = set_result(m.cell, m.value) /\ m.value \in Cell
         /\ m.type = "future" => m.dest \in Proc /\ m.ready \in BOOLEAN /\ m.of \in Cell
         /\ m.type \in {"continued", "set_result", "future"}
<1>1. m \in Msg
  BY DEF Types, CellTypes, ValueTypes, ThreadTypes
<1>2. CASE m \in [type : {"continued"}, cell : Cell]
  BY <1>2 DEF continued
<1>3. CASE m \in [type : {"set_result"}, cell : Cell, value : Cell]
  BY <1>3 DEF set_result
<1>4. CASE m \in [type : {"future"}, cell : Cell, dest : Proc, ready : BOOLEAN, of : Cell]
  BY <1>4
<1>5. QED BY <1>1, <1>2, <1>3, <1>4 DEF Msg

LEMMA Tasks ==
  ASSUME NEW c, NEW v
  PROVE  /\ continued(c).type = "continued" /\ continued(c).cell = c
         /\ set_result(c, v).type = "set_result" /\ set_result(c, v).cell = c
         /\ set_result(c, v).value = v
         /\ continued(c) # set_result(c, v)
BY DEF continued, set_result

LEMMA InEmpty == ASSUME NEW c PROVE ~In(c, <<>>)
BY DEF In

LEMMA InOne == ASSUME NEW c, NEW d PROVE In(d, <<c>>) <=> d = c
BY DEF In

LEMMA InAppend ==
  ASSUME NEW S, NEW s \in Seq(S), NEW c \in S, NEW d
  PROVE  In(d, Append(s, c)) <=> In(d, s) \/ d = c
<1>1. /\ DOMAIN s = 1 .. Len(s) /\ Len(s) \in Nat
      /\ DOMAIN Append(s, c) = 1 .. Len(s) + 1
      /\ \A i \in 1 .. Len(s) : Append(s, c)[i] = s[i]
      /\ Append(s, c)[Len(s) + 1] = c
  OBVIOUS
<1>2. \A i : i \in 1 .. Len(s) + 1 <=> i \in 1 .. Len(s) \/ i = Len(s) + 1
  BY <1>1
<1>3. QED BY <1>1, <1>2 DEF In

\* Without its last element, which occurs once.
LEMMA Pop ==
  ASSUME NEW S, NEW s \in Seq(S), s # <<>>,
         \A i, j \in DOMAIN s : s[i] = s[j] => i = j
  PROVE  LET r == SubSeq(s, 1, Len(s) - 1)
         IN  /\ r \in Seq(S) /\ Len(r) = Len(s) - 1 /\ Len(s) \in Nat \ {0}
             /\ DOMAIN r = 1 .. Len(s) - 1
             /\ \A i \in 1 .. Len(s) - 1 : r[i] = s[i]
             /\ \A d : In(d, r) <=> In(d, s) /\ d # Last(s)
<1> DEFINE r == SubSeq(s, 1, Len(s) - 1)
<1>1. Len(s) \in Nat /\ Len(s) # 0 /\ DOMAIN s = 1 .. Len(s)
  OBVIOUS
<1>2. r \in Seq(S) /\ Len(r) = Len(s) - 1 /\ \A i \in 1 .. Len(s) - 1 : r[i] = s[i]
  BY <1>1, SubSeqProperties
<1>3. DOMAIN r = 1 .. Len(s) - 1
  BY <1>2
<1>4. \A i : i \in 1 .. Len(s) <=> i \in 1 .. Len(s) - 1 \/ i = Len(s)
  BY <1>1
<1>5. \A i \in 1 .. Len(s) - 1 : s[i] # Last(s)
  BY <1>1 DEF Last
<1>6. \A d : In(d, r) <=> In(d, s) /\ d # Last(s)
  BY <1>1, <1>2, <1>3, <1>4, <1>5 DEF In, Last
<1> QED BY <1>1, <1>2, <1>3, <1>6

-----------------------------------------------------------------------------
(* What a step leaves alone *)

Same(c) ==
  /\ home'[c] = home[c] /\ at'[c] = at[c] /\ job'[c] = job[c] /\ call'[c] = call[c]
  /\ input'[c] = input[c] /\ waited'[c] = waited[c]
  /\ is_ready'[c] = is_ready[c] /\ value'[c] = value[c]
  /\ has_trigger'[c] = has_trigger[c] /\ promise'[c] = promise[c]
  /\ RunBy(c)' = RunBy(c) /\ Sent(c)' = Sent(c)

\* Cells do not disappear, nor does what they have.
Grows ==
  \A c \in Cell :
    /\ Exists(c) => home'[c] = home[c] /\ call'[c] = call[c]
    /\ is_ready[c] => is_ready'[c]
    /\ job[c] = "value" => job'[c] = "value"
    /\ calls[c] = 1 => calls'[c] = 1

\* A cell that is ready is done, one that does not exist is unused, and so on.
LEMMA Stages ==
  ASSUME IInv, NEW c \in Cell
  PROVE  /\ is_ready[c] => Done(c)
         /\ ~Exists(c) <=> Unused(c)
         /\ has_trigger[c] => Deferred(c)
         /\ continued(c) \in msgs => Asked(c)
         /\ \A v : set_result(c, v) \in msgs => Answered(c) /\ v = call[c]
         /\ \A t \in Thread : In(c, jobs[t]) =>
              IF t = c THEN Own(c) ELSE Taken(c) /\ RunBy(c) = {t}
         /\ (promise[c] = "held" /\ ~is_ready[c]) => Promised(c)
<1>1. Staged(c)
  BY DEF IInv, Sound
<1>2. continued(c) \in msgs => continued(c) \in Sent(c)
  BY Tasks DEF Sent
<1>3. \A v : set_result(c, v) \in msgs => set_result(c, v) \in Sent(c)
  BY Tasks DEF Sent
<1>4. \A t \in Thread : In(c, jobs[t]) => t \in RunBy(c)
  BY DEF RunBy
<1>5. \A v : set_result(c, v) # continued(c)
  BY Tasks
<1>6. \A v, w : set_result(c, v) = set_result(c, w) => v = w
  BY DEF set_result
<1>7. is_ready[c] => Done(c)
  BY <1>1 DEF Staged, Unused, Deferred, Asked, Taken, Own, Answered, Promised, Replaced
<1>8. ~Exists(c) <=> Unused(c)
  BY <1>1 DEF Staged, Unused, Deferred, Asked, Taken, Own, Answered, Done, Promised,
              Replaced
<1>9. has_trigger[c] => Deferred(c)
  BY <1>1 DEF Staged, Unused, Asked, Taken, Own, Answered, Done, Promised, Replaced, Has
<1>10. continued(c) \in msgs => Asked(c)
  BY <1>1, <1>2, <1>5 DEF Staged, Unused, Deferred, Taken, Own, Answered, Done, Promised,
                          Replaced, Has
<1>11. \A v : set_result(c, v) \in msgs => Answered(c) /\ v = call[c]
  BY <1>1, <1>3, <1>5, <1>6
     DEF Staged, Unused, Deferred, Asked, Taken, Own, Answered, Done, Promised,
         Replaced, Has
<1>12. \A t \in Thread : In(c, jobs[t]) =>
         IF t = c THEN Own(c) ELSE Taken(c) /\ RunBy(c) = {t}
  <2>1. ASSUME NEW t \in Thread, t \in RunBy(c)
        PROVE  Own(c) \/ Taken(c)
    BY <1>1, <2>1 DEF Staged, Unused, Deferred, Asked, Answered, Done, Promised, Replaced,
                      Has
  <2>2. ASSUME NEW t \in Thread, t \in RunBy(c)
        PROVE  IF t = c THEN Own(c) ELSE Taken(c) /\ RunBy(c) = {t}
    BY <2>1, <2>2 DEF Own, Taken, Has
  <2>3. QED BY <1>4, <2>2
<1>13. (promise[c] = "held" /\ ~is_ready[c]) => Promised(c)
  BY <1>1 DEF Staged, Unused, Deferred, Asked, Taken, Own, Answered, Done, Replaced, Has
<1>14. QED BY <1>7, <1>8, <1>9, <1>10, <1>11, <1>12, <1>13

\* No cell that exists is kept for another.
LEMMA NoInner ==
  ASSUME IInv, NEW c \in Cell, Exists(c), NEW d \in Cell, job[d] = "remote"
  PROVE  Inner(d) # c /\ Inner(d) \in Cell /\ Unused(Inner(d)) /\ Exists(d)
<1>1. Exists(d)
  BY Stages DEF Unused
<1>2. Inner(d) \in Cell /\ Unused(Inner(d))
  BY <1>1 DEF IInv, Sound, Kind
<1>3. Inner(d) # c
  BY <1>2 DEF Unused
<1>4. QED BY <1>1, <1>2, <1>3

\* A cell that exists has a number below the next.
LEMMA Below ==
  ASSUME IInv, NEW c \in Cell, Exists(c)
  PROVE  c < next /\ next \in Nat
BY Threads DEF IInv, Sound, Types

\* Steps that leave alone what a cell waits for, and what it is for.
LEMMA SameInput ==
  ASSUME IInv, Grows, NEW c \in Cell, input'[c] = input[c]
  PROVE  /\ InputsReady(c) => InputsReady(c)'
         /\ waited'[c] = waited[c] => Awaited(c)'
<1>1. \A i \in DOMAIN input[c] : input[c][i] \in Cell
  BY DEF IInv, Types, CellTypes
<1>2. InputsReady(c) => InputsReady(c)'
  BY <1>1 DEF InputsReady, Grows
<1>3. waited[c] \in 0 .. Len(input[c]) /\ DOMAIN input[c] = 1 .. Len(input[c])
  BY DEF IInv, Types, CellTypes
<1>4. \A i \in 1 .. waited[c] - 1 : i \in DOMAIN input[c]
  BY <1>3
<1>5. Awaited(c)
  BY DEF IInv, Sound
<1>6. QED BY <1>1, <1>2, <1>4, <1>5 DEF Awaited, Grows

LEMMA SameKind ==
  ASSUME IInv, Grows, NEW c \in Cell, Exists(c),
         job'[c] = job[c], input'[c] = input[c],
         job[c] = "remote" => Same(Inner(c)),
         next' >= next, next' \in Nat
  PROVE  Kind(c)'
<1>1. \A i \in DOMAIN input[c] : input[c][i] \in Cell
  BY DEF IInv, Types, CellTypes
<1>2. Kind(c) /\ call'[c] = call[c]
  BY DEF IInv, Sound, Grows
<1>3. call'[c] \in Cell /\ Exists(call[c])'
  BY <1>2 DEF Kind, Grows, Exists
<1>4. ASSUME NEW i \in DOMAIN input[c] PROVE Exists(input[c][i])'
  <2>1. input[c][i] \in Cell /\ Exists(input[c][i])
    BY <1>1, <1>2 DEF Kind
  <2>2. QED BY <2>1 DEF Grows, Exists
<1>5. ASSUME job[c] = "remote" PROVE Unused(Inner(c))'
  <2>1. Unused(Inner(c)) /\ Same(Inner(c))
    BY <1>2, <1>5 DEF Kind
  <2>2. QED BY <2>1 DEF Unused, Same, Exists, Has
<1>6. ASSUME job[c] = "value" PROVE call'[c] = call'[Last(input[c])]
  <2>1. input[c] # <<>> /\ input[c] \in Seq(Cell)
    BY <1>2, <1>6 DEF Kind, IInv, Types, CellTypes
  <2>2. Len(input[c]) \in DOMAIN input[c]
    BY <2>1
  <2>3. Exists(Last(input[c])) /\ Last(input[c]) \in Cell
    BY <1>1, <1>2, <2>2 DEF Kind, Last
  <2>4. QED BY <1>2, <1>6, <2>3 DEF Kind, Grows
<1>7. (job[c] = "call" /\ call[c] # c) => job'[call[c]] = "value"
  BY <1>2 DEF Kind, Grows
<1>8. Inner(c) < next => Inner(c) < next'
  BY Threads DEF IInv, Types, Inner
<1>9. QED BY <1>2, <1>3, <1>4, <1>5, <1>6, <1>7, <1>8 DEF Kind, Last

\* A cell that a step leaves alone is as well as it was.
LEMMA SameCell ==
  ASSUME IInv, Grows, NEW c \in Cell, Same(c),
         job[c] = "remote" => Same(Inner(c)),
         next' >= next, next' \in Nat
  PROVE  /\ Staged(c)' /\ Awaited(c)'
         /\ Exists(c)' <=> Exists(c)
         /\ Exists(c) => Kind(c)'
<1>1. Awaited(c)' /\ (InputsReady(c) => InputsReady(c)')
  BY SameInput DEF Same
<1>2. \A trigger, threads, tasks, promises :
        Has(c, trigger, threads, tasks, promises)'
          <=> Has(c, trigger, threads, tasks, promises)
  BY DEF Has, Same
<1>3. Staged(c)
  BY DEF IInv, Sound
<1>4. Unused(c) => Unused(c)'
  BY <1>2 DEF Unused, Same, Exists
<1>5. Deferred(c) \/ Asked(c) \/ Taken(c) \/ Own(c) =>
        (Deferred(c) \/ Asked(c) \/ Taken(c) \/ Own(c))'
  BY <1>2 DEF Deferred, Asked, Taken, Own, Same, Exists
<1>6. Answered(c) \/ Done(c) => (Answered(c) \/ Done(c))'
  BY <1>1, <1>2 DEF Answered, Done, Same, Exists
<1>7. Promised(c) \/ Replaced(c) => (Promised(c) \/ Replaced(c))'
  BY <1>2 DEF Promised, Replaced, Same, Exists
<1>8. Staged(c)'
  BY <1>3, <1>4, <1>5, <1>6, <1>7 DEF Staged
<1>9. Exists(c)' <=> Exists(c)
  BY DEF Same, Exists
<1>10. Exists(c) => Kind(c)'
  BY SameKind DEF Same
<1>11. QED BY <1>1, <1>8, <1>9, <1>10

\* A thread that a step leaves alone, with the cells whose jobs it runs.
LEMMA SameThread ==
  ASSUME IInv, Grows, NEW t \in Thread,
         pc'[t] = pc[t], jobs'[t] = jobs[t], waits'[t] = waits[t],
         \A c \in Cell : In(c, jobs[t]) => Same(c)
  PROVE  Stacked(t)' /\ Linked(t)'
<1>1. jobs[t] \in Seq(Cell) /\ Stacked(t) /\ Linked(t)
  BY DEF IInv, Types, CellTypes, ValueTypes, ThreadTypes
<1>2. Stacked(t)'
  BY <1>1 DEF Stacked
<1>3. \A i \in DOMAIN jobs[t] : jobs[t][i] \in Cell /\ Same(jobs[t][i])
  BY <1>1 DEF In
<1>4. ASSUME NEW i \in 1 .. Len(jobs[t]) - 1
      PROVE  Current(jobs[t][i], jobs[t][i + 1])'
  <2>1. i \in DOMAIN jobs[t]
    BY <1>1
  <2>2. Current(jobs[t][i], jobs[t][i + 1])
    BY <1>1 DEF Linked
  <2>3. Same(jobs[t][i])
    BY <1>3, <2>1
  <2>4. QED BY <2>2, <2>3 DEF Current, Same
<1>5. ASSUME jobs[t] # <<>>
      PROVE  LET c == Last(jobs[t])
             IN  /\ pc[t] = "run" => waited'[c] = 0 \/ is_ready'[input'[c][waited'[c]]]
                 /\ pc[t] \in Waiting => Current(c, waits[t])'
  <2> DEFINE c == Last(jobs[t])
  <2>1. c \in Cell /\ Same(c)
    <3>1. Len(jobs[t]) \in DOMAIN jobs[t]
      BY <1>1, <1>5
    <3>2. QED BY <1>3, <3>1 DEF Last
  <2>2. pc[t] \in Waiting => Current(c, waits[t])'
    BY <1>1, <1>5, <2>1 DEF Linked, Current, Same
  <2>3. pc[t] = "run" => waited'[c] = 0 \/ is_ready'[input'[c][waited'[c]]]
    <3>1. waited[c] \in 0 .. Len(input[c]) /\ input[c] \in Seq(Cell)
      BY <2>1 DEF IInv, Types, CellTypes, ValueTypes, ThreadTypes
    <3>2. waited[c] # 0 => input[c][waited[c]] \in Cell
      BY <3>1
    <3>3. pc[t] = "run" => waited[c] = 0 \/ is_ready[input[c][waited[c]]]
      BY <1>1, <1>5 DEF Linked
    <3>4. QED BY <2>1, <3>2, <3>3 DEF Same, Grows
  <2>4. QED BY <2>2, <2>3
<1>6. QED BY <1>2, <1>4, <1>5 DEF Linked, Current

\* A cell whose copy is left alone.
LEMMA SameCopy ==
  ASSUME IInv, NEW c \in Cell, Same(c), copy'[c] = copy[c], Pointers(c)' = Pointers(c)
  PROVE  Copied(c)'
<1>1. Copied(c)
  BY DEF IInv, Sound
<1>2. QED BY <1>1 DEF Copied, Same

\* A message that stays, if no step of its sender or for its cell happens.
LEMMA SameFuture ==
  ASSUME IInv, Grows, NEW m \in msgs, m.type = "future", Same(m.cell),
         next' >= next, next' \in Nat,
         \A d \in Cell : job'[d] = "remote" => job[d] = "remote" \/ Inner(d) # m.cell,
         \A n \in msgs' : n.type = "future" /\ n.cell = m.cell => n \in msgs
  PROVE  Future(m)'
<1>1. /\ m.cell \in Cell /\ m.of \in Cell /\ Future(m)
  BY Messages DEF IInv, Types, CellTypes, ValueTypes, ThreadTypes
<1>2. ~Exists(m.cell)' /\ Exists(m.of)' /\ home'[m.of] = home[m.of]
  BY <1>1 DEF Future, Same, Exists, Grows
<1>3. m.cell < next'
  BY <1>1, Threads DEF Future, IInv, Types, CellTypes, ValueTypes, ThreadTypes
<1>4. m.ready => calls'[m.of] = 1
  BY <1>1 DEF Future, Grows
<1>5. QED BY <1>1, <1>2, <1>3, <1>4 DEF Future

\* The function behind c need not have been called when the step changes
\* nothing but the calls of other cells.
LEMMA SameCalls ==
  ASSUME IInv, Grows, NEW c \in Cell, Exists(c), Same(c),
         calls'[c] = calls[c] \/ ~((promise[c] = "held" /\ ~is_ready[c]) \/ job[c] = "remote"),
         calls'[call[c]] = calls[call[c]] \/ ~(UnderWay(c) /\ job[c] = "call")
  PROVE  Called(c)'
<1>1. Kind(c) /\ Called(c)
  BY DEF IInv, Sound
<1>2. QED BY <1>1 DEF Kind, Called, UnderWay, Same, Grows

\* A step changes the cells of N and the threads of T, and what is said of
\* them holds afterwards.
Others(N) ==
  \A c \in Cell \ N :
    Same(c) /\ copy'[c] = copy[c] /\ (job[c] = "remote" => Inner(c) \notin N)

Changed(N) ==
  \A c \in N :
    Sound(c)' /\ (job'[c] = "remote" => job[c] = "remote" \/ Inner(c) >= next)

Counts(N) ==
  \A c \in Cell \ N :
    calls'[c] \in {0, 1} /\ IF Exists(c) THEN Called(c)' ELSE calls'[c] = 0

Passing(N) ==
  /\ \A m : m.type = "future" /\ m.cell \notin N => (m \in msgs <=> m \in msgs')
  /\ \A m \in msgs' : m.type = "future" /\ m.cell \in N => Future(m)'

Running(N, T) ==
  /\ \A t \in Thread \ T : /\ pc'[t] = pc[t] /\ jobs'[t] = jobs[t] /\ waits'[t] = waits[t]
                           /\ \A c \in N : ~In(c, jobs[t])
  /\ \A t \in T : Stacked(t)' /\ Linked(t)'

LEMMA Frame ==
  ASSUME IInv, Types', Grows, next' >= next,
         NEW N \in SUBSET Cell, NEW T \in SUBSET Thread,
         Others(N), Changed(N), Counts(N), Passing(N), Running(N, T)
  PROVE  IInv'
<1>1. next' \in Nat /\ next \in Nat /\ next' >= next
  BY Threads DEF IInv, Types, CellTypes, ValueTypes, ThreadTypes
<1>2. ASSUME NEW c \in Cell PROVE Sound(c)'
  <2>1. CASE c \in N
    BY <2>1 DEF Changed
  <2>2. CASE c \notin N
    <3>1. Same(c) /\ copy'[c] = copy[c]
      BY <2>2 DEF Others
    <3>2. job[c] = "remote" => Same(Inner(c))
      <4> SUFFICES ASSUME job[c] = "remote" PROVE Same(Inner(c))
        OBVIOUS
      <4>1. Exists(c)
        BY Stages DEF Unused
      <4>2. Inner(c) \in Cell
        BY <4>1 DEF IInv, Sound, Kind
      <4>3. QED BY <2>2, <4>2 DEF Others
    <3>3. /\ Staged(c)' /\ Awaited(c)'
          /\ Exists(c)' <=> Exists(c)
          /\ Exists(c) => Kind(c)'
      BY <1>1, <3>1, <3>2, SameCell
    <3>4. Pointers(c)' = Pointers(c)
      BY <2>2 DEF Passing, Pointers
    <3>5. Copied(c)'
      BY <3>1, <3>4, SameCopy
    <3>6. c >= next' => ~Exists(c)' /\ copy'[c] = "none"
      BY <1>1, <3>1, <3>3, Threads DEF IInv, Sound
    <3>7. calls'[c] \in {0, 1} /\ IF Exists(c) THEN Called(c)' ELSE calls'[c] = 0
      BY <2>2 DEF Counts
    <3>8. QED BY <3>3, <3>5, <3>6, <3>7 DEF Sound
  <2>3. QED BY <2>1, <2>2
<1>3. ASSUME NEW m \in msgs', m.type = "future" PROVE Future(m)'
  <2>1. CASE m.cell \in N
    BY <1>3, <2>1 DEF Passing
  <2>2. CASE m.cell \notin N
    <3>1. m \in msgs /\ m.cell \in Cell /\ Future(m)
      BY <1>3, <2>2, Messages DEF Passing, IInv, Types, CellTypes, ValueTypes, ThreadTypes
    <3>2. Same(m.cell)
      BY <2>2, <3>1 DEF Others
    <3>3. \A d \in Cell : job'[d] = "remote" => job[d] = "remote" \/ Inner(d) # m.cell
      <4>1. \A d \in N : job'[d] = "remote" => job[d] = "remote" \/ Inner(d) >= next
        BY DEF Changed
      <4>2. \A d \in Cell : Inner(d) >= next => Inner(d) # m.cell
        BY <1>1, <3>1, Threads DEF Future, Inner
      <4>3. \A d \in Cell \ N : job'[d] = job[d]
        BY DEF Others, Same
      <4>4. QED BY <4>1, <4>2, <4>3
    <3>4. \A n \in msgs' : n.type = "future" /\ n.cell = m.cell => n \in msgs
      BY <2>2 DEF Passing
    <3>5. QED BY <1>1, <1>3, <3>1, <3>2, <3>3, <3>4, SameFuture
  <2>3. QED BY <2>1, <2>2
<1>4. ASSUME NEW t \in Thread PROVE Stacked(t)' /\ Linked(t)'
  <2>1. CASE t \in T
    BY <2>1 DEF Running
  <2>2. CASE t \notin T
    <3>1. \A c \in Cell : In(c, jobs[t]) => Same(c)
      BY <2>2 DEF Running, Others
    <3>2. QED BY <2>2, <3>1, SameThread DEF Running
  <2>3. QED BY <2>1, <2>2
<1>5. QED BY <1>2, <1>3, <1>4 DEF IInv

LEMMA CountsKept ==
  ASSUME IInv, Grows, NEW N \in SUBSET Cell, Others(N),
         \A c \in Cell \ N : calls'[c] = calls[c],
         \A c \in Cell \ N : Exists(c) => calls'[call[c]] = calls[call[c]]
  PROVE  Counts(N)
<1>1. ASSUME NEW c \in Cell \ N, Exists(c) PROVE Called(c)'
  BY <1>1, SameCalls DEF Others
<1>2. QED BY <1>1 DEF Counts, IInv, Sound

-----------------------------------------------------------------------------
(* New cells *)

\* The thread of a cell whose job it does not run.
LEMMA OwnThread ==
  ASSUME IInv, NEW c \in Cell, c \notin RunBy(c)
  PROVE  jobs[c] = <<>> /\ pc[c] \in {"idle", "done"}
<1>1. c \in Thread /\ Stacked(c) /\ ~In(c, jobs[c]) /\ jobs[c] \in Seq(Cell)
  BY Threads DEF IInv, Types, CellTypes, ValueTypes, ThreadTypes, RunBy
<1>2. jobs[c] # <<>> => 1 \in DOMAIN jobs[c]
  BY <1>1
<1>3. QED BY <1>1, <1>2 DEF Stacked, In, IInv, Types, CellTypes, ValueTypes, ThreadTypes

LEMMA StartRuns ==
  ASSUME IInv, NEW c \in Cell, c \notin RunBy(c), jobs' = [jobs EXCEPT ![c] = <<c>>]
  PROVE  /\ \A d \in Cell : RunBy(d)' = IF d = c THEN RunBy(c) \cup {c} ELSE RunBy(d)
         /\ jobs' \in [Thread -> Seq(Cell)] /\ jobs'[c] = <<c>>
<1>1. jobs[c] = <<>>
  BY OwnThread
<1>2. c \in Thread /\ jobs'[c] = <<c>> /\ \A t \in Thread : t # c => jobs'[t] = jobs[t]
  BY Threads DEF IInv, Types, CellTypes, ValueTypes, ThreadTypes
<1>3. \A d \in Cell : In(d, jobs'[c]) <=> d = c
  BY <1>2, InOne
<1>4. \A d \in Cell : ~In(d, jobs[c])
  BY <1>1, InEmpty
<1>5. \A d \in Cell : \A t \in Thread : In(d, jobs'[t]) <=> In(d, jobs[t]) \/ (d = c /\ t = c)
  BY <1>2, <1>3, <1>4
<1>6. <<c>> \in Seq(Cell)
  OBVIOUS
<1>7. jobs' \in [Thread -> Seq(Cell)]
  BY <1>6 DEF IInv, Types, CellTypes, ValueTypes, ThreadTypes
<1>8. QED BY <1>2, <1>5, <1>7 DEF RunBy

\* A thread that has just been started.
LEMMA StartedThread ==
  ASSUME IInv, NEW c \in Cell, pc' = [pc EXCEPT ![c] = "run"], jobs'[c] = <<c>>,
         waited'[c] = 0
  PROVE  Stacked(c)' /\ Linked(c)'
<1>1. pc'[c] = "run"
  BY Threads DEF IInv, Types, CellTypes, ValueTypes, ThreadTypes
<1>2. Stacked(c)'
  BY <1>1 DEF Stacked, Waiting
<1>3. Linked(c)'
  BY <1>1 DEF Linked, Last, Waiting
<1>4. QED BY <1>2, <1>3

LEMMA NextCell ==
  ASSUME IInv, NEW n \in Cell, n = next
  PROVE  /\ Unused(n) /\ copy[n] = "none" /\ Pointers(n) = {} /\ calls[n] = 0
         /\ \A m \in msgs : m.type = "future" => m.cell # n
         /\ \A c \in Cell : job[c] = "remote" => Inner(c) # n
         /\ \A c \in Cell : Exists(c) => c # n /\ call[c] # n
         /\ n \in Nat /\ n <= MaxCells
<1>1. n \in Nat /\ n <= MaxCells /\ n >= next
  BY Threads
<1>2. ~Exists(n) /\ copy[n] = "none" /\ calls[n] = 0
  BY <1>1 DEF IInv, Sound
<1>3. Unused(n)
  BY <1>2, Stages
<1>4. ASSUME NEW m \in msgs, m.type = "future" PROVE m.cell # n
  <2>1. Future(m) /\ m.cell \in Cell
    BY <1>4, Messages DEF IInv
  <2>2. QED BY <1>1, <2>1, Threads DEF Future
<1>5. ASSUME NEW c \in Cell, job[c] = "remote" PROVE Inner(c) # n
  <2>1. Exists(c)
    BY <1>5, Stages DEF Unused
  <2>2. QED BY <1>1, <1>5, <2>1, Threads DEF IInv, Sound, Kind, Inner
<1>6. \A c \in Cell : Exists(c) => c # n /\ call[c] # n
  BY <1>2 DEF IInv, Sound, Kind
<1>7. QED BY <1>1, <1>2, <1>3, <1>4, <1>5, <1>6 DEF Pointers

\* The parts of a cell, and of no other, are made.
MadeCell(n, p, q, do, f, s) ==
  /\ home'[n] = p /\ at'[n] = q /\ job'[n] = do /\ call'[n] = f /\ input'[n] = s
  /\ Exists(n)'
  /\ \A c \in Cell : c # n =>
       /\ home'[c] = home[c] /\ at'[c] = at[c] /\ job'[c] = job[c]
       /\ call'[c] = call[c] /\ input'[c] = input[c]

LEMMA Made ==
  ASSUME IInv, NEW n \in Cell, NEW p \in Proc, NEW q \in Proc,
         NEW do \in {"none", "call", "remote", "value"}, NEW f \in Cell, NEW s \in Seq(Cell),
         Unused(n), waited' = waited, Make(n, p, q, do, f, s)
  PROVE  MadeCell(n, p, q, do, f, s) /\ CellTypes'
<1>1. CellTypes
  BY DEF IInv, Types
<1>2. /\ home' = [home EXCEPT ![n] = p] /\ at' = [at EXCEPT ![n] = q]
      /\ job' = [job EXCEPT ![n] = do] /\ call' = [call EXCEPT ![n] = f]
      /\ input' = [input EXCEPT ![n] = s]
  BY DEF Make
<1>3. p # NoProc
  BY AsyncAssumption
<1>4. MadeCell(n, p, q, do, f, s)
  BY <1>1, <1>2, <1>3 DEF MadeCell, Exists, CellTypes
<1>5. ASSUME NEW c \in Cell PROVE waited'[c] \in 0 .. Len(input'[c])
  <2>1. CASE c = n
    <3>1. input'[c] = s /\ Len(s) \in Nat /\ waited'[c] = 0
      BY <1>1, <1>2, <2>1 DEF CellTypes, Unused
    <3>2. QED BY <3>1
  <2>2. CASE c # n
    BY <1>1, <1>2, <2>2 DEF CellTypes
  <2>3. QED BY <2>1, <2>2
<1>6. CellTypes'
  BY <1>1, <1>2, <1>5 DEF CellTypes
<1>7. QED BY <1>4, <1>6

LEMMA AsyncSyncStep ==
  ASSUME IInv, NEW p \in Proc, AsyncSync(p) PROVE IInv'
<1> PICK n \in Cell : n = next
  BY DEF AsyncSync
<1>1. /\ Unused(n) /\ copy[n] = "none" /\ Pointers(n) = {} /\ calls[n] = 0
      /\ \A m \in msgs : m.type = "future" => m.cell # n
      /\ \A c \in Cell : job[c] = "remote" => Inner(c) # n
      /\ \A c \in Cell : Exists(c) => c # n /\ call[c] # n
      /\ n \in Nat /\ n <= MaxCells
  BY NextCell
<1>2. MadeCell(n, p, p, "none", n, <<>>) /\ CellTypes'
  <2>1. Make(n, p, p, "none", n, <<>>) /\ waited' = waited
    BY DEF AsyncSync
  <2>2. <<>> \in Seq(Cell)
    OBVIOUS
  <2>3. QED BY <1>1, <2>1, <2>2, Made
<1>3. /\ next' = n + 1
      /\ is_ready'[n] /\ value'[n] = n /\ calls'[n] = 1
      /\ \A c \in Cell : c # n =>
           is_ready'[c] = is_ready[c] /\ value'[c] = value[c] /\ calls'[c] = calls[c]
      /\ ValueTypes'
      /\ UNCHANGED <<waited, has_trigger, promise, copy, pc, jobs, waits, msgs, ended>>
  BY <1>1 DEF AsyncSync, set_value, IInv, Types, ValueTypes, threadVars
<1>4. Types'
  BY <1>1, <1>2, <1>3, Threads DEF IInv, Types, ThreadTypes
<1>5. Grows
  BY <1>1, <1>2, <1>3 DEF Grows, Unused, MadeCell
<1>6. Others({n})
  BY <1>1, <1>2, <1>3 DEF Others, Same, RunBy, Sent, MadeCell
<1>7. Has(n, FALSE, {}, {}, {"none"})'
  BY <1>1, <1>3 DEF Unused, Has, RunBy, Sent
<1>8. Changed({n})
  <2>1. Done(n)'
    BY <1>1, <1>2, <1>3, <1>7 DEF Done, InputsReady, Has, MadeCell
  <2>2. Copied(n)'
    BY <1>1, <1>2, <1>3 DEF Copied, Pointers, MadeCell
  <2>3. Kind(n)' /\ Called(n)'
    BY <1>1, <1>2, <1>3, <1>7, Tasks DEF Kind, Called, UnderWay, Has, MadeCell
  <2>4. QED BY <1>1, <1>2, <1>3, <2>1, <2>2, <2>3
            DEF Changed, Sound, Staged, Awaited, Unused, MadeCell
<1>9. Counts({n})
  BY <1>1, <1>3, <1>5, <1>6, CountsKept DEF IInv, Sound, Kind
<1>10. Passing({n}) /\ Running({n}, {})
  BY <1>1, <1>3 DEF Passing, Running, Unused, Has, RunBy
<1>11. QED BY <1>1, <1>3, <1>4, <1>5, <1>6, <1>8, <1>9, <1>10, Frame

LEMMA GetFutureStep ==
  ASSUME IInv, NEW p \in Proc, GetFuture(p) PROVE IInv'
<1> PICK n \in Cell : n = next
  BY DEF GetFuture
<1>1. /\ Unused(n) /\ copy[n] = "none" /\ Pointers(n) = {} /\ calls[n] = 0
      /\ \A m \in msgs : m.type = "future" => m.cell # n
      /\ \A c \in Cell : job[c] = "remote" => Inner(c) # n
      /\ \A c \in Cell : Exists(c) => c # n /\ call[c] # n
      /\ n \in Nat /\ n <= MaxCells
  BY NextCell
<1>2. MadeCell(n, p, p, "none", n, <<>>) /\ CellTypes'
  <2>1. Make(n, p, p, "none", n, <<>>) /\ waited' = waited
    BY DEF GetFuture
  <2>2. <<>> \in Seq(Cell)
    OBVIOUS
  <2>3. QED BY <1>1, <2>1, <2>2, Made
<1>3. /\ next' = n + 1
      /\ promise'[n] = "held" /\ \A c \in Cell : c # n => promise'[c] = promise[c]
      /\ ValueTypes'
      /\ UNCHANGED <<waited, is_ready, value, has_trigger, copy, pc, jobs, waits, calls, msgs,
                     ended>>
  BY <1>1 DEF GetFuture, IInv, Types, ValueTypes, threadVars
<1>4. Types'
  BY <1>1, <1>2, <1>3, Threads DEF IInv, Types, ThreadTypes
<1>5. Grows
  BY <1>1, <1>2, <1>3 DEF Grows, Unused, MadeCell
<1>6. Others({n})
  BY <1>1, <1>2, <1>3 DEF Others, Same, RunBy, Sent, MadeCell
<1>7. Has(n, FALSE, {}, {}, {"held"})'
  BY <1>1, <1>3 DEF Unused, Has, RunBy, Sent
<1>8. Changed({n})
  <2>1. Promised(n)'
    BY <1>1, <1>2, <1>3, <1>7 DEF Promised, Unused, MadeCell
  <2>2. Copied(n)'
    BY <1>1, <1>2, <1>3 DEF Copied, Pointers, MadeCell
  <2>3. Kind(n)' /\ Called(n)'
    BY <1>1, <1>2, <1>3, <1>7, Tasks DEF Kind, Called, UnderWay, Has, MadeCell, Unused
  <2>4. QED BY <1>1, <1>2, <1>3, <2>1, <2>2, <2>3
            DEF Changed, Sound, Staged, Awaited, Unused, MadeCell
<1>9. Counts({n})
  BY <1>3, <1>5, <1>6, CountsKept
<1>10. Passing({n}) /\ Running({n}, {})
  BY <1>1, <1>3 DEF Passing, Running, Unused, Has, RunBy
<1>11. QED BY <1>1, <1>3, <1>4, <1>5, <1>6, <1>8, <1>9, <1>10, Frame

\* What the cells that are launched have in common.
LEMMA LaunchStep ==
  ASSUME IInv, NEW n \in Cell, n = next,
         next' = n + 1 \/ (next' = n + 2 /\ n + 1 \in Cell),
         NEW p \in Proc, NEW q \in Proc, NEW do \in {"call", "remote", "value"},
         NEW f \in Cell, NEW s \in Seq(Cell), NEW policy,
         \A i \in DOMAIN s : Exists(s[i]),
         do \in {"call", "remote"} => f = n,
         do = "remote" => next' = n + 2,
         do = "value" => s # <<>> /\ p = q /\ f = call[Last(s)],
         Make(n, p, q, do, f, s), Launch(n, policy),
         UNCHANGED <<waited, is_ready, value, copy, calls, msgs, ended>>
  PROVE  IInv'
<1>1. /\ Unused(n) /\ copy[n] = "none" /\ Pointers(n) = {} /\ calls[n] = 0
      /\ \A m \in msgs : m.type = "future" => m.cell # n
      /\ \A c \in Cell : job[c] = "remote" => Inner(c) # n
      /\ \A c \in Cell : Exists(c) => c # n /\ call[c] # n
      /\ n \in Nat /\ n <= MaxCells
  BY NextCell
<1>2. MadeCell(n, p, q, do, f, s) /\ CellTypes'
  BY <1>1, Made
<1>3. /\ ValueTypes' /\ ThreadTypes'
      /\ \A c \in Cell : c # n =>
           /\ promise'[c] = promise[c] /\ has_trigger'[c] = has_trigger[c]
           /\ RunBy(c)' = RunBy(c)
      /\ \A t \in Thread : t # n => pc'[t] = pc[t] /\ jobs'[t] = jobs[t] /\ waits'[t] = waits[t]
      /\ \/ Has(n, FALSE, {n}, {}, {"live"})' \/ Has(n, TRUE, {}, {}, {"none"})'
      /\ Stacked(n)' /\ Linked(n)'
  <2>1. n \notin RunBy(n) /\ n \in Thread /\ RunBy(n) = {} /\ Sent(n) = {}
    BY <1>1, Threads DEF Unused, Has
  <2>2. CASE policy = "async"
    <3>1. /\ promise' = [promise EXCEPT ![n] = "live"] /\ UNCHANGED has_trigger
          /\ pc' = [pc EXCEPT ![n] = "run"] /\ jobs' = [jobs EXCEPT ![n] = <<n>>]
          /\ UNCHANGED waits
      BY <2>2 DEF Launch, Start
    <3>2. /\ \A d \in Cell : RunBy(d)' = IF d = n THEN RunBy(n) \cup {n} ELSE RunBy(d)
          /\ jobs' \in [Thread -> Seq(Cell)] /\ jobs'[n] = <<n>>
      BY <2>1, <3>1, StartRuns
    <3>3. Stacked(n)' /\ Linked(n)'
      BY <1>1, <3>1, <3>2, StartedThread DEF Unused
    <3>4. ValueTypes' /\ ThreadTypes'
      BY <3>1, <3>2 DEF IInv, Types, ValueTypes, ThreadTypes
    <3>5. Has(n, FALSE, {n}, {}, {"live"})'
      BY <1>1, <2>1, <3>1, <3>2 DEF Has, Sent, Unused, IInv, Types, ValueTypes
    <3>6. \A c \in Cell : c # n => promise'[c] = promise[c] /\ has_trigger'[c] = has_trigger[c]
      BY <3>1 DEF IInv, Types, ValueTypes
    <3>7. \A t \in Thread : t # n => pc'[t] = pc[t] /\ jobs'[t] = jobs[t] /\ waits'[t] = waits[t]
      BY <3>1 DEF IInv, Types, ThreadTypes
    <3>8. QED BY <3>2, <3>3, <3>4, <3>5, <3>6, <3>7
  <2>3. CASE policy = "deferred"
    <3>1. /\ has_trigger' = [has_trigger EXCEPT ![n] = TRUE]
          /\ UNCHANGED <<promise, pc, jobs, waits>>
      BY <2>3 DEF Launch, threadVars
    <3>2. ValueTypes' /\ ThreadTypes'
      BY <3>1 DEF IInv, Types, ValueTypes, ThreadTypes
    <3>3. Has(n, TRUE, {}, {}, {"none"})'
      BY <1>1, <3>1 DEF Has, Sent, RunBy, Unused, IInv, Types, ValueTypes
    <3>4. Stacked(n)' /\ Linked(n)'
      <4>1. jobs[n] = <<>> /\ pc[n] \in {"idle", "done"}
        BY <2>1, OwnThread
      <4>2. QED BY <3>1, <4>1 DEF Stacked, Linked, Waiting
    <3>5. QED BY <3>1, <3>2, <3>3, <3>4 DEF RunBy, IInv, Types, ValueTypes
  <2>4. QED BY <2>2, <2>3 DEF Launch
<1>4. Types'
  <2>1. next' \in 1 .. MaxCells + 1
    BY <1>1, Threads
  <2>2. QED BY <1>2, <1>3, <2>1 DEF IInv, Types
<1>5. Grows
  BY <1>1, <1>2 DEF Grows, Unused, MadeCell
<1>6. Others({n})
  BY <1>1, <1>2, <1>3 DEF Others, Same, Sent, MadeCell
<1>7. Kind(n)'
  <2>1. \A i \in DOMAIN s : s[i] \in Cell /\ s[i] # n
    BY <1>1
  <2>2. \A i \in DOMAIN s : Exists(input[n][i])'
    BY <1>2, <2>1 DEF MadeCell, Exists
  <2>3. CASE do = "call"
    BY <1>2, <2>2, <2>3 DEF Kind, MadeCell
  <2>4. CASE do = "remote"
    <3>1. Inner(n) = n + 1 /\ Inner(n) \in Cell /\ n + 1 >= next /\ n + 1 # n
      BY <1>1, <2>4, Threads DEF Inner
    <3>2. Unused(Inner(n))
      BY <3>1, Stages DEF IInv, Sound
    <3>3. Unused(Inner(n))'
      BY <1>6, <3>1, <3>2 DEF Others, Same, Unused, Exists, Has
    <3>4. n + 1 < next'
      BY <1>1, <2>4
    <3>5. QED BY <1>2, <2>2, <2>4, <3>1, <3>3, <3>4 DEF Kind, MadeCell
  <2>5. CASE do = "value"
    <3>1. Len(s) \in DOMAIN s
      BY <2>5
    <3>2. Last(s) \in Cell /\ Last(s) # n /\ Exists(Last(s))
      BY <2>1, <3>1 DEF Last
    <3>3. Kind(Last(s)) /\ f = call[Last(s)]
      BY <2>5, <3>2 DEF IInv, Sound
    <3>4. f # n /\ Exists(f)
      BY <1>1, <3>2, <3>3 DEF Kind
    <3>5. QED BY <1>2, <2>2, <2>5, <3>2, <3>4 DEF Kind, MadeCell, Exists, Last
  <2>6. QED BY <2>3, <2>4, <2>5
<1>8. Changed({n})
  <2>1. Own(n)' \/ Deferred(n)'
    BY <1>1, <1>2, <1>3 DEF Own, Deferred, Unused, MadeCell
  <2>2. Copied(n)'
    BY <1>1, <1>2 DEF Copied, Pointers, MadeCell
  <2>3. Called(n)'
    BY <1>1, <1>2, <1>3 DEF Called, Has, MadeCell, Unused
  <2>4. job'[n] = "remote" => Inner(n) >= next
    BY <1>1 DEF Inner
  <2>5. Exists(n)' /\ n < next' /\ n \in Nat
    BY <1>1, <1>2 DEF MadeCell
  <2>6. Awaited(n)'
    BY <1>1 DEF Awaited, Unused
  <2>7. QED BY <1>1, <1>7, <2>1, <2>2, <2>3, <2>4, <2>5, <2>6 DEF Changed, Sound, Staged
<1>9. Counts({n})
  BY <1>5, <1>6, CountsKept
<1>10. Passing({n}) /\ Running({n}, {n})
  BY <1>1, <1>3 DEF Passing, Running, Unused, Has, RunBy
<1>11. QED BY <1>1, <1>4, <1>5, <1>6, <1>8, <1>9, <1>10, Threads, Frame

LEMMA AsyncLocalStep ==
  ASSUME IInv, NEW p \in Proc, NEW policy \in Policy, AsyncLocal(p, policy) PROVE IInv'
<1> PICK n \in Cell : n = next
  BY DEF AsyncLocal
<1>1. Make(n, p, p, "call", n, <<>>) /\ Launch(n, policy) /\ next' = n + 1
  BY DEF AsyncLocal
<1>2. UNCHANGED <<waited, is_ready, value, copy, calls, msgs, ended>>
  BY DEF AsyncLocal
<1>3. <<>> \in Seq(Cell) /\ \A i \in DOMAIN <<>> : Exists(<<>>[i])
  OBVIOUS
<1>4. QED BY <1>1, <1>2, <1>3, LaunchStep

LEMMA AsyncDeferredStep ==
  ASSUME IInv, NEW p \in Proc, NEW q \in Proc, AsyncDeferred(p, q) PROVE IInv'
<1> PICK n \in Cell : n = next
  BY DEF AsyncDeferred
<1>1. Make(n, p, q, "remote", n, <<>>) /\ Launch(n, "deferred")
  BY DEF AsyncDeferred
<1>2. next' = n + 2 /\ n + 1 \in Cell
  BY DEF AsyncDeferred
<1>3. UNCHANGED <<waited, is_ready, value, copy, calls, msgs, ended>>
  BY DEF AsyncDeferred
<1>4. <<>> \in Seq(Cell) /\ \A i \in DOMAIN <<>> : Exists(<<>>[i])
  OBVIOUS
<1>5. QED BY <1>1, <1>2, <1>3, <1>4, LaunchStep

LEMMA AsyncLaterStep ==
  ASSUME IInv, NEW d \in Cell, NEW q \in Proc, NEW policy \in Policy,
         AsyncLater(d, q, policy)
  PROVE  IInv'
<1> PICK n \in Cell : n = next
  BY DEF AsyncLater
<1>1. UNCHANGED <<waited, is_ready, value, copy, calls, msgs, ended>> /\ Launch(n, policy)
  BY DEF AsyncLater
<1>2. <<d>> \in Seq(Cell) /\ \A i \in DOMAIN <<d>> : Exists(<<d>>[i])
  BY DEF AsyncLater
<1>3. home[d] \in Proc
  BY DEF AsyncLater, Exists, IInv, Types, CellTypes
<1>4. CASE q = home[d]
  <2>1. Make(n, home[d], q, "call", n, <<d>>) /\ next' = n + 1
    BY <1>4 DEF AsyncLater
  <2>2. QED BY <1>1, <1>2, <1>3, <2>1, LaunchStep
<1>5. CASE q # home[d]
  <2>1. Make(n, home[d], q, "remote", n, <<d>>) /\ next' = n + 2 /\ n + 1 \in Cell
    BY <1>5 DEF AsyncLater
  <2>2. QED BY <1>1, <1>2, <1>3, <2>1, LaunchStep
<1>6. QED BY <1>4, <1>5

LEMMA ThenStep ==
  ASSUME IInv, NEW c \in Cell, NEW policy \in Policy, Then(c, policy) PROVE IInv'
<1> PICK n \in Cell : n = next
  BY DEF Then
<1>1. Make(n, home[c], home[c], "call", n, <<c>>) /\ Launch(n, policy) /\ next' = n + 1
  BY DEF Then
<1>2. UNCHANGED <<waited, is_ready, value, copy, calls, msgs, ended>>
  BY DEF Then
<1>3. <<c>> \in Seq(Cell) /\ \A i \in DOMAIN <<c>> : Exists(<<c>>[i])
  BY DEF Then
<1>4. home[c] \in Proc
  BY DEF Then, Exists, IInv, Types, CellTypes
<1>5. QED BY <1>1, <1>2, <1>3, <1>4, LaunchStep

LEMMA UnwrapStep ==
  ASSUME IInv, NEW c \in Cell, NEW d \in Cell, Unwrap(c, d) PROVE IInv'
<1> PICK n \in Cell : n = next
  BY DEF Unwrap
<1> DEFINE s == <<c, d>>
<1>1. Make(n, home[c], home[c], "value", call[d], s) /\ Launch(n, "async") /\ next' = n + 1
  BY DEF Unwrap
<1>2. UNCHANGED <<waited, is_ready, value, copy, calls, msgs, ended>>
  BY DEF Unwrap
<1>3. s \in Seq(Cell) /\ Len(s) = 2 /\ s # <<>> /\ Last(s) = d
  BY DEF Last
<1>4. \A i \in DOMAIN s : Exists(s[i])
  BY DEF Unwrap
<1>5. home[c] \in Proc
  BY DEF Unwrap, Exists, IInv, Types, CellTypes
<1>6. call[d] \in Cell
  BY DEF Unwrap, IInv, Sound, Kind
<1> HIDE DEF s
<1>7. QED BY <1>1, <1>2, <1>3, <1>4, <1>5, <1>6, LaunchStep

LEMMA AsyncRemoteStep ==
  ASSUME IInv, NEW p \in Proc, NEW q \in Proc, AsyncRemote(p, q) PROVE IInv'
<1> PICK n \in Cell : n = next
  BY DEF AsyncRemote
<1>1. /\ Unused(n) /\ copy[n] = "none" /\ Pointers(n) = {} /\ calls[n] = 0
      /\ \A m \in msgs : m.type = "future" => m.cell # n
      /\ \A c \in Cell : job[c] = "remote" => Inner(c) # n
      /\ \A c \in Cell : Exists(c) => c # n /\ call[c] # n
      /\ n \in Nat /\ n <= MaxCells
  BY NextCell
<1>2. MadeCell(n, p, q, "call", n, <<>>) /\ CellTypes'
  <2>1. Make(n, p, q, "call", n, <<>>) /\ waited' = waited
    BY DEF AsyncRemote
  <2>2. <<>> \in Seq(Cell)
    OBVIOUS
  <2>3. QED BY <1>1, <2>1, <2>2, Made
<1>3. /\ next' = n + 1
      /\ promise'[n] = "live" /\ \A c \in Cell : c # n => promise'[c] = promise[c]
      /\ ValueTypes'
      /\ msgs' = msgs \cup {continued(n)}
      /\ UNCHANGED <<waited, is_ready, value, has_trigger, copy, pc, jobs, waits, calls, ended>>
  BY <1>1 DEF AsyncRemote, IInv, Types, ValueTypes, threadVars
<1>4. Types'
  <2>1. continued(n) \in Msg
    BY DEF Msg, continued
  <2>2. QED BY <1>1, <1>2, <1>3, <2>1, Threads DEF IInv, Types, ThreadTypes
<1>5. Grows
  BY <1>1, <1>2, <1>3 DEF Grows, Unused, MadeCell
<1>6. /\ Sent(n)' = Sent(n) \cup {continued(n)}
      /\ \A c \in Cell : c # n => Sent(c)' = Sent(c)
      /\ Pointers(n)' = Pointers(n)
  BY <1>3, Tasks DEF Sent, Pointers
<1>7. Others({n})
  BY <1>1, <1>2, <1>3, <1>6 DEF Others, Same, RunBy, MadeCell
<1>8. Has(n, FALSE, {}, {continued(n)}, {"live"})'
  BY <1>1, <1>3, <1>6 DEF Unused, Has, RunBy
<1>9. Changed({n})
  <2>1. Asked(n)'
    BY <1>1, <1>2, <1>3, <1>8 DEF Asked, Unused, MadeCell
  <2>2. Copied(n)'
    BY <1>1, <1>2, <1>3, <1>6 DEF Copied, MadeCell
  <2>3. Kind(n)' /\ Called(n)'
    BY <1>1, <1>2, <1>3, <1>8, Tasks DEF Kind, Called, UnderWay, Has, MadeCell, Unused
  <2>4. QED BY <1>1, <1>2, <1>3, <2>1, <2>2, <2>3
            DEF Changed, Sound, Staged, Awaited, Unused, MadeCell
<1>10. Counts({n})
  BY <1>3, <1>5, <1>7, CountsKept
<1>11. Passing({n}) /\ Running({n}, {})
  BY <1>1, <1>3, Tasks DEF Passing, Running, Unused, Has, RunBy
<1>12. QED BY <1>1, <1>3, <1>4, <1>5, <1>7, <1>9, <1>10, <1>11, Frame

-----------------------------------------------------------------------------
(* Promises of the user *)

\* The promise of a user who has not set it.
LEMMA Held ==
  ASSUME IInv, NEW c \in Cell, promise[c] = "held", ~is_ready[c]
  PROVE  Promised(c) /\ Exists(c) /\ calls[c] = 0 /\ Kind(c) /\ c < next
<1>1. Promised(c)
  BY Stages
<1>2. Exists(c)
  BY <1>1 DEF Promised
<1>3. c < next
  BY <1>2, Below
<1>4. QED BY <1>1, <1>2, <1>3 DEF IInv, Sound, Called

LEMMA SetValueStep ==
  ASSUME IInv, NEW c \in Cell, SetValue(c) PROVE IInv'
<1>1. /\ Promised(c) /\ Exists(c) /\ calls[c] = 0 /\ Kind(c) /\ c < next
      /\ Has(c, FALSE, {}, {}, {"held"}) /\ call[c] = c /\ job[c] = "none"
      /\ input[c] = <<>>
  BY Held DEF SetValue, Promised
<1>2. /\ is_ready'[c] /\ value'[c] = c /\ calls'[c] = 1
      /\ \A d \in Cell : d # c =>
           is_ready'[d] = is_ready[d] /\ value'[d] = value[d] /\ calls'[d] = calls[d]
      /\ ValueTypes'
      /\ UNCHANGED <<next, home, at, job, call, input, waited, has_trigger, promise, copy, pc,
                     jobs, waits, msgs, ended>>
  BY <1>1 DEF SetValue, set_value, IInv, Types, ValueTypes, threadVars, cellVars
<1>3. Types'
  BY <1>2 DEF IInv, Types, ThreadTypes, CellTypes
<1>4. Grows
  BY <1>1, <1>2 DEF Grows
<1>5. Others({c})
  BY <1>1, <1>2, NoInner DEF Others, Same, RunBy, Sent
<1>6. Has(c, FALSE, {}, {}, {"held"})'
  BY <1>1, <1>2 DEF Has, RunBy, Sent
<1>7. Changed({c})
  <2>1. Done(c)'
    BY <1>1, <1>2, <1>6 DEF Done, InputsReady, Has, Exists
  <2>2. Copied(c)' /\ Awaited(c)'
    <3>1. Copied(c)
      BY DEF IInv, Sound
    <3>2. Copied(c)'
      BY <1>2, <3>1 DEF Copied, Pointers, Sent, RunBy
    <3>3. Awaited(c)'
      BY <1>2, <1>4, SameInput
    <3>4. QED BY <3>2, <3>3
  <2>3. Kind(c)'
    BY <1>1, <1>2 DEF Kind, Exists
  <2>4. Called(c)'
    BY <1>1, <1>2, <1>6 DEF Called, UnderWay, Has
  <2>5. Exists(c)' /\ ~(c >= next')
    BY <1>1, <1>2, Threads DEF Exists, IInv, Types
  <2>6. QED BY <1>1, <1>2, <2>1, <2>2, <2>3, <2>4, <2>5 DEF Changed, Sound, Staged
<1>8. Counts({c})
  <2>1. ASSUME NEW d \in Cell \ {c}, Exists(d) PROVE Called(d)'
    <3>1. ~(UnderWay(d) /\ job[d] = "call") \/ call[d] # c
      BY <1>1, <2>1 DEF IInv, Sound, Kind
    <3>2. calls'[d] = calls[d] /\ call[d] \in Cell
      BY <1>2, <2>1 DEF IInv, Sound, Kind
    <3>3. QED BY <1>2, <1>4, <1>5, <2>1, <3>1, <3>2, SameCalls DEF Others
  <2>2. QED BY <1>2, <2>1 DEF Counts, IInv, Sound
<1>9. Passing({c}) /\ Running({c}, {})
  BY <1>1, <1>2 DEF Passing, Running, Has, RunBy, Future, IInv
<1>10. QED BY <1>2, <1>3, <1>4, <1>5, <1>7, <1>8, <1>9, Threads, Frame DEF IInv, Types

\* The user lets go of a promise.
LEMMA LetGo ==
  ASSUME IInv, NEW c \in Cell, promise[c] = "held",
         promise' = [promise EXCEPT ![c] = IF is_ready[c] THEN "deleted" ELSE "replaced"],
         UNCHANGED <<next, home, at, job, call, input, waited, is_ready, value, calls,
                     has_trigger, copy, pc, jobs, waits, msgs, ended>>
  PROVE  IInv'
<1>1. IF is_ready[c] THEN Done(c) ELSE Promised(c)
  BY Stages
<1>2. Exists(c) /\ Has(c, FALSE, {}, {}, {"held"}) /\ job[c] # "remote"
  <2>1. Exists(c) /\ Has(c, FALSE, {}, {}, {"held"})
    BY <1>1 DEF Done, Promised, Has
  <2>2. job[c] = "remote" => calls[c] = 0 /\ call[c] = c
    BY <2>1 DEF IInv, Sound, Called, Kind
  <2>3. is_ready[c] => calls[call[c]] = 1
    BY <2>1 DEF IInv, Sound, Called
  <2>4. ~is_ready[c] => job[c] = "none"
    BY <1>1 DEF Promised
  <2>5. job[c] # "remote"
    BY <2>2, <2>3, <2>4
  <2>6. QED BY <2>1, <2>5
<1>3. /\ promise'[c] = IF is_ready[c] THEN "deleted" ELSE "replaced"
      /\ \A d \in Cell : d # c => promise'[d] = promise[d]
      /\ ValueTypes'
  BY DEF IInv, Types, ValueTypes
<1>4. Types'
  BY <1>3 DEF IInv, Types, CellTypes, ThreadTypes
<1>5. Grows
  BY DEF Grows
<1>6. Others({c})
  BY <1>2, <1>3, NoInner DEF Others, Same, RunBy, Sent
<1>7. Changed({c})
  <2>1. RunBy(c)' = RunBy(c) /\ Sent(c)' = Sent(c) /\ Pointers(c)' = Pointers(c)
    BY DEF RunBy, Sent, Pointers
  <2>2. Done(c)' \/ Replaced(c)'
    BY <1>1, <1>2, <1>3, <2>1 DEF Done, Promised, Replaced, Has, Exists, InputsReady
  <2>3. Copied(c)'
    BY <2>1 DEF Copied, IInv, Sound
  <2>4. Awaited(c)'
    BY <1>5, SameInput
  <2>5. Kind(c)'
    BY <1>2, <1>5, SameKind, Threads DEF IInv, Types
  <2>6. Called(c)'
    BY <1>2, <1>3, <2>1 DEF Called, UnderWay, IInv, Sound
  <2>7. Exists(c)' /\ calls'[c] = calls[c] /\ job'[c] = job[c] /\ ~(c >= next')
    BY <1>2, Below, Threads DEF Exists
  <2>8. QED BY <1>2, <2>2, <2>3, <2>4, <2>5, <2>6, <2>7 DEF Changed, Sound, Staged, IInv
<1>8. Counts({c})
  BY <1>5, <1>6, CountsKept
<1>9. Passing({c}) /\ Running({c}, {})
  BY <1>2 DEF Passing, Running, Has, RunBy, Future, IInv
<1>10. QED BY <1>4, <1>5, <1>6, <1>7, <1>8, <1>9, Threads, Frame DEF IInv, Types

LEMMA EndPromiseStep ==
  ASSUME IInv, NEW c \in Cell, EndPromise(c) PROVE IInv'
<1>1. CASE ~is_ready[c]
  <2>1. UNCHANGED <<next, home, at, job, call, input, waited, is_ready, value, calls,
                    has_trigger, promise, copy, pc, jobs, waits, msgs>> /\ ended' = TRUE
    BY <1>1 DEF EndPromise, cellVars, threadVars
  <2>2. Types'
    BY <2>1 DEF IInv, Types, CellTypes, ValueTypes, ThreadTypes
  <2>3. Grows /\ Others({})
    BY <2>1 DEF Grows, Others, Same, RunBy, Sent
  <2>4. Changed({}) /\ Passing({}) /\ Running({}, {})
    BY <2>1 DEF Changed, Passing, Running
  <2>5. Counts({})
    BY <2>1, <2>3, CountsKept
  <2>6. QED BY <2>1, <2>2, <2>3, <2>4, <2>5, Threads, Frame DEF IInv, Types
<1>2. CASE is_ready[c]
  <2>1. /\ promise[c] = "held"
        /\ promise' = [promise EXCEPT ![c] = IF is_ready[c] THEN "deleted" ELSE "replaced"]
        /\ UNCHANGED <<next, home, at, job, call, input, waited, is_ready, value, calls,
                       has_trigger, copy, pc, jobs, waits, msgs, ended>>
    BY <1>2 DEF EndPromise, cellVars, threadVars
  <2>2. QED BY <2>1, LetGo
<1>3. QED BY <1>1, <1>2

LEMMA ReplacePromiseStep ==
  ASSUME IInv, NEW c \in Cell, ReplacePromise(c) PROVE IInv'
BY LetGo DEF ReplacePromise, cellVars, threadVars

-----------------------------------------------------------------------------
(* Threads *)

\* Neither the cell nor what is kept for it is touched by the others.
LEMMA SameKindOf ==
  ASSUME IInv, Grows, NEW c \in Cell, Exists(c), Others({c}),
         job'[c] = job[c], input'[c] = input[c],
         next' >= next, next' \in Nat
  PROVE  Kind(c)'
<1>1. job[c] = "remote" => Inner(c) # c /\ Inner(c) \in Cell
  BY NoInner
<1>2. job[c] = "remote" => Same(Inner(c))
  BY <1>1 DEF Others
<1>3. QED BY <1>2, SameKind

\* Nobody has a serialized future for a cell that exists.
LEMMA NoFuture ==
  ASSUME IInv, NEW c \in Cell, Exists(c),
         \A m : m.type = "future" => (m \in msgs <=> m \in msgs')
  PROVE  Passing({c}) /\ Pointers(c) = {} /\ Pointers(c)' = {}
<1>1. \A m \in msgs : m.type = "future" => m.cell # c
  BY DEF IInv, Future
<1>2. QED BY <1>1 DEF Passing, Pointers

\* The cell whose job is on top of a thread's.
LEMMA OnTop ==
  ASSUME IInv, NEW t \in Thread, NEW c \in Cell, Runs(t, c)
  PROVE  /\ c = Last(jobs[t]) /\ In(c, jobs[t]) /\ RunBy(c) = {t}
         /\ jobs[t] \in Seq(Cell) /\ Len(jobs[t]) \in Nat \ {0}
         /\ \A i \in 1 .. Len(jobs[t]) - 1 : jobs[t][i] \in Cell \ {c}
         /\ Exists(c) /\ ~is_ready[c] /\ has_trigger[c] = FALSE /\ Sent(c) = {}
         /\ IF t = c THEN promise[c] = "live" ELSE promise[c] = "none"
         /\ waited[c] \in 0 .. Len(input[c]) /\ input[c] \in Seq(Cell)
         /\ \A i \in 1 .. waited[c] : is_ready[input[c][i]]
<1>1. jobs[t] \in Seq(Cell) /\ jobs[t] # <<>> /\ c = jobs[t][Len(jobs[t])] /\ pc[t] = "run"
  BY DEF Runs, IInv, Types, ThreadTypes
<1>2. Len(jobs[t]) \in Nat \ {0} /\ Len(jobs[t]) \in DOMAIN jobs[t]
  BY <1>1
<1>3. c = Last(jobs[t]) /\ In(c, jobs[t])
  BY <1>1, <1>2 DEF Last, In
<1>4. IF t = c THEN Own(c) ELSE Taken(c) /\ RunBy(c) = {t}
  BY <1>3, Stages
<1>5. Exists(c) /\ ~is_ready[c] /\ has_trigger[c] = FALSE /\ Sent(c) = {} /\ RunBy(c) = {t}
  BY <1>4 DEF Own, Taken, Has
<1>6. IF t = c THEN promise[c] = "live" ELSE promise[c] = "none"
  BY <1>4 DEF Own, Taken, Has
<1>7. \A i \in 1 .. Len(jobs[t]) - 1 : jobs[t][i] \in Cell \ {c}
  <2> TAKE i \in 1 .. Len(jobs[t]) - 1
  <2>1. i \in DOMAIN jobs[t] /\ i # Len(jobs[t])
    BY <1>1, <1>2
  <2>2. QED BY <1>1, <1>2, <2>1 DEF IInv, Stacked
<1>8. waited[c] \in 0 .. Len(input[c]) /\ input[c] \in Seq(Cell)
  BY DEF IInv, Types, CellTypes
<1>9. ASSUME NEW i \in 1 .. waited[c] PROVE is_ready[input[c][i]]
  <2>1. CASE i \in 1 .. waited[c] - 1
    BY <2>1 DEF IInv, Sound, Awaited
  <2>2. CASE i = waited[c]
    <3>1. waited[c] = 0 \/ is_ready[input[c][waited[c]]]
      BY <1>1, <1>3 DEF IInv, Linked
    <3>2. QED BY <2>2, <3>1, <1>8
  <2>3. QED BY <1>8, <2>1, <2>2
<1>10. QED BY <1>1, <1>2, <1>3, <1>5, <1>6, <1>7, <1>8, <1>9

LEMMA RunContinuedStep ==
  ASSUME IInv, NEW msg \in msgs, RunContinued(msg) PROVE IInv'
<1> PICK c \in Cell : c = msg.cell
  BY Messages DEF IInv
<1>1. msg = continued(c)
  BY Messages DEF RunContinued, IInv
<1>2. /\ Asked(c) /\ Exists(c) /\ ~is_ready[c] /\ waited[c] = 0 /\ promise[c] = "live"
      /\ has_trigger[c] = FALSE /\ RunBy(c) = {} /\ Sent(c) = {continued(c)}
  BY <1>1, Stages DEF Asked, Has
<1>3. /\ pc' = [pc EXCEPT ![c] = "run"] /\ jobs' = [jobs EXCEPT ![c] = <<c>>]
      /\ msgs' = msgs \ {continued(c)}
      /\ UNCHANGED <<next, home, at, job, call, input, waited, is_ready, value, calls,
                     has_trigger, promise, copy, waits, ended>>
  BY <1>1 DEF RunContinued, Start, cellVars
<1>4. /\ RunBy(c)' = {c} /\ \A d \in Cell : d # c => RunBy(d)' = RunBy(d)
      /\ jobs' \in [Thread -> Seq(Cell)] /\ jobs'[c] = <<c>>
  <2>1. c \notin RunBy(c)
    BY <1>2
  <2>2. QED BY <1>2, <1>3, <2>1, StartRuns
<1>5. /\ Sent(c)' = {} /\ \A d \in Cell : d # c => Sent(d)' = Sent(d)
      /\ \A m : m.type = "future" => (m \in msgs <=> m \in msgs')
  BY <1>2, <1>3, Tasks DEF Sent
<1>6. Types'
  BY <1>3, <1>4 DEF IInv, Types, CellTypes, ValueTypes, ThreadTypes
<1>7. Grows
  BY <1>3 DEF Grows
<1>8. Others({c})
  BY <1>2, <1>3, <1>4, <1>5, NoInner DEF Others, Same
<1>9. Passing({c}) /\ Pointers(c) = {} /\ Pointers(c)' = {}
  BY <1>2, <1>5, NoFuture
<1>10. Changed({c})
  <2>1. Own(c)'
    BY <1>2, <1>3, <1>4, <1>5 DEF Own, Has, Exists
  <2>2. Copied(c)'
    BY <1>2, <1>3, <1>4, <1>9 DEF Copied, IInv, Sound
  <2>3. Awaited(c)' /\ Kind(c)'
    BY <1>2, <1>3, <1>7, <1>8, SameInput, SameKindOf, Below, Threads
  <2>4. Called(c)'
    BY <1>2, <1>3, <1>5 DEF Called, UnderWay, IInv, Sound
  <2>5. Exists(c)' /\ calls'[c] = calls[c] /\ job'[c] = job[c] /\ ~(c >= next')
    BY <1>2, <1>3, Below, Threads DEF Exists
  <2>6. QED BY <1>3, <2>1, <2>2, <2>3, <2>4, <2>5 DEF Changed, Sound, Staged, IInv
<1>11. Counts({c})
  BY <1>3, <1>7, <1>8, CountsKept
<1>12. Running({c}, {c})
  <2>1. Stacked(c)' /\ Linked(c)'
    BY <1>2, <1>3, <1>4, StartedThread
  <2>2. \A t \in Thread \ {c} : pc'[t] = pc[t] /\ jobs'[t] = jobs[t] /\ waits'[t] = waits[t]
    BY <1>3 DEF IInv, Types, ThreadTypes
  <2>3. QED BY <1>2, <2>1, <2>2 DEF Running, RunBy
<1>13. QED BY <1>3, <1>6, <1>7, <1>8, <1>9, <1>10, <1>11, <1>12, Threads, Frame DEF IInv, Types

LEMMA RunSetResultStep ==
  ASSUME IInv, NEW msg \in msgs, RunSetResult(msg) PROVE IInv'
<1> PICK c \in Cell : c = msg.cell
  BY Messages DEF IInv
<1>1. msg = set_result(c, msg.value)
  BY Messages DEF RunSetResult, IInv
<1>2. /\ Answered(c) /\ msg = set_result(c, call[c])
      /\ Exists(c) /\ ~is_ready[c] /\ InputsReady(c) /\ promise[c] = "live"
      /\ has_trigger[c] = FALSE /\ RunBy(c) = {} /\ Sent(c) = {set_result(c, call[c])}
  <2>1. Answered(c) /\ msg.value = call[c]
    BY <1>1, Stages
  <2>2. QED BY <1>1, <2>1 DEF Answered, Has
<1>3. /\ is_ready'[c] /\ value'[c] = call[c] /\ promise'[c] = "deleted"
      /\ \A d \in Cell : d # c => /\ is_ready'[d] = is_ready[d] /\ value'[d] = value[d]
                                  /\ promise'[d] = promise[d]
      /\ ValueTypes'
      /\ msgs' = msgs \ {set_result(c, call[c])}
      /\ UNCHANGED <<next, home, at, job, call, input, waited, calls, has_trigger, copy,
                     pc, jobs, waits, ended>>
  <2>1. msg.value = call[c] /\ call[c] \in Cell
    BY <1>2, Tasks DEF IInv, Sound, Kind
  <2>2. QED BY <1>2, <2>1
            DEF RunSetResult, set_value, cellVars, threadVars, IInv, Types, ValueTypes
<1>4. /\ Sent(c)' = {} /\ \A d \in Cell : d # c => Sent(d)' = Sent(d)
      /\ \A m : m.type = "future" => (m \in msgs <=> m \in msgs')
      /\ \A d \in Cell : RunBy(d)' = RunBy(d)
  BY <1>2, <1>3, Tasks DEF Sent, RunBy
<1>5. Types'
  BY <1>3 DEF IInv, Types, CellTypes, ThreadTypes
<1>6. Grows
  BY <1>3 DEF Grows
<1>7. Others({c})
  BY <1>2, <1>3, <1>4, NoInner DEF Others, Same
<1>8. Passing({c}) /\ Pointers(c) = {} /\ Pointers(c)' = {}
  BY <1>2, <1>4, NoFuture
<1>9. Changed({c})
  <2>1. Done(c)'
    <3>1. InputsReady(c)'
      BY <1>2, <1>3, <1>6, SameInput
    <3>2. QED BY <1>2, <1>3, <1>4, <3>1 DEF Done, Has, Exists
  <2>2. Copied(c)'
    <3>1. Copied(c)
      BY DEF IInv, Sound
    <3>2. continued(c) \notin Sent(c) /\ continued(c) \notin Sent(c)'
      BY <1>2, <1>4, Tasks
    <3>3. c \notin RunBy(c) /\ c \notin RunBy(c)'
      BY <1>2, <1>4
    <3>4. QED
      BY <1>3, <1>8, <3>1, <3>2, <3>3 DEF Copied
  <2>3. Awaited(c)' /\ Kind(c)'
    BY <1>2, <1>3, <1>6, <1>7, SameInput, SameKindOf, Below, Threads
  <2>4. Called(c)'
    BY <1>2, <1>3, <1>4 DEF Called, UnderWay, IInv, Sound
  <2>5. Exists(c)' /\ calls'[c] = calls[c] /\ job'[c] = job[c] /\ ~(c >= next')
    BY <1>2, <1>3, Below, Threads DEF Exists
  <2>6. QED BY <1>3, <2>1, <2>2, <2>3, <2>4, <2>5 DEF Changed, Sound, Staged, IInv
<1>10. Counts({c})
  BY <1>3, <1>6, <1>7, CountsKept
<1>11. Running({c}, {})
  BY <1>2, <1>3 DEF Running, RunBy
<1>12. QED BY <1>3, <1>5, <1>6, <1>7, <1>8, <1>9, <1>10, <1>11, Threads, Frame DEF IInv, Types

LEMMA RunWaitStep ==
  ASSUME IInv, NEW t \in Thread, NEW c \in Cell, RunWait(t, c) PROVE IInv'
<1>1. Runs(t, c) /\ waited[c] < Len(input[c])
  BY DEF RunWait, HasInput
<1>2. /\ c = Last(jobs[t]) /\ In(c, jobs[t]) /\ RunBy(c) = {t}
      /\ jobs[t] \in Seq(Cell) /\ Len(jobs[t]) \in Nat \ {0}
      /\ \A i \in 1 .. Len(jobs[t]) - 1 : jobs[t][i] \in Cell \ {c}
      /\ Exists(c) /\ ~is_ready[c] /\ has_trigger[c] = FALSE /\ Sent(c) = {}
      /\ IF t = c THEN promise[c] = "live" ELSE promise[c] = "none"
      /\ waited[c] \in 0 .. Len(input[c]) /\ input[c] \in Seq(Cell)
      /\ \A i \in 1 .. waited[c] : is_ready[input[c][i]]
  BY <1>1, OnTop
<1> PICK w \in Nat : w = waited[c] + 1
  BY <1>2
<1>3. w \in 1 .. Len(input[c]) /\ w \in DOMAIN input[c] /\ input[c][w] \in Cell
  BY <1>1, <1>2
<1>4. /\ waited' = [waited EXCEPT ![c] = w]
      /\ waits' = [waits EXCEPT ![t] = input[c][w]]
      /\ pc' = [pc EXCEPT ![t] = "wait"]
      /\ UNCHANGED <<next, home, at, job, call, input, is_ready, value, calls, has_trigger,
                     promise, copy, jobs, msgs, ended>>
  BY DEF RunWait, cellVars, IInv, Types, CellTypes
<1>5. /\ waited'[c] = w /\ \A d \in Cell : d # c => waited'[d] = waited[d]
      /\ pc'[t] = "wait" /\ waits'[t] = input[c][w]
      /\ \A u \in Thread \ {t} : pc'[u] = pc[u] /\ jobs'[u] = jobs[u] /\ waits'[u] = waits[u]
      /\ ThreadTypes'
  BY <1>3, <1>4 DEF IInv, Types, ThreadTypes, CellTypes
<1>6. Types'
  <2>1. waited' \in [Cell -> Nat] /\ \A d \in Cell : waited'[d] \in 0 .. Len(input[d])
    BY <1>3, <1>4, <1>5 DEF IInv, Types, CellTypes
  <2>2. QED BY <1>4, <1>5, <2>1 DEF IInv, Types, CellTypes, ValueTypes
<1>7. Grows
  BY <1>4 DEF Grows
<1>8. \A d \in Cell : RunBy(d)' = RunBy(d) /\ Sent(d)' = Sent(d) /\ Pointers(d)' = Pointers(d)
  BY <1>4 DEF RunBy, Sent, Pointers
<1>9. Others({c})
  BY <1>2, <1>4, <1>5, <1>8, NoInner DEF Others, Same
<1>10. Passing({c})
  BY <1>2, <1>4, NoFuture
<1>11. Changed({c})
  <2>1. Own(c)' \/ Taken(c)'
    BY <1>2, <1>4, <1>8 DEF Own, Taken, Has, Exists
  <2>2. Copied(c)'
    BY <1>4, <1>8 DEF Copied, IInv, Sound
  <2>3. Awaited(c)'
    <3>1. \A i \in 1 .. w - 1 : i \in 1 .. waited[c]
      BY <1>2
    <3>2. \A i \in 1 .. w - 1 : is_ready[input[c][i]]
      BY <1>2, <3>1
    <3>3. QED BY <1>4, <1>5, <3>2 DEF Awaited
  <2>4. Exists(c) /\ next' = next /\ job' = job /\ input' = input /\ calls' = calls
    BY <1>2, <1>4
  <2>5. Kind(c)'
    BY <1>7, <1>9, <2>4, SameKindOf, Below, Threads
  <2>6. Called(c)'
    <3>1. Called(c)
      BY <2>4 DEF IInv, Sound
    <3>2. QED BY <1>4, <1>8, <3>1 DEF Called, UnderWay
  <2>7. Exists(c)'
    BY <1>4, <2>4 DEF Exists
  <2>8. ~(c >= next')
    BY <2>4, Below, Threads
  <2>9. QED BY <2>1, <2>2, <2>3, <2>4, <2>5, <2>6, <2>7, <2>8 DEF Changed, Sound, Staged, IInv
<1>12. Counts({c})
  BY <1>4, <1>7, <1>9, CountsKept
<1>13. Running({c}, {t})
  <2>1. Stacked(t)'
    BY <1>1, <1>3, <1>4, <1>5 DEF Stacked, IInv, Runs, Waiting
  <2>2. ASSUME NEW i \in 1 .. Len(jobs[t]) - 1
        PROVE  Current(jobs[t][i], jobs[t][i + 1])'
    <3>1. Current(jobs[t][i], jobs[t][i + 1])
      BY DEF IInv, Linked
    <3>2. jobs[t][i] \in Cell \ {c}
      BY <1>2
    <3>3. QED BY <1>4, <1>5, <3>1, <3>2 DEF Current
  <2>3. Current(c, waits[t])'
    BY <1>3, <1>4, <1>5 DEF Current
  <2>4. Linked(t)'
    BY <1>2, <1>4, <1>5, <2>2, <2>3 DEF Linked, Last, Current
  <2>5. QED BY <1>2, <1>5, <2>1, <2>4 DEF Running, RunBy
<1>14. QED BY <1>4, <1>6, <1>7, <1>9, <1>10, <1>11, <1>12, <1>13, Threads, Frame
           DEF IInv, Types

LEMMA RunRemoteStep ==
  ASSUME IInv, NEW t \in Thread, NEW c \in Cell, RunRemote(t, c) PROVE IInv'
<1>1. Runs(t, c) /\ ~(waited[c] < Len(input[c])) /\ job[c] = "remote"
  BY DEF RunRemote, HasInput
<1>2. /\ c = Last(jobs[t]) /\ In(c, jobs[t]) /\ RunBy(c) = {t}
      /\ jobs[t] \in Seq(Cell) /\ Len(jobs[t]) \in Nat \ {0}
      /\ \A i \in 1 .. Len(jobs[t]) - 1 : jobs[t][i] \in Cell \ {c}
      /\ Exists(c) /\ ~is_ready[c] /\ has_trigger[c] = FALSE /\ Sent(c) = {}
      /\ IF t = c THEN promise[c] = "live" ELSE promise[c] = "none"
      /\ waited[c] \in 0 .. Len(input[c]) /\ input[c] \in Seq(Cell)
      /\ \A i \in 1 .. waited[c] : is_ready[input[c][i]]
  BY <1>1, OnTop
<1> PICK d \in Cell : d = Inner(c)
  BY <1>1, <1>2, NoInner
<1>3. /\ Unused(d) /\ d # c /\ d < next /\ call[c] = c /\ calls[c] = 0
      /\ \A e \in Cell : job[e] = "remote" /\ e # c => Inner(e) # d /\ Inner(e) # c
      /\ \A m \in msgs : m.type = "future" => m.cell # d /\ m.cell # c
  <2>1. Kind(c) /\ Called(c)
    BY <1>2 DEF IInv, Sound
  <2>2. Unused(d) /\ d < next /\ call[c] = c /\ calls[c] = 0
    BY <1>1, <2>1 DEF Kind, Called
  <2>3. d # c
    BY <1>2, <2>2 DEF Unused
  <2>4. \A e \in Cell : job[e] = "remote" /\ e # c => Inner(e) # d /\ Inner(e) # c
    BY <1>2, NoInner, Threads DEF Inner
  <2>5. \A m \in msgs : m.type = "future" => m.cell # d /\ m.cell # c
    BY <1>1, <1>2 DEF IInv, Future
  <2>6. QED BY <2>2, <2>3, <2>4, <2>5
<1>4. /\ home' = [home EXCEPT ![d] = home[c]]
      /\ at' = [at EXCEPT ![d] = at[c], ![c] = home[c]]
      /\ call' = [call EXCEPT ![d] = c]
      /\ input' = [input EXCEPT ![c] = Append(@, d)]
      /\ job' = [job EXCEPT ![d] = "call", ![c] = "value"]
      /\ promise' = [promise EXCEPT ![d] = "live"]
      /\ msgs' = msgs \cup {continued(d)}
  BY DEF RunRemote
<1>5. UNCHANGED <<next, waited, is_ready, has_trigger, value, copy, pc, jobs, waits, calls,
                  ended>>
  BY DEF RunRemote, threadVars
<1>6. home[c] \in Proc /\ home[c] # NoProc /\ continued(d) \in Msg
  BY <1>2, AsyncAssumption DEF Exists, IInv, Types, CellTypes, Msg, continued
<1>7. /\ Append(input[c], d) \in Seq(Cell) /\ Len(Append(input[c], d)) = Len(input[c]) + 1
      /\ DOMAIN Append(input[c], d) = 1 .. Len(input[c]) + 1
      /\ Append(input[c], d)[Len(input[c]) + 1] = d
      /\ \A i \in 1 .. Len(input[c]) : Append(input[c], d)[i] = input[c][i]
      /\ Append(input[c], d) # <<>>
  BY <1>2
<1>8. /\ home'[d] = home[c] /\ at'[c] = home[c] /\ call'[d] = c
      /\ input'[c] = Append(input[c], d) /\ input'[d] = input[d]
      /\ job'[d] = "call" /\ job'[c] = "value" /\ promise'[d] = "live"
      /\ home'[c] = home[c] /\ call'[c] = call[c] /\ promise'[c] = promise[c]
      /\ \A e \in Cell \ {c, d} :
           /\ home'[e] = home[e] /\ at'[e] = at[e] /\ call'[e] = call[e]
           /\ input'[e] = input[e] /\ job'[e] = job[e] /\ promise'[e] = promise[e]
  BY <1>3, <1>4 DEF IInv, Types, CellTypes, ValueTypes
<1>9. CellTypes'
  <2>1. \A e \in Cell : waited'[e] \in 0 .. Len(input'[e])
    <3> TAKE e \in Cell
    <3>1. CASE e = c
      BY <1>2, <1>5, <1>7, <1>8, <3>1
    <3>2. CASE e # c
      BY <1>5, <1>8, <3>2 DEF IInv, Types, CellTypes
    <3>3. QED BY <3>1, <3>2
  <2>2. QED BY <1>4, <1>5, <1>6, <1>7, <2>1 DEF IInv, Types, CellTypes
<1>10. Types'
  BY <1>4, <1>5, <1>6, <1>9 DEF IInv, Types, ValueTypes, ThreadTypes
<1>11. Grows
  BY <1>1, <1>3, <1>5, <1>8 DEF Grows, Unused
<1>12. /\ \A e \in Cell : RunBy(e)' = RunBy(e) /\ Pointers(e)' = Pointers(e)
       /\ Sent(d)' = Sent(d) \cup {continued(d)}
       /\ \A e \in Cell : e # d => Sent(e)' = Sent(e)
  BY <1>4, <1>5, Tasks DEF RunBy, Sent, Pointers
<1>13. Others({c, d})
  BY <1>3, <1>5, <1>8, <1>12 DEF Others, Same
<1>14. Passing({c, d})
  BY <1>3, <1>4, Tasks DEF Passing
<1>15. Exists(c)' /\ Exists(d)' /\ c < next' /\ d < next' /\ next' \in Nat
  BY <1>2, <1>3, <1>5, <1>6, <1>8, Below DEF Exists
<1>16. Sound(c)'
  <2>1. Own(c)' \/ Taken(c)'
    BY <1>2, <1>3, <1>5, <1>8, <1>12, <1>15 DEF Own, Taken, Has
  <2>2. Copied(c)'
    BY <1>1, <1>5, <1>8, <1>12 DEF Copied, IInv, Sound
  <2>3. Awaited(c)'
    BY <1>2, <1>5, <1>7, <1>8 DEF Awaited
  <2>4. Kind(c)'
    <3>1. \A i \in 1 .. Len(input[c]) : input[c][i] \in Cell /\ Exists(input[c][i])
      BY <1>2 DEF IInv, Sound, Kind
    <3>2. \A i \in 1 .. Len(input[c]) : home'[input[c][i]] # NoProc
      BY <3>1, <1>11 DEF Grows, Exists
    <3>3. \A i \in DOMAIN input'[c] : Exists(input[c][i])'
      BY <1>2, <1>7, <1>8, <1>15, <3>2 DEF Exists
    <3>4. Last(input'[c]) = d
      BY <1>7, <1>8 DEF Last
    <3>5. QED BY <1>3, <1>7, <1>8, <1>15, <3>3, <3>4 DEF Kind, Last
  <2>5. Called(c)'
    BY <1>2, <1>5, <1>8, <1>12 DEF Called, UnderWay
  <2>6. calls'[c] \in {0, 1}
    BY <1>3, <1>5
  <2>7. ~(c >= next')
    BY <1>15, Threads
  <2>8. QED BY <1>15, <2>1, <2>2, <2>3, <2>4, <2>5, <2>6, <2>7 DEF Sound, Staged
<1>17. Sound(d)'
  <2>1. /\ ~is_ready[d] /\ input[d] = <<>> /\ waited[d] = 0 /\ job[d] = "none"
        /\ has_trigger[d] = FALSE /\ RunBy(d) = {} /\ Sent(d) = {}
    BY <1>3 DEF Unused, Has
  <2>2. Asked(d)'
    BY <1>5, <1>8, <1>12, <1>15, <2>1 DEF Asked, Has
  <2>3. Copied(d)' /\ Awaited(d)'
    BY <1>5, <1>8, <1>12, <2>1 DEF Copied, IInv, Sound, Awaited
  <2>4. Kind(d)'
    BY <1>8, <1>15, <2>1 DEF Kind
  <2>5. Called(d)'
    BY <1>3, <1>5, <1>8, <1>12, <2>1, Tasks DEF Called, UnderWay
  <2>6. calls'[d] \in {0, 1}
    BY <1>5 DEF IInv, Sound
  <2>7. ~(d >= next')
    BY <1>15, Threads
  <2>8. QED BY <1>15, <2>2, <2>3, <2>4, <2>5, <2>6, <2>7 DEF Sound, Staged
<1>18. Changed({c, d})
  BY <1>8, <1>16, <1>17 DEF Changed
<1>19. Counts({c, d})
  BY <1>5, <1>11, <1>13, CountsKept
<1>20. Running({c, d}, {t})
  <2>1. Stacked(t)'
    BY <1>5 DEF Stacked, IInv
  <2>2. RunBy(d) = {}
    BY <1>3 DEF Unused, Has
  <2>3. ASSUME NEW i \in 1 .. Len(jobs[t]) - 1
        PROVE  Current(jobs[t][i], jobs[t][i + 1])'
    <3>1. Current(jobs[t][i], jobs[t][i + 1])
      BY DEF IInv, Linked
    <3>2. jobs[t][i] \in Cell \ {c}
      BY <1>2
    <3>3. jobs[t][i] # d
      BY <1>2, <2>2 DEF RunBy, In
    <3>4. QED BY <1>5, <1>8, <3>1, <3>2, <3>3 DEF Current
  <2>4. pc[t] = "run"
    BY <1>1 DEF Runs
  <2>5. waited'[c] = 0 \/ is_ready'[input'[c][waited'[c]]]
    BY <1>2, <1>5, <1>7, <1>8
  <2>6. Linked(t)'
    BY <1>2, <1>5, <2>3, <2>4, <2>5 DEF Linked, Current, Last, Waiting
  <2>7. QED BY <1>2, <1>5, <2>1, <2>2, <2>6 DEF Running, RunBy
<1>21. QED BY <1>5, <1>10, <1>11, <1>13, <1>14, <1>18, <1>19, <1>20, Threads, Frame
           DEF IInv, Types

\* A step of a thread that changes no cell.
LEMMA OnlyThread ==
  ASSUME IInv, NEW t \in Thread, ThreadTypes',
         UNCHANGED <<next, home, at, job, call, input, waited, is_ready, value, calls,
                     has_trigger, promise, copy, jobs, msgs, ended>>,
         \A u \in Thread \ {t} : pc'[u] = pc[u] /\ waits'[u] = waits[u],
         Stacked(t)', Linked(t)'
  PROVE  IInv'
<1>1. Types'
  BY DEF IInv, Types, CellTypes, ValueTypes
<1>2. Grows /\ Others({})
  BY DEF Grows, Others, Same, RunBy, Sent
<1>3. Changed({}) /\ Passing({}) /\ Running({}, {t})
  BY DEF Changed, Passing, Running
<1>4. Counts({})
  BY <1>2, CountsKept
<1>5. QED BY <1>1, <1>2, <1>3, <1>4, Threads, Frame DEF IInv, Types

LEMMA WaitStep ==
  ASSUME IInv, NEW t \in Thread, NEW c \in Cell, Wait(t, c) PROVE IInv'
<1>1. /\ UNCHANGED <<next, home, at, job, call, input, waited, is_ready, value, calls,
                     has_trigger, promise, copy, jobs, msgs, ended>>
      /\ t \in Waiter /\ t \notin Cell /\ pc[t] = "idle"
      /\ pc' = [pc EXCEPT ![t] = "wait"] /\ waits' = [waits EXCEPT ![t] = c]
  BY Threads DEF Wait, cellVars
<1>2. /\ pc'[t] = "wait" /\ waits'[t] = c /\ ThreadTypes'
      /\ \A u \in Thread \ {t} : pc'[u] = pc[u] /\ waits'[u] = waits[u]
  BY <1>1 DEF IInv, Types, ThreadTypes
<1>3. jobs[t] = <<>> /\ jobs'[t] = <<>>
  BY <1>1 DEF IInv, Stacked
<1>4. Stacked(t)' /\ Linked(t)'
  BY <1>1, <1>2, <1>3 DEF Stacked, Linked, Waiting
<1>5. QED BY <1>1, <1>2, <1>4, OnlyThread

\* On the way through wait() a thread waits for the same cell.
LEMMA StaysWaiting ==
  ASSUME IInv, NEW t \in Thread, pc[t] \in Waiting, NEW l \in Waiting,
         pc' = [pc EXCEPT ![t] = l],
         UNCHANGED <<next, home, at, job, call, input, waited, is_ready, value, calls,
                     has_trigger, promise, copy, jobs, waits, msgs, ended>>
  PROVE  IInv'
<1>1. /\ pc'[t] = l /\ ThreadTypes' /\ l # "run" /\ l # "idle" /\ l # "done"
      /\ \A u \in Thread \ {t} : pc'[u] = pc[u] /\ waits'[u] = waits[u]
  BY DEF IInv, Types, ThreadTypes, Waiting
<1>2. Stacked(t) /\ Linked(t)
  BY DEF IInv
<1>3. Stacked(t)'
  BY <1>1, <1>2 DEF Stacked, Waiting
<1>4. Linked(t)'
  BY <1>1, <1>2 DEF Linked, Current
<1>5. QED BY <1>1, <1>3, <1>4, OnlyThread

LEMMA TestStep ==
  ASSUME IInv, NEW t \in Thread, Test(t) PROVE IInv'
<1> PICK l \in Waiting : l = IF has_trigger[waits[t]] THEN "exchange" ELSE "read"
  BY DEF Waiting
<1>1. pc[t] \in Waiting /\ pc' = [pc EXCEPT ![t] = l]
  BY DEF Test, Waiting
<1>2. UNCHANGED <<next, home, at, job, call, input, waited, is_ready, value, calls,
                  has_trigger, promise, copy, jobs, waits, msgs, ended>>
  BY DEF Test, cellVars
<1>3. QED BY <1>1, <1>2, StaysWaiting

LEMMA ReadStep ==
  ASSUME IInv, NEW t \in Thread, Read(t) PROVE IInv'
<1>1. /\ UNCHANGED <<next, home, at, job, call, input, waited, is_ready, value, calls,
                     has_trigger, promise, copy, jobs, msgs, ended>>
      /\ pc[t] = "read" /\ is_ready[waits[t]]
      /\ pc' = [pc EXCEPT ![t] = IF jobs[t] = <<>> THEN "idle" ELSE "run"]
      /\ waits' = [waits EXCEPT ![t] = None]
  BY DEF Read, cellVars
<1>2. /\ pc'[t] = IF jobs[t] = <<>> THEN "idle" ELSE "run"
      /\ ThreadTypes'
      /\ \A u \in Thread \ {t} : pc'[u] = pc[u] /\ waits'[u] = waits[u]
  BY <1>1 DEF IInv, Types, ThreadTypes
<1>3. Stacked(t) /\ Linked(t)
  BY DEF IInv
<1>4. Stacked(t)'
  BY <1>1, <1>2, <1>3 DEF Stacked, Waiting
<1>5. Linked(t)'
  <2>1. jobs[t] # <<>> => Current(Last(jobs[t]), waits[t])
    BY <1>1, <1>3 DEF Linked, Waiting
  <2>2. QED BY <1>1, <1>2, <1>3, <2>1 DEF Linked, Current, Waiting
<1>6. QED BY <1>1, <1>2, <1>4, <1>5, OnlyThread

LEMMA ExchangeStep ==
  ASSUME IInv, NEW t \in Thread, Exchange(t) PROVE IInv'
<1>1. pc[t] = "exchange" /\ Stacked(t) /\ Linked(t) /\ waits[t] \in Cell
  BY DEF Exchange, IInv, Stacked, Waiting
<1> PICK c \in Cell : c = waits[t]
  BY <1>1
<1>2. CASE ~has_trigger[c]
  <2>1. has_trigger' = has_trigger
    BY <1>2 DEF Exchange, IInv, Types, ValueTypes
  <2>2. pc' = [pc EXCEPT ![t] = "read"] /\ UNCHANGED <<jobs, waits>>
    BY <1>2 DEF Exchange, Trigger
  <2>3. UNCHANGED <<next, home, at, job, call, input, waited, is_ready, value, calls,
                    promise, copy, msgs, ended>>
    BY DEF Exchange, cellVars
  <2>4. QED BY <1>1, <2>1, <2>2, <2>3, StaysWaiting DEF Waiting
<1>3. CASE has_trigger[c]
  <2>1. /\ Exists(c) /\ ~is_ready[c] /\ waited[c] = 0
        /\ RunBy(c) = {} /\ Sent(c) = {} /\ promise[c] = "none"
    BY <1>3, Stages DEF Deferred, Has
  <2>2. UNCHANGED <<next, home, at, job, call, input, waited, is_ready, value, calls,
                    promise, copy, msgs, ended>>
    BY DEF Exchange, cellVars
  <2>3. /\ has_trigger' = [has_trigger EXCEPT ![c] = FALSE]
        /\ jobs' = [jobs EXCEPT ![t] = Append(@, c)]
        /\ waits' = [waits EXCEPT ![t] = None] /\ pc' = [pc EXCEPT ![t] = "run"]
    BY <1>3 DEF Exchange, Trigger
  <2>4. jobs[t] \in Seq(Cell) /\ Append(jobs[t], c) \in Seq(Cell)
    BY DEF IInv, Types, ThreadTypes
  <2>5. /\ has_trigger'[c] = FALSE
        /\ \A d \in Cell : d # c => has_trigger'[d] = has_trigger[d]
        /\ ValueTypes'
    BY <2>2, <2>3 DEF IInv, Types, ValueTypes
  <2>6. /\ jobs'[t] = Append(jobs[t], c) /\ pc'[t] = "run"
        /\ \A u \in Thread \ {t} :
             pc'[u] = pc[u] /\ jobs'[u] = jobs[u] /\ waits'[u] = waits[u]
        /\ ThreadTypes'
    BY <2>3, <2>4 DEF IInv, Types, ThreadTypes
  <2>7. Types'
    BY <2>2, <2>5, <2>6 DEF IInv, Types, CellTypes
  <2>8. Grows
    BY <2>2 DEF Grows
  <2>9. /\ RunBy(c)' = {t}
        /\ \A d \in Cell : d # c => RunBy(d)' = RunBy(d)
    <3>1. \A d \in Cell : In(d, jobs'[t]) <=> In(d, jobs[t]) \/ d = c
      BY <2>4, <2>6, InAppend
    <3>2. \A d \in Cell : \A u \in Thread :
            In(d, jobs'[u]) <=> In(d, jobs[u]) \/ (d = c /\ u = t)
      BY <2>6, <3>1
    <3>3. \A u \in Thread : ~In(c, jobs[u])
      BY <2>1 DEF RunBy
    <3>4. QED BY <3>2, <3>3 DEF RunBy
  <2>10. \A d \in Cell : Sent(d)' = Sent(d) /\ Pointers(d)' = Pointers(d)
    BY <2>2 DEF Sent, Pointers
  <2>11. t # c
    <3> SUFFICES ASSUME t = c PROVE FALSE
      OBVIOUS
    <3>1. jobs[t] # <<>> /\ jobs[t][1] = t
      BY <1>1 DEF Stacked
    <3>2. 1 \in DOMAIN jobs[t]
      BY <2>4, <3>1
    <3>3. In(c, jobs[t])
      BY <3>1, <3>2 DEF In
    <3>4. QED BY <2>1, <3>3 DEF RunBy
  <2>12. Others({c})
    BY <2>1, <2>2, <2>5, <2>9, <2>10, NoInner DEF Others, Same
  <2>13. Passing({c})
    BY <2>1, <2>2, NoFuture
  <2>14. Exists(c) /\ next' = next /\ job' = job /\ input' = input /\ calls' = calls
    BY <2>1, <2>2
  <2>15. Changed({c})
    <3>1. Taken(c)'
      BY <2>1, <2>2, <2>5, <2>9, <2>10, <2>11 DEF Taken, Has, Exists
    <3>2. Copied(c)'
      BY <2>1, <2>2, <2>9, <2>10, <2>11 DEF Copied, IInv, Sound
    <3>3. Awaited(c)' /\ Kind(c)'
      BY <2>2, <2>8, <2>12, <2>14, SameInput, SameKindOf, Below, Threads
    <3>4. Called(c)'
      <4>1. Called(c)
        BY <2>1 DEF IInv, Sound
      <4>2. QED BY <1>3, <2>2, <2>10, <4>1 DEF Called, UnderWay
    <3>5. Exists(c)'
      BY <2>1, <2>2 DEF Exists
    <3>6. ~(c >= next')
      BY <2>14, Below, Threads
    <3>7. QED BY <2>14, <3>1, <3>2, <3>3, <3>4, <3>5, <3>6
              DEF Changed, Sound, Staged, IInv
  <2>16. Counts({c})
    BY <2>2, <2>8, <2>12, CountsKept
  <2>17. Running({c}, {t})
    <3>1. /\ Len(jobs'[t]) = Len(jobs[t]) + 1 /\ Len(jobs[t]) \in Nat
          /\ DOMAIN jobs'[t] = 1 .. Len(jobs[t]) + 1 /\ DOMAIN jobs[t] = 1 .. Len(jobs[t])
          /\ \A i \in 1 .. Len(jobs[t]) : jobs'[t][i] = jobs[t][i]
          /\ jobs'[t][Len(jobs[t]) + 1] = c /\ jobs'[t] # <<>>
      BY <2>4, <2>6, AppendProperties
    <3>2. \A i \in 1 .. Len(jobs[t]) : jobs[t][i] \in Cell \ {c}
      BY <2>1, <2>4 DEF RunBy, In
    <3>3. Stacked(t)'
      <4>1. \A i, j \in DOMAIN jobs'[t] : jobs'[t][i] = jobs'[t][j] => i = j
        <5>1. \A i, j \in 1 .. Len(jobs[t]) : jobs[t][i] = jobs[t][j] => i = j
          BY <1>1, <3>1 DEF Stacked
        <5>2. \A i \in 1 .. Len(jobs[t]) : jobs'[t][i] = jobs[t][i] /\ jobs'[t][i] # c
          BY <3>1, <3>2
        <5>3. \A i \in 1 .. Len(jobs[t]) + 1 :
                i \in 1 .. Len(jobs[t]) \/ i = Len(jobs[t]) + 1
          BY <3>1
        <5>4. QED BY <3>1, <5>1, <5>2, <5>3
      <4>2. t \in Cell => jobs'[t][1] = t
        BY <1>1, <2>4, <3>1 DEF Stacked
      <4>3. QED BY <2>6, <3>1, <4>1, <4>2 DEF Stacked, Waiting
    <3>4. ASSUME NEW i \in 1 .. Len(jobs[t])
          PROVE  Current(jobs[t][i], jobs[t][i + 1])'
      <4>1. CASE i = Len(jobs[t])
        <5>1. Current(Last(jobs[t]), waits[t])
          BY <1>1, <2>4, <4>1 DEF Linked, Waiting
        <5>2. QED BY <2>2, <3>1, <4>1, <5>1 DEF Current, Last
      <4>2. CASE i \in 1 .. Len(jobs[t]) - 1
        <5>1. Current(jobs[t][i], jobs[t][i + 1])
          BY <1>1, <4>2 DEF Linked
        <5>2. jobs'[t][i] = jobs[t][i] /\ jobs'[t][i + 1] = jobs[t][i + 1]
          BY <3>1, <4>2
        <5>3. QED BY <2>2, <5>1, <5>2 DEF Current
      <4>3. QED BY <3>1, <4>1, <4>2
    <3>5. Last(jobs'[t]) = c
      BY <3>1 DEF Last
    <3>6. Linked(t)'
      BY <2>1, <2>2, <2>6, <3>1, <3>4, <3>5 DEF Linked, Last, Current, Waiting
    <3>7. QED BY <2>1, <2>6, <3>3, <3>6 DEF Running, RunBy
  <2>18. QED BY <2>2, <2>7, <2>8, <2>12, <2>13, <2>15, <2>16, <2>17, Threads, Frame
             DEF IInv, Types
<1>4. QED BY <1>2, <1>3

-----------------------------------------------------------------------------
(* The end of a job *)

\* Only one cell has the job to call a function.
LEMMA OneCaller ==
  ASSUME IInv, NEW c \in Cell, NEW d \in Cell, Exists(c), Exists(d),
         job[c] = "call", job[d] = "call", call[c] = call[d]
  PROVE  c = d
<1>1. /\ call[c] # c => c = Inner(call[c]) /\ job[call[c]] = "value"
      /\ call[d] # d => d = Inner(call[d]) /\ job[call[d]] = "value"
  BY DEF IInv, Sound, Kind
<1>2. QED BY <1>1

\* The result is that of the function, which has now been called once.
LEMMA Result ==
  ASSUME IInv, NEW c \in Cell, Exists(c), RunBy(c) # {},
         job[c] \in {"call", "value"}, InputsReady(c),
         calls' = IF job[c] = "call" THEN [calls EXCEPT ![call[c]] = @ + 1] ELSE calls
  PROVE  /\ (IF job[c] = "call" THEN call[c] ELSE value[Last(input[c])]) = call[c]
         /\ call[c] \in Cell /\ calls' \in [Cell -> Nat] /\ calls'[call[c]] = 1
         /\ \A d \in Cell : calls'[d] \in {0, 1} /\ (calls[d] = 1 => calls'[d] = 1)
         /\ \A d \in Cell : calls'[d] # calls[d] => d = call[c] /\ job[c] = "call"
<1>1. Kind(c) /\ Called(c) /\ call[c] \in Cell
  BY DEF IInv, Sound, Kind
<1>2. calls \in [Cell -> Nat] /\ \A d \in Cell : calls[d] \in {0, 1}
  BY DEF IInv, Sound, Types, ValueTypes
<1>3. CASE job[c] = "call"
  <2>1. calls[call[c]] = 0
    BY <1>1, <1>3 DEF Called, UnderWay
  <2>2. calls' = [calls EXCEPT ![call[c]] = 1]
    BY <1>2, <1>3, <2>1
  <2>3. QED BY <1>1, <1>2, <1>3, <2>1, <2>2
<1>4. CASE job[c] = "value"
  <2>1. input[c] # <<>> /\ input[c] \in Seq(Cell) /\ call[c] = call[Last(input[c])]
    BY <1>1, <1>4 DEF Kind, IInv, Types, CellTypes
  <2>2. Len(input[c]) \in DOMAIN input[c]
    BY <2>1
  <2>3. Last(input[c]) \in Cell /\ is_ready[Last(input[c])]
    BY <2>1, <2>2 DEF Last, InputsReady
  <2>4. Done(Last(input[c])) /\ Exists(Last(input[c]))
    BY <2>3, Stages DEF Done
  <2>5. value[Last(input[c])] = call[c]
    BY <2>1, <2>4 DEF Done
  <2>6. calls[call[c]] = 1
    BY <2>1, <2>3, <2>4 DEF IInv, Sound, Called
  <2>7. QED BY <1>1, <1>2, <1>4, <2>5, <2>6
<1>5. QED BY <1>3, <1>4

LEMMA FinishStep ==
  ASSUME IInv, NEW t \in Thread, NEW c \in Cell, Finish(t, c) PROVE IInv'
<1>1. /\ Runs(t, c) /\ ~(waited[c] < Len(input[c])) /\ job[c] \in {"call", "value"}
      /\ pc[t] = "run"
  BY DEF Finish, HasInput, Runs
<1>2. /\ c = Last(jobs[t]) /\ In(c, jobs[t]) /\ RunBy(c) = {t}
      /\ jobs[t] \in Seq(Cell) /\ Len(jobs[t]) \in Nat \ {0}
      /\ \A i \in 1 .. Len(jobs[t]) - 1 : jobs[t][i] \in Cell \ {c}
      /\ Exists(c) /\ ~is_ready[c] /\ has_trigger[c] = FALSE /\ Sent(c) = {}
      /\ IF t = c THEN promise[c] = "live" ELSE promise[c] = "none"
      /\ waited[c] \in 0 .. Len(input[c]) /\ input[c] \in Seq(Cell)
      /\ \A i \in 1 .. waited[c] : is_ready[input[c][i]]
  BY <1>1, OnTop
<1>3. InputsReady(c)
  BY <1>1, <1>2 DEF InputsReady
<1> PICK v \in Cell : v = call[c]
  BY <1>2 DEF IInv, Sound, Kind
<1>4. /\ UNCHANGED <<next, home, at, job, call, input, waited, has_trigger, ended>>
      /\ calls' = IF job[c] = "call" THEN [calls EXCEPT ![call[c]] = @ + 1] ELSE calls
      /\ copy' = [copy EXCEPT ![c] = IF @ = "live" THEN "deleted" ELSE @]
      /\ jobs' = [jobs EXCEPT ![t] = SubSeq(@, 1, Len(@) - 1)]
  BY DEF Finish, cellVars
<1>5. /\ (IF job[c] = "call" THEN call[c] ELSE value[Last(input[c])]) = v
      /\ calls' \in [Cell -> Nat] /\ calls'[v] = 1
      /\ \A d \in Cell : calls'[d] \in {0, 1} /\ (calls[d] = 1 => calls'[d] = 1)
      /\ \A d \in Cell : calls'[d] # calls[d] => d = v /\ job[c] = "call"
  <2>1. RunBy(c) # {}
    BY <1>2
  <2>2. QED BY <1>1, <1>2, <1>3, <1>4, <2>1, Result
\* The three ways in which the result goes.
<1>6. \/ /\ t = c /\ set_value(c, v) /\ promise' = [promise EXCEPT ![c] = "deleted"]
         /\ pc' = [pc EXCEPT ![t] = "done"] /\ UNCHANGED <<waits, msgs>>
      \/ /\ t = c /\ msgs' = msgs \cup {set_result(c, v)}
         /\ pc' = [pc EXCEPT ![t] = "done"]
         /\ UNCHANGED <<is_ready, value, promise, waits>>
      \/ /\ t # c /\ set_value(c, v) /\ waits' = [waits EXCEPT ![t] = c]
         /\ pc' = [pc EXCEPT ![t] = "read"] /\ UNCHANGED <<promise, msgs>>
  BY <1>5 DEF Finish, Last
<1>7. LET r == SubSeq(jobs[t], 1, Len(jobs[t]) - 1)
      IN  /\ r \in Seq(Cell) /\ Len(r) = Len(jobs[t]) - 1
          /\ DOMAIN r = 1 .. Len(jobs[t]) - 1
          /\ \A i \in 1 .. Len(jobs[t]) - 1 : r[i] = jobs[t][i]
          /\ \A d : In(d, r) <=> In(d, jobs[t]) /\ d # c
  <2>1. jobs[t] # <<>> /\ \A i, j \in DOMAIN jobs[t] : jobs[t][i] = jobs[t][j] => i = j
    BY <1>1 DEF Runs, IInv, Stacked
  <2>2. QED BY <1>2, <2>1, Pop
<1> PICK r \in Seq(Cell) : r = SubSeq(jobs[t], 1, Len(jobs[t]) - 1)
  BY <1>7
<1>8. /\ Len(r) = Len(jobs[t]) - 1 /\ DOMAIN r = 1 .. Len(jobs[t]) - 1
      /\ \A i \in 1 .. Len(jobs[t]) - 1 : r[i] = jobs[t][i]
      /\ \A d : In(d, r) <=> In(d, jobs[t]) /\ d # c
      /\ jobs' = [jobs EXCEPT ![t] = r]
  BY <1>4, <1>7
<1>9. /\ jobs'[t] = r /\ jobs' \in [Thread -> Seq(Cell)]
      /\ \A u \in Thread \ {t} : jobs'[u] = jobs[u]
  BY <1>8 DEF IInv, Types, ThreadTypes
<1>10. RunBy(c)' = {} /\ \A d \in Cell : d # c => RunBy(d)' = RunBy(d)
  <2>1. \A d \in Cell : \A u \in Thread : u # t => (In(d, jobs'[u]) <=> In(d, jobs[u]))
    BY <1>9
  <2>2. \A d \in Cell : In(d, jobs'[t]) <=> In(d, jobs[t]) /\ d # c
    BY <1>8, <1>9
  <2>3. \A u \in Thread : In(c, jobs[u]) => u = t
    BY <1>2 DEF RunBy
  <2>4. \A d \in Cell : d # c => \A u \in Thread : In(d, jobs'[u]) <=> In(d, jobs[u])
    BY <2>1, <2>2
  <2>5. \A u \in Thread : ~In(c, jobs'[u])
    BY <2>1, <2>2, <2>3
  <2>6. QED BY <2>4, <2>5 DEF RunBy
<1>11. /\ copy' \in [Cell -> {"none", "live", "deleted"}] /\ copy'[c] # "live"
       /\ \A d \in Cell : d # c => copy'[d] = copy[d]
  BY <1>4 DEF IInv, Types, ValueTypes
<1>12. /\ \A d \in Cell : d # c => /\ is_ready'[d] = is_ready[d] /\ value'[d] = value[d]
                                   /\ promise'[d] = promise[d]
       /\ \A u \in Thread \ {t} : pc'[u] = pc[u] /\ waits'[u] = waits[u]
       /\ is_ready' \in [Cell -> BOOLEAN] /\ value' \in [Cell -> Cell \cup {None}]
       /\ promise' \in [Cell -> {"none", "live", "held", "replaced", "deleted"}]
       /\ pc' \in [Thread -> {"idle", "run", "wait", "exchange", "read", "done"}]
       /\ waits' \in [Thread -> Cell \cup {None}]
  <2>1. ValueTypes /\ ThreadTypes
    BY DEF IInv, Types
  <2>2. CASE /\ set_value(c, v) /\ promise' = [promise EXCEPT ![c] = "deleted"]
             /\ pc' = [pc EXCEPT ![t] = "done"] /\ UNCHANGED waits
    BY <2>1, <2>2 DEF set_value, ValueTypes, ThreadTypes
  <2>3. CASE pc' = [pc EXCEPT ![t] = "done"] /\ UNCHANGED <<is_ready, value, promise, waits>>
    BY <2>1, <2>3 DEF ValueTypes, ThreadTypes
  <2>4. CASE /\ set_value(c, v) /\ waits' = [waits EXCEPT ![t] = c]
             /\ pc' = [pc EXCEPT ![t] = "read"] /\ UNCHANGED promise
    BY <2>1, <2>4 DEF set_value, ValueTypes, ThreadTypes
  <2>5. QED BY <1>6, <2>2, <2>3, <2>4
<1>13. Types'
  <2>1. set_result(c, v) \in Msg
    BY DEF Msg, set_result
  <2>2. msgs' \subseteq Msg
    BY <1>6, <2>1 DEF IInv, Types
  <2>3. ValueTypes' /\ ThreadTypes'
    BY <1>4, <1>5, <1>9, <1>11, <1>12 DEF IInv, Types, ValueTypes, ThreadTypes
  <2>4. QED BY <1>4, <2>2, <2>3 DEF IInv, Types, CellTypes
<1>14. /\ \A d \in Cell : d # c => Sent(d)' = Sent(d)
       /\ \A m : m.type = "future" => (m \in msgs <=> m \in msgs')
  BY <1>6, Tasks DEF Sent
<1>15. Grows
  BY <1>2, <1>4, <1>5, <1>12 DEF Grows
<1>16. Others({c})
  BY <1>2, <1>4, <1>10, <1>11, <1>12, <1>14, NoInner DEF Others, Same
<1>17. Passing({c}) /\ Pointers(c) = {} /\ Pointers(c)' = {}
  BY <1>2, <1>14, NoFuture
<1>18. /\ Answered(c)' \/ Done(c)'
       /\ Sent(c)' \in {{}, {set_result(c, v)}} /\ promise'[c] # "held"
  <2>1. InputsReady(c)' /\ call'[c] = v /\ Exists(c)' /\ has_trigger'[c] = FALSE
    BY <1>2, <1>3, <1>4, <1>15, SameInput DEF Exists
  <2>2. CASE msgs' = msgs \cup {set_result(c, v)} /\ t = c /\ UNCHANGED <<is_ready, promise>>
    <3>1. Sent(c)' = {set_result(c, v)}
      BY <1>2, <2>2, Tasks DEF Sent
    <3>2. is_ready'[c] = is_ready[c] /\ promise'[c] = "live"
      BY <1>2, <2>2
    <3>3. QED BY <1>2, <1>4, <1>10, <2>1, <3>1, <3>2 DEF Answered, Has
  <2>3. CASE /\ msgs' = msgs /\ set_value(c, v)
             /\ (promise' = promise /\ t # c) \/ promise' = [promise EXCEPT ![c] = "deleted"]
    <3>1. Sent(c)' = {}
      BY <1>2, <2>3 DEF Sent
    <3>2. is_ready'[c] /\ value'[c] = v
      BY <2>3 DEF set_value, IInv, Types, ValueTypes
    <3>3. promise'[c] \in {"none", "deleted"}
      BY <1>2, <2>3 DEF IInv, Types, ValueTypes
    <3>4. QED BY <1>10, <2>1, <3>1, <3>2, <3>3 DEF Done, Has
  <2>4. QED BY <1>6, <2>2, <2>3
<1>19. Changed({c})
  <2>1. next' = next /\ job' = job /\ input' = input /\ waited' = waited
    BY <1>4
  <2>2. Copied(c)'
    BY <1>10, <1>11, <1>17, <1>18, Tasks DEF Copied
  <2>3. Awaited(c)' /\ Kind(c)'
    <3>1. Awaited(c)'
      BY <1>15, <2>1, SameInput
    <3>2. Exists(c) /\ next' >= next /\ next' \in Nat
      BY <1>2, <2>1, Below, Threads
    <3>3. Kind(c)'
      BY <1>15, <1>16, <2>1, <3>2, SameKindOf
    <3>4. QED BY <3>1, <3>3
  <2>4. Called(c)'
    <3>1. call'[c] = v /\ has_trigger'[c] = FALSE /\ job'[c] # "remote"
      BY <1>1, <1>2, <1>4
    <3>2. QED BY <1>5, <1>10, <1>18, <3>1, Tasks DEF Called, UnderWay
  <2>5. Exists(c)'
    BY <1>2, <1>4 DEF Exists
  <2>6. ~(c >= next')
    BY <1>2, <2>1, Below, Threads
  <2>7. QED BY <1>5, <1>18, <2>1, <2>2, <2>3, <2>4, <2>5, <2>6
            DEF Changed, Sound, Staged
<1>20. Counts({c})
  <2>1. ASSUME NEW d \in Cell \ {c}, Exists(d) PROVE Called(d)'
    <3>1. call[d] \in Cell
      BY <2>1 DEF IInv, Sound, Kind
    <3>2. calls'[d] # calls[d] => job[d] = "value"
      BY <1>2, <1>5 DEF IInv, Sound, Kind
    <3>3. (promise[d] = "held" /\ ~is_ready[d]) => job[d] = "none"
      BY Stages DEF Promised
    <3>4. calls'[call[d]] # calls[call[d]] => job[d] # "call"
      BY <1>2, <1>5, <2>1, <3>1, OneCaller
    <3>5. QED BY <1>15, <1>16, <2>1, <3>2, <3>3, <3>4, SameCalls DEF Others
  <2>2. ASSUME NEW d \in Cell \ {c}, ~Exists(d) PROVE calls'[d] = 0
    <3>1. Exists(v)
      BY <1>2 DEF IInv, Sound, Kind
    <3>2. QED BY <1>5, <2>2, <3>1 DEF IInv, Sound
  <2>3. QED BY <1>5, <2>1, <2>2 DEF Counts
<1>21. Running({c}, {t})
  <2>1. Stacked(t)' /\ Linked(t)'
    <3>1. Stacked(t) /\ Linked(t) /\ (t \in Cell => jobs[t][1] = t)
      BY <1>1 DEF IInv, Stacked
    <3>2. \A i, j \in DOMAIN jobs'[t] : jobs'[t][i] = jobs'[t][j] => i = j
      <4>1. \A i \in DOMAIN r : i \in DOMAIN jobs[t] /\ r[i] = jobs[t][i]
        BY <1>2, <1>8
      <4>2. QED BY <1>9, <3>1, <4>1 DEF Stacked
    <3>3. ASSUME NEW i \in 1 .. Len(r) - 1 PROVE Current(r[i], r[i + 1])'
      <4>1. Current(jobs[t][i], jobs[t][i + 1])
        BY <1>2, <1>8, <3>1 DEF Linked
      <4>2. r[i] = jobs[t][i] /\ r[i + 1] = jobs[t][i + 1]
        BY <1>2, <1>8
      <4>3. QED BY <1>4, <4>1, <4>2 DEF Current
    <3>4. CASE t = c /\ pc' = [pc EXCEPT ![t] = "done"]
      <4>1. Len(jobs[t]) = 1
        <5>1. Len(jobs[t]) # 1 => 1 \in 1 .. Len(jobs[t]) - 1
          <6>1. \A k \in Nat \ {0} : k # 1 => 1 \in 1 .. k - 1
            OBVIOUS
          <6>2. QED BY <1>2, <6>1
        <5>2. jobs[t][1] = c
          BY <3>1, <3>4
        <5>3. QED BY <1>2, <5>1, <5>2
      <4>2. jobs'[t] = <<>>
        BY <1>8, <1>9, <4>1
      <4>3. pc'[t] = "done"
        BY <3>4 DEF IInv, Types, ThreadTypes
      <4>4. QED BY <4>2, <4>3 DEF Stacked, Linked, Waiting
    <3>5. CASE /\ t # c /\ pc' = [pc EXCEPT ![t] = "read"]
               /\ waits' = [waits EXCEPT ![t] = c]
      <4>1. pc'[t] = "read" /\ waits'[t] = c
        BY <3>5 DEF IInv, Types, ThreadTypes
      <4>2. t \in Cell => r # <<>> /\ r[1] = t
        <5>1. t \in Cell => Len(jobs[t]) # 1
          BY <1>2, <3>1, <3>5 DEF Last
        <5>2. t \in Cell => 1 \in 1 .. Len(jobs[t]) - 1
          <6>1. \A k \in Nat \ {0} : k # 1 => 1 \in 1 .. k - 1
            OBVIOUS
          <6>2. QED BY <1>2, <5>1, <6>1
        <5>3. t \in Cell => r[1] = t /\ Len(r) # 0
          BY <1>2, <1>8, <3>1, <5>2
        <5>4. QED BY <5>3
      <4>3. Stacked(t)'
        BY <1>9, <3>2, <4>1, <4>2 DEF Stacked, Waiting
      <4>4. r # <<>> => Current(Last(r), c)'
        <5>1. r # <<>> => Len(jobs[t]) - 1 \in 1 .. Len(jobs[t]) - 1
          BY <1>2, <1>8
        <5>2. r # <<>> => Last(r) = jobs[t][Len(jobs[t]) - 1]
          BY <1>8, <5>1 DEF Last
        <5>3. r # <<>> => Current(jobs[t][Len(jobs[t]) - 1], jobs[t][Len(jobs[t]) - 1 + 1])
          BY <3>1, <5>1 DEF Linked
        <5>4. Len(jobs[t]) - 1 + 1 = Len(jobs[t])
          BY <1>2
        <5>5. r # <<>> => Current(Last(r), c)
          BY <1>2, <5>2, <5>3, <5>4 DEF Last
        <5>6. QED BY <1>4, <5>5 DEF Current, Last
      <4>5. Linked(t)'
        BY <1>9, <3>3, <4>1, <4>4 DEF Linked, Current, Last, Waiting
      <4>6. QED BY <4>3, <4>5
    <3>6. QED BY <1>6, <3>4, <3>5
  <2>2. QED BY <1>2, <1>9, <1>12, <2>1 DEF Running, RunBy
<1>22. {c} \in SUBSET Cell /\ {t} \in SUBSET Thread /\ next' >= next
  BY <1>2, <1>4, Below, Threads
<1>23. QED BY <1>13, <1>15, <1>16, <1>17, <1>19, <1>20, <1>21, <1>22, Frame

-----------------------------------------------------------------------------
(* Serialization *)

LEMMA SaveStep ==
  ASSUME IInv, NEW c \in Cell, NEW q \in Proc, Save(c, q) PROVE IInv'
<1> PICK n \in Cell : n = next
  BY DEF Save
<1>1. /\ Unused(n) /\ copy[n] = "none" /\ Pointers(n) = {} /\ calls[n] = 0
      /\ \A m \in msgs : m.type = "future" => m.cell # n
      /\ \A d \in Cell : job[d] = "remote" => Inner(d) # n
      /\ \A d \in Cell : Exists(d) => d # n /\ call[d] # n
      /\ n \in Nat /\ n <= MaxCells
  BY NextCell
<1>2. /\ Exists(c) /\ q # home[c] /\ next' = n + 1
      /\ UNCHANGED <<home, at, job, call, input, waited, is_ready, value, calls, has_trigger,
                     promise, pc, jobs, waits, ended>>
  BY DEF Save, cellVars, threadVars
<1> PICK of : of = IF is_ready[c] THEN value[c] ELSE c
  OBVIOUS
<1> PICK msg : msg = [type |-> "future", cell |-> n, dest |-> q, ready |-> is_ready[c],
                      of |-> of]
  OBVIOUS
<1>3. /\ msgs' = msgs \cup {msg}
      /\ copy' = [copy EXCEPT ![n] = IF is_ready[c] THEN @ ELSE "live"]
  BY DEF Save
<1>4. /\ of \in Cell /\ Exists(of) /\ is_ready[c] \in BOOLEAN
      /\ is_ready[c] => calls[of] = 1
      /\ ~is_ready[c] => of = c
  <2>1. is_ready[c] => of = call[c] /\ calls[call[c]] = 1
    BY <1>2, Stages DEF Done, IInv, Sound, Called
  <2>2. call[c] \in Cell /\ Exists(call[c])
    BY <1>2 DEF IInv, Sound, Kind
  <2>3. QED BY <1>2, <2>1, <2>2 DEF IInv, Types, ValueTypes
<1>5. /\ msg.type = "future" /\ msg.cell = n /\ msg.dest = q
      /\ msg.ready = is_ready[c] /\ msg.of = of /\ msg \in Msg
  BY <1>4 DEF Msg
<1>6. /\ copy'[n] = IF is_ready[c] THEN "none" ELSE "live"
      /\ \A d \in Cell : d # n => copy'[d] = copy[d]
      /\ copy' \in [Cell -> {"none", "live", "deleted"}]
  BY <1>1, <1>3 DEF IInv, Types, ValueTypes
<1>7. Types'
  <2>1. n + 1 \in 1 .. MaxCells + 1
    BY <1>1, Threads
  <2>2. QED BY <1>2, <1>3, <1>5, <1>6, <2>1
            DEF IInv, Types, CellTypes, ValueTypes, ThreadTypes
<1>8. Grows
  BY <1>2 DEF Grows
<1>9. /\ \A d \in Cell : Sent(d)' = Sent(d) /\ RunBy(d)' = RunBy(d)
      /\ Pointers(n)' = IF is_ready[c] THEN {} ELSE {msg}
  BY <1>1, <1>2, <1>3, <1>5 DEF Sent, RunBy, Pointers
<1>10. Others({n})
  BY <1>1, <1>2, <1>6, <1>9 DEF Others, Same
<1>11. Changed({n})
  <2>1. Unused(n)'
    BY <1>1, <1>2, <1>9 DEF Unused, Has, Exists
  <2>2. Copied(n)'
    BY <1>1, <1>2, <1>6, <1>9 DEF Copied, Unused
  <2>3. Awaited(n)' /\ ~Exists(n)' /\ job'[n] = "none"
    BY <1>1, <1>2 DEF Awaited, Unused, Exists
  <2>4. calls'[n] = 0 /\ ~(n >= next')
    BY <1>1, <1>2
  <2>5. QED BY <2>1, <2>2, <2>3, <2>4 DEF Changed, Sound, Staged
<1>12. Counts({n})
  BY <1>2, <1>8, <1>10, CountsKept
<1>13. Passing({n})
  <2>1. Future(msg)'
    <3>1. ~Exists(n)' /\ Exists(of)' /\ home'[of] = home[of] /\ n < next'
      BY <1>1, <1>2, <1>4 DEF Unused, Exists
    <3>2. \A d \in Cell : job'[d] = "remote" => n # Inner(d)
      BY <1>1, <1>2
    <3>3. \A m \in msgs' : m.type = "future" /\ m.cell = n => m = msg
      BY <1>1, <1>3
    <3>4. QED BY <1>2, <1>4, <1>5, <3>1, <3>2, <3>3 DEF Future
  <2>2. QED BY <1>1, <1>3, <1>5, <2>1 DEF Passing
<1>14. Running({n}, {})
  BY <1>1, <1>2 DEF Running, Unused, Has, RunBy
<1>15. next' >= next
  BY <1>1, <1>2
<1>16. QED BY <1>7, <1>8, <1>10, <1>11, <1>12, <1>13, <1>14, <1>15, Frame

\* A serialized future that arrives: its cell is made now.
LEMMA Arrives ==
  ASSUME IInv, NEW msg \in msgs, msg.type = "future", NEW c \in Cell, c = msg.cell
  PROVE  /\ Unused(c) /\ c < next /\ next \in Nat /\ calls[c] = 0
         /\ msg.dest \in Proc /\ msg.ready \in BOOLEAN
         /\ msg.of \in Cell /\ Exists(msg.of) /\ msg.of # c
         /\ msg.ready => calls[msg.of] = 1
         /\ ~msg.ready => home[msg.of] # msg.dest
         /\ \A d \in Cell : job[d] = "remote" => Inner(d) # c
         /\ \A d \in Cell : Exists(d) => call[d] # c
         /\ \A m \in msgs : m.type = "future" /\ m.cell = c => m = msg
<1>1. Future(msg)
  BY DEF IInv
<1>2. /\ msg.dest \in Proc /\ msg.ready \in BOOLEAN /\ msg.of \in Cell
  BY Messages DEF IInv
<1>3. ~Exists(c)
  BY <1>1 DEF Future
<1>4. Unused(c) /\ calls[c] = 0
  BY <1>3, Stages DEF IInv, Sound
<1>5. \A d \in Cell : Exists(d) => call[d] # c
  BY <1>3 DEF IInv, Sound, Kind
<1>6. next \in Nat
  BY Threads DEF IInv, Types
<1>7. QED BY <1>1, <1>2, <1>3, <1>4, <1>5, <1>6 DEF Future

LEMMA LoadReadyStep ==
  ASSUME IInv, NEW msg \in msgs, LoadReady(msg) PROVE IInv'
<1> PICK c \in Cell : c = msg.cell
  BY Messages DEF IInv
<1> PICK of : of = msg.of
  OBVIOUS
<1> PICK p : p = msg.dest
  OBVIOUS
<1>1. /\ Unused(c) /\ c < next /\ next \in Nat /\ calls[c] = 0
      /\ p \in Proc /\ of \in Cell /\ Exists(of) /\ of # c
      /\ calls[of] = 1 /\ msg.ready /\ msg.type = "future"
      /\ \A d \in Cell : job[d] = "remote" => Inner(d) # c
      /\ \A d \in Cell : Exists(d) => call[d] # c
      /\ \A m \in msgs : m.type = "future" /\ m.cell = c => m = msg
  BY Arrives DEF LoadReady
<1>2. MadeCell(c, p, p, "none", of, <<>>) /\ CellTypes'
  <2>1. Make(c, p, p, "none", of, <<>>) /\ waited' = waited
    BY DEF LoadReady
  <2>2. <<>> \in Seq(Cell)
    OBVIOUS
  <2>3. QED BY <1>1, <2>1, <2>2, Made
<1>3. /\ is_ready'[c] /\ value'[c] = of
      /\ \A d \in Cell : d # c => is_ready'[d] = is_ready[d] /\ value'[d] = value[d]
      /\ ValueTypes' /\ msgs' = msgs \ {msg}
      /\ UNCHANGED <<next, waited, has_trigger, promise, copy, pc, jobs, waits, calls, ended>>
  BY <1>1 DEF LoadReady, set_value, threadVars, IInv, Types, ValueTypes
<1>4. Types'
  BY <1>2, <1>3 DEF IInv, Types, ThreadTypes
<1>5. Grows
  BY <1>1, <1>2, <1>3 DEF Grows, Unused, MadeCell
<1>6. /\ \A d \in Cell : Sent(d)' = Sent(d) /\ RunBy(d)' = RunBy(d)
      /\ Pointers(c)' = {} /\ Pointers(c) = {}
  BY <1>1, <1>3 DEF Sent, RunBy, Pointers
<1>7. Others({c})
  BY <1>1, <1>2, <1>3, <1>6 DEF Others, Same, MadeCell
<1>8. Has(c, FALSE, {}, {}, {"none"})'
  BY <1>1, <1>3, <1>6 DEF Unused, Has
<1>9. Changed({c})
  <2>1. Done(c)'
    BY <1>1, <1>2, <1>3, <1>8 DEF Done, InputsReady, Has, MadeCell
  <2>2. Copied(c)'
    <3>1. Copied(c) /\ job[c] = "none" /\ job'[c] = "none"
      BY <1>1, <1>2 DEF IInv, Sound, Unused, MadeCell
    <3>2. QED BY <1>3, <1>6, <3>1 DEF Copied
  <2>3. Kind(c)'
    BY <1>1, <1>2 DEF Kind, Exists, MadeCell
  <2>4. Called(c)'
    BY <1>1, <1>2, <1>3, <1>8 DEF Called, UnderWay, Has, MadeCell
  <2>5. Awaited(c)' /\ Exists(c)' /\ job'[c] = "none" /\ calls'[c] = 0
    BY <1>1, <1>2, <1>3 DEF Awaited, Unused, MadeCell
  <2>6. ~(c >= next')
    BY <1>1, <1>3, Threads
  <2>7. QED BY <2>1, <2>2, <2>3, <2>4, <2>5, <2>6 DEF Changed, Sound, Staged
<1>10. Counts({c})
  BY <1>3, <1>5, <1>7, CountsKept
<1>11. Passing({c}) /\ Running({c}, {})
  BY <1>1, <1>3 DEF Passing, Running, Unused, Has, RunBy
<1>12. QED BY <1>1, <1>3, <1>4, <1>5, <1>7, <1>9, <1>10, <1>11, Frame

LEMMA LoadPointerStep ==
  ASSUME IInv, NEW msg \in msgs, LoadPointer(msg) PROVE IInv'
<1> PICK c \in Cell : c = msg.cell
  BY Messages DEF IInv
<1> PICK of : of = msg.of
  OBVIOUS
<1> PICK p : p = msg.dest
  OBVIOUS
<1>1. /\ Unused(c) /\ c < next /\ next \in Nat /\ calls[c] = 0
      /\ p \in Proc /\ of \in Cell /\ Exists(of) /\ of # c
      /\ home[of] # p /\ ~msg.ready /\ msg.type = "future"
      /\ \A d \in Cell : job[d] = "remote" => Inner(d) # c
      /\ \A d \in Cell : Exists(d) => call[d] # c
      /\ \A m \in msgs : m.type = "future" /\ m.cell = c => m = msg
  BY Arrives DEF LoadPointer
<1> PICK q : q = home[of]
  OBVIOUS
<1> PICK f : f = call[of]
  OBVIOUS
<1>2. q \in Proc /\ f \in Cell /\ Exists(f) /\ f # c
  BY <1>1 DEF IInv, Sound, Kind, Exists, Types, CellTypes
<1>3. MadeCell(c, p, q, "value", f, <<of>>) /\ CellTypes'
  <2>1. Make(c, p, q, "value", f, <<of>>) /\ waited' = waited
    BY DEF LoadPointer
  <2>2. <<of>> \in Seq(Cell)
    BY <1>1
  <2>3. QED BY <1>1, <1>2, <2>1, <2>2, Made
<1>4. /\ promise'[c] = "live" /\ \A d \in Cell : d # c => promise'[d] = promise[d]
      /\ ValueTypes'
      /\ msgs' = (msgs \ {msg}) \cup {continued(c)}
      /\ UNCHANGED <<next, waited, is_ready, value, has_trigger, copy, pc, jobs, waits, calls,
                     ended>>
  BY <1>1 DEF LoadPointer, threadVars, IInv, Types, ValueTypes
<1>5. Types'
  <2>1. continued(c) \in Msg
    BY DEF Msg, continued
  <2>2. QED BY <1>3, <1>4, <2>1 DEF IInv, Types, ThreadTypes
<1>6. Grows
  BY <1>1, <1>3, <1>4 DEF Grows, Unused, MadeCell
<1>7. /\ Sent(c)' = Sent(c) \cup {continued(c)}
      /\ \A d \in Cell : d # c => Sent(d)' = Sent(d)
      /\ \A d \in Cell : RunBy(d)' = RunBy(d)
      /\ Pointers(c)' = {} /\ Pointers(c) = {msg}
  BY <1>1, <1>4, Tasks DEF Sent, RunBy, Pointers
<1>8. Others({c})
  BY <1>1, <1>3, <1>4, <1>7 DEF Others, Same, MadeCell
<1>9. Has(c, FALSE, {}, {continued(c)}, {"live"})'
  BY <1>1, <1>4, <1>7 DEF Unused, Has
<1>10. Changed({c})
  <2>1. Asked(c)'
    BY <1>1, <1>3, <1>4, <1>9 DEF Asked, Unused, MadeCell
  <2>2. Copied(c)'
    <3>1. Copied(c) /\ job'[c] = "value" /\ at'[c] # home'[c]
      BY <1>1, <1>3 DEF IInv, Sound, MadeCell
    <3>2. QED BY <1>4, <1>7, <3>1 DEF Copied
  <2>3. Kind(c)'
    <3>1. \A i \in DOMAIN <<of>> : <<of>>[i] = of
      OBVIOUS
    <3>2. Last(<<of>>) = of /\ <<of>> # <<>>
      BY DEF Last
    <3>3. home'[of] # NoProc /\ home'[f] # NoProc /\ call'[of] = f
      BY <1>1, <1>2, <1>3 DEF MadeCell, Exists
    <3>4. QED BY <1>2, <1>3, <3>1, <3>2, <3>3 DEF Kind, Exists, MadeCell, Last
  <2>4. Called(c)'
    BY <1>1, <1>3, <1>4, <1>9, Tasks DEF Called, UnderWay, Has, MadeCell, Unused
  <2>5. Awaited(c)' /\ Exists(c)' /\ job'[c] = "value" /\ calls'[c] = 0
    BY <1>1, <1>3, <1>4 DEF Awaited, Unused, MadeCell
  <2>6. ~(c >= next')
    BY <1>1, <1>4, Threads
  <2>7. QED BY <2>1, <2>2, <2>3, <2>4, <2>5, <2>6 DEF Changed, Sound, Staged
<1>11. Counts({c})
  BY <1>4, <1>6, <1>8, CountsKept
<1>12. Passing({c}) /\ Running({c}, {})
  BY <1>1, <1>4, Tasks DEF Passing, Running, Unused, Has, RunBy
<1>13. QED BY <1>1, <1>4, <1>5, <1>6, <1>8, <1>10, <1>11, <1>12, Frame

-----------------------------------------------------------------------------
(* The invariant *)

LEMMA IInvInit == Init => IInv
<1> SUFFICES ASSUME Init PROVE IInv
  OBVIOUS
<1>1. Types
  <2>1. 1 \in 1 .. MaxCells + 1
    BY Threads
  <2>2. <<>> \in Seq(Cell) /\ Len(<<>>) = 0
    OBVIOUS
  <2>3. CellTypes
    BY <2>2 DEF Init, CellTypes
  <2>4. ValueTypes
    BY DEF Init, ValueTypes
  <2>5. ThreadTypes
    BY <2>2 DEF Init, ThreadTypes
  <2>6. QED BY <2>1, <2>3, <2>4, <2>5 DEF Init, Types
<1>2. ASSUME NEW c \in Cell PROVE Sound(c)
  <2>1. ~Exists(c) /\ job[c] = "none" /\ input[c] = <<>> /\ waited[c] = 0 /\ calls[c] = 0
    BY DEF Init, Exists
  <2>2. Sent(c) = {} /\ RunBy(c) = {} /\ Pointers(c) = {}
    BY InEmpty DEF Init, Sent, RunBy, Pointers
  <2>3. Unused(c)
    BY <2>1, <2>2 DEF Init, Unused, Has
  <2>4. Copied(c) /\ Awaited(c) /\ copy[c] = "none"
    BY <2>1, <2>2 DEF Init, Copied, Awaited
  <2>5. QED BY <2>1, <2>3, <2>4 DEF Sound, Staged
<1>3. ASSUME NEW t \in Thread PROVE Stacked(t) /\ Linked(t)
  <2>1. pc[t] = "idle" /\ jobs[t] = <<>>
    BY DEF Init
  <2>2. QED BY <2>1 DEF Stacked, Linked, Waiting
<1>4. QED BY <1>1, <1>2, <1>3 DEF Init, IInv

LEMMA Stutters ==
  ASSUME IInv, UNCHANGED vars PROVE IInv'
<1>1. UNCHANGED <<next, home, at, job, call, input, waited, is_ready, value, calls,
                  has_trigger, promise, copy, pc, jobs, waits, msgs, ended>>
  BY DEF vars, cellVars, threadVars
<1>2. Types'
  BY <1>1 DEF IInv, Types, CellTypes, ValueTypes, ThreadTypes
<1>3. Grows /\ Others({})
  BY <1>1 DEF Grows, Others, Same, RunBy, Sent
<1>4. Changed({}) /\ Passing({}) /\ Running({}, {})
  BY <1>1 DEF Changed, Passing, Running
<1>5. Counts({})
  BY <1>1, <1>3, CountsKept
<1>6. QED BY <1>1, <1>2, <1>3, <1>4, <1>5, Threads, Frame DEF IInv, Types

LEMMA CallsStep == IInv /\ Calls => IInv'
<1> SUFFICES ASSUME IInv, Calls PROVE IInv'
  OBVIOUS
<1>1. CASE \E p \in Proc : AsyncSync(p) \/ GetFuture(p)
  BY <1>1, AsyncSyncStep, GetFutureStep
<1>2. CASE \E p \in Proc, policy \in Policy : AsyncLocal(p, policy)
  BY <1>2, AsyncLocalStep
<1>3. CASE \E p, q \in Proc : AsyncRemote(p, q) \/ AsyncDeferred(p, q)
  BY <1>3, AsyncRemoteStep, AsyncDeferredStep
<1>4. CASE \E c \in Cell, policy \in Policy :
             Then(c, policy) \/ \E q \in Proc : AsyncLater(c, q, policy)
  BY <1>4, ThenStep, AsyncLaterStep
<1>5. CASE \E c, d \in Cell : Unwrap(c, d)
  BY <1>5, UnwrapStep
<1>6. CASE \E c \in Cell : SetValue(c) \/ EndPromise(c) \/ ReplacePromise(c)
  BY <1>6, SetValueStep, EndPromiseStep, ReplacePromiseStep
<1>7. CASE \E c \in Cell, q \in Proc : Save(c, q)
  BY <1>7, SaveStep
<1>8. CASE \E t \in Thread, c \in Cell : Wait(t, c)
  BY <1>8, WaitStep
<1>9. QED BY <1>1, <1>2, <1>3, <1>4, <1>5, <1>6, <1>7, <1>8 DEF Calls

LEMMA IInvStep == IInv /\ [Next]_vars => IInv'
<1> SUFFICES ASSUME IInv, [Next]_vars PROVE IInv'
  OBVIOUS
<1>1. CASE Calls
  BY <1>1, CallsStep
<1>2. CASE \E t \in Thread : Step(t)
  BY <1>2, TestStep, ExchangeStep, ReadStep, RunWaitStep, RunRemoteStep, FinishStep DEF Step
<1>3. CASE \E msg \in msgs : Deliver(msg)
  BY <1>3, RunContinuedStep, RunSetResultStep, LoadReadyStep, LoadPointerStep DEF Deliver
<1>4. CASE UNCHANGED vars
  BY <1>4, Stutters
<1>5. QED BY <1>1, <1>2, <1>3, <1>4 DEF Next

LEMMA Invariance == Spec => []IInv
BY IInvInit, IInvStep, PTL DEF Spec

-----------------------------------------------------------------------------
(* What follows *)

\* No cell, thread, message or promise is ever in a state the program does not
\* know; in particular, a job never waits for more cells than it has.
THEOREM TypeCorrect == Spec => []TypeOK
<1>1. IInv => TypeOK
  <2> SUFFICES ASSUME IInv PROVE TypeOK
    OBVIOUS
  <2>1. CellTypes /\ ValueTypes /\ ThreadTypes
    BY DEF IInv, Types
  <2>2. \A c \in Cell : input[c] \in Seq(Cell) /\ waited[c] \in 0 .. Len(input[c])
    BY <2>1 DEF CellTypes
  <2>3. \A t \in Thread : jobs[t] \in Seq(Cell)
    BY <2>1 DEF ThreadTypes
  <2>4. QED BY <2>1, <2>2, <2>3 DEF TypeOK, IInv, Types, CellTypes, ValueTypes, ThreadTypes
<1>2. QED BY <1>1, Invariance, PTL

\* A future that is not ready has exactly one party that will set it, in a
\* trigger, in a thread, on the network or in the user's hands; one that is
\* ready has none (shared_state::set_value, async, packaged_task).
THEOREM NoFutureOfTwo == Spec => []OneSetter
<1>1. IInv => OneSetter
  <2> SUFFICES ASSUME IInv, NEW c \in Cell, Exists(c)
               PROVE  IF is_ready[c] \/ promise[c] = "replaced" THEN Setters(c) = {}
                      ELSE \E s \in Setters(c) : Setters(c) = {s}
    BY DEF OneSetter
  <2> DEFINE S == (IF has_trigger[c] THEN {<<"trigger", c>>} ELSE {})
                    \cup {<<"thread", t>> : t \in RunBy(c)}
                    \cup {<<"msg", m>> : m \in Sent(c)}
                    \cup (IF promise[c] = "held" /\ ~is_ready[c] THEN {<<"user", c>>} ELSE {})
  <2>1. Setters(c) = S
    BY DEF Setters, RunBy, Sent
  <2>2. Staged(c) /\ ~Unused(c)
    BY DEF IInv, Sound, Unused
  <2>3. CASE Deferred(c)
    <3>1. S = {<<"trigger", c>>} /\ ~is_ready[c] /\ promise[c] # "replaced"
      BY <2>3 DEF Deferred, Has
    <3>2. QED BY <2>1, <3>1
  <2>4. CASE Asked(c)
    <3>1. S = {<<"msg", continued(c)>>} /\ ~is_ready[c] /\ promise[c] # "replaced"
      BY <2>4 DEF Asked, Has
    <3>2. QED BY <2>1, <3>1
  <2>5. CASE Taken(c) \/ Own(c)
    <3>1. PICK t \in Thread : /\ RunBy(c) = {t} /\ Sent(c) = {} /\ has_trigger[c] = FALSE
                              /\ promise[c] \in {"none", "live"} /\ ~is_ready[c]
      BY <2>5, Threads DEF Taken, Own, Has
    <3>2. S = {<<"thread", t>>}
      BY <3>1
    <3>3. QED BY <2>1, <3>1, <3>2
  <2>6. CASE Answered(c)
    <3>1. S = {<<"msg", set_result(c, call[c])>>} /\ ~is_ready[c] /\ promise[c] # "replaced"
      BY <2>6 DEF Answered, Has
    <3>2. QED BY <2>1, <3>1
  <2>7. CASE Done(c) \/ Replaced(c)
    <3>1. S = {} /\ (is_ready[c] \/ promise[c] = "replaced")
      BY <2>7 DEF Done, Replaced, Has
    <3>2. QED BY <2>1, <3>1
  <2>8. CASE Promised(c)
    <3>1. S = {<<"user", c>>} /\ ~is_ready[c] /\ promise[c] # "replaced"
      BY <2>8 DEF Promised, Has
    <3>2. QED BY <2>1, <3>1
  <2>9. QED BY <2>2, <2>3, <2>4, <2>5, <2>6, <2>7, <2>8 DEF Staged
<1>2. QED BY <1>1, Invariance, PTL

\* The value everybody sees is that of the one call, made once, and not before
\* what it continues is ready (then, unwrap, shared_future_get).
THEOREM CalledOnce == Spec => []ValueOfCall
<1>1. IInv => ValueOfCall
  <2> SUFFICES ASSUME IInv PROVE ValueOfCall
    OBVIOUS
  <2>1. ASSUME NEW c \in Cell, is_ready[c] PROVE value[c] = call[c] /\ calls[call[c]] = 1
    BY <2>1, Stages DEF Done, IInv, Sound, Called
  <2>2. \A c \in Cell : calls[c] <= 1
    BY DEF IInv, Sound
  <2>3. ASSUME NEW c \in Cell, NEW i \in DOMAIN input[c],
               is_ready[c] \/ (calls[c] = 1 /\ job[c] = "call")
        PROVE  is_ready[input[c][i]]
    <3>1. CASE is_ready[c]
      BY <3>1, Stages DEF Done, InputsReady
    <3>2. CASE calls[c] = 1 /\ job[c] = "call"
      <4>1. Exists(c) /\ Kind(c) /\ Called(c) /\ Staged(c)
        BY <3>2 DEF IInv, Sound
      <4>2. input[c] # <<>>
        OBVIOUS
      <4>3. call[c] = c
        BY <3>2, <4>1, <4>2 DEF Kind
      <4>4. ~UnderWay(c)
        BY <3>2, <4>1, <4>3 DEF Called
      <4>5. ~Deferred(c) /\ ~Asked(c) /\ ~Taken(c) /\ ~Own(c)
        BY <4>4 DEF UnderWay, Deferred, Asked, Taken, Own, Has
      <4>6. ~Unused(c) /\ ~Promised(c) /\ ~Replaced(c)
        BY <3>2 DEF Unused, Promised, Replaced
      <4>7. QED BY <4>1, <4>5, <4>6 DEF Staged, Answered, Done, InputsReady
    <3>3. QED BY <2>3, <3>1, <3>2
  <2>4. QED BY <2>1, <2>2, <2>3 DEF ValueOfCall
<1>2. QED BY <1>1, Invariance, PTL

\* A promise made with new is deleted when its result has arrived, and not
\* before; a copy of a future lives from save until it has been asked.
THEOREM NoLeakNoDangling == Spec => []HeapExact
<1>1. IInv => HeapExact
  <2> SUFFICES ASSUME IInv, NEW c \in Cell
               PROVE  /\ promise[c] = "live" => ~is_ready[c]
                      /\ promise[c] = "deleted" => is_ready[c]
                      /\ copy[c] = "live" <=>
                           \/ \E m \in msgs : m.cell = c /\ m.type = "future" /\ ~m.ready
                           \/ /\ job[c] = "value" /\ at[c] # home[c]
                              /\ continued(c) \in msgs \/ In(c, jobs[c])
    BY DEF HeapExact
  <2>1. Staged(c) /\ Copied(c)
    BY DEF IInv, Sound
  <2>2. promise[c] = "live" => ~is_ready[c]
    BY Stages DEF Done, Has
  <2>3. promise[c] = "deleted" => is_ready[c]
    <3>1. Unused(c) \/ Deferred(c) \/ Taken(c) => promise[c] = "none"
      BY DEF Unused, Deferred, Taken, Has
    <3>2. Asked(c) \/ Own(c) \/ Answered(c) => promise[c] = "live"
      BY DEF Asked, Own, Answered, Has
    <3>3. Promised(c) \/ Replaced(c) => promise[c] \in {"held", "replaced"}
      BY DEF Promised, Replaced, Has
    <3>4. Done(c) => is_ready[c]
      BY DEF Done
    <3>5. QED BY <2>1, <3>1, <3>2, <3>3, <3>4 DEF Staged
  <2>4. continued(c) \in Sent(c) <=> continued(c) \in msgs
    BY Tasks DEF Sent
  <2>5. c \in RunBy(c) <=> In(c, jobs[c])
    BY Threads DEF RunBy
  <2>6. QED BY <2>1, <2>2, <2>3, <2>4, <2>5 DEF Copied, Pointers
<1>2. QED BY <1>1, Invariance, PTL

=============================================================================
