------------------------------- MODULE Proxy -------------------------------
(***************************************************************************)
(* proxy<T> of funhpc/proxy.hpp, a future of a pointer to an object that   *)
(* may live on any process, and the container made of it in fun/proxy.hpp: *)
(* a call goes where the data live and leaves its result there, and only   *)
(* make_local moves data.  A proxy may know the process of its object      *)
(* before there is an object, and caches it (proc) when it learns it.      *)
(*                                                                         *)
(* A cell is a shared_state with the thread that will set its value; Async *)
(* models how cells, tasks and results work, so that here a call takes a   *)
(* step to arrive and a result one to return, in any order.  Objects are   *)
(* not changed once they are made: a pointer to one is its process and its *)
(* contents, a number or a proxy (proxy<proxy<T>>).  SharedRptr models     *)
(* their reference counts.                                                 *)
(***************************************************************************)
EXTENDS Integers, Sequences, SequencesExt

CONSTANTS
  Proc, NoProc,
  User,        \* the process of the program
  Maps,        \* the functions it gives to fmap, mbind and remote
  MaxOps       \* how many operations it calls (a bound)

ASSUME ProxyAssumption ==
  /\ NoProc \notin Proc /\ User \in Proc
  /\ Maps \subseteq {"inc", "add", "here", "there"}
  /\ MaxOps \in Nat

\* Every operation that makes a proxy assigns it to a variable of its own.
Var == 1 .. MaxOps

VARIABLES
  cell,      \* the cells, by name
  px,        \* the program's variables
  target,    \* the variable that the running operation assigns to, or 0
  ops,       \* the number of operations called
  aborted,   \* an assertion has failed
  meant,     \* what the variables would hold were proxies plain values
  answer     \* the last result that is not a proxy, and what it should be

vars == <<cell, px, target, ops, aborted, meant, answer>>

None == "none"

\* A cell is named by the thread that makes it: t \o <<k>> is the k-th cell
\* of the thread of t.  The program is the thread of the cell <<>>.
main == <<>>

\* A proxy; robj is a cell, <<>> if the future is not valid.
proxy(robj, proc) == [robj |-> robj, proc |-> proc]
null == proxy(<<>>, NoProc)

\* What a cell holds: an object (or pointer to one) with its process, its
\* contents n or inner; or one of the three alone.
Value(proc, n, inner) == [proc |-> proc, n |-> n, inner |-> inner]
NoValue == Value(NoProc, 0, null)

\* The call a thread makes, and with what.
Job(do, xs, of, claim) ==
  [do |-> do, fn |-> None, n |-> 0, xs |-> xs, of |-> of, claim |-> claim]
NoJob == Job(None, <<>>, <<>>, NoProc)
Constant(do, n) == [NoJob EXCEPT !.do = do, !.n = n]

\* A new cell on p, for a call made on q.
New(p, q, job) ==
  [home |-> p, at |-> q, stage |-> IF p = q THEN "run" ELSE "sent",
   job |-> job, value |-> NoValue, made |-> 0]

Name(t, k) == t \o <<k>>

\* The cells h with one more, that the thread of t makes; and its name.
Add(h, t, c) ==
  LET name == Name(t, h[t].made + 1)
  IN  [d \in DOMAIN h \cup {name} |->
         IF d = name THEN c
         ELSE IF d = t THEN [h[t] EXCEPT !.made = @ + 1] ELSE h[d]]
Newest(h, t) == Name(t, h[t].made)

\* The program calls nothing.
idle == [New(User, User, NoJob) EXCEPT !.stage = "idle"]

Init ==
  /\ cell = [t \in {main} |-> idle]
  /\ px = [v \in Var |-> null]
  /\ target = 0
  /\ ops = 0
  /\ aborted = FALSE
  /\ meant = [v \in Var |-> <<>>]
  /\ answer = [want |-> 0, is |-> 0]

\* The same operation on the proxies of a call, of which it has two at most,
\* one after the other.
Each(Op(_, _), h, xs) ==
  LET first == Op(h, xs[1])
      second == Op(first.h, xs[2])
  IN  CASE Len(xs) = 0 -> [h |-> h, xs |-> <<>>]
        [] Len(xs) = 1 -> [h |-> first.h, xs |-> <<first.x>>]
        [] Len(xs) = 2 -> [h |-> second.h, xs |-> <<first.x, second.x>>]

-----------------------------------------------------------------------------
(* Proxies, as the thread of t uses them; h is the cells so far.             *)

ready(h, c) == h[c].stage = "done"

\* robj.get(), once it is ready.
get(h, x) == h[x.robj].value

\* proc_ready() caches the process in the proxy.
proc_ready(h, x) ==
  IF x.proc = NoProc /\ ready(h, x.robj) THEN proxy(x.robj, get(h, x).proc) ELSE x

\* get_proc(), once it does not block.
get_proc(h, x) == proc_ready(h, x).proc

\* A cell that is ready at once.
Ready(q, value) == [New(q, q, NoJob) EXCEPT !.stage = "done", !.value = value]

\* get_proc_future: its cell is the newest.
get_proc_future(h, t, x) ==
  LET y == proc_ready(h, x)
      q == h[t].at
  IN  Add(h, t, IF y.proc # NoProc THEN Ready(q, Value(y.proc, 0, null))
                                   ELSE New(q, q, Job("get_proc", <<x>>, <<>>, NoProc)))

\* make_local_shared_ptr: the cells, and the cell c of its result.
\* Mutant: a proxy that is not ready is read where it is.
make_local_shared_ptr_here(h, t, x) ==
  LET y == proc_ready(h, x)
      q == h[t].at
      g == Add(h, t, New(q, q, Job("get_ptr", <<y>>, <<>>, NoProc)))
  IN  IF y.proc = q /\ ready(h, x.robj) THEN [h |-> h, c |-> x.robj]
                                        ELSE [h |-> g, c |-> Newest(g, t)]
make_local_shared_ptr(h, t, x) ==
  LET y == proc_ready(h, x)
      q == h[t].at
      called(p, do) == LET g == Add(h, t, New(q, p, Job(do, <<y>>, <<>>, NoProc)))
                       IN  [h |-> g, c |-> Newest(g, t)]
  IN  CASE y.proc = q /\ ready(h, x.robj) -> [h |-> h, c |-> x.robj]
        [] y.proc = q /\ ~ ready(h, x.robj) -> called(q, "get_ptr")
        [] y.proc \notin {q, NoProc} -> called(y.proc, "get_ptr")
        [] OTHER -> called(q, "get_ptr_later")

\* The constructor from a future of a local pointer: its process is known.
from_shared_ptr(h, t, c) ==
  LET q == h[t].at
      g == Add(h, t, New(q, q, Job("await", <<>>, c, NoProc)))
  IN  IF ready(h, c) THEN [h |-> h, x |-> proxy(c, q)]
                     ELSE [h |-> g, x |-> proxy(Newest(g, t), q)]

\* Serialization, ar(robj, proc), as process q loads it: see Save, LoadReady
\* and LoadPointer of Async.  A ready future travels as its value; since a
\* ready cell changes no more, the receiver's is not told from it.
\* Mutant: nothing fetches the value of a future that was not ready.
load_lost(h, t, x, q) ==
  LET g == Add(h, t, New(q, q, NoJob))
  IN  IF x = null \/ ready(h, x.robj) THEN [h |-> h, x |-> x]
                                      ELSE [h |-> g, x |-> proxy(Newest(g, t), x.proc)]
load(h, t, x, q) ==
  LET g == Add(h, t, New(q, q, Job("await", <<>>, x.robj, NoProc)))
  IN  IF x = null \/ ready(h, x.robj) THEN [h |-> h, x |-> x]
                                      ELSE [h |-> g, x |-> proxy(Newest(g, t), x.proc)]

make_local(h, t, x) ==
  LET ptr == make_local_shared_ptr(h, t, x) IN from_shared_ptr(ptr.h, t, ptr.c)

-----------------------------------------------------------------------------
(* Threads.  A step of the thread of cell t.                                 *)

Running(t, do) == cell[t].stage = "run" /\ cell[t].job.do = do

Continue(h, t, job) == cell' = [h EXCEPT ![t].job = job]

\* The thread makes the call in a cell, here or on p, and waits for it.
AwaitCall(h, t, p, job) ==
  LET g == Add(h, t, New(h[t].at, p, job))
  IN  Continue(g, t, Job("await", <<>>, Newest(g, t), NoProc))

\* The thread of t is done; its result goes to the process of the cell.
Finish(h, t, value) ==
  cell' = [h EXCEPT ![t].value = value,
                    ![t].stage = IF h[t].home = h[t].at THEN "done" ELSE "back"]

\* cxx_assert(P): the program stops if it fails.
cxx_assert(P, A) ==
  /\ aborted' = ~ P
  /\ IF P THEN A ELSE UNCHANGED cell

\* funhpc::local, called where the object shall be: a thread makes it.
Local(t) ==
  /\ Running(t, "local")
  /\ LET q == cell[t].at
         h == Add(cell, t, New(q, q, [cell[t].job EXCEPT !.do = "invoke"]))
     IN  Finish(h, t, Value(NoProc, 0, proxy(Newest(h, t), NoProc)))
  /\ UNCHANGED aborted

\* The call of the function: a constant, or one of the proxy_... objects of
\* fun/proxy.hpp, which makes all arguments but the first local.
Invoke(t) ==
  /\ cell[t].stage = "run" /\ cell[t].job.do \in {"invoke", "fold"}
  /\ LET j == cell[t].job
         q == cell[t].at
         local == Each(LAMBDA h, x : make_local(h, t, x), cell, Tail(j.xs))
     IN  IF j.xs = <<>>
           THEN Finish(cell, t, Value(q, j.n, null)) /\ UNCHANGED aborted
           ELSE cxx_assert(get_proc(cell, j.xs[1]) = q /\ null \notin Range(j.xs),
                           Continue(local.h, t, [j EXCEPT !.do = IF @ = "fold" THEN "apply_fold" ELSE "apply_invoke",
                                                          !.xs = <<j.xs[1]>> \o local.xs]))

\* A process that is not p, if there is one.
other(p) == CHOOSE q \in Proc : q # p \/ Proc = {p}

\* f(*xs, *ysl, ...): get_shared_ptr waits, and asserts that the object is
\* here.  The function makes a number or a proxy, here or on another process.
Apply(t) ==
  /\ cell[t].stage = "run" /\ cell[t].job.do \in {"apply_invoke", "apply_fold"}
  /\ LET j == cell[t].job
         q == cell[t].at
         n(i) == get(cell, j.xs[i]).n
         here == Add(cell, t, New(q, q, Constant("invoke", n(1) + 1)))
         call == Add(cell, t, New(q, other(q), Constant("local", n(1) + 1)))
         there == Add(call, t, New(q, q, Job("unproxy", <<>>, Newest(call, t), other(q))))
         result(h, k, inner) ==
           Finish(h, t, Value(IF j.do = "apply_fold" THEN NoProc ELSE q, k, inner))
     IN  /\ \A x \in Range(j.xs) : ready(cell, x.robj)
         /\ cxx_assert(\A x \in Range(j.xs) : get_proc(cell, x) = q /\ get(cell, x).proc = q,
              CASE j.fn = "inc" -> result(cell, n(1) + 1, null)
                [] j.fn = "add" -> result(cell, n(1) + 3 * n(2), null)
                [] j.fn = "here" -> result(here, 0, proxy(Newest(here, t), NoProc))
                [] j.fn = "there" -> result(there, 0, proxy(Newest(there, t), other(q))))

\* A thread that waits for the object of a proxy, or for a cell.
GetProc(t) ==
  /\ Running(t, "get_proc") /\ ready(cell, cell[t].job.xs[1].robj)
  /\ Finish(cell, t, Value(get(cell, cell[t].job.xs[1]).proc, 0, null))
  /\ UNCHANGED aborted

Await(t) ==
  /\ Running(t, "await") /\ ready(cell, cell[t].job.of)
  /\ Finish(cell, t, cell[cell[t].job.of].value)
  /\ UNCHANGED aborted

\* proxy_get_shared_ptr, on the process of the object.
GetPtr(t) ==
  /\ Running(t, "get_ptr") /\ ready(cell, cell[t].job.xs[1].robj)
  /\ LET x == cell[t].job.xs[1]
     IN  cxx_assert(get_proc(cell, x) = cell[t].at /\ get(cell, x).proc = cell[t].at,
                    Finish(cell, t, get(cell, x)))

\* Mutant: the process is taken from the field of the proxy, where it is not
\* known, as in make_local_shared_ptr's test, and not from get_proc.
GetPtrLater_field(t) ==
  /\ Running(t, "get_ptr_later") /\ ready(cell, cell[t].job.xs[1].robj)
  /\ LET j == cell[t].job
     IN  AwaitCall(cell, t, j.xs[1].proc, [j EXCEPT !.do = "get_ptr"])
  /\ UNCHANGED aborted

\* The thread of make_local_shared_ptr when the process was not known:
\* rptr.get_proc(), a synchronous call there, .get().
GetPtrLater(t) ==
  /\ Running(t, "get_ptr_later") /\ ready(cell, cell[t].job.xs[1].robj)
  /\ LET j == cell[t].job
     IN  AwaitCall(cell, t, get_proc(cell, j.xs[1]), [j EXCEPT !.do = "get_ptr"])
  /\ UNCHANGED aborted

-----------------------------------------------------------------------------
(* Remote calls *)

\* remote(dest, f, args): the call of local at dest, and then the constructor
\* of make_proxy_with_proc, which is told that the object will be at dest.
Launch(h, t, dest, call) ==
  LET g == Add(h, t, New(h[t].at, dest, [call EXCEPT !.do = "local", !.of = <<>>]))
  IN  Continue(g, t, Job("construct", <<>>, Newest(g, t), dest))

\* The thread of remote(fdest, f, args) when fdest was not ready.
Remote(t) ==
  /\ Running(t, "remote") /\ ready(cell, cell[t].job.of)
  /\ Launch(cell, t, cell[cell[t].job.of].value.proc, cell[t].job)
  /\ UNCHANGED aborted

\* remote(fdest, f, args) itself, after it has asked whether fdest is ready.
RemoteNow(t) ==
  /\ Running(t, "remote_now")
  /\ LET j == cell[t].job
         q == cell[t].at
         later == Add(cell, t, New(q, q, [j EXCEPT !.do = "remote"]))
     IN  IF ready(cell, j.of)
           THEN Launch(cell, t, cell[j.of].value.proc, j)
           ELSE Continue(later, t, Job("construct", <<>>, Newest(later, t), NoProc))
  /\ UNCHANGED aborted

\* A proxy of a future of a proxy, with or without a process that is claimed.
\* Mutant: the process of the caller is cached.
Construct_rank(t) ==
  /\ Running(t, "construct") /\ ~ ready(cell, cell[t].job.of)
  /\ LET j == cell[t].job
         q == cell[t].at
         h == Add(cell, t, New(q, q, [j EXCEPT !.do = "unproxy"]))
     IN  Finish(h, t, Value(NoProc, 0, proxy(Newest(h, t), q)))
  /\ UNCHANGED aborted
Construct(t) ==
  /\ Running(t, "construct") /\ ~ ready(cell, cell[t].job.of)
  /\ LET j == cell[t].job
         q == cell[t].at
         h == Add(cell, t, New(q, q, [j EXCEPT !.do = "unproxy"]))
     IN  Finish(h, t, Value(NoProc, 0, proxy(Newest(h, t), j.claim)))
  /\ UNCHANGED aborted

\* If the future is ready, the proxy is taken as it is; if a process is
\* claimed, the assertion waits for the object.
ConstructReady(t) ==
  /\ Running(t, "construct") /\ ready(cell, cell[t].job.of)
  /\ LET j == cell[t].job
         x == cell[j.of].value.inner
     IN  /\ j.claim # NoProc => ready(cell, x.robj)
         /\ cxx_assert(j.claim # NoProc => j.claim = get(cell, x).proc,
                       Finish(cell, t, Value(NoProc, 0, x)))

\* The thread of that constructor.
Unproxy(t) ==
  /\ Running(t, "unproxy") /\ ready(cell, cell[t].job.of)
  /\ LET j == cell[t].job
         x == cell[j.of].value.inner
     IN  /\ ready(cell, x.robj)
         /\ cxx_assert(j.claim # NoProc => j.claim = get_proc(cell, x),
                       Finish(cell, t, get(cell, x)))

\* return *other.make_local(), the thread of unwrap.
Unwrapped(t) ==
  /\ Running(t, "unwrapped")
  /\ LET l == make_local(cell, t, cell[t].job.xs[1])
     IN  Continue(l.h, t, Job("deref", <<l.x>>, <<>>, NoProc))
  /\ UNCHANGED aborted

\* *xs of a local proxy.
Deref(t) ==
  /\ Running(t, "deref") /\ ready(cell, cell[t].job.xs[1].robj)
  /\ LET r == get(cell, cell[t].job.xs[1])
     IN  cxx_assert(r.proc = cell[t].at, Finish(cell, t, Value(NoProc, r.n, r.inner)))

\* foldMap: async(sync, fdest, f, xs).get()
\* Mutant: the arguments are handed on in the wrong order.
Sync_reversed(t) ==
  /\ Running(t, "sync") /\ ready(cell, cell[t].job.of)
  /\ LET j == cell[t].job
     IN  AwaitCall(cell, t, cell[j.of].value.proc,
                   [j EXCEPT !.do = "fold", !.of = <<>>, !.xs = Reverse(@)])
  /\ UNCHANGED aborted
Sync(t) ==
  /\ Running(t, "sync") /\ ready(cell, cell[t].job.of)
  /\ LET j == cell[t].job
     IN  AwaitCall(cell, t, cell[j.of].value.proc, [j EXCEPT !.do = "fold", !.of = <<>>])
  /\ UNCHANGED aborted

\* A call arrives, and its arguments are loaded.
Arrive(t) ==
  /\ cell[t].stage = "sent"
  /\ LET r == Each(LAMBDA h, x : load(h, t, x, cell[t].at), cell, cell[t].job.xs)
     IN  cell' = [r.h EXCEPT ![t].stage = "run", ![t].job.xs = r.xs]
  /\ UNCHANGED aborted

\* A result returns and is loaded.  What a shared_ptr points to is copied.
Return(t) ==
  /\ cell[t].stage = "back"
  /\ LET r == load(cell, t, cell[t].value.inner, cell[t].home)
     IN  cell' = [r.h EXCEPT ![t].stage = "done", ![t].value.inner = r.x,
                             ![t].value.proc = IF cell[t].job.do = "get_ptr" THEN cell[t].home ELSE @]
  /\ UNCHANGED aborted

Thread(t) ==
  \/ Local(t) \/ Invoke(t) \/ Apply(t) \/ GetProc(t) \/ Await(t)
  \/ GetPtr(t) \/ GetPtrLater(t) \/ Remote(t) \/ RemoteNow(t)
  \/ Construct(t) \/ ConstructReady(t) \/ Unproxy(t) \/ Unwrapped(t)
  \/ Deref(t) \/ Sync(t) \/ Arrive(t) \/ Return(t)

Step == \E t \in DOMAIN cell :
  /\ ~ aborted
  /\ Thread(t)
  /\ UNCHANGED <<px, target, ops, meant, answer>>

-----------------------------------------------------------------------------
(* The program *)

\* What a variable means: the contents of its object and the process; the
\* contents of a proxy<proxy> are another such pair.
Plain(v) == meant[v] # <<>> /\ Len(meant[v]) = 2
Nested(v) == meant[v] # <<>> /\ Len(meant[v]) = 3

Idle == ~ aborted /\ cell[main].stage = "idle" /\ ops < MaxOps

\* The variable of the next operation.
new == ops + 1

\* Asking for the process of px[v] caches it there.
Cached(v) == [px EXCEPT ![v] = proc_ready(cell, @)]

\* An operation that is done when it returns; ps is the variables after it
\* has asked.
Assign(h, ps, x, m) ==
  /\ cell' = h
  /\ px' = [ps EXCEPT ![new] = x]
  /\ meant' = [meant EXCEPT ![new] = m]
  /\ ops' = ops + 1
  /\ UNCHANGED <<target, aborted, answer>>

\* An operation that the thread of the program goes on with, for a proxy
\* that means m.
Begin(h, job, m) ==
  /\ cell' = [h EXCEPT ![main].stage = "run", ![main].job = job]
  /\ target' = new
  /\ meant' = [meant EXCEPT ![new] = m]
  /\ ops' = ops + 1
  /\ UNCHANGED <<aborted, answer>>

\* The same for a number.
Ask(h, job, n) ==
  /\ cell' = [h EXCEPT ![main].stage = "run", ![main].job = job]
  /\ target' = 0
  /\ answer' = [want |-> n, is |-> answer.is]
  /\ ops' = ops + 1
  /\ UNCHANGED <<aborted, meant>>

Caches(v) == px' = Cached(v)

\* ... until it has its result.
End ==
  /\ cell[main].stage = "done"
  /\ cell' = [cell EXCEPT ![main] = [idle EXCEPT !.made = cell[main].made]]
  /\ target' = 0
  /\ IF target = 0 THEN answer' = [answer EXCEPT !.is = cell[main].value.n] /\ UNCHANGED px
                   ELSE px' = [px EXCEPT ![target] = cell[main].value.inner] /\ UNCHANGED answer
  /\ UNCHANGED <<ops, aborted, meant>>

\* make_local_proxy, local, munit and iotaMap: the number of the operation is
\* the value.
MakeLocalProxy ==
  LET h == Add(cell, main, New(User, User, Constant("invoke", new)))
  IN  Assign(h, px, proxy(Newest(h, main), NoProc), <<new, User>>)

\* proxy(shared_ptr)
FromPointer ==
  LET h == Add(cell, main, Ready(User, Value(User, new, null)))
  IN  Assign(h, px, proxy(Newest(h, main), User), <<new, User>>)

\* make_remote_proxy and remote, to a process that is given.
MakeRemoteProxy(dest) ==
  LET h == Add(cell, main, New(User, dest, Constant("local", new)))
  IN  /\ Begin(h, Job("construct", <<>>, Newest(h, main), dest), <<new, dest>>)
      /\ UNCHANGED px

\* fmap, fmap2 (and fmap3, fmap5, the stencils and boundaryMap, which treat
\* their proxies as fmap2 treats them): the result is where the first is.
Fmap(fn, ws) ==
  LET v == ws[1]
      n == meant[v][1]
      p == meant[v][2]
      h == get_proc_future(cell, main, px[v])
      xs == [i \in DOMAIN ws |-> IF i = 1 THEN proc_ready(cell, px[v]) ELSE px[ws[i]]]
      m == CASE fn = "inc" -> <<n + 1, p>>
             [] fn = "add" -> <<n + 3 * meant[ws[2]][1], p>>
             [] fn = "here" -> <<n + 1, p, p>>
             [] fn = "there" -> <<n + 1, p, other(p)>>
  IN  /\ \A w \in Range(ws) : Plain(w)
      /\ Len(ws) = (IF fn = "add" THEN 2 ELSE 1)
      /\ Begin(h, [Job("remote_now", xs, Newest(h, main), NoProc) EXCEPT !.fn = fn], m)
      /\ Caches(v)

MakeLocal(v) ==
  LET l == make_local(cell, main, px[v])
  IN  meant[v] # <<>> /\ Assign(l.h, Cached(v), l.x, [meant[v] EXCEPT ![2] = User])

\* head, last, mextract: *xs.make_local()
HeadOf(v) ==
  LET l == make_local(cell, main, px[v])
  IN  /\ Plain(v)
      /\ Ask(l.h, Job("deref", <<l.x>>, <<>>, NoProc), meant[v][1])
      /\ Caches(v)

\* foldMap2; foldMap has the first proxy only.
FoldMap(v, w) ==
  LET h == get_proc_future(cell, main, px[v])
      xs == <<proc_ready(cell, px[v]), px[w]>>
  IN  /\ Plain(v) /\ Plain(w)
      /\ Ask(h, [Job("sync", xs, Newest(h, main), NoProc) EXCEPT !.fn = "add"],
             meant[v][1] + 3 * meant[w][1])
      /\ Caches(v)

\* unwrap, which is mjoin: *other if that is here, and otherwise a proxy of a
\* thread that copies it, with the process of other if it is known.
Unwrap(v) ==
  LET x == proc_ready(cell, px[v])
      h == Add(cell, main, New(User, User, Job("unwrapped", <<x>>, <<>>, NoProc)))
      m == <<meant[v][1], meant[v][3]>>
  IN  /\ Nested(v)
      /\ IF x.proc = User
           THEN Begin(cell, Job("deref", <<x>>, <<>>, NoProc), m)
           ELSE Begin(h, Job("construct", <<>>, Newest(h, main), x.proc), m)
      /\ Caches(v)

\* A copy (boundary), of which wait() or get_proc() has then been called.
Wait(v) ==
  /\ meant[v] # <<>> /\ px[v].proc = NoProc /\ ready(cell, px[v].robj)
  /\ Assign(cell, px, proc_ready(cell, px[v]), meant[v])

Operation ==
  /\ Idle
  /\ \/ MakeLocalProxy \/ FromPointer
     \/ \E dest \in Proc : MakeRemoteProxy(dest)
     \/ \E v \in 1 .. ops : MakeLocal(v) \/ HeadOf(v) \/ Unwrap(v) \/ Wait(v)
     \/ \E v, w \in 1 .. ops : FoldMap(v, w)
     \/ \E fn \in Maps, ws \in {<<v>> : v \in 1 .. ops} \cup ((1 .. ops) \X (1 .. ops)) : Fmap(fn, ws)

Next == Operation \/ Step \/ (~ aborted /\ End)

Spec == Init /\ [][Next]_vars

\* Threads are scheduled and messages delivered; the program need not call.
FairSpec == Spec /\ WF_vars(Step) /\ WF_vars(~ aborted /\ End)

-----------------------------------------------------------------------------
(* Properties *)

\* Type invariant: whatever a proxy knows when, a call goes to a process, and
\* what it takes along and brings back are proxies of futures there are.
TypeOK ==
  LET IsProxy(x) == x = null \/ (x.robj \in DOMAIN cell /\ x.proc \in Proc \cup {NoProc})
  IN  /\ \A c \in DOMAIN cell :
           /\ cell[c].home \in Proc /\ cell[c].at \in Proc
           /\ cell[c].stage \in {"idle", "sent", "run", "back", "done"}
           /\ cell[c].job.of \in DOMAIN cell
           /\ \A x \in Range(cell[c].job.xs) : IsProxy(x)
           /\ IsProxy(cell[c].value.inner) /\ cell[c].value.proc \in Proc \cup {NoProc}
      /\ \A v \in Var : IsProxy(px[v])
      /\ target \in Var \cup {0} /\ ops \in 0 .. MaxOps /\ aborted \in BOOLEAN

\* No assertion fails: a call arrives on the process where its first proxy
\* lives with all it needs to know it, every pointer is followed where its
\* object is, and every process that was claimed for an object before there
\* was one turns out right.
NoAbort == ~ aborted

\* Every proxy there is, in a variable, an argument, an object or a result.
Proxies ==
  {px[v] : v \in Var} \cup
  UNION {Range(cell[c].job.xs) \cup {cell[c].value.inner} : c \in DOMAIN cell}

\* proxy::invariant(): the process that a proxy has cached, which may have
\* been before the object existed and on another process than where the
\* proxy now is, is the process of the object.
CachedProc ==
  \A x \in Proxies :
    x.proc # NoProc /\ ready(cell, x.robj) => x.proc = get(cell, x).proc

\* A program gets the results that it would get from plain values, and finds
\* every object on the process that the operation promises: where the call
\* was sent, where the first argument is, or here for make_local.
AsIfLocal ==
  /\ \A v \in Var :
       /\ px[v] # null => meant[v] # <<>>
       /\ v # target /\ px[v] # null =>
            /\ px[v].proc \in {NoProc, meant[v][2]}
            /\ ready(cell, px[v].robj) =>
                 LET r == get(cell, px[v])
                 IN  /\ r.proc = meant[v][2]
                     /\ Plain(v) => r.n = meant[v][1]
                     /\ Nested(v) /\ ready(cell, r.inner.robj) =>
                          LET i == get(cell, r.inner)
                          IN  i.proc = meant[v][3] /\ i.n = meant[v][1]
  /\ cell[main].stage = "idle" => answer.is = answer.want

\* Nobody waits for ever: however calls, results and copies of futures depend
\* on one another across the processes, every future becomes ready and every
\* operation returns.
Resolves == []<>(\A c \in DOMAIN cell : cell[c].stage \in {"idle", "done"})
=============================================================================
