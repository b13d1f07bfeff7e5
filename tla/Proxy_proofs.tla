---------------------------- MODULE Proxy_proofs ----------------------------
(***************************************************************************)
(* Proofs about proxies, for any processes, and any functions but those    *)
(* that return a proxy of an object elsewhere: with these the constructor  *)
(* that unwraps claims a wrong process.                                    *)
(*                                                                         *)
(* The invariant is a type system.  It gives to every cell what it will    *)
(* hold, from the time it is made: a pointer to an object of some          *)
(* contents on some process, a proxy of such an object, a process, or a    *)
(* number.  A proxy of an object names a cell that is typed to hold the    *)
(* pointer, and no other process than the object's.  The job of each       *)
(* thread must make what its cell is typed to hold of the arguments that   *)
(* it has.  That no assertion fails, and what the program is answered,     *)
(* are then read off the types.                                            *)
(***************************************************************************)
EXTENDS Proxy, SequenceTheorems, TLAPS

\* No function that is called returns a proxy of an object elsewhere.
ObjectsHere == "there" \notin Maps

-----------------------------------------------------------------------------
(* Types *)

\* What a proxy means, as in meant: the contents of its object and its
\* process, and, if the contents are a proxy, the process of that one's.
Meaning == {<<n, p>> : n \in Int, p \in Proc} \cup {<<n, p, q>> : n \in Int, p \in Proc, q \in Proc}

\* The contents on another process.
At(m, p) == IF Len(m) = 2 THEN <<m[1], p>> ELSE <<m[1], p, m[3]>>

\* What a cell holds.
ptr(m) == [k |-> "ptr", m |-> m, x |-> null]
prox(m) == [k |-> "prox", m |-> m, x |-> null]
num(n) == [k |-> "num", m |-> n, x |-> null]
proc_of(x, m) == [k |-> "proc", m |-> m, x |-> x]

\* T is a typing, a function from the names of cells to types.
Names(T) == DOMAIN T \ {main}

\* Proxy x means m.
Means(T, x, m) ==
  /\ x = proxy(x.robj, x.proc)
  /\ x.robj \in Names(T)
  /\ T[x.robj] = ptr(m)
  /\ m \in Meaning
  /\ x.proc \in {NoProc, m[2]}

IsProxy(T, x) == x = null \/ \E m \in Meaning : Means(T, x, m)

\* Its process can be told at once.
Knows(h, x) == x.proc # NoProc \/ ready(h, x.robj)

\* A value is of type ty.
Holds(h, T, v, ty) ==
  \/ \E m \in Meaning :
       /\ ty = ptr(m) /\ v.proc = m[2]
       /\ Len(m) = 2 => v.n = m[1]
       /\ Len(m) = 3 => Means(T, v.inner, <<m[1], m[3]>>)
  \/ \E m \in Meaning : ty = prox(m) /\ Means(T, v.inner, m)
  \/ \E n \in Int : ty = num(n) /\ v.n = n
  \/ \E x, m : /\ ty = proc_of(x, m) /\ Means(T, x, m)
               /\ v.proc = m[2] /\ Knows(h, x)

-----------------------------------------------------------------------------
(* The jobs of threads *)

\* Called on p, with its second argument on one of homes, the function of job
\* j makes an object that means m.
Arguments(T, j, p, m, homes) ==
  \E n \in Int :
    /\ j.xs # <<>>
    /\ Means(T, j.xs[1], <<n, p>>)
    /\ \/ j.fn = "inc" /\ Len(j.xs) = 1 /\ m = <<n + 1, p>>
       \/ j.fn = "here" /\ Len(j.xs) = 1 /\ m = <<n + 1, p, p>>
       \/ /\ j.fn = "add" /\ Len(j.xs) = 2
          /\ \E k \in Int, q \in homes :
               Means(T, j.xs[2], <<k, q>>) /\ m = <<n + 3 * k, p>>

\* The same for a call of a constant as well.
Makes(T, j, p, m) ==
  \/ j.xs = <<>> /\ j.n \in Int /\ m = <<j.n, p>>
  \/ Arguments(T, j, p, m, Proc)

\* The call has arrived, or can be sent, because its place is known.
Placed(h, j) == j.xs # <<>> => Knows(h, j.xs[1])

Invokes(h, T, e, ty, m) ==
  /\ e.job.do = "invoke" /\ e.home = e.at
  /\ Makes(T, e.job, e.at, m) /\ Placed(h, e.job) /\ ty = ptr(m)

Locals(h, T, e, ty, m) ==
  /\ e.job.do = "local"
  /\ Makes(T, e.job, e.at, m) /\ Placed(h, e.job) /\ ty = prox(m)

Folds(h, T, e, ty, m) ==
  /\ e.job.do = "fold" /\ e.job.fn = "add"
  /\ Arguments(T, e.job, e.at, m, Proc) /\ Placed(h, e.job) /\ ty = num(m[1])

Applies(T, e, ty, m) ==
  /\ e.job.do = "apply_invoke" /\ e.home = e.at
  /\ Arguments(T, e.job, e.at, m, {e.at}) /\ ty = ptr(m)

AppliesFold(T, e, ty, m) ==
  /\ e.job.do = "apply_fold" /\ e.job.fn = "add"
  /\ Arguments(T, e.job, e.at, m, {e.at}) /\ ty = num(m[1])

\* Before the place is known: the job waits for it.
Asks(T, j, m) ==
  /\ j.of \in Names(T)
  /\ \E x : T[j.of] = proc_of(j.xs[1], x) /\ x[2] = m[2]
  /\ Arguments(T, j, m[2], m, Proc)

Remotes(T, e, ty, m) ==
  e.job.do \in {"remote", "remote_now"} /\ e.home = e.at /\ Asks(T, e.job, m) /\ ty = prox(m)

Syncs(T, e, ty, m) ==
  /\ e.job.do = "sync" /\ e.job.fn = "add" /\ e.home = e.at
  /\ Asks(T, e.job, m) /\ ty = num(m[1])

\* The job has one proxy.
Of(T, j, m) == j.xs # <<>> /\ Means(T, j.xs[1], m)

GetsProc(T, e, ty, m) ==
  e.job.do = "get_proc" /\ e.home = e.at /\ Of(T, e.job, m) /\ ty = proc_of(e.job.xs[1], m)

GetsPtr(T, e, ty, m) ==
  e.job.do = "get_ptr" /\ Of(T, e.job, m) /\ e.at = m[2] /\ ty = ptr(At(m, e.home))

GetsPtrLater(T, e, ty, m) ==
  e.job.do = "get_ptr_later" /\ e.home = e.at /\ Of(T, e.job, m) /\ ty = ptr(At(m, e.at))

Unwraps(T, e, ty, m) ==
  /\ e.job.do = "unwrapped" /\ e.home = e.at /\ Of(T, e.job, m)
  /\ Len(m) = 3 /\ ty = prox(<<m[1], m[3]>>)

Derefs(T, e, ty, m) ==
  /\ e.job.do = "deref" /\ e.home = e.at /\ Of(T, e.job, m) /\ e.at = m[2]
  /\ ty = IF Len(m) = 2 THEN num(m[1]) ELSE prox(<<m[1], m[3]>>)

\* The job waits for another cell.
Awaits(T, e, ty) ==
  e.job.do = "await" /\ e.home = e.at /\ e.job.of \in Names(T) /\ T[e.job.of] = ty

Claims(T, e, m) ==
  e.job.of \in Names(T) /\ T[e.job.of] = prox(m) /\ e.job.claim \in {NoProc, m[2]}

Constructs(T, e, ty, m) ==
  e.job.do = "construct" /\ e.home = e.at /\ Claims(T, e, m) /\ ty = prox(m)

Unproxies(T, e, ty, m) ==
  e.job.do = "unproxy" /\ e.home = e.at /\ Claims(T, e, m) /\ ty = ptr(m)

JobOK(h, T, e, ty) == \E m \in Meaning :
  \/ Invokes(h, T, e, ty, m) \/ Locals(h, T, e, ty, m) \/ Folds(h, T, e, ty, m)
  \/ Applies(T, e, ty, m) \/ AppliesFold(T, e, ty, m)
  \/ Remotes(T, e, ty, m) \/ Syncs(T, e, ty, m)
  \/ GetsProc(T, e, ty, m) \/ GetsPtr(T, e, ty, m) \/ GetsPtrLater(T, e, ty, m)
  \/ Unwraps(T, e, ty, m) \/ Derefs(T, e, ty, m)
  \/ Awaits(T, e, ty) \/ Constructs(T, e, ty, m) \/ Unproxies(T, e, ty, m)

-----------------------------------------------------------------------------
(* Cells *)

Place == Proc \cup {NoProc}
ProxyRecord == [robj : Seq(Nat), proc : Place]

Does ==
  {None, "local", "invoke", "fold", "apply_invoke", "apply_fold", "get_proc", "await", "get_ptr",
   "get_ptr_later", "remote", "remote_now", "construct", "unproxy", "unwrapped", "deref", "sync"}
JobRecord ==
  [do : Does, fn : {None, "inc", "add", "here"}, n : Int, xs : Seq(ProxyRecord), of : Seq(Nat), claim : Place]
ValueRecord == [proc : Place, n : Int, inner : ProxyRecord]
Entry ==
  [home : Proc, at : Proc, stage : {"idle", "sent", "run", "back", "done"},
   job : JobRecord, value : ValueRecord, made : Nat]

\* What a job is made of.
Shaped(T, j) ==
  /\ j \in JobRecord
  /\ j.of \in DOMAIN T
  /\ Len(j.xs) <= 2 /\ \A i \in DOMAIN j.xs : IsProxy(T, j.xs[i])

\* A result on its way; a pointer is to the object where it was.
Returns(h, T, e, ty) ==
  IF e.job.do = "get_ptr"
    THEN \E m \in Meaning : ty = ptr(At(m, e.home)) /\ Holds(h, T, e.value, ptr(At(m, e.at)))
    ELSE Holds(h, T, e.value, ty)

EntryOK(h, T, e, ty) ==
  /\ e \in Entry
  /\ Shaped(T, e.job)
  /\ IsProxy(T, e.value.inner)
  /\ e.stage = "sent" => e.home # e.at
  /\ e.stage \in {"sent", "run"} => JobOK(h, T, e, ty)
  /\ e.stage = "back" => Returns(h, T, e, ty)
  /\ e.stage = "done" => Holds(h, T, e.value, ty)

\* The k-th cell of t is known by t, and numbers are given once.
Named(h) ==
  /\ DOMAIN h \subseteq Seq(Nat)
  /\ \A t \in Seq(Nat), k \in Nat :
       Name(t, k) \in DOMAIN h => t \in DOMAIN h /\ k <= h[t].made

HeapOK(h, T) ==
  /\ DOMAIN T = DOMAIN h
  /\ main \in DOMAIN h /\ h[main].home = User /\ h[main].at = User
  /\ Named(h)
  /\ \A c \in DOMAIN h : EntryOK(h, T, h[c], T[c])

\* The heap h with typing T has become g with U.
Grows(h, T, g, U) ==
  /\ DOMAIN T \subseteq DOMAIN U
  /\ \A c \in Names(T) : U[c] = T[c] /\ (ready(h, c) => ready(g, c))

-----------------------------------------------------------------------------
(* Names and types *)

LEMMA NameType ==
  ASSUME NEW t \in Seq(Nat), NEW k \in Nat
  PROVE  /\ Name(t, k) \in Seq(Nat)
         /\ Len(Name(t, k)) = Len(t) + 1
         /\ Name(t, k)[Len(t) + 1] = k
         /\ \A i \in 1 .. Len(t) : Name(t, k)[i] = t[i]
         /\ Name(t, k) # main
BY DEF Name, main

LEMMA NameOnce ==
  ASSUME NEW t \in Seq(Nat), NEW k \in Nat, NEW u \in Seq(Nat), NEW l \in Nat,
         Name(t, k) = Name(u, l)
  PROVE  t = u /\ k = l
<1>0. /\ Len(Name(t, k)) = Len(t) + 1 /\ Name(t, k)[Len(t) + 1] = k
      /\ \A i \in 1 .. Len(t) : Name(t, k)[i] = t[i]
  BY NameType
<1> /\ Len(Name(u, l)) = Len(u) + 1 /\ Name(u, l)[Len(u) + 1] = l
    /\ \A i \in 1 .. Len(u) : Name(u, l)[i] = u[i]
  BY NameType
<1> Len(t) \in Nat /\ Len(u) \in Nat
  OBVIOUS
<1>1. Len(t) = Len(u)
  BY <1>0
<1>2. k = l
  BY <1>0, <1>1
<1>3. \A i \in 1 .. Len(t) : t[i] = u[i]
  BY <1>0, <1>1
<1>4. t = u
  BY <1>1, <1>3, SeqEqual
<1>5. QED
  BY <1>2, <1>4

LEMMA MeaningType ==
  ASSUME NEW m \in Meaning, NEW p \in Proc
  PROVE  /\ m[1] \in Int /\ m[2] \in Proc
         /\ Len(m) \in {2, 3}
         /\ Len(m) = 2 => m = <<m[1], m[2]>>
         /\ Len(m) = 3 => m[3] \in Proc /\ m = <<m[1], m[2], m[3]>> /\ <<m[1], m[3]>> \in Meaning
         /\ At(m, p) \in Meaning /\ At(m, p)[1] = m[1] /\ At(m, p)[2] = p
         /\ Len(At(m, p)) = Len(m)
         /\ Len(m) = 3 => At(m, p)[3] = m[3]
BY DEF Meaning, At

\* A typing tells the kinds of types apart.
LEMMA Kinds ==
  ASSUME NEW m, NEW n, NEW x, NEW y
  PROVE  /\ ptr(m) = ptr(n) => m = n
         /\ prox(m) = prox(n) => m = n
         /\ num(m) = num(n) => m = n
         /\ proc_of(x, m) = proc_of(y, n) => x = y /\ m = n
         /\ ptr(m) # prox(n) /\ ptr(m) # num(n) /\ ptr(m) # proc_of(x, n)
         /\ prox(m) # num(n) /\ prox(m) # proc_of(x, n) /\ num(m) # proc_of(x, n)
<1>1. /\ ptr(m).k = "ptr" /\ ptr(m).m = m /\ ptr(n).m = n
      /\ prox(m).k = "prox" /\ prox(m).m = m /\ prox(n).m = n /\ prox(n).k = "prox"
      /\ num(m).k = "num" /\ num(m).m = m /\ num(n).m = n /\ num(n).k = "num"
      /\ proc_of(x, m).m = m /\ proc_of(x, m).x = x /\ proc_of(y, n).m = n
      /\ proc_of(y, n).x = y /\ proc_of(x, n).k = "proc"
  BY DEF ptr, prox, num, proc_of
<1>2. QED
  BY <1>1

-----------------------------------------------------------------------------
(* What holds of a heap holds when it has grown *)

LEMMA MeansGrows ==
  ASSUME NEW h, NEW T, NEW g, NEW U, Grows(h, T, g, U), NEW x, NEW m, Means(T, x, m)
  PROVE  /\ Means(U, x, m)
         /\ Knows(h, x) => Knows(g, x)
BY DEF Grows, Means, Names, Knows

LEMMA IsProxyGrows ==
  ASSUME NEW h, NEW T, NEW g, NEW U, Grows(h, T, g, U), NEW x, IsProxy(T, x)
  PROVE  IsProxy(U, x)
BY MeansGrows DEF IsProxy

LEMMA HoldsGrows ==
  ASSUME NEW h, NEW T, NEW g, NEW U, Grows(h, T, g, U), NEW v, NEW ty, Holds(h, T, v, ty)
  PROVE  Holds(g, U, v, ty)
<1>1. ASSUME NEW m \in Meaning, ty = ptr(m), v.proc = m[2], Len(m) = 2 => v.n = m[1],
             Len(m) = 3 => Means(T, v.inner, <<m[1], m[3]>>)
      PROVE  Holds(g, U, v, ty)
  BY <1>1, MeansGrows DEF Holds
<1>2. ASSUME NEW m \in Meaning, ty = prox(m), Means(T, v.inner, m)
      PROVE  Holds(g, U, v, ty)
  BY <1>2, MeansGrows DEF Holds
<1>3. ASSUME NEW n \in Int, ty = num(n), v.n = n
      PROVE  Holds(g, U, v, ty)
  BY <1>3 DEF Holds
<1>4. ASSUME NEW x, NEW m, ty = proc_of(x, m), Means(T, x, m), v.proc = m[2], Knows(h, x)
      PROVE  Holds(g, U, v, ty)
  BY <1>4, MeansGrows DEF Holds
<1>5. QED
  BY <1>1, <1>2, <1>3, <1>4 DEF Holds

LEMMA ArgumentsGrow ==
  ASSUME NEW h, NEW T, NEW g, NEW U, Grows(h, T, g, U), NEW j, NEW p, NEW m, NEW homes,
         Arguments(T, j, p, m, homes)
  PROVE  Arguments(U, j, p, m, homes) /\ (Placed(h, j) => Placed(g, j))
<1>1. PICK n \in Int :
        /\ j.xs # <<>>
        /\ Means(T, j.xs[1], <<n, p>>)
        /\ \/ j.fn = "inc" /\ Len(j.xs) = 1 /\ m = <<n + 1, p>>
           \/ j.fn = "here" /\ Len(j.xs) = 1 /\ m = <<n + 1, p, p>>
           \/ /\ j.fn = "add" /\ Len(j.xs) = 2
              /\ \E k \in Int, q \in homes :
                   Means(T, j.xs[2], <<k, q>>) /\ m = <<n + 3 * k, p>>
  BY DEF Arguments
<1>2. Means(U, j.xs[1], <<n, p>>) /\ (Knows(h, j.xs[1]) => Knows(g, j.xs[1]))
  BY <1>1, MeansGrows
<1>3. \A y : Means(T, j.xs[2], y) => Means(U, j.xs[2], y)
  BY MeansGrows
<1>4. QED
  BY <1>1, <1>2, <1>3 DEF Arguments, Placed

LEMMA JobGrows ==
  ASSUME NEW h, NEW T, NEW g, NEW U, Grows(h, T, g, U), NEW e, NEW ty, JobOK(h, T, e, ty)
  PROVE  JobOK(g, U, e, ty)
<1>0. PICK j : j = e.job
  OBVIOUS
<1>1. PICK m \in Meaning :
        \/ Invokes(h, T, e, ty, m) \/ Locals(h, T, e, ty, m) \/ Folds(h, T, e, ty, m)
        \/ Applies(T, e, ty, m) \/ AppliesFold(T, e, ty, m)
        \/ Remotes(T, e, ty, m) \/ Syncs(T, e, ty, m)
        \/ GetsProc(T, e, ty, m) \/ GetsPtr(T, e, ty, m) \/ GetsPtrLater(T, e, ty, m)
        \/ Unwraps(T, e, ty, m) \/ Derefs(T, e, ty, m)
        \/ Awaits(T, e, ty) \/ Constructs(T, e, ty, m) \/ Unproxies(T, e, ty, m)
  BY DEF JobOK
<1>3. ASSUME NEW p, Makes(T, j, p, m), Placed(h, j)
      PROVE  Makes(U, j, p, m) /\ Placed(g, j)
  <2>1. CASE j.xs = <<>>
    BY <1>3, <2>1 DEF Makes, Placed, Arguments
  <2>2. CASE j.xs # <<>>
    <3>1. Arguments(T, j, p, m, Proc)
      BY <1>3, <2>2 DEF Makes
    <3>2. QED
      BY <1>3, <3>1, ArgumentsGrow DEF Makes
  <2>3. QED
    BY <2>1, <2>2
<1>4. ASSUME Asks(T, j, m) PROVE Asks(U, j, m)
  <2>1. Arguments(U, j, m[2], m, Proc)
    BY <1>4, ArgumentsGrow DEF Asks
  <2>2. j.of \in Names(T) /\ \E x : T[j.of] = proc_of(j.xs[1], x) /\ x[2] = m[2]
    BY <1>4 DEF Asks
  <2>3. j.of \in Names(U) /\ U[j.of] = T[j.of]
    BY <2>2 DEF Grows, Names
  <2>4. QED
    BY <2>1, <2>2, <2>3 DEF Asks
<1>5. Of(T, j, m) => Of(U, j, m)
  BY MeansGrows DEF Of
<1>6. Claims(T, e, m) => Claims(U, e, m)
  BY DEF Claims, Grows, Names
<1>7. Awaits(T, e, ty) => Awaits(U, e, ty)
  BY DEF Awaits, Grows, Names
<1>8. Invokes(h, T, e, ty, m) => Invokes(g, U, e, ty, m)
  BY <1>0, <1>3 DEF Invokes
<1>9. Locals(h, T, e, ty, m) => Locals(g, U, e, ty, m)
  BY <1>0, <1>3 DEF Locals
<1>10. Folds(h, T, e, ty, m) => Folds(g, U, e, ty, m)
  BY <1>0, ArgumentsGrow DEF Folds
<1>11. Applies(T, e, ty, m) => Applies(U, e, ty, m)
  BY <1>0, ArgumentsGrow DEF Applies
<1>12. AppliesFold(T, e, ty, m) => AppliesFold(U, e, ty, m)
  BY <1>0, ArgumentsGrow DEF AppliesFold
<1>13. Remotes(T, e, ty, m) => Remotes(U, e, ty, m)
  BY <1>0, <1>4 DEF Remotes
<1>14. Syncs(T, e, ty, m) => Syncs(U, e, ty, m)
  BY <1>0, <1>4 DEF Syncs
<1>15. GetsProc(T, e, ty, m) => GetsProc(U, e, ty, m)
  BY <1>0, <1>5 DEF GetsProc
<1>16. GetsPtr(T, e, ty, m) => GetsPtr(U, e, ty, m)
  BY <1>0, <1>5 DEF GetsPtr
<1>17. GetsPtrLater(T, e, ty, m) => GetsPtrLater(U, e, ty, m)
  BY <1>0, <1>5 DEF GetsPtrLater
<1>18. Unwraps(T, e, ty, m) => Unwraps(U, e, ty, m)
  BY <1>0, <1>5 DEF Unwraps
<1>19. Derefs(T, e, ty, m) => Derefs(U, e, ty, m)
  BY <1>0, <1>5 DEF Derefs
<1>20. Constructs(T, e, ty, m) => Constructs(U, e, ty, m)
  BY <1>0, <1>6 DEF Constructs
<1>21. Unproxies(T, e, ty, m) => Unproxies(U, e, ty, m)
  BY <1>0, <1>6 DEF Unproxies
<1>22. QED
  BY <1>1, <1>7, <1>8, <1>9, <1>10, <1>11, <1>12, <1>13, <1>14, <1>15, <1>16, <1>17, <1>18, <1>19, <1>20, <1>21 DEF JobOK

LEMMA EntryGrows ==
  ASSUME NEW h, NEW T, NEW g, NEW U, Grows(h, T, g, U), NEW e, NEW ty, EntryOK(h, T, e, ty)
  PROVE  EntryOK(g, U, e, ty)
<1>1. e.stage \in {"sent", "run"} => JobOK(g, U, e, ty)
  BY JobGrows DEF EntryOK
<1>2. \A v, t : Holds(h, T, v, t) => Holds(g, U, v, t)
  BY HoldsGrows
<1>3. e.stage = "back" => Returns(g, U, e, ty)
  BY <1>2 DEF EntryOK, Returns
<1>4. \A x : IsProxy(T, x) => IsProxy(U, x)
  BY IsProxyGrows
<1>5. Shaped(U, e.job)
  BY <1>4 DEF EntryOK, Shaped, Grows
<1>6. QED
  BY <1>1, <1>2, <1>3, <1>4, <1>5 DEF EntryOK

LEMMA GrowsTransitive ==
  ASSUME NEW h, NEW T, NEW g, NEW U, NEW f, NEW V,
         Grows(h, T, g, U), Grows(g, U, f, V)
  PROVE  Grows(h, T, f, V)
BY DEF Grows, Names

\* The number of cells a thread has made does not matter to its type.
LEMMA SameEntry ==
  ASSUME NEW h, NEW T, NEW e, NEW f, NEW ty, EntryOK(h, T, e, ty), f \in Entry,
         f.home = e.home, f.at = e.at, f.stage = e.stage, f.job = e.job, f.value = e.value
  PROVE  EntryOK(h, T, f, ty)
<1>1. JobOK(h, T, e, ty) => JobOK(h, T, f, ty)
  <2>1. \A m : /\ Invokes(h, T, e, ty, m) => Invokes(h, T, f, ty, m)
               /\ Locals(h, T, e, ty, m) => Locals(h, T, f, ty, m)
               /\ Folds(h, T, e, ty, m) => Folds(h, T, f, ty, m)
    BY DEF Invokes, Locals, Folds
  <2>2. \A m : /\ Applies(T, e, ty, m) => Applies(T, f, ty, m)
               /\ AppliesFold(T, e, ty, m) => AppliesFold(T, f, ty, m)
    BY DEF Applies, AppliesFold
  <2>3. \A m : /\ Remotes(T, e, ty, m) => Remotes(T, f, ty, m)
               /\ Syncs(T, e, ty, m) => Syncs(T, f, ty, m)
               /\ GetsProc(T, e, ty, m) => GetsProc(T, f, ty, m)
    BY DEF Remotes, Syncs, GetsProc
  <2>4. \A m : /\ GetsPtr(T, e, ty, m) => GetsPtr(T, f, ty, m)
               /\ GetsPtrLater(T, e, ty, m) => GetsPtrLater(T, f, ty, m)
               /\ Unwraps(T, e, ty, m) => Unwraps(T, f, ty, m)
    BY DEF GetsPtr, GetsPtrLater, Unwraps
  <2>5. \A m : Derefs(T, e, ty, m) => Derefs(T, f, ty, m)
    BY DEF Derefs
  <2>6. \A m : /\ Constructs(T, e, ty, m) => Constructs(T, f, ty, m)
               /\ Unproxies(T, e, ty, m) => Unproxies(T, f, ty, m)
    BY DEF Constructs, Unproxies, Claims
  <2>7. Awaits(T, e, ty) => Awaits(T, f, ty)
    BY DEF Awaits
  <2>8. QED
    BY <2>1, <2>2, <2>3, <2>4, <2>5, <2>6, <2>7 DEF JobOK
<1>2. Returns(h, T, e, ty) => Returns(h, T, f, ty)
  BY DEF Returns
<1>3. QED
  BY <1>1, <1>2 DEF EntryOK

-----------------------------------------------------------------------------
(* The two ways in which a heap changes *)

\* A typing with one more name.
Extend(T, c, ty) == [d \in DOMAIN T \cup {c} |-> IF d = c THEN ty ELSE T[d]]

\* The next cell of t.
Fresh(h, t) == Name(t, h[t].made + 1)

\* The thread of t has made a cell e of type ty.
Added(h, T, t, e, ty) ==
  LET n == Fresh(h, t)
      g == Add(h, t, e)
      U == Extend(T, n, ty)
  IN  /\ Newest(g, t) = n
      /\ n \in Seq(Nat) /\ n \notin DOMAIN h /\ n # main /\ n \in Names(U) /\ U[n] = ty
      /\ HeapOK(g, U) /\ Grows(h, T, g, U)
      /\ g[n] = e /\ g[t] = [h[t] EXCEPT !.made = h[t].made + 1]
      /\ \A c \in DOMAIN h \ {t} : g[c] = h[c]
      /\ DOMAIN g = DOMAIN h \cup {n}

LEMMA AddTyped ==
  ASSUME NEW h, NEW T, HeapOK(h, T), NEW t \in DOMAIN h,
         NEW e, NEW ty, EntryOK(h, T, e, ty), e.made = 0
  PROVE  Added(h, T, t, e, ty)
<1> DEFINE n == Fresh(h, t)
           g == Add(h, t, e)
           U == Extend(T, n, ty)
<1>1. /\ t \in Seq(Nat) /\ h[t] \in Entry /\ h[t].made \in Nat
      /\ h[t].made + 1 \in Nat
  <2>1. h[t] \in Entry /\ t \in Seq(Nat)
    BY DEF HeapOK, Named, EntryOK
  <2>2. h[t].made \in Nat
    BY <2>1 DEF Entry
  <2>3. QED
    BY <2>1, <2>2
<1>2. n \in Seq(Nat) /\ n # main
  BY <1>1, NameType DEF Fresh
<1>3. n \notin DOMAIN h
  <2>1. SUFFICES ASSUME n \in DOMAIN h PROVE FALSE
    OBVIOUS
  <2>2. h[t].made + 1 <= h[t].made
    BY <1>1, <2>1 DEF HeapOK, Named, Fresh
  <2>3. QED
    BY <1>1, <2>2
<1>4. n # t
  BY <1>3
<1>5. /\ DOMAIN g = DOMAIN h \cup {n}
      /\ g[n] = e
      /\ g[t] = [h[t] EXCEPT !.made = @ + 1]
      /\ \A c \in DOMAIN h \ {t} : g[c] = h[c]
  BY <1>3, <1>4 DEF Add, Fresh
<1>6. /\ g[t].made = h[t].made + 1 /\ g[t].home = h[t].home /\ g[t].at = h[t].at
      /\ g[t].stage = h[t].stage /\ g[t].job = h[t].job /\ g[t].value = h[t].value
      /\ g[t] \in Entry
  BY <1>1, <1>5 DEF Entry
<1>7. Newest(g, t) = n
  BY <1>6 DEF Newest, Fresh
<1>8. DOMAIN U = DOMAIN T \cup {n} /\ U[n] = ty /\ \A c \in DOMAIN T : c # n => U[c] = T[c]
  BY DEF Extend
<1>9. DOMAIN T = DOMAIN h
  BY DEF HeapOK
<1>10. Grows(h, T, g, U)
  <2>1. \A c \in DOMAIN h : g[c].stage = h[c].stage
    BY <1>5, <1>6
  <2>2. QED
    BY <1>3, <1>8, <1>9, <2>1 DEF Grows, Names, ready
<1>11. Named(g)
  <2>1. DOMAIN g \subseteq Seq(Nat)
    BY <1>2, <1>5 DEF HeapOK, Named
  <2>2. ASSUME NEW u \in Seq(Nat), NEW k \in Nat, Name(u, k) \in DOMAIN g
        PROVE  u \in DOMAIN g /\ k <= g[u].made
    <3>1. CASE Name(u, k) = n
      <4>1. PICK l \in Nat : l = h[t].made + 1 /\ n = Name(t, l)
        BY <1>1 DEF Fresh
      <4>2. t \in Seq(Nat) /\ Name(u, k) = Name(t, l)
        BY <1>1, <3>1, <4>1
      <4>3. u = t /\ k = h[t].made + 1
        BY <4>1, <4>2, NameOnce
      <4>4. t \in DOMAIN g /\ k <= g[t].made
        BY <1>1, <1>5, <1>6, <4>3
      <4>5. QED
        BY <4>3, <4>4
    <3>2. CASE Name(u, k) # n
      <4>1. u \in DOMAIN h /\ k <= h[u].made
        BY <1>5, <2>2, <3>2 DEF HeapOK, Named
      <4>2. CASE u = t
        <5>1. t \in DOMAIN g /\ k <= h[t].made
          BY <1>5, <4>1, <4>2
        <5>2. k <= h[t].made + 1
          BY <1>1, <5>1
        <5>3. QED
          BY <1>6, <4>2, <5>1, <5>2
      <4>3. CASE u # t
        BY <1>5, <4>1, <4>3
      <4>4. QED
        BY <4>2, <4>3
    <3>3. QED
      BY <3>1, <3>2
  <2>3. QED
    BY <2>1, <2>2 DEF Named
<1>12. ASSUME NEW c \in DOMAIN g PROVE EntryOK(g, U, g[c], U[c])
  <2>1. CASE c = n
    <3>1. EntryOK(g, U, e, ty)
      BY <1>10, EntryGrows
    <3>2. QED
      BY <1>5, <1>8, <2>1, <3>1
  <2>2. CASE c = t
    <3>1. EntryOK(g, U, h[t], T[t])
      BY <1>10, EntryGrows DEF HeapOK
    <3>2. EntryOK(g, U, g[t], T[t])
      BY <1>6, <3>1, SameEntry
    <3>3. QED
      BY <1>4, <1>8, <1>9, <2>2, <3>2
  <2>3. CASE c # n /\ c # t
    <3>1. c \in DOMAIN h /\ g[c] = h[c] /\ U[c] = T[c]
      BY <1>5, <1>8, <1>9, <2>3
    <3>2. EntryOK(h, T, h[c], T[c])
      BY <3>1 DEF HeapOK
    <3>3. QED
      BY <1>10, <3>1, <3>2, EntryGrows
  <2>4. QED
    BY <2>1, <2>2, <2>3
<1>13. main \in DOMAIN g /\ g[main].home = User /\ g[main].at = User
  BY <1>2, <1>5, <1>6 DEF HeapOK
<1>14. HeapOK(g, U)
  BY <1>5, <1>8, <1>9, <1>11, <1>12, <1>13 DEF HeapOK
<1>15. n \in Names(U)
  BY <1>2, <1>8 DEF Names
<1>16. g[t] = [h[t] EXCEPT !.made = h[t].made + 1]
  BY <1>5
<1>17. QED
  BY <1>2, <1>3, <1>5, <1>7, <1>8, <1>10, <1>14, <1>15, <1>16 DEF Added

\* The cell of c changes, at main even its type; a result stays a result.
LEMMA ChangeTyped ==
  ASSUME NEW h, NEW T, HeapOK(h, T), NEW c \in DOMAIN h,
         NEW e, NEW ty, EntryOK(h, T, e, ty), e.made = h[c].made,
         c # main => ty = T[c] /\ (ready(h, c) => e.stage = "done"),
         c = main => e.home = User /\ e.at = User
  PROVE  /\ HeapOK([h EXCEPT ![c] = e], [T EXCEPT ![c] = ty])
         /\ Grows(h, T, [h EXCEPT ![c] = e], [T EXCEPT ![c] = ty])
<1> DEFINE g == [h EXCEPT ![c] = e]
           U == [T EXCEPT ![c] = ty]
<1>1. /\ DOMAIN g = DOMAIN h /\ g[c] = e /\ \A d \in DOMAIN h \ {c} : g[d] = h[d]
      /\ DOMAIN U = DOMAIN T /\ DOMAIN T = DOMAIN h
      /\ U[c] = ty /\ \A d \in DOMAIN h \ {c} : U[d] = T[d]
  BY DEF HeapOK
<1>2. Grows(h, T, g, U)
  <2>1. \A d \in Names(T) : U[d] = T[d] /\ (ready(h, d) => ready(g, d))
    BY <1>1 DEF Names, ready
  <2>2. QED
    BY <1>1, <2>1 DEF Grows
<1>3. Named(g)
  BY <1>1 DEF HeapOK, Named
<1>4. ASSUME NEW d \in DOMAIN g PROVE EntryOK(g, U, g[d], U[d])
  <2>1. CASE d = c
    <3>1. EntryOK(g, U, e, ty)
      BY <1>2, EntryGrows
    <3>2. QED
      BY <1>1, <2>1, <3>1
  <2>2. CASE d # c
    <3>1. EntryOK(h, T, h[d], T[d])
      BY <1>1 DEF HeapOK
    <3>2. EntryOK(g, U, h[d], T[d])
      BY <1>2, <3>1, EntryGrows
    <3>3. QED
      BY <1>1, <2>2, <3>2
  <2>3. QED
    BY <2>1, <2>2
<1>5. main \in DOMAIN g /\ g[main].home = User /\ g[main].at = User
  BY <1>1 DEF HeapOK
<1>6. QED
  BY <1>1, <1>2, <1>3, <1>4, <1>5 DEF HeapOK

-----------------------------------------------------------------------------
(* New cells *)

\* A proxy has its fields.
LEMMA Recorded ==
  ASSUME NEW h, NEW T, HeapOK(h, T), NEW x, IsProxy(T, x)
  PROVE  x \in ProxyRecord
<1>1. CASE x = null
  <2>1. <<>> \in Seq(Nat) /\ NoProc \in Place
    BY DEF Place
  <2>2. QED
    BY <1>1, <2>1 DEF null, proxy, ProxyRecord
<1>2. ASSUME NEW m \in Meaning, Means(T, x, m) PROVE x \in ProxyRecord
  <2>1. x = proxy(x.robj, x.proc) /\ x.robj \in DOMAIN h /\ x.proc \in {NoProc, m[2]}
    BY <1>2 DEF Means, Names, HeapOK
  <2>2. x.robj \in Seq(Nat)
    BY <2>1 DEF HeapOK, Named
  <2>3. x.proc \in Place
    BY <2>1, MeaningType, ProxyAssumption DEF Place
  <2>4. QED
    BY <2>1, <2>2, <2>3 DEF proxy, ProxyRecord
<1>3. QED
  BY <1>1, <1>2 DEF IsProxy

LEMMA JobShape ==
  ASSUME NEW h, NEW T, HeapOK(h, T), NEW do \in Does, NEW of \in DOMAIN T, NEW claim \in Place,
         NEW xs \in Seq(ProxyRecord), Len(xs) <= 2, \A i \in DOMAIN xs : IsProxy(T, xs[i])
  PROVE  /\ Shaped(T, Job(do, xs, of, claim))
         /\ Job(do, xs, of, claim).do = do /\ Job(do, xs, of, claim).xs = xs
         /\ Job(do, xs, of, claim).of = of /\ Job(do, xs, of, claim).claim = claim
<1>1. of \in Seq(Nat)
  BY DEF HeapOK, Named
<1>2. QED
  BY <1>1 DEF Shaped, Job, JobRecord

\* A job with one proxy.
LEMMA JobOf ==
  ASSUME NEW h, NEW T, HeapOK(h, T), NEW do \in Does, NEW x, NEW m \in Meaning, Means(T, x, m)
  PROVE  LET j == Job(do, <<x>>, <<>>, NoProc)
         IN  /\ Shaped(T, j) /\ j.do = do /\ j.xs = <<x>>
             /\ Of(T, j, m)
<1>1. IsProxy(T, x) /\ x \in ProxyRecord
  BY Recorded DEF IsProxy
<1>2. main \in DOMAIN T /\ main = <<>> /\ NoProc \in Place
  BY DEF HeapOK, main, Place
<1>3. <<x>> \in Seq(ProxyRecord) /\ DOMAIN <<x>> = {1} /\ <<x>>[1] = x /\ <<x>> # <<>>
  BY <1>1
<1>4. \A i \in DOMAIN <<x>> : IsProxy(T, <<x>>[i])
  BY <1>1, <1>3
<1>5. PICK j : j = Job(do, <<x>>, main, NoProc)
  OBVIOUS
<1>6. Shaped(T, j) /\ j.do = do /\ j.xs = <<x>>
  <2>1. PICK xs : xs = <<x>>
    OBVIOUS
  <2>2. xs \in Seq(ProxyRecord) /\ Len(xs) <= 2 /\ \A i \in DOMAIN xs : IsProxy(T, xs[i])
    BY <1>3, <1>4, <2>1
  <2>3. Shaped(T, Job(do, xs, main, NoProc)) /\ Job(do, xs, main, NoProc).do = do
        /\ Job(do, xs, main, NoProc).xs = xs
    BY <1>2, <2>2, JobShape
  <2>4. QED
    BY <1>5, <2>1, <2>3
<1>7. Of(T, j, m)
  BY <1>3, <1>6 DEF Of
<1>8. QED
  BY <1>2, <1>5, <1>6, <1>7

\* A job without a proxy.
LEMMA ConstantShape ==
  ASSUME NEW h, NEW T, HeapOK(h, T), NEW do \in Does, NEW n \in Int
  PROVE  LET j == Constant(do, n)
         IN  Shaped(T, j) /\ j.do = do /\ j.xs = <<>> /\ j.n = n
<1>1. main \in DOMAIN T /\ main = <<>> /\ <<>> \in Seq(Nat) /\ <<>> \in Seq(ProxyRecord)
  BY DEF HeapOK, main
<1>2. DOMAIN <<>> = {} /\ NoProc \in Place
  BY DEF Place
<1>3. PICK j : j = Constant(do, n)
  OBVIOUS
<1>4. j = [do |-> do, fn |-> None, n |-> n, xs |-> <<>>, of |-> <<>>, claim |-> NoProc]
  BY <1>3 DEF Constant, NoJob, Job
<1>5. j.do = do /\ j.fn = None /\ j.n = n /\ j.xs = <<>> /\ j.of = <<>> /\ j.claim = NoProc
  BY <1>4
<1>6. j \in JobRecord
  BY <1>1, <1>2, <1>4 DEF JobRecord
<1>7. Shaped(T, j)
  BY <1>1, <1>2, <1>5, <1>6 DEF Shaped
<1>8. QED
  BY <1>3, <1>5, <1>7

\* A job that waits for a cell.
LEMMA JobFor ==
  ASSUME NEW h, NEW T, HeapOK(h, T), NEW do \in Does, NEW c \in Names(T), NEW claim \in Place
  PROVE  LET j == Job(do, <<>>, c, claim)
         IN  Shaped(T, j) /\ j.do = do /\ j.of = c /\ j.claim = claim
<1>1. c \in DOMAIN T
  BY DEF Names
<1>2. PICK xs : xs = <<>>
  OBVIOUS
<1>3. xs \in Seq(ProxyRecord) /\ Len(xs) <= 2 /\ \A i \in DOMAIN xs : IsProxy(T, xs[i])
  BY <1>2
<1>4. /\ Shaped(T, Job(do, xs, c, claim)) /\ Job(do, xs, c, claim).do = do
      /\ Job(do, xs, c, claim).of = c /\ Job(do, xs, c, claim).claim = claim
  BY <1>1, <1>3, JobShape
<1>5. QED
  BY <1>2, <1>4

\* A call of job j at q, for a cell of p, makes what is of type ty.
JobFits(h, T, p, q, j, ty) ==
  \A e : e.home = p /\ e.at = q /\ e.job = j => JobOK(h, T, e, ty)

\* A cell for a call.
LEMMA NewTyped ==
  ASSUME NEW h, NEW T, HeapOK(h, T), NEW p \in Proc, NEW q \in Proc, NEW j, Shaped(T, j), NEW ty,
         JobFits(h, T, p, q, j, ty)
  PROVE  EntryOK(h, T, New(p, q, j), ty) /\ New(p, q, j).made = 0
<1>1. /\ New(p, q, j).home = p /\ New(p, q, j).at = q /\ New(p, q, j).job = j
      /\ New(p, q, j).value = NoValue /\ New(p, q, j).made = 0
      /\ New(p, q, j).stage \in {"sent", "run"}
      /\ New(p, q, j).stage = "sent" => p # q
  BY DEF New
<1>2. IsProxy(T, NoValue.inner)
  BY DEF NoValue, Value, IsProxy
<1>3. NoValue \in ValueRecord
  <2>1. null \in ProxyRecord
    BY Recorded DEF IsProxy
  <2>2. QED
    BY <2>1 DEF NoValue, Value, ValueRecord, Place
<1>4. New(p, q, j) \in Entry
  BY <1>3 DEF New, Entry, Shaped
<1>5. JobOK(h, T, New(p, q, j), ty)
  BY <1>1 DEF JobFits
<1>6. QED
  BY <1>1, <1>2, <1>4, <1>5 DEF EntryOK

\* A cell that is ready at once.
LEMMA ReadyTyped ==
  ASSUME NEW h, NEW T, HeapOK(h, T), NEW q \in Proc, NEW v \in ValueRecord, IsProxy(T, v.inner),
         NEW ty, Holds(h, T, v, ty)
  PROVE  EntryOK(h, T, Ready(q, v), ty) /\ Ready(q, v).made = 0
<1>1. Shaped(T, NoJob)
  <2>1. <<>> \in Seq(ProxyRecord) /\ DOMAIN <<>> = {} /\ main \in DOMAIN T /\ main = <<>>
    BY DEF HeapOK, main
  <2>2. None \in Does /\ NoProc \in Place
    BY DEF Does, Place
  <2>3. PICK xs : xs = <<>>
    OBVIOUS
  <2>4. NoJob = Job(None, xs, main, NoProc)
    BY <2>1, <2>3 DEF NoJob
  <2>5. xs \in Seq(ProxyRecord) /\ Len(xs) <= 2 /\ \A i \in DOMAIN xs : IsProxy(T, xs[i])
    BY <2>1, <2>3
  <2>6. Shaped(T, Job(None, xs, main, NoProc))
    BY <2>1, <2>2, <2>5, JobShape
  <2>7. QED
    BY <2>4, <2>6
<1>2. /\ Ready(q, v).stage = "done" /\ Ready(q, v).made = 0 /\ Ready(q, v).value = v
      /\ Ready(q, v).job = NoJob
  BY DEF Ready, New
<1>3. Ready(q, v) \in Entry
  BY <1>1 DEF Ready, New, Entry, Shaped
<1>4. QED
  BY <1>1, <1>2, <1>3 DEF EntryOK

\* The thread of t has made cells, and nothing else has changed.
Spawns(h, T, g, U, t) ==
  /\ HeapOK(g, U)
  /\ Grows(h, T, g, U)
  /\ DOMAIN h \subseteq DOMAIN g
  /\ U[t] = T[t] /\ U[main] = T[main]
  /\ g[t] = [h[t] EXCEPT !.made = g[t].made]
  /\ \A c \in DOMAIN h \ {t} : g[c] = h[c]

LEMMA Spawn ==
  ASSUME NEW h, NEW T, HeapOK(h, T), NEW t \in DOMAIN h, NEW e, NEW ty,
         EntryOK(h, T, e, ty), e.made = 0
  PROVE  \E U : /\ Spawns(h, T, Add(h, t, e), U, t)
                /\ Newest(Add(h, t, e), t) \in Names(U)
                /\ U[Newest(Add(h, t, e), t)] = ty
                /\ Add(h, t, e)[Newest(Add(h, t, e), t)] = e
<1> DEFINE n == Fresh(h, t)
           g == Add(h, t, e)
           U == Extend(T, n, ty)
<1>1. /\ Newest(g, t) = n /\ n \in Names(U) /\ n # main /\ n \notin DOMAIN h /\ U[n] = ty
      /\ HeapOK(g, U) /\ Grows(h, T, g, U) /\ g[n] = e
      /\ g[t] = [h[t] EXCEPT !.made = h[t].made + 1]
      /\ \A c \in DOMAIN h \ {t} : g[c] = h[c]
      /\ DOMAIN g = DOMAIN h \cup {n}
  <2>1. Added(h, T, t, e, ty)
    BY AddTyped
  <2>2. QED
    BY <2>1 DEF Added
<1>2. DOMAIN T = DOMAIN h /\ main \in DOMAIN h /\ h[t] \in Entry
  BY DEF HeapOK, EntryOK
<1>3. U[t] = T[t] /\ U[main] = T[main]
  BY <1>1, <1>2 DEF Extend
<1>4. g[t] = [h[t] EXCEPT !.made = g[t].made]
  BY <1>1, <1>2 DEF Entry
<1>5. Spawns(h, T, g, U, t)
  BY <1>1, <1>3, <1>4 DEF Spawns
<1>6. QED
  BY <1>1, <1>5

LEMMA SpawnsNothing ==
  ASSUME NEW h, NEW T, HeapOK(h, T), NEW t \in DOMAIN h
  PROVE  Spawns(h, T, h, T, t)
<1>1. h[t] = [h[t] EXCEPT !.made = h[t].made]
  BY DEF HeapOK, EntryOK, Entry
<1>2. QED
  BY <1>1 DEF Spawns, Grows

LEMMA SpawnsMore ==
  ASSUME NEW h, NEW T, HeapOK(h, T), NEW g, NEW U, NEW f, NEW V, NEW t \in DOMAIN h,
         Spawns(h, T, g, U, t), Spawns(g, U, f, V, t)
  PROVE  Spawns(h, T, f, V, t)
<1>1. /\ HeapOK(f, V) /\ Grows(h, T, f, V) /\ DOMAIN h \subseteq DOMAIN f
      /\ V[t] = T[t] /\ V[main] = T[main]
      /\ \A c \in DOMAIN h \ {t} : f[c] = h[c]
  BY GrowsTransitive DEF Spawns
<1>2. h[t] \in Entry
  BY DEF HeapOK, EntryOK
<1>3. f[t] = [h[t] EXCEPT !.made = f[t].made]
  <2>1. PICK a : a = g[t].made
    OBVIOUS
  <2>2. PICK b : b = f[t].made
    OBVIOUS
  <2>3. g[t] = [h[t] EXCEPT !.made = a] /\ f[t] = [g[t] EXCEPT !.made = b]
    BY <2>1, <2>2 DEF Spawns
  <2>4. f[t] = [h[t] EXCEPT !.made = b]
    BY <1>2, <2>3 DEF Entry
  <2>5. QED
    BY <2>2, <2>4
<1>4. QED
  BY <1>1, <1>3 DEF Spawns

-----------------------------------------------------------------------------
(* What a cell that is ready holds *)

LEMMA HoldsPtr ==
  ASSUME NEW h, NEW T, NEW v, NEW m, Holds(h, T, v, ptr(m))
  PROVE  /\ m \in Meaning /\ v.proc = m[2]
         /\ Len(m) = 2 => v.n = m[1]
         /\ Len(m) = 3 => Means(T, v.inner, <<m[1], m[3]>>)
BY Kinds DEF Holds

LEMMA HoldsProx ==
  ASSUME NEW h, NEW T, NEW v, NEW m, Holds(h, T, v, prox(m))
  PROVE  m \in Meaning /\ Means(T, v.inner, m)
BY Kinds DEF Holds

LEMMA HoldsNum ==
  ASSUME NEW h, NEW T, NEW v, NEW n, Holds(h, T, v, num(n))
  PROVE  v.n = n
BY Kinds DEF Holds

LEMMA HoldsProc ==
  ASSUME NEW h, NEW T, NEW v, NEW x, NEW m, Holds(h, T, v, proc_of(x, m))
  PROVE  Means(T, x, m) /\ v.proc = m[2] /\ Knows(h, x)
BY Kinds DEF Holds

LEMMA IsPtr ==
  ASSUME NEW h, NEW T, NEW v, NEW m \in Meaning, v.proc = m[2], Len(m) = 2 => v.n = m[1],
         Len(m) = 3 => Means(T, v.inner, <<m[1], m[3]>>)
  PROVE  Holds(h, T, v, ptr(m))
BY DEF Holds

LEMMA ReadyValue ==
  ASSUME NEW h, NEW T, HeapOK(h, T), NEW c \in DOMAIN T, ready(h, c)
  PROVE  /\ Holds(h, T, h[c].value, T[c])
         /\ IsProxy(T, h[c].value.inner)
         /\ h[c].value \in ValueRecord
BY DEF HeapOK, EntryOK, ready, Entry

\* The object of a proxy that is ready.
LEMMA Got ==
  ASSUME NEW h, NEW T, HeapOK(h, T), NEW x, NEW m, Means(T, x, m), ready(h, x.robj)
  PROVE  /\ Holds(h, T, get(h, x), ptr(m))
         /\ get(h, x).proc = m[2]
         /\ Len(m) = 2 => get(h, x).n = m[1]
         /\ Len(m) = 3 => Means(T, get(h, x).inner, <<m[1], m[3]>>)
         /\ IsProxy(T, get(h, x).inner) /\ get(h, x) \in ValueRecord
<1>1. x.robj \in DOMAIN T /\ T[x.robj] = ptr(m)
  BY DEF Means, Names
<1>2. /\ Holds(h, T, get(h, x), ptr(m)) /\ IsProxy(T, get(h, x).inner)
      /\ get(h, x) \in ValueRecord
  BY <1>1, ReadyValue DEF get
<1>3. QED
  BY <1>2, HoldsPtr

LEMMA GotValue ==
  ASSUME NEW h, NEW T, HeapOK(h, T), NEW x, NEW m, Means(T, x, m), ready(h, x.robj)
  PROVE  /\ Holds(h, T, get(h, x), ptr(m))
         /\ IsProxy(T, get(h, x).inner) /\ get(h, x) \in ValueRecord
<1>1. x.robj \in DOMAIN T /\ T[x.robj] = ptr(m)
  BY DEF Means, Names
<1>2. QED
  BY <1>1, ReadyValue DEF get

LEMMA GotProc ==
  ASSUME NEW h, NEW T, HeapOK(h, T), NEW x, NEW m, Means(T, x, m), ready(h, x.robj)
  PROVE  get(h, x).proc = m[2]
<1>1. PICK v : v = get(h, x)
  OBVIOUS
<1>2. Holds(h, T, v, ptr(m))
  BY <1>1, GotValue
<1>3. v.proc = m[2]
  BY <1>2, HoldsPtr
<1>4. QED
  BY <1>1, <1>3

\* A meaning has a process, which is not NoProc.
LEMMA MeantProc ==
  ASSUME NEW T, NEW x, NEW m, Means(T, x, m)
  PROVE  m \in Meaning /\ m[1] \in Int /\ m[2] \in Proc /\ m[2] # NoProc /\ x # null
<1>1. m \in Meaning /\ x.robj # main
  BY DEF Means, Names
<1>2. m[1] \in Int /\ m[2] \in Proc
  BY <1>1, MeaningType, ProxyAssumption
<1>3. null.robj = main
  BY DEF null, proxy, main
<1>4. QED
  BY <1>1, <1>2, <1>3, ProxyAssumption

LEMMA ProcReady ==
  ASSUME NEW h, NEW T, HeapOK(h, T), NEW x, NEW m, Means(T, x, m)
  PROVE  /\ Means(T, proc_ready(h, x), m)
         /\ proc_ready(h, x).robj = x.robj
         /\ Knows(h, x) => proc_ready(h, x).proc = m[2]
         /\ ~Knows(h, x) => proc_ready(h, x).proc = NoProc
         /\ x.proc # NoProc => proc_ready(h, x) = x
         /\ proc_ready(h, x).proc = NoProc => proc_ready(h, x) = x
         /\ get_proc(h, x) = proc_ready(h, x).proc
<1>0. m[2] # NoProc
  BY MeantProc
<1>1. CASE x.proc = NoProc /\ ready(h, x.robj)
  <2>1. proc_ready(h, x) = proxy(x.robj, m[2])
    <3>1. get(h, x).proc = m[2]
      BY <1>1, GotProc
    <3>2. QED
      BY <1>1, <3>1 DEF proc_ready
  <2>2. proxy(x.robj, m[2]).robj = x.robj /\ proxy(x.robj, m[2]).proc = m[2]
    BY DEF proxy
  <2>3. QED
    BY <1>0, <1>1, <2>1, <2>2 DEF Means, Knows, get_proc
<1>2. CASE ~(x.proc = NoProc /\ ready(h, x.robj))
  <2>1. proc_ready(h, x) = x
    BY <1>2 DEF proc_ready
  <2>2. x.proc \in {NoProc, m[2]}
    BY DEF Means
  <2>3. QED
    BY <1>0, <1>2, <2>1, <2>2 DEF Knows, get_proc
<1>3. QED
  BY <1>1, <1>2

LEMMA GetProcIs ==
  ASSUME NEW h, NEW T, HeapOK(h, T), NEW x, NEW m, Means(T, x, m), ready(h, x.robj)
  PROVE  get_proc(h, x) = m[2]
<1>1. Knows(h, x)
  BY DEF Knows
<1>2. proc_ready(h, x).proc = m[2] /\ get_proc(h, x) = proc_ready(h, x).proc
  BY <1>1, ProcReady
<1>3. QED
  BY <1>2

-----------------------------------------------------------------------------
(* The operations of a thread on proxies *)

LEMMA GetProcFuture ==
  ASSUME NEW h, NEW T, HeapOK(h, T), NEW t \in DOMAIN h, NEW x, NEW m, Means(T, x, m)
  PROVE  LET g == get_proc_future(h, t, x)
         IN  \E U : /\ Spawns(h, T, g, U, t) /\ Newest(g, t) \in Names(U)
                    /\ U[Newest(g, t)] = proc_of(proc_ready(h, x), m)
<1>1. PICK y : y = proc_ready(h, x)
  OBVIOUS
<1>2. PICK q : q = h[t].at
  OBVIOUS
<1>3. q \in Proc
  BY <1>2 DEF HeapOK, EntryOK, Entry
<1>4. /\ Means(T, y, m) /\ (y.proc # NoProc => y.proc = m[2] /\ Knows(h, y))
      /\ (y.proc = NoProc => y = x)
  BY <1>1, ProcReady DEF Knows
<1>5. m \in Meaning /\ m[2] \in Proc
  BY MeantProc
<1>6. CASE y.proc # NoProc
  <2>1. PICK v : v = Value(y.proc, 0, null)
    OBVIOUS
  <2>2. null \in ProxyRecord /\ IsProxy(T, null)
    BY Recorded DEF IsProxy
  <2>3. v \in ValueRecord /\ v.proc = m[2] /\ v.inner = null
    BY <1>4, <1>5, <1>6, <2>1, <2>2 DEF Value, ValueRecord, Place
  <2>4. Holds(h, T, v, proc_of(y, m))
    BY <1>4, <1>6, <2>3 DEF Holds
  <2>5. EntryOK(h, T, Ready(q, v), proc_of(y, m)) /\ Ready(q, v).made = 0
    BY <1>3, <2>2, <2>3, <2>4, ReadyTyped
  <2>6. get_proc_future(h, t, x) = Add(h, t, Ready(q, v))
    BY <1>1, <1>2, <1>6, <2>1 DEF get_proc_future
  <2>7. QED
    BY <1>1, <2>5, <2>6, Spawn
<1>7. CASE y.proc = NoProc
  <2>1. PICK j : j = Job("get_proc", <<x>>, <<>>, NoProc)
    OBVIOUS
  <2>2. Shaped(T, j) /\ j.do = "get_proc" /\ j.xs = <<x>> /\ Of(T, j, m)
    BY <1>5, <2>1, JobOf DEF Does
  <2>3. ASSUME NEW e, e.home = q, e.at = q, e.job = j PROVE JobOK(h, T, e, proc_of(y, m))
    <3>1. e.job.xs[1] = y
      BY <1>4, <1>7, <2>2, <2>3
    <3>2. GetsProc(T, e, proc_of(y, m), m)
      BY <2>2, <2>3, <3>1 DEF GetsProc
    <3>3. QED
      BY <1>5, <3>2 DEF JobOK
  <2>4. EntryOK(h, T, New(q, q, j), proc_of(y, m)) /\ New(q, q, j).made = 0
    <3>1. JobFits(h, T, q, q, j, proc_of(y, m))
      BY <2>3 DEF JobFits
    <3>2. QED
      BY <1>3, <2>2, <3>1, NewTyped
  <2>5. get_proc_future(h, t, x) = Add(h, t, New(q, q, j))
    BY <1>1, <1>2, <1>7, <2>1 DEF get_proc_future
  <2>6. QED
    BY <1>1, <2>4, <2>5, Spawn
<1>8. QED
  BY <1>6, <1>7

\* The call of one of the two threads that get the pointer, here or at p.
calling(h, t, p, do, y) == Add(h, t, New(h[t].at, p, Job(do, <<y>>, <<>>, NoProc)))

LEMMA SpawnGetPtr ==
  ASSUME NEW h, NEW T, HeapOK(h, T), NEW t \in DOMAIN h, NEW y, NEW m, Means(T, y, m),
         NEW do, NEW p \in Proc,
         \/ do = "get_ptr" /\ p = m[2]
         \/ do = "get_ptr_later" /\ p = h[t].at
  PROVE  LET g == calling(h, t, p, do, y)
         IN  \E U : /\ Spawns(h, T, g, U, t) /\ Newest(g, t) \in Names(U)
                    /\ U[Newest(g, t)] = ptr(At(m, h[t].at))
<1>1. PICK q : q = h[t].at
  OBVIOUS
<1>2. q \in Proc /\ m \in Meaning /\ do \in Does
  BY <1>1, MeantProc DEF HeapOK, EntryOK, Entry, Does
<1>3. PICK j : j = Job(do, <<y>>, <<>>, NoProc)
  OBVIOUS
<1>4. Shaped(T, j) /\ j.do = do /\ Of(T, j, m)
  BY <1>2, <1>3, JobOf
<1>5. PICK ty : ty = ptr(At(m, q))
  OBVIOUS
<1>6. ASSUME NEW e, e.home = q, e.at = p, e.job = j PROVE JobOK(h, T, e, ty)
  <2>1. GetsPtr(T, e, ty, m) \/ GetsPtrLater(T, e, ty, m)
    BY <1>1, <1>4, <1>5, <1>6 DEF GetsPtr, GetsPtrLater
  <2>2. QED
    BY <1>2, <2>1 DEF JobOK
<1>7. EntryOK(h, T, New(q, p, j), ty) /\ New(q, p, j).made = 0
  <2>1. JobFits(h, T, q, p, j, ty)
    BY <1>6 DEF JobFits
  <2>2. QED
    BY <1>2, <1>4, <2>1, NewTyped
<1>8. calling(h, t, p, do, y) = Add(h, t, New(q, p, j))
  BY <1>1, <1>3 DEF calling
<1>9. QED
  BY <1>1, <1>5, <1>7, <1>8, Spawn

LEMMA MakeLocalPtr ==
  ASSUME NEW h, NEW T, HeapOK(h, T), NEW t \in DOMAIN h, NEW x, NEW m, Means(T, x, m)
  PROVE  LET r == make_local_shared_ptr(h, t, x)
         IN  \E U : /\ Spawns(h, T, r.h, U, t) /\ r.c \in Names(U)
                    /\ U[r.c] = ptr(At(m, h[t].at))
<1>1. PICK y : y = proc_ready(h, x)
  OBVIOUS
<1>2. PICK q : q = h[t].at
  OBVIOUS
<1>3. q \in Proc
  BY <1>2 DEF HeapOK, EntryOK, Entry
<1>4. /\ Means(T, y, m) /\ y.proc \in {NoProc, m[2]} /\ y.robj = x.robj
  BY <1>1, ProcReady DEF Means
<1>5. m \in Meaning /\ m[2] \in Proc /\ m[2] # NoProc
  BY MeantProc
<1>6. CASE y.proc = q /\ ready(h, x.robj)
  <2>1. make_local_shared_ptr(h, t, x) = [h |-> h, c |-> x.robj]
    BY <1>1, <1>2, <1>6 DEF make_local_shared_ptr
  <2>2. m[2] = q
    BY <1>3, <1>4, <1>6, ProxyAssumption
  <2>3. At(m, q) = m
    BY <1>5, <2>2, MeaningType DEF At
  <2>4. x.robj \in Names(T) /\ T[x.robj] = ptr(m)
    BY DEF Means
  <2>5. Spawns(h, T, h, T, t)
    BY SpawnsNothing
  <2>6. QED
    BY <1>2, <2>1, <2>3, <2>4, <2>5
<1>8. CASE y.proc = q /\ ~ready(h, x.robj)
  <2>1. m[2] = q
    BY <1>3, <1>4, <1>8, ProxyAssumption
  <2>2. PICK g : g = calling(h, t, q, "get_ptr", y)
    OBVIOUS
  <2>3. \E U : /\ Spawns(h, T, g, U, t) /\ Newest(g, t) \in Names(U)
              /\ U[Newest(g, t)] = ptr(At(m, q))
    BY <1>2, <1>3, <1>4, <1>5, <2>1, <2>2, SpawnGetPtr
  <2>4. make_local_shared_ptr(h, t, x) = [h |-> g, c |-> Newest(g, t)]
    BY <1>1, <1>2, <1>8, <2>2 DEF make_local_shared_ptr, calling
  <2>5. QED
    BY <1>2, <2>3, <2>4
<1>9. CASE y.proc \notin {q, NoProc}
  <2>1. y.proc = m[2]
    BY <1>4, <1>9
  <2>2. PICK g : g = calling(h, t, m[2], "get_ptr", y)
    OBVIOUS
  <2>3. \E U : /\ Spawns(h, T, g, U, t) /\ Newest(g, t) \in Names(U)
              /\ U[Newest(g, t)] = ptr(At(m, q))
    BY <1>2, <1>3, <1>4, <1>5, <2>1, <2>2, SpawnGetPtr
  <2>4. make_local_shared_ptr(h, t, x) = [h |-> g, c |-> Newest(g, t)]
    BY <1>1, <1>2, <1>9, <2>1, <2>2 DEF make_local_shared_ptr, calling
  <2>5. QED
    BY <1>2, <2>3, <2>4
<1>10. CASE y.proc = NoProc
  <2>1. q # NoProc
    BY <1>3, ProxyAssumption
  <2>2. PICK g : g = calling(h, t, q, "get_ptr_later", y)
    OBVIOUS
  <2>3. \E U : /\ Spawns(h, T, g, U, t) /\ Newest(g, t) \in Names(U)
              /\ U[Newest(g, t)] = ptr(At(m, q))
    BY <1>2, <1>3, <1>4, <1>5, <2>1, <2>2, SpawnGetPtr
  <2>4. make_local_shared_ptr(h, t, x) = [h |-> g, c |-> Newest(g, t)]
    BY <1>1, <1>2, <1>10, <2>1, <2>2 DEF make_local_shared_ptr, calling
  <2>5. QED
    BY <1>2, <2>3, <2>4
<1>11. QED
  BY <1>6, <1>8, <1>9, <1>10

\* A cell that waits for another one, of the same type.
LEMMA SpawnAwait ==
  ASSUME NEW h, NEW T, HeapOK(h, T), NEW t \in DOMAIN h, NEW c \in Names(T), NEW q \in Proc
  PROVE  LET g == Add(h, t, New(q, q, Job("await", <<>>, c, NoProc)))
         IN  \E U : Spawns(h, T, g, U, t) /\ Newest(g, t) \in Names(U) /\ U[Newest(g, t)] = T[c]
<1>1. PICK j : j = Job("await", <<>>, c, NoProc)
  OBVIOUS
<1>2. Shaped(T, j) /\ j.do = "await" /\ j.of = c
  <2>1. "await" \in Does /\ NoProc \in Place
    BY DEF Does, Place
  <2>2. QED
    BY <1>1, <2>1, JobFor
<1>3. ASSUME NEW e, e.home = q, e.at = q, e.job = j PROVE JobOK(h, T, e, T[c])
  <2>1. Awaits(T, e, T[c])
    BY <1>2, <1>3 DEF Awaits
  <2>2. <<0, User>> \in Meaning
    BY ProxyAssumption DEF Meaning
  <2>3. QED
    BY <2>1, <2>2 DEF JobOK
<1>4. EntryOK(h, T, New(q, q, j), T[c]) /\ New(q, q, j).made = 0
  <2>1. JobFits(h, T, q, q, j, T[c])
    BY <1>3 DEF JobFits
  <2>2. QED
    BY <1>2, <2>1, NewTyped
<1>5. QED
  BY <1>1, <1>4, Spawn

LEMMA FromPtr ==
  ASSUME NEW h, NEW T, HeapOK(h, T), NEW t \in DOMAIN h, NEW c \in Names(T), NEW m \in Meaning,
         T[c] = ptr(m), m[2] = h[t].at
  PROVE  LET r == from_shared_ptr(h, t, c)
         IN  \E U : Spawns(h, T, r.h, U, t) /\ Means(U, r.x, m) /\ r.x.proc = m[2]
<1>1. PICK q : q = h[t].at
  OBVIOUS
<1>2. q \in Proc /\ m[2] = q
  BY <1>1 DEF HeapOK, EntryOK, Entry
<1>3. \A d : proxy(d, q).robj = d /\ proxy(d, q).proc = q
  BY DEF proxy
<1>4. CASE ready(h, c)
  <2>1. from_shared_ptr(h, t, c) = [h |-> h, x |-> proxy(c, q)]
    BY <1>1, <1>4 DEF from_shared_ptr
  <2>2. Means(T, proxy(c, q), m)
    BY <1>2, <1>3 DEF Means
  <2>3. QED
    BY <1>2, <1>3, <2>1, <2>2, SpawnsNothing
<1>5. CASE ~ready(h, c)
  <2>1. PICK g : g = Add(h, t, New(q, q, Job("await", <<>>, c, NoProc)))
    OBVIOUS
  <2>2. PICK U : Spawns(h, T, g, U, t) /\ Newest(g, t) \in Names(U) /\ U[Newest(g, t)] = ptr(m)
    BY <1>2, <2>1, SpawnAwait
  <2>3. from_shared_ptr(h, t, c) = [h |-> g, x |-> proxy(Newest(g, t), q)]
    BY <1>1, <1>5, <2>1 DEF from_shared_ptr
  <2>4. Means(U, proxy(Newest(g, t), q), m)
    BY <1>2, <1>3, <2>2 DEF Means
  <2>5. QED
    BY <1>2, <1>3, <2>2, <2>3, <2>4
<1>6. QED
  BY <1>4, <1>5

LEMMA MakeLocalTyped ==
  ASSUME NEW h, NEW T, HeapOK(h, T), NEW t \in DOMAIN h, NEW x, NEW m, Means(T, x, m)
  PROVE  LET r == make_local(h, t, x)
         IN  \E U : /\ Spawns(h, T, r.h, U, t) /\ Means(U, r.x, At(m, h[t].at))
                    /\ r.x.proc = h[t].at
<1>1. PICK q : q = h[t].at
  OBVIOUS
<1>2. q \in Proc /\ h[t] \in Entry
  BY <1>1 DEF HeapOK, EntryOK, Entry
<1>3. m \in Meaning
  BY MeantProc
<1>4. PICK n : n = At(m, q)
  OBVIOUS
<1>5. n \in Meaning /\ n[2] = q
  BY <1>2, <1>3, <1>4, MeaningType
<1>6. PICK r : r = make_local_shared_ptr(h, t, x)
  OBVIOUS
<1>7. PICK U : Spawns(h, T, r.h, U, t) /\ r.c \in Names(U) /\ U[r.c] = ptr(n)
  BY <1>1, <1>4, <1>6, MakeLocalPtr
<1>8. HeapOK(r.h, U) /\ t \in DOMAIN r.h /\ r.h[t].at = q
  BY <1>1, <1>2, <1>7 DEF Spawns, Entry
<1>9. PICK s : s = from_shared_ptr(r.h, t, r.c)
  OBVIOUS
<1>10. PICK V : Spawns(r.h, U, s.h, V, t) /\ Means(V, s.x, n) /\ s.x.proc = q
  BY <1>5, <1>7, <1>8, <1>9, FromPtr
<1>11. Spawns(h, T, s.h, V, t)
  BY <1>7, <1>10, SpawnsMore
<1>12. make_local(h, t, x) = s
  BY <1>6, <1>9 DEF make_local
<1>13. QED
  BY <1>1, <1>4, <1>10, <1>11, <1>12

LEMMA LoadTyped ==
  ASSUME NEW h, NEW T, HeapOK(h, T), NEW t \in DOMAIN h, NEW x, IsProxy(T, x), NEW q \in Proc
  PROVE  LET r == load(h, t, x, q)
         IN  \E U : /\ Spawns(h, T, r.h, U, t) /\ IsProxy(U, r.x)
                    /\ \A m : Means(T, x, m) => Means(U, r.x, m)
                    /\ x # null /\ Knows(h, x) => Knows(r.h, r.x)
<1>1. CASE x = null \/ ready(h, x.robj)
  <2>1. load(h, t, x, q) = [h |-> h, x |-> x]
    BY <1>1 DEF load
  <2>2. QED
    BY <2>1, SpawnsNothing
<1>2. CASE x # null /\ ~ready(h, x.robj)
  <2>1. PICK m \in Meaning : Means(T, x, m)
    BY <1>2 DEF IsProxy
  <2>2. PICK g : g = Add(h, t, New(q, q, Job("await", <<>>, x.robj, NoProc)))
    OBVIOUS
  <2>3. x.robj \in Names(T) /\ T[x.robj] = ptr(m)
    BY <2>1 DEF Means
  <2>4. PICK U : Spawns(h, T, g, U, t) /\ Newest(g, t) \in Names(U) /\ U[Newest(g, t)] = ptr(m)
    BY <2>2, <2>3, SpawnAwait
  <2>5. PICK y : y = proxy(Newest(g, t), x.proc)
    OBVIOUS
  <2>6. y.robj = Newest(g, t) /\ y.proc = x.proc /\ y = proxy(y.robj, y.proc)
    BY <2>5 DEF proxy
  <2>7. load(h, t, x, q) = [h |-> g, x |-> y]
    BY <1>2, <2>2, <2>5 DEF load
  <2>8. Means(U, y, m)
    BY <2>1, <2>4, <2>6 DEF Means
  <2>9. \A n : Means(T, x, n) => n = m
    BY <2>3, Kinds DEF Means
  <2>10. Knows(h, x) => Knows(g, y)
    BY <1>2, <2>6 DEF Knows
  <2>11. QED
    BY <2>4, <2>7, <2>8, <2>9, <2>10 DEF IsProxy
<1>3. QED
  BY <1>1, <1>2

-----------------------------------------------------------------------------
(* A step of a thread *)

\* The heap h with typing T has become g with U in a step of a thread.
Moves(h, T, g, U) ==
  /\ HeapOK(g, U)
  /\ Grows(h, T, g, U)
  /\ U[main] = T[main]
  /\ g[main].stage = "idle" => h[main].stage = "idle"

\* The thread of t has made cells, and then its own cell changes.
LEMMA Moved ==
  ASSUME NEW h, NEW T, HeapOK(h, T), NEW t \in DOMAIN h, h[t].stage \in {"run", "sent", "back"},
         NEW g, NEW U, Spawns(h, T, g, U, t),
         NEW e, EntryOK(g, U, e, T[t]), e.made = g[t].made,
         e.home = h[t].home, e.at = h[t].at, e.stage # "idle"
  PROVE  \E V : Moves(h, T, [g EXCEPT ![t] = e], V)
<1>1. /\ HeapOK(g, U) /\ Grows(h, T, g, U) /\ t \in DOMAIN g
      /\ U[t] = T[t] /\ U[main] = T[main] /\ h[t] \in Entry
      /\ g[t] = [h[t] EXCEPT !.made = g[t].made]
      /\ \A c \in DOMAIN h \ {t} : g[c] = h[c]
      /\ main \in DOMAIN h /\ h[main].home = User /\ h[main].at = User
      /\ DOMAIN U = DOMAIN g
  BY DEF Spawns, HeapOK, EntryOK
<1>2. g[t].stage = h[t].stage
  BY <1>1 DEF Entry
<1>3. PICK f : f = [g EXCEPT ![t] = e]
  OBVIOUS
<1>4. PICK V : V = [U EXCEPT ![t] = T[t]]
  OBVIOUS
<1>5. ~ready(g, t)
  BY <1>2 DEF ready
<1>6. HeapOK(f, V) /\ Grows(g, U, f, V)
  <2>1. t # main => T[t] = U[t] /\ (ready(g, t) => e.stage = "done")
    BY <1>1, <1>5
  <2>2. t = main => e.home = User /\ e.at = User
    BY <1>1
  <2>3. /\ HeapOK([g EXCEPT ![t] = e], [U EXCEPT ![t] = T[t]])
        /\ Grows(g, U, [g EXCEPT ![t] = e], [U EXCEPT ![t] = T[t]])
    BY <1>1, <2>1, <2>2, ChangeTyped
  <2>4. QED
    BY <1>3, <1>4, <2>3
<1>7. Grows(h, T, f, V)
  BY <1>1, <1>6, GrowsTransitive
<1>8. V[main] = T[main]
  BY <1>1, <1>4
<1>9. f[main].stage = "idle" => h[main].stage = "idle"
  BY <1>1, <1>3
<1>10. QED
  BY <1>3, <1>6, <1>7, <1>8, <1>9 DEF Moves

\* The thread ends with a value of its type.
LEMMA Finished ==
  ASSUME NEW T, HeapOK(cell, T), NEW t \in DOMAIN cell, cell[t].stage = "run",
         NEW g, NEW U, Spawns(cell, T, g, U, t),
         NEW v \in ValueRecord, IsProxy(U, v.inner),
         \/ cell[t].job.do # "get_ptr" /\ Holds(g, U, v, T[t])
         \/ /\ cell[t].job.do = "get_ptr"
            /\ \E m \in Meaning : /\ T[t] = ptr(At(m, cell[t].home))
                                  /\ Holds(g, U, v, ptr(At(m, cell[t].at))),
         Finish(g, t, v)
  PROVE  \E V : Moves(cell, T, cell', V)
<1>1. PICK h : h = cell
  OBVIOUS
<1>2. PICK f : f = cell'
  OBVIOUS
<1>3. /\ HeapOK(g, U) /\ t \in DOMAIN g /\ g[t] \in Entry /\ h[t] \in Entry
      /\ g[t] = [h[t] EXCEPT !.made = g[t].made] /\ Shaped(U, g[t].job) /\ g[t].made \in Nat
  BY <1>1 DEF Spawns, HeapOK, EntryOK, Entry
<1>4. g[t].home = h[t].home /\ g[t].at = h[t].at /\ g[t].job = h[t].job
  BY <1>3 DEF Entry
<1>5. PICK s \in {"done", "back"} : s = IF g[t].home = g[t].at THEN "done" ELSE "back"
  OBVIOUS
<1>6. PICK e : e = [g[t] EXCEPT !.value = v, !.stage = s]
  OBVIOUS
<1>7. /\ e \in Entry /\ e.home = h[t].home /\ e.at = h[t].at /\ e.stage = s /\ e.value = v
      /\ e.job = h[t].job /\ e.made = g[t].made
  BY <1>3, <1>4, <1>6 DEF Entry
<1>8. f = [g EXCEPT ![t] = e]
  BY <1>2, <1>5, <1>6 DEF Finish
<1>9. CASE s = "done"
  <2>1. Holds(g, U, v, T[t])
    BY <1>1, <1>4, <1>5, <1>9
  <2>2. EntryOK(g, U, e, T[t])
    BY <1>3, <1>4, <1>7, <1>9, <2>1 DEF EntryOK
  <2>3. \E V : Moves(h, T, [g EXCEPT ![t] = e], V)
    <3>1. /\ HeapOK(h, T) /\ t \in DOMAIN h /\ h[t].stage \in {"run", "sent", "back"}
          /\ Spawns(h, T, g, U, t) /\ e.stage # "idle"
      BY <1>1, <1>7, <1>9
    <3>2. QED
      BY <1>7, <2>2, <3>1, Moved
  <2>4. QED
    BY <1>1, <1>2, <1>8, <2>3
<1>10. CASE s = "back"
  <2>1. Returns(g, U, e, T[t])
    BY <1>1, <1>7 DEF Returns
  <2>2. EntryOK(g, U, e, T[t])
    BY <1>3, <1>4, <1>7, <1>10, <2>1 DEF EntryOK
  <2>3. \E V : Moves(h, T, [g EXCEPT ![t] = e], V)
    <3>1. /\ HeapOK(h, T) /\ t \in DOMAIN h /\ h[t].stage \in {"run", "sent", "back"}
          /\ Spawns(h, T, g, U, t) /\ e.stage # "idle"
      BY <1>1, <1>7, <1>10
    <3>2. QED
      BY <1>7, <2>2, <3>1, Moved
  <2>4. QED
    BY <1>1, <1>2, <1>8, <2>3
<1>11. QED
  BY <1>9, <1>10

\* The thread goes on with another job that makes what its cell shall hold.
LEMMA Continued ==
  ASSUME NEW T, HeapOK(cell, T), NEW t \in DOMAIN cell, cell[t].stage = "run",
         NEW g, NEW U, Spawns(cell, T, g, U, t), NEW j, Shaped(U, j),
         JobFits(g, U, cell[t].home, cell[t].at, j, T[t]),
         Continue(g, t, j)
  PROVE  \E V : Moves(cell, T, cell', V)
<1>1. PICK h : h = cell
  OBVIOUS
<1>2. PICK f : f = cell'
  OBVIOUS
<1>3. /\ HeapOK(g, U) /\ t \in DOMAIN g /\ g[t] \in Entry /\ h[t] \in Entry
      /\ g[t] = [h[t] EXCEPT !.made = g[t].made] /\ IsProxy(U, g[t].value.inner)
      /\ g[t].made \in Nat
  BY <1>1 DEF Spawns, HeapOK, EntryOK, Entry
<1>4. /\ g[t].home = h[t].home /\ g[t].at = h[t].at /\ g[t].stage = "run"
      /\ g[t].value = h[t].value
  BY <1>1, <1>3 DEF Entry
<1>5. PICK e : e = [g[t] EXCEPT !.job = j]
  OBVIOUS
<1>6. /\ e \in Entry /\ e.home = h[t].home /\ e.at = h[t].at /\ e.stage = "run"
      /\ e.value = g[t].value /\ e.job = j /\ e.made = g[t].made
  BY <1>3, <1>4, <1>5 DEF Entry, Shaped
<1>7. f = [g EXCEPT ![t] = e]
  BY <1>2, <1>5 DEF Continue
<1>8. JobOK(g, U, e, T[t])
  BY <1>1, <1>6 DEF JobFits
<1>9. EntryOK(g, U, e, T[t])
  BY <1>3, <1>6, <1>8 DEF EntryOK
<1>10. \E V : Moves(h, T, [g EXCEPT ![t] = e], V)
  <2>1. /\ HeapOK(h, T) /\ t \in DOMAIN h /\ h[t].stage \in {"run", "sent", "back"}
        /\ Spawns(h, T, g, U, t) /\ e.stage # "idle"
    BY <1>1, <1>6
  <2>2. QED
    BY <1>6, <1>9, <2>1, Moved
<1>11. QED
  BY <1>1, <1>2, <1>7, <1>10

\* What the step of a thread can use.
LEMMA ThreadState ==
  ASSUME NEW T, HeapOK(cell, T), NEW t \in DOMAIN cell
  PROVE  /\ cell[t] \in Entry /\ Shaped(T, cell[t].job) /\ IsProxy(T, cell[t].value.inner)
         /\ cell[t].home \in Proc /\ cell[t].at \in Proc
         /\ cell[t].stage \in {"sent", "run"} => JobOK(cell, T, cell[t], T[t])
         /\ cell[t].stage = "back" => Returns(cell, T, cell[t], T[t])
         /\ main \in DOMAIN cell
         /\ DOMAIN cell = DOMAIN T
BY DEF HeapOK, EntryOK, Entry

LEMMA ValueTyped ==
  ASSUME NEW h, NEW T, HeapOK(h, T), NEW p \in Place, NEW n \in Int, NEW x, IsProxy(T, x)
  PROVE  /\ Value(p, n, x) \in ValueRecord
         /\ Value(p, n, x).proc = p /\ Value(p, n, x).n = n /\ Value(p, n, x).inner = x
<1>1. x \in ProxyRecord
  BY Recorded
<1>2. QED
  BY <1>1 DEF Value, ValueRecord

LEMMA NewProxy ==
  ASSUME NEW T, NEW c \in Names(T), NEW m \in Meaning, T[c] = ptr(m), NEW p \in {NoProc, m[2]}
  PROVE  Means(T, proxy(c, p), m) /\ IsProxy(T, proxy(c, p)) /\ proxy(c, p).proc = p
<1>1. proxy(c, p).robj = c /\ proxy(c, p).proc = p
  BY DEF proxy
<1>2. QED
  BY <1>1 DEF Means, IsProxy

\* Calls of the same function with the same arguments.
Alike(j, k) == k.fn = j.fn /\ k.n = j.n /\ k.xs = j.xs

LEMMA SameCall ==
  ASSUME NEW j, NEW k, Alike(j, k), NEW T, NEW p, NEW m
  PROVE  /\ Makes(T, j, p, m) => Makes(T, k, p, m)
         /\ \A homes : Arguments(T, j, p, m, homes) => Arguments(T, k, p, m, homes)
         /\ \A h : Placed(h, j) => Placed(h, k)
BY DEF Alike, Makes, Arguments, Placed

LEMMA Reshaped ==
  ASSUME NEW T, NEW j, Shaped(T, j), NEW do \in Does
  PROVE  /\ Shaped(T, [j EXCEPT !.do = do])
         /\ [j EXCEPT !.do = do].do = do
         /\ [j EXCEPT !.do = do].of = j.of /\ [j EXCEPT !.do = do].claim = j.claim
         /\ Alike(j, [j EXCEPT !.do = do])
BY DEF Shaped, JobRecord, Alike

LEMMA Detached ==
  ASSUME NEW h, NEW T, HeapOK(h, T), NEW j, Shaped(T, j), NEW do \in Does
  PROVE  /\ Shaped(T, [j EXCEPT !.do = do, !.of = <<>>])
         /\ [j EXCEPT !.do = do, !.of = <<>>].do = do
         /\ Alike(j, [j EXCEPT !.do = do, !.of = <<>>])
<1>1. main \in DOMAIN T /\ main = <<>> /\ <<>> \in Seq(Nat)
  BY DEF HeapOK, main
<1>2. QED
  BY <1>1 DEF Shaped, JobRecord, Alike

\* The job that a thread has tells how its cell is typed.
LEMMA JobIs ==
  ASSUME NEW h, NEW T, NEW e, NEW ty, JobOK(h, T, e, ty)
  PROVE  \E m \in Meaning :
           /\ e.job.do = "invoke" => Invokes(h, T, e, ty, m)
           /\ e.job.do = "local" => Locals(h, T, e, ty, m)
           /\ e.job.do = "fold" => Folds(h, T, e, ty, m)
           /\ e.job.do = "apply_invoke" => Applies(T, e, ty, m)
           /\ e.job.do = "apply_fold" => AppliesFold(T, e, ty, m)
           /\ e.job.do \in {"remote", "remote_now"} => Remotes(T, e, ty, m)
           /\ e.job.do = "sync" => Syncs(T, e, ty, m)
           /\ e.job.do = "get_proc" => GetsProc(T, e, ty, m)
           /\ e.job.do = "get_ptr" => GetsPtr(T, e, ty, m)
           /\ e.job.do = "get_ptr_later" => GetsPtrLater(T, e, ty, m)
           /\ e.job.do = "unwrapped" => Unwraps(T, e, ty, m)
           /\ e.job.do = "deref" => Derefs(T, e, ty, m)
           /\ e.job.do = "await" => Awaits(T, e, ty)
           /\ e.job.do = "construct" => Constructs(T, e, ty, m)
           /\ e.job.do = "unproxy" => Unproxies(T, e, ty, m)
<1>1. PICK m \in Meaning :
        \/ Invokes(h, T, e, ty, m) \/ Locals(h, T, e, ty, m) \/ Folds(h, T, e, ty, m)
        \/ Applies(T, e, ty, m) \/ AppliesFold(T, e, ty, m)
        \/ Remotes(T, e, ty, m) \/ Syncs(T, e, ty, m)
        \/ GetsProc(T, e, ty, m) \/ GetsPtr(T, e, ty, m) \/ GetsPtrLater(T, e, ty, m)
        \/ Unwraps(T, e, ty, m) \/ Derefs(T, e, ty, m)
        \/ Awaits(T, e, ty) \/ Constructs(T, e, ty, m) \/ Unproxies(T, e, ty, m)
  BY DEF JobOK
<1>2. /\ Invokes(h, T, e, ty, m) => e.job.do = "invoke"
      /\ Locals(h, T, e, ty, m) => e.job.do = "local"
      /\ Folds(h, T, e, ty, m) => e.job.do = "fold"
      /\ Applies(T, e, ty, m) => e.job.do = "apply_invoke"
      /\ AppliesFold(T, e, ty, m) => e.job.do = "apply_fold"
  BY DEF Invokes, Locals, Folds, Applies, AppliesFold
<1>3. /\ Remotes(T, e, ty, m) => e.job.do \in {"remote", "remote_now"}
      /\ Syncs(T, e, ty, m) => e.job.do = "sync"
      /\ GetsProc(T, e, ty, m) => e.job.do = "get_proc"
      /\ GetsPtr(T, e, ty, m) => e.job.do = "get_ptr"
      /\ GetsPtrLater(T, e, ty, m) => e.job.do = "get_ptr_later"
  BY DEF Remotes, Syncs, GetsProc, GetsPtr, GetsPtrLater
<1>4. /\ Unwraps(T, e, ty, m) => e.job.do = "unwrapped"
      /\ Derefs(T, e, ty, m) => e.job.do = "deref"
      /\ Awaits(T, e, ty) => e.job.do = "await"
      /\ Constructs(T, e, ty, m) => e.job.do = "construct"
      /\ Unproxies(T, e, ty, m) => e.job.do = "unproxy"
  BY DEF Unwraps, Derefs, Awaits, Constructs, Unproxies
<1>5. PICK do : do = e.job.do
  OBVIOUS
<1>6. QED
  BY <1>1, <1>2, <1>3, <1>4, <1>5

\* A cell for a call, of any kind.
LEMMA SpawnNew ==
  ASSUME NEW h, NEW T, HeapOK(h, T), NEW t \in DOMAIN h, NEW p \in Proc, NEW q \in Proc,
         NEW j, Shaped(T, j), NEW ty,
         JobFits(h, T, p, q, j, ty)
  PROVE  LET g == Add(h, t, New(p, q, j))
         IN  /\ \E U : Spawns(h, T, g, U, t) /\ Newest(g, t) \in Names(U) /\ U[Newest(g, t)] = ty
             /\ g[Newest(g, t)].job = j
<1>1. EntryOK(h, T, New(p, q, j), ty) /\ New(p, q, j).made = 0
  BY NewTyped
<1>2. New(p, q, j).job = j
  BY DEF New
<1>3. QED
  BY <1>1, <1>2, Spawn

\* The arguments of a call that has arrived where its first proxy lives.
LEMMA Arrived ==
  ASSUME NEW h, NEW T, HeapOK(h, T), NEW j, NEW q \in Proc, NEW m,
         Arguments(T, j, q, m, Proc), Placed(h, j), Shaped(T, j)
  PROVE  get_proc(h, j.xs[1]) = q /\ null \notin Range(j.xs)
<1>1. PICK n \in Int :
        /\ j.xs # <<>>
        /\ Means(T, j.xs[1], <<n, q>>)
        /\ \/ j.fn = "inc" /\ Len(j.xs) = 1 /\ m = <<n + 1, q>>
           \/ j.fn = "here" /\ Len(j.xs) = 1 /\ m = <<n + 1, q, q>>
           \/ /\ j.fn = "add" /\ Len(j.xs) = 2
              /\ \E k \in Int, p \in Proc :
                   Means(T, j.xs[2], <<k, p>>) /\ m = <<n + 3 * k, q>>
  BY DEF Arguments
<1>2. Knows(h, j.xs[1])
  BY <1>1 DEF Placed
<1>3. get_proc(h, j.xs[1]) = q
  <2>1. PICK a : a = <<n, q>>
    OBVIOUS
  <2>2. Means(T, j.xs[1], a)
    BY <1>1, <2>1
  <2>3. get_proc(h, j.xs[1]) = a[2]
    BY <1>2, <2>2, ProcReady
  <2>4. QED
    BY <2>1, <2>3
<1>4. j.xs[1] # null
  BY <1>1, MeantProc
<1>5. Len(j.xs) = 2 => j.xs[2] # null
  BY <1>1, MeantProc
<1>6. j.xs \in Seq(ProxyRecord)
  BY DEF Shaped, JobRecord
<1>7. null \notin Range(j.xs)
  BY <1>1, <1>4, <1>5, <1>6 DEF Range
<1>8. QED
  BY <1>3, <1>7

LEMMA TailOfOne ==
  ASSUME NEW S, NEW s \in Seq(S), Len(s) = 1
  PROVE  Tail(s) = <<>>
<1>1. s # <<>>
  OBVIOUS
<1>2. Len(Tail(s)) = 0 /\ Tail(s) \in Seq(S)
  BY <1>1, HeadTailProperties
<1>3. QED
  BY <1>2, EmptySeq

LEMMA TailOfTwo ==
  ASSUME NEW S, NEW s \in Seq(S), Len(s) = 2
  PROVE  Tail(s) = <<s[2]>>
<1>1. s # <<>> /\ s[2] \in S
  OBVIOUS
<1>2. Len(Tail(s)) = 1 /\ Tail(s) \in Seq(S)
  BY <1>1, HeadTailProperties
<1>3. Tail(s)[1] = s[2]
  BY <1>1, <1>2, HeadTailProperties
<1>4. PICK r : r = Tail(s)
  OBVIOUS
<1>5. PICK u : u = <<s[2]>>
  OBVIOUS
<1>6. u \in Seq(S) /\ Len(u) = 1 /\ u[1] = s[2]
  BY <1>1, <1>5
<1>7. r = u
  <2>1. \A i \in 1 .. Len(r) : r[i] = u[i]
    BY <1>2, <1>3, <1>4, <1>6
  <2>2. QED
    BY <1>2, <1>4, <1>6, <2>1, SeqEqual
<1>8. QED
  BY <1>4, <1>5, <1>7

\* The arguments that are not the first, made local.
localized(h, t, xs) == Each(LAMBDA a, x : make_local(a, t, x), h, xs)

LEMMA LocalizedNone ==
  ASSUME NEW h, NEW t
  PROVE  localized(h, t, <<>>) = [h |-> h, xs |-> <<>>]
BY DEF localized, Each

LEMMA LocalizedOne ==
  ASSUME NEW h, NEW t, NEW y
  PROVE  localized(h, t, <<y>>) = [h |-> make_local(h, t, y).h, xs |-> <<make_local(h, t, y).x>>]
<1>1. Len(<<y>>) = 1 /\ <<y>>[1] = y
  OBVIOUS
<1>2. QED
  BY <1>1 DEF localized, Each

\* The call with job j of the thread of t has made its arguments local; r is
\* what localized returns, and U the typing then.
Local_arguments(h, T, t, j, m, r, U) ==
  LET xs == <<j.xs[1]>> \o r.xs
  IN  /\ Spawns(h, T, r.h, U, t)
      /\ xs \in Seq(ProxyRecord) /\ Len(xs) <= 2 /\ \A i \in DOMAIN xs : IsProxy(U, xs[i])
      /\ \A k : k.fn = j.fn /\ k.xs = xs => Arguments(U, k, h[t].at, m, {h[t].at})

\* Such a call makes the other arguments local.
LEMMA Localized ==
  ASSUME NEW h, NEW T, HeapOK(h, T), NEW t \in DOMAIN h, NEW j, NEW m,
         Arguments(T, j, h[t].at, m, Proc), Shaped(T, j)
  PROVE  \E U : Local_arguments(h, T, t, j, m, localized(h, t, Tail(j.xs)), U)
<1>1. PICK q : q = h[t].at
  OBVIOUS
<1>2. q \in Proc
  BY <1>1 DEF HeapOK, EntryOK, Entry
<1>3. PICK n \in Int :
        /\ j.xs # <<>>
        /\ Means(T, j.xs[1], <<n, q>>)
        /\ \/ j.fn = "inc" /\ Len(j.xs) = 1 /\ m = <<n + 1, q>>
           \/ j.fn = "here" /\ Len(j.xs) = 1 /\ m = <<n + 1, q, q>>
           \/ /\ j.fn = "add" /\ Len(j.xs) = 2
              /\ \E k \in Int, p \in Proc :
                   Means(T, j.xs[2], <<k, p>>) /\ m = <<n + 3 * k, q>>
  BY <1>1 DEF Arguments
<1>4. j.xs \in Seq(ProxyRecord)
  BY DEF Shaped, JobRecord
<1>5. PICK x : x = j.xs[1]
  OBVIOUS
<1>6. IsProxy(T, x) /\ x \in ProxyRecord /\ Means(T, x, <<n, q>>)
  BY <1>2, <1>3, <1>5, Recorded, MeantProc DEF IsProxy
<1>7. CASE Len(j.xs) = 1
  <2>1. Tail(j.xs) = <<>>
    BY <1>4, <1>7, TailOfOne
  <2>2. localized(h, t, Tail(j.xs)) = [h |-> h, xs |-> <<>>]
    BY <2>1, LocalizedNone
  <2>3. PICK xs : xs = <<x>>
    OBVIOUS
  <2>4. /\ xs = <<j.xs[1]>> \o <<>> /\ xs \in Seq(ProxyRecord)
        /\ xs # <<>> /\ Len(xs) = 1 /\ xs[1] = x /\ DOMAIN xs = {1}
    BY <1>5, <1>6, <2>3
  <2>5. \A i \in DOMAIN xs : IsProxy(T, xs[i])
    BY <1>6, <2>4
  <2>6. ASSUME NEW k, k.fn = j.fn, k.xs = xs PROVE Arguments(T, k, q, m, {q})
    <3>1. k.xs # <<>> /\ Len(k.xs) = 1 /\ Means(T, k.xs[1], <<n, q>>)
      BY <1>6, <2>4, <2>6
    <3>2. (k.fn = "inc" /\ m = <<n + 1, q>>) \/ (k.fn = "here" /\ m = <<n + 1, q, q>>)
      <4>1. Len(j.xs) # 2
        BY <1>7
      <4>2. (j.fn = "inc" /\ m = <<n + 1, q>>) \/ (j.fn = "here" /\ m = <<n + 1, q, q>>)
        BY <1>3, <4>1, Zenon
      <4>3. QED
        BY <2>6, <4>2, Zenon
    <3>3. QED
      BY <3>1, <3>2 DEF Arguments
  <2>7. Spawns(h, T, h, T, t)
    BY SpawnsNothing
  <2>8. PICK r : r = localized(h, t, Tail(j.xs)) /\ r.h = h /\ r.xs = <<>>
    BY <2>2
  <2>9. Local_arguments(h, T, t, j, m, r, T)
    <3>1. PICK ys : ys = <<j.xs[1]>> \o r.xs
      OBVIOUS
    <3>2. ys = xs /\ Len(ys) <= 2
      BY <2>4, <2>8, <3>1
    <3>3. QED
      BY <3>1, <3>2, <1>1, <2>4, <2>5, <2>6, <2>7, <2>8 DEF Local_arguments
  <2>10. QED
    BY <2>8, <2>9
<1>8. CASE Len(j.xs) = 2
  <2>1. PICK k \in Int, p \in Proc : Means(T, j.xs[2], <<k, p>>) /\ m = <<n + 3 * k, q>>
    <3>1. Len(j.xs) # 1
      BY <1>8
    <3>2. QED
      BY <1>3, <3>1, Zenon
  <2>2. PICK y : y = j.xs[2]
    OBVIOUS
  <2>3. Tail(j.xs) = <<y>>
    BY <1>4, <1>8, <2>2, TailOfTwo
  <2>4. PICK r : r = make_local(h, t, y)
    OBVIOUS
  <2>5. localized(h, t, Tail(j.xs)) = [h |-> r.h, xs |-> <<r.x>>]
    BY <2>3, <2>4, LocalizedOne
  <2>6. At(<<k, p>>, q) = <<k, q>>
    BY DEF At
  <2>7. PICK U : Spawns(h, T, r.h, U, t) /\ Means(U, r.x, <<k, q>>)
    BY <1>1, <2>1, <2>2, <2>4, <2>6, MakeLocalTyped
  <2>8. HeapOK(r.h, U) /\ Grows(h, T, r.h, U)
    BY <2>7 DEF Spawns
  <2>9. IsProxy(U, r.x) /\ r.x \in ProxyRecord
    BY <2>7, <2>8, MeantProc, Recorded DEF IsProxy
  <2>10. IsProxy(U, x) /\ Means(U, x, <<n, q>>)
    BY <1>6, <2>8, IsProxyGrows, MeansGrows
  <2>11. PICK xs : xs = <<x, r.x>>
    OBVIOUS
  <2>12. /\ xs = <<j.xs[1]>> \o <<r.x>> /\ xs \in Seq(ProxyRecord)
         /\ xs # <<>> /\ Len(xs) = 2 /\ xs[1] = x /\ xs[2] = r.x /\ DOMAIN xs = {1, 2}
    BY <1>5, <1>6, <2>9, <2>11
  <2>13. \A i \in DOMAIN xs : IsProxy(U, xs[i])
    BY <2>9, <2>10, <2>12
  <2>14. j.fn = "add"
    BY <1>3, <1>8
  <2>15. ASSUME NEW f, f.fn = j.fn, f.xs = xs PROVE Arguments(U, f, q, m, {q})
    BY <2>1, <2>7, <2>10, <2>12, <2>14, <2>15 DEF Arguments
  <2>16. PICK l : l = localized(h, t, Tail(j.xs)) /\ l.h = r.h /\ l.xs = <<r.x>>
    BY <2>5
  <2>17. Local_arguments(h, T, t, j, m, l, U)
    <3>1. PICK ys : ys = <<j.xs[1]>> \o l.xs
      OBVIOUS
    <3>2. ys = xs /\ Len(ys) <= 2
      BY <2>12, <2>16, <3>1
    <3>3. QED
      BY <3>1, <3>2, <1>1, <2>7, <2>12, <2>13, <2>15, <2>16 DEF Local_arguments
  <2>18. QED
    BY <2>16, <2>17
<1>9. QED
  BY <1>3, <1>7, <1>8

-----------------------------------------------------------------------------
(* The actions of threads *)

LEMMA LocalMoves ==
  ASSUME NEW T, HeapOK(cell, T), NEW t \in DOMAIN cell, ~aborted, Local(t)
  PROVE  ~aborted' /\ \E V : Moves(cell, T, cell', V)
<1>1. cell[t].stage = "run" /\ cell[t].job.do = "local" /\ aborted' = aborted
  BY DEF Local, Running
<1>2. PICK m \in Meaning : Locals(cell, T, cell[t], T[t], m)
  BY <1>1, ThreadState, JobIs
<1>3. PICK j, q : j = cell[t].job /\ q = cell[t].at
  OBVIOUS
<1>4. q \in Proc /\ Shaped(T, j)
  BY <1>3, ThreadState
<1>5. PICK k : k = [j EXCEPT !.do = "invoke"]
  OBVIOUS
<1>6. Shaped(T, k) /\ k.do = "invoke" /\ Alike(j, k)
  <2>1. "invoke" \in Does
    BY DEF Does
  <2>2. QED
    BY <1>4, <1>5, <2>1, Reshaped
<1>7. Makes(T, k, q, m) /\ Placed(cell, k) /\ T[t] = prox(m)
  BY <1>2, <1>3, <1>6, SameCall DEF Locals
<1>8. JobFits(cell, T, q, q, k, ptr(m))
  <2>1. ASSUME NEW e, e.home = q, e.at = q, e.job = k PROVE JobOK(cell, T, e, ptr(m))
    <3>1. Invokes(cell, T, e, ptr(m), m)
      BY <1>6, <1>7, <2>1 DEF Invokes
    <3>2. QED
      BY <3>1 DEF JobOK
  <2>2. QED
    BY <2>1 DEF JobFits
<1>9. PICK g : g = Add(cell, t, New(q, q, k))
  OBVIOUS
<1>10. PICK n : n = Newest(g, t)
  OBVIOUS
<1>11. PICK U : Spawns(cell, T, g, U, t) /\ n \in Names(U) /\ U[n] = ptr(m)
  BY <1>4, <1>6, <1>8, <1>9, <1>10, SpawnNew
<1>12. HeapOK(g, U)
  BY <1>11 DEF Spawns
<1>13. Means(U, proxy(n, NoProc), m) /\ IsProxy(U, proxy(n, NoProc))
  BY <1>11, NewProxy
<1>14. PICK v : v = Value(NoProc, 0, proxy(n, NoProc))
  OBVIOUS
<1>15. v \in ValueRecord /\ v.inner = proxy(n, NoProc)
  BY <1>12, <1>13, <1>14, ValueTyped DEF Place
<1>16. Holds(g, U, v, T[t])
  BY <1>7, <1>13, <1>15 DEF Holds
<1>17. Finish(g, t, v)
  BY <1>3, <1>5, <1>9, <1>10, <1>14 DEF Local
<1>18. \E V : Moves(cell, T, cell', V)
  BY <1>1, <1>11, <1>13, <1>15, <1>16, <1>17, Finished
<1>19. QED
  BY <1>1, <1>18

\* The call of a constant.
LEMMA InvokeConstant ==
  ASSUME NEW T, HeapOK(cell, T), NEW t \in DOMAIN cell, ~aborted, Invoke(t),
         cell[t].job.xs = <<>>
  PROVE  ~aborted' /\ \E V : Moves(cell, T, cell', V)
<1>1. cell[t].stage = "run" /\ cell[t].job.do \in {"invoke", "fold"}
  BY DEF Invoke
<1>2. PICK j, q : j = cell[t].job /\ q = cell[t].at
  OBVIOUS
<1>3. q \in Proc /\ Shaped(T, j) /\ JobOK(cell, T, cell[t], T[t])
  BY <1>1, <1>2, ThreadState
<1>4. PICK m \in Meaning : /\ j.do = "invoke" => Invokes(cell, T, cell[t], T[t], m)
                           /\ j.do = "fold" => Folds(cell, T, cell[t], T[t], m)
  BY <1>2, <1>3, JobIs
<1>5. j.do = "invoke"
  BY <1>1, <1>2, <1>4 DEF Folds, Arguments
<1>6. j.n \in Int /\ m = <<j.n, q>> /\ T[t] = ptr(m)
  BY <1>2, <1>4, <1>5 DEF Invokes, Makes, Arguments
<1>7. PICK v : v = Value(q, j.n, null)
  OBVIOUS
<1>8. IsProxy(T, null)
  BY DEF IsProxy
<1>9. v \in ValueRecord /\ v.inner = null /\ v.proc = q /\ v.n = j.n
  BY <1>3, <1>6, <1>7, <1>8, ValueTyped DEF Place
<1>10. Holds(cell, T, v, T[t])
  <2>1. Len(m) = 2 /\ m[1] = j.n /\ m[2] = q
    BY <1>6
  <2>2. Len(m) = 2 => v.n = m[1]
    BY <1>9, <2>1
  <2>3. Len(m) # 3
    BY <2>1
  <2>4. Holds(cell, T, v, ptr(m))
    BY <1>9, <2>1, <2>2, <2>3, IsPtr
  <2>5. QED
    BY <1>6, <2>4
<1>11. Finish(cell, t, v) /\ aborted' = aborted
  BY <1>2, <1>7 DEF Invoke
<1>12. \E V : Moves(cell, T, cell', V)
  BY <1>1, <1>2, <1>5, <1>8, <1>9, <1>10, <1>11, SpawnsNothing, Finished
<1>13. QED
  BY <1>11, <1>12

\* The call of a function.
LEMMA InvokeFunction ==
  ASSUME NEW T, HeapOK(cell, T), NEW t \in DOMAIN cell, ~aborted, Invoke(t),
         cell[t].job.xs # <<>>
  PROVE  ~aborted' /\ \E V : Moves(cell, T, cell', V)
<1>1. cell[t].stage = "run" /\ cell[t].job.do \in {"invoke", "fold"}
  BY DEF Invoke
<1>2. PICK j, q : j = cell[t].job /\ q = cell[t].at
  OBVIOUS
<1>3. q \in Proc /\ Shaped(T, j) /\ JobOK(cell, T, cell[t], T[t])
  BY <1>1, <1>2, ThreadState
<1>4. PICK m \in Meaning : /\ j.do = "invoke" => Invokes(cell, T, cell[t], T[t], m)
                           /\ j.do = "fold" => Folds(cell, T, cell[t], T[t], m)
  BY <1>2, <1>3, JobIs
<1>5. Arguments(T, j, q, m, Proc) /\ Placed(cell, j)
  BY <1>1, <1>2, <1>4 DEF Invokes, Folds, Makes
<1>6. /\ j.do = "invoke" => cell[t].home = q /\ T[t] = ptr(m)
      /\ j.do = "fold" => j.fn = "add" /\ T[t] = num(m[1])
  BY <1>2, <1>4 DEF Invokes, Folds
<1>7. get_proc(cell, j.xs[1]) = q /\ null \notin Range(j.xs)
  BY <1>3, <1>5, Arrived
<1>8. PICK r : r = localized(cell, t, Tail(j.xs))
  OBVIOUS
<1>9. PICK U : Local_arguments(cell, T, t, j, m, r, U)
  BY <1>2, <1>3, <1>5, <1>8, Localized
<1>10. PICK xs : xs = <<j.xs[1]>> \o r.xs
  OBVIOUS
<1>11. PICK do \in {"apply_fold", "apply_invoke"} :
         do = IF j.do = "fold" THEN "apply_fold" ELSE "apply_invoke"
  OBVIOUS
<1>12. PICK k : k = [j EXCEPT !.do = do, !.xs = xs]
  OBVIOUS
<1>13. /\ Spawns(cell, T, r.h, U, t)
       /\ xs \in Seq(ProxyRecord) /\ Len(xs) <= 2 /\ \A i \in DOMAIN xs : IsProxy(U, xs[i])
       /\ \A f : f.fn = j.fn /\ f.xs = xs => Arguments(U, f, q, m, {q})
  BY <1>2, <1>9, <1>10 DEF Local_arguments
<1>14. j \in JobRecord /\ j.of \in DOMAIN U
  BY <1>3, <1>13 DEF Shaped, Spawns, Grows
<1>15. /\ k \in JobRecord /\ k.do = do /\ k.fn = j.fn /\ k.xs = xs /\ k.of = j.of
  BY <1>12, <1>13, <1>14 DEF JobRecord, Does
<1>16. Shaped(U, k)
  BY <1>13, <1>14, <1>15 DEF Shaped
<1>17. Arguments(U, k, q, m, {q})
  BY <1>13, <1>15
<1>18. JobFits(r.h, U, cell[t].home, q, k, T[t])
  <2>1. ASSUME NEW e, e.home = cell[t].home, e.at = q, e.job = k PROVE JobOK(r.h, U, e, T[t])
    <3>1. Applies(U, e, T[t], m) \/ AppliesFold(U, e, T[t], m)
      BY <1>1, <1>2, <1>6, <1>11, <1>15, <1>17, <2>1 DEF Applies, AppliesFold
    <3>2. QED
      BY <3>1 DEF JobOK
  <2>2. QED
    BY <2>1 DEF JobFits
<1>19. cxx_assert(get_proc(cell, j.xs[1]) = q /\ null \notin Range(j.xs), Continue(r.h, t, k))
  BY <1>2, <1>8, <1>10, <1>11, <1>12 DEF Invoke, localized
<1>20. ~aborted' /\ Continue(r.h, t, k)
  BY <1>7, <1>19 DEF cxx_assert
<1>21. \E V : Moves(cell, T, cell', V)
  BY <1>1, <1>2, <1>13, <1>16, <1>18, <1>20, Continued
<1>22. QED
  BY <1>20, <1>21

\* All arguments of job j are on q, and its function makes of them what m says.
Computes(h, j, q, m) ==
  LET a == get(h, j.xs[1]).n
      b == get(h, j.xs[2]).n
  IN  /\ \A x \in Range(j.xs) : get_proc(h, x) = q /\ get(h, x).proc = q
      /\ a \in Int
      /\ \/ j.fn = "inc" /\ m = <<a + 1, q>>
         \/ j.fn = "here" /\ m = <<a + 1, q, q>>
         \/ j.fn = "add" /\ b \in Int /\ m = <<a + 3 * b, q>>

LEMMA ArgumentsHere ==
  ASSUME NEW h, NEW T, HeapOK(h, T), NEW j, NEW q \in Proc, NEW m,
         Arguments(T, j, q, m, {q}), Shaped(T, j),
         \A x \in Range(j.xs) : ready(h, x.robj)
  PROVE  Computes(h, j, q, m)
<1>1. PICK n \in Int :
        /\ j.xs # <<>>
        /\ Means(T, j.xs[1], <<n, q>>)
        /\ \/ j.fn = "inc" /\ Len(j.xs) = 1 /\ m = <<n + 1, q>>
           \/ j.fn = "here" /\ Len(j.xs) = 1 /\ m = <<n + 1, q, q>>
           \/ /\ j.fn = "add" /\ Len(j.xs) = 2
              /\ \E k \in Int, p \in {q} :
                   Means(T, j.xs[2], <<k, p>>) /\ m = <<n + 3 * k, q>>
  BY DEF Arguments
<1>2. j.xs \in Seq(ProxyRecord)
  BY DEF Shaped, JobRecord
<1>3. ASSUME NEW x, NEW k \in Int, Means(T, x, <<k, q>>), ready(h, x.robj)
      PROVE  get_proc(h, x) = q /\ get(h, x).proc = q /\ get(h, x).n = k
  <2>1. PICK a : a = <<k, q>>
    OBVIOUS
  <2>2. Means(T, x, a) /\ a[1] = k /\ a[2] = q /\ Len(a) = 2
    BY <1>3, <2>1
  <2>3. get(h, x).proc = q /\ get(h, x).n = k
    <3>1. Holds(h, T, get(h, x), ptr(a))
      BY <1>3, <2>2, Got, Zenon
    <3>2. QED
      BY <2>2, <3>1, HoldsPtr
  <2>4. get_proc(h, x) = q
    BY <1>3, <2>2, ProcReady DEF Knows
  <2>5. QED
    BY <2>3, <2>4
<1>4. /\ 1 \in DOMAIN j.xs /\ ready(h, j.xs[1].robj)
      /\ Len(j.xs) = 2 => 2 \in DOMAIN j.xs /\ ready(h, j.xs[2].robj)
      /\ DOMAIN j.xs = 1 .. Len(j.xs)
  BY <1>1, <1>2 DEF Range
<1>5. get_proc(h, j.xs[1]) = q /\ get(h, j.xs[1]).proc = q /\ get(h, j.xs[1]).n = n
  BY <1>1, <1>3, <1>4
<1>6. CASE Len(j.xs) = 1
  <2>1. \A x \in Range(j.xs) : x = j.xs[1]
    BY <1>4, <1>6 DEF Range
  <2>2. \A x \in Range(j.xs) : get_proc(h, x) = q /\ get(h, x).proc = q
    BY <1>5, <2>1
  <2>3. Len(j.xs) # 2
    BY <1>6
  <2>4. QED
    BY <1>1, <1>5, <2>2, <2>3 DEF Computes
<1>7. CASE Len(j.xs) = 2
  <2>1. Len(j.xs) # 1
    BY <1>7
  <2>2. PICK k \in Int : Means(T, j.xs[2], <<k, q>>) /\ m = <<n + 3 * k, q>>
    BY <1>1, <2>1
  <2>3. get_proc(h, j.xs[2]) = q /\ get(h, j.xs[2]).proc = q /\ get(h, j.xs[2]).n = k
    BY <1>3, <1>4, <1>7, <2>2
  <2>4. \A x \in Range(j.xs) : x = j.xs[1] \/ x = j.xs[2]
    BY <1>4, <1>7 DEF Range
  <2>5. \A x \in Range(j.xs) : get_proc(h, x) = q /\ get(h, x).proc = q
    BY <1>5, <2>3, <2>4
  <2>6. j.fn = "add"
    BY <1>1, <2>1
  <2>7. QED
    BY <1>5, <2>2, <2>3, <2>5, <2>6 DEF Computes
<1>8. QED
  BY <1>1, <1>6, <1>7

\* The result of the function: an object, or what a fold computes.
LEMMA Applied ==
  ASSUME NEW T, HeapOK(cell, T), NEW t \in DOMAIN cell, cell[t].stage = "run",
         cell[t].job.do \in {"apply_invoke", "apply_fold"}, NEW m \in Meaning,
         \/ cell[t].job.do = "apply_invoke" /\ T[t] = ptr(m)
         \/ cell[t].job.do = "apply_fold" /\ T[t] = num(m[1]),
         NEW g, NEW U, Spawns(cell, T, g, U, t), NEW x, IsProxy(U, x), NEW n \in Int,
         Len(m) = 2 => n = m[1],
         Len(m) = 3 => cell[t].job.do = "apply_invoke" /\ Means(U, x, <<m[1], m[3]>>),
         Finish(g, t, Value(IF cell[t].job.do = "apply_fold" THEN NoProc ELSE m[2], n, x))
  PROVE  \E V : Moves(cell, T, cell', V)
<1>1. PICK p : p = IF cell[t].job.do = "apply_fold" THEN NoProc ELSE m[2]
  OBVIOUS
<1>2. m[2] \in Proc /\ Len(m) \in {2, 3} /\ m[1] \in Int
  BY MeaningType, ProxyAssumption
<1>3. p \in Place
  BY <1>1, <1>2 DEF Place
<1>4. PICK v : v = Value(p, n, x)
  OBVIOUS
<1>5. HeapOK(g, U)
  BY DEF Spawns
<1>6. v \in ValueRecord /\ v.proc = p /\ v.n = n /\ v.inner = x
  BY <1>3, <1>4, <1>5, ValueTyped
<1>7. Holds(g, U, v, T[t])
  <2>1. CASE cell[t].job.do = "apply_invoke"
    <3>1. v.proc = m[2] /\ T[t] = ptr(m)
      BY <1>1, <1>6, <2>1
    <3>2. Holds(g, U, v, ptr(m))
      BY <1>6, <3>1, IsPtr
    <3>3. QED
      BY <3>1, <3>2
  <2>2. CASE cell[t].job.do = "apply_fold"
    <3>1. T[t] = num(n)
      BY <1>2, <2>2
    <3>2. QED
      BY <1>6, <3>1 DEF Holds
  <2>3. QED
    BY <2>1, <2>2
<1>8. Finish(g, t, v)
  BY <1>1, <1>4
<1>9. QED
  BY <1>6, <1>7, <1>8, Finished

LEMMA ApplyMoves ==
  ASSUME NEW T, HeapOK(cell, T), NEW t \in DOMAIN cell, ~aborted, Apply(t)
  PROVE  ~aborted' /\ \E V : Moves(cell, T, cell', V)
<1>1. cell[t].stage = "run" /\ cell[t].job.do \in {"apply_invoke", "apply_fold"}
  BY DEF Apply
<1>2. PICK j, q : j = cell[t].job /\ q = cell[t].at
  OBVIOUS
<1>3. q \in Proc /\ Shaped(T, j) /\ JobOK(cell, T, cell[t], T[t])
  BY <1>1, <1>2, ThreadState
<1>4. PICK m \in Meaning : /\ j.do = "apply_invoke" => Applies(T, cell[t], T[t], m)
                           /\ j.do = "apply_fold" => AppliesFold(T, cell[t], T[t], m)
  BY <1>2, <1>3, JobIs
<1>5. /\ Arguments(T, j, q, m, {q})
      /\ j.do = "apply_invoke" => T[t] = ptr(m)
      /\ j.do = "apply_fold" => j.fn = "add" /\ T[t] = num(m[1])
  BY <1>1, <1>2, <1>4 DEF Applies, AppliesFold
<1>6. \A x \in Range(j.xs) : ready(cell, x.robj)
  BY <1>2 DEF Apply
<1>7. PICK a, b : a = get(cell, j.xs[1]).n /\ b = get(cell, j.xs[2]).n
  OBVIOUS
<1>8. /\ \A x \in Range(j.xs) : get_proc(cell, x) = q /\ get(cell, x).proc = q
      /\ a \in Int
      /\ \/ j.fn = "inc" /\ m = <<a + 1, q>>
         \/ j.fn = "here" /\ m = <<a + 1, q, q>>
         \/ j.fn = "add" /\ b \in Int /\ m = <<a + 3 * b, q>>
  <2>1. Computes(cell, j, q, m)
    BY <1>3, <1>5, <1>6, ArgumentsHere
  <2>2. QED
    BY <1>7, <2>1 DEF Computes
<1>9. PICK p : p = IF j.do = "apply_fold" THEN NoProc ELSE q
  OBVIOUS
<1>10. PICK k, here : k = Constant("invoke", a + 1) /\ here = Add(cell, t, New(q, q, k))
  OBVIOUS
<1>11. /\ ~aborted'
       /\ j.fn = "inc" => Finish(cell, t, Value(p, a + 1, null))
       /\ j.fn = "add" => Finish(cell, t, Value(p, a + 3 * b, null))
       /\ j.fn = "here" => Finish(here, t, Value(p, 0, proxy(Newest(here, t), NoProc)))
  BY <1>2, <1>7, <1>8, <1>9, <1>10 DEF Apply, cxx_assert
<1>12. IsProxy(T, null) /\ Spawns(cell, T, cell, T, t)
  BY SpawnsNothing DEF IsProxy
<1>13. /\ cell[t].job.do \in {"apply_invoke", "apply_fold"}
       /\ \/ cell[t].job.do = "apply_invoke" /\ T[t] = ptr(m)
          \/ cell[t].job.do = "apply_fold" /\ T[t] = num(m[1])
       /\ j.fn # "add" => cell[t].job.do = "apply_invoke"
  BY <1>1, <1>2, <1>5
<1>14. p = IF cell[t].job.do = "apply_fold" THEN NoProc ELSE q
  BY <1>2, <1>9
<1>15. CASE j.fn = "inc" \/ j.fn = "add"
  <2>1. PICK n : n = IF j.fn = "inc" THEN a + 1 ELSE a + 3 * b
    OBVIOUS
  <2>2. n \in Int /\ m = <<n, q>>
    BY <1>8, <1>15, <2>1
  <2>3. Len(m) = 2 /\ m[1] = n /\ m[2] = q
    BY <2>2
  <2>4. Finish(cell, t, Value(IF cell[t].job.do = "apply_fold" THEN NoProc ELSE m[2], n, null))
    BY <1>11, <1>14, <1>15, <2>1, <2>3
  <2>5. \E V : Moves(cell, T, cell', V)
    <3>1. Len(m) # 3
      BY <2>3
    <3>2. QED
      BY <1>1, <1>12, <1>13, <2>2, <2>3, <2>4, <3>1, Applied
  <2>6. QED
    BY <1>11, <2>5
<1>16. CASE j.fn = "here"
  <2>1. m = <<a + 1, q, q>>
    BY <1>8, <1>16
  <2>2. Len(m) = 3 /\ m[1] = a + 1 /\ m[2] = q /\ m[3] = q
    BY <2>1
  <2>3. PICK i : i = <<a + 1, q>>
    OBVIOUS
  <2>4. i \in Meaning /\ a + 1 \in Int
    BY <1>3, <1>8, <2>3 DEF Meaning
  <2>5. "invoke" \in Does
    BY DEF Does
  <2>6. Shaped(T, k) /\ k.do = "invoke" /\ k.xs = <<>> /\ k.n = a + 1
    BY <1>10, <2>4, <2>5, ConstantShape
  <2>7. JobFits(cell, T, q, q, k, ptr(i))
    <3>1. ASSUME NEW e, e.home = q, e.at = q, e.job = k PROVE JobOK(cell, T, e, ptr(i))
      <4>1. Invokes(cell, T, e, ptr(i), i)
        BY <2>3, <2>4, <2>6, <3>1 DEF Invokes, Makes, Placed
      <4>2. QED
        BY <2>4, <4>1 DEF JobOK
    <3>2. QED
      BY <3>1 DEF JobFits
  <2>8. PICK n : n = Newest(here, t)
    OBVIOUS
  <2>9. PICK U : Spawns(cell, T, here, U, t) /\ n \in Names(U) /\ U[n] = ptr(i)
    BY <1>3, <1>10, <2>6, <2>7, <2>8, SpawnNew
  <2>10. Means(U, proxy(n, NoProc), i) /\ IsProxy(U, proxy(n, NoProc))
    BY <2>4, <2>9, NewProxy
  <2>11. i = <<m[1], m[3]>>
    BY <2>2, <2>3
  <2>12. Finish(here, t, Value(IF cell[t].job.do = "apply_fold" THEN NoProc ELSE m[2], 0,
                               proxy(n, NoProc)))
    BY <1>11, <1>14, <1>16, <2>2, <2>8
  <2>13. \E V : Moves(cell, T, cell', V)
    <3>1. cell[t].job.do = "apply_invoke" /\ Means(U, proxy(n, NoProc), <<m[1], m[3]>>)
      BY <1>13, <1>16, <2>10, <2>11
    <3>2. Len(m) # 2
      BY <2>2
    <3>3. QED
      BY <1>1, <1>13, <2>9, <2>10, <2>12, <3>1, <3>2, Applied
  <2>14. QED
    BY <1>11, <2>13
<1>17. QED
  BY <1>8, <1>15, <1>16

\* A thread that returns what it has, at the cell it runs for.
LEMMA Returned ==
  ASSUME NEW T, HeapOK(cell, T), NEW t \in DOMAIN cell, cell[t].stage = "run",
         cell[t].job.do # "get_ptr",
         NEW v \in ValueRecord, IsProxy(T, v.inner), Holds(cell, T, v, T[t]), Finish(cell, t, v)
  PROVE  \E V : Moves(cell, T, cell', V)
<1>1. Spawns(cell, T, cell, T, t)
  BY SpawnsNothing
<1>2. QED
  BY <1>1, Finished

LEMMA GetProcMoves ==
  ASSUME NEW T, HeapOK(cell, T), NEW t \in DOMAIN cell, ~aborted, GetProc(t)
  PROVE  ~aborted' /\ \E V : Moves(cell, T, cell', V)
<1>1. cell[t].stage = "run" /\ cell[t].job.do = "get_proc" /\ aborted' = aborted
  BY DEF GetProc, Running
<1>2. PICK m \in Meaning : GetsProc(T, cell[t], T[t], m)
  BY <1>1, ThreadState, JobIs
<1>3. PICK x : x = cell[t].job.xs[1]
  OBVIOUS
<1>4. Means(T, x, m) /\ T[t] = proc_of(x, m) /\ ready(cell, x.robj)
  BY <1>2, <1>3 DEF GetsProc, Of, GetProc
<1>5. get(cell, x).proc = m[2] /\ m[2] \in Proc
  <2>1. get(cell, x).proc = m[2]
    BY <1>4, GotProc
  <2>2. m[2] \in Proc
    BY <1>4, MeantProc
  <2>3. QED
    BY <2>1, <2>2
<1>6. PICK v : v = Value(m[2], 0, null)
  OBVIOUS
<1>7. IsProxy(T, null) /\ m[2] \in Place
  BY <1>5 DEF IsProxy, Place
<1>8. v \in ValueRecord /\ v.inner = null /\ v.proc = m[2]
  BY <1>6, <1>7, ValueTyped
<1>9. Holds(cell, T, v, T[t])
  BY <1>4, <1>8 DEF Holds, Knows
<1>10. Finish(cell, t, v)
  BY <1>3, <1>5, <1>6 DEF GetProc
<1>11. QED
  BY <1>1, <1>7, <1>8, <1>9, <1>10, Returned

LEMMA AwaitMoves ==
  ASSUME NEW T, HeapOK(cell, T), NEW t \in DOMAIN cell, ~aborted, Await(t)
  PROVE  ~aborted' /\ \E V : Moves(cell, T, cell', V)
<1>1. cell[t].stage = "run" /\ cell[t].job.do = "await" /\ aborted' = aborted
  BY DEF Await, Running
<1>2. Awaits(T, cell[t], T[t])
  BY <1>1, ThreadState, JobIs
<1>3. PICK c : c = cell[t].job.of
  OBVIOUS
<1>4. c \in DOMAIN T /\ T[c] = T[t] /\ ready(cell, c) /\ Finish(cell, t, cell[c].value)
  BY <1>2, <1>3 DEF Awaits, Names, Await
<1>5. PICK v : v = cell[c].value
  OBVIOUS
<1>6. Holds(cell, T, v, T[t]) /\ v \in ValueRecord /\ IsProxy(T, v.inner)
  BY <1>4, <1>5, ReadyValue
<1>7. QED
  BY <1>1, <1>4, <1>5, <1>6, Returned

LEMMA GetPtrMoves ==
  ASSUME NEW T, HeapOK(cell, T), NEW t \in DOMAIN cell, ~aborted, GetPtr(t)
  PROVE  ~aborted' /\ \E V : Moves(cell, T, cell', V)
<1>1. cell[t].stage = "run" /\ cell[t].job.do = "get_ptr"
  BY DEF GetPtr, Running
<1>2. PICK m \in Meaning : GetsPtr(T, cell[t], T[t], m)
  BY <1>1, ThreadState, JobIs
<1>3. PICK x, q : x = cell[t].job.xs[1] /\ q = cell[t].at
  OBVIOUS
<1>4. /\ Means(T, x, m) /\ T[t] = ptr(At(m, cell[t].home)) /\ q = m[2]
      /\ ready(cell, x.robj)
  BY <1>2, <1>3 DEF GetsPtr, Of, GetPtr
<1>5. PICK v : v = get(cell, x)
  OBVIOUS
<1>6. Holds(cell, T, v, ptr(m)) /\ v.proc = m[2] /\ v \in ValueRecord /\ IsProxy(T, v.inner)
  <2>1. Holds(cell, T, v, ptr(m)) /\ v \in ValueRecord /\ IsProxy(T, v.inner)
    BY <1>4, <1>5, GotValue
  <2>2. v.proc = m[2]
    BY <1>4, <1>5, GotProc
  <2>3. QED
    BY <2>1, <2>2
<1>7. get_proc(cell, x) = q
  BY <1>4, ProcReady DEF Knows
<1>8. At(m, q) = m
  BY <1>4, MeaningType, ThreadState DEF At
<1>9. ~aborted' /\ Finish(cell, t, v)
  BY <1>3, <1>4, <1>5, <1>6, <1>7 DEF GetPtr, cxx_assert
<1>10. Spawns(cell, T, cell, T, t)
  BY SpawnsNothing
<1>11. Holds(cell, T, v, ptr(At(m, cell[t].at)))
  BY <1>3, <1>6, <1>8
<1>12. \E V : Moves(cell, T, cell', V)
  BY <1>1, <1>4, <1>6, <1>9, <1>10, <1>11, Finished
<1>13. QED
  BY <1>9, <1>12

\* A thread that calls for its result elsewhere and waits.
LEMMA AwaitedCall ==
  ASSUME NEW T, HeapOK(cell, T), NEW t \in DOMAIN cell, cell[t].stage = "run",
         cell[t].home = cell[t].at, NEW p \in Proc, NEW k, Shaped(T, k),
         JobFits(cell, T, cell[t].at, p, k, T[t]), AwaitCall(cell, t, p, k)
  PROVE  \E V : Moves(cell, T, cell', V)
<1>1. PICK q, ty : q = cell[t].at /\ ty = T[t]
  OBVIOUS
<1>2. q \in Proc
  BY <1>1, ThreadState
<1>3. PICK g : g = Add(cell, t, New(q, p, k))
  OBVIOUS
<1>4. PICK n : n = Newest(g, t)
  OBVIOUS
<1>5. PICK U : Spawns(cell, T, g, U, t) /\ n \in Names(U) /\ U[n] = ty
  BY <1>1, <1>2, <1>3, <1>4, SpawnNew
<1>6. PICK j : j = Job("await", <<>>, n, NoProc)
  OBVIOUS
<1>7. HeapOK(g, U) /\ "await" \in Does /\ NoProc \in Place
  BY <1>5 DEF Spawns, Does, Place
<1>8. Shaped(U, j) /\ j.do = "await" /\ j.of = n
  BY <1>5, <1>6, <1>7, JobFor
<1>9. JobFits(g, U, cell[t].home, cell[t].at, j, T[t])
  <2>1. ASSUME NEW e, e.home = q, e.at = q, e.job = j PROVE JobOK(g, U, e, ty)
    <3>1. Awaits(U, e, ty)
      BY <1>5, <1>8, <2>1 DEF Awaits
    <3>2. <<0, User>> \in Meaning
      BY ProxyAssumption DEF Meaning
    <3>3. QED
      BY <3>1, <3>2 DEF JobOK
  <2>2. QED
    BY <1>1, <2>1 DEF JobFits
<1>10. Continue(g, t, j)
  BY <1>1, <1>3, <1>4, <1>6 DEF AwaitCall
<1>11. QED
  BY <1>5, <1>8, <1>9, <1>10, Continued

LEMMA GetPtrLaterMoves ==
  ASSUME NEW T, HeapOK(cell, T), NEW t \in DOMAIN cell, ~aborted, GetPtrLater(t)
  PROVE  ~aborted' /\ \E V : Moves(cell, T, cell', V)
<1>1. cell[t].stage = "run" /\ cell[t].job.do = "get_ptr_later" /\ aborted' = aborted
  BY DEF GetPtrLater, Running
<1>2. PICK m \in Meaning : GetsPtrLater(T, cell[t], T[t], m)
  BY <1>1, ThreadState, JobIs
<1>3. PICK j, x, q : j = cell[t].job /\ x = j.xs[1] /\ q = cell[t].at
  OBVIOUS
<1>4. /\ Means(T, x, m) /\ j.xs # <<>> /\ T[t] = ptr(At(m, q)) /\ cell[t].home = q
      /\ ready(cell, x.robj)
  BY <1>2, <1>3 DEF GetsPtrLater, Of, GetPtrLater
<1>5. get_proc(cell, x) = m[2] /\ m[2] \in Proc
  <2>1. get_proc(cell, x) = m[2]
    BY <1>4, GetProcIs
  <2>2. m[2] \in Proc
    BY <1>4, MeantProc
  <2>3. QED
    BY <2>1, <2>2
<1>6. PICK k : k = [j EXCEPT !.do = "get_ptr"]
  OBVIOUS
<1>7. Shaped(T, k) /\ k.do = "get_ptr" /\ Of(T, k, m)
  <2>1. Shaped(T, j) /\ "get_ptr" \in Does
    BY <1>3, ThreadState DEF Does
  <2>2. Shaped(T, k) /\ k.do = "get_ptr" /\ Alike(j, k)
    BY <1>6, <2>1, Reshaped
  <2>3. QED
    BY <1>3, <1>4, <2>2 DEF Alike, Of
<1>8. JobFits(cell, T, q, m[2], k, T[t])
  <2>1. ASSUME NEW e, e.home = q, e.at = m[2], e.job = k PROVE JobOK(cell, T, e, T[t])
    <3>1. GetsPtr(T, e, T[t], m)
      BY <1>4, <1>7, <2>1 DEF GetsPtr
    <3>2. QED
      BY <3>1 DEF JobOK
  <2>2. QED
    BY <2>1 DEF JobFits
<1>9. AwaitCall(cell, t, m[2], k)
  BY <1>3, <1>5, <1>6 DEF GetPtrLater
<1>10. \E V : Moves(cell, T, cell', V)
  BY <1>1, <1>3, <1>4, <1>5, <1>7, <1>8, <1>9, AwaitedCall
<1>11. QED
  BY <1>1, <1>10

\* The process that a call waits for is known, and so is its first proxy's.
LEMMA Asked ==
  ASSUME NEW h, NEW T, HeapOK(h, T), NEW j, NEW m, Asks(T, j, m), ready(h, j.of)
  PROVE  h[j.of].value.proc = m[2] /\ Placed(h, j) /\ Arguments(T, j, m[2], m, Proc)
<1>1. PICK x : T[j.of] = proc_of(j.xs[1], x) /\ x[2] = m[2]
  BY DEF Asks
<1>2. j.of \in DOMAIN T
  BY DEF Asks, Names
<1>3. Holds(h, T, h[j.of].value, proc_of(j.xs[1], x))
  BY <1>1, <1>2, ReadyValue
<1>4. h[j.of].value.proc = x[2] /\ Knows(h, j.xs[1])
  BY <1>3, HoldsProc
<1>5. QED
  BY <1>1, <1>4 DEF Placed, Asks

\* A thread that goes on to construct its proxy.
LEMMA Constructing ==
  ASSUME NEW T, HeapOK(cell, T), NEW t \in DOMAIN cell, cell[t].stage = "run",
         cell[t].home = cell[t].at, NEW m \in Meaning, T[t] = prox(m),
         NEW g, NEW U, Spawns(cell, T, g, U, t), NEW n \in Names(U), U[n] = prox(m),
         NEW p \in {NoProc, m[2]}, Continue(g, t, Job("construct", <<>>, n, p))
  PROVE  \E V : Moves(cell, T, cell', V)
<1>1. PICK j : j = Job("construct", <<>>, n, p)
  OBVIOUS
<1>2. HeapOK(g, U) /\ "construct" \in Does /\ p \in Place
  BY MeaningType, ThreadState DEF Spawns, Does, Place
<1>3. Shaped(U, j) /\ j.do = "construct" /\ j.of = n /\ j.claim = p
  BY <1>1, <1>2, JobFor
<1>4. JobFits(g, U, cell[t].home, cell[t].at, j, T[t])
  <2>1. PICK q, ty : q = cell[t].at /\ ty = T[t]
    OBVIOUS
  <2>2. ASSUME NEW e, e.home = q, e.at = q, e.job = j PROVE JobOK(g, U, e, ty)
    <3>1. Constructs(U, e, ty, m)
      BY <1>3, <2>1, <2>2 DEF Constructs, Claims
    <3>2. QED
      BY <3>1 DEF JobOK
  <2>3. QED
    BY <2>1, <2>2 DEF JobFits
<1>5. QED
  BY <1>1, <1>3, <1>4, Continued

LEMMA Launched ==
  ASSUME NEW T, HeapOK(cell, T), NEW t \in DOMAIN cell, cell[t].stage = "run",
         cell[t].home = cell[t].at, NEW m \in Meaning, T[t] = prox(m),
         NEW j, Shaped(T, j), Makes(T, j, m[2], m), Placed(cell, j),
         Launch(cell, t, m[2], j)
  PROVE  \E V : Moves(cell, T, cell', V)
<1>1. PICK q, p : q = cell[t].at /\ p = m[2]
  OBVIOUS
<1>2. q \in Proc /\ p \in Proc
  BY <1>1, ThreadState, MeaningType
<1>3. PICK k : k = [j EXCEPT !.do = "local", !.of = <<>>]
  OBVIOUS
<1>4. Shaped(T, k) /\ k.do = "local" /\ Alike(j, k)
  <2>1. "local" \in Does
    BY DEF Does
  <2>2. /\ Shaped(T, [j EXCEPT !.do = "local", !.of = <<>>])
        /\ [j EXCEPT !.do = "local", !.of = <<>>].do = "local"
        /\ Alike(j, [j EXCEPT !.do = "local", !.of = <<>>])
    BY <2>1, Detached, Zenon
  <2>3. QED
    BY <1>3, <2>2
<1>5. Makes(T, k, p, m) /\ Placed(cell, k)
  BY <1>1, <1>4, SameCall
<1>6. JobFits(cell, T, q, p, k, prox(m))
  <2>1. ASSUME NEW e, e.home = q, e.at = p, e.job = k PROVE JobOK(cell, T, e, prox(m))
    <3>1. Locals(cell, T, e, prox(m), m)
      BY <1>4, <1>5, <2>1 DEF Locals
    <3>2. QED
      BY <3>1 DEF JobOK
  <2>2. QED
    BY <2>1 DEF JobFits
<1>7. PICK g : g = Add(cell, t, New(q, p, k))
  OBVIOUS
<1>8. PICK n : n = Newest(g, t)
  OBVIOUS
<1>9. PICK U : Spawns(cell, T, g, U, t) /\ n \in Names(U) /\ U[n] = prox(m)
  BY <1>2, <1>4, <1>6, <1>7, <1>8, SpawnNew
<1>10. Continue(g, t, Job("construct", <<>>, n, p))
  BY <1>1, <1>3, <1>7, <1>8 DEF Launch
<1>11. QED
  BY <1>1, <1>9, <1>10, Constructing

LEMMA RemoteMoves ==
  ASSUME NEW T, HeapOK(cell, T), NEW t \in DOMAIN cell, ~aborted, Remote(t)
  PROVE  ~aborted' /\ \E V : Moves(cell, T, cell', V)
<1>1. cell[t].stage = "run" /\ cell[t].job.do = "remote" /\ aborted' = aborted
  BY DEF Remote, Running
<1>2. PICK m \in Meaning : Remotes(T, cell[t], T[t], m)
  BY <1>1, ThreadState, JobIs
<1>3. PICK j : j = cell[t].job
  OBVIOUS
<1>4. Asks(T, j, m) /\ T[t] = prox(m) /\ cell[t].home = cell[t].at /\ ready(cell, j.of)
  BY <1>2, <1>3 DEF Remotes, Remote
<1>5. cell[j.of].value.proc = m[2] /\ Placed(cell, j) /\ Makes(T, j, m[2], m)
  BY <1>4, Asked DEF Makes
<1>6. Launch(cell, t, m[2], j)
  BY <1>3, <1>5 DEF Remote
<1>7. Shaped(T, j)
  BY <1>3, ThreadState
<1>8. QED
  BY <1>1, <1>4, <1>5, <1>6, <1>7, Launched

LEMMA RemoteNowMoves ==
  ASSUME NEW T, HeapOK(cell, T), NEW t \in DOMAIN cell, ~aborted, RemoteNow(t)
  PROVE  ~aborted' /\ \E V : Moves(cell, T, cell', V)
<1>1. cell[t].stage = "run" /\ cell[t].job.do = "remote_now" /\ aborted' = aborted
  BY DEF RemoteNow, Running
<1>2. PICK m \in Meaning : Remotes(T, cell[t], T[t], m)
  BY <1>1, ThreadState, JobIs
<1>3. PICK j, q : j = cell[t].job /\ q = cell[t].at
  OBVIOUS
<1>4. Asks(T, j, m) /\ T[t] = prox(m) /\ cell[t].home = q
  BY <1>2, <1>3 DEF Remotes
<1>5. Shaped(T, j) /\ q \in Proc
  BY <1>3, ThreadState
<1>6. CASE ready(cell, j.of)
  <2>1. cell[j.of].value.proc = m[2] /\ Placed(cell, j) /\ Makes(T, j, m[2], m)
    BY <1>4, <1>6, Asked DEF Makes
  <2>2. Launch(cell, t, m[2], j)
    BY <1>3, <1>6, <2>1 DEF RemoteNow
  <2>3. QED
    BY <1>1, <1>3, <1>4, <1>5, <2>1, <2>2, Launched
<1>7. CASE ~ready(cell, j.of)
  <2>1. PICK k : k = [j EXCEPT !.do = "remote"]
    OBVIOUS
  <2>2. Shaped(T, k) /\ k.do = "remote" /\ k.of = j.of /\ Alike(j, k)
    <3>1. "remote" \in Does
      BY DEF Does
    <3>2. QED
      BY <1>5, <2>1, <3>1, Reshaped
  <2>3. Asks(T, k, m)
    <3>1. Arguments(T, k, m[2], m, Proc)
      BY <1>4, <2>2, SameCall DEF Asks
    <3>2. QED
      BY <1>4, <2>2, <3>1 DEF Asks, Alike
  <2>4. JobFits(cell, T, q, q, k, prox(m))
    <3>1. ASSUME NEW e, e.home = q, e.at = q, e.job = k PROVE JobOK(cell, T, e, prox(m))
      <4>1. Remotes(T, e, prox(m), m)
        BY <2>2, <2>3, <3>1 DEF Remotes
      <4>2. QED
        BY <4>1 DEF JobOK
    <3>2. QED
      BY <3>1 DEF JobFits
  <2>5. PICK g : g = Add(cell, t, New(q, q, k))
    OBVIOUS
  <2>6. PICK n : n = Newest(g, t)
    OBVIOUS
  <2>7. PICK U : Spawns(cell, T, g, U, t) /\ n \in Names(U) /\ U[n] = prox(m)
    BY <1>5, <2>2, <2>4, <2>5, <2>6, SpawnNew
  <2>8. Continue(g, t, Job("construct", <<>>, n, NoProc))
    BY <1>3, <1>7, <2>1, <2>5, <2>6 DEF RemoteNow
  <2>9. QED
    BY <1>1, <1>3, <1>4, <2>7, <2>8, Constructing
<1>8. QED
  BY <1>6, <1>7

LEMMA ConstructMoves ==
  ASSUME NEW T, HeapOK(cell, T), NEW t \in DOMAIN cell, ~aborted, Construct(t)
  PROVE  ~aborted' /\ \E V : Moves(cell, T, cell', V)
<1>1. cell[t].stage = "run" /\ cell[t].job.do = "construct" /\ aborted' = aborted
  BY DEF Construct, Running
<1>2. PICK m \in Meaning : Constructs(T, cell[t], T[t], m)
  BY <1>1, ThreadState, JobIs
<1>3. PICK j, q : j = cell[t].job /\ q = cell[t].at
  OBVIOUS
<1>4. /\ j.of \in Names(T) /\ T[j.of] = prox(m) /\ j.claim \in {NoProc, m[2]}
      /\ T[t] = prox(m)
  BY <1>2, <1>3 DEF Constructs, Claims
<1>5. Shaped(T, j) /\ q \in Proc
  BY <1>3, ThreadState
<1>6. PICK k : k = [j EXCEPT !.do = "unproxy"]
  OBVIOUS
<1>7. Shaped(T, k) /\ k.do = "unproxy" /\ k.of = j.of /\ k.claim = j.claim
  <2>1. "unproxy" \in Does
    BY DEF Does
  <2>2. QED
    BY <1>5, <1>6, <2>1, Reshaped
<1>8. JobFits(cell, T, q, q, k, ptr(m))
  <2>1. ASSUME NEW e, e.home = q, e.at = q, e.job = k PROVE JobOK(cell, T, e, ptr(m))
    <3>1. Unproxies(T, e, ptr(m), m)
      BY <1>4, <1>7, <2>1 DEF Unproxies, Claims
    <3>2. QED
      BY <3>1 DEF JobOK
  <2>2. QED
    BY <2>1 DEF JobFits
<1>9. PICK g : g = Add(cell, t, New(q, q, k))
  OBVIOUS
<1>10. PICK n : n = Newest(g, t)
  OBVIOUS
<1>11. PICK U : Spawns(cell, T, g, U, t) /\ n \in Names(U) /\ U[n] = ptr(m)
  BY <1>5, <1>7, <1>8, <1>9, <1>10, SpawnNew
<1>12. Means(U, proxy(n, j.claim), m) /\ IsProxy(U, proxy(n, j.claim))
  BY <1>4, <1>11, NewProxy
<1>13. PICK v : v = Value(NoProc, 0, proxy(n, j.claim))
  OBVIOUS
<1>14. v \in ValueRecord /\ v.inner = proxy(n, j.claim)
  <2>1. HeapOK(g, U) /\ NoProc \in Place
    BY <1>11 DEF Spawns, Place
  <2>2. QED
    BY <1>12, <1>13, <2>1, ValueTyped
<1>15. Holds(g, U, v, T[t])
  BY <1>4, <1>12, <1>14 DEF Holds
<1>16. Finish(g, t, v)
  BY <1>3, <1>6, <1>9, <1>10, <1>13 DEF Construct
<1>17. \E V : Moves(cell, T, cell', V)
  BY <1>1, <1>11, <1>12, <1>14, <1>15, <1>16, Finished
<1>18. QED
  BY <1>1, <1>17

\* The proxy that a cell holds.
LEMMA InnerProxy ==
  ASSUME NEW h, NEW T, HeapOK(h, T), NEW c \in Names(T), NEW m, T[c] = prox(m), ready(h, c)
  PROVE  Means(T, h[c].value.inner, m) /\ IsProxy(T, h[c].value.inner)
<1>1. Holds(h, T, h[c].value, prox(m)) /\ IsProxy(T, h[c].value.inner)
  BY ReadyValue DEF Names
<1>2. QED
  BY <1>1, HoldsProx

LEMMA ConstructReadyMoves ==
  ASSUME NEW T, HeapOK(cell, T), NEW t \in DOMAIN cell, ~aborted, ConstructReady(t)
  PROVE  ~aborted' /\ \E V : Moves(cell, T, cell', V)
<1>1. cell[t].stage = "run" /\ cell[t].job.do = "construct"
  BY DEF ConstructReady, Running
<1>2. PICK m \in Meaning : Constructs(T, cell[t], T[t], m)
  BY <1>1, ThreadState, JobIs
<1>3. PICK j, x : j = cell[t].job /\ x = cell[j.of].value.inner
  OBVIOUS
<1>4. /\ j.of \in Names(T) /\ T[j.of] = prox(m) /\ j.claim \in {NoProc, m[2]}
      /\ T[t] = prox(m) /\ ready(cell, j.of)
  BY <1>2, <1>3 DEF Constructs, Claims, ConstructReady
<1>5. Means(T, x, m) /\ IsProxy(T, x)
  BY <1>3, <1>4, InnerProxy
<1>6. j.claim # NoProc => j.claim = get(cell, x).proc
  <2>1. j.claim # NoProc => ready(cell, x.robj)
    BY <1>3 DEF ConstructReady
  <2>2. ready(cell, x.robj) => get(cell, x).proc = m[2]
    BY <1>5, GotProc
  <2>3. QED
    BY <1>4, <2>1, <2>2
<1>7. PICK v : v = Value(NoProc, 0, x)
  OBVIOUS
<1>8. v \in ValueRecord /\ v.inner = x
  <2>1. NoProc \in Place
    BY DEF Place
  <2>2. QED
    BY <1>5, <1>7, <2>1, ValueTyped
<1>9. Holds(cell, T, v, T[t])
  BY <1>4, <1>5, <1>8 DEF Holds
<1>10. ~aborted' /\ Finish(cell, t, v)
  BY <1>3, <1>6, <1>7 DEF ConstructReady, cxx_assert
<1>11. \E V : Moves(cell, T, cell', V)
  BY <1>1, <1>5, <1>8, <1>9, <1>10, Returned
<1>12. QED
  BY <1>10, <1>11

LEMMA UnproxyMoves ==
  ASSUME NEW T, HeapOK(cell, T), NEW t \in DOMAIN cell, ~aborted, Unproxy(t)
  PROVE  ~aborted' /\ \E V : Moves(cell, T, cell', V)
<1>1. cell[t].stage = "run" /\ cell[t].job.do = "unproxy"
  BY DEF Unproxy, Running
<1>2. PICK m \in Meaning : Unproxies(T, cell[t], T[t], m)
  BY <1>1, ThreadState, JobIs
<1>3. PICK j, x : j = cell[t].job /\ x = cell[j.of].value.inner
  OBVIOUS
<1>4. /\ j.of \in Names(T) /\ T[j.of] = prox(m) /\ j.claim \in {NoProc, m[2]}
      /\ T[t] = ptr(m) /\ ready(cell, j.of) /\ ready(cell, x.robj)
  BY <1>2, <1>3 DEF Unproxies, Claims, Unproxy
<1>5. Means(T, x, m)
  BY <1>3, <1>4, InnerProxy
<1>6. get_proc(cell, x) = m[2]
  BY <1>4, <1>5, GetProcIs
<1>7. PICK v : v = get(cell, x)
  OBVIOUS
<1>8. Holds(cell, T, v, T[t]) /\ v \in ValueRecord /\ IsProxy(T, v.inner)
  <2>1. Holds(cell, T, v, ptr(m)) /\ v \in ValueRecord /\ IsProxy(T, v.inner)
    BY <1>4, <1>5, <1>7, Got
  <2>2. QED
    BY <1>4, <2>1
<1>9. ~aborted' /\ Finish(cell, t, v)
  BY <1>3, <1>4, <1>6, <1>7 DEF Unproxy, cxx_assert
<1>10. \E V : Moves(cell, T, cell', V)
  BY <1>1, <1>8, <1>9, Returned
<1>11. QED
  BY <1>9, <1>10

LEMMA DerefMoves ==
  ASSUME NEW T, HeapOK(cell, T), NEW t \in DOMAIN cell, ~aborted, Deref(t)
  PROVE  ~aborted' /\ \E V : Moves(cell, T, cell', V)
<1>1. cell[t].stage = "run" /\ cell[t].job.do = "deref"
  BY DEF Deref, Running
<1>2. PICK m \in Meaning : Derefs(T, cell[t], T[t], m)
  BY <1>1, ThreadState, JobIs
<1>3. PICK x, r : x = cell[t].job.xs[1] /\ r = get(cell, x)
  OBVIOUS
<1>4. /\ Means(T, x, m) /\ cell[t].at = m[2] /\ ready(cell, x.robj)
      /\ T[t] = IF Len(m) = 2 THEN num(m[1]) ELSE prox(<<m[1], m[3]>>)
  BY <1>2, <1>3 DEF Derefs, Of, Deref
<1>5. /\ r.proc = m[2] /\ r \in ValueRecord /\ IsProxy(T, r.inner)
      /\ Len(m) = 2 => r.n = m[1]
      /\ Len(m) = 3 => Means(T, r.inner, <<m[1], m[3]>>)
  BY <1>3, <1>4, Got
<1>6. PICK v : v = Value(NoProc, r.n, r.inner)
  OBVIOUS
<1>7. v \in ValueRecord /\ v.inner = r.inner /\ v.n = r.n
  <2>1. NoProc \in Place /\ r.n \in Int
    BY <1>5 DEF Place, ValueRecord
  <2>2. QED
    BY <1>5, <1>6, <2>1, ValueTyped
<1>8. Holds(cell, T, v, T[t])
  <2>1. m[1] \in Int /\ Len(m) \in {2, 3}
    BY MeaningType, ProxyAssumption
  <2>2. CASE Len(m) = 2
    BY <1>4, <1>5, <1>7, <2>1, <2>2 DEF Holds
  <2>3. CASE Len(m) = 3
    <3>1. <<m[1], m[3]>> \in Meaning
      BY <2>3, MeaningType, ProxyAssumption
    <3>2. Len(m) # 2
      BY <2>3
    <3>3. QED
      BY <1>4, <1>5, <1>7, <2>3, <3>1, <3>2 DEF Holds
  <2>4. QED
    BY <2>1, <2>2, <2>3
<1>9. ~aborted' /\ Finish(cell, t, v)
  BY <1>3, <1>4, <1>5, <1>6 DEF Deref, cxx_assert
<1>10. \E V : Moves(cell, T, cell', V)
  BY <1>1, <1>5, <1>7, <1>8, <1>9, Returned
<1>11. QED
  BY <1>9, <1>10

LEMMA UnwrappedMoves ==
  ASSUME NEW T, HeapOK(cell, T), NEW t \in DOMAIN cell, ~aborted, Unwrapped(t)
  PROVE  ~aborted' /\ \E V : Moves(cell, T, cell', V)
<1>1. cell[t].stage = "run" /\ cell[t].job.do = "unwrapped" /\ aborted' = aborted
  BY DEF Unwrapped, Running
<1>2. PICK m \in Meaning : Unwraps(T, cell[t], T[t], m)
  BY <1>1, ThreadState, JobIs
<1>3. PICK x, q : x = cell[t].job.xs[1] /\ q = cell[t].at
  OBVIOUS
<1>4. /\ Means(T, x, m) /\ cell[t].home = q /\ Len(m) = 3 /\ T[t] = prox(<<m[1], m[3]>>)
      /\ q \in Proc
  BY <1>2, <1>3, ThreadState DEF Unwraps, Of
<1>5. PICK l : l = make_local(cell, t, x)
  OBVIOUS
<1>6. PICK i : i = At(m, q)
  OBVIOUS
<1>7. /\ i \in Meaning /\ Len(i) = 3 /\ i[1] = m[1] /\ i[2] = q /\ i[3] = m[3]
  BY <1>4, <1>6, MeaningType
<1>8. PICK U : Spawns(cell, T, l.h, U, t) /\ Means(U, l.x, i)
  BY <1>3, <1>4, <1>5, <1>6, MakeLocalTyped
<1>9. PICK j : j = Job("deref", <<l.x>>, <<>>, NoProc)
  OBVIOUS
<1>10. Shaped(U, j) /\ j.do = "deref" /\ Of(U, j, i)
  <2>1. HeapOK(l.h, U) /\ "deref" \in Does
    BY <1>8 DEF Spawns, Does
  <2>2. QED
    BY <1>7, <1>8, <1>9, <2>1, JobOf
<1>11. JobFits(l.h, U, cell[t].home, cell[t].at, j, T[t])
  <2>1. PICK ty : ty = prox(<<i[1], i[3]>>)
    OBVIOUS
  <2>2. T[t] = ty
    BY <1>4, <1>7, <2>1
  <2>3. ASSUME NEW e, e.home = q, e.at = q, e.job = j PROVE JobOK(l.h, U, e, ty)
    <3>1. Len(i) # 2
      BY <1>7
    <3>2. Derefs(U, e, ty, i)
      BY <1>7, <1>10, <2>1, <2>3, <3>1 DEF Derefs
    <3>3. QED
      BY <1>7, <3>2 DEF JobOK
  <2>4. QED
    BY <1>3, <1>4, <2>2, <2>3 DEF JobFits
<1>12. Continue(l.h, t, j)
  BY <1>3, <1>5, <1>9 DEF Unwrapped
<1>13. QED
  BY <1>1, <1>8, <1>10, <1>11, <1>12, Continued

LEMMA SyncMoves ==
  ASSUME NEW T, HeapOK(cell, T), NEW t \in DOMAIN cell, ~aborted, Sync(t)
  PROVE  ~aborted' /\ \E V : Moves(cell, T, cell', V)
<1>1. cell[t].stage = "run" /\ cell[t].job.do = "sync" /\ aborted' = aborted
  BY DEF Sync, Running
<1>2. PICK m \in Meaning : Syncs(T, cell[t], T[t], m)
  BY <1>1, ThreadState, JobIs
<1>3. PICK j, q, p : j = cell[t].job /\ q = cell[t].at /\ p = m[2]
  OBVIOUS
<1>4. /\ Asks(T, j, m) /\ T[t] = num(m[1]) /\ cell[t].home = q /\ j.fn = "add"
      /\ ready(cell, j.of)
  BY <1>2, <1>3 DEF Syncs, Sync
<1>5. Shaped(T, j) /\ p \in Proc
  BY <1>3, ThreadState, MeaningType
<1>6. cell[j.of].value.proc = p /\ Placed(cell, j) /\ Arguments(T, j, p, m, Proc)
  BY <1>3, <1>4, Asked
<1>7. PICK k : k = [j EXCEPT !.do = "fold", !.of = <<>>]
  OBVIOUS
<1>8. Shaped(T, k) /\ k.do = "fold" /\ Alike(j, k)
  <2>1. "fold" \in Does
    BY DEF Does
  <2>2. /\ Shaped(T, [j EXCEPT !.do = "fold", !.of = <<>>])
        /\ [j EXCEPT !.do = "fold", !.of = <<>>].do = "fold"
        /\ Alike(j, [j EXCEPT !.do = "fold", !.of = <<>>])
    BY <1>5, <2>1, Detached, Zenon
  <2>3. QED
    BY <1>7, <2>2
<1>9. Arguments(T, k, p, m, Proc) /\ Placed(cell, k) /\ k.fn = "add"
  BY <1>4, <1>6, <1>8, SameCall DEF Alike
<1>10. JobFits(cell, T, q, p, k, T[t])
  <2>1. ASSUME NEW e, e.home = q, e.at = p, e.job = k PROVE JobOK(cell, T, e, T[t])
    <3>1. Folds(cell, T, e, T[t], m)
      BY <1>4, <1>8, <1>9, <2>1 DEF Folds
    <3>2. QED
      BY <3>1 DEF JobOK
  <2>2. QED
    BY <2>1 DEF JobFits
<1>11. AwaitCall(cell, t, p, k)
  BY <1>3, <1>6, <1>7 DEF Sync
<1>12. \E V : Moves(cell, T, cell', V)
  BY <1>1, <1>3, <1>4, <1>5, <1>8, <1>10, <1>11, AwaitedCall
<1>13. QED
  BY <1>1, <1>12

\* Each with load; what a call carries is loaded where it arrives.
loaded(h, t, xs) == Each(LAMBDA a, x : load(a, t, x, cell[t].at), h, xs)

LEMMA LoadedNone ==
  ASSUME NEW h, NEW t
  PROVE  loaded(h, t, <<>>) = [h |-> h, xs |-> <<>>]
BY DEF loaded, Each

LEMMA LoadedOne ==
  ASSUME NEW h, NEW t, NEW x
  PROVE  LET r == load(h, t, x, cell[t].at)
         IN  loaded(h, t, <<x>>) = [h |-> r.h, xs |-> <<r.x>>]
<1>1. Len(<<x>>) = 1 /\ <<x>>[1] = x
  OBVIOUS
<1>2. QED
  BY <1>1 DEF loaded, Each

LEMMA LoadedTwo ==
  ASSUME NEW h, NEW t, NEW x, NEW y
  PROVE  LET r == load(h, t, x, cell[t].at)
             s == load(r.h, t, y, cell[t].at)
         IN  loaded(h, t, <<x, y>>) = [h |-> s.h, xs |-> <<r.x, s.x>>]
<1>1. Len(<<x, y>>) = 2 /\ <<x, y>>[1] = x /\ <<x, y>>[2] = y
  OBVIOUS
<1>2. QED
  BY <1>1 DEF loaded, Each

\* Proxy y, in the heap g with typing U, means what x means in h with T.
Stands(h, T, x, g, U, y) ==
  /\ IsProxy(U, y)
  /\ \A m : Means(T, x, m) => Means(U, y, m) /\ (Knows(h, x) => Knows(g, y))

\* The thread of t has loaded proxies xs; r is what loaded returns.
Loads(h, T, t, xs, r, U) ==
  /\ Spawns(h, T, r.h, U, t)
  /\ r.xs \in Seq(ProxyRecord) /\ Len(r.xs) = Len(xs)
  /\ \A i \in 1 .. Len(xs) : Stands(h, T, xs[i], r.h, U, r.xs[i])

LEMMA LoadStands ==
  ASSUME NEW h, NEW T, HeapOK(h, T), NEW t \in DOMAIN h, NEW x, IsProxy(T, x), NEW q \in Proc
  PROVE  \E U : /\ Spawns(h, T, load(h, t, x, q).h, U, t)
                /\ Stands(h, T, x, load(h, t, x, q).h, U, load(h, t, x, q).x)
<1>1. \A m : Means(T, x, m) => x # null
  BY MeantProc
<1>2. QED
  BY <1>1, LoadTyped DEF Stands

LEMMA StandsLonger ==
  ASSUME NEW h, NEW T, NEW x, NEW g, NEW U, NEW y, Stands(h, T, x, g, U, y),
         NEW f, NEW V, Grows(g, U, f, V)
  PROVE  Stands(h, T, x, f, V, y)
<1>1. IsProxy(V, y)
  BY IsProxyGrows DEF Stands
<1>2. ASSUME NEW m, Means(T, x, m) PROVE Means(V, y, m) /\ (Knows(h, x) => Knows(f, y))
  <2>1. Means(U, y, m) /\ (Knows(h, x) => Knows(g, y))
    BY <1>2 DEF Stands
  <2>2. QED
    BY <2>1, MeansGrows
<1>3. QED
  BY <1>1, <1>2 DEF Stands

\* What is loaded after something else.
LEMMA StandsAfter ==
  ASSUME NEW h, NEW T, NEW x, NEW g, NEW U, Grows(h, T, g, U), IsProxy(T, x),
         NEW f, NEW V, NEW y, Stands(g, U, x, f, V, y)
  PROVE  Stands(h, T, x, f, V, y)
<1>1. ASSUME NEW m, Means(T, x, m) PROVE Means(V, y, m) /\ (Knows(h, x) => Knows(f, y))
  <2>1. Means(U, x, m) /\ (Knows(h, x) => Knows(g, x))
    BY <1>1, MeansGrows
  <2>2. QED
    BY <2>1 DEF Stands
<1>2. QED
  BY <1>1 DEF Stands

LEMMA LoadedTyped ==
  ASSUME NEW T, HeapOK(cell, T), NEW t \in DOMAIN cell, NEW xs \in Seq(ProxyRecord),
         Len(xs) <= 2, \A i \in DOMAIN xs : IsProxy(T, xs[i])
  PROVE  \E U : Loads(cell, T, t, xs, loaded(cell, t, xs), U)
<1>1. PICK h, q : h = cell /\ q = cell[t].at
  OBVIOUS
<1>2. HeapOK(h, T) /\ t \in DOMAIN h /\ q \in Proc
  BY <1>1, ThreadState
<1>3. PICK l : l = loaded(cell, t, xs)
  OBVIOUS
<1>4. CASE Len(xs) = 0
  <2>1. xs = <<>>
    BY <1>4
  <2>2. l.h = h /\ l.xs = <<>>
    BY <1>1, <1>3, <2>1, LoadedNone
  <2>3. Spawns(h, T, l.h, T, t)
    BY <1>2, <2>2, SpawnsNothing
  <2>4. l.xs \in Seq(ProxyRecord) /\ Len(l.xs) = Len(xs) /\ 1 .. Len(xs) = {}
    BY <1>4, <2>2
  <2>5. Loads(h, T, t, xs, l, T)
    BY <2>3, <2>4 DEF Loads
  <2>6. QED
    BY <1>1, <1>3, <2>5
<1>5. CASE Len(xs) = 1
  <2>1. PICK x : x = xs[1]
    OBVIOUS
  <2>2. xs = <<x>> /\ IsProxy(T, x)
    BY <1>5, <2>1
  <2>3. PICK r : r = load(h, t, x, q)
    OBVIOUS
  <2>4. l.h = r.h /\ l.xs = <<r.x>>
    <3>1. loaded(h, t, <<x>>) = [h |-> load(h, t, x, cell[t].at).h, xs |-> <<load(h, t, x, cell[t].at).x>>]
      BY LoadedOne
    <3>2. l = [h |-> r.h, xs |-> <<r.x>>]
      BY <1>1, <1>3, <2>2, <2>3, <3>1, Zenon
    <3>3. QED
      BY <3>2
  <2>5. PICK U : Spawns(h, T, r.h, U, t) /\ Stands(h, T, x, r.h, U, r.x)
    BY <1>2, <2>2, <2>3, LoadStands
  <2>6. r.x \in ProxyRecord
    BY <2>5, Recorded DEF Spawns, Stands
  <2>7. l.xs \in Seq(ProxyRecord) /\ Len(l.xs) = Len(xs) /\ l.xs[1] = r.x
    BY <1>5, <2>4, <2>6
  <2>8. ASSUME NEW i \in 1 .. Len(xs) PROVE Stands(h, T, xs[i], l.h, U, l.xs[i])
    <3>1. i = 1
      BY <1>5
    <3>2. QED
      BY <2>1, <2>4, <2>5, <2>7, <3>1
  <2>9. Loads(h, T, t, xs, l, U)
    BY <2>4, <2>5, <2>7, <2>8 DEF Loads
  <2>10. QED
    BY <1>1, <1>3, <2>9
<1>6. CASE Len(xs) = 2
  <2>1. PICK x, y : x = xs[1] /\ y = xs[2]
    OBVIOUS
  <2>2. xs = <<x, y>> /\ IsProxy(T, x) /\ IsProxy(T, y)
    BY <1>6, <2>1
  <2>3. PICK r : r = load(h, t, x, q)
    OBVIOUS
  <2>4. PICK s : s = load(r.h, t, y, q)
    OBVIOUS
  <2>5. l.h = s.h /\ l.xs = <<r.x, s.x>>
    <3>1. loaded(h, t, <<x, y>>) =
            [h |-> load(load(h, t, x, cell[t].at).h, t, y, cell[t].at).h,
             xs |-> <<load(h, t, x, cell[t].at).x, load(load(h, t, x, cell[t].at).h, t, y, cell[t].at).x>>]
      BY LoadedTwo
    <3>2. l = [h |-> s.h, xs |-> <<r.x, s.x>>]
      BY <1>1, <1>3, <2>2, <2>3, <2>4, <3>1, Zenon
    <3>3. QED
      BY <3>2
  <2>6. PICK U : Spawns(h, T, r.h, U, t) /\ Stands(h, T, x, r.h, U, r.x)
    BY <1>2, <2>2, <2>3, LoadStands
  <2>7. HeapOK(r.h, U) /\ t \in DOMAIN r.h /\ Grows(h, T, r.h, U) /\ IsProxy(U, y)
    BY <1>2, <2>2, <2>6, IsProxyGrows DEF Spawns
  <2>8. PICK V : Spawns(r.h, U, s.h, V, t) /\ Stands(r.h, U, y, s.h, V, s.x)
    BY <1>2, <2>4, <2>7, LoadStands
  <2>9. Spawns(h, T, s.h, V, t)
    BY <1>2, <2>6, <2>8, SpawnsMore
  <2>10. HeapOK(s.h, V) /\ Grows(r.h, U, s.h, V)
    BY <2>8 DEF Spawns
  <2>11. Stands(h, T, x, s.h, V, r.x)
    BY <2>6, <2>10, StandsLonger
  <2>12. Stands(h, T, y, s.h, V, s.x)
    BY <2>2, <2>7, <2>8, StandsAfter
  <2>13. r.x \in ProxyRecord /\ s.x \in ProxyRecord
    BY <2>10, <2>11, <2>12, Recorded DEF Stands
  <2>14. l.xs \in Seq(ProxyRecord) /\ Len(l.xs) = Len(xs) /\ l.xs[1] = r.x /\ l.xs[2] = s.x
    BY <1>6, <2>5, <2>13
  <2>15. ASSUME NEW i \in 1 .. Len(xs) PROVE Stands(h, T, xs[i], l.h, V, l.xs[i])
    <3>1. i = 1 \/ i = 2
      BY <1>6
    <3>2. QED
      BY <2>1, <2>5, <2>11, <2>12, <2>14, <3>1
  <2>16. Loads(h, T, t, xs, l, V)
    BY <2>5, <2>9, <2>14, <2>15 DEF Loads
  <2>17. QED
    BY <1>1, <1>3, <2>16
<1>7. Len(xs) = 0 \/ Len(xs) = 1 \/ Len(xs) = 2
  <2>1. PICK n : n = Len(xs)
    OBVIOUS
  <2>2. n \in Nat /\ n <= 2
    BY <2>1
  <2>3. QED
    BY <2>1, <2>2
<1>8. QED
  BY <1>4, <1>5, <1>6, <1>7

\* A call with proxies that stand for those of another is the same call.
LEMMA StandingArguments ==
  ASSUME NEW h, NEW T, NEW j, NEW t, NEW r, NEW U, Loads(h, T, t, j.xs, r, U),
         j.xs \in Seq(ProxyRecord), NEW k, k.fn = j.fn, k.xs = r.xs,
         NEW p, NEW m, NEW homes, Arguments(T, j, p, m, homes)
  PROVE  Arguments(U, k, p, m, homes) /\ (Placed(h, j) => Placed(r.h, k))
<1>1. PICK n \in Int :
        /\ j.xs # <<>>
        /\ Means(T, j.xs[1], <<n, p>>)
        /\ \/ j.fn = "inc" /\ Len(j.xs) = 1 /\ m = <<n + 1, p>>
           \/ j.fn = "here" /\ Len(j.xs) = 1 /\ m = <<n + 1, p, p>>
           \/ /\ j.fn = "add" /\ Len(j.xs) = 2
              /\ \E a \in Int, q \in homes :
                   Means(T, j.xs[2], <<a, q>>) /\ m = <<n + 3 * a, p>>
  BY DEF Arguments
<1>2. /\ r.xs \in Seq(ProxyRecord) /\ Len(r.xs) = Len(j.xs)
      /\ \A i \in 1 .. Len(j.xs) : Stands(h, T, j.xs[i], r.h, U, r.xs[i])
  BY DEF Loads
<1>3. 1 \in 1 .. Len(j.xs) /\ k.xs # <<>> /\ (Len(j.xs) = 2 => 2 \in 1 .. Len(j.xs))
  <2>1. PICK xs, ys : xs = j.xs /\ ys = r.xs
    OBVIOUS
  <2>2. xs \in Seq(ProxyRecord) /\ ys \in Seq(ProxyRecord) /\ xs # <<>> /\ Len(ys) = Len(xs)
    BY <1>1, <1>2, <2>1
  <2>3. Len(xs) \in Nat /\ Len(xs) # 0
    BY <2>2
  <2>4. ys # <<>>
    BY <2>2, <2>3
  <2>5. PICK l : l = Len(xs)
    OBVIOUS
  <2>6. l \in Nat /\ l # 0
    BY <2>3, <2>5
  <2>7. 1 \in 1 .. l /\ (l = 2 => 2 \in 1 .. l)
    BY <2>6
  <2>8. k.xs # <<>>
    BY <2>1, <2>4
  <2>9. QED
    BY <2>1, <2>5, <2>7, <2>8
<1>4. Means(U, k.xs[1], <<n, p>>) /\ (Knows(h, j.xs[1]) => Knows(r.h, k.xs[1]))
  BY <1>1, <1>2, <1>3 DEF Stands
<1>5. Len(j.xs) = 2 => \A a : Means(T, j.xs[2], a) => Means(U, k.xs[2], a)
  BY <1>2, <1>3 DEF Stands
<1>6. Placed(h, j) => Placed(r.h, k)
  BY <1>1, <1>4 DEF Placed
<1>7. Len(k.xs) = Len(j.xs)
  BY <1>2
<1>8. CASE j.fn = "add" /\ Len(j.xs) = 2
  <2>1. PICK a \in Int, q \in homes : Means(T, j.xs[2], <<a, q>>) /\ m = <<n + 3 * a, p>>
    BY <1>1, <1>8
  <2>2. Means(U, k.xs[2], <<a, q>>)
    BY <1>5, <1>8, <2>1
  <2>3. QED
    BY <1>3, <1>4, <1>6, <1>7, <1>8, <2>1, <2>2 DEF Arguments
<1>9. CASE j.fn # "add"
  BY <1>1, <1>3, <1>4, <1>6, <1>7, <1>9 DEF Arguments
<1>10. QED
  BY <1>1, <1>8, <1>9

\* A job that has come from another process, with its proxies loaded.
LEMMA StandingJob ==
  ASSUME NEW h, NEW T, NEW e, NEW ty, JobOK(h, T, e, ty), e.home # e.at,
         e.job.xs \in Seq(ProxyRecord), NEW t, NEW r, NEW U, Loads(h, T, t, e.job.xs, r, U),
         NEW f, f.home = e.home, f.at = e.at, f.job.do = e.job.do, f.job.fn = e.job.fn,
         f.job.n = e.job.n, f.job.xs = r.xs
  PROVE  JobOK(r.h, U, f, ty)
<1>1. PICK m \in Meaning :
        \/ Locals(h, T, e, ty, m) \/ Folds(h, T, e, ty, m) \/ AppliesFold(T, e, ty, m)
        \/ GetsPtr(T, e, ty, m)
  BY DEF JobOK, Invokes, Applies, Remotes, Syncs, GetsProc, GetsPtrLater, Unwraps, Derefs,
         Awaits, Constructs, Unproxies
<1>2. PICK j, k : j = e.job /\ k = f.job
  OBVIOUS
<1>3. \A p, homes : Arguments(T, j, p, m, homes) =>
        Arguments(U, k, p, m, homes) /\ (Placed(h, j) => Placed(r.h, k))
  <2>1. SUFFICES ASSUME NEW p, NEW homes, Arguments(T, j, p, m, homes)
        PROVE  Arguments(U, k, p, m, homes) /\ (Placed(h, j) => Placed(r.h, k))
    OBVIOUS
  <2>2. Loads(h, T, t, j.xs, r, U) /\ j.xs \in Seq(ProxyRecord) /\ k.fn = j.fn /\ k.xs = r.xs
    BY <1>2
  <2>3. QED
    BY <2>1, <2>2, StandingArguments
<1>4. CASE Locals(h, T, e, ty, m)
  <2>1. CASE j.xs = <<>>
    <3>1. k.xs = <<>>
      BY <1>2, <2>1 DEF Loads
    <3>2. Makes(U, k, f.at, m) /\ Placed(r.h, k)
      BY <1>2, <1>4, <2>1, <3>1 DEF Locals, Makes, Arguments, Placed
    <3>3. Locals(r.h, U, f, ty, m)
      BY <1>2, <1>4, <3>2 DEF Locals
    <3>4. QED
      BY <3>3 DEF JobOK
  <2>2. CASE j.xs # <<>>
    <3>1. Arguments(T, j, e.at, m, Proc) /\ Placed(h, j)
      BY <1>2, <1>4, <2>2 DEF Locals, Makes
    <3>2. Makes(U, k, f.at, m) /\ Placed(r.h, k)
      BY <1>3, <3>1 DEF Makes
    <3>3. Locals(r.h, U, f, ty, m)
      BY <1>2, <1>4, <3>2 DEF Locals
    <3>4. QED
      BY <3>3 DEF JobOK
  <2>3. QED
    BY <2>1, <2>2
<1>5. CASE Folds(h, T, e, ty, m)
  <2>1. Folds(r.h, U, f, ty, m)
    BY <1>2, <1>3, <1>5 DEF Folds
  <2>2. QED
    BY <2>1 DEF JobOK
<1>6. CASE AppliesFold(T, e, ty, m)
  <2>1. AppliesFold(U, f, ty, m)
    BY <1>2, <1>3, <1>6 DEF AppliesFold
  <2>2. QED
    BY <2>1 DEF JobOK
<1>7. CASE GetsPtr(T, e, ty, m)
  <2>1. j.xs # <<>> /\ Means(T, j.xs[1], m)
    BY <1>2, <1>7 DEF GetsPtr, Of
  <2>2. 1 \in 1 .. Len(j.xs) /\ r.xs # <<>>
    BY <1>2, <2>1 DEF Loads
  <2>3. Means(U, r.xs[1], m)
    BY <1>2, <2>1, <2>2 DEF Loads, Stands
  <2>4. GetsPtr(U, f, ty, m)
    BY <1>7, <2>2, <2>3 DEF GetsPtr, Of
  <2>5. QED
    BY <2>4 DEF JobOK
<1>8. QED
  BY <1>1, <1>4, <1>5, <1>6, <1>7

LEMMA ArriveMoves ==
  ASSUME NEW T, HeapOK(cell, T), NEW t \in DOMAIN cell, ~aborted, Arrive(t)
  PROVE  ~aborted' /\ \E V : Moves(cell, T, cell', V)
<1>1. cell[t].stage = "sent" /\ aborted' = aborted
  BY DEF Arrive
<1>2. PICK h, f, j, xs : h = cell /\ f = cell' /\ j = cell[t].job /\ xs = cell[t].job.xs
  OBVIOUS
<1>3. PICK r : r = loaded(cell, t, cell[t].job.xs)
  OBVIOUS
<1>4. f = [r.h EXCEPT ![t].stage = "run", ![t].job.xs = r.xs]
  BY <1>2, <1>3 DEF Arrive, loaded
<1>5. /\ HeapOK(h, T) /\ t \in DOMAIN h /\ h[t] \in Entry /\ Shaped(T, j)
      /\ JobOK(h, T, h[t], T[t])
  BY <1>1, <1>2, ThreadState
<1>6. h[t].home # h[t].at
  BY <1>1, <1>2 DEF HeapOK, EntryOK
<1>7. xs \in Seq(ProxyRecord) /\ Len(xs) <= 2 /\ \A i \in DOMAIN xs : IsProxy(T, xs[i])
  BY <1>2, <1>5 DEF Shaped, JobRecord
<1>8. PICK U : Loads(h, T, t, xs, r, U)
  BY <1>2, <1>3, <1>7, LoadedTyped
<1>9. PICK g : g = r.h
  OBVIOUS
<1>10. Spawns(h, T, g, U, t) /\ r.xs \in Seq(ProxyRecord) /\ Len(r.xs) = Len(xs)
  BY <1>8, <1>9 DEF Loads
<1>11. /\ HeapOK(g, U) /\ t \in DOMAIN g /\ g[t] \in Entry
       /\ g[t] = [h[t] EXCEPT !.made = g[t].made] /\ Shaped(U, g[t].job)
       /\ IsProxy(U, g[t].value.inner)
  BY <1>5, <1>10 DEF Spawns, HeapOK, EntryOK
<1>12. /\ g[t].home = h[t].home /\ g[t].at = h[t].at /\ g[t].job = j /\ j \in JobRecord
       /\ g[t].value = h[t].value /\ g[t].made \in Nat
  BY <1>2, <1>5, <1>11 DEF Entry
<1>13. PICK k : k = [j EXCEPT !.xs = r.xs]
  OBVIOUS
<1>14. /\ k \in JobRecord /\ k.do = j.do /\ k.fn = j.fn /\ k.n = j.n /\ k.of = j.of
       /\ k.claim = j.claim /\ k.xs = r.xs
  BY <1>10, <1>12, <1>13 DEF JobRecord
<1>15. ASSUME NEW i \in DOMAIN r.xs PROVE IsProxy(U, r.xs[i])
  <2>1. i \in 1 .. Len(xs)
    BY <1>10
  <2>2. QED
    BY <1>8, <2>1 DEF Loads, Stands
<1>16. Shaped(U, k)
  BY <1>7, <1>10, <1>11, <1>12, <1>14, <1>15 DEF Shaped
<1>17. PICK e : e = [g[t] EXCEPT !.stage = "run", !.job = k]
  OBVIOUS
<1>18. /\ e \in Entry /\ e.home = h[t].home /\ e.at = h[t].at /\ e.stage = "run" /\ e.job = k
       /\ e.value = g[t].value /\ e.made = g[t].made
  BY <1>11, <1>12, <1>14, <1>17 DEF Entry
<1>19. f = [g EXCEPT ![t] = e]
  BY <1>4, <1>9, <1>11, <1>12, <1>13, <1>17 DEF Entry
<1>20. JobOK(g, U, e, T[t])
  <2>1. PICK d : d = h[t]
    OBVIOUS
  <2>2. /\ JobOK(h, T, d, T[t]) /\ d.home # d.at /\ d.job.xs \in Seq(ProxyRecord)
        /\ Loads(h, T, t, d.job.xs, r, U)
    BY <1>2, <1>5, <1>6, <1>7, <1>8, <2>1
  <2>3. /\ e.home = d.home /\ e.at = d.at /\ e.job.do = d.job.do /\ e.job.fn = d.job.fn
        /\ e.job.n = d.job.n /\ e.job.xs = r.xs
    BY <1>2, <1>14, <1>18, <2>1
  <2>4. QED
    BY <1>9, <2>2, <2>3, StandingJob
<1>21. EntryOK(g, U, e, T[t])
  BY <1>11, <1>16, <1>18, <1>20 DEF EntryOK
<1>22. h[t].stage \in {"run", "sent", "back"} /\ e.stage # "idle"
  BY <1>1, <1>2, <1>18
<1>23. \E V : Moves(h, T, [g EXCEPT ![t] = e], V)
  BY <1>5, <1>10, <1>18, <1>21, <1>22, Moved
<1>24. QED
  BY <1>1, <1>2, <1>19, <1>23

\* A value with a proxy that stands for its own.
LEMMA Carried ==
  ASSUME NEW h, NEW T, NEW v, NEW ty, Holds(h, T, v, ty),
         NEW g, NEW U, NEW w, Stands(h, T, v.inner, g, U, w.inner), Grows(h, T, g, U),
         w.proc = v.proc, w.n = v.n
  PROVE  Holds(g, U, w, ty)
<1>1. CASE \E m \in Meaning :
             /\ ty = ptr(m) /\ v.proc = m[2]
             /\ Len(m) = 2 => v.n = m[1]
             /\ Len(m) = 3 => Means(T, v.inner, <<m[1], m[3]>>)
  BY <1>1 DEF Holds, Stands
<1>2. CASE \E m \in Meaning : ty = prox(m) /\ Means(T, v.inner, m)
  BY <1>2 DEF Holds, Stands
<1>3. CASE \E n \in Int : ty = num(n) /\ v.n = n
  BY <1>3 DEF Holds
<1>4. CASE \E x, m : /\ ty = proc_of(x, m) /\ Means(T, x, m)
                     /\ v.proc = m[2] /\ Knows(h, x)
  BY <1>4, MeansGrows DEF Holds
<1>5. QED
  BY <1>1, <1>2, <1>3, <1>4 DEF Holds

\* What a pointer points to, copied to another process.
LEMMA Copied ==
  ASSUME NEW h, NEW T, NEW v, NEW m \in Meaning, NEW p \in Proc, NEW q \in Proc,
         Holds(h, T, v, ptr(At(m, p))),
         NEW g, NEW U, NEW w, Stands(h, T, v.inner, g, U, w.inner),
         w.proc = q, w.n = v.n
  PROVE  Holds(g, U, w, ptr(At(m, q)))
<1>1. PICK a, b : a = At(m, p) /\ b = At(m, q)
  OBVIOUS
<1>2. /\ a \in Meaning /\ b \in Meaning /\ Len(a) = Len(m) /\ Len(b) = Len(m)
      /\ a[1] = m[1] /\ b[1] = m[1] /\ b[2] = q
      /\ Len(m) = 3 => a[3] = m[3] /\ b[3] = m[3]
  BY <1>1, MeaningType
<1>3. Holds(h, T, v, ptr(a))
  BY <1>1
<1>4. /\ Len(a) = 2 => v.n = a[1]
      /\ Len(a) = 3 => Means(T, v.inner, <<a[1], a[3]>>)
  BY <1>3, HoldsPtr
<1>5. Len(b) = 2 => w.n = b[1]
  BY <1>2, <1>4
<1>6. Len(b) = 3 => Means(U, w.inner, <<b[1], b[3]>>)
  BY <1>2, <1>4 DEF Stands
<1>7. Holds(g, U, w, ptr(b))
  BY <1>2, <1>5, <1>6, IsPtr
<1>8. QED
  BY <1>1, <1>7

LEMMA ReturnMoves ==
  ASSUME NEW T, HeapOK(cell, T), NEW t \in DOMAIN cell, ~aborted, Return(t)
  PROVE  ~aborted' /\ \E V : Moves(cell, T, cell', V)
<1>1. cell[t].stage = "back" /\ aborted' = aborted
  BY DEF Return
<1>2. PICK h, f, v, p, q : /\ h = cell /\ f = cell' /\ v = cell[t].value
                           /\ p = cell[t].home /\ q = cell[t].at
  OBVIOUS
<1>3. PICK x, r : x = v.inner /\ r = load(h, t, x, p)
  OBVIOUS
<1>4. f = [r.h EXCEPT ![t].stage = "done", ![t].value.inner = r.x,
                      ![t].value.proc = IF h[t].job.do = "get_ptr" THEN p ELSE @]
  BY <1>2, <1>3 DEF Return
<1>5. /\ HeapOK(h, T) /\ t \in DOMAIN h /\ h[t] \in Entry /\ IsProxy(T, x)
      /\ p \in Proc /\ q \in Proc /\ Returns(h, T, h[t], T[t])
  BY <1>1, <1>2, <1>3, ThreadState
<1>6. PICK g : g = r.h
  OBVIOUS
<1>7. PICK U : Spawns(h, T, g, U, t) /\ Stands(h, T, x, g, U, r.x)
  BY <1>3, <1>5, <1>6, LoadStands
<1>8. /\ HeapOK(g, U) /\ t \in DOMAIN g /\ g[t] \in Entry /\ Grows(h, T, g, U)
      /\ g[t] = [h[t] EXCEPT !.made = g[t].made] /\ Shaped(U, g[t].job)
  BY <1>5, <1>7 DEF Spawns, HeapOK, EntryOK
<1>9. /\ g[t].home = p /\ g[t].at = q /\ g[t].job = h[t].job /\ g[t].value = v
      /\ g[t].made \in Nat /\ v \in ValueRecord
  BY <1>2, <1>5, <1>8 DEF Entry
<1>10. PICK to \in Place : to = IF h[t].job.do = "get_ptr" THEN p ELSE v.proc
  BY <1>5, <1>9 DEF Place, ValueRecord
<1>11. IsProxy(U, r.x) /\ r.x \in ProxyRecord
  BY <1>7, <1>8, Recorded DEF Stands
<1>12. PICK w : w = [v EXCEPT !.inner = r.x, !.proc = to]
  OBVIOUS
<1>13. w \in ValueRecord /\ w.inner = r.x /\ w.proc = to /\ w.n = v.n
  BY <1>9, <1>10, <1>11, <1>12 DEF ValueRecord
<1>14. PICK e : e = [g[t] EXCEPT !.stage = "done", !.value = w]
  OBVIOUS
<1>15. /\ e \in Entry /\ e.home = p /\ e.at = q /\ e.stage = "done" /\ e.job = h[t].job
       /\ e.value = w /\ e.made = g[t].made
  BY <1>8, <1>9, <1>13, <1>14 DEF Entry
<1>16. f = [g EXCEPT ![t] = e]
  <2>1. f = [g EXCEPT ![t] = [g[t] EXCEPT !.stage = "done", !.value.inner = r.x, !.value.proc = to]]
    <3>1. g[t].value.proc = v.proc
      BY <1>9
    <3>2. f = [g EXCEPT ![t] = [g[t] EXCEPT !.stage = "done", !.value.inner = r.x,
                                 !.value.proc = IF h[t].job.do = "get_ptr" THEN p ELSE v.proc]]
      BY <1>4, <1>6, <1>8, <1>9, <3>1 DEF Entry, ValueRecord
    <3>3. QED
      BY <1>10, <3>2
  <2>2. [g[t] EXCEPT !.stage = "done", !.value.inner = r.x, !.value.proc = to] = e
    BY <1>8, <1>9, <1>12, <1>14 DEF Entry, ValueRecord
  <2>3. QED
    BY <2>1, <2>2
<1>17. Holds(g, U, w, T[t])
  <2>1. CASE h[t].job.do = "get_ptr"
    <3>1. PICK m \in Meaning : T[t] = ptr(At(m, p)) /\ Holds(h, T, v, ptr(At(m, q)))
      BY <1>2, <1>5, <2>1 DEF Returns
    <3>2. w.proc = p /\ Stands(h, T, v.inner, g, U, w.inner)
      BY <1>3, <1>7, <1>10, <1>13, <2>1
    <3>3. Holds(g, U, w, ptr(At(m, p)))
      BY <1>5, <1>13, <3>1, <3>2, Copied
    <3>4. QED
      BY <3>1, <3>3
  <2>2. CASE h[t].job.do # "get_ptr"
    <3>1. Holds(h, T, v, T[t])
      BY <1>2, <1>5, <2>2 DEF Returns
    <3>2. w.proc = v.proc /\ Stands(h, T, v.inner, g, U, w.inner)
      BY <1>3, <1>7, <1>10, <1>13, <2>2
    <3>3. QED
      BY <1>8, <1>13, <3>1, <3>2, Carried
  <2>3. QED
    BY <2>1, <2>2
<1>18. EntryOK(g, U, e, T[t])
  BY <1>8, <1>9, <1>11, <1>13, <1>15, <1>17 DEF EntryOK
<1>19. h[t].stage \in {"run", "sent", "back"} /\ e.stage # "idle"
  BY <1>1, <1>2, <1>15
<1>20. \E V : Moves(h, T, [g EXCEPT ![t] = e], V)
  BY <1>2, <1>5, <1>7, <1>15, <1>18, <1>19, Moved
<1>21. QED
  BY <1>1, <1>2, <1>16, <1>20

\* Every step of a thread keeps the cells well typed, and no assertion fails.
LEMMA ThreadMoves ==
  ASSUME NEW T, HeapOK(cell, T), NEW t \in DOMAIN cell, ~aborted, Thread(t)
  PROVE  ~aborted' /\ \E V : Moves(cell, T, cell', V)
<1>1. CASE Local(t)
  BY <1>1, LocalMoves
<1>2. CASE Invoke(t)
  BY <1>2, InvokeConstant, InvokeFunction
<1>3. CASE Apply(t)
  BY <1>3, ApplyMoves
<1>4. CASE GetProc(t)
  BY <1>4, GetProcMoves
<1>5. CASE Await(t)
  BY <1>5, AwaitMoves
<1>6. CASE GetPtr(t)
  BY <1>6, GetPtrMoves
<1>7. CASE GetPtrLater(t)
  BY <1>7, GetPtrLaterMoves
<1>8. CASE Remote(t)
  BY <1>8, RemoteMoves
<1>9. CASE RemoteNow(t)
  BY <1>9, RemoteNowMoves
<1>10. CASE Construct(t)
  BY <1>10, ConstructMoves
<1>11. CASE ConstructReady(t)
  BY <1>11, ConstructReadyMoves
<1>12. CASE Unproxy(t)
  BY <1>12, UnproxyMoves
<1>13. CASE Unwrapped(t)
  BY <1>13, UnwrappedMoves
<1>14. CASE Deref(t)
  BY <1>14, DerefMoves
<1>15. CASE Sync(t)
  BY <1>15, SyncMoves
<1>16. CASE Arrive(t)
  BY <1>16, ArriveMoves
<1>17. CASE Return(t)
  BY <1>17, ReturnMoves
<1>18. QED
  BY <1>1, <1>2, <1>3, <1>4, <1>5, <1>6, <1>7, <1>8, <1>9, <1>10, <1>11, <1>12, <1>13, <1>14,
     <1>15, <1>16, <1>17 DEF Thread

-----------------------------------------------------------------------------
(* The program *)

\* Proxy x of a variable means m, and if the object is a proxy of an object
\* elsewhere, then the variable knows that it is here.
Fits(T, x, m) ==
  /\ IF m = <<>> THEN x = null ELSE Means(T, x, m)
  /\ m # <<>> /\ Len(m) = 3 /\ m[2] # m[3] => m[2] = User /\ x.proc = User

\* The variable x will be assigned a proxy that means m.
Expects(x, m) ==
  x = null /\ m \in Meaning /\ (Len(m) = 3 => m[2] = m[3])

\* The variables ps mean ms, after n operations, and w is being assigned to.
VarsOK(T, ps, ms, w, n) ==
  /\ ps \in [Var -> ProxyRecord]
  /\ ms \in [Var -> Meaning \cup {<<>>}]
  /\ \A v \in Var :
       /\ v # w => Fits(T, ps[v], ms[v])
       /\ v = w => Expects(ps[v], ms[v])
       /\ n < v => ms[v] = <<>>

\* The operation that runs makes what is wanted, and before it all was well.
ResultOK(T, ms, w, a, stage) ==
  /\ a \in [want : Int, is : Int]
  /\ T[main] = IF w = 0 THEN num(a.want) ELSE prox(ms[w])
  /\ w # 0 \/ stage = "idle" => a.is = a.want
  /\ stage = "idle" => w = 0

Typed(T) ==
  /\ HeapOK(cell, T)
  /\ VarsOK(T, px, meant, target, ops)
  /\ ResultOK(T, meant, target, answer, cell[main].stage)

\* The inductive invariant: there is a typing of the cells under which all is
\* well typed.
Inv ==
  /\ aborted \in BOOLEAN /\ ~aborted
  /\ ops \in 0 .. MaxOps /\ target \in Var \cup {0}
  /\ \E T : Typed(T)

LEMMA FitsGrows ==
  ASSUME NEW h, NEW T, NEW g, NEW U, Grows(h, T, g, U), NEW x, NEW m, Fits(T, x, m)
  PROVE  Fits(U, x, m)
BY MeansGrows DEF Fits

LEMMA VarsGrow ==
  ASSUME NEW h, NEW T, NEW g, NEW U, Grows(h, T, g, U), NEW ps, NEW ms, NEW w, NEW n,
         VarsOK(T, ps, ms, w, n)
  PROVE  VarsOK(U, ps, ms, w, n)
<1>1. \A v \in Var : v # w => Fits(U, ps[v], ms[v])
  BY FitsGrows DEF VarsOK
<1>2. QED
  BY <1>1 DEF VarsOK

LEMMA InvInit == Init => Inv
<1> SUFFICES ASSUME Init PROVE Inv
  OBVIOUS
<1>1. PICK h : h = cell
  OBVIOUS
<1>2. PICK T : T = [t \in {main} |-> num(0)]
  OBVIOUS
<1>3. /\ h = [t \in {main} |-> idle] /\ px = [v \in Var |-> null] /\ target = 0 /\ ops = 0
      /\ aborted = FALSE /\ meant = [v \in Var |-> <<>>] /\ answer = [want |-> 0, is |-> 0]
  BY <1>1 DEF Init
<1>4. null \in ProxyRecord /\ IsProxy(T, null)
  BY DEF null, proxy, ProxyRecord, Place, IsProxy
<1>5. NoJob \in JobRecord /\ NoJob.of = main /\ NoJob.xs = <<>>
  BY DEF NoJob, Job, None, JobRecord, Does, Place, main
<1>6. Shaped(T, NoJob)
  BY <1>2, <1>5 DEF Shaped
<1>7. NoValue \in ValueRecord /\ NoValue.inner = null
  BY <1>4 DEF NoValue, Value, ValueRecord, Place
<1>8. /\ idle \in Entry /\ idle.stage = "idle" /\ idle.job = NoJob /\ idle.value = NoValue
      /\ idle.home = User /\ idle.at = User
  BY <1>5, <1>7, ProxyAssumption DEF idle, New, Entry
<1>9. EntryOK(h, T, idle, num(0))
  BY <1>4, <1>6, <1>7, <1>8 DEF EntryOK
<1>10. Named(h)
  <2>1. \A t \in Seq(Nat), k \in Nat : Name(t, k) # main
    BY NameType
  <2>2. DOMAIN h \subseteq Seq(Nat)
    BY <1>3 DEF main
  <2>3. QED
    BY <1>3, <2>1, <2>2 DEF Named
<1>11. HeapOK(h, T)
  BY <1>2, <1>3, <1>8, <1>9, <1>10 DEF HeapOK
<1>12. VarsOK(T, px, meant, target, ops)
  <2>1. px \in [Var -> ProxyRecord] /\ meant \in [Var -> Meaning \cup {<<>>}]
    BY <1>3, <1>4
  <2>2. \A v \in Var : Fits(T, px[v], meant[v])
    BY <1>3 DEF Fits
  <2>3. \A v \in Var : v # target
    BY <1>3 DEF Var
  <2>4. QED
    BY <1>3, <2>1, <2>2, <2>3 DEF VarsOK
<1>13. ResultOK(T, meant, target, answer, h[main].stage)
  BY <1>2, <1>3 DEF ResultOK
<1>14. Typed(T)
  BY <1>1, <1>11, <1>12, <1>13 DEF Typed
<1>15. aborted \in BOOLEAN /\ ~aborted
  BY <1>3
<1>16. ops \in 0 .. MaxOps /\ target \in Var \cup {0}
  BY <1>3, ProxyAssumption
<1>17. QED
  BY <1>14, <1>15, <1>16 DEF Inv

LEMMA AbortedType ==
  ASSUME aborted \in BOOLEAN, NEW t, Thread(t)
  PROVE  aborted' \in BOOLEAN
<1>1. CASE Invoke(t)
  BY <1>1 DEF Invoke, cxx_assert
<1>2. CASE Apply(t)
  BY <1>2 DEF Apply, cxx_assert
<1>3. CASE GetPtr(t)
  BY <1>3 DEF GetPtr, cxx_assert
<1>4. CASE ConstructReady(t)
  BY <1>4 DEF ConstructReady, cxx_assert
<1>5. CASE Unproxy(t)
  BY <1>5 DEF Unproxy, cxx_assert
<1>6. CASE Deref(t)
  BY <1>6 DEF Deref, cxx_assert
<1>7. CASE UNCHANGED aborted
  BY <1>7
<1>8. QED
  BY <1>1, <1>2, <1>3, <1>4, <1>5, <1>6, <1>7
  DEF Thread, Local, GetProc, Await, GetPtrLater, Remote, RemoteNow, Construct, Unwrapped, Sync,
      Arrive, Return

\* A thread leaves the program alone.
LEMMA InvStep ==
  ASSUME Inv, Step
  PROVE  Inv'
<1>1. PICK t \in DOMAIN cell : Thread(t)
  BY DEF Step
<1>2. UNCHANGED <<px, target, ops, meant, answer>>
  BY DEF Step
<1>3. PICK T : Typed(T)
  BY DEF Inv
<1>4. HeapOK(cell, T) /\ ~aborted
  BY <1>3 DEF Typed, Inv
<1>5. ~aborted' /\ \E V : Moves(cell, T, cell', V)
  BY <1>1, <1>4, ThreadMoves
<1>6. PICK V : Moves(cell, T, cell', V)
  BY <1>5
<1>7. /\ HeapOK(cell', V) /\ Grows(cell, T, cell', V) /\ V[main] = T[main]
      /\ cell'[main].stage = "idle" => cell[main].stage = "idle"
  BY <1>6 DEF Moves
<1>8. VarsOK(V, px, meant, target, ops)
  BY <1>3, <1>7, VarsGrow DEF Typed
<1>9. ResultOK(V, meant, target, answer, cell'[main].stage)
  BY <1>3, <1>7 DEF Typed, ResultOK
<1>10. Typed(V)'
  BY <1>2, <1>7, <1>8, <1>9 DEF Typed
<1>11. aborted' \in BOOLEAN
  BY <1>1, AbortedType DEF Inv
<1>12. QED
  BY <1>2, <1>5, <1>10, <1>11 DEF Inv

\* When nothing runs.
LEMMA AtIdle ==
  ASSUME NEW T, Typed(T), Inv, Idle
  PROVE  /\ HeapOK(cell, T) /\ VarsOK(T, px, meant, 0, ops)
         /\ target = 0 /\ cell[main].stage = "idle"
         /\ answer \in [want : Int, is : Int] /\ answer.is = answer.want
         /\ T[main] = num(answer.want)
         /\ ops \in Nat /\ new \in Var /\ new # 0 /\ new \in 0 .. MaxOps
         /\ main \in DOMAIN cell /\ cell[main].at = User /\ cell[main].home = User
<1>1. cell[main].stage = "idle" /\ ops < MaxOps
  BY DEF Idle
<1>2. target = 0
  BY <1>1 DEF Typed, ResultOK
<1>3. ops \in 0 .. MaxOps /\ MaxOps \in Nat
  BY ProxyAssumption DEF Inv
<1>4. ops \in Nat /\ new \in Var /\ new # 0 /\ new \in 0 .. MaxOps
  BY <1>1, <1>3 DEF new, Var
<1>5. QED
  BY <1>1, <1>2, <1>4 DEF Typed, ResultOK, HeapOK

\* Assigning to a new variable.
LEMMA VarsAssign ==
  ASSUME NEW U, NEW ps, NEW ms, NEW n \in Nat, VarsOK(U, ps, ms, 0, n),
         NEW w \in Var, w = n + 1, NEW x \in ProxyRecord, NEW m \in Meaning, Fits(U, x, m)
  PROVE  VarsOK(U, [ps EXCEPT ![w] = x], [ms EXCEPT ![w] = m], 0, w)
<1>1. PICK qs, ks : qs = [ps EXCEPT ![w] = x] /\ ks = [ms EXCEPT ![w] = m]
  OBVIOUS
<1>2. qs \in [Var -> ProxyRecord] /\ ks \in [Var -> Meaning \cup {<<>>}]
  BY <1>1 DEF VarsOK
<1>3. \A v \in Var : v # 0 /\ v \in Int
  BY DEF Var
<1>4. ASSUME NEW v \in Var PROVE Fits(U, qs[v], ks[v]) /\ (w < v => ks[v] = <<>>)
  <2>1. CASE v = w
    BY <1>1, <1>3, <2>1 DEF VarsOK
  <2>2. CASE v # w
    <3>1. qs[v] = ps[v] /\ ks[v] = ms[v]
      BY <1>1, <2>2 DEF VarsOK
    <3>2. w < v => n < v
      BY <1>3
    <3>3. QED
      BY <1>3, <3>1, <3>2 DEF VarsOK
  <2>3. QED
    BY <2>1, <2>2
<1>5. VarsOK(U, qs, ks, 0, w)
  BY <1>2, <1>3, <1>4 DEF VarsOK
<1>6. QED
  BY <1>1, <1>5

\* Beginning an operation that will assign to a new variable.
LEMMA VarsBegin ==
  ASSUME NEW U, NEW ps, NEW ms, NEW n \in Nat, VarsOK(U, ps, ms, 0, n),
         NEW w \in Var, w = n + 1, NEW m \in Meaning, Len(m) = 3 => m[2] = m[3]
  PROVE  VarsOK(U, ps, [ms EXCEPT ![w] = m], w, w)
<1>1. PICK ks : ks = [ms EXCEPT ![w] = m]
  OBVIOUS
<1>2. ps \in [Var -> ProxyRecord] /\ ks \in [Var -> Meaning \cup {<<>>}] /\ ks[w] = m
  BY <1>1 DEF VarsOK
<1>3. \A v \in Var : v # 0 /\ v \in Int
  BY DEF Var
<1>4. ps[w] = null
  <2>1. Fits(U, ps[w], ms[w]) /\ ms[w] = <<>>
    BY <1>3 DEF VarsOK
  <2>2. QED
    BY <2>1 DEF Fits
<1>5. Expects(ps[w], ks[w])
  BY <1>2, <1>4 DEF Expects
<1>6. ASSUME NEW v \in Var, v # w PROVE Fits(U, ps[v], ks[v]) /\ (w < v => ks[v] = <<>>)
  <2>1. ks[v] = ms[v] /\ (w < v => n < v)
    BY <1>1, <1>3, <1>6 DEF VarsOK
  <2>2. QED
    BY <1>3, <2>1 DEF VarsOK
<1>7. ~(w < w)
  BY <1>3
<1>8. VarsOK(U, ps, ks, w, w)
  BY <1>2, <1>5, <1>6, <1>7 DEF VarsOK
<1>9. QED
  BY <1>1, <1>8

LEMMA VarsAsk ==
  ASSUME NEW U, NEW ps, NEW ms, NEW n \in Nat, VarsOK(U, ps, ms, 0, n)
  PROVE  VarsOK(U, ps, ms, 0, n + 1)
<1>1. \A v \in Var : v \in Int
  BY DEF Var
<1>2. \A v \in Var : n + 1 < v => n < v
  BY <1>1
<1>3. QED
  BY <1>2 DEF VarsOK

LEMMA VarsEnd ==
  ASSUME NEW U, NEW ps, NEW ms, NEW n, NEW w \in Var, VarsOK(U, ps, ms, w, n),
         NEW x \in ProxyRecord, Means(U, x, ms[w])
  PROVE  VarsOK(U, [ps EXCEPT ![w] = x], ms, 0, n)
<1>1. PICK qs : qs = [ps EXCEPT ![w] = x]
  OBVIOUS
<1>2. qs \in [Var -> ProxyRecord] /\ \A v \in Var : v # 0
  BY <1>1 DEF VarsOK, Var
<1>3. ASSUME NEW v \in Var PROVE Fits(U, qs[v], ms[v])
  <2>1. CASE v = w
    <3>1. qs[v] = x /\ Means(U, x, ms[v])
      BY <1>1, <2>1 DEF VarsOK
    <3>2. Expects(ps[v], ms[v]) 
      BY <2>1 DEF VarsOK
    <3>3. Len(ms[v]) = 3 => ms[v][2] = ms[v][3]
      BY <3>2 DEF Expects
    <3>4. ms[v] # <<>>
      <4>1. ms[v] \in Meaning
        BY <3>2 DEF Expects
      <4>2. QED
        BY <4>1 DEF Meaning
    <3>5. QED
      BY <3>1, <3>3, <3>4 DEF Fits
  <2>2. CASE v # w
    BY <1>1, <2>2 DEF VarsOK
  <2>3. QED
    BY <2>1, <2>2
<1>4. VarsOK(U, qs, ms, 0, n)
  BY <1>2, <1>3 DEF VarsOK
<1>5. QED
  BY <1>1, <1>4

\* Cells c are now g, where the thread of the program makes what is typed ty.
Starts(c, T, g, V, ty) ==
  HeapOK(g, V) /\ Grows(c, T, g, V) /\ V[main] = ty /\ g[main].stage = "run"

\* The thread of the program gets a job; it was at rest, so its cell may hold
\* anything.
LEMMA Started ==
  ASSUME NEW c, NEW T, HeapOK(c, T), NEW h, NEW U, Spawns(c, T, h, U, main),
         NEW j, Shaped(U, j), NEW ty, JobFits(h, U, User, User, j, ty),
         NEW g, g = [h EXCEPT ![main].stage = "run", ![main].job = j]
  PROVE  \E V : Starts(c, T, g, V, ty)
<1>1. /\ HeapOK(h, U) /\ Grows(c, T, h, U) /\ main \in DOMAIN h /\ h[main] \in Entry
      /\ h[main].home = User /\ h[main].at = User /\ IsProxy(U, h[main].value.inner)
      /\ DOMAIN U = DOMAIN h
  BY DEF Spawns, HeapOK, EntryOK
<1>2. PICK e : e = [h[main] EXCEPT !.stage = "run", !.job = j]
  OBVIOUS
<1>3. j \in JobRecord
  BY DEF Shaped
<1>4. /\ e \in Entry /\ e.home = User /\ e.at = User /\ e.stage = "run" /\ e.job = j
      /\ e.value = h[main].value /\ e.made = h[main].made
  BY <1>1, <1>2, <1>3 DEF Entry
<1>5. JobOK(h, U, e, ty)
  BY <1>4 DEF JobFits
<1>6. EntryOK(h, U, e, ty)
  BY <1>1, <1>4, <1>5 DEF EntryOK
<1>7. PICK f, V : f = [h EXCEPT ![main] = e] /\ V = [U EXCEPT ![main] = ty]
  OBVIOUS
<1>8. HeapOK(f, V) /\ Grows(h, U, f, V)
  <2>1. /\ HeapOK([h EXCEPT ![main] = e], [U EXCEPT ![main] = ty])
        /\ Grows(h, U, [h EXCEPT ![main] = e], [U EXCEPT ![main] = ty])
    BY <1>1, <1>4, <1>6, ChangeTyped
  <2>2. QED
    BY <1>7, <2>1
<1>9. Grows(c, T, f, V)
  BY <1>1, <1>8, GrowsTransitive
<1>10. V[main] = ty /\ f[main].stage = "run"
  BY <1>1, <1>4, <1>7
<1>11. f = g
  BY <1>1, <1>2, <1>7 DEF Entry
<1>12. Starts(c, T, f, V, ty)
  BY <1>8, <1>9, <1>10 DEF Starts
<1>13. QED
  BY <1>11, <1>12

-----------------------------------------------------------------------------
(* What the operations have in common *)

LEMMA Assigned ==
  ASSUME NEW T, Typed(T), Inv, Idle, NEW h, NEW U, Spawns(cell, T, h, U, main),
         NEW ps, VarsOK(T, ps, meant, 0, ops), NEW x, NEW m \in Meaning, Fits(U, x, m),
         Assign(h, ps, x, m)
  PROVE  Inv'
<1>1. PICK w, n, ms : w = new /\ n = ops /\ ms = meant
  OBVIOUS
<1>2. /\ target = 0 /\ cell[main].stage = "idle" /\ answer \in [want : Int, is : Int]
      /\ answer.is = answer.want /\ T[main] = num(answer.want) /\ n \in Nat /\ w \in Var
      /\ w \in 0 .. MaxOps /\ w = n + 1
  BY <1>1, AtIdle DEF new
<1>3. /\ cell' = h /\ px' = [ps EXCEPT ![w] = x] /\ meant' = [ms EXCEPT ![w] = m]
      /\ ops' = w /\ UNCHANGED <<target, aborted, answer>>
  BY <1>1, <1>2 DEF Assign
<1>4. HeapOK(h, U) /\ Grows(cell, T, h, U) /\ U[main] = T[main]
  BY DEF Spawns
<1>5. VarsOK(U, ps, ms, 0, n)
  BY <1>1, <1>4, VarsGrow
<1>6. x \in ProxyRecord
  <2>1. m # <<>>
    BY DEF Meaning
  <2>2. Means(U, x, m)
    BY <2>1 DEF Fits
  <2>3. IsProxy(U, x)
    BY <2>2 DEF IsProxy
  <2>4. QED
    BY <1>4, <2>3, Recorded
<1>7. VarsOK(U, [ps EXCEPT ![w] = x], [ms EXCEPT ![w] = m], 0, w)
  BY <1>2, <1>5, <1>6, VarsAssign
<1>8. \A ks, s : ResultOK(U, ks, 0, answer, s)
  BY <1>2, <1>4 DEF ResultOK
<1>9. Typed(U)'
  BY <1>2, <1>3, <1>4, <1>7, <1>8 DEF Typed
<1>10. QED
  BY <1>2, <1>3, <1>9 DEF Inv

LEMMA Begun ==
  ASSUME NEW T, Typed(T), Inv, Idle, NEW h, NEW U, Spawns(cell, T, h, U, main),
         VarsOK(T, px', meant, 0, ops), NEW m \in Meaning, Len(m) = 3 => m[2] = m[3],
         NEW j, Shaped(U, j), JobFits(h, U, User, User, j, prox(m)),
         Begin(h, j, m)
  PROVE  Inv'
<1>1. PICK c, w, n, ms, ps : c = cell /\ w = new /\ n = ops /\ ms = meant /\ ps = px'
  OBVIOUS
<1>2. /\ HeapOK(c, T) /\ answer \in [want : Int, is : Int] /\ answer.is = answer.want
      /\ n \in Nat /\ w \in Var /\ w # 0 /\ w \in 0 .. MaxOps /\ w = n + 1
  BY <1>1, AtIdle DEF new
<1>3. PICK f : f = [h EXCEPT ![main].stage = "run", ![main].job = j]
  OBVIOUS
<1>4. /\ cell' = f /\ target' = w /\ meant' = [ms EXCEPT ![w] = m] /\ ops' = w
      /\ UNCHANGED <<aborted, answer>>
  BY <1>1, <1>2, <1>3 DEF Begin
<1>5. PICK V : HeapOK(f, V) /\ Grows(c, T, f, V) /\ V[main] = prox(m) /\ f[main].stage = "run"
  <2>1. Spawns(c, T, h, U, main)
    BY <1>1
  <2>2. PICK ty : ty = prox(m)
    OBVIOUS
  <2>3. JobFits(h, U, User, User, j, ty)
    BY <2>2
  <2>4. \E V : Starts(c, T, f, V, ty)
    BY <1>2, <1>3, <2>1, <2>3, Started
  <2>5. QED
    BY <2>2, <2>4 DEF Starts
<1>6. VarsOK(V, ps, ms, 0, n)
  BY <1>1, <1>5, VarsGrow
<1>7. VarsOK(V, ps, [ms EXCEPT ![w] = m], w, w)
  BY <1>2, <1>6, VarsBegin
<1>8. [ms EXCEPT ![w] = m][w] = m
  BY <1>2, <1>6 DEF VarsOK
<1>9. ResultOK(V, [ms EXCEPT ![w] = m], w, answer, "run")
  BY <1>2, <1>5, <1>8 DEF ResultOK
<1>10. Typed(V)'
  BY <1>1, <1>4, <1>5, <1>7, <1>9 DEF Typed
<1>11. QED
  BY <1>2, <1>4, <1>10 DEF Inv

LEMMA AskedFor ==
  ASSUME NEW T, Typed(T), Inv, Idle, NEW h, NEW U, Spawns(cell, T, h, U, main),
         VarsOK(T, px', meant, 0, ops), NEW k \in Int,
         NEW j, Shaped(U, j), JobFits(h, U, User, User, j, num(k)),
         Ask(h, j, k)
  PROVE  Inv'
<1>1. PICK c, w, n, ms, ps : c = cell /\ w = new /\ n = ops /\ ms = meant /\ ps = px'
  OBVIOUS
<1>2. /\ HeapOK(c, T) /\ answer \in [want : Int, is : Int] /\ answer.is = answer.want
      /\ n \in Nat /\ w \in 0 .. MaxOps /\ w = n + 1
  BY <1>1, AtIdle DEF new
<1>3. PICK f : f = [h EXCEPT ![main].stage = "run", ![main].job = j]
  OBVIOUS
<1>4. PICK a : a = [want |-> k, is |-> answer.is]
  OBVIOUS
<1>5. /\ cell' = f /\ target' = 0 /\ answer' = a /\ ops' = w
      /\ UNCHANGED <<aborted, meant>>
  BY <1>1, <1>2, <1>3, <1>4 DEF Ask
<1>6. PICK V : HeapOK(f, V) /\ Grows(c, T, f, V) /\ V[main] = num(k) /\ f[main].stage = "run"
  <2>1. Spawns(c, T, h, U, main)
    BY <1>1
  <2>2. PICK ty : ty = num(k)
    OBVIOUS
  <2>3. JobFits(h, U, User, User, j, ty)
    BY <2>2
  <2>4. \E V : Starts(c, T, f, V, ty)
    BY <1>2, <1>3, <2>1, <2>3, Started
  <2>5. QED
    BY <2>2, <2>4 DEF Starts
<1>7. VarsOK(V, ps, ms, 0, w)
  <2>1. VarsOK(V, ps, ms, 0, n)
    BY <1>1, <1>6, VarsGrow
  <2>2. QED
    BY <1>2, <2>1, VarsAsk
<1>8. ResultOK(V, ms, 0, a, "run")
  BY <1>2, <1>4, <1>6 DEF ResultOK
<1>9. Typed(V)'
  BY <1>1, <1>5, <1>6, <1>7, <1>8 DEF Typed
<1>10. QED
  BY <1>2, <1>5, <1>9 DEF Inv

\* The result of an operation is what was wanted.
LEMMA InvEnd ==
  ASSUME Inv, End
  PROVE  Inv'
<1>1. PICK T : Typed(T)
  BY DEF Inv
<1>2. PICK c, v, a, w, n, ms, ps :
        /\ c = cell /\ v = cell[main].value /\ a = answer /\ w = target /\ n = ops
        /\ ms = meant /\ ps = px
  OBVIOUS
<1>3. /\ HeapOK(c, T) /\ VarsOK(T, ps, ms, w, n) /\ a \in [want : Int, is : Int]
      /\ T[main] = IF w = 0 THEN num(a.want) ELSE prox(ms[w])
      /\ w # 0 => a.is = a.want
      /\ w \in Var \cup {0} /\ n \in 0 .. MaxOps
  BY <1>1, <1>2 DEF Typed, ResultOK, Inv
<1>4. /\ main \in DOMAIN c /\ c[main] \in Entry /\ ready(c, main) /\ main \in DOMAIN T
  BY <1>2, <1>3 DEF End, ready, HeapOK, EntryOK
<1>5. Holds(c, T, v, T[main]) /\ IsProxy(T, v.inner) /\ v \in ValueRecord
  BY <1>2, <1>3, <1>4, ReadyValue
<1>6. PICK e : e = [idle EXCEPT !.made = c[main].made]
  OBVIOUS
<1>7. PICK b : b = IF w = 0 THEN [a EXCEPT !.is = v.n] ELSE a
  OBVIOUS
<1>8. /\ cell' = [c EXCEPT ![main] = e] /\ target' = 0 /\ answer' = b
      /\ UNCHANGED <<ops, aborted, meant>>
      /\ w = 0 => px' = ps
      /\ w # 0 => px' = [ps EXCEPT ![w] = v.inner]
  BY <1>2, <1>6, <1>7 DEF End
<1>9. /\ e \in Entry /\ e.stage = "idle" /\ e.job = NoJob /\ e.value = NoValue
      /\ e.home = User /\ e.at = User /\ e.made = c[main].made
  <2>1. NoJob \in JobRecord
    BY DEF NoJob, Job, None, JobRecord, Does, Place
  <2>2. NoValue \in ValueRecord
    BY DEF NoValue, Value, ValueRecord, Place, null, proxy, ProxyRecord
  <2>3. c[main].made \in Nat
    BY <1>4 DEF Entry
  <2>4. QED
    BY <1>6, <2>1, <2>2, <2>3, ProxyAssumption DEF idle, New, Entry
<1>10. EntryOK(c, T, e, num(b.want))
  <2>1. Shaped(T, NoJob)
    BY <1>4 DEF Shaped, NoJob, Job, None, JobRecord, Does, Place, main
  <2>2. IsProxy(T, NoValue.inner)
    BY DEF NoValue, Value, IsProxy
  <2>3. QED
    BY <1>9, <2>1, <2>2 DEF EntryOK
<1>11. PICK f, U : f = [c EXCEPT ![main] = e] /\ U = [T EXCEPT ![main] = num(b.want)]
  OBVIOUS
<1>12. HeapOK(f, U) /\ Grows(c, T, f, U)
  <2>1. /\ HeapOK([c EXCEPT ![main] = e], [T EXCEPT ![main] = num(b.want)])
        /\ Grows(c, T, [c EXCEPT ![main] = e], [T EXCEPT ![main] = num(b.want)])
    BY <1>3, <1>4, <1>9, <1>10, ChangeTyped
  <2>2. QED
    BY <1>11, <2>1
<1>13. U[main] = num(b.want) /\ f[main].stage = "idle"
  BY <1>4, <1>9, <1>11
<1>14. b \in [want : Int, is : Int] /\ b.is = b.want
  <2>1. CASE w = 0
    <3>1. v.n = a.want
      BY <1>3, <1>5, <2>1, HoldsNum
    <3>2. QED
      BY <1>3, <1>7, <2>1, <3>1
  <2>2. CASE w # 0
    BY <1>3, <1>7, <2>2
  <2>3. QED
    BY <2>1, <2>2
<1>15. ResultOK(U, ms, 0, b, f[main].stage)
  BY <1>13, <1>14 DEF ResultOK
<1>16. VarsOK(U, px', ms, 0, n)
  <2>1. VarsOK(U, ps, ms, w, n)
    BY <1>3, <1>12, VarsGrow
  <2>2. CASE w = 0
    BY <1>8, <2>1, <2>2
  <2>3. CASE w # 0
    <3>1. Means(T, v.inner, ms[w])
      BY <1>3, <1>5, <2>3, HoldsProx
    <3>2. Means(U, v.inner, ms[w])
      BY <1>12, <3>1, MeansGrows
    <3>3. v.inner \in ProxyRecord
      BY <1>3, <1>5, Recorded
    <3>4. VarsOK(U, [ps EXCEPT ![w] = v.inner], ms, 0, n)
      BY <1>3, <2>1, <2>3, <3>2, <3>3, VarsEnd
    <3>5. QED
      BY <1>8, <2>3, <3>4
  <2>4. QED
    BY <2>2, <2>3
<1>17. Typed(U)'
  BY <1>2, <1>8, <1>11, <1>12, <1>15, <1>16 DEF Typed
<1>18. QED
  BY <1>2, <1>3, <1>8, <1>17 DEF Inv

-----------------------------------------------------------------------------
(* Each operation *)

\* A variable that means m.
LEMMA Variable ==
  ASSUME NEW T, NEW ps, NEW ms, NEW n, VarsOK(T, ps, ms, 0, n), NEW v \in Var, ms[v] # <<>>
  PROVE  /\ ms[v] \in Meaning /\ Means(T, ps[v], ms[v]) /\ IsProxy(T, ps[v])
         /\ Len(ms[v]) = 3 /\ ms[v][2] # ms[v][3] => ms[v][2] = User /\ ps[v].proc = User
<1>1. ms[v] \in Meaning /\ v # 0
  BY DEF VarsOK, Var
<1>2. Fits(T, ps[v], ms[v])
  BY <1>1 DEF VarsOK
<1>3. QED
  BY <1>1, <1>2 DEF Fits, IsProxy

LEMMA Assigns ==
  ASSUME Inv, NEW v \in 1 .. ops
  PROVE  v \in Var /\ v # 0
<1>1. ops \in 0 .. MaxOps /\ MaxOps \in Nat
  BY ProxyAssumption DEF Inv
<1>2. QED
  BY <1>1 DEF Var

LEMMA FitsReady ==
  ASSUME NEW h, NEW T, HeapOK(h, T), NEW x, NEW m, m # <<>>, Fits(T, x, m)
  PROVE  Fits(T, proc_ready(h, x), m)
<1>1. Means(T, x, m)
  BY DEF Fits
<1>2. /\ Means(T, proc_ready(h, x), m)
      /\ x.proc # NoProc => proc_ready(h, x) = x
  BY <1>1, ProcReady
<1>3. User # NoProc
  BY ProxyAssumption
<1>4. QED
  BY <1>2, <1>3 DEF Fits

\* Caching a process does not change what a variable means.
LEMMA VarsCached ==
  ASSUME NEW h, NEW T, HeapOK(h, T), NEW ps, NEW ms, NEW n, VarsOK(T, ps, ms, 0, n),
         NEW v \in Var, ms[v] # <<>>
  PROVE  VarsOK(T, [ps EXCEPT ![v] = proc_ready(h, @)], ms, 0, n)
<1>1. PICK y : y = proc_ready(h, ps[v])
  OBVIOUS
<1>2. PICK qs : qs = [ps EXCEPT ![v] = y]
  OBVIOUS
<1>3. v # 0 /\ Fits(T, ps[v], ms[v])
  BY DEF VarsOK, Var
<1>4. Fits(T, y, ms[v])
  BY <1>1, <1>3, FitsReady
<1>5. y \in ProxyRecord
  <2>1. ms[v] \in Meaning
    BY DEF VarsOK
  <2>2. Means(T, y, ms[v])
    BY <1>4 DEF Fits
  <2>3. QED
    BY <2>1, <2>2, Recorded DEF IsProxy
<1>6. qs \in [Var -> ProxyRecord]
  BY <1>2, <1>5 DEF VarsOK
<1>7. ASSUME NEW u \in Var, u # 0 PROVE Fits(T, qs[u], ms[u])
  <2>1. CASE u = v
    BY <1>2, <1>4, <2>1 DEF VarsOK
  <2>2. CASE u # v
    BY <1>2, <1>7, <2>2 DEF VarsOK
  <2>3. QED
    BY <2>1, <2>2
<1>8. VarsOK(T, qs, ms, 0, n)
  BY <1>6, <1>7 DEF VarsOK, Var
<1>9. [ps EXCEPT ![v] = proc_ready(h, @)] = qs
  BY <1>1, <1>2
<1>10. QED
  BY <1>8, <1>9

LEMMA ConstantFits ==
  ASSUME NEW h, NEW T, HeapOK(h, T), NEW n \in Int, NEW p \in Proc, NEW q \in Proc, NEW do,
         NEW ty, \/ do = "invoke" /\ p = q /\ ty = ptr(<<n, q>>)
                 \/ do = "local" /\ ty = prox(<<n, q>>)
  PROVE  /\ Shaped(T, Constant(do, n)) /\ JobFits(h, T, p, q, Constant(do, n), ty)
         /\ <<n, q>> \in Meaning
<1>1. PICK j : j = Constant(do, n)
  OBVIOUS
<1>2. do \in Does
  BY DEF Does
<1>3. Shaped(T, j) /\ j.do = do /\ j.xs = <<>> /\ j.n = n
  <2>1. LET k == Constant(do, n) IN Shaped(T, k) /\ k.do = do /\ k.xs = <<>> /\ k.n = n
    BY <1>2, ConstantShape
  <2>2. QED
    BY <1>1, <2>1
<1>4. PICK m : m = <<n, q>>
  OBVIOUS
<1>5. m \in Meaning
  BY <1>4 DEF Meaning
<1>6. Makes(T, j, q, m) /\ Placed(h, j)
  BY <1>3, <1>4 DEF Makes, Placed
<1>7. ASSUME NEW e, e.home = p, e.at = q, e.job = j PROVE JobOK(h, T, e, ty)
  <2>1. Invokes(h, T, e, ty, m) \/ Locals(h, T, e, ty, m)
    BY <1>3, <1>4, <1>6, <1>7 DEF Invokes, Locals
  <2>2. QED
    BY <1>5, <2>1 DEF JobOK
<1>8. QED
  BY <1>1, <1>3, <1>4, <1>5, <1>7 DEF JobFits

LEMMA InvMakeLocalProxy ==
  ASSUME Inv, Idle, MakeLocalProxy
  PROVE  Inv'
<1>1. PICK T : Typed(T)
  BY DEF Inv
<1>2. PICK c, w, m, j, p : /\ c = cell /\ w = new /\ m = <<new, User>>
                           /\ j = Constant("invoke", new) /\ p = User
  OBVIOUS
<1>3. /\ HeapOK(c, T) /\ VarsOK(T, px, meant, 0, ops) /\ w \in Int /\ main \in DOMAIN c
      /\ p \in Proc
  BY <1>1, <1>2, AtIdle, ProxyAssumption DEF Var
<1>4. Shaped(T, j) /\ JobFits(c, T, p, p, j, ptr(m)) /\ m \in Meaning
  <2>1. /\ Shaped(T, Constant("invoke", w)) /\ JobFits(c, T, p, p, Constant("invoke", w), ptr(<<w, p>>))
        /\ <<w, p>> \in Meaning
    BY <1>3, ConstantFits
  <2>2. QED
    BY <1>2, <2>1
<1>5. PICK h : h = Add(c, main, New(p, p, j))
  OBVIOUS
<1>6. PICK U : Spawns(c, T, h, U, main) /\ Newest(h, main) \in Names(U) /\ U[Newest(h, main)] = ptr(m)
  <2>1. LET g == Add(c, main, New(p, p, j))
        IN  \E U : Spawns(c, T, g, U, main) /\ Newest(g, main) \in Names(U) /\ U[Newest(g, main)] = ptr(m)
    BY <1>3, <1>4, SpawnNew
  <2>2. QED
    BY <1>5, <2>1
<1>7. PICK x : x = proxy(Newest(h, main), NoProc)
  OBVIOUS
<1>8. Means(U, x, m)
  BY <1>4, <1>6, <1>7, NewProxy
<1>9. Len(m) = 2
  BY <1>2
<1>10. Fits(U, x, m)
  BY <1>8, <1>9 DEF Fits
<1>11. Assign(h, px, x, m)
  BY <1>2, <1>5, <1>7 DEF MakeLocalProxy
<1>12. PICK ps : ps = px
  OBVIOUS
<1>13. Assign(h, ps, x, m) /\ VarsOK(T, ps, meant, 0, ops) /\ Spawns(cell, T, h, U, main)
  BY <1>2, <1>3, <1>6, <1>11, <1>12
<1>14. QED
  BY <1>1, <1>4, <1>10, <1>13, Assigned

LEMMA InvFromPointer ==
  ASSUME Inv, Idle, FromPointer
  PROVE  Inv'
<1>1. PICK T : Typed(T)
  BY DEF Inv
<1>2. PICK c, w, m, v, p : /\ c = cell /\ w = new /\ m = <<new, User>>
                           /\ v = Value(User, new, null) /\ p = User
  OBVIOUS
<1>3. /\ HeapOK(c, T) /\ VarsOK(T, px, meant, 0, ops) /\ w \in Int /\ main \in DOMAIN c
      /\ p \in Proc
  BY <1>1, <1>2, AtIdle, ProxyAssumption DEF Var
<1>4. m \in Meaning /\ Len(m) = 2 /\ m[1] = w /\ m[2] = p
  BY <1>2, <1>3 DEF Meaning
<1>5. v \in ValueRecord /\ v.proc = p /\ v.n = w /\ v.inner = null /\ IsProxy(T, v.inner)
  <2>1. IsProxy(T, null) /\ p \in Place
    BY <1>3 DEF IsProxy, Place
  <2>2. /\ Value(p, w, null) \in ValueRecord /\ Value(p, w, null).proc = p
        /\ Value(p, w, null).n = w /\ Value(p, w, null).inner = null
    BY <1>3, <2>1, ValueTyped
  <2>3. QED
    BY <1>2, <2>1, <2>2
<1>6. Holds(c, T, v, ptr(m))
  <2>1. v.proc = m[2] /\ (Len(m) = 2 => v.n = m[1]) /\ Len(m) # 3
    BY <1>4, <1>5
  <2>2. QED
    BY <1>4, <2>1, IsPtr
<1>7. PICK e : e = Ready(p, v)
  OBVIOUS
<1>8. EntryOK(c, T, e, ptr(m)) /\ e.made = 0
  BY <1>3, <1>5, <1>6, <1>7, ReadyTyped
<1>9. PICK h : h = Add(c, main, e)
  OBVIOUS
<1>10. PICK U : Spawns(c, T, h, U, main) /\ Newest(h, main) \in Names(U) /\ U[Newest(h, main)] = ptr(m)
  BY <1>3, <1>8, <1>9, Spawn
<1>11. PICK x : x = proxy(Newest(h, main), p)
  OBVIOUS
<1>12. Means(U, x, m)
  BY <1>4, <1>10, <1>11, NewProxy
<1>13. Fits(U, x, m)
  BY <1>4, <1>12 DEF Fits
<1>14. PICK ps : ps = px
  OBVIOUS
<1>15. Assign(h, ps, x, m)
  BY <1>2, <1>7, <1>9, <1>11, <1>14 DEF FromPointer
<1>16. VarsOK(T, ps, meant, 0, ops) /\ Spawns(cell, T, h, U, main)
  BY <1>2, <1>3, <1>10, <1>14
<1>17. QED
  BY <1>1, <1>4, <1>13, <1>15, <1>16, Assigned

\* A thread of the program takes the proxy that cell c will hold, of an
\* object on q or on a process that is not told.
LEMMA ConstructFits ==
  ASSUME NEW h, NEW U, HeapOK(h, U), NEW c \in Names(U), NEW m \in Meaning, U[c] = prox(m),
         NEW q \in {NoProc, m[2]}
  PROVE  /\ Shaped(U, Job("construct", <<>>, c, q))
         /\ JobFits(h, U, User, User, Job("construct", <<>>, c, q), prox(m))
<1>1. PICK j : j = Job("construct", <<>>, c, q)
  OBVIOUS
<1>2. "construct" \in Does
  BY DEF Does
<1>3. q \in Place
  BY MeaningType DEF Place, Meaning
<1>4. Shaped(U, j) /\ j.do = "construct" /\ j.of = c /\ j.claim = q
  <2>1. LET k == Job("construct", <<>>, c, q)
        IN  Shaped(U, k) /\ k.do = "construct" /\ k.of = c /\ k.claim = q
    BY <1>2, <1>3, JobFor
  <2>2. QED
    BY <1>1, <2>1
<1>5. ASSUME NEW e, e.home = User, e.at = User, e.job = j PROVE JobOK(h, U, e, prox(m))
  <2>1. Constructs(U, e, prox(m), m)
    BY <1>4, <1>5 DEF Constructs, Claims
  <2>2. QED
    BY <2>1 DEF JobOK
<1>6. QED
  BY <1>1, <1>4, <1>5 DEF JobFits

LEMMA InvMakeRemoteProxy ==
  ASSUME Inv, Idle, NEW dest \in Proc, MakeRemoteProxy(dest)
  PROVE  Inv'
<1>1. PICK T : Typed(T)
  BY DEF Inv
<1>2. PICK c, w, m, j, p : /\ c = cell /\ w = new /\ m = <<new, dest>>
                           /\ j = Constant("local", new) /\ p = User
  OBVIOUS
<1>3. /\ HeapOK(c, T) /\ VarsOK(T, px, meant, 0, ops) /\ w \in Int /\ main \in DOMAIN c
      /\ p \in Proc
  BY <1>1, <1>2, AtIdle, ProxyAssumption DEF Var
<1>4. Shaped(T, j) /\ JobFits(c, T, p, dest, j, prox(m)) /\ m \in Meaning
  <2>1. /\ Shaped(T, Constant("local", w))
        /\ JobFits(c, T, p, dest, Constant("local", w), prox(<<w, dest>>))
        /\ <<w, dest>> \in Meaning
    BY <1>3, ConstantFits
  <2>2. QED
    BY <1>2, <2>1
<1>5. Len(m) = 2 /\ m[2] = dest
  BY <1>2
<1>6. PICK h : h = Add(c, main, New(p, dest, j))
  OBVIOUS
<1>7. PICK U : Spawns(c, T, h, U, main) /\ Newest(h, main) \in Names(U) /\ U[Newest(h, main)] = prox(m)
  <2>1. LET g == Add(c, main, New(p, dest, j))
        IN  \E U : Spawns(c, T, g, U, main) /\ Newest(g, main) \in Names(U) /\ U[Newest(g, main)] = prox(m)
    BY <1>3, <1>4, SpawnNew
  <2>2. QED
    BY <1>6, <2>1
<1>8. PICK k : k = Job("construct", <<>>, Newest(h, main), dest)
  OBVIOUS
<1>9. Shaped(U, k) /\ JobFits(h, U, User, User, k, prox(m))
  <2>1. PICK d : d = Newest(h, main)
    OBVIOUS
  <2>2. HeapOK(h, U) /\ d \in Names(U) /\ U[d] = prox(m)
    BY <1>7, <2>1 DEF Spawns
  <2>3. dest \in {NoProc, m[2]}
    BY <1>5
  <2>4. /\ Shaped(U, Job("construct", <<>>, d, dest))
        /\ JobFits(h, U, User, User, Job("construct", <<>>, d, dest), prox(m))
    BY <1>4, <2>2, <2>3, ConstructFits
  <2>5. QED
    BY <1>8, <2>1, <2>4
<1>10. Begin(h, k, m) /\ px' = px
  BY <1>2, <1>6, <1>8 DEF MakeRemoteProxy
<1>11. VarsOK(T, px', meant, 0, ops) /\ Spawns(cell, T, h, U, main)
  BY <1>2, <1>3, <1>7, <1>10
<1>12. QED
  BY <1>1, <1>4, <1>5, <1>9, <1>10, <1>11, Begun

LEMMA InvMakeLocal ==
  ASSUME Inv, Idle, NEW v \in 1 .. ops, MakeLocal(v)
  PROVE  Inv'
<1>1. PICK T : Typed(T)
  BY DEF Inv
<1>2. PICK c, x, m, ps, k : /\ c = cell /\ x = px[v] /\ m = meant[v] /\ ps = Cached(v)
                            /\ k = [meant[v] EXCEPT ![2] = User]
  OBVIOUS
<1>3. /\ HeapOK(c, T) /\ VarsOK(T, px, meant, 0, ops) /\ main \in DOMAIN c /\ c[main].at = User
  BY <1>1, <1>2, AtIdle
<1>4. v \in Var /\ meant[v] # <<>>
  BY Assigns DEF MakeLocal
<1>5. m \in Meaning /\ Means(T, x, m)
  BY <1>2, <1>3, <1>4, Variable
<1>6. PICK l : l = make_local(c, main, x)
  OBVIOUS
<1>7. PICK U : Spawns(c, T, l.h, U, main) /\ Means(U, l.x, At(m, User)) /\ l.x.proc = User
  <2>1. LET r == make_local(c, main, x)
        IN  \E U : /\ Spawns(c, T, r.h, U, main) /\ Means(U, r.x, At(m, c[main].at))
                   /\ r.x.proc = c[main].at
    BY <1>3, <1>5, MakeLocalTyped
  <2>2. QED
    BY <1>3, <1>6, <2>1
<1>8. At(m, User) \in Meaning /\ At(m, User)[2] = User
  BY <1>5, MeaningType, ProxyAssumption
<1>9. k = At(m, User)
  BY <1>2, <1>5 DEF At, Meaning
<1>10. Fits(U, l.x, k)
  <2>1. k # <<>>
    BY <1>8, <1>9 DEF Meaning
  <2>2. QED
    BY <1>7, <1>8, <1>9, <2>1 DEF Fits
<1>11. VarsOK(T, ps, meant, 0, ops)
  <2>1. VarsOK(T, [px EXCEPT ![v] = proc_ready(c, @)], meant, 0, ops)
    BY <1>3, <1>4, VarsCached
  <2>2. QED
    BY <1>2, <2>1 DEF Cached
<1>12. Assign(l.h, ps, l.x, k)
  BY <1>2, <1>6 DEF MakeLocal
<1>13. PICK h, y : h = l.h /\ y = l.x
  OBVIOUS
<1>14. Assign(h, ps, y, k) /\ Spawns(cell, T, h, U, main) /\ Fits(U, y, k) /\ k \in Meaning
  BY <1>2, <1>7, <1>8, <1>9, <1>10, <1>12, <1>13
<1>15. QED
  BY <1>1, <1>11, <1>14, Assigned

LEMMA InvWait ==
  ASSUME Inv, Idle, NEW v \in 1 .. ops, Wait(v)
  PROVE  Inv'
<1>1. PICK T : Typed(T)
  BY DEF Inv
<1>2. PICK c, x, m, ps, y : /\ c = cell /\ x = px[v] /\ m = meant[v] /\ ps = px
                            /\ y = proc_ready(cell, px[v])
  OBVIOUS
<1>3. HeapOK(c, T) /\ VarsOK(T, px, meant, 0, ops) /\ main \in DOMAIN c
  BY <1>1, <1>2, AtIdle
<1>4. v \in Var /\ meant[v] # <<>> /\ v # 0
  BY Assigns DEF Wait
<1>5. m \in Meaning /\ Fits(T, x, m)
  BY <1>2, <1>3, <1>4, Variable DEF VarsOK
<1>6. Fits(T, y, m)
  BY <1>2, <1>3, <1>4, <1>5, FitsReady
<1>7. Assign(c, ps, y, m)
  BY <1>2 DEF Wait
<1>8. Spawns(c, T, c, T, main)
  BY <1>3, SpawnsNothing
<1>9. VarsOK(T, ps, meant, 0, ops) /\ Spawns(cell, T, c, T, main)
  BY <1>2, <1>3, <1>8
<1>10. QED
  BY <1>1, <1>5, <1>6, <1>7, <1>9, Assigned

\* What is read from an object: a number, or a proxy.
LEMMA DerefFits ==
  ASSUME NEW h, NEW U, HeapOK(h, U), NEW x, NEW m \in Meaning, Means(U, x, m), m[2] = User,
         NEW ty, ty = IF Len(m) = 2 THEN num(m[1]) ELSE prox(<<m[1], m[3]>>)
  PROVE  /\ Shaped(U, Job("deref", <<x>>, <<>>, NoProc))
         /\ JobFits(h, U, User, User, Job("deref", <<x>>, <<>>, NoProc), ty)
<1>1. PICK j : j = Job("deref", <<x>>, <<>>, NoProc)
  OBVIOUS
<1>2. "deref" \in Does
  BY DEF Does
<1>3. Shaped(U, j) /\ j.do = "deref" /\ Of(U, j, m)
  <2>1. LET k == Job("deref", <<x>>, <<>>, NoProc)
        IN  Shaped(U, k) /\ k.do = "deref" /\ k.xs = <<x>> /\ Of(U, k, m)
    BY <1>2, JobOf
  <2>2. QED
    BY <1>1, <2>1
<1>4. ASSUME NEW e, e.home = User, e.at = User, e.job = j PROVE JobOK(h, U, e, ty)
  <2>1. Derefs(U, e, ty, m)
    BY <1>3, <1>4 DEF Derefs
  <2>2. QED
    BY <2>1 DEF JobOK
<1>5. QED
  BY <1>1, <1>3, <1>4 DEF JobFits

LEMMA InvHeadOf ==
  ASSUME Inv, Idle, NEW v \in 1 .. ops, HeadOf(v)
  PROVE  Inv'
<1>1. PICK T : Typed(T)
  BY DEF Inv
<1>2. PICK c, x, m, k : c = cell /\ x = px[v] /\ m = meant[v] /\ k = meant[v][1]
  OBVIOUS
<1>3. /\ HeapOK(c, T) /\ VarsOK(T, px, meant, 0, ops) /\ main \in DOMAIN c /\ c[main].at = User
  BY <1>1, <1>2, AtIdle
<1>4. v \in Var /\ meant[v] # <<>> /\ Len(m) = 2
  BY <1>2, Assigns DEF HeadOf, Plain
<1>5. m \in Meaning /\ Means(T, x, m)
  BY <1>2, <1>3, <1>4, Variable
<1>6. PICK l : l = make_local(c, main, x)
  OBVIOUS
<1>7. PICK h, y : h = l.h /\ y = l.x
  OBVIOUS
<1>8. PICK U : Spawns(c, T, h, U, main) /\ Means(U, y, At(m, User))
  <2>1. LET r == make_local(c, main, x)
        IN  \E U : /\ Spawns(c, T, r.h, U, main) /\ Means(U, r.x, At(m, c[main].at))
                   /\ r.x.proc = c[main].at
    BY <1>3, <1>5, MakeLocalTyped
  <2>2. QED
    BY <1>3, <1>6, <1>7, <2>1
<1>9. PICK a : a = At(m, User)
  OBVIOUS
<1>10. a \in Meaning /\ a[2] = User /\ a[1] = k /\ Len(a) = 2 /\ k \in Int
  BY <1>2, <1>4, <1>5, <1>9, MeaningType, ProxyAssumption
<1>11. PICK j : j = Job("deref", <<y>>, <<>>, NoProc)
  OBVIOUS
<1>12. Shaped(U, j) /\ JobFits(h, U, User, User, j, num(k))
  <2>1. HeapOK(h, U) /\ Means(U, y, a)
    BY <1>8, <1>9 DEF Spawns
  <2>2. num(k) = IF Len(a) = 2 THEN num(a[1]) ELSE prox(<<a[1], a[3]>>)
    BY <1>10
  <2>3. /\ Shaped(U, Job("deref", <<y>>, <<>>, NoProc))
        /\ JobFits(h, U, User, User, Job("deref", <<y>>, <<>>, NoProc), num(k))
    BY <1>10, <2>1, <2>2, DerefFits
  <2>4. QED
    BY <1>11, <2>3
<1>13. Ask(h, j, k) /\ px' = Cached(v)
  BY <1>2, <1>6, <1>7, <1>11 DEF HeadOf, Caches
<1>14. VarsOK(T, px', meant, 0, ops)
  <2>1. VarsOK(T, [px EXCEPT ![v] = proc_ready(c, @)], meant, 0, ops)
    BY <1>3, <1>4, VarsCached
  <2>2. QED
    BY <1>2, <1>13, <2>1 DEF Cached
<1>15. Spawns(cell, T, h, U, main)
  BY <1>2, <1>8
<1>16. QED
  BY <1>1, <1>10, <1>12, <1>13, <1>14, <1>15, AskedFor

\* What a function makes of a first proxy that means n on p.
Makes_of(U, xs, fn, n, p, m) ==
  \/ fn = "inc" /\ Len(xs) = 1 /\ m = <<n + 1, p>>
  \/ fn = "here" /\ Len(xs) = 1 /\ m = <<n + 1, p, p>>
  \/ /\ fn = "add" /\ Len(xs) = 2
     /\ \E k \in Int, q \in Proc : Means(U, xs[2], <<k, q>>) /\ m = <<n + 3 * k, p>>

\* Cell c will hold the process of y, which means n on p.
AskedProc(U, y, n, p, c) == Means(U, y, <<n, p>>) /\ U[c] = proc_of(y, <<n, p>>)

\* The proxies that a function is called with, y first.
Passed(U, y, xs) ==
  /\ xs \in Seq(ProxyRecord) /\ Len(xs) <= 2 /\ xs # <<>> /\ xs[1] = y
  /\ \A i \in DOMAIN xs : IsProxy(U, xs[i])

\* Job j calls the function, for a result that means m.
Called(U, j, do, fn, m) ==
  /\ Shaped(U, j) /\ Asks(U, j, m) /\ j.do = do /\ j.fn = fn
  /\ m \in Meaning /\ (Len(m) = 3 => m[2] = m[3])

\* A function, called with proxies that mean numbers, of the first of which
\* the process has been asked for.
LEMMA CallFits ==
  ASSUME NEW h, NEW U, HeapOK(h, U), NEW y, NEW n \in Int, NEW p \in Proc,
         NEW c \in Names(U), AskedProc(U, y, n, p, c), NEW xs, Passed(U, y, xs),
         NEW fn, NEW m, Makes_of(U, xs, fn, n, p, m), NEW do \in Does
  PROVE  Called(U, [Job(do, xs, c, NoProc) EXCEPT !.fn = fn], do, fn, m)
<1> PICK j : j = [Job(do, xs, c, NoProc) EXCEPT !.fn = fn]
  OBVIOUS
<1> /\ Means(U, y, <<n, p>>) /\ U[c] = proc_of(y, <<n, p>>)
    /\ xs \in Seq(ProxyRecord) /\ Len(xs) <= 2 /\ xs # <<>> /\ xs[1] = y
    /\ \A i \in DOMAIN xs : IsProxy(U, xs[i])
  BY DEF AskedProc, Passed
<1> /\ \/ fn = "inc" /\ Len(xs) = 1 /\ m = <<n + 1, p>>
       \/ fn = "here" /\ Len(xs) = 1 /\ m = <<n + 1, p, p>>
       \/ /\ fn = "add" /\ Len(xs) = 2
          /\ \E k \in Int, q \in Proc : Means(U, xs[2], <<k, q>>) /\ m = <<n + 3 * k, p>>
  BY DEF Makes_of
<1>1. PICK i : i = Job(do, xs, c, NoProc)
  OBVIOUS
<1>2. Shaped(U, i) /\ i.do = do /\ i.xs = xs /\ i.of = c
  <2>1. c \in DOMAIN U /\ NoProc \in Place
    BY DEF Names, Place
  <2>2. /\ Shaped(U, Job(do, xs, c, NoProc))
        /\ Job(do, xs, c, NoProc).do = do /\ Job(do, xs, c, NoProc).xs = xs
        /\ Job(do, xs, c, NoProc).of = c /\ Job(do, xs, c, NoProc).claim = NoProc
    BY <2>1, JobShape
  <2>3. QED
    BY <1>1, <2>2
<1>3. i \in JobRecord
  BY <1>2 DEF Shaped
<1>4. j = [i EXCEPT !.fn = fn]
  BY <1>1
<1>5. fn \in {None, "inc", "add", "here"}
  OBVIOUS
<1>6. j \in JobRecord /\ j.do = do /\ j.fn = fn /\ j.xs = xs /\ j.of = c
  BY <1>2, <1>3, <1>4, <1>5 DEF JobRecord
<1>7. Shaped(U, j)
  BY <1>2, <1>6 DEF Shaped
<1>8. m \in Meaning /\ m[2] = p /\ (Len(m) = 3 => m[2] = m[3])
  <2>1. CASE fn = "inc"
    BY <2>1 DEF Meaning
  <2>2. CASE fn = "here"
    BY <2>2 DEF Meaning
  <2>3. CASE fn = "add"
    <3>1. PICK k \in Int : m = <<n + 3 * k, p>>
      BY <2>3
    <3>2. n + 3 * k \in Int
      OBVIOUS
    <3>3. QED
      BY <3>1, <3>2 DEF Meaning
  <2>4. QED
    BY <2>1, <2>2, <2>3
<1>9. Arguments(U, j, p, m, Proc)
  BY <1>6 DEF Arguments
<1>10. Asks(U, j, m)
  <2>1. PICK a : a = <<n, p>>
    OBVIOUS
  <2>2. U[j.of] = proc_of(j.xs[1], a) /\ a[2] = m[2]
    BY <1>6, <1>8, <2>1
  <2>3. QED
    BY <1>6, <1>8, <1>9, <2>2 DEF Asks
<1>11. QED
  BY <1>6, <1>7, <1>8, <1>10 DEF Called

\* A variable of a number, of which the process is asked for.
LEMMA AskingProc ==
  ASSUME NEW c, NEW T, HeapOK(c, T), main \in DOMAIN c, NEW ps, NEW ms, NEW n,
         VarsOK(T, ps, ms, 0, n), NEW v \in Var, ms[v] # <<>>, Len(ms[v]) = 2,
         NEW h, h = get_proc_future(c, main, ps[v]), NEW y, y = proc_ready(c, ps[v])
  PROVE  /\ ms[v][1] \in Int /\ ms[v][2] \in Proc
         /\ \E U : /\ Spawns(c, T, h, U, main) /\ Newest(h, main) \in Names(U)
                   /\ Means(U, y, <<ms[v][1], ms[v][2]>>) /\ y \in ProxyRecord
                   /\ U[Newest(h, main)] = proc_of(y, <<ms[v][1], ms[v][2]>>)
<1>1. PICK x, m : x = ps[v] /\ m = ms[v]
  OBVIOUS
<1>2. m \in Meaning /\ Means(T, x, m)
  BY <1>1, Variable
<1>3. m[1] \in Int /\ m[2] \in Proc /\ m = <<m[1], m[2]>>
  BY <1>1, <1>2, MeaningType, ProxyAssumption
<1>4. PICK U : /\ Spawns(c, T, h, U, main) /\ Newest(h, main) \in Names(U)
               /\ U[Newest(h, main)] = proc_of(y, m)
  <2>1. LET g == get_proc_future(c, main, x)
        IN  \E U : /\ Spawns(c, T, g, U, main) /\ Newest(g, main) \in Names(U)
                   /\ U[Newest(g, main)] = proc_of(proc_ready(c, x), m)
    BY <1>2, GetProcFuture
  <2>2. QED
    BY <1>1, <2>1
<1>5. Means(T, y, m)
  BY <1>1, <1>2, ProcReady
<1>6. Means(U, y, m)
  BY <1>4, <1>5, MeansGrows DEF Spawns
<1>7. y \in ProxyRecord
  BY <1>2, <1>5, Recorded DEF IsProxy
<1>8. QED
  BY <1>1, <1>3, <1>4, <1>6, <1>7

LEMMA InvFoldMap ==
  ASSUME Inv, Idle, NEW v \in 1 .. ops, NEW w \in 1 .. ops, FoldMap(v, w)
  PROVE  Inv'
<1>1. PICK T : Typed(T)
  BY DEF Inv
<1>2. PICK c, x, z, n, p, b, q, k, o : 
        /\ c = cell /\ x = px[v] /\ n = meant[v][1] /\ p = meant[v][2] /\ o = ops
        /\ z = px[w] /\ b = meant[w][1] /\ q = meant[w][2] /\ k = meant[v][1] + 3 * meant[w][1]
  OBVIOUS
<1>3. HeapOK(c, T) /\ VarsOK(T, px, meant, 0, ops) /\ main \in DOMAIN c
  BY <1>1, <1>2, AtIdle
<1>4. /\ v \in Var /\ meant[v] # <<>> /\ Len(meant[v]) = 2
      /\ w \in Var /\ meant[w] # <<>> /\ Len(meant[w]) = 2
  BY Assigns DEF FoldMap, Plain
<1>5. meant[w] \in Meaning /\ Means(T, z, <<b, q>>) /\ b \in Int /\ q \in Proc
  <2>1. meant[w] \in Meaning /\ Means(T, z, meant[w])
    BY <1>2, <1>3, <1>4, Variable
  <2>2. meant[w] = <<b, q>> /\ b \in Int /\ q \in Proc
    BY <1>2, <1>4, <2>1, MeaningType, ProxyAssumption
  <2>3. QED
    BY <2>1, <2>2
<1>6. PICK h, y : h = get_proc_future(c, main, x) /\ y = proc_ready(c, x)
  OBVIOUS
<1>7. PICK d : d = Newest(h, main)
  OBVIOUS
<1>8. /\ n \in Int /\ p \in Proc
      /\ \E U : /\ Spawns(c, T, h, U, main) /\ d \in Names(U)
                /\ Means(U, y, <<n, p>>) /\ y \in ProxyRecord
                /\ U[d] = proc_of(y, <<n, p>>)
  <2>1. h = get_proc_future(c, main, px[v]) /\ y = proc_ready(c, px[v])
    BY <1>2, <1>6
  <2>2. /\ meant[v][1] \in Int /\ meant[v][2] \in Proc
        /\ \E U : /\ Spawns(c, T, h, U, main) /\ Newest(h, main) \in Names(U)
                  /\ Means(U, y, <<meant[v][1], meant[v][2]>>) /\ y \in ProxyRecord
                  /\ U[Newest(h, main)] = proc_of(y, <<meant[v][1], meant[v][2]>>)
    BY <1>3, <1>4, <2>1, AskingProc
  <2>3. QED
    BY <1>2, <1>7, <2>2
<1>9. PICK U : /\ Spawns(c, T, h, U, main) /\ d \in Names(U)
               /\ Means(U, y, <<n, p>>) /\ U[d] = proc_of(y, <<n, p>>)
  BY <1>8
<1>10. HeapOK(h, U) /\ Means(U, z, <<b, q>>) /\ z \in ProxyRecord
  <2>1. HeapOK(h, U) /\ Grows(c, T, h, U)
    BY <1>9 DEF Spawns
  <2>2. Means(U, z, <<b, q>>)
    BY <1>5, <2>1, MeansGrows
  <2>3. IsProxy(U, z)
    BY <2>2 DEF IsProxy, Means
  <2>4. QED
    BY <2>1, <2>2, <2>3, Recorded
<1>11. PICK xs : xs = <<y, z>>
  OBVIOUS
<1>12. /\ xs \in Seq(ProxyRecord) /\ Len(xs) = 2 /\ xs # <<>> /\ xs[1] = y /\ xs[2] = z
       /\ \A i \in DOMAIN xs : IsProxy(U, xs[i])
  <2>1. xs \in Seq(ProxyRecord) /\ Len(xs) = 2 /\ xs # <<>> /\ xs[1] = y /\ xs[2] = z /\ DOMAIN xs = 1 .. 2
    BY <1>8, <1>10, <1>11
  <2>2. IsProxy(U, y) /\ IsProxy(U, z)
    BY <1>9, <1>10 DEF IsProxy, Means
  <2>3. \A i \in DOMAIN xs : i = 1 \/ i = 2
    BY <2>1
  <2>4. QED
    BY <2>1, <2>2, <2>3
<1>13. PICK m : m = <<n + 3 * b, p>>
  OBVIOUS
<1>14. PICK j : j = [Job("sync", xs, d, NoProc) EXCEPT !.fn = "add"]
  OBVIOUS
<1>15. Shaped(U, j) /\ Asks(U, j, m) /\ j.do = "sync" /\ j.fn = "add" /\ m \in Meaning
  <2>1. "sync" \in Does
    BY DEF Does
  <2>2. PICK fn : fn = "add"
    OBVIOUS
  <2>3. Makes_of(U, xs, fn, n, p, m)
    BY <1>5, <1>10, <1>12, <1>13, <2>2 DEF Makes_of
  <2>4. j = [Job("sync", xs, d, NoProc) EXCEPT !.fn = fn] /\ Passed(U, y, xs)
    BY <1>12, <1>14, <2>2 DEF Passed
  <2>5. Called(U, j, "sync", fn, m)
    <3>1. AskedProc(U, y, n, p, d)
      BY <1>9 DEF AskedProc
    <3>2. Called(U, [Job("sync", xs, d, NoProc) EXCEPT !.fn = fn], "sync", fn, m)
      BY <1>8, <1>9, <1>10, <2>1, <2>3, <2>4, <3>1, CallFits
    <3>3. QED
      BY <2>4, <3>2
  <2>6. QED
    BY <2>2, <2>5 DEF Called
<1>16. k = m[1] /\ k \in Int
  BY <1>2, <1>5, <1>8, <1>13
<1>17. JobFits(h, U, User, User, j, num(k))
  <2>1. ASSUME NEW e, e.home = User, e.at = User, e.job = j PROVE JobOK(h, U, e, num(k))
    <3>1. Syncs(U, e, num(k), m)
      BY <1>15, <1>16, <2>1 DEF Syncs
    <3>2. QED
      BY <1>15, <3>1 DEF JobOK
  <2>2. QED
    BY <2>1 DEF JobFits
<1>18. Ask(h, j, k) /\ px' = Cached(v)
  BY <1>2, <1>6, <1>7, <1>11, <1>14 DEF FoldMap, Caches
<1>19. VarsOK(T, px', meant, 0, ops)
  <2>1. VarsOK(T, [px EXCEPT ![v] = proc_ready(c, @)], meant, 0, ops)
    BY <1>3, <1>4, VarsCached
  <2>2. QED
    BY <1>2, <1>18, <2>1 DEF Cached
<1>20. Spawns(cell, T, h, U, main)
  BY <1>2, <1>9
<1>21. QED
  BY <1>1, <1>15, <1>16, <1>17, <1>18, <1>19, <1>20, AskedFor

\* What the program calls a function with: one variable, or two.
FmapOf(fn, ws, v, h, y) ==
  LET xs == [i \in DOMAIN ws |-> IF i = 1 THEN y ELSE px[ws[i]]]
      n == meant[v][1]
      p == meant[v][2]
      m == CASE fn = "inc" -> <<n + 1, p>>
             [] fn = "add" -> <<n + 3 * meant[ws[2]][1], p>>
             [] fn = "here" -> <<n + 1, p, p>>
             [] fn = "there" -> <<n + 1, p, other(p)>>
  IN  /\ Begin(h, [Job("remote_now", xs, Newest(h, main), NoProc) EXCEPT !.fn = fn], m)
      /\ Caches(v)

LEMMA InvFmap ==
  ASSUME ObjectsHere, Inv, Idle, NEW fn \in Maps,
         NEW ws \in {<<v>> : v \in 1 .. ops} \cup ((1 .. ops) \X (1 .. ops)), Fmap(fn, ws)
  PROVE  Inv'
<1>1. PICK T : Typed(T)
  BY DEF Inv
<1>2. PICK v : v = ws[1]
  OBVIOUS
<1>3. /\ v \in 1 .. ops /\ ws # <<>> /\ DOMAIN ws = 1 .. Len(ws)
      /\ Len(ws) = (IF fn = "add" THEN 2 ELSE 1)
      /\ Plain(v)
      /\ fn = "add" => ws[2] \in 1 .. ops /\ Plain(ws[2])
  <2>1. \A w \in Range(ws) : Plain(w)
    BY DEF Fmap
  <2>2. Len(ws) = (IF fn = "add" THEN 2 ELSE 1)
    BY DEF Fmap
  <2>3. CASE \E u \in 1 .. ops : ws = <<u>>
    <3>1. Len(ws) = 1 /\ DOMAIN ws = 1 .. 1 /\ v \in 1 .. ops /\ ws # <<>> /\ fn # "add"
      BY <1>2, <2>2, <2>3
    <3>2. v \in Range(ws)
      BY <1>2, <3>1 DEF Range
    <3>3. QED
      BY <2>1, <2>2, <3>1, <3>2
  <2>4. CASE ws \in (1 .. ops) \X (1 .. ops)
    <3>1. /\ Len(ws) = 2 /\ DOMAIN ws = 1 .. 2 /\ v \in 1 .. ops /\ ws[2] \in 1 .. ops
          /\ ws # <<>>
      BY <1>2, <2>4
    <3>2. v \in Range(ws) /\ ws[2] \in Range(ws)
      BY <1>2, <3>1 DEF Range
    <3>3. QED
      BY <2>1, <2>2, <3>1, <3>2
  <2>5. QED
    BY <2>3, <2>4
<1>4. /\ v \in Var /\ meant[v] # <<>> /\ Len(meant[v]) = 2
      /\ fn = "add" => ws[2] \in Var /\ meant[ws[2]] # <<>> /\ Len(meant[ws[2]]) = 2
  BY <1>3, Assigns DEF Plain
<1>5. PICK c, x, n, p : c = cell /\ x = px[v] /\ n = meant[v][1] /\ p = meant[v][2]
  OBVIOUS
<1>6. HeapOK(c, T) /\ VarsOK(T, px, meant, 0, ops) /\ main \in DOMAIN c
  BY <1>1, <1>5, AtIdle
<1>7. PICK h, y : h = get_proc_future(c, main, x) /\ y = proc_ready(c, x)
  OBVIOUS
<1>8. PICK d : d = Newest(h, main)
  OBVIOUS
<1>9. /\ n \in Int /\ p \in Proc
      /\ \E U : /\ Spawns(c, T, h, U, main) /\ d \in Names(U)
                /\ Means(U, y, <<n, p>>) /\ y \in ProxyRecord
                /\ U[d] = proc_of(y, <<n, p>>)
  <2>1. h = get_proc_future(c, main, px[v]) /\ y = proc_ready(c, px[v])
    BY <1>5, <1>7
  <2>2. /\ meant[v][1] \in Int /\ meant[v][2] \in Proc
        /\ \E U : /\ Spawns(c, T, h, U, main) /\ Newest(h, main) \in Names(U)
                  /\ Means(U, y, <<meant[v][1], meant[v][2]>>) /\ y \in ProxyRecord
                  /\ U[Newest(h, main)] = proc_of(y, <<meant[v][1], meant[v][2]>>)
    BY <1>4, <1>6, <2>1, AskingProc
  <2>3. QED
    BY <1>5, <1>8, <2>2
<1>10. PICK U : /\ Spawns(c, T, h, U, main) /\ d \in Names(U)
                /\ Means(U, y, <<n, p>>) /\ U[d] = proc_of(y, <<n, p>>)
  BY <1>9
<1>11. HeapOK(h, U) /\ Grows(c, T, h, U) /\ IsProxy(U, y)
  BY <1>10 DEF Spawns, IsProxy, Means
<1>12. FmapOf(fn, ws, v, h, y)
  BY <1>2, <1>5, <1>7 DEF Fmap, FmapOf
<1>13. fn \in {"inc", "add", "here"}
  BY ProxyAssumption DEF ObjectsHere
<1>14. PICK xs : xs = [i \in DOMAIN ws |-> IF i = 1 THEN y ELSE px[ws[i]]]
  OBVIOUS
<1>15. PICK b, q : fn = "add" => b = meant[ws[2]][1] /\ q = meant[ws[2]][2]
  OBVIOUS
<1>16. PICK m : m = CASE fn = "inc" -> <<n + 1, p>>
                      [] fn = "add" -> <<n + 3 * b, p>>
                      [] fn = "here" -> <<n + 1, p, p>>
  OBVIOUS
<1>17. PICK j : j = [Job("remote_now", xs, d, NoProc) EXCEPT !.fn = fn]
  OBVIOUS
<1>18. Begin(h, j, m) /\ px' = Cached(v)
  BY <1>5, <1>8, <1>12, <1>13, <1>14, <1>15, <1>16, <1>17 DEF FmapOf, Caches
<1>19. /\ xs \in Seq(ProxyRecord) /\ Len(xs) <= 2 /\ xs # <<>> /\ xs[1] = y
       /\ Len(xs) = Len(ws)
       /\ \A i \in DOMAIN xs : IsProxy(U, xs[i])
       /\ fn = "add" => Means(U, xs[2], <<b, q>>) /\ b \in Int /\ q \in Proc
  <2>1. CASE fn = "add"
    <3>1. PICK z : z = px[ws[2]]
      OBVIOUS
    <3>2. meant[ws[2]] \in Meaning /\ Means(T, z, meant[ws[2]])
      BY <1>4, <1>6, <2>1, <3>1, Variable
    <3>3. meant[ws[2]] = <<b, q>> /\ b \in Int /\ q \in Proc
      BY <1>4, <1>15, <2>1, <3>2, MeaningType, ProxyAssumption
    <3>4. Means(U, z, <<b, q>>)
      BY <1>11, <3>2, <3>3, MeansGrows
    <3>5. IsProxy(U, z)
      BY <3>4 DEF IsProxy, Means
    <3>6. z \in ProxyRecord
      BY <1>11, <3>5, Recorded
    <3>7. Len(ws) = 2 /\ DOMAIN ws = 1 .. 2
      BY <1>3, <2>1
    <3>8. xs = [i \in 1 .. 2 |-> IF i = 1 THEN y ELSE px[ws[i]]]
      BY <1>14, <3>7
    <3>9. xs = <<y, z>>
      BY <3>1, <3>8
    <3>10. xs \in Seq(ProxyRecord) /\ Len(xs) = 2 /\ xs # <<>> /\ xs[1] = y /\ xs[2] = z
      BY <1>9, <3>6, <3>9
    <3>11. \A i \in DOMAIN xs : i = 1 \/ i = 2
      BY <3>8
    <3>12. QED
      BY <1>11, <3>3, <3>4, <3>5, <3>7, <3>10, <3>11
  <2>2. CASE fn # "add"
    <3>1. Len(ws) = 1 /\ DOMAIN ws = 1 .. 1
      BY <1>3, <2>2
    <3>2. xs = [i \in 1 .. 1 |-> IF i = 1 THEN y ELSE px[ws[i]]]
      BY <1>14, <3>1
    <3>3. xs = <<y>>
      BY <3>2
    <3>4. xs \in Seq(ProxyRecord) /\ Len(xs) = 1 /\ xs # <<>> /\ xs[1] = y
      BY <1>9, <3>3
    <3>5. \A i \in DOMAIN xs : i = 1
      BY <3>2
    <3>6. QED
      BY <1>11, <2>2, <3>1, <3>4, <3>5
  <2>3. QED
    BY <2>1, <2>2
<1>20. Makes_of(U, xs, fn, n, p, m)
  BY <1>3, <1>13, <1>16, <1>19 DEF Makes_of
<1>21. /\ Shaped(U, j) /\ Asks(U, j, m) /\ j.do = "remote_now"
       /\ m \in Meaning /\ (Len(m) = 3 => m[2] = m[3])
  <2>1. "remote_now" \in Does
    BY DEF Does
  <2>2. AskedProc(U, y, n, p, d) /\ Passed(U, y, xs)
    BY <1>10, <1>19 DEF AskedProc, Passed
  <2>3. Called(U, [Job("remote_now", xs, d, NoProc) EXCEPT !.fn = fn], "remote_now", fn, m)
    BY <1>9, <1>10, <1>11, <1>20, <2>1, <2>2, CallFits
  <2>4. QED
    BY <1>17, <2>3 DEF Called
<1>22. JobFits(h, U, User, User, j, prox(m))
  <2>1. ASSUME NEW e, e.home = User, e.at = User, e.job = j PROVE JobOK(h, U, e, prox(m))
    <3>1. Remotes(U, e, prox(m), m)
      BY <1>21, <2>1 DEF Remotes
    <3>2. QED
      BY <1>21, <3>1 DEF JobOK
  <2>2. QED
    BY <2>1 DEF JobFits
<1>23. VarsOK(T, px', meant, 0, ops)
  <2>1. VarsOK(T, [px EXCEPT ![v] = proc_ready(c, @)], meant, 0, ops)
    BY <1>4, <1>6, VarsCached
  <2>2. QED
    BY <1>5, <1>18, <2>1 DEF Cached
<1>24. Spawns(cell, T, h, U, main)
  BY <1>5, <1>10
<1>25. QED
  BY <1>1, <1>18, <1>21, <1>22, <1>23, <1>24, Begun

LEMMA InvUnwrap ==
  ASSUME Inv, Idle, NEW v \in 1 .. ops, Unwrap(v)
  PROVE  Inv'
<1>1. PICK T : Typed(T)
  BY DEF Inv
<1>2. PICK c, x, y, m, k, p :
        /\ c = cell /\ x = px[v] /\ y = proc_ready(cell, px[v]) /\ m = meant[v]
        /\ k = <<meant[v][1], meant[v][3]>> /\ p = User
  OBVIOUS
<1>3. HeapOK(c, T) /\ VarsOK(T, px, meant, 0, ops) /\ main \in DOMAIN c /\ p \in Proc
  BY <1>1, <1>2, AtIdle, ProxyAssumption
<1>4. v \in Var /\ meant[v] # <<>> /\ Len(m) = 3
  BY <1>2, Assigns DEF Unwrap, Nested
<1>5. /\ m \in Meaning /\ Means(T, x, m)
      /\ m[2] # m[3] => m[2] = User /\ x.proc = User
  BY <1>2, <1>3, <1>4, Variable
<1>6. /\ Means(T, y, m) /\ y.proc \in {NoProc, m[2]}
      /\ x.proc # NoProc => y = x
  BY <1>2, <1>3, <1>5, ProcReady DEF Means
<1>7. User # NoProc
  BY ProxyAssumption
<1>8. k \in Meaning /\ Len(k) = 2 /\ k[2] = m[3]
  BY <1>2, <1>4, <1>5, <1>7, MeaningType, ProxyAssumption
<1>9. VarsOK(T, px', meant, 0, ops)
  <2>1. VarsOK(T, [px EXCEPT ![v] = proc_ready(c, @)], meant, 0, ops)
    BY <1>3, <1>4, VarsCached
  <2>2. px' = Cached(v)
    BY DEF Unwrap, Caches
  <2>3. QED
    BY <1>2, <2>1, <2>2 DEF Cached
<1>10. CASE y.proc = User
  <2>1. PICK j : j = Job("deref", <<y>>, <<>>, NoProc)
    OBVIOUS
  <2>2. Shaped(T, j) /\ JobFits(c, T, User, User, j, prox(k))
    <3>1. m[2] = User
      BY <1>6, <1>7, <1>10
    <3>2. prox(k) = IF Len(m) = 2 THEN num(m[1]) ELSE prox(<<m[1], m[3]>>)
      BY <1>2, <1>4
    <3>3. /\ Shaped(T, Job("deref", <<y>>, <<>>, NoProc))
          /\ JobFits(c, T, User, User, Job("deref", <<y>>, <<>>, NoProc), prox(k))
      BY <1>3, <1>5, <1>6, <3>1, <3>2, DerefFits
    <3>4. QED
      BY <2>1, <3>3
  <2>3. Begin(c, j, k)
    BY <1>2, <1>10, <2>1 DEF Unwrap
  <2>4. Spawns(cell, T, c, T, main)
    BY <1>2, <1>3, SpawnsNothing
  <2>5. QED
    BY <1>1, <1>8, <1>9, <2>2, <2>3, <2>4, Begun
<1>11. CASE y.proc # User
  <2>1. y.proc \in {NoProc, k[2]}
    BY <1>5, <1>6, <1>7, <1>8, <1>11
  <2>2. PICK i : i = Job("unwrapped", <<y>>, <<>>, NoProc)
    OBVIOUS
  <2>3. Shaped(T, i) /\ JobFits(c, T, p, p, i, prox(k))
    <3>1. "unwrapped" \in Does
      BY DEF Does
    <3>2. Shaped(T, i) /\ i.do = "unwrapped" /\ Of(T, i, m)
      <4>1. LET l == Job("unwrapped", <<y>>, <<>>, NoProc)
            IN  Shaped(T, l) /\ l.do = "unwrapped" /\ l.xs = <<y>> /\ Of(T, l, m)
        BY <1>3, <1>5, <1>6, <3>1, JobOf
      <4>2. QED
        BY <2>2, <4>1
    <3>3. ASSUME NEW e, e.home = p, e.at = p, e.job = i PROVE JobOK(c, T, e, prox(k))
      <4>1. Unwraps(T, e, prox(k), m)
        BY <1>2, <1>4, <3>2, <3>3 DEF Unwraps
      <4>2. QED
        BY <1>5, <4>1 DEF JobOK
    <3>4. QED
      BY <3>2, <3>3 DEF JobFits
  <2>4. PICK h : h = Add(c, main, New(p, p, i))
    OBVIOUS
  <2>5. PICK d, q : d = Newest(h, main) /\ q = y.proc
    OBVIOUS
  <2>6. PICK U : Spawns(c, T, h, U, main) /\ d \in Names(U) /\ U[d] = prox(k)
    <3>1. LET g == Add(c, main, New(p, p, i))
          IN  \E U : Spawns(c, T, g, U, main) /\ Newest(g, main) \in Names(U) /\ U[Newest(g, main)] = prox(k)
      BY <1>3, <2>3, SpawnNew
    <3>2. QED
      BY <2>4, <2>5, <3>1
  <2>7. PICK j : j = Job("construct", <<>>, d, q)
    OBVIOUS
  <2>8. Shaped(U, j) /\ JobFits(h, U, User, User, j, prox(k))
    <3>1. HeapOK(h, U)
      BY <2>6 DEF Spawns
    <3>2. /\ Shaped(U, Job("construct", <<>>, d, q))
          /\ JobFits(h, U, User, User, Job("construct", <<>>, d, q), prox(k))
      BY <1>8, <2>1, <2>5, <2>6, <3>1, ConstructFits
    <3>3. QED
      BY <2>7, <3>2
  <2>9. Begin(h, j, k)
    BY <1>2, <1>11, <2>2, <2>4, <2>5, <2>7 DEF Unwrap
  <2>10. Spawns(cell, T, h, U, main)
    BY <1>2, <2>6
  <2>11. QED
    BY <1>1, <1>8, <1>9, <2>8, <2>9, <2>10, Begun
<1>12. QED
  BY <1>10, <1>11

-----------------------------------------------------------------------------
(* The theorems *)

LEMMA GotNumber ==
  ASSUME NEW h, NEW T, HeapOK(h, T), NEW x, NEW n, NEW p, Means(T, x, <<n, p>>),
         ready(h, x.robj)
  PROVE  get(h, x).proc = p /\ get(h, x).n = n
<1>1. PICK m : m = <<n, p>>
  OBVIOUS
<1>2. Holds(h, T, get(h, x), ptr(m))
  BY <1>1, Got
<1>3. PICK v : v = get(h, x)
  OBVIOUS
<1>4. v.proc = m[2] /\ (Len(m) = 2 => v.n = m[1])
  <2>1. Holds(h, T, v, ptr(m))
    BY <1>2, <1>3
  <2>2. QED
    BY <2>1, HoldsPtr
<1>5. m[1] = n /\ m[2] = p /\ Len(m) = 2
  BY <1>1
<1>6. QED
  BY <1>3, <1>4, <1>5

LEMMA InvNext ==
  ASSUME ObjectsHere, Inv, [Next]_vars
  PROVE  Inv'
<1>1. CASE Operation
  <2>1. Idle
    BY <1>1 DEF Operation
  <2>2. CASE MakeLocalProxy
    BY <2>1, <2>2, InvMakeLocalProxy
  <2>3. CASE FromPointer
    BY <2>1, <2>3, InvFromPointer
  <2>4. CASE \E dest \in Proc : MakeRemoteProxy(dest)
    BY <2>1, <2>4, InvMakeRemoteProxy
  <2>5. CASE \E v \in 1 .. ops : MakeLocal(v) \/ HeadOf(v) \/ Unwrap(v) \/ Wait(v)
    <3>1. PICK v \in 1 .. ops : MakeLocal(v) \/ HeadOf(v) \/ Unwrap(v) \/ Wait(v)
      BY <2>5
    <3>2. CASE MakeLocal(v)
      BY <2>1, <3>2, InvMakeLocal
    <3>3. CASE HeadOf(v)
      BY <2>1, <3>3, InvHeadOf
    <3>4. CASE Unwrap(v)
      BY <2>1, <3>4, InvUnwrap
    <3>5. CASE Wait(v)
      BY <2>1, <3>5, InvWait
    <3>6. QED
      BY <3>1, <3>2, <3>3, <3>4, <3>5
  <2>6. CASE \E v, w \in 1 .. ops : FoldMap(v, w)
    BY <2>1, <2>6, InvFoldMap
  <2>7. CASE \E fn \in Maps, ws \in {<<v>> : v \in 1 .. ops} \cup ((1 .. ops) \X (1 .. ops)) : Fmap(fn, ws)
    BY <2>1, <2>7, InvFmap
  <2>8. QED
    BY <1>1, <2>2, <2>3, <2>4, <2>5, <2>6, <2>7 DEF Operation
<1>2. CASE Step
  BY <1>2, InvStep
<1>3. CASE ~ aborted /\ End
  BY <1>3, InvEnd
<1>4. CASE UNCHANGED vars
  BY <1>4 DEF vars, Inv, Typed
<1>5. QED
  BY <1>1, <1>2, <1>3, <1>4 DEF Next

THEOREM Invariance ==
  ASSUME ObjectsHere
  PROVE  Spec => []Inv
<1>1. Inv /\ [Next]_vars => Inv'
  BY InvNext
<1>2. QED
  BY <1>1, InvInit, PTL DEF Spec

\* The type invariant.
THEOREM TypeCorrect ==
  ASSUME ObjectsHere
  PROVE  Spec => []TypeOK
<1>1. Inv => TypeOK
  <2> SUFFICES ASSUME Inv PROVE TypeOK
    OBVIOUS
  <2>1. PICK T : Typed(T)
    BY DEF Inv
  <2>2. HeapOK(cell, T) /\ VarsOK(T, px, meant, target, ops)
    BY <2>1 DEF Typed
  <2>3. DOMAIN T = DOMAIN cell
    BY <2>2 DEF HeapOK
  <2>4. ASSUME NEW x, IsProxy(T, x)
        PROVE  x = null \/ (x.robj \in DOMAIN cell /\ x.proc \in Proc \cup {NoProc})
    <3>1. \A m : Means(T, x, m) => x.robj \in DOMAIN cell /\ x.proc \in Proc \cup {NoProc}
      BY <2>3, MeantProc DEF Means, Names
    <3>2. QED
      BY <2>4, <3>1 DEF IsProxy
  <2>5. ASSUME NEW c \in DOMAIN cell
        PROVE  /\ cell[c].home \in Proc /\ cell[c].at \in Proc
               /\ cell[c].stage \in {"idle", "sent", "run", "back", "done"}
               /\ cell[c].job.of \in DOMAIN cell
               /\ \A x \in Range(cell[c].job.xs) : IsProxy(T, x)
               /\ IsProxy(T, cell[c].value.inner) /\ cell[c].value.proc \in Proc \cup {NoProc}
    <3>1. /\ cell[c] \in Entry /\ Shaped(T, cell[c].job) /\ IsProxy(T, cell[c].value.inner)
          /\ cell[c].home \in Proc /\ cell[c].at \in Proc
      BY <2>2, ThreadState
    <3>2. cell[c].stage \in {"idle", "sent", "run", "back", "done"} /\ cell[c].value.proc \in Proc \cup {NoProc}
      BY <3>1 DEF Entry, ValueRecord, Place
    <3>3. cell[c].job.of \in DOMAIN cell /\ \A x \in Range(cell[c].job.xs) : IsProxy(T, x)
      BY <2>3, <3>1 DEF Shaped, Range
    <3>4. QED
      BY <3>1, <3>2, <3>3
  <2>6. \A v \in Var : IsProxy(T, px[v])
    BY <2>2 DEF VarsOK, Fits, Expects, IsProxy, Means
  <2>7. target \in Var \cup {0} /\ ops \in 0 .. MaxOps /\ aborted \in BOOLEAN
    BY DEF Inv
  <2>8. QED
    BY <2>4, <2>5, <2>6, <2>7 DEF TypeOK
<1>2. QED
  BY <1>1, Invariance, PTL

\* No assertion fails, in whatever order calls and results arrive: a call
\* finds what it needs where it is made, and every process that is claimed
\* for an object before there is one is the object's.
THEOREM NothingAborts ==
  ASSUME ObjectsHere
  PROVE  Spec => []NoAbort
<1>1. Inv => NoAbort
  BY DEF Inv, NoAbort
<1>2. QED
  BY <1>1, Invariance, PTL

\* A process that a proxy has cached is the process of its object.
THEOREM CachedProcIsRight ==
  ASSUME ObjectsHere
  PROVE  Spec => []CachedProc
<1>1. Inv => CachedProc
  <2> SUFFICES ASSUME Inv PROVE CachedProc
    OBVIOUS
  <2>1. PICK T : Typed(T)
    BY DEF Inv
  <2>2. HeapOK(cell, T) /\ VarsOK(T, px, meant, target, ops)
    BY <2>1 DEF Typed
  <2>3. ASSUME NEW x, IsProxy(T, x), x.proc # NoProc, ready(cell, x.robj)
        PROVE  x.proc = get(cell, x).proc
    <3>1. x # null
      BY <2>3 DEF null, proxy
    <3>2. PICK m \in Meaning : Means(T, x, m)
      BY <2>3, <3>1 DEF IsProxy
    <3>3. get(cell, x).proc = m[2]
      BY <2>2, <2>3, <3>2, GotProc
    <3>4. QED
      BY <2>3, <3>2, <3>3 DEF Means
  <2>4. \A v \in Var : IsProxy(T, px[v])
    BY <2>2 DEF VarsOK, Fits, Expects, IsProxy, Means
  <2>5. ASSUME NEW c \in DOMAIN cell
        PROVE  /\ \A x \in Range(cell[c].job.xs) : IsProxy(T, x)
               /\ IsProxy(T, cell[c].value.inner)
    <3>1. Shaped(T, cell[c].job) /\ IsProxy(T, cell[c].value.inner)
      BY <2>2, ThreadState
    <3>2. QED
      BY <3>1 DEF Shaped, Range
  <2>6. ASSUME NEW x \in Proxies PROVE IsProxy(T, x)
    BY <2>4, <2>5, <2>6 DEF Proxies
  <2>7. QED
    BY <2>3, <2>6 DEF CachedProc
<1>2. QED
  BY <1>1, Invariance, PTL

\* The program gets the results it would get from plain values, and finds
\* every object where the operation promises it.
THEOREM ProxiesAsIfLocal ==
  ASSUME ObjectsHere
  PROVE  Spec => []AsIfLocal
<1>1. Inv => AsIfLocal
  <2> SUFFICES ASSUME Inv PROVE AsIfLocal
    OBVIOUS
  <2>1. PICK T : Typed(T)
    BY DEF Inv
  <2>2. /\ HeapOK(cell, T) /\ VarsOK(T, px, meant, target, ops)
        /\ cell[main].stage = "idle" => answer.is = answer.want
    BY <2>1 DEF Typed, ResultOK
  <2>3. ASSUME NEW v \in Var, px[v] # null
        PROVE  v # target /\ meant[v] # <<>> /\ Means(T, px[v], meant[v])
    BY <2>2, <2>3 DEF VarsOK, Fits, Expects
  <2>4. ASSUME NEW v \in Var, px[v] # null, ready(cell, px[v].robj)
        PROVE  LET r == get(cell, px[v])
               IN  /\ r.proc = meant[v][2]
                   /\ Plain(v) => r.n = meant[v][1]
                   /\ Nested(v) /\ ready(cell, r.inner.robj) =>
                        LET i == get(cell, r.inner)
                        IN  i.proc = meant[v][3] /\ i.n = meant[v][1]
    <3>1. PICK x, m, r : x = px[v] /\ m = meant[v] /\ r = get(cell, px[v])
      OBVIOUS
    <3>2. Means(T, x, m) /\ ready(cell, x.robj) /\ r = get(cell, x)
      BY <2>3, <2>4, <3>1
    <3>3. /\ r.proc = m[2]
          /\ Len(m) = 2 => r.n = m[1]
          /\ Len(m) = 3 => Means(T, r.inner, <<m[1], m[3]>>)
      BY <2>2, <3>2, Got
    <3>4. ASSUME Len(m) = 3, ready(cell, r.inner.robj)
          PROVE  get(cell, r.inner).proc = m[3] /\ get(cell, r.inner).n = m[1]
      <4>1. PICK y, h, n, p : y = r.inner /\ h = cell /\ n = m[1] /\ p = m[3]
        OBVIOUS
      <4>2. HeapOK(h, T) /\ Means(T, y, <<n, p>>) /\ ready(h, y.robj)
        BY <2>2, <3>3, <3>4, <4>1
      <4>3. get(h, y).proc = p /\ get(h, y).n = n
        BY <4>2, GotNumber
      <4>4. QED
        BY <4>1, <4>3
    <3>5. QED
      BY <3>1, <3>3, <3>4 DEF Plain, Nested
  <2>5. ASSUME NEW v \in Var, px[v] # null PROVE px[v].proc \in {NoProc, meant[v][2]}
    BY <2>3, <2>5 DEF Means
  <2>6. QED
    BY <2>2, <2>3, <2>4, <2>5 DEF AsIfLocal
<1>2. QED
  BY <1>1, Invariance, PTL
=============================================================================
