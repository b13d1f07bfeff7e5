------------------------------- MODULE Maybe -------------------------------
(***************************************************************************)
(* adt/maybe.hpp, nothing or just an element, as a container of            *)
(* fun/maybe.hpp.  nothing is the empty sequence.                          *)
(***************************************************************************)
EXTENDS Calls

traits == [min |-> 0, max |-> 1]

nothing == <<>>
make_just(x) == <<x>>
just(xs) == xs # nothing
get_just(xs) == xs[1]

iotaMap(inds) == IF empty(inds) THEN nothing ELSE make_just(at(inds, 0))
iotaMap_ok(inds) == shape(inds) <= 1

fmap(f, xs) == IF just(xs) THEN make_just(f[get_just(xs)]) ELSE nothing

same_size(xs, ys) == just(ys) = just(xs)

fmap2(xs, ys) == IF just(xs) THEN make_just(<<get_just(xs), get_just(ys)>>) ELSE nothing

foldMap(f, xs) == IF just(xs) THEN f[get_just(xs)] ELSE <<>>

foldMap2(f, xs, ys) == IF just(xs) THEN f[get_just(xs), get_just(ys)] ELSE <<>>

munit(x) == make_just(x)

\* Not by way of mjoin.
mbind(f, xs) == IF just(xs) THEN f[get_just(xs)] ELSE nothing

mjoin(xss) == IF just(xss) THEN get_just(xss) ELSE nothing

mextract(xs) == get_just(xs)

mfoldMap(f, xs) == munit(foldMap(f, xs))

mzero == nothing

\* The first that is not nothing.
\* Mutant: the last one.
mplus_last(xs, yss) ==
  LET full == SelectSeq(<<xs>> \o yss, just) IN IF full = <<>> THEN nothing ELSE Last(full)
mplus(xs, yss) ==
  LET full == SelectSeq(<<xs>> \o yss, just) IN IF full = <<>> THEN nothing ELSE Head(full)

mempty(xs) == ~ just(xs)

msize(xs) == IF mempty(xs) THEN 0 ELSE 1

make(ys) == IF ys = <<>> THEN mzero ELSE munit(ys[1])

\* Nothing is asserted.
mjoin_ok(xss) == TRUE
mplus_ok(xs, yss) == TRUE

VARIABLE c
M == INSTANCE Monad

Zero == c' = mzero

Plus == c' \in Sums(c, make, mplus_ok, mplus)

Init == M!Init

Next == M!Build \/ M!Map \/ M!Unit \/ M!Bind \/ Zero \/ Plus

-----------------------------------------------------------------------------
\* The element that there is can be taken out, also after a fold.
Ends ==
  LET list == M!elements(c)
  IN  just(c) => mextract(c) = list[1] /\ mextract(mfoldMap(Singles, c)) = list
=============================================================================
