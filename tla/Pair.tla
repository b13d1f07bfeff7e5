-------------------------------- MODULE Pair --------------------------------
(***************************************************************************)
(* std::pair<L, T>, an element with an L beside it, as a container of      *)
(* fun/pair.hpp.  The values of L are 0, which L() makes, and 1.           *)
(***************************************************************************)
EXTENDS Calls

traits == [min |-> 1, max |-> 1]

First == 0 .. 1

pair(l, x) == [first |-> l, second |-> x]

iotaMap(inds) == pair(0, at(inds, 0))
iotaMap_ok(inds) == shape(inds) = 1

fmap(f, xs) == pair(xs.first, f[xs.second])

fmap2(xs, ys) == pair(xs.first, <<xs.second, ys.second>>)

foldMap(f, xs) == f[xs.second]

foldMap2(f, xs, ys) == f[xs.second, ys.second]

munit(x) == pair(0, x)

\* The first of xs is dropped, also by mjoin.
mbind(f, xs) == f[xs.second]

mjoin(xss) == xss.second

mextract(xs) == xs.second

mfoldMap(f, xs) == pair(xs.first, foldMap(f, xs))

mempty(xs) == FALSE

msize(xs) == 1

make(ys) == munit(ys[1])

\* Nothing is asserted.
same_size(xs, ys) == TRUE
mjoin_ok(xss) == TRUE

VARIABLE c
M == INSTANCE Monad

\* The program sets what is beside the element.
Beside == \E l \in First : c' = pair(l, c.second)

Init == M!Init

Next == M!Build \/ M!Map \/ M!Unit \/ M!Bind \/ Beside

-----------------------------------------------------------------------------
\* The element that there is can be taken out, also after a fold.
Ends ==
  LET list == M!elements(c)
  IN  mextract(c) = list[1] /\ mextract(mfoldMap(Singles, c)) = list

\* The laws hold exactly where mbind loses nothing: mbind with munit puts the
\* first that L() makes in the place of every other.
Laws == M!Laws <=> c.first = 0
=============================================================================
