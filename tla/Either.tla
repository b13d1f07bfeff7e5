------------------------------- MODULE Either -------------------------------
(***************************************************************************)
(* adt/either.hpp, an element or else a left value, as a container of      *)
(* fun/either.hpp.  Left values say why there is no element: 0, which L()  *)
(* makes, or 1.                                                            *)
(***************************************************************************)
EXTENDS Calls

traits == [min |-> 0, max |-> 1]

LeftValue == 0 .. 1

make_left(l) == [is_left |-> TRUE, left |-> l]
make_right(x) == [is_left |-> FALSE, right |-> x]
right(xs) == ~ xs.is_left

iotaMap(inds) == IF empty(inds) THEN make_left(0) ELSE make_right(at(inds, 0))
iotaMap_ok(inds) == shape(inds) <= 1

fmap(f, xs) == IF right(xs) THEN make_right(f[xs.right]) ELSE make_left(xs.left)

same_size(xs, ys) == right(ys) = right(xs)

fmap2(xs, ys) ==
  IF right(xs) THEN make_right(<<xs.right, ys.right>>) ELSE make_left(xs.left)

foldMap(f, xs) == IF right(xs) THEN f[xs.right] ELSE <<>>

foldMap2(f, xs, ys) == IF right(xs) THEN f[xs.right, ys.right] ELSE <<>>

munit(x) == make_right(x)

\* The overload for an lvalue forgets the left value.
mbind_lvalue(f, xs) == IF right(xs) THEN f[xs.right] ELSE make_left(0)

\* The overload for an rvalue.
mbind(f, xs) == IF right(xs) THEN f[xs.right] ELSE xs

mjoin(xss) == IF right(xss) THEN xss.right ELSE make_left(xss.left)

mextract(xs) == xs.right

mfoldMap(f, xs) == munit(foldMap(f, xs))

mzero == make_left(0)

\* The first that has an element.
mplus(xs, yss) ==
  LET full == SelectSeq(<<xs>> \o yss, right) IN IF full = <<>> THEN make_left(0) ELSE Head(full)

mempty(xs) == ~ right(xs)

msize(xs) == IF mempty(xs) THEN 0 ELSE 1

make(ys) == IF ys = <<>> THEN mzero ELSE munit(ys[1])

\* Nothing is asserted.
mjoin_ok(xss) == TRUE
mplus_ok(xs, yss) == TRUE

VARIABLE c
M == INSTANCE Monad
ML == INSTANCE Monad WITH mbind <- mbind_lvalue

\* The program says why it has no element.
Left == \E l \in LeftValue : c' = make_left(l)

Zero == c' = mzero

Plus == c' \in Sums(c, make, mplus_ok, mplus)

Init == M!Init

Next == M!Build \/ M!Map \/ M!Unit \/ M!Bind \/ ML!Bind \/ Zero \/ Plus \/ Left

-----------------------------------------------------------------------------
\* The element that there is can be taken out, also after a fold.
Ends ==
  LET list == M!elements(c)
  IN  right(c) => mextract(c) = list[1] /\ mextract(mfoldMap(Singles, c)) = list

\* mbind of an rvalue obeys the laws; mbind of an lvalue obeys them exactly
\* where there is an element, or else the left value that L() makes: it turns
\* every other one into that, so that munit is not neutral.
Laws ==
  /\ M!Laws
  /\ ML!Laws <=> right(c) \/ c.left = 0
=============================================================================
