------------------------------- MODULE Extra -------------------------------
(***************************************************************************)
(* The containers that never have an element: adt/extra.hpp with           *)
(* fun/extra.hpp, that holds only a value of another type, which is 0 if   *)
(* E() makes it, or 1; and adt/empty.hpp with fun/empty.hpp, that holds    *)
(* nothing and does the same.                                              *)
(***************************************************************************)
EXTENDS Calls

CONSTANT E    \* the other type: {0} stands for empty

traits == [min |-> 0, max |-> 0]

extra(e) == [ex |-> e]

iotaMap(inds) == extra(0)
iotaMap_ok(inds) == empty(inds)

fmap(f, xs) == extra(xs.ex)

fmap2(xs, ys) == extra(xs.ex)

foldMap(f, xs) == <<>>

foldMap2(f, xs, ys) == <<>>

mbind(f, xs) == extra(xs.ex)

mjoin(xss) == extra(xss.ex)

mzero == extra(0)

mplus(xs, yss) == xs

mempty(xs) == TRUE

msize(xs) == 0

\* Nothing is asserted.
same_size(xs, ys) == TRUE
mplus_ok(xs, yss) == TRUE

make(ys) == mzero

VARIABLE c
F == INSTANCE Functor

Bind == c' = mbind(Twist, c)

Other == \E e \in E : c' = extra(e)

Zero == c' = mzero

Plus == c' \in Sums(c, make, mplus_ok, mplus)

Init == F!Init

Next == F!Build \/ F!Map \/ Bind \/ Zero \/ Plus \/ Other
=============================================================================
