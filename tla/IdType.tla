------------------------------- MODULE IdType -------------------------------
(***************************************************************************)
(* adt/idtype.hpp, exactly one element, as a container of fun/idtype.hpp:  *)
(* what the boundary of a vector is.                                       *)
(***************************************************************************)
EXTENDS Calls

traits == [min |-> 1, max |-> 1]

idtype(x) == <<x>>
get(xs) == xs[1]

iotaMap(inds) == idtype(at(inds, 0))
iotaMap_ok(inds) == shape(inds) = 1

fmap(f, xs) == idtype(f[get(xs)])

fmap2(xs, ys) == idtype(<<get(xs), get(ys)>>)

head(xs) == get(xs)

last(xs) == get(xs)

foldMap(f, xs) == f[get(xs)]

foldMap2(f, xs, ys) == f[get(xs), get(ys)]

munit(x) == idtype(x)

mbind(f, xs) == f[get(xs)]

mjoin(xss) == get(xss)

mextract(xs) == get(xs)

mfoldMap(f, xs) == munit(foldMap(f, xs))

mempty(xs) == FALSE

msize(xs) == 1

make(ys) == munit(ys[1])

\* Nothing is asserted.
same_size(xs, ys) == TRUE
mjoin_ok(xss) == TRUE

VARIABLE c
M == INSTANCE Monad

Init == M!Init

Next == M!Build \/ M!Map \/ M!Unit \/ M!Bind

-----------------------------------------------------------------------------
\* The element that there is can be taken out, also after a fold.
Ends ==
  LET list == M!elements(c)
  IN  mextract(c) = list[1] /\ head(c) = list[1] /\ last(c) = list[1] /\ mextract(mfoldMap(Singles, c)) = list
=============================================================================
