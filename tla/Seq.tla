-------------------------------- MODULE Seq --------------------------------
(***************************************************************************)
(* adt/seq_impl.hpp, a container of one kind followed by one of another,   *)
(* as a container of fun/seq_impl.hpp; here a shared_ptr and a vector, as  *)
(* in the tests.                                                           *)
(***************************************************************************)
EXTENDS Calls

A == INSTANCE SharedPtr
B == INSTANCE Vector

traits ==
  [min |-> A!traits.min + B!traits.min,
   max |-> IF A!traits.max = -1 \/ B!traits.max = -1 THEN -1 ELSE A!traits.max + B!traits.max]

seq(xs, ys) == [first |-> xs, second |-> ys]

\* The left part takes as many as it can hold.
iotaMap(inds) ==
  LET lsz == IF A!traits.max = -1 THEN shape(inds) ELSE Least(shape(inds), A!traits.max)
      mid == inds.imin + lsz * inds.istep
  IN  seq(A!iotaMap(irange(inds.imin, mid, inds.istep)),
          B!iotaMap(irange(mid, inds.imax, inds.istep)))
iotaMap_ok(inds) == TRUE

fmap(f, xs) == seq(A!fmap(f, xs.first), B!fmap(f, xs.second))

same_size(xs, ys) == A!same_size(xs.first, ys.first) /\ B!same_size(xs.second, ys.second)

fmap2(xs, ys) == seq(A!fmap2(xs.first, ys.first), B!fmap2(xs.second, ys.second))

head(xs) == IF A!mempty(xs.first) THEN B!head(xs.second) ELSE A!head(xs.first)

last(xs) == IF xs.second = <<>> THEN A!last(xs.first) ELSE B!last(xs.second)

\* What the asserts of head and last come to.
nonempty(xs) == A!set(xs.first) \/ B!nonempty(xs.second)

foldMap(f, xs) == A!foldMap(f, xs.first) \o B!foldMap(f, xs.second)

foldMap2(f, xs, ys) ==
  A!foldMap2(f, xs.first, ys.first) \o B!foldMap2(f, xs.second, ys.second)

munit(x) ==
  IF A!traits.max = 0 THEN seq(A!mzero, B!munit(x)) ELSE seq(A!munit(x), B!mzero)

mextract(xs) == head(xs)

mfoldMap(f, xs) == munit(foldMap(f, xs))

mzero == seq(A!mzero, B!mzero)

mempty(xs) == A!mempty(xs.first) /\ xs.second = <<>>

msize(xs) == A!msize(xs.first) + B!msize(xs.second)

VARIABLE c
F == INSTANCE Functor

Unit == \E inds \in Ranges : shape(inds) = 1 /\ c' = munit(at(inds, 0))

Zero == c' = mzero

Init == F!Init

Next == F!Build \/ F!Map \/ Unit \/ Zero

-----------------------------------------------------------------------------
\* Where nothing is asserted the ends are those of the list.
Ends ==
  LET list == F!elements(c)
      end(i) == IF i = 0 THEN list[1] ELSE list[Len(list)]
  IN  nonempty(c) =>
        /\ head(c) = end(0) /\ mextract(c) = end(0) /\ last(c) = end(1)
        /\ mextract(mfoldMap(Singles, c)) = list
=============================================================================
