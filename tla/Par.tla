-------------------------------- MODULE Par --------------------------------
(***************************************************************************)
(* adt/par_impl.hpp, a container of one of two kinds, as a container of    *)
(* fun/par_impl.hpp; here a shared_ptr (left) or a vector (right), as in   *)
(* the tests.                                                              *)
(***************************************************************************)
EXTENDS Calls

A == INSTANCE SharedPtr
B == INSTANCE Vector

\* min_size and max_size; no maximum is the largest std::size_t.
traits ==
  [min |-> Least(A!traits.min, B!traits.min),
   max |-> IF A!traits.max = -1 \/ B!traits.max = -1 THEN -1
           ELSE -Least(-A!traits.max, -B!traits.max)]

make_left(xs) == [right |-> FALSE, data |-> xs]
make_right(xs) == [right |-> TRUE, data |-> xs]

\* The left kind is taken wherever it can hold as many elements.
iotaMap(inds) ==
  IF Fits(shape(inds), A!traits) THEN make_left(A!iotaMap(inds)) ELSE make_right(B!iotaMap(inds))
iotaMap_ok(inds) == TRUE

fmap(f, xs) ==
  IF xs.right THEN make_right(B!fmap(f, xs.data)) ELSE make_left(A!fmap(f, xs.data))

same_size(xs, ys) ==
  /\ ys.right = xs.right
  /\ IF xs.right THEN B!same_size(xs.data, ys.data) ELSE A!same_size(xs.data, ys.data)

fmap2(xs, ys) ==
  IF xs.right THEN make_right(B!fmap2(xs.data, ys.data)) ELSE make_left(A!fmap2(xs.data, ys.data))

head(xs) == IF xs.right THEN B!head(xs.data) ELSE A!head(xs.data)

last(xs) == IF xs.right THEN B!last(xs.data) ELSE A!last(xs.data)

\* What the asserts of head and last come to.
nonempty(xs) == IF xs.right THEN B!nonempty(xs.data) ELSE A!set(xs.data)

foldMap(f, xs) == IF xs.right THEN B!foldMap(f, xs.data) ELSE A!foldMap(f, xs.data)

foldMap2(f, xs, ys) ==
  IF xs.right THEN B!foldMap2(f, xs.data, ys.data) ELSE A!foldMap2(f, xs.data, ys.data)

munit(x) == IF Fits(1, A!traits) THEN make_left(A!munit(x)) ELSE make_right(B!munit(x))

mextract(xs) == head(xs)

mfoldMap(f, xs) == munit(foldMap(f, xs))

mzero == IF A!traits.min = 0 THEN make_left(A!mzero) ELSE make_right(B!mzero)

mempty(xs) == IF xs.right THEN xs.data = <<>> ELSE A!mempty(xs.data)

msize(xs) == IF xs.right THEN B!msize(xs.data) ELSE A!msize(xs.data)

VARIABLE c
F == INSTANCE Functor

Unit == \E inds \in Ranges : shape(inds) = 1 /\ c' = munit(at(inds, 0))

Zero == c' = mzero

Init == F!Init

Next == F!Build \/ F!Map \/ Unit \/ Zero

-----------------------------------------------------------------------------
\* Where nothing is asserted the ends are those of the list.
Ends ==
  LET list == F!elements(c)
      end(i) == IF i = 0 THEN list[1] ELSE list[Len(list)]
  IN  nonempty(c) =>
        /\ head(c) = end(0) /\ mextract(c) = end(0) /\ last(c) = end(1)
        /\ mextract(mfoldMap(Singles, c)) = list
=============================================================================
