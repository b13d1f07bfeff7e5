------------------------------- MODULE Array -------------------------------
(***************************************************************************)
(* std::array<T, N> as a container of fun/array.hpp: it always has N       *)
(* elements.  An array is the sequence of them.  Where the code is that of *)
(* fun/vector.hpp, the operators of Vector are taken.                      *)
(***************************************************************************)
EXTENDS Calls

CONSTANT N

V == INSTANCE Vector

traits == [min |-> N, max |-> N]

iotaMap(inds) == Indices(inds)
iotaMap_ok(inds) == shape(inds) = N

\* One dimension only.
iotaMapMulti(inds) == V!iotaMapMulti(inds)

fmap(f, xs) == [i \in 1 .. N |-> f[xs[i]]]

same_size(xs, ys) == Len(ys) = N

fmap2(xs, ys) == [i \in 1 .. N |-> <<xs[i], ys[i]>>]

fmapStencil(g, xs, bmask, bm, bp) == V!fmapStencil(g, xs, bmask, bm, bp)

\* The boundaries are idtypes.
fmapStencilMulti(g, xs, bmask, bm, bp) == fmapStencil(g, xs, bmask, bm[1], bp[1])

head(xs) == xs[1]

last(xs) == xs[N]

\* An idtype.
boundary(xs, i) == <<IF i = 0 THEN head(xs) ELSE last(xs)>>

boundaryMap(f, xs, i) == <<f[boundary(xs, i)[1], i]>>

foldMap(f, xs) == FlattenSeq(fmap(f, xs))

foldMap2(f, xs, ys) == FlattenSeq([i \in 1 .. N |-> f[xs[i], ys[i]]])

\* An array is filled with copies.
munit(x) == [i \in 1 .. N |-> x]

\* What comes from the other elements is dropped.
mjoin(xss) == xss[1]

mbind(f, xs) == mjoin(fmap(f, xs))

mextract(xs) == xs[1]

mfoldMap(f, xs) == munit(foldMap(f, xs))

mempty(xs) == N = 0

msize(xs) == N

\* An initializer list.
make(ys) == ys

mjoin_ok(xss) == TRUE

VARIABLE c
M == INSTANCE Monad

Init == M!Init

Next == M!Build \/ M!Map \/ M!Unit \/ M!Bind

-----------------------------------------------------------------------------
\* Where nothing is asserted the ends are those of the list.
Ends ==
  LET list == M!elements(c)
      end(i) == IF i = 0 THEN list[1] ELSE list[Len(list)]
  IN  N > 0 =>
        /\ head(c) = end(0) /\ mextract(c) = end(0) /\ last(c) = end(1)
        /\ \A i \in 0 .. 1 : boundaryMap(Directed, c, i) = <<<<end(i), i>>>>
        /\ mextract(mfoldMap(Singles, c)) = list

\* The stencils are those of the list.
Stencil == \A m \in Masks :
  LET stencil == ListStencil(M!elements(c), m, outside, outside)
  IN  /\ fmapStencil(Directed, c, m, outside, outside) = stencil
      /\ fmapStencilMulti(Directed, c, m, <<outside>>, <<outside>>) = stencil

\* The laws hold exactly where mbind loses nothing: mbind with munit leaves
\* the first element, in every place.
Laws == M!Laws <=> \A x, y \in Range(c) : x = y
=============================================================================
