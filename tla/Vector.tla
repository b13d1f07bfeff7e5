------------------------------- MODULE Vector -------------------------------
(***************************************************************************)
(* std::vector as a container of fun/vector.hpp.  A vector is a sequence;  *)
(* its size is unlimited.  What the code asserts of an argument is an      *)
(* operator of its own (nonempty, same_size), for a caller to check before *)
(* it uses the result.  A mask of boundary directions (bmask) is the set   *)
(* of its bits: 0 for the lower, 1 for the upper boundary.                 *)
(*                                                                         *)
(* The function given to fmap or foldMap is a function.  iotaMap, fmap2    *)
(* and the stencils call theirs with indices or several arguments: their   *)
(* result here is the vector of the arguments of every call, for the       *)
(* caller to map.  Folds are taken in the free monoid, concatenation.      *)
(***************************************************************************)
EXTENDS Index

traits == [min |-> 0, max |-> -1]

nonempty(xs) == xs # <<>>

same_size(xs, ys) == Len(xs) = Len(ys)

iotaMap(inds) == Indices(inds)

\* One dimension only; the function takes an index of dimension 1.
iotaMapMulti(inds) ==
  LET is == iotaMap(irange(inds.imin[1], inds.imax[1], inds.istep[1]))
  IN  [k \in DOMAIN is |-> <<is[k]>>]

fmap(f, xs) == [i \in DOMAIN xs |-> f[xs[i]]]

fmap2(xs, ys) == [i \in DOMAIN xs |-> <<xs[i], ys[i]>>]

\* Every element sees its neighbours through g; the first and the last see
\* the given boundary, and the bit of the mask of their side.
fmapStencil(g, xs, bmask, bm, bp) ==
  LET s == Len(xs)
      Mask(i) == bmask \cap ((IF i = 1 THEN {0} ELSE {}) \cup (IF i = s THEN {1} ELSE {}))
  IN  [i \in DOMAIN xs |->
         <<xs[i], Mask(i),
           IF i = 1 THEN bm ELSE g[xs[i - 1], 1],
           IF i = s THEN bp ELSE g[xs[i + 1], 0]>>]

head(xs) == xs[1]

last(xs) == xs[Len(xs)]

munit(x) == <<x>>

\* The boundary of a vector is an idtype, a container of exactly one element.
boundary(xs, i) == munit(IF i = 0 THEN head(xs) ELSE last(xs))

boundaryMap(f, xs, i) == munit(f[head(boundary(xs, i)), i])

\* The variant for one dimension takes its boundaries as idtypes.
fmapStencilMulti(g, xs, bmask, bm, bp) ==
  fmapStencil(g, xs, bmask, head(bm), head(bp))

foldMap(f, xs) == FlattenSeq(fmap(f, xs))

foldMap2(f, xs, ys) == FlattenSeq(fmap(f, fmap2(xs, ys)))

\* Mutant: every inner vector is inserted at the begin.
mjoin_begin(xss) == FlattenSeq(Reverse(xss))

mjoin(xss) == FlattenSeq(xss)

mbind(f, xs) == mjoin(fmap(f, xs))

mextract(xs) == xs[1]

mfoldMap(f, xs) == munit(foldMap(f, xs))

mzero == <<>>

\* xs is the first argument, yss the others.
mplus(xs, yss) == xs \o FlattenSeq(yss)

msome(x, ys) == <<x>> \o ys

mempty(xs) == ~ nonempty(xs)

msize(xs) == Len(xs)
=============================================================================
