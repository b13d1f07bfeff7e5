------------------------------ MODULE MaxArray ------------------------------
(***************************************************************************)
(* adt/maxarray.hpp, an array of N elements of which the first are used,   *)
(* as a container of fun/maxarray.hpp.  A maxarray is the sequence of the  *)
(* elements that are used.  Where the code is that of fun/vector.hpp, the  *)
(* operators of Vector are taken.                                          *)
(***************************************************************************)
EXTENDS Calls

CONSTANT N

V == INSTANCE Vector

traits == [min |-> 0, max |-> N]

\* The constructor asserts that the elements fit, so do resize and push_back.
fits(n) == n <= N

iotaMap(inds) == Indices(inds)
iotaMap_ok(inds) == fits(shape(inds))

\* One dimension only.
iotaMapMulti(inds) == V!iotaMapMulti(inds)

fmap(f, xs) == [i \in DOMAIN xs |-> f[xs[i]]]

same_size(xs, ys) == Len(ys) = Len(xs)

fmap2(xs, ys) == V!fmap2(xs, ys)

fmapStencil(g, xs, bmask, bm, bp) == V!fmapStencil(g, xs, bmask, bm, bp)

\* The boundaries are idtypes.
fmapStencilMulti(g, xs, bmask, bm, bp) == fmapStencil(g, xs, bmask, bm[1], bp[1])

nonempty(xs) == xs # <<>>

head(xs) == xs[1]

last(xs) == xs[Len(xs)]

\* An idtype.
boundary(xs, i) == <<IF i = 0 THEN head(xs) ELSE last(xs)>>

boundaryMap(f, xs, i) == <<f[boundary(xs, i)[1], i]>>

foldMap(f, xs) == FlattenSeq(fmap(f, xs))

foldMap2(f, xs, ys) == FlattenSeq([i \in DOMAIN xs |-> f[xs[i], ys[i]]])

munit(x) == <<x>>

\* What an element is that was never written: whatever the memory holds,
\* which is why no function changes it.
unset == -1

\* Every inner array is copied to rs.end(), which is the begin of rs until
\* rs is resized after the loop; so each is written over the one before.
mjoin(xss) ==
  LET s == FoldLeft(LAMBDA n, xs : n + Len(xs), 0, xss)
      over(rs, xs) == xs \o SubSeq(rs, Len(xs) + 1, N)
  IN  SubSeq(FoldLeft(over, [i \in 1 .. N |-> unset], xss), 1, s)

\* The assert of resize.
mjoin_ok(xss) == fits(Len(FlattenSeq(xss)))

mbind(f, xs) == mjoin(fmap(f, xs))

mextract(xs) == xs[1]

mfoldMap(f, xs) == munit(foldMap(f, xs))

mzero == <<>>

mplus(xs, yss) == xs \o FlattenSeq(yss)
mplus_ok(xs, yss) == fits(Len(mplus(xs, yss)))

msome(x, ys) == <<x>> \o ys

mempty(xs) == xs = <<>>

msize(xs) == Len(xs)

make(ys) == IF ys = <<>> THEN mzero ELSE msome(ys[1], Tail(ys))

VARIABLE c
M == INSTANCE Monad

Zero == c' = mzero

Plus == c' \in Sums(c, make, mplus_ok, mplus)

Init == M!Init

\* mbind writes one element over another.
Overwrites == \E k \in 0 .. 2 :
  LET f == M!kleisli(k)
  IN  /\ mjoin_ok(fmap(f, c))
      /\ \E i, j \in DOMAIN c : i # j /\ f[c[i]] # <<>> /\ f[c[j]] # <<>>
      /\ c' = mbind(f, c)

Next == M!Build \/ M!Map \/ M!Unit \/ M!Bind \/ Zero \/ Plus

-----------------------------------------------------------------------------
\* Where nothing is asserted the ends are those of the list.
Ends ==
  LET list == M!elements(c)
      end(i) == IF i = 0 THEN list[1] ELSE list[Len(list)]
  IN  nonempty(c) =>
        /\ head(c) = end(0) /\ mextract(c) = end(0) /\ last(c) = end(1)
        /\ \A i \in 0 .. 1 : boundaryMap(Directed, c, i) = <<<<end(i), i>>>>
        /\ mextract(mfoldMap(Singles, c)) = list

\* The stencils are those of the list.
Stencil == \A m \in Masks :
  LET stencil == ListStencil(M!elements(c), m, outside, outside)
  IN  /\ fmapStencil(Directed, c, m, outside, outside) = stencil
      /\ fmapStencilMulti(Directed, c, m, <<outside>>, <<outside>>) = stencil

\* The laws hold exactly where mjoin has nothing to write over: not for two
\* elements or more, of which the last is all that mbind with munit leaves.
Laws == M!Laws <=> Len(c) <= 1 \/ Range(c) = {unset}
=============================================================================
