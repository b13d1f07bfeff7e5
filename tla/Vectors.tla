------------------------------ MODULE Vectors ------------------------------
(***************************************************************************)
(* A program that keeps its data in a vector.                              *)
(***************************************************************************)
EXTENDS Calls, Vector

CONSTANT MaxSize    \* the most elements it makes (a bound)

\* Nothing is asserted of sizes, which only the program bounds.
iotaMap_ok(inds) == TRUE
mjoin_ok(xss) == Len(mjoin(xss)) <= MaxSize
mplus_ok(xs, yss) == Len(mplus(xs, yss)) <= MaxSize

make(ys) == IF ys = <<>> THEN mzero ELSE msome(ys[1], Tail(ys))

VARIABLE c
M == INSTANCE Monad

Zero == c' = mzero

Plus == c' \in Sums(c, make, mplus_ok, mplus)

Init == M!Init

Next == M!Build \/ M!Map \/ M!Unit \/ M!Bind \/ Zero \/ Plus

-----------------------------------------------------------------------------
\* Where nothing is asserted the ends are those of the list.
Ends ==
  LET list == M!elements(c)
      end(i) == IF i = 0 THEN list[1] ELSE list[Len(list)]
  IN  nonempty(c) =>
        /\ head(c) = end(0) /\ mextract(c) = end(0) /\ last(c) = end(1)
        /\ \A i \in 0 .. 1 : boundaryMap(Directed, c, i) = <<<<end(i), i>>>>
        /\ mextract(mfoldMap(Singles, c)) = list

\* The stencils are those of the list.
Stencil == \A m \in Masks :
  LET stencil == ListStencil(M!elements(c), m, outside, outside)
  IN  /\ fmapStencil(Directed, c, m, outside, outside) = stencil
      /\ fmapStencilMulti(Directed, c, m, munit(outside), munit(outside)) = stencil
=============================================================================
