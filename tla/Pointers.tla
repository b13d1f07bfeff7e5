------------------------------ MODULE Pointers ------------------------------
(***************************************************************************)
(* A program that keeps an element, or none, behind a shared_ptr.          *)
(***************************************************************************)
EXTENDS Calls, SharedPtr

iotaMap_ok(inds) == shape(inds) <= 1

\* Nothing is asserted.
mjoin_ok(xss) == TRUE
mplus_ok(xs, yss) == TRUE

make(ys) == IF ys = <<>> THEN mzero ELSE msome(ys[1], Tail(ys))

VARIABLE c
M == INSTANCE Monad

Zero == c' = mzero

Plus == c' \in Sums(c, make, mplus_ok, mplus)

Init == M!Init

Next == M!Build \/ M!Map \/ M!Unit \/ M!Bind \/ Zero \/ Plus

\* The boundary is the pointer itself.
Side == \E i \in 0 .. 1 : c # <<>> /\ c' = boundary(c, i)

-----------------------------------------------------------------------------
\* The element that there is can be taken out, also after a fold, and is its
\* own boundary.
Ends ==
  LET list == M!elements(c)
  IN  set(c) =>
        /\ mextract(c) = list[1] /\ head(c) = list[1] /\ last(c) = list[1]
        /\ mextract(mfoldMap(Singles, c)) = list
        /\ \A i \in 0 .. 1 : boundaryMap(Directed, c, i) = <<<<list[1], i>>>>

\* One element is at both ends of the list.
Stencil == \A m \in Masks :
  LET stencil == ListStencil(M!elements(c), m, outside, outside)
      bm == IF set(c) THEN munit(outside) ELSE mzero
  IN  /\ fmapStencil(c, m, outside, outside) = stencil
      /\ fmapStencilMulti(c, m, bm, bm) = stencil
=============================================================================
