----------------------------- MODULE SharedPtr -----------------------------
(***************************************************************************)
(* std::shared_ptr as a container of fun/shared_ptr.hpp: it holds at most  *)
(* one element.  A null pointer is the empty sequence, any other pointer   *)
(* the sequence of the object it points to.  set and same_size are what    *)
(* the code asserts of its arguments.  Functions are handed in as in       *)
(* Vector.                                                                 *)
(***************************************************************************)
EXTENDS Index

traits == [min |-> 0, max |-> 1]

set(xs) == xs # <<>>

same_size(xs, ys) == set(xs) = set(ys)

iotaMap(inds) == IF shape(inds) = 0 THEN <<>> ELSE <<at(inds, 0)>>

iotaMapMulti(inds) == IF multi_size(inds) = 0 THEN <<>> ELSE <<inds.imin>>

fmap(f, xs) == IF set(xs) THEN <<f[xs[1]]>> ELSE <<>>

fmap2(xs, ys) == IF set(xs) THEN <<<<xs[1], ys[1]>>>> ELSE <<>>

\* A pointer has no neighbours: mask and boundaries go to the one element.
fmapStencil(xs, bmask, bm, bp) ==
  IF set(xs) THEN <<<<xs[1], bmask, bm, bp>>>> ELSE <<>>

fmapStencilMulti(xs, bmask, bm0, bp0) ==
  IF set(xs) THEN <<<<xs[1], bmask, bm0[1], bp0[1]>>>> ELSE <<>>

head(xs) == xs[1]

last(xs) == xs[1]

boundary(xs, i) == xs

boundaryMap(f, xs, i) == IF set(xs) THEN <<f[xs[1], i]>> ELSE <<>>

foldMap(f, xs) == IF set(xs) THEN f[xs[1]] ELSE <<>>

foldMap2(f, xs, ys) == IF set(xs) THEN f[xs[1], ys[1]] ELSE <<>>

munit(x) == <<x>>

\* Not by way of mjoin.
mbind(f, xs) == IF set(xs) THEN f[xs[1]] ELSE <<>>

mjoin(xss) == IF ~ set(xss) \/ ~ set(xss[1]) THEN <<>> ELSE xss[1]

mextract(xs) == xs[1]

mfoldMap(f, xs) == munit(foldMap(f, xs))

mzero == <<>>

\* The first pointer that is not null.
mplus(xs, yss) ==
  IF set(xs) THEN xs
  ELSE LET full == SelectSeq(yss, set) IN IF full = <<>> THEN <<>> ELSE full[1]

\* Only the first argument is used.
msome(x, ys) == munit(x)

mempty(xs) == ~ set(xs)

msize(xs) == IF mempty(xs) THEN 0 ELSE 1
=============================================================================
