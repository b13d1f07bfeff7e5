---------------------------- MODULE SharedFuture ----------------------------
(***************************************************************************)
(* shared_future as a container of fun/shared_future.hpp, of exactly one   *)
(* element.  Every operation is an async, then or unwrap of Async, which   *)
(* says when a future is ready; here a future is the sequence of the value *)
(* it will have, empty if it is not valid.                                 *)
(***************************************************************************)
EXTENDS Calls

traits == [min |-> 1, max |-> 1]

is_valid(xs) == xs # <<>>
get(xs) == xs[1]

iotaMap(inds) == IF shape(inds) = 0 THEN <<>> ELSE <<at(inds, 0)>>
iotaMap_ok(inds) == shape(inds) <= 1

fmap(f, xs) == IF is_valid(xs) THEN <<f[get(xs)]>> ELSE <<>>

same_size(xs, ys) == is_valid(ys) = is_valid(xs)

fmap2(xs, ys) == IF is_valid(xs) THEN <<<<get(xs), get(ys)>>>> ELSE <<>>

\* A future has no neighbours: mask and boundaries go to the one element.
fmapStencil(xs, bmask, bm, bp) == IF is_valid(xs) THEN <<<<get(xs), bmask, bm, bp>>>> ELSE <<>>

fmapStencilMulti(xs, bmask, bm0, bp0) ==
  IF is_valid(xs) THEN <<<<get(xs), bmask, get(bm0), get(bp0)>>>> ELSE <<>>

boundary(xs, i) == xs

boundaryMap(f, xs, i) == IF is_valid(xs) THEN <<f[get(xs), i]>> ELSE <<>>

head(xs) == get(xs)

last(xs) == get(xs)

foldMap(f, xs) == IF is_valid(xs) THEN f[get(xs)] ELSE <<>>

foldMap2(f, xs, ys) == IF is_valid(xs) THEN f[get(xs), get(ys)] ELSE <<>>

munit(x) == <<x>>

\* unwrap() gets the inner future, and then its value.
mjoin(xss) == <<get(get(xss))>>
mjoin_ok(xss) == is_valid(xss) /\ is_valid(get(xss))

mbind(f, xs) == mjoin(fmap(f, xs))

mextract(xs) == get(xs)

mfoldMap(f, xs) == <<foldMap(f, xs)>>

mempty(xs) == ~ is_valid(xs)

msize(xs) == IF mempty(xs) THEN 0 ELSE 1

make(ys) == munit(ys[1])

VARIABLE c
M == INSTANCE Monad

Init == M!Init

Next == M!Build \/ M!Map \/ M!Unit \/ M!Bind

\* The boundary is the future itself.
Side == \E i \in 0 .. 1 : c' = boundary(c, i)

-----------------------------------------------------------------------------
\* A future that a program can have is valid, and gives its element to every
\* query; as a stencil sees it, it is at both ends.
Ends ==
  LET list == M!elements(c)
  IN  /\ mextract(c) = list[1] /\ head(c) = list[1] /\ last(c) = list[1]
      /\ mextract(mfoldMap(Singles, c)) = list
      /\ \A i \in 0 .. 1 : boundaryMap(Directed, c, i) = <<<<list[1], i>>>>

Stencil == \A m \in Masks :
  LET stencil == ListStencil(M!elements(c), m, outside, outside)
  IN  /\ fmapStencil(c, m, outside, outside) = stencil
      /\ fmapStencilMulti(c, m, munit(outside), munit(outside)) = stencil
=============================================================================
