-------------------------------- MODULE Grid --------------------------------
(***************************************************************************)
(* adt/grid_impl.hpp, an array in D dimensions, as a container of          *)
(* fun/grid_impl.hpp; its data are a vector.  A grid is its index space    *)
(* and its data.  A boundary keeps all the data and is a view of them,     *)
(* with a dimension less.                                                  *)
(*                                                                         *)
(* Dimensions count from 0, so that dimension d of an index i is i[d + 1], *)
(* and so do positions and the data's linear indices.                      *)
(***************************************************************************)
EXTENDS Calls, FiniteSets

V == INSTANCE Vector

\* The rank D of an index space.
rank(is) == Len(is.shape)

-----------------------------------------------------------------------------
\* Index spaces.
make_stride(shape0) == [d \in DOMAIN shape0 |-> prod(SubSeq(shape0, 1, d))]

\* A whole array: its offset is zero and all its points are allocated.
index_space(shape0) ==
  [shape |-> shape0, offset |-> 0, stride0 |-> 1, stride |-> make_stride(shape0),
   allocated |-> prod(shape0)]

size(is) == prod(is.shape)

stride(is, d) ==
  IF d > 0 THEN is.stride[d]
           ELSE IF rank(is) = 0 THEN is.stride0 ELSE Least(is.stride0, is.stride[1])

offset(is) == [k \in DOMAIN is.shape |->
  IF stride(is, k - 1) = 0 \/ stride(is, k) = 0
    THEN 0 ELSE (is.offset \div stride(is, k - 1)) % stride(is, k)]

allocated(is) == [k \in DOMAIN is.shape |->
  IF stride(is, k - 1) = 0 THEN 0 ELSE stride(is, k) \div stride(is, k - 1)]

\* What the constructors assert.
invariant(is) ==
  LET off == offset(is)
      alloc == allocated(is)
  IN  /\ \A d \in DOMAIN is.shape : is.shape[d] >= 0 /\ off[d] >= 0 /\ is.stride[d] >= 0
      /\ is.offset >= 0 /\ is.stride0 >= 0 /\ is.allocated >= 0
      /\ \A d \in 0 .. rank(is) - 1 :
           stride(is, d) > 0 => stride(is, d + 1) % stride(is, d) = 0
      /\ is.offset + size(is) <= is.allocated
      /\ \A d \in DOMAIN is.shape : alloc[d] >= 0 /\ off[d] + is.shape[d] <= alloc[d]

\* The place of an index in the data; linear_ok are its asserts.
linear(is, i) ==
  LET lin[d \in 0 .. Len(i)] ==
        IF d = 0 THEN is.offset ELSE lin[d - 1] + i[d] * stride(is, d - 1)
  IN  lin[Len(i)]

linear_ok(is, i) ==
  (\A k \in DOMAIN i : i[k] >= 0 /\ i[k] < is.shape[k]) /\ linear(is, i) < is.allocated

rmdir(xs, d) == RemoveAt(xs, d + 1)

side_ok(is, i) ==
  LET off == [k \in DOMAIN is.shape |->
                IF k = i \div 2 + 1 /\ i % 2 # 0 THEN is.shape[k] - 1 ELSE 0]
  IN  i \in 0 .. 2 * rank(is) - 1 /\ linear_ok(is, off)

\* The lower (f = 0) or the upper end of dimension d.
side(is, i) ==
  LET f == i % 2
      d == i \div 2
      off == [k \in DOMAIN is.shape |-> IF k = d + 1 /\ f # 0 THEN is.shape[k] - 1 ELSE 0]
  IN  [shape |-> rmdir(is.shape, d),
       offset |-> linear(is, off),
       stride0 |-> IF d = 0 THEN is.stride[1] ELSE is.stride0,
       stride |-> rmdir(is.stride, IF d = 0 THEN 0 ELSE d - 1),
       allocated |-> is.allocated]

\* The indices in the order of loop: dimension 0 is the innermost.
loop(is) == [n \in 1 .. size(is) |->
  [k \in DOMAIN is.shape |-> ((n - 1) \div prod(SubSeq(is.shape, 1, k - 1))) % is.shape[k]]]

-----------------------------------------------------------------------------
\* Grids.
grid(is, data) == [indexing |-> is, data |-> data]

shape_of(xs) == xs.indexing.shape

getIndex(xs, i) == xs.data[linear(xs.indexing, i) + 1]

\* What an element is before it is set.
unset == -1

\* A new grid of some shape: all calls of f in order, each result stored at
\* its place.
make(shape0, f) ==
  LET is == index_space(shape0)
      calls == loop(is)
      stored[n \in 0 .. size(is)] ==
        IF n = 0 THEN [m \in 1 .. size(is) |-> unset]
        ELSE [stored[n - 1] EXCEPT ![linear(is, calls[n]) + 1] = f[calls[n]]]
  IN  grid(is, stored[size(is)])

Positions(xs) == Range(loop(xs.indexing))

\* In no dimension and in one.
iotaMap0(inds) == grid(index_space(<<>>), V!iotaMap(inds))
iotaMap1(inds) == grid(index_space(<<shape(inds)>>), V!iotaMap(inds))

\* f is called with the position, whatever the bounds and steps of inds.
iotaMapMulti(f, inds) == make(multi_shape(inds), f)

fmap(f, xs) == make(shape_of(xs), [i \in Positions(xs) |-> f[getIndex(xs, i)]])

same_size(xs, ys) == shape_of(ys) = shape_of(xs)

fmap2(xs, ys) == make(shape_of(xs), [i \in Positions(xs) |-> <<getIndex(xs, i), getIndex(ys, i)>>])

fmap3(xs, ys, zs) ==
  make(shape_of(xs),
       [i \in Positions(xs) |-> <<getIndex(xs, i), getIndex(ys, i), getIndex(zs, i)>>])

head_at(xs) == [k \in DOMAIN shape_of(xs) |-> 0]
last_at(xs) == [k \in DOMAIN shape_of(xs) |-> shape_of(xs)[k] - 1]

head(xs) == getIndex(xs, head_at(xs))

last(xs) == getIndex(xs, last_at(xs))

boundary(xs, i) == grid(side(xs.indexing, i), xs.data)

boundaryMap(f, xs, i) ==
  LET bs == boundary(xs, i) IN fmap([x \in Range(bs.data) |-> f[x, i]], bs)

\* Without dimensions there are no neighbours and no mask.
fmapStencilMulti0(xs) == make(<<>>, [i \in Positions(xs) |-> <<getIndex(xs, i), {}>>])

\* In one dimension.  di is the place of the second element, although an
\* index is added to it.
step1(xs) == linear(xs.indexing, <<1>>)

fmapStencilMulti1(g, xs, bmask, bm0, bp0) ==
  LET n == shape_of(xs)[1]
      di == step1(xs)
      stencil(i) ==
        <<getIndex(xs, i),
          bmask \cap ((IF i[1] = 0 THEN {0} ELSE {}) \cup (IF i[1] = n - 1 THEN {1} ELSE {})),
          IF i[1] = 0 THEN getIndex(bm0, rmdir(i, 0)) ELSE g[getIndex(xs, <<i[1] - di>>), 1],
          IF i[1] = n - 1 THEN getIndex(bp0, rmdir(i, 0)) ELSE g[getIndex(xs, <<i[1] + di>>), 0]>>
  IN  make(shape_of(xs), [i \in Positions(xs) |-> stencil(i)])

\* Its asserts: no index leaves its grid.
stencil1_ok(xs, bm0, bp0) ==
  LET n == shape_of(xs)[1]
      di == step1(xs)
  IN  /\ linear_ok(xs.indexing, <<1>>)
      /\ \A i \in 0 .. n - 1 :
           /\ i > 0 => linear_ok(xs.indexing, <<i - di>>)
           /\ i < n - 1 => linear_ok(xs.indexing, <<i + di>>)
      /\ linear_ok(bm0.indexing, <<>>) /\ linear_ok(bp0.indexing, <<>>)

\* In two dimensions: direction 2 * d + f is side f of dimension d.
fmapStencilMulti2(g, xs, bmask, bs) ==
  LET at_side(i, j) == i[j \div 2 + 1] = IF j % 2 = 0 THEN 0 ELSE shape_of(xs)[j \div 2 + 1] - 1
      next(i, j) == [i EXCEPT ![j \div 2 + 1] = IF j % 2 = 0 THEN @ - 1 ELSE @ + 1]
      back(j) == IF j % 2 = 0 THEN j + 1 ELSE j - 1
      seen(i, j) == IF at_side(i, j) THEN getIndex(bs[j], rmdir(i, j \div 2))
                                     ELSE g[getIndex(xs, next(i, j)), back(j)]
  IN  make(shape_of(xs),
           [i \in Positions(xs) |->
              <<getIndex(xs, i), {j \in bmask : at_side(i, j)}, [j \in 0 .. 3 |-> seen(i, j)]>>])

foldMap(f, xs) ==
  FoldLeft(LAMBDA r, i : r \o f[getIndex(xs, i)], <<>>, loop(xs.indexing))

foldMap2(f, xs, ys) ==
  FoldLeft(LAMBDA r, i : r \o f[getIndex(xs, i), getIndex(ys, i)], <<>>, loop(xs.indexing))

munit(n, x) == grid(index_space([k \in 1 .. n |-> 1]), V!munit(x))

mextract(xs) == head(xs)

mfoldMap(f, xs) == munit(rank(xs.indexing), foldMap(f, xs))

mzero(n) == grid(index_space([k \in 1 .. n |-> 0]), [k \in 1 .. IF n = 0 THEN 1 ELSE 0 |-> unset])

mempty(xs) == size(xs.indexing) = 0

msize(xs) == size(xs.indexing)

-----------------------------------------------------------------------------
\* The program.
VARIABLE c

\* The function is called with positions, which are the indices of a box
\* only if that begins at zero and has no gaps.
Whole(box) == box = [box EXCEPT !.imin = [d \in DOMAIN @ |-> 0], !.istep = [d \in DOMAIN @ |-> 1]]

Built(box) == iotaMapMulti([i \in MultiIndices(box) |-> Number(i)], box)

Init == \E box \in Boxes : Whole(box) /\ c = Built(box)

Build == \E box \in Boxes : Whole(box) /\ c' = Built(box)

\* iotaMap hands the indices themselves to the function.
Iota ==
  \/ \E inds \in Ranges : c' = iotaMap1(inds)
  \/ \E inds \in Ranges : shape(inds) = 1 /\ c' = iotaMap0(inds)

Unit == \E n \in 0 .. 2 : \E inds \in Ranges : shape(inds) = 1 /\ c' = munit(n, at(inds, 0))

Zero == \E n \in 1 .. 2 : c' = mzero(n)

Map == c' = fmap(Twist, c)

Side == \E i \in 0 .. 2 * rank(c.indexing) - 1 :
  side_ok(c.indexing, i) /\ c' = boundary(c, i)

Next == Build \/ Iota \/ Unit \/ Zero \/ Map \/ Side

-----------------------------------------------------------------------------
\* The function from positions to elements that a grid is.
field == [i \in Positions(c) |-> getIndex(c, i)]

\* The asserts of linear hold, and no two points are at the same place of
\* the data.
Apart ==
  LET is == c.indexing
  IN  /\ is.allocated = V!msize(c.data)
      /\ Cardinality(Positions(c)) = size(is)
      /\ \A i \in Positions(c) : linear_ok(is, i)
      /\ \A i, j \in Positions(c) : linear(is, i) = linear(is, j) => i = j
      /\ \A d \in DOMAIN is.shape, f \in 0 .. 1 : ~ mempty(c) => side_ok(is, 2 * d - 2 + f)

\* So do those of the constructors, up to three dimensions also for views of
\* views.
Sized == invariant(c.indexing) /\ Apart

Ends ==
  ~ mempty(c) =>
    /\ head(c) = field[head_at(c)] /\ mextract(c) = head(c)
    /\ last(c) = field[last_at(c)]
    /\ mextract(mfoldMap(Singles, c)) = foldMap(Singles, c)

Zips ==
  LET d == fmap(Twist, c)
      single == [p \in Element \X Element |-> <<p>>]
      pairs == [n \in 1 .. msize(c) |-> LET i == loop(c.indexing)[n] IN <<field[i], Twist[field[i]]>>]
  IN  /\ same_size(c, d)
      /\ foldMap(single, fmap2(c, d)) = pairs
      /\ foldMap2([x \in Element, y \in Element |-> <<<<x, y>>>>], c, d) = pairs

\* The periodic stencil of the field: the boundaries are the far ends of the
\* grid itself.  That in one dimension meets an assert unless the grid has
\* two points or more and lies in its data without an offset or gaps.
Stencil ==
  LET g == [x \in Element, j \in 0 .. 3 |-> <<x, j>>]
      back(j) == IF j % 2 = 0 THEN j + 1 ELSE j - 1
      bs == [j \in 0 .. 2 * rank(c.indexing) - 1 |-> boundaryMap(g, c, back(j))]
      near(i, j) == [i EXCEPT ![j \div 2 + 1] =
                       (IF j % 2 = 0 THEN @ - 1 ELSE @ + 1) % shape_of(c)[j \div 2 + 1]]
      at_side(i, j) == near(i, j)[j \div 2 + 1] # i[j \div 2 + 1] + (IF j % 2 = 0 THEN -1 ELSE 1)
      seen(i, j) == g[field[near(i, j)], back(j)]
      is == c.indexing
  IN  ~ mempty(c) =>
        CASE rank(is) = 0 -> getIndex(fmapStencilMulti0(c), <<>>) = <<field[<<>>], {}>>
          [] rank(is) = 1 ->
               /\ is = index_space(is.shape) /\ size(is) > 1 => stencil1_ok(c, bs[0], bs[1])
               /\ stencil1_ok(c, bs[0], bs[1]) =>
                    \A m \in Masks : \A i \in Positions(c) :
                      getIndex(fmapStencilMulti1(g, c, m, bs[0], bs[1]), i) =
                        <<field[i], {j \in m : at_side(i, j)}, seen(i, 0), seen(i, 1)>>
          [] rank(is) = 2 ->
               \A m \in {{}, {1, 2}, 0 .. 3} : \A i \in Positions(c) :
                 getIndex(fmapStencilMulti2(g, c, m, bs), i) =
                   <<field[i], {j \in m : at_side(i, j)}, [j \in 0 .. 3 |-> seen(i, j)]>>
          [] OTHER -> TRUE
=============================================================================
