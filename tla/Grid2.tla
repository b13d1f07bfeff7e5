------------------------------- MODULE Grid2 -------------------------------
(***************************************************************************)
(* adt/grid2_impl.hpp, the other array in D dimensions, with the ranges    *)
(* and spaces of adt/index.hpp, as a container of fun/grid2_impl.hpp; its  *)
(* data are a vector.  Its points keep their indices, and a boundary is a  *)
(* view of all the data that keeps its dimensions.                         *)
(***************************************************************************)
EXTENDS Calls, FiniteSets

V == INSTANCE Vector

\* range_t, the indices of a box; bounds are sequences.
range(imin, imax) == [imin |-> imin, imax |-> imax]

extent(r) == [d \in DOMAIN r.imin |-> IF r.imax[d] > r.imin[d] THEN r.imax[d] - r.imin[d] ELSE 0]

range_size(r) == prod(extent(r))

range_empty(r) == \E d \in DOMAIN r.imin : r.imax[d] <= r.imin[d]

\* The lower (f = 0) or the upper end of dimension d, or what is beyond it.
range_side(r, f, d, outer) ==
  LET lo == IF f = 0 THEN IF outer THEN r.imin[d] - 1 ELSE r.imin[d]
                     ELSE IF outer THEN r.imax[d] ELSE r.imax[d] - 1
  IN  range([r.imin EXCEPT ![d] = lo], [r.imax EXCEPT ![d] = lo + 1])

same_range(r, s) == (range_empty(r) /\ range_empty(s)) \/ (~ range_empty(r) /\ ~ range_empty(s) /\ r = s)

\* The indices in the order of loop: the first dimension is the innermost.
loop(r) ==
  LET e == extent(r)
  IN  [n \in 1 .. range_size(r) |->
         [d \in DOMAIN e |-> r.imin[d] + (((n - 1) \div prod(SubSeq(e, 1, d - 1))) % e[d])]]

\* What loop_bnd tells of an index: whether it is at side f of dimension d.
\* In every dimension there is a first, a last and a middle part, or only
\* one index, which is both.
isbnd(r, i, f, d) ==
  LET only == r.imin[d] = r.imax[d] - 1
  IN  only \/ IF f = 0 THEN i[d] = r.imin[d] ELSE i[d] = r.imax[d] - 1

\* space_t: the indices that have data, and those in use.
space(alloc, act) == [allocated |-> alloc, active |-> act]

space_ok(s) ==
  range_empty(s.active) \/
    \A d \in DOMAIN s.active.imin :
      s.active.imin[d] >= s.allocated.imin[d] /\ s.active.imax[d] <= s.allocated.imax[d]

\* Dimension by dimension, the last one first.
linear(s, i) ==
  LET n(d) == s.allocated.imax[d] - s.allocated.imin[d]
  IN  FoldRight(LAMBDA d, lin : lin * n(d) + (i[d] - s.allocated.imin[d]),
                [d \in DOMAIN i |-> d], 0)

linear_ok(s, i) == \A d \in DOMAIN i : i[d] >= s.active.imin[d] /\ i[d] < s.active.imax[d]

space_side(s, f, d) == space(s.allocated, range_side(s.active, f, d, FALSE))

-----------------------------------------------------------------------------
\* Grids.
grid2(s, data) == [space |-> s, data |-> data]

active(xs) == xs.space.active

getIndex(xs, i) == xs.data[linear(xs.space, i) + 1]

\* What an element is before it is set.
unset == -1

Positions(xs) == Range(loop(active(xs)))

\* A new grid of some range: every result is stored at its place.
make(r, f) ==
  LET s == space(r, r)
      store(acc, i) == [acc EXCEPT ![linear(s, i) + 1] = f[i]]
  IN  grid2(s, FoldLeft(store, [n \in 1 .. range_size(r) |-> unset], loop(r)))

\* f is called with the indices of the range.
iotaMap(f, r) == make(r, f)

\* The range of one dimension may not have a step.
iotaMap1(inds) ==
  iotaMap([i \in {<<n>> : n \in Range(Indices(inds))} |-> i[1]], range(<<inds.imin>>, <<inds.imax>>))
iotaMap1_ok(inds) == inds.istep = 1

fmap(f, xs) == make(active(xs), [i \in Positions(xs) |-> f[getIndex(xs, i)]])

same_size(xs, ys) == same_range(active(ys), active(xs))

fmap2(xs, ys) == make(active(xs), [i \in Positions(xs) |-> <<getIndex(xs, i), getIndex(ys, i)>>])

fmap3(xs, ys, zs) ==
  make(active(xs), [i \in Positions(xs) |-> <<getIndex(xs, i), getIndex(ys, i), getIndex(zs, i)>>])

head(xs) == getIndex(xs, active(xs).imin)

last(xs) == getIndex(xs, [d \in DOMAIN active(xs).imax |-> active(xs).imax[d] - 1])

boundary(xs, f, d) == grid2(space_side(xs.space, f, d), xs.data)

boundary_ok(xs, f, d) == ~ range_empty(active(xs)) /\ f \in 0 .. 1 /\ d \in DOMAIN active(xs).imin

\* Every element sees its neighbours through g; those beyond the sides are
\* in grids of their own, bss.
fmapStencil(g, xs, bss) ==
  LET seen(i, f, d) ==
        LET j == [i EXCEPT ![d] = IF f = 0 THEN @ - 1 ELSE @ + 1]
        IN  IF isbnd(active(xs), i, f, d) THEN getIndex(bss[f, d], j) ELSE g[getIndex(xs, j), f, d]
  IN  make(active(xs),
           [i \in Positions(xs) |->
              <<getIndex(xs, i), [f \in 0 .. 1, d \in DOMAIN i |-> seen(i, f, d)]>>])

\* Its asserts: the grids of the sides are where they should be.
stencil_ok(xs, bss) ==
  /\ active(xs).imin # <<>> => ~ range_empty(active(xs))
  /\ \A f \in 0 .. 1, d \in DOMAIN active(xs).imin :
       same_range(active(bss[f, d]), range_side(active(xs), f, d, TRUE))
  /\ \A i \in Positions(xs), f \in 0 .. 1 : \A d \in DOMAIN i :
       LET j == [i EXCEPT ![d] = IF f = 0 THEN @ - 1 ELSE @ + 1]
       IN  IF isbnd(active(xs), i, f, d) THEN linear_ok(bss[f, d].space, j)
                                         ELSE linear_ok(xs.space, j)

foldMap(f, xs) == FoldLeft(LAMBDA r, i : r \o f[getIndex(xs, i)], <<>>, loop(active(xs)))

foldMap2(f, xs, ys) ==
  FoldLeft(LAMBDA r, i : r \o f[getIndex(xs, i), getIndex(ys, i)], <<>>, loop(active(xs)))

-----------------------------------------------------------------------------
\* The program.
VARIABLE c

Flush(box) == \A d \in DOMAIN box.istep : box.istep[d] = 1

Built(box) == iotaMap([i \in MultiIndices(box) |-> Number(i)], range(box.imin, box.imax))

Init == \E box \in Boxes : Flush(box) /\ c = Built(box)

Build == \E box \in Boxes : Flush(box) /\ c' = Built(box)

Map == c' = fmap(Twist, c)

Side == \E f \in 0 .. 1 : \E d \in DOMAIN active(c).imin :
  boundary_ok(c, f, d) /\ c' = boundary(c, f, d)

Next == Build \/ Map \/ Side

-----------------------------------------------------------------------------
\* The function from indices to elements that a grid is.
field == [i \in Positions(c) |-> getIndex(c, i)]

\* The asserts of the constructors and of linear hold, also for views of
\* views, and no two indices are at the same place.
Sized ==
  /\ space_ok(c.space) /\ V!msize(c.data) = range_size(c.space.allocated)
  /\ \A i \in Positions(c) : linear_ok(c.space, i) /\ linear(c.space, i) \in 0 .. Len(c.data) - 1
  /\ \A i, j \in Positions(c) : linear(c.space, i) = linear(c.space, j) => i = j

Ends ==
  ~ range_empty(active(c)) =>
    LET list == foldMap(Singles, c)
    IN  head(c) = list[1] /\ last(c) = list[Len(list)]

Zips ==
  LET d == fmap(Twist, c)
      single == [p \in Element \X Element |-> <<p>>]
      pairs == [n \in 1 .. range_size(active(c)) |->
                  LET i == loop(active(c))[n] IN <<field[i], Twist[field[i]]>>]
  IN  /\ same_size(c, d)
      /\ foldMap(single, fmap2(c, d)) = pairs
      /\ foldMap2([x \in Element, y \in Element |-> <<<<x, y>>>>], c, d) = pairs

\* Whether an index is in the grid, in a view or beyond, its neighbours are
\* those with the next indices.  Beyond the sides are grids that tell their
\* indices.
Stencil ==
  LET r == active(c)
      g == [x \in Element, f \in 0 .. 1, d \in DOMAIN r.imin |-> <<x>>]
      beyond(f, d) == range_side(r, f, d, TRUE)
      bss == [f \in 0 .. 1, d \in DOMAIN r.imin |->
                make(beyond(f, d), [i \in Range(loop(beyond(f, d))) |-> <<-1>> \o i])]
      ys == fmapStencil(g, c, bss)
      neighbour(i, f, d) ==
        LET j == [i EXCEPT ![d] = IF f = 0 THEN @ - 1 ELSE @ + 1]
        IN  IF j \in Positions(c) THEN <<field[j]>> ELSE <<-1>> \o j
  IN  ~ range_empty(r) =>
        /\ stencil_ok(c, bss)
        /\ \A i \in Positions(c) :
             getIndex(ys, i) =
               <<field[i], [f \in 0 .. 1, d \in DOMAIN i |-> neighbour(i, f, d)]>>
=============================================================================
