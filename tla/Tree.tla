-------------------------------- MODULE Tree --------------------------------
(***************************************************************************)
(* tree<A> of fun/tree_impl.hpp, "Tree a = Leaf a | Branch (A (Tree a))",  *)
(* over A = nested<shared_ptr, vector>, the tree that the tests build.  A  *)
(* tree is an adt::either: left a leaf, right a container of trees.        *)
(*                                                                         *)
(* iotaMap maps the identity, so a tree holds the indices it was built     *)
(* from; fmap takes a function; the functions given to the stencils and to *)
(* foldMap are the free ones (a tuple of the arguments, concatenation),    *)
(* which any other function is an image of.  A branch is treated by the    *)
(* operation of its container, whose calls are mapped to subtrees.         *)
(*                                                                         *)
(* The state machine applies the operations of the library to one tree,    *)
(* one after another, as a program that keeps its data in a tree does.     *)
(***************************************************************************)
EXTENDS NestedSize, Calls, FiniteSets

CONSTANTS max_tree_size,    \* 16 in the code: the subtrees of one branch
          MaxSize, MaxDepth \* bounds of the model: no tree grows beyond them

ASSUME TreeAssumption ==
  /\ max_tree_size \in 2 .. nested_max_size
  /\ Twist \in [Element -> Element]

VARIABLES xs,     \* the tree
          built   \* how: "iotaMap" or "iotaMapMulti" (and then only fmap), "other"

vars == <<xs, built>>

S == INSTANCE Nested WITH xss <- xs

left(x) == [kind |-> "left", val |-> x]
right(sub) == [kind |-> "right", sub |-> sub]
is_left(t) == t.kind = "left"

\* The container of a branch, whose elements are the arguments of calls, with
\* the results of the calls in their place.
branch(f, calls) == right(S!fmap(f, calls))

\* The inner vector of a branch, empty if its pointer is null.
subtrees(t) == IF S!P!set(t.sub) THEN t.sub[1] ELSE <<>>

-----------------------------------------------------------------------------
\* Construction.
munit(x) == left(x)

mzero == right(S!mzero)

msome(x, ys) == right(S!msome(munit(x), [i \in DOMAIN ys |-> munit(ys[i])]))

mplus(t, us) == right(S!msome(t, us))

\* The scale of the subtrees of a branch over s indices: the largest power
\* of max_tree_size below s.
RECURSIVE grow(_, _)
\* Mutant: stops one level early.
grow_less(scale, s) ==
  IF s > scale * max_tree_size * max_tree_size THEN grow(scale * max_tree_size, s) ELSE scale
grow(scale, s) == IF s > scale * max_tree_size THEN grow(scale * max_tree_size, s) ELSE scale

RECURSIVE iotaMap(_)
\* Mutant: the last subrange may exceed the range.
iotaMap_over(inds) ==
  LET step == inds.istep * grow(1, shape(inds))
      sub_inds(i) == irange(i, i + step, inds.istep)
  IN  CASE empty(inds) -> mzero
        [] ~ empty(inds) /\ shape(inds) = 1 -> munit(at(inds, 0))
        [] OTHER -> LET calls == S!iotaMap(irange(inds.imin, inds.imax, step))
                    IN  branch([i \in S!Values(calls) |-> iotaMap(sub_inds(i))], calls)
iotaMap(inds) ==
  LET step == inds.istep * grow(1, shape(inds))
      sub_inds(i) == irange(i, lesser(i + step, inds.imax), inds.istep)
  IN  CASE empty(inds) -> mzero
        [] ~ empty(inds) /\ shape(inds) = 1 -> munit(at(inds, 0))
        [] OTHER -> LET calls == S!iotaMap(irange(inds.imin, inds.imax, step))
                    IN  branch([i \in S!Values(calls) |-> iotaMap(sub_inds(i))], calls)

\* iotaMapMulti in one dimension, on a steprange_t.  All leaves are at the
\* depth of the scale of the whole range, whatever the size of a subrange.
RECURSIVE iotaMapMulti_branch(_, _, _)
iotaMapMulti_branch(i, all_inds, all_scale) ==
  LET scale == all_scale \div max_tree_size
      inds == [imin |-> i,
               imax |-> <<lesser(i[1] + all_inds.istep[1] * all_scale, all_inds.imax[1])>>,
               istep |-> all_inds.istep]
  IN  IF scale = 1
        THEN LET calls == S!iotaMapMulti(inds)
             IN  branch([j \in S!Values(calls) |-> left(j[1])], calls)
        ELSE LET calls == S!iotaMapMulti([inds EXCEPT !.istep = <<@[1] * scale>>])
             IN  branch([j \in S!Values(calls) |-> iotaMapMulti_branch(j, inds, scale)],
                        calls)

iotaMapMulti(inds) ==
  LET s == multi_size(inds)
  IN  CASE multi_empty(inds) -> mzero
        [] ~ multi_empty(inds) /\ s = 1 -> left(inds.imin[1])
        [] OTHER -> iotaMapMulti_branch(inds.imin, inds, grow(1, s) * max_tree_size)

-----------------------------------------------------------------------------
\* Maps.  f is a function.
RECURSIVE fmap(_, _)
fmap(f, t) ==
  IF is_left(t) THEN left(f[t.val])
                ELSE branch([s \in S!Values(t.sub) |-> fmap(f, s)], t.sub)

\* What fmap2 asserts: the trees have the same shape.
RECURSIVE same_shape(_, _)
same_shape(t, u) ==
  /\ is_left(t) = is_left(u)
  /\ is_left(t) \/ (/\ S!same_size(t.sub, u.sub)
                    /\ \A i \in DOMAIN subtrees(t) :
                         same_shape(subtrees(t)[i], subtrees(u)[i]))

RECURSIVE fmap2(_, _)
fmap2(t, u) ==
  IF is_left(t) THEN left(<<t.val, u.val>>)
                ELSE LET calls == S!fmap2(t.sub, u.sub)
                     IN  branch([c \in S!Values(calls) |-> fmap2(c[1], c[2])], calls)

-----------------------------------------------------------------------------
\* The ends of a tree.  The ..._ok operators say that no assert of head and
\* last is met: the path they follow has no empty branch.
RECURSIVE head_ok(_)
head_ok(t) == ~ is_left(t) => S!nonempty(t.sub) /\ head_ok(S!head(t.sub))

RECURSIVE last_ok(_)
last_ok(t) == ~ is_left(t) => S!nonempty(t.sub) /\ last_ok(S!last(t.sub))

RECURSIVE head(_)
head(t) == IF is_left(t) THEN t.val ELSE head(S!head(t.sub))

RECURSIVE last(_)
last(t) == IF is_left(t) THEN t.val ELSE last(S!last(t.sub))

end_ok(t, i) == IF i = 0 THEN head_ok(t) ELSE last_ok(t)

\* A tree of the depth of t with the one element at its end.
RECURSIVE boundary(_, _)
boundary(t, i) ==
  IF is_left(t) THEN munit(t.val)
                ELSE branch([s \in S!Values(t.sub) |-> boundary(s, i)], S!boundary(t.sub, i))

\* The same with a function, the free <<x, i>>, applied to the element.
RECURSIVE boundaryMap(_, _)
\* Mutant: the function is told the other end.
boundaryMap_other(t, i) ==
  IF is_left(t) THEN munit(<<t.val, 1 - i>>)
                ELSE right(S!boundaryMap([s \in S!Values(t.sub), j \in 0 .. 1 |-> boundaryMap(s, j)],
                                         t.sub, i))
boundaryMap(t, i) ==
  IF is_left(t) THEN munit(<<t.val, i>>)
                ELSE right(S!boundaryMap([s \in S!Values(t.sub), j \in 0 .. 1 |-> boundaryMap(s, j)],
                                         t.sub, i))

-----------------------------------------------------------------------------
\* Stencils.  A leaf becomes the tuple of the arguments that f is called
\* with; a neighbour is seen through g, as <<x, i>>.
end(t, i) == <<IF i = 0 THEN head(t) ELSE last(t), i>>

RECURSIVE fmapStencil(_, _, _, _)
fmapStencil(t, bmask, bm, bp) ==
  IF is_left(t) THEN left(<<t.val, bmask, bm, bp>>)
                ELSE LET g == [s \in S!Values(t.sub), i \in 0 .. 1 |-> end(s, i)]
                         calls == S!fmapStencil(g, t.sub, bmask, bm, bp)
                     IN  branch([c \in S!Values(calls) |-> fmapStencil(c[1], c[2], c[3], c[4])],
                                calls)

\* Within every branch the neighbours have the ends that are asked of them.
RECURSIVE stencil_ok(_)
stencil_ok(t) ==
  is_left(t) \/
    LET ts == subtrees(t)
    IN  /\ \A i \in DOMAIN ts : stencil_ok(ts[i])
        /\ \A i \in 2 .. Len(ts) : last_ok(ts[i - 1]) /\ head_ok(ts[i])

\* The stencil in one dimension that takes its boundaries as trees.
RECURSIVE fmapStencilMulti(_, _, _, _)
\* Mutant: the far end of a neighbour.
fmapStencilMulti_far(t, bmask, bm0, bp0) ==
  IF is_left(t) THEN left(<<t.val, bmask, bm0.val, bp0.val>>)
                ELSE LET g == [s \in S!Values(t.sub), i \in 0 .. 1 |-> boundaryMap(s, 1 - i)]
                         calls == S!fmapStencilMulti(g, t.sub, bmask, bm0.sub, bp0.sub)
                     IN  branch([c \in S!Values(calls) |->
                                   fmapStencilMulti(c[1], c[2], c[3], c[4])], calls)
fmapStencilMulti(t, bmask, bm0, bp0) ==
  IF is_left(t) THEN left(<<t.val, bmask, bm0.val, bp0.val>>)
                ELSE LET g == [s \in S!Values(t.sub), i \in 0 .. 1 |-> boundaryMap(s, i)]
                         calls == S!fmapStencilMulti(g, t.sub, bmask, bm0.sub, bp0.sub)
                     IN  branch([c \in S!Values(calls) |->
                                   fmapStencilMulti(c[1], c[2], c[3], c[4])], calls)

\* Its asserts: at every level the boundaries are leaves where the tree is.
RECURSIVE multi_ok(_, _, _)
multi_ok(t, bm0, bp0) ==
  /\ is_left(bm0) = is_left(t) /\ is_left(bp0) = is_left(t)
  /\ is_left(t) \/
       LET ts == subtrees(t)
           n == Len(ts)
       IN  /\ \A b \in {bm0, bp0} : S!P!same_size(b.sub, t.sub)
           /\ \A i \in 1 .. n :
                /\ i = 1 \/ last_ok(ts[i - 1])
                /\ i = n \/ head_ok(ts[i + 1])
                /\ multi_ok(ts[i],
                            IF i = 1 THEN subtrees(bm0)[1] ELSE boundaryMap(ts[i - 1], 1),
                            IF i = n THEN subtrees(bp0)[1] ELSE boundaryMap(ts[i + 1], 0))

-----------------------------------------------------------------------------
\* Folds: foldMap in the free monoid, the elements of the tree in order.
RECURSIVE foldMap(_)
foldMap(t) ==
  IF is_left(t) THEN <<t.val>>
                ELSE S!foldMap([s \in S!Values(t.sub) |-> foldMap(s)], t.sub)

RECURSIVE foldMap2(_, _)
foldMap2(t, u) ==
  IF is_left(t) THEN <<<<t.val, u.val>>>>
                ELSE S!foldMap2([s \in S!Values(t.sub), r \in S!Values(u.sub) |-> foldMap2(s, r)],
                                t.sub, u.sub)

mempty(t) == ~ is_left(t) /\ S!mempty(t.sub)

RECURSIVE msize(_)
msize(t) ==
  IF is_left(t) THEN 1 ELSE FoldLeft(LAMBDA n, s : n + msize(s), 0, subtrees(t))

\* The monad: the leaves of a tree of trees are grafted in their place.
RECURSIVE mjoin(_)
mjoin(tt) ==
  IF is_left(tt) THEN tt.val ELSE branch([s \in S!Values(tt.sub) |-> mjoin(s)], tt.sub)

mbind(f, t) == mjoin(fmap(f, t))

mextract(t) == head(t)

\* fun::convert of a vector: its elements added one by one.
convert(ys) == FoldLeft(LAMBDA t, x : mplus(t, <<munit(x)>>), mzero, ys)

-----------------------------------------------------------------------------
\* The program.
box(inds) == [imin |-> <<inds.imin>>, imax |-> <<inds.imax>>, istep |-> <<inds.istep>>]

RECURSIVE depth(_)
depth(t) ==
  LET deepest(d, s) == IF depth(s) > d THEN depth(s) ELSE d
  IN  IF is_left(t) THEN 0 ELSE 1 + FoldLeft(deepest, 0, subtrees(t))

\* The bound of the model.
Bounded(t) == msize(t) <= MaxSize /\ depth(t) <= MaxDepth

\* A tree made by mzero, munit or msome.
operand(ys) ==
  IF ys = <<>> THEN mzero ELSE IF Len(ys) = 1 THEN munit(ys[1]) ELSE msome(ys[1], Tail(ys))

Init == xs = mzero /\ built = "other"

Become(t, how) == Bounded(t) /\ xs' = t /\ built' = how

IotaMap == \E inds \in Ranges : Become(iotaMap(inds), "iotaMap")

IotaMapMulti == \E inds \in Ranges : Become(iotaMapMulti(box(inds)), "iotaMapMulti")

Make == \E inds \in Ranges : Become(operand(Indices(inds)), "other")

Convert == \E inds \in Ranges : Become(convert(Indices(inds)), "other")

Fmap == Become(fmap(Twist, xs), built)

Mplus == \E us, vs \in Operands :
  \E args \in {<<xs>>, <<xs, operand(vs)>>, <<operand(us), xs>>,
               <<operand(us), xs, operand(vs)>>} :
    Become(mplus(Head(args), Tail(args)), "other")

\* The function given to mbind makes none, one or two elements of one.
kleisli(k) ==
  [x \in Element |-> LET n == (x + k) % 3
                     IN  CASE n = 0 -> mzero
                           [] n = 1 -> munit(x)
                           [] n = 2 -> msome(x, <<Twist[x]>>)]

Mbind == \E k \in 0 .. 2 : Become(mbind(kleisli(k), xs), "other")

Boundary == \E i \in 0 .. 1 : end_ok(xs, i) /\ Become(boundary(xs, i), "other")

Next ==
  \/ IotaMap \/ IotaMapMulti \/ Make \/ Convert
  \/ Fmap \/ Mplus \/ Mbind \/ Boundary

Spec == Init /\ [][Next]_vars

-----------------------------------------------------------------------------
\* Properties.

\* Type invariant: xs is a tree whose leaves hold elements.
RECURSIVE IsTree(_)
IsTree(t) ==
  \/ t.kind = "left" /\ t.val \in Element
  \/ t.kind = "right" /\ Len(t.sub) <= 1 /\ \A i \in DOMAIN subtrees(t) : IsTree(subtrees(t)[i])

TypeOK == IsTree(xs) /\ built \in {"iotaMap", "iotaMapMulti", "other"}

\* A tree without an empty branch.
RECURSIVE Solid(_)
Solid(t) ==
  is_left(t) \/ (S!nonempty(t.sub) /\ \A i \in DOMAIN subtrees(t) : Solid(subtrees(t)[i]))

\* Whatever calls made the tree, and however deep its ends are: where head,
\* last and boundary meet no assert they give the first and the last element,
\* and they meet one only at an empty branch.  A tree without empty branches
\* is not empty, and mempty says so.
Ends ==
  LET list == foldMap(xs)
  IN  /\ msize(xs) = Len(list)
      /\ Solid(xs) => ~ mempty(xs) /\ list # <<>> /\ head_ok(xs) /\ last_ok(xs)
      /\ head_ok(xs) => head(xs) = list[1] /\ mextract(xs) = list[1]
      /\ last_ok(xs) => last(xs) = list[Len(list)]
      /\ \A i \in 0 .. 1 : end_ok(xs, i) =>
           LET x == IF i = 0 THEN list[1] ELSE list[Len(list)]
           IN  /\ foldMap(boundary(xs, i)) = <<x>>
               /\ foldMap(boundaryMap(xs, i)) = <<<<x, i>>>>

RECURSIVE Full(_, _)
Full(t, d) ==
  IF is_left(t) THEN d = 0
                ELSE /\ d > 0 /\ Len(subtrees(t)) = max_tree_size
                     /\ \A i \in DOMAIN subtrees(t) : Full(subtrees(t)[i], d - 1)

\* Every leaf is at depth d and no branch is empty.
RECURSIVE Level(_, _)
Level(t, d) ==
  IF is_left(t) THEN d = 0
                ELSE /\ d > 0 /\ Len(subtrees(t)) \in 1 .. max_tree_size
                     /\ \A i \in DOMAIN subtrees(t) : Level(subtrees(t)[i], d - 1)

\* All subtrees of a branch but the last are full and equally deep.
RECURSIVE Packed(_)
Packed(t) ==
  is_left(t) \/
    LET ts == subtrees(t)
        n == Len(ts)
    IN  /\ n \in 2 .. max_tree_size
        /\ \A i \in 1 .. n - 1 : Full(ts[i], depth(t) - 1)
        /\ Packed(ts[n])

\* The scales of both constructions fit together over all levels: "so that
\* all sub-branches will be full".  A tree built by iotaMap is packed, one
\* built by iotaMapMulti has all leaves at the same level, no branch is
\* empty or has more than max_tree_size subtrees, and no tree is deeper than
\* its size requires.  fmap keeps it so.
Shape ==
  LET d == depth(xs)
  IN  built # "other" =>
        \/ xs = mzero
        \/ /\ IF built = "iotaMap" THEN Packed(xs) ELSE Level(xs, d)
           /\ d = 0 \/ msize(xs) > ipow(max_tree_size, d - 1)

\* fmapStencil gives every element its neighbours in the list, also where
\* they are in another branch, several levels up and down; only the ends of
\* the whole tree see the boundary and keep their bit of the mask.  It meets
\* an assert only at an empty branch.
Stencil ==
  LET list == foldMap(xs)
  IN  /\ Solid(xs) => stencil_ok(xs)
      /\ stencil_ok(xs) =>
           \A m \in Masks :
             foldMap(fmapStencil(xs, m, outside, outside)) =
               ListStencil(list, m, outside, outside)

\* fmapStencilMulti on a tree built by iotaMapMulti with the boundaries of a
\* periodic domain, the ends of the tree itself: the boundary trees have the
\* shape that is asked for at every level, so that no assert is met, and
\* every element is given its neighbours.
PeriodicStencil ==
  LET list == foldMap(xs)
      bm == boundaryMap(xs, 1)
      bp == boundaryMap(xs, 0)
  IN  built = "iotaMapMulti" /\ list # <<>> =>
        /\ multi_ok(xs, bm, bp)
        /\ \A m \in Masks :
             foldMap(fmapStencilMulti(xs, m, bm, bp)) =
               ListStencil(list, m, <<list[Len(list)], 1>>, <<list[1], 0>>)

\* Trees of the same shape are combined element by element: fmap2 and
\* foldMap2 pair every element of xs with its image in fmap(f, xs), and the
\* asserts that compare the shapes hold at every level.
Zips ==
  LET ys == fmap(Twist, xs)
      pairs == [i \in DOMAIN foldMap(xs) |-> <<foldMap(xs)[i], Twist[foldMap(xs)[i]]>>]
  IN  /\ same_shape(xs, ys)
      /\ foldMap(fmap2(xs, ys)) = pairs
      /\ foldMap2(xs, ys) = pairs

\* The laws of a monad, for the trees themselves and not only for their
\* elements: munit is neutral, mbind is associative, also where the
\* functions make empty trees.
MonadLaws ==
  /\ mbind([x \in Element |-> munit(x)], xs) = xs
  /\ mjoin(munit(xs)) = xs
  /\ \A j, k \in 0 .. 2 :
       mbind(kleisli(k), mbind(kleisli(j), xs)) =
         mbind([x \in Element |-> mbind(kleisli(k), kleisli(j)[x])], xs)
=============================================================================
