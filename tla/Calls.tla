------------------------------- MODULE Calls -------------------------------
(***************************************************************************)
(* What a program hands to the operations of a container, whatever its     *)
(* kind: the functions, ranges and operands of the calls.                  *)
(***************************************************************************)
EXTENDS Index

CONSTANTS Element,    \* what the containers hold
          Twist,      \* the function given to fmap, a permutation of Element
          Ranges,     \* the ranges given to iotaMap
          Operands,   \* the lists a list is joined with by mplus
          Boxes,      \* the boxes that grids are built on
          Number(_)   \* the function given with them, from indices to Element

\* Steps are positive, as index.hpp asserts, and a program may ask for
\* nothing.
ASSUME CallsAssumption ==
  /\ Ranges \subseteq [imin : Int, imax : Int, istep : Nat \ {0}]
  /\ \E inds \in Ranges : shape(inds) = 0
  /\ \A inds \in Ranges : Range(Indices(inds)) \subseteq Element
  /\ Boxes \subseteq [imin : Seq(Int), imax : Seq(Int), istep : Seq(Nat \ {0})]
  /\ \A box \in Boxes : Len(box.imax) = Len(box.imin) /\ Len(box.istep) = Len(box.imin)

\* The sizes that a kind of container has, as fun_traits gives them; there
\* is no maximum if max is -1.
Fits(n, traits) == n >= traits.min /\ (traits.max = -1 \/ n <= traits.max)

Least(m, n) == IF m < n THEN m ELSE n

\* The function given to mbind makes none, one or two elements of one, as
\* far as the container can hold as many.
Copies(k, x, traits) ==
  LET n == (x + k) % 3
      n1 == IF n < traits.min THEN traits.min ELSE n
      n2 == IF traits.max = -1 THEN n1 ELSE Least(n1, traits.max)
  IN  [i \in 1 .. n2 |-> IF i = 1 THEN x ELSE Twist[x]]

\* What a call of mplus makes of xs: it is given xs alone, or between others.
Sums(xs, make(_), mplus_ok(_, _), mplus(_, _)) ==
  {mplus(Head(args), Tail(args)) :
     args \in {yss \in UNION {{<<xs>>, <<xs, make(vs)>>, <<make(us), xs>>, <<make(us), xs, make(vs)>>} :
                               us, vs \in Operands} :
                mplus_ok(Head(yss), Tail(yss))}}

\* fun::convert of a list: the elements are added one by one.
Converted(list, make(_), mzero, mplus(_, _)) ==
  FoldLeft(LAMBDA xs, x : mplus(xs, <<make(<<x>>)>>), mzero, list)

\* The functions given to foldMap, boundaryMap and the stencils are the free
\* ones.
Singles == [x \in Element |-> <<x>>]
Directed == [x \in Element, i \in 0 .. 1 |-> <<x, i>>]

\* The stencil of a list: every element with its neighbours, seen through
\* Directed, and with the bits of the mask for the ends it is at.
ListStencil(list, bmask, bm, bp) ==
  LET n == Len(list)
  IN  [i \in 1 .. n |->
         <<list[i],
           bmask \cap {b \in 0 .. 1 : i = IF b = 0 THEN 1 ELSE n},
           IF i = 1 THEN bm ELSE <<list[i - 1], 1>>,
           IF i = n THEN bp ELSE <<list[i + 1], 0>>>>]

Masks == SUBSET {0, 1}

\* The boundary given to a stencil, different from what Directed makes of
\* elements.
outside == <<0, 2>>
=============================================================================
