------------------------------ MODULE Functor ------------------------------
(***************************************************************************)
(* A program that keeps its data in a container of some kind, the module   *)
(* that instantiates this one, and calls the operations that every kind    *)
(* has.  A call is made only where none of the kind's asserts stops it.    *)
(***************************************************************************)
EXTENDS Calls

CONSTANTS
  traits, iotaMap(_), iotaMap_ok(_), fmap(_, _), fmap2(_, _), same_size(_, _),
  foldMap(_, _), foldMap2(_, _, _), mempty(_), msize(_)

VARIABLE c    \* the container

\* The list that a container stands for: its fold in the free monoid.
elements(xs) == foldMap(Singles, xs)

\* A program asks for a size that the traits allow.
Init == \E inds \in Ranges : Fits(shape(inds), traits) /\ c = iotaMap(inds)

Build == \E inds \in Ranges : Fits(shape(inds), traits) /\ c' = iotaMap(inds)

Map == c' = fmap(Twist, c)

\* The sizes are what fun_traits says, what the asserts of iotaMap say and
\* what the queries say.
Sized ==
  /\ \A inds \in Ranges : Fits(shape(inds), traits) => iotaMap_ok(inds)
  /\ Fits(Len(elements(c)), traits)
  /\ msize(c) = Len(elements(c))
  /\ mempty(c) <=> elements(c) = <<>>

\* fmap2 and foldMap2 pair every element with its image under fmap, in
\* order; the sizes that they assert to be equal are so.
Zips ==
  LET d == fmap(Twist, c)
      pairs == [i \in DOMAIN elements(c) |-> <<elements(c)[i], Twist[elements(c)[i]]>>]
      single == [p \in Element \X Element |-> <<p>>]
  IN  /\ same_size(c, d)
      /\ foldMap(single, fmap2(c, d)) = pairs
      /\ foldMap2([x \in Element, y \in Element |-> <<<<x, y>>>>], c, d) = pairs
=============================================================================
