----------------------------- MODULE NestedIota -----------------------------
(***************************************************************************)
(* The construction of a nested<P, A> container from a range of indices:   *)
(* iotaMap and iotaMapMulti of fun/nested_impl.hpp.  The outer range is    *)
(* computed first; then iotaMap<P> calls nested_iotaMap once for every     *)
(* outer index, and that call fills one inner container.  P decides in     *)
(* which order: a vector goes from left to right, the futures and proxies  *)
(* of a distributed container run all of them at once, so the model takes  *)
(* the outer indices in any order.                                         *)
(*                                                                         *)
(* The function mapped over the indices is the identity: the container     *)
(* holds the indices the function was called with.  Of the types P and A   *)
(* only their traits matter.                                               *)
(***************************************************************************)
EXTENDS NestedSize

CONSTANTS Outer,      \* the traits of the types P that are built
          Inner,      \* the traits of the types A
          Ranges,     \* the ranges given to iotaMap
          Boxes       \* the ranges given to iotaMapMulti

\* A type that can hold nothing (`empty`) is neither P nor A.
ASSUME TraitsAssumption ==
  /\ Outer \subseteq [min : Nat, max : {unlimited} \cup (Nat \ {0})]
  /\ Inner \subseteq [min : Nat, max : {unlimited} \cup (Nat \ {0})]

\* Ranges are constructed with a positive step, and boxes have a dimension.
ASSUME RangesAssumption ==
  /\ Ranges \subseteq [imin : Int, imax : Int, istep : Nat \ {0}]
  /\ Boxes \subseteq [imin : Seq(Int), imax : Seq(Int), istep : Seq(Nat \ {0})]
  /\ \A inds \in Boxes :
       Len(inds.imin) > 0 /\ Len(inds.imin) = Len(inds.imax) /\ Len(inds.imin) = Len(inds.istep)

VARIABLES p, a,       \* the traits of the container under construction
          dim,        \* 0 for iotaMap, the dimension for iotaMapMulti
          inds,       \* the range
          oinds,      \* the outer range, once it is known
          pending,    \* the outer indices without their inner container
          parts,      \* the inner containers, by outer index
          stage       \* "outer", "inner", "done", or "abort": an assert failed

vars == <<p, a, dim, inds, oinds, pending, parts, stage>>

Init ==
  /\ p \in Outer
  /\ a \in Inner
  /\ \/ dim = 0 /\ inds \in Ranges
     \/ inds \in Boxes /\ dim = Len(inds.imin)
  /\ oinds = inds
  /\ pending = {}
  /\ parts = <<>>
  /\ stage = "outer"

OuterIndices(r) == IF dim = 0 THEN Range(Indices(r)) ELSE MultiIndices(r)

Abort == stage' = "abort" /\ UNCHANGED <<oinds, pending, parts>>

\* The outer range is ready: its indices are given to iotaMap<P>.
Divide(r) ==
  /\ oinds' = r
  /\ pending' = OuterIndices(r)
  /\ parts' = <<>>
  /\ stage' = IF OuterIndices(r) = {} THEN "done" ELSE "inner"

\* iotaMap
iotaMap ==
  /\ stage = "outer" /\ dim = 0
  /\ IF outer_inds_ok(p, a, inds)
       THEN Divide(nested_calc_outer_inds(p, a, inds))
       ELSE Abort
  /\ UNCHANGED <<p, a, dim, inds>>

\* iotaMapMulti
iotaMapMulti ==
  /\ stage = "outer" /\ dim > 0
  /\ IF outer_range_ok(p, a, inds)
       THEN Divide(nested_calc_outer_range(p, a, inds))
       ELSE Abort
  /\ UNCHANGED <<p, a, dim, inds>>

\* Mutant: does not see that it was the last one.
Fill_on(i, part) ==
  /\ parts' = [j \in DOMAIN parts \cup {i} |-> IF j = i THEN part ELSE parts[j]]
  /\ pending' = pending \ {i}
  /\ stage' = "inner"
  /\ UNCHANGED oinds

Fill(i, part) ==
  /\ parts' = [j \in DOMAIN parts \cup {i} |-> IF j = i THEN part ELSE parts[j]]
  /\ pending' = pending \ {i}
  /\ stage' = IF pending = {i} THEN "done" ELSE "inner"
  /\ UNCHANGED oinds

\* One call of nested_iotaMap: the inner container of the outer index i.
nested_iotaMap(i) ==
  /\ stage = "inner" /\ dim = 0
  /\ i \in pending
  /\ LET iinds == nested_calc_inner_inds(inds, oinds, i)
     IN  IF inner_inds_ok(p, a, iinds) THEN Fill(i, Indices(iinds)) ELSE Abort
  /\ UNCHANGED <<p, a, dim, inds>>

\* One call of nested_iotaMapMulti.
nested_iotaMapMulti(i) ==
  /\ stage = "inner" /\ dim > 0
  /\ i \in pending
  /\ LET iinds == nested_calc_inner_range(inds, oinds, i)
     IN  IF inner_range_ok(p, a, iinds) THEN Fill(i, MultiIndices(iinds)) ELSE Abort
  /\ UNCHANGED <<p, a, dim, inds>>

Next ==
  \/ iotaMap
  \/ iotaMapMulti
  \/ \E i \in pending : nested_iotaMap(i)
  \/ \E i \in pending : nested_iotaMapMulti(i)

Spec == Init /\ [][Next]_vars

-----------------------------------------------------------------------------
Elements(part) == IF dim = 0 THEN Range(part) ELSE part

\* The state has its type; a finished container has all its parts.
TypeOK ==
  /\ p \in Outer /\ a \in Inner
  /\ inds \in IF dim = 0 THEN Ranges ELSE Boxes
  /\ stage \in {"outer", "inner", "done", "abort"}
  /\ stage = "inner" => pending # {}
  /\ stage = "done" => pending = {} /\ DOMAIN parts = OuterIndices(oinds)

\* No index is given to two inner containers, and at the end every index of
\* the range is in one of them.  For boxes it needs a unit stride: with
\* another one nested_calc_outer_range starts an inner box between two
\* indices, and the function is called outside of the range.
Parted ==
  dim = 0 \/ (\A d \in 1 .. dim : inds.istep[d] = 1) =>
    /\ \A i, j \in DOMAIN parts : i # j => Elements(parts[i]) \cap Elements(parts[j]) = {}
    /\ stage = "done" =>
         UNION {Elements(parts[i]) : i \in DOMAIN parts} = OuterIndices(inds)

\* Read from the first outer index to the last, the inner containers give
\* the range in its order: what a fold or a stencil over the container
\* relies on, whichever inner container was filled first.
InOrder ==
  dim = 0 /\ stage = "done" =>
    FlattenSeq([i \in 1 .. shape(oinds) |-> parts[at(oinds, i - 1)]]) = Indices(inds)

\* The inner containers divide the range among them, and in its order.
Divided == Parted /\ InOrder

\* The elements of a range, of either kind.
Size == IF dim = 0 THEN shape(inds) ELSE multi_size(inds)

\* No assert fails for a range that is not empty, for types whose containers
\* may be of any size up to their limit, if iotaMap's outer and inner sizes
\* stay within nested_max_size and the inner limit is not above it.
Served ==
  /\ p.min <= 1 /\ a.min <= 1 /\ Size > 0
  /\ \/ dim = 0 /\ Size <= capped(a)
     \/ dim = 0 /\ a.max \in 1 .. nested_max_size /\ Size <= a.max * capped(p)
     \/ dim > 0 /\ (a.max = unlimited \/ Size <= a.max \/ p.max = unlimited)
  => stage # "abort"

\* An empty range makes a container: "empty range, decide whether to create
\* empty or unit outer container" (nested_calc_outer_size).
EmptyServed ==
  dim = 0 /\ Size = 0 /\ a.min = 0 /\ p.min <= 1 => stage # "abort"
=============================================================================
