----------------------------- MODULE NestedSize -----------------------------
(***************************************************************************)
(* How nested<P, A> divides a range of indices among its inner containers  *)
(* (fun/nested_impl.hpp): the outer container P gets one element for every *)
(* inner container A.  p and a are the traits of P and A, the smallest and *)
(* the largest size such a container can have, where -1 is "unlimited".    *)
(* nested_max_size caps both (16 in the code).  The ..._ok operators are   *)
(* the conjunctions of the cxx_asserts of a function.                      *)
(***************************************************************************)
EXTENDS Index

CONSTANT nested_max_size

unlimited == -1

ASSUME NestedSizeAssumption == nested_max_size \in Nat \ {0}

lesser(x, y) == IF x < y THEN x ELSE y

\* The largest size of a container, as nested_calc_outer_size caps it.
capped(t) ==
  IF t.max = unlimited THEN nested_max_size ELSE lesser(t.max, nested_max_size)

\* Mutant: one inner container too many for a range that fills them all.
inner_outer_size_more(p, a, inds) ==
  LET size == shape(inds)
      max_inner == capped(a)
  IN  CASE size = 0 -> [isize |-> 0, osize |-> capped(p)]
        [] size # 0 /\ size <= max_inner -> [isize |-> size, osize |-> 1]
        [] OTHER -> [isize |-> max_inner, osize |-> size \div max_inner + 1]

(***************************************************************************)
(* One dimension.  The size of one inner container and the number of them: *)
(* a single one if the range fits into it, otherwise as many full ones as  *)
(* it takes.  An empty range has no inner elements and the largest outer   *)
(* container.                                                              *)
(***************************************************************************)
inner_outer_size(p, a, inds) ==
  LET size == shape(inds)
      max_inner == capped(a)
  IN  CASE size = 0 -> [isize |-> 0, osize |-> capped(p)]
        [] size # 0 /\ size <= max_inner -> [isize |-> size, osize |-> 1]
        [] OTHER -> [isize |-> max_inner, osize |-> div_ceil(size, max_inner)]

nested_calc_outer_size(p, a, inds) == inner_outer_size(p, a, inds).osize

outer_size_ok(p, a, inds) ==
  LET size == shape(inds)
      isize == inner_outer_size(p, a, inds).isize
      osize == inner_outer_size(p, a, inds).osize
  IN  /\ isize * osize >= size
      /\ IF isize = 0 \/ osize = 0 THEN size = 0 ELSE isize * (osize - 1) < size
      /\ isize \in a.min .. capped(a)
      /\ osize \in p.min .. capped(p)

\* The outer range: one index for every inner container, the first that it
\* holds.  The step is made from the traits themselves, not from the cap.
nested_calc_outer_inds(p, a, inds) ==
  LET osize == nested_calc_outer_size(p, a, inds)
      omax == IF osize = 0 THEN inds.imin ELSE inds.imax
      ostep == IF a.max = unlimited THEN omax - inds.imin ELSE inds.istep * a.max
  IN  irange(inds.imin, omax, ostep)

outer_inds_ok(p, a, inds) ==
  LET oinds == nested_calc_outer_inds(p, a, inds)
  IN  /\ outer_size_ok(p, a, inds)
      /\ valid(oinds)
      /\ shape(oinds) >= p.min
      /\ p.max = unlimited \/ shape(oinds) <= p.max
      /\ shape(oinds) = nested_calc_outer_size(p, a, inds)

nested_calc_inner_inds(inds, oinds, i) ==
  irange(i, lesser(i + oinds.istep, inds.imax), inds.istep)

inner_inds_ok(p, a, iinds) ==
  /\ shape(iinds) >= a.min
  /\ a.max = unlimited \/ shape(iinds) <= a.max
  /\ p.min = 0 => ~ empty(iinds)

(***************************************************************************)
(* Several dimensions: the inner boxes are cubes whose edge is the largest *)
(* that keeps them within the inner container.  The sizes are not capped.  *)
(***************************************************************************)
ipow(x, n) == prod([i \in 1 .. n |-> x])

\* floor(pow(max_inner, 1/D)), corrected upwards if the rounding went down.
inner_edge(max_inner, D) ==
  CHOOSE n \in 1 .. max_inner : ipow(n, D) <= max_inner /\ ipow(n + 1, D) > max_inner

nested_calc_shapes(p, a, inds) ==
  LET D == Len(inds.imin)
      size == multi_size(inds)
      all(n) == [d \in 1 .. D |-> n]
      ishape == [d \in 1 .. D |-> lesser(multi_shape(inds)[d], inner_edge(a.max, D))]
  IN  CASE size = 0 ->
             [ishape |-> all(0), oshape |-> IF p.min = 0 THEN all(0) ELSE all(1)]
        [] size # 0 /\ (a.max = unlimited \/ size <= a.max) ->
             [ishape |-> multi_shape(inds), oshape |-> all(1)]
        [] OTHER ->
             [ishape |-> ishape,
              oshape |-> [d \in 1 .. D |-> div_ceil(multi_shape(inds)[d], ishape[d])]]

nested_calc_outer_shape(p, a, inds) == nested_calc_shapes(p, a, inds).oshape

outer_shape_ok(p, a, inds) ==
  LET size == multi_size(inds)
      oshape == nested_calc_outer_shape(p, a, inds)
      isize == prod(nested_calc_shapes(p, a, inds).ishape)
      osize == prod(oshape)
  IN  /\ isize * osize >= size
      /\ IF isize = 0 \/ osize = 0
           THEN size = 0
           ELSE \A d \in DOMAIN oshape :
                  isize * prod([oshape EXCEPT ![d] = @ + 1]) > size
      /\ isize >= a.min /\ (a.max = unlimited \/ isize <= a.max)
      /\ osize >= p.min /\ (p.max = unlimited \/ osize <= p.max)

\* div_ceil of the box by its number of parts in every direction.  A shape
\* of zero has no quotient: the division by zero ends the program.
nested_calc_outer_range(p, a, inds) ==
  LET oshape == nested_calc_outer_shape(p, a, inds)
      omax == IF prod(oshape) = 0 THEN inds.imin ELSE inds.imax
      ostep == [d \in DOMAIN oshape |-> div_ceil(omax[d] - inds.imin[d], oshape[d])]
  IN  [imin |-> inds.imin, imax |-> omax, istep |-> ostep]

outer_range_ok(p, a, inds) ==
  LET oshape == nested_calc_outer_shape(p, a, inds)
      oinds == nested_calc_outer_range(p, a, inds)
  IN  /\ outer_shape_ok(p, a, inds)
      /\ \A d \in DOMAIN oshape : oshape[d] # 0
      /\ multi_valid(oinds)
      /\ multi_size(oinds) >= p.min
      /\ p.max = unlimited \/ multi_size(oinds) <= p.max
      /\ multi_size(oinds) = prod(oshape)

\* Mutant: the last inner container is not cut off at the end of the box.
nested_calc_inner_range_full(inds, oinds, i) ==
  [imin |-> i,
   imax |-> [d \in DOMAIN i |-> i[d] + oinds.istep[d]],
   istep |-> inds.istep]

nested_calc_inner_range(inds, oinds, i) ==
  [imin |-> i,
   imax |-> [d \in DOMAIN i |-> lesser(i[d] + oinds.istep[d], inds.imax[d])],
   istep |-> inds.istep]

inner_range_ok(p, a, iinds) ==
  /\ multi_size(iinds) >= a.min
  /\ a.max = unlimited \/ multi_size(iinds) <= a.max
  /\ p.min = 0 => ~ multi_empty(iinds)
=============================================================================
