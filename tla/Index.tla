------------------------------- MODULE Index -------------------------------
(***************************************************************************)
(* The integer ranges of adt/index.hpp that the containers are built from: *)
(* irange_t, a strided range of integers, and steprange_t<D>, a strided    *)
(* box of D-dimensional indices.  An index of dimension D is a sequence of *)
(* length D.  The operators of std::ptrdiff_t are the mathematical ones: no    *)
(* range of the models comes near the width of the type.                   *)
(***************************************************************************)
EXTENDS Integers, Sequences, SequencesExt

\* cxx::div_ceil(x, y).quot for y > 0, the only sign the ranges use.
div_ceil(x, y) == -((-x) \div y)

\* irange_t(imin, imax, istep); valid is its invariant, asserted when one
\* is constructed.
irange(imin, imax, istep) == [imin |-> imin, imax |-> imax, istep |-> istep]
valid(inds) == inds.istep > 0

shape(inds) ==
  LET s == div_ceil(inds.imax - inds.imin, inds.istep) IN IF s < 0 THEN 0 ELSE s

at(inds, i) == inds.imin + i * inds.istep

empty(inds) == inds.imax <= inds.imin

\* The indices of a range, in order.
Indices(inds) == [i \in 1 .. shape(inds) |-> at(inds, i - 1)]

(***************************************************************************)
(* steprange_t<D>: the same record with sequences for its bounds.          *)
(***************************************************************************)
prod(xs) ==
  LET upto[n \in 0 .. Len(xs)] == IF n = 0 THEN 1 ELSE upto[n - 1] * xs[n]
  IN  upto[Len(xs)]

\* The range in one of the directions.
strip(inds, d) == irange(inds.imin[d], inds.imax[d], inds.istep[d])

multi_shape(inds) == [d \in DOMAIN inds.imin |-> shape(strip(inds, d))]

multi_valid(inds) == \A d \in DOMAIN inds.imin : inds.istep[d] > 0

multi_size(inds) == prod(multi_shape(inds))

multi_empty(inds) == \E d \in DOMAIN inds.imin : inds.imax[d] <= inds.imin[d]

\* The indices of a box.
MultiIndices(inds) ==
  LET Side(d) == Range(Indices(strip(inds, d)))
  IN  {i \in [DOMAIN inds.imin -> UNION {Side(d) : d \in DOMAIN inds.imin}] :
         \A d \in DOMAIN inds.imin : i[d] \in Side(d)}
=============================================================================
