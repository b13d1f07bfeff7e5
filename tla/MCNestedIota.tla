---------------------------- MODULE MCNestedIota ----------------------------
EXTENDS NestedIota

size(lo, hi) == [min |-> lo, max |-> hi]

\* shared_ptr, idtype, maxarray<3>, vector.
MCOuter == {size(0, 1), size(1, 1), size(0, 3), size(0, unlimited)}

\* shared_ptr, maxarray<2>, maxarray<4>, vector; array<2>.
MCInner == {size(0, 1), size(0, 2), size(0, 4), size(0, unlimited), size(2, 2)}

MCRanges == {irange(lo, hi, step) : lo \in 0 .. 1, hi \in 0 .. 8, step \in 1 .. 3}

box(lo, hi, step) == [imin |-> lo, imax |-> hi, istep |-> step]

MCBoxes ==
  {box(<<0>>, <<n>>, <<s>>) : n \in 0 .. 7, s \in 1 .. 3}
  \cup {box(<<1, 0>>, <<1 + m, n>>, <<1, 1>>) : m \in 0 .. 3, n \in 0 .. 3}
=============================================================================
