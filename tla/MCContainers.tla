---------------------------- MODULE MCContainers ----------------------------
EXTENDS Containers

\* -1 stands for an element of a maxarray that was never written.
MCElement == -1 .. 4
MCTwist == [x \in MCElement |-> IF x = -1 THEN -1 ELSE 4 - x]
MCRanges ==
  {irange(0, n, 1) : n \in {0, 1, 4, 5}} \cup {irange(2, 5, 1), irange(1, 5, 2), irange(3, 1, 1)}
MCOperands == {<<>>, <<3>>}

unit(imin, imax) == [imin |-> imin, imax |-> imax, istep |-> [d \in DOMAIN imin |-> 1]]
MCBoxes ==
  {unit(<<>>, <<>>), unit(<<0>>, <<1>>), unit(<<0>>, <<3>>), unit(<<2>>, <<4>>),
   unit(<<0, 0>>, <<3, 2>>), unit(<<0, 0>>, <<1, 3>>), unit(<<0, 0>>, <<2, 0>>),
   unit(<<-1, 1>>, <<2, 3>>), unit(<<0, 0, 0>>, <<2, 3, 2>>)}
MCNumber(i) == FoldLeft(LAMBDA n, k : 2 * n + k, 0, i) % 5
=============================================================================
