---------------------------- MODULE MCAffinity ----------------------------
EXTENDS Affinity, TLC

\* Where the processes are, and which of them is modelled with its workers.
one == [machine |-> (0 :> "a"), rank |-> 0]
two == [machine |-> (0 :> "a" @@ 1 :> "a"), rank |-> 1]
apart == [machine |-> (0 :> "a" @@ 1 :> "b"), rank |-> 1]
blocks == [machine |-> (0 :> "b" @@ 1 :> "b" @@ 2 :> "a" @@ 3 :> "a"), rank |-> 3]
turns == [machine |-> (0 :> "b" @@ 1 :> "a" @@ 2 :> "b" @@ 3 :> "a"), rank |-> 2]
uneven == [machine |-> (0 :> "b" @@ 1 :> "a" @@ 2 :> "a"), rank |-> 2]

nodes(m) == Cardinality({m[p] : p \in DOMAIN m})

bindings(can, set, unset) ==
  [can_bind |-> can, set_thread_bindings |-> set, unset_thread_bindings |-> unset]

started(where, npus, how, extra) ==
  where @@ how @@ [node_npus |-> npus, want_num_nodes |-> nodes(where.machine) + extra]

usual == bindings(TRUE, TRUE, FALSE)

MCStarts ==
  {started(w, n, usual, 0) : w \in {one, two, apart, blocks, turns}, n \in {2, 3, 4, 5, 6, 12}}
    \cup {started(w, 6, usual, 0) : w \in {uneven}}
    \cup {started(turns, 6, usual, 1)}
    \cup {started(turns, 6, how, 0) : how \in {bindings(FALSE, TRUE, FALSE),
                                               bindings(TRUE, FALSE, FALSE),
                                               bindings(TRUE, TRUE, TRUE)}}
=============================================================================
