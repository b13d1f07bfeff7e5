------------------------------ MODULE Affinity ------------------------------
(***************************************************************************)
(* initialize() of funhpc/server.cpp up to its barrier, as one process     *)
(* sees it: set_rank_size agrees with all processes on who is where, and   *)
(* set_all_cpu_affinities of funhpc/hwloc.cpp pins each worker to a PU     *)
(* (hwloc's word for a hardware thread) with all_threads::run.  A thread   *)
(* knows no other thread on its node: that the workers of all processes of *)
(* the node share the PUs fairly rests on the ranks they were given.       *)
(***************************************************************************)
EXTENDS AllThreads

CONSTANT
  Starts   \* how the program is started: the machine of every process, how
           \* many PUs a machine has, which process this is, and whether
           \* hwloc can bind, FUNHPC_SET_THREAD_BINDINGS,
           \* FUNHPC_UNSET_THREAD_BINDINGS and FUNHPC_NUM_NODES

ASSUME AffinityAssumption ==
  /\ Worker = 0 .. nthreads - 1
  /\ \A s \in Starts : /\ IsFiniteSet(DOMAIN s.machine)
                       /\ DOMAIN s.machine = 0 .. Cardinality(DOMAIN s.machine) - 1
                       /\ s.rank \in DOMAIN s.machine
                       /\ s.node_npus \in Nat \ {0}

VARIABLES
  start,       \* one of Starts, never changed
  layout,      \* what set_rank_size gave each process
  phase,       \* where initialize is
  cpu_infos,   \* what each worker reported
  bound        \* the PUs a worker may run on

startVars == <<start, layout, phase, cpu_infos, bound>>
allVars == <<vars, startVars>>

Process == DOMAIN start.machine
PU == 0 .. start.node_npus - 1

unlabelled == <<>>
unreported == [node |-> -1, proc |-> -1, thread |-> -1]

-----------------------------------------------------------------------------
(* set_rank_size: MPI gives a process the processes on its machine and its *)
(* rank among them (external), the rest is computed at the root.           *)

local(p) == {q \in Process : start.machine[q] = start.machine[p]}
local_rank(p) == Cardinality({q \in local(p) : q < p})
local_size(p) == Cardinality(local(p))

\* Nodes are labelled by their lowest rank ...
node_group(p) == CHOOSE q \in local(p) : \A r \in local(p) : q <= r

\* ... and numbered in the order in which the root meets them.
node_ranks ==
  LET met[p \in Process \cup {-1}] ==
        IF p = -1
        THEN [group |-> [q \in Process |-> -1], size |-> 0,
              ranks |-> [q \in Process |-> -1]]
        ELSE LET before == met[p - 1]
                 g == node_group(p)
                 new == before.group[g] < 0
                 r == IF new THEN before.size ELSE before.group[g]
             IN  [group |-> [before.group EXCEPT ![g] = r],
                  size |-> IF new THEN before.size + 1 ELSE before.size,
                  ranks |-> [before.ranks EXCEPT ![p] = r]]
      all == met[Cardinality(Process) - 1]
  IN  [ranks |-> all.ranks, size |-> all.size]

\* The root asserts that all nodes have as many processes as its own.
consistent(nodes) ==
  \A n \in 0 .. nodes.size - 1 :
    Cardinality({p \in Process : nodes.ranks[p] = n}) = local_size(0)

\* A node count other than the one in the environment ends the program; the
\* numbers of processes and threads are tested in the same way.
SetRankSize ==
  /\ phase = "rank"
  /\ IF consistent(node_ranks) /\ start.want_num_nodes = node_ranks.size
     THEN /\ phase' = "affinity"
          /\ layout' = [p \in Process |->
                          [node |-> node_ranks.ranks[p], nnodes |-> node_ranks.size,
                           node_proc |-> local_rank(p), node_nprocs |-> local_size(p)]]
     ELSE phase' = "exit" /\ UNCHANGED layout
  /\ UNCHANGED <<vars, start, cpu_infos, bound>>

-----------------------------------------------------------------------------
(* thread_layout and thread_affinity                                       *)

\* Mutant: the rank of the process is taken for its rank on the node.
node_thread_global(p, w) == p * nthreads + w
node_thread(p, w) == layout[p].node_proc * nthreads + w
node_nthreads(p) == layout[p].node_nprocs * nthreads

oversubscribing(p) == node_nthreads(p) > start.node_npus

\* div_exact asserts that there is no remainder.
exact(p) == oversubscribing(p) \/ start.node_npus % node_nthreads(p) = 0

thread_npus(p) == IF oversubscribing(p) THEN 1 ELSE start.node_npus \div node_nthreads(p)
thread_pu(p, w) == (node_thread(p, w) * start.node_npus) \div node_nthreads(p)

\* set_affinity binds to the first PU of the thread, unset_affinity to the
\* machine; a binding that hwloc refuses only leaves a message.
binding(p, w) ==
  CASE ~start.can_bind -> PU
    [] start.unset_thread_bindings -> PU
    [] start.set_thread_bindings -> {thread_pu(p, w)}
    [] OTHER -> PU

\* The function that all_threads::run calls: manage_affinity.
ManageAffinity(w, t) ==
  /\ phase = "affinity"
  /\ Work(w, t)
  /\ IF exact(start.rank)
     THEN /\ cpu_infos' = [cpu_infos EXCEPT
                             ![w] = [node |-> layout[start.rank].node,
                                     proc |-> layout[start.rank].node_proc, thread |-> w]]
          /\ bound' = [bound EXCEPT ![w] = binding(start.rank, w)]
          /\ UNCHANGED phase
     ELSE phase' = "exit" /\ UNCHANGED <<cpu_infos, bound>>
  /\ UNCHANGED <<start, layout>>

\* The other steps of all_threads::run.
Wait(w, t) ==
  phase = "affinity" /\ (Dispatch(w, t) \/ Begin(w, t) \/ Done(w, t) \/ Leave(w, t))
             /\ UNCHANGED startVars

Call ==
  /\ phase = "affinity"
  /\ (\E t \in Task : Fork(t)) \/ (\E w \in Worker : Get(w))
  /\ UNCHANGED startVars

\* The barrier.
Initialized ==
  phase = "affinity" /\ Return /\ phase' = "up" /\ UNCHANGED <<start, layout, cpu_infos, bound>>

-----------------------------------------------------------------------------

StartInit ==
  /\ Init
  /\ start \in Starts
  /\ layout = unlabelled
  /\ phase = "rank"
  /\ cpu_infos = [w \in Worker |-> unreported]
  /\ bound = [w \in Worker |-> PU]

StartNext ==
  \/ SetRankSize
  \/ Call
  \/ \E w \in Worker, t \in Task : Wait(w, t) \/ ManageAffinity(w, t)
  \/ Initialized

StartSpec == StartInit /\ [][StartNext]_allVars

\* The processes meet in set_rank_size, the caller and the workers go on, and
\* an idle worker looks for a task.
FairStart ==
  /\ StartSpec
  /\ WF_allVars(SetRankSize) /\ WF_allVars(Call) /\ WF_allVars(Initialized)
  /\ \A w \in Worker : WF_allVars(\E t \in Task : Wait(w, t) \/ ManageAffinity(w, t))

-----------------------------------------------------------------------------
(* Properties *)

\* Once the program is up, the nodes are numbered from 0 without a gap, two
\* processes have one number if and only if they share a machine, and every
\* worker has its own entry in cpu_infos.  The PUs that the workers of all
\* processes on one node are given lie on the node, do not overlap and leave
\* none out, or if there are too few, are shared evenly.
Pinned ==
  phase = "up" =>
    LET threads(n) == {p \in Process : layout[p].node = n} \X Worker
        given(th) == LET u == thread_pu(th[1], th[2]) IN u .. u + thread_npus(th[1]) - 1
        users(n, u) == Cardinality({th \in threads(n) : u \in given(th)})
    IN  /\ {layout[p].node : p \in Process} = 0 .. layout[0].nnodes - 1
        /\ \A p, q \in Process :
             (layout[p].node = layout[q].node) <=> (start.machine[p] = start.machine[q])
        /\ \A w \in Worker : /\ cpu_infos[w].thread = w
                             /\ bound[w] \in {{thread_pu(start.rank, w)}, PU}
        /\ \A p \in Process, w \in Worker : given(<<p, w>>) \subseteq PU
        /\ \A p \in Process :
             IF oversubscribing(p)
             THEN \A u, v \in PU : users(layout[p].node, u) <= users(layout[p].node, v) + 1
             ELSE \A u \in PU : users(layout[p].node, u) = 1

\* initialize returns, or ends the program.
InitializeReturns == <>(phase \in {"up", "exit"})

=============================================================================
