-------------------------- MODULE SharedRptr_proofs --------------------------
(***************************************************************************)
(* Proofs about SharedRptr for every set of processes and every number of  *)
(* managers and handles.                                                   *)
(***************************************************************************)
EXTENDS SharedRptr, FiniteSetTheorems, WellFoundedInduction, TLAPS

(***************************************************************************)
(* The inductive invariant.  RefcountExact says what each count is made    *)
(* of; the other parts say which managers messages and owners can name.    *)
(***************************************************************************)

\* A count is positive exactly while the manager is live.
CountStatus ==
  \A m \in Manager : IF status[m] = "live" THEN refcount[m] >= 1
                                           ELSE refcount[m] = 0

\* What a constructed manager's immutable fields say, even once it is freed.
Structure ==
  \A m \in Manager :
    /\ m >= next => status[m] = "unborn"
    /\ status[m] # "unborn" =>
         /\ home[m] \in Proc
         /\ robj[m] \in Manager
         /\ status[robj[m]] # "unborn"
         /\ local(m) => home[robj[m]] = home[m]
         /\ ~local(m) => /\ status[owner[m]] # "unborn"
                         /\ local(owner[m])
                         /\ home[owner[m]] # home[m]
                         /\ robj[owner[m]] = robj[m]
    /\ obj[m] = IF Exists(m) /\ local(m) THEN robj[m] ELSE Null

\* An object message comes from an older manager on another process, and it
\* alone will construct the manager it is numbered for.
ObjectMsgs ==
  \A x \in msgs : x.type = "object" =>
    /\ x.id < next
    /\ status[x.id] = "unborn"
    /\ x.origin < x.id
    /\ x.robj = robj[x.origin]
    /\ x.owner = IF local(x.origin) THEN x.origin ELSE owner[x.origin]
    /\ \A y \in msgs : y.type = "object" /\ y.id = x.id => y = x

\* A transfer is between two remote managers of the same owner, from the
\* older to the younger: chains of pending transfers have no cycle.
IncrefMsgs ==
  \A x \in msgs : x.type = "incref_then_decref2" =>
    /\ owner[x.other1] = x.mgr
    /\ owner[x.other2] = x.mgr
    /\ x.other1 < x.other2
    /\ \A y \in msgs : y.type = "incref_then_decref2" /\ y.other2 = x.other2
                         => y = x

\* A decref1 is sent after its sender was constructed, after the transfer of
\* the sender's reference, and to the owner only by the sender's destructor.
DecrefMsgs ==
  \A x \in msgs : x.type = "decref1" =>
    /\ status[x.from] # "unborn"
    /\ ~Pending(x.from)
    /\ owner[x.from] = x.mgr => status[x.from] = "freed"

IInv ==
  /\ TypeOK
  /\ IsFiniteSet(msgs)
  /\ CountStatus
  /\ Structure
  /\ ObjectMsgs
  /\ IncrefMsgs
  /\ DecrefMsgs
  /\ RefcountExact

-----------------------------------------------------------------------------
(* Facts about numbers and finite sets. *)

\* A non-empty set of natural numbers has a least element.
LEMMA Least ==
  ASSUME NEW S, S \subseteq Nat, S # {}
  PROVE  \E x \in S : \A y \in S : x <= y
<1> DEFINE LessThan == {ss \in Nat \X Nat : ss[1] < ss[2]}
<1>1. IsWellFoundedOn(LessThan, Nat)
  BY NatLessThanWellFounded DEF OpToRel
<1>2. \A a, b \in Nat : a < b => <<a, b>> \in LessThan
  <2>1. TAKE a, b \in Nat
  <2>2. HAVE a < b
  <2>3. <<a, b>> \in Nat \X Nat /\ <<a, b>>[1] = a /\ <<a, b>>[2] = b
    OBVIOUS
  <2>4. <<a, b>>[1] < <<a, b>>[2]
    BY <2>2, <2>3
  <2>5. QED BY <2>3, <2>4, Zenon DEF LessThan
<1> HIDE DEF LessThan
<1>3. PICK x \in S : \A y \in S : <<y, x>> \notin LessThan
  BY <1>1, WFMin
<1>4. \A y \in S : x <= y
  <2>1. SUFFICES ASSUME NEW y \in S PROVE x <= y
    OBVIOUS
  <2>2. x \in Nat /\ y \in Nat /\ <<y, x>> \notin LessThan
    BY <1>3
  <2>3. ~(y < x)
    BY <1>2, <2>2, Zenon
  <2>4. QED BY <2>2, <2>3
<1>5. QED BY <1>4

\* The counted messages of a manager are finitely many.
LEMMA CountedNat ==
  ASSUME NEW S, IsFiniteSet(S), NEW m
  PROVE  IsFiniteSet(CountedMsgs(S, m)) /\ Cardinality(CountedMsgs(S, m)) \in Nat
<1>1. CountedMsgs(S, m) \in SUBSET S
  BY DEF CountedMsgs
<1>2. IsFiniteSet(CountedMsgs(S, m))
  BY <1>1, FS_Subset
<1>3. QED BY <1>2, FS_CardinalityType

\* A message that is sent counts once, on the managers it names.
LEMMA CountedAdd ==
  ASSUME NEW S, IsFiniteSet(S), NEW x, x \notin S, NEW m
  PROVE  Cardinality(CountedMsgs(S \cup {x}, m)) =
           Cardinality(CountedMsgs(S, m)) + (IF m \in Counted(x) THEN 1 ELSE 0)
<1> DEFINE C == CountedMsgs(S, m)
<1>1. IsFiniteSet(C) /\ Cardinality(C) \in Nat
  BY CountedNat
<1>2. CASE m \in Counted(x)
  <2>1. CountedMsgs(S \cup {x}, m) = C \cup {x} /\ x \notin C
    BY <1>2 DEF CountedMsgs
  <2>2. Cardinality(C \cup {x}) = Cardinality(C) + 1
    BY <1>1, <2>1, FS_AddElement
  <2>3. QED BY <1>2, <2>1, <2>2
<1>3. CASE m \notin Counted(x)
  <2>1. CountedMsgs(S \cup {x}, m) = C
    BY <1>3 DEF CountedMsgs
  <2>2. QED BY <1>1, <1>3, <2>1
<1>4. QED BY <1>2, <1>3

\* The converse of CountedAdd.
LEMMA CountedRemove ==
  ASSUME NEW S, IsFiniteSet(S), NEW x \in S, NEW m
  PROVE  Cardinality(CountedMsgs(S \ {x}, m)) =
           Cardinality(CountedMsgs(S, m)) - (IF m \in Counted(x) THEN 1 ELSE 0)
<1>1. IsFiniteSet(S \ {x}) /\ x \notin S \ {x} /\ (S \ {x}) \cup {x} = S
  BY FS_RemoveElement
<1>2. Cardinality(CountedMsgs(S, m)) =
        Cardinality(CountedMsgs(S \ {x}, m)) + (IF m \in Counted(x) THEN 1 ELSE 0)
  BY <1>1, CountedAdd
<1>3. Cardinality(CountedMsgs(S \ {x}, m)) \in Nat
  BY <1>1, CountedNat
<1>4. QED BY <1>2, <1>3

\* The remote managers an owner has counted are finitely many.
LEMMA RegisteredNat ==
  ASSUME MaxManagers \in Nat, NEW m
  PROVE  IsFiniteSet(Registered(m)) /\ Cardinality(Registered(m)) \in Nat
<1>1. IsFiniteSet(Manager)
  BY FS_Interval DEF Manager
<1>2. Registered(m) \in SUBSET Manager
  BY DEF Registered, Dependants
<1>3. IsFiniteSet(Registered(m))
  BY <1>1, <1>2, FS_Subset
<1>4. QED BY <1>3, FS_CardinalityType

-----------------------------------------------------------------------------
(* Facts about messages. *)

\* The fields of a message, and what it counts, by its type.
LEMMA MsgFields ==
  ASSUME TypeOK, NEW x \in msgs
  PROVE  \/ /\ x.type = "object"
            /\ x.id \in Manager /\ x.dest \in Proc /\ x.robj \in ManagerPtr
            /\ x.owner \in Manager /\ x.origin \in Manager
            /\ Counted(x) = {x.origin}
         \/ /\ x.type = "incref_then_decref2"
            /\ x.mgr \in Manager /\ x.other1 \in Manager /\ x.other2 \in Manager
            /\ Counted(x) = {x.other1, x.other2}
         \/ /\ x.type = "decref1"
            /\ x.mgr \in Manager /\ x.from \in Manager
            /\ Counted(x) = {x.mgr}
<1>1. CASE x \in ObjectMsg
  BY <1>1 DEF ObjectMsg, Counted
<1>2. CASE x \in IncrefMsg
  BY <1>2 DEF IncrefMsg, Counted
<1>3. CASE x \in DecrefMsg
  BY <1>3 DEF DecrefMsg, Counted
<1>4. QED BY <1>1, <1>2, <1>3 DEF TypeOK

\* Whatever RefcountExact counts for a manager makes it live.
LEMMA CountedIsLive ==
  ASSUME IInv, NEW m \in Manager
  PROVE  /\ handles[m] > 0 => status[m] = "live"
         /\ \A x \in msgs : m \in Counted(x) => status[m] = "live"
         /\ Registered(m) # {} => status[m] = "live"
         /\ status[m] # "live" =>
              /\ refcount[m] = 0
              /\ handles[m] = 0
              /\ Cardinality(CountedMsgs(msgs, m)) = 0
              /\ Cardinality(Registered(m)) = 0
<1> DEFINE C == CountedMsgs(msgs, m)
           R == Registered(m)
<1>1. IsFiniteSet(C) /\ Cardinality(C) \in Nat
  BY CountedNat DEF IInv
<1>2. IsFiniteSet(R) /\ Cardinality(R) \in Nat
  BY RegisteredNat, BoundAssumption
<1>3. handles[m] \in Nat /\ refcount[m] \in Int
  BY DEF IInv, TypeOK
<1>4. refcount[m] = handles[m] + Cardinality(C) + Cardinality(R)
  BY DEF IInv, RefcountExact
<1>5. status[m] # "live" => refcount[m] = 0
  BY DEF IInv, CountStatus
<1>6. C # {} => Cardinality(C) # 0
  BY <1>1, FS_EmptySet
<1>7. R # {} => Cardinality(R) # 0
  BY <1>2, FS_EmptySet
<1>8. \A x \in msgs : m \in Counted(x) => x \in C
  BY DEF CountedMsgs
<1> HIDE DEF C, R
<1>9. status[m] # "live" => handles[m] = 0 /\ Cardinality(C) = 0 /\ Cardinality(R) = 0
  BY <1>1, <1>2, <1>3, <1>4, <1>5
<1>10. handles[m] > 0 => status[m] = "live"
  BY <1>9
<1>11. \A x \in msgs : m \in Counted(x) => status[m] = "live"
  BY <1>6, <1>8, <1>9
<1>12. R # {} => status[m] = "live"
  BY <1>7, <1>9
<1>13. QED BY <1>5, <1>9, <1>10, <1>11, <1>12 DEF C, R

\* The youngest-first chain of pending transfers ends in a manager that its
\* owner has counted, so the owner of every remote manager is live.
LEMMA OwnerIsLive ==
  ASSUME IInv, NEW c \in Manager, Exists(c), ~local(c)
  PROVE  owner[c] \in Manager /\ status[owner[c]] = "live"
<1> DEFINE m == owner[c]
<1>1. m \in Manager
  BY DEF IInv, TypeOK, ManagerPtr, Null, local
<1>2. c \in Dependants(m)
  BY DEF Dependants
<1>3. Dependants(m) \subseteq Nat
  BY BoundAssumption DEF Dependants, Manager
<1>4. PICK d \in Dependants(m) : \A e \in Dependants(m) : d <= e
  BY <1>2, <1>3, Least
<1>5. ~Pending(d)
  <2>1. SUFFICES ASSUME NEW x \in msgs, x.type = "incref_then_decref2",
                        x.other2 = d
                 PROVE  FALSE
    BY DEF Pending
  <2>2. x.other1 \in Manager /\ x.other1 \in Counted(x)
    BY <2>1, MsgFields DEF IInv
  <2>3. status[x.other1] = "live"
    BY <2>1, <2>2, CountedIsLive
  <2>4. owner[x.other1] = m /\ x.other1 < d
    BY <2>1 DEF IInv, IncrefMsgs, Dependants
  <2>5. x.other1 \in Dependants(m)
    BY <2>2, <2>3, <2>4 DEF Dependants, Exists
  <2>6. QED BY <1>3, <1>4, <2>4, <2>5
<1>6. d \in Registered(m)
  BY <1>5 DEF Registered
<1>7. QED BY <1>1, <1>6, CountedIsLive

-----------------------------------------------------------------------------
(* Type correctness. *)

\* The initial state is well typed.
LEMMA TypeInit == Init => TypeOK
  BY BoundAssumption DEF Init, TypeOK, Manager, ManagerPtr, Null

\* What TypeOK says of the fields that Construct sets.
TypedConstruct ==
  /\ status' \in [Manager -> {"unborn", "live", "dying", "freed"}]
  /\ home' \in [Manager -> Proc \cup {NoProc}]
  /\ robj' \in [Manager -> ManagerPtr]
  /\ owner' \in [Manager -> ManagerPtr]
  /\ refcount' \in [Manager -> Int]
  /\ handles' \in [Manager -> Nat]

\* The fields that a constructor sets are well typed.
LEMMA TypeConstruct ==
  ASSUME TypeOK, NEW n \in Manager, NEW p \in Proc, NEW o \in ManagerPtr,
         NEW own \in ManagerPtr, NEW c \in Int,
         Construct(n, p, o, own, c)
  PROVE  TypedConstruct
  BY DEF TypeOK, Construct, TypedConstruct, ManagerPtr

\* Every action keeps the types.
LEMMA TypeStep == TypeOK /\ [Next]_vars => TypeOK'
<1> SUFFICES ASSUME TypeOK, [Next]_vars PROVE TypeOK'
  OBVIOUS
<1> USE BoundAssumption
<1>0. Null \in ManagerPtr /\ Manager \subseteq ManagerPtr /\ Manager \subseteq Nat
  BY DEF ManagerPtr, Manager
<1>1. ASSUME NEW p \in Proc, MakeShared(p) PROVE TypeOK'
  <2>1. next \in Manager /\ next' \in 1 .. MaxManagers + 1
    BY <1>1 DEF MakeShared, Manager
  <2>2. Construct(next, p, next, Null, 1)
    BY <1>1 DEF MakeShared
  <2>3. obj' \in [Manager -> ManagerPtr] /\ msgs' = msgs
    BY <1>0, <1>1, <2>1 DEF MakeShared, TypeOK
  <2>4. TypedConstruct
    BY <1>0, <2>1, <2>2 DEF Construct, TypedConstruct, TypeOK, ManagerPtr
  <2>5. QED BY <2>1, <2>2, <2>3, <2>4 DEF TypedConstruct, TypeOK
<1>2. ASSUME NEW m \in Manager, Copy(m) PROVE TypeOK'
  BY <1>2 DEF TypeOK, Copy, incref
<1>3. ASSUME NEW m \in Manager, Reset(m) PROVE TypeOK'
  BY <1>3 DEF TypeOK, Reset, decref
<1>4. ASSUME NEW m \in Manager, NEW p \in Proc, Save(m, p) PROVE TypeOK'
  <2>1. next \in Manager /\ next' \in 1 .. MaxManagers + 1
    BY <1>4 DEF Save, Manager
  <2>2. refcount' \in [Manager -> Int]
    BY <1>4 DEF Save, incref, TypeOK
  <2>3. (IF local(m) THEN m ELSE owner[m]) \in Manager
    BY DEF TypeOK, local, ManagerPtr, Null
  <2>4. QED
    BY <1>4, <2>1, <2>2, <2>3 DEF Save, TypeOK, ObjectMsg
<1>5. ASSUME NEW m \in Manager, Destroy(m) PROVE TypeOK'
  <2>1. status' \in [Manager -> {"unborn", "live", "dying", "freed"}]
    BY <1>5 DEF Destroy, TypeOK
  <2>2. obj' \in [Manager -> ManagerPtr]
    BY <1>0, <1>5 DEF Destroy, TypeOK
  <2>3. msgs' \subseteq ObjectMsg \cup IncrefMsg \cup DecrefMsg
    BY <1>5 DEF Destroy, TypeOK, local, decref1, DecrefMsg, ManagerPtr, Null
  <2>4. QED BY <1>5, <2>1, <2>2, <2>3 DEF Destroy, TypeOK
<1>6. ASSUME NEW x \in msgs, x.type = "object", LoadAtOwner(x) PROVE TypeOK'
  <2>1. /\ x.id \in Manager /\ x.dest \in Proc /\ x.robj \in ManagerPtr
        /\ x.owner \in Manager /\ x.origin \in Manager
    BY <1>6, MsgFields
  <2>2. Construct(x.id, x.dest, x.robj, Null, 1)
    BY <1>6 DEF LoadAtOwner
  <2>3. obj' \in [Manager -> ManagerPtr] /\ next' = next
    BY <1>6, <2>1 DEF LoadAtOwner, TypeOK
  <2>4. msgs' \subseteq ObjectMsg \cup IncrefMsg \cup DecrefMsg
    BY <1>6, <2>1 DEF LoadAtOwner, TypeOK, decref1, DecrefMsg
  <2>5. TypedConstruct
    BY <1>0, <2>1, <2>2 DEF Construct, TypedConstruct, TypeOK, ManagerPtr
  <2>6. QED BY <2>3, <2>4, <2>5 DEF TypedConstruct, TypeOK
<1>7. ASSUME NEW x \in msgs, x.type = "object", LoadFromThird(x) PROVE TypeOK'
  <2>1. /\ x.id \in Manager /\ x.dest \in Proc /\ x.robj \in ManagerPtr
        /\ x.owner \in Manager /\ x.origin \in Manager
    BY <1>7, MsgFields
  <2>2. Construct(x.id, x.dest, x.robj, x.owner, 2) /\ next' = next /\ obj' = obj
    BY <1>7 DEF LoadFromThird
  <2>3. msgs' \subseteq ObjectMsg \cup IncrefMsg \cup DecrefMsg
    BY <1>7, <2>1 DEF LoadFromThird, TypeOK, incref_then_decref2, IncrefMsg
  <2>4. TypedConstruct
    BY <1>0, <2>1, <2>2 DEF Construct, TypedConstruct, TypeOK, ManagerPtr
  <2>5. QED BY <2>1, <2>2, <2>3, <2>4 DEF TypedConstruct, TypeOK
<1>8. ASSUME NEW x \in msgs, x.type = "object", LoadFromOwner(x) PROVE TypeOK'
  <2>1. /\ x.id \in Manager /\ x.dest \in Proc /\ x.robj \in ManagerPtr
        /\ x.owner \in Manager /\ x.origin \in Manager
    BY <1>8, MsgFields
  <2>2. Construct(x.id, x.dest, x.robj, x.owner, 1) /\ next' = next /\ obj' = obj
    BY <1>8 DEF LoadFromOwner
  <2>3. msgs' \subseteq ObjectMsg \cup IncrefMsg \cup DecrefMsg
    BY <1>8 DEF LoadFromOwner, TypeOK
  <2>4. TypedConstruct
    BY <1>0, <2>1, <2>2 DEF Construct, TypedConstruct, TypeOK, ManagerPtr
  <2>5. QED BY <2>1, <2>2, <2>3, <2>4 DEF TypedConstruct, TypeOK
<1>9. ASSUME NEW x \in msgs, RunIncref(x) PROVE TypeOK'
  <2>1. x.mgr \in Manager /\ x.other1 \in Manager /\ x.other2 \in Manager
    BY <1>9, MsgFields DEF RunIncref
  <2>2. msgs' \subseteq ObjectMsg \cup IncrefMsg \cup DecrefMsg
    BY <1>9, <2>1 DEF RunIncref, TypeOK, decref1, DecrefMsg
  <2>3. QED BY <1>9, <2>1, <2>2 DEF RunIncref, TypeOK, incref
<1>10. ASSUME NEW x \in msgs, RunDecref(x) PROVE TypeOK'
  BY <1>10, MsgFields DEF RunDecref, TypeOK, decref
<1>11. CASE UNCHANGED vars
  BY <1>11 DEF vars, TypeOK
<1>12. QED
  BY <1>1, <1>2, <1>3, <1>4, <1>5, <1>6, <1>7, <1>8, <1>9, <1>10, <1>11
     DEF Next, Deliver, Load

-----------------------------------------------------------------------------
(* Every action preserves the invariant. *)

\* The invariant holds before the first manager is constructed.
LEMMA IInvInit == Init => IInv
<1> SUFFICES ASSUME Init PROVE IInv
  OBVIOUS
<1>1. TypeOK
  BY TypeInit
<1>2. IsFiniteSet(msgs)
  BY FS_EmptySet DEF Init
<1>3. CountStatus /\ Structure /\ ObjectMsgs /\ IncrefMsgs /\ DecrefMsgs
  BY DEF Init, CountStatus, Structure, ObjectMsgs, IncrefMsgs, DecrefMsgs, Exists
<1>4. RefcountExact
  <2>1. SUFFICES ASSUME NEW m \in Manager
                 PROVE  refcount[m] = handles[m] + Cardinality(CountedMsgs(msgs, m))
                                                 + Cardinality(Registered(m))
    BY DEF RefcountExact
  <2>2. CountedMsgs(msgs, m) = {} /\ Registered(m) = {}
    BY DEF Init, CountedMsgs, Registered, Dependants, Exists
  <2>3. QED BY <2>2, FS_EmptySet DEF Init
<1>5. QED BY <1>1, <1>2, <1>3, <1>4 DEF IInv

\* A new object and its local manager.
LEMMA MakeSharedStep ==
  ASSUME IInv, TypeOK', NEW p \in Proc, MakeShared(p)
  PROVE  IInv'
<1> DEFINE n == next
<1>1. n \in Manager /\ status[n] = "unborn" /\ next' = n + 1 /\ msgs' = msgs
  BY DEF MakeShared, IInv, Structure, Manager
<1>2. /\ status' = [status EXCEPT ![n] = "live"]
      /\ home' = [home EXCEPT ![n] = p]
      /\ obj' = [obj EXCEPT ![n] = n]
      /\ robj' = [robj EXCEPT ![n] = n]
      /\ owner' = [owner EXCEPT ![n] = Null]
      /\ refcount' = [refcount EXCEPT ![n] = 1]
      /\ handles' = [handles EXCEPT ![n] = 1]
  BY DEF MakeShared, Construct
<1> HIDE DEF n
<1>3. CountStatus'
  BY <1>1, <1>2 DEF IInv, CountStatus, TypeOK
<1>4. Structure'
  <2>1. SUFFICES ASSUME NEW m \in Manager
                 PROVE  Structure!(m)'
    BY DEF Structure
  <2>2. CASE m = n
    BY <1>1, <1>2, <2>2 DEF IInv, TypeOK, local, Exists, Manager, Null
  <2>3. CASE m # n
    <3>1. m >= next' => status'[m] = "unborn"
      BY <1>1, <1>2, <2>3 DEF IInv, Structure, TypeOK, Manager, n
    <3>2. status[m] # "unborn" =>
            /\ robj[m] # n
            /\ ~local(m) => owner[m] \in Manager /\ owner[m] # n
      BY <1>1 DEF IInv, Structure, TypeOK, local, ManagerPtr
    <3>3. QED
      BY <1>1, <1>2, <2>3, <3>1, <3>2 DEF IInv, Structure, TypeOK, local, Exists
  <2>4. QED BY <2>2, <2>3
<1>5. \A x \in msgs : \A m \in Counted(x) : m \in Manager => m # n
  BY <1>1, CountedIsLive
<1>6. ObjectMsgs'
  <2>1. SUFFICES ASSUME NEW x \in msgs, x.type = "object"
                 PROVE  /\ x.id < next'
                        /\ status'[x.id] = "unborn"
                        /\ x.origin < x.id
                        /\ x.robj = robj'[x.origin]
                        /\ x.owner = IF local(x.origin)' THEN x.origin ELSE owner'[x.origin]
                        /\ \A y \in msgs : y.type = "object" /\ y.id = x.id => y = x
    BY <1>1 DEF ObjectMsgs
  <2>2. x.id \in Manager /\ x.origin \in Manager /\ x.origin # n
    BY <1>5, <2>1, MsgFields DEF IInv
  <2>3. x.id # n /\ x.id < next + 1
    BY <1>1, <2>1, <2>2 DEF IInv, ObjectMsgs, TypeOK, Manager, n
  <2>4. QED BY <1>1, <1>2, <2>1, <2>2, <2>3 DEF IInv, ObjectMsgs, TypeOK, local, n
<1>7. IncrefMsgs'
  <2>1. \A x \in msgs : x.type = "incref_then_decref2" =>
          /\ x.other1 \in Manager /\ x.other1 # n
          /\ x.other2 \in Manager /\ x.other2 # n
    BY <1>5, MsgFields DEF IInv
  <2>2. QED BY <1>1, <1>2, <2>1 DEF IInv, IncrefMsgs, TypeOK
<1>8. \A c : Pending(c)' <=> Pending(c)
  BY <1>1 DEF Pending
<1>9. DecrefMsgs'
  BY <1>1, <1>2, <1>8, MsgFields DEF IInv, DecrefMsgs, TypeOK
<1>10. RefcountExact'
  <2>1. SUFFICES ASSUME NEW m \in Manager
                 PROVE  refcount'[m] = handles'[m] + Cardinality(CountedMsgs(msgs, m))
                                                   + Cardinality(Registered(m)')
    BY <1>1 DEF RefcountExact
  <2>2. Registered(m)' = Registered(m)
    BY <1>1, <1>2, <1>8 DEF IInv, TypeOK, Registered, Dependants, Exists, Manager, Null
  <2>3. refcount[m] = handles[m] + Cardinality(CountedMsgs(msgs, m))
                                 + Cardinality(Registered(m))
    BY DEF IInv, RefcountExact
  <2>4. CASE m # n
    BY <1>2, <2>2, <2>3, <2>4 DEF IInv, TypeOK
  <2>5. CASE m = n
    BY <1>1, <1>2, <2>2, <2>5, CountedIsLive DEF IInv, TypeOK
  <2>6. QED BY <2>4, <2>5
<1>11. QED
  BY <1>1, <1>3, <1>4, <1>6, <1>7, <1>9, <1>10 DEF IInv

\* One more shared_rptr to the same manager.
LEMMA CopyStep ==
  ASSUME IInv, TypeOK', NEW c \in Manager, Copy(c)
  PROVE  IInv'
<1>1. /\ handles' = [handles EXCEPT ![c] = @ + 1]
      /\ refcount' = [refcount EXCEPT ![c] = @ + 1]
      /\ UNCHANGED <<next, status, home, obj, robj, owner, msgs>>
  BY DEF Copy, incref
<1>2. status[c] = "live"
  BY BoundAssumption, CountedIsLive DEF Copy
<1>3. CountStatus'
  BY <1>1, <1>2 DEF IInv, CountStatus, TypeOK
<1>4. Structure' /\ ObjectMsgs' /\ IncrefMsgs' /\ DecrefMsgs'
  BY <1>1 DEF IInv, Structure, ObjectMsgs, IncrefMsgs, DecrefMsgs, local, Exists, Pending
<1>5. RefcountExact'
  <2>1. SUFFICES ASSUME NEW m \in Manager
                 PROVE  refcount'[m] = handles'[m] + Cardinality(CountedMsgs(msgs, m))
                                                   + Cardinality(Registered(m))
    BY <1>1 DEF RefcountExact, Registered, Dependants, Exists, Pending
  <2>2. refcount[m] = handles[m] + Cardinality(CountedMsgs(msgs, m))
                                 + Cardinality(Registered(m))
    BY DEF IInv, RefcountExact
  <2>3. Cardinality(CountedMsgs(msgs, m)) \in Nat /\ Cardinality(Registered(m)) \in Nat
    BY CountedNat, RegisteredNat, BoundAssumption DEF IInv
  <2>4. QED BY <1>1, <2>2, <2>3 DEF IInv, TypeOK
<1>6. QED BY <1>1, <1>3, <1>4, <1>5 DEF IInv

\* A shared_rptr that goes away.
LEMMA ResetStep ==
  ASSUME IInv, TypeOK', NEW c \in Manager, Reset(c)
  PROVE  IInv'
<1>1. /\ handles' = [handles EXCEPT ![c] = @ - 1]
      /\ refcount' = [refcount EXCEPT ![c] = @ - 1]
      /\ status' = [status EXCEPT ![c] = IF refcount[c] = 1 THEN "dying" ELSE @]
      /\ UNCHANGED <<next, home, obj, robj, owner, msgs>>
  BY DEF Reset, decref
<1>2. status[c] = "live" /\ refcount[c] >= 1
  BY CountedIsLive DEF Reset, IInv, CountStatus
<1>3. CountStatus'
  BY <1>1, <1>2 DEF IInv, CountStatus, TypeOK
<1>4. \A m \in Manager : /\ Exists(m)' <=> Exists(m)
                         /\ status'[m] = "unborn" <=> status[m] = "unborn"
                         /\ status'[m] = "freed" <=> status[m] = "freed"
  BY <1>1, <1>2 DEF IInv, TypeOK, Exists
<1>5. Structure'
  BY <1>1, <1>4 DEF IInv, Structure, local, TypeOK, ManagerPtr, Null
<1>6. ObjectMsgs'
  BY <1>1, <1>4, MsgFields DEF IInv, ObjectMsgs, local
<1>7. IncrefMsgs'
  BY <1>1 DEF IInv, IncrefMsgs
<1>8. DecrefMsgs'
  BY <1>1, <1>4, MsgFields DEF IInv, DecrefMsgs, Pending
<1>9. RefcountExact'
  <2>1. SUFFICES ASSUME NEW m \in Manager
                 PROVE  refcount'[m] = handles'[m] + Cardinality(CountedMsgs(msgs, m))
                                                   + Cardinality(Registered(m)')
    BY <1>1 DEF RefcountExact
  <2>2. Registered(m)' = Registered(m)
    BY <1>1, <1>4 DEF Registered, Dependants, Pending
  <2>3. refcount[m] = handles[m] + Cardinality(CountedMsgs(msgs, m))
                                 + Cardinality(Registered(m))
    BY DEF IInv, RefcountExact
  <2>4. Cardinality(CountedMsgs(msgs, m)) \in Nat /\ Cardinality(Registered(m)) \in Nat
    BY CountedNat, RegisteredNat, BoundAssumption DEF IInv
  <2>5. QED BY <1>1, <2>2, <2>3, <2>4 DEF IInv, TypeOK
<1>10. QED BY <1>1, <1>3, <1>5, <1>6, <1>7, <1>8, <1>9 DEF IInv

\* An object message carries one more reference to its origin.
LEMMA SaveStep ==
  ASSUME IInv, TypeOK', NEW c \in Manager, NEW p \in Proc, Save(c, p)
  PROVE  IInv'
<1> DEFINE new == [type |-> "object", id |-> next, dest |-> p, robj |-> robj[c],
                   owner |-> IF local(c) THEN c ELSE owner[c], origin |-> c]
<1>1. /\ msgs' = msgs \cup {new}
      /\ refcount' = [refcount EXCEPT ![c] = @ + 1]
      /\ next' = next + 1
      /\ UNCHANGED <<status, home, obj, robj, owner, handles>>
  BY DEF Save, incref
<1>2. status[c] = "live" /\ next \in Manager /\ status[next] = "unborn" /\ c < next
  BY CountedIsLive DEF Save, IInv, Structure, Manager
<1>3. /\ new.type = "object" /\ new.id = next /\ new.origin = c /\ new.robj = robj[c]
      /\ new.owner = IF local(c) THEN c ELSE owner[c]
      /\ Counted(new) = {c}
  BY DEF Counted
<1>4. new \notin msgs
  BY <1>2, <1>3 DEF IInv, ObjectMsgs, Manager
<1> HIDE DEF new
<1>5. IsFiniteSet(msgs')
  BY <1>1, FS_AddElement DEF IInv
<1>6. \A x : Pending(x)' <=> Pending(x)
  BY <1>1, <1>3 DEF Pending
<1>7. CountStatus'
  BY <1>1, <1>2 DEF IInv, CountStatus, TypeOK
<1>8. Structure'
  <2>1. \A m \in Manager : m >= next' => m >= next
    BY <1>1, <1>2 DEF Manager
  <2>2. QED BY <1>1, <2>1 DEF IInv, Structure, local, Exists
<1>9. ObjectMsgs'
  <2>1. SUFFICES ASSUME NEW x \in msgs', x.type = "object"
                 PROVE  /\ x.id < next'
                        /\ status[x.id] = "unborn"
                        /\ x.origin < x.id
                        /\ x.robj = robj[x.origin]
                        /\ x.owner = IF local(x.origin) THEN x.origin ELSE owner[x.origin]
                        /\ \A y \in msgs' : y.type = "object" /\ y.id = x.id => y = x
    BY <1>1 DEF ObjectMsgs, local
  <2>2. \A y \in msgs : y.type = "object" => y.id \in Manager /\ y.id < next
    BY MsgFields DEF IInv, ObjectMsgs
  <2>3. next \in Nat /\ \A m \in Manager : m \in Nat /\ (m < next => m < next' /\ m # next)
    BY <1>1, <1>2 DEF Manager
  <2>4. CASE x \in msgs
    BY <1>1, <1>3, <2>1, <2>2, <2>3, <2>4 DEF IInv, ObjectMsgs
  <2>5. CASE x = new
    BY <1>1, <1>2, <1>3, <2>2, <2>3, <2>5
  <2>6. QED BY <1>1, <2>4, <2>5
<1>10. IncrefMsgs'
  BY <1>1, <1>3 DEF IInv, IncrefMsgs
<1>11. DecrefMsgs'
  BY <1>1, <1>3, <1>6 DEF IInv, DecrefMsgs
<1>12. RefcountExact'
  <2>1. SUFFICES ASSUME NEW m \in Manager
                 PROVE  refcount'[m] = handles[m] + Cardinality(CountedMsgs(msgs', m))
                                                  + Cardinality(Registered(m))
    BY <1>1, <1>6 DEF RefcountExact, Registered, Dependants, Exists
  <2>2. refcount[m] = handles[m] + Cardinality(CountedMsgs(msgs, m))
                                 + Cardinality(Registered(m))
    BY DEF IInv, RefcountExact
  <2>3. Cardinality(CountedMsgs(msgs, m)) \in Nat /\ Cardinality(Registered(m)) \in Nat
    BY CountedNat, RegisteredNat, BoundAssumption DEF IInv
  <2>4. Cardinality(CountedMsgs(msgs', m)) =
          Cardinality(CountedMsgs(msgs, m)) + (IF m = c THEN 1 ELSE 0)
    BY <1>1, <1>3, <1>4, CountedAdd DEF IInv
  <2>5. QED BY <1>1, <2>2, <2>3, <2>4 DEF IInv, TypeOK
<1>13. QED
  BY <1>5, <1>7, <1>8, <1>9, <1>10, <1>11, <1>12 DEF IInv

\* The deletion of a manager hands its reference to its owner on to decref1.
LEMMA DestroyStep ==
  ASSUME IInv, TypeOK', NEW c \in Manager, Destroy(c)
  PROVE  IInv'
<1> DEFINE new == decref1(owner[c], c)
<1>1. /\ status[c] = "dying"
      /\ status' = [status EXCEPT ![c] = "freed"]
      /\ obj' = [obj EXCEPT ![c] = Null]
      /\ UNCHANGED <<next, home, robj, owner, refcount, handles>>
  BY DEF Destroy
<1>2. /\ new.type = "decref1" /\ new.mgr = owner[c] /\ new.from = c
      /\ Counted(new) = {owner[c]}
  BY DEF decref1, Counted
<1>3. /\ local(c) => msgs' = msgs
      /\ ~local(c) => msgs' = msgs \cup {new}
  BY DEF Destroy
<1>4. new \notin msgs
  BY <1>1, <1>2 DEF IInv, DecrefMsgs
<1>5. \A x \in msgs : \A m \in Counted(x) : m \in Manager => m # c
  BY <1>1, CountedIsLive
<1> HIDE DEF new
<1>6. IsFiniteSet(msgs')
  BY <1>3, FS_AddElement DEF IInv
<1>7. \A x : Pending(x)' <=> Pending(x)
  BY <1>2, <1>3 DEF Pending
<1>8. ~Pending(c)
  BY <1>5, MsgFields DEF Pending, IInv
<1>9. CountStatus'
  BY <1>1 DEF IInv, CountStatus, TypeOK
<1>10. \A m \in Manager : /\ status'[m] = "unborn" <=> status[m] = "unborn"
                          /\ status[m] = "freed" => status'[m] = "freed"
                          /\ Exists(m)' <=> Exists(m) /\ m # c
  BY <1>1 DEF IInv, TypeOK, Exists
<1>11. Structure'
  BY <1>1, <1>10 DEF IInv, Structure, local, TypeOK, ManagerPtr, Null
<1>12. ObjectMsgs'
  BY <1>1, <1>2, <1>3, <1>10, MsgFields DEF IInv, ObjectMsgs, local
<1>13. IncrefMsgs'
  BY <1>1, <1>2, <1>3 DEF IInv, IncrefMsgs
<1>14. DecrefMsgs'
  <2>1. SUFFICES ASSUME NEW x \in msgs', x.type = "decref1"
                 PROVE  /\ status'[x.from] # "unborn"
                        /\ ~Pending(x.from)
                        /\ owner[x.from] = x.mgr => status'[x.from] = "freed"
    BY <1>1, <1>7 DEF DecrefMsgs
  <2>2. CASE x \in msgs
    BY <1>10, <2>1, <2>2, MsgFields DEF IInv, DecrefMsgs
  <2>3. CASE x = new
    BY <1>1, <1>2, <1>8, <2>3 DEF IInv, TypeOK
  <2>4. QED BY <1>3, <2>2, <2>3
<1>15. RefcountExact'
  <2>1. SUFFICES ASSUME NEW m \in Manager
                 PROVE  refcount[m] = handles[m] + Cardinality(CountedMsgs(msgs', m))
                                                 + Cardinality(Registered(m)')
    BY <1>1 DEF RefcountExact
  <2>2. refcount[m] = handles[m] + Cardinality(CountedMsgs(msgs, m))
                                 + Cardinality(Registered(m))
    BY DEF IInv, RefcountExact
  <2>3. Registered(m)' = Registered(m) \ {c}
    BY <1>1, <1>7, <1>10 DEF Registered, Dependants
  <2>4. CASE ~local(c) /\ m = owner[c]
    <3>1. c \in Registered(m)
      BY <1>1, <1>8, <2>4 DEF Registered, Dependants, Exists
    <3>2. IsFiniteSet(Registered(m)) /\ Cardinality(Registered(m)) \in Nat
      BY RegisteredNat, BoundAssumption
    <3>3. Cardinality(Registered(m)') = Cardinality(Registered(m)) - 1
      BY <2>3, <3>1, <3>2, FS_RemoveElement
    <3>4. Cardinality(CountedMsgs(msgs', m)) = Cardinality(CountedMsgs(msgs, m)) + 1
      BY <1>2, <1>3, <1>4, <2>4, CountedAdd DEF IInv
    <3>5. Cardinality(CountedMsgs(msgs, m)) \in Nat
      BY CountedNat DEF IInv
    <3>6. QED BY <2>2, <3>2, <3>3, <3>4, <3>5 DEF IInv, TypeOK
  <2>5. CASE local(c) \/ m # owner[c]
    <3>1. Registered(m)' = Registered(m)
      BY <2>3, <2>5 DEF Registered, Dependants, local, Manager, Null
    <3>2. Cardinality(CountedMsgs(msgs', m)) = Cardinality(CountedMsgs(msgs, m))
      <4>1. CASE local(c)
        BY <1>3, <4>1
      <4>2. CASE ~local(c) /\ m # owner[c]
        <5>1. Cardinality(CountedMsgs(msgs', m)) =
                Cardinality(CountedMsgs(msgs, m)) + 0
          BY <1>2, <1>3, <1>4, <4>2, CountedAdd DEF IInv
        <5>2. QED BY <5>1, CountedNat DEF IInv
      <4>3. QED BY <2>5, <4>1, <4>2
    <3>3. QED BY <2>2, <3>1, <3>2
  <2>6. QED BY <2>4, <2>5
<1>16. QED
  BY <1>6, <1>9, <1>11, <1>12, <1>13, <1>14, <1>15 DEF IInv

\* What the three ways to load an object message have in common: the fresh
\* manager n and everything but msgs and the counts.
LEMMA ConstructFacts ==
  ASSUME IInv, NEW x \in msgs, x.type = "object"
  PROVE  /\ x.id \in Manager /\ status[x.id] = "unborn" /\ x.id < next
         /\ x.dest \in Proc
         /\ x.origin \in Manager /\ status[x.origin] = "live" /\ x.origin < x.id
         /\ x.owner \in Manager /\ status[x.owner] = "live" /\ local(x.owner)
         /\ x.robj = robj[x.owner] /\ x.robj \in Manager /\ status[x.robj] # "unborn"
         /\ home[x.robj] = home[x.owner]
         /\ x.owner # x.origin =>
              /\ owner[x.origin] = x.owner
              /\ home[x.owner] # home[x.origin]
         /\ Counted(x) = {x.origin}
         /\ ~Pending(x.id)
         /\ \A y \in msgs : \A m \in Counted(y) : m \in Manager => m # x.id
<1>1. /\ x.id \in Manager /\ x.dest \in Proc /\ x.origin \in Manager
      /\ x.owner \in Manager /\ Counted(x) = {x.origin}
  BY MsgFields DEF IInv
<1>2. /\ status[x.id] = "unborn" /\ x.id < next /\ x.origin < x.id
      /\ x.robj = robj[x.origin]
      /\ x.owner = IF local(x.origin) THEN x.origin ELSE owner[x.origin]
  BY DEF IInv, ObjectMsgs
<1>3. status[x.origin] = "live"
  BY <1>1, CountedIsLive
<1>4. status[x.owner] = "live"
  BY <1>1, <1>2, <1>3, OwnerIsLive DEF Exists
<1>5. /\ local(x.owner) /\ x.robj = robj[x.owner]
      /\ x.owner # x.origin => home[x.owner] # home[x.origin]
  BY <1>1, <1>2, <1>3 DEF IInv, Structure
<1>6. /\ x.robj \in Manager /\ status[x.robj] # "unborn"
      /\ home[x.robj] = home[x.owner]
  BY <1>1, <1>4, <1>5 DEF IInv, Structure
<1>7. \A y \in msgs : \A m \in Counted(y) : m \in Manager => m # x.id
  BY <1>1, <1>2, CountedIsLive
<1>8. ~Pending(x.id)
  BY <1>1, <1>7, MsgFields DEF Pending, IInv
<1>9. QED BY <1>1, <1>2, <1>3, <1>4, <1>5, <1>6, <1>7, <1>8

\* The parts of the invariant that do not speak about counts, for a load
\* that sends the messages in sent (at most one).
LEMMA ConstructStep ==
  ASSUME IInv, TypeOK', NEW x \in msgs, x.type = "object",
         NEW own, own \in {Null, x.owner}, NEW count \in {1, 2},
         Construct(x.id, x.dest, x.robj, own, count), next' = next,
         \/ own = Null /\ home[x.owner] = x.dest /\ obj' = [obj EXCEPT ![x.id] = obj[x.owner]]
         \/ own = x.owner /\ home[x.owner] # x.dest /\ obj' = obj
  PROVE  /\ CountStatus'
         /\ Structure'
         /\ \A y \in msgs \ {x} : y.type = "object" =>
              /\ y.id < next'
              /\ status'[y.id] = "unborn"
              /\ y.origin < y.id
              /\ y.robj = robj'[y.origin]
              /\ y.owner = IF local(y.origin)' THEN y.origin ELSE owner'[y.origin]
         /\ \A y \in msgs : y.type = "incref_then_decref2" =>
              /\ owner'[y.other1] = y.mgr
              /\ owner'[y.other2] = y.mgr
         /\ \A y \in msgs : y.type = "decref1" =>
              /\ y.from # x.id
              /\ status'[y.from] # "unborn"
              /\ ~Pending(y.from)
              /\ owner'[y.from] = y.mgr => status'[y.from] = "freed"
<1> DEFINE n == x.id
<1>1. /\ status' = [status EXCEPT ![n] = "live"]
      /\ home' = [home EXCEPT ![n] = x.dest]
      /\ robj' = [robj EXCEPT ![n] = x.robj]
      /\ owner' = [owner EXCEPT ![n] = own]
      /\ refcount' = [refcount EXCEPT ![n] = count]
      /\ handles' = [handles EXCEPT ![n] = 1]
  BY DEF Construct
<1>2. /\ n \in Manager /\ status[n] = "unborn" /\ n < next
      /\ x.dest \in Proc
      /\ x.owner \in Manager /\ status[x.owner] = "live" /\ local(x.owner)
      /\ x.robj = robj[x.owner] /\ x.robj \in Manager /\ status[x.robj] # "unborn"
      /\ home[x.robj] = home[x.owner]
      /\ \A y \in msgs : \A m \in Counted(y) : m \in Manager => m # n
  BY ConstructFacts
<1> HIDE DEF n
<1>3. CountStatus'
  BY <1>1, <1>2 DEF IInv, CountStatus, TypeOK
<1>4. Structure'
  <2>1. SUFFICES ASSUME NEW m \in Manager
                 PROVE  Structure!(m)'
    BY DEF Structure
  <2>2. CASE m = n
    <3>1. m < next /\ m \in Nat /\ next \in Nat
      BY <1>2, <2>2, BoundAssumption DEF IInv, TypeOK, Manager
    <3>2. x.owner # n /\ x.robj # n /\ x.owner # Null
      BY <1>2 DEF Manager, Null
    <3>3. obj[x.owner] = x.robj /\ obj[n] = Null
      BY <1>2 DEF IInv, Structure, Exists
    <3>4. CASE own = Null
      BY <1>1, <1>2, <2>2, <3>1, <3>2, <3>3, <3>4 DEF IInv, TypeOK, local, Exists, n
    <3>5. CASE own = x.owner
      BY <1>1, <1>2, <2>2, <3>1, <3>2, <3>3, <3>5 DEF IInv, TypeOK, local, Exists, n
    <3>6. QED BY <3>4, <3>5
  <2>3. CASE m # n
    <3>1. m >= next' => status'[m] = "unborn"
      BY <1>1, <2>3 DEF IInv, Structure, TypeOK
    <3>2. status[m] # "unborn" =>
            /\ robj[m] # n
            /\ ~local(m) => owner[m] \in Manager /\ owner[m] # n
      BY <1>2 DEF IInv, Structure, TypeOK, local, ManagerPtr
    <3>3. obj'[m] = obj[m]
      BY <1>2, <2>3 DEF IInv, TypeOK, n
    <3>4. QED
      BY <1>1, <2>3, <3>1, <3>2, <3>3 DEF IInv, Structure, TypeOK, local, Exists
  <2>4. QED BY <2>2, <2>3
<1>5. ASSUME NEW y \in msgs \ {x}, y.type = "object"
      PROVE  /\ y.id < next'
             /\ status'[y.id] = "unborn"
             /\ y.origin < y.id
             /\ y.robj = robj'[y.origin]
             /\ y.owner = IF local(y.origin)' THEN y.origin ELSE owner'[y.origin]
  <2>1. y.id \in Manager /\ y.origin \in Manager /\ y.origin # n
    BY <1>2, <1>5, MsgFields DEF IInv
  <2>2. y.id # n
    BY <1>5 DEF IInv, ObjectMsgs, n
  <2>3. QED BY <1>1, <1>5, <2>1, <2>2 DEF IInv, ObjectMsgs, TypeOK, local
<1>6. ASSUME NEW y \in msgs, y.type = "incref_then_decref2"
      PROVE  owner'[y.other1] = y.mgr /\ owner'[y.other2] = y.mgr
  <2>1. /\ y.other1 \in Manager /\ y.other1 # n
        /\ y.other2 \in Manager /\ y.other2 # n
    BY <1>2, <1>6, MsgFields DEF IInv
  <2>2. QED BY <1>1, <1>6, <2>1 DEF IInv, IncrefMsgs, TypeOK
<1>7. ASSUME NEW y \in msgs, y.type = "decref1"
      PROVE  /\ y.from # n
             /\ status'[y.from] # "unborn"
             /\ ~Pending(y.from)
             /\ owner'[y.from] = y.mgr => status'[y.from] = "freed"
  <2>1. /\ y.from \in Manager /\ status[y.from] # "unborn" /\ ~Pending(y.from)
        /\ owner[y.from] = y.mgr => status[y.from] = "freed"
    BY <1>7, MsgFields DEF IInv, DecrefMsgs
  <2>2. QED BY <1>1, <1>2, <2>1 DEF IInv, TypeOK
<1>8. QED BY <1>3, <1>4, <1>5, <1>6, <1>7 DEF n

\* The message's reference to origin becomes a decref1; n is a local manager.
LEMMA LoadAtOwnerStep ==
  ASSUME IInv, TypeOK', NEW x \in msgs, x.type = "object", LoadAtOwner(x)
  PROVE  IInv'
<1> DEFINE n == x.id
           new == decref1(x.origin, n)
           rest == msgs \ {x}
<1>1. /\ Construct(n, x.dest, x.robj, Null, 1)
      /\ home[x.owner] = x.dest
      /\ obj' = [obj EXCEPT ![n] = obj[x.owner]]
      /\ msgs' = rest \cup {new}
      /\ next' = next
  BY DEF LoadAtOwner
<1>2. /\ status' = [status EXCEPT ![n] = "live"]
      /\ owner' = [owner EXCEPT ![n] = Null]
      /\ refcount' = [refcount EXCEPT ![n] = 1]
      /\ handles' = [handles EXCEPT ![n] = 1]
  BY <1>1 DEF Construct
<1>3. /\ new.type = "decref1" /\ new.mgr = x.origin /\ new.from = n
      /\ Counted(new) = {x.origin}
  BY DEF decref1, Counted
<1>4. /\ n \in Manager /\ status[n] = "unborn" /\ ~Pending(n)
      /\ x.origin \in Manager
      /\ Counted(x) = {x.origin}
  BY ConstructFacts
<1>5. /\ CountStatus'
      /\ Structure'
      /\ \A y \in rest : y.type = "object" =>
           /\ y.id < next'
           /\ status'[y.id] = "unborn"
           /\ y.origin < y.id
           /\ y.robj = robj'[y.origin]
           /\ y.owner = IF local(y.origin)' THEN y.origin ELSE owner'[y.origin]
      /\ \A y \in msgs : y.type = "incref_then_decref2" =>
           /\ owner'[y.other1] = y.mgr
           /\ owner'[y.other2] = y.mgr
      /\ \A y \in msgs : y.type = "decref1" =>
           /\ y.from # n
           /\ status'[y.from] # "unborn"
           /\ ~Pending(y.from)
           /\ owner'[y.from] = y.mgr => status'[y.from] = "freed"
  BY <1>1, ConstructStep
<1> HIDE DEF n, new
<1>6. new \notin msgs
  BY <1>3, <1>5
<1>7. IsFiniteSet(rest) /\ IsFiniteSet(msgs')
  BY <1>1, FS_AddElement, FS_RemoveElement DEF IInv
<1>8. \A c : Pending(c)' <=> Pending(c)
  BY <1>1, <1>3 DEF Pending
<1>9. ObjectMsgs'
  BY <1>1, <1>3, <1>5 DEF IInv, ObjectMsgs
<1>10. IncrefMsgs'
  BY <1>1, <1>3, <1>5 DEF IInv, IncrefMsgs
<1>11. DecrefMsgs'
  <2>1. status'[n] = "live" /\ owner'[n] = Null /\ x.origin # Null
    BY <1>2, <1>4 DEF IInv, TypeOK, Manager, Null
  <2>2. QED BY <1>1, <1>3, <1>4, <1>5, <1>8, <2>1 DEF DecrefMsgs
<1>12. RefcountExact'
  <2>1. SUFFICES ASSUME NEW m \in Manager
                 PROVE  refcount'[m] = handles'[m] + Cardinality(CountedMsgs(msgs', m))
                                                   + Cardinality(Registered(m)')
    BY DEF RefcountExact
  <2>2. refcount[m] = handles[m] + Cardinality(CountedMsgs(msgs, m))
                                 + Cardinality(Registered(m))
    BY DEF IInv, RefcountExact
  <2>3. Registered(m)' = Registered(m)
    BY <1>2, <1>4, <1>8 DEF IInv, TypeOK, Registered, Dependants, Exists, Manager, Null
  <2>4. Cardinality(CountedMsgs(msgs', m)) = Cardinality(CountedMsgs(msgs, m))
    <3>1. Cardinality(CountedMsgs(rest, m)) =
            Cardinality(CountedMsgs(msgs, m)) - (IF m = x.origin THEN 1 ELSE 0)
      BY <1>4, CountedRemove DEF IInv
    <3>2. Cardinality(CountedMsgs(msgs', m)) =
            Cardinality(CountedMsgs(rest, m)) + (IF m = x.origin THEN 1 ELSE 0)
      <4>1. new \notin rest
        BY <1>6
      <4>2. Cardinality(CountedMsgs(rest \cup {new}, m)) =
              Cardinality(CountedMsgs(rest, m)) + (IF m \in Counted(new) THEN 1 ELSE 0)
        BY <1>7, <4>1, CountedAdd
      <4>3. QED BY <1>1, <1>3, <4>2
    <3>3. Cardinality(CountedMsgs(msgs, m)) \in Nat
      BY CountedNat DEF IInv
    <3>4. QED BY <3>1, <3>2, <3>3
  <2>5. CASE m # n
    BY <1>2, <2>2, <2>3, <2>4, <2>5 DEF IInv, TypeOK
  <2>6. CASE m = n
    BY <1>2, <1>4, <2>3, <2>4, <2>6, CountedIsLive DEF IInv, TypeOK
  <2>7. QED BY <2>5, <2>6
<1>13. QED
  BY <1>5, <1>7, <1>9, <1>10, <1>11, <1>12 DEF IInv

\* The reference to origin, and n's to itself, wait in the transfer message.
LEMMA LoadFromThirdStep ==
  ASSUME IInv, TypeOK', NEW x \in msgs, x.type = "object", LoadFromThird(x)
  PROVE  IInv'
<1> DEFINE n == x.id
           new == incref_then_decref2(x.owner, x.origin, n)
           rest == msgs \ {x}
<1>1. /\ Construct(n, x.dest, x.robj, x.owner, 2)
      /\ home[x.owner] # x.dest
      /\ home[x.owner] # home[x.origin]
      /\ msgs' = rest \cup {new}
      /\ next' = next /\ obj' = obj
  BY DEF LoadFromThird
<1>2. /\ status' = [status EXCEPT ![n] = "live"]
      /\ owner' = [owner EXCEPT ![n] = x.owner]
      /\ refcount' = [refcount EXCEPT ![n] = 2]
      /\ handles' = [handles EXCEPT ![n] = 1]
  BY <1>1 DEF Construct
<1>3. /\ new.type = "incref_then_decref2" /\ new.mgr = x.owner
      /\ new.other1 = x.origin /\ new.other2 = n
      /\ Counted(new) = {x.origin, n}
  BY DEF incref_then_decref2, Counted
<1>4. /\ n \in Manager /\ status[n] = "unborn" /\ ~Pending(n)
      /\ x.owner \in Manager /\ x.owner # x.origin
      /\ x.origin \in Manager /\ x.origin < n /\ x.origin # n
      /\ owner[x.origin] = x.owner
      /\ Counted(x) = {x.origin}
  <2>1. x.owner # x.origin
    BY <1>1
  <2>2. QED BY <2>1, ConstructFacts
<1>5. /\ CountStatus'
      /\ Structure'
      /\ \A y \in rest : y.type = "object" =>
           /\ y.id < next'
           /\ status'[y.id] = "unborn"
           /\ y.origin < y.id
           /\ y.robj = robj'[y.origin]
           /\ y.owner = IF local(y.origin)' THEN y.origin ELSE owner'[y.origin]
      /\ \A y \in msgs : y.type = "incref_then_decref2" =>
           /\ owner'[y.other1] = y.mgr
           /\ owner'[y.other2] = y.mgr
      /\ \A y \in msgs : y.type = "decref1" =>
           /\ y.from # n
           /\ status'[y.from] # "unborn"
           /\ ~Pending(y.from)
           /\ owner'[y.from] = y.mgr => status'[y.from] = "freed"
  BY <1>1, ConstructStep
<1> HIDE DEF n, new
<1>6. new \notin msgs
  BY <1>3, <1>4 DEF Pending
<1>7. IsFiniteSet(rest) /\ IsFiniteSet(msgs')
  BY <1>1, FS_AddElement, FS_RemoveElement DEF IInv
<1>8. \A c : Pending(c)' <=> Pending(c) \/ c = n
  BY <1>1, <1>3 DEF Pending
<1>9. ObjectMsgs'
  BY <1>1, <1>3, <1>5 DEF IInv, ObjectMsgs
<1>10. IncrefMsgs'
  <2>1. owner'[x.origin] = x.owner /\ owner'[n] = x.owner
    BY <1>2, <1>4 DEF IInv, TypeOK
  <2>2. \A y \in msgs : y.type = "incref_then_decref2" => y.other2 # n
    BY <1>4 DEF Pending
  <2>3. QED BY <1>1, <1>3, <1>4, <1>5, <2>1, <2>2 DEF IInv, IncrefMsgs
<1>11. DecrefMsgs'
  BY <1>1, <1>3, <1>5, <1>8 DEF DecrefMsgs
<1>12. RefcountExact'
  <2>1. SUFFICES ASSUME NEW m \in Manager
                 PROVE  refcount'[m] = handles'[m] + Cardinality(CountedMsgs(msgs', m))
                                                   + Cardinality(Registered(m)')
    BY DEF RefcountExact
  <2>2. refcount[m] = handles[m] + Cardinality(CountedMsgs(msgs, m))
                                 + Cardinality(Registered(m))
    BY DEF IInv, RefcountExact
  <2>3. Registered(m)' = Registered(m)
    BY <1>2, <1>4, <1>8 DEF IInv, TypeOK, Registered, Dependants, Exists
  <2>4. Cardinality(CountedMsgs(msgs', m)) =
          Cardinality(CountedMsgs(msgs, m)) + (IF m = n THEN 1 ELSE 0)
    <3>1. Cardinality(CountedMsgs(rest, m)) =
            Cardinality(CountedMsgs(msgs, m)) - (IF m = x.origin THEN 1 ELSE 0)
      BY <1>4, CountedRemove DEF IInv
    <3>2. Cardinality(CountedMsgs(msgs', m)) =
            Cardinality(CountedMsgs(rest, m)) + (IF m \in {x.origin, n} THEN 1 ELSE 0)
      <4>1. new \notin rest
        BY <1>6
      <4>2. Cardinality(CountedMsgs(rest \cup {new}, m)) =
              Cardinality(CountedMsgs(rest, m)) + (IF m \in Counted(new) THEN 1 ELSE 0)
        BY <1>7, <4>1, CountedAdd
      <4>3. QED BY <1>1, <1>3, <4>2
    <3>3. Cardinality(CountedMsgs(msgs, m)) \in Nat
      BY CountedNat DEF IInv
    <3>4. QED BY <1>4, <3>1, <3>2, <3>3
  <2>5. CASE m # n
    BY <1>2, <2>2, <2>3, <2>4, <2>5, CountedNat DEF IInv, TypeOK
  <2>6. CASE m = n
    BY <1>2, <1>4, <2>3, <2>4, <2>6, CountedIsLive DEF IInv, TypeOK
  <2>7. QED BY <2>5, <2>6
<1>13. QED
  BY <1>5, <1>7, <1>9, <1>10, <1>11, <1>12 DEF IInv

\* The message's reference to the owner becomes n's.
LEMMA LoadFromOwnerStep ==
  ASSUME IInv, TypeOK', NEW x \in msgs, x.type = "object", LoadFromOwner(x)
  PROVE  IInv'
<1> DEFINE n == x.id
           rest == msgs \ {x}
<1>1. /\ Construct(n, x.dest, x.robj, x.owner, 1)
      /\ home[x.owner] # x.dest
      /\ home[x.owner] = home[x.origin]
      /\ msgs' = rest
      /\ next' = next /\ obj' = obj
  BY DEF LoadFromOwner
<1>2. /\ status' = [status EXCEPT ![n] = "live"]
      /\ owner' = [owner EXCEPT ![n] = x.owner]
      /\ refcount' = [refcount EXCEPT ![n] = 1]
      /\ handles' = [handles EXCEPT ![n] = 1]
  BY <1>1 DEF Construct
<1>3. /\ n \in Manager /\ status[n] = "unborn" /\ ~Pending(n)
      /\ x.owner \in Manager /\ x.owner # n
      /\ Counted(x) = {x.owner}
  BY <1>1, ConstructFacts
<1>4. /\ CountStatus'
      /\ Structure'
      /\ \A y \in rest : y.type = "object" =>
           /\ y.id < next'
           /\ status'[y.id] = "unborn"
           /\ y.origin < y.id
           /\ y.robj = robj'[y.origin]
           /\ y.owner = IF local(y.origin)' THEN y.origin ELSE owner'[y.origin]
      /\ \A y \in msgs : y.type = "incref_then_decref2" =>
           /\ owner'[y.other1] = y.mgr
           /\ owner'[y.other2] = y.mgr
      /\ \A y \in msgs : y.type = "decref1" =>
           /\ y.from # n
           /\ status'[y.from] # "unborn"
           /\ ~Pending(y.from)
           /\ owner'[y.from] = y.mgr => status'[y.from] = "freed"
  BY <1>1, ConstructStep
<1> HIDE DEF n
<1>5. IsFiniteSet(msgs')
  BY <1>1, FS_RemoveElement DEF IInv
<1>6. \A c : Pending(c)' <=> Pending(c)
  BY <1>1 DEF Pending
<1>7. ObjectMsgs'
  BY <1>1, <1>4 DEF IInv, ObjectMsgs
<1>8. IncrefMsgs'
  BY <1>1, <1>4 DEF IInv, IncrefMsgs
<1>9. DecrefMsgs'
  BY <1>1, <1>4, <1>6 DEF DecrefMsgs
<1>10. RefcountExact'
  <2>1. SUFFICES ASSUME NEW m \in Manager
                 PROVE  refcount'[m] = handles'[m] + Cardinality(CountedMsgs(msgs', m))
                                                   + Cardinality(Registered(m)')
    BY DEF RefcountExact
  <2>2. refcount[m] = handles[m] + Cardinality(CountedMsgs(msgs, m))
                                 + Cardinality(Registered(m))
    BY DEF IInv, RefcountExact
  <2>3. Cardinality(CountedMsgs(msgs', m)) =
          Cardinality(CountedMsgs(msgs, m)) - (IF m = x.owner THEN 1 ELSE 0)
    BY <1>1, <1>3, CountedRemove DEF IInv
  <2>4. /\ Cardinality(CountedMsgs(msgs, m)) \in Nat
        /\ IsFiniteSet(Registered(m)) /\ Cardinality(Registered(m)) \in Nat
    BY CountedNat, RegisteredNat, BoundAssumption DEF IInv
  <2>5. Registered(m)' = IF m = x.owner THEN Registered(m) \cup {n} ELSE Registered(m)
    BY <1>2, <1>3, <1>6 DEF IInv, TypeOK, Registered, Dependants, Exists
  <2>6. n \notin Registered(m)
    BY <1>3 DEF Registered, Dependants, Exists
  <2>7. Cardinality(Registered(m)') =
          Cardinality(Registered(m)) + (IF m = x.owner THEN 1 ELSE 0)
    <3>1. CASE m = x.owner
      BY <2>4, <2>5, <2>6, <3>1, FS_AddElement
    <3>2. CASE m # x.owner
      BY <2>4, <2>5, <3>2
    <3>3. QED BY <3>1, <3>2
  <2>8. CASE m # n
    BY <1>2, <2>2, <2>3, <2>4, <2>7, <2>8 DEF IInv, TypeOK
  <2>9. CASE m = n
    BY <1>2, <1>3, <2>3, <2>7, <2>9, CountedIsLive DEF IInv, TypeOK
  <2>10. QED BY <2>8, <2>9
<1>11. QED
  BY <1>4, <1>5, <1>7, <1>8, <1>9, <1>10 DEF IInv

\* The owner counts other2, and both waiting references become decref1.
LEMMA RunIncrefStep ==
  ASSUME IInv, TypeOK', NEW x \in msgs, RunIncref(x)
  PROVE  IInv'
<1> DEFINE new1 == decref1(x.other1, x.other2)
           new2 == decref1(x.other2, x.other2)
           rest == msgs \ {x}
           rest1 == rest \cup {new1}
<1>1. /\ x.type = "incref_then_decref2"
      /\ refcount' = [refcount EXCEPT ![x.mgr] = @ + 1]
      /\ msgs' = rest1 \cup {new2}
      /\ UNCHANGED <<next, status, home, obj, robj, owner, handles>>
  BY DEF RunIncref, incref
<1>2. /\ x.mgr \in Manager /\ x.other1 \in Manager /\ x.other2 \in Manager
      /\ Counted(x) = {x.other1, x.other2}
  BY <1>1, MsgFields DEF IInv
<1>3. /\ owner[x.other1] = x.mgr /\ owner[x.other2] = x.mgr
      /\ x.other1 # x.other2
      /\ \A y \in rest : y.type = "incref_then_decref2" => y.other2 # x.other2
  BY <1>1, <1>2 DEF IInv, IncrefMsgs, Manager
<1>4. status[x.other1] = "live" /\ status[x.other2] = "live"
  BY <1>2, CountedIsLive
<1>5. /\ status[x.mgr] = "live"
      /\ x.mgr # x.other1 /\ x.mgr # x.other2
  <2>1. ~local(x.other1) /\ ~local(x.other2)
    BY <1>2, <1>3 DEF local, Manager, Null
  <2>2. local(x.mgr)
    BY <1>2, <1>3, <1>4, <2>1 DEF IInv, Structure
  <2>3. QED
    BY <1>2, <1>3, <1>4, <2>1, <2>2, OwnerIsLive DEF Exists
<1>6. /\ new1.type = "decref1" /\ new1.mgr = x.other1 /\ new1.from = x.other2
      /\ new2.type = "decref1" /\ new2.mgr = x.other2 /\ new2.from = x.other2
      /\ Counted(new1) = {x.other1} /\ Counted(new2) = {x.other2}
  BY DEF decref1, Counted
<1> HIDE DEF new1, new2
<1>7. new1 \notin rest /\ new2 \notin rest1
  <2>1. Pending(x.other2)
    BY <1>1 DEF Pending
  <2>2. \A y \in msgs : y.type = "decref1" => y.from # x.other2
    BY <2>1 DEF IInv, DecrefMsgs
  <2>3. new1 # new2
    BY <1>3, <1>6
  <2>4. QED BY <1>6, <2>2, <2>3
<1>8. IsFiniteSet(rest) /\ IsFiniteSet(rest1) /\ IsFiniteSet(msgs')
  BY <1>1, FS_AddElement, FS_RemoveElement DEF IInv
<1>9. \A c : Pending(c)' <=> Pending(c) /\ c # x.other2
  BY <1>1, <1>3, <1>6 DEF Pending
<1>10. CountStatus'
  BY <1>1, <1>2, <1>5 DEF IInv, CountStatus, TypeOK
<1>11. Structure'
  BY <1>1 DEF IInv, Structure, local, Exists
<1>12. ObjectMsgs'
  BY <1>1, <1>6 DEF IInv, ObjectMsgs, local
<1>13. IncrefMsgs'
  BY <1>1, <1>6 DEF IInv, IncrefMsgs
<1>14. DecrefMsgs'
  BY <1>1, <1>3, <1>4, <1>5, <1>6, <1>9 DEF IInv, DecrefMsgs
<1>15. RefcountExact'
  <2>1. SUFFICES ASSUME NEW m \in Manager
                 PROVE  refcount'[m] = handles[m] + Cardinality(CountedMsgs(msgs', m))
                                                  + Cardinality(Registered(m)')
    BY <1>1 DEF RefcountExact
  <2>2. refcount[m] = handles[m] + Cardinality(CountedMsgs(msgs, m))
                                 + Cardinality(Registered(m))
    BY DEF IInv, RefcountExact
  <2>3. /\ Cardinality(CountedMsgs(msgs, m)) \in Nat
        /\ IsFiniteSet(Registered(m)) /\ Cardinality(Registered(m)) \in Nat
    BY CountedNat, RegisteredNat, BoundAssumption DEF IInv
  <2>4. Cardinality(CountedMsgs(msgs', m)) = Cardinality(CountedMsgs(msgs, m))
    <3>1. Cardinality(CountedMsgs(rest, m)) =
            Cardinality(CountedMsgs(msgs, m))
              - (IF m \in {x.other1, x.other2} THEN 1 ELSE 0)
      BY <1>2, CountedRemove DEF IInv
    <3>2. Cardinality(CountedMsgs(rest1, m)) =
            Cardinality(CountedMsgs(rest, m)) + (IF m \in {x.other1} THEN 1 ELSE 0)
      BY <1>6, <1>7, <1>8, CountedAdd
    <3> HIDE DEF rest1
    <3>3. Cardinality(CountedMsgs(rest1 \cup {new2}, m)) =
            Cardinality(CountedMsgs(rest1, m)) + (IF m \in {x.other2} THEN 1 ELSE 0)
      BY <1>6, <1>7, <1>8, CountedAdd
    <3>4. QED BY <1>1, <1>3, <2>3, <3>1, <3>2, <3>3
  <2>5. Registered(m)' = IF m = x.mgr THEN Registered(m) \cup {x.other2} ELSE Registered(m)
    BY <1>1, <1>2, <1>3, <1>4, <1>9 DEF Registered, Dependants, Exists
  <2>6. x.other2 \notin Registered(m)
    BY <1>1 DEF Registered, Pending
  <2>7. Cardinality(Registered(m)') =
          Cardinality(Registered(m)) + (IF m = x.mgr THEN 1 ELSE 0)
    <3>1. CASE m = x.mgr
      BY <2>3, <2>5, <2>6, <3>1, FS_AddElement
    <3>2. CASE m # x.mgr
      BY <2>3, <2>5, <3>2
    <3>3. QED BY <3>1, <3>2
  <2>8. QED BY <1>1, <2>2, <2>3, <2>4, <2>7 DEF IInv, TypeOK
<1>16. QED
  BY <1>8, <1>10, <1>11, <1>12, <1>13, <1>14, <1>15 DEF IInv

\* A decref1 that arrives drops the reference it carried.
LEMMA RunDecrefStep ==
  ASSUME IInv, TypeOK', NEW x \in msgs, RunDecref(x)
  PROVE  IInv'
<1> DEFINE c == x.mgr
<1>1. /\ x.type = "decref1"
      /\ refcount' = [refcount EXCEPT ![c] = @ - 1]
      /\ status' = [status EXCEPT ![c] = IF refcount[c] = 1 THEN "dying" ELSE @]
      /\ msgs' = msgs \ {x}
      /\ UNCHANGED <<next, home, obj, robj, owner, handles>>
  BY DEF RunDecref, decref
<1>2. c \in Manager /\ Counted(x) = {c}
  BY <1>1, MsgFields DEF IInv
<1> HIDE DEF c
<1>3. status[c] = "live" /\ refcount[c] >= 1
  BY <1>2, CountedIsLive DEF IInv, CountStatus
<1>4. IsFiniteSet(msgs')
  BY <1>1, FS_RemoveElement DEF IInv
<1>5. CountStatus'
  BY <1>1, <1>2, <1>3 DEF IInv, CountStatus, TypeOK
<1>6. \A m \in Manager : /\ Exists(m)' <=> Exists(m)
                         /\ status'[m] = "unborn" <=> status[m] = "unborn"
                         /\ status'[m] = "freed" <=> status[m] = "freed"
  BY <1>1, <1>2, <1>3 DEF IInv, TypeOK, Exists
<1>7. \A m : Pending(m)' <=> Pending(m)
  BY <1>1 DEF Pending
<1>8. Structure'
  BY <1>1, <1>6 DEF IInv, Structure, local, TypeOK, ManagerPtr, Null
<1>9. ObjectMsgs'
  BY <1>1, <1>6, MsgFields DEF IInv, ObjectMsgs, local
<1>10. IncrefMsgs'
  BY <1>1 DEF IInv, IncrefMsgs
<1>11. DecrefMsgs'
  BY <1>1, <1>6, <1>7, MsgFields DEF IInv, DecrefMsgs
<1>12. RefcountExact'
  <2>1. SUFFICES ASSUME NEW m \in Manager
                 PROVE  refcount'[m] = handles[m] + Cardinality(CountedMsgs(msgs', m))
                                                  + Cardinality(Registered(m)')
    BY <1>1 DEF RefcountExact
  <2>2. Registered(m)' = Registered(m)
    BY <1>1, <1>6, <1>7 DEF Registered, Dependants
  <2>3. refcount[m] = handles[m] + Cardinality(CountedMsgs(msgs, m))
                                 + Cardinality(Registered(m))
    BY DEF IInv, RefcountExact
  <2>4. Cardinality(CountedMsgs(msgs, m)) \in Nat /\ Cardinality(Registered(m)) \in Nat
    BY CountedNat, RegisteredNat, BoundAssumption DEF IInv
  <2>5. Cardinality(CountedMsgs(msgs', m)) =
          Cardinality(CountedMsgs(msgs, m)) - (IF m = c THEN 1 ELSE 0)
    BY <1>1, <1>2, CountedRemove DEF IInv
  <2>6. QED BY <1>1, <2>2, <2>3, <2>4, <2>5 DEF IInv, TypeOK
<1>13. QED
  BY <1>4, <1>5, <1>8, <1>9, <1>10, <1>11, <1>12 DEF IInv

\* Every step preserves the invariant.
LEMMA IInvStep == IInv /\ [Next]_vars => IInv'
<1> SUFFICES ASSUME IInv, [Next]_vars PROVE IInv'
  OBVIOUS
<1>1. TypeOK'
  BY TypeStep DEF IInv
<1>2. CASE UNCHANGED vars
  BY <1>2 DEF vars, IInv, TypeOK, CountStatus, Structure, ObjectMsgs, IncrefMsgs,
              DecrefMsgs, RefcountExact, Registered, Dependants, Pending, Exists, local
<1>3. ASSUME NEW x \in msgs, Load(x) PROVE IInv'
  BY <1>1, <1>3, LoadAtOwnerStep, LoadFromThirdStep, LoadFromOwnerStep DEF Load
<1>4. CASE Deliver
  BY <1>1, <1>3, <1>4, RunIncrefStep, RunDecrefStep DEF Deliver
<1>5. QED
  BY <1>1, <1>2, <1>4, MakeSharedStep, CopyStep, ResetStep, SaveStep, DestroyStep
     DEF Next

-----------------------------------------------------------------------------
(* The theorems. *)

\* Every reachable state has well-formed managers, counts and messages.
THEOREM TypeCorrect == Spec => []TypeOK
  BY TypeInit, TypeStep, PTL DEF Spec

\* The invariant the other theorems rest on.
THEOREM Invariance == Spec => []IInv
  BY IInvInit, IInvStep, PTL DEF Spec

\* The count of a manager is exact in every reachable state, for any number
\* of processes, managers and shared_rptr.
THEOREM RefcountIsExact == Spec => []RefcountExact
<1>1. IInv => RefcountExact
  BY DEF IInv
<1>2. QED BY <1>1, Invariance, PTL

\* No task of the protocol ever dereferences a manager that was deleted, and
\* every remote manager's owner outlives it.
THEOREM NothingDangles == Spec => []NoDangling
<1>1. IInv => NoDangling
  <2> SUFFICES ASSUME IInv PROVE NoDangling
    OBVIOUS
  <2>1. ASSUME NEW x \in msgs, NEW m \in Counted(x) PROVE status[m] = "live"
    BY <2>1, MsgFields, CountedIsLive DEF IInv
  <2>2. ASSUME NEW x \in msgs, x.type = "object" PROVE status[x.owner] = "live"
    BY <2>2, ConstructFacts
  <2>3. ASSUME NEW x \in msgs, x.type = "incref_then_decref2"
        PROVE  status[x.mgr] = "live"
    <3>1. x.mgr \in Manager /\ x.other2 \in Manager /\ status[x.other2] = "live"
      BY <2>1, <2>3, MsgFields DEF IInv
    <3>2. owner[x.other2] = x.mgr /\ ~local(x.other2)
      BY <2>3, <3>1 DEF IInv, IncrefMsgs, local, Manager, Null
    <3>3. QED BY <3>1, <3>2, OwnerIsLive DEF Exists
  <2>4. \A c \in Manager : Exists(c) /\ ~local(c) => status[owner[c]] = "live"
    BY OwnerIsLive
  <2>5. QED BY <2>1, <2>2, <2>3, <2>4 DEF NoDangling
<1>2. QED BY <1>1, Invariance, PTL

\* Live managers, and so the shared_rptr and messages that count on them,
\* keep their object alive.
LEMMA EarlyFree == IInv => NoEarlyFree
<1> SUFFICES ASSUME IInv PROVE NoEarlyFree
  OBVIOUS
<1>1. ASSUME NEW m \in Manager, status[m] = "live" PROVE ObjectAlive(robj[m])
  <2>1. CASE local(m)
    BY <1>1, <2>1 DEF IInv, Structure, Exists, ObjectAlive
  <2>2. CASE ~local(m)
    <3>1. owner[m] \in Manager /\ status[owner[m]] = "live"
      BY <1>1, <2>2, OwnerIsLive DEF Exists
    <3>2. local(owner[m]) /\ robj[owner[m]] = robj[m]
      BY <1>1, <2>2 DEF IInv, Structure
    <3>3. obj[owner[m]] = robj[m]
      BY <3>1, <3>2 DEF IInv, Structure, Exists
    <3>4. QED BY <3>1, <3>3 DEF ObjectAlive
  <2>3. QED BY <2>1, <2>2
<1>2. \A m \in Manager : handles[m] > 0 => ObjectAlive(robj[m])
  BY <1>1, CountedIsLive
<1>3. ASSUME NEW x \in msgs, x.type = "object" PROVE ObjectAlive(x.robj)
  BY <1>1, <1>3, ConstructFacts
<1>4. QED BY <1>2, <1>3 DEF NoEarlyFree

\* An object is alive as long as any shared_rptr, on any process or under
\* way, refers to it.
THEOREM ObjectsOutliveHandles == Spec => []NoEarlyFree
  BY EarlyFree, Invariance, PTL

\* The invariant() that manager's constructors assert holds for its lifetime.
THEOREM ManagerInvariantHolds == Spec => []ManagerInvariant
<1>1. IInv => ManagerInvariant
  <2> SUFFICES ASSUME IInv, NEW m \in Manager, status[m] = "live"
               PROVE  ManagerInvariant!(m)
    BY DEF ManagerInvariant
  <2>1. refcount[m] >= 1
    BY DEF IInv, CountStatus
  <2>2. CASE local(m)
    BY <2>1, <2>2 DEF IInv, Structure, Exists
  <2>3. CASE ~local(m)
    <3>1. owner[m] \in Manager /\ status[owner[m]] = "live"
      BY <2>3, OwnerIsLive DEF Exists
    <3>2. /\ local(owner[m])
          /\ home[owner[m]] # home[m]
          /\ robj[owner[m]] = robj[m]
      BY <2>3 DEF IInv, Structure
    <3>3. home[robj[m]] = home[owner[m]]
      BY <3>1, <3>2 DEF IInv, Structure
    <3>4. obj[m] = Null
      BY <2>3 DEF IInv, Structure
    <3>5. QED BY <2>1, <2>3, <3>2, <3>3, <3>4
  <2>4. QED BY <2>2, <2>3
<1>2. QED BY <1>1, Invariance, PTL

\* A manager whose count is zero is never referred to again.
THEOREM NothingResurrects == Spec => NoResurrection
<1>1. IInv /\ IInv' /\ [Next]_vars =>
        [\A m \in Manager : status[m] \in {"dying", "freed"} => refcount'[m] = 0]_vars
  <2> SUFFICES ASSUME IInv, IInv', Next, NEW m \in Manager,
                      status[m] \in {"dying", "freed"}
               PROVE  refcount'[m] = 0
    BY DEF vars
  <2>1. status'[m] # "live"
    <3>1. next \in Manager => next # m
      BY DEF IInv, Structure, Manager
    <3>2. \A x \in msgs : x.type = "object" => x.id # m
      BY ConstructFacts
    <3>3. QED
      BY <3>1, <3>2 DEF Next, MakeShared, Copy, Reset, Save, Destroy, Deliver, Load,
         LoadAtOwner, LoadFromThird, LoadFromOwner, RunIncref, RunDecref,
         Construct, decref, IInv, TypeOK
  <2>2. QED BY <2>1 DEF IInv, CountStatus
<1>2. QED BY <1>1, Invariance, PTL DEF Spec, NoResurrection

-----------------------------------------------------------------------------
(***************************************************************************)
(* The refinement.  Every step of the protocol is a step of SharedObject,  *)
(* or leaves its phases and holders alone.                                 *)
(***************************************************************************)

\* An object has the name of the manager that first held it.
Names ==
  \A m \in Manager :
    IF status[m] = "unborn" THEN robj[m] = Null ELSE robj[robj[m]] = robj[m]

\* The two constructors of manager give it the name of an existing object or
\* its own; no other action touches a name.
LEMMA NamesStep == IInv /\ Names /\ [Next]_vars => Names'
<1> SUFFICES ASSUME IInv, Names, [Next]_vars PROVE Names'
  OBVIOUS
<1> DEFINE Same == /\ robj' = robj
                   /\ \A m \in Manager : status'[m] = "unborn" <=> status[m] = "unborn"
           Born(n, o) == /\ status' = [status EXCEPT ![n] = "live"]
                         /\ robj' = [robj EXCEPT ![n] = o]
<1>0. \A m \in Manager : status[m] # "unborn" => robj[m] \in Manager /\ status[robj[m]] # "unborn"
  BY DEF IInv, Structure
<1>1. ASSUME Same PROVE Names'
  BY <1>1 DEF Names
<1>2. ASSUME NEW n \in Manager, status[n] = "unborn", NEW o \in Manager,
             o = n \/ (status[o] # "unborn" /\ robj[o] = o), Born(n, o)
      PROVE  Names'
  <2>1. SUFFICES ASSUME NEW m \in Manager
                 PROVE  IF status'[m] = "unborn" THEN robj'[m] = Null
                                                 ELSE robj'[robj'[m]] = robj'[m]
    BY DEF Names
  <2>2. CASE m = n
    BY <1>2, <2>2 DEF IInv, TypeOK
  <2>3. CASE m # n
    BY <1>0, <1>2, <2>3 DEF IInv, TypeOK, Names
  <2>4. QED BY <2>2, <2>3
<1>3. ASSUME NEW p \in Proc, MakeShared(p) PROVE Names'
  <2>1. next \in Manager /\ status[next] = "unborn"
    BY <1>3 DEF MakeShared, IInv, Structure, Manager
  <2>2. Born(next, next)
    BY <1>3 DEF MakeShared, Construct
  <2>3. QED BY <1>2, <2>1, <2>2
<1>4. ASSUME NEW x \in msgs, Load(x) PROVE Names'
  <2>1. /\ x.id \in Manager /\ status[x.id] = "unborn"
        /\ x.owner \in Manager /\ status[x.owner] = "live"
        /\ x.robj = robj[x.owner] /\ x.robj \in Manager /\ status[x.robj] # "unborn"
    BY <1>4, ConstructFacts DEF Load
  <2>2. robj[x.robj] = x.robj
    BY <2>1 DEF Names
  <2>3. Born(x.id, x.robj)
    BY <1>4 DEF Load, LoadAtOwner, LoadFromThird, LoadFromOwner, Construct
  <2>4. QED BY <1>2, <2>1, <2>2, <2>3
<1>5. ASSUME NEW m \in Manager, Reset(m) PROVE Names'
  <2>1. status[m] = "live"
    BY <1>5, CountedIsLive DEF Reset
  <2>2. Same
    BY <1>5, <2>1 DEF Reset, decref, IInv, TypeOK
  <2>3. QED BY <1>1, <2>2
<1>6. ASSUME NEW x \in msgs, RunDecref(x) PROVE Names'
  <2>1. x.mgr \in Manager /\ status[x.mgr] = "live"
    BY <1>6, MsgFields, CountedIsLive DEF RunDecref, IInv
  <2>2. Same
    BY <1>6, <2>1 DEF RunDecref, decref, IInv, TypeOK
  <2>3. QED BY <1>1, <2>2
<1>7. ASSUME NEW m \in Manager, Destroy(m) PROVE Names'
  <2>1. Same
    BY <1>7 DEF Destroy, IInv, TypeOK
  <2>2. QED BY <1>1, <2>1
<1>8. ASSUME NEW m \in Manager, Copy(m) PROVE Names'
  BY <1>1, <1>8 DEF Copy
<1>9. ASSUME NEW m \in Manager, NEW p \in Proc, Save(m, p) PROVE Names'
  BY <1>1, <1>9 DEF Save
<1>10. ASSUME NEW x \in msgs, RunIncref(x) PROVE Names'
  BY <1>1, <1>10 DEF RunIncref
<1>11. CASE UNCHANGED vars
  BY <1>1, <1>11 DEF vars
<1>12. QED
  BY <1>3, <1>4, <1>5, <1>6, <1>7, <1>8, <1>9, <1>10, <1>11 DEF Next, Deliver

\* Who holds an object: the managers with shared_rptr, and the managers that
\* the messages under way will construct.
Holds(h, o) ==
  \/ h \in Manager /\ robj[h] = o /\ handles[h] > 0
  \/ \E x \in msgs : x.type = "object" /\ x.robj = o /\ x.id = h

\* Holds is what the mapping calls the holders of an object.
LEMMA HolderOf ==
  ASSUME NEW o \in Manager, NEW h
  PROVE  h \in holdersBar[o] <=> Holds(h, o)
  BY DEF holdersBar, Holds

\* The same, in the next state.
LEMMA HolderOfNext ==
  ASSUME NEW o \in Manager, NEW h
  PROVE  h \in holdersBar'[o] <=> Holds(h, o)'
  BY DEF holdersBar, Holds

\* An action that leaves every name and every object alone keeps the phases.
LEMMA SamePhase ==
  ASSUME \A o \in Manager : /\ robj'[o] = o <=> robj[o] = o
                            /\ ObjectAlive(o)' <=> ObjectAlive(o)
  PROVE  phaseBar' = phaseBar
  BY DEF phaseBar

\* An action that moves no reference keeps the holders.
LEMMA SameHolders ==
  ASSUME \A o \in Manager : \A h : Holds(h, o)' <=> Holds(h, o)
  PROVE  holdersBar' = holdersBar
<1>1. \A o \in Manager : holdersBar'[o] = holdersBar[o]
  BY HolderOf, HolderOfNext
<1>2. QED BY <1>1 DEF holdersBar

\* An action that changes who holds one object changes the mapping there.
LEMMA HoldersExcept ==
  ASSUME NEW o \in Manager, NEW S,
         \A h : Holds(h, o)' <=> h \in S,
         \A q \in Manager : q # o => \A h : Holds(h, q)' <=> Holds(h, q)
  PROVE  holdersBar' = [holdersBar EXCEPT ![o] = S]
<1>1. holdersBar'[o] = S
  BY HolderOfNext
<1>2. \A q \in Manager : q # o => holdersBar'[q] = holdersBar[q]
  BY HolderOf, HolderOfNext
<1>3. PICK f : f = holdersBar
  OBVIOUS
<1>4. PICK g : g = holdersBar'
  OBVIOUS
<1>5. f = [q \in Manager |-> f[q]]
  BY <1>3 DEF holdersBar
<1>6. g = [q \in Manager |-> g[q]]
  BY <1>4 DEF holdersBar
<1>7. \A q \in Manager : g[q] = IF q = o THEN S ELSE f[q]
  BY <1>1, <1>2, <1>3, <1>4
<1>8. g = [f EXCEPT ![o] = S]
  BY <1>5, <1>6, <1>7
<1>9. QED BY <1>3, <1>4, <1>8

-----------------------------------------------------------------------------

\* A new object is created with its first manager as its holder.
LEMMA MakeSharedCreates ==
  ASSUME IInv, Names, NEW p \in Proc, MakeShared(p)
  PROVE  Abstract!Create(next, next)
<1> PICK n \in Manager : n = next
  BY DEF MakeShared
<1>1. /\ status[n] = "unborn"
      /\ robj' = [robj EXCEPT ![n] = n]
      /\ obj' = [obj EXCEPT ![n] = n]
      /\ handles' = [handles EXCEPT ![n] = 1]
      /\ msgs' = msgs
  BY DEF MakeShared, Construct, IInv, Structure, Manager
<1>2. robj[n] # n /\ obj[n] = Null
  BY <1>1 DEF Names, IInv, Structure, Exists, Manager, Null
<1>3. \A m \in Manager : status[m] # "unborn" => robj[m] # n
  BY <1>1 DEF IInv, Structure
<1>4. \A h : ~Holds(h, n)
  BY <1>1, <1>3, CountedIsLive, ConstructFacts DEF Holds
<1>5. \A h : Holds(h, n)' <=> h \in {n}
  BY <1>1, <1>4 DEF Holds, IInv, TypeOK
<1>6. \A q \in Manager : q # n => \A h : Holds(h, q)' <=> Holds(h, q)
  <2>1. handles[n] = 0
    BY <1>1, CountedIsLive
  <2>2. QED BY <1>1, <2>1 DEF Holds, IInv, TypeOK
<1>7. holdersBar' = [holdersBar EXCEPT ![n] = {n}]
  BY <1>5, <1>6, HoldersExcept
<1>8. phaseBar' = [phaseBar EXCEPT ![n] = "alive"]
  <2>1. robj'[n] = n /\ ObjectAlive(n)'
    BY <1>1 DEF IInv, TypeOK, ObjectAlive
  <2>2. \A q \in Manager : q # n => /\ robj'[q] = q <=> robj[q] = q
                                    /\ ObjectAlive(q)' <=> ObjectAlive(q)
    BY <1>1, <1>2 DEF IInv, TypeOK, ObjectAlive, Manager, Null
  <2>3. QED BY <2>1, <2>2 DEF phaseBar
<1>9. phaseBar[n] = "none"
  BY <1>2 DEF phaseBar
<1>10. QED BY <1>7, <1>8, <1>9 DEF Abstract!Create

\* The last shared_rptr of a manager releases the object; another does not.
LEMMA ResetReleases ==
  ASSUME IInv, NEW m \in Manager, Reset(m)
  PROVE  \/ robj[m] \in Manager /\ Abstract!Release(robj[m], m)
         \/ UNCHANGED <<phaseBar, holdersBar>>
<1>1. /\ handles[m] > 0 /\ handles' = [handles EXCEPT ![m] = @ - 1]
      /\ UNCHANGED <<obj, robj, msgs>>
  BY DEF Reset
<1>2. phaseBar' = phaseBar
  BY <1>1 DEF phaseBar, ObjectAlive
<1>3. status[m] = "live" /\ robj[m] \in Manager
  BY <1>1, CountedIsLive DEF IInv, Structure
<1>4. CASE handles[m] = 1
  <2> PICK o \in Manager : o = robj[m]
    BY <1>3
  <2>1. Holds(m, o)
    BY <1>1 DEF Holds
  <2>2. \A x \in msgs : x.type = "object" => x.id # m
    BY <1>3, ConstructFacts
  <2>3. \A h : Holds(h, o)' <=> h \in holdersBar[o] \ {m}
    <3>1. \A h : Holds(h, o)' <=> Holds(h, o) /\ h # m
      BY <1>1, <1>4, <2>2 DEF Holds, IInv, TypeOK
    <3>2. QED BY <3>1, HolderOf
  <2>4. \A q \in Manager : q # o => \A h : Holds(h, q)' <=> Holds(h, q)
    BY <1>1 DEF Holds, IInv, TypeOK
  <2>5. holdersBar' = [holdersBar EXCEPT ![o] = @ \ {m}]
    BY <2>3, <2>4, HoldersExcept
  <2>6. m \in holdersBar[o]
    BY <2>1, HolderOf
  <2>7. QED BY <1>2, <2>5, <2>6 DEF Abstract!Release
<1>5. CASE handles[m] # 1
  <2>1. handles'[m] > 0
    BY <1>1, <1>5 DEF IInv, TypeOK
  <2>2. \A o \in Manager : \A h : Holds(h, o)' <=> Holds(h, o)
    BY <1>1, <2>1 DEF Holds, IInv, TypeOK
  <2>3. QED BY <1>2, <2>2, SameHolders
<1>6. QED BY <1>4, <1>5

\* A message that carries a shared_rptr shares the object with the manager
\* that it will construct.
LEMMA SaveShares ==
  ASSUME IInv, NEW m \in Manager, NEW p \in Proc, Save(m, p)
  PROVE  robj[m] \in Manager /\ next \in Manager /\ Abstract!Share(robj[m], next)
<1> PICK n \in Manager : n = next
  BY DEF Save
<1> DEFINE x == [type |-> "object", id |-> n, dest |-> p, robj |-> robj[m],
                 owner |-> IF local(m) THEN m ELSE owner[m], origin |-> m]
<1>1. /\ msgs' = msgs \cup {x}
      /\ x.type = "object" /\ x.id = n /\ x.robj = robj[m]
  BY DEF Save
<1> HIDE DEF x
<1>2. handles[m] > 0 /\ UNCHANGED <<obj, robj, handles>>
  BY DEF Save
<1>3. phaseBar' = phaseBar
  BY <1>2 DEF phaseBar, ObjectAlive
<1>4. robj[m] \in Manager
  BY <1>2, CountedIsLive DEF IInv, Structure
<1> PICK o \in Manager : o = robj[m]
  BY <1>4
<1>5. \A h : Holds(h, o)' <=> h \in holdersBar[o] \cup {n}
  <2>1. \A h : Holds(h, o)' <=> Holds(h, o) \/ h = n
    BY <1>1, <1>2 DEF Holds
  <2>2. QED BY <2>1, HolderOf
<1>6. \A q \in Manager : q # o => \A h : Holds(h, q)' <=> Holds(h, q)
  BY <1>1, <1>2 DEF Holds
<1>7. holdersBar' = [holdersBar EXCEPT ![o] = @ \cup {n}]
  BY <1>5, <1>6, HoldersExcept
<1>8. m \in holdersBar[o]
  BY <1>2, HolderOf DEF Holds
<1>9. QED BY <1>3, <1>7, <1>8 DEF Abstract!Share

\* A message that arrives becomes the manager it stood for.
LEMMA LoadStutters ==
  ASSUME IInv, Names, NEW x \in msgs, Load(x)
  PROVE  UNCHANGED <<phaseBar, holdersBar>>
<1>0. x.type = "object"
  BY DEF Load
<1> PICK n \in Manager : n = x.id
  BY <1>0, ConstructFacts
<1>1. /\ status[n] = "unborn"
      /\ x.owner \in Manager /\ status[x.owner] = "live"
      /\ x.robj \in Manager /\ status[x.robj] # "unborn"
  BY <1>0, ConstructFacts
<1>2. /\ robj' = [robj EXCEPT ![n] = x.robj]
      /\ handles' = [handles EXCEPT ![n] = 1]
  BY DEF Load, LoadAtOwner, LoadFromThird, LoadFromOwner, Construct
<1>3. robj[n] = Null /\ obj[n] = Null /\ handles[n] = 0
  BY <1>1, CountedIsLive DEF Names, IInv, Structure, Exists
<1>4. obj' = obj \/ obj' = [obj EXCEPT ![n] = obj[x.owner]]
  BY DEF Load, LoadAtOwner, LoadFromThird, LoadFromOwner
<1>5. \A o \in Manager : /\ robj'[o] = o <=> robj[o] = o
                         /\ ObjectAlive(o)' <=> ObjectAlive(o)
  <2> TAKE o \in Manager
  <2>1. robj'[o] = o <=> robj[o] = o
    BY <1>1, <1>2, <1>3 DEF IInv, TypeOK, Manager, Null
  <2>2. n # x.owner /\ o # Null
    BY <1>1 DEF Manager, Null
  <2>3. ObjectAlive(o)' <=> ObjectAlive(o)
    BY <1>1, <1>3, <1>4, <2>2 DEF IInv, TypeOK, ObjectAlive
  <2>4. QED BY <2>1, <2>3
<1>6. \A y : y.type = "object" => (y \in msgs' <=> y \in msgs /\ y # x)
  BY DEF Load, LoadAtOwner, LoadFromThird, LoadFromOwner, decref1, incref_then_decref2
<1>7. \A y \in msgs : y.type = "object" /\ y.id = n => y = x
  BY <1>0 DEF IInv, ObjectMsgs
<1>8. \A o \in Manager : \A h : Holds(h, o)' <=> Holds(h, o)
  <2> TAKE o \in Manager
  <2> TAKE h
  <2>1. CASE h = n
    BY <1>0, <1>2, <1>3, <1>6, <1>7, <2>1 DEF Holds, IInv, TypeOK
  <2>2. CASE h # n
    BY <1>2, <1>6, <2>2 DEF Holds, IInv, TypeOK
  <2>3. QED BY <2>1, <2>2
<1>9. QED BY <1>5, <1>8, SamePhase, SameHolders

\* The deletion of the last manager that keeps an object alive reclaims it,
\* and nobody holds it by then.
LEMMA DestroyReclaims ==
  ASSUME IInv, IInv', Names, NEW m \in Manager, Destroy(m)
  PROVE  \/ \E o \in Manager : Abstract!Reclaim(o)
         \/ UNCHANGED <<phaseBar, holdersBar>>
<1>1. /\ status[m] = "dying" /\ obj' = [obj EXCEPT ![m] = Null]
      /\ UNCHANGED <<robj, handles>>
  BY DEF Destroy
<1>2. \A x : x.type = "object" => (x \in msgs' <=> x \in msgs)
  BY DEF Destroy, decref1
<1>3. \A o \in Manager : \A h : Holds(h, o)' <=> Holds(h, o)
  BY <1>1, <1>2 DEF Holds
<1>4. holdersBar' = holdersBar
  BY <1>3, SameHolders
<1>5. \A o \in Manager : o # obj[m] => (ObjectAlive(o)' <=> ObjectAlive(o))
  BY <1>1 DEF ObjectAlive, IInv, TypeOK, Manager, Null
<1>6. NoEarlyFree'
  BY EarlyFree, PTL
<1>7. ASSUME NEW o \in Manager, o = obj[m], ~ObjectAlive(o)'
      PROVE  Abstract!Reclaim(o)
  <2>1. o = robj[m] /\ robj[o] = o /\ ObjectAlive(o)
    BY <1>1, <1>7 DEF IInv, Structure, Names, ObjectAlive, Manager, Null
  <2>2. \A h : ~Holds(h, o)'
    BY <1>6, <1>7 DEF NoEarlyFree, Holds
  <2>3. holdersBar[o] = {}
    BY <1>3, <2>2, HolderOf
  <2>4. phaseBar[o] = "alive"
    BY <2>1 DEF phaseBar
  <2>5. phaseBar' = [phaseBar EXCEPT ![o] = "freed"]
    BY <1>1, <1>5, <1>7, <2>1 DEF phaseBar
  <2>6. QED BY <1>4, <2>3, <2>4, <2>5 DEF Abstract!Reclaim
<1>8. ASSUME \A o \in Manager : o = obj[m] => ObjectAlive(o)'
      PROVE  phaseBar' = phaseBar
  <2>1. \A o \in Manager : ObjectAlive(o)' => ObjectAlive(o)
    BY <1>1 DEF ObjectAlive, IInv, TypeOK, Manager, Null
  <2>2. \A o \in Manager : o = obj[m] => ObjectAlive(o)
    BY DEF ObjectAlive
  <2>3. \A o \in Manager : ObjectAlive(o)' <=> ObjectAlive(o)
    BY <1>5, <1>8, <2>1, <2>2
  <2>4. QED BY <1>1, <2>3, SamePhase
<1>9. QED BY <1>4, <1>7, <1>8

\* A step of the protocol is one of SharedObject's, or none.
LEMMA StepRefines ==
  IInv /\ IInv' /\ Names /\ [Next]_vars => [Abstract!Next]_<<phaseBar, holdersBar>>
<1> SUFFICES ASSUME IInv, IInv', Names, [Next]_vars
             PROVE  Abstract!Next \/ UNCHANGED <<phaseBar, holdersBar>>
  OBVIOUS
<1>1. ASSUME NEW p \in Proc, MakeShared(p) PROVE Abstract!Next
  <2>1. next \in Manager
    BY <1>1 DEF MakeShared
  <2>2. Abstract!Create(next, next)
    BY <1>1, MakeSharedCreates
  <2>3. QED BY <2>1, <2>2 DEF Abstract!Next
<1>2. ASSUME NEW m \in Manager, Copy(m) PROVE UNCHANGED <<phaseBar, holdersBar>>
  <2>1. UNCHANGED <<obj, robj, msgs>>
    BY <1>2 DEF Copy
  <2>2. \A h \in Manager : handles'[h] > 0 <=> handles[h] > 0
    BY <1>2, BoundAssumption DEF Copy, IInv, TypeOK
  <2>3. phaseBar' = phaseBar
    BY <2>1 DEF phaseBar, ObjectAlive
  <2>4. holdersBar' = holdersBar
    BY <2>1, <2>2, SameHolders DEF Holds
  <2>5. QED BY <2>3, <2>4
<1>3. ASSUME NEW m \in Manager, Reset(m)
      PROVE  Abstract!Next \/ UNCHANGED <<phaseBar, holdersBar>>
  BY <1>3, ResetReleases DEF Abstract!Next
<1>4. ASSUME NEW m \in Manager, NEW p \in Proc, Save(m, p) PROVE Abstract!Next
  BY <1>4, SaveShares DEF Abstract!Next
<1>5. ASSUME NEW m \in Manager, Destroy(m)
      PROVE  Abstract!Next \/ UNCHANGED <<phaseBar, holdersBar>>
  BY <1>5, DestroyReclaims DEF Abstract!Next
<1>6. ASSUME NEW x \in msgs, Load(x) PROVE UNCHANGED <<phaseBar, holdersBar>>
  BY <1>6, LoadStutters
<1>7. ASSUME NEW x \in msgs, RunIncref(x) \/ RunDecref(x)
      PROVE  UNCHANGED <<phaseBar, holdersBar>>
  <2>1. UNCHANGED <<obj, robj, handles>>
    BY <1>7 DEF RunIncref, RunDecref
  <2>2. \A y : y.type = "object" => (y \in msgs' <=> y \in msgs)
    BY <1>7 DEF RunIncref, RunDecref, decref1
  <2>3. phaseBar' = phaseBar
    BY <2>1 DEF phaseBar, ObjectAlive
  <2>4. holdersBar' = holdersBar
    BY <2>1, <2>2, SameHolders DEF Holds
  <2>5. QED BY <2>3, <2>4
<1>8. CASE UNCHANGED vars
  BY <1>8 DEF vars, phaseBar, holdersBar, ObjectAlive
<1>9. QED
  BY <1>1, <1>2, <1>3, <1>4, <1>5, <1>6, <1>7, <1>8 DEF Next, Deliver

\* The protocol implements the abstract object for every number of processes,
\* managers and shared_rptr: an object is made once, is handed on only by a
\* holder, and is freed only after its last shared_rptr is gone, wherever that
\* was and in whatever order the messages ran.
THEOREM ImplementsObject == Spec => Abstract!SafeSpec
<1>1. Init => Abstract!Init
  <2> SUFFICES ASSUME Init PROVE Abstract!Init
    OBVIOUS
  <2>1. \A o \in Manager : robj[o] # o /\ \A h : ~Holds(h, o)
    BY DEF Init, Holds, Manager, Null
  <2>2. \A o \in Manager : holdersBar[o] = {}
    BY <2>1, HolderOf
  <2>3. holdersBar = [o \in Manager |-> {}]
    BY <2>2 DEF holdersBar
  <2>4. phaseBar = [o \in Manager |-> "none"]
    BY <2>1 DEF phaseBar
  <2>5. QED BY <2>3, <2>4 DEF Abstract!Init
<1>2. Init => Names
  BY DEF Init, Names
<1>3. [Abstract!Next]_<<phaseBar, holdersBar>> => [Abstract!Next]_(Abstract!vars)
  BY DEF Abstract!vars
<1>4. QED
  BY <1>1, <1>2, <1>3, NamesStep, StepRefines, Invariance, PTL
     DEF Spec, Abstract!SafeSpec

=============================================================================
