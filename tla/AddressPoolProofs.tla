-------------------------- MODULE AddressPoolProofs ---------------------------
(***************************************************************************)
(* Proofs about AddressPool for every number of handlers and every width   *)
(* of the counter, under EnoughAddresses where the counter must not wrap.  *)
(***************************************************************************)
EXTENDS AddressPool, FiniteSetTheorems, FunctionTheorems, SequenceTheorems, TLAPS

USE AddressAssumption DEF Address

(* The inductive invariant: the invariants of the pool, which support each  *)
(* other.  A reused address is nobody's because it was queued once, a fresh *)
(* one because the counter has passed all others, and it is in the client   *)
(* range because there are no more addresses than clients.                  *)
PoolInv ==
  /\ TypeOK
  /\ LeasesDistinct
  /\ AddressesConserved
  /\ m_NextFreeAddress \in FirstAddress..ReservedFrom
  /\ m_NextFreeAddress - FirstAddress <= Cardinality(Lessee)

(* Every step of the pool keeps the C++ types of its members. *)
THEOREM PoolTypeCorrect == Spec => []TypeOK
<1>1. Init => TypeOK
  BY DEF Init, TypeOK
<1>2. TypeOK /\ [Next]_vars => TypeOK'
  <2> SUFFICES ASSUME TypeOK, [Next]_vars
               PROVE  TypeOK'
    OBVIOUS
  <2>1. CASE UNCHANGED vars
    BY <2>1 DEF TypeOK, vars
  <2>2. ASSUME NEW c \in Lessee, m_AddressLease[c] = NoLease, LeaseFresh(c)
        PROVE  TypeOK'
    BY <2>2 DEF TypeOK, LeaseFresh
  <2>3. ASSUME NEW c \in Lessee, m_AddressLease[c] = NoLease, LeaseReclaimed(c)
        PROVE  TypeOK'
    BY <2>3 DEF TypeOK, LeaseReclaimed
  <2>4. ASSUME NEW c \in Lessee, ReleaseAddressLease(c)
        PROVE  TypeOK'
    BY <2>4 DEF TypeOK, ReleaseAddressLease
  <2>5. QED
    BY <2>1, <2>2, <2>3, <2>4 DEF Next, ObtainAddressLease
<1>3. QED
  BY <1>1, <1>2, PTL DEF Spec

(* The deque of reclaimed addresses: what is in it when it is empty, after   *)
(* push_back of an address it does not hold, and after pop_front.            *)
LEMMA EmptyQueue == Range(<<>>) = {}
BY EmptySeq, LenProperties DEF Range

LEMMA QueueElements ==
  ASSUME NEW S, NEW q \in Seq(S)
  PROVE  /\ Range(q) = {q[i] : i \in 1..Len(q)}
         /\ IsInjective(q) <=> \A i, j \in 1..Len(q) : q[i] = q[j] => i = j
BY LenProperties DEF Range, IsInjective

LEMMA PushBack ==
  ASSUME NEW S, NEW q \in Seq(S), NEW a \in S, IsInjective(q), a \notin Range(q)
  PROVE  /\ Range(Append(q, a)) = Range(q) \cup {a}
         /\ IsInjective(Append(q, a))
<1> DEFINE r == Append(q, a)
<1>1. /\ r \in Seq(S) /\ Len(r) = Len(q) + 1 /\ Len(q) \in Nat
      /\ \A i \in 1..Len(q) : r[i] = q[i]
      /\ r[Len(q) + 1] = a
  BY AppendProperties, LenProperties
<1>2. /\ Range(r) = {r[i] : i \in 1..Len(r)}
      /\ IsInjective(r) <=> \A i, j \in 1..Len(r) : r[i] = r[j] => i = j
  BY <1>1, QueueElements
<1> HIDE DEF r
<1>3. /\ Range(q) = {q[i] : i \in 1..Len(q)}
      /\ \A i, j \in 1..Len(q) : q[i] = q[j] => i = j
  BY QueueElements
<1>4. \A i \in 1..Len(r) : i \in 1..Len(q) \/ i = Len(q) + 1
  BY <1>1
<1>5. Range(r) = Range(q) \cup {a}
  <2>1. Range(r) \subseteq Range(q) \cup {a}
    BY <1>1, <1>2, <1>3, <1>4
  <2>2. Range(q) \cup {a} \subseteq Range(r)
    BY <1>1, <1>2, <1>3
  <2>3. QED
    BY <2>1, <2>2
<1>6. ASSUME NEW i \in 1..Len(r), NEW j \in 1..Len(r), r[i] = r[j]
      PROVE  i = j
  BY <1>1, <1>3, <1>4, <1>6
<1>7. QED
  BY <1>2, <1>5, <1>6 DEF r

LEMMA PopFront ==
  ASSUME NEW S, NEW q \in Seq(S), q # <<>>, IsInjective(q)
  PROVE  /\ Head(q) \in Range(q)
         /\ Range(Tail(q)) = Range(q) \ {Head(q)}
         /\ IsInjective(Tail(q))
<1> DEFINE r == Tail(q)
<1>1. /\ r \in Seq(S) /\ Len(q) \in Nat \ {0} /\ Len(r) = Len(q) - 1
      /\ \A i \in 1..Len(r) : r[i] = q[i + 1]
      /\ Head(q) = q[1]
  BY HeadTailProperties, LenProperties, EmptySeq
<1>2. /\ Range(r) = {r[i] : i \in 1..Len(r)}
      /\ IsInjective(r) <=> \A i, j \in 1..Len(r) : r[i] = r[j] => i = j
  BY <1>1, QueueElements
<1> HIDE DEF r
<1>3. /\ Range(q) = {q[i] : i \in 1..Len(q)}
      /\ \A i, j \in 1..Len(q) : q[i] = q[j] => i = j
  BY QueueElements
<1>4. Head(q) \in Range(q)
  BY <1>1, <1>3
<1>5. Range(r) = Range(q) \ {Head(q)}
  <2>1. \A i \in 1..Len(r) : r[i] \in Range(q) /\ r[i] # Head(q)
    BY <1>1, <1>3
  <2>2. \A i \in 1..Len(q) : i = 1 \/ (i - 1 \in 1..Len(r) /\ r[i - 1] = q[i])
    BY <1>1
  <2>3. Range(r) \subseteq Range(q) \ {Head(q)}
    BY <1>2, <2>1
  <2>4. ASSUME NEW x \in Range(q), x # Head(q)
        PROVE  x \in Range(r)
    <3>1. PICK i \in 1..Len(q) : x = q[i]
      BY <1>3
    <3>2. QED
      BY <1>1, <1>2, <2>2, <2>4, <3>1
  <2>5. QED
    BY <2>3, <2>4
<1>6. ASSUME NEW i \in 1..Len(r), NEW j \in 1..Len(r), r[i] = r[j]
      PROVE  i = j
  <2>1. i + 1 \in 1..Len(q) /\ j + 1 \in 1..Len(q) /\ q[i + 1] = q[j + 1]
    BY <1>1, <1>6
  <2>2. QED
    BY <1>3, <2>1
<1>7. QED
  BY <1>2, <1>4, <1>5, <1>6 DEF r

(* When a handler without a lease finds the queue empty, the counter has    *)
(* moved fewer times than there are handlers: all addresses made so far are *)
(* held by other handlers.                                                  *)
LEMMA RoomForAFreshAddress ==
  ASSUME PoolInv, NEW c \in Lessee, m_AddressLease[c] = NoLease,
         m_ReleasedAddresses = <<>>
  PROVE  m_NextFreeAddress - FirstAddress < Cardinality(Lessee)
<1> DEFINE Made == FirstAddress..(m_NextFreeAddress - 1)
           f == [x \in Leased |-> m_AddressLease[x]]
<1>1. LeasedAddresses = Made
  BY EmptyQueue DEF PoolInv, AddressesConserved, Released
<1>2. f \in Surjection(Leased, Made)
  <2>1. f \in [Leased -> Made]
    BY <1>1 DEF LeasedAddresses
  <2>2. \A a \in Made : \E x \in Leased : f[x] = a
    BY <1>1 DEF LeasedAddresses
  <2>3. QED
    BY <2>1, <2>2, Fun_IsSurj
<1>3. IsFiniteSet(Lessee \ {c}) /\ Cardinality(Lessee \ {c}) = Cardinality(Lessee) - 1
  BY FS_RemoveElement
<1>4. IsFiniteSet(Leased) /\ Cardinality(Leased) <= Cardinality(Lessee \ {c})
  <2>1. Leased \in SUBSET (Lessee \ {c})
    BY DEF Leased
  <2>2. QED
    BY <2>1, <1>3, FS_Subset
<1>5. Cardinality(Made) <= Cardinality(Leased)
  BY <1>2, <1>4, FS_Surjection
<1>6. Cardinality(Made) = m_NextFreeAddress - FirstAddress
  BY FS_Interval DEF PoolInv, TypeOK
<1>7. /\ Cardinality(Lessee) \in Nat
      /\ Cardinality(Leased) \in Nat
  BY <1>4, FS_CardinalityType
<1>8. QED
  BY <1>3, <1>4, <1>5, <1>6, <1>7 DEF PoolInv, TypeOK

(* The three ways a step can change the books keep the inductive invariant. *)
LEMMA FreshKeepsPoolInv ==
  ASSUME EnoughAddresses, PoolInv, NEW c \in Lessee,
         m_AddressLease[c] = NoLease, LeaseFresh(c)
  PROVE  PoolInv'
<1> USE DEF Leased, LeasedAddresses, Released
<1>1. /\ m_NextFreeAddress \in FirstAddress..(ReservedFrom - 1)
      /\ m_NextFreeAddress - FirstAddress + 1 <= Cardinality(Lessee)
  BY RoomForAFreshAddress, FS_CardinalityType
     DEF PoolInv, TypeOK, EnoughAddresses, LeaseFresh
<1>2. m_NextFreeAddress' = m_NextFreeAddress + 1
  BY <1>1 DEF LeaseFresh
<1>3. TypeOK'
  BY <1>1 DEF PoolInv, TypeOK, LeaseFresh
<1>4. m_NextFreeAddress \notin LeasedAddresses
  BY <1>1 DEF PoolInv, AddressesConserved
<1>5. LeasedAddresses' = LeasedAddresses \cup {m_NextFreeAddress}
  BY <1>1 DEF PoolInv, TypeOK, LeaseFresh
<1>6. LeasesDistinct'
  BY <1>1, <1>4 DEF PoolInv, TypeOK, LeasesDistinct, LeaseFresh
<1>7. AddressesConserved'
  <2>1. Released' = {} /\ Released = {}
    BY EmptyQueue DEF LeaseFresh
  <2>2. IsInjective(m_ReleasedAddresses)'
    BY DEF LeaseFresh, PoolInv, AddressesConserved
  <2>3. LeasedAddresses' = FirstAddress..(m_NextFreeAddress' - 1)
    BY <1>1, <1>2, <1>5, <2>1 DEF PoolInv, AddressesConserved
  <2>4. QED
    BY <2>1, <2>2, <2>3 DEF AddressesConserved
<1>8. QED
  BY <1>1, <1>2, <1>3, <1>6, <1>7 DEF PoolInv

LEMMA ReclaimKeepsPoolInv ==
  ASSUME PoolInv, NEW c \in Lessee, m_AddressLease[c] = NoLease, LeaseReclaimed(c)
  PROVE  PoolInv'
<1> DEFINE a == Head(m_ReleasedAddresses)
<1>1. /\ a \in Released
      /\ Released' = Released \ {a}
      /\ IsInjective(m_ReleasedAddresses)'
  BY PopFront DEF PoolInv, TypeOK, AddressesConserved, LeaseReclaimed, Released
<1>2. a \in Address /\ a \notin LeasedAddresses
  BY <1>1, HeadTailProperties DEF PoolInv, TypeOK, AddressesConserved, LeaseReclaimed
<1>3. TypeOK'
  BY <1>2, HeadTailProperties DEF PoolInv, TypeOK, LeaseReclaimed
<1> HIDE DEF a
<1>4. m_AddressLease' = [m_AddressLease EXCEPT ![c] = a] /\ m_NextFreeAddress' = m_NextFreeAddress
  BY DEF LeaseReclaimed, a
<1>5. Leased' = Leased \cup {c} /\ c \notin Leased
  BY <1>2, <1>4 DEF Leased, PoolInv, TypeOK
<1>6. LeasedAddresses' = LeasedAddresses \cup {a}
  BY <1>4, <1>5 DEF LeasedAddresses, Leased, PoolInv, TypeOK
<1>7. LeasesDistinct'
  BY <1>2, <1>4, <1>5 DEF LeasesDistinct, LeasedAddresses, Leased, PoolInv, TypeOK
<1>8. AddressesConserved'
  BY <1>1, <1>2, <1>4, <1>6 DEF PoolInv, AddressesConserved
<1>9. QED
  BY <1>3, <1>4, <1>7, <1>8 DEF PoolInv

LEMMA ReleaseKeepsPoolInv ==
  ASSUME PoolInv, NEW c \in Lessee, ReleaseAddressLease(c)
  PROVE  PoolInv'
<1> DEFINE a == m_AddressLease[c]
<1>1. a \in Address /\ a \in LeasedAddresses /\ a \notin Released
  BY DEF PoolInv, TypeOK, AddressesConserved, ReleaseAddressLease, LeasedAddresses, Leased
<1>2. /\ Released' = Released \cup {a}
      /\ IsInjective(m_ReleasedAddresses)'
      /\ m_ReleasedAddresses' \in Seq(Address)
  BY <1>1, PushBack, AppendProperties
     DEF PoolInv, TypeOK, AddressesConserved, ReleaseAddressLease, Released
<1>3. TypeOK'
  BY <1>2 DEF PoolInv, TypeOK, ReleaseAddressLease
<1>4. /\ m_AddressLease' = [m_AddressLease EXCEPT ![c] = NoLease]
      /\ m_NextFreeAddress' = m_NextFreeAddress
  BY DEF ReleaseAddressLease
<1>5. Leased' = Leased \ {c}
  BY <1>4 DEF Leased, PoolInv, TypeOK
<1>6. LeasedAddresses' = LeasedAddresses \ {a}
  <2>1. \A d \in Leased : d # c => m_AddressLease[d] # a
    BY <1>1 DEF PoolInv, LeasesDistinct, ReleaseAddressLease, Leased
  <2>2. \A d \in Leased' : m_AddressLease'[d] = m_AddressLease[d]
    BY <1>4, <1>5 DEF PoolInv, TypeOK, Leased
  <2>3. QED
    BY <1>5, <2>1, <2>2 DEF LeasedAddresses
<1>7. LeasesDistinct'
  BY <1>4, <1>5 DEF LeasesDistinct, Leased, PoolInv, TypeOK
<1>8. AddressesConserved'
  BY <1>1, <1>2, <1>4, <1>6 DEF PoolInv, AddressesConserved
<1>9. QED
  BY <1>3, <1>4, <1>7, <1>8 DEF PoolInv

(* The inductive step of the invariant, and its base.                       *)
LEMMA InitPoolInv == Init => PoolInv
<1> SUFFICES ASSUME Init PROVE PoolInv
  OBVIOUS
<1>1. Leased = {} /\ LeasedAddresses = {} /\ Released = {}
  BY EmptyQueue DEF Init, Leased, LeasedAddresses, Released
<1>2. IsInjective(m_ReleasedAddresses)
  <2>1. <<>> \in Seq(Address) /\ Len(<<>>) = 0
    BY EmptySeq
  <2>2. \A i, j \in 1..Len(<<>>) : <<>>[i] = <<>>[j] => i = j
    BY <2>1
  <2>3. IsInjective(<<>>)
    BY <2>1, <2>2, QueueElements
  <2>4. QED
    BY <2>3 DEF Init
<1>3. TypeOK
  BY DEF Init, TypeOK
<1>4. Cardinality(Lessee) \in Nat
  BY FS_CardinalityType
<1>5. QED
  BY <1>1, <1>2, <1>3, <1>4 DEF Init, PoolInv, LeasesDistinct, AddressesConserved

LEMMA NextPoolInv ==
  ASSUME EnoughAddresses, PoolInv, [Next]_vars
  PROVE  PoolInv'
<1>1. CASE UNCHANGED vars
  BY <1>1 DEF vars, PoolInv, TypeOK, LeasesDistinct, AddressesConserved,
              Leased, LeasedAddresses, Released
<1>2. CASE Next
  BY <1>2, FreshKeepsPoolInv, ReclaimKeepsPoolInv, ReleaseKeepsPoolInv
     DEF Next, ObtainAddressLease
<1>3. QED
  BY <1>1, <1>2

(* As long as the client range has an address for every simultaneous        *)
(* client, the pool never loses, duplicates or doubly assigns an address,   *)
(* for every number of clients and every width of the counter.              *)
THEOREM PoolInvariant ==
  ASSUME EnoughAddresses
  PROVE  Spec => []PoolInv
BY InitPoolInv, NextPoolInv, PTL DEF Spec

(* No two connected clients ever hold the same address.                     *)
THEOREM LeasesAreDistinct ==
  ASSUME EnoughAddresses
  PROVE  Spec => []LeasesDistinct
<1>1. PoolInv => LeasesDistinct
  BY DEF PoolInv
<1>2. QED
  BY <1>1, PoolInvariant, PTL

(* Every address ever made is held by exactly one client or waits exactly   *)
(* once for reuse: none is lost and none is queued twice, in whatever order *)
(* the clients come and go.                                                 *)
THEOREM AddressesAreConserved ==
  ASSUME EnoughAddresses
  PROVE  Spec => []AddressesConserved
<1>1. PoolInv => AddressesConserved
  BY DEF PoolInv
<1>2. QED
  BY <1>1, PoolInvariant, PTL

(* The counter makes no more addresses than there are simultaneous clients, *)
(* so it neither wraps nor reaches the group addresses.                     *)
THEOREM CounterIsBounded ==
  ASSUME EnoughAddresses
  PROVE  Spec => []CounterBounded
<1>1. PoolInv => CounterBounded
  <2> SUFFICES ASSUME PoolInv PROVE CounterBounded
    OBVIOUS
  <2>1. LeasedAddresses \subseteq FirstAddress..(m_NextFreeAddress - 1)
    BY DEF PoolInv, AddressesConserved
  <2>2. QED
    BY <2>1 DEF PoolInv, CounterBounded, ClientAddress
<1>2. QED
  BY <1>1, PoolInvariant, PTL

(* Every step of the pool is one of the abstract allocator, or changes no   *)
(* lease: the address handed out is a free one of the client range.         *)
LEMMA StepSimulation ==
  ASSUME PoolInv, PoolInv', [Next]_vars
  PROVE  [Allocator!Next]_m_AddressLease
<1>1. Allocator!InUse = LeasedAddresses
  BY DEF Allocator!InUse, LeasedAddresses, Leased
<1>2. CASE UNCHANGED vars
  BY <1>2 DEF vars
<1>3. ASSUME NEW c \in Lessee, ObtainAddressLease(c)
      PROVE  Allocator!Obtain(c)
  <2>1. PICK a \in Address : /\ m_AddressLease' = [m_AddressLease EXCEPT ![c] = a]
                             /\ a \notin LeasedAddresses
    <3>1. CASE LeaseFresh(c)
      <4>1. m_NextFreeAddress \in Address /\ m_NextFreeAddress \notin LeasedAddresses
        BY DEF PoolInv, TypeOK, AddressesConserved
      <4>2. QED
        BY <3>1, <4>1 DEF LeaseFresh
    <3>2. CASE LeaseReclaimed(c)
      <4> DEFINE a == Head(m_ReleasedAddresses)
      <4>1. a \in Released
        BY <3>2, PopFront DEF PoolInv, TypeOK, AddressesConserved, LeaseReclaimed, Released
      <4>2. a \in Address
        BY <3>2, HeadTailProperties DEF PoolInv, TypeOK, LeaseReclaimed
      <4>3. a \notin LeasedAddresses
        BY <4>1 DEF PoolInv, AddressesConserved
      <4>4. QED
        BY <3>2, <4>2, <4>3 DEF LeaseReclaimed
    <3>3. QED
      BY <1>3, <3>1, <3>2 DEF ObtainAddressLease
  <2>2. a \in LeasedAddresses'
    BY <1>3, <2>1 DEF PoolInv, TypeOK, LeasedAddresses, Leased
  <2>3. a \in ClientAddress
    BY <2>2 DEF PoolInv, AddressesConserved, ClientAddress
  <2>4. QED
    BY <1>1, <1>3, <2>1, <2>3 DEF Allocator!Obtain, ObtainAddressLease
<1>4. ASSUME NEW c \in Lessee, ReleaseAddressLease(c)
      PROVE  Allocator!Release(c)
  BY <1>4 DEF Allocator!Release, ReleaseAddressLease
<1>5. QED
  BY <1>2, <1>3, <1>4 DEF Next, Allocator!Next

(* The pool implements the abstract allocator for every number of clients   *)
(* that fits into the client range.                                         *)
THEOREM PoolImplementsAllocator ==
  ASSUME EnoughAddresses
  PROVE  Spec => ImplementsAllocator
<1>1. Init => Allocator!Init
  BY DEF Init, Allocator!Init
<1>2. QED
  BY <1>1, PoolInvariant, StepSimulation, PTL
     DEF Spec, ImplementsAllocator, Allocator!Spec
===============================================================================
