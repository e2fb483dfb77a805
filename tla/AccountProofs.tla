---------------------------- MODULE AccountProofs ----------------------------
(* Proofs about the ACME account, for any instances, keys and failures.    *)
EXTENDS Account, FiniteSetTheorems, TLAPS

(* Every state of Account has its type.                                    *)
THEOREM TypeCorrect == Spec => []AccountTypeOK
<1>1. Init => AccountTypeOK
  BY FaultsAssumption DEF Init, AccountTypeOK, Instance, Off
<1>2. AccountTypeOK /\ [Next]_accountVars => AccountTypeOK'
  <2> SUFFICES ASSUME AccountTypeOK, [Next]_accountVars
               PROVE  AccountTypeOK'
    OBVIOUS
  <2> USE DEF AccountTypeOK
  <2>1. CASE UNCHANGED accountVars
    BY <2>1 DEF accountVars
  <2>2. ASSUME NEW i \in Instances, Step(i) \/ Die(i)
        PROVE  AccountTypeOK'
    <3>1. ASSUME NoFault \/ Fault
          PROVE  faults' \in 0..MaxFaults
      BY <3>1, FaultsAssumption DEF NoFault, Fault
    <3>2. ASSUME NEW s \in Instance, Becomes(i, s)
          PROVE  inst' \in [Instances -> Instance]
      BY <3>2 DEF Becomes
    <3>3. Off \in Instance /\ Rest(inst[i]) \in Instance
      BY DEF Off, Rest, Instance
    <3>4. \A k \in Keys :
            /\ [pc |-> "storing", key |-> k] \in Instance
            /\ [pc |-> "confirm", key |-> k] \in Instance
      BY DEF Instance
    <3>5. CASE Load(i)
      <4>1. faults' \in 0..MaxFaults
        BY <3>1, <3>5 DEF Load
      <4>2. inst' \in [Instances -> Instance]
        <5>1. CASE \E k \in NewKeys : Becomes(i, [pc |-> "storing", key |-> k])
          BY <5>1, <3>2, <3>4 DEF NewKeys
        <5> QED BY <5>1, <3>2, <3>3, <3>5 DEF Load
      <4> QED BY <4>1, <4>2, <3>5 DEF Load
    <3>6. CASE Store(i)
      <4>1. inst[i].key \in Keys
        BY <3>6 DEF Store, Instance
      <4>2. faults' \in 0..MaxFaults
        BY <3>1, <3>6 DEF Store
      <4>3. inst' \in [Instances -> Instance]
        BY <3>2, <3>3, <3>6 DEF Store
      <4>4. stored' \in Keys \cup {NoKey, Torn}
        BY <4>1, <3>6 DEF Store, LeftBy
      <4> QED BY <4>2, <4>3, <4>4, <3>6 DEF Store
    <3>7. CASE ReadAccount(i)
      <4>1. faults' \in 0..MaxFaults
        BY <3>1, <3>7 DEF ReadAccount
      <4>2. inst' \in [Instances -> Instance]
        BY <3>2, <3>4, <3>7 DEF ReadAccount
      <4> QED BY <4>1, <4>2, <3>7 DEF ReadAccount
    <3>8. CASE Confirm(i)
      <4>1. faults' \in 0..MaxFaults
        BY <3>1, <3>8 DEF Confirm
      <4>2. ASSUME NEW k \in {"order", "register"}, Goes(i, k)
            PROVE  inst' \in [Instances -> Instance]
        BY <4>2, <3>8 DEF Goes, Confirm, Instance
      <4>3. inst' \in [Instances -> Instance]
        BY <4>2, <3>2, <3>3, <3>8 DEF Confirm
      <4> QED BY <4>1, <4>3, <3>8 DEF Confirm
    <3>9. CASE Register(i)
      <4>1. faults' \in 0..MaxFaults
        BY <3>1, <3>9 DEF Register
      <4>2. inst[i].key \in Keys
        BY <3>9 DEF Register, Instance
      <4>3. ASSUME Goes(i, "order")
            PROVE  inst' \in [Instances -> Instance]
        BY <4>3, <4>2 DEF Goes, Instance
      <4>4. inst' \in [Instances -> Instance]
        BY <4>3, <3>2, <3>3, <3>9 DEF Register
      <4> QED BY <4>1, <4>2, <4>4, <3>9 DEF Register
    <3>10. CASE PlaceOrder(i)
      BY <3>2, <3>3, <3>10 DEF PlaceOrder
    <3>11. CASE Die(i)
      BY <3>2, <3>3, <3>11 DEF Die
    <3> QED BY <2>2, <3>5, <3>6, <3>7, <3>8, <3>9, <3>10, <3>11 DEF Step
  <2> QED BY <2>1, <2>2 DEF Next
<1> QED BY <1>1, <1>2, PTL DEF Spec

-----------------------------------------------------------------------------
(* The constructors that are about to store a key. *)
Storing == {i \in Instances : inst[i].pc = "storing"}

(* Nothing is registered or about to be ordered with that was not stored.  *)
OrderedAsStored ==
  /\ registered \subseteq written
  /\ \A i \in Instances :
       inst[i].pc \in {"confirm", "register", "order"} => inst[i].key \in written

(* A store without a readable key never had one. *)
NeverStored ==
  /\ stored \in Keys => stored \in written
  /\ stored \notin Keys => written = {}

(* On a filesystem a key is made only while there is no file. *)
MadeForNone == Backend = "filesystem" /\ Storing # {} => stored = NoKey

(* Every key written, and every one about to be, is of an instance of its  *)
(* own: a later start finds what an earlier one wrote.                     *)
OneKeyEach ==
  /\ IsFiniteSet(written)
  /\ Cardinality(written) + Cardinality(Storing) <= Cardinality(Instances)

AccountInv ==
  AccountTypeOK /\ OrderedAsStored /\ NeverStored /\ MadeForNone /\ OneKeyEach

(* Storing is a finite set, no larger than Instances.                      *)
LEMMA StoringFinite ==
  /\ IsFiniteSet(Storing)
  /\ Cardinality(Storing) <= Cardinality(Instances)
  /\ Cardinality(Storing) \in Nat /\ Cardinality(Instances) \in Nat
BY InstancesAssumption, FS_Subset, FS_CardinalityType DEF Storing

(* A step after which fewer constructors are storing, and which writes     *)
(* nothing, keeps OneKeyEach.                                              *)
LEMMA OneKeyKept ==
  ASSUME OneKeyEach, UNCHANGED written, Storing' \subseteq Storing
  PROVE  OneKeyEach'
<1>1. Cardinality(Storing') <= Cardinality(Storing) /\ Cardinality(Storing') \in Nat
  BY StoringFinite, FS_Subset, FS_CardinalityType
<1>2. Cardinality(written) \in Nat
  BY FS_CardinalityType DEF OneKeyEach
<1> QED BY <1>1, <1>2, StoringFinite DEF OneKeyEach

(* The invariant gives the property: the stored key is one of the written  *)
(* ones, so all the others are fewer than the instances.                   *)
LEMMA InvKeeps == AccountInv => AccountsKept
<1> SUFFICES ASSUME AccountInv PROVE AccountsKept
  OBVIOUS
<1> USE DEF AccountInv
<1> DEFINE Lost == registered \ {stored}
<1>1. IsFiniteSet(written) /\ Cardinality(written) \in Nat
  BY FS_CardinalityType DEF OneKeyEach
<1>2. Cardinality(written) <= Cardinality(Instances)
  BY <1>1, StoringFinite DEF OneKeyEach
<1>3. CASE stored \in Keys
  <2>1. stored \in written
    BY <1>3 DEF NeverStored
  <2>2. /\ IsFiniteSet(written \ {stored})
        /\ Cardinality(written \ {stored}) = Cardinality(written) - 1
    BY <1>1, <2>1, FS_RemoveElement
  <2>3. Lost \subseteq written \ {stored}
    BY DEF OrderedAsStored
  <2>4. Cardinality(Lost) <= Cardinality(written) - 1 /\ Cardinality(Lost) \in Nat
    BY <2>2, <2>3, FS_Subset, FS_CardinalityType
  <2> QED BY <2>4, <1>1, <1>2, StoringFinite DEF AccountsKept
<1>4. CASE stored \notin Keys
  <2>1. Lost = {}
    BY <1>4 DEF NeverStored, OrderedAsStored
  <2>2. Cardinality(Lost) = 0
    BY <2>1, FS_EmptySet
  <2>3. Cardinality(Instances) > 0
    BY InstancesAssumption, FS_EmptySet, StoringFinite
  <2> QED BY <2>2, <2>3 DEF AccountsKept
<1> QED BY <1>3, <1>4

(* Every instance but i stands where it stood.                             *)
LEMMA OthersStay ==
  ASSUME AccountTypeOK, NEW i \in Instances,
         \/ \E s : Becomes(i, s)
         \/ \E k : Goes(i, k)
         \/ UNCHANGED inst
  PROVE  \A j \in Instances \ {i} : inst'[j] = inst[j]
BY DEF AccountTypeOK, Becomes, Goes

(* AccountInv is inductive.                                                *)
LEMMA AccountNext ==
  ASSUME AccountInv, AccountTypeOK', [Next]_accountVars
  PROVE  AccountInv'
<1> USE DEF AccountInv
<1>1. CASE UNCHANGED accountVars
  <2>1. Storing' = Storing
    BY <1>1 DEF accountVars, Storing
  <2> QED BY <1>1, <2>1 DEF accountVars, OrderedAsStored, NeverStored,
                            MadeForNone, OneKeyEach
<1>2. ASSUME NEW i \in Instances, Load(i)
      PROVE  AccountInv'
  <2> USE <1>2
  <2>0. UNCHANGED <<stored, written, registered>>
    BY DEF Load
  <2>1. CASE \E k \in NewKeys : Becomes(i, [pc |-> "storing", key |-> k]) /\ ~Found
    <3>1. PICK k \in NewKeys : Becomes(i, [pc |-> "storing", key |-> k])
      BY <2>1
    <3>2. inst'[i].pc = "storing" /\ \A j \in Instances \ {i} : inst'[j] = inst[j]
      BY <3>1 DEF Becomes, AccountTypeOK
    <3>3. stored = NoKey /\ stored \notin Keys
      BY <2>1, KeysAssumption DEF Found
    <3>4. written' = {}
      BY <3>3, <2>0 DEF NeverStored
    <3>5. OneKeyEach'
      <4>1. Storing' \subseteq Instances
        BY DEF Storing
      <4>2. /\ Cardinality(Storing') <= Cardinality(Instances)
            /\ Cardinality(Storing') \in Nat
        BY <4>1, InstancesAssumption, FS_Subset, FS_CardinalityType
      <4>3. IsFiniteSet(written') /\ Cardinality(written') = 0
        BY <3>4, FS_EmptySet
      <4> QED BY <4>2, <4>3 DEF OneKeyEach
    <3>6. OrderedAsStored'
      BY <3>2, <2>0 DEF OrderedAsStored
    <3> QED BY <3>3, <3>5, <3>6, <2>0 DEF NeverStored, MadeForNone
  <2>2. CASE Becomes(i, Rest(inst[i])) \/ UNCHANGED inst
    <3>1. \A j \in Instances : inst'[j] = inst[j] \/ inst'[j].pc = "on"
      BY <2>2 DEF Becomes, Rest, AccountTypeOK
    <3>2. Storing' \subseteq Storing
      BY <3>1 DEF Storing
    <3>3. OrderedAsStored'
      BY <3>1, <2>0 DEF OrderedAsStored
    <3> QED BY <3>2, <3>3, <2>0, OneKeyKept DEF NeverStored, MadeForNone
  <2> QED BY <2>1, <2>2 DEF Load
<1>3. ASSUME NEW i \in Instances, Store(i)
      PROVE  AccountInv'
  <2> USE <1>3
  <2> DEFINE k == inst[i].key
  <2>0. k \in Keys /\ i \in Storing
    BY DEF Store, AccountTypeOK, Instance, Storing
  <2>1. \A j \in Instances : inst'[j] = IF j = i THEN inst'[i] ELSE inst[j]
    BY OthersStay DEF Store
  <2>2. inst'[i].pc \in {"on", "off"}
    BY DEF Store, Becomes, Rest, Off, AccountTypeOK
  <2>3. Storing' = Storing \ {i}
    BY <2>1, <2>2 DEF Storing
  <2>4. written' = written \cup ({stored'} \cap Keys) /\ UNCHANGED registered
    BY DEF Store
  <2>5. stored' \in {stored, k} \/ (Backend = "filesystem" /\ stored' = Torn)
    BY BackendAssumption DEF Store, LeftBy
  <2>6. OrderedAsStored'
    BY <2>1, <2>2, <2>4 DEF OrderedAsStored
  <2>7. NeverStored'
    <3>1. CASE stored' \in Keys
      BY <3>1, <2>4 DEF NeverStored
    <3>2. CASE stored' \notin Keys
      <4>1. stored \notin Keys
        <5>1. CASE stored' = stored
          BY <5>1, <3>2
        <5>2. CASE Backend = "filesystem"
          BY <5>2, <2>0, KeysAssumption DEF MadeForNone
        <5> QED BY <5>1, <5>2, <2>5, <2>0, <3>2
      <4> QED BY <4>1, <3>2, <2>4 DEF NeverStored
    <3> QED BY <3>1, <3>2
  <2>8. MadeForNone'
    <3>1. Backend = "filesystem" => Storing \subseteq {i}
      BY SingleNodeAssumption DEF Storing
    <3> QED BY <3>1, <2>3 DEF MadeForNone
  <2>9. OneKeyEach'
    <3>1. Cardinality(Storing') = Cardinality(Storing) - 1
      BY <2>0, <2>3, StoringFinite, FS_RemoveElement
    <3>2. /\ IsFiniteSet(written') /\ Cardinality(written') \in Nat
          /\ Cardinality(written') <= Cardinality(written) + 1
      <4>1. CASE written' = written
        BY <4>1, FS_CardinalityType DEF OneKeyEach
      <4>2. CASE written' = written \cup {stored'}
        <5>1. IsFiniteSet(written) /\ Cardinality(written) \in Nat
          BY FS_CardinalityType DEF OneKeyEach
        <5>2. /\ IsFiniteSet(written \cup {stored'})
              /\ Cardinality(written \cup {stored'})
                   = IF stored' \in written THEN Cardinality(written)
                     ELSE Cardinality(written) + 1
          BY <5>1, FS_AddElement
        <5> QED BY <4>2, <5>1, <5>2
      <4> QED BY <4>1, <4>2, <2>4
    <3>3. Cardinality(written) \in Nat
      BY FS_CardinalityType DEF OneKeyEach
    <3> QED BY <3>1, <3>2, <3>3, StoringFinite DEF OneKeyEach
  <2> QED BY <2>6, <2>7, <2>8, <2>9
<1>4. ASSUME NEW i \in Instances, ReadAccount(i)
      PROVE  AccountInv'
  <2> USE <1>4
  <2>0. UNCHANGED <<stored, written, registered>>
    BY DEF ReadAccount
  <2>1. \A j \in Instances :
          \/ inst'[j] = inst[j]
          \/ inst'[j].pc = "confirm" /\ inst'[j].key \in written
    BY DEF ReadAccount, Becomes, AccountTypeOK, NeverStored
  <2>2. Storing' \subseteq Storing
    BY <2>1 DEF Storing
  <2>3. OrderedAsStored'
    BY <2>0, <2>1 DEF OrderedAsStored
  <2> QED BY <2>0, <2>2, <2>3, OneKeyKept DEF NeverStored, MadeForNone
<1>5. ASSUME NEW i \in Instances, Confirm(i) \/ Register(i)
      PROVE  AccountInv'
  <2> USE <1>5
  <2>0. UNCHANGED <<stored, written>>
    BY DEF Confirm, Register
  <2>1. inst[i].key \in written
    BY DEF Confirm, Register, OrderedAsStored
  <2>2. registered' \subseteq registered \cup {inst[i].key}
    BY DEF Confirm, Register
  <2>3. \A j \in Instances :
          \/ inst'[j] = inst[j]
          \/ inst'[j].pc = "on"
          \/ inst'[j].pc \in {"order", "register"} /\ inst'[j].key = inst[j].key
               /\ j = i
    BY DEF Confirm, Register, Becomes, Goes, Rest, AccountTypeOK, Instance
  <2>4. Storing' \subseteq Storing
    BY <2>3 DEF Storing
  <2>5. OrderedAsStored'
    BY <2>0, <2>1, <2>2, <2>3 DEF OrderedAsStored
  <2> QED BY <2>0, <2>4, <2>5, OneKeyKept DEF NeverStored, MadeForNone
<1>6. ASSUME NEW i \in Instances, PlaceOrder(i) \/ Die(i)
      PROVE  AccountInv'
  <2> USE <1>6
  <2>0. UNCHANGED <<stored, written, registered>>
    BY DEF PlaceOrder, Die
  <2>1. \A j \in Instances : inst'[j] = inst[j] \/ inst'[j].pc \in {"on", "off"}
    BY DEF PlaceOrder, Die, Becomes, Off, Rest, AccountTypeOK
  <2>2. Storing' \subseteq Storing
    BY <2>1 DEF Storing
  <2>3. OrderedAsStored'
    BY <2>0, <2>1 DEF OrderedAsStored
  <2> QED BY <2>0, <2>2, <2>3, OneKeyKept DEF NeverStored, MadeForNone
<1> QED BY <1>1, <1>2, <1>3, <1>4, <1>5, <1>6 DEF Next, Step

(* Fewer registered accounts than there are instances have a key that is   *)
(* not in the store; with one instance, none has.                          *)
THEOREM AccountsNeverLost == Spec => []AccountsKept
<1>1. Init => AccountInv
  <2> SUFFICES ASSUME Init PROVE AccountInv
    OBVIOUS
  <2>1. Storing = {}
    BY DEF Init, Storing, Off
  <2>2. AccountTypeOK
    BY FaultsAssumption DEF Init, AccountTypeOK, Instance, Off
  <2>3. OneKeyEach
    <3>1. written = {} /\ IsFiniteSet({}) /\ Cardinality({}) = 0
      BY FS_EmptySet DEF Init
    <3> QED BY <2>1, <3>1, StoringFinite DEF OneKeyEach
  <2> QED BY <2>1, <2>2, <2>3, KeysAssumption
       DEF Init, AccountInv, OrderedAsStored, NeverStored, MadeForNone, Off
<1>2. AccountInv /\ AccountTypeOK' /\ [Next]_accountVars => AccountInv'
  BY AccountNext
<1>3. AccountInv => AccountsKept
  BY InvKeeps
<1> QED BY <1>1, <1>2, <1>3, TypeCorrect, PTL DEF Spec
=============================================================================
