--------------------------- MODULE KeystoreProofs ---------------------------
(* Theorems about Keystore, for every set of domains, callers and SANs,    *)
(* every number of failures and, where it is not said otherwise, every     *)
(* backend.                                                                *)

EXTENDS Keystore, TLAPS

-----------------------------------------------------------------------------
(* The records and calls that the model builds are of their types. *)

(* AnyDomain names a domain. *)
LEMMA AnyDomainIn == AnyDomain \in Domains
  BY DomainsAssumption DEF AnyDomain

(* The SANs of a request are sets of names, and so are those of an order.  *)
LEMMA SansTypes ==
  /\ NoSans \in Sans
  /\ \A s \in SanLists : s \in Sans
  /\ \A d \in Domains, s \in Sans : s \cup {d} \in Sans
  BY DEF NoSans, Sans, Names

(* The three records that the code constructs are records. *)
LEMMA RecordTypes ==
  /\ Zero \in CertAndKey
  /\ \A s \in Sans : Placeholder(s) \in CertAndKey
  /\ \A c \in CertAndKey : Adopted(c) \in CertAndKey /\ TakenOver(c) \in CertAndKey
  BY SansTypes DEF Zero, CertAndKey, Placeholder, Adopted, TakenOver

(* The idle call is a call. *)
LEMMA NoCallType == NoCall \in Call
  BY AnyDomainIn, RecordTypes, SansTypes DEF NoCall, Call, Pcs

(* Assigning the locals of a call gives a call. *)
LEMMA CallTypes ==
  ASSUME NEW p \in Callers, call \in [Callers -> Call]
  PROVE  /\ Answered(p) => call' \in [Callers -> Call]
         /\ \A k \in Pcs : Goto(p, k) => call' \in [Callers -> Call]
         /\ \A k \in Pcs, l \in SUBSET Entry, c \in CertAndKey :
              GotoWith(p, k, l, c) => call' \in [Callers -> Call]
         /\ Succeed(p) => call' \in [Callers -> Call]
         /\ Refuse(p) => call' \in [Callers -> Call]
  <1>1. call[p] \in Call
    OBVIOUS
  <1>2. Answered(p) => call' \in [Callers -> Call]
    BY NoCallType DEF Answered
  <1>3. ASSUME NEW k \in Pcs, Goto(p, k) PROVE call' \in [Callers -> Call]
    <2>1. [call[p] EXCEPT !.pc = k] \in Call
      BY <1>1 DEF Call
    <2> QED BY <1>3, <2>1 DEF Goto
  <1>4. ASSUME NEW k \in Pcs, NEW l \in SUBSET Entry, NEW c \in CertAndKey,
               GotoWith(p, k, l, c)
        PROVE  call' \in [Callers -> Call]
    <2>1. [call[p] EXCEPT !.pc = k, !.list = l, !.cert = c] \in Call
      BY <1>1 DEF Call
    <2> QED BY <1>4, <2>1 DEF GotoWith
  <1>5. ASSUME NEW ok \in BOOLEAN, Finish(p, ok) PROVE call' \in [Callers -> Call]
    <2>1. [call[p] EXCEPT !.pc = "done", !.list = {}, !.cert = Zero, !.ok = ok]
            \in Call
      BY <1>1, RecordTypes DEF Call, Pcs
    <2> QED BY <1>5, <2>1 DEF Finish
  <1> QED BY <1>2, <1>3, <1>4, <1>5 DEF Succeed, Refuse

(* The lists that calls compute are lists. *)
LEMMA ListTypes ==
  ASSUME NEW p \in Callers, call \in [Callers -> Call], NEW l \in SUBSET Entry
  PROVE  /\ call[p].domain \in Domains
         /\ call[p].sans \in Sans
         /\ call[p].list \in SUBSET Entry
         /\ call[p].cert \in CertAndKey
         /\ Appended(p, l) \in SUBSET Entry
         /\ \A d : Without(d, l) \in SUBSET Entry
  <1>1. call[p] \in Call
    OBVIOUS
  <1>2. /\ call[p].domain \in Domains /\ call[p].sans \in Sans
        /\ call[p].list \in SUBSET Entry /\ call[p].cert \in CertAndKey
    BY <1>1 DEF Call
  <1>3. EntryFor(call[p].domain, call[p].sans) \in Entry
    BY <1>2 DEF EntryFor, Entry
  <1> QED BY <1>2, <1>3 DEF Appended, Without

(* A failure adds one to the count, which stays within its bound. *)
LEMMA FaultType ==
  faults \in 0..MaxFaults /\ (Fault \/ NoFault) => faults' \in 0..MaxFaults
  BY FaultsAssumption DEF Fault, NoFault

(* What a read does to the count of failures, and to nothing else. *)
LEMMA ReadType ==
  \A f : ReadOk(f) \/ ReadFails(f) => Fault \/ NoFault
  BY DEF ReadOk, ReadFails

(* Writing the list, and failing to, leaves lists, files and counts. *)
LEMMA WriteListType ==
  ASSUME NEW l \in SUBSET Entry, md \subseteq Entry, torn \subseteq Files,
         faults \in 0..MaxFaults, WriteList(l) \/ WriteListFails(l)
  PROVE  md' \subseteq Entry /\ torn' \subseteq Files /\ faults' \in 0..MaxFaults
  BY FaultType DEF WriteList, WriteListFails, Files

(* Storing or deleting a record, and failing to, leaves records. *)
LEMMA StoreType ==
  ASSUME NEW d \in Domains, NEW c \in CertAndKey,
         certs \in [Domains -> CertAndKey], torn \subseteq Files,
         faults \in 0..MaxFaults,
         \/ StoreCertAndKey(d, c) \/ StoreFails(d, c)
         \/ DeleteCertAndKey(d) \/ DeleteFails(d)
  PROVE  /\ certs' \in [Domains -> CertAndKey]
         /\ torn' \subseteq Files
         /\ faults' \in 0..MaxFaults
  BY FaultType, RecordTypes
  DEF StoreCertAndKey, StoreFails, DeleteCertAndKey, DeleteFails, Files

-----------------------------------------------------------------------------
(* Every step preserves the types, call by call. *)

(* The steps of AddManagedDomainWithSANs. *)
LEMMA AddStepType ==
  ASSUME NEW p \in Callers, KeystoreTypeOK, AddStep(p)
  PROVE  KeystoreTypeOK'
  <1> USE DEF KeystoreTypeOK
  <1>0. {} \in SUBSET Entry /\ md \in SUBSET Entry
    OBVIOUS
  <1>p. "addWrite" \in Pcs /\ "addGet" \in Pcs /\ "addStore" \in Pcs
    BY DEF Pcs
  <1>1. CASE VaultAddRead(p)
    BY <1>1, <1>0, <1>p, CallTypes, ListTypes, ReadType, FaultType, RecordTypes
    DEF VaultAddRead, AddTo
  <1>2. CASE VaultAddWrite(p)
    BY <1>2, <1>p, CallTypes, ListTypes, WriteListType DEF VaultAddWrite
  <1>3. CASE FileAddList(p)
    BY <1>3, <1>0, <1>p, CallTypes, ListTypes, WriteListType, ReadType, FaultType
    DEF FileAddList
  <1>4. CASE AddGet(p)
    <2>1. call[p].domain \in Domains /\ certs[call[p].domain] \in CertAndKey
      BY ListTypes, <1>0
    <2> QED
      BY <1>4, <2>1, <1>0, <1>p, CallTypes, ListTypes, ReadType, FaultType,
         RecordTypes
      DEF AddGet
  <1>5. CASE AddStore(p)
    BY <1>5, <1>0, CallTypes, ListTypes, StoreType DEF AddStore
  <1>6. CASE MemoryAdd(p)
    <2>1. call[p].domain \in Domains /\ certs[call[p].domain] \in CertAndKey
      BY ListTypes, <1>0
    <2>2. EntryFor(call[p].domain, NoSans) \in Entry
      BY <2>1, SansTypes DEF EntryFor, Entry
    <2> QED BY <1>6, <2>1, <2>2, CallTypes, RecordTypes DEF MemoryAdd
  <1> QED BY <1>1, <1>2, <1>3, <1>4, <1>5, <1>6 DEF AddStep

(* The steps of RemoveManagedDomain. *)
LEMMA RemoveStepType ==
  ASSUME NEW p \in Callers, KeystoreTypeOK, RemoveStep(p)
  PROVE  KeystoreTypeOK'
  <1> USE DEF KeystoreTypeOK
  <1>0. {} \in SUBSET Entry /\ md \in SUBSET Entry
    OBVIOUS
  <1>p. "removeWrite" \in Pcs
    BY DEF Pcs
  <1>1. CASE VaultRemoveRead(p)
    BY <1>1, <1>0, <1>p, CallTypes, ListTypes, ReadType, FaultType, RecordTypes
    DEF VaultRemoveRead, RemoveFrom
  <1>2. CASE VaultRemoveWrite(p)
    BY <1>2, CallTypes, ListTypes, WriteListType DEF VaultRemoveWrite
  <1>3. CASE FileRemove(p)
    BY <1>3, <1>0, CallTypes, ListTypes, WriteListType, ReadType, FaultType
    DEF FileRemove
  <1>4. CASE MemoryRemove(p)
    BY <1>4, <1>0, CallTypes, ListTypes DEF MemoryRemove
  <1> QED BY <1>1, <1>2, <1>3, <1>4 DEF RemoveStep

(* The list is a list, records are records, calls are calls and at most    *)
(* MaxFaults operations fail, in every reachable state of every backend.   *)
THEOREM TypeCorrect == KeystoreSpec => []KeystoreTypeOK
  <1>1. KeystoreInit => KeystoreTypeOK
    BY FaultsAssumption, RecordTypes, NoCallType
    DEF KeystoreInit, KeystoreTypeOK
  <1>2. KeystoreTypeOK /\ [KeystoreNext]_keystoreVars => KeystoreTypeOK'
    <2> SUFFICES ASSUME KeystoreTypeOK, [KeystoreNext]_keystoreVars
                 PROVE  KeystoreTypeOK'
      OBVIOUS
    <2>1. ASSUME NEW p \in Callers, CallAdd(p) PROVE KeystoreTypeOK'
      <3>1. PICK d \in Domains, s \in SanLists : BeginAdd(p, d, s)
        BY <2>1 DEF CallAdd
      <3>2. [NoCall EXCEPT !.pc = "add", !.op = "add", !.domain = d, !.sans = s]
              \in Call
        BY NoCallType, SansTypes DEF Call, Pcs
      <3> QED BY <2>1, <3>1, <3>2 DEF CallAdd, BeginAdd, Begin, KeystoreTypeOK
    <2>2. ASSUME NEW p \in Callers, CallRemove(p) PROVE KeystoreTypeOK'
      <3>1. PICK d \in Domains : BeginRemove(p, d)
        BY <2>2 DEF CallRemove
      <3>2. [NoCall EXCEPT !.pc = "remove", !.op = "remove", !.domain = d,
                           !.sans = NoSans] \in Call
        BY NoCallType, SansTypes DEF Call, Pcs
      <3> QED BY <2>2, <3>1, <3>2 DEF CallRemove, BeginRemove, Begin, KeystoreTypeOK
    <2>3. ASSUME NEW p \in Callers, CallStep(p) PROVE KeystoreTypeOK'
      BY <2>3, AddStepType, RemoveStepType DEF CallStep
    <2>4. ASSUME NEW p \in Callers, Return(p) PROVE KeystoreTypeOK'
      BY <2>4, CallTypes DEF Return, KeystoreTypeOK
    <2>5. CASE StoreRecord
      BY <2>5, StoreType, RecordsAssumption DEF StoreRecord, KeystoreTypeOK
    <2>6. CASE DeleteRecord
      BY <2>6, StoreType, RecordTypes DEF DeleteRecord, KeystoreTypeOK
    <2>7. CASE Crash
      BY <2>7, NoCallType, RecordTypes DEF Crash, KeystoreTypeOK
    <2>8. CASE UNCHANGED keystoreVars
      BY <2>8 DEF keystoreVars, KeystoreTypeOK
    <2> QED BY <2>1, <2>2, <2>3, <2>4, <2>5, <2>6, <2>7, <2>8 DEF KeystoreNext, Proceed
  <1> QED BY <1>1, <1>2, PTL DEF KeystoreSpec

-----------------------------------------------------------------------------
(* No duplicates. *)

(* The two list operations keep a list free of duplicates; appending needs *)
(* the check that the domain is not there.                                 *)
LEMMA ListsOnce ==
  /\ OncePerDomain({})
  /\ \A l : OncePerDomain(l) =>
       /\ \A d : OncePerDomain(Without(d, l))
       /\ \A p : call[p].domain \notin DomainsOf(l) => OncePerDomain(Appended(p, l))
  BY DEF OncePerDomain, Without, Appended, EntryFor, DomainsOf

(* An idle call holds no list. *)
LEMMA NoCallList == OncePerDomain(NoCall.list)
  <1>1. NoCall.list = {}
    BY DEF NoCall
  <1> QED BY <1>1, ListsOnce

CallListsOnce == \A p \in Callers : OncePerDomain(call[p].list)

(* What the assignments to a call do to the lists in flight. *)
LEMMA CallListsKept ==
  ASSUME NEW p \in Callers, call \in [Callers -> Call], CallListsOnce
  PROVE  /\ Answered(p) => CallListsOnce'
         /\ \A k : Goto(p, k) => CallListsOnce'
         /\ \A k, l, c : GotoWith(p, k, l, c) /\ OncePerDomain(l) => CallListsOnce'
         /\ Succeed(p) => CallListsOnce'
         /\ Refuse(p) => CallListsOnce'
  <1>0. \A q \in Callers : call[q] \in Call
    OBVIOUS
  <1>1. Answered(p) => CallListsOnce'
    BY NoCallList DEF Answered, CallListsOnce
  <1>2. ASSUME NEW k, Goto(p, k) PROVE CallListsOnce'
    BY <1>0, <1>2 DEF Goto, CallListsOnce, Call
  <1>3. ASSUME NEW k, NEW l, NEW c, GotoWith(p, k, l, c), OncePerDomain(l)
        PROVE  CallListsOnce'
    BY <1>0, <1>3 DEF GotoWith, CallListsOnce, Call
  <1>4. ASSUME NEW ok, Finish(p, ok) PROVE CallListsOnce'
    BY <1>0, <1>4, ListsOnce DEF Finish, CallListsOnce, Call
  <1> QED BY <1>1, <1>2, <1>3, <1>4 DEF Succeed, Refuse

(* The steps of a call keep all lists free of duplicates. *)
LEMMA CallStepOnce ==
  ASSUME NEW p \in Callers, call \in [Callers -> Call],
         OncePerDomain(md), CallListsOnce, CallStep(p)
  PROVE  OncePerDomain(md)' /\ CallListsOnce'
  <1>1. CASE AddStep(p)
    <2>1. CASE VaultAddRead(p)
      BY <2>1, ListsOnce, CallListsKept DEF VaultAddRead, AddTo
    <2>2. CASE VaultAddWrite(p)
      <3>1. OncePerDomain(call[p].list)
        BY DEF CallListsOnce
      <3> QED BY <2>2, <3>1, CallListsKept
              DEF VaultAddWrite, WriteList, WriteListFails
    <2>3. CASE FileAddList(p)
      BY <2>3, ListsOnce, CallListsKept
      DEF FileAddList, WriteList, WriteListFails, Listed, Managed
    <2>4. CASE AddGet(p)
      BY <2>4, ListsOnce, CallListsKept DEF AddGet
    <2>5. CASE AddStore(p)
      BY <2>5, CallListsKept DEF AddStore
    <2>6. CASE MemoryAdd(p)
      <3>1. call[p].domain \notin DomainsOf(md) =>
              OncePerDomain(md \cup {EntryFor(call[p].domain, NoSans)})
        BY DEF OncePerDomain, EntryFor, DomainsOf
      <3> QED BY <2>6, <3>1, CallListsKept DEF MemoryAdd, Listed, Managed
    <2> QED BY <1>1, <2>1, <2>2, <2>3, <2>4, <2>5, <2>6 DEF AddStep
  <1>2. CASE RemoveStep(p)
    <2>1. CASE VaultRemoveRead(p)
      BY <2>1, ListsOnce, CallListsKept DEF VaultRemoveRead, RemoveFrom
    <2>2. CASE VaultRemoveWrite(p)
      <3>1. OncePerDomain(call[p].list)
        BY DEF CallListsOnce
      <3> QED BY <2>2, <3>1, CallListsKept
              DEF VaultRemoveWrite, WriteList, WriteListFails
    <2>3. CASE FileRemove(p)
      BY <2>3, ListsOnce, CallListsKept
      DEF FileRemove, WriteList, WriteListFails
    <2>4. CASE MemoryRemove(p)
      BY <2>4, ListsOnce, CallListsKept DEF MemoryRemove
    <2> QED BY <1>2, <2>1, <2>2, <2>3, <2>4 DEF RemoveStep
  <1> QED BY <1>1, <1>2 DEF CallStep

(* No list names a domain twice, stored or in flight, in every backend and *)
(* whatever updates Vault loses.                                           *)
THEOREM NoDuplicatesAlways == KeystoreSpec => []NoDuplicates
  <1> USE DEF NoDuplicates
  <1>1. KeystoreInit => NoDuplicates
    BY ListsOnce, NoCallList DEF KeystoreInit
  <1>2. KeystoreTypeOK /\ NoDuplicates /\ [KeystoreNext]_keystoreVars
          => NoDuplicates'
    <2> SUFFICES ASSUME KeystoreTypeOK, NoDuplicates, [KeystoreNext]_keystoreVars
                 PROVE  NoDuplicates'
      OBVIOUS
    <2>0. call \in [Callers -> Call] /\ OncePerDomain(md) /\ CallListsOnce
      BY DEF KeystoreTypeOK, CallListsOnce
    <2> SUFFICES OncePerDomain(md)' /\ CallListsOnce'
      BY DEF CallListsOnce
    <2>1. ASSUME NEW p \in Callers, CallAdd(p) \/ CallRemove(p)
          PROVE  OncePerDomain(md)' /\ CallListsOnce'
      <3>1. PICK k, d, s : Begin(p, k, d, s)
        BY <2>1 DEF CallAdd, CallRemove, BeginAdd, BeginRemove
      <3>2. CallListsOnce'
        BY <2>0, <3>1, ListsOnce DEF Begin, NoCall, CallListsOnce
      <3> QED BY <2>0, <2>1, <3>2 DEF CallAdd, CallRemove
    <2>2. ASSUME NEW p \in Callers, CallStep(p)
          PROVE  OncePerDomain(md)' /\ CallListsOnce'
      BY <2>0, <2>2, CallStepOnce
    <2>3. ASSUME NEW p \in Callers, Return(p)
          PROVE  OncePerDomain(md)' /\ CallListsOnce'
      BY <2>0, <2>3, CallListsKept DEF Return
    <2>4. CASE StoreRecord \/ DeleteRecord \/ UNCHANGED keystoreVars
      BY <2>0, <2>4 DEF StoreRecord, DeleteRecord, keystoreVars, CallListsOnce
    <2>5. CASE Crash
      BY <2>0, <2>5, ListsOnce, NoCallList DEF Crash, CallListsOnce
    <2> QED BY <2>1, <2>2, <2>3, <2>4, <2>5 DEF KeystoreNext, Proceed
  <1> QED BY <1>1, <1>2, TypeCorrect, PTL DEF KeystoreSpec

-----------------------------------------------------------------------------
(* The backends that hold their lock keep the promise of ManagedDomains.   *)

Locked == Backend # "vault"

(* What the refinement needs besides types: a call that has not started is *)
(* of the kind its counter says, and only failures tear files.             *)
PcTellsOp ==
  /\ \A p \in Callers : /\ call[p].pc = "add" => call[p].op = "add"
                        /\ call[p].pc = "remove" => call[p].op = "remove"
  /\ torn # {} => MaxFaults > 0

(* The calls as ManagedDomains sees them. *)
opBar == [p \in Callers |-> OpOf(call[p])]

(* When a step changes the call of p alone, so does its abstract view. *)
LEMMA BarStep ==
  ASSUME NEW p \in Callers, NEW c, call \in [Callers -> Call],
         call' = [call EXCEPT ![p] = c]
  PROVE  opBar' = [opBar EXCEPT ![p] = OpOf(c)]
  BY DEF opBar

(* An abstract call with its outcome. *)
LEMMA Outcome ==
  \A k, d, o : [Promise!Called(k, d) EXCEPT !.state = o] =
                 [state |-> o, kind |-> k, domain |-> d]
  BY DEF Promise!Called

(* Where a call has not taken effect yet. *)
UndecidedPcs == {"add", "remove", "addWrite", "removeWrite"}

(* The abstract view of a call at its interesting points. *)
LEMMA OpOfCases ==
  ASSUME NEW c
  PROVE  /\ c.pc = "idle" => OpOf(c) = Promise!Idle
         /\ c.pc \in UndecidedPcs => OpOf(c) = Promise!Called(c.op, c.domain)
         /\ c.pc \in {"addGet", "addStore"} \/ (c.pc = "done" /\ c.ok) =>
              OpOf(c) = [state |-> "accepted", kind |-> c.op, domain |-> c.domain]
         /\ c.pc = "done" /\ ~c.ok =>
              OpOf(c) = [state |-> "refused", kind |-> c.op, domain |-> c.domain]
  <1>1. c.pc \in UndecidedPcs => c.pc # "idle" /\ Stage(c) = "called"
    BY DEF Stage, UndecidedPcs
  <1>2. c.pc \in {"addGet", "addStore"} \/ (c.pc = "done" /\ c.ok)
          => c.pc # "idle" /\ Stage(c) = "accepted"
    BY DEF Stage
  <1>3. c.pc = "done" /\ ~c.ok => c.pc # "idle" /\ Stage(c) = "refused"
    BY DEF Stage
  <1>4. c.pc = "idle" => OpOf(c) = Promise!Idle
    BY DEF OpOf, Promise!Idle
  <1>5. c.pc # "idle" => OpOf(c) = [state |-> Stage(c), kind |-> c.op,
                                    domain |-> c.domain]
    BY DEF OpOf
  <1> QED BY <1>1, <1>2, <1>3, <1>4, <1>5 DEF Promise!Called

(* The backends that lock start where ManagedDomains starts. *)
LEMMA PromiseInit == KeystoreInit => Promise!Init
  <1> SUFFICES ASSUME KeystoreInit PROVE Promise!Init
    OBVIOUS
  <1>1. Managed = {}
    BY DEF KeystoreInit, Managed, DomainsOf
  <1>2. NoCall.pc = "idle"
    BY DEF NoCall
  <1>3. \A p \in Callers : OpOf(call[p]) = Promise!Idle
    BY <1>2, OpOfCases DEF KeystoreInit
  <1> QED BY <1>1, <1>3 DEF Promise!Init

AcceptedBar(p) == [state |-> "accepted", kind |-> call[p].op, domain |-> call[p].domain]
RefusedBar(p) == [state |-> "refused", kind |-> call[p].op, domain |-> call[p].domain]

(* How the steps of a call look from outside. *)
LEMMA BarMoves ==
  ASSUME NEW p \in Callers, call \in [Callers -> Call]
  PROVE  /\ Succeed(p) => opBar' = [opBar EXCEPT ![p] = AcceptedBar(p)]
         /\ Refuse(p) => opBar' = [opBar EXCEPT ![p] = RefusedBar(p)]
         /\ Goto(p, "addGet") => opBar' = [opBar EXCEPT ![p] = AcceptedBar(p)]
         /\ \A l, c : GotoWith(p, "addStore", l, c) =>
              opBar' = [opBar EXCEPT ![p] = AcceptedBar(p)]
         /\ Answered(p) => opBar' = [opBar EXCEPT ![p] = Promise!Idle]
  <1>0. call[p] \in Call
    OBVIOUS
  <1>1. ASSUME NEW ok \in BOOLEAN, Finish(p, ok)
        PROVE  opBar' = [opBar EXCEPT ![p] = IF ok THEN AcceptedBar(p)
                                                   ELSE RefusedBar(p)]
    <2> DEFINE e == [call[p] EXCEPT !.pc = "done", !.list = {},
                     !.cert = Zero, !.ok = ok]
    <2>0. e.pc = "done" /\ e.op = call[p].op /\ e.domain = call[p].domain /\ e.ok = ok
      BY <1>0 DEF Call
    <2>1. PICK c : /\ c = e /\ c.pc = "done" /\ c.ok = ok
                   /\ c.op = call[p].op /\ c.domain = call[p].domain
      BY <2>0
    <2>2. call' = [call EXCEPT ![p] = c]
      BY <2>1, <1>1 DEF Finish
    <2>3. OpOf(c) = IF ok THEN AcceptedBar(p) ELSE RefusedBar(p)
      BY <2>1, OpOfCases DEF AcceptedBar, RefusedBar
    <2> QED BY <2>2, <2>3, BarStep
  <1>2. ASSUME Goto(p, "addGet")
        PROVE  opBar' = [opBar EXCEPT ![p] = AcceptedBar(p)]
    <2> DEFINE e == [call[p] EXCEPT !.pc = "addGet"]
    <2>0. e.pc = "addGet" /\ e.op = call[p].op /\ e.domain = call[p].domain
      BY <1>0 DEF Call
    <2>1. PICK c : /\ c = e /\ c.pc = "addGet"
                   /\ c.op = call[p].op /\ c.domain = call[p].domain
      BY <2>0
    <2>2. call' = [call EXCEPT ![p] = c]
      BY <2>1, <1>2 DEF Goto
    <2>3. OpOf(c) = AcceptedBar(p)
      BY <2>1, OpOfCases DEF AcceptedBar
    <2> QED BY <2>2, <2>3, BarStep
  <1>3. ASSUME NEW l, NEW r, GotoWith(p, "addStore", l, r)
        PROVE  opBar' = [opBar EXCEPT ![p] = AcceptedBar(p)]
    <2> DEFINE e == [call[p] EXCEPT !.pc = "addStore", !.list = l, !.cert = r]
    <2>0. e.pc = "addStore" /\ e.op = call[p].op /\ e.domain = call[p].domain
      BY <1>0 DEF Call
    <2>1. PICK c : /\ c = e /\ c.pc = "addStore"
                   /\ c.op = call[p].op /\ c.domain = call[p].domain
      BY <2>0
    <2>2. call' = [call EXCEPT ![p] = c]
      BY <2>1, <1>3 DEF GotoWith
    <2>3. OpOf(c) = AcceptedBar(p)
      BY <2>1, OpOfCases DEF AcceptedBar
    <2> QED BY <2>2, <2>3, BarStep
  <1>4. ASSUME Answered(p) PROVE opBar' = [opBar EXCEPT ![p] = Promise!Idle]
    <2>1. NoCall.pc = "idle"
      BY DEF NoCall
    <2>2. OpOf(NoCall) = Promise!Idle
      BY <2>1, OpOfCases
    <2>3. call' = [call EXCEPT ![p] = NoCall]
      BY <1>4 DEF Answered
    <2> QED BY <2>2, <2>3, BarStep
  <1> QED BY <1>1, <1>2, <1>3, <1>4 DEF Succeed, Refuse

(* The set of names after the two list operations. *)
LEMMA NamesOf ==
  \A l, p, d, s :
    /\ DomainsOf(l \cup {EntryFor(d, s)}) = DomainsOf(l) \cup {d}
    /\ DomainsOf(Without(d, l)) = DomainsOf(l) \ {d}
    /\ DomainsOf(Appended(p, l)) = DomainsOf(l) \cup {call[p].domain}
  <1>1. \A l, d, s : DomainsOf(l \cup {EntryFor(d, s)}) = DomainsOf(l) \cup {d}
    <2> TAKE l, d, s
    <2>1. EntryFor(d, s).domain = d
      BY DEF EntryFor
    <2> QED BY <2>1 DEF DomainsOf
  <1>2. \A l, d : DomainsOf(Without(d, l)) = DomainsOf(l) \ {d}
    BY DEF DomainsOf, Without
  <1> QED BY <1>1, <1>2 DEF Appended

(* A call that has begun shows as called; the step that decides it shows   *)
(* as the atomic operation, or as its refusal.                             *)
LEMMA Decided ==
  ASSUME KeystoreTypeOK, NEW p \in Callers, call[p].pc \in UndecidedPcs,
         NEW k, k = call[p].op, NEW d, d = call[p].domain
  PROVE  /\ opBar[p] = Promise!Called(k, d)
         /\ k = "add" /\ ~Listed(d) /\ Managed' = Managed \cup {d}
              /\ (Succeed(p) \/ Goto(p, "addGet")) => Promise!Add(p, d)
         /\ k = "remove" /\ Listed(d) /\ Managed' = Managed \ {d}
              /\ Succeed(p) => Promise!Remove(p, d)
         /\ (MaxFaults > 0 \/ (k = "add" <=> Listed(d))) /\ UNCHANGED Managed
              /\ Refuse(p) => Promise!Reject(p, k, d)
  <1>0. call \in [Callers -> Call] /\ k = call[p].op
    BY DEF KeystoreTypeOK
  <1>1. opBar[p] = Promise!Called(k, d)
    BY <1>0, OpOfCases DEF opBar
  <1>2. [opBar[p] EXCEPT !.state = "accepted"] = AcceptedBar(p)
    BY <1>0, <1>1, Outcome DEF AcceptedBar
  <1>3. [opBar[p] EXCEPT !.state = "refused"] = RefusedBar(p)
    BY <1>0, <1>1, Outcome DEF RefusedBar
  <1>4. Succeed(p) \/ Goto(p, "addGet") => Promise!Accept(p)
    BY <1>0, <1>2, BarMoves DEF Promise!Accept, opBar
  <1>5. Refuse(p) => Promise!Refuse(p)
    BY <1>0, <1>3, BarMoves DEF Promise!Refuse, opBar
  <1> QED BY <1>1, <1>4, <1>5 DEF Promise!Add, Promise!Remove, Promise!Reject,
                                  opBar, Listed

(* What an add does to the record does not show.                           *)
LEMMA RecordSteps ==
  ASSUME NEW p \in Callers, call \in [Callers -> Call],
         call[p].pc \in {"addGet", "addStore"}, UNCHANGED md,
         Succeed(p) \/ \E l, c : GotoWith(p, "addStore", l, c)
  PROVE  UNCHANGED Promise!vars
  <1>1. opBar[p] = AcceptedBar(p)
    BY OpOfCases DEF opBar, AcceptedBar
  <1>2. opBar' = [opBar EXCEPT ![p] = AcceptedBar(p)]
    BY BarMoves
  <1>3. opBar' = opBar
    BY <1>1, <1>2 DEF opBar
  <1> QED BY <1>3 DEF Promise!vars, opBar, Managed

(* The steps of AddManagedDomainWithSANs under the lock. *)
LEMMA AddRefines ==
  ASSUME Locked, KeystoreTypeOK, PcTellsOp, NEW p \in Callers, AddStep(p)
  PROVE  Promise!Next \/ UNCHANGED Promise!vars
  <1> DEFINE d == call[p].domain
  <1>0. /\ call \in [Callers -> Call] /\ d \in Domains /\ p \in Callers
        /\ call[p].pc = "add" => call[p].op = "add"
        /\ torn # {} => MaxFaults > 0
    BY ListTypes DEF KeystoreTypeOK, PcTellsOp
  <1>1. ASSUME FileAddList(p) \/ MemoryAdd(p)
        PROVE  Promise!Add(p, d) \/ Promise!Reject(p, "add", d)
    <2>1. call[p].pc \in UndecidedPcs /\ call[p].op = "add"
      BY <1>0, <1>1 DEF FileAddList, MemoryAdd, At, UndecidedPcs
    <2>2. CASE /\ Refuse(p) /\ UNCHANGED md
               /\ MaxFaults > 0 \/ Listed(d)
      BY <2>1, <2>2, Decided DEF Managed
    <2>3. CASE /\ ~Listed(d) /\ Managed' = Managed \cup {d}
               /\ Succeed(p) \/ Goto(p, "addGet")
      BY <2>1, <2>3, Decided
    <2>4. ASSUME FileAddList(p)
          PROVE  \/ Refuse(p) /\ UNCHANGED md /\ (MaxFaults > 0 \/ Listed(d))
                 \/ /\ ~Listed(d) /\ Managed' = Managed \cup {d}
                    /\ Succeed(p) \/ Goto(p, "addGet")
      <3>1. Fault \/ torn # {} => MaxFaults > 0
        BY <1>0, FaultsAssumption DEF Fault, KeystoreTypeOK
      <3>2. CASE ReadFails(ListFile) /\ Refuse(p) /\ UNCHANGED <<md, torn>>
        BY <3>1, <3>2 DEF ReadFails
      <3>3. CASE WriteList(Appended(p, md)) /\ Goto(p, "addGet") /\ ~Listed(d)
        BY <3>3, NamesOf DEF WriteList, Managed
      <3>4. CASE WriteListFails(Appended(p, md)) /\ Refuse(p)
        BY <2>4, <3>1, <3>4 DEF WriteListFails, FileAddList, At
      <3> QED BY <2>4, <3>2, <3>3, <3>4 DEF FileAddList
    <2>5. ASSUME MemoryAdd(p)
          PROVE  \/ Refuse(p) /\ UNCHANGED md /\ (MaxFaults > 0 \/ Listed(d))
                 \/ /\ ~Listed(d) /\ Managed' = Managed \cup {d}
                    /\ Succeed(p) \/ Goto(p, "addGet")
      BY <2>5, NamesOf DEF MemoryAdd, Managed
    <2> QED BY <1>1, <2>2, <2>3, <2>4, <2>5
  <1>2. ASSUME AddGet(p) \/ AddStore(p)
        PROVE  UNCHANGED Promise!vars
    <2>1. /\ call[p].pc \in {"addGet", "addStore"} /\ UNCHANGED md
          /\ Succeed(p) \/ \E l, c : GotoWith(p, "addStore", l, c)
      BY <1>2 DEF AddGet, AddStore
    <2> QED BY <1>0, <2>1, RecordSteps
  <1>3. ~VaultAddRead(p) /\ ~VaultAddWrite(p)
    BY DEF Locked, VaultAddRead, VaultAddWrite, At
  <1> QED BY <1>0, <1>1, <1>2, <1>3 DEF AddStep, Promise!Next, Promise!Kinds

(* The single step of RemoveManagedDomain under the lock. *)
LEMMA RemoveRefines ==
  ASSUME Locked, KeystoreTypeOK, PcTellsOp, NEW p \in Callers, RemoveStep(p)
  PROVE  Promise!Next
  <1> DEFINE d == call[p].domain
  <1>0. /\ d \in Domains
        /\ torn # {} => MaxFaults > 0
    BY ListTypes DEF KeystoreTypeOK, PcTellsOp
  <1>1. /\ FileRemove(p) \/ MemoryRemove(p)
        /\ call[p].pc \in UndecidedPcs /\ call[p].op = "remove"
    BY DEF RemoveStep, Locked, VaultRemoveRead, VaultRemoveWrite, FileRemove,
           MemoryRemove, At, UndecidedPcs, PcTellsOp
  <1>2. CASE Refuse(p) /\ UNCHANGED md /\ (MaxFaults > 0 \/ ~Listed(d))
    BY <1>0, <1>1, <1>2, Decided DEF Managed, Promise!Next, Promise!Kinds
  <1>3. CASE Listed(d) /\ Managed' = Managed \ {d} /\ Succeed(p)
    BY <1>0, <1>1, <1>3, Decided DEF Promise!Next
  <1>4. ASSUME FileRemove(p)
        PROVE  \/ Refuse(p) /\ UNCHANGED md /\ (MaxFaults > 0 \/ ~Listed(d))
               \/ Listed(d) /\ Managed' = Managed \ {d} /\ Succeed(p)
    <2>1. Fault \/ torn # {} => MaxFaults > 0
      BY <1>0, FaultsAssumption DEF Fault, KeystoreTypeOK
    <2>2. CASE ReadFails(ListFile) /\ Refuse(p) /\ UNCHANGED <<md, torn>>
      BY <2>1, <2>2 DEF ReadFails
    <2>3. CASE WriteList(Without(d, md)) /\ Succeed(p) /\ Listed(d)
      BY <2>3, NamesOf DEF WriteList, Managed
    <2>4. CASE WriteListFails(Without(d, md)) /\ Refuse(p)
      BY <1>4, <2>1, <2>4 DEF WriteListFails, FileRemove, At
    <2> QED BY <1>4, <2>2, <2>3, <2>4 DEF FileRemove
  <1>5. ASSUME MemoryRemove(p)
        PROVE  \/ Refuse(p) /\ UNCHANGED md /\ (MaxFaults > 0 \/ ~Listed(d))
               \/ Listed(d) /\ Managed' = Managed \ {d} /\ Succeed(p)
    BY <1>5, NamesOf DEF MemoryRemove, Managed
  <1> QED BY <1>1, <1>2, <1>3, <1>4, <1>5

(* A call begins. *)
LEMMA BeginRefines ==
  ASSUME KeystoreTypeOK, NEW p \in Callers, NEW k \in {"add", "remove"},
         NEW d \in Domains, NEW s, Begin(p, k, d, s), UNCHANGED md
  PROVE  Promise!Next
  <1>1. PICK c : /\ c = [NoCall EXCEPT !.pc = k, !.op = k, !.domain = d, !.sans = s]
                 /\ c.pc = k /\ c.op = k /\ c.domain = d
    <2> DEFINE e == [NoCall EXCEPT !.pc = k, !.op = k, !.domain = d, !.sans = s]
    <2>1. e.pc = k /\ e.op = k /\ e.domain = d
      BY DEF NoCall
    <2> QED BY <2>1
  <1>2. call' = [call EXCEPT ![p] = c] /\ call \in [Callers -> Call]
    BY <1>1 DEF Begin, KeystoreTypeOK
  <1>3. OpOf(c) = Promise!Called(k, d)
    BY <1>1, OpOfCases DEF UndecidedPcs
  <1>4. opBar' = [opBar EXCEPT ![p] = Promise!Called(k, d)]
    BY <1>2, <1>3, BarStep
  <1>5. opBar[p] = Promise!Idle
    BY OpOfCases DEF Begin, opBar
  <1>6. Promise!Call(p, k, d)
    BY <1>4, <1>5 DEF Promise!Call, opBar, Managed
  <1> QED BY <1>6 DEF Promise!Next, Promise!Kinds

(* A call returns its answer. *)
LEMMA ReturnRefines ==
  ASSUME KeystoreTypeOK, NEW p \in Callers, Return(p)
  PROVE  Promise!Next
  <1>1. opBar' = [opBar EXCEPT ![p] = Promise!Idle]
    BY BarMoves DEF Return, KeystoreTypeOK
  <1>2. opBar[p].state \in {"accepted", "refused"}
    <2>1. OpOf(call[p]) \in {AcceptedBar(p), RefusedBar(p)}
      BY OpOfCases DEF Return, AcceptedBar, RefusedBar
    <2> QED BY <2>1 DEF opBar, AcceptedBar, RefusedBar
  <1>3. Promise!Answer(p)
    BY <1>1, <1>2 DEF Promise!Answer, opBar, Return, Managed
  <1> QED BY <1>3 DEF Promise!Next

(* The process dies. *)
LEMMA CrashRefines ==
  ASSUME Crash
  PROVE  Promise!Next
  <1>1. NoCall.pc = "idle"
    BY DEF NoCall
  <1>2. opBar' = [p \in Callers |-> Promise!Idle]
    BY <1>1, OpOfCases DEF Crash, opBar
  <1>3. Managed' = IF Backend # "memory" THEN Managed ELSE {}
    BY DEF Crash, Managed, DomainsOf
  <1>4. Promise!Crash
    BY <1>2, <1>3 DEF Promise!Crash, opBar
  <1> QED BY <1>4 DEF Promise!Next

(* Every step is a step of ManagedDomains or none, if those of a call are. *)
LEMMA PromiseStep ==
  ASSUME KeystoreTypeOK, [KeystoreNext]_keystoreVars,
         \A p \in Callers : CallStep(p) => Promise!Next \/ UNCHANGED Promise!vars
  PROVE  [Promise!Next]_(Promise!vars)
  <1>1. ASSUME NEW p \in Callers, CallAdd(p) \/ CallRemove(p) PROVE Promise!Next
    BY <1>1, BeginRefines DEF CallAdd, CallRemove, BeginAdd, BeginRemove
  <1>2. ASSUME NEW p \in Callers, CallStep(p)
        PROVE  Promise!Next \/ UNCHANGED Promise!vars
    BY <1>2
  <1>3. ASSUME NEW p \in Callers, Return(p) PROVE Promise!Next
    BY <1>3, ReturnRefines
  <1>4. CASE StoreRecord \/ DeleteRecord \/ UNCHANGED keystoreVars
    <2>1. UNCHANGED <<md, call>>
      BY <1>4 DEF StoreRecord, DeleteRecord, keystoreVars
    <2> QED BY <2>1 DEF Promise!vars, Managed
  <1>5. CASE Crash
    BY <1>5, CrashRefines
  <1> QED BY <1>1, <1>2, <1>3, <1>4, <1>5 DEF KeystoreNext, Proceed

(* Program counters agree with the kind of call in every reachable state,  *)
(* and a torn file needs a failure that MaxFaults allows.                  *)
LEMMA PcTellsOpAlways == KeystoreSpec => []PcTellsOp
  <1>1. KeystoreInit => PcTellsOp
    <2>1. NoCall.pc = "idle"
      BY DEF NoCall
    <2> QED BY <2>1 DEF KeystoreInit, PcTellsOp
  <1>2. KeystoreTypeOK /\ PcTellsOp /\ [KeystoreNext]_keystoreVars => PcTellsOp'
    <2> SUFFICES ASSUME KeystoreTypeOK, PcTellsOp, [KeystoreNext]_keystoreVars
                 PROVE  PcTellsOp'
      OBVIOUS
    <2> DEFINE Tells(c) == /\ c.pc = "add" => c.op = "add"
                           /\ c.pc = "remove" => c.op = "remove"
    <2>0. /\ call \in [Callers -> Call]
          /\ \A q \in Callers : call[q] \in Call /\ Tells(call[q])
      BY DEF KeystoreTypeOK, PcTellsOp
    <2>1. torn' # {} => MaxFaults > 0
      <3>1. Fault => MaxFaults > 0
        BY FaultsAssumption DEF Fault, KeystoreTypeOK
      <3>2. torn' \subseteq torn \/ Fault
        BY DEF KeystoreNext, Proceed, CallAdd, CallRemove, CallStep, AddStep, RemoveStep,
               VaultAddRead, VaultAddWrite, FileAddList, AddGet, AddStore,
               MemoryAdd, VaultRemoveRead, VaultRemoveWrite, FileRemove,
               MemoryRemove, Return, StoreRecord, DeleteRecord, Crash,
               WriteList, WriteListFails, StoreCertAndKey, StoreFails,
               DeleteCertAndKey, DeleteFails, keystoreVars
      <3> QED BY <3>1, <3>2 DEF PcTellsOp
    <2>2. ASSUME NEW p \in Callers, NEW c, Tells(c), call' = [call EXCEPT ![p] = c]
          PROVE  PcTellsOp'
      BY <2>0, <2>1, <2>2 DEF PcTellsOp
    <2>3. ASSUME NEW p \in Callers, CallAdd(p) \/ CallRemove(p) PROVE PcTellsOp'
      <3>1. PICK k, d, s : call' = [call EXCEPT ![p] =
              [NoCall EXCEPT !.pc = k, !.op = k, !.domain = d, !.sans = s]]
        BY <2>3 DEF CallAdd, CallRemove, BeginAdd, BeginRemove, Begin
      <3>2. Tells([NoCall EXCEPT !.pc = k, !.op = k, !.domain = d, !.sans = s])
        BY DEF NoCall
      <3> QED BY <2>2, <3>1, <3>2
    <2>4. ASSUME NEW p \in Callers, CallStep(p) PROVE PcTellsOp'
      <3>1. \/ Succeed(p) \/ Refuse(p) \/ Goto(p, "addGet")
            \/ \E k \in {"addWrite", "removeWrite", "addStore"} :
                 \E l, c : GotoWith(p, k, l, c)
        BY <2>4 DEF CallStep, AddStep, RemoveStep, VaultAddRead, VaultAddWrite,
             AddTo, FileAddList, AddGet, AddStore, MemoryAdd, VaultRemoveRead,
             RemoveFrom, VaultRemoveWrite, FileRemove, MemoryRemove
      <3>2. ASSUME NEW ok, Finish(p, ok) PROVE PcTellsOp'
        <4>1. Tells([call[p] EXCEPT !.pc = "done", !.list = {}, !.cert = Zero,
                                    !.ok = ok])
          BY <2>0 DEF Call
        <4>2. call' = [call EXCEPT ![p] =
                [call[p] EXCEPT !.pc = "done", !.list = {}, !.cert = Zero, !.ok = ok]]
          BY <3>2 DEF Finish
        <4> HIDE DEF Tells
        <4> QED BY <2>2, <4>1, <4>2
      <3>3. CASE Goto(p, "addGet")
        <4>1. Tells([call[p] EXCEPT !.pc = "addGet"])
          BY <2>0 DEF Call
        <4> QED BY <2>2, <3>3, <4>1 DEF Goto
      <3>4. ASSUME NEW k \in {"addWrite", "removeWrite", "addStore"}, NEW l, NEW c,
                   GotoWith(p, k, l, c)
            PROVE  PcTellsOp'
        <4>1. Tells([call[p] EXCEPT !.pc = k, !.list = l, !.cert = c])
          BY <2>0 DEF Call
        <4>2. call' = [call EXCEPT ![p] =
                         [call[p] EXCEPT !.pc = k, !.list = l, !.cert = c]]
          BY <3>4 DEF GotoWith
        <4> HIDE DEF Tells
        <4> QED BY <2>2, <4>1, <4>2
      <3> QED BY <3>1, <3>2, <3>3, <3>4 DEF Succeed, Refuse
    <2>5. ASSUME NEW p \in Callers, Return(p) PROVE PcTellsOp'
      <3>1. Tells(NoCall)
        BY DEF NoCall
      <3> QED BY <2>2, <2>5, <3>1 DEF Return, Answered
    <2>6. CASE StoreRecord \/ DeleteRecord \/ UNCHANGED keystoreVars
      BY <2>1, <2>6 DEF StoreRecord, DeleteRecord, keystoreVars, PcTellsOp
    <2>7. CASE Crash
      BY <2>1, <2>7 DEF Crash, NoCall, PcTellsOp
    <2> QED BY <2>3, <2>4, <2>5, <2>6, <2>7 DEF KeystoreNext, Proceed
  <1> QED BY <1>1, <1>2, TypeCorrect, PTL DEF KeystoreSpec

(* A backend that holds its lock over the read and the write of the list   *)
(* (filesystem and memory) implements the atomic list of ManagedDomains,   *)
(* for any callers, domains, SANs, crashes and number of failures.         *)
THEOREM LockedBackendsKeepPromise == Locked => (KeystoreSpec => KeepsPromise)
  <1> SUFFICES ASSUME Locked PROVE KeystoreSpec => KeepsPromise
    OBVIOUS
  <1>1. KeystoreInit => Promise!Init
    BY PromiseInit
  <1>2. KeystoreTypeOK /\ PcTellsOp /\ [KeystoreNext]_keystoreVars
          => [Promise!Next]_(Promise!vars)
    BY PromiseStep, AddRefines, RemoveRefines DEF CallStep
  <1> QED BY <1>1, <1>2, TypeCorrect, PcTellsOpAlways, PTL
          DEF KeystoreSpec, KeepsPromise, Promise!Spec

(* With the same backends a domain leaves the list only by a removal of    *)
(* that domain, or with the memory of a process that dies: the lost update *)
(* and the failed read of KeystoreVaultReadError are those of Vault alone. *)
THEOREM LockedBackendsUnlist == Locked => (KeystoreSpec => OnlyItsRemovalUnlists)
  <1> SUFFICES ASSUME Locked PROVE KeystoreSpec => OnlyItsRemovalUnlists
    OBVIOUS
  <1> DEFINE Removed(d) ==
        \/ Crash
        \/ \E p \in Callers : call[p].op = "remove" /\ call[p].domain = d
  <1>1. ASSUME KeystoreTypeOK, PcTellsOp, [KeystoreNext]_keystoreVars, NEW d \in Domains,
               Listed(d), d \notin DomainsOf(md')
        PROVE  Removed(d)
    <2>1. ASSUME NEW e \in md, e \in md', e.domain = d PROVE FALSE
      BY <1>1, <2>1 DEF DomainsOf
    <2>2. PICK e \in md : e.domain = d
      BY <1>1 DEF Listed, Managed, DomainsOf
    <2>3. e \notin md'
      BY <2>1, <2>2
    <2>4. ASSUME NEW p \in Callers, CallStep(p) PROVE Removed(d)
      <3>1. FileRemove(p) \/ MemoryRemove(p)
        BY <2>2, <2>3, <2>4
           DEF Locked, CallStep, AddStep, RemoveStep, VaultAddRead, VaultAddWrite,
               VaultRemoveRead, VaultRemoveWrite, FileAddList, AddGet, AddStore,
               MemoryAdd, WriteList, WriteListFails, Appended, At
      <3>2. call[p].op = "remove"
        BY <1>1, <3>1 DEF FileRemove, MemoryRemove, At, PcTellsOp
      <3>3. md' = Without(call[p].domain, md) \/ md' = md
        BY <3>1 DEF FileRemove, MemoryRemove, WriteList, WriteListFails
      <3>4. e.domain = call[p].domain
        BY <2>2, <2>3, <3>3 DEF Without
      <3> QED BY <2>2, <3>2, <3>4
    <2>5. CASE StoreRecord \/ DeleteRecord
      BY <2>2, <2>3, <2>5 DEF StoreRecord, DeleteRecord
    <2>6. ASSUME NEW p \in Callers, CallAdd(p) \/ CallRemove(p) \/ Return(p)
          PROVE  Removed(d)
      BY <2>2, <2>3, <2>6 DEF CallAdd, CallRemove, Return
    <2>7. CASE UNCHANGED keystoreVars
      BY <2>2, <2>3, <2>7 DEF keystoreVars
    <2> QED BY <1>1, <2>4, <2>5, <2>6, <2>7 DEF KeystoreNext, Proceed
  <1>2. KeystoreTypeOK /\ PcTellsOp /\ [KeystoreNext]_keystoreVars
          => [\A d \in Domains : Listed(d) /\ d \notin DomainsOf(md') => Removed(d)]_md
    BY <1>1
  <1> QED BY <1>2, TypeCorrect, PcTellsOpAlways, PTL
          DEF KeystoreSpec, OnlyItsRemovalUnlists

=============================================================================
