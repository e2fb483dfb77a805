-------------------------- MODULE AcmeStoreProofs --------------------------
(* Theorems about AcmeStore: the request handlers and the daemon over one  *)
(* keystore, for every set of domains, callers and SANs, every backend and *)
(* number of failures and, where it is not said otherwise, with any        *)
(* overlap and with crashes.                                               *)

EXTENDS AcmeStore, KeystoreProofs

-----------------------------------------------------------------------------
(* Types of the requests and of the run. *)

(* What a keystore step leaves of the keystore's types, whatever it does   *)
(* to a record and to the count of failures.                               *)
LEMMA StoreKeepsType ==
  ASSUME NEW d \in Domains, NEW c \in CertAndKey, KeystoreTypeOK,
         \/ StoreCertAndKey(d, c) \/ StoreFails(d, c)
         \/ DeleteCertAndKey(d) \/ DeleteFails(d),
         md' = md, call' \in [Callers -> Call]
  PROVE  KeystoreTypeOK'
  BY StoreType DEF KeystoreTypeOK

(* A step that reads at most leaves the keystore's types. *)
LEMMA ReadKeepsType ==
  ASSUME KeystoreTypeOK, Fault \/ NoFault,
         UNCHANGED <<md, certs, torn>>, call' \in [Callers -> Call]
  PROVE  KeystoreTypeOK'
  BY FaultType DEF KeystoreTypeOK

(* The records that handlers and daemon compute are records. *)
LEMMA StoreRecordTypes ==
  /\ NoRequest \in Requests
  /\ AtRest \in Worker
  /\ \A d \in Domains, s \in Sans : NewCertAndKey(d, s) \in CertAndKey
  /\ \A c \in CertAndKey :
       Unmanaged(c) \in CertAndKey /\ Failed(c) \in CertAndKey
                                   /\ Aged(c) \in CertAndKey
  <1>1. NoRequest \in Requests
    BY AnyDomainIn, RecordTypes DEF NoRequest, Requests
  <1>2. AtRest \in Worker
    BY AnyDomainIn, RecordTypes, SansTypes DEF AtRest, Worker
  <1>3. \A d \in Domains, s \in Sans : NewCertAndKey(d, s) \in CertAndKey
    BY SansTypes DEF NewCertAndKey, CertAndKey
  <1>4. \A c \in CertAndKey : Unmanaged(c) \in CertAndKey
    BY DEF Unmanaged, CertAndKey
  <1>5. \A c \in CertAndKey : Failed(c) \in CertAndKey
    BY DEF Failed, CertAndKey
  <1>6. \A c \in CertAndKey : Aged(c) \in CertAndKey
    BY DEF Aged, CertAndKey
  <1> QED BY <1>1, <1>2, <1>3, <1>4, <1>5, <1>6

(* The local variables of a request are of their types. *)
LEMMA RequestFields ==
  ASSUME NEW h \in Callers, HandlersTypeOK
  PROVE  req[h].domain \in Domains /\ req[h].cert \in CertAndKey
  BY DEF HandlersTypeOK, Requests

(* A request that is accepted or answered leaves requests. *)
LEMMA ServeType ==
  ASSUME NEW h \in Callers, NEW o \in AllOps, NEW d \in Domains,
         NEW k \in {"calling", "delGet"}, HandlersTypeOK, Serve(h, o, d, k)
  PROVE  HandlersTypeOK'
  <1> DEFINE r == [NoRequest EXCEPT !.op = o, !.domain = d, !.pc = k]
  <1>1. r \in Requests
    BY StoreRecordTypes DEF Requests
  <1>2. req' = [req EXCEPT ![h] = r]
    BY DEF Serve
  <1> QED BY <1>1, <1>2 DEF HandlersTypeOK

(* An answered request leaves requests. *)
LEMMA RespondType ==
  ASSUME NEW h \in Callers, HandlersTypeOK, Respond(h)
  PROVE  HandlersTypeOK'
  BY StoreRecordTypes DEF HandlersTypeOK, Respond

(* A call that begins is a call. *)
LEMMA BeginType ==
  ASSUME NEW p \in Callers, NEW d \in Domains, NEW s \in Sans,
         NEW k \in {"add", "remove"}, call \in [Callers -> Call], Begin(p, k, d, s)
  PROVE  call' \in [Callers -> Call]
  <1> DEFINE c == [NoCall EXCEPT !.pc = k, !.op = k, !.domain = d, !.sans = s]
  <1>1. c \in Call
    BY NoCallType DEF Call, Pcs
  <1>2. call' = [call EXCEPT ![p] = c]
    BY DEF Begin
  <1> QED BY <1>1, <1>2

(* A step of a request, with the keystore calls it makes. *)
LEMMA HandlerStepType ==
  ASSUME NEW h \in Callers, TypeOK, HandlerStep(h)
  PROVE  KeystoreTypeOK' /\ HandlersTypeOK'
  <1>0. /\ KeystoreTypeOK /\ HandlersTypeOK
        /\ call \in [Callers -> Call]
        /\ certs \in [Domains -> CertAndKey]
        /\ req[h].domain \in Domains /\ req[h].cert \in CertAndKey
    BY RequestFields DEF TypeOK, KeystoreTypeOK
  <1>a. Answered(h) => call' \in [Callers -> Call]
    BY <1>0, CallTypes
  <1>1. CASE KeystoreCall(h)
    <2>1. KeystoreTypeOK'
      BY <1>0, <1>1, AddStepType, RemoveStepType DEF KeystoreCall, CallStep
    <2> QED BY <1>0, <1>1, <2>1 DEF KeystoreCall, HandlersTypeOK
  <1>2. CASE AddDomainReply(h) \/ SoftRefused(h)
    <2>1. HandlersTypeOK'
      BY <1>0, <1>2, RespondType DEF AddDomainReply, SoftRefused
    <2> QED BY <1>0, <1>a, <1>2, <2>1
            DEF AddDomainReply, SoftRefused, KeystoreTypeOK
  <1>3. CASE HardDelete(h)
    <2>1. HandlersTypeOK'
      BY <1>0, <1>3, RespondType DEF HardDelete
    <2> QED BY <1>0, <1>a, <1>3, <2>1, RecordTypes, StoreKeepsType DEF HardDelete
  <1>4. CASE SoftGet(h)
    <2> DEFINE d == req[h].domain
               r == [req[h] EXCEPT !.pc = "unmanage", !.cert = Unmanaged(certs[d])]
    <2>1. Unmanaged(certs[d]) \in CertAndKey
      BY <1>0, StoreRecordTypes
    <2>2. r \in Requests
      BY <1>0, <2>1 DEF HandlersTypeOK, Requests
    <2>3. req' = [req EXCEPT ![h] = r] \/ Respond(h)
      BY <1>0, <1>4 DEF SoftGet, HandlersTypeOK
    <2>4. HandlersTypeOK'
      BY <1>0, <2>2, <2>3, RespondType DEF HandlersTypeOK
    <2>5. Fault \/ NoFault
      BY <1>4, ReadType DEF SoftGet
    <2> QED BY <1>0, <1>a, <1>4, <2>4, <2>5, ReadKeepsType DEF SoftGet
  <1>5. CASE SoftStore(h)
    <2>1. HandlersTypeOK'
      BY <1>0, <1>5, RespondType DEF SoftStore
    <2> QED BY <1>0, <1>5, <2>1, StoreKeepsType DEF SoftStore
  <1>6. CASE DeleteCertCheck(h)
    <2> DEFINE r == [req[h] EXCEPT !.pc = "delDelete"]
    <2>1. r \in Requests
      BY <1>0 DEF HandlersTypeOK, Requests
    <2>2. req' = [req EXCEPT ![h] = r] \/ Respond(h)
      BY <1>0, <1>6 DEF DeleteCertCheck, HandlersTypeOK
    <2>3. HandlersTypeOK'
      BY <1>0, <2>1, <2>2, RespondType DEF HandlersTypeOK
    <2>4. Fault \/ NoFault
      BY <1>6, ReadType DEF DeleteCertCheck
    <2> QED BY <1>0, <1>6, <2>3, <2>4, ReadKeepsType DEF DeleteCertCheck
  <1>7. CASE DeleteCertDelete(h)
    <2>1. HandlersTypeOK'
      BY <1>0, <1>7, RespondType DEF DeleteCertDelete
    <2> QED BY <1>0, <1>7, <2>1, RecordTypes, StoreKeepsType DEF DeleteCertDelete
  <1> QED BY <1>1, <1>2, <1>3, <1>4, <1>5, <1>6, <1>7 DEF HandlerStep

(* A request that arrives. *)
LEMMA NewRequestType ==
  ASSUME NEW h \in Callers, TypeOK, NewRequest(h)
  PROVE  KeystoreTypeOK' /\ HandlersTypeOK'
  <1>0. KeystoreTypeOK /\ HandlersTypeOK /\ call \in [Callers -> Call]
    BY DEF TypeOK, KeystoreTypeOK
  <1>1. PICK o \in AllOps, d \in Domains, k \in {"calling", "delGet"} :
          Serve(h, o, d, k)
    BY DEF NewRequest, AddDomain, RemoveDomain, DeleteCert, AllOps
  <1>2. HandlersTypeOK'
    BY <1>0, <1>1, ServeType
  <1>3. call' \in [Callers -> Call]
    BY <1>0, BeginType, SansTypes
    DEF NewRequest, AddDomain, RemoveDomain, DeleteCert, BeginAdd, BeginRemove
  <1> QED BY <1>0, <1>1, <1>2, <1>3 DEF Serve, KeystoreTypeOK

-----------------------------------------------------------------------------
(* The steps of a run. *)

(* Assigning the local variables of the run gives a run. *)
LEMMA WorkerTypes ==
  ASSUME DaemonTypeOK
  PROVE  /\ \A k \in {"leaf", "order", "failGet", "errGet"} : WGoto(k) => DaemonTypeOK'
         /\ \A k \in {"issued", "failStore", "errStore"}, c \in CertAndKey :
              WStore(k, c) => DaemonTypeOK'
         /\ \A S \in SUBSET Domains : NextDomain(S) => DaemonTypeOK'
         /\ w.domain \in Domains /\ w.cert \in CertAndKey
         /\ w.todo \in SUBSET Domains /\ w.sans \in Sans
  <1> USE StoreRecordTypes, RecordTypes DEF DaemonTypeOK, Worker
  <1>1. \A k \in {"leaf", "order", "failGet", "errGet"} : WGoto(k) => DaemonTypeOK'
    BY DEF WGoto
  <1>2. ASSUME NEW k \in {"issued", "failStore", "errStore"}, NEW c \in CertAndKey
        PROVE  WStore(k, c) => DaemonTypeOK'
    BY DEF WStore
  <1>3. ASSUME NEW S \in SUBSET Domains PROVE NextDomain(S) => DaemonTypeOK'
    BY DEF NextDomain
  <1> QED BY <1>1, <1>2, <1>3

(* The two marks of a failed order, and reads that change only the run. *)
LEMMA MarkType ==
  ASSUME TypeOK
  PROVE  /\ RenewFailGet \/ OrdersFailGet => KeystoreTypeOK' /\ DaemonTypeOK'
         /\ RenewFailStore \/ OrdersFailStore => KeystoreTypeOK' /\ DaemonTypeOK'
  <1>0. /\ KeystoreTypeOK /\ DaemonTypeOK
        /\ call \in [Callers -> Call]
        /\ w.domain \in Domains /\ w.cert \in CertAndKey
        /\ w.todo \in SUBSET Domains
        /\ certs[w.domain] \in CertAndKey
    BY WorkerTypes DEF TypeOK, KeystoreTypeOK
  <1>1. Failed(certs[w.domain]) \in CertAndKey
    BY <1>0, StoreRecordTypes
  <1>2. ASSUME RenewFailGet \/ OrdersFailGet
        PROVE  KeystoreTypeOK' /\ DaemonTypeOK'
    <2>1. Fault \/ NoFault
      BY <1>2, ReadType DEF RenewFailGet, OrdersFailGet, MarkGet
    <2>2. DaemonTypeOK'
      BY <1>0, <1>1, <1>2, WorkerTypes
      DEF RenewFailGet, OrdersFailGet, MarkGet, GiveUp
    <2> QED BY <1>0, <1>2, <2>1, <2>2, ReadKeepsType
            DEF RenewFailGet, OrdersFailGet, MarkGet
  <1>3. ASSUME RenewFailStore \/ OrdersFailStore
        PROVE  KeystoreTypeOK' /\ DaemonTypeOK'
    <2>1. DaemonTypeOK'
      BY <1>0, <1>3, WorkerTypes DEF RenewFailStore, OrdersFailStore, MarkStore, GiveUp
    <2> QED BY <1>0, <1>3, <2>1, StoreKeepsType
            DEF RenewFailStore, OrdersFailStore, MarkStore
  <1> QED BY <1>2, <1>3

(* The SANs found in a list are SANs. *)
LEMMA SansOfType ==
  ASSUME NEW d, md \subseteq Entry
  PROVE  SansOf(d, md) \in Sans
  <1>1. CASE d \in DomainsOf(md)
    <2>1. \E e \in md : e.domain = d
      BY <1>1 DEF DomainsOf
    <2>2. (CHOOSE e \in md : e.domain = d) \in md
      BY <2>1
    <2>3. SansOf(d, md) = (CHOOSE e \in md : e.domain = d).sans
      BY <1>1 DEF SansOf
    <2> QED BY <2>2, <2>3 DEF Entry
  <1>2. CASE d \notin DomainsOf(md)
    BY <1>2, SansTypes DEF SansOf
  <1> QED BY <1>1, <1>2

(* A step of a run. *)
LEMMA RunStepType ==
  ASSUME TypeOK, RunStep
  PROVE  KeystoreTypeOK' /\ DaemonTypeOK'
  <1>0. /\ KeystoreTypeOK /\ DaemonTypeOK /\ md \subseteq Entry
        /\ call \in [Callers -> Call]
        /\ w \in Worker
        /\ w.domain \in Domains /\ w.cert \in CertAndKey
        /\ w.todo \in SUBSET Domains /\ w.sans \in Sans
    BY WorkerTypes DEF TypeOK, KeystoreTypeOK, DaemonTypeOK
  <1>1. CASE CheckManaged
    <2>1. PICK d \in w.todo : \/ NextDomain(w.todo \ {d})
                              \/ w' = [w EXCEPT !.pc = "sans", !.domain = d,
                                                !.todo = @ \ {d}]
      BY <1>1 DEF CheckManaged
    <2>2. w.todo \ {d} \in SUBSET Domains /\ d \in Domains
      BY <1>0
    <2>3. [w EXCEPT !.pc = "sans", !.domain = d, !.todo = w.todo \ {d}] \in Worker
      BY <1>0, <2>2 DEF Worker
    <2>4. DaemonTypeOK'
      BY <1>0, <2>1, <2>2, <2>3, WorkerTypes DEF DaemonTypeOK
    <2>5. Fault \/ NoFault
      BY <1>1, ReadType DEF CheckManaged
    <2> QED BY <1>0, <1>1, <2>4, <2>5, ReadKeepsType DEF CheckManaged
  <1>2. CASE ReadSans
    <2> DEFINE s == SansOf(w.domain, md)
    <2>1. s \in Sans
      BY <1>0, SansOfType
    <2>2. [w EXCEPT !.pc = "leaf", !.sans = s] \in Worker
      BY <1>0, <2>1 DEF Worker
    <2>3. DaemonTypeOK'
      BY <1>0, <1>2, <2>2, WorkerTypes DEF ReadSans, DaemonTypeOK
    <2>4. Fault \/ NoFault
      BY <1>2, ReadType DEF ReadSans
    <2> QED BY <1>0, <1>2, <2>3, <2>4, ReadKeepsType DEF ReadSans
  <1>3. CASE ReadLeaf
    <2>1. DaemonTypeOK'
      BY <1>0, <1>3, WorkerTypes DEF ReadLeaf
    <2>2. Fault \/ NoFault
      BY <1>3, ReadType DEF ReadLeaf
    <2> QED BY <1>0, <1>3, <2>1, <2>2, ReadKeepsType DEF ReadLeaf
  <1>4. CASE Order
    <2>1. NewCertAndKey(w.domain, w.sans) \in CertAndKey
      BY <1>0, StoreRecordTypes
    <2>2. DaemonTypeOK'
      BY <1>0, <1>4, <2>1, WorkerTypes DEF Order
    <2>3. Fault \/ NoFault
      BY <1>4 DEF Order
    <2> QED BY <1>0, <1>4, <2>2, <2>3, ReadKeepsType DEF Order
  <1>5. CASE StoreIssued
    <2>1. DaemonTypeOK'
      BY <1>0, <1>5, WorkerTypes DEF StoreIssued
    <2> QED BY <1>0, <1>5, <2>1, StoreKeepsType DEF StoreIssued
  <1> QED BY <1>1, <1>2, <1>3, <1>4, <1>5, MarkType DEF RunStep

(* The run that a tick starts. *)
LEMMA StartRunType ==
  ASSUME TypeOK, StartRun
  PROVE  KeystoreTypeOK' /\ DaemonTypeOK'
  <1>0. /\ KeystoreTypeOK /\ DaemonTypeOK /\ md \subseteq Entry
        /\ call \in [Callers -> Call]
    BY DEF TypeOK, KeystoreTypeOK
  <1>1. Snapshot \in SUBSET Domains
    BY <1>0 DEF Snapshot, Managed, DomainsOf, Entry
  <1>2. DaemonTypeOK'
    BY <1>0, <1>1, WorkerTypes DEF StartRun, DaemonTypeOK
  <1>3. Fault \/ NoFault
    BY ReadType DEF StartRun
  <1> QED BY <1>0, <1>2, <1>3, ReadKeepsType DEF StartRun

(* Time: every copy of a certificate ages. *)
LEMMA AgeType ==
  ASSUME NEW d \in Domains, TypeOK, Age(d)
  PROVE  TypeOK'
  <1>0. /\ KeystoreTypeOK /\ HandlersTypeOK /\ DaemonTypeOK
        /\ call \in [Callers -> Call] /\ req \in [Callers -> Requests]
        /\ certs \in [Domains -> CertAndKey] /\ w \in Worker
    BY DEF TypeOK, KeystoreTypeOK, HandlersTypeOK, DaemonTypeOK
  <1>1. certs' \in [Domains -> CertAndKey]
    <2> DEFINE c == Aged(certs[d])
    <2>1. c \in CertAndKey
      BY <1>0, StoreRecordTypes
    <2>2. certs' = [certs EXCEPT ![d] = c]
      BY <1>0 DEF Age
    <2> QED BY <1>0, <2>1, <2>2
  <1>2. call' \in [Callers -> Call]
    <2>1. ASSUME NEW p \in Callers
          PROVE  [call[p] EXCEPT !.cert = Aged(call[p].cert)] \in Call
      <3> DEFINE c == Aged(call[p].cert)
      <3>1. c \in CertAndKey
        BY <1>0, StoreRecordTypes DEF Call
      <3>2. [call[p] EXCEPT !.cert = c] \in Call
        BY <1>0, <3>1 DEF Call
      <3> QED BY <3>2
    <2> QED BY <1>0, <2>1 DEF Age
  <1>3. req' \in [Callers -> Requests]
    <2>1. ASSUME NEW h \in Callers
          PROVE  [req[h] EXCEPT !.cert = Aged(req[h].cert)] \in Requests
      <3> DEFINE c == Aged(req[h].cert)
      <3>1. c \in CertAndKey
        BY <1>0, StoreRecordTypes DEF Requests
      <3>2. [req[h] EXCEPT !.cert = c] \in Requests
        BY <1>0, <3>1 DEF Requests
      <3> QED BY <3>2
    <2> QED BY <1>0, <2>1 DEF Age
  <1>4. w' \in Worker
    <2> DEFINE c == Aged(w.cert)
    <2>1. c \in CertAndKey
      BY <1>0, StoreRecordTypes DEF Worker
    <2>2. [w EXCEPT !.cert = c] \in Worker
      BY <1>0, <2>1 DEF Worker
    <2> QED BY <1>0, <2>2 DEF Age
  <1> QED BY <1>0, <1>1, <1>2, <1>3, <1>4
          DEF Age, TypeOK, KeystoreTypeOK, HandlersTypeOK, DaemonTypeOK

(* The process stops and starts. *)
LEMMA RestartType ==
  ASSUME TypeOK, Restart
  PROVE  TypeOK'
  <1>0. KeystoreTypeOK
    BY DEF TypeOK
  <1>1. call' \in [Callers -> Call]
    BY NoCallType DEF Restart, Crash
  <1>2. certs' \in [Domains -> CertAndKey] /\ md' \subseteq Entry
    BY <1>0, RecordTypes DEF Restart, Crash, KeystoreTypeOK
  <1>3. KeystoreTypeOK'
    BY <1>0, <1>1, <1>2 DEF Restart, Crash, KeystoreTypeOK
  <1>4. HandlersTypeOK' /\ DaemonTypeOK'
    BY StoreRecordTypes DEF Restart, HandlersTypeOK, DaemonTypeOK
  <1> QED BY <1>3, <1>4 DEF TypeOK

(* The service starts within its types. *)
LEMMA InitType ==
  ASSUME Init
  PROVE  TypeOK
  <1>1. KeystoreTypeOK
    BY RecordTypes, NoCallType, FaultsAssumption
    DEF Init, KeystoreInit, KeystoreTypeOK
  <1> QED BY <1>1, StoreRecordTypes
          DEF Init, TypeOK, HandlersInit, DaemonInit, HandlersTypeOK, DaemonTypeOK

(* Requests, calls, records and the run are always of their types.         *)
THEOREM StoreTypeCorrect == Spec => []TypeOK
  <1>1. Init => TypeOK
    BY InitType
  <1>2. TypeOK /\ [Next]_vars => TypeOK'
    <2> SUFFICES ASSUME TypeOK, [Next]_vars PROVE TypeOK'
      OBVIOUS
    <2>1. ASSUME NEW h \in Callers, ClientStep(h) PROVE TypeOK'
      BY <2>1, NewRequestType DEF ClientStep, TypeOK, DaemonTypeOK
    <2>2. ASSUME NEW h \in Callers, ServerStep(h) PROVE TypeOK'
      BY <2>2, HandlerStepType DEF ServerStep, TypeOK, DaemonTypeOK
    <2>3. CASE TickStep
      BY <2>3, StartRunType DEF TickStep, TypeOK, HandlersTypeOK
    <2>4. CASE DaemonStep
      BY <2>4, RunStepType DEF DaemonStep, TypeOK, HandlersTypeOK
    <2>5. ASSUME NEW d \in Domains, Age(d) PROVE TypeOK'
      BY <2>5, AgeType
    <2>6. CASE Restart
      BY <2>6, RestartType
    <2>7. CASE UNCHANGED vars
      BY <2>7 DEF vars, keystoreVars, TypeOK, KeystoreTypeOK, HandlersTypeOK,
                  DaemonTypeOK
    <2> QED BY <2>1, <2>2, <2>3, <2>4, <2>5, <2>6, <2>7 DEF Next
  <1> QED BY <1>1, <1>2, PTL DEF Spec

-----------------------------------------------------------------------------
(* StatusTellsPem.  Records are stored from copies that calls, requests    *)
(* and the run hold, so the invariant is about every copy.                 *)

Good(c) == /\ c.status = "issued" => c.pem # "none"
           /\ c.status = "pending" => c.pem = "none"

RecordsGood == \A d \in Domains : Good(certs[d])
CallsGood == \A p \in Callers : Good(call[p].cert)
RequestsGood == \A h \in Callers : Good(req[h].cert)
RunGood == Good(w.cert)

CopiesGood == RecordsGood /\ CallsGood /\ RequestsGood /\ RunGood

(* Whatever is done to a record, its status tells the truth. *)
LEMMA GoodRecords ==
  /\ Good(Zero)
  /\ \A s \in Sans : Good(Placeholder(s)) /\ \A d : Good(NewCertAndKey(d, s))
  /\ \A c \in CertAndKey : /\ Good(c) => Good(Adopted(c)) /\ Good(TakenOver(c))
                           /\ Good(c) => Good(Unmanaged(c)) /\ Good(Aged(c))
                           /\ Good(Failed(c))
  BY DEF Good, Zero, Placeholder, NewCertAndKey, Adopted, TakenOver, Unmanaged,
         Aged, Failed, CertAndKey

(* Who has read nothing holds no record. *)
LEMMA NothingHeld ==
  NoCall.cert = Zero /\ NoRequest.cert = Zero /\ AtRest.cert = Zero
  BY DEF NoCall, NoRequest, AtRest

(* Storing a copy, or deleting. *)
LEMMA StoreGood ==
  ASSUME NEW d \in Domains, NEW c \in CertAndKey, KeystoreTypeOK,
         RecordsGood, Good(c),
         \/ StoreCertAndKey(d, c) \/ StoreFails(d, c)
         \/ DeleteCertAndKey(d) \/ DeleteFails(d)
  PROVE  RecordsGood'
  <1>1. /\ certs' \in [Domains -> CertAndKey]
        /\ \/ certs' = certs
           \/ certs' = [certs EXCEPT ![d] = c]
           \/ certs' = [certs EXCEPT ![d] = Zero]
    BY RecordTypes DEF StoreCertAndKey, StoreFails, DeleteCertAndKey, DeleteFails,
                       KeystoreTypeOK
  <1> QED BY <1>1, GoodRecords DEF RecordsGood, KeystoreTypeOK

(* A call goes on with a copy of a record. *)
LEMMA CallGood ==
  ASSUME NEW p \in Callers, KeystoreTypeOK, CallsGood
  PROVE  /\ \A k : Goto(p, k) => CallsGood'
         /\ \A k, l, c : Good(c) /\ GotoWith(p, k, l, c) => CallsGood'
         /\ Succeed(p) \/ Refuse(p) => CallsGood'
         /\ Answered(p) => CallsGood'
         /\ \A k, d, s : Begin(p, k, d, s) => CallsGood'
  <1>0. call \in [Callers -> Call] /\ Good(Zero)
    BY GoodRecords DEF KeystoreTypeOK
  <1>1. ASSUME NEW k, Goto(p, k) PROVE CallsGood'
    BY <1>0, <1>1 DEF Goto, CallsGood, Call
  <1>2. ASSUME NEW k, NEW l, NEW c, Good(c), GotoWith(p, k, l, c) PROVE CallsGood'
    BY <1>0, <1>2 DEF GotoWith, CallsGood, Call
  <1>3. ASSUME Succeed(p) \/ Refuse(p) PROVE CallsGood'
    <2>1. ASSUME NEW ok, Finish(p, ok) PROVE CallsGood'
      BY <1>0, <2>1 DEF Finish, CallsGood, Call
    <2> QED BY <1>3, <2>1 DEF Succeed, Refuse
  <1>4. ASSUME Answered(p) PROVE CallsGood'
    BY <1>0, <1>4 DEF Answered, NoCall, CallsGood, Call
  <1>5. ASSUME NEW k, NEW d, NEW s, Begin(p, k, d, s) PROVE CallsGood'
    BY <1>0, <1>5 DEF Begin, NoCall, CallsGood, Call
  <1> QED BY <1>1, <1>2, <1>3, <1>4, <1>5

(* The steps of a keystore call. *)
LEMMA CallStepGood ==
  ASSUME NEW p \in Callers, KeystoreTypeOK, RecordsGood, CallsGood, CallStep(p)
  PROVE  RecordsGood' /\ CallsGood'
  <1>0. /\ call[p] \in Call /\ call[p].domain \in Domains
        /\ call[p].cert \in CertAndKey /\ call[p].sans \in Sans
        /\ certs \in [Domains -> CertAndKey]
        /\ certs[call[p].domain] \in CertAndKey
        /\ Good(Zero) /\ Good(certs[call[p].domain]) /\ Good(call[p].cert)
    BY GoodRecords DEF KeystoreTypeOK, Call, RecordsGood, CallsGood
  <1>1. CASE \/ VaultAddRead(p) \/ VaultAddWrite(p) \/ FileAddList(p)
             \/ VaultRemoveRead(p) \/ VaultRemoveWrite(p) \/ FileRemove(p)
    <2>1. CallsGood'
      BY <1>0, <1>1, CallGood
      DEF VaultAddRead, VaultAddWrite, FileAddList, VaultRemoveRead,
          VaultRemoveWrite, FileRemove, AddTo, RemoveFrom
    <2>2. UNCHANGED certs
      BY <1>1 DEF VaultAddRead, VaultAddWrite, FileAddList, VaultRemoveRead,
                  VaultRemoveWrite, FileRemove
    <2> QED BY <2>1, <2>2 DEF RecordsGood
  <1>2. CASE AddGet(p)
    <2>1. Good(Placeholder(call[p].sans)) /\ Good(Adopted(certs[call[p].domain]))
      BY <1>0, GoodRecords
    <2>2. CallsGood'
      BY <1>0, <1>2, <2>1, CallGood DEF AddGet
    <2> QED BY <1>2, <2>2 DEF AddGet, RecordsGood
  <1>3. CASE AddStore(p)
    BY <1>0, <1>3, CallGood, StoreGood DEF AddStore
  <1>4. CASE MemoryAdd(p)
    <2>1. Good(TakenOver(certs[call[p].domain]))
      BY <1>0, GoodRecords
    <2>2. CallsGood'
      BY <1>4, CallGood DEF MemoryAdd
    <2>3. \/ certs' = certs
          \/ certs' = [certs EXCEPT ![call[p].domain] =
                         TakenOver(certs[call[p].domain])]
      BY <1>0, <1>4 DEF MemoryAdd
    <2> QED BY <1>0, <2>1, <2>2, <2>3 DEF RecordsGood
  <1>5. CASE MemoryRemove(p)
    BY <1>5, CallGood DEF MemoryRemove, RecordsGood
  <1> QED BY <1>1, <1>2, <1>3, <1>4, <1>5 DEF CallStep, AddStep, RemoveStep

(* The steps of a request. *)
LEMMA HandlerStepGood ==
  ASSUME NEW h \in Callers, TypeOK, CopiesGood, HandlerStep(h)
  PROVE  RecordsGood' /\ CallsGood' /\ RequestsGood'
  <1>0. /\ KeystoreTypeOK /\ HandlersTypeOK /\ RecordsGood /\ CallsGood
        /\ RequestsGood /\ req \in [Callers -> Requests]
        /\ req[h] \in Requests /\ req[h].domain \in Domains
        /\ req[h].cert \in CertAndKey /\ Good(req[h].cert)
        /\ certs[req[h].domain] \in CertAndKey /\ Good(certs[req[h].domain])
        /\ Good(Zero)
    BY RequestFields, GoodRecords
    DEF TypeOK, KeystoreTypeOK, HandlersTypeOK, CopiesGood, RecordsGood, RequestsGood
  <1>a. Answered(h) => CallsGood'
    BY <1>0, CallGood
  <1>b. Respond(h) => RequestsGood'
    BY <1>0, NothingHeld DEF Respond, RequestsGood
  <1>c. UNCHANGED certs => RecordsGood'
    BY <1>0 DEF RecordsGood
  <1>d. UNCHANGED call => CallsGood'
    BY <1>0 DEF CallsGood
  <1>1. CASE KeystoreCall(h)
    BY <1>0, <1>1, CallStepGood DEF KeystoreCall, RequestsGood
  <1>2. CASE AddDomainReply(h) \/ SoftRefused(h)
    BY <1>2, <1>a, <1>b, <1>c DEF AddDomainReply, SoftRefused
  <1>3. CASE HardDelete(h)
    <2>1. RecordsGood'
      BY <1>0, <1>3, RecordTypes, StoreGood DEF HardDelete
    <2> QED BY <1>3, <1>a, <1>b, <2>1 DEF HardDelete
  <1>4. CASE SoftGet(h)
    <2> DEFINE c == Unmanaged(certs[req[h].domain])
    <2>1. Good(c)
      BY <1>0, GoodRecords
    <2>2. Respond(h) \/ req' = [req EXCEPT ![h].pc = "unmanage", ![h].cert = c]
      BY <1>4 DEF SoftGet
    <2> HIDE DEF c
    <2>3. RequestsGood'
      BY <1>0, <1>b, <2>1, <2>2, ZenonT(60) DEF RequestsGood, Requests
    <2> QED BY <1>4, <1>a, <1>c, <2>3 DEF SoftGet
  <1>5. CASE SoftStore(h)
    <2>1. RecordsGood'
      BY <1>0, <1>5, StoreGood DEF SoftStore
    <2> QED BY <1>5, <1>b, <1>d, <2>1 DEF SoftStore
  <1>6. CASE DeleteCertCheck(h)
    <2>1. Respond(h) \/ req' = [req EXCEPT ![h].pc = "delDelete"]
      BY <1>6 DEF DeleteCertCheck
    <2>2. RequestsGood'
      BY <1>0, <1>b, <2>1 DEF RequestsGood, Requests
    <2> QED BY <1>6, <1>c, <1>d, <2>2 DEF DeleteCertCheck
  <1>7. CASE DeleteCertDelete(h)
    <2>1. RecordsGood'
      BY <1>0, <1>7, RecordTypes, StoreGood DEF DeleteCertDelete
    <2> QED BY <1>7, <1>b, <1>d, <2>1 DEF DeleteCertDelete
  <1> QED BY <1>1, <1>2, <1>3, <1>4, <1>5, <1>6, <1>7 DEF HandlerStep

(* A request that arrives carries no record. *)
LEMMA NewRequestGood ==
  ASSUME NEW h \in Callers, TypeOK, CopiesGood, NewRequest(h)
  PROVE  RecordsGood' /\ CallsGood' /\ RequestsGood'
  <1>0. KeystoreTypeOK /\ HandlersTypeOK /\ CallsGood /\ Good(Zero)
    BY GoodRecords DEF TypeOK, CopiesGood
  <1>1. PICK o \in AllOps, d \in Domains, k \in {"calling", "delGet"} :
          Serve(h, o, d, k)
    BY DEF NewRequest, AddDomain, RemoveDomain, DeleteCert, AllOps
  <1>2. RequestsGood'
    BY <1>0, <1>1 DEF Serve, NoRequest, RequestsGood, HandlersTypeOK, Requests,
                      CopiesGood
  <1>3. CallsGood'
    <2>1. UNCHANGED call \/ \E m, e, s : Begin(h, m, e, s)
      BY DEF NewRequest, AddDomain, RemoveDomain, DeleteCert, BeginAdd, BeginRemove
    <2> QED BY <1>0, <2>1, CallGood DEF CallsGood
  <1> QED BY <1>1, <1>2, <1>3 DEF Serve, CopiesGood, RecordsGood

(* The run goes on with a copy of a record, or without one. *)
LEMMA RunGoods ==
  ASSUME DaemonTypeOK, RunGood
  PROVE  /\ \A k : WGoto(k) => RunGood'
         /\ \A k, c : Good(c) /\ WStore(k, c) => RunGood'
         /\ \A S : NextDomain(S) => RunGood'
  <1>0. w \in Worker /\ AtRest \in Worker /\ Good(Zero) /\ Good(AtRest.cert)
    BY StoreRecordTypes, GoodRecords, NothingHeld DEF DaemonTypeOK
  <1>1. \A k : WGoto(k) => RunGood'
    BY <1>0 DEF WGoto, RunGood, Worker
  <1>2. \A k, c : Good(c) /\ WStore(k, c) => RunGood'
    BY <1>0 DEF WStore, RunGood, Worker
  <1>3. \A S : NextDomain(S) => RunGood'
    BY <1>0 DEF NextDomain, RunGood, Worker
  <1> QED BY <1>1, <1>2, <1>3

(* The steps of a run. *)
LEMMA RunStepGood ==
  ASSUME TypeOK, CopiesGood, RunStep \/ StartRun
  PROVE  RecordsGood' /\ CallsGood' /\ RunGood'
  <1>0. /\ KeystoreTypeOK /\ DaemonTypeOK /\ RecordsGood /\ CallsGood /\ RunGood
        /\ w \in Worker /\ w.domain \in Domains /\ w.sans \in Sans
        /\ w.cert \in CertAndKey /\ Good(w.cert)
        /\ certs[w.domain] \in CertAndKey /\ Good(certs[w.domain])
    BY WorkerTypes DEF TypeOK, KeystoreTypeOK, DaemonTypeOK, CopiesGood, RunGood,
                       RecordsGood
  <1>c. UNCHANGED certs => RecordsGood'
    BY <1>0 DEF RecordsGood
  <1>d. UNCHANGED call => CallsGood'
    BY <1>0 DEF CallsGood
  <1>1. CASE CheckManaged
    <2>1. PICK d \in w.todo : \/ NextDomain(w.todo \ {d})
                              \/ w' = [w EXCEPT !.pc = "sans", !.domain = d,
                                                !.todo = @ \ {d}]
      BY <1>1 DEF CheckManaged
    <2>2. RunGood'
      BY <1>0, <2>1, RunGoods DEF RunGood, Worker
    <2> QED BY <1>1, <1>c, <1>d, <2>2 DEF CheckManaged
  <1>2. CASE ReadSans
    <2>1. RunGood'
      BY <1>0, <1>2, RunGoods DEF ReadSans, RunGood, Worker
    <2> QED BY <1>2, <1>c, <1>d, <2>1 DEF ReadSans
  <1>3. CASE ReadLeaf
    <2>1. RunGood'
      BY <1>0, <1>3, RunGoods DEF ReadLeaf
    <2> QED BY <1>3, <1>c, <1>d, <2>1 DEF ReadLeaf
  <1>4. CASE Order
    <2>1. Good(NewCertAndKey(w.domain, w.sans))
      BY <1>0, GoodRecords
    <2>2. RunGood'
      BY <1>0, <1>4, <2>1, RunGoods DEF Order
    <2> QED BY <1>4, <1>c, <1>d, <2>2 DEF Order
  <1>5. CASE StoreIssued
    <2>1. RunGood'
      BY <1>0, <1>5, RunGoods DEF StoreIssued
    <2> QED BY <1>0, <1>5, <1>d, <2>1, StoreGood DEF StoreIssued
  <1>6. CASE RenewFailGet \/ OrdersFailGet
    <2>1. Good(Failed(certs[w.domain]))
      BY <1>0, GoodRecords
    <2>2. RunGood'
      BY <1>0, <1>6, <2>1, RunGoods
      DEF RenewFailGet, OrdersFailGet, MarkGet, GiveUp
    <2> QED BY <1>6, <1>c, <1>d, <2>2 DEF RenewFailGet, OrdersFailGet, MarkGet
  <1>7. CASE RenewFailStore \/ OrdersFailStore
    <2>1. RunGood'
      BY <1>0, <1>7, RunGoods DEF RenewFailStore, OrdersFailStore, MarkStore, GiveUp
    <2> QED BY <1>0, <1>7, <1>d, <2>1, StoreGood
            DEF RenewFailStore, OrdersFailStore, MarkStore
  <1>8. CASE StartRun
    <2>1. RunGood'
      BY <1>0, <1>8, RunGoods DEF StartRun, RunGood
    <2> QED BY <1>8, <1>c, <1>d, <2>1 DEF StartRun
  <1> QED BY <1>1, <1>2, <1>3, <1>4, <1>5, <1>6, <1>7, <1>8 DEF RunStep

(* Time turns fresh into due, never into none. *)
LEMMA AgeGood ==
  ASSUME NEW d \in Domains, TypeOK, CopiesGood, Age(d)
  PROVE  CopiesGood'
  <1>0. /\ certs \in [Domains -> CertAndKey] /\ call \in [Callers -> Call]
        /\ req \in [Callers -> Requests] /\ w \in Worker
        /\ RecordsGood /\ CallsGood /\ RequestsGood /\ RunGood
        /\ \A c \in CertAndKey : Good(c) => Good(Aged(c))
    BY GoodRecords DEF TypeOK, KeystoreTypeOK, HandlersTypeOK, DaemonTypeOK, CopiesGood
  <1>1. RecordsGood'
    BY <1>0 DEF Age, RecordsGood
  <1>2. CallsGood'
    BY <1>0 DEF Age, CallsGood, Call
  <1>3. RequestsGood'
    BY <1>0 DEF Age, RequestsGood, Requests
  <1>4. RunGood'
    BY <1>0 DEF Age, RunGood, Worker
  <1> QED BY <1>1, <1>2, <1>3, <1>4 DEF CopiesGood

(* A record that says "issued" has a certificate and a key and one that    *)
(* says "pending" has none, with any overlap, failures and crashes.        *)
THEOREM StatusTells == Spec => []StatusTellsPem
  <1>1. Init => CopiesGood
    BY GoodRecords, NothingHeld
    DEF Init, KeystoreInit, HandlersInit, DaemonInit, CopiesGood, RecordsGood,
        CallsGood, RequestsGood, RunGood
  <1>2. TypeOK /\ CopiesGood /\ [Next]_vars => CopiesGood'
    <2> SUFFICES ASSUME TypeOK, CopiesGood, [Next]_vars PROVE CopiesGood'
      OBVIOUS
    <2>1. ASSUME NEW h \in Callers, ClientStep(h) PROVE CopiesGood'
      BY <2>1, NewRequestGood DEF ClientStep, CopiesGood, RunGood
    <2>2. ASSUME NEW h \in Callers, ServerStep(h) PROVE CopiesGood'
      BY <2>2, HandlerStepGood DEF ServerStep, CopiesGood, RunGood
    <2>3. CASE TickStep \/ DaemonStep
      BY <2>3, RunStepGood DEF TickStep, DaemonStep, CopiesGood, RequestsGood
    <2>4. ASSUME NEW d \in Domains, Age(d) PROVE CopiesGood'
      BY <2>4, AgeGood
    <2>5. CASE Restart
      <3>1. RecordsGood'
        BY <2>5, GoodRecords DEF Restart, Crash, CopiesGood, RecordsGood
      <3> QED BY <2>5, <3>1, GoodRecords, NothingHeld
              DEF Restart, Crash, CopiesGood, CallsGood, RequestsGood, RunGood
    <2>6. CASE UNCHANGED vars
      BY <2>6 DEF vars, keystoreVars, CopiesGood, RecordsGood, CallsGood,
                  RequestsGood, RunGood
    <2> QED BY <2>1, <2>2, <2>3, <2>4, <2>5, <2>6 DEF Next
  <1>3. CopiesGood => StatusTellsPem
    BY DEF CopiesGood, RecordsGood, Good, StatusTellsPem
  <1> QED BY <1>1, <1>2, <1>3, StoreTypeCorrect, PTL DEF Spec

-----------------------------------------------------------------------------
(* NoNeedlessOrder, while one client at a time changes the store.  The     *)
(* daemon may overlap with it, calls may fail and the process may crash.   *)

OneClient == ~Overlap \/ \A p, q \in Callers : p = q

(* Where the client's request stands and where its keystore call stands. *)
Alone == \A p, q \in Callers : req[p].pc # "idle" /\ req[q].pc # "idle" => p = q
CallOfRequest ==
  \A p \in Callers : req[p].pc = "calling" <=> call[p].pc # "idle"
SameDomain ==
  \A p \in Callers : req[p].pc = "calling" => call[p].domain = req[p].domain

Control == Alone /\ CallOfRequest /\ SameDomain

(* Who holds a fresh copy is about to store it over a fresh record. *)
CallHolds(p) ==
  call[p].cert.pem = "fresh" =>
    call[p].pc = "addStore" /\ certs[call[p].domain].pem = "fresh"
RequestHolds(p) ==
  req[p].cert.pem = "fresh" =>
    req[p].pc = "unmanage" /\ certs[req[p].domain].pem = "fresh"

(* A run that is about to mark a record, or to store a certificate. *)
RunHolds ==
  /\ w.pc \in {"failStore", "errStore"} /\ w.cert.pem # "fresh" =>
       certs[w.domain].pem # "fresh"
  /\ w.pc = "issued" => w.cert.pem = "fresh"

Held ==
  /\ \A p \in Callers : CallHolds(p) /\ RequestHolds(p)
  /\ RunHolds
  /\ NoNeedlessOrder

OneInv == Control /\ Held

(* What a step that h takes must do to keep OneInv, when the run rests. *)
NothingFresher ==
  \A d \in Domains : certs'[d].pem = "fresh" => certs[d].pem = "fresh"
OnlyMoves(h) ==
  \A q \in Callers : q # h => call'[q] = call[q] /\ req'[q] = req[q]

(* What changes in a copy of a record, or makes one, leaves pem alone, or is
   not fresh. *)
LEMMA FreshCopies ==
  /\ Zero.pem # "fresh"
  /\ \A s \in Sans : /\ Placeholder(s).pem # "fresh"
                     /\ \A d : NewCertAndKey(d, s).pem = "fresh"
  /\ \A c \in CertAndKey : /\ Adopted(c).pem = c.pem /\ TakenOver(c).pem = c.pem
                           /\ Unmanaged(c).pem = c.pem /\ Failed(c).pem = c.pem
                           /\ Aged(c).pem # "fresh"
  BY DEF Zero, Placeholder, NewCertAndKey, Adopted, TakenOver, Unmanaged, Aged,
         Failed, CertAndKey

(* What a store leaves of a record is what was stored, or what was there. *)
LEMMA StoreOutcome ==
  ASSUME NEW d \in Domains, NEW c \in CertAndKey, KeystoreTypeOK
  PROVE  /\ StoreCertAndKey(d, c) \/ StoreFails(d, c) =>
              /\ certs'[d] = c \/ certs'[d] = certs[d]
              /\ \A e \in Domains \ {d} : certs'[e] = certs[e]
         /\ DeleteCertAndKey(d) \/ DeleteFails(d) =>
              /\ certs'[d] = Zero \/ certs'[d] = certs[d]
              /\ \A e \in Domains \ {d} : certs'[e] = certs[e]
  BY RecordTypes DEF StoreCertAndKey, StoreFails, DeleteCertAndKey, DeleteFails,
                     KeystoreTypeOK

(* The steps of a keystore call keep h alone with its call, and what it    *)
(* holds true.                                                             *)
LEMMA CallStepHolds ==
  ASSUME NEW p \in Callers, KeystoreTypeOK, CallHolds(p), CallStep(p)
  PROVE  /\ call[p].pc # "idle" /\ call'[p].pc # "idle"
         /\ call'[p].domain = call[p].domain
         /\ \A q \in Callers \ {p} : call'[q] = call[q]
         /\ NothingFresher
         /\ CallHolds(p)'
  <1>0. /\ call \in [Callers -> Call] /\ call[p] \in Call
        /\ call[p].domain \in Domains
        /\ call[p].cert \in CertAndKey /\ call[p].sans \in Sans
        /\ certs \in [Domains -> CertAndKey]
        /\ certs[call[p].domain] \in CertAndKey
    BY DEF KeystoreTypeOK, Call
  <1>a. ASSUME NEW k, k # "idle", call[p].pc # "addStore", UNCHANGED certs,
               Goto(p, k)
        PROVE  /\ call'[p].pc # "idle" /\ call'[p].domain = call[p].domain
               /\ \A q \in Callers \ {p} : call'[q] = call[q]
               /\ CallHolds(p)'
    BY <1>0, <1>a DEF Goto, CallHolds, Call
  <1>b. ASSUME NEW k, k # "idle", NEW l, NEW c \in CertAndKey, GotoWith(p, k, l, c),
               UNCHANGED certs,
               c.pem = "fresh" => k = "addStore" /\ certs[call[p].domain].pem = "fresh"
        PROVE  /\ call'[p].pc # "idle" /\ call'[p].domain = call[p].domain
               /\ \A q \in Callers \ {p} : call'[q] = call[q]
               /\ CallHolds(p)'
    BY <1>0, <1>b DEF GotoWith, CallHolds, Call
  <1>c. ASSUME Succeed(p) \/ Refuse(p)
        PROVE  /\ call'[p].pc # "idle" /\ call'[p].domain = call[p].domain
               /\ \A q \in Callers \ {p} : call'[q] = call[q]
               /\ CallHolds(p)'
    <2>1. ASSUME NEW ok, Finish(p, ok)
          PROVE  /\ call'[p].pc = "done" /\ call'[p].domain = call[p].domain
                 /\ call'[p].cert = Zero
                 /\ \A q \in Callers \ {p} : call'[q] = call[q]
      BY <1>0, <2>1 DEF Finish, Call
    <2>2. /\ call'[p].pc = "done" /\ call'[p].domain = call[p].domain
          /\ call'[p].cert = Zero
          /\ \A q \in Callers \ {p} : call'[q] = call[q]
      BY <1>c, <2>1 DEF Succeed, Refuse
    <2> QED BY <2>2, FreshCopies DEF CallHolds
  <1>d. UNCHANGED certs => NothingFresher
    BY DEF NothingFresher
  <1>1. CASE \/ VaultAddRead(p) \/ VaultAddWrite(p) \/ FileAddList(p)
             \/ VaultRemoveRead(p) \/ VaultRemoveWrite(p) \/ FileRemove(p)
    <2>1. /\ UNCHANGED certs
          /\ call[p].pc \in {"add", "addWrite", "remove", "removeWrite"}
          /\ \/ \E k \in {"addGet"} : Goto(p, k)
             \/ \E k \in {"addWrite", "removeWrite"} : \E l : GotoWith(p, k, l, Zero)
             \/ Succeed(p) \/ Refuse(p)
      BY <1>1 DEF VaultAddRead, VaultAddWrite, FileAddList, VaultRemoveRead,
                  VaultRemoveWrite, FileRemove, AddTo, RemoveFrom, At
    <2> QED BY <2>1, <1>a, <1>b, <1>c, <1>d, RecordTypes, FreshCopies
  <1>2. CASE AddGet(p)
    <2> DEFINE P == Placeholder(call[p].sans)
               A == Adopted(certs[call[p].domain])
    <2>1. /\ P \in CertAndKey /\ A \in CertAndKey /\ P.pem # "fresh"
          /\ A.pem = certs[call[p].domain].pem
      BY <1>0, RecordTypes, FreshCopies
    <2>2. /\ UNCHANGED certs /\ call[p].pc = "addGet"
          /\ \/ GotoWith(p, "addStore", {}, P) \/ GotoWith(p, "addStore", {}, A)
             \/ Succeed(p)
      BY <1>2 DEF AddGet
    <2> HIDE DEF P, A
    <2> QED BY <2>1, <2>2, <1>b, <1>c, <1>d
  <1>3. CASE AddStore(p)
    <2>1. call[p].pc = "addStore" /\ Succeed(p)
      BY <1>3 DEF AddStore
    <2>2. NothingFresher
      BY <1>0, <1>3, StoreOutcome DEF AddStore, NothingFresher, CallHolds
    <2> QED BY <2>1, <2>2, <1>c
  <1>4. CASE MemoryAdd(p)
    <2>1. call[p].pc = "add" /\ (Succeed(p) \/ Refuse(p))
      BY <1>4 DEF MemoryAdd, At
    <2>2. \/ certs' = certs
          \/ certs' = [certs EXCEPT ![call[p].domain] =
                         TakenOver(certs[call[p].domain])]
      BY <1>0, <1>4 DEF MemoryAdd
    <2>3. NothingFresher
      BY <1>0, <2>2, FreshCopies DEF NothingFresher
    <2> QED BY <2>1, <2>3, <1>c
  <1>5. CASE MemoryRemove(p)
    BY <1>5, <1>c, <1>d DEF MemoryRemove, At
  <1> QED BY <1>1, <1>2, <1>3, <1>4, <1>5 DEF CallStep, AddStep, RemoveStep

(* An answered call is at rest and holds nothing, and so is a request. *)
LEMMA AtRestHolds ==
  ASSUME NEW h \in Callers, call \in [Callers -> Call], req \in [Callers -> Requests]
  PROVE  /\ Answered(h) => /\ call'[h].pc = "idle" /\ CallHolds(h)'
                           /\ \A q \in Callers \ {h} : call'[q] = call[q]
         /\ Respond(h) => /\ req'[h].pc = "idle" /\ RequestHolds(h)'
                          /\ \A q \in Callers \ {h} : req'[q] = req[q]
  <1>1. NoCall.pc = "idle" /\ NoCall.cert.pem # "fresh"
    BY NothingHeld, FreshCopies DEF NoCall
  <1>2. NoRequest.pc = "idle" /\ NoRequest.cert.pem # "fresh"
    BY NothingHeld, FreshCopies DEF NoRequest
  <1> QED BY <1>1, <1>2 DEF Answered, Respond, CallHolds, RequestHolds

(* Steps that make no record fresher and move one client leave OneInv, if  *)
(* they leave that client in order.                                        *)
LEMMA ClientKeeps ==
  ASSUME NEW h \in Callers, OneInv, OnlyMoves(h), NothingFresher,
         w \in Worker, UNCHANGED w,
         \A q \in Callers : q # h => req[q].pc = "idle",
         req'[h].pc = "calling" <=> call'[h].pc # "idle",
         req'[h].pc = "calling" => call'[h].domain = req'[h].domain,
         CallHolds(h)', RequestHolds(h)'
  PROVE  OneInv'
  <1>1. Control'
    BY DEF OneInv, Control, Alone, CallOfRequest, SameDomain, OnlyMoves
  <1>2. ASSUME NEW q \in Callers PROVE CallHolds(q)' /\ RequestHolds(q)'
    <2>1. CASE q = h
      BY <2>1
    <2>2. CASE q # h
      <3>1. req[q].pc = "idle" /\ call[q].pc = "idle"
        BY <2>2 DEF OneInv, Control, CallOfRequest
      <3>2. call[q].cert.pem # "fresh" /\ req[q].cert.pem # "fresh"
        BY <3>1 DEF OneInv, Held, CallHolds, RequestHolds
      <3> QED BY <2>2, <3>2 DEF OnlyMoves, CallHolds, RequestHolds
    <2> QED BY <2>1, <2>2
  <1>3. RunHolds' /\ NoNeedlessOrder'
    BY DEF OneInv, Held, RunHolds, NoNeedlessOrder, NothingFresher, Worker
  <1> QED BY <1>1, <1>2, <1>3 DEF OneInv, Held

(* A request arrives when no other is served. *)
LEMMA NewRequestHolds ==
  ASSUME NEW h \in Callers, OneClient, TypeOK, OneInv, ClientStep(h)
  PROVE  OneInv'
  <1>0. /\ call \in [Callers -> Call] /\ req \in [Callers -> Requests]
        /\ w \in Worker /\ NoCall \in Call /\ NoRequest \in Requests
        /\ NoCall.cert.pem # "fresh" /\ NoRequest.cert.pem # "fresh"
    BY NothingHeld, FreshCopies, NoCallType, StoreRecordTypes
    DEF TypeOK, KeystoreTypeOK, HandlersTypeOK, DaemonTypeOK
  <1>1. \A q \in Callers : q # h => req[q].pc = "idle"
    BY DEF ClientStep, OneClient, Quiet, NoRequests
  <1>2. PICK o \in AllOps, d \in Domains, k \in {"calling", "delGet"} :
          /\ Serve(h, o, d, k)
          /\ \/ k = "delGet" /\ UNCHANGED call
             \/ k = "calling" /\ \E i \in {"add", "remove"}, s \in Sans :
                                   Begin(h, i, d, s)
    BY SansTypes DEF ClientStep, NewRequest, AddDomain, RemoveDomain, DeleteCert,
                          AllOps, BeginAdd, BeginRemove
  <1>3. /\ req'[h].pc = k /\ req'[h].domain = d /\ req'[h].cert.pem # "fresh"
        /\ \A q \in Callers \ {h} : req'[q] = req[q]
        /\ req[h].pc = "idle" /\ UNCHANGED certs
    BY <1>0, <1>2 DEF Serve, Requests
  <1>4. CASE k = "delGet" /\ UNCHANGED call
    <2>1. call[h].pc = "idle" /\ CallHolds(h)'
      BY <1>3, <1>4 DEF OneInv, Held, Control, CallOfRequest, CallHolds
    <2> QED BY <1>0, <1>1, <1>3, <1>4, <2>1, ClientKeeps
            DEF OnlyMoves, NothingFresher, RequestHolds, ClientStep
  <1>5. ASSUME NEW i \in {"add", "remove"}, NEW s \in Sans, Begin(h, i, d, s),
               k = "calling"
        PROVE  OneInv'
    <2>1. /\ call'[h].pc = i /\ call'[h].domain = d /\ call'[h].cert.pem # "fresh"
          /\ \A q \in Callers \ {h} : call'[q] = call[q]
      BY <1>0, <1>5 DEF Begin, Call
    <2>2. CallHolds(h)' /\ RequestHolds(h)'
      BY <1>3, <2>1 DEF CallHolds, RequestHolds
    <2>3. OnlyMoves(h) /\ NothingFresher
      BY <1>3, <2>1 DEF OnlyMoves, NothingFresher
    <2> QED BY <1>0, <1>1, <1>3, <1>5, <2>1, <2>2, <2>3, ClientKeeps DEF ClientStep
  <1> QED BY <1>2, <1>4, <1>5

(* A step of the request that is served. *)
LEMMA HandlerStepHolds ==
  ASSUME NEW h \in Callers, TypeOK, OneInv, ServerStep(h)
  PROVE  OneInv'
  <1>0. /\ KeystoreTypeOK /\ call \in [Callers -> Call]
        /\ req \in [Callers -> Requests]
        /\ req[h] \in Requests /\ req[h].domain \in Domains
        /\ req[h].cert \in CertAndKey
        /\ certs[req[h].domain] \in CertAndKey
        /\ w \in Worker /\ UNCHANGED w
        /\ CallHolds(h) /\ RequestHolds(h)
        /\ req[h].pc = "calling" <=> call[h].pc # "idle"
        /\ req[h].pc = "calling" => call[h].domain = req[h].domain
    BY RequestFields
    DEF TypeOK, KeystoreTypeOK, HandlersTypeOK, DaemonTypeOK, ServerStep, OneInv,
        Held, Control, CallOfRequest, SameDomain
  <1>a. UNCHANGED certs => NothingFresher
    BY DEF NothingFresher
  <1>b. UNCHANGED call => \A q \in Callers \ {h} : call'[q] = call[q]
    OBVIOUS
  <1>c. call[h].pc = "idle" /\ UNCHANGED call => CallHolds(h)' /\ call'[h].pc = "idle"
    BY <1>0 DEF CallHolds
  <1>d. ASSUME req[h].pc # "idle" PROVE \A q \in Callers : q # h => req[q].pc = "idle"
    BY <1>d DEF OneInv, Control, Alone
  <1>e. ASSUME NEW k \in {"unmanage", "delDelete"}, NEW c \in CertAndKey,
               req' = [req EXCEPT ![h].pc = k, ![h].cert = c]
        PROVE  /\ req'[h].pc = k /\ req'[h].cert = c
               /\ req'[h].domain = req[h].domain
               /\ \A q \in Callers \ {h} : req'[q] = req[q]
    BY <1>0, <1>e DEF Requests
  <1>1. CASE KeystoreCall(h)
    <2>1. /\ call[h].pc # "idle" /\ call'[h].pc # "idle"
          /\ call'[h].domain = call[h].domain
          /\ \A q \in Callers \ {h} : call'[q] = call[q]
          /\ NothingFresher /\ CallHolds(h)' /\ UNCHANGED req
      BY <1>0, <1>1, CallStepHolds DEF KeystoreCall
    <2>2. req[h].pc = "calling" /\ RequestHolds(h)'
      BY <1>0, <2>1 DEF RequestHolds
    <2>3. OnlyMoves(h)
      BY <2>1 DEF OnlyMoves
    <2>4. req'[h] = req[h] /\ \A q \in Callers : q # h => req[q].pc = "idle"
      BY <1>d, <2>1, <2>2
    <2> QED BY <1>0, <2>1, <2>2, <2>3, <2>4, ClientKeeps
  <1>2. CASE AddDomainReply(h) \/ SoftRefused(h) \/ HardDelete(h)
    <2>1. /\ Answered(h) /\ Respond(h) /\ req[h].pc = "calling"
          /\ \/ UNCHANGED certs
             \/ DeleteCertAndKey(req[h].domain) \/ DeleteFails(req[h].domain)
      BY <1>2 DEF AddDomainReply, SoftRefused, HardDelete, CallReturned
    <2>2. NothingFresher
      BY <1>0, <1>a, <2>1, StoreOutcome, RecordTypes, FreshCopies DEF NothingFresher
    <2>3. OnlyMoves(h)
      BY <1>0, <2>1, AtRestHolds DEF OnlyMoves
    <2> QED BY <1>0, <1>d, <2>1, <2>2, <2>3, AtRestHolds, ClientKeeps
  <1>3. CASE SoftGet(h)
    <2> DEFINE c == Unmanaged(certs[req[h].domain])
    <2>1. c \in CertAndKey /\ c.pem = certs[req[h].domain].pem
      BY <1>0, StoreRecordTypes, FreshCopies
    <2>2. /\ Answered(h) /\ req[h].pc = "calling" /\ UNCHANGED certs
          /\ Respond(h) \/ req' = [req EXCEPT ![h].pc = "unmanage", ![h].cert = c]
      BY <1>3 DEF SoftGet, CallReturned
    <2> HIDE DEF c
    <2>3. /\ req'[h].pc # "calling" /\ RequestHolds(h)'
          /\ \A q \in Callers \ {h} : req'[q] = req[q]
      <3>1. CASE Respond(h)
        BY <1>0, <3>1, AtRestHolds
      <3>2. CASE req' = [req EXCEPT ![h].pc = "unmanage", ![h].cert = c]
        BY <1>e, <2>1, <2>2, <3>2 DEF RequestHolds
      <3> QED BY <2>2, <3>1, <3>2
    <2>4. OnlyMoves(h)
      BY <1>0, <2>2, <2>3, AtRestHolds DEF OnlyMoves
    <2> QED BY <1>0, <1>a, <1>d, <2>2, <2>3, <2>4, AtRestHolds, ClientKeeps
  <1>4. CASE SoftStore(h) \/ DeleteCertDelete(h)
    <2>1. /\ Respond(h) /\ UNCHANGED call /\ call[h].pc = "idle"
          /\ req[h].pc # "idle"
      BY <1>0, <1>4 DEF SoftStore, DeleteCertDelete
    <2>2. NothingFresher
      <3>1. CASE SoftStore(h)
        <4>1. StoreCertAndKey(req[h].domain, req[h].cert)
                \/ StoreFails(req[h].domain, req[h].cert)
          BY <3>1 DEF SoftStore
        <4>2. /\ \/ certs'[req[h].domain] = req[h].cert
                 \/ certs'[req[h].domain] = certs[req[h].domain]
              /\ \A e \in Domains \ {req[h].domain} : certs'[e] = certs[e]
          BY <1>0, <4>1, StoreOutcome
        <4> QED BY <1>0, <4>2 DEF NothingFresher, RequestHolds
      <3>2. CASE DeleteCertDelete(h)
        <4>1. DeleteCertAndKey(req[h].domain) \/ DeleteFails(req[h].domain)
          BY <3>2 DEF DeleteCertDelete
        <4> QED BY <1>0, <4>1, StoreOutcome, RecordTypes, FreshCopies
                DEF NothingFresher
      <3> QED BY <1>4, <3>1, <3>2
    <2>3. OnlyMoves(h)
      BY <1>0, <1>b, <2>1, AtRestHolds DEF OnlyMoves
    <2> QED BY <1>0, <1>c, <1>d, <2>1, <2>2, <2>3, AtRestHolds, ClientKeeps
  <1>5. CASE DeleteCertCheck(h)
    <2>1. /\ UNCHANGED <<call, certs>> /\ req[h].pc = "delGet" /\ call[h].pc = "idle"
          /\ Respond(h) \/ req' = [req EXCEPT ![h].pc = "delDelete"]
      BY <1>0, <1>5 DEF DeleteCertCheck
    <2>2. /\ req'[h].pc # "calling" /\ RequestHolds(h)'
          /\ \A q \in Callers \ {h} : req'[q] = req[q]
      <3>1. CASE Respond(h)
        BY <1>0, <3>1, AtRestHolds
      <3>2. CASE req' = [req EXCEPT ![h].pc = "delDelete"]
        BY <1>0, <2>1, <3>2 DEF RequestHolds, Requests
      <3> QED BY <2>1, <3>1, <3>2
    <2>3. OnlyMoves(h)
      BY <1>b, <2>1, <2>2 DEF OnlyMoves
    <2>4. req[h].pc # "idle" /\ call'[h].pc = "idle" /\ CallHolds(h)'
      BY <1>c, <2>1
    <2> QED BY <1>0, <1>a, <1>d, <2>1, <2>2, <2>3, <2>4, ClientKeeps
  <1> QED BY <1>1, <1>2, <1>3, <1>4, <1>5 DEF ServerStep, HandlerStep

(* Steps that make no record staler and leave the client alone keep what   *)
(* calls and requests hold.                                                *)
LEMMA RunKeeps ==
  ASSUME Held, call \in [Callers -> Call], req \in [Callers -> Requests],
         UNCHANGED <<call, req>>,
         \A d \in Domains : certs[d].pem = "fresh" => certs'[d].pem = "fresh",
         RunHolds', NoNeedlessOrder'
  PROVE  Held'
  <1>1. \A p \in Callers : call[p].domain \in Domains /\ req[p].domain \in Domains
    BY DEF Call, Requests
  <1>2. \A p \in Callers : CallHolds(p)' /\ RequestHolds(p)'
    BY <1>1 DEF Held, CallHolds, RequestHolds
  <1> QED BY <1>2 DEF Held

(* A step of a run. *)
LEMMA RunStepHolds ==
  ASSUME TypeOK, Held, TickStep \/ DaemonStep
  PROVE  Held'
  <1>0. /\ KeystoreTypeOK /\ call \in [Callers -> Call]
        /\ req \in [Callers -> Requests]
        /\ w \in Worker /\ w.domain \in Domains /\ w.sans \in Sans
        /\ w.cert \in CertAndKey
        /\ certs[w.domain] \in CertAndKey
        /\ RunHolds /\ UNCHANGED <<call, req>>
    <2>1. UNCHANGED call
      BY DEF TickStep, DaemonStep, StartRun, RunStep, CheckManaged, ReadSans,
             ReadLeaf, Order, StoreIssued, RenewFailGet, RenewFailStore,
             OrdersFailGet, OrdersFailStore, MarkGet, MarkStore
    <2> QED BY <2>1, WorkerTypes
            DEF TypeOK, KeystoreTypeOK, HandlersTypeOK, DaemonTypeOK, Held,
                TickStep, DaemonStep
  <1>a. \A k : WGoto(k) => w'.pc = k
    BY <1>0 DEF WGoto, Worker
  <1>b. \A S : NextDomain(S) => w'.pc \in {"idle", "next"}
    <2>1. /\ AtRest.pc = "idle"
          /\ \A S : [AtRest EXCEPT !.pc = "next", !.todo = S].pc = "next"
      BY DEF AtRest
    <2> QED BY <2>1 DEF NextDomain
  <1>d. \A k, c : WStore(k, c) => w'.pc = k /\ w'.cert = c /\ w'.domain = w.domain
    BY <1>0 DEF WStore, Worker
  <1>e. w'.pc \in {"idle", "next", "sans", "leaf", "failGet", "errGet"} =>
          RunHolds' /\ NoNeedlessOrder'
    BY DEF RunHolds, NoNeedlessOrder
  <1>f. ASSUME UNCHANGED certs, RunHolds', NoNeedlessOrder' PROVE Held'
    BY <1>0, <1>f, RunKeeps DEF Held
  <1>1. CASE StartRun
    <2>1. UNCHANGED certs /\ (UNCHANGED w \/ NextDomain(Snapshot))
      BY <1>1 DEF StartRun
    <2>2. CASE UNCHANGED w
      BY <1>0, <1>f, <2>1, <2>2 DEF Held, RunHolds, NoNeedlessOrder
    <2>3. CASE NextDomain(Snapshot)
      BY <1>b, <1>e, <1>f, <2>1, <2>3
    <2> QED BY <2>1, <2>2, <2>3
  <1>2. CASE CheckManaged
    <2>1. /\ UNCHANGED certs
          /\ \E d \in w.todo : \/ NextDomain(w.todo \ {d})
                               \/ w' = [w EXCEPT !.pc = "sans", !.domain = d,
                                                 !.todo = @ \ {d}]
      BY <1>2 DEF CheckManaged
    <2>2. w'.pc \in {"idle", "next", "sans"}
      BY <1>0, <1>b, <2>1 DEF Worker
    <2> QED BY <1>e, <1>f, <2>1, <2>2
  <1>3. CASE ReadSans
    <2>1. UNCHANGED certs /\ w'.pc = "leaf"
      BY <1>0, <1>3, <1>a DEF ReadSans, Worker
    <2> QED BY <1>e, <1>f, <2>1
  <1>4. CASE ReadLeaf
    <2>1. /\ UNCHANGED certs
          /\ \/ WGoto("order") /\ certs[w.domain].pem # "fresh"
             \/ w'.pc \in {"idle", "next", "errGet"}
      BY <1>4, <1>a, <1>b DEF ReadLeaf, NeedsRenewal
    <2>2. CASE WGoto("order") /\ certs[w.domain].pem # "fresh"
      <3>1. w'.pc = "order" /\ w'.domain = w.domain
        BY <1>0, <2>2 DEF WGoto, Worker
      <3> QED BY <1>f, <2>1, <2>2, <3>1 DEF RunHolds, NoNeedlessOrder
    <2> QED BY <1>e, <1>f, <2>1, <2>2
  <1>5. CASE Order
    <2>1. /\ UNCHANGED certs
          /\ \/ WStore("issued", NewCertAndKey(w.domain, w.sans))
             \/ w'.pc \in {"failGet", "errGet"}
      BY <1>5, <1>a DEF Order
    <2>2. CASE WStore("issued", NewCertAndKey(w.domain, w.sans))
      <3>1. w'.pc = "issued" /\ w'.cert.pem = "fresh"
        BY <1>0, <1>d, <2>2, FreshCopies
      <3> QED BY <1>f, <2>1, <3>1 DEF RunHolds, NoNeedlessOrder
    <2> QED BY <1>e, <1>f, <2>1, <2>2
  <1>6. CASE RenewFailGet \/ OrdersFailGet
    <2> DEFINE c == Failed(certs[w.domain])
    <2>1. c.pem = certs[w.domain].pem
      BY <1>0, FreshCopies
    <2>2. /\ UNCHANGED certs
          /\ \/ \E k \in {"failStore", "errStore"} : WStore(k, c)
             \/ w'.pc \in {"idle", "next", "errGet"}
      BY <1>6, <1>a, <1>b DEF RenewFailGet, OrdersFailGet, MarkGet, GiveUp
    <2> HIDE DEF c
    <2>3. ASSUME NEW k \in {"failStore", "errStore"}, WStore(k, c) PROVE Held'
      BY <1>d, <1>f, <2>1, <2>2, <2>3 DEF RunHolds, NoNeedlessOrder
    <2> QED BY <1>e, <1>f, <2>2, <2>3
  <1>7. CASE StoreIssued \/ RenewFailStore \/ OrdersFailStore
    <2>1. /\ StoreCertAndKey(w.domain, w.cert) \/ StoreFails(w.domain, w.cert)
          /\ w'.pc \in {"idle", "next", "errGet"}
          /\ w.pc \in {"issued", "failStore", "errStore"}
      BY <1>7, <1>a, <1>b DEF StoreIssued, RenewFailStore, OrdersFailStore,
                              MarkStore, GiveUp
    <2>2. /\ certs'[w.domain] = w.cert \/ certs'[w.domain] = certs[w.domain]
          /\ \A e \in Domains \ {w.domain} : certs'[e] = certs[e]
      BY <1>0, <2>1, StoreOutcome
    <2>3. \A d \in Domains : certs[d].pem = "fresh" => certs'[d].pem = "fresh"
      BY <1>0, <2>1, <2>2 DEF RunHolds
    <2> QED BY <1>0, <1>e, <2>1, <2>3, RunKeeps
  <1> QED BY <1>1, <1>2, <1>3, <1>4, <1>5, <1>6, <1>7
          DEF TickStep, DaemonStep, RunStep

(* Every copy of a certificate ages with it. *)
LEMMA AgeHolds ==
  ASSUME NEW d \in Domains, TypeOK, Held, Age(d)
  PROVE  Held'
  <1>0. /\ certs \in [Domains -> CertAndKey] /\ call \in [Callers -> Call]
        /\ req \in [Callers -> Requests] /\ w \in Worker
        /\ w.domain \in Domains /\ w.cert \in CertAndKey
        /\ \A c \in CertAndKey : Aged(c).pem # "fresh"
    BY FreshCopies, WorkerTypes
    DEF TypeOK, KeystoreTypeOK, HandlersTypeOK, DaemonTypeOK
  <1>1. /\ certs'[d].pem # "fresh"
        /\ \A e \in Domains \ {d} : certs'[e] = certs[e]
    BY <1>0 DEF Age
  <1>2. ASSUME NEW p \in Callers
        PROVE  /\ call'[p].pc = call[p].pc /\ call'[p].domain = call[p].domain
               /\ req'[p].pc = req[p].pc /\ req'[p].domain = req[p].domain
               /\ CallHolds(p)' /\ RequestHolds(p)'
    <2>0. /\ call[p] \in Call /\ req[p] \in Requests
          /\ call[p].domain \in Domains /\ req[p].domain \in Domains
          /\ call[p].cert \in CertAndKey /\ req[p].cert \in CertAndKey
          /\ CallHolds(p) /\ RequestHolds(p)
      BY <1>0 DEF Call, Requests, Held
    <2>1. /\ call'[p].pc = call[p].pc /\ call'[p].domain = call[p].domain
          /\ call'[p].cert = IF call[p].domain = d THEN Aged(call[p].cert)
                                                   ELSE call[p].cert
      BY <2>0 DEF Age, Call
    <2>2. /\ req'[p].pc = req[p].pc /\ req'[p].domain = req[p].domain
          /\ req'[p].cert = IF req[p].domain = d THEN Aged(req[p].cert)
                                                 ELSE req[p].cert
      BY <2>0 DEF Age, Requests
    <2> QED BY <1>0, <1>1, <2>0, <2>1, <2>2 DEF CallHolds, RequestHolds
  <1>4. /\ w'.pc = w.pc /\ w'.domain = w.domain
        /\ w.pc = "issued" => w'.cert = w.cert
        /\ w.pc # "issued" => w'.cert = IF w.domain = d THEN Aged(w.cert) ELSE w.cert
    BY <1>0 DEF Age, Worker
  <1>5. RunHolds' /\ NoNeedlessOrder'
    BY <1>0, <1>1, <1>4 DEF Held, RunHolds, NoNeedlessOrder
  <1> QED BY <1>2, <1>5 DEF Held

(* Neither a run nor time moves a client. *)
LEMMA RunLeaves ==
  ASSUME TickStep \/ DaemonStep
  PROVE  UNCHANGED <<md, call, req>>
  <1>1. UNCHANGED <<md, call>>
    BY DEF TickStep, DaemonStep, StartRun, RunStep, CheckManaged, ReadSans,
           ReadLeaf, Order, StoreIssued, RenewFailGet, RenewFailStore,
           OrdersFailGet, OrdersFailStore, MarkGet, MarkStore
  <1> QED BY <1>1 DEF TickStep, DaemonStep

LEMMA RunStepControl ==
  ASSUME Control, TickStep \/ DaemonStep
  PROVE  Control'
  BY RunLeaves DEF Control, Alone, CallOfRequest, SameDomain

LEMMA AgeControl ==
  ASSUME NEW d \in Domains, TypeOK, Control, Age(d)
  PROVE  Control'
  <1>1. ASSUME NEW p \in Callers
        PROVE  /\ call'[p].pc = call[p].pc /\ call'[p].domain = call[p].domain
               /\ req'[p].pc = req[p].pc /\ req'[p].domain = req[p].domain
    <2>1. call[p] \in Call /\ req[p] \in Requests
      BY DEF TypeOK, KeystoreTypeOK, HandlersTypeOK
    <2> QED BY <2>1 DEF Age, Call, Requests
  <1> QED BY <1>1 DEF Control, Alone, CallOfRequest, SameDomain

(* The invariant of the regime with one client at a time. *)
LEMMA OneClientInv ==
  ASSUME OneClient
  PROVE  Spec => []OneInv
  <1>0. /\ NoCall.pc = "idle" /\ NoCall.cert.pem # "fresh"
        /\ NoRequest.pc = "idle" /\ NoRequest.cert.pem # "fresh"
        /\ AtRest.pc = "idle"
    BY NothingHeld, FreshCopies DEF NoCall, NoRequest, AtRest
  <1>1. Init => OneInv
    BY <1>0
    DEF Init, KeystoreInit, HandlersInit, DaemonInit, OneInv, Held, Control, Alone,
        CallOfRequest, SameDomain, CallHolds, RequestHolds, RunHolds, NoNeedlessOrder
  <1>2. TypeOK /\ OneInv /\ [Next]_vars => OneInv'
    <2> SUFFICES ASSUME TypeOK, OneInv, [Next]_vars PROVE OneInv'
      OBVIOUS
    <2>1. ASSUME NEW h \in Callers, ClientStep(h) PROVE OneInv'
      BY <2>1, NewRequestHolds
    <2>2. ASSUME NEW h \in Callers, ServerStep(h) PROVE OneInv'
      BY <2>2, HandlerStepHolds
    <2>3. CASE TickStep \/ DaemonStep
      BY <2>3, RunStepHolds, RunStepControl DEF OneInv
    <2>4. ASSUME NEW d \in Domains, Age(d) PROVE OneInv'
      BY <2>4, AgeHolds, AgeControl DEF OneInv
    <2>5. CASE Restart
      BY <1>0, <2>5
      DEF Restart, Crash, OneInv, Held, Control, Alone, CallOfRequest, SameDomain,
          CallHolds, RequestHolds, RunHolds, NoNeedlessOrder
    <2>6. CASE UNCHANGED vars
      BY <2>6
      DEF vars, keystoreVars, OneInv, Held, Control, Alone, CallOfRequest, SameDomain,
          CallHolds, RequestHolds, RunHolds, NoNeedlessOrder
    <2> QED BY <2>1, <2>2, <2>3, <2>4, <2>5, <2>6 DEF Next
  <1> QED BY <1>1, <1>2, StoreTypeCorrect, PTL DEF Spec

(* With one client at a time no order is placed for a certificate that is  *)
(* not due, whatever fails or crashes and however the client's requests    *)
(* overlap with the run.                                                   *)
THEOREM OrdersNeeded ==
  ASSUME OneClient
  PROVE  Spec => []NoNeedlessOrder
  <1>1. OneInv => NoNeedlessOrder
    BY DEF OneInv, Held
  <1> QED BY <1>1, OneClientInv, PTL

(* In the same regime no step of a run costs a certificate that is not     *)
(* due: whoever marks a record holds a copy that is as fresh as the record *)
(* still is, for only a run makes records fresher.                         *)
THEOREM RunsKeepFresh ==
  ASSUME OneClient
  PROVE  Spec => DaemonKeepsFresh
  <1> DEFINE Kept == \A d \in Domains : certs[d].pem = "fresh" => certs'[d].pem = "fresh"
  <1>1. ASSUME TypeOK, OneInv, DaemonStep PROVE Kept
    <2>1. /\ KeystoreTypeOK /\ RunHolds
          /\ w.domain \in Domains /\ w.cert \in CertAndKey
      BY <1>1, WorkerTypes DEF TypeOK, OneInv, Held
    <2>2. CASE StoreIssued \/ RenewFailStore \/ OrdersFailStore
      <3>1. /\ StoreCertAndKey(w.domain, w.cert) \/ StoreFails(w.domain, w.cert)
            /\ w.pc \in {"issued", "failStore", "errStore"}
        BY <2>2 DEF StoreIssued, RenewFailStore, OrdersFailStore, MarkStore
      <3>2. /\ certs'[w.domain] = w.cert \/ certs'[w.domain] = certs[w.domain]
            /\ \A e \in Domains \ {w.domain} : certs'[e] = certs[e]
        BY <2>1, <3>1, StoreOutcome
      <3> QED BY <2>1, <3>1, <3>2 DEF RunHolds
    <2>3. CASE UNCHANGED certs
      BY <2>3
    <2> QED BY <1>1, <2>2, <2>3
            DEF DaemonStep, RunStep, CheckManaged, ReadSans, ReadLeaf, Order,
                RenewFailGet, OrdersFailGet, MarkGet
  <1>2. TypeOK /\ OneInv /\ [Next]_vars => [DaemonStep => Kept]_vars
    BY <1>1
  <1> QED BY <1>2, StoreTypeCorrect, OneClientInv, PTL DEF Spec, DaemonKeepsFresh

-----------------------------------------------------------------------------
(* One request or run at a time: what a handler or the daemon read is      *)
(* still so when it acts on it.  Calls may fail, the process may crash.    *)

SoloRun == w.pc # "idle" => NoRequests
RunListed ==
  w.pc # "idle" => /\ w.todo \subseteq Managed
                   /\ w.pc # "next" => w.domain \in Managed
DeleteChecked ==
  \A h \in Callers : req[h].pc = "delDelete" => ~certs[req[h].domain].managed
AddListed ==
  \A p \in Callers : call[p].pc \in {"addGet", "addStore"} => Listed(call[p].domain)
UnmanageNamed ==
  \A h \in Callers : req[h].pc = "unmanage" => certs[req[h].domain].named

(* The copy of the list that a Vault add is about to write names its       *)
(* domain.                                                                 *)
AddWrites ==
  \A p \in Callers :
    call[p].pc = "addWrite" => call[p].domain \in DomainsOf(call[p].list)

SerialInv == /\ SoloRun /\ RunListed /\ DeleteChecked
             /\ AddListed /\ AddWrites /\ UnmanageNamed

(* A copy that ages keeps its flag and its name. *)
LEMMA Flags ==
  \A c \in CertAndKey : Aged(c).managed = c.managed /\ Aged(c).named = c.named
  BY DEF Aged, CertAndKey

(* A write of the list with one more entry lists its domain. *)
LEMMA AppendedLists ==
  ASSUME NEW p \in Callers, NEW l
  PROVE  call[p].domain \in DomainsOf(Appended(p, l))
  <1>1. EntryFor(call[p].domain, call[p].sans) \in Appended(p, l)
    BY DEF Appended
  <1>2. EntryFor(call[p].domain, call[p].sans).domain = call[p].domain
    BY DEF EntryFor
  <1> QED BY <1>1, <1>2 DEF DomainsOf

(* A list that is written lists its domains. *)
LEMMA ListedNext ==
  ASSUME NEW d, NEW l, md' = l, d \in DomainsOf(l)
  PROVE  d \in Managed'
  BY DEF Managed, DomainsOf

(* What a keystore call leaves. *)
LEMMA CallStepSerial ==
  ASSUME NEW p \in Callers, KeystoreTypeOK, CallStep(p), AddListed, AddWrites
  PROVE  /\ call'[p].pc \in {"addGet", "addStore"} => call[p].domain \in Managed'
         /\ call'[p].pc = "addWrite" => call'[p].domain \in DomainsOf(call'[p].list)
         /\ \A d \in Domains :
              certs'[d] # certs[d] =>
                /\ d = call[p].domain
                /\ certs[d] = Zero => Listed(d)
                /\ certs[d].pem # "fresh" /\ certs'[d].pem = "fresh" =>
                     call[p].cert.pem = "fresh"
  <1>0. /\ call \in [Callers -> Call] /\ call[p] \in Call
        /\ call[p].domain \in Domains
        /\ call[p].cert \in CertAndKey
        /\ certs \in [Domains -> CertAndKey]
        /\ certs[call[p].domain] \in CertAndKey
    BY DEF KeystoreTypeOK, Call
  <1>a. ASSUME NEW k, Goto(p, k) PROVE call'[p].pc = k
    BY <1>0, <1>a DEF Goto, Call
  <1>b. ASSUME NEW k, NEW l, NEW c, GotoWith(p, k, l, c)
        PROVE  /\ call'[p].pc = k /\ call'[p].list = l
               /\ call'[p].domain = call[p].domain
    BY <1>0, <1>b DEF GotoWith, Call
  <1>c. ASSUME Succeed(p) \/ Refuse(p) PROVE call'[p].pc = "done"
    <2>1. ASSUME NEW ok, Finish(p, ok) PROVE call'[p].pc = "done"
      BY <1>0, <2>1 DEF Finish, Call
    <2> QED BY <1>c, <2>1 DEF Succeed, Refuse
  <1>1. CASE VaultAddRead(p)
    <2>1. /\ UNCHANGED certs
          /\ \/ Refuse(p)
             \/ \E l : GotoWith(p, "addWrite", Appended(p, l), Zero)
      BY <1>1 DEF VaultAddRead, AddTo
    <2> QED BY <1>b, <1>c, <2>1, AppendedLists
  <1>2. CASE VaultAddWrite(p)
    <2>1. /\ UNCHANGED certs /\ call[p].pc = "addWrite"
          /\ \/ md' = call[p].list /\ Goto(p, "addGet")
             \/ Refuse(p)
      BY <1>2 DEF VaultAddWrite, WriteList, At
    <2>2. call[p].domain \in DomainsOf(call[p].list)
      BY <2>1 DEF AddWrites
    <2>3. md' = call[p].list => call[p].domain \in Managed'
      BY <2>2, ListedNext
    <2> QED BY <1>a, <1>c, <2>1, <2>3
  <1>3. CASE FileAddList(p)
    <2>1. /\ UNCHANGED certs
          /\ \/ md' = Appended(p, md) /\ Goto(p, "addGet")
             \/ Refuse(p)
      BY <1>3 DEF FileAddList, WriteList
    <2>2. md' = Appended(p, md) => call[p].domain \in Managed'
      BY AppendedLists, ListedNext
    <2> QED BY <1>a, <1>c, <2>1, <2>2
  <1>4. CASE VaultRemoveRead(p) \/ VaultRemoveWrite(p) \/ FileRemove(p)
    <2>1. /\ UNCHANGED certs
          /\ \/ Succeed(p) \/ Refuse(p)
             \/ \E l : GotoWith(p, "removeWrite", l, Zero)
      BY <1>4 DEF VaultRemoveRead, VaultRemoveWrite, FileRemove, RemoveFrom
    <2> QED BY <1>b, <1>c, <2>1
  <1>5. CASE AddGet(p)
    <2>1. /\ UNCHANGED <<certs, md>> /\ call[p].pc = "addGet"
          /\ \/ \E c : GotoWith(p, "addStore", {}, c)
             \/ Succeed(p)
      BY <1>5 DEF AddGet
    <2>2. call[p].domain \in Managed'
      BY <2>1 DEF AddListed, Listed, Managed, DomainsOf
    <2> QED BY <1>b, <1>c, <2>1, <2>2
  <1>6. CASE AddStore(p)
    <2>1. Listed(call[p].domain) /\ Succeed(p)
      BY <1>6 DEF AddStore, AddListed
    <2>2. /\ \/ certs'[call[p].domain] = call[p].cert
             \/ certs'[call[p].domain] = certs[call[p].domain]
          /\ \A e \in Domains \ {call[p].domain} : certs'[e] = certs[e]
      BY <1>0, <1>6, StoreOutcome DEF AddStore
    <2> QED BY <1>c, <2>1, <2>2
  <1>7. CASE MemoryAdd(p)
    <2>1. Succeed(p) \/ Refuse(p)
      BY <1>7 DEF MemoryAdd
    <2>2. \/ certs' = certs
          \/ /\ certs[call[p].domain] # Zero
             /\ certs' = [certs EXCEPT ![call[p].domain] =
                            TakenOver(certs[call[p].domain])]
      BY <1>0, <1>7 DEF MemoryAdd
    <2>3. TakenOver(certs[call[p].domain]).pem = certs[call[p].domain].pem
      BY <1>0, FreshCopies
    <2> QED BY <1>0, <1>c, <2>1, <2>2, <2>3
  <1>8. CASE MemoryRemove(p)
    BY <1>8, <1>c DEF MemoryRemove
  <1> QED BY <1>1, <1>2, <1>3, <1>4, <1>5, <1>6, <1>7, <1>8
          DEF CallStep, AddStep, RemoveStep

(* A step of the one request that is served. *)
LEMMA LoneServer ==
  ASSUME NEW h \in Callers, SerialInv, OneInv, TypeOK, OnlyMoves(h),
         req[h].pc # "idle", UNCHANGED w,
         req'[h].pc = "delDelete" => ~certs'[req'[h].domain].managed,
         req'[h].pc = "unmanage" => certs'[req'[h].domain].named,
         call'[h].pc \in {"addGet", "addStore"} => call'[h].domain \in Managed',
         call'[h].pc = "addWrite" => call'[h].domain \in DomainsOf(call'[h].list)
  PROVE  SerialInv'
  <1>1. w'.pc = "idle"
    BY DEF SerialInv, SoloRun, NoRequests
  <1>2. \A q \in Callers : q # h =>
          /\ call'[q] = call[q] /\ req'[q] = req[q]
          /\ req[q].pc = "idle" /\ call[q].pc = "idle"
    BY DEF OnlyMoves, OneInv, Control, Alone, CallOfRequest
  <1>3. SoloRun' /\ RunListed'
    BY <1>1 DEF SoloRun, RunListed
  <1>4. DeleteChecked' /\ UnmanageNamed'
    BY <1>2 DEF DeleteChecked, UnmanageNamed
  <1>5. AddListed' /\ AddWrites'
    BY <1>2 DEF AddListed, AddWrites, Listed
  <1> QED BY <1>3, <1>4, <1>5 DEF SerialInv

(* A step of a request keeps the invariant. *)
LEMMA HandlerStepSerial ==
  ASSUME NEW h \in Callers, TypeOK, OneInv, SerialInv, ServerStep(h)
  PROVE  SerialInv'
  <1>0. /\ KeystoreTypeOK /\ call \in [Callers -> Call]
        /\ req \in [Callers -> Requests]
        /\ req[h] \in Requests /\ req[h].domain \in Domains
        /\ certs \in [Domains -> CertAndKey]
        /\ certs[req[h].domain] \in CertAndKey
        /\ UNCHANGED w
        /\ CallHolds(h) /\ AddListed /\ AddWrites
        /\ req[h].pc = "calling" <=> call[h].pc # "idle"
    BY RequestFields
    DEF TypeOK, KeystoreTypeOK, HandlersTypeOK, ServerStep, OneInv, Held, Control,
        CallOfRequest, SerialInv
  <1>a. UNCHANGED call => \A q \in Callers \ {h} : call'[q] = call[q]
    OBVIOUS
  <1>1. CASE KeystoreCall(h)
    <2>1. /\ call[h].pc # "idle" /\ call'[h].domain = call[h].domain
          /\ \A q \in Callers \ {h} : call'[q] = call[q]
          /\ call'[h].pc \in {"addGet", "addStore"} => call[h].domain \in Managed'
          /\ call'[h].pc = "addWrite" =>
               call'[h].domain \in DomainsOf(call'[h].list)
          /\ UNCHANGED req
      BY <1>0, <1>1, CallStepHolds, CallStepSerial DEF KeystoreCall
    <2>2. req'[h].pc = "calling" /\ req[h].pc = "calling" /\ OnlyMoves(h)
      BY <1>0, <2>1 DEF OnlyMoves
    <2> QED BY <1>0, <2>1, <2>2, LoneServer
  <1>2. CASE AddDomainReply(h) \/ SoftRefused(h) \/ HardDelete(h)
    <2>1. Answered(h) /\ Respond(h) /\ req[h].pc = "calling"
      BY <1>2 DEF AddDomainReply, SoftRefused, HardDelete, CallReturned
    <2>2. OnlyMoves(h) /\ call'[h].pc = "idle" /\ req'[h].pc = "idle"
      BY <1>0, <2>1, AtRestHolds DEF OnlyMoves
    <2> QED BY <1>0, <2>1, <2>2, LoneServer
  <1>3. CASE SoftGet(h)
    <2> DEFINE c == Unmanaged(certs[req[h].domain])
    <2>1. /\ Answered(h) /\ req[h].pc = "calling" /\ UNCHANGED certs
          /\ \/ Respond(h)
             \/ /\ certs[req[h].domain].named
                /\ req' = [req EXCEPT ![h].pc = "unmanage", ![h].cert = c]
      BY <1>3 DEF SoftGet, CallReturned
    <2>2. call'[h].pc = "idle" /\ \A q \in Callers \ {h} : call'[q] = call[q]
      BY <1>0, <2>1, AtRestHolds
    <2> HIDE DEF c
    <2>3. /\ \A q \in Callers \ {h} : req'[q] = req[q]
          /\ \/ req'[h].pc = "idle"
             \/ /\ req'[h].pc = "unmanage" /\ req'[h].domain = req[h].domain
                /\ certs'[req[h].domain].named
      <3>1. CASE Respond(h)
        BY <1>0, <3>1, AtRestHolds
      <3>2. CASE /\ certs[req[h].domain].named
                 /\ req' = [req EXCEPT ![h].pc = "unmanage", ![h].cert = c]
        BY <1>0, <2>1, <3>2 DEF Requests
      <3> QED BY <2>1, <3>1, <3>2
    <2>4. OnlyMoves(h)
      BY <2>2, <2>3 DEF OnlyMoves
    <2> QED BY <1>0, <2>1, <2>2, <2>3, <2>4, LoneServer
  <1>4. CASE SoftStore(h) \/ DeleteCertDelete(h)
    <2>1. /\ Respond(h) /\ UNCHANGED call /\ call[h].pc = "idle"
          /\ req[h].pc # "idle"
      BY <1>0, <1>4 DEF SoftStore, DeleteCertDelete
    <2>2. OnlyMoves(h) /\ call'[h].pc = "idle" /\ req'[h].pc = "idle"
      BY <1>0, <1>a, <2>1, AtRestHolds DEF OnlyMoves
    <2> QED BY <1>0, <2>1, <2>2, LoneServer
  <1>5. CASE DeleteCertCheck(h)
    <2>1. /\ UNCHANGED <<call, certs>> /\ req[h].pc = "delGet" /\ call[h].pc = "idle"
          /\ \/ Respond(h)
             \/ /\ ~certs[req[h].domain].managed
                /\ req' = [req EXCEPT ![h].pc = "delDelete"]
      BY <1>0, <1>5 DEF DeleteCertCheck, Deletable
    <2>2. /\ \A q \in Callers \ {h} : req'[q] = req[q]
          /\ \/ req'[h].pc = "idle"
             \/ /\ req'[h].pc = "delDelete" /\ req'[h].domain = req[h].domain
                /\ ~certs'[req[h].domain].managed
      <3>1. CASE Respond(h)
        BY <1>0, <3>1, AtRestHolds
      <3>2. CASE /\ ~certs[req[h].domain].managed
                 /\ req' = [req EXCEPT ![h].pc = "delDelete"]
        BY <1>0, <2>1, <3>2 DEF Requests
      <3> QED BY <2>1, <3>1, <3>2
    <2>3. OnlyMoves(h) /\ call'[h].pc = "idle"
      BY <1>a, <2>1, <2>2 DEF OnlyMoves
    <2> QED BY <1>0, <2>1, <2>2, <2>3, LoneServer
  <1> QED BY <1>1, <1>2, <1>3, <1>4, <1>5 DEF ServerStep, HandlerStep

(* A request that arrives keeps the invariant. *)
LEMMA NewRequestSerial ==
  ASSUME NEW h \in Callers, ~Overlap, TypeOK, OneInv, SerialInv, ClientStep(h)
  PROVE  SerialInv'
  <1>0. /\ call \in [Callers -> Call] /\ req \in [Callers -> Requests]
        /\ NoCall \in Call /\ NoRequest \in Requests
        /\ w.pc = "idle" /\ w' = w
        /\ \A q \in Callers : req[q].pc = "idle" /\ call[q].pc = "idle"
    BY NoCallType, StoreRecordTypes
    DEF TypeOK, KeystoreTypeOK, HandlersTypeOK, ClientStep, Quiet, NoRequests,
        OneInv, Control, CallOfRequest
  <1>2. PICK o \in AllOps, d \in Domains, k \in {"calling", "delGet"} :
          /\ Serve(h, o, d, k)
          /\ \/ UNCHANGED call
             \/ \E i \in {"add", "remove"}, s \in Sans : Begin(h, i, d, s)
    BY SansTypes DEF ClientStep, NewRequest, AddDomain, RemoveDomain, DeleteCert,
                          AllOps, BeginAdd, BeginRemove
  <1>3. \A q \in Callers : req'[q].pc \in {"idle", k}
    BY <1>0, <1>2 DEF Serve, Requests
  <1>4. \A q \in Callers : call'[q].pc \in {"idle", "add", "remove"}
    <2>1. CASE UNCHANGED call
      BY <1>0, <2>1
    <2>2. ASSUME NEW i \in {"add", "remove"}, NEW s \in Sans, Begin(h, i, d, s)
          PROVE  /\ call'[h].pc = i
                 /\ \A q \in Callers \ {h} : call'[q] = call[q]
      BY <1>0, <2>2 DEF Begin, Call
    <2> QED BY <1>0, <1>2, <2>1, <2>2
  <1>5. SoloRun' /\ RunListed'
    BY <1>0 DEF SoloRun, RunListed
  <1>6. DeleteChecked' /\ UnmanageNamed'
    BY <1>3 DEF DeleteChecked, UnmanageNamed
  <1>7. AddListed' /\ AddWrites'
    BY <1>4 DEF AddListed, AddWrites
  <1> QED BY <1>5, <1>6, <1>7 DEF SerialInv

(* A step of a run keeps the invariant, and changes the records of listed
   domains only. *)
LEMMA RunStepSerial ==
  ASSUME ~Overlap, TypeOK, SerialInv, TickStep \/ DaemonStep
  PROVE  /\ SerialInv'
         /\ \A d \in Domains : certs'[d] # certs[d] => Listed(d)
  <1>0. /\ w \in Worker /\ AtRest.pc = "idle" /\ AtRest \in Worker
        /\ KeystoreTypeOK
        /\ w.pc # "idle" => /\ w.todo \subseteq Managed
                            /\ w.pc # "next" => w.domain \in Managed
    BY StoreRecordTypes DEF TypeOK, DaemonTypeOK, AtRest, SerialInv, RunListed
  <1>1. /\ NoRequests
        /\ w.pc = "idle" => StartRun
    BY DEF TickStep, DaemonStep, Quiet, SerialInv, SoloRun, RunStep, CheckManaged,
           ReadSans, ReadLeaf, Order, StoreIssued, RenewFailGet, RenewFailStore,
           OrdersFailGet, OrdersFailStore, MarkGet, MarkStore
  <1>2. UNCHANGED <<req, call, md>>
    BY RunLeaves
  <1>3. Managed' = Managed
    BY <1>2 DEF Managed, DomainsOf
  <1>4. DeleteChecked' /\ UnmanageNamed' /\ AddListed' /\ AddWrites' /\ SoloRun'
    <2>1. \A q \in Callers : req'[q].pc = "idle"
      BY <1>1, <1>2 DEF NoRequests
    <2>2. AddListed'
      BY <1>2, <1>3 DEF SerialInv, AddListed, Listed
    <2>3. ASSUME NEW p \in Callers, call'[p].pc = "addWrite"
          PROVE  call'[p].domain \in DomainsOf(call'[p].list)
      BY <1>2, <2>3 DEF SerialInv, AddWrites
    <2> QED BY <2>1, <2>2, <2>3
            DEF DeleteChecked, UnmanageNamed, AddWrites, SoloRun, NoRequests
  <1>a. ASSUME NEW k, k # "idle", WGoto(k)
        PROVE  w'.pc = k /\ w'.todo = w.todo /\ w'.domain = w.domain
    BY <1>0, <1>a DEF WGoto, Worker
  <1>b. ASSUME NEW S, NextDomain(S)
        PROVE  w'.pc = "idle" \/ (w'.pc = "next" /\ w'.todo = S)
    BY <1>0, <1>b DEF NextDomain, AtRest, Worker
  <1>d. ASSUME NEW k, NEW c, WStore(k, c)
        PROVE  w'.pc = k /\ w'.todo = w.todo /\ w'.domain = w.domain
    BY <1>0, <1>d DEF WStore, Worker
  <1>6. CASE StartRun
    <2>1. UNCHANGED w \/ NextDomain(Managed)
      BY <1>6 DEF StartRun, Snapshot
    <2>2. RunListed'
      BY <1>0, <1>3, <1>b, <2>1 DEF RunListed
    <2> QED BY <1>4, <1>6, <2>2 DEF SerialInv, StartRun
  <1>7. CASE CheckManaged
    <2>1. /\ w.pc = "next" /\ UNCHANGED certs
          /\ \E d \in w.todo : \/ NextDomain(w.todo \ {d})
                               \/ w' = [w EXCEPT !.pc = "sans", !.domain = d,
                                                 !.todo = w.todo \ {d}]
      BY <1>7 DEF CheckManaged
    <2>2. w.todo \subseteq Managed
      BY <1>0, <2>1
    <2>3. PICK d \in w.todo : \/ NextDomain(w.todo \ {d})
                              \/ w' = [w EXCEPT !.pc = "sans", !.domain = d,
                                                !.todo = w.todo \ {d}]
      BY <2>1
    <2>4. \/ w'.pc = "idle"
          \/ w'.pc = "next" /\ w'.todo = w.todo \ {d}
          \/ w'.pc = "sans" /\ w'.todo = w.todo \ {d} /\ w'.domain = d
      BY <1>0, <1>b, <2>3 DEF Worker
    <2>5. RunListed'
      BY <1>3, <2>2, <2>4 DEF RunListed
    <2> QED BY <1>4, <2>1, <2>5 DEF SerialInv
  <1>8. CASE ReadSans \/ ReadLeaf \/ Order \/ RenewFailGet \/ OrdersFailGet
    <2>1. /\ w.pc \notin {"idle", "next"} /\ UNCHANGED certs
          /\ \/ \E k \in {"leaf", "order", "failGet", "errGet"} : WGoto(k)
             \/ w' = [w EXCEPT !.pc = "leaf", !.sans = SansOf(w.domain, md)]
             \/ \E k, c : WStore(k, c)
             \/ NextDomain(w.todo)
      BY <1>8 DEF ReadSans, ReadLeaf, Order, RenewFailGet, OrdersFailGet, MarkGet,
                  GiveUp
    <2>2. \/ w'.todo = w.todo /\ w'.domain = w.domain
          \/ w'.pc = "idle" \/ (w'.pc = "next" /\ w'.todo = w.todo)
      BY <1>0, <1>a, <1>b, <1>d, <2>1 DEF Worker
    <2>3. RunListed'
      BY <1>0, <1>3, <2>1, <2>2 DEF RunListed
    <2> QED BY <1>4, <2>1, <2>3 DEF SerialInv
  <1>9. CASE StoreIssued \/ RenewFailStore \/ OrdersFailStore
    <2>1. /\ w.pc \notin {"idle", "next"}
          /\ StoreCertAndKey(w.domain, w.cert) \/ StoreFails(w.domain, w.cert)
          /\ WGoto("errGet") \/ NextDomain(w.todo)
      BY <1>9 DEF StoreIssued, RenewFailStore, OrdersFailStore, MarkStore, GiveUp
    <2>2. \/ w'.todo = w.todo /\ w'.domain = w.domain
          \/ w'.pc = "idle" \/ (w'.pc = "next" /\ w'.todo = w.todo)
      BY <1>a, <1>b, <2>1
    <2>3. RunListed'
      BY <1>0, <1>3, <2>1, <2>2 DEF RunListed
    <2>4. w.domain \in Domains /\ w.cert \in CertAndKey
      BY <1>0 DEF Worker
    <2>5. \A e \in Domains \ {w.domain} : certs'[e] = certs[e]
      BY <1>0, <2>1, <2>4, StoreOutcome
    <2> QED BY <1>0, <1>4, <2>1, <2>3, <2>5 DEF SerialInv, Listed
  <1> QED BY <1>6, <1>7, <1>8, <1>9 DEF TickStep, DaemonStep, RunStep

(* Time keeps the invariant. *)
LEMMA AgeSerial ==
  ASSUME NEW d \in Domains, TypeOK, SerialInv, Age(d)
  PROVE  SerialInv'
  <1>0. /\ certs \in [Domains -> CertAndKey] /\ call \in [Callers -> Call]
        /\ req \in [Callers -> Requests] /\ w \in Worker
    BY DEF TypeOK, KeystoreTypeOK, HandlersTypeOK, DaemonTypeOK
  <1>1. \A e \in Domains :
          certs'[e].managed = certs[e].managed /\ certs'[e].named = certs[e].named
    BY <1>0, Flags DEF Age
  <1>2. ASSUME NEW p \in Callers
        PROVE  /\ call'[p].pc = call[p].pc /\ call'[p].domain = call[p].domain
               /\ call'[p].list = call[p].list
               /\ req'[p].pc = req[p].pc /\ req'[p].domain = req[p].domain
               /\ req[p].domain \in Domains
    <2>1. call[p] \in Call /\ req[p] \in Requests
      BY <1>0
    <2> QED BY <2>1 DEF Age, Call, Requests
  <1>3. w'.pc = w.pc /\ w'.domain = w.domain /\ w'.todo = w.todo
    BY <1>0 DEF Age, Worker
  <1>4. Managed' = Managed
    BY DEF Age, Managed, DomainsOf
  <1>5. SoloRun' /\ RunListed'
    BY <1>2, <1>3, <1>4 DEF SerialInv, SoloRun, RunListed, NoRequests
  <1>6. DeleteChecked' /\ UnmanageNamed'
    BY <1>1, <1>2 DEF SerialInv, DeleteChecked, UnmanageNamed
  <1>7. AddListed'
    BY <1>2, <1>4 DEF SerialInv, AddListed, Listed
  <1>8. ASSUME NEW p \in Callers, call'[p].pc = "addWrite"
        PROVE  call'[p].domain \in DomainsOf(call'[p].list)
    BY <1>2, <1>8 DEF SerialInv, AddWrites
  <1> QED BY <1>5, <1>6, <1>7, <1>8 DEF SerialInv, AddWrites

(* The invariant of the serial regime. *)
LEMMA SerialInvAlways ==
  ASSUME ~Overlap
  PROVE  Spec => []SerialInv
  <1>0. NoCall.pc = "idle" /\ NoRequest.pc = "idle" /\ AtRest.pc = "idle"
    BY DEF NoCall, NoRequest, AtRest
  <1>1. Init => SerialInv
    BY <1>0
    DEF Init, KeystoreInit, HandlersInit, DaemonInit, SerialInv, SoloRun, RunListed,
        DeleteChecked, AddListed, AddWrites, UnmanageNamed
  <1>2. TypeOK /\ OneInv /\ SerialInv /\ [Next]_vars => SerialInv'
    <2> SUFFICES ASSUME TypeOK, OneInv, SerialInv, [Next]_vars PROVE SerialInv'
      OBVIOUS
    <2>1. ASSUME NEW h \in Callers, ClientStep(h) PROVE SerialInv'
      BY <2>1, NewRequestSerial
    <2>2. ASSUME NEW h \in Callers, ServerStep(h) PROVE SerialInv'
      BY <2>2, HandlerStepSerial
    <2>3. CASE TickStep \/ DaemonStep
      BY <2>3, RunStepSerial
    <2>4. ASSUME NEW d \in Domains, Age(d) PROVE SerialInv'
      BY <2>4, AgeSerial
    <2>5. CASE Restart
      BY <1>0, <2>5
      DEF Restart, Crash, SerialInv, SoloRun, RunListed, DeleteChecked, AddListed,
          AddWrites, UnmanageNamed
    <2>6. CASE UNCHANGED vars
      <3>1. UNCHANGED <<md, certs, call, req, w>>
        BY <2>6 DEF vars, keystoreVars
      <3>2. Managed' = Managed
        BY <3>1 DEF Managed, DomainsOf
      <3>3. ASSUME NEW p \in Callers, call'[p].pc = "addWrite"
            PROVE  call'[p].domain \in DomainsOf(call'[p].list)
        BY <3>1, <3>3 DEF SerialInv, AddWrites
      <3> QED BY <3>1, <3>2, <3>3
              DEF SerialInv, SoloRun, RunListed, DeleteChecked, AddListed, AddWrites,
                  UnmanageNamed, NoRequests, Listed
    <2> QED BY <2>1, <2>2, <2>3, <2>4, <2>5, <2>6 DEF Next
  <1>3. OneClient
    BY DEF OneClient
  <1> QED BY <1>1, <1>2, <1>3, StoreTypeCorrect, OneClientInv, PTL DEF Spec
=============================================================================
