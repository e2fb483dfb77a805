----------------------------- MODULE SansProofs -----------------------------
(* Theorems about the entries of the list and their SANs, for every set of *)
(* domains, callers and SANs.  No list names a domain twice, whatever      *)
(* overlaps, fails or crashes; and so an order on Vault asks for the SANs  *)
(* of the one entry, with one request or run at a time and no failures.    *)

EXTENDS AgreementProofs

-----------------------------------------------------------------------------
(* The steps of a request keep all lists free of duplicates. *)
LEMMA HandlerStepOnce ==
  ASSUME NEW h \in Callers, call \in [Callers -> Call],
         OncePerDomain(md), CallListsOnce, HandlerStep(h) \/ NewRequest(h)
  PROVE  OncePerDomain(md)' /\ CallListsOnce'
  <1>1. CASE KeystoreCall(h)
    BY <1>1, CallStepOnce DEF KeystoreCall
  <1>2. CASE AddDomainReply(h) \/ HardDelete(h) \/ SoftRefused(h) \/ SoftGet(h)
    <2>1. Answered(h) /\ UNCHANGED md
      BY <1>2 DEF AddDomainReply, HardDelete, SoftRefused, SoftGet
    <2> QED BY <2>1, CallListsKept
  <1>3. CASE \/ SoftStore(h) \/ DeleteCertCheck(h) \/ DeleteCertDelete(h)
             \/ DeleteCert(h)
    <2>1. UNCHANGED <<md, call>>
      BY <1>3 DEF SoftStore, DeleteCertCheck, DeleteCertDelete, DeleteCert, Serve
    <2> QED BY <2>1 DEF CallListsOnce
  <1>4. CASE AddDomain(h) \/ RemoveDomain(h)
    <2>1. PICK k, d, s : Begin(h, k, d, s)
      BY <1>4 DEF AddDomain, RemoveDomain, BeginAdd, BeginRemove
    <2>2. UNCHANGED md
      BY <1>4 DEF AddDomain, RemoveDomain, Serve
    <2>3. CallListsOnce'
      BY <2>1, ListsOnce DEF Begin, NoCall, CallListsOnce
    <2> QED BY <2>2, <2>3
  <1> QED BY <1>1, <1>2, <1>3, <1>4 DEF HandlerStep, NewRequest

(* In the whole service too no list names a domain twice, in every backend *)
(* and however requests and runs overlap, fail and crash.                  *)
THEOREM StoreNoDuplicates == Spec => []NoDuplicates
  <1>1. Init => NoDuplicates
    BY ListsOnce, NoCallList DEF Init, KeystoreInit, NoDuplicates
  <1>2. TypeOK /\ NoDuplicates /\ [Next]_vars => NoDuplicates'
    <2> SUFFICES ASSUME TypeOK, NoDuplicates, [Next]_vars PROVE NoDuplicates'
      OBVIOUS
    <2>0. call \in [Callers -> Call] /\ OncePerDomain(md) /\ CallListsOnce
      BY DEF TypeOK, KeystoreTypeOK, NoDuplicates, CallListsOnce
    <2> SUFFICES OncePerDomain(md)' /\ CallListsOnce'
      BY DEF NoDuplicates, CallListsOnce
    <2>1. ASSUME NEW h \in Callers, ClientStep(h) \/ ServerStep(h)
          PROVE  OncePerDomain(md)' /\ CallListsOnce'
      BY <2>0, <2>1, HandlerStepOnce DEF ClientStep, ServerStep
    <2>2. CASE TickStep \/ DaemonStep \/ UNCHANGED vars
      <3>1. UNCHANGED <<md, call>>
        BY <2>2
        DEF TickStep, DaemonStep, StartRun, RunStep, CheckManaged, ReadSans,
            ReadLeaf, Order, StoreIssued, RenewFailGet, RenewFailStore,
            OrdersFailGet, OrdersFailStore, MarkGet, MarkStore, vars, keystoreVars
      <3> QED BY <2>0, <3>1 DEF CallListsOnce
    <2>3. ASSUME NEW d \in Domains, Age(d)
          PROVE  OncePerDomain(md)' /\ CallListsOnce'
      <3>1. ASSUME NEW p \in Callers PROVE OncePerDomain(call'[p].list)
        <4>1. call[p] \in Call /\ OncePerDomain(call[p].list)
          BY <2>0 DEF CallListsOnce
        <4>2. call'[p].list = call[p].list
          BY <2>3, <4>1 DEF Age, Call
        <4> QED BY <4>1, <4>2
      <3> QED BY <2>0, <2>3, <3>1 DEF Age, CallListsOnce
    <2>4. CASE Restart
      BY <2>0, <2>4, ListsOnce, NoCallList DEF Restart, Crash, CallListsOnce
    <2> QED BY <2>1, <2>2, <2>3, <2>4 DEF Next
  <1> QED BY <1>1, <1>2, StoreTypeCorrect, PTL DEF Spec

-----------------------------------------------------------------------------
(* The SANs of a domain that is in the list once are those of its entry. *)
LEMMA SansOfEntry ==
  ASSUME OncePerDomain(md), NEW e \in md
  PROVE  SansOf(e.domain, md) = e.sans
  <1>1. \A f \in md : f.domain = e.domain => f = e
    BY DEF OncePerDomain
  <1>2. (CHOOSE f \in md : f.domain = e.domain) = e
    BY <1>1
  <1>3. e.domain \in DomainsOf(md)
    BY DEF DomainsOf
  <1> QED BY <1>2, <1>3 DEF SansOf

(* Vault has no files that tear. *)
LEMMA NeverTorn ==
  ASSUME Backend = "vault", torn = {}, [Next]_vars
  PROVE  torn' = {}
  <1>1. /\ \A l : WriteList(l) \/ WriteListFails(l) => torn' = {}
        /\ \A d, c : StoreCertAndKey(d, c) \/ StoreFails(d, c) => torn' = {}
        /\ \A d : DeleteCertAndKey(d) \/ DeleteFails(d) => torn' = {}
    BY DEF WriteList, WriteListFails, StoreCertAndKey, StoreFails, DeleteCertAndKey,
           DeleteFails
  <1>2. ASSUME NEW p \in Callers, CallStep(p) PROVE torn' = {}
    BY <1>1, <1>2
    DEF CallStep, AddStep, RemoveStep, VaultAddRead, VaultAddWrite, FileAddList,
        AddGet, AddStore, MemoryAdd, VaultRemoveRead, VaultRemoveWrite, FileRemove,
        MemoryRemove, At
  <1>3. ASSUME NEW h \in Callers, ClientStep(h) \/ ServerStep(h) PROVE torn' = {}
    BY <1>1, <1>2, <1>3
    DEF ClientStep, NewRequest, AddDomain, RemoveDomain, DeleteCert, Serve, ServerStep,
        HandlerStep, KeystoreCall, AddDomainReply, HardDelete, SoftRefused, SoftGet,
        SoftStore, DeleteCertCheck, DeleteCertDelete
  <1>4. CASE TickStep \/ DaemonStep
    BY <1>1, <1>4
    DEF TickStep, DaemonStep, StartRun, RunStep, CheckManaged, ReadSans, ReadLeaf,
        Order, StoreIssued, RenewFailGet, RenewFailStore, OrdersFailGet,
        OrdersFailStore, MarkGet, MarkStore
  <1>5. CASE Restart \/ UNCHANGED vars \/ \E d \in Domains : Age(d)
    BY <1>5 DEF Restart, Crash, vars, keystoreVars, Age
  <1> QED BY <1>3, <1>4, <1>5 DEF Next

(* A step of a request makes no record fresher. *)
LEMMA HandlersFreshenNothing ==
  ASSUME NEW h \in Callers, TypeOK, OneInv, ClientStep(h) \/ ServerStep(h)
  PROVE  NothingFresher
  <1>0. /\ KeystoreTypeOK /\ req[h].domain \in Domains /\ req[h].cert \in CertAndKey
        /\ CallHolds(h) /\ RequestHolds(h)
    BY RequestFields DEF TypeOK, OneInv, Held
  <1>1. CASE KeystoreCall(h)
    BY <1>0, <1>1, CallStepHolds DEF KeystoreCall
  <1>2. CASE HardDelete(h) \/ DeleteCertDelete(h)
    <2>1. DeleteCertAndKey(req[h].domain) \/ DeleteFails(req[h].domain)
      BY <1>2 DEF HardDelete, DeleteCertDelete
    <2> QED BY <1>0, <2>1, StoreOutcome, RecordTypes, FreshCopies DEF NothingFresher
  <1>3. CASE SoftStore(h)
    <2>1. StoreCertAndKey(req[h].domain, req[h].cert)
            \/ StoreFails(req[h].domain, req[h].cert)
      BY <1>3 DEF SoftStore
    <2> QED BY <1>0, <2>1, StoreOutcome DEF RequestHolds, NothingFresher
  <1>4. CASE UNCHANGED certs
    BY <1>4 DEF NothingFresher
  <1> QED BY <1>1, <1>2, <1>3, <1>4
          DEF ClientStep, NewRequest, AddDomain, RemoveDomain, DeleteCert, Serve,
              ServerStep, HandlerStep, AddDomainReply, SoftRefused, SoftGet,
              DeleteCertCheck

(* The run asks for the SANs of the list, nobody changes the list under    *)
(* it, and it stores what it asked for; what it marks as failed is no      *)
(* fresher than the record.                                                *)
RunCarries ==
  /\ w.pc \in {"leaf", "order", "issued"} => w.sans = SansOf(w.domain, md)
  /\ w.pc = "issued" => w.cert = NewCertAndKey(w.domain, w.sans)
  /\ w.pc \in {"failStore", "errStore"} /\ w.cert.pem = "fresh" =>
       certs[w.domain].pem = "fresh"

(* A step of a run keeps what the run carries, and makes a record fresher  *)
(* only by the certificate that it ordered.                                *)
LEMMA RunStepCarries ==
  ASSUME Backend = "vault", TypeOK, ~Fault, torn = {}, RunCarries,
         TickStep \/ DaemonStep
  PROVE  /\ RunCarries'
         /\ \A d \in Domains :
              certs[d].pem # "fresh" /\ certs'[d].pem = "fresh" =>
                /\ w.domain = d /\ certs'[d] = NewCertAndKey(d, w.sans)
                /\ w.sans = SansOf(d, md)
  <1>0. /\ KeystoreTypeOK /\ w \in Worker /\ w.domain \in Domains
        /\ w.cert \in CertAndKey /\ certs[w.domain] \in CertAndKey /\ UNCHANGED md
    BY WorkerTypes, RunLeaves DEF TypeOK, DaemonTypeOK, KeystoreTypeOK
  <1>a. w'.pc \in {"idle", "next", "sans", "failGet", "errGet"} => RunCarries'
    BY DEF RunCarries
  <1>b. /\ \A S : NextDomain(S) => w'.pc \in {"idle", "next"}
        /\ \A k : WGoto(k) => w'.pc = k /\ w'.sans = w.sans /\ w'.domain = w.domain
        /\ \A k, c : WStore(k, c) => /\ w'.pc = k /\ w'.sans = w.sans /\ w'.cert = c
                                     /\ w'.domain = w.domain
    <2>1. AtRest.pc = "idle" /\ AtRest \in Worker
      BY StoreRecordTypes DEF AtRest
    <2>2. \A S : [AtRest EXCEPT !.pc = "next", !.todo = S].pc = "next"
      BY <2>1 DEF Worker
    <2> QED BY <1>0, <2>1, <2>2 DEF NextDomain, WGoto, WStore, Worker
  <1>1. CASE StartRun \/ CheckManaged
    <2>1. /\ UNCHANGED certs
          /\ \/ UNCHANGED w
             \/ \E S : NextDomain(S)
             \/ \E d \in w.todo : w' = [w EXCEPT !.pc = "sans", !.domain = d,
                                                 !.todo = w.todo \ {d}]
      BY <1>1 DEF StartRun, CheckManaged
    <2>2. UNCHANGED w \/ w'.pc \in {"idle", "next", "sans"}
      BY <1>0, <1>b, <2>1 DEF Worker
    <2>3. UNCHANGED w => RunCarries'
      BY <1>0, <2>1 DEF RunCarries
    <2> QED BY <1>a, <2>1, <2>2, <2>3
  <1>2. CASE ReadSans
    <2>1. UNCHANGED certs /\ w' = [w EXCEPT !.pc = "leaf", !.sans = SansOf(w.domain, md)]
      BY <1>2, NothingFails DEF ReadSans
    <2>2. w'.pc = "leaf" /\ w'.sans = SansOf(w'.domain, md)
      BY <1>0, <2>1 DEF Worker
    <2> QED BY <1>0, <2>1, <2>2 DEF RunCarries
  <1>3. CASE ReadLeaf
    <2>1. UNCHANGED certs /\ w.pc = "leaf" /\ (WGoto("order") \/ NextDomain(w.todo))
      BY <1>3, NothingFails DEF ReadLeaf
    <2>2. WGoto("order") => RunCarries'
      BY <1>0, <1>b, <2>1 DEF RunCarries
    <2> QED BY <1>a, <1>b, <2>1, <2>2
  <1>4. CASE Order
    <2>1. /\ UNCHANGED certs /\ w.pc = "order"
          /\ \/ WStore("issued", NewCertAndKey(w.domain, w.sans))
             \/ WGoto("failGet") \/ WGoto("errGet")
      BY <1>4 DEF Order
    <2>2. WStore("issued", NewCertAndKey(w.domain, w.sans)) => RunCarries'
      BY <1>0, <1>b, <2>1 DEF RunCarries
    <2> QED BY <1>a, <1>b, <2>1, <2>2
  <1>5. CASE RenewFailGet \/ OrdersFailGet
    <2> DEFINE c == Failed(certs[w.domain])
    <2>1. /\ UNCHANGED certs
          /\ \/ WStore("failStore", c) \/ WStore("errStore", c)
             \/ WGoto("errGet") \/ NextDomain(w.todo)
      BY <1>5 DEF RenewFailGet, OrdersFailGet, MarkGet, GiveUp
    <2>2. c.pem = certs[w.domain].pem
      BY <1>0, FreshCopies
    <2> HIDE DEF c
    <2>3. WStore("failStore", c) \/ WStore("errStore", c) => RunCarries'
      BY <1>0, <1>b, <2>1, <2>2 DEF RunCarries
    <2> QED BY <1>a, <1>b, <2>1, <2>3
  <1>6. CASE StoreIssued \/ RenewFailStore \/ OrdersFailStore
    <2>1. /\ StoreCertAndKey(w.domain, w.cert)
          /\ w.pc \in {"issued", "failStore", "errStore"}
          /\ NextDomain(w.todo) \/ WGoto("errGet")
      BY <1>0, <1>6, NothingFails
      DEF StoreIssued, RenewFailStore, OrdersFailStore, MarkStore, GiveUp
    <2>2. /\ certs'[w.domain] = w.cert
          /\ \A e \in Domains \ {w.domain} : certs'[e] = certs[e]
      BY <1>0, <2>1 DEF StoreCertAndKey, KeystoreTypeOK
    <2> QED BY <1>a, <1>b, <2>1, <2>2 DEF RunCarries
  <1> QED BY <1>1, <1>2, <1>3, <1>4, <1>5, <1>6 DEF TickStep, DaemonStep, RunStep

(* It is so from the start, through any crashes. *)
LEMMA CarriesAlways ==
  ASSUME ~Overlap, MaxFaults = 0, Backend = "vault"
  PROVE  Spec => [](torn = {} /\ RunCarries)
  <1>1. Init => torn = {} /\ RunCarries
    <2>1. AtRest.pc = "idle"
      BY DEF AtRest
    <2> QED BY <2>1 DEF Init, KeystoreInit, DaemonInit, RunCarries
  <1>2. TypeOK /\ OneInv /\ SerialInv /\ torn = {} /\ RunCarries /\ [Next]_vars
          => (torn = {} /\ RunCarries)'
    <2> SUFFICES ASSUME TypeOK, OneInv, SerialInv, torn = {}, RunCarries, [Next]_vars
                 PROVE  RunCarries'
      BY NeverTorn
    <2>1. KeystoreTypeOK /\ ~Fault /\ w \in Worker
      BY NoFailure DEF TypeOK, DaemonTypeOK
    <2>2. ASSUME NEW h \in Callers, ClientStep(h) \/ ServerStep(h) PROVE RunCarries'
      <3>1. UNCHANGED w
        BY <2>2 DEF ClientStep, ServerStep
      <3>2. w.pc = "idle"
        <4>1. CASE ClientStep(h)
          BY <4>1 DEF ClientStep, Quiet
        <4>2. CASE ServerStep(h)
          <5>1. KeystoreCall(h) => req[h].pc # "idle"
            BY <2>1, CallStepHolds
            DEF KeystoreCall, OneInv, Held, Control, CallOfRequest
          <5>2. req[h].pc # "idle"
            BY <4>2, <5>1
            DEF ServerStep, HandlerStep, AddDomainReply, HardDelete, SoftRefused,
                SoftGet, SoftStore, DeleteCertCheck, DeleteCertDelete, CallReturned
          <5> QED BY <5>2 DEF SerialInv, SoloRun, NoRequests
        <4> QED BY <2>2, <4>1, <4>2
      <3> QED BY <3>1, <3>2 DEF RunCarries
    <2>3. CASE TickStep \/ DaemonStep
      BY <2>1, <2>3, RunStepCarries
    <2>4. ASSUME NEW d \in Domains, Age(d) PROVE RunCarries'
      <3>1. /\ w'.pc = w.pc /\ w'.domain = w.domain /\ w'.sans = w.sans
            /\ UNCHANGED md /\ w.domain \in Domains
            /\ w.pc = "issued" => w'.cert = w.cert
            /\ w.pc # "issued" =>
                 w'.cert = IF w.domain = d THEN Aged(w.cert) ELSE w.cert
            /\ w.domain # d => certs'[w.domain] = certs[w.domain]
            /\ w.cert \in CertAndKey
        BY <2>1, <2>4 DEF Age, Worker, KeystoreTypeOK
      <3> QED BY <3>1, FreshCopies DEF RunCarries
    <2>5. CASE Restart
      BY <2>5 DEF Restart, AtRest, RunCarries
    <2>6. CASE UNCHANGED vars
      BY <2>6 DEF vars, keystoreVars, RunCarries
    <2> QED BY <2>2, <2>3, <2>4, <2>5, <2>6 DEF Next
  <1>3. OneClient
    BY DEF OneClient
  <1> QED BY <1>1, <1>2, <1>3, StoreTypeCorrect, OneClientInv, SerialInvAlways, PTL
          DEF Spec

(* On Vault, with one request or run at a time and no failures, a          *)
(* certificate is issued for its domain and the SANs that are in the list  *)
(* with it, through any crashes.                                           *)
THEOREM SerialSans ==
  ASSUME ~Overlap, MaxFaults = 0, Backend = "vault"
  PROVE  Spec => IssuedWithSans
  <1>1. ASSUME TypeOK, OneInv, torn = {}, RunCarries, OncePerDomain(md), [Next]_vars,
               NEW e \in md, certs[e.domain].pem # "fresh",
               certs'[e.domain].pem = "fresh"
        PROVE  certs'[e.domain].sans = e.sans \cup {e.domain}
    <2>1. e.domain \in Domains /\ certs \in [Domains -> CertAndKey] /\ ~Fault
      BY <1>1, NoFailure DEF TypeOK, KeystoreTypeOK, Entry
    <2>2. ~\E h \in Callers : ClientStep(h) \/ ServerStep(h)
      BY <1>1, <2>1, HandlersFreshenNothing DEF NothingFresher
    <2>3. ~\E d \in Domains : Age(d)
      BY <1>1, <2>1, FreshCopies DEF Age
    <2>4. ~(Restart \/ UNCHANGED vars)
      BY <1>1, <2>1, FreshCopies DEF Restart, Crash, vars, keystoreVars
    <2>5. TickStep \/ DaemonStep
      BY <1>1, <2>2, <2>3, <2>4 DEF Next
    <2>6. /\ certs'[e.domain] = NewCertAndKey(e.domain, w.sans)
          /\ w.sans = SansOf(e.domain, md)
      BY <1>1, <2>1, <2>5, RunStepCarries
    <2>7. w.sans = e.sans
      BY <1>1, <2>6, SansOfEntry
    <2> QED BY <2>6, <2>7 DEF NewCertAndKey
  <1>2. TypeOK /\ OneInv /\ torn = {} /\ RunCarries /\ NoDuplicates /\ [Next]_vars =>
          [\A e \in md :
             certs[e.domain].pem # "fresh" /\ certs'[e.domain].pem = "fresh" =>
               certs'[e.domain].sans = e.sans \cup {e.domain}]_vars
    BY <1>1 DEF NoDuplicates
  <1>3. OneClient
    BY DEF OneClient
  <1> QED BY <1>2, <1>3, StoreTypeCorrect, OneClientInv, StoreNoDuplicates,
             CarriesAlways, PTL DEF Spec, IssuedWithSans
=============================================================================
