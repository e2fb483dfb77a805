--------------------------- MODULE AgreementProofs ---------------------------
(* The list and the records agree, for every set of domains, callers and   *)
(* SANs and every backend, with one request or run at a time and no        *)
(* crashes, until something fails.  TLC refutes both properties below when *)
(* any one of the three is given up.                                       *)

EXTENDS AcmeStoreProofs

-----------------------------------------------------------------------------
(* What the record of a domain must be like when no request or run is      *)
(* working on it.                                                          *)
Settled(d) ==
  /\ certs[d].named => (certs[d].managed <=> Listed(d))
  /\ Backend # "memory" /\ Listed(d) => certs[d].named

(* Where a call stands with its domain. *)
AddPcs == {"add", "addWrite", "addGet", "addStore"}
RemovePcs == {"remove", "removeWrite"}

CallSettles(c) ==
  /\ c.pc \in AddPcs => c.op = "add"
  /\ c.pc \in RemovePcs => c.op = "remove"
  /\ c.pc = "add" /\ Listed(c.domain) => Settled(c.domain)
  /\ c.pc = "remove" => Settled(c.domain)
  /\ c.pc = "addWrite" => DomainsOf(c.list) = Managed \cup {c.domain}
  /\ c.pc = "removeWrite" => DomainsOf(c.list) = Managed \ {c.domain}
  /\ c.pc \in {"addGet", "addStore"} => Listed(c.domain)
  /\ c.pc = "addStore" => c.cert.named /\ c.cert.managed
  /\ c.pc = "done" /\ c.op = "add" => Settled(c.domain)
  /\ c.pc = "done" /\ c.op # "add" =>
       ~Listed(c.domain) /\ (~c.ok => Settled(c.domain))

RequestSettles(h) ==
  /\ CallSettles(call[h])
  /\ req[h].pc = "calling" => (call[h].op = "add" <=> req[h].op = "add")
  /\ req[h].pc \in {"delGet", "delDelete"} => Settled(req[h].domain)
  /\ req[h].pc = "unmanage" => ~Listed(req[h].domain) /\ ~req[h].cert.managed

(* What a run is about to store is the record of a listed domain, and it   *)
(* has skipped every unmanaged record.                                     *)
RunSettles ==
  w.pc \in {"issued", "failStore", "errStore"} => w.cert.named /\ w.cert.managed
RunManaged ==
  w.pc \notin {"idle", "next"} /\ certs[w.domain].named => certs[w.domain].managed

Untouched(d) == \A h \in Callers : req[h].pc # "idle" => req[h].domain # d

Agreement ==
  /\ torn = {}
  /\ \A d \in Domains : Untouched(d) => Settled(d)
  /\ \A h \in Callers : RequestSettles(h)
  /\ RunSettles

Undisturbed == ~Overlap /\ ~Crashes /\ MaxFaults = 0

-----------------------------------------------------------------------------
(* A step that does not fail reads and writes. *)
LEMMA NothingFails ==
  ASSUME ~Fault, torn = {}
  PROVE  /\ \A f : ~ReadFails(f)
         /\ \A l : ~WriteListFails(l)
         /\ \A d \in Domains : ~DeleteFails(d) /\ \A c : ~StoreFails(d, c)
  BY DEF ReadFails, WriteListFails, StoreFails, DeleteFails

(* No step fails when none may. *)
LEMMA NoFailure ==
  ASSUME KeystoreTypeOK, MaxFaults = 0
  PROVE  ~Fault
  BY FaultsAssumption DEF KeystoreTypeOK, Fault

(* Each step counts at most one failure, and none is taken back. *)
LEMMA CallFaults ==
  ASSUME NEW p, CallStep(p)
  PROVE  Fault \/ NoFault
  BY DEF CallStep, AddStep, RemoveStep, VaultAddRead, VaultAddWrite, FileAddList,
         AddGet, AddStore, MemoryAdd, VaultRemoveRead, VaultRemoveWrite, FileRemove,
         MemoryRemove, ReadOk, ReadFails, WriteList, WriteListFails, StoreCertAndKey,
         StoreFails, NoFault

LEMMA RequestFaults ==
  ASSUME NEW h, NewRequest(h) \/ HandlerStep(h)
  PROVE  Fault \/ NoFault
  BY CallFaults
  DEF NewRequest, AddDomain, RemoveDomain, DeleteCert, Serve, HandlerStep, KeystoreCall,
      AddDomainReply, HardDelete, SoftRefused, SoftGet, SoftStore, DeleteCertCheck,
      DeleteCertDelete, DeleteCertAndKey, DeleteFails, ReadOk, ReadFails,
      StoreCertAndKey, StoreFails, NoFault

LEMMA RunFaults ==
  ASSUME StartRun \/ RunStep
  PROVE  Fault \/ NoFault
  BY DEF StartRun, RunStep, CheckManaged, ReadSans, ReadLeaf, Order, StoreIssued,
         RenewFailGet, RenewFailStore, OrdersFailGet, OrdersFailStore, MarkGet,
         MarkStore, ReadOk, ReadFails, StoreCertAndKey, StoreFails, NoFault

LEMMA FaultSteps ==
  ASSUME [Next]_vars
  PROVE  Fault \/ NoFault
  BY RequestFaults, RunFaults
  DEF Next, ClientStep, ServerStep, TickStep, DaemonStep, Age, Restart, Crash, vars,
      keystoreVars, NoFault

LEMMA UnfailedBefore ==
  ASSUME KeystoreTypeOK, Fault \/ NoFault, faults' = 0
  PROVE  faults = 0 /\ NoFault /\ ~Fault
  BY FaultsAssumption DEF KeystoreTypeOK, Fault, NoFault

(* What the records that are stored say. *)
LEMMA NamesAndFlags ==
  /\ ~Zero.named
  /\ \A s \in Sans :
       /\ Placeholder(s).named /\ Placeholder(s).managed
       /\ \A d : NewCertAndKey(d, s).named /\ NewCertAndKey(d, s).managed
  /\ \A c \in CertAndKey :
       /\ Adopted(c).named = c.named /\ Adopted(c).managed
       /\ TakenOver(c).named = c.named /\ TakenOver(c).managed
       /\ ~Unmanaged(c).managed
       /\ Failed(c).named = c.named /\ Failed(c).managed = c.managed
       /\ Aged(c).named = c.named /\ Aged(c).managed = c.managed
  BY DEF Zero, Placeholder, NewCertAndKey, Adopted, TakenOver, Unmanaged, Failed,
         Aged, CertAndKey

(* A domain is settled or not by its record and its place in the list. *)
LEMMA SettledNext ==
  ASSUME NEW d, certs'[d] = certs[d], Listed(d)' <=> Listed(d)
  PROVE  Settled(d)' <=> Settled(d)
  BY DEF Settled

(* What a list that is written makes of the domains. *)
LEMMA ListedAfter ==
  ASSUME NEW l, md' = l
  PROVE  \A d : Listed(d)' <=> d \in DomainsOf(l)
  BY DEF Listed, Managed, DomainsOf

(* A step that leaves the list leaves what is listed. *)
LEMMA ListedStays ==
  ASSUME UNCHANGED md
  PROVE  Managed' = Managed /\ \A d : Listed(d)' <=> Listed(d)
  BY DEF Listed, Managed, DomainsOf

(* The steps of a keystore call change nothing but its domain, and leave   *)
(* the call where it says it is.                                           *)
LEMMA CallStepSettles ==
  ASSUME NEW p \in Callers, NEW d, d = call[p].domain,
         KeystoreTypeOK, ~Fault, torn = {},
         CallSettles(call[p]), CallStep(p)
  PROVE  /\ torn' = {}
         /\ call'[p].op = call[p].op /\ call'[p].domain = d
         /\ CallSettles(call[p])'
         /\ \A e \in Domains \ {d} :
              certs'[e] = certs[e] /\ (Listed(e)' <=> Listed(e))
  <1>0. /\ call \in [Callers -> Call] /\ call[p] \in Call
        /\ d \in Domains /\ certs \in [Domains -> CertAndKey]
        /\ certs[d] \in CertAndKey /\ call[p].sans \in Sans
        /\ call[p].cert \in CertAndKey
    BY DEF KeystoreTypeOK, Call
  <1>a. ASSUME NEW k, Goto(p, k)
        PROVE  /\ call'[p].pc = k /\ call'[p].op = call[p].op /\ call'[p].domain = d
    BY <1>0, <1>a DEF Goto, Call
  <1>b. ASSUME NEW k, NEW l, NEW c, GotoWith(p, k, l, c)
        PROVE  /\ call'[p].pc = k /\ call'[p].list = l /\ call'[p].cert = c
               /\ call'[p].op = call[p].op /\ call'[p].domain = d
    BY <1>0, <1>b DEF GotoWith, Call
  <1>c. ASSUME NEW ok, Finish(p, ok)
        PROVE  /\ call'[p].pc = "done" /\ call'[p].ok = ok
               /\ call'[p].op = call[p].op /\ call'[p].domain = d
    BY <1>0, <1>c DEF Finish, Call
  <1>1. CASE VaultAddRead(p)
    <2>1. /\ call[p].pc = "add" /\ UNCHANGED <<md, certs, torn>>
          /\ IF d \in Managed THEN Finish(p, FALSE)
             ELSE GotoWith(p, "addWrite", Appended(p, md), Zero)
      BY <1>1, NothingFails DEF VaultAddRead, AddTo, Refuse, At, Managed
    <2>2. (Listed(d) => Settled(d)) /\ call[p].op = "add"
      BY <2>1 DEF CallSettles, AddPcs
    <2>3. (Listed(d) => Settled(d)') /\ Managed' = Managed
      BY <2>1, <2>2, SettledNext, ListedStays
    <2>4. DomainsOf(Appended(p, md)) = Managed \cup {d}
      BY NamesOf DEF Managed
    <2>5. CASE d \in Managed /\ Finish(p, FALSE)
      <3>1. Settled(d)'
        BY <2>3, <2>5 DEF Listed
      <3>2. CallSettles(call[p])'
        BY <1>c, <2>2, <2>5, <3>1 DEF CallSettles, AddPcs, RemovePcs, Settled, Listed
      <3> QED BY <1>c, <2>1, <2>5, <3>2, ListedStays
    <2>6. CASE GotoWith(p, "addWrite", Appended(p, md), Zero)
      <3>1. CallSettles(call[p])'
        BY <1>b, <2>2, <2>3, <2>4, <2>6
        DEF CallSettles, AddPcs, RemovePcs, Settled, Listed
      <3> QED BY <1>b, <2>1, <2>6, <3>1, ListedStays
    <2> QED BY <2>1, <2>5, <2>6
  <1>2. CASE VaultAddWrite(p)
    <2>1. /\ call[p].pc = "addWrite" /\ UNCHANGED certs
          /\ md' = call[p].list /\ torn' = {} /\ Goto(p, "addGet")
      BY <1>2, NothingFails DEF VaultAddWrite, WriteList, At
    <2>2. call[p].op = "add" /\ DomainsOf(call[p].list) = Managed \cup {d}
      BY <2>1 DEF CallSettles, AddPcs
    <2>3. \A e : Listed(e)' <=> Listed(e) \/ e = d
      BY <2>1, <2>2, ListedAfter DEF Listed
    <2>4. CallSettles(call[p])'
      BY <1>a, <2>1, <2>2, <2>3 DEF CallSettles, AddPcs, RemovePcs, Settled, Listed
    <2> QED BY <1>a, <2>1, <2>3, <2>4
  <1>3. CASE FileAddList(p)
    <2>1. /\ call[p].pc = "add" /\ UNCHANGED certs /\ torn' = {}
          /\ \/ Listed(d) /\ Finish(p, FALSE) /\ UNCHANGED md
             \/ ~Listed(d) /\ md' = Appended(p, md) /\ Goto(p, "addGet")
      BY <1>3, NothingFails DEF FileAddList, WriteList, Refuse, At
    <2>2. (Listed(d) => Settled(d)) /\ call[p].op = "add"
      BY <2>1 DEF CallSettles, AddPcs
    <2>3. CASE Listed(d) /\ Finish(p, FALSE) /\ UNCHANGED md
      <3>1. Settled(d)'
        BY <2>1, <2>2, <2>3, SettledNext, ListedStays
      <3>2. CallSettles(call[p])'
        BY <1>c, <2>2, <2>3, <3>1 DEF CallSettles, AddPcs, RemovePcs, Settled, Listed
      <3> QED BY <1>c, <2>1, <2>3, <3>2, ListedStays
    <2>4. CASE md' = Appended(p, md) /\ Goto(p, "addGet")
      <3>1. \A e : Listed(e)' <=> Listed(e) \/ e = d
        BY <2>4, NamesOf, ListedAfter DEF Listed, Managed
      <3>2. CallSettles(call[p])'
        BY <1>a, <2>2, <2>4, <3>1 DEF CallSettles, AddPcs, RemovePcs, Settled, Listed
      <3> QED BY <1>a, <2>1, <2>4, <3>1, <3>2
    <2> QED BY <2>1, <2>3, <2>4
  <1>4. CASE VaultRemoveRead(p)
    <2>1. /\ call[p].pc = "remove" /\ UNCHANGED <<md, certs, torn>>
          /\ IF d \in Managed THEN GotoWith(p, "removeWrite", Without(d, md), Zero)
             ELSE Finish(p, FALSE)
      BY <1>4, NothingFails DEF VaultRemoveRead, RemoveFrom, Refuse, At, Managed
    <2>2. Settled(d) /\ call[p].op = "remove"
      BY <2>1 DEF CallSettles, RemovePcs
    <2>3. Settled(d)' /\ Managed' = Managed /\ (Listed(d)' <=> d \in Managed)
      BY <2>1, <2>2, SettledNext, ListedStays DEF Listed
    <2>4. DomainsOf(Without(d, md)) = Managed \ {d}
      BY NamesOf DEF Managed
    <2>5. CallSettles(call[p])'
      BY <1>b, <1>c, <2>1, <2>2, <2>3, <2>4 DEF CallSettles, AddPcs, RemovePcs, Settled, Listed
    <2> QED BY <1>b, <1>c, <2>1, <2>5, ListedStays
  <1>5. CASE VaultRemoveWrite(p)
    <2>1. /\ call[p].pc = "removeWrite" /\ UNCHANGED certs
          /\ md' = call[p].list /\ torn' = {} /\ Finish(p, TRUE)
      BY <1>5, NothingFails DEF VaultRemoveWrite, WriteList, Succeed, At
    <2>2. call[p].op = "remove" /\ DomainsOf(call[p].list) = Managed \ {d}
      BY <2>1 DEF CallSettles, RemovePcs
    <2>3. \A e : Listed(e)' <=> Listed(e) /\ e # d
      BY <2>1, <2>2, ListedAfter DEF Listed
    <2>4. CallSettles(call[p])'
      BY <1>c, <2>1, <2>2, <2>3 DEF CallSettles, AddPcs, RemovePcs, Settled, Listed
    <2> QED BY <1>c, <2>1, <2>3, <2>4
  <1>6. CASE FileRemove(p) \/ MemoryRemove(p)
    <2>1. /\ call[p].pc = "remove" /\ UNCHANGED certs /\ torn' = {}
          /\ \/ ~Listed(d) /\ Finish(p, FALSE) /\ UNCHANGED md
             \/ Listed(d) /\ md' = Without(d, md) /\ Finish(p, TRUE)
      BY <1>6, NothingFails
      DEF FileRemove, MemoryRemove, WriteList, Refuse, Succeed, At
    <2>2. Settled(d) /\ call[p].op = "remove"
      BY <2>1 DEF CallSettles, RemovePcs
    <2>3. CASE ~Listed(d) /\ Finish(p, FALSE) /\ UNCHANGED md
      <3>1. Settled(d)' /\ ~Listed(d)'
        BY <2>1, <2>2, <2>3, SettledNext, ListedStays
      <3>2. CallSettles(call[p])'
        BY <1>c, <2>2, <2>3, <3>1 DEF CallSettles, AddPcs, RemovePcs, Settled, Listed
      <3> QED BY <1>c, <2>1, <2>3, <3>2, ListedStays
    <2>4. CASE md' = Without(d, md) /\ Finish(p, TRUE)
      <3>1. \A e : Listed(e)' <=> Listed(e) /\ e # d
        BY <2>4, NamesOf, ListedAfter DEF Listed, Managed
      <3>2. CallSettles(call[p])'
        BY <1>c, <2>2, <2>4, <3>1 DEF CallSettles, AddPcs, RemovePcs, Settled, Listed
      <3> QED BY <1>c, <2>1, <2>4, <3>1, <3>2
    <2> QED BY <2>1, <2>3, <2>4
  <1>7. CASE AddGet(p)
    <2>1. /\ call[p].pc = "addGet" /\ UNCHANGED <<md, certs, torn>>
          /\ \/ GotoWith(p, "addStore", {}, Placeholder(call[p].sans))
             \/ /\ certs[d].named
                /\ GotoWith(p, "addStore", {}, Adopted(certs[d]))
             \/ certs[d].named /\ certs[d].managed /\ Finish(p, TRUE)
      BY <1>7, NothingFails DEF AddGet, NeedsPlaceholder, Succeed
    <2>2. Listed(d) /\ Listed(d)' /\ call[p].op = "add"
      BY <2>1, ListedStays DEF CallSettles, AddPcs
    <2>3. ASSUME NEW c \in CertAndKey, c.named, c.managed,
                 GotoWith(p, "addStore", {}, c)
          PROVE  CallSettles(call[p])' /\ call'[p].op = "add" /\ call'[p].domain = d
      <3>1. /\ call'[p].pc = "addStore" /\ call'[p].cert = c
            /\ call'[p].op = "add" /\ call'[p].domain = d
        BY <1>b, <2>2, <2>3
      <3> QED BY <2>2, <2>3, <3>1 DEF CallSettles, AddPcs, RemovePcs, Listed
    <2>4. CASE GotoWith(p, "addStore", {}, Placeholder(call[p].sans))
      BY <1>0, <2>1, <2>2, <2>3, <2>4, NamesAndFlags, RecordTypes, ListedStays, SMTT(30)
    <2>5. CASE certs[d].named /\ GotoWith(p, "addStore", {}, Adopted(certs[d]))
      BY <1>0, <2>1, <2>2, <2>3, <2>5, NamesAndFlags, RecordTypes, ListedStays
    <2>6. CASE certs[d].named /\ certs[d].managed /\ Finish(p, TRUE)
      <3>1. Settled(d)'
        BY <2>1, <2>2, <2>6 DEF Settled
      <3>2. CallSettles(call[p])'
        BY <1>c, <2>2, <2>6, <3>1
        DEF CallSettles, AddPcs, RemovePcs, Settled, Listed
      <3> QED BY <1>c, <2>1, <2>6, <3>2, ListedStays
    <2> QED BY <2>1, <2>4, <2>5, <2>6
  <1>8. CASE AddStore(p)
    <2>1. /\ call[p].pc = "addStore" /\ UNCHANGED md /\ torn' = {}
          /\ certs' = [certs EXCEPT ![d] = call[p].cert]
          /\ Finish(p, TRUE)
      BY <1>0, <1>8, NothingFails DEF AddStore, StoreCertAndKey, Succeed
    <2>2. /\ Listed(d) /\ Listed(d)' /\ call[p].op = "add"
          /\ call[p].cert.named /\ call[p].cert.managed
      BY <2>1, ListedStays DEF CallSettles, AddPcs
    <2>3. Settled(d)'
      BY <1>0, <2>1, <2>2 DEF Settled
    <2>4. CallSettles(call[p])'
      BY <1>c, <2>1, <2>2, <2>3 DEF CallSettles, AddPcs, RemovePcs, Settled, Listed
    <2> QED BY <1>0, <1>c, <2>1, <2>4, ListedStays
  <1>9. CASE MemoryAdd(p)
    <2>1. /\ call[p].pc = "add" /\ Backend = "memory" /\ torn' = {}
          /\ \/ Listed(d) /\ Finish(p, FALSE) /\ UNCHANGED <<md, certs>>
             \/ /\ md' = md \cup {EntryFor(d, NoSans)} /\ Finish(p, TRUE)
                /\ certs' = IF certs[d] = Zero THEN certs
                            ELSE [certs EXCEPT ![d] = TakenOver(certs[d])]
      BY <1>0, <1>9 DEF MemoryAdd, Refuse, Succeed, At
    <2>2. (Listed(d) => Settled(d)) /\ call[p].op = "add"
      BY <2>1 DEF CallSettles, AddPcs
    <2>3. CASE Listed(d) /\ Finish(p, FALSE) /\ UNCHANGED <<md, certs>>
      <3>1. Settled(d)'
        BY <2>2, <2>3, SettledNext, ListedStays
      <3>2. CallSettles(call[p])'
        BY <1>c, <2>2, <2>3, <3>1 DEF CallSettles, AddPcs, RemovePcs, Settled, Listed
      <3> QED BY <1>c, <2>1, <2>3, <3>2, ListedStays
    <2>4. CASE /\ md' = md \cup {EntryFor(d, NoSans)} /\ Finish(p, TRUE)
               /\ certs' = IF certs[d] = Zero THEN certs
                           ELSE [certs EXCEPT ![d] = TakenOver(certs[d])]
      <3>1. \A e : Listed(e)' <=> Listed(e) \/ e = d
        BY <2>4, NamesOf, ListedAfter DEF Listed, Managed
      <3>2. certs'[d].named => certs'[d].managed
        BY <1>0, <2>4, NamesAndFlags
      <3>3. Settled(d)'
        BY <2>1, <3>1, <3>2 DEF Settled
      <3>4. CallSettles(call[p])'
        BY <1>c, <2>2, <2>4, <3>3 DEF CallSettles, AddPcs, RemovePcs, Settled, Listed
      <3>5. \A e \in Domains \ {d} : certs'[e] = certs[e]
        BY <1>0, <2>4
      <3> QED BY <1>c, <2>1, <2>4, <3>1, <3>4, <3>5
    <2> QED BY <2>1, <2>3, <2>4
  <1> QED BY <1>1, <1>2, <1>3, <1>4, <1>5, <1>6, <1>7, <1>8, <1>9
          DEF CallStep, AddStep, RemoveStep

-----------------------------------------------------------------------------
(* A request at rest is in order. *)
LEMMA IdleSettles ==
  ASSUME NEW h \in Callers, call'[h].pc = "idle", req'[h].pc = "idle"
  PROVE  RequestSettles(h)'
  BY DEF RequestSettles, CallSettles, AddPcs, RemovePcs

(* The one request that is served changes nothing but its domain: it is    *)
(* enough that it leaves that domain, or itself, in order.                 *)
LEMMA ServerAgrees ==
  ASSUME NEW h \in Callers, NEW d, d = req[h].domain, req[h].pc # "idle",
         Control, Agreement, OnlyMoves(h), UNCHANGED w, torn' = {},
         \A e \in Domains \ {d} :
           certs'[e] = certs[e] /\ (Listed(e)' <=> Listed(e)),
         req'[h].pc = "idle" => Settled(d)',
         req'[h].pc # "idle" => req'[h].domain = d,
         RequestSettles(h)'
  PROVE  Agreement'
  <1>1. ASSUME NEW q \in Callers PROVE RequestSettles(q)'
    <2>1. CASE q = h
      BY <2>1
    <2>2. CASE q # h
      <3>1. req'[q].pc = "idle" /\ call'[q].pc = "idle"
        BY <2>2 DEF Control, Alone, CallOfRequest, OnlyMoves
      <3> QED BY <3>1, IdleSettles
    <2> QED BY <2>1, <2>2
  <1>2. ASSUME NEW e \in Domains, Untouched(e)' PROVE Settled(e)'
    <2>1. CASE e = d
      BY <1>2, <2>1 DEF Untouched
    <2>2. CASE e # d
      <3>1. Untouched(e)
        BY <2>2 DEF Untouched, Control, Alone
      <3> QED BY <2>2, <3>1, SettledNext DEF Agreement
    <2> QED BY <2>1, <2>2
  <1>3. RunSettles'
    BY DEF Agreement, RunSettles
  <1> QED BY <1>1, <1>2, <1>3 DEF Agreement

(* What an answer to a request and to a call leaves. *)
LEMMA AnswersRest ==
  ASSUME NEW h \in Callers, call \in [Callers -> Call], req \in [Callers -> Requests]
  PROVE  /\ Answered(h) => /\ call'[h].pc = "idle"
                           /\ \A q \in Callers \ {h} : call'[q] = call[q]
         /\ Respond(h) => /\ req'[h].pc = "idle"
                          /\ \A q \in Callers \ {h} : req'[q] = req[q]
  BY AtRestHolds

(* A step of a request keeps list and records in agreement. *)
LEMMA HandlerStepAgrees ==
  ASSUME NEW h \in Callers, ~Fault, TypeOK, OneInv, SerialInv, Agreement,
         ServerStep(h)
  PROVE  Agreement'
  <1>0. /\ KeystoreTypeOK /\ ~Fault /\ torn = {} /\ Control
        /\ call \in [Callers -> Call] /\ req \in [Callers -> Requests]
        /\ req[h] \in Requests /\ req[h].domain \in Domains
        /\ req[h].cert \in CertAndKey
        /\ certs \in [Domains -> CertAndKey]
        /\ certs[req[h].domain] \in CertAndKey
        /\ CallSettles(call[h]) /\ RequestSettles(h) /\ UNCHANGED w
        /\ req[h].pc = "calling" <=> call[h].pc # "idle"
        /\ req[h].pc = "calling" => call[h].domain = req[h].domain
    BY RequestFields
    DEF TypeOK, KeystoreTypeOK, HandlersTypeOK, ServerStep, OneInv, Control,
        CallOfRequest, SameDomain, Agreement, RequestSettles
  <1> DEFINE Ends == /\ req'[h].pc = "idle" /\ call'[h].pc = "idle"
                     /\ OnlyMoves(h)
  <1>a. ASSUME NEW d, d = req[h].domain, Ends, req[h].pc # "idle", torn' = {},
               \A e \in Domains \ {d} :
                 certs'[e] = certs[e] /\ (Listed(e)' <=> Listed(e)),
               Settled(d)'
        PROVE  Agreement'
    BY <1>0, <1>a, IdleSettles, ServerAgrees DEF Agreement
  <1>b. /\ Answered(h) /\ Respond(h) => Ends
        /\ UNCHANGED call /\ Respond(h) /\ call[h].pc = "idle" => Ends
    BY <1>0, AnswersRest DEF OnlyMoves
  <1> HIDE DEF Ends
  <1>c. ASSUME NEW d, d = req[h].domain, NEW c,
               StoreCertAndKey(d, c), UNCHANGED md
        PROVE  /\ torn' = {} /\ certs'[d] = c
               /\ \A e \in Domains \ {d} : certs'[e] = certs[e]
               /\ \A e : Listed(e)' <=> Listed(e)
    BY <1>0, <1>c, ListedStays DEF StoreCertAndKey
  <1>1. CASE KeystoreCall(h)
    <2>1. PICK d : d = req[h].domain
      OBVIOUS
    <2>2. /\ call[h].pc # "idle" /\ UNCHANGED req
          /\ \A q \in Callers \ {h} : call'[q] = call[q]
          /\ call[h].domain = d
      BY <1>0, <1>1, <2>1, CallStepHolds DEF KeystoreCall, OneInv, Held
    <2>3. /\ torn' = {} /\ call'[h].op = call[h].op
          /\ CallSettles(call[h])'
          /\ \A e \in Domains \ {d} :
               certs'[e] = certs[e] /\ (Listed(e)' <=> Listed(e))
      <3>1. d = call[h].domain
        BY <2>2
      <3>2. CallStep(h)
        BY <1>1 DEF KeystoreCall
      <3>3. KeystoreTypeOK /\ ~Fault /\ torn = {} /\ CallSettles(call[h])
        BY <1>0
      <3> QED BY <3>1, <3>2, <3>3, CallStepSettles
    <2>4. req[h].pc = "calling" /\ OnlyMoves(h)
      BY <1>0, <2>2 DEF OnlyMoves
    <2>5. RequestSettles(h)'
      BY <1>0, <2>2, <2>3, <2>4 DEF RequestSettles
    <2> QED BY <1>0, <2>1, <2>2, <2>3, <2>4, <2>5, ServerAgrees
  <1>2. CASE AddDomainReply(h) \/ SoftRefused(h)
    <2>1. PICK d : d = req[h].domain
      OBVIOUS
    <2>2. /\ Answered(h) /\ Respond(h) /\ UNCHANGED <<md, certs, torn>>
          /\ req[h].pc = "calling" /\ call[h].pc = "done"
          /\ req[h].op = "add" \/ (req[h].op # "add" /\ ~call[h].ok)
      BY <1>2 DEF AddDomainReply, SoftRefused, CallReturned
    <2>3. Settled(req[h].domain)
      BY <1>0, <2>2 DEF RequestSettles, CallSettles
    <2>4. Settled(d)' /\ \A e : Listed(e)' <=> Listed(e)
      BY <2>1, <2>2, <2>3, SettledNext, ListedStays
    <2> QED BY <1>0, <1>a, <1>b, <2>1, <2>2, <2>4
  <1>3. CASE HardDelete(h)
    <2>1. PICK d : d = req[h].domain
      OBVIOUS
    <2>2. /\ Answered(h) /\ Respond(h) /\ StoreCertAndKey(d, Zero) /\ UNCHANGED md
          /\ req[h].pc = "calling" /\ call[h].pc = "done" /\ req[h].op # "add"
      BY <1>0, <1>3, <2>1, NothingFails DEF HardDelete, CallReturned, DeleteCertAndKey
    <2>3. ~Listed(d)
      BY <1>0, <2>1, <2>2 DEF RequestSettles, CallSettles
    <2>4. Settled(d)'
      BY <1>c, <2>1, <2>2, <2>3, NamesAndFlags DEF Settled
    <2> QED BY <1>0, <1>a, <1>b, <1>c, <2>1, <2>2, <2>4
  <1>4. CASE SoftGet(h)
    <2>1. PICK d : d = req[h].domain
      OBVIOUS
    <2> DEFINE c == Unmanaged(certs[d])
    <2>2. /\ Answered(h) /\ UNCHANGED <<md, certs, torn>>
          /\ req[h].pc = "calling" /\ call[h].pc = "done" /\ req[h].op # "add"
          /\ \/ ~certs[d].named /\ Respond(h)
             \/ req' = [req EXCEPT ![h].pc = "unmanage", ![h].cert = c]
      BY <1>0, <1>4, <2>1, NothingFails DEF SoftGet, CallReturned
    <2>3. ~Listed(d) /\ ~Listed(d)' /\ \A e : Listed(e)' <=> Listed(e)
      BY <1>0, <2>1, <2>2, ListedStays DEF RequestSettles, CallSettles
    <2>4. CASE ~certs[d].named /\ Respond(h)
      <3>1. Settled(d)'
        BY <2>2, <2>3, <2>4 DEF Settled
      <3> QED BY <1>0, <1>a, <1>b, <2>1, <2>2, <2>3, <2>4, <3>1
    <2>5. CASE req' = [req EXCEPT ![h].pc = "unmanage", ![h].cert = c]
      <3>1. ~c.managed
        BY <1>0, <2>1, NamesAndFlags
      <3> HIDE DEF c
      <3>2. /\ req'[h].pc = "unmanage" /\ req'[h].domain = d /\ req'[h].cert = c
            /\ \A q \in Callers \ {h} : req'[q] = req[q]
        BY <1>0, <2>1, <2>5 DEF Requests
      <3>3. call'[h].pc = "idle" /\ \A q \in Callers \ {h} : call'[q] = call[q]
        BY <1>0, <2>2, AnswersRest
      <3>4. RequestSettles(h)'
        BY <2>3, <3>1, <3>2, <3>3
        DEF RequestSettles, CallSettles, AddPcs, RemovePcs, Listed
      <3> QED BY <1>0, <2>1, <2>2, <2>3, <3>2, <3>3, <3>4, ServerAgrees
              DEF OnlyMoves
    <2> QED BY <2>2, <2>4, <2>5
  <1>5. CASE SoftStore(h)
    <2>1. PICK d : d = req[h].domain
      OBVIOUS
    <2>2. /\ Respond(h) /\ StoreCertAndKey(d, req[h].cert) /\ UNCHANGED <<md, call>>
          /\ req[h].pc = "unmanage"
      BY <1>0, <1>5, <2>1, NothingFails DEF SoftStore
    <2>3. ~Listed(d) /\ ~req[h].cert.managed
      BY <1>0, <2>1, <2>2 DEF RequestSettles
    <2>4. Settled(d)'
      BY <1>c, <2>1, <2>2, <2>3 DEF Settled
    <2> QED BY <1>0, <1>a, <1>b, <1>c, <2>1, <2>2, <2>4
  <1>6. CASE DeleteCertCheck(h)
    <2>1. PICK d : d = req[h].domain
      OBVIOUS
    <2>2. /\ UNCHANGED <<md, certs, torn, call>> /\ req[h].pc = "delGet"
          /\ Respond(h) \/ req' = [req EXCEPT ![h].pc = "delDelete"]
      BY <1>6 DEF DeleteCertCheck
    <2>3. Settled(d) /\ Settled(d)' /\ \A e : Listed(e)' <=> Listed(e)
      BY <1>0, <2>1, <2>2, SettledNext, ListedStays DEF RequestSettles
    <2>4. CASE Respond(h)
      BY <1>0, <1>a, <1>b, <2>1, <2>2, <2>3, <2>4
    <2>5. CASE req' = [req EXCEPT ![h].pc = "delDelete"]
      <3>1. /\ req'[h].pc = "delDelete" /\ req'[h].domain = d
            /\ \A q \in Callers \ {h} : req'[q] = req[q]
        BY <1>0, <2>1, <2>5 DEF Requests
      <3>2. RequestSettles(h)'
        BY <1>0, <2>2, <2>3, <3>1
        DEF RequestSettles, CallSettles, AddPcs, RemovePcs, Settled, Listed
      <3> QED BY <1>0, <2>1, <2>2, <2>3, <3>1, <3>2, ServerAgrees DEF OnlyMoves
    <2> QED BY <2>2, <2>4, <2>5
  <1>7. CASE DeleteCertDelete(h)
    <2>1. PICK d : d = req[h].domain
      OBVIOUS
    <2>2. /\ Respond(h) /\ StoreCertAndKey(d, Zero) /\ UNCHANGED <<md, call>>
          /\ req[h].pc = "delDelete"
      BY <1>0, <1>7, <2>1, NothingFails DEF DeleteCertDelete, DeleteCertAndKey
    <2>3. Settled(d) /\ ~certs[d].managed
      BY <1>0, <2>1, <2>2 DEF RequestSettles, SerialInv, DeleteChecked
    <2>4. Settled(d)'
      BY <1>c, <2>1, <2>2, <2>3, NamesAndFlags DEF Settled
    <2> QED BY <1>0, <1>a, <1>b, <1>c, <2>1, <2>2, <2>4
  <1> QED BY <1>1, <1>2, <1>3, <1>4, <1>5, <1>6, <1>7 DEF ServerStep, HandlerStep

(* A request arrives when nothing is under way, so that all is settled. *)
LEMMA NewRequestAgrees ==
  ASSUME NEW h \in Callers, ~Overlap, TypeOK, OneInv, Agreement, ClientStep(h)
  PROVE  Agreement'
  <1>0. /\ call \in [Callers -> Call] /\ req \in [Callers -> Requests]
        /\ NoCall \in Call /\ NoRequest \in Requests
        /\ w' = w /\ torn = {} /\ RunSettles
        /\ \A q \in Callers : req[q].pc = "idle" /\ call[q].pc = "idle"
        /\ \A d \in Domains : Settled(d)
    BY NoCallType, StoreRecordTypes
    DEF TypeOK, KeystoreTypeOK, HandlersTypeOK, ClientStep, Quiet, NoRequests,
        OneInv, Control, CallOfRequest, Agreement, Untouched
  <1>1. PICK o \in AllOps, d \in Domains, k \in {"calling", "delGet"} :
          /\ Serve(h, o, d, k)
          /\ \/ UNCHANGED call /\ k = "delGet"
             \/ \E i \in {"add", "remove"}, s \in Sans :
                  Begin(h, i, d, s) /\ (i = "add" <=> o = "add")
    BY SansTypes DEF ClientStep, NewRequest, AddDomain, RemoveDomain, DeleteCert,
                          AllOps, BeginAdd, BeginRemove
  <1>2. /\ UNCHANGED <<md, certs, torn>>
        /\ req'[h].pc = k /\ req'[h].domain = d /\ req'[h].op = o
        /\ \A q \in Callers \ {h} : req'[q] = req[q]
    BY <1>0, <1>1 DEF Serve, Requests
  <1>3. \A e \in Domains : Settled(e)'
    BY <1>0, <1>2, SettledNext, ListedStays
  <1>4. /\ \/ call'[h].pc = "idle" /\ k = "delGet"
           \/ /\ call'[h].pc = call'[h].op /\ call'[h].domain = d
              /\ call'[h].pc \in {"add", "remove"}
              /\ call'[h].op = "add" <=> o = "add"
        /\ \A q \in Callers \ {h} : call'[q] = call[q]
    <2>1. CASE UNCHANGED call /\ k = "delGet"
      BY <1>0, <2>1
    <2>2. ASSUME NEW i \in {"add", "remove"}, NEW s \in Sans, Begin(h, i, d, s),
                 i = "add" <=> o = "add"
          PROVE  /\ call'[h].pc = i /\ call'[h].op = i /\ call'[h].domain = d
                 /\ \A q \in Callers \ {h} : call'[q] = call[q]
      BY <1>0, <2>2 DEF Begin, Call
    <2> QED BY <1>1, <2>1, <2>2
  <1>5. ASSUME NEW q \in Callers PROVE RequestSettles(q)'
    <2>1. CASE q = h
      BY <1>2, <1>3, <1>4, <2>1
      DEF RequestSettles, CallSettles, AddPcs, RemovePcs, Settled, Listed
    <2>2. CASE q # h
      BY <1>0, <1>2, <1>4, <2>2, IdleSettles
    <2> QED BY <2>1, <2>2
  <1> QED BY <1>0, <1>2, <1>3, <1>5 DEF Agreement, RunSettles

(* A run stores records of listed domains, named and managed, and nothing  *)
(* that was settled is unsettled by it.                                    *)
LEMMA RunStepSettles ==
  ASSUME ~Fault, torn = {}, TypeOK, RunSettles, RunManaged,
         w.pc \notin {"idle", "next"} => Listed(w.domain),
         TickStep \/ DaemonStep
  PROVE  /\ torn' = {} /\ RunSettles' /\ RunManaged'
         /\ \A d \in Domains : Settled(d) => Settled(d)'
  <1>0. /\ KeystoreTypeOK /\ w \in Worker
        /\ certs \in [Domains -> CertAndKey]
        /\ w.domain \in Domains /\ w.cert \in CertAndKey /\ w.sans \in Sans
        /\ certs[w.domain] \in CertAndKey
        /\ UNCHANGED md
    BY WorkerTypes, RunLeaves DEF TypeOK, KeystoreTypeOK, DaemonTypeOK
  <1>a. UNCHANGED certs => \A d \in Domains : Settled(d) => Settled(d)'
    BY <1>0, SettledNext, ListedStays
  <1>b. w'.pc \in {"idle", "next", "sans", "leaf", "order", "failGet", "errGet"} =>
          RunSettles'
    BY DEF RunSettles
  <1>c. /\ \A S : NextDomain(S) => w'.pc \in {"idle", "next"}
        /\ \A k : WGoto(k) => w'.pc = k /\ w'.domain = w.domain
        /\ \A k : \A c : WStore(k, c) => w'.cert = c /\ w'.domain = w.domain
    <2>1. AtRest.pc = "idle" /\ AtRest \in Worker
      BY StoreRecordTypes DEF AtRest
    <2>2. \A S : [AtRest EXCEPT !.pc = "next", !.todo = S].pc = "next"
      BY <2>1 DEF Worker
    <2> QED BY <1>0, <2>1, <2>2 DEF NextDomain, WGoto, WStore, Worker
  <1>d. w'.pc \in {"idle", "next"} => RunManaged'
    BY DEF RunManaged
  <1>e. UNCHANGED certs /\ w.pc \notin {"idle", "next"} /\ w'.domain = w.domain =>
          RunManaged'
    BY DEF RunManaged
  <1>1. CASE StartRun \/ CheckManaged \/ ReadSans \/ ReadLeaf
    <2>1. UNCHANGED <<certs, torn>>
      BY <1>1 DEF StartRun, CheckManaged, ReadSans, ReadLeaf
    <2>2. CASE StartRun
      <3>1. w.pc = "idle" /\ (UNCHANGED w \/ NextDomain(Snapshot))
        BY <2>2 DEF StartRun
      <3>2. w'.pc \in {"idle", "next"}
        BY <1>c, <3>1
      <3> QED BY <1>a, <1>b, <1>d, <2>1, <3>2
    <2>3. CASE CheckManaged
      <3>1. PICK d \in w.todo :
              \/ NextDomain(w.todo \ {d})
              \/ /\ ~(certs[d].named /\ ~certs[d].managed)
                 /\ w' = [w EXCEPT !.pc = "sans", !.domain = d, !.todo = w.todo \ {d}]
        BY <2>3, NothingFails DEF CheckManaged
      <3>2. CASE NextDomain(w.todo \ {d})
        BY <1>a, <1>b, <1>c, <1>d, <2>1, <3>2
      <3>3. CASE /\ ~(certs[d].named /\ ~certs[d].managed)
                 /\ w' = [w EXCEPT !.pc = "sans", !.domain = d, !.todo = w.todo \ {d}]
        <4>1. w'.pc = "sans" /\ w'.domain = d
          BY <1>0, <3>3 DEF Worker
        <4>2. RunManaged'
          BY <2>1, <3>3, <4>1 DEF RunManaged
        <4> QED BY <1>a, <1>b, <2>1, <4>1, <4>2
      <3> QED BY <3>1, <3>2, <3>3
    <2>4. CASE ReadSans
      <3>1. w'.pc = "leaf" /\ w'.domain = w.domain /\ w.pc = "sans"
        BY <1>0, <1>c, <2>4 DEF ReadSans, Worker
      <3> QED BY <1>a, <1>b, <1>e, <2>1, <3>1
    <2>5. CASE ReadLeaf
      <3>1. /\ w'.pc \in {"order", "idle", "next", "errGet"} /\ w.pc = "leaf"
            /\ w'.pc \in {"idle", "next"} \/ w'.domain = w.domain
        BY <1>c, <2>5 DEF ReadLeaf
      <3> QED BY <1>a, <1>b, <1>d, <1>e, <2>1, <3>1
    <2> QED BY <1>1, <2>2, <2>3, <2>4, <2>5
  <1>2. CASE Order
    <2>1. /\ UNCHANGED <<certs, torn>> /\ w.pc = "order"
          /\ \/ WStore("issued", NewCertAndKey(w.domain, w.sans))
             \/ WGoto("failGet") \/ WGoto("errGet")
      BY <1>2 DEF Order
    <2>2. RunManaged'
      BY <1>c, <1>e, <2>1
    <2>3. CASE WStore("issued", NewCertAndKey(w.domain, w.sans))
      <3>1. w'.cert.named /\ w'.cert.managed
        BY <1>0, <1>c, <2>3, NamesAndFlags
      <3> QED BY <1>a, <2>1, <2>2, <3>1 DEF RunSettles
    <2> QED BY <1>a, <1>b, <1>c, <2>1, <2>2, <2>3
  <1>3. CASE RenewFailGet \/ OrdersFailGet
    <2>1. /\ UNCHANGED <<certs, torn>> /\ w.pc \in {"failGet", "errGet"}
          /\ \/ certs[w.domain].named
                /\ \E k \in {"failStore", "errStore"} :
                     WStore(k, Failed(certs[w.domain]))
             \/ WGoto("errGet") \/ NextDomain(w.todo)
      BY <1>3 DEF RenewFailGet, OrdersFailGet, MarkGet, GiveUp
    <2>2. ASSUME NEW k \in {"failStore", "errStore"}, certs[w.domain].named,
                 WStore(k, Failed(certs[w.domain]))
          PROVE  w'.cert.named /\ w'.cert.managed
      <3>1. certs[w.domain].managed
        BY <2>1, <2>2 DEF RunManaged
      <3>2. w'.cert = Failed(certs[w.domain])
        BY <1>c, <2>2
      <3> QED BY <1>0, <2>2, <3>1, <3>2, NamesAndFlags
    <2>3. RunSettles'
      BY <1>b, <1>c, <2>1, <2>2 DEF RunSettles
    <2>4. RunManaged'
      BY <1>c, <1>d, <1>e, <2>1
    <2> QED BY <1>a, <2>1, <2>3, <2>4
  <1>4. CASE StoreIssued \/ RenewFailStore \/ OrdersFailStore
    <2>1. /\ StoreCertAndKey(w.domain, w.cert)
          /\ w.pc \in {"issued", "failStore", "errStore"}
          /\ w'.pc \in {"idle", "next", "errGet"}
          /\ w'.pc \in {"idle", "next"} \/ w'.domain = w.domain
      BY <1>0, <1>4, <1>c, NothingFails
      DEF StoreIssued, RenewFailStore, OrdersFailStore, MarkStore, GiveUp
    <2>2. /\ torn' = {} /\ certs'[w.domain] = w.cert
          /\ \A e \in Domains \ {w.domain} : certs'[e] = certs[e]
          /\ \A e : Listed(e)' <=> Listed(e)
      BY <1>0, <2>1, ListedStays DEF StoreCertAndKey
    <2>3. /\ certs'[w.domain].named /\ certs'[w.domain].managed
      BY <2>1, <2>2 DEF RunSettles
    <2>4. ASSUME NEW e \in Domains, Settled(e) PROVE Settled(e)'
      <3>1. CASE e = w.domain
        <4>1. Listed(e)'
          BY <1>0, <2>1, <2>2, <3>1
        <4> QED BY <2>3, <3>1, <4>1 DEF Settled
      <3>2. CASE e # w.domain
        BY <2>2, <2>4, <3>2, SettledNext
      <3> QED BY <3>1, <3>2
    <2>5. RunManaged'
      BY <2>1, <2>3 DEF RunManaged
    <2> QED BY <1>b, <2>1, <2>2, <2>4, <2>5
  <1> QED BY <1>1, <1>2, <1>3, <1>4 DEF TickStep, DaemonStep, RunStep

(* A run keeps list and records in agreement. *)
LEMMA RunStepAgrees ==
  ASSUME ~Overlap, ~Fault, TypeOK, OneInv, SerialInv, Agreement,
         TickStep \/ DaemonStep
  PROVE  Agreement'
  <1>1. NoRequests /\ UNCHANGED <<md, call, req>>
    BY RunLeaves
    DEF TickStep, DaemonStep, Quiet, SerialInv, SoloRun, RunStep, CheckManaged,
        ReadSans, ReadLeaf, Order, StoreIssued, RenewFailGet, RenewFailStore,
        OrdersFailGet, OrdersFailStore, MarkGet, MarkStore
  <1>2. \A q \in Callers : req'[q].pc = "idle" /\ call'[q].pc = "idle"
    BY <1>1 DEF NoRequests, OneInv, Control, CallOfRequest
  <1>3. \A d \in Domains : Settled(d)
    BY <1>1 DEF Agreement, Untouched, NoRequests
  <1>4. w.pc \notin {"idle", "next"} => Listed(w.domain)
    BY DEF SerialInv, RunListed, Listed
  <1>5. w.domain \in Domains
    BY WorkerTypes DEF TypeOK
  <1>6. RunManaged
    BY <1>3, <1>4, <1>5 DEF RunManaged, Settled
  <1>7. /\ torn' = {} /\ RunSettles'
        /\ \A d \in Domains : Settled(d) => Settled(d)'
    BY <1>4, <1>6, RunStepSettles DEF Agreement
  <1> QED BY <1>2, <1>3, <1>7, IdleSettles DEF Agreement

(* Time changes neither names nor flags. *)
LEMMA AgeSettles ==
  ASSUME NEW d \in Domains, TypeOK, Age(d)
  PROVE  /\ torn' = torn
         /\ \A e \in Domains : /\ certs'[e].managed = certs[e].managed
                               /\ certs'[e].named = certs[e].named
                               /\ Settled(e)' <=> Settled(e)
         /\ \A p \in Callers : /\ RequestSettles(p) => RequestSettles(p)'
                               /\ call'[p].pc = call[p].pc
                               /\ call'[p].domain = call[p].domain
                               /\ req'[p].pc = req[p].pc
                               /\ req'[p].domain = req[p].domain
         /\ RunSettles => RunSettles'
         /\ RunManaged => RunManaged'
  <1>0. /\ certs \in [Domains -> CertAndKey] /\ call \in [Callers -> Call]
        /\ req \in [Callers -> Requests] /\ w \in Worker /\ w.domain \in Domains
        /\ torn' = torn /\ UNCHANGED md
    BY WorkerTypes DEF TypeOK, KeystoreTypeOK, HandlersTypeOK, DaemonTypeOK, Age
  <1>1. /\ Managed' = Managed
        /\ \A e \in Domains : /\ certs'[e].managed = certs[e].managed
                              /\ certs'[e].named = certs[e].named
    BY <1>0, NamesAndFlags, ListedStays DEF Age
  <1>2. \A e \in Domains : Settled(e)' <=> Settled(e)
    BY <1>1 DEF Settled, Listed
  <1>3. ASSUME NEW p \in Callers
        PROVE  /\ RequestSettles(p) => RequestSettles(p)'
               /\ call'[p].pc = call[p].pc /\ call'[p].domain = call[p].domain
               /\ req'[p].pc = req[p].pc /\ req'[p].domain = req[p].domain
    <2>0. /\ call[p] \in Call /\ req[p] \in Requests
          /\ call[p].domain \in Domains /\ req[p].domain \in Domains
          /\ call[p].cert \in CertAndKey /\ req[p].cert \in CertAndKey
      BY <1>0 DEF Call, Requests
    <2>1. /\ call'[p].pc = call[p].pc /\ call'[p].domain = call[p].domain
          /\ call'[p].op = call[p].op /\ call'[p].list = call[p].list
          /\ call'[p].ok = call[p].ok
          /\ call'[p].cert = call[p].cert \/ call'[p].cert = Aged(call[p].cert)
      BY <2>0 DEF Age, Call
    <2>2. /\ req'[p].pc = req[p].pc /\ req'[p].domain = req[p].domain
          /\ req'[p].op = req[p].op
          /\ req'[p].cert = req[p].cert \/ req'[p].cert = Aged(req[p].cert)
      BY <2>0 DEF Age, Requests
    <2>3. /\ call'[p].cert.named = call[p].cert.named
          /\ call'[p].cert.managed = call[p].cert.managed
          /\ req'[p].cert.managed = req[p].cert.managed
      BY <2>0, <2>1, <2>2, NamesAndFlags
    <2>4. ASSUME RequestSettles(p) PROVE RequestSettles(p)'
      <3>1. CallSettles(call[p])'
        <4>1. CallSettles(call[p])
          BY <2>4 DEF RequestSettles
        <4>2. \A e : Listed(e)' <=> Listed(e)
          BY <1>0, ListedStays
        <4> QED BY <1>1, <2>0, <2>1, <2>3, <4>1, <4>2
                DEF CallSettles, AddPcs, RemovePcs, Settled, Listed
      <3> QED BY <1>1, <2>0, <2>1, <2>2, <2>3, <2>4, <3>1
              DEF RequestSettles, Settled, Listed
    <2> QED BY <2>1, <2>2, <2>4
  <1>4. /\ RunSettles => RunSettles'
        /\ RunManaged => RunManaged'
    <2>1. /\ w'.pc = w.pc /\ w.cert \in CertAndKey /\ w'.domain = w.domain
          /\ w'.cert = w.cert \/ w'.cert = Aged(w.cert)
      BY <1>0 DEF Age, Worker
    <2>2. w'.cert.named = w.cert.named /\ w'.cert.managed = w.cert.managed
      BY <2>1, NamesAndFlags
    <2> QED BY <1>0, <1>1, <2>1, <2>2 DEF RunSettles, RunManaged
  <1> QED BY <1>0, <1>1, <1>2, <1>3, <1>4

LEMMA AgeAgrees ==
  ASSUME NEW d \in Domains, TypeOK, Agreement, Age(d)
  PROVE  Agreement'
  <1>1. ASSUME NEW e \in Domains, Untouched(e)' PROVE Settled(e)'
    <2>1. Untouched(e)
      BY <1>1, AgeSettles DEF Untouched
    <2> QED BY <2>1, AgeSettles DEF Agreement
  <1> QED BY <1>1, AgeSettles DEF Agreement

-----------------------------------------------------------------------------
(* The invariant of the regime, until something fails. *)
LEMMA AgreementUnfailed ==
  ASSUME ~Overlap, ~Crashes
  PROVE  Spec => [](faults = 0 => Agreement)
  <1>1. Init => Agreement
    <2> SUFFICES ASSUME Init PROVE Agreement
      OBVIOUS
    <2>1. /\ torn = {} /\ md = {}
          /\ certs = [d \in Domains |-> Zero]
          /\ \A h \in Callers : call[h].pc = "idle" /\ req[h].pc = "idle"
          /\ w.pc = "idle"
      BY DEF Init, KeystoreInit, HandlersInit, DaemonInit, NoCall, NoRequest, AtRest
    <2>2. \A d \in Domains : Settled(d)
      BY <2>1, NamesAndFlags DEF Settled, Listed, Managed, DomainsOf
    <2> QED BY <2>1, <2>2
            DEF Agreement, RequestSettles, CallSettles, AddPcs, RemovePcs, RunSettles
  <1>2. TypeOK /\ OneInv /\ SerialInv /\ (faults = 0 => Agreement) /\ [Next]_vars
          => (faults = 0 => Agreement)'
    <2> SUFFICES ASSUME TypeOK, OneInv, SerialInv, faults = 0 => Agreement,
                        [Next]_vars, faults' = 0
                 PROVE  Agreement'
      OBVIOUS
    <2>0. Agreement /\ ~Fault
      <3>1. Fault \/ NoFault
        BY FaultSteps
      <3>2. faults = 0 /\ ~Fault
        BY <3>1, UnfailedBefore DEF TypeOK
      <3> QED BY <3>2
    <2>1. ASSUME NEW h \in Callers, ClientStep(h) PROVE Agreement'
      BY <2>0, <2>1, NewRequestAgrees
    <2>2. ASSUME NEW h \in Callers, ServerStep(h) PROVE Agreement'
      BY <2>0, <2>2, HandlerStepAgrees
    <2>3. CASE TickStep \/ DaemonStep
      BY <2>0, <2>3, RunStepAgrees
    <2>4. ASSUME NEW d \in Domains, Age(d) PROVE Agreement'
      BY <2>0, <2>4, AgeAgrees
    <2>5. CASE Restart
      BY <2>5 DEF Restart
    <2>6. CASE UNCHANGED vars
      <3>1. UNCHANGED <<md, certs, torn, call, req, w>>
        BY <2>6 DEF vars, keystoreVars
      <3>2. Managed' = Managed
        BY <3>1, ListedStays
      <3> QED BY <2>0, <3>1, <3>2, ZenonT(60)
              DEF Agreement, RequestSettles, CallSettles, RunSettles, Untouched,
                  Settled, Listed
    <2> QED BY <2>1, <2>2, <2>3, <2>4, <2>5, <2>6 DEF Next
  <1>3. OneClient /\ ~Overlap
    BY DEF OneClient
  <1> QED BY <1>1, <1>2, <1>3, StoreTypeCorrect, OneClientInv, SerialInvAlways, PTL
          DEF Spec

(* With one request or run at a time and no crashes, the list and the      *)
(* records agree when nothing is under way for as long as no request to    *)
(* the store has failed, however many may fail.                            *)
THEOREM AgreementUntilFailure ==
  ASSUME ~Overlap, ~Crashes
  PROVE  Spec => [](faults = 0 => /\ ListAndRecordsAgree
                                  /\ Backend # "memory" => RecordForListed)
  <1>1. (faults = 0 => Agreement) =>
          (faults = 0 => /\ ListAndRecordsAgree
                         /\ Backend # "memory" => RecordForListed)
    BY DEF Agreement, Untouched, Settled, ListAndRecordsAgree, RecordForListed,
           Quiet, NoRequests
  <1> QED BY <1>1, AgreementUnfailed, PTL

(* The invariant of the undisturbed regime. *)
LEMMA AgreementAlways ==
  ASSUME Undisturbed
  PROVE  Spec => []Agreement
  <1>1. ~Overlap /\ ~Crashes
    BY DEF Undisturbed
  <1>2. TypeOK /\ (faults = 0 => Agreement) => Agreement
    BY DEF Undisturbed, TypeOK, KeystoreTypeOK
  <1> QED BY <1>1, <1>2, StoreTypeCorrect, AgreementUnfailed, PTL

(* With one request or run at a time, no failures and no crashes, the list *)
(* and the managed flags of the records agree when nothing is under way.   *)
THEOREM UndisturbedAgreement ==
  ASSUME Undisturbed
  PROVE  Spec => []ListAndRecordsAgree
  <1>1. Agreement => ListAndRecordsAgree
    BY DEF Agreement, Untouched, Settled, ListAndRecordsAgree, Quiet, NoRequests
  <1> QED BY <1>1, AgreementAlways, PTL

(* In the same regime, with a backend that stores placeholders, every      *)
(* listed domain has a record when nothing is under way.                   *)
THEOREM UndisturbedRecords ==
  ASSUME Undisturbed, Backend # "memory"
  PROVE  Spec => []RecordForListed
  <1>1. Agreement => RecordForListed
    BY DEF Agreement, Untouched, Settled, RecordForListed, Quiet, NoRequests
  <1> QED BY <1>1, AgreementAlways, PTL
=============================================================================
