------------------------------- MODULE Daemon -------------------------------
(* The order daemon: doAcmeOrders (cmd/acme-store/worker.go) and           *)
(* RenewCertIfNeeded (pkg/acme/acme.go).  One goroutine runs it.  A run    *)
(* takes the list of domains once and then handles them one by one; for    *)
(* each it reads the record, reads the SANs, reads the leaf, orders and    *)
(* stores, and no lock keeps the handlers out between these steps.         *)

EXTENDS Keystore

CONSTANT Flaky   \* the domains whose orders the ACME server may refuse

VARIABLE w       \* the run: its snapshot of the list and its local variables

ASSUME FlakyAssumption == Flaky \subseteq Domains

Worker ==
  [ pc : {"idle", "next", "sans", "leaf", "order", "issued", "failGet",
          "failStore", "errGet", "errStore"},
    todo : SUBSET Domains,    \* domains of the snapshot still to handle
    domain : Domains,
    sans : Sans,
    cert : CertAndKey ]       \* the record about to be stored

AtRest == [ pc |-> "idle", todo |-> {}, domain |-> AnyDomain, sans |-> NoSans,
            cert |-> Zero ]

DaemonInit == w = AtRest

WGoto(k) == w' = [w EXCEPT !.pc = k, !.cert = Zero]
WStore(k, c) == w' = [w EXCEPT !.pc = k, !.cert = c]

(* On to the next domain of the snapshot, or to rest when none is left. *)
NextDomain(rest) ==
  w' = IF rest = {} THEN AtRest
       ELSE [AtRest EXCEPT !.pc = "next", !.todo = rest]

(* After an error the run goes on with the other domains.  The mistake:    *)
(* return instead of continue.                                             *)
GiveUpRun == w' = AtRest
GiveUp == NextDomain(w.todo)

(* The domains a run handles.  The mistake: GetAllDomains, which on Vault  *)
(* lists every domain that ever had a record.                              *)
SnapshotOfRecords == Domains
Snapshot == Managed

(* A run starts when the ticker or the trigger channel fires.  With an     *)
(* empty or unreadable list there is nothing to do.                        *)
StartRun ==
  /\ w.pc = "idle"
  /\ \/ ReadOk(ListFile) /\ NextDomain(Snapshot)
     \/ ReadFails(ListFile) /\ UNCHANGED w
  /\ UNCHANGED <<md, certs, torn, call>>

(* Only a record that can be read, has a name and is unmanaged is skipped. *)
CheckManaged ==
  /\ w.pc = "next"
  /\ \E d \in w.todo :
       LET Handle == w' = [w EXCEPT !.pc = "sans", !.domain = d,
                                    !.todo = @ \ {d}]
       IN
       \/ /\ ReadOk(d)
          /\ IF certs[d].named /\ ~certs[d].managed
               THEN NextDomain(w.todo \ {d}) ELSE Handle
       \/ ReadFails(d) /\ Handle
  /\ UNCHANGED <<md, certs, torn, call>>

(* The mistake: the SANs are not looked up. *)
SansForgotten(d, l) == NoSans
SansOf(d, l) == IF d \in DomainsOf(l)
                  THEN (CHOOSE e \in l : e.domain = d).sans ELSE NoSans

(* Only the Vault backend is asked for the SANs; no answer means none. *)
ReadSans ==
  /\ w.pc = "sans"
  /\ \/ /\ Backend = "vault" /\ ReadOk(ListFile)
        /\ w' = [w EXCEPT !.pc = "leaf",
                   !.sans = SansOf(w.domain, md)]
     \/ Backend = "vault" /\ ReadFails(ListFile) /\ WGoto("leaf")
     \/ Backend # "vault" /\ NoFault /\ WGoto("leaf")
  /\ UNCHANGED <<md, certs, torn, call>>

(* The mistake: no look at the time left. *)
RenewAlways(c) == TRUE
NeedsRenewal(c) == c.pem # "fresh"

(* A certificate with more than 21 days left needs nothing. *)
ReadLeaf ==
  /\ w.pc = "leaf"
  /\ \/ ReadOk(w.domain) /\ IF NeedsRenewal(certs[w.domain])
                              THEN WGoto("order") ELSE NextDomain(w.todo)
     \/ ReadFails(w.domain) /\ WGoto("errGet")
  /\ UNCHANGED <<md, certs, torn, call>>

(* The order is granted; or it is refused, and marked by RenewCertIfNeeded *)
(* first; or it is not placed, because the account could not be read, the  *)
(* server did not confirm it, or there is no DNS solver; or its answer     *)
(* cannot be taken for a certificate.  Only doAcmeOrders marks these last. *)
Order ==
  /\ w.pc = "order"
  /\ \/ NoFault /\ WStore("issued", NewCertAndKey(w.domain, w.sans))
     \/ NoFault /\ w.domain \in Flaky /\ WGoto("failGet")
     \/ NoFault /\ w.domain \in Flaky /\ WGoto("errGet")
     \/ Fault /\ WGoto("errGet")
  /\ UNCHANGED <<md, certs, torn, call>>

StoreIssued ==
  /\ w.pc = "issued"
  /\ \/ StoreCertAndKey(w.domain, w.cert) /\ NextDomain(w.todo)
     \/ StoreFails(w.domain, w.cert) /\ WGoto("errGet")
  /\ UNCHANGED <<md, call>>

(* Mistakes: a status nobody knows, and a record built anew. *)
FailedAsError(c) == [c EXCEPT !.status = "error"]
FailedAnew(c) == [Zero EXCEPT !.named = TRUE, !.managed = TRUE, !.status = "failed"]
Failed(c) == [c EXCEPT !.status = "failed"]

(* RenewCertIfNeeded marks the record of a refused order and returns the   *)
(* error; doAcmeOrders marks the record after every error.                 *)
MarkGet(from, to, Otherwise) ==
  /\ w.pc = from
  /\ \/ /\ ReadOk(w.domain) /\ certs[w.domain].named
        /\ WStore(to, Failed(certs[w.domain]))
     \/ ReadOk(w.domain) /\ ~certs[w.domain].named /\ Otherwise
     \/ ReadFails(w.domain) /\ Otherwise
  /\ UNCHANGED <<md, certs, torn, call>>

MarkStore(from, Then) ==
  /\ w.pc = from
  /\ StoreCertAndKey(w.domain, w.cert) \/ StoreFails(w.domain, w.cert)
  /\ Then
  /\ UNCHANGED <<md, call>>

RenewFailGet == MarkGet("failGet", "failStore", WGoto("errGet"))
RenewFailStore == MarkStore("failStore", WGoto("errGet"))
OrdersFailGet == MarkGet("errGet", "errStore", GiveUp)
OrdersFailStore == MarkStore("errStore", GiveUp)

RunStep ==
  \/ CheckManaged
  \/ ReadSans
  \/ ReadLeaf
  \/ Order
  \/ StoreIssued
  \/ RenewFailGet
  \/ RenewFailStore
  \/ OrdersFailGet
  \/ OrdersFailStore

DaemonTypeOK == w \in Worker
=============================================================================
