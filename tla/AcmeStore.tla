------------------------------ MODULE AcmeStore ------------------------------
(* The acme-store service: the request handlers and the order daemon over  *)
(* one keystore.  Time enters as certificates that reach the last 21 days  *)
(* of their validity.                                                      *)

EXTENDS Handlers, Daemon

CONSTANTS
  Overlap,   \* FALSE: one request or daemon run at a time
  Crashes    \* TRUE: the process may die and be started again

ASSUME RegimeAssumption == Overlap \in BOOLEAN /\ Crashes \in BOOLEAN

vars == <<keystoreVars, req, w>>

Init == KeystoreInit /\ HandlersInit /\ DaemonInit

(* No request and no run is under way. *)
Quiet == NoRequests /\ w.pc = "idle"

Aged(c) == IF c.pem = "fresh" THEN [c EXCEPT !.pem = "due"] ELSE c

(* The certificate of d enters the renewal window, in every copy of it. *)
Age(d) ==
  /\ certs[d].pem = "fresh"
  /\ certs' = [certs EXCEPT ![d] = Aged(@)]
  /\ call' = [p \in Callers |-> IF call[p].domain = d
                THEN [call[p] EXCEPT !.cert = Aged(@)] ELSE call[p]]
  /\ req' = [h \in Callers |-> IF req[h].domain = d
                THEN [req[h] EXCEPT !.cert = Aged(@)] ELSE req[h]]
  /\ w' = IF w.domain = d /\ w.pc # "issued"
            THEN [w EXCEPT !.cert = Aged(@)] ELSE w
  /\ UNCHANGED <<md, torn, faults>>

Restart ==
  /\ Crashes
  /\ Crash
  /\ req' = [h \in Callers |-> NoRequest]
  /\ w' = AtRest

ClientStep(h) == NewRequest(h) /\ (Overlap \/ Quiet) /\ UNCHANGED w
ServerStep(h) == HandlerStep(h) /\ UNCHANGED w
TickStep == StartRun /\ (Overlap \/ Quiet) /\ UNCHANGED req
DaemonStep == RunStep /\ UNCHANGED req

Next ==
  \/ \E h \in Callers : ClientStep(h) \/ ServerStep(h)
  \/ TickStep
  \/ DaemonStep
  \/ \E d \in Domains : Age(d)
  \/ Restart

Spec == Init /\ [][Next]_vars

(* The Go scheduler runs every goroutine, the ticker fires every 24 hours, *)
(* and requests to the ACME server, to DNS and to the keystore are         *)
(* answered in the end: the code sets no timeout on them.                  *)
Fairness ==
  /\ WF_vars(TickStep)
  /\ WF_vars(DaemonStep)
  /\ \A h \in Callers : WF_vars(ServerStep(h))

FairSpec == Spec /\ Fairness

-----------------------------------------------------------------------------
TypeOK == KeystoreTypeOK /\ HandlersTypeOK /\ DaemonTypeOK

(* The managed flag of a record and the list are two copies of one fact:   *)
(* they agree once everything under way has finished.  Where they do not,  *)
(* the daemon skips a listed domain for ever, or DELETE /certs refuses an  *)
(* unlisted one for ever.                                                  *)
ListAndRecordsAgree ==
  Quiet => \A d \in Domains :
    certs[d].named => (certs[d].managed <=> Listed(d))

(* Every listed domain has a record, if only a pending placeholder.        *)
RecordForListed ==
  Quiet => \A d \in Domains : Listed(d) => certs[d].named

(* No order is placed for a certificate that is not due, whatever changes  *)
(* after the daemon looked: orders count against the limits of the CA.     *)
NoNeedlessOrder == w.pc = "order" => certs[w.domain].pem # "fresh"

(* A record that says "issued" has a certificate and a key, and one that   *)
(* says "pending" has none, however copies of records are stored back.     *)
StatusTellsPem ==
  \A d \in Domains :
    /\ certs[d].status = "issued" => certs[d].pem # "none"
    /\ certs[d].status = "pending" => certs[d].pem = "none"

(* A certificate is issued for its domain and the SANs that are in the     *)
(* list with it, through every removal and addition with other SANs.       *)
IssuedWithSans ==
  [][\A e \in md :
       certs[e.domain].pem # "fresh" /\ certs'[e.domain].pem = "fresh" =>
         certs'[e.domain].sans = e.sans \cup {e.domain}]_vars

(* A domain without a record gets one only while it is in the list: what a *)
(* hard delete removed completely does not come back on its own.           *)
RecordOnlyForListed ==
  [][\A d \in Domains : certs[d] = Zero /\ certs'[d] # Zero => Listed(d)]_vars

(* A certificate is obtained only for a domain that is in the list: after  *)
(* a soft delete the certificate is not renewed.                           *)
RenewedOnlyWhileListed ==
  [][\A d \in Domains :
       certs[d].pem # "fresh" /\ certs'[d].pem = "fresh" => Listed(d)]_vars

(* A certificate that is not due is lost only to a request to delete it.   *)
DeletionOf(d) == \E h \in Callers : /\ req[h].op \in {"hardRemove", "deleteCert"}
                                    /\ req[h].domain = d
FreshKept ==
  [][\A d \in Domains : certs[d].pem = "fresh" /\ certs'[d].pem # "fresh" =>
       \/ Age(d)
       \/ certs'[d] = Zero /\ (DeletionOf(d) \/ Crash)]_vars

(* DELETE /certs never deletes the record of a managed certificate. *)
DeleteOnlyUnmanaged ==
  [][\A h \in Callers : DeleteCertDelete(h) => ~certs[req[h].domain].managed]_vars

(* A record says "failed" only while there is no certificate or it is due. *)
FailedNotFresh ==
  \A d \in Domains : certs[d].status = "failed" => certs[d].pem # "fresh"

(* No step of a run costs a certificate that is not due: not the mark of a *)
(* failure, which writes a whole record back, nor an error of the keystore *)
(* in the middle of a run, nor the store of what was ordered long before.  *)
DaemonKeepsFresh ==
  [][DaemonStep => \A d \in Domains :
       certs[d].pem = "fresh" => certs'[d].pem = "fresh"]_vars

(* A listed domain has a certificate that is not due again and again, as   *)
(* long as the ACME server grants its orders and the process does not die  *)
(* for ever, whatever becomes of the orders for other domains.             *)
ManagedRenewed ==
  \A d \in Domains \ Flaky :
    \/ []<>~Listed(d)
    \/ []<>(certs[d].pem = "fresh")
    \/ []<><<Restart>>_vars

(* A domain that is removed and not added again is left alone in the end:  *)
(* the run that still had it in its snapshot is the last one to order it.  *)
RemovedLeftAlone ==
  \A d \in Domains :
    <>[]~Listed(d) => <>[]~(w.pc = "order" /\ w.domain = d)
=============================================================================
