------------------------------ MODULE Handlers ------------------------------
(* The request handlers of cmd/acme-store/httpserver.go that change the    *)
(* keystore.  Each request runs in a goroutine of its own, and calls the   *)
(* keystore several times with nothing held in between: what a handler     *)
(* read is in req[h].cert while other handlers and the daemon run.         *)

EXTENDS Keystore

CONSTANT Ops   \* the requests that clients send

VARIABLE req   \* req[h]: the request that goroutine h serves

AllOps == {"add", "softRemove", "hardRemove", "deleteCert"}

ASSUME OpsAssumption == Ops \subseteq AllOps

Requests == [ op : AllOps \cup {""}, domain : Domains, cert : CertAndKey,
              pc : {"idle", "calling", "unmanage", "delGet", "delDelete"} ]

NoRequest == [ op |-> "", domain |-> AnyDomain, cert |-> Zero, pc |-> "idle" ]

HandlersInit == req = [h \in Callers |-> NoRequest]

Serve(h, o, d, k) ==
  /\ req[h].pc = "idle"
  /\ req' = [req EXCEPT ![h] = [NoRequest EXCEPT !.op = o, !.domain = d,
                                                 !.pc = k]]
  /\ UNCHANGED <<md, certs, torn, faults>>

Respond(h) == req' = [req EXCEPT ![h] = NoRequest]

(* The keystore call of the handler has returned. *)
CallReturned(h, ops) ==
  /\ req[h].pc = "calling" /\ req[h].op \in ops
  /\ call[h].pc = "done"

-----------------------------------------------------------------------------
(* POST /domains *)

AddDomain(h) ==
  \E d \in Domains, s \in SanLists :
    Serve(h, "add", d, "calling") /\ BeginAdd(h, d, s)

AddDomainReply(h) ==
  /\ CallReturned(h, {"add"})
  /\ Answered(h) /\ Respond(h)
  /\ UNCHANGED <<md, certs, torn, faults>>

-----------------------------------------------------------------------------
(* DELETE /domains/:domain, with or without delete_cert=true *)

RemoveDomain(h) ==
  \E d \in Domains, o \in {"softRemove", "hardRemove"} \cap Ops :
    Serve(h, o, d, "calling") /\ BeginRemove(h, d)

(* The record is deleted even when the domain was not in the list. *)
HardDelete(h) ==
  /\ CallReturned(h, {"hardRemove"})
  /\ DeleteCertAndKey(req[h].domain) \/ DeleteFails(req[h].domain)
  /\ Answered(h) /\ Respond(h)
  /\ UNCHANGED md

SoftRefused(h) ==
  /\ CallReturned(h, {"softRemove"}) /\ ~call[h].ok
  /\ Answered(h) /\ Respond(h)
  /\ UNCHANGED <<md, certs, torn, faults>>

Unmanaged(c) == [c EXCEPT !.managed = FALSE]

(* The record is read; a missing or unreadable one is left as it is. *)
SoftGet(h) ==
  LET d == req[h].domain IN
  /\ CallReturned(h, {"softRemove"}) /\ call[h].ok
  /\ \/ /\ ReadOk(d) /\ certs[d].named
        /\ req' = [req EXCEPT ![h].pc = "unmanage",
                              ![h].cert = Unmanaged(certs[d])]
     \/ ReadOk(d) /\ ~certs[d].named /\ Respond(h)
     \/ ReadFails(d) /\ Respond(h)
  /\ Answered(h)
  /\ UNCHANGED <<md, certs, torn>>

SoftStore(h) ==
  /\ req[h].pc = "unmanage"
  /\ \/ StoreCertAndKey(req[h].domain, req[h].cert)
     \/ StoreFails(req[h].domain, req[h].cert)
  /\ Respond(h)
  /\ UNCHANGED <<md, call>>

-----------------------------------------------------------------------------
(* DELETE /certs/:domain *)

DeleteCert(h) ==
  /\ \E d \in Domains : Serve(h, "deleteCert", d, "delGet")
  /\ UNCHANGED call

Deletable(c) == ~c.managed

(* An absent record is read as Zero, which is not managed. *)
DeleteCertCheck(h) ==
  LET d == req[h].domain IN
  /\ req[h].pc = "delGet"
  /\ \/ /\ ReadOk(d) /\ Deletable(certs[d])
        /\ req' = [req EXCEPT ![h].pc = "delDelete"]
     \/ ReadOk(d) /\ ~Deletable(certs[d]) /\ Respond(h)
     \/ ReadFails(d) /\ Respond(h)
  /\ UNCHANGED <<md, certs, torn, call>>

DeleteCertDelete(h) ==
  /\ req[h].pc = "delDelete"
  /\ DeleteCertAndKey(req[h].domain) \/ DeleteFails(req[h].domain)
  /\ Respond(h)
  /\ UNCHANGED <<md, call>>

-----------------------------------------------------------------------------
NewRequest(h) ==
  \/ "add" \in Ops /\ AddDomain(h)
  \/ RemoveDomain(h)
  \/ "deleteCert" \in Ops /\ DeleteCert(h)

KeystoreCall(h) == CallStep(h) /\ UNCHANGED req

HandlerStep(h) ==
  \/ KeystoreCall(h)
  \/ AddDomainReply(h)
  \/ HardDelete(h)
  \/ SoftRefused(h)
  \/ SoftGet(h)
  \/ SoftStore(h)
  \/ DeleteCertCheck(h)
  \/ DeleteCertDelete(h)

(* No request is being served. *)
NoRequests == \A h \in Callers : req[h].pc = "idle"

HandlersTypeOK == req \in [Callers -> Requests]
=============================================================================
