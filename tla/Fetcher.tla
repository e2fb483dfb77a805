------------------------------- MODULE Fetcher -------------------------------
(* acme-store-fetcher (cmd/acme-store-fetcher/main.go): a program on       *)
(* another host that copies certificates and keys from the API to files,   *)
(* and writes a Traefik configuration that names the files.  It makes one  *)
(* pass after another.  A pass asks for the domains, then for all          *)
(* certificates, then, domain by domain, for the key, if the one on disk   *)
(* does not fit.  The store changes meanwhile, requests and writes fail,   *)
(* and the process may stop anywhere.                                      *)

EXTENDS Naturals

CONSTANTS
  Domains,     \* the domain names
  MaxVersion,  \* bound: how many certificates may be issued
  IssuedFor,   \* IssuedFor[n]: the domain that certificate n is ordered for
  CommonName,  \* CommonName[n]: the name under which the API lists it
  MaxChanges,  \* bound: how often the store changes
  MaxFaults    \* bound: how many requests, file operations, processes fail

VARIABLES
  store,    \* store[d]: what the API says of d
  cert,     \* cert[d]: the content of d's certificate file
  key,      \* key[d]: the content of d's key file
  traefik,  \* the domains that the Traefik configuration names
  f,        \* the pass: its local variables
  changes,  \* how often the store has changed so far
  faults    \* how many operations have failed so far

vars == <<store, cert, key, traefik, f, changes, faults>>
files == <<cert, key, traefik>>

ASSUME DomainsAssumption == Domains # {}
ASSUME VersionsAssumption ==
  /\ MaxVersion \in Nat
  /\ IssuedFor \in [1..MaxVersion -> Domains]
  /\ CommonName \in [1..MaxVersion -> Domains]
ASSUME BoundsAssumption == MaxChanges \in Nat /\ MaxFaults \in Nat

-----------------------------------------------------------------------------
(* The API.  Certificates and keys are numbered as they are issued, and    *)
(* certificate n fits key n alone.  Its common name is the CA's choice, or *)
(* the first of its names if the CA gives it none, and need not be the     *)
(* domain.  A record is absent, pending (with no certificate and an empty  *)
(* key, under the domain's own name), withheld (failed or unmanaged, with  *)
(* the certificate it had), or offered.                                    *)

Record == [ listed  : BOOLEAN,
            state   : {"absent", "pending", "withheld", "offered"},
            version : 0..MaxVersion ]

Issues(d) == {n \in 1..MaxVersion : IssuedFor[n] = d}

(* What the fetcher may find when it is first started. *)
FirstRecords(d) ==
  {r \in Record : IF r.state \in {"absent", "pending"} THEN r.version = 0
                  ELSE r.version \in Issues(d)}

Present(d) == store[d].state # "absent"
Name(d) ==
  IF store[d].state = "pending" THEN d ELSE CommonName[store[d].version]
Offered(d) == store[d].listed /\ store[d].state = "offered"

(* A file holds certificate or key n, or nothing usable, or is missing. *)
Unusable == 0
Missing == MaxVersion + 1
Contents == 0..Missing

(* An entry of certInfoMap: the certificate that a pass takes, nothing to  *)
(* take (unmanaged, not issued, or empty), or no entry.                    *)
Info(r) == IF r.state = "offered" THEN r.version ELSE Unusable

(* getPrivateKey, of a record that is there. *)
KeyServed(r) == IF r.state = "pending" THEN Unusable ELSE r.version

-----------------------------------------------------------------------------
(* The store changes under the fetcher: what the handlers and the daemon   *)
(* of acme-store may make of a record, and of the list.  A pass notices    *)
(* nothing; the keys that the API has for d since the pass read d's record *)
(* are noted for the properties alone.                                     *)

Serves(r) == IF r.state = "absent" THEN {} ELSE {KeyServed(r)}

Becomes(d, r) ==
  /\ changes < MaxChanges /\ changes' = changes + 1
  /\ store' = [store EXCEPT ![d] = r]
  /\ f' = IF f.pc # "idle" /\ d \notin f.unread
            THEN [f EXCEPT !.served[d] = @ \cup Serves(r)] ELSE f
  /\ UNCHANGED <<files, faults>>

(* The daemon stores a new certificate, or a request an older one over it. *)
Replace(d) ==
  \E n \in Issues(d) \ {store[d].version} :
    Becomes(d, [store[d] EXCEPT !.state = "offered", !.version = n])

Withhold(d) ==
  /\ store[d].state = "offered"
  /\ Becomes(d, [store[d] EXCEPT !.state = "withheld"])

TakeOver(d) ==
  /\ store[d].state = "withheld"
  /\ Becomes(d, [store[d] EXCEPT !.state = "offered"])

Request(d) ==
  /\ store[d].state = "absent"
  /\ Becomes(d, [store[d] EXCEPT !.state = "pending"])

Delete(d) ==
  /\ store[d].state # "absent"
  /\ Becomes(d, [store[d] EXCEPT !.state = "absent"])

ListOrUnlist(d) == Becomes(d, [store[d] EXCEPT !.listed = ~@])

StoreChange ==
  \E d \in Domains :
    \/ Replace(d)
    \/ Withhold(d)
    \/ TakeOver(d)
    \/ Request(d)
    \/ Delete(d)
    \/ ListOrUnlist(d)

-----------------------------------------------------------------------------
(* performFetch *)

Pass == [ pc : {"idle", "certs", "next", "key", "cert", "keyFile", "remove",
                "traefik"},
          domains : SUBSET Domains,      \* managedDomains
          unread : SUBSET Domains,       \* records handlerCerts has to read
          todo : SUBSET Domains,         \* domains still to process
          info : [Domains -> Contents],  \* certInfoMap
          domain : Domains,
          newKey : 0..MaxVersion,        \* privateKey
          saved : BOOLEAN,               \* successCount > 0
          errors : BOOLEAN,              \* errorCount > 0
          served : [Domains -> SUBSET (0..MaxVersion)] ]  \* see Becomes

NoPass == [ pc |-> "idle", domains |-> {}, unread |-> {}, todo |-> {},
            info |-> [d \in Domains |-> Missing],
            domain |-> CHOOSE d \in Domains : TRUE,
            newKey |-> 0, saved |-> FALSE, errors |-> FALSE,
            served |-> [d \in Domains |-> {}] ]

Init ==
  /\ store \in [Domains -> Record]
  /\ \A d \in Domains : store[d] \in FirstRecords(d)
  /\ cert = [d \in Domains |-> Missing]
  /\ key = [d \in Domains |-> Missing]
  /\ traefik = {}
  /\ f = NoPass
  /\ changes = 0
  /\ faults = 0

Fault == faults < MaxFaults /\ faults' = faults + 1
NoFault == UNCHANGED faults

EndsPass == f' = NoPass

(* getManagedDomains; without a domain there is nothing to do. *)
StartPass ==
  LET listed == {d \in Domains : store[d].listed} IN
  /\ f.pc = "idle"
  /\ \/ NoFault /\ listed = {} /\ UNCHANGED f
     \/ /\ NoFault /\ listed # {}
        /\ f' = [NoPass EXCEPT !.pc = "certs", !.domains = listed,
                               !.unread = Domains]
     \/ Fault /\ UNCHANGED f
  /\ UNCHANGED <<store, files, changes>>

(* What a pass works through.  The mistake: every record, listed or not. *)
EveryRecord(l) == Domains
ToProcess(l) == l

(* getAllCerts: the API reads one record after the other, and leaves out   *)
(* one that it cannot read.  The map takes a record under the name of its  *)
(* certificate, in place of what it holds under that name.                  *)
ReadRecord(d) ==
  /\ f.pc = "certs" /\ d \in f.unread
  /\ LET Read == [f EXCEPT !.unread = @ \ {d},
                           !.served[d] = @ \cup Serves(store[d])]
         Found == [Read EXCEPT !.info[Name(d)] = Info(store[d])]
     IN \/ NoFault /\ f' = IF Present(d) THEN Found ELSE Read
        \/ Fault /\ f' = Read
  /\ UNCHANGED <<store, files, changes>>

GetCerts ==
  /\ f.pc = "certs"
  /\ \/ /\ NoFault /\ f.unread = {}
        /\ f' = [f EXCEPT !.pc = "next", !.todo = ToProcess(f.domains)]
     \/ Fault /\ EndsPass
  /\ UNCHANGED <<store, files, changes>>

(* Done with a domain: on to the next one, after an error too. *)
DoneWith(d) == [f EXCEPT !.pc = "next", !.todo = @ \ {d}, !.newKey = 0]
Skip(d) == f' = DoneWith(d)
Saved(d) == f' = [DoneWith(d) EXCEPT !.saved = TRUE]
Failed(d) == f' = [DoneWith(d) EXCEPT !.errors = TRUE]

(* needsCertificateUpdate, for key k.  The mistake: the certificate alone. *)
CertDiffers(d, k) == cert[d] # f.info[d]
NeedsUpdate(d, k) == cert[d] # f.info[d] \/ key[d] # k \/ k # f.info[d]

(* A file that cannot be read is written again. *)
Compare(d, k) ==
  LET Write == f' = [f EXCEPT !.pc = "cert", !.domain = d, !.newKey = k] IN
  \/ NoFault /\ NeedsUpdate(d, k) /\ Write
  \/ NoFault /\ ~NeedsUpdate(d, k) /\ Skip(d)
  \/ Fault /\ Write

(* verifyKeyPairMatch, of the key on disk.  The mistake: any key will do. *)
AnyKey(d) == key[d] \in 1..MaxVersion
KeyFits(d) == key[d] = f.info[d]

ProcessDomain(d) ==
  LET FetchIt == f' = [f EXCEPT !.pc = "key", !.domain = d] IN
  /\ f.pc = "next" /\ d \in f.todo
  /\ \/ f.info[d] = Missing /\ NoFault /\ Failed(d)
     \/ f.info[d] = Unusable /\ NoFault /\ Skip(d)
     \/ /\ f.info[d] \in 1..MaxVersion
        /\ \/ KeyFits(d) /\ Compare(d, key[d])
           \/ ~KeyFits(d) /\ NoFault /\ FetchIt
           \/ Fault /\ FetchIt
  /\ UNCHANGED <<store, files, changes>>

(* getPrivateKey: the key as it is now, which may be another one than the  *)
(* certificates were read with.                                            *)
FetchKey ==
  LET d == f.domain IN
  /\ f.pc = "key"
  /\ \/ Present(d) /\ Compare(d, KeyServed(store[d]))
     \/ ~Present(d) /\ NoFault /\ Failed(d)
     \/ Fault /\ Failed(d)
  /\ UNCHANGED <<store, files, changes>>

(* os.WriteFile truncates first: a write that fails may leave a torn file. *)
WriteCert ==
  LET d == f.domain IN
  /\ f.pc = "cert"
  /\ \/ /\ NoFault
        /\ cert' = [cert EXCEPT ![d] = f.info[d]]
        /\ f' = [f EXCEPT !.pc = "keyFile"]
     \/ /\ Fault /\ Failed(d)
        /\ \E c \in {cert[d], Unusable} : cert' = [cert EXCEPT ![d] = c]
  /\ UNCHANGED <<store, key, traefik, changes>>

WriteKey ==
  LET d == f.domain IN
  /\ f.pc = "keyFile"
  /\ \/ /\ NoFault /\ Saved(d)
        /\ key' = [key EXCEPT ![d] = f.newKey]
     \/ /\ Fault
        /\ f' = [f EXCEPT !.pc = "remove"]
        /\ \E k \in {key[d], Unusable} : key' = [key EXCEPT ![d] = k]
  /\ UNCHANGED <<store, cert, traefik, changes>>

RemoveCert ==
  LET d == f.domain IN
  /\ f.pc = "remove"
  /\ \/ NoFault /\ cert' = [cert EXCEPT ![d] = Missing]
     \/ Fault /\ UNCHANGED cert
  /\ Failed(d)
  /\ UNCHANGED <<store, key, traefik, changes>>

(* The configuration is written only after a pass that saved something. *)
EndPass ==
  /\ f.pc = "next" /\ f.todo = {}
  /\ IF f.saved THEN f' = [f EXCEPT !.pc = "traefik"] ELSE EndsPass
  /\ UNCHANGED <<store, files, changes, faults>>

(* generateTraefikConfig *)
WriteTraefik ==
  /\ f.pc = "traefik"
  /\ \/ /\ NoFault
        /\ traefik' = {d \in f.domains : f.info[d] \in 1..MaxVersion}
     \/ Fault /\ traefik' \in {traefik, {}}
  /\ EndsPass
  /\ UNCHANGED <<store, cert, key, changes>>

FetcherStep ==
  \/ StartPass
  \/ \E d \in Domains : ReadRecord(d) \/ ProcessDomain(d)
  \/ GetCerts
  \/ FetchKey
  \/ WriteCert
  \/ WriteKey
  \/ RemoveCert
  \/ EndPass
  \/ WriteTraefik

(* The process stops, and is started again. *)
Stop ==
  /\ f.pc # "idle"
  /\ Fault /\ EndsPass
  /\ UNCHANGED <<store, files, changes>>

Next == StoreChange \/ FetcherStep \/ Stop

Spec == Init /\ [][Next]_vars

(* runDaemon makes a pass at every tick, and each request has a timeout.   *)
FairSpec == Spec /\ WF_vars(FetcherStep)

-----------------------------------------------------------------------------
(* The pass works through the managed domains, and what it is about to     *)
(* write is a certificate that it was offered for one of them.             *)
TypeOK ==
  /\ store \in [Domains -> Record]
  /\ cert \in [Domains -> Contents]
  /\ key \in [Domains -> Contents]
  /\ traefik \subseteq Domains
  /\ f \in Pass
  /\ f.todo \subseteq f.domains /\ (f.pc # "certs" => f.unread = {})
  /\ f.pc \in {"key", "cert", "keyFile", "remove"} =>
       f.domain \in f.todo /\ f.info[f.domain] \in 1..MaxVersion
  /\ changes \in 0..MaxChanges /\ faults \in 0..MaxFaults

(* A pass that ends without an error, which the exit code 0 reports, has   *)
(* put on disk whatever certificate it found under a managed domain's      *)
(* name, and next to it a key that the API had for that domain since the   *)
(* pass read its record: never one that an earlier pass has left.  (That   *)
(* the two fit is more than the code provides.)                            *)
SuccessTells ==
  [][EndPass /\ ~f.errors =>
       \A d \in f.domains : f.info[d] \in 1..MaxVersion =>
         cert[d] = f.info[d] /\ key[d] \in f.served[d]]_vars

(* The record of d is listed under d's own name, and no other one is. *)
FoundByName(d) == \A e \in Domains : Present(e) => (Name(e) = d <=> e = d)

(* Whatever failed, and whatever was read while it changed: once the store *)
(* keeps offering one certificate, under the domain's name and no other    *)
(* under it, the certificate and its key get to the disk and stay.         *)
Arrives ==
  \A d \in Domains, n \in 1..MaxVersion :
    <>[](Offered(d) /\ FoundByName(d) /\ store[d].version = n)
      => <>[](cert[d] = n /\ key[d] = n)

(* Once the store keeps offering a certificate under the domain's name,    *)
(* the Traefik configuration names it.                                     *)
TraefikNamesOffered ==
  \A d \in Domains : <>[](Offered(d) /\ FoundByName(d)) => <>[](d \in traefik)
=============================================================================
