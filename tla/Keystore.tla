------------------------------ MODULE Keystore ------------------------------
(* The keystore of go-acme-store: the managed-domain list, one certificate *)
(* record per domain, and the three backends that implement the Keystore   *)
(* interface of pkg/keystore/keystore.go.                                  *)
(*                                                                         *)
(* The backends differ in what is atomic, which is all that matters here:  *)
(*   memory      every operation holds the lock from start to end;         *)
(*   filesystem  the list is read and written under one lock, then the     *)
(*               lock is released to read and again to write the record;   *)
(*   vault       no lock: every request to the server is a step.           *)
(* Each action below is what a goroutine does between two points where     *)
(* another goroutine (or, with Vault, another instance) can run.           *)

EXTENDS Naturals

CONSTANTS
  Domains,    \* the domain names
  SanLists,   \* the sets of subject alternative names that requests give
  Callers,    \* the goroutines that call the keystore
  Backend,    \* "memory", "filesystem" or "vault"
  ListFile,   \* the file, or Vault secret, that holds the list
  Records,    \* the records that callers store
  MaxFaults   \* bound: how many requests or file operations fail

VARIABLES
  md,       \* the stored list, a set of entries [domain, sans]
  certs,    \* certs[d]: the stored record of d, Zero when there is none
  torn,     \* files whose last write stopped half-way: they do not parse
  faults,   \* how many operations have failed so far
  call      \* call[p]: the Add or Remove that p is executing

keystoreVars == <<md, certs, torn, faults, call>>

-----------------------------------------------------------------------------
(* A record: "named" is CommonName # "", and pem stands for the leaf, the  *)
(* chain and the private key, which are always written together: none,     *)
(* inside the renewal window, or with more than 21 days left.              *)

(* A set of names, which is all that the order of a list and its repeated  *)
(* names come to: the CA puts every name of an order once in the SANs.     *)
Names == Domains \cup UNION SanLists
Sans == SUBSET Names
NoSans == {}

CertAndKey ==
  [ named   : BOOLEAN,
    managed : BOOLEAN,
    status  : {"", "pending", "issued", "failed"},
    pem     : {"none", "due", "fresh"},
    sans    : Sans ]

Zero == [ named |-> FALSE, managed |-> FALSE, status |-> "",
          pem |-> "none", sans |-> NoSans ]

(* Two mistakes in the status of a placeholder, and the placeholder. *)
PlaceholderIssued(s) == [ named |-> TRUE, managed |-> TRUE, status |-> "issued",
                          pem |-> "none", sans |-> s ]
PlaceholderRequested(s) == [ named |-> TRUE, managed |-> TRUE,
                             status |-> "requested", pem |-> "none", sans |-> s ]
Placeholder(s) == [ named |-> TRUE, managed |-> TRUE, status |-> "pending",
                    pem |-> "none", sans |-> s ]

(* What an order for d with the SANs s gives: its SANs are those of the    *)
(* certificate, d among them.                                              *)
NewCertAndKey(d, s) == [ named |-> TRUE, managed |-> TRUE, status |-> "issued",
                         pem |-> "fresh", sans |-> s \cup {d} ]

(* The list is a set of entries: an entry is appended only to a list       *)
(* without its domain, the very list that is then written back.            *)
Entry == [domain : Domains, sans : Sans]
EntryFor(d, s) == [domain |-> d, sans |-> s]
DomainsOf(l) == {e.domain : e \in l}

Files == Domains \cup {ListFile}

ASSUME BackendAssumption == Backend \in {"memory", "filesystem", "vault"}
ASSUME RecordsAssumption == Records \subseteq CertAndKey
ASSUME ListFileAssumption == ListFile \notin Domains
ASSUME FaultsAssumption == MaxFaults \in Nat

(* GetManagedDomains, when the read succeeds. *)
Managed == DomainsOf(md)
Listed(d) == d \in Managed

-----------------------------------------------------------------------------
(* Reads and writes that fail. *)

Fault ==
  /\ Backend # "memory"
  /\ faults < MaxFaults
  /\ faults' = faults + 1

NoFault == UNCHANGED faults

ReadOk(f) == f \notin torn /\ NoFault
ReadFails(f) == (f \in torn /\ NoFault) \/ Fault

(* storeManagedDomains.  The mistake: it is not called. *)
WriteListForgotten(l) == UNCHANGED <<md, torn, faults>>
WriteList(l) ==
  /\ md' = l
  /\ torn' = torn \ {ListFile}
  /\ NoFault

(* A Vault request that fails may have been applied with its answer lost;  *)
(* os.WriteFile truncates before it writes and may leave a torn file.      *)
WriteListFails(l) ==
  /\ Fault
  /\ \/ UNCHANGED <<md, torn>>
     \/ Backend = "vault" /\ md' = l /\ UNCHANGED torn
     \/ Backend = "filesystem" /\ torn' = torn \cup {ListFile} /\ UNCHANGED md

StoreCertAndKey(d, c) ==
  /\ certs' = [certs EXCEPT ![d] = c]
  /\ torn' = torn \ {d}
  /\ NoFault

StoreFails(d, c) ==
  /\ Fault
  /\ \/ UNCHANGED <<certs, torn>>
     \/ Backend = "vault" /\ certs' = [certs EXCEPT ![d] = c] /\ UNCHANGED torn
     \/ Backend = "filesystem" /\ torn' = torn \cup {d} /\ UNCHANGED certs

DeleteCertAndKey(d) == StoreCertAndKey(d, Zero)

DeleteFails(d) ==
  /\ Fault
  /\ UNCHANGED torn
  /\ \/ UNCHANGED certs
     \/ Backend = "vault" /\ certs' = [certs EXCEPT ![d] = Zero]

-----------------------------------------------------------------------------
(* Calls of AddManagedDomainWithSANs and RemoveManagedDomain.  pc is the   *)
(* next step of the call; list and cert are its local variables.           *)

Pcs == {"idle", "add", "addWrite", "addGet", "addStore",
        "remove", "removeWrite", "done"}

Call == [ pc : Pcs, op : {"", "add", "remove"}, domain : Domains,
          sans : Sans, list : SUBSET Entry, cert : CertAndKey,
          ok : BOOLEAN ]

AnyDomain == CHOOSE d \in Domains : TRUE
ASSUME DomainsAssumption == Domains # {}

NoCall == [ pc |-> "idle", op |-> "", domain |-> AnyDomain, sans |-> NoSans,
            list |-> {}, cert |-> Zero, ok |-> FALSE ]

Begin(p, k, d, s) ==
  /\ call[p].pc = "idle"
  /\ call' = [call EXCEPT ![p] = [NoCall EXCEPT !.pc = k, !.op = k,
                                                !.domain = d, !.sans = s]]

BeginAdd(p, d, s) == Begin(p, "add", d, s)
BeginRemove(p, d) == Begin(p, "remove", d, NoSans)

At(p, b, k) == Backend = b /\ call[p].pc = k

Goto(p, k) == call' = [call EXCEPT ![p].pc = k]

GotoWith(p, k, l, c) ==
  call' = [call EXCEPT ![p].pc = k, ![p].list = l, ![p].cert = c]

Finish(p, ok) ==
  call' = [call EXCEPT ![p].pc = "done", ![p].list = {}, ![p].cert = Zero,
                       ![p].ok = ok]

Succeed(p) == Finish(p, TRUE)
Refuse(p) == Finish(p, FALSE)

(* The list with the call's domain appended, and with it taken out.  The   *)
(* mistake: the loop does not skip the domain.                             *)
Appended(p, l) == l \cup {EntryFor(call[p].domain, call[p].sans)}
WithoutNothing(d, l) == l
Without(d, l) == {e \in l : e.domain # d}

-----------------------------------------------------------------------------
(* Vault: read the list, later write it back, with nothing held between. *)

(* The mistake: no check for a duplicate. *)
AddToUnchecked(p, l) == GotoWith(p, "addWrite", Appended(p, l), Zero)
AddTo(p, l) ==
  IF call[p].domain \in DomainsOf(l)
    THEN Refuse(p)
    ELSE GotoWith(p, "addWrite", Appended(p, l), Zero)

(* A read that fails is taken for a list that does not exist yet. *)
VaultAddRead(p) ==
  /\ At(p, "vault", "add")
  /\ \/ ReadOk(ListFile) /\ AddTo(p, md)
     \/ ReadFails(ListFile) /\ AddTo(p, {})
  /\ UNCHANGED <<md, certs, torn>>

VaultAddWrite(p) ==
  /\ At(p, "vault", "addWrite")
  /\ \/ WriteList(call[p].list) /\ Goto(p, "addGet")
     \/ WriteListFails(call[p].list) /\ Refuse(p)
  /\ UNCHANGED certs

RemoveFrom(p, l) ==
  IF call[p].domain \in DomainsOf(l)
    THEN GotoWith(p, "removeWrite", Without(call[p].domain, l), Zero)
    ELSE Refuse(p)

VaultRemoveRead(p) ==
  /\ At(p, "vault", "remove")
  /\ \/ ReadOk(ListFile) /\ RemoveFrom(p, md)
     \/ ReadFails(ListFile) /\ Refuse(p)
  /\ UNCHANGED <<md, certs, torn>>

VaultRemoveWrite(p) ==
  /\ At(p, "vault", "removeWrite")
  /\ \/ WriteList(call[p].list) /\ Succeed(p)
     \/ WriteListFails(call[p].list) /\ Refuse(p)
  /\ UNCHANGED certs

-----------------------------------------------------------------------------
(* Filesystem: the list is read, changed and written under the lock. *)

FileAddList(p) ==
  LET l == Appended(p, md) IN
  /\ At(p, "filesystem", "add")
  /\ \/ ReadFails(ListFile) /\ Refuse(p) /\ UNCHANGED <<md, torn>>
     \/ /\ ListFile \notin torn /\ Listed(call[p].domain)
        /\ Refuse(p) /\ NoFault /\ UNCHANGED <<md, torn>>
     \/ /\ ListFile \notin torn /\ ~Listed(call[p].domain)
        /\ \/ WriteList(l) /\ Goto(p, "addGet")
           \/ WriteListFails(l) /\ Refuse(p)
  /\ UNCHANGED certs

FileRemove(p) ==
  LET l == Without(call[p].domain, md) IN
  /\ At(p, "filesystem", "remove")
  /\ \/ ReadFails(ListFile) /\ Refuse(p) /\ UNCHANGED <<md, torn>>
     \/ /\ ListFile \notin torn /\ ~Listed(call[p].domain)
        /\ Refuse(p) /\ NoFault /\ UNCHANGED <<md, torn>>
     \/ /\ ListFile \notin torn /\ Listed(call[p].domain)
        /\ \/ WriteList(l) /\ Succeed(p)
           \/ WriteListFails(l) /\ Refuse(p)
  /\ UNCHANGED certs

-----------------------------------------------------------------------------
(* Filesystem and Vault, once the list is written: take the record under   *)
(* management again, or put a pending placeholder where there is no record *)
(* or the record could not be read.  The outcome of the store is logged    *)
(* and otherwise ignored.                                                  *)

(* Mistakes: no placeholder at all, or one over an unmanaged record. *)
NoPlaceholderNeeded(c) == FALSE
PlaceholderForUnmanaged(c) == ~c.named \/ ~c.managed
NeedsPlaceholder(c) == ~c.named

(* The mistake: the flag is not set. *)
AdoptedNot(c) == c
Adopted(c) == [c EXCEPT !.managed = TRUE]

AddGet(p) ==
  LET d == call[p].domain
      Put(c) == GotoWith(p, "addStore", {}, c)
  IN
  /\ call[p].pc = "addGet"
  /\ \/ /\ NeedsPlaceholder(certs[d]) /\ ReadOk(d)
        /\ Put(Placeholder(call[p].sans))
     \/ ReadFails(d) /\ Put(Placeholder(call[p].sans))
     \/ /\ ~NeedsPlaceholder(certs[d]) /\ ~certs[d].managed /\ ReadOk(d)
        /\ Put(Adopted(certs[d]))
     \/ /\ ~NeedsPlaceholder(certs[d]) /\ certs[d].managed /\ ReadOk(d)
        /\ Succeed(p)
  /\ UNCHANGED <<md, certs, torn>>

AddStore(p) ==
  /\ call[p].pc = "addStore"
  /\ \/ StoreCertAndKey(call[p].domain, call[p].cert)
     \/ StoreFails(call[p].domain, call[p].cert)
  /\ Succeed(p)
  /\ UNCHANGED md

-----------------------------------------------------------------------------
(* Memory: one step each.  There is no placeholder, the names are stored   *)
(* without their SANs, and the record need not have a CommonName to be     *)
(* taken under management.                                                 *)

TakenOver(c) == [c EXCEPT !.managed = TRUE]

MemoryAdd(p) ==
  LET d == call[p].domain IN
  /\ At(p, "memory", "add")
  /\ IF Listed(d)
       THEN Refuse(p) /\ UNCHANGED <<md, certs>>
       ELSE /\ md' = md \cup {EntryFor(d, NoSans)}
            /\ certs' = IF certs[d] = Zero THEN certs
                        ELSE [certs EXCEPT ![d] = TakenOver(@)]
            /\ Succeed(p)
  /\ UNCHANGED <<torn, faults>>

MemoryRemove(p) ==
  LET d == call[p].domain IN
  /\ At(p, "memory", "remove")
  /\ IF Listed(d)
       THEN md' = Without(d, md) /\ Succeed(p)
       ELSE Refuse(p) /\ UNCHANGED md
  /\ UNCHANGED <<certs, torn, faults>>

-----------------------------------------------------------------------------
AddStep(p) ==
  \/ VaultAddRead(p)
  \/ VaultAddWrite(p)
  \/ FileAddList(p)
  \/ AddGet(p)
  \/ AddStore(p)
  \/ MemoryAdd(p)

RemoveStep(p) ==
  \/ VaultRemoveRead(p)
  \/ VaultRemoveWrite(p)
  \/ FileRemove(p)
  \/ MemoryRemove(p)

CallStep(p) == AddStep(p) \/ RemoveStep(p)

Answered(p) == call' = [call EXCEPT ![p] = NoCall]

-----------------------------------------------------------------------------
(* The keystore on its own: any caller, any call. *)

KeystoreInit ==
  /\ md = {}
  /\ certs = [d \in Domains |-> Zero]
  /\ torn = {}
  /\ faults = 0
  /\ call = [p \in Callers |-> NoCall]

CallAdd(p) ==
  /\ \E d \in Domains, s \in SanLists : BeginAdd(p, d, s)
  /\ UNCHANGED <<md, certs, torn, faults>>

CallRemove(p) ==
  /\ \E d \in Domains : BeginRemove(p, d)
  /\ UNCHANGED <<md, certs, torn, faults>>

(* A call under way takes its next step. *)
Proceed(p) == call[p].pc # "idle" /\ CallStep(p)

Return(p) ==
  /\ call[p].pc = "done"
  /\ Answered(p)
  /\ UNCHANGED <<md, certs, torn, faults>>

(* Store and Delete are one step each in every backend. *)
StoreRecord ==
  /\ \E d \in Domains, c \in Records :
       StoreCertAndKey(d, c) \/ StoreFails(d, c)
  /\ UNCHANGED <<md, call>>

DeleteRecord ==
  /\ \E d \in Domains : DeleteCertAndKey(d) \/ DeleteFails(d)
  /\ UNCHANGED <<md, call>>

(* The process dies; only the memory backend loses what it stored. *)
Crash ==
  /\ call' = [p \in Callers |-> NoCall]
  /\ IF Backend = "memory"
       THEN md' = {} /\ certs' = [d \in Domains |-> Zero]
       ELSE UNCHANGED <<md, certs>>
  /\ UNCHANGED <<torn, faults>>

KeystoreNext ==
  \/ \E p \in Callers : CallAdd(p) \/ CallRemove(p) \/ Proceed(p) \/ Return(p)
  \/ StoreRecord
  \/ DeleteRecord
  \/ Crash

KeystoreSpec == KeystoreInit /\ [][KeystoreNext]_keystoreVars

-----------------------------------------------------------------------------
KeystoreTypeOK ==
  /\ md \subseteq Entry
  /\ certs \in [Domains -> CertAndKey]
  /\ torn \subseteq Files
  /\ faults \in 0..MaxFaults
  /\ call \in [Callers -> Call]

(* No list, stored or about to be stored, names a domain twice: a domain   *)
(* has one entry, hence one set of SANs, and one removal removes it.       *)
OncePerDomain(l) == \A e, f \in l : e.domain = f.domain => e = f

NoDuplicates ==
  /\ OncePerDomain(md)
  /\ \A p \in Callers : OncePerDomain(call[p].list)

(* A domain leaves the list only by a removal of that very domain: no call *)
(* for another domain, and no failed request, ends the management of a     *)
(* domain.  (A crash empties the list of the memory backend.)              *)
OnlyItsRemovalUnlists ==
  [][\A d \in Domains : Listed(d) /\ d \notin DomainsOf(md') =>
       \/ Crash
       \/ \E p \in Callers : call[p].op = "remove" /\ call[p].domain = d]_md

-----------------------------------------------------------------------------
(* Where each call stands, as its callers see it. *)

Stage(c) ==
  IF c.pc \in {"addGet", "addStore"} THEN "accepted"
  ELSE IF c.pc # "done" THEN "called"
  ELSE IF c.ok THEN "accepted" ELSE "refused"

OpOf(c) ==
  IF c.pc = "idle" THEN [state |-> "idle"]
  ELSE [state |-> Stage(c), kind |-> c.op, domain |-> c.domain]

Promise == INSTANCE ManagedDomains WITH
  members <- Managed,
  op      <- [p \in Callers |-> OpOf(call[p])],
  MayFail <- MaxFaults > 0,
  Durable <- Backend # "memory"

(* The backend keeps the promise of ManagedDomains. *)
KeepsPromise == Promise!Spec
=============================================================================
