------------------------------ MODULE Transfer ------------------------------
(* Export and import of the keystore (handlerExportKeystore and            *)
(* handlerImportKeystore of cmd/acme-store/httpserver.go) beside the other *)
(* requests and the order daemon.  Both go through the store domain by     *)
(* domain and hold nothing in between.  The ACME account is read for the   *)
(* export and never written by the import.                                 *)

EXTENDS AcmeStore

CONSTANT RestoreOnly   \* TRUE: imports bring records of new domains only

ASSUME RestoreAssumption == RestoreOnly \in BOOLEAN

VARIABLES
  xfer,     \* xfer[h]: the export or import that goroutine h serves
  backup,   \* the file that the last complete export returned
  known,    \* Vault: domains whose secret has metadata, which a delete leaves
  spoiled   \* history: records that failures, told to nobody, may have cost

transferVars == <<vars, xfer, backup, known, spoiled>>

(* An export file: records of some domains, and the names in the list. *)
File == [ certs : UNION {[D -> CertAndKey] : D \in SUBSET Domains},
          list : SUBSET Domains ]

EmptyFile == [ certs |-> [d \in {} |-> Zero], list |-> {} ]

Transfers == [ pc : {"idle", "all", "list", "records", "certs", "domains", "adding",
                      "reply"},
               file : File, todo : SUBSET Domains, failed : BOOLEAN ]

NoTransfer == [ pc |-> "idle", file |-> EmptyFile, todo |-> {}, failed |-> FALSE ]

TransferInit ==
  /\ Init
  /\ xfer = [h \in Callers |-> NoTransfer]
  /\ backup = EmptyFile
  /\ known = {}
  /\ spoiled = {}

NoTransfers == \A h \in Callers : xfer[h].pc = "idle"

(* Requests keep their regime; the daemon may run beside a transfer. *)
MayTransfer(h) ==
  /\ xfer[h].pc = "idle" /\ req[h].pc = "idle"
  /\ Overlap \/ (NoRequests /\ NoTransfers)

TGoto(h, k) == xfer' = [xfer EXCEPT ![h].pc = k]
TEnd(h) == xfer' = [xfer EXCEPT ![h] = NoTransfer]

Known(S) == known' = known \cup S \cup {d \in Domains : certs'[d] # Zero}

-----------------------------------------------------------------------------
(* GET /keystore/export *)

(* GetAllDomains lists secrets by their metadata, or files. *)
AllDomains ==
  IF Backend = "vault" THEN known
  ELSE {d \in Domains : certs[d] # Zero \/ d \in torn}

(* The account is read first. *)
ExportAccount(h) ==
  /\ MayTransfer(h)
  /\ \/ NoFault /\ TGoto(h, "all")
     \/ Fault /\ UNCHANGED xfer
  /\ UNCHANGED <<md, certs, torn, call, req, w, backup, known>>

ExportAll(h) ==
  /\ xfer[h].pc = "all"
  /\ \/ NoFault /\ xfer' = [xfer EXCEPT ![h].pc = "list", ![h].todo = AllDomains]
     \/ Fault /\ TEnd(h)
  /\ UNCHANGED <<md, certs, torn, call, req, w, backup, known>>

ExportList(h) ==
  /\ xfer[h].pc = "list"
  /\ \/ /\ ReadOk(ListFile)
        /\ xfer' = [xfer EXCEPT ![h].pc = "records", ![h].file.list = Managed]
     \/ ReadFails(ListFile) /\ TEnd(h)
  /\ UNCHANGED <<md, certs, torn, call, req, w, backup, known>>

(* The records of a file with one more. *)
WithRecord(f, d, c) == [e \in DOMAIN f \cup {d} |-> IF e = d THEN c ELSE f[e]]

(* A record that cannot be read is left out of the file. *)
ExportRecord(h) ==
  /\ xfer[h].pc = "records"
  /\ \E d \in xfer[h].todo :
       \/ /\ ReadOk(d)
          /\ xfer' = [xfer EXCEPT ![h].todo = @ \ {d},
                                  ![h].file.certs = WithRecord(@, d, certs[d])]
       \/ ReadFails(d) /\ xfer' = [xfer EXCEPT ![h].todo = @ \ {d}]
  /\ UNCHANGED <<md, certs, torn, call, req, w, backup, known>>

ExportReply(h) ==
  /\ xfer[h].pc = "records" /\ xfer[h].todo = {}
  /\ backup' = xfer[h].file
  /\ TEnd(h)
  /\ UNCHANGED <<vars, known>>

-----------------------------------------------------------------------------
(* POST /keystore/import *)

(* The records of the file are for domains that the store does not have. *)
Restoring == \A d \in DOMAIN backup.certs : certs[d] = Zero /\ ~Listed(d)

(* An import stores the records, then adds the domains.  Mistakes: the     *)
(* other way round, and a return after the records.                        *)
DomainsFirst(k) == IF k = "idle" THEN "domains"
                   ELSE IF k = "domains" THEN "certs" ELSE "reply"
CertsOnly(k) == IF k = "idle" THEN "certs" ELSE "reply"
NextPhase(k) == IF k = "idle" THEN "certs"
                ELSE IF k = "certs" THEN "domains" ELSE "reply"

Enter(h, k, f, failed) ==
  xfer' = [xfer EXCEPT ![h] =
    [ pc |-> k, file |-> f, failed |-> failed,
      todo |-> IF k = "certs" THEN DOMAIN f.certs
               ELSE IF k = "domains" THEN f.list ELSE {} ]]

ImportStart(h) ==
  /\ MayTransfer(h)
  /\ backup # EmptyFile
  /\ RestoreOnly => Restoring
  /\ Enter(h, NextPhase("idle"), backup, FALSE)
  /\ UNCHANGED <<vars, backup, known>>

PhaseDone(h) ==
  /\ xfer[h].pc \in {"certs", "domains"} /\ xfer[h].todo = {}
  /\ Enter(h, NextPhase(xfer[h].pc), xfer[h].file, xfer[h].failed)
  /\ UNCHANGED <<vars, backup, known>>

(* A record that cannot be stored is counted, and the import goes on. *)
ImportCert(h) ==
  /\ xfer[h].pc = "certs"
  /\ \E d \in xfer[h].todo :
       LET c == xfer[h].file.certs[d] IN
       \/ /\ StoreCertAndKey(d, c)
          /\ xfer' = [xfer EXCEPT ![h].todo = @ \ {d}]
          /\ Known({d})
       \/ /\ StoreFails(d, c)
          /\ xfer' = [xfer EXCEPT ![h].todo = @ \ {d}, ![h].failed = TRUE]
          /\ \E S \in SUBSET {d} : Known(IF c = Zero THEN S ELSE {})
  /\ UNCHANGED <<md, call, req, w, backup>>

(* The SANs of a domain are taken from its record: the file has no others. *)
(* Of an issued record they are the names of the certificate, the domain   *)
(* itself among them; of a placeholder they are those of the request.      *)
SansInFile(f, d) == IF d \in DOMAIN f.certs THEN f.certs[d].sans ELSE NoSans

(* IsManagedDomain, and the call of AddManagedDomain(WithSANs). *)
ImportCheck(h) ==
  /\ xfer[h].pc = "domains"
  /\ \E d \in xfer[h].todo :
       \/ /\ ReadOk(ListFile) /\ Listed(d)
          /\ xfer' = [xfer EXCEPT ![h].todo = @ \ {d}]
          /\ UNCHANGED call
       \/ /\ ReadOk(ListFile) /\ ~Listed(d)
          /\ xfer' = [xfer EXCEPT ![h].pc = "adding", ![h].todo = @ \ {d}]
          /\ BeginAdd(h, d, SansInFile(xfer[h].file, d))
       \/ /\ ReadFails(ListFile)
          /\ xfer' = [xfer EXCEPT ![h].todo = @ \ {d}, ![h].failed = TRUE]
          /\ UNCHANGED call
  /\ UNCHANGED <<md, certs, torn, req, w, backup, known>>

ImportAdding(h) ==
  /\ xfer[h].pc = "adding"
  /\ CallStep(h)
  /\ Known({})
  /\ UNCHANGED <<req, w, xfer, backup>>

ImportAdded(h) ==
  /\ xfer[h].pc = "adding" /\ call[h].pc = "done"
  /\ Answered(h)
  /\ xfer' = [xfer EXCEPT ![h].pc = "domains", ![h].failed = @ \/ ~call[h].ok]
  /\ UNCHANGED <<md, certs, torn, faults, req, w, backup, known>>

(* The answer tells how many records and domains failed. *)
ImportReply(h) ==
  /\ xfer[h].pc = "reply"
  /\ TEnd(h)
  /\ UNCHANGED <<vars, backup, known>>

-----------------------------------------------------------------------------
TransferStep(h) ==
  \/ ExportAll(h)
  \/ ExportList(h)
  \/ ExportRecord(h)
  \/ ExportReply(h)
  \/ ImportCert(h)
  \/ PhaseDone(h)
  \/ ImportCheck(h)
  \/ ImportAdding(h)
  \/ ImportAdded(h)
  \/ ImportReply(h)

(* The steps of AcmeStore. *)
ClientBeside(h) ==
  /\ xfer[h].pc = "idle" /\ (Overlap \/ NoTransfers)
  /\ ClientStep(h)
  /\ UNCHANGED <<xfer, backup, known>>

ServiceStep ==
  /\ TickStep \/ DaemonStep \/ \E h \in Callers : xfer[h].pc = "idle" /\ ServerStep(h)
  /\ Known({})
  /\ UNCHANGED <<xfer, backup>>

(* Time: the copies in files age with the certificate, or after it is gone. *)
AgedIn(f, d) ==
  IF d \in DOMAIN f.certs THEN [f EXCEPT !.certs[d] = Aged(@)] ELSE f

FileFresh(f, d) == d \in DOMAIN f.certs /\ f.certs[d].pem = "fresh"

AgeFiles(d) ==
  /\ backup' = AgedIn(backup, d)
  /\ xfer' = [h \in Callers |-> [xfer[h] EXCEPT !.file = AgedIn(@, d)]]
  /\ UNCHANGED known

AgeOut(d) ==
  /\ certs[d].pem # "fresh"
  /\ FileFresh(backup, d) \/ \E h \in Callers : FileFresh(xfer[h].file, d)
  /\ UNCHANGED vars

TimePasses(d) == (Age(d) \/ AgeOut(d)) /\ AgeFiles(d)

(* The process dies and its store is lost; the service starts on an empty *)
(* one.  (Crashes that leave the store are in AcmeStore.)                  *)
NewStore ==
  /\ backup # EmptyFile
  /\ md' = {} /\ certs' = [d \in Domains |-> Zero] /\ torn' = {} /\ known' = {}
  /\ call' = [p \in Callers |-> NoCall]
  /\ req' = [h \in Callers |-> NoRequest]
  /\ w' = AtRest
  /\ xfer' = [h \in Callers |-> NoTransfer]
  /\ UNCHANGED <<faults, backup>>

(* What a step may cost without anybody being told: a file that a store    *)
(* leaves torn, and a record over which an add, having failed to read it,  *)
(* goes on to put a placeholder.                                           *)
Blind(h) == call[h].pc = "addGet" /\ call'[h].pc = "addStore" /\ Fault
Spoils == (torn' \ torn) \cup {call[h].domain : h \in {g \in Callers : Blind(g)}}

(* It is noted for as long as an import is under way. *)
Importing(h) == xfer[h].pc \in {"certs", "domains", "adding", "reply"}
NoteSpoiled ==
  spoiled' = IF \E h \in Callers : Importing(h)' THEN spoiled \cup Spoils ELSE {}

TransferAction ==
  \/ \E h \in Callers : ExportAccount(h) \/ ImportStart(h) \/ TransferStep(h)
  \/ \E h \in Callers : ClientBeside(h)
  \/ ServiceStep
  \/ \E d \in Domains : TimePasses(d)
  \/ NewStore

TransferNext == TransferAction /\ NoteSpoiled

TransferSpec == TransferInit /\ [][TransferNext]_transferVars

-----------------------------------------------------------------------------
TransferTypeOK ==
  /\ TypeOK
  /\ xfer \in [Callers -> Transfers]
  /\ backup \in File
  /\ known \subseteq Domains
  /\ spoiled \subseteq Files

(* A file is of one moment: in it a record is managed exactly when its     *)
(* domain is in the list, although list and records are read one by one.   *)
(* (A failure may leave the store itself divided.)                         *)
BackupAgrees ==
  faults = 0 =>
    \A d \in DOMAIN backup.certs :
      backup.certs[d].named => (backup.certs[d].managed <=> d \in backup.list)

(* Once an import has finished, the flags of the records that it stored    *)
(* one by one agree with the list that it filled afterwards, whatever the  *)
(* daemon did to both in between, until a request to the store fails.      *)
AgreesAfterImports ==
  faults = 0 /\ NoTransfers => ListAndRecordsAgree

(* An import that reports no failure leaves everything that the file has:  *)
(* the domains in the list and, in files that parse, the records with      *)
(* certificates at least as young.  What failures did meanwhile to single  *)
(* records, unreported, is not restored: `spoiled' lists no other record.  *)
AsYoung(c, f) == /\ f.pem = "fresh" => c.pem = "fresh"
                 /\ f.pem = "due" => c.pem # "none"
Restored(f, S) ==
  /\ f.list \subseteq Managed
  /\ \A d \in DOMAIN f.certs : f.certs[d].named => certs[d].named
  /\ \A d \in DOMAIN f.certs \ S :
       d \notin torn /\ AsYoung(certs[d], f.certs[d])

SuccessRestores ==
  [][\A h \in Callers :
       ImportReply(h) /\ ~xfer[h].failed =>
         Restored(xfer[h].file, spoiled)]_transferVars

(* Once everything under way has finished, no listed domain has a record   *)
(* that the daemon skips as unmanaged.                                     *)
ListedNotSkipped ==
  Quiet /\ NoTransfers => \A d \in Managed : certs[d].named => certs[d].managed
=============================================================================
