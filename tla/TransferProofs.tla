--------------------------- MODULE TransferProofs ---------------------------
(* Theorems about Transfer: export and import beside the requests and the  *)
(* daemon, for every set of domains, callers and SANs.                     *)

EXTENDS Transfer, AgreementProofs

-----------------------------------------------------------------------------
(* Types of the files and of the transfers. *)

(* The records of a file. *)
PartialRecords == UNION {[D -> CertAndKey] : D \in SUBSET Domains}

LEMMA RecordsOfFile ==
  \A f : f \in PartialRecords <=>
           /\ DOMAIN f \subseteq Domains /\ f = [d \in DOMAIN f |-> f[d]]
           /\ \A d \in DOMAIN f : f[d] \in CertAndKey
  <1>1. ASSUME NEW f \in PartialRecords
        PROVE  /\ DOMAIN f \subseteq Domains /\ f = [d \in DOMAIN f |-> f[d]]
               /\ \A d \in DOMAIN f : f[d] \in CertAndKey
    <2>1. PICK D \in SUBSET Domains : f \in [D -> CertAndKey]
      BY DEF PartialRecords
    <2> QED BY <2>1
  <1>2. ASSUME NEW f, DOMAIN f \subseteq Domains, f = [d \in DOMAIN f |-> f[d]],
               \A d \in DOMAIN f : f[d] \in CertAndKey
        PROVE  f \in PartialRecords
    <2>1. f \in [DOMAIN f -> CertAndKey]
      BY <1>2
    <2> QED BY <1>2, <2>1 DEF PartialRecords
  <1> QED BY <1>1, <1>2

(* What a file holds. *)
LEMMA FileFields ==
  ASSUME NEW f \in File
  PROVE  /\ DOMAIN f.certs \subseteq Domains /\ f.list \subseteq Domains
         /\ f.certs \in PartialRecords
         /\ \A d \in DOMAIN f.certs : f.certs[d] \in CertAndKey
  <1>1. f.certs \in PartialRecords /\ f.list \subseteq Domains
    BY DEF File, PartialRecords
  <1> QED BY <1>1, RecordsOfFile

(* The files that exports and time make of files. *)
LEMMA WithRecordIs ==
  ASSUME NEW f \in PartialRecords, NEW d \in Domains, NEW c \in CertAndKey
  PROVE  /\ WithRecord(f, d, c) \in PartialRecords
         /\ DOMAIN WithRecord(f, d, c) = DOMAIN f \cup {d}
         /\ WithRecord(f, d, c)[d] = c
         /\ \A e \in DOMAIN f \ {d} : WithRecord(f, d, c)[e] = f[e]
  <1> DEFINE g == [e \in DOMAIN f \cup {d} |-> IF e = d THEN c ELSE f[e]]
  <1>1. DOMAIN f \subseteq Domains /\ \A e \in DOMAIN f : f[e] \in CertAndKey
    BY RecordsOfFile
  <1>2. /\ DOMAIN g = DOMAIN f \cup {d} /\ g[d] = c
        /\ \A e \in DOMAIN f \ {d} : g[e] = f[e]
        /\ g = [e \in DOMAIN g |-> g[e]]
    OBVIOUS
  <1>3. \A e \in DOMAIN g : g[e] \in CertAndKey
    BY <1>1, <1>2
  <1>4. g \in PartialRecords
    <2> HIDE DEF g
    <2> QED BY <1>1, <1>2, <1>3, RecordsOfFile
  <1> QED BY <1>2, <1>4 DEF WithRecord

LEMMA AgedInIs ==
  ASSUME NEW f \in File, NEW d
  PROVE  /\ AgedIn(f, d) \in File
         /\ AgedIn(f, d).list = f.list
         /\ DOMAIN AgedIn(f, d).certs = DOMAIN f.certs
         /\ \A e \in DOMAIN f.certs :
              AgedIn(f, d).certs[e] = IF e = d THEN Aged(f.certs[e]) ELSE f.certs[e]
  <1>0. /\ DOMAIN f.certs \subseteq Domains /\ f.list \subseteq Domains
        /\ f.certs \in PartialRecords
        /\ \A e \in DOMAIN f.certs : f.certs[e] \in CertAndKey
    BY FileFields
  <1>1. CASE d \in DOMAIN f.certs
    <2> DEFINE g == [f.certs EXCEPT ![d] = Aged(f.certs[d])]
    <2>1. AgedIn(f, d) = [f EXCEPT !.certs = g]
      BY <1>1 DEF AgedIn
    <2>2. /\ DOMAIN g = DOMAIN f.certs /\ g = [e \in DOMAIN g |-> g[e]]
          /\ \A e \in DOMAIN f.certs :
               g[e] = IF e = d THEN Aged(f.certs[e]) ELSE f.certs[e]
      OBVIOUS
    <2>3. \A e \in DOMAIN g : g[e] \in CertAndKey
      BY <1>0, <2>2, StoreRecordTypes
    <2> HIDE DEF g
    <2>4. g \in PartialRecords
      BY <1>0, <2>2, <2>3, RecordsOfFile
    <2>5. /\ [f EXCEPT !.certs = g] \in File
          /\ [f EXCEPT !.certs = g].certs = g
          /\ [f EXCEPT !.certs = g].list = f.list
      BY <2>4 DEF File, PartialRecords
    <2> QED BY <2>1, <2>2, <2>5
  <1>2. CASE d \notin DOMAIN f.certs
    BY <1>2 DEF AgedIn
  <1> QED BY <1>1, <1>2

LEMMA EmptyFileIs ==
  EmptyFile \in File /\ DOMAIN EmptyFile.certs = {} /\ EmptyFile.list = {}
  <1> DEFINE g == [d \in {} |-> Zero]
  <1>1. DOMAIN g = {} /\ g = [d \in DOMAIN g |-> g[d]]
    OBVIOUS
  <1> HIDE DEF g
  <1>2. g \in PartialRecords
    BY <1>1, RecordsOfFile
  <1> QED BY <1>1, <1>2 DEF EmptyFile, File, PartialRecords, g

(* The local variables of a transfer are of their types. *)
LEMMA TransferFields ==
  ASSUME NEW h \in Callers, xfer \in [Callers -> Transfers]
  PROVE  /\ xfer[h] \in Transfers /\ xfer[h].file \in File
         /\ xfer[h].todo \subseteq Domains /\ xfer[h].failed \in BOOLEAN
  BY DEF Transfers

(* Where a step leaves the transfer of h, and the others as they are. *)
OthersWait(h) == \A g \in Callers \ {h} : xfer'[g] = xfer[g]

Becomes(h, k, f, T, b) ==
  /\ xfer' \in [Callers -> Transfers]
  /\ xfer'[h].pc = k /\ xfer'[h].file = f
  /\ xfer'[h].todo = T /\ xfer'[h].failed = b
  /\ OthersWait(h)

TransferPcs == {"idle", "all", "list", "records", "certs", "domains", "adding",
                "reply"}

LEMMA TransferSet ==
  ASSUME NEW h \in Callers, xfer \in [Callers -> Transfers],
         NEW k \in TransferPcs, NEW f \in File, NEW T \in SUBSET Domains,
         NEW b \in BOOLEAN, NEW t,
         t = [pc |-> k, file |-> f, todo |-> T, failed |-> b],
         xfer' = [xfer EXCEPT ![h] = t]
  PROVE  Becomes(h, k, f, T, b)
  <1>1. t \in Transfers
    BY DEF Transfers, TransferPcs
  <1>2. xfer' \in [Callers -> Transfers] /\ xfer'[h] = t /\ OthersWait(h)
    BY <1>1 DEF OthersWait
  <1> QED BY <1>2 DEF Becomes

(* The steps by which exports and imports move on. *)
LEMMA TransferMoves ==
  ASSUME NEW h \in Callers, xfer \in [Callers -> Transfers],
         NEW k \in TransferPcs, NEW T \in SUBSET Domains, NEW x, x = xfer[h]
  PROVE  /\ xfer' = [xfer EXCEPT ![h].pc = k] =>
              Becomes(h, k, x.file, x.todo, x.failed)
         /\ xfer' = [xfer EXCEPT ![h].todo = T] =>
              Becomes(h, x.pc, x.file, T, x.failed)
         /\ xfer' = [xfer EXCEPT ![h].pc = k, ![h].todo = T] =>
              Becomes(h, k, x.file, T, x.failed)
         /\ TEnd(h) => Becomes(h, "idle", EmptyFile, {}, FALSE)
  <1>0. /\ x \in Transfers /\ x.file \in File /\ x.pc \in TransferPcs
        /\ x.todo \in SUBSET Domains /\ x.failed \in BOOLEAN
    BY TransferFields DEF Transfers, TransferPcs
  <1>1. ASSUME xfer' = [xfer EXCEPT ![h].pc = k]
        PROVE  Becomes(h, k, x.file, x.todo, x.failed)
    <2>1. xfer' \in [Callers -> Transfers] /\ OthersWait(h)
      BY <1>0, <1>1 DEF Transfers, TransferPcs, OthersWait
    <2> QED BY <1>0, <1>1, <2>1 DEF Transfers, Becomes
  <1>2. ASSUME xfer' = [xfer EXCEPT ![h].todo = T]
        PROVE  Becomes(h, x.pc, x.file, T, x.failed)
    <2>1. xfer' \in [Callers -> Transfers] /\ OthersWait(h)
      BY <1>0, <1>2 DEF Transfers, TransferPcs, OthersWait
    <2> QED BY <1>0, <1>2, <2>1 DEF Transfers, Becomes
  <1>3. ASSUME xfer' = [xfer EXCEPT ![h].pc = k, ![h].todo = T]
        PROVE  Becomes(h, k, x.file, T, x.failed)
    <2>1. xfer' \in [Callers -> Transfers] /\ OthersWait(h)
      BY <1>0, <1>3 DEF Transfers, TransferPcs, OthersWait
    <2> QED BY <1>0, <1>3, <2>1 DEF Transfers, Becomes
  <1>4. TEnd(h) => Becomes(h, "idle", EmptyFile, {}, FALSE)
    BY EmptyFileIs, TransferSet DEF TEnd, NoTransfer, TransferPcs
  <1> QED BY <1>1, <1>2, <1>3, <1>4

(* A record or a domain that could not be restored, and the end of an add. *)
LEMMA FailureMoves ==
  ASSUME NEW h \in Callers, xfer \in [Callers -> Transfers],
         NEW T \in SUBSET Domains,
         xfer' = [xfer EXCEPT ![h].todo = T, ![h].failed = TRUE]
  PROVE  Becomes(h, xfer[h].pc, xfer[h].file, T, TRUE)
  <1>1. xfer' \in [Callers -> Transfers] /\ OthersWait(h)
    BY DEF Transfers, OthersWait
  <1>2. /\ xfer'[h].pc = xfer[h].pc /\ xfer'[h].file = xfer[h].file
        /\ xfer'[h].todo = T /\ xfer'[h].failed
    BY DEF Transfers
  <1> QED BY <1>1, <1>2 DEF Becomes, Transfers

LEMMA OutcomeMoves ==
  ASSUME NEW h \in Callers, xfer \in [Callers -> Transfers],
         NEW k \in TransferPcs, NEW b, b = (xfer[h].failed \/ ~call[h].ok),
         xfer' = [xfer EXCEPT ![h].pc = k, ![h].failed = b]
  PROVE  Becomes(h, k, xfer[h].file, xfer[h].todo, b)
  <1>0. b \in BOOLEAN
    OBVIOUS
  <1>1. xfer' \in [Callers -> Transfers] /\ OthersWait(h)
    BY <1>0, ZenonT(60) DEF Transfers, OthersWait, TransferPcs
  <1>2. /\ xfer'[h].pc = k /\ xfer'[h].file = xfer[h].file
        /\ xfer'[h].todo = xfer[h].todo /\ xfer'[h].failed = b
    BY <1>0 DEF Transfers
  <1> QED BY <1>1, <1>2 DEF Becomes, Transfers

(* The steps of an export that write its file. *)
LEMMA ExportMoves ==
  ASSUME NEW h \in Callers, xfer \in [Callers -> Transfers]
  PROVE  /\ \A L \in SUBSET Domains :
              xfer' = [xfer EXCEPT ![h].pc = "records", ![h].file.list = L] =>
                \E f \in File : /\ f.certs = xfer[h].file.certs /\ f.list = L
                                /\ Becomes(h, "records", f, xfer[h].todo, xfer[h].failed)
         /\ \A T \in SUBSET Domains, g \in PartialRecords :
              xfer' = [xfer EXCEPT ![h].todo = T, ![h].file.certs = g] =>
                \E f \in File : /\ f.certs = g /\ f.list = xfer[h].file.list
                                /\ Becomes(h, xfer[h].pc, f, T, xfer[h].failed)
  <1> PICK x : x = xfer[h]
    OBVIOUS
  <1>0. /\ x \in Transfers /\ x.file \in File /\ x.pc \in TransferPcs
        /\ x.todo \in SUBSET Domains /\ x.failed \in BOOLEAN
    BY TransferFields DEF Transfers, TransferPcs
  <1>1. ASSUME NEW L \in SUBSET Domains,
               xfer' = [xfer EXCEPT ![h].pc = "records", ![h].file.list = L]
        PROVE  \E f \in File : /\ f.certs = x.file.certs /\ f.list = L
                               /\ Becomes(h, "records", f, x.todo, x.failed)
    <2>1. PICK f : f = [x.file EXCEPT !.list = L]
      OBVIOUS
    <2>2. f \in File /\ f.certs = x.file.certs /\ f.list = L
      BY <1>0, <2>1 DEF File
    <2>3. xfer' \in [Callers -> Transfers] /\ OthersWait(h)
      BY <1>0, <1>1, <2>1, <2>2 DEF Transfers, OthersWait
    <2>4. Becomes(h, "records", f, x.todo, x.failed)
      BY <1>0, <1>1, <2>1, <2>3 DEF Transfers, Becomes
    <2> QED BY <2>2, <2>4
  <1>2. ASSUME NEW T \in SUBSET Domains, NEW g \in PartialRecords,
               xfer' = [xfer EXCEPT ![h].todo = T, ![h].file.certs = g]
        PROVE  \E f \in File : /\ f.certs = g /\ f.list = x.file.list
                               /\ Becomes(h, x.pc, f, T, x.failed)
    <2>1. PICK f : f = [x.file EXCEPT !.certs = g]
      OBVIOUS
    <2>2. f \in File /\ f.certs = g /\ f.list = x.file.list
      BY <1>0, <2>1 DEF File, PartialRecords
    <2>3. xfer' \in [Callers -> Transfers] /\ OthersWait(h)
      BY <1>0, <1>2, <2>1, <2>2 DEF Transfers, OthersWait
    <2>4. Becomes(h, x.pc, f, T, x.failed)
      BY <1>0, <1>2, <2>1, <2>3 DEF Transfers, Becomes
    <2> QED BY <2>2, <2>4
  <1> QED BY <1>1, <1>2

(* The start of an import and of its phases. *)
LEMMA EnterMoves ==
  ASSUME NEW h \in Callers, xfer \in [Callers -> Transfers],
         NEW k \in TransferPcs, NEW f \in File, NEW b \in BOOLEAN,
         Enter(h, k, f, b)
  PROVE  Becomes(h, k, f, IF k = "certs" THEN DOMAIN f.certs
                          ELSE IF k = "domains" THEN f.list ELSE {}, b)
  BY FileFields, TransferSet DEF Enter

(* What is left to do of an import is in its file. *)
TodoInFile ==
  \A h \in Callers :
    /\ xfer[h].pc = "certs" => xfer[h].todo \subseteq DOMAIN xfer[h].file.certs
    /\ xfer[h].pc \in {"domains", "adding"} => xfer[h].todo \subseteq xfer[h].file.list

(* What the steps of an export do, and that they leave the store. *)
StoreRests == UNCHANGED <<md, certs, torn, call, req, w>> /\ (Fault \/ NoFault)
Ends(h) == Becomes(h, "idle", EmptyFile, {}, FALSE)

LEMMA ExportSteps ==
  ASSUME NEW h \in Callers, TransferTypeOK, NEW x, x = xfer[h]
  PROVE  /\ ExportAccount(h) =>
              /\ StoreRests /\ UNCHANGED <<backup, known>>
              /\ x.pc = "idle" /\ MayTransfer(h)
              /\ UNCHANGED xfer \/ Becomes(h, "all", x.file, x.todo, x.failed)
         /\ ExportAll(h) =>
              /\ StoreRests /\ UNCHANGED <<backup, known>> /\ x.pc = "all"
              /\ Ends(h) \/ Becomes(h, "list", x.file, AllDomains, x.failed)
         /\ ExportList(h) =>
              /\ StoreRests /\ UNCHANGED <<backup, known>> /\ x.pc = "list"
              /\ \/ Ends(h)
                 \/ \E f \in File : /\ f.certs = x.file.certs /\ f.list = Managed
                                    /\ Becomes(h, "records", f, x.todo, x.failed)
         /\ ExportRecord(h) =>
              /\ StoreRests /\ UNCHANGED <<backup, known>> /\ x.pc = "records"
              /\ \E d \in x.todo :
                   \/ Becomes(h, "records", x.file, x.todo \ {d}, x.failed)
                   \/ \E f \in File :
                        /\ f.certs = WithRecord(x.file.certs, d, certs[d])
                        /\ f.list = x.file.list
                        /\ Becomes(h, "records", f, x.todo \ {d}, x.failed)
         /\ ExportReply(h) =>
              /\ StoreRests /\ backup' = x.file /\ UNCHANGED known
              /\ x.pc = "records" /\ Ends(h)
  <1>0. /\ xfer \in [Callers -> Transfers] /\ x.file \in File
        /\ x.todo \in SUBSET Domains /\ x.failed \in BOOLEAN
        /\ certs \in [Domains -> CertAndKey] /\ x.file.certs \in PartialRecords
    BY TransferFields, FileFields DEF TransferTypeOK, TypeOK, KeystoreTypeOK
  <1>1. ASSUME ExportAccount(h)
        PROVE  /\ StoreRests /\ UNCHANGED <<backup, known>>
               /\ x.pc = "idle" /\ MayTransfer(h)
               /\ UNCHANGED xfer \/ Becomes(h, "all", x.file, x.todo, x.failed)
    <2>1. UNCHANGED xfer \/ xfer' = [xfer EXCEPT ![h].pc = "all"]
      BY <1>1 DEF ExportAccount, TGoto
    <2>2. UNCHANGED xfer \/ Becomes(h, "all", x.file, x.todo, x.failed)
      BY <1>0, <2>1, TransferMoves DEF TransferPcs
    <2> QED BY <1>1, <2>2 DEF ExportAccount, MayTransfer, StoreRests
  <1>2. ASSUME ExportAll(h)
        PROVE  /\ StoreRests /\ UNCHANGED <<backup, known>> /\ x.pc = "all"
               /\ Ends(h) \/ Becomes(h, "list", x.file, AllDomains, x.failed)
    <2>1. TEnd(h) \/ xfer' = [xfer EXCEPT ![h].pc = "list", ![h].todo = AllDomains]
      BY <1>2 DEF ExportAll
    <2>2. AllDomains \in SUBSET Domains
      BY DEF AllDomains, TransferTypeOK
    <2>3. Ends(h) \/ Becomes(h, "list", x.file, AllDomains, x.failed)
      BY <1>0, <2>1, <2>2, TransferMoves DEF TransferPcs, Ends
    <2> QED BY <1>2, <2>3 DEF ExportAll, StoreRests
  <1>3. ASSUME ExportList(h)
        PROVE  /\ StoreRests /\ UNCHANGED <<backup, known>> /\ x.pc = "list"
               /\ \/ Ends(h)
                  \/ \E f \in File : /\ f.certs = x.file.certs /\ f.list = Managed
                                     /\ Becomes(h, "records", f, x.todo, x.failed)
    <2>1. \/ TEnd(h)
          \/ xfer' = [xfer EXCEPT ![h].pc = "records", ![h].file.list = Managed]
      BY <1>3 DEF ExportList
    <2>2. Managed \in SUBSET Domains
      BY DEF Managed, DomainsOf, TransferTypeOK, TypeOK, KeystoreTypeOK, Entry
    <2>3. TEnd(h) => Ends(h)
      BY <1>0, TransferMoves DEF TransferPcs, Ends
    <2>4. \/ Ends(h)
          \/ \E f \in File : /\ f.certs = x.file.certs /\ f.list = Managed
                             /\ Becomes(h, "records", f, x.todo, x.failed)
      <3>1. ASSUME xfer' = [xfer EXCEPT ![h].pc = "records", ![h].file.list = Managed]
            PROVE  \E f \in File : /\ f.certs = x.file.certs /\ f.list = Managed
                                   /\ Becomes(h, "records", f, x.todo, x.failed)
        BY <1>0, <2>2, <3>1, ExportMoves
      <3> QED BY <2>1, <2>3, <3>1
    <2>5. StoreRests
      BY <1>3, ReadType DEF ExportList, StoreRests
    <2> QED BY <1>3, <2>4, <2>5 DEF ExportList
  <1>4. ASSUME ExportRecord(h)
        PROVE  /\ StoreRests /\ UNCHANGED <<backup, known>> /\ x.pc = "records"
               /\ \E d \in x.todo :
                    \/ Becomes(h, "records", x.file, x.todo \ {d}, x.failed)
                    \/ \E f \in File :
                         /\ f.certs = WithRecord(x.file.certs, d, certs[d])
                         /\ f.list = x.file.list
                         /\ Becomes(h, "records", f, x.todo \ {d}, x.failed)
    <2>1. PICK d \in x.todo :
            /\ ReadOk(d) \/ ReadFails(d)
            /\ \/ xfer' = [xfer EXCEPT ![h].todo = x.todo \ {d}]
               \/ xfer' = [xfer EXCEPT ![h].todo = x.todo \ {d},
                             ![h].file.certs = WithRecord(x.file.certs, d, certs[d])]
      BY <1>4 DEF ExportRecord
    <2>2. /\ x.todo \ {d} \in SUBSET Domains /\ x.pc = "records"
          /\ WithRecord(x.file.certs, d, certs[d]) \in PartialRecords
      BY <1>0, <1>4, WithRecordIs DEF ExportRecord
    <2>3. xfer' = [xfer EXCEPT ![h].todo = x.todo \ {d}] =>
            Becomes(h, "records", x.file, x.todo \ {d}, x.failed)
      BY <1>0, <2>2, TransferMoves DEF TransferPcs
    <2>4. \/ Becomes(h, "records", x.file, x.todo \ {d}, x.failed)
          \/ \E f \in File :
               /\ f.certs = WithRecord(x.file.certs, d, certs[d])
               /\ f.list = x.file.list
               /\ Becomes(h, "records", f, x.todo \ {d}, x.failed)
      <3> DEFINE g == WithRecord(x.file.certs, d, certs[d])
      <3>1. ASSUME xfer' = [xfer EXCEPT ![h].todo = x.todo \ {d}, ![h].file.certs = g]
            PROVE  \E f \in File : /\ f.certs = g /\ f.list = x.file.list
                                   /\ Becomes(h, "records", f, x.todo \ {d}, x.failed)
        <4> HIDE DEF g
        <4>1. g \in PartialRecords
          BY <2>2 DEF g
        <4>2. \E f \in File :
                /\ f.certs = g /\ f.list = xfer[h].file.list
                /\ Becomes(h, xfer[h].pc, f, x.todo \ {d}, xfer[h].failed)
          BY <1>0, <2>2, <3>1, <4>1, ExportMoves, ZenonT(60)
        <4> QED BY <2>2, <4>2
      <3> QED BY <2>1, <2>3, <3>1
    <2>5. StoreRests
      BY <1>4, <2>1, ReadType DEF ExportRecord, StoreRests
    <2> QED BY <1>4, <2>2, <2>4, <2>5 DEF ExportRecord
  <1>5. ASSUME ExportReply(h)
        PROVE  /\ StoreRests /\ backup' = x.file /\ UNCHANGED known
               /\ x.pc = "records" /\ Ends(h)
    <2>1. Ends(h)
      BY <1>0, <1>5, TransferMoves DEF ExportReply, TransferPcs, Ends
    <2> QED BY <1>5, <2>1 DEF ExportReply, StoreRests, vars, keystoreVars, NoFault
  <1> QED BY <1>1, <1>2, <1>3, <1>4, <1>5

(* What the steps of an import do to its variables. *)
LEMMA ImportSteps ==
  ASSUME NEW h \in Callers, TransferTypeOK, NEW x, x = xfer[h]
  PROVE  /\ ImportStart(h) =>
              /\ StoreRests /\ UNCHANGED <<backup, known>>
              /\ x.pc = "idle" /\ MayTransfer(h) /\ (RestoreOnly => Restoring)
              /\ Becomes(h, "certs", backup, DOMAIN backup.certs, FALSE)
         /\ PhaseDone(h) =>
              /\ StoreRests /\ UNCHANGED <<backup, known>> /\ x.todo = {}
              /\ \/ /\ x.pc = "certs"
                    /\ Becomes(h, "domains", x.file, x.file.list, x.failed)
                 \/ x.pc = "domains" /\ Becomes(h, "reply", x.file, {}, x.failed)
         /\ ImportCert(h) =>
              /\ x.pc = "certs" /\ UNCHANGED <<md, call, req, w, backup>>
              /\ \E d \in x.todo :
                   \/ /\ StoreCertAndKey(d, x.file.certs[d])
                      /\ Becomes(h, "certs", x.file, x.todo \ {d}, x.failed)
                   \/ /\ StoreFails(d, x.file.certs[d])
                      /\ Becomes(h, "certs", x.file, x.todo \ {d}, TRUE)
         /\ ImportCheck(h) =>
              /\ x.pc = "domains" /\ (Fault \/ NoFault)
              /\ UNCHANGED <<md, certs, torn, req, w, backup, known>>
              /\ \E d \in x.todo :
                   \/ /\ Listed(d) /\ UNCHANGED call
                      /\ Becomes(h, "domains", x.file, x.todo \ {d}, x.failed)
                   \/ /\ ~Listed(d) /\ BeginAdd(h, d, SansInFile(x.file, d))
                      /\ Becomes(h, "adding", x.file, x.todo \ {d}, x.failed)
                   \/ /\ ReadFails(ListFile) /\ UNCHANGED call
                      /\ Becomes(h, "domains", x.file, x.todo \ {d}, TRUE)
         /\ ImportAdded(h) =>
              /\ x.pc = "adding" /\ call[h].pc = "done" /\ Answered(h)
              /\ UNCHANGED <<md, certs, torn, faults, req, w, backup, known>>
              /\ Becomes(h, "domains", x.file, x.todo, x.failed \/ ~call[h].ok)
         /\ ImportReply(h) =>
              /\ StoreRests /\ UNCHANGED <<backup, known>> /\ x.pc = "reply" /\ Ends(h)
  <1>0. /\ xfer \in [Callers -> Transfers] /\ x.file \in File /\ backup \in File
        /\ x.todo \in SUBSET Domains /\ x.failed \in BOOLEAN
        /\ call[h].ok \in BOOLEAN /\ \A d : x.todo \ {d} \in SUBSET Domains
    BY TransferFields DEF TransferTypeOK, TypeOK, KeystoreTypeOK, Call
  <1>a. UNCHANGED vars => StoreRests
    BY DEF vars, keystoreVars, StoreRests, NoFault
  <1>1. ASSUME ImportStart(h)
        PROVE  /\ StoreRests /\ UNCHANGED <<backup, known>>
               /\ x.pc = "idle" /\ MayTransfer(h) /\ (RestoreOnly => Restoring)
               /\ Becomes(h, "certs", backup, DOMAIN backup.certs, FALSE)
    <2>1. Enter(h, "certs", backup, FALSE)
      BY <1>1 DEF ImportStart, NextPhase
    <2>2. Becomes(h, "certs", backup, DOMAIN backup.certs, FALSE)
      BY <1>0, <2>1, EnterMoves DEF TransferPcs
    <2> QED BY <1>1, <1>a, <2>2 DEF ImportStart, MayTransfer
  <1>2. ASSUME PhaseDone(h)
        PROVE  /\ StoreRests /\ UNCHANGED <<backup, known>> /\ x.todo = {}
               /\ \/ /\ x.pc = "certs"
                     /\ Becomes(h, "domains", x.file, x.file.list, x.failed)
                  \/ x.pc = "domains" /\ Becomes(h, "reply", x.file, {}, x.failed)
    <2>1. CASE x.pc = "certs"
      <3>1. Enter(h, "domains", x.file, x.failed)
        BY <1>2, <2>1 DEF PhaseDone, NextPhase
      <3>2. Becomes(h, "domains", x.file, x.file.list, x.failed)
        BY <1>0, <3>1, EnterMoves DEF TransferPcs
      <3> QED BY <1>2, <1>a, <2>1, <3>2 DEF PhaseDone
    <2>2. CASE x.pc = "domains"
      <3>1. Enter(h, "reply", x.file, x.failed)
        BY <1>2, <2>2 DEF PhaseDone, NextPhase
      <3>2. Becomes(h, "reply", x.file, {}, x.failed)
        BY <1>0, <3>1, EnterMoves DEF TransferPcs
      <3> QED BY <1>2, <1>a, <2>2, <3>2 DEF PhaseDone
    <2> QED BY <1>2, <2>1, <2>2 DEF PhaseDone
  <1>3. ASSUME ImportCert(h)
        PROVE  /\ x.pc = "certs" /\ UNCHANGED <<md, call, req, w, backup>>
               /\ \E d \in x.todo :
                    \/ /\ StoreCertAndKey(d, x.file.certs[d])
                       /\ Becomes(h, "certs", x.file, x.todo \ {d}, x.failed)
                    \/ /\ StoreFails(d, x.file.certs[d])
                       /\ Becomes(h, "certs", x.file, x.todo \ {d}, TRUE)
    <2>1. PICK d \in x.todo :
            \/ /\ StoreCertAndKey(d, x.file.certs[d])
               /\ xfer' = [xfer EXCEPT ![h].todo = x.todo \ {d}]
            \/ /\ StoreFails(d, x.file.certs[d])
               /\ xfer' = [xfer EXCEPT ![h].todo = x.todo \ {d}, ![h].failed = TRUE]
      BY <1>3 DEF ImportCert
    <2>2. x.pc = "certs" /\ x.todo \ {d} \in SUBSET Domains
      BY <1>0, <1>3 DEF ImportCert
    <2>3. xfer' = [xfer EXCEPT ![h].todo = x.todo \ {d}] =>
            Becomes(h, "certs", x.file, x.todo \ {d}, x.failed)
      BY <1>0, <2>2, TransferMoves DEF TransferPcs
    <2>4. xfer' = [xfer EXCEPT ![h].todo = x.todo \ {d}, ![h].failed = TRUE] =>
            Becomes(h, "certs", x.file, x.todo \ {d}, TRUE)
      BY <1>0, <2>2, FailureMoves, ZenonT(60)
    <2> QED BY <1>3, <2>1, <2>2, <2>3, <2>4 DEF ImportCert
  <1>4. ASSUME ImportCheck(h)
        PROVE  /\ x.pc = "domains" /\ (Fault \/ NoFault)
               /\ UNCHANGED <<md, certs, torn, req, w, backup, known>>
               /\ \E d \in x.todo :
                    \/ /\ Listed(d) /\ UNCHANGED call
                       /\ Becomes(h, "domains", x.file, x.todo \ {d}, x.failed)
                    \/ /\ ~Listed(d) /\ BeginAdd(h, d, SansInFile(x.file, d))
                       /\ Becomes(h, "adding", x.file, x.todo \ {d}, x.failed)
                    \/ /\ ReadFails(ListFile) /\ UNCHANGED call
                       /\ Becomes(h, "domains", x.file, x.todo \ {d}, TRUE)
    <2>1. PICK d \in x.todo :
            /\ ReadOk(ListFile) \/ ReadFails(ListFile)
            /\ \/ /\ Listed(d) /\ UNCHANGED call
                  /\ xfer' = [xfer EXCEPT ![h].todo = x.todo \ {d}]
               \/ /\ ~Listed(d) /\ BeginAdd(h, d, SansInFile(x.file, d))
                  /\ xfer' = [xfer EXCEPT ![h].pc = "adding",
                                          ![h].todo = x.todo \ {d}]
               \/ /\ ReadFails(ListFile) /\ UNCHANGED call
                  /\ xfer' = [xfer EXCEPT ![h].todo = x.todo \ {d},
                                          ![h].failed = TRUE]
      BY <1>4 DEF ImportCheck
    <2>2. x.pc = "domains" /\ x.todo \ {d} \in SUBSET Domains
      BY <1>0, <1>4 DEF ImportCheck
    <2>3. /\ xfer' = [xfer EXCEPT ![h].todo = x.todo \ {d}] =>
               Becomes(h, "domains", x.file, x.todo \ {d}, x.failed)
          /\ xfer' = [xfer EXCEPT ![h].pc = "adding", ![h].todo = x.todo \ {d}] =>
               Becomes(h, "adding", x.file, x.todo \ {d}, x.failed)
      BY <1>0, <2>2, TransferMoves DEF TransferPcs
    <2>4. xfer' = [xfer EXCEPT ![h].todo = x.todo \ {d}, ![h].failed = TRUE] =>
            Becomes(h, "domains", x.file, x.todo \ {d}, TRUE)
      BY <1>0, <2>2, FailureMoves, ZenonT(60)
    <2>5. Fault \/ NoFault
      BY <2>1, ReadType
    <2>6. UNCHANGED <<md, certs, torn, req, w, backup, known>>
      BY <1>4 DEF ImportCheck
    <2> QED BY <2>1, <2>2, <2>3, <2>4, <2>5, <2>6
  <1>5. ASSUME ImportAdded(h)
        PROVE  /\ x.pc = "adding" /\ call[h].pc = "done" /\ Answered(h)
               /\ UNCHANGED <<md, certs, torn, faults, req, w, backup, known>>
               /\ Becomes(h, "domains", x.file, x.todo, x.failed \/ ~call[h].ok)
    <2>1. PICK b : b = (x.failed \/ ~call[h].ok)
      OBVIOUS
    <2>2. xfer' = [xfer EXCEPT ![h].pc = "domains", ![h].failed = b]
      BY <1>5, <2>1 DEF ImportAdded
    <2>3. Becomes(h, "domains", x.file, x.todo, b)
      BY <1>0, <2>1, <2>2, OutcomeMoves DEF TransferPcs
    <2>4. Becomes(h, "domains", x.file, x.todo, x.failed \/ ~call[h].ok)
      BY <2>1, <2>3 DEF Becomes
    <2> QED BY <1>5, <2>4 DEF ImportAdded
  <1>6. ASSUME ImportReply(h)
        PROVE  /\ StoreRests /\ UNCHANGED <<backup, known>> /\ x.pc = "reply"
               /\ Ends(h)
    <2>1. Ends(h)
      BY <1>0, <1>6, TransferMoves DEF ImportReply, TransferPcs, Ends
    <2> QED BY <1>6, <1>a, <2>1 DEF ImportReply
  <1> QED BY <1>1, <1>2, <1>3, <1>4, <1>5, <1>6

(* The types of the service when a step leaves requests and run. *)
LEMMA StoreRestsType ==
  ASSUME TypeOK, StoreRests
  PROVE  TypeOK'
  BY ReadKeepsType
  DEF StoreRests, TypeOK, KeystoreTypeOK, HandlersTypeOK, DaemonTypeOK

LEMMA CallStepType ==
  ASSUME NEW p \in Callers, TypeOK, CallStep(p), UNCHANGED <<req, w>>
  PROVE  TypeOK'
  BY AddStepType, RemoveStepType DEF CallStep, TypeOK, HandlersTypeOK, DaemonTypeOK

LEMMA KnownType ==
  ASSUME NEW S \in SUBSET Domains, known \subseteq Domains, Known(S)
  PROVE  known' \subseteq Domains
  BY DEF Known

(* The types but for the history. *)
ServiceTypeOK == /\ TypeOK /\ xfer \in [Callers -> Transfers]
                 /\ backup \in File /\ known \subseteq Domains

(* The steps of a transfer keep the types. *)
LEMMA TransferStepType ==
  ASSUME NEW h \in Callers, TransferTypeOK, TodoInFile,
         ExportAccount(h) \/ ImportStart(h) \/ TransferStep(h)
  PROVE  ServiceTypeOK' /\ TodoInFile'
  <1> DEFINE x == xfer[h]
  <1>0. /\ TypeOK /\ xfer \in [Callers -> Transfers] /\ backup \in File
        /\ known \subseteq Domains /\ x.file \in File /\ x.todo \subseteq Domains
    BY TransferFields DEF TransferTypeOK
  <1>a. ASSUME TypeOK', xfer' \in [Callers -> Transfers], OthersWait(h),
               backup' \in File, known' \subseteq Domains,
               xfer'[h].pc = "certs" => xfer'[h].todo \subseteq DOMAIN xfer'[h].file.certs,
               xfer'[h].pc \in {"domains", "adding"} =>
                 xfer'[h].todo \subseteq xfer'[h].file.list
        PROVE  ServiceTypeOK' /\ TodoInFile'
    BY <1>a DEF ServiceTypeOK, TodoInFile, OthersWait
  <1>1. CASE \/ ExportAccount(h) \/ ExportAll(h) \/ ExportList(h)
             \/ ExportRecord(h) \/ ExportReply(h)
    <2>1. /\ StoreRests /\ backup' \in File /\ UNCHANGED known
          /\ \/ UNCHANGED xfer
             \/ /\ xfer' \in [Callers -> Transfers] /\ OthersWait(h)
                /\ xfer'[h].pc \in {"idle", "all", "list", "records"}
      BY <1>0, <1>1, ExportSteps DEF Becomes, Ends
    <2>2. TypeOK'
      BY <1>0, <2>1, StoreRestsType
    <2>3. CASE UNCHANGED xfer
      BY <1>0, <2>1, <2>2, <2>3 DEF ServiceTypeOK, TodoInFile
    <2> QED BY <1>0, <1>a, <2>1, <2>2, <2>3
  <1>2. CASE ImportStart(h) \/ PhaseDone(h) \/ ImportReply(h)
    <2>1. /\ StoreRests /\ UNCHANGED <<backup, known>>
          /\ xfer' \in [Callers -> Transfers] /\ OthersWait(h)
          /\ \/ /\ xfer'[h].pc = "certs"
                /\ xfer'[h].todo = DOMAIN xfer'[h].file.certs
             \/ xfer'[h].pc = "domains" /\ xfer'[h].todo = xfer'[h].file.list
             \/ xfer'[h].pc \in {"reply", "idle"}
      BY <1>2, ImportSteps DEF Becomes, Ends
    <2>2. TypeOK'
      BY <1>0, <2>1, StoreRestsType
    <2> QED BY <1>0, <1>a, <2>1, <2>2
  <1>3. CASE ImportCert(h)
    <2>1. PICK d \in x.todo :
            /\ \/ StoreCertAndKey(d, x.file.certs[d])
               \/ StoreFails(d, x.file.certs[d])
            /\ xfer' \in [Callers -> Transfers] /\ OthersWait(h)
            /\ xfer'[h].pc = "certs" /\ xfer'[h].file = x.file
            /\ xfer'[h].todo = x.todo \ {d}
      BY <1>3, ImportSteps DEF Becomes
    <2>2. /\ UNCHANGED <<md, call, req, w, backup>> /\ x.pc = "certs"
          /\ x.todo \subseteq DOMAIN x.file.certs
      BY <1>3 DEF ImportCert, TodoInFile
    <2>3. x.file.certs[d] \in CertAndKey /\ d \in Domains
      BY <1>0, <2>2, FileFields
    <2>4. TypeOK'
      BY <1>0, <2>1, <2>2, <2>3, StoreKeepsType
      DEF TypeOK, KeystoreTypeOK, HandlersTypeOK, DaemonTypeOK
    <2>5. known' \subseteq Domains
      <3>1. \E S \in SUBSET Domains : Known(S)
        <4>1. {} \in SUBSET Domains /\ \A e \in x.todo : {e} \in SUBSET Domains
          BY <1>0
        <4> QED BY <1>3, <4>1 DEF ImportCert
      <3> QED BY <1>0, <3>1, KnownType
    <2> QED BY <1>0, <1>a, <2>1, <2>2, <2>4, <2>5
  <1>4. CASE ImportCheck(h)
    <2>1. PICK d \in x.todo :
            /\ UNCHANGED call \/ BeginAdd(h, d, SansInFile(x.file, d))
            /\ xfer' \in [Callers -> Transfers] /\ OthersWait(h)
            /\ xfer'[h].pc \in {"domains", "adding"} /\ xfer'[h].file = x.file
            /\ xfer'[h].todo = x.todo \ {d}
      BY <1>4, ImportSteps, ZenonT(60) DEF Becomes
    <2>2. /\ UNCHANGED <<md, certs, torn, req, w, backup, known>>
          /\ Fault \/ NoFault
          /\ x.todo \subseteq x.file.list /\ d \in Domains
      BY <1>0, <1>4, ImportSteps DEF TodoInFile
    <2>3. SansInFile(x.file, d) \in Sans
      BY <1>0, FileFields, SansTypes DEF SansInFile, CertAndKey
    <2>4. call' \in [Callers -> Call]
      BY <1>0, <2>1, <2>2, <2>3, BeginType DEF TypeOK, KeystoreTypeOK, BeginAdd
    <2>5. TypeOK'
      BY <1>0, <2>2, <2>4, ReadKeepsType DEF TypeOK, HandlersTypeOK, DaemonTypeOK
    <2> QED BY <1>0, <1>a, <2>1, <2>2, <2>5
  <1>5. CASE ImportAdding(h)
    <2>1. CallStep(h) /\ UNCHANGED <<req, w, xfer, backup>> /\ Known({})
      BY <1>5 DEF ImportAdding
    <2>2. TypeOK' /\ known' \subseteq Domains
      BY <1>0, <2>1, CallStepType, KnownType
    <2> QED BY <1>0, <2>1, <2>2 DEF ServiceTypeOK, TodoInFile
  <1>6. CASE ImportAdded(h)
    <2>1. /\ x.pc = "adding" /\ Answered(h)
          /\ UNCHANGED <<md, certs, torn, faults, req, w, backup, known>>
          /\ xfer' \in [Callers -> Transfers] /\ OthersWait(h)
          /\ xfer'[h].pc = "domains" /\ xfer'[h].file = x.file
          /\ xfer'[h].todo = x.todo
      BY <1>6, ImportSteps DEF Becomes
    <2>2. TypeOK'
      BY <1>0, <2>1, CallTypes
      DEF TypeOK, KeystoreTypeOK, HandlersTypeOK, DaemonTypeOK
    <2>3. x.todo \subseteq x.file.list
      BY <2>1 DEF TodoInFile
    <2> QED BY <1>0, <1>a, <2>1, <2>2, <2>3
  <1> QED BY <1>1, <1>2, <1>3, <1>4, <1>5, <1>6 DEF TransferStep

(* What time does to the files. *)
LEMMA FilesAge ==
  ASSUME NEW d, xfer \in [Callers -> Transfers], backup \in File, AgeFiles(d)
  PROVE  /\ xfer' \in [Callers -> Transfers] /\ backup' \in File
         /\ backup' = AgedIn(backup, d) /\ UNCHANGED known
         /\ \A h \in Callers :
              /\ xfer'[h].pc = xfer[h].pc /\ xfer'[h].todo = xfer[h].todo
              /\ xfer'[h].file = AgedIn(xfer[h].file, d)
              /\ xfer'[h].failed = xfer[h].failed
  <1>1. ASSUME NEW h \in Callers
        PROVE  /\ xfer'[h] \in Transfers
               /\ xfer'[h].pc = xfer[h].pc /\ xfer'[h].todo = xfer[h].todo
               /\ xfer'[h].file = AgedIn(xfer[h].file, d)
               /\ xfer'[h].failed = xfer[h].failed
    <2>1. PICK f \in File : f = AgedIn(xfer[h].file, d)
      BY TransferFields, AgedInIs
    <2>2. xfer[h] \in Transfers /\ xfer'[h] = [xfer[h] EXCEPT !.file = f]
      BY <2>1 DEF AgeFiles
    <2> QED BY <2>1, <2>2 DEF Transfers
  <1>2. xfer' = [h \in Callers |-> xfer'[h]]
    BY DEF AgeFiles
  <1>3. xfer' \in [Callers -> Transfers]
    BY <1>1, <1>2
  <1>4. backup' = AgedIn(backup, d) /\ backup' \in File /\ UNCHANGED known
    BY AgedInIs DEF AgeFiles
  <1> QED BY <1>1, <1>3, <1>4

(* What a store that is lost leaves. *)
LEMMA NewStoreIs ==
  ASSUME NewStore, TransferTypeOK
  PROVE  /\ ServiceTypeOK' /\ UNCHANGED <<faults, backup>>
         /\ md' = {} /\ torn' = {} /\ \A d \in Domains : certs'[d] = Zero
         /\ \A h \in Callers : /\ call'[h] = NoCall /\ req'[h] = NoRequest
                               /\ xfer'[h] = NoTransfer
         /\ w' = AtRest
  <1>1. NoTransfer \in Transfers
    BY EmptyFileIs DEF NoTransfer, Transfers
  <1>2. /\ Zero \in CertAndKey /\ NoCall \in Call
        /\ NoRequest \in Requests /\ AtRest \in Worker
    BY RecordTypes, NoCallType, StoreRecordTypes
  <1>3. KeystoreTypeOK' /\ HandlersTypeOK' /\ DaemonTypeOK'
    BY <1>2
    DEF NewStore, TransferTypeOK, TypeOK, KeystoreTypeOK, HandlersTypeOK, DaemonTypeOK
  <1>4. ServiceTypeOK'
    BY <1>1, <1>3 DEF NewStore, TransferTypeOK, ServiceTypeOK, TypeOK
  <1> QED BY <1>4 DEF NewStore

(* The types, with what is left to do in the file. *)
LEMMA TransferTypes == TransferSpec => [](TransferTypeOK /\ TodoInFile)
  <1>1. TransferInit => TransferTypeOK /\ TodoInFile
    <2> SUFFICES ASSUME TransferInit PROVE TransferTypeOK /\ TodoInFile
      OBVIOUS
    <2>1. NoTransfer \in Transfers /\ NoTransfer.pc = "idle"
      BY EmptyFileIs DEF NoTransfer, Transfers
    <2>2. TransferTypeOK
      BY <2>1, InitType, EmptyFileIs DEF TransferInit, TransferTypeOK
    <2> QED BY <2>1, <2>2 DEF TransferInit, TodoInFile
  <1>2. TransferTypeOK /\ TodoInFile /\ [TransferNext]_transferVars
          => TransferTypeOK' /\ TodoInFile'
    <2> SUFFICES ASSUME TransferTypeOK, TodoInFile, [TransferNext]_transferVars
                 PROVE  TransferTypeOK' /\ TodoInFile'
      OBVIOUS
    <2>0. TypeOK /\ known \subseteq Domains /\ {} \in SUBSET Domains
      BY DEF TransferTypeOK
    <2>1. ASSUME NEW h \in Callers,
                 ExportAccount(h) \/ ImportStart(h) \/ TransferStep(h)
          PROVE  ServiceTypeOK' /\ TodoInFile'
      BY <2>1, TransferStepType
    <2>2. ASSUME NEW h \in Callers, ClientBeside(h)
          PROVE  ServiceTypeOK' /\ TodoInFile'
      <3>1. NewRequest(h) /\ UNCHANGED <<w, xfer, backup, known>>
        BY <2>2 DEF ClientBeside, ClientStep
      <3>2. TypeOK'
        BY <2>0, <3>1, NewRequestType DEF TypeOK, DaemonTypeOK
      <3> QED BY <3>1, <3>2 DEF TransferTypeOK, ServiceTypeOK, TodoInFile
    <2>3. ASSUME ServiceStep PROVE ServiceTypeOK' /\ TodoInFile'
      <3>1. UNCHANGED <<xfer, backup>> /\ Known({})
        BY <2>3 DEF ServiceStep
      <3>2. TypeOK'
        <4>1. CASE TickStep
          BY <2>0, <4>1, StartRunType DEF TickStep, TypeOK, HandlersTypeOK
        <4>2. CASE DaemonStep
          BY <2>0, <4>2, RunStepType DEF DaemonStep, TypeOK, HandlersTypeOK
        <4>3. ASSUME NEW h \in Callers, ServerStep(h) PROVE TypeOK'
          BY <2>0, <4>3, HandlerStepType DEF ServerStep, TypeOK, DaemonTypeOK
        <4> QED BY <2>3, <4>1, <4>2, <4>3 DEF ServiceStep
      <3>3. known' \subseteq Domains
        BY <2>0, <3>1, KnownType
      <3> QED BY <3>1, <3>2, <3>3 DEF TransferTypeOK, ServiceTypeOK, TodoInFile
    <2>4. ASSUME NEW d \in Domains, TimePasses(d)
          PROVE  ServiceTypeOK' /\ TodoInFile'
      <3>1. TypeOK'
        <4>1. CASE Age(d)
          BY <2>0, <4>1, AgeType
        <4>2. CASE UNCHANGED vars
          BY <2>0, <4>2
          DEF vars, keystoreVars, TypeOK, KeystoreTypeOK, HandlersTypeOK, DaemonTypeOK
        <4> QED BY <2>4, <4>1, <4>2 DEF TimePasses, AgeOut
      <3>2. AgeFiles(d)
        BY <2>4 DEF TimePasses
      <3>3. ServiceTypeOK'
        BY <3>1, <3>2, FilesAge DEF TransferTypeOK, ServiceTypeOK
      <3>4. \A h \in Callers :
              /\ xfer'[h].pc = xfer[h].pc /\ xfer'[h].todo = xfer[h].todo
              /\ xfer'[h].file.list = xfer[h].file.list
              /\ DOMAIN xfer'[h].file.certs = DOMAIN xfer[h].file.certs
        BY <3>2, FilesAge, TransferFields, AgedInIs DEF TransferTypeOK
      <3> QED BY <3>3, <3>4 DEF TodoInFile
    <2>5. ASSUME NewStore PROVE ServiceTypeOK' /\ TodoInFile'
      <3>1. ServiceTypeOK' /\ \A h \in Callers : xfer'[h].pc = "idle"
        BY <2>5, NewStoreIs DEF NoTransfer
      <3> QED BY <3>1 DEF TodoInFile
    <2>6. ASSUME UNCHANGED transferVars PROVE ServiceTypeOK' /\ TodoInFile'
      BY <2>6 DEF transferVars, vars, keystoreVars, TransferTypeOK, ServiceTypeOK, TypeOK,
                  KeystoreTypeOK, HandlersTypeOK, DaemonTypeOK, TodoInFile
    <2>7. ServiceTypeOK' /\ TodoInFile'
      BY <2>1, <2>2, <2>3, <2>4, <2>5, <2>6 DEF TransferNext, TransferAction
    <2>8. spoiled' \subseteq Files
      <3>1. torn' \subseteq Files /\ \A h \in Callers : call[h].domain \in Files
        BY <2>7 DEF ServiceTypeOK, TransferTypeOK, TypeOK, KeystoreTypeOK, Call, Files
      <3>2. CASE NoteSpoiled
        BY <3>1, <3>2 DEF NoteSpoiled, Spoils, TransferTypeOK
      <3>3. CASE UNCHANGED transferVars
        BY <3>3 DEF transferVars, TransferTypeOK
      <3> QED BY <3>2, <3>3 DEF TransferNext
    <2> QED BY <2>7, <2>8 DEF ServiceTypeOK, TransferTypeOK
  <1> QED BY <1>1, <1>2, PTL DEF TransferSpec

(* Every variable of the service and of the transfers has its type, in any *)
(* regime: an import neither adds a domain that is not in its file nor     *)
(* stores a record that the file does not have.                            *)
THEOREM TransferTypeCorrect == TransferSpec => []TransferTypeOK
  BY TransferTypes, PTL
-----------------------------------------------------------------------------
(* One request, run or transfer at a time, and imports of new domains: the *)
(* regime of AgreesAfterImports and SuccessRestores.  Who is active.       *)
Active(h) == req[h].pc # "idle" \/ xfer[h].pc # "idle"

OneActive == \A g, h \in Callers : Active(g) /\ Active(h) => g = h
Apart == \A h \in Callers : req[h].pc = "idle" \/ xfer[h].pc = "idle"
CallOfActive ==
  \A h \in Callers :
    call[h].pc # "idle" <=> req[h].pc = "calling" \/ xfer[h].pc = "adding"
AddOfImport ==
  \A h \in Callers :
    xfer[h].pc = "adding" =>
      call[h].op = "add" /\ call[h].domain \in xfer[h].file.list \ xfer[h].todo
TransferControl ==
  OneActive /\ Apart /\ CallOfActive /\ SameDomain /\ SoloRun /\ AddOfImport

(* What a call is about to do to the list and to the record.  No list is   *)
(* written that lacks a domain, unless the domain is being removed.        *)
CallKeeps(p) ==
  /\ call[p].pc \in AddPcs => call[p].op = "add"
  /\ call[p].pc \in RemovePcs => call[p].op = "remove"
  /\ call[p].pc = "addWrite" => md \subseteq call[p].list
  /\ call[p].pc = "addStore" => call[p].cert.named
  /\ call[p].pc = "done" /\ call[p].op = "add" /\ call[p].ok =>
       Listed(call[p].domain)

RunNamed == w.pc \in {"issued", "failStore", "errStore"} => w.cert.named

TornFiles == Backend # "filesystem" => torn = {}

(* What an import has put back so far, and that it is there.  While it     *)
(* stores records their domains are not in the list, hence the run does    *)
(* not touch them.                                                         *)
PutBack(h) ==
  IF xfer[h].pc = "certs" THEN DOMAIN xfer[h].file.certs \ xfer[h].todo
  ELSE IF xfer[h].pc \in {"domains", "adding", "reply"}
    THEN DOMAIN xfer[h].file.certs ELSE {}
Added(h) ==
  IF xfer[h].pc = "domains" THEN xfer[h].file.list \ xfer[h].todo
  ELSE IF xfer[h].pc = "adding"
    THEN xfer[h].file.list \ (xfer[h].todo \cup {call[h].domain})
  ELSE IF xfer[h].pc = "reply" THEN xfer[h].file.list ELSE {}

NewDomains ==
  \A h \in Callers :
    xfer[h].pc = "certs" => \A d \in DOMAIN xfer[h].file.certs : ~Listed(d)
Restores(h) ==
  ~xfer[h].failed =>
    /\ Added(h) \subseteq Managed
    /\ \A d \in PutBack(h) : xfer[h].file.certs[d].named => certs[d].named

Kept ==
  /\ TransferControl /\ Held /\ SerialInv /\ TornFiles /\ RunNamed /\ NewDomains
  /\ \A h \in Callers : CallKeeps(h) /\ Restores(h)

(* Until a request to Vault fails no write of the list loses a domain.     *)
ListKept == Backend = "vault" => faults = 0

(* Until anything fails list and records agree, but for the domains that   *)
(* an import has still to put in the list.                                 *)
OpenBy(h, d) ==
  \/ d \in DOMAIN xfer[h].file.certs /\ xfer[h].pc = "certs"
  \/ /\ d \in DOMAIN xfer[h].file.certs /\ d \in xfer[h].todo
     /\ xfer[h].pc \in {"domains", "adding"}
  \/ xfer[h].pc = "adding" /\ call[h].domain = d
Open(d) == \E h \in Callers : OpenBy(h, d)

FileAgrees(f) ==
  \A d \in DOMAIN f.certs :
    f.certs[d].named => (f.certs[d].managed <=> d \in f.list)
SameFlags(h) ==
  xfer[h].pc = "certs" =>
    \A d \in PutBack(h) : /\ certs[d].named = xfer[h].file.certs[d].named
                          /\ certs[d].managed = xfer[h].file.certs[d].managed
ToBeAdded(h) ==
  xfer[h].pc \in {"domains", "adding"} =>
    \A d \in xfer[h].todo \cap DOMAIN xfer[h].file.certs : ~Listed(d)
FileOf(h) ==
  /\ FileAgrees(xfer[h].file)
  /\ xfer[h].pc \in {"idle", "all", "list"} => DOMAIN xfer[h].file.certs = {}
  /\ xfer[h].pc = "records" => xfer[h].file.list = Managed

Agreeing ==
  /\ torn = {} /\ RunSettles /\ RunManaged /\ FileAgrees(backup)
  /\ \A d \in Domains : Untouched(d) /\ ~Open(d) => Settled(d)
  /\ \A h \in Callers :
       RequestSettles(h) /\ SameFlags(h) /\ ToBeAdded(h) /\ FileOf(h)

(* The certificates that are put back and not spoiled since are as young   *)
(* as in the file, and so are the copies about to be stored over them.     *)
Solid(c) == c.pem # "none" => c.named
FileSolid(f) == \A d \in DOMAIN f.certs : Solid(f.certs[d])
BackWhole(h) ==
  \A d \in PutBack(h) \ spoiled :
    d \notin torn /\ AsYoung(certs[d], xfer[h].file.certs[d])
CopiesYoung(h) ==
  xfer[h].pc \in {"domains", "adding", "reply"} =>
    \A d \in DOMAIN xfer[h].file.certs \ spoiled :
      /\ call[h].pc = "addStore" /\ call[h].domain = d =>
           AsYoung(call[h].cert, xfer[h].file.certs[d])
      /\ w.pc \in {"failStore", "errStore"} /\ w.domain = d =>
           AsYoung(w.cert, xfer[h].file.certs[d])
Young(h) == ~xfer[h].failed => BackWhole(h) /\ CopiesYoung(h)

Younger ==
  /\ \A d \in Domains : Solid(certs[d])
  /\ FileSolid(backup)
  /\ \A h \in Callers : /\ FileSolid(xfer[h].file) /\ Young(h)
                        /\ req[h].pc = "unmanage" => req[h].cert.named

-----------------------------------------------------------------------------
(* Who is active stays so when one caller moves, or none. *)
OnlyActs(h) ==
  \A g \in Callers \ {h} :
    call'[g] = call[g] /\ req'[g] = req[g] /\ xfer'[g] = xfer[g]

LEMMA MoverControl ==
  ASSUME NEW h \in Callers, TransferControl, OnlyActs(h), UNCHANGED w,
         \A g \in Callers \ {h} : ~Active(g),
         req'[h].pc = "idle" \/ xfer'[h].pc = "idle",
         w.pc # "idle" => req'[h].pc = "idle",
         call'[h].pc # "idle" <=> req'[h].pc = "calling" \/ xfer'[h].pc = "adding",
         req'[h].pc = "calling" => call'[h].domain = req'[h].domain,
         xfer'[h].pc = "adding" =>
           /\ call'[h].op = "add"
           /\ call'[h].domain \in xfer'[h].file.list \ xfer'[h].todo
  PROVE  TransferControl'
  <1>1. OneActive' /\ Apart'
    BY DEF OnlyActs, TransferControl, OneActive, Apart, Active
  <1>2. CallOfActive' /\ SameDomain' /\ AddOfImport'
    BY DEF OnlyActs, TransferControl, CallOfActive, SameDomain, AddOfImport
  <1>3. SoloRun'
    BY DEF OnlyActs, TransferControl, SoloRun, NoRequests, Active
  <1> QED BY <1>1, <1>2, <1>3 DEF TransferControl

(* When no transfer is under way these are the regimes of AcmeStoreProofs. *)
LEMMA ControlWithoutTransfers ==
  ASSUME NoTransfers
  PROVE  TransferControl <=> Control /\ SoloRun
  BY DEF NoTransfers, TransferControl, OneActive, Apart, CallOfActive, AddOfImport,
         Active, Control, Alone, CallOfRequest

LEMMA ControlWithoutTransfersNext ==
  ASSUME NoTransfers'
  PROVE  TransferControl' <=> (Control /\ SoloRun)'
  BY DEF NoTransfers, TransferControl, OneActive, Apart, CallOfActive, AddOfImport,
         Active, Control, Alone, CallOfRequest

(* Whoever transfers does it alone. *)
LEMMA TransferAlone ==
  ASSUME NEW h \in Callers, TransferControl, xfer[h].pc # "idle"
  PROVE  /\ NoRequests /\ \A g \in Callers : req[g].pc = "idle"
         /\ \A g \in Callers \ {h} : ~Active(g) /\ call[g].pc = "idle"
         /\ call[h].pc # "idle" <=> xfer[h].pc = "adding"
  BY DEF TransferControl, OneActive, Apart, CallOfActive, Active, NoRequests

-----------------------------------------------------------------------------
(* What calls and runs leave of the list and of the named records. *)

(* A list that was kept so far loses no write and no read. *)
LEMMA KeptBefore ==
  ASSUME KeystoreTypeOK, Fault \/ NoFault, ListKept'
  PROVE  ListKept /\ (Backend = "vault" => ~Fault)
  BY UnfailedBefore DEF ListKept

LEMMA KeptWrites ==
  ASSUME Backend = "vault" => ~Fault, TornFiles
  PROVE  /\ \A l : WriteListFails(l) => UNCHANGED md /\ TornFiles'
         /\ \A l : WriteList(l) => md' = l /\ TornFiles'
         /\ \A d, c : StoreCertAndKey(d, c) \/ StoreFails(d, c) => TornFiles'
         /\ \A d : DeleteCertAndKey(d) \/ DeleteFails(d) => TornFiles'
         /\ Backend = "vault" => \A f : ~ReadFails(f)
  BY DEF WriteListFails, WriteList, TornFiles, StoreCertAndKey, StoreFails,
         DeleteCertAndKey, DeleteFails, ReadFails

(* The steps of a keystore call lose no record and, if it adds, no domain. *)
LEMMA CallStepKeeps ==
  ASSUME NEW p \in Callers, KeystoreTypeOK, Backend = "vault" => ~Fault, TornFiles,
         AddListed, AddWrites, CallKeeps(p), CallStep(p)
  PROVE  /\ TornFiles' /\ CallKeeps(p)' /\ call'[p].op = call[p].op
         /\ call[p].op = "add" => md \subseteq md'
         /\ \A d \in Domains : certs[d].named => certs'[d].named
  <1> DEFINE d == call[p].domain
  <1>0. /\ call \in [Callers -> Call] /\ call[p] \in Call
        /\ d \in Domains /\ certs \in [Domains -> CertAndKey]
        /\ certs[d] \in CertAndKey /\ call[p].sans \in Sans
        /\ call[p].cert \in CertAndKey
    BY DEF KeystoreTypeOK, Call
  <1>a. ASSUME NEW k, Goto(p, k)
        PROVE  /\ call'[p].pc = k /\ call'[p].op = call[p].op
    BY <1>0, <1>a DEF Goto, Call
  <1>b. ASSUME NEW k, NEW l, NEW c, GotoWith(p, k, l, c)
        PROVE  /\ call'[p].pc = k /\ call'[p].list = l /\ call'[p].cert = c
               /\ call'[p].op = call[p].op
    BY <1>0, <1>b DEF GotoWith, Call
  <1>c. ASSUME NEW ok, Finish(p, ok)
        PROVE  /\ call'[p].pc = "done" /\ call'[p].ok = ok
               /\ call'[p].op = call[p].op /\ call'[p].domain = d
    BY <1>0, <1>c DEF Finish, Call
  <1>e. ASSUME Refuse(p)
        PROVE  CallKeeps(p)' /\ call'[p].op = call[p].op
    <2>1. Finish(p, FALSE)
      BY <1>e DEF Refuse
    <2>2. call'[p].pc = "done" /\ ~call'[p].ok /\ call'[p].op = call[p].op
      BY <1>c, <2>1
    <2> QED BY <2>2 DEF CallKeeps, AddPcs, RemovePcs
  <1>f. ASSUME Succeed(p), call[p].op = "add" => d \in Managed'
        PROVE  CallKeeps(p)' /\ call'[p].op = call[p].op
    <2>1. Finish(p, TRUE)
      BY <1>f DEF Succeed
    <2>2. call'[p].pc = "done" /\ call'[p].op = call[p].op /\ call'[p].domain = d
      BY <1>c, <2>1
    <2> QED BY <1>f, <2>2 DEF CallKeeps, AddPcs, RemovePcs, Listed
  <1>1. CASE VaultAddRead(p)
    <2>1. /\ call[p].pc = "add" /\ UNCHANGED <<md, certs, torn>>
          /\ Refuse(p) \/ GotoWith(p, "addWrite", Appended(p, md), Zero)
      BY <1>1, KeptWrites DEF VaultAddRead, AddTo, At
    <2>2. call[p].op = "add"
      BY <2>1 DEF CallKeeps, AddPcs
    <2>3. CASE GotoWith(p, "addWrite", Appended(p, md), Zero)
      <3>1. /\ call'[p].pc = "addWrite" /\ call'[p].list = Appended(p, md)
            /\ call'[p].op = "add"
        BY <1>b, <2>2, <2>3
      <3>2. md' \subseteq call'[p].list
        BY <2>1, <3>1 DEF Appended
      <3>3. CallKeeps(p)'
        BY <3>1, <3>2 DEF CallKeeps, AddPcs, RemovePcs
      <3> QED BY <2>1, <2>2, <3>1, <3>3 DEF TornFiles
    <2> QED BY <1>e, <2>1, <2>3 DEF TornFiles
  <1>2. CASE VaultAddWrite(p)
    <2>1. call[p].pc = "addWrite" /\ UNCHANGED certs
      BY <1>2 DEF VaultAddWrite, At
    <2>2. call[p].op = "add" /\ md \subseteq call[p].list
      BY <2>1 DEF CallKeeps, AddPcs
    <2>3. CASE WriteList(call[p].list) /\ Goto(p, "addGet")
      <3>1. md' = call[p].list /\ TornFiles'
        BY <2>3, KeptWrites
      <3>2. call'[p].pc = "addGet" /\ call'[p].op = "add"
        BY <1>a, <2>2, <2>3
      <3>3. CallKeeps(p)'
        BY <3>2 DEF CallKeeps, AddPcs, RemovePcs
      <3> QED BY <2>1, <2>2, <3>1, <3>2, <3>3
    <2>4. CASE WriteListFails(call[p].list) /\ Refuse(p)
      BY <1>e, <2>1, <2>4, KeptWrites
    <2> QED BY <1>2, <2>3, <2>4 DEF VaultAddWrite
  <1>3. CASE FileAddList(p)
    <2>1. call[p].pc = "add" /\ UNCHANGED certs
      BY <1>3 DEF FileAddList, At
    <2>2. call[p].op = "add"
      BY <2>1 DEF CallKeeps, AddPcs
    <2>3. \/ Refuse(p) /\ UNCHANGED md /\ TornFiles'
          \/ WriteList(Appended(p, md)) /\ Goto(p, "addGet")
      BY <1>3, KeptWrites DEF FileAddList, TornFiles
    <2>4. CASE WriteList(Appended(p, md)) /\ Goto(p, "addGet")
      <3>1. md \subseteq md' /\ TornFiles'
        BY <2>4, KeptWrites DEF Appended
      <3>2. call'[p].pc = "addGet" /\ call'[p].op = "add"
        BY <1>a, <2>2, <2>4
      <3>3. CallKeeps(p)'
        BY <3>2 DEF CallKeeps, AddPcs, RemovePcs
      <3> QED BY <2>1, <2>2, <3>1, <3>2, <3>3
    <2> QED BY <1>e, <2>1, <2>3, <2>4
  <1>4. CASE VaultRemoveRead(p) \/ VaultRemoveWrite(p) \/ FileRemove(p)
             \/ MemoryRemove(p)
    <2>1. /\ call[p].pc \in RemovePcs /\ UNCHANGED certs
          /\ \/ Refuse(p) \/ Succeed(p)
             \/ \E l : GotoWith(p, "removeWrite", l, Zero)
      BY <1>4 DEF VaultRemoveRead, VaultRemoveWrite, FileRemove, MemoryRemove,
                  RemoveFrom, At, RemovePcs
    <2>2. call[p].op = "remove"
      BY <2>1 DEF CallKeeps
    <2>3. TornFiles'
      BY <1>4, KeptWrites DEF VaultRemoveRead, VaultRemoveWrite, FileRemove,
                              MemoryRemove, TornFiles
    <2>4. ASSUME NEW l, GotoWith(p, "removeWrite", l, Zero)
          PROVE  CallKeeps(p)' /\ call'[p].op = call[p].op
      <3>1. call'[p].pc = "removeWrite" /\ call'[p].op = "remove"
        BY <1>b, <2>2, <2>4
      <3> QED BY <2>2, <3>1 DEF CallKeeps, AddPcs, RemovePcs
    <2> QED BY <1>e, <1>f, <2>1, <2>2, <2>3, <2>4
  <1>5. CASE AddGet(p)
    <2>1. /\ call[p].pc = "addGet" /\ UNCHANGED <<md, certs, torn>>
          /\ \/ GotoWith(p, "addStore", {}, Placeholder(call[p].sans))
             \/ /\ certs[d].named
                /\ GotoWith(p, "addStore", {}, Adopted(certs[d]))
             \/ Succeed(p)
      BY <1>5 DEF AddGet, NeedsPlaceholder
    <2>2. call[p].op = "add" /\ d \in Managed'
      BY <2>1, ListedStays DEF CallKeeps, AddPcs, AddListed, Listed
    <2>3. ASSUME NEW c \in CertAndKey, c.named, GotoWith(p, "addStore", {}, c)
          PROVE  CallKeeps(p)' /\ call'[p].op = call[p].op
      <3>1. call'[p].pc = "addStore" /\ call'[p].cert = c /\ call'[p].op = "add"
        BY <1>b, <2>2, <2>3
      <3> QED BY <2>2, <2>3, <3>1 DEF CallKeeps, AddPcs, RemovePcs
    <2>4. CallKeeps(p)' /\ call'[p].op = call[p].op
      BY <1>0, <1>f, <2>1, <2>2, <2>3, NamesAndFlags, RecordTypes, ZenonT(60)
    <2> QED BY <2>1, <2>4 DEF TornFiles
  <1>6. CASE AddStore(p)
    <2>1. /\ call[p].pc = "addStore" /\ UNCHANGED md /\ Succeed(p)
          /\ StoreCertAndKey(d, call[p].cert) \/ StoreFails(d, call[p].cert)
      BY <1>6 DEF AddStore
    <2>2. call[p].cert.named /\ d \in Managed'
      BY <2>1, ListedStays DEF CallKeeps, AddListed, Listed
    <2>3. /\ certs'[d] = call[p].cert \/ certs'[d] = certs[d]
          /\ \A e \in Domains \ {d} : certs'[e] = certs[e]
      BY <1>0, <2>1, StoreOutcome
    <2>4. TornFiles'
      BY <2>1, KeptWrites
    <2> QED BY <1>f, <2>1, <2>2, <2>3, <2>4
  <1>7. CASE MemoryAdd(p)
    <2>1. /\ UNCHANGED torn
          /\ \/ Refuse(p) /\ UNCHANGED <<md, certs>>
             \/ /\ md' = md \cup {EntryFor(d, NoSans)} /\ Succeed(p)
                /\ certs' = IF certs[d] = Zero THEN certs
                            ELSE [certs EXCEPT ![d] = TakenOver(certs[d])]
      BY <1>0, <1>7 DEF MemoryAdd
    <2>2. CASE /\ md' = md \cup {EntryFor(d, NoSans)} /\ Succeed(p)
               /\ certs' = IF certs[d] = Zero THEN certs
                           ELSE [certs EXCEPT ![d] = TakenOver(certs[d])]
      <3>1. d \in Managed'
        BY <2>2, NamesOf, ListedAfter DEF Listed, Managed
      <3>2. \A e \in Domains : certs[e].named => certs'[e].named
        <4>1. TakenOver(certs[d]).named = certs[d].named
          BY <1>0, NamesAndFlags
        <4>2. certs' = certs \/ certs' = [certs EXCEPT ![d] = TakenOver(certs[d])]
          BY <2>2
        <4> QED BY <1>0, <4>1, <4>2
      <3>3. CallKeeps(p)' /\ call'[p].op = call[p].op
        BY <1>f, <2>2, <3>1
      <3>4. md \subseteq md'
        BY <2>2
      <3>5. TornFiles'
        BY <2>1 DEF TornFiles
      <3> QED BY <3>2, <3>3, <3>4, <3>5
    <2> QED BY <1>e, <2>1, <2>2 DEF TornFiles
  <1> QED BY <1>1, <1>2, <1>3, <1>4, <1>5, <1>6, <1>7
          DEF CallStep, AddStep, RemoveStep

(* A run stores named records, and leaves named what was. *)
LEMMA RunStepKeeps ==
  ASSUME TypeOK, Backend = "vault" => ~Fault, TornFiles, RunNamed,
         TickStep \/ DaemonStep
  PROVE  /\ TornFiles' /\ RunNamed'
         /\ \A d \in Domains : certs[d].named => certs'[d].named
  <1>0. /\ w \in Worker /\ w.domain \in Domains /\ w.cert \in CertAndKey
        /\ certs \in [Domains -> CertAndKey] /\ certs[w.domain] \in CertAndKey
        /\ w.sans \in Sans /\ KeystoreTypeOK
    BY DEF TypeOK, DaemonTypeOK, Worker, KeystoreTypeOK
  <1>a. /\ \A k : WGoto(k) => w'.pc = k
        /\ \A k, c : WStore(k, c) => w'.pc = k /\ w'.cert = c
        /\ \A S : NextDomain(S) => w'.pc \in {"idle", "next"}
    <2>1. ASSUME NEW k, WGoto(k) PROVE w'.pc = k
      BY <1>0, <2>1 DEF WGoto, Worker
    <2>2. ASSUME NEW k, NEW c, WStore(k, c) PROVE w'.pc = k /\ w'.cert = c
      BY <1>0, <2>2 DEF WStore, Worker
    <2>3. ASSUME NEW S, NextDomain(S) PROVE w'.pc \in {"idle", "next"}
      BY <2>3 DEF NextDomain, AtRest
    <2> QED BY <2>1, <2>2, <2>3
  <1>1. ASSUME StartRun \/ CheckManaged \/ ReadSans \/ ReadLeaf
        PROVE  UNCHANGED <<certs, torn>> /\ RunNamed'
    <2>1. \/ UNCHANGED w
          \/ w'.pc \in {"idle", "next", "sans", "leaf", "order", "errGet"}
      BY <1>0, <1>1, <1>a DEF StartRun, CheckManaged, ReadSans, ReadLeaf, Worker
    <2> QED BY <1>1, <2>1 DEF RunNamed, StartRun, CheckManaged, ReadSans, ReadLeaf
  <1>2. ASSUME Order PROVE UNCHANGED <<certs, torn>> /\ RunNamed'
    <2>1. \/ WStore("issued", NewCertAndKey(w.domain, w.sans))
          \/ w'.pc \in {"failGet", "errGet"}
      BY <1>2, <1>a DEF Order
    <2>2. NewCertAndKey(w.domain, w.sans).named
      BY <1>0, NamesAndFlags
    <2>3. RunNamed'
      BY <1>a, <2>1, <2>2 DEF RunNamed
    <2> QED BY <1>2, <2>3 DEF Order
  <1>3. ASSUME RenewFailGet \/ OrdersFailGet
        PROVE  UNCHANGED <<certs, torn>> /\ RunNamed'
    <2>1. \/ /\ certs[w.domain].named
             /\ \E k : WStore(k, Failed(certs[w.domain]))
          \/ w'.pc \in {"errGet", "idle", "next"}
      BY <1>3, <1>a DEF RenewFailGet, OrdersFailGet, MarkGet, GiveUp
    <2>2. certs[w.domain].named => Failed(certs[w.domain]).named
      BY <1>0, NamesAndFlags
    <2>3. RunNamed'
      BY <1>a, <2>1, <2>2 DEF RunNamed
    <2> QED BY <1>3, <2>3 DEF RenewFailGet, OrdersFailGet, MarkGet
  <1>4. ASSUME StoreIssued \/ RenewFailStore \/ OrdersFailStore
        PROVE  /\ TornFiles' /\ RunNamed'
               /\ \A d \in Domains : certs[d].named => certs'[d].named
    <2>1. /\ StoreCertAndKey(w.domain, w.cert) \/ StoreFails(w.domain, w.cert)
          /\ w.pc \in {"issued", "failStore", "errStore"}
          /\ w'.pc \in {"idle", "next", "errGet"}
      BY <1>4, <1>a DEF StoreIssued, RenewFailStore, OrdersFailStore, MarkStore, GiveUp
    <2>2. /\ certs'[w.domain] = w.cert \/ certs'[w.domain] = certs[w.domain]
          /\ \A e \in Domains \ {w.domain} : certs'[e] = certs[e]
      BY <1>0, <2>1, StoreOutcome
    <2> QED BY <2>1, <2>2, KeptWrites DEF RunNamed
  <1>5. StartRun \/ RunStep
    BY DEF TickStep, DaemonStep
  <1>6. UNCHANGED <<certs, torn>> => TornFiles' /\ certs' = certs
    BY DEF TornFiles
  <1> QED BY <1>1, <1>2, <1>3, <1>4, <1>5, <1>6 DEF RunStep

-----------------------------------------------------------------------------
(* Kept, step by step. *)

LEMMA KeptWithoutTransfers ==
  ASSUME NoTransfers', OneInv', SerialInv', TornFiles', RunNamed',
         \A h \in Callers : CallKeeps(h)'
  PROVE  Kept'
  <1>1. TransferControl'
    BY ControlWithoutTransfersNext DEF OneInv, SerialInv
  <1>2. NewDomains' /\ \A h \in Callers : Restores(h)'
    BY DEF NoTransfers, NewDomains, Restores, Added, PutBack
  <1> QED BY <1>1, <1>2 DEF Kept, OneInv

LEMMA OneWithoutTransfers ==
  ASSUME NoTransfers, Kept
  PROVE  OneInv /\ SerialInv
  BY ControlWithoutTransfers DEF Kept, OneInv

(* A call that another step leaves, or that is answered. *)
LEMMA CallRests ==
  ASSUME NEW p \in Callers, UNCHANGED md, call'[p] = call[p] \/ call'[p].pc = "idle",
         CallKeeps(p)
  PROVE  CallKeeps(p)'
  BY ListedStays DEF CallKeeps, AddPcs, RemovePcs

(* A call that begins. *)
LEMMA CallBegins ==
  ASSUME NEW p \in Callers, call \in [Callers -> Call], NEW k \in {"add", "remove"},
         NEW d, NEW s, Begin(p, k, d, s)
  PROVE  /\ CallKeeps(p)' /\ \A q \in Callers \ {p} : call'[q] = call[q]
         /\ call[p].pc = "idle" /\ call'[p].pc = k /\ call'[p].op = k
         /\ call'[p].domain = d /\ call'[p].cert = Zero
  <1>1. /\ call[p].pc = "idle" /\ call'[p].pc = k /\ call'[p].op = k
        /\ call'[p].domain = d /\ call'[p].cert = Zero
        /\ \A q \in Callers \ {p} : call'[q] = call[q]
    BY DEF Begin, NoCall
  <1>2. CallKeeps(p)'
    BY <1>1 DEF CallKeeps, AddPcs, RemovePcs
  <1> QED BY <1>1, <1>2

(* A request that arrives. *)
LEMMA RequestArrives ==
  ASSUME NEW h \in Callers, call \in [Callers -> Call], req \in [Callers -> Requests],
         NewRequest(h), CallKeeps(h)
  PROVE  /\ UNCHANGED <<md, certs, torn, faults>> /\ CallKeeps(h)'
         /\ \A q \in Callers \ {h} : call'[q] = call[q] /\ req'[q] = req[q]
         /\ req'[h].pc \in {"calling", "delGet"}
  <1>1. /\ UNCHANGED <<md, certs, torn, faults>>
        /\ \A q \in Callers \ {h} : req'[q] = req[q]
        /\ req'[h].pc \in {"calling", "delGet"}
        /\ \/ UNCHANGED call
           \/ \E k \in {"add", "remove"} : \E d, s : Begin(h, k, d, s)
    BY DEF NewRequest, AddDomain, RemoveDomain, DeleteCert, Serve, BeginAdd,
           BeginRemove, NoRequest
  <1>2. CallKeeps(h)' /\ \A q \in Callers \ {h} : call'[q] = call[q]
    BY <1>1, CallBegins, CallRests
  <1> QED BY <1>1, <1>2

LEMMA ClientBesideKept ==
  ASSUME NEW h \in Callers, ~Overlap, TransferTypeOK, Kept, ClientBeside(h)
  PROVE  Kept'
  <1>0. /\ NoTransfers /\ NoTransfers' /\ ClientStep(h) /\ NewRequest(h)
        /\ UNCHANGED w /\ TypeOK
    BY DEF ClientBeside, NoTransfers, ClientStep, TransferTypeOK
  <1>1. OneInv' /\ SerialInv'
    BY <1>0, OneWithoutTransfers, NewRequestHolds, NewRequestSerial DEF OneClient
  <1>2. /\ UNCHANGED <<md, certs, torn>> /\ CallKeeps(h)'
        /\ \A q \in Callers \ {h} : call'[q] = call[q]
    BY <1>0, RequestArrives DEF TypeOK, KeystoreTypeOK, HandlersTypeOK, Kept
  <1>3. \A q \in Callers : CallKeeps(q)'
    BY <1>2, CallRests DEF Kept
  <1>4. TornFiles' /\ RunNamed'
    BY <1>0, <1>2 DEF Kept, TornFiles, RunNamed
  <1> QED BY <1>0, <1>1, <1>3, <1>4, KeptWithoutTransfers

(* A step of a request: the steps that are not of its keystore call leave  *)
(* the list and store at most one record.                                  *)
LEMMA RequestGoesOn ==
  ASSUME NEW h \in Callers, call \in [Callers -> Call], req \in [Callers -> Requests],
         HandlerStep(h), ~KeystoreCall(h)
  PROVE  /\ UNCHANGED md /\ req[h].pc # "idle"
         /\ UNCHANGED call \/ Answered(h)
         /\ \/ UNCHANGED torn
            \/ \E d, c : StoreCertAndKey(d, c) \/ StoreFails(d, c)
            \/ \E d : DeleteCertAndKey(d) \/ DeleteFails(d)
  BY DEF HandlerStep, AddDomainReply, HardDelete, SoftRefused, SoftGet, SoftStore,
         DeleteCertCheck, DeleteCertDelete, CallReturned

(* Who serves a request serves it alone. *)
LEMMA ServerAlone ==
  ASSUME NEW h \in Callers, TransferTypeOK, TransferControl,
         xfer[h].pc = "idle", HandlerStep(h)
  PROVE  req[h].pc # "idle" /\ NoTransfers /\ w.pc = "idle"
  <1>1. req[h].pc # "idle"
    <2>1. CASE KeystoreCall(h)
      <3>1. call[h].pc # "idle"
        BY <2>1 DEF KeystoreCall, CallStep, AddStep, RemoveStep, VaultAddRead,
             VaultAddWrite, FileAddList, AddGet, AddStore, MemoryAdd, VaultRemoveRead,
             VaultRemoveWrite, FileRemove, MemoryRemove, At
      <3> QED BY <3>1 DEF TransferControl, CallOfActive
    <2>2. CASE ~KeystoreCall(h)
      BY <2>2, RequestGoesOn
         DEF TransferTypeOK, TypeOK, KeystoreTypeOK, HandlersTypeOK
    <2> QED BY <2>1, <2>2
  <1>2. NoTransfers
    BY <1>1 DEF TransferControl, OneActive, Active, NoTransfers
  <1>3. w.pc = "idle"
    BY <1>1 DEF TransferControl, SoloRun, NoRequests
  <1> QED BY <1>1, <1>2, <1>3

LEMMA ServerStepKept ==
  ASSUME NEW h \in Callers, ~Overlap, TransferTypeOK, Kept,
         Backend = "vault" => ~Fault,
         xfer[h].pc = "idle", ServerStep(h), UNCHANGED xfer
  PROVE  Kept'
  <1>0. /\ HandlerStep(h) /\ UNCHANGED w /\ TypeOK /\ TransferControl
        /\ call \in [Callers -> Call] /\ req \in [Callers -> Requests]
        /\ KeystoreTypeOK
    BY DEF ServerStep, TransferTypeOK, Kept, TypeOK, KeystoreTypeOK, HandlersTypeOK
  <1>1. NoTransfers /\ NoTransfers'
    BY <1>0, ServerAlone DEF NoTransfers
  <1>2. OneInv /\ SerialInv /\ OneInv' /\ SerialInv'
    BY <1>0, <1>1, OneWithoutTransfers, HandlerStepHolds, HandlerStepSerial
  <1>3. TornFiles' /\ \A q \in Callers : CallKeeps(q)'
    <2>1. CASE KeystoreCall(h)
      <3>1. TornFiles' /\ CallKeeps(h)'
        BY <1>0, <1>2, <2>1, CallStepKeeps DEF KeystoreCall, Kept, SerialInv
      <3>2. ASSUME NEW q \in Callers \ {h} PROVE CallKeeps(q)'
        <4>1. call[q].pc = "idle"
          BY <1>0, ServerAlone DEF TransferControl, OneActive, Active, CallOfActive
        <4>2. call'[q] = call[q]
          BY <1>0, <1>2, <2>1, CallStepHolds DEF KeystoreCall, OneInv, Held
        <4> QED BY <4>1, <4>2 DEF CallKeeps, AddPcs, RemovePcs
      <3> QED BY <3>1, <3>2
    <2>2. CASE ~KeystoreCall(h)
      <3>1. \A q \in Callers : CallKeeps(q)'
        BY <1>0, <2>2, RequestGoesOn, AtRestHolds, CallRests DEF Kept
      <3>2. TornFiles'
        BY <1>0, <2>2, RequestGoesOn, KeptWrites DEF Kept, TornFiles
      <3> QED BY <3>1, <3>2
    <2> QED BY <2>1, <2>2
  <1>4. RunNamed'
    BY <1>0 DEF Kept, RunNamed
  <1> QED BY <1>1, <1>2, <1>3, <1>4, KeptWithoutTransfers

(* What runs leave of a transfer. *)
LEMMA RestoresNext ==
  ASSUME NEW h \in Callers, Restores(h), xfer'[h] = xfer[h],
         call'[h].domain = call[h].domain, md \subseteq md',
         \A d \in PutBack(h) : certs[d].named => certs'[d].named
  PROVE  Restores(h)'
  <1>1. PutBack(h)' = PutBack(h) /\ Added(h)' = Added(h)
    BY DEF PutBack, Added
  <1>2. Managed \subseteq Managed'
    BY DEF Managed, DomainsOf
  <1> QED BY <1>1, <1>2 DEF Restores

LEMMA PutBackIn ==
  ASSUME TransferTypeOK
  PROVE  \A h \in Callers : PutBack(h) \subseteq Domains
  <1> TAKE h \in Callers
  <1>1. DOMAIN xfer[h].file.certs \subseteq Domains
    BY TransferFields, FileFields DEF TransferTypeOK
  <1> QED BY <1>1 DEF PutBack

LEMMA RunStepKept ==
  ASSUME ~Overlap, TransferTypeOK, Kept, Backend = "vault" => ~Fault,
         TickStep \/ DaemonStep, UNCHANGED xfer
  PROVE  Kept'
  <1>0. TypeOK /\ UNCHANGED <<md, call, req>>
    BY RunLeaves DEF TransferTypeOK
  <1>1. Held' /\ SerialInv'
    BY <1>0, RunStepHolds, RunStepSerial DEF Kept
  <1>2. /\ TornFiles' /\ RunNamed'
        /\ \A d \in Domains : certs[d].named => certs'[d].named
    BY <1>0, RunStepKeeps DEF Kept
  <1>3. TransferControl'
    <2>1. SoloRun'
      BY <1>1 DEF SerialInv
    <2> QED BY <1>0, <2>1 DEF Kept, TransferControl, OneActive, Apart, CallOfActive,
                            SameDomain, AddOfImport, Active
  <1>4. NewDomains' /\ \A h \in Callers : CallKeeps(h)'
    BY <1>0, ListedStays, CallRests DEF Kept, NewDomains
  <1>5. \A h \in Callers : Restores(h)'
    BY <1>0, <1>2, PutBackIn, RestoresNext DEF Kept
  <1> QED BY <1>1, <1>2, <1>3, <1>4, <1>5 DEF Kept

(* A step of a transfer that leaves the store. *)
LEMMA StoreRestsKept ==
  ASSUME Kept, UNCHANGED <<md, certs, torn, call, req, w>>
  PROVE  /\ Held' /\ SerialInv' /\ TornFiles' /\ RunNamed'
         /\ \A h \in Callers : CallKeeps(h)'
  <1>1. Managed' = Managed /\ \A d : Listed(d)' <=> Listed(d)
    BY ListedStays
  <1>2. Held'
    BY DEF Kept, Held, CallHolds, RequestHolds, RunHolds, NoNeedlessOrder
  <1>3. SerialInv'
    BY <1>1 DEF Kept, SerialInv, SoloRun, NoRequests, RunListed, DeleteChecked,
                AddListed, AddWrites, UnmanageNamed, DomainsOf
  <1>4. TornFiles' /\ RunNamed'
    BY DEF Kept, TornFiles, RunNamed
  <1>5. \A h \in Callers : CallKeeps(h)'
    BY CallRests DEF Kept
  <1> QED BY <1>2, <1>3, <1>4, <1>5

(* The one that transfers, or begins to. *)
LEMMA TransferringAlone ==
  ASSUME NEW h \in Callers, ~Overlap, TransferControl,
         xfer[h].pc # "idle" \/ MayTransfer(h)
  PROVE  /\ req[h].pc = "idle" /\ NoRequests
         /\ \A g \in Callers \ {h} : ~Active(g) /\ call[g].pc = "idle"
         /\ call[h].pc # "idle" <=> xfer[h].pc = "adding"
  <1>1. CASE xfer[h].pc # "idle"
    BY <1>1, TransferAlone
  <1>2. CASE MayTransfer(h)
    BY <1>2 DEF MayTransfer, NoRequests, NoTransfers, Active, TransferControl,
                CallOfActive
  <1> QED BY <1>1, <1>2

LEMMA QuietControl ==
  ASSUME NEW h \in Callers, ~Overlap, TransferControl,
         xfer[h].pc # "idle" \/ MayTransfer(h), xfer[h].pc # "adding",
         UNCHANGED <<call, req, w>>, OthersWait(h), xfer'[h].pc # "adding"
  PROVE  TransferControl'
  <1>1. /\ req[h].pc = "idle" /\ call[h].pc = "idle"
        /\ \A g \in Callers \ {h} : ~Active(g)
    BY TransferringAlone
  <1>2. OnlyActs(h)
    BY DEF OnlyActs, OthersWait
  <1> QED BY <1>1, <1>2, MoverControl

(* Nothing is put back yet, or nothing more of it is asked. *)
LEMMA QuietRestores ==
  ASSUME NEW h \in Callers, Kept, UNCHANGED <<md, certs, call>>, OthersWait(h),
         xfer'[h].pc = "certs" => \A d \in DOMAIN xfer'[h].file.certs : ~Listed(d),
         Restores(h)'
  PROVE  NewDomains' /\ \A g \in Callers : Restores(g)'
  <1>1. NewDomains'
    BY ListedStays DEF Kept, NewDomains, OthersWait
  <1>2. ASSUME NEW g \in Callers \ {h} PROVE Restores(g)'
    BY RestoresNext DEF Kept, OthersWait
  <1> QED BY <1>1, <1>2

LEMMA ExportStepKept ==
  ASSUME NEW h \in Callers, ~Overlap, TransferTypeOK, Kept,
         \/ ExportAccount(h) \/ ExportAll(h) \/ ExportList(h)
         \/ ExportRecord(h) \/ ExportReply(h) \/ ImportReply(h)
  PROVE  Kept'
  <1>1. /\ StoreRests /\ xfer[h].pc # "adding"
        /\ xfer[h].pc # "idle" \/ MayTransfer(h)
        /\ \/ UNCHANGED xfer
           \/ OthersWait(h) /\ xfer'[h].pc \in {"idle", "all", "list", "records"}
    BY ExportSteps, ImportSteps DEF Becomes, Ends
  <1>2. /\ Held' /\ SerialInv' /\ TornFiles' /\ RunNamed'
        /\ \A q \in Callers : CallKeeps(q)'
    BY <1>1, StoreRestsKept DEF StoreRests
  <1>3. CASE UNCHANGED xfer
    <2>1. TransferControl'
      BY <1>1, <1>3, QuietControl DEF Kept, StoreRests, OthersWait
    <2>2. NewDomains' /\ \A g \in Callers : Restores(g)'
      BY <1>1, <1>3, ListedStays, RestoresNext DEF Kept, StoreRests, NewDomains
    <2> QED BY <1>2, <2>1, <2>2 DEF Kept
  <1>4. CASE OthersWait(h) /\ xfer'[h].pc \in {"idle", "all", "list", "records"}
    <2>1. TransferControl'
      BY <1>1, <1>4, QuietControl DEF Kept, StoreRests
    <2>2. Restores(h)'
      BY <1>4 DEF Restores, Added, PutBack
    <2>3. NewDomains' /\ \A g \in Callers : Restores(g)'
      BY <1>1, <1>4, <2>2, QuietRestores DEF StoreRests
    <2> QED BY <1>2, <2>1, <2>3 DEF Kept
  <1> QED BY <1>1, <1>3, <1>4

LEMMA ImportStartKept ==
  ASSUME NEW h \in Callers, ~Overlap, RestoreOnly, TransferTypeOK, Kept, ImportStart(h)
  PROVE  Kept'
  <1>1. /\ StoreRests /\ xfer[h].pc = "idle" /\ MayTransfer(h) /\ Restoring
        /\ OthersWait(h) /\ xfer'[h].pc = "certs" /\ xfer'[h].file = backup
        /\ xfer'[h].todo = DOMAIN backup.certs
    BY ImportSteps DEF Becomes
  <1>2. /\ Held' /\ SerialInv' /\ TornFiles' /\ RunNamed'
        /\ \A q \in Callers : CallKeeps(q)'
    BY <1>1, StoreRestsKept DEF StoreRests
  <1>3. TransferControl'
    BY <1>1, QuietControl DEF Kept, StoreRests
  <1>4. Restores(h)'
    BY <1>1 DEF Restores, Added, PutBack
  <1>5. NewDomains' /\ \A g \in Callers : Restores(g)'
    BY <1>1, <1>4, QuietRestores DEF StoreRests, Restoring
  <1> QED BY <1>2, <1>3, <1>5 DEF Kept

(* All records have been stored, or all domains added. *)
LEMMA PhaseDoneKept ==
  ASSUME NEW h \in Callers, ~Overlap, TransferTypeOK, Kept, PhaseDone(h)
  PROVE  Kept'
  <1> DEFINE x == xfer[h]
  <1>1. /\ StoreRests /\ x.todo = {} /\ OthersWait(h)
        /\ xfer'[h].file = x.file /\ xfer'[h].failed = x.failed
        /\ \/ /\ x.pc = "certs" /\ xfer'[h].pc = "domains"
              /\ xfer'[h].todo = x.file.list
           \/ /\ x.pc = "domains" /\ xfer'[h].pc = "reply"
    BY ImportSteps DEF Becomes
  <1>2. /\ Held' /\ SerialInv' /\ TornFiles' /\ RunNamed'
        /\ \A q \in Callers : CallKeeps(q)'
    BY <1>1, StoreRestsKept DEF StoreRests
  <1>3. TransferControl'
    BY <1>1, QuietControl DEF Kept, StoreRests
  <1>4. Restores(h)'
    <2>1. PutBack(h)' = PutBack(h) /\ Added(h)' = Added(h)
      BY <1>1 DEF PutBack, Added
    <2>2. Managed' = Managed /\ certs' = certs
      BY <1>1, ListedStays DEF StoreRests
    <2> QED BY <1>1, <2>1, <2>2 DEF Kept, Restores
  <1>5. NewDomains' /\ \A g \in Callers : Restores(g)'
    BY <1>1, <1>4, QuietRestores DEF StoreRests
  <1> QED BY <1>2, <1>3, <1>5 DEF Kept

(* A step of an import that changes no record of the run's domain, or does *)
(* not make it fresher.                                                    *)
LEMMA ImporterHolds ==
  ASSUME NEW h \in Callers, NoRequests, UNCHANGED <<req, w>>, Held, SerialInv,
         \A q \in Callers \ {h} : call[q].pc = "idle" /\ call'[q] = call[q],
         CallHolds(h)', Managed \subseteq Managed',
         w.pc \notin {"idle", "next"} /\ certs'[w.domain].pem = "fresh" =>
           certs[w.domain].pem = "fresh",
         call'[h].pc \in {"addGet", "addStore"} => call'[h].domain \in Managed',
         call'[h].pc = "addWrite" => call'[h].domain \in DomainsOf(call'[h].list)
  PROVE  Held' /\ SerialInv'
  <1>1. \A q \in Callers : CallHolds(q)'
    BY DEF Held, CallHolds
  <1>2. \A q \in Callers : RequestHolds(q)'
    BY DEF Held, RequestHolds, NoRequests
  <1>3. RunHolds' /\ NoNeedlessOrder'
    BY DEF Held, RunHolds, NoNeedlessOrder
  <1>4. SoloRun' /\ RunListed' /\ DeleteChecked' /\ UnmanageNamed'
    BY DEF SerialInv, SoloRun, RunListed, DeleteChecked, UnmanageNamed, NoRequests
  <1>5. AddListed' /\ AddWrites'
    BY DEF AddListed, AddWrites, Listed
  <1> QED BY <1>1, <1>2, <1>3, <1>4, <1>5 DEF Held, SerialInv

(* A record is stored: its domain is not in the list, hence not the run's. *)
LEMMA ImportCertKept ==
  ASSUME NEW h \in Callers, ~Overlap, TransferTypeOK, TodoInFile, Kept,
         Backend = "vault" => ~Fault, ImportCert(h)
  PROVE  Kept'
  <1> DEFINE x == xfer[h]
  <1>0. /\ x.pc = "certs" /\ UNCHANGED <<md, call, req, w, backup>>
        /\ x.todo \subseteq DOMAIN x.file.certs
        /\ x.file \in File /\ KeystoreTypeOK /\ TransferControl
    BY ImportSteps, TransferFields DEF TodoInFile, TransferTypeOK, TypeOK, Kept
  <1>1. PICK d \in x.todo :
          /\ \/ /\ StoreCertAndKey(d, x.file.certs[d])
                /\ xfer'[h].failed = x.failed
             \/ StoreFails(d, x.file.certs[d]) /\ xfer'[h].failed = TRUE
          /\ xfer'[h].pc = "certs" /\ xfer'[h].file = x.file
          /\ xfer'[h].todo = x.todo \ {d} /\ OthersWait(h)
    BY ImportSteps DEF Becomes
  <1>2. /\ d \in Domains /\ d \in DOMAIN x.file.certs /\ ~Listed(d)
        /\ x.file.certs[d] \in CertAndKey
    BY <1>0, <1>1, FileFields DEF Kept, NewDomains
  <1>3. \A e \in Domains \ {d} : certs'[e] = certs[e]
    BY <1>0, <1>1, <1>2, StoreOutcome
  <1>4. /\ NoRequests
        /\ \A q \in Callers : call[q].pc = "idle" /\ call'[q] = call[q]
    BY <1>0, TransferAlone
  <1>5. Held' /\ SerialInv'
    <2>1. CallHolds(h)'
      BY <1>4 DEF Kept, Held, CallHolds
    <2>2. w.pc \notin {"idle", "next"} => w.domain \in Managed /\ w.domain # d
      BY <1>2 DEF Kept, SerialInv, RunListed, Listed
    <2>3. w.pc \notin {"idle", "next"} => certs'[w.domain] = certs[w.domain]
      BY <1>3, <2>2 DEF TransferTypeOK, TypeOK, DaemonTypeOK, Worker
    <2>4. Managed' = Managed
      BY <1>0, ListedStays
    <2> QED BY <1>0, <1>4, <2>1, <2>3, <2>4, ImporterHolds DEF Kept
  <1>6. TransferControl'
    BY <1>0, <1>1, QuietControl
  <1>7. TornFiles' /\ RunNamed' /\ \A q \in Callers : CallKeeps(q)'
    BY <1>0, <1>1, KeptWrites, CallRests DEF Kept, RunNamed
  <1>8. Restores(h)'
    <2>1. CASE ~xfer'[h].failed
      <3>1. certs'[d] = x.file.certs[d] /\ Restores(h) /\ ~x.failed
        BY <1>1, <1>2, <2>1 DEF StoreCertAndKey, Kept, TransferTypeOK, TypeOK,
                                KeystoreTypeOK
      <3>2. PutBack(h)' = PutBack(h) \cup {d} /\ Added(h)' = {}
        BY <1>0, <1>1, <1>2 DEF PutBack, Added
      <3>3. \A e \in PutBack(h) : x.file.certs[e].named => certs[e].named
        BY <3>1 DEF Restores
      <3>4. \A e \in PutBack(h)' : x.file.certs[e].named => certs'[e].named
        BY <1>3, <3>1, <3>2, <3>3, PutBackIn
      <3> QED BY <1>1, <3>2, <3>4 DEF Restores
    <2> QED BY <2>1 DEF Restores
  <1>9. NewDomains' /\ \A g \in Callers \ {h} : Restores(g)'
    <2>1. NewDomains'
      BY <1>0, <1>1, ListedStays DEF Kept, NewDomains, OthersWait
    <2>2. ASSUME NEW g \in Callers \ {h} PROVE Restores(g)'
      <3>1. xfer'[g] = xfer[g] /\ xfer[g].pc = "idle"
        BY <1>0, <1>1, TransferAlone DEF OthersWait, Active
      <3> QED BY <3>1 DEF Restores, PutBack, Added
    <2> QED BY <2>1, <2>2
  <1> QED BY <1>5, <1>6, <1>7, <1>8, <1>9 DEF Kept

(* A domain is in the list already, is about to be added, or the list      *)
(* cannot be read.                                                         *)
LEMMA ImportCheckKept ==
  ASSUME NEW h \in Callers, ~Overlap, TransferTypeOK, TodoInFile, Kept,
         ImportCheck(h)
  PROVE  Kept'
  <1> DEFINE x == xfer[h]
  <1>0. /\ x.pc = "domains" /\ UNCHANGED <<md, certs, torn, req, w>>
        /\ x.todo \subseteq x.file.list /\ TransferControl
        /\ call \in [Callers -> Call]
    BY ImportSteps DEF TodoInFile, Kept, TransferTypeOK, TypeOK, KeystoreTypeOK
  <1>1. PICK d \in x.todo :
          /\ \/ /\ Listed(d) /\ UNCHANGED call /\ xfer'[h].pc = "domains"
                /\ xfer'[h].failed = x.failed
             \/ /\ BeginAdd(h, d, SansInFile(x.file, d)) /\ xfer'[h].pc = "adding"
                /\ xfer'[h].failed = x.failed
             \/ /\ UNCHANGED call /\ xfer'[h].pc = "domains"
                /\ xfer'[h].failed = TRUE
          /\ xfer'[h].file = x.file /\ xfer'[h].todo = x.todo \ {d}
          /\ OthersWait(h)
    BY ImportSteps DEF Becomes
  <1>2. /\ NoRequests /\ req[h].pc = "idle" /\ call[h].pc = "idle"
        /\ \A q \in Callers \ {h} : ~Active(q) /\ call[q].pc = "idle"
        /\ Managed' = Managed /\ \A e : Listed(e)' <=> Listed(e)
    BY <1>0, TransferAlone, ListedStays
  <1>3. NewDomains' /\ \A g \in Callers \ {h} : Restores(g)'
    <2>1. \A g \in Callers \ {h} : xfer'[g] = xfer[g] /\ xfer[g].pc = "idle"
      BY <1>1, <1>2 DEF OthersWait, Active
    <2>2. xfer'[h].pc # "certs"
      BY <1>1
    <2>3. NewDomains'
      BY <2>1, <2>2 DEF NewDomains
    <2>4. \A g \in Callers \ {h} : Restores(g)'
      BY <2>1 DEF Restores, PutBack, Added
    <2> QED BY <2>3, <2>4
  <1>4. CASE UNCHANGED call /\ xfer'[h].pc = "domains"
    <2>1. /\ Held' /\ SerialInv' /\ TornFiles' /\ RunNamed'
          /\ \A q \in Callers : CallKeeps(q)'
      BY <1>0, <1>4, StoreRestsKept
    <2>2. TransferControl'
      BY <1>0, <1>1, <1>4, QuietControl
    <2>3. Restores(h)'
      <3>1. CASE ~xfer'[h].failed
        <4>1. Listed(d) /\ ~x.failed
          BY <1>1, <1>4, <3>1
        <4>2. PutBack(h)' = PutBack(h) /\ Added(h)' \subseteq Added(h) \cup {d}
          BY <1>0, <1>1, <1>4 DEF PutBack, Added
        <4> QED BY <1>0, <1>1, <1>2, <4>1, <4>2 DEF Kept, Restores, Listed
      <3> QED BY <3>1 DEF Restores
    <2> QED BY <1>3, <2>1, <2>2, <2>3 DEF Kept
  <1>5. CASE /\ BeginAdd(h, d, SansInFile(x.file, d)) /\ xfer'[h].pc = "adding"
             /\ xfer'[h].failed = x.failed
    <2>1. /\ CallKeeps(h)' /\ \A q \in Callers \ {h} : call'[q] = call[q]
          /\ call'[h].pc = "add" /\ call'[h].op = "add" /\ call'[h].domain = d
          /\ call'[h].cert = Zero
      BY <1>0, <1>5, CallBegins DEF BeginAdd
    <2>2. CallHolds(h)'
      BY <2>1, FreshCopies DEF CallHolds
    <2>3. Held' /\ SerialInv'
      BY <1>0, <1>2, <2>1, <2>2, ImporterHolds DEF Kept
    <2>4. TransferControl'
      <3>1. OnlyActs(h)
        BY <1>0, <1>1, <2>1 DEF OnlyActs, OthersWait
      <3> QED BY <1>0, <1>1, <1>2, <1>5, <2>1, <3>1, MoverControl
    <2>5. TornFiles' /\ RunNamed' /\ \A q \in Callers : CallKeeps(q)'
      BY <1>0, <2>1, CallRests DEF Kept, TornFiles, RunNamed
    <2>6. Restores(h)'
      <3>1. PutBack(h)' = PutBack(h) /\ Added(h)' = Added(h)
        BY <1>0, <1>1, <1>5, <2>1 DEF PutBack, Added
      <3> QED BY <1>0, <1>1, <1>2, <1>5, <3>1 DEF Kept, Restores
    <2> QED BY <1>3, <2>3, <2>4, <2>5, <2>6 DEF Kept
  <1> QED BY <1>1, <1>4, <1>5

(* The call that adds a domain goes on. *)
LEMMA ImportAddingKept ==
  ASSUME NEW h \in Callers, ~Overlap, TransferTypeOK, Kept,
         Backend = "vault" => ~Fault, ImportAdding(h)
  PROVE  Kept'
  <1>0. /\ xfer[h].pc = "adding" /\ CallStep(h) /\ UNCHANGED <<req, w, xfer>>
        /\ KeystoreTypeOK /\ TransferControl /\ CallHolds(h) /\ AddListed
        /\ AddWrites /\ CallKeeps(h) /\ TornFiles
    BY DEF ImportAdding, TransferTypeOK, TypeOK, Kept, Held, SerialInv
  <1>1. /\ call'[h].pc # "idle" /\ call'[h].domain = call[h].domain
        /\ \A q \in Callers \ {h} : call'[q] = call[q]
        /\ NothingFresher /\ CallHolds(h)'
    BY <1>0, CallStepHolds
  <1>2. /\ call'[h].pc \in {"addGet", "addStore"} => call[h].domain \in Managed'
        /\ call'[h].pc = "addWrite" => call'[h].domain \in DomainsOf(call'[h].list)
    BY <1>0, CallStepSerial
  <1>3. call[h].op = "add" /\ call[h].domain \in xfer[h].file.list \ xfer[h].todo
    BY <1>0 DEF TransferControl, AddOfImport
  <1>4. /\ TornFiles' /\ CallKeeps(h)' /\ call'[h].op = "add" /\ md \subseteq md'
        /\ \A d \in Domains : certs[d].named => certs'[d].named
    BY <1>0, <1>3, CallStepKeeps
  <1>5. /\ NoRequests /\ req[h].pc = "idle"
        /\ \A q \in Callers \ {h} : ~Active(q) /\ call[q].pc = "idle"
    BY <1>0, TransferAlone
  <1>6. Managed \subseteq Managed'
    BY <1>4 DEF Managed, DomainsOf
  <1>7. Held' /\ SerialInv'
    <2>1. certs'[w.domain].pem = "fresh" => certs[w.domain].pem = "fresh"
      BY <1>1 DEF NothingFresher, TransferTypeOK, TypeOK, DaemonTypeOK, Worker
    <2> QED BY <1>0, <1>1, <1>2, <1>5, <1>6, <2>1, ImporterHolds DEF Kept
  <1>8. TransferControl'
    <2>1. OnlyActs(h)
      BY <1>0, <1>1 DEF OnlyActs
    <2> QED BY <1>0, <1>1, <1>3, <1>4, <1>5, <2>1, MoverControl
  <1>9. RunNamed' /\ NewDomains' /\ \A q \in Callers : CallKeeps(q)'
    <2>1. ASSUME NEW q \in Callers \ {h} PROVE CallKeeps(q)'
      BY <1>1, <1>5, <2>1 DEF CallKeeps, AddPcs, RemovePcs
    <2>2. NewDomains'
      BY <1>0, <1>5 DEF NewDomains, Active
    <2>3. RunNamed'
      BY <1>0 DEF Kept, RunNamed
    <2> QED BY <1>4, <2>1, <2>2, <2>3
  <1>10. \A q \in Callers : Restores(q)'
    <2>1. \A q \in Callers : call'[q].domain = call[q].domain
      BY <1>1
    <2> QED BY <1>0, <1>4, <2>1, PutBackIn, RestoresNext DEF Kept
  <1> QED BY <1>4, <1>7, <1>8, <1>9, <1>10 DEF Kept

(* The call returns: without an error it has put the domain in the list. *)
LEMMA ImportAddedKept ==
  ASSUME NEW h \in Callers, ~Overlap, TransferTypeOK, Kept, ImportAdded(h)
  PROVE  Kept'
  <1> DEFINE x == xfer[h]
  <1>1. /\ x.pc = "adding" /\ call[h].pc = "done" /\ Answered(h)
        /\ UNCHANGED <<md, certs, torn, req, w>>
        /\ xfer'[h].pc = "domains" /\ xfer'[h].file = x.file
        /\ xfer'[h].todo = x.todo /\ OthersWait(h)
        /\ xfer'[h].failed <=> x.failed \/ ~call[h].ok
    BY ImportSteps DEF Becomes
  <1>2. /\ call \in [Callers -> Call] /\ req \in [Callers -> Requests]
        /\ TransferControl
    BY DEF Kept, TransferTypeOK, TypeOK, KeystoreTypeOK, HandlersTypeOK
  <1>3. /\ NoRequests /\ req[h].pc = "idle"
        /\ \A q \in Callers \ {h} : ~Active(q) /\ call[q].pc = "idle"
        /\ Managed' = Managed /\ \A e : Listed(e)' <=> Listed(e)
    BY <1>1, <1>2, TransferAlone, ListedStays
  <1>4. /\ call'[h].pc = "idle" /\ CallHolds(h)'
        /\ \A q \in Callers \ {h} : call'[q] = call[q]
    BY <1>1, <1>2, AtRestHolds
  <1>5. Held' /\ SerialInv'
    BY <1>1, <1>3, <1>4, ImporterHolds DEF Kept
  <1>6. TransferControl'
    <2>1. OnlyActs(h)
      BY <1>1, <1>4 DEF OnlyActs, OthersWait
    <2> QED BY <1>1, <1>2, <1>3, <1>4, <2>1, MoverControl
  <1>7. TornFiles' /\ RunNamed' /\ \A q \in Callers : CallKeeps(q)'
    BY <1>1, <1>4, CallRests DEF Kept, TornFiles, RunNamed
  <1>8. NewDomains' /\ \A g \in Callers \ {h} : Restores(g)'
    <2>1. \A g \in Callers \ {h} : xfer'[g] = xfer[g] /\ xfer[g].pc = "idle"
      BY <1>1, <1>3 DEF OthersWait, Active
    <2>2. NewDomains'
      BY <1>1, <2>1 DEF NewDomains
    <2>3. \A g \in Callers \ {h} : Restores(g)'
      BY <2>1 DEF Restores, PutBack, Added
    <2> QED BY <2>2, <2>3
  <1>9. Restores(h)'
    <2>1. CASE ~xfer'[h].failed
      <3>1. ~x.failed /\ call[h].ok /\ call[h].op = "add"
        BY <1>1, <1>2, <2>1 DEF TransferControl, AddOfImport
      <3>2. Listed(call[h].domain)
        BY <1>1, <3>1 DEF Kept, CallKeeps
      <3>3. PutBack(h)' = PutBack(h) /\ Added(h)' \subseteq Added(h) \cup {call[h].domain}
        BY <1>1 DEF PutBack, Added
      <3> QED BY <1>1, <1>3, <3>1, <3>2, <3>3 DEF Kept, Restores, Listed
    <2> QED BY <2>1 DEF Restores
  <1> QED BY <1>5, <1>6, <1>7, <1>8, <1>9 DEF Kept

(* Time leaves the list and the callers where they are, the names and      *)
(* flags of all records, and everything but the age of certificates.       *)
SameLabels(c, b) == c.named = b.named /\ c.managed = b.managed

LEMMA AgedLabels ==
  \A c \in CertAndKey : SameLabels(Aged(c), c)
  BY NamesAndFlags DEF SameLabels

LEMMA TimeLeaves ==
  ASSUME NEW d \in Domains, TransferTypeOK, TimePasses(d)
  PROVE  /\ UNCHANGED <<md, torn, faults>>
         /\ \A e \in Domains : SameLabels(certs'[e], certs[e])
         /\ \A p \in Callers :
              /\ call'[p].pc = call[p].pc /\ call'[p].op = call[p].op
              /\ call'[p].domain = call[p].domain /\ call'[p].list = call[p].list
              /\ call'[p].ok = call[p].ok
              /\ SameLabels(call'[p].cert, call[p].cert)
              /\ req'[p].pc = req[p].pc /\ req'[p].domain = req[p].domain
              /\ SameLabels(req'[p].cert, req[p].cert)
              /\ xfer'[p].pc = xfer[p].pc /\ xfer'[p].todo = xfer[p].todo
              /\ xfer'[p].file = AgedIn(xfer[p].file, d)
              /\ xfer'[p].failed = xfer[p].failed
         /\ w'.pc = w.pc /\ w'.domain = w.domain /\ w'.todo = w.todo
         /\ SameLabels(w'.cert, w.cert)
         /\ backup' = AgedIn(backup, d)
  <1>0. /\ certs \in [Domains -> CertAndKey] /\ call \in [Callers -> Call]
        /\ req \in [Callers -> Requests] /\ w \in Worker /\ w.cert \in CertAndKey
        /\ xfer \in [Callers -> Transfers] /\ backup \in File
    BY DEF TransferTypeOK, TypeOK, KeystoreTypeOK, HandlersTypeOK, DaemonTypeOK,
           Worker
  <1>1. /\ backup' = AgedIn(backup, d)
        /\ \A p \in Callers :
             /\ xfer'[p].pc = xfer[p].pc /\ xfer'[p].todo = xfer[p].todo
             /\ xfer'[p].file = AgedIn(xfer[p].file, d)
             /\ xfer'[p].failed = xfer[p].failed
    BY <1>0, FilesAge DEF TimePasses
  <1>2. CASE Age(d)
    <2>1. ASSUME NEW p \in Callers
          PROVE  /\ call'[p].pc = call[p].pc /\ call'[p].op = call[p].op
                 /\ call'[p].domain = call[p].domain /\ call'[p].list = call[p].list
                 /\ call'[p].ok = call[p].ok
                 /\ SameLabels(call'[p].cert, call[p].cert)
                 /\ req'[p].pc = req[p].pc /\ req'[p].domain = req[p].domain
                 /\ SameLabels(req'[p].cert, req[p].cert)
      <3>0. /\ call[p] \in Call /\ req[p] \in Requests
            /\ call[p].cert \in CertAndKey /\ req[p].cert \in CertAndKey
        BY <1>0 DEF Call, Requests
      <3>1. /\ call'[p].pc = call[p].pc /\ call'[p].op = call[p].op
            /\ call'[p].domain = call[p].domain /\ call'[p].list = call[p].list
            /\ call'[p].ok = call[p].ok
            /\ call'[p].cert = call[p].cert \/ call'[p].cert = Aged(call[p].cert)
        BY <1>2, <3>0 DEF Age, Call
      <3>2. /\ req'[p].pc = req[p].pc /\ req'[p].domain = req[p].domain
            /\ req'[p].cert = req[p].cert \/ req'[p].cert = Aged(req[p].cert)
        BY <1>2, <3>0 DEF Age, Requests
      <3>3. /\ SameLabels(call'[p].cert, call[p].cert)
            /\ SameLabels(req'[p].cert, req[p].cert)
        BY <3>0, <3>1, <3>2, AgedLabels DEF SameLabels
      <3> QED BY <3>1, <3>2, <3>3
    <2>2. /\ w'.pc = w.pc /\ w'.domain = w.domain /\ w'.todo = w.todo
          /\ w'.cert = w.cert \/ w'.cert = Aged(w.cert)
      BY <1>0, <1>2 DEF Age, Worker
    <2>3. SameLabels(w'.cert, w.cert)
      BY <1>0, <2>2, AgedLabels DEF SameLabels
    <2>4. \A e \in Domains : SameLabels(certs'[e], certs[e])
      <3>1. \A e \in Domains : certs'[e] = certs[e] \/ certs'[e] = Aged(certs[e])
        BY <1>0, <1>2 DEF Age
      <3> QED BY <1>0, <3>1, AgedLabels DEF SameLabels
    <2>5. UNCHANGED <<md, torn, faults>>
      BY <1>2 DEF Age
    <2> QED BY <1>1, <2>1, <2>2, <2>3, <2>4, <2>5
  <1>3. CASE UNCHANGED vars
    BY <1>1, <1>3 DEF vars, keystoreVars, SameLabels
  <1> QED BY <1>2, <1>3 DEF TimePasses, AgeOut

LEMMA TimeKept ==
  ASSUME NEW d \in Domains, TransferTypeOK, Kept, TimePasses(d)
  PROVE  Kept'
  <1>0. /\ UNCHANGED md /\ torn' = torn
        /\ \A e \in Domains : certs'[e].named = certs[e].named
        /\ w'.pc = w.pc /\ w'.domain = w.domain /\ w'.cert.named = w.cert.named
        /\ Managed' = Managed /\ \A e : Listed(e)' <=> Listed(e)
    BY TimeLeaves, ListedStays DEF SameLabels
  <1>1. ASSUME NEW p \in Callers
        PROVE  /\ call'[p].pc = call[p].pc /\ call'[p].op = call[p].op
               /\ call'[p].domain = call[p].domain /\ call'[p].list = call[p].list
               /\ call'[p].ok = call[p].ok /\ call'[p].cert.named = call[p].cert.named
               /\ req'[p].pc = req[p].pc /\ req'[p].domain = req[p].domain
               /\ xfer'[p].pc = xfer[p].pc /\ xfer'[p].todo = xfer[p].todo
               /\ xfer'[p].failed = xfer[p].failed
    BY TimeLeaves DEF SameLabels
  <1>2. ASSUME NEW p \in Callers
        PROVE  /\ xfer'[p].file.list = xfer[p].file.list
               /\ DOMAIN xfer'[p].file.certs = DOMAIN xfer[p].file.certs
               /\ \A e \in DOMAIN xfer[p].file.certs :
                    xfer'[p].file.certs[e].named = xfer[p].file.certs[e].named
    <2>1. xfer[p].file \in File /\ xfer'[p].file = AgedIn(xfer[p].file, d)
      BY TimeLeaves, TransferFields DEF TransferTypeOK
    <2> QED BY <2>1, AgedInIs, FileFields, AgedLabels DEF SameLabels
  <1>3. Held' /\ SerialInv'
    <2>1. CASE Age(d)
      BY <2>1, AgeHolds, AgeSerial DEF Kept, TransferTypeOK
    <2>2. CASE UNCHANGED vars
      BY <2>2, StoreRestsKept DEF vars, keystoreVars
    <2> QED BY <2>1, <2>2 DEF TimePasses, AgeOut
  <1>4. TransferControl'
    <2>1. SoloRun'
      BY <1>3 DEF SerialInv
    <2>2. OneActive' /\ Apart'
      BY <1>1 DEF Kept, TransferControl, OneActive, Apart, Active
    <2>3. CallOfActive' /\ SameDomain'
      BY <1>1 DEF Kept, TransferControl, CallOfActive, SameDomain
    <2>4. AddOfImport'
      BY <1>1, <1>2 DEF Kept, TransferControl, AddOfImport
    <2> QED BY <2>1, <2>2, <2>3, <2>4 DEF TransferControl
  <1>5. TornFiles' /\ RunNamed' /\ NewDomains'
    BY <1>0, <1>1, <1>2 DEF Kept, TornFiles, RunNamed, NewDomains
  <1>6. \A p \in Callers : CallKeeps(p)'
    BY <1>0, <1>1 DEF Kept, CallKeeps
  <1>7. ASSUME NEW p \in Callers PROVE Restores(p)'
    <2>1. PutBack(p)' = PutBack(p) /\ PutBack(p) \subseteq Domains
      BY <1>1, <1>2, PutBackIn DEF PutBack
    <2>2. Added(p)' = Added(p)
      BY <1>1, <1>2 DEF Added
    <2>3. PutBack(p) \subseteq DOMAIN xfer[p].file.certs
      BY DEF PutBack
    <2> QED BY <1>0, <1>1, <1>2, <2>1, <2>2, <2>3 DEF Kept, Restores
  <1> QED BY <1>3, <1>4, <1>5, <1>6, <1>7 DEF Kept

(* An empty store, at the start and after the loss of the old one. *)
EmptyStore ==
  /\ md = {} /\ torn = {} /\ w = AtRest /\ \A d \in Domains : certs[d] = Zero
  /\ \A h \in Callers : /\ call[h] = NoCall /\ req[h] = NoRequest
                        /\ xfer[h] = NoTransfer

LEMMA EmptyStoreKept == EmptyStore => Kept
  <1> SUFFICES ASSUME EmptyStore PROVE Kept
    OBVIOUS
  <1>1. /\ AtRest.pc = "idle" /\ NoCall.pc = "idle" /\ NoRequest.pc = "idle"
        /\ NoTransfer.pc = "idle" /\ NoCall.cert.pem = "none"
        /\ NoRequest.cert.pem = "none"
    BY DEF AtRest, NoCall, NoRequest, NoTransfer, Zero
  <1>2. /\ w.pc = "idle"
        /\ \A h \in Callers : /\ call[h].pc = "idle" /\ req[h].pc = "idle"
                              /\ xfer[h].pc = "idle" /\ call[h].cert.pem = "none"
                              /\ req[h].cert.pem = "none"
    BY <1>1 DEF EmptyStore
  <1>3. TransferControl
    BY <1>2 DEF TransferControl, OneActive, Apart, CallOfActive, SameDomain, SoloRun,
                AddOfImport, Active
  <1>4. Held
    BY <1>2 DEF Held, CallHolds, RequestHolds, RunHolds, NoNeedlessOrder
  <1>5. SerialInv
    BY <1>2 DEF SerialInv, SoloRun, RunListed, DeleteChecked, AddListed, AddWrites,
                UnmanageNamed
  <1>6. /\ TornFiles /\ RunNamed /\ NewDomains
        /\ \A h \in Callers : CallKeeps(h) /\ Restores(h)
    BY <1>2 DEF EmptyStore, TornFiles, RunNamed, NewDomains, CallKeeps, AddPcs, RemovePcs,
                Restores, Added, PutBack
  <1> QED BY <1>3, <1>4, <1>5, <1>6 DEF Kept

LEMMA EmptyStoreKeptNext == EmptyStore' => Kept'
  BY EmptyStoreKept, PTL

LEMMA StoresBeginEmpty ==
  /\ TransferInit => EmptyStore
  /\ TransferTypeOK /\ NewStore => EmptyStore'
  <1>1. TransferInit => EmptyStore
    BY DEF TransferInit, Init, KeystoreInit, HandlersInit, DaemonInit, EmptyStore
  <1>2. TransferTypeOK /\ NewStore => EmptyStore'
    BY NewStoreIs DEF EmptyStore
  <1> QED BY <1>1, <1>2

LEMMA KeptStep ==
  ASSUME ~Overlap, RestoreOnly, TransferTypeOK, TodoInFile, Kept,
         Backend = "vault" => ~Fault, [TransferNext]_transferVars
  PROVE  Kept'
  <1>1. ASSUME NEW h \in Callers,
               ExportAccount(h) \/ ImportStart(h) \/ TransferStep(h)
        PROVE  Kept'
    BY <1>1, ExportStepKept, ImportStartKept, PhaseDoneKept, ImportCertKept,
       ImportCheckKept, ImportAddingKept, ImportAddedKept DEF TransferStep
  <1>2. ASSUME NEW h \in Callers, ClientBeside(h) PROVE Kept'
    BY <1>2, ClientBesideKept
  <1>3. CASE ServiceStep
    BY <1>3, RunStepKept, ServerStepKept DEF ServiceStep
  <1>4. ASSUME NEW d \in Domains, TimePasses(d) PROVE Kept'
    BY <1>4, TimeKept
  <1>5. CASE NewStore
    BY <1>5, StoresBeginEmpty, EmptyStoreKeptNext
  <1>6. CASE UNCHANGED transferVars
    <2>1. /\ Held' /\ SerialInv' /\ TornFiles' /\ RunNamed'
          /\ \A h \in Callers : CallKeeps(h)'
      BY <1>6, StoreRestsKept DEF transferVars, vars, keystoreVars
    <2>2. UNCHANGED <<md, certs, call, req, w, xfer>>
      BY <1>6 DEF transferVars, vars, keystoreVars
    <2>3. TransferControl' /\ NewDomains'
      BY <2>2 DEF Kept, TransferControl, OneActive, Apart, CallOfActive, SameDomain,
         SoloRun, AddOfImport, Active, NewDomains, NoRequests, Listed, Managed, DomainsOf
    <2>4. \A h \in Callers : Restores(h)'
      BY <2>2, RestoresNext DEF Kept
    <2> QED BY <2>1, <2>3, <2>4 DEF Kept
  <1> QED BY <1>1, <1>2, <1>3, <1>4, <1>5, <1>6 DEF TransferNext, TransferAction

(* Each step fails at most once. *)
LEMMA TransferFaults ==
  ASSUME TransferTypeOK, [TransferNext]_transferVars
  PROVE  Fault \/ NoFault
  <1>1. ASSUME NEW h \in Callers,
               ExportAccount(h) \/ ImportStart(h) \/ TransferStep(h)
        PROVE  Fault \/ NoFault
    <2>1. CASE ImportCert(h) \/ ImportAdding(h) \/ ImportAdded(h)
      BY <2>1, CallFaults DEF ImportCert, ImportAdding, ImportAdded, StoreCertAndKey,
                              StoreFails, NoFault
    <2>2. CASE ~(ImportCert(h) \/ ImportAdding(h) \/ ImportAdded(h))
      BY <1>1, <2>2, ExportSteps, ImportSteps DEF TransferStep, StoreRests
    <2> QED BY <2>1, <2>2
  <1>2. ASSUME NEW h \in Callers, ClientBeside(h) PROVE Fault \/ NoFault
    BY <1>2, RequestFaults DEF ClientBeside, ClientStep
  <1>3. CASE ServiceStep
    BY <1>3, RequestFaults, RunFaults
       DEF ServiceStep, TickStep, DaemonStep, ServerStep
  <1>4. ASSUME NEW d \in Domains, TimePasses(d) PROVE Fault \/ NoFault
    BY <1>4, TimeLeaves DEF NoFault
  <1>5. CASE NewStore \/ UNCHANGED transferVars
    BY <1>5 DEF NewStore, transferVars, vars, keystoreVars, NoFault
  <1> QED BY <1>1, <1>2, <1>3, <1>4, <1>5 DEF TransferNext, TransferAction

(* The invariant, until Vault fails. *)
LEMMA KeptAlways ==
  ASSUME ~Overlap, RestoreOnly
  PROVE  TransferSpec => [](ListKept => Kept)
  <1>1. TransferInit => (ListKept => Kept)
    BY StoresBeginEmpty, EmptyStoreKept
  <1>2. /\ TransferTypeOK /\ TodoInFile /\ (ListKept => Kept)
        /\ [TransferNext]_transferVars
        => (ListKept => Kept)'
    <2> SUFFICES ASSUME TransferTypeOK, TodoInFile, ListKept => Kept,
                        [TransferNext]_transferVars, ListKept'
                 PROVE  Kept'
      OBVIOUS
    <2>1. ListKept /\ (Backend = "vault" => ~Fault)
      BY TransferFaults, KeptBefore DEF TransferTypeOK, TypeOK
    <2> QED BY <2>1, KeptStep
  <1> QED BY <1>1, <1>2, TransferTypes, PTL DEF TransferSpec

(* Without overlapping requests no order is placed for a certificate that  *)
(* is not due, although certificates are put back beside the run: until a  *)
(* request to Vault fails, and whatever fails with the other backends.     *)
THEOREM RestoresOrderNothingNeedless ==
  ASSUME ~Overlap, RestoreOnly, Backend # "vault" \/ MaxFaults = 0
  PROVE  TransferSpec => []NoNeedlessOrder
  <1>1. TransferTypeOK /\ (ListKept => Kept) => NoNeedlessOrder
    BY FaultsAssumption
       DEF ListKept, Kept, Held, TransferTypeOK, TypeOK, KeystoreTypeOK
  <1> QED BY <1>1, KeptAlways, TransferTypes, PTL
-----------------------------------------------------------------------------
(* Agreeing, step by step, when nothing fails. *)

LEMMA AgreeingWithoutTransfers ==
  ASSUME NoTransfers, Agreeing
  PROVE  Agreement
  BY DEF NoTransfers, Agreeing, Agreement, Open, OpenBy

LEMMA AgreeingNext ==
  ASSUME NoTransfers, UNCHANGED <<xfer, backup>>, Agreeing, Agreement', w'.pc = "idle"
  PROVE  Agreeing'
  <1>1. RunManaged' /\ FileAgrees(backup)'
    BY DEF RunManaged, Agreeing, FileAgrees
  <1>2. \A h \in Callers : SameFlags(h)' /\ ToBeAdded(h)' /\ FileOf(h)'
    BY DEF NoTransfers, Agreeing, SameFlags, ToBeAdded, FileOf, FileAgrees
  <1> QED BY <1>1, <1>2 DEF Agreeing, Agreement

LEMMA ClientBesideAgrees ==
  ASSUME NEW h \in Callers, ~Overlap, TransferTypeOK, Kept, Agreeing, ClientBeside(h)
  PROVE  Agreeing'
  <1>1. /\ NoTransfers /\ ClientStep(h) /\ TypeOK /\ UNCHANGED <<xfer, backup>>
        /\ w'.pc = "idle"
    BY DEF ClientBeside, NoTransfers, ClientStep, TransferTypeOK, Quiet
  <1>2. Agreement'
    BY <1>1, OneWithoutTransfers, AgreeingWithoutTransfers, NewRequestAgrees
  <1> QED BY <1>1, <1>2, AgreeingNext

LEMMA ServerStepAgrees ==
  ASSUME NEW h \in Callers, ~Fault, TransferTypeOK, Kept, Agreeing,
         xfer[h].pc = "idle", ServerStep(h), UNCHANGED <<xfer, backup>>
  PROVE  Agreeing'
  <1>1. NoTransfers /\ w'.pc = "idle" /\ TypeOK
    BY ServerAlone DEF ServerStep, Kept, TransferTypeOK
  <1>2. Agreement'
    BY <1>1, OneWithoutTransfers, AgreeingWithoutTransfers, HandlerStepAgrees
  <1> QED BY <1>1, <1>2, AgreeingNext

(* What is settled stays so in a run, and so are the requests. *)
LEMMA RequestSettlesStays ==
  ASSUME NEW h \in Callers, TypeOK, UNCHANGED <<md, call, req>>,
         \A d \in Domains : Settled(d) => Settled(d)', RequestSettles(h)
  PROVE  RequestSettles(h)'
  <1>1. /\ call[h].domain \in Domains /\ req[h].domain \in Domains
        /\ call'[h] = call[h] /\ req'[h] = req[h]
        /\ Managed' = Managed /\ \A e : Listed(e)' <=> Listed(e)
    BY ListedStays DEF TypeOK, KeystoreTypeOK, HandlersTypeOK, Call, Requests
  <1>2. CallSettles(call[h])'
    <2>1. CallSettles(call[h])
      BY DEF RequestSettles
    <2> QED BY <1>1, <2>1 DEF CallSettles, AddPcs, RemovePcs
  <1> QED BY <1>1, <1>2 DEF RequestSettles

LEMMA RunStepAgreesBeside ==
  ASSUME ~Overlap, ~Fault, TransferTypeOK, Kept, Agreeing,
         TickStep \/ DaemonStep, UNCHANGED <<xfer, backup>>
  PROVE  Agreeing'
  <1>0. /\ TypeOK /\ UNCHANGED <<md, call, req>> /\ SerialInv
        /\ Managed' = Managed /\ \A e : Listed(e)' <=> Listed(e)
    BY RunLeaves, ListedStays DEF TransferTypeOK, Kept
  <1>1. /\ torn' = {} /\ RunSettles' /\ RunManaged'
        /\ \A d \in Domains : Settled(d) => Settled(d)'
    BY <1>0, RunStepSettles DEF Agreeing, SerialInv, RunListed, Listed
  <1>2. \A d \in Domains : certs'[d] # certs[d] => Listed(d)
    BY <1>0, RunStepSerial
  <1>3. \A d \in Domains : Untouched(d)' /\ ~Open(d)' => Settled(d)'
    BY <1>0, <1>1 DEF Agreeing, Untouched, Open, OpenBy
  <1>4. \A h \in Callers : RequestSettles(h)'
    BY <1>0, <1>1, RequestSettlesStays DEF Agreeing
  <1>5. ASSUME NEW h \in Callers PROVE SameFlags(h)' /\ ToBeAdded(h)' /\ FileOf(h)'
    <2>1. SameFlags(h)'
      <3>1. xfer[h].pc = "certs" => \A d \in PutBack(h) : certs'[d] = certs[d]
        BY <1>2, PutBackIn DEF Kept, NewDomains, PutBack
      <3> QED BY <3>1 DEF Agreeing, SameFlags, PutBack
    <2> QED BY <1>0, <2>1 DEF Agreeing, ToBeAdded, FileOf, FileAgrees
  <1>6. FileAgrees(backup)'
    BY DEF Agreeing, FileAgrees
  <1> QED BY <1>1, <1>3, <1>4, <1>5, <1>6 DEF Agreeing

(* A step of a transfer: it is enough that it leaves its own domains, or   *)
(* itself, in order.                                                       *)
LEMMA TransferAgrees ==
  ASSUME NEW h \in Callers, OthersWait(h), UNCHANGED <<req, w>>, Agreeing,
         \A g \in Callers \ {h} :
           ~Active(g) /\ call[g].pc = "idle" /\ call'[g] = call[g],
         torn' = {}, RunManaged', FileAgrees(backup)',
         \A d \in Domains : ~OpenBy(h, d)' => Settled(d)',
         RequestSettles(h)', SameFlags(h)', ToBeAdded(h)', FileOf(h)'
  PROVE  Agreeing'
  <1>1. ASSUME NEW g \in Callers \ {h}
        PROVE  RequestSettles(g)' /\ SameFlags(g)' /\ ToBeAdded(g)' /\ FileOf(g)'
    <2>1. /\ xfer'[g] = xfer[g] /\ xfer[g].pc = "idle" /\ req'[g].pc = "idle"
          /\ call'[g].pc = "idle" /\ FileOf(g)
      BY DEF OthersWait, Active, Agreeing
    <2>2. RequestSettles(g)'
      BY <2>1, IdleSettles
    <2> QED BY <2>1, <2>2 DEF SameFlags, ToBeAdded, FileOf, FileAgrees
  <1>2. \A d \in Domains : ~Open(d)' => Settled(d)'
    BY DEF Open
  <1>3. RunSettles'
    BY DEF Agreeing, RunSettles
  <1> QED BY <1>1, <1>2, <1>3 DEF Agreeing

(* The domains that h has left open are the only ones. *)
LEMMA OpenOnly ==
  ASSUME NEW h \in Callers, NoRequests, Agreeing,
         \A g \in Callers \ {h} : ~Active(g)
  PROVE  \A d \in Domains : ~OpenBy(h, d) => Settled(d)
  BY DEF NoRequests, Agreeing, Active, Open, OpenBy, Untouched

(* A step of a transfer that leaves the store. *)
LEMMA QuietAgrees ==
  ASSUME NEW h \in Callers, ~Overlap, TypeOK, TransferControl, Agreeing,
         xfer[h].pc # "idle" \/ MayTransfer(h),
         UNCHANGED <<md, certs, torn, call, req, w>>, OthersWait(h),
         FileAgrees(backup)',
         \A d \in Domains : OpenBy(h, d) /\ ~OpenBy(h, d)' => Settled(d),
         SameFlags(h)', ToBeAdded(h)', FileOf(h)'
  PROVE  Agreeing'
  <1>1. /\ NoRequests
        /\ \A g \in Callers \ {h} : ~Active(g) /\ call[g].pc = "idle"
    BY TransferringAlone
  <1>2. \A d : Settled(d) => Settled(d)'
    BY ListedStays DEF Settled
  <1>3. \A d \in Domains : ~OpenBy(h, d)' => Settled(d)'
    BY <1>1, <1>2, OpenOnly
  <1>4. RequestSettles(h)'
    BY <1>2, RequestSettlesStays DEF Agreeing
  <1>5. torn' = {} /\ RunManaged'
    BY DEF Agreeing, RunManaged
  <1> QED BY <1>1, <1>3, <1>4, <1>5, TransferAgrees

(* What every step of an export leaves: it has nothing open. *)
LEMMA ExportAgrees ==
  ASSUME NEW h \in Callers, ~Overlap, TypeOK, TransferControl, Agreeing,
         xfer[h].pc # "idle" \/ MayTransfer(h),
         xfer[h].pc \in {"idle", "all", "list", "records", "reply"},
         xfer'[h].pc \in {"idle", "all", "list", "records"},
         UNCHANGED <<md, certs, torn, call, req, w>>, OthersWait(h),
         FileAgrees(backup)', FileOf(h)'
  PROVE  Agreeing'
  <1>1. \A d : ~OpenBy(h, d)
    BY DEF OpenBy
  <1>2. SameFlags(h)' /\ ToBeAdded(h)'
    BY DEF SameFlags, ToBeAdded
  <1> QED BY <1>1, <1>2, QuietAgrees

(* A record that is exported agrees with the list that was. *)
LEMMA ExportStepAgrees ==
  ASSUME NEW h \in Callers, ~Overlap, TransferTypeOK, Kept, Agreeing,
         \/ ExportAccount(h) \/ ExportAll(h) \/ ExportList(h)
         \/ ExportRecord(h) \/ ExportReply(h) \/ ImportReply(h)
  PROVE  Agreeing'
  <1> DEFINE x == xfer[h]
  <1>0. /\ TypeOK /\ TransferControl /\ FileOf(h) /\ FileAgrees(backup)
        /\ StoreRests /\ (x.pc # "idle" \/ MayTransfer(h))
        /\ x.pc \in {"idle", "all", "list", "records", "reply"}
        /\ x.file \in File /\ x.todo \subseteq Domains
    BY ExportSteps, ImportSteps, TransferFields DEF Kept, TransferTypeOK, Agreeing
  <1>1. /\ UNCHANGED <<md, certs, torn, call, req, w>> /\ Managed' = Managed
    BY <1>0, ListedStays DEF StoreRests
  <1>2. CASE ExportAccount(h) \/ ExportAll(h)
    <2>1. /\ UNCHANGED backup
          /\ \/ UNCHANGED xfer
             \/ /\ OthersWait(h) /\ xfer'[h].pc \in {"all", "list"}
                /\ xfer'[h].file = x.file /\ x.pc \in {"idle", "all"}
             \/ OthersWait(h) /\ xfer'[h].pc = "idle" /\ xfer'[h].file = EmptyFile
      BY <1>2, ExportSteps DEF Becomes, Ends
    <2>2. OthersWait(h) /\ xfer'[h].pc \in {"idle", "all", "list", "records"}
      <3>1. UNCHANGED xfer => OthersWait(h) /\ xfer'[h].pc = x.pc
        BY DEF OthersWait
      <3>2. x.pc \in {"idle", "all"}
        BY <1>2, ExportSteps
      <3> QED BY <2>1, <3>1, <3>2
    <2>3. FileOf(h)'
      BY <1>0, <1>1, <2>1, EmptyFileIs DEF FileOf, FileAgrees
    <2>4. FileAgrees(backup)'
      BY <1>0, <2>1 DEF FileAgrees
    <2> QED BY <1>0, <1>1, <2>2, <2>3, <2>4, ExportAgrees
  <1>3. CASE ExportList(h)
    <2>1. /\ UNCHANGED backup /\ x.pc = "list" /\ OthersWait(h)
          /\ \/ /\ xfer'[h].pc = "records" /\ xfer'[h].file.list = Managed
                /\ xfer'[h].file.certs = x.file.certs
             \/ xfer'[h].pc = "idle" /\ xfer'[h].file = EmptyFile
      BY <1>3, ExportSteps, ZenonT(60) DEF Becomes, Ends
    <2>2. FileOf(h)'
      BY <1>0, <1>1, <2>1, EmptyFileIs DEF FileOf, FileAgrees
    <2>3. FileAgrees(backup)'
      BY <1>0, <2>1 DEF FileAgrees
    <2>4. xfer'[h].pc \in {"idle", "all", "list", "records"}
      BY <2>1
    <2> QED BY <1>0, <1>1, <2>1, <2>2, <2>3, <2>4, ExportAgrees
  <1>4. CASE ExportRecord(h)
    <2>1. PICK d \in x.todo :
            \/ OthersWait(h) /\ xfer'[h].pc = "records" /\ xfer'[h].file = x.file
            \/ /\ OthersWait(h) /\ xfer'[h].pc = "records"
               /\ xfer'[h].file.certs = WithRecord(x.file.certs, d, certs[d])
               /\ xfer'[h].file.list = x.file.list
      BY <1>4, ExportSteps DEF Becomes
    <2>2. UNCHANGED backup /\ x.pc = "records" /\ d \in Domains
      BY <1>0, <1>4, <2>1, ExportSteps
    <2>3. FileOf(h)'
      <3>1. CASE xfer'[h].file = x.file
        BY <1>0, <1>1, <2>1, <2>2, <3>1 DEF FileOf, FileAgrees
      <3>2. CASE /\ xfer'[h].file.certs = WithRecord(x.file.certs, d, certs[d])
                 /\ xfer'[h].file.list = x.file.list
        <4> DEFINE g == WithRecord(x.file.certs, d, certs[d])
        <4>0. x.file.certs \in PartialRecords /\ certs[d] \in CertAndKey
          BY <1>0, <2>2, FileFields DEF TypeOK, KeystoreTypeOK
        <4>1. /\ DOMAIN g = DOMAIN x.file.certs \cup {d} /\ g[d] = certs[d]
              /\ \A e \in DOMAIN x.file.certs \ {d} : g[e] = x.file.certs[e]
          BY <2>2, <4>0, WithRecordIs, ZenonT(60)
        <4>2. x.file.list = Managed
          BY <1>0, <2>2 DEF FileOf
        <4>3. certs[d].named => (certs[d].managed <=> d \in Managed)
          <5>1. /\ NoRequests
                /\ \A q \in Callers \ {h} : ~Active(q)
            BY <1>0, TransferringAlone
          <5>2. Settled(d)
            BY <2>2, <5>1, OpenOnly DEF OpenBy
          <5> QED BY <5>2 DEF Settled, Listed
        <4>4. \A e \in DOMAIN g : g[e].named => (g[e].managed <=> e \in x.file.list)
          BY <1>0, <4>1, <4>2, <4>3 DEF FileOf, FileAgrees
        <4> HIDE DEF g
        <4>5. FileAgrees(xfer[h].file)'
          BY <3>2, <4>4 DEF FileAgrees, g
        <4> QED BY <1>1, <2>1, <3>2, <4>2, <4>5 DEF FileOf
      <3> QED BY <2>1, <3>1, <3>2
    <2>4. FileAgrees(backup)'
      BY <1>0, <2>2 DEF FileAgrees
    <2>5. OthersWait(h) /\ xfer'[h].pc \in {"idle", "all", "list", "records"}
      BY <2>1
    <2> QED BY <1>0, <1>1, <2>3, <2>4, <2>5, ExportAgrees
  <1>5. CASE ExportReply(h) \/ ImportReply(h)
    <2>1. /\ backup' = backup \/ backup' = x.file
          /\ OthersWait(h) /\ xfer'[h].pc = "idle" /\ xfer'[h].file = EmptyFile
      BY <1>5, ExportSteps, ImportSteps DEF Becomes, Ends
    <2>2. FileOf(h)'
      BY <2>1, EmptyFileIs DEF FileOf, FileAgrees
    <2>3. FileAgrees(backup)'
      BY <1>0, <2>1 DEF FileAgrees, FileOf
    <2>4. xfer'[h].pc \in {"idle", "all", "list", "records"}
      BY <2>1
    <2> QED BY <1>0, <1>1, <2>1, <2>2, <2>3, <2>4, ExportAgrees
  <1> QED BY <1>2, <1>3, <1>4, <1>5

(* An import begins with nothing open, its file being the backup. *)
LEMMA ImportStartAgrees ==
  ASSUME NEW h \in Callers, ~Overlap, TransferTypeOK, Kept, Agreeing, ImportStart(h)
  PROVE  Agreeing'
  <1>1. /\ UNCHANGED <<md, certs, torn, call, req, w, backup>> /\ OthersWait(h)
        /\ xfer[h].pc = "idle" /\ MayTransfer(h) /\ xfer'[h].pc = "certs"
        /\ xfer'[h].file = backup /\ xfer'[h].todo = DOMAIN backup.certs
    BY ImportSteps DEF Becomes, StoreRests
  <1>2. \A d : ~OpenBy(h, d)
    BY <1>1 DEF OpenBy
  <1>3. SameFlags(h)' /\ ToBeAdded(h)'
    BY <1>1 DEF SameFlags, ToBeAdded, PutBack
  <1>4. FileAgrees(backup)' /\ FileOf(h)'
    BY <1>1 DEF Agreeing, FileAgrees, FileOf
  <1> QED BY <1>1, <1>2, <1>3, <1>4, QuietAgrees DEF TransferTypeOK, Kept

(* All records are stored: those of domains that were never in the list    *)
(* say that they are not.  All domains are added: nothing is open.         *)
LEMMA PhaseDoneAgrees ==
  ASSUME NEW h \in Callers, ~Overlap, TransferTypeOK, Kept, Agreeing, PhaseDone(h)
  PROVE  Agreeing'
  <1> DEFINE x == xfer[h]
  <1>1. /\ UNCHANGED <<md, certs, torn, call, req, w, backup>> /\ OthersWait(h)
        /\ xfer'[h].file = x.file /\ x.todo = {}
        /\ \/ x.pc = "certs" /\ xfer'[h].pc = "domains" /\ xfer'[h].todo = x.file.list
           \/ x.pc = "domains" /\ xfer'[h].pc = "reply" /\ xfer'[h].todo = {}
    BY ImportSteps DEF Becomes, StoreRests
  <1>2. FileAgrees(backup)' /\ FileOf(h)' /\ SameFlags(h)'
    BY <1>1 DEF Agreeing, FileAgrees, FileOf, SameFlags
  <1>3. CASE x.pc = "certs"
    <2>1. \A d \in DOMAIN x.file.certs :
            /\ ~Listed(d) /\ certs[d].named = x.file.certs[d].named
            /\ certs[d].managed = x.file.certs[d].managed
      BY <1>1, <1>3 DEF Kept, NewDomains, Agreeing, SameFlags, PutBack
    <2>2. ToBeAdded(h)'
      BY <1>1, <1>3, <2>1, ListedStays DEF ToBeAdded
    <2>3. \A d \in Domains : OpenBy(h, d) /\ ~OpenBy(h, d)' => Settled(d)
      <3>1. ASSUME NEW d \in Domains, OpenBy(h, d), ~OpenBy(h, d)'
            PROVE  d \in DOMAIN x.file.certs /\ d \notin x.file.list
        BY <1>1, <1>3, <3>1 DEF OpenBy
      <3>2. FileAgrees(x.file)
        BY DEF Agreeing, FileOf
      <3> QED BY <2>1, <3>1, <3>2 DEF Settled, FileAgrees
    <2> QED BY <1>1, <1>2, <1>3, <2>2, <2>3, QuietAgrees DEF TransferTypeOK, Kept
  <1>4. CASE x.pc = "domains"
    <2>1. \A d : ~OpenBy(h, d)
      BY <1>1, <1>4 DEF OpenBy
    <2>2. ToBeAdded(h)'
      BY <1>1, <1>4 DEF ToBeAdded
    <2> QED BY <1>1, <1>2, <1>4, <2>1, <2>2, QuietAgrees DEF TransferTypeOK, Kept
  <1> QED BY <1>1, <1>3, <1>4

(* A record is stored as the file has it; the rest of the store is left.   *)
LEMMA ImportCertAgrees ==
  ASSUME NEW h \in Callers, ~Overlap, ~Fault, TransferTypeOK, TodoInFile, Kept,
         Agreeing, ImportCert(h)
  PROVE  Agreeing'
  <1> DEFINE x == xfer[h]
  <1>0. /\ x.pc = "certs" /\ UNCHANGED <<md, call, req, w, backup>>
        /\ x.todo \subseteq DOMAIN x.file.certs /\ torn = {} /\ Managed' = Managed
        /\ x.file \in File /\ KeystoreTypeOK /\ TransferControl
        /\ \A e : Listed(e)' <=> Listed(e)
    BY ImportSteps, TransferFields, ListedStays
       DEF TodoInFile, TransferTypeOK, TypeOK, Kept, Agreeing
  <1>1. PICK d \in x.todo :
          /\ StoreCertAndKey(d, x.file.certs[d])
          /\ xfer'[h].pc = "certs" /\ xfer'[h].file = x.file
          /\ xfer'[h].todo = x.todo \ {d} /\ OthersWait(h)
    <2>1. \A d \in x.todo : ~StoreFails(d, x.file.certs[d])
      BY <1>0, FileFields, NothingFails
    <2> QED BY <2>1, ImportSteps DEF Becomes
  <1>2. /\ d \in Domains /\ d \in DOMAIN x.file.certs /\ ~Listed(d)
        /\ x.file.certs[d] \in CertAndKey
    BY <1>0, <1>1, FileFields DEF Kept, NewDomains
  <1>3. /\ certs'[d] = x.file.certs[d] /\ torn' = {}
        /\ \A e \in Domains \ {d} : certs'[e] = certs[e]
    BY <1>0, <1>1, <1>2 DEF StoreCertAndKey, KeystoreTypeOK
  <1>4. /\ NoRequests /\ req[h].pc = "idle" /\ call[h].pc = "idle"
        /\ \A q \in Callers \ {h} : ~Active(q) /\ call[q].pc = "idle"
    BY <1>0, TransferAlone
  <1>5. RunManaged'
    <2>1. w.pc \notin {"idle", "next"} => w.domain \in Domains \ {d}
      BY <1>2 DEF Kept, SerialInv, RunListed, Listed, TransferTypeOK, TypeOK,
                  DaemonTypeOK, Worker
    <2> QED BY <1>0, <1>3, <2>1 DEF Agreeing, RunManaged
  <1>6. \A e \in Domains : ~OpenBy(h, e)' => Settled(e)'
    <2> SUFFICES ASSUME NEW e \in Domains, ~OpenBy(h, e)' PROVE Settled(e)'
      OBVIOUS
    <2>1. e # d /\ ~OpenBy(h, e)
      BY <1>0, <1>1, <1>2 DEF OpenBy
    <2>2. Settled(e)
      BY <1>4, <2>1, OpenOnly
    <2> QED BY <1>0, <1>3, <2>1, <2>2, SettledNext
  <1>7. RequestSettles(h)'
    BY <1>0, <1>4, IdleSettles
  <1>8. SameFlags(h)'
    <2>1. PutBack(h)' = PutBack(h) \cup {d} /\ PutBack(h) \subseteq Domains
      BY <1>0, <1>1, <1>2, PutBackIn DEF PutBack
    <2>2. \A e \in PutBack(h) : /\ certs[e].named = x.file.certs[e].named
                                /\ certs[e].managed = x.file.certs[e].managed
      BY <1>0 DEF Agreeing, SameFlags
    <2>3. \A e \in PutBack(h)' : /\ certs'[e].named = x.file.certs[e].named
                                 /\ certs'[e].managed = x.file.certs[e].managed
      BY <1>3, <2>1, <2>2
    <2> QED BY <1>1, <2>3 DEF SameFlags
  <1>9. ToBeAdded(h)' /\ FileOf(h)' /\ FileAgrees(backup)'
    BY <1>0, <1>1 DEF ToBeAdded, Agreeing, FileOf, FileAgrees
  <1> QED BY <1>0, <1>1, <1>3, <1>4, <1>5, <1>6, <1>7, <1>8, <1>9, TransferAgrees

(* A domain that is in the list already is not one whose record was put    *)
(* back; another is about to be added.                                     *)
LEMMA ImportCheckAgrees ==
  ASSUME NEW h \in Callers, ~Overlap, ~Fault, TransferTypeOK, TodoInFile, Kept,
         Agreeing, ImportCheck(h)
  PROVE  Agreeing'
  <1> DEFINE x == xfer[h]
  <1>0. /\ x.pc = "domains" /\ UNCHANGED <<md, certs, torn, req, w, backup>>
        /\ TransferControl /\ call \in [Callers -> Call] /\ torn = {} /\ TypeOK
        /\ Managed' = Managed /\ \A e : Listed(e)' <=> Listed(e)
    BY ImportSteps, ListedStays DEF Kept, Agreeing, TransferTypeOK, TypeOK, KeystoreTypeOK
  <1>1. PICK d \in x.todo :
          /\ \/ Listed(d) /\ UNCHANGED call /\ xfer'[h].pc = "domains"
             \/ /\ ~Listed(d) /\ BeginAdd(h, d, SansInFile(x.file, d))
                /\ xfer'[h].pc = "adding"
          /\ xfer'[h].file = x.file /\ xfer'[h].todo = x.todo \ {d}
          /\ OthersWait(h)
    <2>1. ~ReadFails(ListFile)
      BY <1>0, NothingFails
    <2> QED BY <2>1, ImportSteps DEF Becomes
  <1>2. /\ NoRequests /\ req[h].pc = "idle" /\ call[h].pc = "idle"
        /\ \A q \in Callers \ {h} : ~Active(q) /\ call[q].pc = "idle"
    BY <1>0, TransferAlone
  <1>3. SameFlags(h)' /\ FileOf(h)' /\ FileAgrees(backup)'
    BY <1>0, <1>1 DEF SameFlags, Agreeing, FileOf, FileAgrees
  <1>4. ToBeAdded(h)'
    <2>1. \A e \in x.todo \cap DOMAIN x.file.certs : ~Listed(e)
      BY <1>0 DEF Agreeing, ToBeAdded
    <2> QED BY <1>0, <1>1, <2>1 DEF ToBeAdded
  <1>5. CASE Listed(d) /\ UNCHANGED call /\ xfer'[h].pc = "domains"
    <2>1. d \notin DOMAIN x.file.certs
      BY <1>0, <1>5 DEF Agreeing, ToBeAdded
    <2>2. \A e \in Domains : OpenBy(h, e) => OpenBy(h, e)'
      BY <1>0, <1>1, <1>5, <2>1 DEF OpenBy
    <2> QED BY <1>0, <1>1, <1>3, <1>4, <1>5, <2>2, QuietAgrees
  <1>6. CASE /\ ~Listed(d) /\ BeginAdd(h, d, SansInFile(x.file, d))
             /\ xfer'[h].pc = "adding"
    <2>1. /\ \A q \in Callers \ {h} : call'[q] = call[q]
          /\ call'[h].pc = "add" /\ call'[h].op = "add" /\ call'[h].domain = d
      BY <1>0, <1>6, CallBegins DEF BeginAdd
    <2>2. ASSUME NEW e \in Domains, ~OpenBy(h, e)' PROVE Settled(e)'
      <3>1. ~OpenBy(h, e)
        BY <1>0, <1>1, <1>6, <2>1, <2>2 DEF OpenBy
      <3>2. Settled(e)
        BY <1>2, <3>1, OpenOnly
      <3> QED BY <1>0, <3>2, SettledNext
    <2>3. RequestSettles(h)'
      <3>1. CallSettles(call[h])'
        BY <1>0, <1>6, <2>1 DEF CallSettles, AddPcs, RemovePcs
      <3> QED BY <1>0, <1>2, <3>1 DEF RequestSettles
    <2>4. RunManaged'
      BY <1>0 DEF Agreeing, RunManaged
    <2> QED BY <1>0, <1>1, <1>2, <1>3, <1>4, <2>1, <2>2, <2>3, <2>4, TransferAgrees
  <1> QED BY <1>1, <1>5, <1>6

(* What a keystore call makes of the record of its domain, and the copy it *)
(* is about to store.                                                      *)
LEMMA CallStepStores ==
  ASSUME NEW p \in Callers, NEW d, d = call[p].domain, KeystoreTypeOK, ~Fault,
         torn = {}, CallStep(p)
  PROVE  /\ \/ certs'[d] = certs[d] \/ certs'[d] = TakenOver(certs[d])
            \/ call[p].pc = "addStore" /\ certs'[d] = call[p].cert
         /\ call'[p].pc = "addStore" =>
              /\ certs'[d] = certs[d]
              /\ \/ call'[p].cert = Adopted(certs[d])
                 \/ /\ ~certs[d].named
                    /\ call'[p].cert = Placeholder(call[p].sans)
  <1>0. d \in Domains /\ call \in [Callers -> Call] /\ certs \in [Domains -> CertAndKey]
    BY DEF KeystoreTypeOK, Call
  <1>a. Succeed(p) \/ Refuse(p) => call'[p].pc = "done"
    <2>1. ASSUME NEW ok, Finish(p, ok) PROVE call'[p].pc = "done"
      BY <1>0, <2>1 DEF Finish
    <2>2. CASE Succeed(p)
      BY <2>1, <2>2 DEF Succeed
    <2>3. CASE Refuse(p)
      BY <2>1, <2>3 DEF Refuse
    <2> QED BY <2>2, <2>3
  <1>b. \A k, l, c : GotoWith(p, k, l, c) => call'[p].pc = k /\ call'[p].cert = c
    BY <1>0 DEF GotoWith
  <1>c. \A k : Goto(p, k) => call'[p].pc = k
    BY <1>0 DEF Goto
  <1>1. CASE AddStore(p)
    <2>1. StoreCertAndKey(d, call[p].cert)
      BY <1>0, <1>1, NothingFails DEF AddStore, Call
    <2>2. call[p].pc = "addStore" /\ call'[p].pc = "done"
      BY <1>a, <1>1 DEF AddStore
    <2>3. certs'[d] = call[p].cert
      BY <1>0, <2>1 DEF StoreCertAndKey
    <2> QED BY <2>2, <2>3
  <1>2. CASE MemoryAdd(p)
    <2>1. call'[p].pc = "done"
      BY <1>a, <1>2 DEF MemoryAdd
    <2>2. certs'[d] = certs[d] \/ certs'[d] = TakenOver(certs[d])
      BY <1>0, <1>2 DEF MemoryAdd
    <2> QED BY <2>1, <2>2
  <1>3. CASE AddGet(p)
    <2>1. ~ReadFails(d) /\ UNCHANGED certs
      BY <1>3, NothingFails DEF AddGet
    <2>2. \/ /\ ~certs[d].named
             /\ GotoWith(p, "addStore", {}, Placeholder(call[p].sans))
          \/ GotoWith(p, "addStore", {}, Adopted(certs[d]))
          \/ Succeed(p)
      BY <1>3, <2>1 DEF AddGet, NeedsPlaceholder
    <2> QED BY <1>a, <1>b, <2>1, <2>2
  <1>4. CASE VaultAddRead(p) \/ VaultAddWrite(p) \/ FileAddList(p)
    <2>1. UNCHANGED certs
      BY <1>4 DEF VaultAddRead, VaultAddWrite, FileAddList
    <2>2. call'[p].pc # "addStore"
      BY <1>a, <1>b, <1>c, <1>4 DEF VaultAddRead, VaultAddWrite, FileAddList, AddTo
    <2> QED BY <2>1, <2>2
  <1>5. CASE RemoveStep(p)
    <2>1. UNCHANGED certs
      BY <1>5 DEF RemoveStep, VaultRemoveRead, VaultRemoveWrite, FileRemove, MemoryRemove
    <2>2. call'[p].pc # "addStore"
      BY <1>a, <1>b, <1>5 DEF RemoveStep, VaultRemoveRead, VaultRemoveWrite, FileRemove,
                              MemoryRemove, RemoveFrom
    <2> QED BY <2>1, <2>2
  <1> QED BY <1>1, <1>2, <1>3, <1>4, <1>5 DEF CallStep, AddStep

(* The call that adds a domain leaves it in order when it returns, and the *)
(* run finds it managed if it has it.                                      *)
LEMMA ImportAddingAgrees ==
  ASSUME NEW h \in Callers, ~Overlap, ~Fault, TransferTypeOK, Kept, Agreeing,
         ImportAdding(h)
  PROVE  Agreeing'
  <1> DEFINE d == call[h].domain
  <1>0. /\ xfer[h].pc = "adding" /\ CallStep(h) /\ UNCHANGED <<req, w, xfer, backup>>
        /\ KeystoreTypeOK /\ TransferControl /\ torn = {} /\ CallSettles(call[h])
    BY DEF ImportAdding, TransferTypeOK, TypeOK, Kept, Agreeing, RequestSettles
  <1>1. /\ torn' = {} /\ call'[h].op = call[h].op /\ call'[h].domain = d
        /\ CallSettles(call[h])'
        /\ \A e \in Domains \ {d} :
             certs'[e] = certs[e] /\ (Listed(e)' <=> Listed(e))
    BY <1>0, CallStepSettles
  <1>2. /\ d \in Domains /\ d \notin xfer[h].todo
        /\ xfer[h].todo \subseteq Domains
    BY <1>0, TransferFields
       DEF TransferTypeOK, KeystoreTypeOK, Call, TransferControl, AddOfImport
  <1>3. /\ NoRequests /\ req[h].pc = "idle"
        /\ \A q \in Callers \ {h} : ~Active(q) /\ call[q].pc = "idle"
        /\ \A q \in Callers \ {h} : call'[q] = call[q]
    BY <1>0, TransferAlone, CallStepHolds DEF Kept, Held
  <1>4. RunManaged'
    <2>1. certs'[d] = certs[d] \/ certs'[d].managed
      <3>1. call[h].pc = "addStore" => call[h].cert.managed
        BY <1>0 DEF CallSettles
      <3>2. TakenOver(certs[d]).managed
        BY <1>0, <1>2, NamesAndFlags DEF KeystoreTypeOK
      <3> QED BY <1>0, <3>1, <3>2, CallStepStores
    <2>2. w.domain \in Domains
      BY DEF TransferTypeOK, TypeOK, DaemonTypeOK, Worker
    <2> QED BY <1>0, <1>1, <2>1, <2>2 DEF Agreeing, RunManaged
  <1>5. \A e \in Domains : ~OpenBy(h, e)' => Settled(e)'
    <2> SUFFICES ASSUME NEW e \in Domains, ~OpenBy(h, e)' PROVE Settled(e)'
      OBVIOUS
    <2>1. e # d /\ ~OpenBy(h, e)
      BY <1>0, <1>1 DEF OpenBy
    <2>2. Settled(e)
      BY <1>3, <2>1, OpenOnly
    <2> QED BY <1>1, <2>1, <2>2, SettledNext
  <1>6. RequestSettles(h)'
    BY <1>0, <1>1, <1>3 DEF RequestSettles
  <1>7. SameFlags(h)' /\ FileOf(h)' /\ FileAgrees(backup)' /\ OthersWait(h)
    BY <1>0 DEF SameFlags, Agreeing, FileOf, FileAgrees, OthersWait
  <1>8. ToBeAdded(h)'
    BY <1>0, <1>1, <1>2 DEF Agreeing, ToBeAdded
  <1> QED BY <1>0, <1>1, <1>3, <1>4, <1>5, <1>6, <1>7, <1>8, TransferAgrees

(* The call has returned. *)
LEMMA ImportAddedAgrees ==
  ASSUME NEW h \in Callers, ~Overlap, TransferTypeOK, Kept, Agreeing, ImportAdded(h)
  PROVE  Agreeing'
  <1> DEFINE x == xfer[h]
  <1>1. /\ x.pc = "adding" /\ call[h].pc = "done" /\ Answered(h)
        /\ UNCHANGED <<md, certs, torn, req, w, backup>>
        /\ xfer'[h].pc = "domains" /\ xfer'[h].file = x.file
        /\ xfer'[h].todo = x.todo /\ OthersWait(h)
    BY ImportSteps DEF Becomes
  <1>2. /\ call \in [Callers -> Call] /\ req \in [Callers -> Requests]
        /\ TransferControl /\ call[h].op = "add"
    BY <1>1 DEF Kept, TransferTypeOK, TypeOK, KeystoreTypeOK, HandlersTypeOK,
                TransferControl, AddOfImport
  <1>3. /\ NoRequests /\ req[h].pc = "idle"
        /\ \A q \in Callers \ {h} : ~Active(q) /\ call[q].pc = "idle"
        /\ Managed' = Managed /\ \A e : Listed(e)' <=> Listed(e)
    BY <1>1, <1>2, TransferAlone, ListedStays
  <1>4. call'[h].pc = "idle" /\ \A q \in Callers \ {h} : call'[q] = call[q]
    BY <1>1, <1>2, AnswersRest
  <1>5. \A e \in Domains : ~OpenBy(h, e)' => Settled(e)'
    <2> SUFFICES ASSUME NEW e \in Domains, ~OpenBy(h, e)' PROVE Settled(e)'
      OBVIOUS
    <2>1. Settled(call[h].domain)
      BY <1>1, <1>2 DEF Agreeing, RequestSettles, CallSettles
    <2>2. e = call[h].domain \/ ~OpenBy(h, e)
      BY <1>1 DEF OpenBy
    <2>3. Settled(e)
      BY <1>3, <2>1, <2>2, OpenOnly
    <2> QED BY <1>1, <1>3, <2>3, SettledNext
  <1>6. RequestSettles(h)'
    BY <1>1, <1>3, <1>4, IdleSettles
  <1>7. SameFlags(h)' /\ FileOf(h)' /\ FileAgrees(backup)' /\ RunManaged' /\ torn' = {}
    BY <1>1 DEF SameFlags, Agreeing, FileOf, FileAgrees, RunManaged
  <1>8. ToBeAdded(h)'
    BY <1>1, <1>3 DEF Agreeing, ToBeAdded
  <1> QED BY <1>1, <1>3, <1>4, <1>5, <1>6, <1>7, <1>8, TransferAgrees

(* Certificates and their copies get older, nothing else. *)
LEMMA AgedFileAgrees ==
  ASSUME NEW f \in File, NEW d
  PROVE  FileAgrees(f) <=> FileAgrees(AgedIn(f, d))
  <1> DEFINE g == AgedIn(f, d)
  <1>1. /\ DOMAIN g.certs = DOMAIN f.certs /\ g.list = f.list
        /\ \A e \in DOMAIN f.certs : /\ g.certs[e].named = f.certs[e].named
                                     /\ g.certs[e].managed = f.certs[e].managed
    BY AgedInIs, FileFields, AgedLabels DEF SameLabels
  <1> HIDE DEF g
  <1>2. FileAgrees(f) <=> FileAgrees(g)
    BY <1>1 DEF FileAgrees
  <1> QED BY <1>2 DEF g

LEMMA TimeAgrees ==
  ASSUME NEW d \in Domains, TransferTypeOK, Agreeing, TimePasses(d)
  PROVE  Agreeing'
  <1>0. /\ UNCHANGED <<md, torn>> /\ Managed' = Managed
        /\ \A e : Listed(e)' <=> Listed(e)
        /\ TypeOK /\ backup \in File /\ backup' = AgedIn(backup, d)
    BY TimeLeaves, ListedStays DEF TransferTypeOK
  <1>1. /\ \A e \in Domains : /\ certs'[e].named = certs[e].named
                              /\ certs'[e].managed = certs[e].managed
        /\ \A p \in Callers :
             /\ call'[p].pc = call[p].pc /\ call'[p].domain = call[p].domain
             /\ req'[p].pc = req[p].pc /\ req'[p].domain = req[p].domain
             /\ xfer'[p].pc = xfer[p].pc /\ xfer'[p].todo = xfer[p].todo
             /\ xfer[p].file \in File /\ xfer'[p].file = AgedIn(xfer[p].file, d)
    BY TimeLeaves, TransferFields DEF SameLabels, TransferTypeOK
  <1>2. \A e \in Domains : Settled(e)' <=> Settled(e)
    BY <1>0, <1>1 DEF Settled
  <1>3. /\ RunSettles' /\ RunManaged'
        /\ \A p \in Callers : RequestSettles(p)'
    <2>1. CASE Age(d)
      BY <1>0, <2>1, AgeSettles DEF Agreeing
    <2>2. CASE UNCHANGED vars
      <3>1. UNCHANGED <<md, certs, call, req, w>>
        BY <2>2 DEF vars, keystoreVars
      <3>2. \A p \in Callers : RequestSettles(p)'
        BY <1>0, <1>2, <3>1, RequestSettlesStays DEF Agreeing
      <3> QED BY <3>1, <3>2 DEF Agreeing, RunSettles, RunManaged
    <2> QED BY <2>1, <2>2 DEF TimePasses, AgeOut
  <1>4. ASSUME NEW p \in Callers
        PROVE  /\ DOMAIN xfer'[p].file.certs = DOMAIN xfer[p].file.certs
               /\ DOMAIN xfer[p].file.certs \subseteq Domains
               /\ xfer'[p].file.list = xfer[p].file.list
               /\ \A e \in DOMAIN xfer[p].file.certs :
                    SameLabels(xfer'[p].file.certs[e], xfer[p].file.certs[e])
    BY <1>1, AgedInIs, FileFields, AgedLabels DEF SameLabels
  <1>5. \A e \in Domains : Untouched(e)' /\ ~Open(e)' => Settled(e)'
    <2>1. \A e \in Domains : Untouched(e)' <=> Untouched(e)
      BY <1>1 DEF Untouched
    <2>2. \A e \in Domains, p \in Callers : OpenBy(p, e)' <=> OpenBy(p, e)
      BY <1>1, <1>4 DEF OpenBy
    <2>3. \A e \in Domains : Open(e)' <=> Open(e)
      BY <2>2 DEF Open
    <2> QED BY <1>2, <2>1, <2>3 DEF Agreeing
  <1>6. ASSUME NEW p \in Callers PROVE SameFlags(p)' /\ ToBeAdded(p)' /\ FileOf(p)'
    <2>1. SameFlags(p)'
      <3>1. PutBack(p)' = PutBack(p) /\ PutBack(p) \subseteq DOMAIN xfer[p].file.certs
        BY <1>1, <1>4 DEF PutBack
      <3> QED BY <1>1, <1>4, <3>1 DEF Agreeing, SameFlags, SameLabels
    <2>2. ToBeAdded(p)'
      BY <1>0, <1>1, <1>4 DEF Agreeing, ToBeAdded
    <2>3. FileAgrees(xfer'[p].file)
      BY <1>1, AgedFileAgrees DEF Agreeing, FileOf
    <2>4. FileOf(p)'
      BY <1>0, <1>1, <1>4, <2>3 DEF Agreeing, FileOf, FileAgrees
    <2> QED BY <2>1, <2>2, <2>4
  <1>7. FileAgrees(backup)'
    <2>1. FileAgrees(AgedIn(backup, d))
      BY <1>0, AgedFileAgrees DEF Agreeing
    <2> QED BY <1>0, <2>1 DEF FileAgrees
  <1> QED BY <1>0, <1>3, <1>5, <1>6, <1>7 DEF Agreeing

(* A store that begins empty, with whatever backup there is. *)
LEMMA EmptyStoreAgrees == EmptyStore /\ FileAgrees(backup) => Agreeing
  <1> SUFFICES ASSUME EmptyStore, FileAgrees(backup) PROVE Agreeing
    OBVIOUS
  <1>1. /\ AtRest.pc = "idle" /\ NoCall.pc = "idle" /\ NoRequest.pc = "idle"
        /\ NoTransfer.pc = "idle" /\ NoTransfer.file = EmptyFile
    BY DEF AtRest, NoCall, NoRequest, NoTransfer
  <1>2. /\ w.pc = "idle"
        /\ \A h \in Callers : /\ call[h].pc = "idle" /\ req[h].pc = "idle"
                              /\ xfer[h].pc = "idle" /\ xfer[h].file = EmptyFile
    BY <1>1 DEF EmptyStore
  <1>3. RunSettles /\ RunManaged
    BY <1>2 DEF RunSettles, RunManaged
  <1>4. \A d \in Domains : Settled(d)
    BY NamesAndFlags DEF EmptyStore, Settled, Listed, Managed, DomainsOf
  <1>5. \A h \in Callers : RequestSettles(h)
    BY <1>2 DEF RequestSettles, CallSettles, AddPcs, RemovePcs
  <1>6. \A h \in Callers : SameFlags(h) /\ ToBeAdded(h) /\ FileOf(h)
    BY <1>2, EmptyFileIs DEF SameFlags, ToBeAdded, FileOf, FileAgrees
  <1> QED BY <1>3, <1>4, <1>5, <1>6 DEF EmptyStore, Agreeing

LEMMA EmptyStoreAgreesNext == EmptyStore' /\ FileAgrees(backup)' => Agreeing'
  BY EmptyStoreAgrees, PTL

LEMMA AgreeingStep ==
  ASSUME ~Overlap, ~Fault, TransferTypeOK, TodoInFile, Kept, Agreeing,
         [TransferNext]_transferVars
  PROVE  Agreeing'
  <1>1. ASSUME NEW h \in Callers,
               ExportAccount(h) \/ ImportStart(h) \/ TransferStep(h)
        PROVE  Agreeing'
    BY <1>1, ExportStepAgrees, ImportStartAgrees, PhaseDoneAgrees, ImportCertAgrees,
       ImportCheckAgrees, ImportAddingAgrees, ImportAddedAgrees DEF TransferStep
  <1>2. ASSUME NEW h \in Callers, ClientBeside(h) PROVE Agreeing'
    BY <1>2, ClientBesideAgrees
  <1>3. CASE ServiceStep
    BY <1>3, RunStepAgreesBeside, ServerStepAgrees DEF ServiceStep
  <1>4. ASSUME NEW d \in Domains, TimePasses(d) PROVE Agreeing'
    BY <1>4, TimeAgrees
  <1>5. CASE NewStore
    <2>1. FileAgrees(backup)'
      BY <1>5 DEF NewStore, Agreeing, FileAgrees
    <2> QED BY <1>5, <2>1, StoresBeginEmpty, EmptyStoreAgreesNext
  <1>6. CASE UNCHANGED transferVars
    <2>1. UNCHANGED <<md, certs, torn, call, req, w, xfer, backup>>
      BY <1>6 DEF transferVars, vars, keystoreVars
    <2>2. \A d \in Domains : Settled(d)' <=> Settled(d)
      BY <2>1, SettledNext, ListedStays
    <2>3. \A h \in Callers : RequestSettles(h)'
      BY <2>1, <2>2, RequestSettlesStays DEF Agreeing, TransferTypeOK
    <2>4. \A h \in Callers : SameFlags(h)' /\ ToBeAdded(h)' /\ FileOf(h)'
      BY <2>1, ListedStays DEF Agreeing, SameFlags, ToBeAdded, FileOf, FileAgrees, PutBack
    <2>5. RunSettles' /\ RunManaged' /\ FileAgrees(backup)'
      BY <2>1 DEF Agreeing, RunSettles, RunManaged, FileAgrees
    <2>6. \A d \in Domains : Untouched(d)' /\ ~Open(d)' => Settled(d)'
      BY <2>1, <2>2 DEF Agreeing, Untouched, Open, OpenBy
    <2> QED BY <2>1, <2>3, <2>4, <2>5, <2>6 DEF Agreeing
  <1> QED BY <1>1, <1>2, <1>3, <1>4, <1>5, <1>6 DEF TransferNext, TransferAction

(* The invariant, until anything fails. *)
LEMMA AgreeingAlways ==
  ASSUME ~Overlap, RestoreOnly
  PROVE  TransferSpec => [](faults = 0 => Agreeing)
  <1>1. TransferInit => Agreeing
    <2>1. TransferInit => FileAgrees(backup)
      BY EmptyFileIs DEF TransferInit, FileAgrees
    <2> QED BY <2>1, StoresBeginEmpty, EmptyStoreAgrees
  <1>2. /\ TransferTypeOK /\ TodoInFile /\ (ListKept => Kept)
        /\ (faults = 0 => Agreeing) /\ [TransferNext]_transferVars
        => (faults = 0 => Agreeing)'
    <2> SUFFICES ASSUME TransferTypeOK, TodoInFile, ListKept => Kept,
                        faults = 0 => Agreeing, [TransferNext]_transferVars,
                        faults' = 0
                 PROVE  Agreeing'
      OBVIOUS
    <2>1. faults = 0 /\ ~Fault
      BY TransferFaults, UnfailedBefore DEF TransferTypeOK, TypeOK
    <2>2. Kept
      BY <2>1 DEF ListKept
    <2> QED BY <2>1, <2>2, AgreeingStep
  <1> QED BY <1>1, <1>2, TransferTypes, KeptAlways, PTL DEF TransferSpec

(* Restoring records of new domains keeps what requests and runs keep: the *)
(* list and the records agree whenever nothing is under way, although the  *)
(* daemon runs while the records are stored and the domains are added one  *)
(* by one.                                                                 *)
THEOREM RestoresAgree ==
  ASSUME ~Overlap, RestoreOnly
  PROVE  TransferSpec => []AgreesAfterImports
  <1>1. TransferTypeOK /\ (faults = 0 => Agreeing) => AgreesAfterImports
    <2> SUFFICES ASSUME TransferTypeOK, Agreeing, NoTransfers, Quiet
                 PROVE  \A d \in Domains :
                          certs[d].named => (certs[d].managed <=> Listed(d))
      BY DEF AgreesAfterImports, ListAndRecordsAgree
    <2>1. \A d \in Domains : Settled(d)
      BY DEF Agreeing, NoTransfers, Quiet, NoRequests, Untouched, Open, OpenBy
    <2> QED BY <2>1 DEF Settled, Listed
  <1> QED BY <1>1, AgreeingAlways, TransferTypes, PTL
-----------------------------------------------------------------------------
(* Younger, step by step, whatever fails. *)

(* What is done to a record, as far as its certificate goes. *)
LEMMA Pems ==
  /\ Zero.pem = "none" /\ \A s \in Sans : Placeholder(s).pem = "none"
  /\ \A c \in CertAndKey :
       /\ Adopted(c).pem = c.pem /\ TakenOver(c).pem = c.pem
       /\ Unmanaged(c).pem = c.pem /\ Failed(c).pem = c.pem
       /\ Aged(c).pem = IF c.pem = "fresh" THEN "due" ELSE c.pem
  BY DEF Zero, Placeholder, Adopted, TakenOver, Unmanaged, Failed, Aged, CertAndKey

LEMMA YoungPems ==
  ASSUME NEW c \in CertAndKey, NEW f \in CertAndKey
  PROVE  /\ AsYoung(c, c) /\ (c.pem = "fresh" => AsYoung(c, f))
         /\ \A b : b.pem = c.pem /\ AsYoung(c, f) => AsYoung(b, f)
         /\ AsYoung(c, f) => AsYoung(Aged(c), Aged(f)) /\ AsYoung(c, Aged(f))
  <1>1. AsYoung(c, c) /\ (c.pem = "fresh" => AsYoung(c, f))
    BY DEF AsYoung
  <1>2. \A b : b.pem = c.pem /\ AsYoung(c, f) => AsYoung(b, f)
    BY DEF AsYoung
  <1>3. AsYoung(c, f) => AsYoung(Aged(c), Aged(f)) /\ AsYoung(c, Aged(f))
    BY Pems DEF AsYoung
  <1> QED BY <1>1, <1>2, <1>3

LEMMA SolidRecords ==
  /\ Solid(Zero) /\ \A c \in CertAndKey : c.named => Solid(c)
  /\ \A b, c : b.pem = c.pem /\ b.named = c.named /\ Solid(c) => Solid(b)
  /\ \A c \in CertAndKey : Solid(c) => Solid(TakenOver(c)) /\ Solid(Aged(c))
  <1>1. Solid(Zero) /\ \A c \in CertAndKey : c.named => Solid(c)
    BY Pems DEF Solid
  <1>2. \A b, c : b.pem = c.pem /\ b.named = c.named /\ Solid(c) => Solid(b)
    BY DEF Solid
  <1>3. ASSUME NEW c \in CertAndKey, Solid(c)
        PROVE  Solid(TakenOver(c)) /\ Solid(Aged(c))
    <2>1. TakenOver(c).named = c.named /\ Aged(c).named = c.named
      BY DEF TakenOver, Aged, CertAndKey
    <2>2. TakenOver(c).pem = c.pem /\ (Aged(c).pem # "none" => c.pem # "none")
      BY Pems
    <2> QED BY <1>3, <2>1, <2>2 DEF Solid
  <1> QED BY <1>1, <1>2, <1>3

(* A caller that has put nothing back. *)
LEMMA NothingBack ==
  /\ \A h \in Callers :
       xfer[h].pc \in {"idle", "all", "list", "records"} => Young(h)
  /\ \A h \in Callers :
       xfer[h].pc = "certs" /\ xfer[h].todo = DOMAIN xfer[h].file.certs => Young(h)
  BY DEF Young, BackWhole, CopiesYoung, PutBack

LEMMA NothingBackNext ==
  /\ \A h \in Callers :
       xfer'[h].pc \in {"idle", "all", "list", "records"} => Young(h)'
  /\ \A h \in Callers :
       xfer'[h].pc = "certs" /\ xfer'[h].todo = DOMAIN xfer'[h].file.certs => Young(h)'
  BY DEF Young, BackWhole, CopiesYoung, PutBack

(* What is not spoiled after a step was not before, is not torn by it, and *)
(* no add has failed to read it.                                           *)
LEMMA Unspoiled ==
  ASSUME NoteSpoiled \/ UNCHANGED <<spoiled, torn, call>>,
         NEW h \in Callers, Importing(h)', NEW d, d \notin spoiled'
  PROVE  /\ d \notin spoiled /\ (d \in torn' => d \in torn)
         /\ \A g \in Callers : Blind(g) => call[g].domain # d
  BY DEF NoteSpoiled, Spoils, Blind

(* A step of a transfer: it is enough that it leaves itself in order. *)
LEMMA TransferYounger ==
  ASSUME NEW h \in Callers, OthersWait(h), UNCHANGED req, Younger,
         \A g \in Callers \ {h} : ~Active(g),
         \A d \in Domains : Solid(certs'[d]),
         FileSolid(backup'), FileSolid(xfer'[h].file), Young(h)'
  PROVE  Younger'
  <1>1. ASSUME NEW g \in Callers \ {h} PROVE FileSolid(xfer'[g].file) /\ Young(g)'
    <2>1. xfer'[g] = xfer[g] /\ xfer[g].pc = "idle"
      BY DEF OthersWait, Active
    <2> QED BY <2>1, NothingBackNext DEF Younger
  <1>2. \A g \in Callers : FileSolid(xfer'[g].file) /\ Young(g)'
    BY <1>1
  <1> QED BY <1>2 DEF Younger, FileSolid

LEMMA ExportStepYounger ==
  ASSUME NEW h \in Callers, ~Overlap, TransferTypeOK, Kept, Younger,
         \/ ExportAccount(h) \/ ExportAll(h) \/ ExportList(h)
         \/ ExportRecord(h) \/ ExportReply(h) \/ ImportReply(h)
  PROVE  Younger'
  <1> DEFINE x == xfer[h]
  <1>0. /\ StoreRests /\ (x.pc # "idle" \/ MayTransfer(h)) /\ TransferControl
        /\ FileSolid(x.file) /\ FileSolid(backup)
        /\ x.file \in File /\ x.todo \subseteq Domains
    BY ExportSteps, ImportSteps, TransferFields DEF TransferTypeOK, Kept, Younger
  <1>1. /\ UNCHANGED <<md, certs, torn, call, req, w>>
        /\ \A g \in Callers \ {h} : ~Active(g)
    BY <1>0, TransferringAlone DEF StoreRests
  <1>2. CASE ExportAccount(h) \/ ExportAll(h)
    <2>1. /\ UNCHANGED backup /\ x.pc \in {"idle", "all"}
          /\ \/ UNCHANGED xfer
             \/ /\ OthersWait(h) /\ xfer'[h].pc \in {"all", "list"}
                /\ xfer'[h].file = x.file
             \/ OthersWait(h) /\ xfer'[h].pc = "idle" /\ xfer'[h].file = EmptyFile
      BY <1>2, ExportSteps DEF Becomes, Ends
    <2>2. OthersWait(h) /\ xfer'[h].pc \in {"idle", "all", "list", "records"}
      BY <2>1 DEF OthersWait
    <2>3. FileSolid(xfer'[h].file) /\ FileSolid(backup')
      BY <1>0, <2>1, EmptyFileIs DEF FileSolid
    <2> QED BY <1>1, <2>2, <2>3, NothingBackNext, TransferYounger DEF Younger
  <1>3. CASE ExportList(h)
    <2>1. /\ UNCHANGED backup /\ OthersWait(h)
          /\ \/ xfer'[h].pc = "records" /\ xfer'[h].file.certs = x.file.certs
             \/ xfer'[h].pc = "idle" /\ xfer'[h].file = EmptyFile
      BY <1>3, ExportSteps, ZenonT(60) DEF Becomes, Ends
    <2>2. FileSolid(xfer'[h].file) /\ FileSolid(backup')
      BY <1>0, <2>1, EmptyFileIs DEF FileSolid
    <2> QED BY <1>1, <2>1, <2>2, NothingBackNext, TransferYounger DEF Younger
  <1>4. CASE ExportRecord(h)
    <2>1. PICK d \in x.todo :
            /\ OthersWait(h) /\ xfer'[h].pc = "records"
            /\ \/ xfer'[h].file = x.file
               \/ xfer'[h].file.certs = WithRecord(x.file.certs, d, certs[d])
      BY <1>4, ExportSteps DEF Becomes
    <2>2. /\ UNCHANGED backup /\ d \in Domains /\ Solid(certs[d])
          /\ x.file.certs \in PartialRecords /\ certs[d] \in CertAndKey
      BY <1>0, <1>4, <2>1, ExportSteps, FileFields
         DEF Younger, TransferTypeOK, TypeOK, KeystoreTypeOK
    <2>3. FileSolid(xfer'[h].file)
      <3> DEFINE g == WithRecord(x.file.certs, d, certs[d])
      <3>1. CASE xfer'[h].file = x.file
        BY <1>0, <3>1
      <3>2. CASE xfer'[h].file.certs = g
        <4>1. /\ DOMAIN g = DOMAIN x.file.certs \cup {d} /\ g[d] = certs[d]
              /\ \A e \in DOMAIN x.file.certs \ {d} : g[e] = x.file.certs[e]
          BY <2>2, WithRecordIs, ZenonT(60)
        <4> HIDE DEF g
        <4>2. ASSUME NEW e \in DOMAIN g PROVE Solid(g[e])
          <5>1. CASE e = d
            BY <2>2, <4>1, <5>1
          <5>2. CASE e # d
            <6>1. e \in DOMAIN x.file.certs /\ g[e] = x.file.certs[e]
              BY <4>1, <4>2, <5>2
            <6>2. Solid(x.file.certs[e])
              BY <1>0, <6>1 DEF FileSolid
            <6> QED BY <6>1, <6>2
          <5> QED BY <5>1, <5>2
        <4> QED BY <3>2, <4>2 DEF FileSolid
      <3> QED BY <2>1, <3>1, <3>2
    <2> QED BY <1>0, <1>1, <2>1, <2>2, <2>3, NothingBackNext, TransferYounger DEF Younger
  <1>5. CASE ExportReply(h) \/ ImportReply(h)
    <2>1. /\ backup' = backup \/ backup' = x.file
          /\ OthersWait(h) /\ xfer'[h].pc = "idle" /\ xfer'[h].file = EmptyFile
      BY <1>5, ExportSteps, ImportSteps DEF Becomes, Ends
    <2>2. FileSolid(xfer'[h].file) /\ FileSolid(backup')
      BY <1>0, <2>1, EmptyFileIs DEF FileSolid
    <2> QED BY <1>1, <2>1, <2>2, NothingBackNext, TransferYounger DEF Younger
  <1> QED BY <1>2, <1>3, <1>4, <1>5

LEMMA ImportStartYounger ==
  ASSUME NEW h \in Callers, ~Overlap, TransferTypeOK, Kept, Younger, ImportStart(h)
  PROVE  Younger'
  <1>1. /\ UNCHANGED <<certs, req, backup>> /\ OthersWait(h) /\ MayTransfer(h)
        /\ xfer'[h].pc = "certs" /\ xfer'[h].file = backup
        /\ xfer'[h].todo = DOMAIN backup.certs
    BY ImportSteps DEF Becomes, StoreRests
  <1>2. \A g \in Callers \ {h} : ~Active(g)
    BY <1>1, TransferringAlone DEF Kept
  <1> QED BY <1>1, <1>2, NothingBackNext, TransferYounger DEF Younger

(* All records are stored, and the run has no copy of any of them, since   *)
(* their domains are not in the list.                                      *)
LEMMA PhaseDoneYounger ==
  ASSUME NEW h \in Callers, ~Overlap, TransferTypeOK, Kept, Younger, NoteSpoiled,
         PhaseDone(h)
  PROVE  Younger'
  <1> DEFINE x == xfer[h]
  <1>1. /\ UNCHANGED <<certs, torn, call, req, w, backup>> /\ OthersWait(h)
        /\ x.pc \in {"certs", "domains"} /\ xfer'[h].pc \in {"domains", "reply"}
        /\ xfer'[h].file = x.file /\ xfer'[h].failed = x.failed /\ x.todo = {}
    BY ImportSteps DEF Becomes, StoreRests
  <1>2. /\ \A g \in Callers \ {h} : ~Active(g)
        /\ call[h].pc = "idle"
    BY <1>1, TransferAlone DEF Kept
  <1>3. PutBack(h) = DOMAIN x.file.certs /\ PutBack(h)' = DOMAIN x.file.certs
    BY <1>1 DEF PutBack
  <1>5. Young(h)'
    <2> SUFFICES ASSUME ~x.failed PROVE BackWhole(h)' /\ CopiesYoung(h)'
      BY <1>1 DEF Young
    <2>1. BackWhole(h) /\ CopiesYoung(h)
      BY DEF Younger, Young
    <2>2. BackWhole(h)'
      BY <1>1, <1>3, <2>1, Unspoiled DEF BackWhole, Importing
    <2>3. ASSUME NEW d \in DOMAIN x.file.certs \ spoiled',
                 w.pc \in {"failStore", "errStore"}, w.domain = d
          PROVE  AsYoung(w.cert, x.file.certs[d])
      <3>1. x.pc # "certs"
        BY <2>3 DEF Kept, NewDomains, SerialInv, RunListed, Listed
      <3>2. d \notin spoiled
        BY <1>1, <2>3, Unspoiled DEF Importing
      <3> QED BY <1>1, <2>1, <2>3, <3>1, <3>2 DEF CopiesYoung
    <2>4. CopiesYoung(h)'
      BY <1>1, <1>2, <2>3 DEF CopiesYoung
    <2> QED BY <2>2, <2>4
  <1> QED BY <1>1, <1>2, <1>5, TransferYounger DEF Younger

LEMMA ImportCertYounger ==
  ASSUME NEW h \in Callers, TransferTypeOK, TodoInFile, Kept, Younger, NoteSpoiled,
         ImportCert(h)
  PROVE  Younger'
  <1> DEFINE x == xfer[h]
  <1>0. /\ x.pc = "certs" /\ UNCHANGED <<req, backup>>
        /\ x.todo \subseteq DOMAIN x.file.certs
        /\ x.file \in File /\ KeystoreTypeOK
    BY ImportSteps, TransferFields DEF TodoInFile, TransferTypeOK, TypeOK
  <1>1. PICK d \in x.todo :
          /\ \/ StoreCertAndKey(d, x.file.certs[d]) /\ xfer'[h].failed = x.failed
             \/ StoreFails(d, x.file.certs[d]) /\ xfer'[h].failed
          /\ xfer'[h].pc = "certs" /\ xfer'[h].file = x.file
          /\ xfer'[h].todo = x.todo \ {d} /\ OthersWait(h)
    BY ImportSteps DEF Becomes
  <1>2. d \in Domains /\ d \in DOMAIN x.file.certs /\ x.file.certs[d] \in CertAndKey
    BY <1>0, <1>1, FileFields
  <1>3. /\ certs'[d] = x.file.certs[d] \/ certs'[d] = certs[d]
        /\ \A e \in Domains \ {d} : certs'[e] = certs[e]
    BY <1>0, <1>1, <1>2, StoreOutcome DEF KeystoreTypeOK
  <1>4. \A q \in Callers \ {h} : ~Active(q)
    BY <1>0, TransferAlone DEF Kept
  <1>5. \A e \in Domains : Solid(certs'[e])
    BY <1>2, <1>3 DEF Younger, FileSolid
  <1>6. PutBack(h)' = PutBack(h) \cup {d} /\ PutBack(h) \subseteq Domains
    BY <1>0, <1>1, <1>2, PutBackIn DEF PutBack
  <1>7. ASSUME ~xfer'[h].failed PROVE BackWhole(h)'
    <2>1. ~x.failed /\ StoreCertAndKey(d, x.file.certs[d])
      BY <1>1, <1>7
    <2>2. BackWhole(h)
      BY <2>1 DEF Younger, Young
    <2>3. certs'[d] = x.file.certs[d] /\ torn' = torn \ {d}
      BY <1>0, <1>2, <2>1 DEF StoreCertAndKey, KeystoreTypeOK
    <2>4. ASSUME NEW e \in PutBack(h)' \ spoiled'
          PROVE  e \notin torn' /\ AsYoung(certs'[e], x.file.certs[e])
      <3>1. CASE e = d
        BY <1>2, <2>3, <3>1, YoungPems
      <3>2. CASE e # d
        <4>1. e \in PutBack(h) \ spoiled
          BY <1>1, <1>6, <2>4, <3>2, Unspoiled DEF Importing
        <4> QED BY <1>3, <1>6, <2>2, <2>3, <3>2, <4>1 DEF BackWhole
      <3> QED BY <3>1, <3>2
    <2> QED BY <1>1, <2>4 DEF BackWhole
  <1>8. Young(h)'
    BY <1>1, <1>7 DEF Young, CopiesYoung
  <1> QED BY <1>0, <1>1, <1>4, <1>5, <1>8, TransferYounger DEF Younger

(* The call that adds a domain stores either a copy of the record that is  *)
(* there or a placeholder where none is, or none could be read.            *)
LEMMA ImportCheckYounger ==
  ASSUME NEW h \in Callers, TransferTypeOK, Kept, Younger, NoteSpoiled, ImportCheck(h)
  PROVE  Younger'
  <1> DEFINE x == xfer[h]
  <1>0. /\ x.pc = "domains" /\ UNCHANGED <<certs, torn, req, w, backup>>
        /\ TransferControl /\ call \in [Callers -> Call]
    BY ImportSteps DEF Kept, TransferTypeOK, TypeOK, KeystoreTypeOK
  <1>1. PICK d \in x.todo :
          /\ UNCHANGED call \/ BeginAdd(h, d, SansInFile(x.file, d))
          /\ xfer'[h].pc \in {"domains", "adding"} /\ xfer'[h].file = x.file
          /\ xfer'[h].failed = x.failed \/ xfer'[h].failed
          /\ OthersWait(h)
    BY ImportSteps DEF Becomes
  <1>2. call[h].pc = "idle" /\ \A q \in Callers \ {h} : ~Active(q)
    BY <1>0, TransferAlone
  <1>3. call'[h].pc # "addStore"
    BY <1>0, <1>1, <1>2, CallBegins DEF BeginAdd
  <1>4. PutBack(h) = DOMAIN x.file.certs /\ PutBack(h)' = DOMAIN x.file.certs
    BY <1>0, <1>1 DEF PutBack
  <1>5. Young(h)'
    <2> SUFFICES ASSUME ~xfer'[h].failed PROVE BackWhole(h)' /\ CopiesYoung(h)'
      BY DEF Young
    <2>1. BackWhole(h) /\ CopiesYoung(h)
      BY <1>1 DEF Younger, Young
    <2>2. \A e \in DOMAIN x.file.certs : e \notin spoiled' => e \notin spoiled
      BY <1>1, Unspoiled DEF Importing
    <2> QED BY <1>0, <1>1, <1>3, <1>4, <2>1, <2>2 DEF BackWhole, CopiesYoung
  <1> QED BY <1>0, <1>1, <1>2, <1>5, TransferYounger DEF Younger

(* What a call does to the record of its domain, whatever fails, and the   *)
(* copy that it is about to store.                                         *)
LEMMA CallStepWrites ==
  ASSUME NEW p \in Callers, NEW d, d = call[p].domain, KeystoreTypeOK, CallStep(p)
  PROVE  /\ call'[p].domain = d
         /\ \A e \in Domains \ {d} : certs'[e] = certs[e]
         /\ \/ certs'[d] = certs[d] \/ certs'[d] = TakenOver(certs[d])
            \/ call[p].pc = "addStore" /\ certs'[d] = call[p].cert
         /\ call'[p].pc = "addStore" =>
              /\ call[p].pc = "addGet"
              /\ \/ call'[p].cert = Adopted(certs[d])
                 \/ /\ ~certs[d].named \/ d \in torn \/ Fault
                    /\ call'[p].cert = Placeholder(call[p].sans)
  <1>0. /\ call \in [Callers -> Call] /\ call[p] \in Call /\ d \in Domains
        /\ certs \in [Domains -> CertAndKey] /\ call[p].cert \in CertAndKey
    BY DEF KeystoreTypeOK, Call
  <1>a. ASSUME NEW k, Goto(p, k) PROVE call'[p].pc = k /\ call'[p].domain = d
    BY <1>0, <1>a DEF Goto, Call
  <1>b. ASSUME NEW k, NEW l, NEW c, GotoWith(p, k, l, c)
        PROVE  call'[p].pc = k /\ call'[p].cert = c /\ call'[p].domain = d
    BY <1>0, <1>b DEF GotoWith, Call
  <1>c. ASSUME Refuse(p) \/ Succeed(p)
        PROVE  call'[p].pc = "done" /\ call'[p].domain = d
    <2>1. ASSUME NEW ok, Finish(p, ok)
          PROVE  call'[p].pc = "done" /\ call'[p].domain = d
      BY <1>0, <2>1 DEF Finish, Call
    <2> QED BY <1>c, <2>1 DEF Refuse, Succeed
  <1>1. CASE \/ VaultAddRead(p) \/ VaultAddWrite(p) \/ FileAddList(p)
             \/ VaultRemoveRead(p) \/ VaultRemoveWrite(p) \/ FileRemove(p)
    <2>1. /\ UNCHANGED certs
          /\ \/ Refuse(p) \/ Succeed(p) \/ Goto(p, "addGet")
             \/ \E k \in {"addWrite", "removeWrite"} : \E l : GotoWith(p, k, l, Zero)
      BY <1>1 DEF VaultAddRead, VaultAddWrite, FileAddList, VaultRemoveRead,
                  VaultRemoveWrite, FileRemove, AddTo, RemoveFrom
    <2>2. call'[p].domain = d /\ call'[p].pc # "addStore"
      BY <1>a, <1>b, <1>c, <2>1
    <2> QED BY <2>1, <2>2
  <1>2. CASE AddGet(p)
    <2>1. /\ UNCHANGED certs /\ call[p].pc = "addGet"
          /\ \/ /\ ~certs[d].named \/ d \in torn \/ Fault
                /\ GotoWith(p, "addStore", {}, Placeholder(call[p].sans))
             \/ GotoWith(p, "addStore", {}, Adopted(certs[d]))
             \/ Succeed(p)
      BY <1>2 DEF AddGet, NeedsPlaceholder, ReadFails
    <2> QED BY <1>b, <1>c, <2>1
  <1>3. CASE AddStore(p)
    <2>1. /\ call[p].pc = "addStore" /\ Succeed(p)
          /\ StoreCertAndKey(d, call[p].cert) \/ StoreFails(d, call[p].cert)
      BY <1>3 DEF AddStore
    <2>2. /\ certs'[d] = call[p].cert \/ certs'[d] = certs[d]
          /\ \A e \in Domains \ {d} : certs'[e] = certs[e]
      BY <1>0, <2>1, StoreOutcome
    <2>3. call'[p].pc = "done" /\ call'[p].domain = d
      BY <1>c, <2>1
    <2> QED BY <2>1, <2>2, <2>3
  <1>4. CASE MemoryAdd(p) \/ MemoryRemove(p)
    <2>1. /\ Refuse(p) \/ Succeed(p)
          /\ UNCHANGED certs \/ certs' = [certs EXCEPT ![d] = TakenOver(certs[d])]
      BY <1>0, <1>4 DEF MemoryAdd, MemoryRemove
    <2> QED BY <1>0, <1>c, <2>1
  <1> QED BY <1>1, <1>2, <1>3, <1>4 DEF CallStep, AddStep, RemoveStep

LEMMA ImportAddingYounger ==
  ASSUME NEW h \in Callers, TransferTypeOK, Kept, Younger, NoteSpoiled,
         ImportAdding(h)
  PROVE  Younger'
  <1> DEFINE d == call[h].domain
             x == xfer[h]
  <1>0. /\ x.pc = "adding" /\ CallStep(h) /\ UNCHANGED <<req, w, xfer, backup>>
        /\ KeystoreTypeOK /\ CallKeeps(h) /\ x.file \in File
    BY TransferFields DEF ImportAdding, TransferTypeOK, TypeOK, Kept
  <1>1. /\ call'[h].domain = d
        /\ \A e \in Domains \ {d} : certs'[e] = certs[e]
        /\ \/ certs'[d] = certs[d] \/ certs'[d] = TakenOver(certs[d])
           \/ call[h].pc = "addStore" /\ certs'[d] = call[h].cert
        /\ call'[h].pc = "addStore" =>
             /\ call[h].pc = "addGet"
             /\ \/ call'[h].cert = Adopted(certs[d])
                \/ /\ ~certs[d].named \/ d \in torn \/ Fault
                   /\ call'[h].cert = Placeholder(call[h].sans)
    BY <1>0, CallStepWrites
  <1>2. /\ d \in Domains /\ certs[d] \in CertAndKey /\ call[h].cert \in CertAndKey
        /\ call[h].sans \in Sans /\ Solid(certs[d])
    BY <1>0 DEF KeystoreTypeOK, Call, Younger
  <1>3. \A q \in Callers \ {h} : ~Active(q)
    BY <1>0, TransferAlone DEF Kept
  <1>5. \A e \in Domains : Solid(certs'[e])
    <2>1. call[h].pc = "addStore" => Solid(call[h].cert)
      BY <1>0, <1>2, SolidRecords DEF CallKeeps
    <2>2. Solid(TakenOver(certs[d]))
      BY <1>2, SolidRecords
    <2>3. Solid(certs'[d])
      BY <1>1, <1>2, <2>1, <2>2
    <2> QED BY <1>1, <2>3 DEF Younger
  <1>6. ASSUME ~x.failed PROVE BackWhole(h)' /\ CopiesYoung(h)'
    <2>1. /\ PutBack(h) = DOMAIN x.file.certs /\ PutBack(h)' = DOMAIN x.file.certs
          /\ PutBack(h) \subseteq Domains /\ BackWhole(h) /\ CopiesYoung(h)
      BY <1>0, <1>6, FileFields DEF PutBack, Younger, Young
    <2>2. ASSUME NEW e \in DOMAIN x.file.certs \ spoiled'
          PROVE  /\ e \notin spoiled /\ e \notin torn /\ e \notin torn'
                 /\ AsYoung(certs[e], x.file.certs[e]) /\ x.file.certs[e] \in CertAndKey
                 /\ Blind(h) => d # e
      <3>1. /\ e \notin spoiled /\ (e \in torn' => e \in torn)
            /\ Blind(h) => d # e
        BY <1>0, <2>2, Unspoiled DEF Importing
      <3> QED BY <1>0, <2>1, <3>1, FileFields DEF BackWhole
    <2>3. ASSUME d \in DOMAIN x.file.certs \ spoiled'
          PROVE  AsYoung(certs'[d], x.file.certs[d])
      <3>1. AsYoung(TakenOver(certs[d]), x.file.certs[d])
        BY <1>2, <2>2, <2>3, Pems, YoungPems
      <3>2. call[h].pc = "addStore" => AsYoung(call[h].cert, x.file.certs[d])
        BY <1>0, <2>1, <2>2, <2>3 DEF CopiesYoung
      <3> QED BY <1>1, <2>2, <2>3, <3>1, <3>2
    <2>4. ASSUME d \in DOMAIN x.file.certs \ spoiled', call'[h].pc = "addStore"
          PROVE  AsYoung(call'[h].cert, x.file.certs[d])
      <3>1. AsYoung(Adopted(certs[d]), x.file.certs[d])
        BY <1>2, <2>2, <2>4, Pems, YoungPems
      <3>2. ~certs[d].named => AsYoung(Placeholder(call[h].sans), x.file.certs[d])
        <4>1. ~certs[d].named => certs[d].pem = Placeholder(call[h].sans).pem
          BY <1>2, Pems DEF Solid
        <4> QED BY <1>2, <2>2, <2>4, <4>1, YoungPems
      <3>3. ~Fault /\ d \notin torn
        BY <1>1, <2>2, <2>4 DEF Blind
      <3> QED BY <1>1, <2>4, <3>1, <3>2, <3>3
    <2>5. BackWhole(h)'
      BY <1>0, <1>1, <2>1, <2>2, <2>3 DEF BackWhole
    <2>6. CopiesYoung(h)'
      BY <1>0, <1>1, <2>1, <2>2, <2>4 DEF CopiesYoung
    <2> QED BY <2>5, <2>6
  <1>7. OthersWait(h) /\ FileSolid(backup') /\ FileSolid(xfer'[h].file)
    BY <1>0 DEF OthersWait, Younger
  <1>8. Young(h)'
    BY <1>0, <1>6 DEF Young
  <1> QED BY <1>0, <1>3, <1>5, <1>7, <1>8, TransferYounger

LEMMA ImportAddedYounger ==
  ASSUME NEW h \in Callers, TransferTypeOK, Kept, Younger, NoteSpoiled, ImportAdded(h)
  PROVE  Younger'
  <1> DEFINE x == xfer[h]
  <1>1. /\ x.pc = "adding" /\ Answered(h)
        /\ UNCHANGED <<md, certs, torn, req, w, backup>>
        /\ xfer'[h].pc = "domains" /\ xfer'[h].file = x.file /\ OthersWait(h)
        /\ ~xfer'[h].failed => ~x.failed
    BY ImportSteps DEF Becomes
  <1>2. /\ \A q \in Callers \ {h} : ~Active(q)
        /\ call'[h].pc = "idle"
    BY <1>1, TransferAlone, AnswersRest
       DEF Kept, TransferTypeOK, TypeOK, KeystoreTypeOK, HandlersTypeOK
  <1>3. PutBack(h) = DOMAIN x.file.certs /\ PutBack(h)' = DOMAIN x.file.certs
    BY <1>1 DEF PutBack
  <1>4. Young(h)'
    <2> SUFFICES ASSUME ~xfer'[h].failed PROVE BackWhole(h)' /\ CopiesYoung(h)'
      BY DEF Young
    <2>1. BackWhole(h) /\ CopiesYoung(h)
      BY <1>1 DEF Younger, Young
    <2>2. \A e \in DOMAIN x.file.certs : e \notin spoiled' => e \notin spoiled
      BY <1>1, Unspoiled DEF Importing
    <2> QED BY <1>1, <1>2, <1>3, <2>1, <2>2 DEF BackWhole, CopiesYoung
  <1> QED BY <1>1, <1>2, <1>4, TransferYounger DEF Younger

(* What a run stores, and the copies it makes. *)
LEMMA RunStepStores ==
  ASSUME TypeOK, TickStep \/ DaemonStep
  PROVE  /\ \A d \in Domains :
              \/ certs'[d] = certs[d]
              \/ /\ d = w.domain /\ certs'[d] = w.cert
                 /\ w.pc \in {"issued", "failStore", "errStore"}
         /\ w'.pc \in {"failStore", "errStore"} =>
              /\ w'.domain = w.domain /\ w'.cert = Failed(certs[w.domain])
  <1>0. /\ w \in Worker /\ w.domain \in Domains /\ w.cert \in CertAndKey
        /\ KeystoreTypeOK
    BY DEF TypeOK, DaemonTypeOK, Worker
  <1>a. /\ \A k : WGoto(k) => w'.pc = k
        /\ \A k, c : WStore(k, c) => w'.pc = k /\ w'.cert = c /\ w'.domain = w.domain
        /\ \A S : NextDomain(S) => w'.pc \in {"idle", "next"}
    <2>1. ASSUME NEW k, WGoto(k) PROVE w'.pc = k
      BY <1>0, <2>1 DEF WGoto, Worker
    <2>2. ASSUME NEW k, NEW c, WStore(k, c)
          PROVE  w'.pc = k /\ w'.cert = c /\ w'.domain = w.domain
      BY <1>0, <2>2 DEF WStore, Worker
    <2>3. ASSUME NEW S, NextDomain(S) PROVE w'.pc \in {"idle", "next"}
      BY <2>3 DEF NextDomain, AtRest
    <2> QED BY <2>1, <2>2, <2>3
  <1>1. CASE StartRun \/ CheckManaged \/ ReadSans \/ ReadLeaf \/ Order
    <2>1. UNCHANGED certs
      BY <1>1 DEF StartRun, CheckManaged, ReadSans, ReadLeaf, Order
    <2>2. w'.pc \notin {"failStore", "errStore"}
      <3>1. CASE StartRun \/ CheckManaged
        BY <1>0, <1>a, <3>1 DEF StartRun, CheckManaged, Worker
      <3>2. CASE ReadSans \/ ReadLeaf
        BY <1>0, <1>a, <3>2 DEF ReadSans, ReadLeaf, Worker
      <3>3. CASE Order
        BY <1>a, <3>3 DEF Order
      <3> QED BY <1>1, <3>1, <3>2, <3>3
    <2> QED BY <2>1, <2>2
  <1>2. CASE RenewFailGet \/ OrdersFailGet
    <2>1. /\ UNCHANGED certs
          /\ \/ \E k : WStore(k, Failed(certs[w.domain]))
             \/ WGoto("errGet") \/ NextDomain(w.todo)
      BY <1>2 DEF RenewFailGet, OrdersFailGet, MarkGet, GiveUp
    <2> QED BY <1>a, <2>1
  <1>3. CASE StoreIssued \/ RenewFailStore \/ OrdersFailStore
    <2>1. /\ StoreCertAndKey(w.domain, w.cert) \/ StoreFails(w.domain, w.cert)
          /\ w.pc \in {"issued", "failStore", "errStore"}
          /\ w'.pc \in {"idle", "next", "errGet"}
      BY <1>3, <1>a DEF StoreIssued, RenewFailStore, OrdersFailStore, MarkStore, GiveUp
    <2> QED BY <1>0, <2>1, StoreOutcome
  <1> QED BY <1>1, <1>2, <1>3 DEF TickStep, DaemonStep, RunStep

(* A run stores certificates that are fresh, or marked copies of what was  *)
(* there: neither is older than what an import has put back.               *)
LEMMA RunStepYounger ==
  ASSUME ~Overlap, TransferTypeOK, Kept, Younger, NoteSpoiled,
         TickStep \/ DaemonStep, UNCHANGED <<xfer, backup>>
  PROVE  Younger'
  <1>0. /\ TypeOK /\ UNCHANGED <<call, req>> /\ SerialInv /\ RunNamed /\ RunHolds
        /\ w.domain \in Domains /\ w.cert \in CertAndKey
        /\ certs \in [Domains -> CertAndKey]
    BY RunLeaves, WorkerTypes
       DEF TransferTypeOK, Kept, Held, TypeOK, KeystoreTypeOK
  <1>1. /\ \A d \in Domains :
             \/ certs'[d] = certs[d]
             \/ /\ d = w.domain /\ certs'[d] = w.cert
                /\ w.pc \in {"issued", "failStore", "errStore"}
        /\ w'.pc \in {"failStore", "errStore"} =>
             w'.domain = w.domain /\ w'.cert = Failed(certs[w.domain])
        /\ \A d \in Domains : certs'[d] # certs[d] => Listed(d)
    BY <1>0, RunStepStores, RunStepSerial
  <1>2. \A d \in Domains : Solid(certs'[d])
    <2>1. w.pc \in {"issued", "failStore", "errStore"} => Solid(w.cert)
      BY <1>0, SolidRecords DEF RunNamed
    <2> QED BY <1>1, <2>1 DEF Younger
  <1>3. ASSUME NEW h \in Callers PROVE Young(h)'
    <2> DEFINE x == xfer[h]
    <2>0. /\ xfer'[h] = x /\ PutBack(h)' = PutBack(h) /\ PutBack(h) \subseteq Domains
          /\ x.file \in File
      BY PutBackIn, TransferFields DEF PutBack, TransferTypeOK
    <2>a. ASSUME Importing(h), ~x.failed
          PROVE  /\ BackWhole(h) /\ CopiesYoung(h)
                 /\ \A d : d \notin spoiled' =>
                      d \notin spoiled /\ (d \in torn' => d \in torn)
      BY <2>0, <2>a, Unspoiled DEF Importing, Younger, Young
    <2>1. CASE x.pc = "certs" /\ ~x.failed
      <3>1. \A d \in PutBack(h) : d \in DOMAIN x.file.certs
        BY <2>1 DEF PutBack
      <3>2. \A d \in PutBack(h) : certs'[d] = certs[d]
        BY <1>1, <2>0, <2>1, <3>1 DEF Kept, NewDomains
      <3>3. BackWhole(h)'
        BY <2>0, <2>1, <2>a, <3>2 DEF BackWhole, Importing
      <3> QED BY <2>0, <2>1, <3>3 DEF Young, CopiesYoung
    <2>2. CASE x.pc \in {"domains", "adding", "reply"} /\ ~x.failed
      <3>0. PutBack(h) = DOMAIN x.file.certs /\ Importing(h)
        BY <2>2 DEF PutBack, Importing
      <3>1. ASSUME NEW d \in DOMAIN x.file.certs \ spoiled'
            PROVE  AsYoung(certs'[d], x.file.certs[d]) /\ d \notin torn'
        <4>0. /\ d \in Domains /\ x.file.certs[d] \in CertAndKey
              /\ d \notin spoiled /\ d \notin torn' /\ d \notin torn
              /\ AsYoung(certs[d], x.file.certs[d])
          BY <2>0, <2>2, <2>a, <3>0, FileFields DEF BackWhole
        <4>1. CASE w.pc = "issued" /\ certs'[d] = w.cert
          <5>1. w.cert.pem = "fresh"
            BY <1>0, <4>1 DEF RunHolds
          <5> QED BY <1>0, <4>0, <4>1, <5>1, YoungPems
        <4>2. CASE /\ w.pc \in {"failStore", "errStore"} /\ d = w.domain
                   /\ certs'[d] = w.cert
          BY <2>2, <2>a, <3>0, <4>0, <4>2 DEF CopiesYoung
        <4>3. CASE certs'[d] = certs[d]
          BY <4>0, <4>3
        <4> QED BY <1>1, <4>0, <4>1, <4>2, <4>3
      <3>2. ASSUME NEW d \in DOMAIN x.file.certs \ spoiled',
                   w'.pc \in {"failStore", "errStore"}, w'.domain = d
            PROVE  AsYoung(w'.cert, x.file.certs[d])
        <4>1. /\ d \in Domains /\ x.file.certs[d] \in CertAndKey
              /\ certs[d] \in CertAndKey /\ w'.cert = Failed(certs[d])
          BY <1>0, <1>1, <2>0, <3>2, FileFields
        <4>2. AsYoung(certs[d], x.file.certs[d])
          BY <2>2, <2>a, <3>0, <3>2 DEF BackWhole
        <4> QED BY <4>1, <4>2, Pems, YoungPems
      <3>3. \A d \in DOMAIN x.file.certs \ spoiled' :
              call[h].pc = "addStore" /\ call[h].domain = d =>
                AsYoung(call[h].cert, x.file.certs[d])
        BY <2>2, <2>a, <3>0 DEF CopiesYoung
      <3>4. BackWhole(h)'
        BY <2>0, <3>0, <3>1 DEF BackWhole
      <3>5. CopiesYoung(h)'
        BY <1>0, <2>0, <3>2, <3>3 DEF CopiesYoung
      <3> QED BY <3>4, <3>5 DEF Young
    <2>3. CASE x.pc \in {"idle", "all", "list", "records"}
      BY <2>0, <2>3, NothingBackNext
    <2>4. CASE x.failed
      BY <2>0, <2>4 DEF Young
    <2> QED BY <2>1, <2>2, <2>3, <2>4 DEF TransferTypeOK, Transfers
  <1>4. FileSolid(backup)' /\ \A h \in Callers : FileSolid(xfer[h].file)'
    BY DEF Younger, FileSolid
  <1> QED BY <1>0, <1>2, <1>3, <1>4 DEF Younger

(* Requests are served when nothing is being put back.  A record that they *)
(* store was named, or is one that a call stores.                          *)
LEMMA ServerStepYounger ==
  ASSUME NEW h \in Callers, TransferTypeOK, Kept, Younger,
         xfer[h].pc = "idle", ServerStep(h), UNCHANGED <<xfer, backup>>
  PROVE  Younger'
  <1>0. /\ HandlerStep(h) /\ TypeOK /\ KeystoreTypeOK /\ TransferControl
        /\ req[h].domain \in Domains /\ req[h].cert \in CertAndKey
        /\ req \in [Callers -> Requests] /\ certs \in [Domains -> CertAndKey]
        /\ CallKeeps(h) /\ call[h].domain \in Domains
        /\ call[h].cert \in CertAndKey
    BY RequestFields
       DEF ServerStep, TransferTypeOK, TypeOK, HandlersTypeOK, Kept,
           KeystoreTypeOK, Call
  <1>1. NoTransfers
    BY <1>0, ServerAlone
  <1>2. \A g \in Callers : Young(g)' /\ FileSolid(xfer[g].file)'
    BY <1>1, NothingBackNext DEF NoTransfers, Younger, FileSolid
  <1>3. FileSolid(backup)'
    BY DEF Younger, FileSolid
  <1>4. \A d \in Domains : Solid(certs'[d])
    <2>1. CASE KeystoreCall(h)
      <3>1. call[h].pc = "addStore" => Solid(call[h].cert)
        BY <1>0, SolidRecords DEF CallKeeps
      <3>2. \A e \in Domains \ {call[h].domain} : certs'[e] = certs[e]
        BY <1>0, <2>1, CallStepWrites DEF KeystoreCall
      <3>3. /\ certs[call[h].domain] \in CertAndKey
            /\ \/ certs'[call[h].domain] = certs[call[h].domain]
               \/ certs'[call[h].domain] = TakenOver(certs[call[h].domain])
               \/ /\ call[h].pc = "addStore"
                  /\ certs'[call[h].domain] = call[h].cert
        BY <1>0, <2>1, CallStepWrites DEF KeystoreCall
      <3> QED BY <1>0, <3>1, <3>2, <3>3, SolidRecords DEF Younger
    <2>2. CASE HardDelete(h) \/ DeleteCertDelete(h)
      <3>1. DeleteCertAndKey(req[h].domain) \/ DeleteFails(req[h].domain)
        BY <2>2 DEF HardDelete, DeleteCertDelete
      <3> QED BY <1>0, <3>1, StoreOutcome, RecordTypes, SolidRecords DEF Younger
    <2>3. CASE SoftStore(h)
      <3>1. /\ req[h].pc = "unmanage"
            /\ \/ StoreCertAndKey(req[h].domain, req[h].cert)
               \/ StoreFails(req[h].domain, req[h].cert)
        BY <2>3 DEF SoftStore
      <3>2. Solid(req[h].cert)
        BY <1>0, <3>1, SolidRecords DEF Younger
      <3> QED BY <1>0, <3>1, <3>2, StoreOutcome DEF Younger
    <2>4. CASE AddDomainReply(h) \/ SoftRefused(h) \/ SoftGet(h) \/ DeleteCertCheck(h)
      BY <2>4 DEF AddDomainReply, SoftRefused, SoftGet, DeleteCertCheck, Younger
    <2> QED BY <1>0, <2>1, <2>2, <2>3, <2>4 DEF HandlerStep
  <1>5. ASSUME NEW g \in Callers, req'[g].pc = "unmanage"
        PROVE  req'[g].cert.named
    <2>1. CASE SoftGet(h)
      <3>1. \/ /\ certs[req[h].domain].named
               /\ req' = [req EXCEPT ![h].pc = "unmanage",
                                     ![h].cert = Unmanaged(certs[req[h].domain])]
            \/ Respond(h)
        BY <2>1 DEF SoftGet
      <3>2. CASE Respond(h)
        BY <1>0, <1>5, <3>2, AtRestHolds DEF Younger, TypeOK, KeystoreTypeOK
      <3>3. CASE /\ certs[req[h].domain].named
                 /\ req' = [req EXCEPT ![h].pc = "unmanage",
                                       ![h].cert = Unmanaged(certs[req[h].domain])]
        <4>1. Unmanaged(certs[req[h].domain]).named
          BY <1>0, <3>3 DEF Unmanaged, CertAndKey
        <4> QED BY <1>0, <1>5, <3>3, <4>1 DEF Younger, Requests
      <3> QED BY <3>1, <3>2, <3>3
    <2>2. CASE DeleteCertCheck(h)
      <3>1. Respond(h) \/ req' = [req EXCEPT ![h].pc = "delDelete"]
        BY <2>2 DEF DeleteCertCheck
      <3>2. CASE Respond(h)
        BY <1>0, <1>5, <3>2, AtRestHolds DEF Younger, TypeOK, KeystoreTypeOK
      <3>3. CASE req' = [req EXCEPT ![h].pc = "delDelete"]
        BY <1>0, <1>5, <3>3 DEF Younger, Requests
      <3> QED BY <3>1, <3>2, <3>3
    <2>3. CASE ~SoftGet(h) /\ ~DeleteCertCheck(h)
      <3>1. UNCHANGED req \/ Respond(h)
        BY <1>0, <2>3 DEF HandlerStep, KeystoreCall, AddDomainReply, HardDelete,
                          SoftRefused, SoftStore, DeleteCertDelete
      <3> QED BY <1>0, <1>5, <3>1, AtRestHolds DEF Younger, TypeOK, KeystoreTypeOK
    <2> QED BY <2>1, <2>2, <2>3
  <1> QED BY <1>2, <1>3, <1>4, <1>5 DEF Younger

LEMMA ClientBesideYounger ==
  ASSUME NEW h \in Callers, ~Overlap, TransferTypeOK, Kept, Younger, ClientBeside(h)
  PROVE  Younger'
  <1>1. /\ NoTransfers /\ NewRequest(h) /\ UNCHANGED <<xfer, backup>>
        /\ call \in [Callers -> Call] /\ req \in [Callers -> Requests]
        /\ CallKeeps(h)
    BY DEF ClientBeside, ClientStep, TransferTypeOK, TypeOK, KeystoreTypeOK,
           HandlersTypeOK, Kept
  <1>2. /\ UNCHANGED certs /\ \A q \in Callers \ {h} : req'[q] = req[q]
        /\ req'[h].pc # "unmanage"
    BY <1>1, RequestArrives
  <1>3. \A g \in Callers : Young(g)' /\ FileSolid(xfer[g].file)'
    BY <1>1, NothingBackNext DEF NoTransfers, Younger, FileSolid
  <1>4. FileSolid(backup)'
    BY <1>1 DEF Younger, FileSolid
  <1> QED BY <1>2, <1>3, <1>4 DEF Younger

(* Which copies of a certificate get older with it: those of its domain.   *)
LEMMA TimeAges ==
  ASSUME NEW d \in Domains, TransferTypeOK, TimePasses(d)
  PROVE  /\ \A e \in Domains :
              certs'[e] = certs[e] \/ (e = d /\ certs'[e] = Aged(certs[e]))
         /\ \A p \in Callers :
              \/ call'[p].cert = call[p].cert
              \/ call[p].domain = d /\ call'[p].cert = Aged(call[p].cert)
         /\ \/ w'.cert = w.cert
            \/ w.domain = d /\ w'.cert = Aged(w.cert)
  <1>0. /\ certs \in [Domains -> CertAndKey] /\ w \in Worker
        /\ \A p \in Callers : call[p] \in Call
    BY DEF TransferTypeOK, TypeOK, KeystoreTypeOK, DaemonTypeOK
  <1>1. CASE Age(d)
    <2>1. \A e \in Domains :
            certs'[e] = certs[e] \/ (e = d /\ certs'[e] = Aged(certs[e]))
      BY <1>0, <1>1 DEF Age
    <2>2. ASSUME NEW p \in Callers
          PROVE  \/ call'[p].cert = call[p].cert
                 \/ call[p].domain = d /\ call'[p].cert = Aged(call[p].cert)
      <3>1. call'[p] = IF call[p].domain = d
                         THEN [call[p] EXCEPT !.cert = Aged(call[p].cert)] ELSE call[p]
        BY <1>1 DEF Age
      <3> QED BY <1>0, <3>1 DEF Call
    <2>3. \/ w'.cert = w.cert
          \/ w.domain = d /\ w'.cert = Aged(w.cert)
      <3>1. w' = w \/ (w.domain = d /\ w' = [w EXCEPT !.cert = Aged(w.cert)])
        BY <1>1 DEF Age
      <3> QED BY <1>0, <3>1 DEF Worker
    <2> QED BY <2>1, <2>2, <2>3
  <1>2. CASE UNCHANGED vars
    BY <1>2 DEF vars, keystoreVars
  <1> QED BY <1>1, <1>2 DEF TimePasses, AgeOut

LEMMA AgedFileSolid ==
  ASSUME NEW f \in File, NEW d, FileSolid(f)
  PROVE  FileSolid(AgedIn(f, d))
  BY AgedInIs, FileFields, SolidRecords DEF FileSolid

LEMMA TimeYounger ==
  ASSUME NEW d \in Domains, TransferTypeOK, Younger, NoteSpoiled, TimePasses(d)
  PROVE  Younger'
  <1>0. /\ certs \in [Domains -> CertAndKey] /\ backup \in File /\ w.cert \in CertAndKey
        /\ backup' = AgedIn(backup, d) /\ w'.pc = w.pc /\ w'.domain = w.domain
        /\ \A p \in Callers :
             /\ call'[p].pc = call[p].pc /\ call'[p].domain = call[p].domain
             /\ req'[p].pc = req[p].pc /\ req'[p].cert.named = req[p].cert.named
             /\ xfer'[p].pc = xfer[p].pc /\ xfer'[p].todo = xfer[p].todo
             /\ xfer[p].file \in File /\ xfer'[p].file = AgedIn(xfer[p].file, d)
             /\ xfer'[p].failed = xfer[p].failed /\ call[p].cert \in CertAndKey
        /\ UNCHANGED torn
    BY TimeLeaves, TransferFields, WorkerTypes, ZenonT(60)
       DEF SameLabels, TransferTypeOK, TypeOK, KeystoreTypeOK, Call
  <1>1. \A e \in Domains : Solid(certs'[e])
    BY <1>0, TimeAges, SolidRecords DEF Younger
  <1>2. FileSolid(backup') /\ \A p \in Callers : FileSolid(xfer'[p].file)
    BY <1>0, AgedFileSolid DEF Younger
  <1>3. ASSUME NEW p \in Callers PROVE Young(p)'
    <2> DEFINE f == xfer[p].file
               g == xfer'[p].file
    <2>1. /\ DOMAIN g.certs = DOMAIN f.certs /\ DOMAIN f.certs \subseteq Domains
          /\ \A e \in DOMAIN f.certs :
               /\ f.certs[e] \in CertAndKey
               /\ g.certs[e] = IF e = d THEN Aged(f.certs[e]) ELSE f.certs[e]
      BY <1>0, AgedInIs, FileFields
    <2>2. PutBack(p)' = PutBack(p) /\ PutBack(p) \subseteq DOMAIN f.certs
      BY <1>0, <2>1 DEF PutBack
    <2>3. ASSUME NEW e \in DOMAIN f.certs, NEW c \in CertAndKey, NEW b,
                 AsYoung(c, f.certs[e]), b = c \/ (e = d /\ b = Aged(c))
          PROVE  AsYoung(b, g.certs[e])
      BY <2>1, <2>3, YoungPems
    <2>a. ASSUME Importing(p), ~xfer[p].failed
          PROVE  /\ BackWhole(p) /\ CopiesYoung(p)
                 /\ \A e : e \notin spoiled' => e \notin spoiled
      BY <1>0, <2>a, Unspoiled DEF Importing, Younger, Young
    <2>4. ASSUME Importing(p), ~xfer[p].failed, NEW e \in PutBack(p) \ spoiled'
          PROVE  e \notin torn /\ AsYoung(certs'[e], g.certs[e])
      <3>1. /\ e \in DOMAIN f.certs /\ certs[e] \in CertAndKey /\ e \notin torn
            /\ AsYoung(certs[e], f.certs[e])
            /\ certs'[e] = certs[e] \/ (e = d /\ certs'[e] = Aged(certs[e]))
        BY <1>0, <2>1, <2>2, <2>4, <2>a, TimeAges DEF BackWhole
      <3> QED BY <2>3, <3>1
    <2>5. ASSUME xfer[p].pc \in {"domains", "adding", "reply"}, ~xfer[p].failed,
                 NEW e \in DOMAIN f.certs \ spoiled'
          PROVE  /\ call[p].pc = "addStore" /\ call[p].domain = e =>
                      AsYoung(call'[p].cert, g.certs[e])
                 /\ w.pc \in {"failStore", "errStore"} /\ w.domain = e =>
                      AsYoung(w'.cert, g.certs[e])
      <3>1. ASSUME call[p].pc = "addStore", call[p].domain = e
            PROVE  AsYoung(call'[p].cert, g.certs[e])
        <4>1. /\ AsYoung(call[p].cert, f.certs[e]) /\ call[p].cert \in CertAndKey
              /\ \/ call'[p].cert = call[p].cert
                 \/ e = d /\ call'[p].cert = Aged(call[p].cert)
          BY <1>0, <2>5, <2>a, <3>1, TimeAges DEF CopiesYoung, Importing
        <4> QED BY <2>3, <4>1
      <3>2. ASSUME w.pc \in {"failStore", "errStore"}, w.domain = e
            PROVE  AsYoung(w'.cert, g.certs[e])
        <4>1. /\ AsYoung(w.cert, f.certs[e]) /\ w.cert \in CertAndKey
              /\ w'.cert = w.cert \/ (e = d /\ w'.cert = Aged(w.cert))
          BY <1>0, <2>5, <2>a, <3>2, TimeAges DEF CopiesYoung, Importing
        <4> QED BY <2>3, <4>1
      <3> QED BY <3>1, <3>2
    <2>6. CASE Importing(p) /\ ~xfer[p].failed
      <3>1. BackWhole(p)'
        BY <1>0, <2>2, <2>4, <2>6 DEF BackWhole
      <3>2. CopiesYoung(p)'
        BY <1>0, <2>1, <2>5, <2>6 DEF CopiesYoung
      <3> QED BY <3>1, <3>2 DEF Young
    <2>7. CASE xfer[p].failed \/ ~Importing(p)
      BY <1>0, <2>7 DEF Young, BackWhole, CopiesYoung, PutBack, Importing
    <2> QED BY <2>6, <2>7
  <1> QED BY <1>0, <1>1, <1>2, <1>3 DEF Younger, FileSolid

LEMMA EmptyStoreYounger == EmptyStore /\ FileSolid(backup) => Younger
  <1> SUFFICES ASSUME EmptyStore, FileSolid(backup) PROVE Younger
    OBVIOUS
  <1>1. /\ NoRequest.pc = "idle" /\ NoTransfer.pc = "idle" /\ NoTransfer.file = EmptyFile
    BY DEF NoRequest, NoTransfer
  <1>2. \A h \in Callers : /\ req[h].pc = "idle" /\ xfer[h].pc = "idle"
                           /\ xfer[h].file = EmptyFile
    BY <1>1 DEF EmptyStore
  <1>3. FileSolid(EmptyFile)
    BY EmptyFileIs DEF FileSolid
  <1>4. \A d \in Domains : Solid(certs[d])
    BY SolidRecords DEF EmptyStore
  <1> QED BY <1>2, <1>3, <1>4, NothingBack DEF Younger

LEMMA EmptyStoreYoungerNext == EmptyStore' /\ FileSolid(backup)' => Younger'
  BY EmptyStoreYounger, PTL

LEMMA YoungerStep ==
  ASSUME ~Overlap, TransferTypeOK, TodoInFile, Kept, Younger,
         [TransferNext]_transferVars
  PROVE  Younger'
  <1>0. NoteSpoiled \/ UNCHANGED transferVars
    BY DEF TransferNext
  <1>1. ASSUME NEW h \in Callers, NoteSpoiled,
               ExportAccount(h) \/ ImportStart(h) \/ TransferStep(h)
        PROVE  Younger'
    BY <1>1, ExportStepYounger, ImportStartYounger, PhaseDoneYounger, ImportCertYounger,
       ImportCheckYounger, ImportAddingYounger, ImportAddedYounger DEF TransferStep
  <1>2. ASSUME NEW h \in Callers, ClientBeside(h) PROVE Younger'
    BY <1>2, ClientBesideYounger
  <1>3. CASE ServiceStep /\ NoteSpoiled
    BY <1>3, RunStepYounger, ServerStepYounger DEF ServiceStep
  <1>4. ASSUME NEW d \in Domains, TimePasses(d), NoteSpoiled PROVE Younger'
    BY <1>4, TimeYounger
  <1>5. CASE NewStore
    <2>1. FileSolid(backup)'
      BY <1>5 DEF NewStore, Younger, FileSolid
    <2> QED BY <1>5, <2>1, StoresBeginEmpty, EmptyStoreYoungerNext
  <1>6. CASE UNCHANGED transferVars
    <2>1. UNCHANGED <<certs, torn, call, req, w, xfer, backup, spoiled>>
      BY <1>6 DEF transferVars, vars, keystoreVars
    <2>2. \A h \in Callers : Young(h)'
      BY <2>1 DEF Younger, Young, BackWhole, CopiesYoung, PutBack
    <2> QED BY <2>1, <2>2 DEF Younger, FileSolid
  <1> QED BY <1>0, <1>1, <1>2, <1>3, <1>4, <1>5, <1>6 DEF TransferNext, TransferAction

LEMMA YoungerAlways ==
  ASSUME ~Overlap, RestoreOnly
  PROVE  TransferSpec => [](ListKept => Younger)
  <1>1. TransferInit => Younger
    <2>1. TransferInit => FileSolid(backup)
      BY EmptyFileIs DEF TransferInit, FileSolid
    <2> QED BY <2>1, StoresBeginEmpty, EmptyStoreYounger
  <1>2. /\ TransferTypeOK /\ TodoInFile /\ (ListKept => Kept)
        /\ (ListKept => Younger) /\ [TransferNext]_transferVars
        => (ListKept => Younger)'
    <2> SUFFICES ASSUME TransferTypeOK, TodoInFile, ListKept => Kept,
                        ListKept => Younger, [TransferNext]_transferVars, ListKept'
                 PROVE  Younger'
      OBVIOUS
    <2>1. ListKept
      BY TransferFaults, KeptBefore DEF TransferTypeOK, TypeOK
    <2> QED BY <2>1, YoungerStep
  <1> QED BY <1>1, <1>2, TransferTypes, KeptAlways, PTL DEF TransferSpec

(* An import that reports no failure leaves everything that its file has:  *)
(* every domain in the list, every record and, in files that parse,        *)
(* certificates at least as young as in the file, although certificates    *)
(* age and the daemon renews them and marks failed orders while the import *)
(* goes on, and whatever fails: all but the records that an unreported     *)
(* failure has struck meanwhile.  With Vault, whose failed reads of the    *)
(* list are taken for an empty one, until a request fails.                 *)
THEOREM ImportsRestore ==
  ASSUME ~Overlap, RestoreOnly, Backend # "vault" \/ MaxFaults = 0
  PROVE  TransferSpec => SuccessRestores
  <1>1. /\ TransferTypeOK /\ (ListKept => Kept) /\ (ListKept => Younger)
        => [\A h \in Callers :
              ImportReply(h) /\ ~xfer[h].failed =>
                Restored(xfer[h].file, spoiled)]_transferVars
    <2> SUFFICES ASSUME TransferTypeOK, ListKept => Kept, ListKept => Younger,
                        NEW h \in Callers, ImportReply(h), ~xfer[h].failed
                 PROVE  Restored(xfer[h].file, spoiled)
      OBVIOUS
    <2>1. Kept /\ Younger /\ xfer[h].pc = "reply"
      BY FaultsAssumption
         DEF ListKept, TransferTypeOK, TypeOK, KeystoreTypeOK, ImportReply
    <2>2. PutBack(h) = DOMAIN xfer[h].file.certs /\ Added(h) = xfer[h].file.list
      BY <2>1 DEF PutBack, Added
    <2>3. /\ xfer[h].file.list \subseteq Managed
          /\ \A d \in DOMAIN xfer[h].file.certs :
               xfer[h].file.certs[d].named => certs[d].named
      BY <2>1, <2>2 DEF Kept, Restores
    <2>4. \A d \in DOMAIN xfer[h].file.certs \ spoiled :
            d \notin torn /\ AsYoung(certs[d], xfer[h].file.certs[d])
      BY <2>1, <2>2 DEF Younger, Young, BackWhole
    <2> QED BY <2>3, <2>4 DEF Restored
  <1> QED BY <1>1, TransferTypes, KeptAlways, YoungerAlways, PTL DEF SuccessRestores
=============================================================================
