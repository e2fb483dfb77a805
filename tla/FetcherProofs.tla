---------------------------- MODULE FetcherProofs ----------------------------
(* Theorems about Fetcher, for any domains, any number of certificates,    *)
(* changes of the store and failures.                                      *)

EXTENDS Fetcher, TLAPS

-----------------------------------------------------------------------------
(* Types *)

(* The numbers that stand for a file's content and for a key.              *)
LEMMA Numbers ==
  /\ MaxVersion \in Nat
  /\ Missing \in Nat /\ Unusable = 0
  /\ Contents = 0..Missing
  /\ 0..MaxVersion \subseteq Contents
  /\ Missing \in Contents /\ Unusable \in Contents
  BY VersionsAssumption DEF Missing, Unusable, Contents

(* What the API says of a record stays within those numbers. *)
LEMMA Answers ==
  ASSUME NEW r \in Record
  PROVE  Info(r) \in Contents /\ KeyServed(r) \in 0..MaxVersion
  BY Numbers DEF Info, KeyServed, Record, Unusable

(* The fetcher begins with an empty pass. *)
LEMMA NoPassType == NoPass \in Pass
  <1>1. (CHOOSE d \in Domains : TRUE) \in Domains
    BY DomainsAssumption
  <1> QED BY <1>1, Numbers DEF NoPass, Pass

(* The assignments to a pass: each keeps its type, and leaves the fields   *)
(* that it does not name.                                                  *)
LEMMA AssignServed ==
  ASSUME NEW g \in Pass, NEW s \in [Domains -> SUBSET (0..MaxVersion)]
  PROVE  LET h == [g EXCEPT !.served = s]
         IN  /\ h \in Pass
             /\ h.pc = g.pc /\ h.domains = g.domains /\ h.todo = g.todo
             /\ h.unread = g.unread /\ h.domain = g.domain /\ h.info = g.info
             /\ h.newKey = g.newKey /\ h.errors = g.errors /\ h.served = s
  BY DEF Pass

(* What the API has for d is added to what was noted. *)
LEMMA ServedGrows ==
  ASSUME NEW g \in Pass, NEW d \in Domains, NEW r \in Record
  PROVE  LET s == [g.served EXCEPT ![d] = @ \cup Serves(r)]
         IN  /\ s \in [Domains -> SUBSET (0..MaxVersion)]
             /\ \A e \in Domains : g.served[e] \subseteq s[e]
             /\ r.state # "absent" => KeyServed(r) \in s[d]
  <1>1. g.served \in [Domains -> SUBSET (0..MaxVersion)]
    BY DEF Pass
  <1>2. Serves(r) \in SUBSET (0..MaxVersion)
    BY Answers DEF Serves
  <1>3. r.state # "absent" => KeyServed(r) \in Serves(r)
    BY DEF Serves
  <1> QED BY <1>1, <1>2, <1>3

LEMMA AssignDone ==
  ASSUME NEW g \in Pass, NEW t \in SUBSET Domains
  PROVE  LET h == [g EXCEPT !.pc = "next", !.todo = t, !.newKey = 0]
         IN  /\ h \in Pass
             /\ h.pc = "next" /\ h.domains = g.domains /\ h.todo = t
             /\ h.unread = g.unread /\ h.info = g.info /\ h.served = g.served
             /\ h.errors = g.errors
  <1>1. 0 \in 0..MaxVersion
    BY Numbers
  <1> QED BY <1>1 DEF Pass

LEMMA AssignPc ==
  ASSUME NEW g \in Pass, NEW c \in {"keyFile", "remove", "traefik"}
  PROVE  LET h == [g EXCEPT !.pc = c]
         IN  /\ h \in Pass
             /\ h.pc = c /\ h.domains = g.domains /\ h.todo = g.todo
             /\ h.unread = g.unread /\ h.domain = g.domain /\ h.info = g.info
             /\ h.newKey = g.newKey /\ h.errors = g.errors
             /\ h.served = g.served
  BY DEF Pass

(* Every change of the store leaves a record. *)
LEMMA StoreChangeIs ==
  ASSUME TypeOK, StoreChange
  PROVE  \E d \in Domains, r \in Record :
           Becomes(d, r) /\ r.version \in {store[d].version} \cup Issues(d)
  <1>1. PICK d \in Domains : \/ Replace(d) \/ Withhold(d) \/ TakeOver(d)
                             \/ Request(d) \/ Delete(d) \/ ListOrUnlist(d)
    BY DEF StoreChange
  <1>2. store[d] \in Record /\ 1..MaxVersion \subseteq 0..MaxVersion
    BY Numbers DEF TypeOK
  <1>3. CASE Replace(d)
    <2>1. PICK n \in Issues(d) :
            Becomes(d, [store[d] EXCEPT !.state = "offered", !.version = n])
      BY <1>3 DEF Replace
    <2> DEFINE r == [store[d] EXCEPT !.state = "offered", !.version = n]
    <2>2. r \in Record /\ r.version = n
      BY <1>2 DEF Record, Issues
    <2> QED BY <2>1, <2>2
  <1>4. ASSUME NEW s \in {"absent", "pending", "withheld", "offered"}
        PROVE  LET r == [store[d] EXCEPT !.state = s]
               IN  r \in Record /\ r.version = store[d].version
    BY <1>2 DEF Record
  <1>5. LET r == [store[d] EXCEPT !.listed = ~@]
        IN  r \in Record /\ r.version = store[d].version
    BY <1>2 DEF Record
  <1> QED
    BY <1>1, <1>3, <1>4, <1>5 DEF Withhold, TakeOver, Request, Delete, ListOrUnlist

(* The pass after it is done with a domain, with or without an error. *)
LEMMA DoneFields ==
  ASSUME TypeOK, NEW d \in f.todo, f.pc # "certs",
         Skip(d) \/ Saved(d) \/ Failed(d)
  PROVE  /\ f' \in Pass /\ f'.pc = "next" /\ f'.todo = f.todo \ {d}
         /\ f'.domains = f.domains /\ f'.unread = {} /\ f'.info = f.info
         /\ f'.served = f.served
         /\ (f.errors => f'.errors) /\ (Failed(d) => f'.errors)
  <1> DEFINE g == DoneWith(d)
             t == f.todo \ {d}
  <1>1. f \in Pass /\ f.unread = {} /\ t \in SUBSET Domains
    BY DEF TypeOK, Pass
  <1>2. g = [f EXCEPT !.pc = "next", !.todo = t, !.newKey = 0]
    BY DEF DoneWith
  <1>3. /\ Skip(d) => f' = g
        /\ Saved(d) => f' = [g EXCEPT !.saved = TRUE]
        /\ Failed(d) => f' = [g EXCEPT !.errors = TRUE]
    BY DEF Skip, Saved, Failed
  <1> HIDE DEF g, t
  <1>4. /\ g \in Pass /\ g.pc = "next" /\ g.domains = f.domains /\ g.todo = t
        /\ g.unread = {} /\ g.info = f.info /\ g.served = f.served
        /\ g.errors = f.errors
    BY <1>1, <1>2, AssignDone
  <1>5. CASE Failed(d)
    BY <1>3, <1>4, <1>5 DEF t, Pass
  <1>6. CASE Skip(d) /\ ~Failed(d)
    BY <1>3, <1>4, <1>6 DEF t
  <1>7. CASE Saved(d) /\ ~Failed(d)
    BY <1>3, <1>4, <1>7 DEF t, Pass
  <1> QED BY <1>5, <1>6, <1>7

(* A record is read: the map takes it under its certificate's name, or not *)
(* at all, and the key that the API has for the domain is noted.           *)
LEMMA ReadFields ==
  ASSUME TypeOK, NEW d \in Domains, ReadRecord(d)
  PROVE  /\ f' \in Pass
         /\ f'.pc = f.pc /\ f'.todo = f.todo /\ f'.domains = f.domains
         /\ f'.unread = f.unread \ {d}
         /\ \A e \in Domains : f.served[e] \subseteq f'.served[e]
         /\ Present(d) => KeyServed(store[d]) \in f'.served[d]
         /\ \A e \in Domains :
              f'.info[e] # f.info[e] => Present(d) /\ f'.info[e] = Info(store[d])
  <1> DEFINE u == f.unread \ {d}
             s == [f.served EXCEPT ![d] = @ \cup Serves(store[d])]
             g == [f EXCEPT !.unread = u, !.served = s]
             m == [f.info EXCEPT ![Name(d)] = Info(store[d])]
  <1>1. f \in Pass /\ store[d] \in Record /\ u \in SUBSET Domains
    BY DEF TypeOK, Pass
  <1>2. Info(store[d]) \in Contents /\ f.info \in [Domains -> Contents]
    BY <1>1, Answers DEF Pass
  <1>3. m \in [Domains -> Contents]
        /\ \A e \in Domains : m[e] # f.info[e] => m[e] = Info(store[d])
    BY <1>2
  <1>4. /\ s \in [Domains -> SUBSET (0..MaxVersion)]
        /\ \A e \in Domains : f.served[e] \subseteq s[e]
        /\ Present(d) => KeyServed(store[d]) \in s[d]
    BY <1>1, ServedGrows DEF Present
  <1>5. \/ f' = g
        \/ Present(d) /\ f' = [g EXCEPT !.info[Name(d)] = Info(store[d])]
    BY DEF ReadRecord
  <1> HIDE DEF u, s
  <1>6. /\ g \in Pass /\ g.pc = f.pc /\ g.todo = f.todo /\ g.unread = u
        /\ g.domains = f.domains /\ g.info = f.info /\ g.served = s
    BY <1>1, <1>4 DEF Pass
  <1>7. [g EXCEPT !.info[Name(d)] = Info(store[d])] = [g EXCEPT !.info = m]
    BY <1>6
  <1> HIDE DEF g, m
  <1>8. CASE f' = g
    BY <1>4, <1>6, <1>8 DEF u
  <1>9. CASE Present(d) /\ f' = [g EXCEPT !.info = m]
    <2>1. /\ f' \in Pass /\ f'.pc = g.pc /\ f'.todo = g.todo /\ f'.unread = u
          /\ f'.domains = g.domains /\ f'.info = m /\ f'.served = s
      BY <1>3, <1>6, <1>9 DEF Pass
    <2> QED BY <1>3, <1>4, <1>6, <1>9, <2>1 DEF u
  <1> QED BY <1>5, <1>7, <1>8, <1>9

(* The type invariant holds at the start. *)
LEMMA TypeInit == Init => TypeOK
  <1> SUFFICES ASSUME Init PROVE TypeOK
    OBVIOUS
  <1> QED
    BY NoPassType, Numbers, BoundsAssumption DEF Init, TypeOK, NoPass

(* Every step keeps the type invariant. *)
LEMMA TypeStep == TypeOK /\ [Next]_vars => TypeOK'
  <1> SUFFICES ASSUME TypeOK, [Next]_vars PROVE TypeOK'
    OBVIOUS
  <1> USE Numbers, BoundsAssumption
  <1>a. NoPass \in Pass /\ NoPass.pc = "idle" /\ NoPass.unread = {}
        /\ NoPass.todo = {} /\ NoPass.domains = {}
    BY NoPassType DEF NoPass
  <1>b. (Fault \/ NoFault) => faults' \in 0..MaxFaults
    BY DEF Fault, NoFault, TypeOK
  <1>c. ASSUME EndsPass PROVE
          /\ f' \in Pass /\ f'.todo \subseteq f'.domains
          /\ f'.pc = "idle" /\ f'.unread = {}
    BY <1>a, <1>c DEF EndsPass
  <1>d. ASSUME NEW d \in f.todo, f.pc # "certs", Skip(d) \/ Saved(d) \/ Failed(d)
        PROVE  /\ f' \in Pass /\ f'.todo \subseteq f'.domains
               /\ f'.pc = "next" /\ f'.unread = {}
    <2>1. f'.todo = f.todo \ {d} /\ f'.domains = f.domains
      BY <1>d, DoneFields
    <2> QED BY <1>d, <2>1, DoneFields DEF TypeOK
  <1>1. CASE StoreChange
    <2>1. PICK d \in Domains, r \in Record : Becomes(d, r)
      BY <1>1, StoreChangeIs
    <2>2. /\ f' \in Pass
          /\ f'.pc = f.pc /\ f'.todo = f.todo /\ f'.domains = f.domains
          /\ f'.unread = f.unread /\ f'.domain = f.domain /\ f'.info = f.info
      <3>1. f \in Pass
        BY DEF TypeOK
      <3> DEFINE s == [f.served EXCEPT ![d] = @ \cup Serves(r)]
      <3>4. s \in [Domains -> SUBSET (0..MaxVersion)]
        BY <3>1, ServedGrows
      <3>5. [f EXCEPT !.served[d] = @ \cup Serves(r)] = [f EXCEPT !.served = s]
        BY <3>1 DEF Pass
      <3> HIDE DEF s
      <3>2. CASE f' = [f EXCEPT !.served = s]
        BY <3>1, <3>2, <3>4, AssignServed
      <3>3. CASE f' = f
        BY <3>3 DEF TypeOK
      <3> QED BY <2>1, <3>2, <3>3, <3>5 DEF Becomes
    <2> QED BY <2>1, <2>2 DEF Becomes, files, TypeOK
  <1>2. CASE StartPass
    <2> DEFINE listed == {d \in Domains : store[d].listed}
               g == [NoPass EXCEPT !.pc = "certs", !.domains = listed,
                                   !.unread = Domains]
    <2>1. g \in Pass
      BY <1>a DEF Pass
    <2>2. g.pc = "certs" /\ g.todo = {}
      BY <1>a DEF NoPass
    <2>3. CASE f' = g
      BY <1>2, <1>b, <2>1, <2>2, <2>3 DEF StartPass, files, TypeOK
    <2>4. CASE UNCHANGED f
      BY <1>2, <1>b, <2>4 DEF StartPass, files, TypeOK
    <2> QED BY <1>2, <2>3, <2>4 DEF StartPass
  <1>3. ASSUME NEW d \in Domains, ReadRecord(d) PROVE TypeOK'
    <2>1. /\ f' \in Pass
          /\ f'.pc = f.pc /\ f'.todo = f.todo /\ f'.domains = f.domains
      BY <1>3, ReadFields
    <2>2. f.pc = "certs" /\ (Fault \/ NoFault)
      BY <1>3 DEF ReadRecord
    <2> QED BY <1>3, <1>b, <2>1, <2>2 DEF ReadRecord, files, TypeOK
  <1>4. CASE GetCerts
    <2>1. CASE EndsPass
      BY <1>4, <2>1, <1>b, <1>c DEF GetCerts, files, TypeOK
    <2>2. CASE ~EndsPass
      BY <1>4, <2>2, <1>b, ZenonT(60) DEF GetCerts, ToProcess, files, TypeOK, Pass
    <2> QED BY <2>1, <2>2
  <1>e. ASSUME NEW d \in f.todo, NEW k \in 0..MaxVersion, Compare(d, k),
               f.info[d] \in 1..MaxVersion, f.pc \in {"next", "key"},
               UNCHANGED <<store, files, changes>>
        PROVE  TypeOK'
    <2>1. CASE Skip(d)
      BY <1>e, <2>1, <1>b, <1>d DEF Compare, files, TypeOK
    <2>2. CASE ~Skip(d)
      BY <1>e, <2>2, <1>b, ZenonT(60) DEF Compare, files, TypeOK, Pass
    <2> QED BY <2>1, <2>2
  <1>5. ASSUME NEW d \in Domains, ProcessDomain(d) PROVE TypeOK'
    <2>1. CASE Skip(d) \/ Failed(d)
      BY <1>5, <2>1, <1>b, <1>d DEF ProcessDomain, Compare, files, TypeOK
    <2>2. CASE KeyFits(d) /\ Compare(d, key[d]) /\ f.info[d] \in 1..MaxVersion
      BY <1>5, <2>2, <1>e DEF ProcessDomain, KeyFits
    <2>3. CASE /\ f.info[d] \in 1..MaxVersion
               /\ f' = [f EXCEPT !.pc = "key", !.domain = d]
               /\ Fault \/ NoFault
      BY <1>5, <2>3, <1>b DEF ProcessDomain, files, TypeOK, Pass
    <2> QED BY <1>5, <2>1, <2>2, <2>3 DEF ProcessDomain
  <1>6. CASE FetchKey
    <2>1. f.domain \in f.todo /\ f.info[f.domain] \in 1..MaxVersion
      BY <1>6 DEF FetchKey, TypeOK
    <2>2. CASE Failed(f.domain)
      BY <1>6, <2>1, <2>2, <1>b, <1>d DEF FetchKey, Compare, files, TypeOK
    <2>3. CASE Compare(f.domain, KeyServed(store[f.domain]))
      <3>1. KeyServed(store[f.domain]) \in 0..MaxVersion
        BY Answers DEF TypeOK, Pass
      <3> QED BY <1>6, <2>1, <2>3, <3>1, <1>e DEF FetchKey
    <2> QED BY <1>6, <2>2, <2>3 DEF FetchKey
  <1>7. CASE WriteCert
    <2>1. f.domain \in f.todo /\ f.info[f.domain] \in 1..MaxVersion
      BY <1>7 DEF WriteCert, TypeOK
    <2>2. CASE Failed(f.domain)
      <3>1. /\ f' \in Pass /\ f'.todo \subseteq f'.domains
            /\ f'.pc = "next" /\ f'.unread = {}
        BY <1>7, <2>1, <2>2, <1>d DEF WriteCert
      <3>2. /\ Unusable \in Contents /\ f.info[f.domain] \in Contents
            /\ cert \in [Domains -> Contents] /\ cert[f.domain] \in Contents
        BY DEF TypeOK, Pass
      <3>3. cert' \in [Domains -> Contents]
        <4>1. PICK c \in Contents : cert' = [cert EXCEPT ![f.domain] = c]
          BY <1>7, <3>2, Zenon DEF WriteCert
        <4> QED BY <3>2, <4>1
      <3>4. UNCHANGED <<store, key, traefik, changes>> /\ (Fault \/ NoFault)
        BY <1>7 DEF WriteCert
      <3> QED BY <1>b, <3>1, <3>3, <3>4 DEF TypeOK
    <2>3. CASE f' = [f EXCEPT !.pc = "keyFile"]
      <3>1. f' \in Pass
        BY <2>3, AssignPc DEF TypeOK
      <3>2. /\ f'.pc = "keyFile" /\ f'.todo = f.todo /\ f'.domains = f.domains
            /\ f'.unread = {} /\ f'.domain = f.domain /\ f'.info = f.info
        BY <1>7, <2>3, AssignPc DEF WriteCert, TypeOK
      <3>3. f.info[f.domain] \in Contents
        BY DEF TypeOK, Pass
      <3> QED BY <1>7, <2>1, <3>1, <3>2, <3>3, <1>b, SMTT(30) DEF WriteCert, TypeOK
    <2> QED BY <1>7, <2>2, <2>3 DEF WriteCert
  <1>8. CASE WriteKey
    <2>1. f.domain \in f.todo /\ f.info[f.domain] \in 1..MaxVersion
      BY <1>8 DEF WriteKey, TypeOK
    <2>2. CASE Saved(f.domain)
      <3>1. f.newKey \in Contents
        BY DEF TypeOK, Pass
      <3> QED BY <1>8, <2>1, <2>2, <3>1, <1>b, <1>d, SMTT(30) DEF WriteKey, TypeOK
    <2>3. CASE f' = [f EXCEPT !.pc = "remove"]
      <3>1. f' \in Pass
        BY <2>3, AssignPc DEF TypeOK
      <3>2. /\ f'.pc = "remove" /\ f'.todo = f.todo /\ f'.domains = f.domains
            /\ f'.unread = {} /\ f'.domain = f.domain /\ f'.info = f.info
        BY <1>8, <2>3, AssignPc DEF WriteKey, TypeOK
      <3>3. f.newKey \in Contents
        BY DEF TypeOK, Pass
      <3> QED BY <1>8, <2>1, <3>1, <3>2, <3>3, <1>b DEF WriteKey, TypeOK
    <2> QED BY <1>8, <2>2, <2>3 DEF WriteKey
  <1>9. CASE RemoveCert
    <2>1. f.domain \in f.todo
      BY <1>9 DEF RemoveCert, TypeOK
    <2> QED BY <1>9, <2>1, <1>b, <1>d DEF RemoveCert, TypeOK
  <1>10. CASE EndPass
    <2>1. CASE EndsPass
      BY <1>10, <2>1, <1>c DEF EndPass, files, TypeOK
    <2>2. CASE f' = [f EXCEPT !.pc = "traefik"]
      <3>1. f' \in Pass
        BY <2>2, AssignPc DEF TypeOK
      <3>2. /\ f'.pc = "traefik" /\ f'.todo = f.todo /\ f'.domains = f.domains
            /\ f'.unread = {}
        BY <1>10, <2>2, AssignPc DEF EndPass, TypeOK
      <3> QED BY <1>10, <3>1, <3>2 DEF EndPass, files, TypeOK
    <2> QED BY <1>10, <2>1, <2>2 DEF EndPass
  <1>11. CASE WriteTraefik
    BY <1>11, <1>b, <1>c DEF WriteTraefik, TypeOK, Pass
  <1>12. CASE Stop
    BY <1>12, <1>b, <1>c DEF Stop, files, TypeOK
  <1>13. CASE UNCHANGED vars
    BY <1>13 DEF vars, TypeOK
  <1> QED
    BY <1>1, <1>2, <1>3, <1>4, <1>5, <1>6, <1>7, <1>8, <1>9, <1>10, <1>11,
       <1>12, <1>13 DEF Next, FetcherStep

(* Every state has its type, and what a pass is about to write is a        *)
(* certificate that it was offered for a managed domain.                   *)
THEOREM TypeCorrect == Spec => []TypeOK
  BY TypeInit, TypeStep, PTL DEF Spec

-----------------------------------------------------------------------------
(* The exit code.  The certificates are read first and the keys later; the *)
(* invariant says, for each point of the pass, which keys the API had in   *)
(* between.                                                                *)

(* A domain's record and key file hold only what was issued for it, though *)
(* the map may give a domain the certificate of another one.               *)
OwnKeys ==
  /\ \A d \in Domains : /\ store[d].version \in Issues(d) \cup {Unusable}
                       /\ key[d] \in Issues(d) \cup {Unusable, Missing}
  /\ f.pc \in {"cert", "keyFile"} =>
       f.newKey \in Issues(f.domain) \cup {Unusable}

(* The key that the API has for a domain is noted, and so is that of every *)
(* certificate read, for the domain that it was issued for.                *)
KeysServed ==
  f.pc # "idle" =>
    /\ \A d \in Domains \ f.unread :
         Present(d) => KeyServed(store[d]) \in f.served[d]
    /\ \A d \in Domains :
         f.info[d] \in 1..MaxVersion => f.info[d] \in f.served[IssuedFor[f.info[d]]]

(* The key about to be written is one of those. *)
NewKeyServed ==
  f.pc \in {"cert", "keyFile"} => f.newKey \in f.served[f.domain]

(* Certificate first, key second. *)
CertWritten == f.pc = "keyFile" => cert[f.domain] = f.info[f.domain]

(* What SuccessTells promises holds already of the domains dealt with. *)
Right(d) ==
  f.info[d] \in 1..MaxVersion => cert[d] = f.info[d] /\ key[d] \in f.served[d]

Settled ==
  f.pc \in {"next", "key", "cert", "keyFile", "remove"} /\ ~f.errors =>
    \A d \in f.domains \ f.todo : Right(d)

PassInv ==
  TypeOK /\ OwnKeys /\ KeysServed /\ NewKeyServed /\ CertWritten /\ Settled

(* What the API has of a domain was issued for it. *)
LEMMA OwnAnswers ==
  ASSUME NEW d \in Domains, NEW r, r.version \in Issues(d) \cup {Unusable}
  PROVE  KeyServed(r) \in Issues(d) \cup {Unusable}
  BY DEF KeyServed

(* A key that fits what the map says of d was issued for d, and noted. *)
LEMMA FittingKeyServed ==
  ASSUME PassInv, NEW d \in Domains, f.pc # "idle", KeyFits(d),
         f.info[d] \in 1..MaxVersion
  PROVE  key[d] \in Issues(d) /\ key[d] \in f.served[d]
  <1>1. key[d] = f.info[d] /\ key[d] \in Issues(d)
    BY Numbers DEF KeyFits, PassInv, OwnKeys, Missing
  <1>2. IssuedFor[f.info[d]] = d
    BY <1>1 DEF Issues
  <1> QED BY <1>1, <1>2 DEF PassInv, KeysServed

(* needsCertificateUpdate, for a key issued for the domain. *)
LEMMA CompareOwn ==
  ASSUME TypeOK, OwnKeys, NEW d \in f.todo, NEW k \in Issues(d) \cup {Unusable},
         Compare(d, k), f.pc \in {"next", "key"}, UNCHANGED <<store, files>>
  PROVE  OwnKeys'
  <1>1. CASE Skip(d)
    BY <1>1, DoneFields DEF OwnKeys, Issues, files
  <1>2. CASE f' = [f EXCEPT !.pc = "cert", !.domain = d, !.newKey = k]
    <2>1. f'.pc = "cert" /\ f'.domain = d /\ f'.newKey = k
      BY <1>2 DEF TypeOK, Pass
    <2> QED BY <2>1 DEF OwnKeys, Issues, files
  <1> QED BY <1>1, <1>2 DEF Compare

(* Every step keeps what is written about a domain its own. *)
LEMMA OwnStep == TypeOK /\ OwnKeys /\ [Next]_vars => OwnKeys'
  <1> SUFFICES ASSUME TypeOK, OwnKeys, [Next]_vars PROVE OwnKeys'
    OBVIOUS
  <1>a. f \in Pass /\ (f.pc \in {"key", "cert", "keyFile", "remove"} =>
                         f.domain \in f.todo /\ f.domain \in Domains)
    BY DEF TypeOK, Pass
  <1>b. ASSUME UNCHANGED <<store, key>>, f'.pc \notin {"cert", "keyFile"}
        PROVE  OwnKeys'
    BY <1>b DEF OwnKeys, Issues
  <1>c. EndsPass => f'.pc = "idle"
    BY DEF EndsPass, NoPass
  <1>d. ASSUME NEW d \in f.todo, f.pc # "certs", Skip(d) \/ Saved(d) \/ Failed(d)
        PROVE  f'.pc = "next"
    BY <1>d, DoneFields
  <1>1. CASE StoreChange
    <2>1. PICK d \in Domains, r \in Record :
            Becomes(d, r) /\ r.version \in {store[d].version} \cup Issues(d)
      BY <1>1, StoreChangeIs
    <2>2. store' = [store EXCEPT ![d] = r] /\ key' = key
      BY <2>1 DEF Becomes, files
    <2>3. f'.pc = f.pc /\ f'.domain = f.domain /\ f'.newKey = f.newKey
      BY <2>1, <1>a DEF Becomes, Pass
    <2>4. \A e \in Domains : store'[e].version \in Issues(e) \cup {Unusable}
      BY <2>1, <2>2 DEF OwnKeys, TypeOK
    <2> QED BY <2>2, <2>3, <2>4 DEF OwnKeys, Issues
  <1>2. CASE StartPass
    <2>1. f'.pc \in {"idle", "certs"}
      BY <1>2 DEF StartPass, NoPass
    <2> QED BY <1>2, <1>b, <2>1 DEF StartPass, files
  <1>3. ASSUME NEW d \in Domains, ReadRecord(d) PROVE OwnKeys'
    <2>1. f'.pc = "certs"
      BY <1>3, ReadFields DEF ReadRecord
    <2> QED BY <1>3, <1>b, <2>1 DEF ReadRecord, files
  <1>4. CASE GetCerts
    <2>1. f'.pc \in {"next", "idle"}
      BY <1>4, <1>a, <1>c DEF GetCerts, Pass
    <2> QED BY <1>4, <1>b, <2>1 DEF GetCerts, files
  <1>5. ASSUME NEW d \in Domains, ProcessDomain(d) PROVE OwnKeys'
    <2>1. f.pc = "next" /\ d \in f.todo /\ UNCHANGED <<store, files>>
      BY <1>5 DEF ProcessDomain
    <2>2. CASE Skip(d) \/ Failed(d)
      BY <1>b, <1>d, <2>1, <2>2 DEF files
    <2>3. CASE /\ KeyFits(d) /\ Compare(d, key[d])
               /\ f.info[d] \in 1..MaxVersion
      <3>1. key[d] \in Issues(d)
        BY <2>3, Numbers DEF KeyFits, OwnKeys, Missing
      <3> QED BY <2>1, <2>3, <3>1, CompareOwn
    <2>4. CASE f' = [f EXCEPT !.pc = "key", !.domain = d]
      <3>1. f'.pc = "key"
        BY <1>a, <2>4 DEF Pass
      <3> QED BY <1>b, <2>1, <3>1 DEF files
    <2> QED BY <1>5, <2>2, <2>3, <2>4 DEF ProcessDomain
  <1>6. CASE FetchKey
    <2>1. f.pc = "key" /\ UNCHANGED <<store, files>>
      BY <1>6 DEF FetchKey
    <2>2. CASE Failed(f.domain)
      BY <1>a, <1>b, <1>d, <2>1, <2>2 DEF files
    <2>3. CASE Compare(f.domain, KeyServed(store[f.domain]))
      <3>1. KeyServed(store[f.domain]) \in Issues(f.domain) \cup {Unusable}
        BY <1>a, <2>1, OwnAnswers DEF OwnKeys
      <3> QED BY <1>a, <2>1, <2>3, <3>1, CompareOwn
    <2> QED BY <1>6, <2>2, <2>3 DEF FetchKey
  <1>7. CASE WriteCert
    <2>1. f.pc = "cert" /\ UNCHANGED <<store, key>>
      BY <1>7 DEF WriteCert
    <2>2. CASE Failed(f.domain)
      BY <1>a, <1>b, <1>d, <2>1, <2>2
    <2>3. CASE f' = [f EXCEPT !.pc = "keyFile"]
      <3>1. f'.domain = f.domain /\ f'.newKey = f.newKey
        BY <1>a, <2>3 DEF Pass
      <3> QED BY <2>1, <3>1 DEF OwnKeys, Issues
    <2> QED BY <1>7, <2>2, <2>3 DEF WriteCert
  <1>8. CASE WriteKey
    <2>1. /\ f.pc = "keyFile" /\ f.newKey \in Issues(f.domain) \cup {Unusable}
          /\ UNCHANGED store
      BY <1>8 DEF WriteKey, OwnKeys
    <2>2. f'.pc \in {"next", "remove"}
      BY <1>8, <1>a, <1>d, <2>1 DEF WriteKey, Pass
    <2>3. PICK k \in {f.newKey, key[f.domain], Unusable} :
            key' = [key EXCEPT ![f.domain] = k]
      BY <1>8 DEF WriteKey
    <2>4. \A d \in Domains : key'[d] \in Issues(d) \cup {Unusable, Missing}
      BY <1>a, <2>1, <2>3 DEF OwnKeys, TypeOK
    <2> QED BY <2>1, <2>2, <2>4 DEF OwnKeys, Issues
  <1>9. CASE RemoveCert
    BY <1>9, <1>a, <1>b, <1>d DEF RemoveCert
  <1>10. CASE EndPass
    <2>1. f'.pc \in {"traefik", "idle"}
      BY <1>10, <1>a, <1>c DEF EndPass, Pass
    <2> QED BY <1>10, <1>b, <2>1 DEF EndPass, files
  <1>11. CASE WriteTraefik \/ Stop
    BY <1>11, <1>b, <1>c DEF WriteTraefik, Stop, files
  <1>12. CASE UNCHANGED vars
    BY <1>12 DEF vars, OwnKeys, Issues
  <1> QED
    BY <1>1, <1>2, <1>3, <1>4, <1>5, <1>6, <1>7, <1>8, <1>9, <1>10, <1>11,
       <1>12 DEF Next, FetcherStep

(* The invariant holds at the start. *)
LEMMA PassInit == Init => PassInv
  <1> SUFFICES ASSUME Init PROVE PassInv
    OBVIOUS
  <1>1. f.pc = "idle"
    BY DEF Init, NoPass
  <1>2. OwnKeys
    BY <1>1 DEF Init, OwnKeys, FirstRecords, Unusable
  <1> QED
    BY <1>1, <1>2, TypeInit
    DEF PassInv, KeysServed, NewKeyServed, CertWritten, Settled

(* An idle fetcher has nothing to keep. *)
LEMMA IdleKeeps ==
  ASSUME f'.pc = "idle"
  PROVE  KeysServed' /\ NewKeyServed' /\ CertWritten' /\ Settled'
  BY DEF KeysServed, NewKeyServed, CertWritten, Settled

(* While the store and what was read of it stay, so does KeysServed. *)
LEMMA ReadKeeps ==
  ASSUME KeysServed, f.pc # "idle", UNCHANGED store,
         f'.info = f.info, f'.served = f.served, f'.unread = f.unread
  PROVE  KeysServed'
  BY DEF KeysServed, KeyServed, Present

(* Done with a domain whose files are right, or with an error. *)
LEMMA DoneKeeps ==
  ASSUME PassInv, NEW d \in f.todo, f.pc \in {"next", "key", "cert", "keyFile", "remove"},
         Skip(d) \/ Saved(d) \/ Failed(d), UNCHANGED store,
         \A e \in Domains \ {d} : cert'[e] = cert[e] /\ key'[e] = key[e],
         ~f'.errors => Right(d)'
  PROVE  KeysServed' /\ NewKeyServed' /\ CertWritten' /\ Settled'
  <1>1. TypeOK /\ f.pc # "certs" /\ f.pc # "idle"
    BY DEF PassInv
  <1>2. /\ f'.pc = "next" /\ f'.todo = f.todo \ {d} /\ f'.domains = f.domains
        /\ f'.unread = f.unread /\ f'.info = f.info /\ f'.served = f.served
        /\ f.errors => f'.errors
    BY <1>1, DoneFields DEF TypeOK
  <1>3. KeysServed'
    BY <1>1, <1>2, ReadKeeps DEF PassInv
  <1>4. ASSUME ~f'.errors, NEW e \in f'.domains \ f'.todo PROVE Right(e)'
    <2>1. CASE e = d
      BY <1>2, <1>4, <2>1
    <2>2. CASE e # d
      <3>1. e \in f.domains \ f.todo /\ e \in Domains
        BY <1>1, <1>2, <2>2 DEF TypeOK, Pass
      <3>2. Right(e)
        BY <1>2, <1>4, <3>1 DEF PassInv, Settled
      <3> QED BY <1>2, <2>2, <3>1, <3>2 DEF Right
    <2> QED BY <2>1, <2>2
  <1> QED BY <1>2, <1>3, <1>4 DEF NewKeyServed, CertWritten, Settled

(* While the files and the domains dealt with stay, so does Settled. *)
LEMMA FilesKeep ==
  ASSUME PassInv, f.pc \in {"next", "key", "cert", "keyFile", "remove"},
         f'.info = f.info, f'.served = f.served, f'.errors = f.errors,
         f'.domains = f.domains, f'.todo = f.todo,
         \A e \in Domains \ f.todo : cert'[e] = cert[e] /\ key'[e] = key[e]
  PROVE  Settled'
  <1>1. f.domains \subseteq Domains
    BY DEF PassInv, TypeOK, Pass
  <1> QED BY <1>1 DEF PassInv, Settled, Right

(* needsCertificateUpdate decides: the files are right, or a key that fits *)
(* is about to be written.                                                 *)
LEMMA CompareKeeps ==
  ASSUME PassInv, NEW d \in f.todo, NEW k \in 0..MaxVersion, Compare(d, k),
         f.pc \in {"next", "key"}, f.info[d] \in 1..MaxVersion,
         k \in f.served[d], UNCHANGED <<store, files>>
  PROVE  KeysServed' /\ NewKeyServed' /\ CertWritten' /\ Settled'
  <1>1. TypeOK /\ f \in Pass /\ d \in Domains
    BY DEF PassInv, TypeOK, Pass
  <1>2. CASE Skip(d) /\ ~NeedsUpdate(d, k)
    <2>1. cert[d] = f.info[d] /\ key[d] = k
      BY <1>2 DEF NeedsUpdate
    <2>2. /\ f'.info = f.info /\ f'.served = f.served
          /\ cert' = cert /\ key' = key
      BY <1>1, <1>2, DoneFields DEF files
    <2>3. Right(d)'
      BY <2>1, <2>2 DEF Right
    <2> QED BY <1>2, <2>2, <2>3, DoneKeeps
  <1>3. CASE f' = [f EXCEPT !.pc = "cert", !.domain = d, !.newKey = k]
    <2>1. /\ f'.pc = "cert" /\ f'.domains = f.domains /\ f'.todo = f.todo
          /\ f'.unread = f.unread /\ f'.domain = d /\ f'.info = f.info
          /\ f'.newKey = k /\ f'.errors = f.errors /\ f'.served = f.served
      BY <1>1, <1>3 DEF Pass
    <2>2. KeysServed'
      BY <2>1, ReadKeeps DEF PassInv
    <2>3. Settled'
      BY <2>1, FilesKeep DEF files
    <2> QED BY <2>1, <2>2, <2>3 DEF NewKeyServed, CertWritten
  <1> QED BY <1>2, <1>3 DEF Compare

(* Every step keeps the invariant. *)
LEMMA PassStep == PassInv /\ [Next]_vars => PassInv'
  <1> SUFFICES ASSUME PassInv, [Next]_vars PROVE PassInv'
    OBVIOUS
  <1> DEFINE Goal == KeysServed' /\ NewKeyServed' /\ CertWritten' /\ Settled'
  <1>a. TypeOK /\ TypeOK' /\ f \in Pass /\ OwnKeys'
    BY TypeStep, OwnStep DEF PassInv, TypeOK
  <1>b. f.pc # "certs" => f.unread = {}
    BY <1>a DEF TypeOK
  <1>c. EndsPass => Goal
    BY IdleKeeps DEF EndsPass, NoPass
  <1>d. f.pc \in {"key", "cert", "keyFile", "remove"} =>
          /\ f.domain \in f.todo /\ f.domain \in Domains
          /\ f.info[f.domain] \in 1..MaxVersion
    BY <1>a DEF TypeOK, Pass
  <1>e. KeysServed /\ NewKeyServed /\ CertWritten /\ Settled
    BY DEF PassInv
  <1>1. CASE StoreChange
    <2>1. PICK d \in Domains, r \in Record : Becomes(d, r)
      BY <1>1, <1>a, StoreChangeIs
    <2>2. /\ f'.pc = f.pc /\ f'.todo = f.todo /\ f'.domains = f.domains
          /\ f'.unread = f.unread /\ f'.domain = f.domain /\ f'.info = f.info
          /\ f'.newKey = f.newKey /\ f'.errors = f.errors
          /\ \A e \in Domains : f.served[e] \subseteq f'.served[e]
          /\ f.pc # "idle" /\ d \notin f.unread /\ r.state # "absent" =>
               KeyServed(r) \in f'.served[d]
      <3> DEFINE s == [f.served EXCEPT ![d] = @ \cup Serves(r)]
      <3>1. /\ s \in [Domains -> SUBSET (0..MaxVersion)]
            /\ \A e \in Domains : f.served[e] \subseteq s[e]
            /\ r.state # "absent" => KeyServed(r) \in s[d]
        BY <1>a, ServedGrows
      <3>2. [f EXCEPT !.served[d] = @ \cup Serves(r)] = [f EXCEPT !.served = s]
        BY <1>a DEF Pass
      <3> HIDE DEF s
      <3>3. CASE f' = [f EXCEPT !.served = s]
        BY <1>a, <3>1, <3>3, AssignServed
      <3>4. CASE f' = f /\ ~(f.pc # "idle" /\ d \notin f.unread)
        BY <3>4
      <3> QED BY <2>1, <3>2, <3>3, <3>4 DEF Becomes
    <2>3. store' = [store EXCEPT ![d] = r] /\ cert' = cert /\ key' = key
      BY <2>1 DEF Becomes, files
    <2>4. KeysServed'
      <3>1. ASSUME f.pc # "idle", NEW e \in Domains \ f.unread,
                   store'[e].state # "absent"
            PROVE  KeyServed(store'[e]) \in f'.served[e]
        <4>1. store'[e] = IF e = d THEN r ELSE store[e]
          BY <1>a, <2>3 DEF TypeOK
        <4> QED BY <1>e, <2>2, <3>1, <4>1 DEF KeysServed, Present
      <3>2. ASSUME f.pc # "idle", NEW e \in Domains, f.info[e] \in 1..MaxVersion
            PROVE  f.info[e] \in f'.served[IssuedFor[f.info[e]]]
        <4>1. IssuedFor[f.info[e]] \in Domains
          BY <3>2, VersionsAssumption
        <4> QED BY <1>e, <2>2, <3>2, <4>1 DEF KeysServed
      <3> QED BY <2>2, <3>1, <3>2 DEF KeysServed, Present, KeyServed
    <2>5. Settled'
      BY <1>a, <1>e, <2>2, <2>3 DEF Settled, Right, Pass
    <2>6. NewKeyServed' /\ CertWritten'
      BY <1>d, <1>e, <2>2, <2>3 DEF NewKeyServed, CertWritten
    <2> QED BY <1>a, <2>4, <2>5, <2>6 DEF PassInv
  <1>2. CASE StartPass
    <2>1. CASE UNCHANGED f
      <3>1. f'.pc = "idle"
        BY <1>2, <2>1 DEF StartPass
      <3> QED BY <1>a, <3>1, IdleKeeps DEF PassInv
    <2>2. CASE ~UNCHANGED f
      <3>1. f'.pc = "certs" /\ f'.unread = Domains
        BY <1>2, <2>2 DEF StartPass, NoPass
      <3>2. KeysServed'
        <4>1. f'.info = [d \in Domains |-> Missing]
          BY <1>2, <2>2 DEF StartPass, NoPass
        <4>2. \A d \in Domains : f'.info[d] \notin 1..MaxVersion
          BY <4>1, Numbers DEF Missing
        <4> QED BY <3>1, <4>2 DEF KeysServed
      <3> QED BY <1>a, <3>1, <3>2 DEF PassInv, NewKeyServed, CertWritten, Settled
    <2> QED BY <2>1, <2>2
  <1>3. ASSUME NEW d \in Domains, ReadRecord(d) PROVE PassInv'
    <2>1. f.pc = "certs" /\ store' = store
      BY <1>3 DEF ReadRecord
    <2>2. /\ f'.pc = "certs" /\ f'.unread = f.unread \ {d}
          /\ \A e \in Domains : f.served[e] \subseteq f'.served[e]
          /\ Present(d) => KeyServed(store[d]) \in f'.served[d]
          /\ \A e \in Domains :
               f'.info[e] # f.info[e] => Present(d) /\ f'.info[e] = Info(store[d])
      BY <1>3, <1>a, <2>1, ReadFields
    <2>3. ASSUME NEW e \in Domains \ f'.unread, Present(e)
          PROVE  KeyServed(store[e]) \in f'.served[e]
      BY <1>e, <2>1, <2>2, <2>3 DEF KeysServed
    <2>4. ASSUME NEW e \in Domains, f'.info[e] \in 1..MaxVersion
          PROVE  f'.info[e] \in f'.served[IssuedFor[f'.info[e]]]
      <3>1. IssuedFor[f'.info[e]] \in Domains
        BY <2>4, VersionsAssumption
      <3>2. CASE f'.info[e] = f.info[e]
        BY <1>e, <2>1, <2>2, <2>4, <3>1, <3>2 DEF KeysServed
      <3>3. CASE f'.info[e] # f.info[e]
        <4>1. Present(d) /\ f'.info[e] = Info(store[d])
          BY <2>2, <3>3
        <4>2. store[d].version = f'.info[e] /\ KeyServed(store[d]) = f'.info[e]
          BY <2>4, <4>1, Numbers DEF Info, KeyServed
        <4>3. IssuedFor[f'.info[e]] = d
          BY <2>4, <4>2, Numbers DEF PassInv, OwnKeys, Issues
        <4> QED BY <2>2, <4>1, <4>2, <4>3
      <3> QED BY <3>2, <3>3
    <2>5. KeysServed'
      BY <2>1, <2>3, <2>4 DEF KeysServed, Present, KeyServed
    <2> QED BY <1>a, <2>2, <2>5 DEF PassInv, NewKeyServed, CertWritten, Settled
  <1>4. CASE GetCerts
    <2>1. CASE EndsPass
      BY <1>a, <1>c, <2>1 DEF PassInv
    <2>2. CASE f.unread = {} /\ f' = [f EXCEPT !.pc = "next", !.todo = f.domains]
      <3>1. /\ f'.pc = "next" /\ f'.todo = f.domains /\ f'.domains = f.domains
            /\ f'.unread = f.unread /\ f'.info = f.info /\ f'.served = f.served
        BY <1>a, <2>2 DEF Pass
      <3>2. KeysServed'
        BY <1>4, <1>e, <3>1, ReadKeeps DEF GetCerts
      <3> QED BY <1>a, <3>1, <3>2 DEF PassInv, NewKeyServed, CertWritten, Settled
    <2> QED BY <1>4, <2>1, <2>2 DEF GetCerts, ToProcess
  <1>5. ASSUME NEW d \in Domains, ProcessDomain(d) PROVE PassInv'
    <2>1. f.pc = "next" /\ d \in f.todo /\ UNCHANGED <<store, files>>
      BY <1>5 DEF ProcessDomain
    <2>2. CASE Failed(d) \/ (f.info[d] = Unusable /\ Skip(d))
      <3>1. f'.info = f.info /\ (Failed(d) => f'.errors)
        BY <1>a, <2>1, <2>2, DoneFields
      <3>2. ~f'.errors => Right(d)'
        BY <2>2, <3>1, Numbers DEF Right
      <3> QED BY <1>a, <2>1, <2>2, <3>2, DoneKeeps DEF PassInv, files
    <2>3. CASE KeyFits(d) /\ Compare(d, key[d]) /\ f.info[d] \in 1..MaxVersion
      <3>1. key[d] \in 0..MaxVersion /\ key[d] \in f.served[d]
        BY <2>1, <2>3, Numbers, FittingKeyServed DEF KeyFits
      <3> QED BY <1>a, <2>1, <2>3, <3>1, CompareKeeps DEF PassInv
    <2>4. CASE f' = [f EXCEPT !.pc = "key", !.domain = d]
      <3>1. /\ f'.pc = "key" /\ f'.domains = f.domains /\ f'.todo = f.todo
            /\ f'.unread = f.unread /\ f'.info = f.info
            /\ f'.errors = f.errors /\ f'.served = f.served
        BY <1>a, <2>4 DEF Pass
      <3>2. KeysServed' /\ Settled'
        BY <1>e, <2>1, <3>1, ReadKeeps, FilesKeep DEF files
      <3> QED BY <1>a, <3>1, <3>2 DEF PassInv, NewKeyServed, CertWritten
    <2> QED BY <1>5, <2>2, <2>3, <2>4 DEF ProcessDomain
  <1>6. CASE FetchKey
    <2>1. f.pc = "key" /\ UNCHANGED <<store, files>>
      BY <1>6 DEF FetchKey
    <2>2. CASE Failed(f.domain)
      <3>1. f'.errors
        BY <1>a, <1>d, <2>1, <2>2, DoneFields
      <3> QED BY <1>a, <1>d, <2>1, <2>2, <3>1, DoneKeeps DEF PassInv, files
    <2>3. CASE /\ Present(f.domain)
               /\ Compare(f.domain, KeyServed(store[f.domain]))
      <3>1. KeyServed(store[f.domain]) \in 0..MaxVersion
        BY <1>a, <1>d, <2>1, Answers DEF TypeOK
      <3>2. KeyServed(store[f.domain]) \in f.served[f.domain]
        BY <1>b, <1>d, <1>e, <2>1, <2>3 DEF KeysServed
      <3> QED BY <1>a, <1>d, <2>1, <2>3, <3>1, <3>2, CompareKeeps DEF PassInv
    <2> QED BY <1>6, <2>2, <2>3 DEF FetchKey
  <1>7. CASE WriteCert
    <2>1. f.pc = "cert" /\ UNCHANGED <<store, key>>
      BY <1>7 DEF WriteCert
    <2>2. \A e \in Domains \ {f.domain} : cert'[e] = cert[e]
      BY <1>7, <1>a DEF WriteCert, TypeOK
    <2>3. CASE Failed(f.domain)
      <3>1. f'.errors
        BY <1>a, <1>d, <2>1, <2>3, DoneFields
      <3> QED BY <1>a, <1>d, <2>1, <2>2, <2>3, <3>1, DoneKeeps DEF PassInv
    <2>4. CASE /\ f' = [f EXCEPT !.pc = "keyFile"]
               /\ cert' = [cert EXCEPT ![f.domain] = f.info[f.domain]]
      <3>1. /\ f'.pc = "keyFile" /\ f'.domains = f.domains /\ f'.todo = f.todo
            /\ f'.unread = f.unread /\ f'.domain = f.domain /\ f'.info = f.info
            /\ f'.newKey = f.newKey /\ f'.errors = f.errors
            /\ f'.served = f.served
        BY <1>a, <2>4 DEF Pass
      <3>2. KeysServed'
        BY <1>e, <2>1, <3>1, ReadKeeps
      <3>3. Settled'
        <4>1. \A e \in Domains \ f.todo : cert'[e] = cert[e] /\ key'[e] = key[e]
          BY <1>d, <2>1, <2>2
        <4> QED BY <2>1, <3>1, <4>1, FilesKeep
      <3>4. NewKeyServed'
        BY <1>e, <2>1, <3>1 DEF NewKeyServed
      <3>5. CertWritten'
        BY <1>a, <1>d, <2>1, <2>4, <3>1 DEF CertWritten, TypeOK
      <3> QED BY <1>a, <3>2, <3>3, <3>4, <3>5 DEF PassInv
    <2> QED BY <1>7, <2>3, <2>4 DEF WriteCert
  <1>8. CASE WriteKey
    <2>1. f.pc = "keyFile" /\ UNCHANGED <<store, cert>>
      BY <1>8 DEF WriteKey
    <2>2. \A e \in Domains \ {f.domain} : key'[e] = key[e]
      BY <1>8, <1>a DEF WriteKey, TypeOK
    <2>3. CASE Saved(f.domain) /\ key' = [key EXCEPT ![f.domain] = f.newKey]
      <3>1. key'[f.domain] = f.newKey
        BY <1>a, <1>d, <2>1, <2>3 DEF TypeOK
      <3>2. f'.info = f.info /\ f'.served = f.served
        BY <1>a, <1>d, <2>1, <2>3, DoneFields
      <3>3. \A d \in {f.domain} : Right(d)'
        BY <1>e, <2>1, <3>1, <3>2 DEF Right, NewKeyServed, CertWritten
      <3> QED BY <1>a, <1>d, <2>1, <2>2, <2>3, <3>3, DoneKeeps DEF PassInv
    <2>4. CASE f' = [f EXCEPT !.pc = "remove"]
      <3>1. /\ f'.pc = "remove" /\ f'.domains = f.domains /\ f'.todo = f.todo
            /\ f'.unread = f.unread /\ f'.info = f.info
            /\ f'.errors = f.errors /\ f'.served = f.served
        BY <1>a, <2>4 DEF Pass
      <3>2. KeysServed'
        BY <1>e, <2>1, <3>1, ReadKeeps
      <3>3. Settled'
        <4>1. \A e \in Domains \ f.todo : cert'[e] = cert[e] /\ key'[e] = key[e]
          BY <1>d, <2>1, <2>2
        <4> QED BY <2>1, <3>1, <4>1, FilesKeep
      <3> QED BY <1>a, <3>1, <3>2, <3>3 DEF PassInv, NewKeyServed, CertWritten
    <2> QED BY <1>8, <2>3, <2>4 DEF WriteKey
  <1>9. CASE RemoveCert
    <2>1. f.pc = "remove" /\ UNCHANGED <<store, key>> /\ Failed(f.domain)
      BY <1>9 DEF RemoveCert
    <2>2. \A e \in Domains \ {f.domain} : cert'[e] = cert[e]
      BY <1>9, <1>a DEF RemoveCert, TypeOK
    <2>3. f'.errors
      BY <1>a, <1>d, <2>1, DoneFields
    <2> QED BY <1>a, <1>d, <2>1, <2>2, <2>3, DoneKeeps DEF PassInv
  <1>10. CASE EndPass
    <2>1. CASE EndsPass
      BY <1>a, <1>c, <2>1 DEF PassInv
    <2>2. CASE f' = [f EXCEPT !.pc = "traefik"]
      <3>1. /\ f'.pc = "traefik" /\ f'.unread = f.unread /\ f'.info = f.info
            /\ f'.served = f.served
        BY <1>a, <2>2 DEF Pass
      <3>2. KeysServed'
        BY <1>10, <1>e, <3>1, ReadKeeps DEF EndPass
      <3> QED BY <1>a, <3>1, <3>2 DEF PassInv, NewKeyServed, CertWritten, Settled
    <2> QED BY <1>10, <2>1, <2>2 DEF EndPass
  <1>11. CASE WriteTraefik \/ Stop
    BY <1>11, <1>a, <1>c DEF WriteTraefik, Stop, PassInv
  <1>12. CASE UNCHANGED vars
    BY <1>12, <1>a, <1>e DEF vars, PassInv, KeysServed, KeyServed, Present, NewKeyServed,
       CertWritten, Settled, Right
  <1> QED
    BY <1>1, <1>2, <1>3, <1>4, <1>5, <1>6, <1>7, <1>8, <1>9, <1>10, <1>11,
       <1>12 DEF Next, FetcherStep

(* A pass that reports success has put on disk whatever certificate it     *)
(* found under a managed domain's name, with a key that the API had for    *)
(* that domain during the pass.                                            *)
THEOREM ExitCodeTells == Spec => SuccessTells
  <1>1. PassInv /\ [Next]_vars =>
          [EndPass /\ ~f.errors =>
             \A d \in f.domains : f.info[d] \in 1..MaxVersion =>
               cert[d] = f.info[d] /\ key[d] \in f.served[d]]_vars
    BY DEF PassInv, Settled, Right, EndPass
  <1>2. Spec => []PassInv
    BY PassInit, PassStep, PTL DEF Spec
  <1> QED BY <1>1, <1>2, PTL DEF Spec, SuccessTells
=============================================================================
