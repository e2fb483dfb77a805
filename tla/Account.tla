------------------------------- MODULE Account -------------------------------
(* The ACME account.  The constructor of the keystore creates its key when *)
(* the store has none (NewVaultKeystoreFromViper and                       *)
(* NewFilesystemKeystoreFromViper of pkg/keystore); retrieveAcmeAccount    *)
(* (pkg/acme/acme.go) reads the key for every order and registers it with  *)
(* the ACME server when the server does not know it.  Several instances of *)
(* the service may share a Vault; a filesystem store has one.              *)

EXTENDS Naturals, FiniteSets

CONSTANTS
  Instances,  \* the processes that share the store
  Keys,       \* the keys that GenerateECKeyPEM may return
  NoKey,      \* the store has no account
  Torn,       \* account.json does not parse
  Backend,    \* "filesystem" or "vault"
  MaxFaults   \* bound: how many requests or file operations fail

VARIABLES
  stored,     \* the account key in the store
  written,    \* every key that was ever stored: the versions of the secret
  registered, \* the accounts that the ACME server knows
  inst,       \* inst[i]: what instance i does, and the key it holds
  faults      \* how many operations have failed so far

accountVars == <<stored, written, registered, inst, faults>>

ASSUME InstancesAssumption == IsFiniteSet(Instances) /\ Instances # {}
ASSUME KeysAssumption == NoKey \notin Keys /\ Torn \notin Keys /\ NoKey # Torn
ASSUME BackendAssumption == Backend \in {"filesystem", "vault"}
ASSUME SingleNodeAssumption ==
  Backend = "filesystem" => \A i, j \in Instances : i = j
ASSUME FaultsAssumption == MaxFaults \in Nat

(* off: the keystore is not initialised; storing: the constructor has made *)
(* a key; on: idle; confirm, register, order: the steps of an order.       *)
Instance ==
  [ pc : {"off", "on"}, key : {NoKey} ] \cup
  [ pc : {"storing", "confirm", "register", "order"}, key : Keys ]

Off == [pc |-> "off", key |-> NoKey]

(* The mistake: the key is kept after an order. *)
RestWithKey(s) == [s EXCEPT !.pc = "on"]
Rest(s) == [pc |-> "on", key |-> NoKey]

Init ==
  /\ stored = NoKey
  /\ written = {}
  /\ registered = {}
  /\ inst = [i \in Instances |-> Off]
  /\ faults = 0

Fault == faults < MaxFaults /\ faults' = faults + 1
NoFault == UNCHANGED faults

Becomes(i, s) == inst' = [inst EXCEPT ![i] = s]
Goes(i, k) == inst' = [inst EXCEPT ![i].pc = k]

-----------------------------------------------------------------------------
(* initKeystore, at the start and in the retry loop *)

(* GenerateECKeyPEM: a key that is neither stored nor held. *)
NewKeys == Keys \ ({stored} \cup {inst[i].key : i \in Instances})

(* The mistake: the stored account is not looked at. *)
FoundNever == FALSE
Found == stored # NoKey

(* A read that fails, or a file that does not parse, leaves it off. *)
Load(i) ==
  /\ inst[i].pc = "off"
  /\ \/ /\ Found /\ stored \in Keys /\ NoFault
        /\ Becomes(i, Rest(inst[i]))
     \/ /\ ~Found /\ NoFault
        /\ \E k \in NewKeys : Becomes(i, [pc |-> "storing", key |-> k])
     \/ Fault /\ UNCHANGED inst
  /\ UNCHANGED <<stored, written, registered>>

(* What a failed write leaves: Vault may have applied it and the answer    *)
(* was lost; the file may be torn.                                         *)
LeftBy(k) == {stored} \cup IF Backend = "vault" THEN {k} ELSE {Torn}

(* An error of the write leaves it off, whatever was stored. *)
Store(i) ==
  /\ inst[i].pc = "storing"
  /\ \/ stored' = inst[i].key /\ NoFault /\ Becomes(i, Rest(inst[i]))
     \/ stored' \in LeftBy(inst[i].key) /\ Fault /\ Becomes(i, Off)
  /\ written' = written \cup ({stored'} \cap Keys)
  /\ UNCHANGED registered

-----------------------------------------------------------------------------
(* retrieveAcmeAccount, then the order *)

ReadAccount(i) ==
  /\ inst[i].pc = "on"
  /\ \/ /\ stored \in Keys /\ NoFault
        /\ Becomes(i, [pc |-> "confirm", key |-> stored])
     \/ Fault /\ UNCHANGED inst
  /\ UNCHANGED <<stored, written, registered>>

(* The mistake: an error instead of a registration. *)
CreateNever(k) == FALSE
MayCreate(k) == k \notin registered

(* GetAccount.  Only "account does not exist" leads to a registration. *)
Confirm(i) ==
  LET k == inst[i].key IN
  /\ inst[i].pc = "confirm"
  /\ \/ k \in registered /\ NoFault /\ Goes(i, "order")
     \/ k \notin registered /\ MayCreate(k) /\ NoFault /\ Goes(i, "register")
     \/ Fault /\ Becomes(i, Rest(inst[i]))
  /\ UNCHANGED <<stored, written, registered>>

(* NewAccount.  Its answer may be lost. *)
Register(i) ==
  LET all == registered \cup {inst[i].key} IN
  /\ inst[i].pc = "register"
  /\ \/ registered' = all /\ NoFault /\ Goes(i, "order")
     \/ registered' \in {registered, all} /\ Fault /\ Becomes(i, Rest(inst[i]))
  /\ UNCHANGED <<stored, written>>

PlaceOrder(i) ==
  /\ inst[i].pc = "order"
  /\ Becomes(i, Rest(inst[i]))
  /\ UNCHANGED <<stored, written, registered, faults>>

-----------------------------------------------------------------------------
(* The process dies and is started again. *)
Die(i) ==
  /\ inst[i] # Off
  /\ Becomes(i, Off)
  /\ UNCHANGED <<stored, written, registered, faults>>

Step(i) ==
  \/ Load(i)
  \/ Store(i)
  \/ ReadAccount(i)
  \/ Confirm(i)
  \/ Register(i)
  \/ PlaceOrder(i)

Next == \E i \in Instances : Step(i) \/ Die(i)

Spec == Init /\ [][Next]_accountVars

(* The retry loop and the ticker go on for ever, and requests to the store *)
(* and to the ACME server are answered in the end.                         *)
FairSpec == Spec /\ \A i \in Instances : WF_accountVars(Step(i))

-----------------------------------------------------------------------------
AccountTypeOK ==
  /\ stored \in Keys \cup {NoKey, Torn}
  /\ written \subseteq Keys
  /\ registered \subseteq Keys
  /\ inst \in [Instances -> Instance]
  /\ faults \in 0..MaxFaults

(* One instance never loses the key of an account that is registered with  *)
(* the ACME server, through any crashes, retries and lost answers; the     *)
(* race of the first starts of several loses fewer than there are          *)
(* instances.                                                              *)
AccountsKept ==
  Cardinality(registered \ {stored}) < Cardinality(Instances)

(* In the end all instances order with one account, the one in the store,  *)
(* also when each of them had created one.                                 *)
OneAccountInTheEnd ==
  <>[](\A i \in Instances : inst[i].pc = "order" => inst[i].key = stored)

(* An instance of a Vault that does not die again and again keeps ordering *)
(* whatever failed before, lost answers included.                          *)
KeepsOrdering ==
  Backend = "vault" =>
    \A i \in Instances :
      []<>(inst[i].pc = "order") \/ []<><<Die(i)>>_accountVars
=============================================================================
