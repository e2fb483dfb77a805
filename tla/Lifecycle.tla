------------------------------ MODULE Lifecycle ------------------------------
(* How the acme-store process starts, connects to its keystore and decides *)
(* when to run the orders: main (cmd/acme-store/main.go), initKeystore and *)
(* the retry loop (keystore.go), acmeDaemon and the trigger channel        *)
(* (worker.go), and the check every request handler makes first.           *)
(*                                                                         *)
(* Three kinds of goroutine share the global ks: the one that initialises  *)
(* it (main, then the retry loop, which main starts afterwards), the       *)
(* daemon, and one per request.  The first two hold the mutex; the request *)
(* handlers read ks without it.                                            *)

EXTENDS Naturals

CONSTANTS
  Handlers,      \* the goroutines that serve requests
  MaxSenders     \* bound: how many trigger goroutines wait to send

ASSUME SendersAssumption == MaxSenders \in Nat

VARIABLES
  up,         \* the store behind the keystore answers
  account,    \* an ACME account is stored: not so before the first start
  ks,         \* the global: nil, half written, or a keystore
  mutex,      \* who holds the mutex
  initPc,     \* the goroutine that initialises: main, then the retry loop
  started,    \* main has started the other goroutines
  daemonPc,   \* acmeDaemon
  channel,    \* how many triggers triggerChan holds
  senders,    \* goroutines of triggerAcmeOrders about to send
  handlerPc,  \* handlerPc[h]: the request that h serves
  wanted      \* TRUE if a trigger was accepted by a connected service and no
              \* run of the orders has begun since

vars == <<up, account, ks, mutex, initPc, started, daemonPc, channel, senders,
          handlerPc, wanted>>

envVars == <<up, account>>
initVars == <<ks, initPc, started>>
daemonVars == <<daemonPc, channel>>
requestVars == <<senders, handlerPc>>

(* An interface value is two words.  They are written one after the other, *)
(* and a reader that holds no lock may find one written and one not.       *)
Init ==
  /\ up \in BOOLEAN
  /\ account \in BOOLEAN
  /\ ks = "nil"
  /\ mutex = "free"
  /\ initPc = "lock"
  /\ started = FALSE
  /\ daemonPc = "lock"
  /\ channel = 0
  /\ senders = 0
  /\ handlerPc = [h \in Handlers |-> "idle"]
  /\ wanted = FALSE

-----------------------------------------------------------------------------
(* initKeystore *)

(* The store becomes unreachable, or reachable again. *)
Outage ==
  /\ up' = ~up
  /\ UNCHANGED <<account, initVars, mutex, daemonVars, requestVars, wanted>>

InitLock ==
  /\ initPc = "lock"
  /\ mutex = "free"
  /\ mutex' = "init"
  /\ initPc' = "getAccount"
  /\ UNCHANGED <<envVars, ks, started, daemonVars, requestVars, wanted>>

(* NewKeystoreFromViper: load the account, and create one if there is none. *)
GetAccount ==
  /\ initPc = "getAccount"
  /\ initPc' = IF ~up THEN "reset"
               ELSE IF account THEN "assign" ELSE "storeAccount"
  /\ UNCHANGED <<envVars, ks, mutex, started, daemonVars, requestVars, wanted>>

(* When the account cannot be stored the constructor returns the keystore  *)
(* together with the error.  (An account.json that is torn then, after     *)
(* which no retry of the filesystem succeeds, is in Account.)              *)
StoreAccount ==
  /\ initPc = "storeAccount"
  /\ \/ up /\ account' = TRUE /\ initPc' = "assign"
     \/ ~up /\ account' \in {FALSE, TRUE} /\ initPc' = "assignFailed"
  /\ UNCHANGED <<up, ks, mutex, started, daemonVars, requestVars, wanted>>

(* ks, err = ... writes the two words of ks. *)
Assign ==
  /\ initPc \in {"assign", "assignFailed"}
  /\ IF ks = "nil" THEN ks' = "half" /\ UNCHANGED initPc
     ELSE /\ ks' = "live"
          /\ initPc' = IF initPc = "assign" THEN "unlock" ELSE "reset"
  /\ UNCHANGED <<envVars, mutex, started, daemonVars, requestVars, wanted>>

(* ks = nil, on the error path. *)
Reset ==
  /\ initPc = "reset"
  /\ IF ks = "live" THEN ks' = "half" /\ UNCHANGED initPc
     ELSE ks' = "nil" /\ initPc' = "unlock"
  /\ UNCHANGED <<envVars, mutex, started, daemonVars, requestVars, wanted>>

(* A mistake: the mutex is not released. *)
KeepLocked == UNCHANGED mutex
Unlock == mutex' = "free"

(* After the first time, main starts the other goroutines and the retry    *)
(* loop sleeps until its ticker fires.                                     *)

InitUnlock ==
  /\ initPc = "unlock"
  /\ Unlock
  /\ initPc' = "sleep"
  /\ started' = TRUE
  /\ UNCHANGED <<envVars, ks, daemonVars, requestVars, wanted>>

(* The loop initialises only a keystore that is nil.  The mistake: always. *)
AlwaysRetry == TRUE
ShouldRetry == ks = "nil"

RetryTick ==
  /\ initPc = "sleep"
  /\ initPc' = IF ShouldRetry THEN "lock" ELSE "sleep"
  /\ UNCHANGED <<envVars, ks, mutex, started, daemonVars, requestVars, wanted>>

Initialise ==
  \/ InitLock
  \/ GetAccount
  \/ StoreAccount
  \/ Assign
  \/ Reset
  \/ InitUnlock
  \/ RetryTick

-----------------------------------------------------------------------------
(* acmeDaemon and doAcmeOrders.  The first run needs no tick. *)

DaemonLock ==
  /\ started
  /\ daemonPc = "lock"
  /\ mutex = "free"
  /\ mutex' = "daemon"
  /\ daemonPc' = "ensure"
  /\ UNCHANGED <<envVars, initVars, channel, requestVars, wanted>>

(* ensureKeystore, under the mutex.  The mistake: no check. *)
EnsureNothing == TRUE
EnsureKeystore == ks # "nil"

BeginOrders ==
  /\ daemonPc = "ensure"
  /\ EnsureKeystore
  /\ daemonPc' = "orders"
  /\ wanted' = FALSE
  /\ UNCHANGED <<envVars, initVars, mutex, channel, requestVars>>

SkipOrders ==
  /\ daemonPc = "ensure"
  /\ ~EnsureKeystore
  /\ mutex' = "free"
  /\ daemonPc' = "select"
  /\ UNCHANGED <<envVars, initVars, channel, requestVars, wanted>>

EndOrders ==
  /\ daemonPc = "orders"
  /\ mutex' = "free"
  /\ daemonPc' = "select"
  /\ UNCHANGED <<envVars, initVars, channel, requestVars, wanted>>

DailyTick ==
  /\ daemonPc = "select"
  /\ daemonPc' = "lock"
  /\ UNCHANGED <<envVars, initVars, mutex, channel, requestVars, wanted>>

ReceiveTrigger ==
  /\ daemonPc = "select"
  /\ channel > 0
  /\ channel' = channel - 1
  /\ daemonPc' = "lock"
  /\ UNCHANGED <<envVars, initVars, mutex, requestVars, wanted>>

Orders == DaemonLock \/ BeginOrders \/ SkipOrders \/ EndOrders \/ ReceiveTrigger

-----------------------------------------------------------------------------
(* Requests.  Only the trigger handler starts a goroutine to send. *)

(* ensureKeystore without the mutex: a half-written ks reads either way. *)
Passes == started /\ ks \in {"half", "live"}

(* The initialisation has succeeded, and the error path has not to run. *)
Connected == ks = "live" /\ initPc \in {"unlock", "sleep"}

TriggerRenewal ==
  /\ Passes
  /\ senders < MaxSenders
  /\ senders' = senders + 1
  /\ wanted' = (wanted \/ Connected)
  /\ UNCHANGED <<envVars, initVars, mutex, daemonVars, handlerPc>>

(* The non-blocking send: a trigger that is already waiting is enough.     *)
(* The mistakes: an unbuffered channel, which loses what is sent while the *)
(* daemon is not receiving, and an unbounded one.                          *)
SentUnbuffered == IF daemonPc = "select" THEN 1 ELSE channel
SentUnbounded == channel + 1
Sent == IF channel = 0 THEN 1 ELSE channel

SendTrigger ==
  /\ senders > 0
  /\ senders' = senders - 1
  /\ channel' = Sent
  /\ UNCHANGED <<envVars, initVars, mutex, daemonPc, handlerPc, wanted>>

Ensure(h) ==
  /\ handlerPc[h] = "idle"
  /\ Passes
  /\ handlerPc' = [handlerPc EXCEPT ![h] = "ensured"]
  /\ UNCHANGED <<envVars, initVars, mutex, daemonVars, senders, wanted>>

(* The handler calls ks, which it reads again, and the call of a nil       *)
(* keystore panics.                                                        *)
UseKeystore(h) ==
  /\ handlerPc[h] = "ensured"
  /\ handlerPc' = [handlerPc EXCEPT ![h] = IF ks = "live" THEN "idle" ELSE "panic"]
  /\ UNCHANGED <<envVars, initVars, mutex, daemonVars, senders, wanted>>

(* The recover middleware answers 500. *)
Recover(h) ==
  /\ handlerPc[h] = "panic"
  /\ handlerPc' = [handlerPc EXCEPT ![h] = "idle"]
  /\ UNCHANGED <<envVars, initVars, mutex, daemonVars, senders, wanted>>

Requests ==
  \/ TriggerRenewal
  \/ \E h \in Handlers : Ensure(h) \/ UseKeystore(h) \/ Recover(h)

Next == Outage \/ Initialise \/ Orders \/ DailyTick \/ SendTrigger \/ Requests

Spec == Init /\ [][Next]_vars

(* Every goroutine runs, the retry ticker fires, whoever waits for the     *)
(* mutex gets it (sync.Mutex hands it to the longest waiter after 1 ms)    *)
(* and an order run ends: the code sets no timeout on the ACME server, so  *)
(* the last is an assumption on it.  The daily tick gets no fairness: what *)
(* must follow a trigger may not wait for it.                              *)
FairSpec ==
  /\ Spec
  /\ WF_vars(Initialise) /\ SF_vars(InitLock)
  /\ WF_vars(SendTrigger)
  /\ WF_vars(Orders) /\ SF_vars(DaemonLock)

-----------------------------------------------------------------------------
TypeOK ==
  /\ up \in BOOLEAN /\ account \in BOOLEAN /\ started \in BOOLEAN
  /\ ks \in {"nil", "half", "live"}
  /\ mutex \in {"free", "init", "daemon"}
  /\ initPc \in {"lock", "getAccount", "storeAccount", "assign",
                 "assignFailed", "reset", "unlock", "sleep"}
  /\ daemonPc \in {"lock", "ensure", "orders", "select"}
  /\ channel \in {0, 1}
  /\ senders \in 0..MaxSenders
  /\ handlerPc \in [Handlers -> {"idle", "ensured", "panic"}]
  /\ wanted \in BOOLEAN

(* The orders run only on a keystore that is completely there, and the     *)
(* retry loop does not write the global while they run.                    *)
OrdersHaveKeystore == daemonPc = "orders" => ks = "live" /\ mutex = "daemon"

(* A run of the orders is on its way. *)
RunComing == senders > 0 \/ channel > 0 \/ daemonPc \in {"lock", "ensure"}

(* A renewal that a client triggered while a run was under way, or while   *)
(* another trigger waited, is followed by a run that begins after it.      *)
NoLostTrigger == wanted => RunComing

(* A keystore that a handler has found there is there when it is called:   *)
(* not taken away again by a constructor that has failed.                  *)
EnsuredStays == [][\A h \in Handlers : UseKeystore(h) => ks # "nil"]_vars

(* A service that is once connected stays connected, whatever becomes of   *)
(* the store: no handler or run is cut off by the retry loop.              *)
StaysConnected == [][Connected => Connected']_vars

(* A triggered renewal is run without waiting for the daily tick.          *)
TriggerServed == wanted ~> ~wanted

(* Once the store stays reachable the service gets its keystore.           *)
Recovers == <>[]up => <>[](ks = "live")
=============================================================================
