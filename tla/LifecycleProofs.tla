--------------------------- MODULE LifecycleProofs ---------------------------
(* Theorems about Lifecycle, for any set of handlers, any bound on waiting *)
(* senders, any interleaving and any outages of the store.                 *)

EXTENDS Lifecycle, TLAPS

-----------------------------------------------------------------------------
(* The mutex is what keeps a half-initialised keystore from the daemon:    *)
(* both critical sections hold it, the global is half written only inside  *)
(* one of them, and the orders run only inside the other.                  *)

InitSection == {"getAccount", "storeAccount", "assign", "assignFailed",
                "reset", "unlock"}

MutexInv ==
  /\ initPc \in InitSection => mutex = "init"
  /\ daemonPc \in {"ensure", "orders"} => mutex = "daemon"
  /\ ks = "half" => initPc \in {"assign", "assignFailed", "reset"}
  /\ daemonPc = "orders" => ks = "live"

(* The four flags stay flags. *)
FlagsOK ==
  /\ up \in BOOLEAN
  /\ account \in BOOLEAN
  /\ started \in BOOLEAN
  /\ wanted \in BOOLEAN

(* Each step keeps the flags. *)
LEMMA FlagsInductive == FlagsOK /\ [Next]_vars => FlagsOK'
  <1> SUFFICES ASSUME FlagsOK, [Next]_vars PROVE FlagsOK'
    OBVIOUS
  <1> USE DEF FlagsOK
  <1>1. up' \in BOOLEAN
    <2>1. up' = ~up \/ up' = up
      BY DEF Next, Outage, Initialise, InitLock, GetAccount, StoreAccount,
             Assign, Reset, InitUnlock, RetryTick, Orders, DaemonLock,
             BeginOrders, SkipOrders, EndOrders, ReceiveTrigger, DailyTick,
             SendTrigger, Requests, TriggerRenewal, Ensure, UseKeystore,
             Recover, envVars, vars
    <2> QED BY <2>1
  <1>2. account' \in BOOLEAN
    <2>1. account' \in {FALSE, TRUE} \/ account' = account
      BY DEF Next, Outage, Initialise, InitLock, GetAccount, StoreAccount,
             Assign, Reset, InitUnlock, RetryTick, Orders, DaemonLock,
             BeginOrders, SkipOrders, EndOrders, ReceiveTrigger, DailyTick,
             SendTrigger, Requests, TriggerRenewal, Ensure, UseKeystore,
             Recover, envVars, vars
    <2> QED BY <2>1
  <1>3. started' \in BOOLEAN
    <2>1. started' = TRUE \/ started' = started
      BY DEF Next, Outage, Initialise, InitLock, GetAccount, StoreAccount,
             Assign, Reset, InitUnlock, RetryTick, Orders, DaemonLock,
             BeginOrders, SkipOrders, EndOrders, ReceiveTrigger, DailyTick,
             SendTrigger, Requests, TriggerRenewal, Ensure, UseKeystore,
             Recover, initVars, vars
    <2> QED BY <2>1
  <1>4. wanted' \in BOOLEAN
    <2>1. \/ wanted' = FALSE
          \/ wanted' = (wanted \/ Connected)
          \/ wanted' = wanted
      BY DEF Next, Outage, Initialise, InitLock, GetAccount, StoreAccount,
             Assign, Reset, InitUnlock, RetryTick, Orders, DaemonLock,
             BeginOrders, SkipOrders, EndOrders, ReceiveTrigger, DailyTick,
             SendTrigger, Requests, TriggerRenewal, Ensure, UseKeystore,
             Recover, vars
    <2> QED BY <2>1 DEF Connected
  <1> QED BY <1>1, <1>2, <1>3, <1>4

(* The rest of TypeOK does not need the flags. *)
StateOK ==
  /\ ks \in {"nil", "half", "live"}
  /\ mutex \in {"free", "init", "daemon"}
  /\ initPc \in {"lock", "getAccount", "storeAccount", "assign",
                 "assignFailed", "reset", "unlock", "sleep"}
  /\ daemonPc \in {"lock", "ensure", "orders", "select"}
  /\ channel \in {0, 1}
  /\ senders \in 0..MaxSenders
  /\ handlerPc \in [Handlers -> {"idle", "ensured", "panic"}]

(* Each step keeps the rest of the types. *)
LEMMA StateInductive == StateOK /\ [Next]_vars => StateOK'
  <1> SUFFICES ASSUME StateOK, [Next]_vars PROVE StateOK'
    OBVIOUS
  <1> USE DEF StateOK, envVars, initVars, daemonVars, requestVars
  <1>1. CASE Outage
    BY <1>1 DEF Outage
  <1>2. CASE Initialise
    BY <1>2 DEF Initialise, InitLock, GetAccount, StoreAccount, Assign, Reset,
                InitUnlock, Unlock, RetryTick, ShouldRetry
  <1>3. CASE Orders \/ DailyTick
    <2>1. CASE DaemonLock \/ DailyTick
      BY <2>1 DEF DaemonLock, DailyTick
    <2>2. CASE BeginOrders
      BY <2>2 DEF BeginOrders
    <2>3. CASE SkipOrders \/ EndOrders
      BY <2>3 DEF SkipOrders, EndOrders
    <2>4. CASE ReceiveTrigger
      <3>1. channel = 1 /\ channel' = 0
        BY <2>4 DEF ReceiveTrigger
      <3> QED BY <2>4, <3>1 DEF ReceiveTrigger
    <2> QED BY <1>3, <2>1, <2>2, <2>3, <2>4 DEF Orders
  <1>4. CASE SendTrigger
    BY <1>4, SendersAssumption DEF SendTrigger, Sent
  <1>5. CASE TriggerRenewal
    BY <1>5, SendersAssumption DEF TriggerRenewal
  <1>6. ASSUME NEW h \in Handlers,
               Ensure(h) \/ UseKeystore(h) \/ Recover(h)
        PROVE  StateOK'
    BY <1>6 DEF Ensure, UseKeystore, Recover
  <1>7. CASE UNCHANGED vars
    BY <1>7 DEF vars
  <1> QED BY <1>1, <1>2, <1>3, <1>4, <1>5, <1>6, <1>7 DEF Next, Requests

(* Program counters, the channel and the counts stay within their types;   *)
(* in particular triggerChan never holds more than its capacity of one.    *)
THEOREM TypeCorrect == Spec => []TypeOK
  <1>1. Init => FlagsOK
    BY DEF Init, FlagsOK
  <1>2. Init => StateOK
    BY SendersAssumption DEF Init, StateOK
  <1>3. FlagsOK /\ StateOK => TypeOK
    BY DEF FlagsOK, StateOK, TypeOK
  <1> QED BY <1>1, <1>2, <1>3, FlagsInductive, StateInductive, PTL DEF Spec

(* The steps of requests and of the environment leave the mutex alone. *)
LEMMA RequestsLeaveMutex ==
  Outage \/ SendTrigger \/ Requests \/ UNCHANGED vars =>
    UNCHANGED <<mutex, ks, initPc, started, daemonPc>>
  BY DEF Outage, SendTrigger, Requests, TriggerRenewal, Ensure, UseKeystore,
         Recover, initVars, daemonVars, vars

(* The daemon runs orders only while it holds the mutex and the keystore   *)
(* is completely there, whatever the retry loop does.                      *)
THEOREM OrdersSafe == Spec => []OrdersHaveKeystore
  <1>1. Init => MutexInv
    BY DEF Init, MutexInv, InitSection
  <1>2. TypeOK /\ MutexInv /\ [Next]_vars => MutexInv'
    <2> SUFFICES ASSUME TypeOK, MutexInv, [Next]_vars PROVE MutexInv'
      OBVIOUS
    <2> USE DEF MutexInv, InitSection, daemonVars, initVars
    <2>1. CASE Initialise
      <3>1. CASE InitLock
        BY <3>1 DEF InitLock
      <3>2. CASE GetAccount \/ StoreAccount
        BY <3>2 DEF GetAccount, StoreAccount
      <3>3. CASE Assign \/ Reset
        BY <3>3 DEF Assign, Reset, TypeOK
      <3>4. CASE InitUnlock \/ RetryTick
        BY <3>4 DEF InitUnlock, Unlock, RetryTick
      <3> QED BY <2>1, <3>1, <3>2, <3>3, <3>4 DEF Initialise
    <2>2. CASE Orders \/ DailyTick
      <3>1. CASE DaemonLock
        BY <3>1 DEF DaemonLock, TypeOK
      <3>2. CASE BeginOrders
        BY <3>2 DEF BeginOrders, EnsureKeystore, TypeOK
      <3>3. CASE SkipOrders \/ EndOrders
        BY <3>3 DEF SkipOrders, EndOrders
      <3>4. CASE ReceiveTrigger \/ DailyTick
        BY <3>4 DEF ReceiveTrigger, DailyTick
      <3> QED BY <2>2, <3>1, <3>2, <3>3, <3>4 DEF Orders
    <2>3. CASE Outage \/ SendTrigger \/ Requests \/ UNCHANGED vars
      BY <2>3, RequestsLeaveMutex
    <2> QED BY <2>1, <2>2, <2>3 DEF Next
  <1>3. MutexInv => OrdersHaveKeystore
    BY DEF MutexInv, OrdersHaveKeystore
  <1> QED BY <1>1, <1>2, <1>3, TypeCorrect, PTL DEF Spec

-----------------------------------------------------------------------------
(* Once the initialisation has succeeded nothing writes the global again;  *)
(* hence a run that a trigger asked for is not skipped.                    *)

(* A connected service stays connected: the retry loop starts over only    *)
(* from nil, and the error path is behind it.                              *)
LEMMA NeverDisconnected ==
  ASSUME TypeOK, Connected, [Next]_vars
  PROVE  Connected'
  <1> USE DEF Connected, initVars
  <1>1. CASE Initialise
    BY <1>1 DEF Initialise, InitLock, GetAccount, StoreAccount, Assign, Reset,
                InitUnlock, RetryTick, ShouldRetry
  <1>2. CASE Orders \/ DailyTick
    BY <1>2 DEF Orders, DaemonLock, BeginOrders, SkipOrders, EndOrders,
                ReceiveTrigger, DailyTick
  <1>3. CASE Outage \/ SendTrigger \/ Requests \/ UNCHANGED vars
    BY <1>3, RequestsLeaveMutex
  <1> QED BY <1>1, <1>2, <1>3 DEF Next

(* A service that is once connected to its keystore stays connected.       *)
THEOREM ConnectionStays == Spec => StaysConnected
  <1>1. TypeOK /\ [Next]_vars => [Connected => Connected']_vars
    BY NeverDisconnected
  <1> QED BY <1>1, TypeCorrect, PTL DEF Spec, StaysConnected

TriggerInv ==
  /\ wanted => Connected
  /\ NoLostTrigger

(* Every trigger that a connected service accepts is followed by a run     *)
(* that begins after it: a trigger that finds the channel full is covered  *)
(* by the one that is waiting in it.                                       *)
THEOREM TriggersKept == Spec => []NoLostTrigger
  <1>1. Init => TriggerInv
    BY DEF Init, TriggerInv, NoLostTrigger
  <1>2. TypeOK /\ TriggerInv /\ [Next]_vars => TriggerInv'
    <2> SUFFICES ASSUME TypeOK, TriggerInv, [Next]_vars
                 PROVE  TriggerInv'
      OBVIOUS
    <2>0. Connected => Connected'
      BY NeverDisconnected
    <2>a. Connected => ks = "live"
      BY DEF Connected
    <2> USE DEF TriggerInv, NoLostTrigger, RunComing, TypeOK
    <2>1. CASE Initialise \/ Outage
      <3>1. UNCHANGED <<daemonPc, channel, senders, wanted>>
        BY <2>1 DEF Initialise, InitLock, GetAccount, StoreAccount, Assign,
             Reset, InitUnlock, RetryTick, Outage, daemonVars, requestVars
      <3> QED BY <2>0, <3>1
    <2>2. CASE Orders \/ DailyTick
      BY <2>0, <2>a, <2>2 DEF Orders, DaemonLock, BeginOrders, SkipOrders,
           EndOrders, EnsureKeystore, ReceiveTrigger, DailyTick, requestVars
    <2>3. CASE SendTrigger
      BY <2>0, <2>3 DEF SendTrigger, Sent
    <2>4. CASE TriggerRenewal
      BY <2>0, <2>4, SendersAssumption DEF TriggerRenewal, daemonVars
    <2>5. ASSUME NEW h \in Handlers,
                 Ensure(h) \/ UseKeystore(h) \/ Recover(h)
          PROVE  TriggerInv'
      BY <2>0, <2>5 DEF Ensure, UseKeystore, Recover, daemonVars
    <2>6. CASE UNCHANGED vars
      BY <2>0, <2>6 DEF vars
    <2> QED BY <2>1, <2>2, <2>3, <2>4, <2>5, <2>6 DEF Next, Requests
  <1>3. TriggerInv => NoLostTrigger
    BY DEF TriggerInv
  <1> QED BY <1>1, <1>2, <1>3, TypeCorrect, PTL DEF Spec
=============================================================================
