# A TLA+ model of go-acme-store

go-acme-store obtains certificates from an ACME server for a list of managed
domains, keeps them with their keys in a store (HashiCorp Vault, a directory of
JSON files, or memory), renews them, and serves an HTTP API and a web UI over
the store. A second program, the fetcher, copies certificates and keys from the
API to files on the hosts that use them.

The service is small and sequential to read, and what is hard about it lies
between its parts: HTTP handlers and the order daemon change the same list and
the same records through many small keystore calls with nothing held in
between, several instances may share one Vault, any call may fail, and the
global keystore comes and goes. The models are about that.

## Inventory

| Component | State | Operations | Talks to |
|---|---|---|---|
| Keystore interface, `pkg/keystore/keystore.go` | record type `CertAndKey` | get, store, delete a record; add, remove, list managed domains | implemented by the three backends |
| Vault backend, `vault.go` | a secret with the list, one secret per domain, one for the account | as above, every request on its own, no lock | Vault server |
| Filesystem backend, `filesystem.go` | `managed_domains.json`, one file per domain, `account.json`, a RW lock | as above; the lock is dropped in the middle of an add | files, written in place |
| Memory backend, `memory.go` | a slice and a map under one mutex | as above | nothing |
| Order daemon, `cmd/acme-store/worker.go` and `pkg/acme/acme.go` | the local variables of a run | snapshot of the list; per domain: look, order, store, mark as failed | keystore, ACME server, DNS provider |
| HTTP handlers, `cmd/acme-store/httpserver.go` | the local variables of a request | `POST /domains`, `DELETE /domains/:d`, `DELETE /certs/:d`, `POST /trigger-renewal`, export, import, reads | keystore, trigger channel |
| Life cycle, `main.go`, `keystore.go`, `worker.go` | the global `ks`, the mutex, `triggerChan` (capacity 1) | `initKeystore`, retry loop, `ensureKeystore`, daily tick, trigger | all of the above |
| Account, `vault.go`, `filesystem.go`, `acme.go` | stored e-mail and key | create at the first start, register with the CA | keystore, ACME server |
| Certificate data, `pkg/crypto` | none | parse, the 21-day test | - |
| Fetcher, `cmd/acme-store-fetcher` | certificate and key files, a Traefik configuration, the variables of a pass | ask for domains, certificates and keys; compare; write | the API, files |
| Web UI, `pkg/webui` | the browser's view | calls of the API | handlers |
| Configuration, logging, server set-up, DNS solvers | - | - | - |

What makes each of them correct, and where it is stated:

- **List of managed domains.** Seen by its callers an atomic set: an accepted
  add puts its own domain in, an accepted removal takes its own domain out,
  nothing else changes it (`ManagedDomains`, `KeepsPromise`,
  `OnlyItsRemovalUnlists`, `NoDuplicates`).
- **Records.** The managed flag agrees with the list (`ListAndRecordsAgree`),
  a listed domain has a record (`RecordForListed`), an unlisted domain gets
  none (`RecordOnlyForListed`), the status tells whether there is a
  certificate (`StatusTellsPem`), a certificate that is not due is lost only to
  a request for it (`FreshKept`), and it is issued with the SANs in the list
  (`IssuedWithSans`).
- **Daemon.** Renews what is listed (`ManagedRenewed`), only that
  (`RenewedOnlyWhileListed`, `RemovedLeftAlone`), only when due
  (`NoNeedlessOrder`), and never costs a certificate that is not due, whatever
  fails (`DaemonKeepsFresh`).
- **Life cycle.** The orders run on a complete keystore (`OrdersHaveKeystore`),
  what a handler has checked is there when it is used (`EnsuredStays`), the
  keystore comes up when the store does and then stays (`Recovers`,
  `StaysConnected`), and a trigger is followed by a run that begins after it
  (`NoLostTrigger`, `TriggerServed`).
- **Account.** One instance never loses the key of an account that is registered
  with the CA, several lose few (`AccountsKept`), in the end all order with the
  stored one (`OneAccountInTheEnd`), and they keep ordering (`KeepsOrdering`).
- **Export and import.** An import that reports no failure has restored the file
  (`SuccessRestores`), list and flags agree after it (`AgreesAfterImports`), and
  the daemon orders nothing that an import is about to store (`NoNeedlessOrder`).
- **Fetcher.** A pass that reports success has put on disk what it found, with
  keys of this very pass (`SuccessTells`); whatever failed or changed, the files
  become right once the store is at rest (`Arrives`), and the Traefik
  configuration names what is on offer (`TraefikNamesOffered`).

The hard behaviours are listed one by one, at their lines, under `hazards` in
`PROJECT.json`.

## Modules

```
ManagedDomains            what a keystore promises about its list
      ^ refinement
Keystore                  list, records, three backends, failures, crash
   ^          ^
Handlers    Daemon        requests        a run of the orders
     ^      ^
    AcmeStore             the service: both over one keystore, time, restart
        ^
    Transfer              export and import beside all of it, loss of the store
Account                   the account key: instances, store, ACME server
Lifecycle                 start, reconnection, mutex, triggers
Fetcher                   the program that copies certificates from the API
KeystoreProofs <- AcmeStoreProofs <- AgreementProofs <- SansProofs
                                           ^         theorems about the service
                                     TransferProofs  (<-, ^: is extended by)
AccountProofs, LifecycleProofs, FetcherProofs     theorems
MCKeystore, MCAcmeStore, MCTransfer, MCAccount,
MCLifecycle, MCFetcher                            instances for TLC
```

**ManagedDomains** is the abstract specification: a set and, for each caller, a
call that takes effect once between its invocation and its answer.

**Keystore** models `AddManagedDomainWithSANs`, `RemoveManagedDomain`,
`StoreCertAndKey`, `DeleteCertAndKey` and the reads. An action is what a
goroutine does between two points where another can run: for Vault one request
to the server, for the filesystem one critical section (the add releases the
lock around its read and its store of the record), for memory a whole call.
`call[p]` holds the program counter and the local variables of p's call. The
list is a set of entries [domain, sans]: its order is never used. A record
keeps what the control depends on: whether it has a CommonName, the managed
flag, the status, its SANs, and `pem` for the leaf, chain and private key,
which the code always writes together, as "none", "due" (inside the last 21
days) or "fresh". An absent record is `Zero`: Vault and memory return the zero
struct for it and the filesystem backend does the same.

Failures: with Vault a request may fail, and a write that fails may have been
applied with its answer lost. With the filesystem a read or write may fail, and
a write may leave a torn file that does not parse (`torn`), since `os.WriteFile`
truncates and then writes. A torn file is repaired only by writing it again.
The memory backend cannot fail.

**Handlers** has one action per keystore call of a handler, `req[h]` being its
local variables, and uses the calls of `Keystore` for adds and removals.
**Daemon** has one action per keystore call of a run: snapshot, managed check,
SANs, leaf, order, store, and the two marks of a failed order, the inner one of
`RenewCertIfNeeded` and the outer one of `doAcmeOrders`, which really happen
one after the other. `Flaky` are the domains whose orders the CA may refuse, at
any time and for ever.

**AcmeStore** composes them. `Age` is time: a fresh certificate becomes due, in
the store and in every copy that a goroutine holds. `Overlap` FALSE lets one
request or run go on at a time. `Restart` is a crash of the process.

**Transfer** adds the export and the import to AcmeStore, one action per keystore
call. `xfer[h]` holds the local variables of the handler, `backup` the file that
the last complete export returned, with its records and the names of the list:
like the file of the code it has no SANs but those in the records. An import
takes the file as it is, whatever happened to the store since. Go iterates maps
in no fixed order, so records are taken in any order. `known` is the directory
that the Vault backend lists for `GetAllDomains`: the metadata of a secret
outlives its deletion, and an export then has an empty record for it; the
filesystem backend lists its files. `NewStore` is the reason for having backups:
process and store are lost, and the service starts on an empty store.
`RestoreOnly` restricts the imports to files whose records are for domains that
the store does not have. `spoiled` is history: the records that failures may
have cost since an import began without anybody being told, which are those
whose file a store has left torn, and those over which an add puts a placeholder
because it could not read them. The account is in the file and is not imported, which
is what the code does.

**Account** models what `Lifecycle` leaves out of the constructor: which key is
in the store. An instance is off until its constructor has found a key or stored
a new one; every order then reads the key (`GetAcmeAccount`), asks the CA for
its account, and registers one only on `accountDoesNotExist`
(`retrieveAcmeAccount`). `registered` is what the CA knows. Several instances
share a Vault (README.md:100), a filesystem store has one (`SingleNodeAssumption`,
README.md:105). A write may fail after it was applied (Vault) or leave a torn
file (filesystem), the answer to a registration may be lost, and an instance may
die anywhere. `NewKeys` lets a new key be any that nobody holds, so that a small
set of keys never runs out. The memory backend makes a key at every start and
shares it with nobody; there is nothing to check.

**Lifecycle** models the goroutines around the global `ks`. An interface value
is two words, written one after the other, and the handlers read it without the
mutex: `ks` is nil, half written or live, and a handler that checked it reads it
again to use it. `up` is whether the store answers, `account` whether it holds
an account. On the first start the constructor has to store one, and if that
fails it returns a keystore together with the error: `initKeystore` then assigns
the keystore and sets it back to nil. `Connected` says that the initialisation
has succeeded. `wanted` is history: a renewal was triggered on a connected
service and no run has begun since.

**Fetcher** has one action per request and per file operation of a pass. `f`
holds the local variables of `performFetch`; the API reads its records one after
the other, and leaves out of its answer one that it cannot read (`handlerCerts`,
`ReadRecord`). Certificates and keys are numbers, and certificate n fits key n
alone. `IssuedFor` says for which domain a certificate is ordered, `CommonName`
under which name the API lists it: that of the certificate or, if it has none,
the first of its names (`populateMissingFields`). `getAllCerts` looks records up
by that name, `getPrivateKey` by the domain, and the model does the same. A
record in the store is absent, pending, withheld (failed or unmanaged) or
offered. `StoreChange` is what the handlers and the daemon of the service can
make of it, seen from outside: the models of the service say when they do. It
includes an older certificate written back over a newer one, which
`StoreSoftLosesCert` finds. A file holds a numbered content, something unusable
(torn or empty), or is missing. `f.served` is history: the keys that the API has
had for each domain since the pass read its record. A request, a read or a write
may fail, and the process may stop at any point and be started again.

Definitions called a mistake in a comment (`AddToUnchecked`, `GiveUpRun`, ...)
are not part of the model. Each is a plausible slip in the definition that
follows it, put in its place to see that a property notices.

## Runs

Every `.cfg` is one question. Runs that pass:

| Run | Instance | Shows |
|---|---|---|
| KeystoreFilesystem | 2 goroutines, 2 domains, 1 fault | the filesystem list is atomic (refinement of ManagedDomains), although adds go on without the lock |
| KeystoreMemory | 2 goroutines, 2 domains, 2 SAN lists | the memory list is atomic |
| StoreSerialVault | 1 handler, daemon, 2 domains, 2 SAN lists, no overlap | list, records and certificates agree through any sequence of requests, runs, refusals and expiries |
| StoreRenewal | Vault, 1 handler, daemon, full overlap, 1 fault, crash anywhere, fairness, 1 flaky domain | a listed domain is renewed again and again and a removed one left alone in the end; no order for a certificate that is not due, and no step of a run that costs one; the status of a record tells whether it has a certificate |
| TransferRestore | filesystem, 1 goroutine for requests and transfers, daemon beside it, 2 domains, 1 fault, loss of the store | an import that reports success restored its file; list and flags agree after it; no needless order beside an import |
| AccountShared | Vault, 2 instances, 4 keys, 2 faults, crash anywhere, fairness | at most one account is lost in the race of the first starts; in the end one account; ordering never stops for good |
| LifecycleTriggers | outages, with or without an account, 2 waiting triggers, fairness | the orders are safe, the service connects and stays connected, every trigger is served |
| FetcherArrives | 2 domains, 3 certificates, one of them under the other domain's name, 3 changes of the store, 1 fault, fairness | success means that what was found is on disk with keys of this pass; the files become right in the end |

Runs that show a statement of the documentation or of a comment that the code
does not keep; `PROJECT.json` quotes each line under `findings`:

| Run | What happens |
|---|---|
| KeystoreVaultReadError | a failed read of the list is taken for a list that does not exist, and a list of one domain is stored over it |
| StoreSoftLosesCert | a soft delete writes an old record over a renewal: certificate and key are lost |
| LifecyclePanic | a first start cannot store its account: a keystore that a handler has found there is set back to nil before it is called, 500 instead of 503 |
| FetcherTraefik | a domain is withheld while another is saved, and comes back with the same certificate: the Traefik configuration never names it again |

The passing runs state the same properties in the regime where the code keeps
them, so that the pair says what a property depends on. `FreshKept` holds with
serial requests and breaks with a soft delete that overlaps a run.
`SuccessRestores` and `AgreesAfterImports` speak of failures in their own text: a
failed write makes the two copies of the managed flag differ in the store
itself, and a torn file or a failed read may cost an imported record without the
import knowing, as the next table says; `SuccessRestores` excepts exactly the
records that are in `spoiled`.

### Other divergences

These were found with the same models. Each is reproduced by the named property
under the constants given here, in a configuration of the named module's other
runs.

| What happens | Property | Constants | Stated in |
|---|---|---|---|
| Two adds on Vault overlap: one domain is dropped, both calls succeeded | `OnlyItsRemovalUnlists` | Keystore, vault, 2 callers, no fault | README.md:100 |
| A hard-deleted record comes back at the end of an order | `RecordOnlyForListed` | memory, `Overlap` TRUE, ops add and hardRemove | API.md:360, app.js:621 |
| A domain is renewed after its soft delete | `RenewedOnlyWhileListed` | memory, `Overlap` TRUE, ops add and softRemove | app.js:629 |
| `DELETE /certs` deletes a record that became managed after the check | `DeleteOnlyUnmanaged` | 2 handlers, `Overlap` TRUE | API.md:251 |
| An error of the keystore marks a healthy record as failed | `FailedNotFresh` | vault, 1 fault | API.md:173 |
| A domain added again during its soft delete stays unmanaged and is skipped for ever | `ManagedRenewed` | 2 handlers, with softRemove | API.md:322 |
| A torn record file stops renewal for ever | `ManagedRenewed` | filesystem, 1 fault | README.md:10 |
| A placeholder is stored over a certificate that the daemon stored meanwhile | `FreshKept` | filesystem, `Overlap` TRUE, op add | API.md:320 |
| An import stores a certificate, the add of its domain then cannot read it and puts a pending placeholder over it, or the daemon's renewal leaves its file torn; the answer counts no failure | `SuccessRestores` with {} for `spoiled` | TransferRestore | app.js:872 |
| The list changes while an export reads the records: a managed record is in the file without its domain | `BackupAgrees` | Transfer, 2 handlers, `Overlap` TRUE, no fault | app.js:821 |
| A certificate that is listed under another name is not found: the domain never gets its files | `Arrives` without `FoundByName` | FetcherArrives | FETCHER.md:17 |
| A certificate is replaced during a pass, or another one is listed under its name: a pair that does not match is written, with exit code 0 | `SuccessTells` with `key[d] = cert[d]` | FetcherArrives | FETCHER.md:524 |
| An import stores an unmanaged record over the one of a listed domain: the daemon skips it for ever | `ListedNotSkipped` | Transfer, filesystem, `RestoreOnly` FALSE, no fault | API.md:412 |
| Vault exports a deleted domain as an empty record, and an import stores it over a certificate obtained since | `RecordForListed`, `NoNeedlessOrder` | Transfer, vault, `RestoreOnly` FALSE | app.js:821 |
| Two first starts on one Vault: the second key replaces the one the first instance has registered | `AccountsKept` with `registered \subseteq {stored}` | Account, vault, 2 instances, no fault | vault.go:119, README.md:100 |
| A first start dies while it writes `account.json`: no later start gets a keystore | deadlock | Account, filesystem, 1 instance, 1 fault | keystore.go:41 |
| The memory backend stores no pending placeholder | `RecordForListed` | memory | API.md:320 |

Two more are read off the code: the daemon asks only the Vault backend for SANs
(`worker.go:89`), so that the filesystem backend keeps them but never orders
them, against API.md:304; and `POST /domains` sends no trigger
(`httpserver.go:286`), against API.md:321. And a third: the account of an export
file is never imported, so that a restored service registers a new one.

### Bounds

Two domains: calls for one domain must not touch the other, and a run or a pass
must go on from one to the other; domains interact only through the list. Two
callers: every race here is between two read-then-write sequences, and the
daemon is a third actor in the runs that have it. Two SAN lists, the empty one
and another, tell whether SANs are kept. `MaxFaults` (1 or 2) bounds the
failures: one is enough for each finding. With two in AccountShared the answer
of a write and that of the registration are both lost. `MaxSenders` 2 lets one
trigger find the channel full. Runs about one record and its copies need one
domain. In FetcherArrives one domain has two certificates, as a mismatched pair
needs, of which the second is listed under the name of the other domain, and
three changes (`MaxChanges`) replace a certificate between its reading and its
key's, replace it back, and disturb the other domain; any store may be found at
the start, so no change is spent on reaching one. TransferRestore has one
goroutine: two requests that overlap are the subject of the Store runs, and
beside a transfer the daemon is the second actor. Its backend is the filesystem,
whose adds take three steps; its requests are adds and soft deletes, since a
hard delete only leaves less to restore. Four keys in AccountShared are two for
the instances and two to spare. Symmetry is used in no run: the state counts do
not need it, and it is not sound for the liveness runs.

### Fairness

`Fairness` of AcmeStore: weak fairness of the daily tick (`time.Ticker`), of
every step of a run and of every handler's steps. The Go scheduler runs each
goroutine; that an order ends is an assumption, because the code sets no timeout
(`acme.go:72` says so in a TODO). Clients, `Age`, refusals and failures get no
fairness. `FairSpec` of Lifecycle: weak fairness of the initialisation, the
daemon and the senders, and strong fairness of the two acquisitions of the
mutex, which `sync.Mutex` gives by handing the lock to a waiter of more than
1 ms. The daily tick has none there: a trigger must be served without it.
`FairSpec` of Account: weak fairness of each instance's steps, for the retry loop,
the ticker, and the answers of store and CA; dying has none, and
`KeepsOrdering`, like `ManagedRenewed`, excepts a process that dies again and
again. `FairSpec` of Fetcher: weak fairness of the steps of a pass as a whole; the
daemon mode makes a pass at every tick, every request has a timeout of 30 s, and
a process that stopped is started again. Stops and failures are bounded, the
changes of the store have no fairness.
CHECK_DEADLOCK is never switched off.

## Proofs

TLC checks the instances above; the following hold for every value of the
constants, from the ASSUMEs of the modules alone.

**KeystoreProofs**
- `TypeCorrect`: `KeystoreSpec => []KeystoreTypeOK`. The invariant is inductive
  as it stands; there is a lemma per action.
- `NoDuplicatesAlways`: `KeystoreSpec => []NoDuplicates`. `NoDuplicates` speaks
  of the stored list and of the list that each Vault call is about to write
  back. The second half is what makes it inductive: a stale list may be written
  over a newer one at any time, so it has to be free of duplicates by itself.
- `LockedBackendsKeepPromise`: for the memory and the filesystem backend,
  `KeystoreSpec => KeepsPromise`, the refinement of `ManagedDomains` for any
  number of callers, domains and failures. Initial states map to initial
  states; the list step of a call maps to the abstract add, removal or refusal,
  the steps on the record and `StoreRecord` and `DeleteRecord` to stuttering.
  The invariant that carries it is that a call's stage fits its operation. It
  is false for Vault, which loses updates.
- `LockedBackendsUnlist`: for the same two, `KeystoreSpec =>
  OnlyItsRemovalUnlists`, by the same invariant: what KeystoreVaultReadError shows
  is Vault's alone.

**AcmeStoreProofs** (handlers and daemon over the keystore, in every backend, with
failures and crashes)
- `StoreTypeCorrect`: `Spec => []TypeOK`.
- `StatusTells`: `Spec => []StatusTellsPem`, with any overlap. Records are read,
  carried about and written back by calls, requests and runs, so the invariant
  is about every copy (`CopiesGood`): the stored ones, those that a call or a
  request is about to store, and the run's.
- `OrdersNeeded`: `Spec => []NoNeedlessOrder` where no two requests overlap with
  each other; the daemon may overlap with one. Between the daemon's look and its
  order only a write can make a certificate fresh, and no copy in flight is fresh
  where the store is not (`OneInv`). With two requests this is false: a soft
  delete may put back a copy of a fresh certificate that another request deleted.
- `RunsKeepFresh`: `Spec => DaemonKeepsFresh` in the same regime, by the same
  invariant. A run writes whole records back that it read before an order; the
  record it holds is never older than what came between, except where that is no
  certificate that is not due.

**AgreementProofs** (the service with one request or run at
a time, no failures and no crashes: `Undisturbed`; TLC refutes
`ListAndRecordsAgree` and `RecordForListed` when any one of the three is given
up, by an overlap, a lost write or a crash between two of the steps)
- `AgreementUntilFailure`: both properties for as long as no request to the store
  has failed, however many may. The invariant below is proved under `faults = 0`;
  the step that fails leaves it and need not be followed further.
- `UndisturbedAgreement`, `UndisturbedRecords`: `ListAndRecordsAgree` in every
  backend, and `RecordForListed` in those that store placeholders. The two
  properties speak of moments of rest, so the invariant `Agreement` says what
  holds in between: a domain that no request works on has its flag and its record
  right (`Settled`), and for each stage of an add, a removal and a soft delete,
  what is already written and what the call or request is about to write makes
  it right.

**SansProofs**
- `SerialSans`: `Spec => IssuedWithSans` for one request or run at a time on a
  Vault that answers, through any crashes. The run holds the SANs of the list
  (`SansCopied`), nobody changes the list under it, and the list has one entry
  for the domain.
- `StoreNoDuplicates`: `Spec => []NoDuplicates` for the whole service, with any
  overlap, failures and crashes.

**TransferProofs** (export and import beside everything else). Except for the
types: no two requests or transfers at a time (`~Overlap`), the daemon beside
them, imports of new domains only (`RestoreOnly`), any backend, any number of
failures, and the loss of the store at any moment.
- `TransferTypeCorrect`: `TransferSpec => []TransferTypeOK`, in every regime. A
  file of an import is a partial function over the domains; what an import has
  still to store or to add is in its file (`TodoInFile`).
- `RestoresAgree`: `TransferSpec => []AgreesAfterImports`. It follows from
  `Agreeing`: while an import goes on the domains that it has still to add are
  open (`Open`), all others agree as in AgreementProofs; an open domain is not in
  the list, its record has the flag that it has in the file (`SameFlags`,
  `ToBeAdded`), and the file agrees with itself (`FileAgrees`), so adding the
  domain closes it.
- `RestoresOrderNothingNeedless`, `ImportsRestore`: `NoNeedlessOrder` and
  `SuccessRestores`. Both hold in spite of failures. `Kept` says who is active,
  that no list write loses a domain, and that the domains and the records that an
  import has put back so far are there (`Restores`). It needs `NewDomains`: while
  the records are stored their domains are not in the list, so that the run does
  not touch them. `Younger` adds the files and the certificates: a record that has
  been put back and that no failure has struck is not torn and is at least as
  young as in the file (`BackWhole`), and so is every copy of it that an add or
  the run is about to store over it (`CopiesYoung`); a placeholder replaces only a
  record without certificate (`Solid`). The failures that strike a record are in
  `spoiled`, and nothing else is.
- TLC refutes each with less. With `Overlap`, a domain is deleted after the run has
  looked at it and restored before the order (`NoNeedlessOrder`), and
  `SuccessRestores` falls to a second request. Without `RestoreOnly` an unmanaged
  record replaces that of a listed domain, a certificate comes back under a run
  that has found none, and the run marks its order as failed in a copy that is
  older than what the import stored. With {} for `spoiled`, `SuccessRestores`
  falls to one failure. On Vault one failed read of the list makes a later write
  lose the domains added before it (`SuccessRestores`), and four failures together
  lead to a needless order; hence the two theorems assume `Backend # "vault"` or
  no failures. `RestoresAgree` speaks of the time before the first failure and
  needs no such assumption.

**AccountProofs**
- `TypeCorrect`: `Spec => []AccountTypeOK`.
- `AccountsNeverLost`: `Spec => []AccountsKept` for any finite set of instances.
  The inductive invariant counts: the keys ever written and the constructors
  about to write one are together no more than the instances (`OneKeyEach`),
  because a constructor that starts after the first write finds a key
  (`NeverStored`). What is registered was stored (`OrderedAsStored`), and the
  stored key is one of those written, so fewer than all are lost.

**LifecycleProofs**
- `TypeCorrect`: `Spec => []TypeOK`, with a trigger channel that holds 0 or 1.
- `OrdersSafe`: `Spec => []OrdersHaveKeystore`. By itself it is not inductive:
  one has to know that whoever is inside a critical section holds the mutex,
  and that `ks` is half written only inside one. `MutexInv` says so.
- `ConnectionStays`: `Spec => StaysConnected`. A constructor that returned no
  error is not run again: the retry loop starts over only from nil.
- `TriggersKept`: `Spec => []NoLostTrigger`.

**FetcherProofs**
- `TypeCorrect`: `Spec => []TypeOK`. The invariant includes that a pass works
  through managed domains and writes only certificates that it was offered.
- `ExitCodeTells`: `Spec => SuccessTells`, whatever names the certificates are
  listed under. A domain's record and its key file hold only what was issued for
  the domain (`OwnKeys`), although the map may give it the certificate of another
  one. The certificates are read first and the keys later, so the invariant
  follows the keys that the API has had in between: that of every record as it is
  now and that of every certificate read are among them (`KeysServed`), and so is
  the key about to be written (`NewKeyServed`), after its certificate
  (`CertWritten`). What the theorem promises of all domains holds already of those
  dealt with, as long as there was no error (`Settled`). It does not promise that
  the two files are a pair: that is false, as the divergences above say.

Only model-checked are `FreshKept`, `RecordOnlyForListed` and
`RenewedOnlyWhileListed`, which with requests one at a time say little more than
that the handlers and the daemon work (the run is the base line of the violations
with an overlap), and the liveness properties (`ManagedRenewed`,
`RemovedLeftAlone`, `TriggerServed`, `Recovers`, `Arrives`, `OneAccountInTheEnd`,
`KeepsOrdering`: liveness under fairness is out of the prover's reach). Every
other property of a passing run is stated by a theorem whose assumptions the run
satisfies.

## Not modelled

Reading handlers, health check, version, configuration, logging, the web UI, PEM
and X.509 parsing, file names and the DNS solvers change no state of the service.
A crash in the middle of a write is a torn write followed by a crash. Lifecycle
has one process; two instances on one Vault are two callers of `Keystore`.
`Fetcher` stands beside the service, not composed with AcmeStore: it sees of the
service only the API, and `StoreChange` over-approximates what the API shows.

In Transfer a crash always loses the store; crashes that leave it are in
AcmeStore. The ACME protocol behind an order (authorisations, DNS challenges,
polling) is code of a library: an order is one step that succeeds or fails.
The search for the leaf in a chain and the 21-day test are loops over data
without state.
