# TLA+ models of the self-hosted delegated execution platform

This directory models the parts of the platform whose correctness depends on
interleavings, failures and restarts: the call and the prepaid money that
follows it, the billing store's transactions, the snapshots that carry the
state across a restart, the relay between platform and devices, and the
services around a call (catalog, accounts, review tests, event list, artifacts,
alerts, console gateway). TLC checks the models on small instances, and TLAPS proves
the most important safety properties for every value of the constants.

`PROJECT.json` lists, for each module, which lines of the code each definition
stands for, every run with the properties it checks, a mutant of the code that breaks each
property, the disagreements found, the hazards, and the theorems.

Paths below are relative to the repository.

## 1. Inventory

### 1.1 Components

| component | state | operations | talks to |
|---|---|---|---|
| call lifecycle and billing, `apps/platform-api/src/server.js` | `state.requests`: per call its caller, contract version, `billing` record and event list | token issue with a hold, delivery-meta, ack, events (COMPLETED, FAILED), reconcile, expiry, operator close | billing store (awaits), snapshot store (awaits), responders and callers over HTTP |
| call timeline, same file | the event list again: progress, soft timeouts, capped history | progress observations with dedupe and a budget of their own, `projectExecutionState`, batch and single reads | the call lifecycle (same list) |
| billing store, `packages/billing-store` | PostgreSQL: `tenant_balance`, `tenant_quota_window`, `tenant_balance_ledger`, `tenant_recharge_request` | `createTenant`, `applyBalanceDelta`, `getBalance`, `getLedger`, `createRecharge`, `migrate` | called by the API's handlers, many transactions at a time |
| snapshot store, `packages/postgres-store` | PostgreSQL: one row of JSON for a service (no key enforces "one") | `saveSnapshot`, `loadSnapshot`, `migrate` | called after every change; read at startup |
| relay queue, `apps/transport-relay/src/server.js` | messages by receiver, each with a lease | send, poll (claims), peek, ack, in memory or in sqlite | responders and callers poll it; the API enqueues through `relay-http.js` |
| relay authentication, `apps/transport-relay/src/auth.js` | none | token parsing and comparison | relay queue |
| catalog, review and contract versions, `server.js` | `catalog`, `hotlineVersions`, `submissions`, `reviewTests` | submit, review test, approve, reject, enable, disable, retire; content-addressed versions | token issue pins a version; resolution filters the catalog |
| resolution and availability, `server.js` | none (a filter and a sort) | candidates for a service request | catalog, heartbeats |
| artifacts, `server.js` and `packages/artifact-store` | `artifacts` (grants, checksums, states), bytes on disk or S3 | grant, upload, commit, download | call lifecycle |
| accounts, credentials, responders, `server.js` | `users`, `apiKeys`, `responders` | register, rotate a key with a grace period, heartbeat | every handler's authentication |
| operator alerts, `apps/platform-api/src/alerts.js` | `state.alerts`: the tracked problems | a timer's pass: diff with the attention feed, deliver by webhook with retries, repeat, resolve | reads the calls; external webhook |
| rate limiter, `server.js` | timestamps per key | allow or refuse | request dispatch |
| console gateway, `apps/platform-console-gateway` | sessions, unlocked secrets, a passphrase in memory | setup, login, logout, rotate, proxy | the platform API |
| console UI, build info, backup scripts | none the others depend on | | |

`@delexec/contracts`, `@delexec/runtime-utils` and `@delexec/sqlite-store` are
packages of other repositories; only their use here matters.

### 1.2 How they interact

The API is one Node process. A handler runs without interruption between two
awaits; at each await on the billing store, on the snapshot store or on a
request body, every other handler may run. There are no locks in memory. What a
handler read before an await may therefore be wrong after it, and the order of
"check, move money, record" is the whole of the billing logic.

Two stores keep what survives: the billing store commits money at once, the
snapshot store saves everything else, in a separate transaction, when a handler is
about to answer. No code reconciles the two after a crash.

The billing store is used by many connections at PostgreSQL's default isolation
(read committed), where another connection's statement may run between any two
of one transaction.

### 1.3 What is hard, and what makes each part correct

* **Call lifecycle.** *Hard*: two reports of one call at once; a report beside
  an expiry or a close; a token issued again while the first hold is awaited or
  being refunded; a store call failing halfway through a settlement; a crash
  before the snapshot. *Correct when*: the ledger has taken exactly what the request
  objects say; no hold is given back twice; a settled call stays charged; a
  closed call keeps nothing; an expired hold is eventually released; all tokens of a call
  name one contract and one owner, and a restart knows what they were bound to.
* **Billing store.** *Hard*: two movements of one tenant, two recharges with one id,
  a window rolling over while a transaction waits, clocks that disagree, lock order.
  *Correct when*: operations are atomic, the ledger is the
  history of the balance, the balance never goes below zero, a recharge id gives credit once, usage equals
  what was spent, nothing deadlocks.
* **Snapshot store.** *Hard*: saves that interleave in a table without a key; a
  state serialized at two moments (the objects of the entries when the save is called for, their
  contents when it is written), so that an object that was replaced meanwhile is saved as it was. *Correct when*: a restart loads what clients were told.
* **Call timeline.** *Hard*: the cap drops an event that a later duplicate check or
  projection needs; an ACK after the end re-opens the projection. *Correct when*: lifecycle events
  survive telemetry, and a repeated report is a duplicate.
* **Relay queue.** *Hard*: a lease expires and the late ack arrives; a message is
  enqueued again while leased; a restart while leases are out. *Correct when*: a copy of a message has at most
  one live claim, is deleted only by who holds it, and comes back when its holder dies.
* **Catalog.** *Hard*: resubmission while calls are pinned; approval racing a
  resubmission; keys rotated around a retirement. *Correct when*: a published version never changes, only
  approved content is published, and callers are given a key the device is known by.
* **Accounts.** *Hard*: a revoked key meets a later submission, or a snapshot. *Correct
  when*: it never authenticates again, and there is one admin key.
* **Review tests.** *Hard*: any step of a background job fails, its saves too; two
  jobs share a request id. *Correct when*: every test gets a verdict, and the audit trail ends with the same one.
* **Artifacts.** *Hard*: bytes replaced while an upload is awaited; a crash between
  bytes and record. *Correct when*: a committed checksum describes the stored bytes.
* **Alerts.** *Hard*: state changed before a delivery that fails; a restart.
  *Correct when*: the receiver learns of every problem that stays.
* **Gateway.** *Hard*: a session checked before a body is awaited and used
  after it. *Correct when*: what is unlocked in memory is what the store on disk holds.

The full list, each item at its line, is under `hazards` in `PROJECT.json`.

## 2. Plan

Modules are ordered by what a mistake would cost.

1. `CallBilling`: calls and money, handlers split at their awaits. **Done.**
   `CallBillingProofs`: types, conservation, what a call is bound to, whose tokens
   they are, closes and settlements. **Done.**
2. `BillingStore` implementing the abstract `BillingAccount`; **done**, with
   `BillingStoreProofs`. It justifies that `CallBilling` treats a store call as
   one atomic step.
3. `SnapshotStore`, implementing the abstract `KeptState` while saves do not overlap;
   **done**, with `SnapshotStoreProofs`. It says when
   `CallBilling` may treat a save as one atomic step.
4. `TransportRelay`, memory and SQLite store; **done**, with
   `TransportRelayProofs`: one live claim, deletion only by the holder.
5. `CallTimeline`, `HotlineCatalog`, `Accounts`, `ReviewTest`, `ArtifactChannel`, `AlertLoop`,
   `GatewaySession`, composed for TLC in `MCPlatformServices`: **done**, with
   `CallTimelineProofs`, `HotlineCatalogProofs`, `GatewaySessionProofs`, and
   `PlatformServicesProofs` for the accounts, the review tests, the artifacts and the alerts.

Every safety and action property of a passing run has its theorem (section 4). What is left: the
hazards listed without a property in `PROJECT.json` (chiefly a crash between the ledger and the
snapshot, for which the code has no answer to check), and the environments
of the conditional theorems, which are as wide as the violation runs allow but
are not shown to be the widest.

## 3. What is modelled

### 3.1 CallBilling: calls and money

| variable | code |
|---|---|
| `req` | `state.requests`; `billing`, `hotline_version`, `caller_id`, and of the event list what the code reads back: the deduplicating events (`seen`) and the projected execution (`exec`) |
| `version` | the newest published version of the call's hotline |
| `saved` | the snapshot row |
| `act` | the handlers in flight: at which await each one stands, and what it read before it |
| `balance`, `paid` | the billing store: the balance, and the net of the ledger rows of a call |
| `tokens` | tokens answered to clients |

Each action is the code between two awaits, or one store transaction. A token
issue is `IssueStart`, `CheckBalance`, `StoreHold`, `Mint`, `Save`; a report, a
reconciliation, an expiry or a close is its first half, then `StoreRefund`, `StoreDebit`
(settlements only), `Resume`, `Save`. `StoreFails` is any of these store calls
rejecting; it is taken to have moved nothing. `Lapse`, `Publish`, `OtherSave`
and `Crash` are time, another handler's publication, another handler's save,
and a restart.

Abstractions: one responder and one hotline per call; usage is at most the hold
(`validateBillingUsage` refuses more); `expireHeldBillingForTenant` is a
sequence of `Expire` steps; `charged` and `paid` are bookkeeping the code does not keep as
such (they add up ledger rows and `actual_amount_cents`).

Environment constants choose what may happen: `Overlap` (which operations may be in
flight together on one call), `StoreFaults`, `Crashes`, `ClientClock`
(`GET /v1/tenants/me/balance` takes `now_utc` from the query, so a hold may
expire at any time). This is how a run or a theorem states precisely under which
concurrency a property holds, and the violations show that it does not hold beyond.

| run | environment | shows |
|---|---|---|
| `billing_serial` | operations that move money on one call take turns, except that an issue may overlap a release; every store call may fail but the settlement's second | `Conserved`, `NeverOverRefunded`, `OneOwner`, `SettledStays`, and that `Accounting` is a true strengthening |
| `billing_overlap` | a responder's report may overlap any other release; fair | `ClosedHoldsNothing`, `OnlyDeliverySettles`, `LapsedIsReleased` |
| `billing_crash` | everything overlaps, crashes, republication | `TypeOK` (no negative balance), `VersionPinned`, `AnsweredIsSaved` |
| `billing_reconcile_twice` | a reconciliation beside itself | **violated** `NeverOverRefunded`: one report delivered twice refunds twice |
| `billing_hold_twice` | an issue beside itself | **violated** `HeldOnce`: one request id holds twice |
| `billing_stranded` | refunds may fail | **violated** `StrandedIsNoticed`: a closed call whose refund failed keeps its hold and the attention feed does not show it |

Bounds: one call, two handlers (every property is about one call, and every race is a pair),
prices up to 2 with a deposit of 2 so that a second hold can be
unaffordable, two versions. `BalanceCap` bounds what a repeated refund could
give back; it is never reached where refunds are not repeated. The runs without crashes hide the
snapshot from the fingerprint (`VIEW WithoutSnapshot`): nothing reads it there.

Fairness: a handler waiting for a store gets its answer (`WF` on `Continue`; the
process keeps running), and an expired hold is polled again and again (`SF` on
`Expire`): clients read events, balance and ledger, and each read runs the
expiry. No timer does it, so without polling nothing is released.

Known limits of the claims. `Conserved` needs turns: with two releases
at once it fails as the violation runs show. A failing debit after a
successful refund leaves the call held, and a retry refunds again. A crash between a
ledger commit and the snapshot, or a close and a crash, can leave the two out of
step; the code has no reconciliation and the model claims nothing there.
`OneOwner` holds only while issues of one call take turns.

### 3.2 BillingStore and BillingAccount: transactions on accounts

`BillingStore` has one action per statement. `tx` says at which statement each connection
stands and what it has read; locks are derived from it: a transaction that
selected the balance row `FOR UPDATE` holds it until it ends, likewise the
windows it has gone through, likewise the key of a recharge it has inserted. What a
transaction writes is worked out from what it has read and appears at `Commit`. `Fail`
is any statement or connection failing. `CreateTenant` is atomic: both of its inserts ignore an existing row.

Days stand for time. `nowUtc` of a movement is the server's clock when it was called;
balance queries, recharges and new tenants may bring a day of their own (`ClientDays`), as the
API allows.

`BillingAccount` is the promise: balance, ledger and recharge ids changing in
one step. `Implements == Account!Spec` is its instance with the balance of a
tenant that does not exist yet as 0. A transaction's COMMIT is the account's
step, everything else stutters.

| run | shows |
|---|---|
| `billing_store_locks` | three connections, two tenants, one recharge id that both tenants may bring, holds against a balance that affords two of them: `Implements`, `Locking`, `CasNeverMisses`, `NoCircularWait` |
| `billing_store_days` | two connections, one tenant, three days in two months, a client whose clock is ahead: `UsageIsSpending`, `WindowsForward`, `ReadsOneMoment` |

`CasNeverMisses` means that the retry loop around the UPDATE never runs a second time: the row lock already
excludes what the version check looks for. The retry is modelled all the same.

Bounds: the question of the locks does not depend on days, and the days' not on
other tenants, hence two runs. `MaxRows` bounds the rows present when an operation
begins; operations in flight can exceed it, so a run with 2 has ledgers of up to four rows.

### 3.3 SnapshotStore: saving and loading

`saveSnapshot` statement by statement: DELETE sees the rows committed before it
starts, waits for whoever is deleting one of them, and does not see the row that
one inserts. The table has no key, so two overlapping saves leave two rows, and
`loadSnapshot` takes the first it is given. `serializePlatformState` lists the objects
of the entries when it is called, and `JSON.stringify` reads them before the INSERT. A save therefore
misses entries made meanwhile, has the later edits of objects changed in place (`Edit`), and keeps
the old object of an entry that was replaced or taken out (`Replace`: `Map.set` of a catalog item, template,
submission, API key or review test, and the deletion of a revoked key). `Contents(w)` is what save `w`
would write now, and `Replaced` the entries that can be replaced; requests,
users, devices, versions and artifacts keep their object.

A state is abstracted to a number of edits per entry. `answered` is what clients have
been told. Run `snapshot_store` (two entries, one of which can be replaced, two edits of each, two saves
at a time, rollbacks, restarts):

* `SavesAreAtomic`: while saves do not overlap (`apart`), every step of the statements is a step of
  `KeptState` or a stutter: a save happens whole, at its COMMIT, keeps no entry older than before
  and none that memory does not have, and a restart loads what was saved last and takes back no
  answer. `saved` is mapped to the only row there is, or to the empty state;
* `AnsweredLoads`: while saves do not overlap, whatever a restart loads has every answered edit;
* `KeptOrForgottenWhole`: overlapping saves may leave a row without an entry
  that a client was answered for (a save called for before the entry existed
  has replaced the row of a later one), but never only rows with an older edit of it. This is of
  entries whose object is kept. Of a replaced one an older edit can be left alone: a save that
  listed the old object and commits last, having found the row of the newer save, takes that row away;
* `SavesEnd`: no save waits for ever. Fairness: the database executes what it
  is sent (`WF`), and row locks are granted in turn (`SF` on `Lock`).

`CallBilling` saves atomically. `SavesAreAtomic` justifies that as long as snapshot
transactions do not interleave; what happens when they do is what the other properties show. In
particular, `AnsweredIsSaved` of `CallBilling` is about a process that saves one snapshot at a time.

### 3.4 TransportRelay: messages under leases

| variable | code |
|---|---|
| `deployment` | the configuration, chosen at the start and fixed: SQLite or memory, credentials or none, the visibility timeout |
| `queue` | the stored messages of each inbox, by message id: `lease_id`, what is left of `lease_expires_at`, the place in the queue, and `copy`, which tells two sends of one id apart |
| `claims` | per client, what polls handed it and it has not settled: external to the relay, as `relay-http.js` and the devices use it |
| `token`, `secret` | the receiver token a client presents; `RELAY_TOKEN_SECRET` |

`Send`, `Poll`, `Ack`, `Mint` are the routes, each with its authorization
(`Resolved`, `Allows`, `IsAdmin`). The stores are synchronous, so a handler is one
step. `Poll` takes the first `limit` visible messages, in the order of the store;
its answer may be lost, which leases the messages to nobody. `Ack` may be repeated
and its answer may be lost; a client of `Leaseless` names no lease. `Restart` keeps the
SQLite file and forgets memory, perhaps with a rotated secret. `Tick` runs leases and tokens down.
`InUse` lets a lease id be drawn again once nothing of the message refers to it; ids
are random in the code and only ever compared with the id of their own message.

Run `relay` has two `Deployments`: SQLite behind tokens
(one message sent twice, two clients, a visibility of two ticks so that a lease can be
half gone, tokens that expire, two secrets), and an open memory store (two messages and polls for two, so that
a batch shares a lease). `OneLiveLease`: two clients never work on one
copy under live leases. `OnlyHandledIsDeleted`: a message goes only by who was handed this very copy and
still holds it. `LeaseRunsOut`: a leased message comes back or is deleted, under the only assumption that
time passes (`WF` on `Tick`).
Two clients and two sends are the smallest case of "a late ack against a newer
claim or copy"; the theorems are about any number.

### 3.5 The services of `MCPlatformServices`

The modules below share no state, so one run explores each by itself: `part`
chooses at the start which service moves. It is a sum of seven state spaces, and no
claim is made about their interaction.

**`HotlineCatalog`** (`responder`, `item`, `versions` = `state.responders`, `catalog`, `hotlineVersions`).
`Submit` is the whole of `submitCatalogHotline`: who may submit, takeover of an
device whose owner is no registered user (`Registered`) or by its public key, reset of reviews when device or contract changed, the key copied into the item.
`SubmitRefused` is a submission refused for its content after the ownership was changed. The operator's
routes, `RotateSigningKey`, `Heartbeat`, retirement, and `BindCall`, which publishes when
a call is bound to an item without a version. `Candidates` is the filter of service
resolution. A contract is one value that stands for the fields its digest covers. `agreed` is
history: what an operator approved. Checked: `VersionsFrozen`, `OnlyApprovedIsPublished`,
`ItemKeyIsKnown`. One hotline and one device, two owners, one of them registered (both takeovers and the refusal), two
keys, three contracts (one incomplete), two submissions: every property is about one item, and a second
submission is what resets the first; the initial states include a built-in item without a version.

**`Accounts`** (`db` and `saved` = users, responders and `apiKeys` in memory and in
the snapshot). Every route that changes a key or a role; `SubmitAgain` is what a
submission does to the key of a device that exists; `Restart` loads the
snapshot and applies the configured admin key. Keys are drawn once (`minted`).
Checked: `RevokedStaysOut`, where a key counts as revoked once the handler's save was
answered, and `OneAdminKey`. A save is one step: that an overlapping save which listed a key before
its revocation could bring it back is a matter of 3.3, and outside `RevokedStaysOut`. One user, one device and three keys allow a rotation of
each and a revocation.

**`ReviewTest`** (`test`, `stage` = `state.reviewTests` and where each background job
stands; `inbox` = the relay as the job sees it). The job is split at its relay calls and saves, with its `catch`; every call may fail,
a failed save in the `catch` ends the process. Two tests may
use one request id, so that one acknowledges the other's result. Checked: `TestsEnd` (under fairness of the
event loop and the deadline, `WF` on `Job`; the device owes nothing) and `AuditEndsWithVerdict`. Two
failures are enough for a step and the save of its handler.

**`CallTimeline`** (`events` = `request.events`). Every operation that appends, with the duplicate
test it makes; the platform's own FAILED of an expired hold (`Expired`) is another row than the responder's, whose late
FAILED is still appended; `Capped` and `WithProgress` are the two caps, `Execution` is
`projectExecutionState`, `Stuck` the test of stuck calls. A handler that awaits the ledger is `busy`;
the ledger answers or fails. Checked: `NothingRunsAfterTheEnd`, up to a cap of three events and one
progress row (200 and 50 in the code), which every interesting list reaches.

**`ArtifactChannel`** (`record` and `kept` = the artifact in memory and in the snapshot, `bytes` = the file).
An upload is `BeginUpload` (checks), `StoreBytes` (body, write, rename), `Observe`, `FinishUpload` (save, answer), and may be
refused or broken off (`RefuseBody`). A commit is `BeginCommit` (checks) and, when its body is there, `Commit`, which
compares the checksum with what is observed by then. `GrantExpires`; `Crash`. `Patient` is the sender's discipline:
one request at a time, and a commit only of what was answered. `ServedAsCommitted` holds for such a
sender over any crash; run `artifact_overlap` shows that it does not without it.

**`AlertLoop`** (`tracked` = `alertState.tracked`; `fire`, `resolve` what the pass still
has to deliver). A pass changes what is tracked first, delivers one notice after the other, saves; deliveries and saves
may fail (twice in a run), other handlers save in the middle, the process restarts. `open` (what `buildAttentionItems` finds) is an
input. Checked: `ProblemIsTold`, under fairness of the timer (`WF` on `Progress`) and of the renotify window (`WF` on `GrowOld`).

**`GatewaySession`** (`vault`, `secret`, `plain` = the disk; `session`, `passphrase`,
`unlocked` = the runtime in memory; `waiting` = requests let in whose body is awaited). `Look` is every request
that only asks for the session, which prunes expired ones; `LetIn` is the check, `ChangePassphrase` and `PutCredentials` what
happens after the body has come, `Refused` their error paths. Checked and proved:
`UnlockedIsCurrent`. Two passphrases, two sessions, two waiting requests: a request that waits over a recovery or over another's change.

The modules are extended, not instantiated, so a run and a theorem speak of one and the same
definition; each module's `ASSUME` (`CatalogAssumption`, ...) is evaluated by the run.

## 4. What is proved

TLAPS checks these for any number of calls, callers, handlers, tenants, connections, savers,
users, devices, hotlines, tests, uploads and amounts (the modules' named assumptions say only that the
constants have their kinds). Where a theorem has a hypothesis of its own it is named; each is an
environment one of the runs has, and where the code breaks a promise outside of it, a violation run
shows how:

| theorem | hypothesis | outside of it |
|---|---|---|
| `NoOverRefund` | `TakesTurns` | `billing_reconcile_twice` |
| `OneHoldAtATime` | `TakesTurns` | `billing_hold_twice` |
| `AttentionListIsComplete` | no refund fails, no crash | `billing_stranded` |
| `PatientSenderServed` | `Patient` | `artifact_overlap` |

`TakesTurns` says: no two issues, and no two operations that release or settle, overlap on one
call; the debit of a settlement does not fail after its refund; no crash.

**`CallBillingProofs`**
* `TypeCorrect` (`TypeOK`): by itself inductive. It includes that no balance is
  ever negative, which rests on the store's check at the moment of the move and not on the handler's.
* `ConservationOfMoney` (`Conserved`), `NoOverRefund` (`NeverOverRefunded`),
  `SettlementIsFinal` (`SettledStays`) and `OneHoldAtATime` (`HeldOnce`), assuming `TakesTurns`.
  `Conserved` says nothing while a handler is between check and record, so it is not inductive;
  `Accounting` (`WhatWasReadStillHolds`) adds what such a handler knows: the call is still held by the
  same tenant for the same amount (or, for an issue, not held), and the ledger
  differs from the request object by exactly the money that handler has already
  moved. That nothing is recorded over a settlement follows, because
  whoever records a release has seen the hold it releases. `HeldOnce` needs
  also that an amount held, live, saved or on its way, is one price
  (`PricesHeld`, without hypothesis).
* `BindingsHold` (`Bindings`), `ContractIsPinned` (`VersionPinned`) and `TokensSurvive` (`AnsweredIsSaved`),
  with no assumption on overlap, faults or crashes. `Bindings` says that memory
  is never behind the snapshot in a call's binding, and that an issue in flight
  carries the version its call is bound to.
* `TokensHaveOneOwner` (`OneOwner`), if two issues on one call never overlap; everything else
  may, and may fail or crash. `Ownership` adds the snapshot (a restart must find
  the same owner) and the issue that has minted its token and awaits the save.
* `ClosedGivesBack` (`ClosedHoldsNothing`) and, from it, `AttentionListIsComplete`
  (`StrandedIsNoticed`), if no refund fails and nothing crashes, whatever overlaps.
  `CloseRefunds` names who brings the money back: the handler of the close itself.
* `SettlesOnDelivery` (`OnlyDeliverySettles`), without crashes: a delivery in
  flight carries a COMPLETED report (`Tagged`).

**`BillingStoreProofs`** (invariant `TypeOK /\ Locking`, proved one action at a
time; a step that writes nothing is handled by one lemma, `StepLocking`)
* `TypeCorrect`, `LockDiscipline` (`Locking`): a balance row and a recharge id have one
  holder at a time, and what the holder has read is what is there. Typing needs
  `Locking`: the balance written is non-negative because the one read is current.
* `UpdateNeverMisses` (`CasNeverMisses`).
* `StoreIsAtomic` (`Implements`): initial states map to initial states, COMMIT
  maps to a step of the account, every other step to a stutter.
* `WindowsOnlyAdvance` (`WindowsForward`).
* `BalanceAndUsageAgree` (`ReadsOneMoment`) and `NobodyWaitsForItself` (`NoCircularWait`): all
  operations take the windows in one order, so the first window decides who goes on to the others
  (`OneAtTheWindows`). Of any set of connections, the one that has come furthest in the order
  row, windows, recharge id waits for none of the set.
* `LedgerHasNoGap`: a promise of the account, proved once for its three steps and inherited through
  the refinement (`AccountStep`): whatever statements interleave, the rows of a ledger follow one another
  from an empty account to the stored balance. `RechargedOnce`: no two captured recharges have one id,
  since whoever commits one still holds its key.
* `UsageCountsSpending` (`UsageIsSpending`), from `UsageInv`: only what goes
  down is spending, a tenant without an account has an empty ledger, shorter windows count no more than longer
  ones, and the total is the sum over the ledger. The sum is a recursive function; that it is
  defined on every ledger, and grows by the row appended, is proved from the least
  length at which it would fail, since the library's induction cannot be used.

**`SnapshotStoreProofs`** (invariant `SavesInv`: types, no answer is ahead of memory, what a save has
found, would write and has written, that only replaced entries are in it apart from memory and none newer
than there, and that two saves never hold one row)
* `SavesTyped` (`TypeOK`).
* `EditsKeptOrForgotten` (`KeptOrForgottenWhole`). The property speaks of the disk, and what saves about
  to commit will leave there depends on which of them do: `KeptInv` says it for every subset of them, each
  of which leaves for every answered entry whose object is kept a row that has all its edits, or none.
* `AnsweredEditsLoad` (`AnsweredLoads`): a save that has met no other has found every row there is
  and, from its beginning, would write every answered edit (`AloneInv`), since what is replaced
  meanwhile is not answered yet.
* `SavesHappenAtOnce` (`SavesAreAtomic`) and, from the same step, `StoreKeepsItsPromise`: a platform whose
  saves never overlap implements `KeptState`. The mapping needs that there is one row, that memory
  has all of it, and that what a save would write is never older than the row it replaces, although it
  leaves out the entries made since it was called for and has the old objects of those replaced (`KeepsInv`).

**`TransportRelayProofs`** (invariant `RelayInv`)
* `RelayTypes` (`RelayTypeOK`), `NoSharedWork` (`OneLiveLease`), `LateAcksAreRefused`
  (`OnlyHandledIsDeleted`). `OneLiveLease` alone is not inductive: it does not say why a poll
  cannot hand out what somebody works on. `InStep` does: while a claim is
  alive and its copy is the stored one, the record is leased for exactly as long; and a record that
  carries the claim's lease id is the claim's copy. `Numbered` says that a new send has a number no claim has.

**`HotlineCatalogProofs`** (invariant `CatalogInv`, per hotline `HotlineOK`)
* `CatalogTyped`, `VersionsNeverChange` (`VersionsFrozen`), `PublishedWasApproved`
  (`OnlyApprovedIsPublished`), `ItemKeysAreKnown` (`ItemKeyIsKnown`). An approved item's contract
  was agreed to, so whatever publishes it, an approval or a call's binding, publishes
  agreed content; the next number is past every one held, and there are at most as many versions as submissions and one.

**`PlatformServicesProofs`**
* Accounts: `AccountsTyped`, `RevokedKeysStayOut` (`RevokedStaysOut`), `OneAdminKeyAlways`
  (`OneAdminKey`). `RevokedStaysOut` is about memory; `AccountsInv` adds the snapshot
  a restart loads, that keys in use have been drawn (a new one was never revoked), and that
  a device names only a key that authenticates, or a later submission would bring a revoked one back.
  Handlers are composed of few operations on the state; `Follows` says what each may do and is transitive.
* Review tests: `ReviewTyped`, `AuditTrailAgrees` (`AuditEndsWithVerdict`): from the moment
  the job has audited its verdict, audit and record agree (`Audited`).
* Artifacts: `ArtifactTyped` for any sender; `PatientSenderServed` (`ServedAsCommitted`) for a patient
  one: while it has a request under way there is no other; during an upload nothing is
  committed and nothing answered, and a commit names what was answered last (`UploadAlone`).
* Alerts: `AlertsTyped`.
* The composition: `ServicesCompose` (seen from each service, a behaviour of `MCPlatformServices` is one of
  the service's own specification) and from it `ServicesTyped` (`TypeOK`).

**`CallTimelineProofs`**
* `NoObservationAfterTheEnd` (`NothingRunsAfterTheEnd`), for any caps: `Reopened` says by positions
  what the property says by prefixes, and every operation on the list appends one row and removes some.
* `TimelineIsBounded` (`TimelineTypeOK`): at most `ProgressCap` progress rows and `EventCap`
  others (`CapsInv`). Either cap alone says nothing of the sum, because progress rows
  bypass one and are not counted by the other.

**`GatewaySessionProofs`**
* `MemoryIsCurrent` (`UnlockedIsCurrent`) and `GatewayTypes` (`GatewayTypeOK`), together
  inductive; pruning is handled by one lemma, `PruneKeeps`.

Only model-checked: the five liveness properties (`LapsedIsReleased`, `SavesEnd`, `LeaseRunsOut`,
`TestsEnd`, `ProblemIsTold`), because TLAPS proves nothing from fairness. Only proved, and not
among the runs' properties: `Bindings`, whose consequences run `billing_crash` checks, the
account's `LedgerHasNoGap` and `RechargedOnce`, and the bounds and types of single services.

## 5. Where code and words disagree

* `POST /v1/requests/:id/reconcile` is described as idempotent per attempt, but its checks are not
  repeated after the refund is awaited (run `billing_reconcile_twice`).
* "the same request_id twice holds money once" is true one after the other, not at once (run `billing_hold_twice`).
* The attention feed is meant to list the funds still held on a call that ended, and leaves out
  canceled calls (run `billing_stranded`).

* "Committed bytes are immutable" and "a mismatch never becomes a delivered artifact": an upload
  let in before the commit may replace the bytes after it (run `artifact_overlap`).

Noted without a run, because the models abstract from what would tell, or because no document promises otherwise:

* The comment at `server.js:2275` says an unchanged contract keeps its version; a resubmission clears
  `published_version`, and the next approval publishes the same content under a new number.
* `SOFT_TIMEOUT` is an observation but is appended through `pushCapped`, so it may evict a lifecycle row, which the comment at
  2045 rules out for progress. Once an ACK or a terminal event has been evicted it may be appended again, and
  a call whose terminal event is evicted projects as running again.
* `RECONCILED` has no projected state, so a reconciled call that got no terminal event stays "executing" and
  is listed as stuck.
* `alerts.js:158-166` says silence is never ambiguous; the closing notice of a problem is sent once and may be lost.
* A restart resumes no review test: one that was running stays so. A failed save in the test's `catch` is a rejection nobody handles.
* Retiring a device empties its list of hotlines, and enabling it again makes them public without
  it; the attention feed's `device_unavailable` goes by the list and does not see them.
* A submission refused for its content has already changed the device's owner.
* After a change of passphrase the console says that all sessions have ended
  (`platform-console/src/pages/SessionPage.tsx:245`); `ChangePassphrase` leaves every session in place.
* A reset ends all sessions (`SessionPage.tsx:140`), but a request the gateway let in before it may still
  change the passphrase or the credentials after it. A recovery that fails between the store and the
  session leaves a passphrase in memory until the next pruning.
* Overlapping snapshot saves can leave two rows, lose a new entry, or leave the old object of a replaced
  one: an earlier submission, or an API key that was revoked meanwhile (3.3).

## 6. Not modelled

Listed with reasons under `components` in `PROJECT.json`. In short: the rate limiter is
a synchronous function; the console UI renders what the API answers; build info, backup and packaging scripts touch
nothing the program reads while it runs; the `@delexec` packages are not in this repository
and appear as the code here uses them. Of the billing store, `migrate` and
the read-only `getLedger` are left out, and the columns nobody sets
(`pending_credit_cents`, the responder's earnings, the windows' limits). Of the
catalog, review events, template bundles and the ranking among candidates; of the
alerts, the liveness ping, the test notice and what counts as a problem; of the gateway, the proxied calls and failing file
writes in setup and recovery; of the artifacts, the S3 backend and download grants. What the
services do to one another (a review test through the relay, an alert about a call) is not composed: each
sees the other as an environment.

## 7. Running

    tlc -workers 2 -config MCCallBillingSerial.cfg MCCallBilling.tla
    tlc -workers 2 -config MCBillingStoreLocks.cfg MCBillingStore.tla
    tlc -workers 2 -config SnapshotStore.cfg SnapshotStore.tla
    tlc -workers 2 -config MCTransportRelay.cfg MCTransportRelay.tla
    tlc -workers 2 -config MCPlatformServices.cfg MCPlatformServices.tla
    tlc -workers 2 -config ArtifactOverlap.cfg ArtifactChannel.tla
    tlapm CallBillingProofs.tla
    tlapm BillingStoreProofs.tla
    tlapm SnapshotStoreProofs.tla
    tlapm TransportRelayProofs.tla
    tlapm HotlineCatalogProofs.tla
    tlapm PlatformServicesProofs.tla
    tlapm CallTimelineProofs.tla
    tlapm GatewaySessionProofs.tla

Operators whose name has a suffix after an underscore (`Close_LeavesHold`) are
mutants: a plausible mistake in the definition that follows them. Each property
is violated when its mutant takes the definition's place. They are used nowhere
else.
