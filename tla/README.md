# MiniMaster: specifications of the core protocols

MiniMaster is a parental-control system: parent accounts ("masters"), child
devices with an Android or iOS app, and a Firebase backend between them. The
backend's callables, triggers and scheduled jobs (`src/src/*.ts`) run as
independent asynchronous invocations on one Firestore database. Only the body of
a `runTransaction` or the commit of a batch is atomic; between any two awaits
other invocations run, and an invocation may die at any of them. The apps'
coroutines and services interleave with each other and with the system that
kills them. That is what these specifications are about: what stays true of the
documents, and of the device that follows them, under every interleaving.

All paths below are relative to the repository's root, `src/` in
`PROJECT.json`.

## 1. Inventory

| Part | Code | State | Operations | Hard because |
|---|---|---|---|---|
| Pairing | `src/pairing.ts` | `pairingCodes`, `pairingTokens`, `children/{k}.masterImei`, `masters/{m}.subscription` | issue a code or link token; three linking flows; trial activation | credential read, link, trial and delete are separate steps; limits and subscription are read early and used late |
| Device control plane | `src/device.ts`, `src/triggers.ts`, `src/device-sync.ts`, Android `CommandSyncRepository.kt`, `RuleSyncService.kt`, `HeartbeatWorker.kt` | settings, `policyVersion`, `commands`, push endpoints, events, preferences on the device | set lock, blacklist, usage rules; numbered commands; push; fetch, apply, acknowledge; snapshot; register an endpoint, publish an event | events at least once and unordered; pushes and acks get lost; commands expire; two coroutines on the device |
| Tasks | `src/tasks.ts`, `src/triggers.ts`; `TaskRepository.kt`, `TaskMonitoringService.kt` | `children/{k}/tasks`; the phone's idea of the newest task | create, complete, approve, reject, photo analysis, pushes; monitoring, broadcasts, task lock | check, await, update; listeners add up and overtake each other |
| Offline policy | Android `HeartbeatWorker.kt`, `OfflinePolicyCache.kt`; iOS `CommandSyncService.swift`, `MainChildView.swift` | time of the last contact, policy in force, safe mode | heartbeat, snapshot, fetch, fall back to a full lock after 72 hours | overlapping flows, lost connections, suspension |
| Enforcement and screen time | `MiniMasterAccessibilityService.kt`, `ChildProtectionPolicy.kt`, `EventProcessingPipeline.kt`, `RuleSnapshotProvider.kt`, `BlockingOverlayService.kt` | rules stored and rules loaded, the app in front, pending decisions, the overlay; counts of the day | follow the app in front, compare limits, hours and blacklist, cover the screen; count, save, report | rules change under the app in front; decisions wait for the network; kills and midnight |
| Subscriptions | `src/subscription.ts` | `masters/{m}.subscription`, `purchase_tokens` | verify a purchase, apply notifications, nightly sweep and re-verification, revoke | five writers of one map; stale answers of stores; notifications out of order |
| Resilience | `src/resilience.ts` | one breaker per service in each instance | execute, onSuccess, onFailure, retries, timeouts | calls report in another state than they were let in |
| Affiliates | `src/affiliate.ts` | earnings of an affiliate, referrals, payouts | apply, review, convert, pay out | a payout resets what it queried earlier |
| B2B licensing | `src/b2b-licensing.ts` | organisation with `currentDevices`, device documents | add, remove, activate, revoke | counter against documents |
| Operators | `src/auth.ts`, `src/admin-pin.ts` | custom claims, access keys, bootstrap sentinel | first administrator, redeem a key, assign a role, verify the PIN, reset | two stores without a common transaction, compensation of a failed second step |
| Registration | `src/auth.ts` | `masters/{m}`, `families/{m}`, role, web tokens | two registrations, web session, migration | read, await, set |
| Support | `src/support.ts` | ticket with its conversation, grants | rounds with the AI, consent, replies, feedback; grant, revoke, expire | rounds of 30 s write what they read before; grant and ticket are two writes |
| Legal consent | `src/legal.ts` | policy versions, consents | publish, consent, demand consent anew | a query and batches against consents under way |
| Rate limiter | `src/rate-limiter.ts` | window documents, memory of the instance | check, clean up | time taken before the transaction; fallback |
| Administration, wizards, decisioning, pricing, validation, rules, other apps, panels, scripts | see `PROJECT.json` | mostly single documents, or none | | little or nothing between two steps |

The parts meet in Firestore. Pairing and Subscription share
`masters/{m}.subscription`; pairing creates the child document that the control
plane then works on, and pairing a known child again through a link token
replaces it; purchase verification runs inside a circuit breaker; a task's
documents reach the phone through the life cycle `TaskLife`. Each module
contains, as actions of its environment, what the other parts do to its state
(`Purchase` and `Lapse` in Pairing, `StartTrial` in Subscription, `PairAgain` in
ControlPlane, `TaskChanges` in TaskPhone, `TaskLockChanges` and the worker's
writes in Enforcement, `StartSubscription` in Registration, and in Operators
`EnsureMasterClaims`, by which the registration of a parent replaces the role in
the custom claims that the two share).

What makes each part correct:

* **Pairing**: an account never has more children than it was ever entitled to;
  a trial belongs to an account that paired; a credential is used up.
* **Control plane**: the device converges to the settings whatever is lost,
  repeated or overtaken; a version names one change; the first acknowledgement
  of a command stands; only overlapping reports spoil each other.
* **Tasks**: a decision is not undone by a call that came after it; unlocking
  traces back to an approval; a submitted photo is analysed and the parent told;
  the phone's lock follows the newest task.
* **Offline policy**: a device without contact falls back, one with contact gets
  its policy back.
* **Enforcement, screen time**: whoever stays in a used-up or forbidden app is
  covered; counts are those of today.
* **Subscriptions**: one purchase entitles one account; notifications take
  effect in order; an expired purchase stops entitling.
* **Resilience**: no state that refuses callers for ever; probing is bounded.
* **Services**: ledgers and counters keep to their documents, grants are given
  once, roles stay as assigned, refused parents have a finished ticket, demands
  reach consents, windows keep their budget.

The hazards, each at its line, are in `PROJECT.json`.

## 2. The modules

| Module | Models | Checked through | Proofs |
|---|---|---|---|
| `Pairing`, `Membership` | `pairing.ts`; what it promises | `MCPairing` | `PairingProofs` |
| `ControlPlane` | `device.ts`, `triggers.ts`, `device-sync.ts`, Android client | `MCControlPlane`, `MCServices` | `ControlPlaneProofs` |
| `DeviceInbox` | endpoints and events of `device-sync.ts` | `MCServices` | `ControlPlaneProofs` |
| `Subscription`, `PurchaseLedger` | `subscription.ts`; what it promises | `MCSubscription` | `SubscriptionProofs` |
| `CircuitBreaker` | `resilience.ts` | `MCBreaker`, `MCProgress` | `ProgressProofs` |
| `Tasks`, `TaskLife` | `tasks.ts`, the task triggers; what they promise | `MCProgress` | `ProgressProofs` |
| `TaskPhone` | task monitoring and lock of the Android app | `MCProgress` | `ProgressProofs` |
| `OfflinePolicy` | the offline fallback of both apps | `MCOffline`, `MCProgress` | `ProgressProofs` |
| `Enforcement` | blocking on the Android device | `MCEnforcement`, `MCProgress` | `ProgressProofs` |
| `ScreenTime` | the day's counts | `MCScreenTime`, `MCServices` | `ControlPlaneProofs` |
| `Affiliate` | `affiliate.ts` | `MCServices` | `AffiliateProofs` |
| `B2BLicensing` | `b2b-licensing.ts` | `MCServices` | `LicensingProofs` |
| `Operators`, `Registration` | `auth.ts`, `admin-pin.ts` | `MCServices` | `ServicesProofs` |
| `SupportTicket`, `SupportAccess` | `support.ts` | `MCServices` | `ServicesProofs` |
| `Legal` | `legal.ts` | `MCServices` | `ServicesProofs` |
| `RateLimiter` | `rate-limiter.ts` | `MCServices` | `ServicesProofs` |

`ProgressProofs` also holds the theorems about the composition `MCProgress`,
`CompositionProofs` those about `MCServices`.

Common to all modules of the backend: an invocation in flight is a record whose
`pc` names the await it is suspended at and whose other fields are its local
variables. Checks that read nothing but the caller's input and change nothing
are left out, as are texts, logs, e-mail and audit entries. Variables that only
record history for a property are named as such. Definitions commented
"Variant" are plausible mistakes that the properties were tried against; no
behaviour uses them.

**Compositions.** `MCProgress` holds Tasks, TaskPhone, OfflinePolicy,
Enforcement and CircuitBreaker; `MCServices` holds the control plane, the
services and the screen time. A behaviour takes the steps of one part, chosen
in the initial state: the parts of a composition share no variable, so their
interleavings add states and no behaviour of any part. One piece of state is shared
in the code: the role in a user's custom claims, which Operators and Registration
both replace. Operators has the parents' replacement as a step of its environment;
that an operator's role replaces a parent's, and a parent thus loses `hasRole`, is
left out of Registration. That a step of a
composition is a step of each part, or leaves it alone, is proved
(`EachOnItsOwn`, `EachPart`). What couples two parts is in the modules
themselves, as the environment's actions listed above.

**Abstract specifications.** What a part promises to the others is a module of its
own, which the detailed module implements under a refinement mapping:

| Promise | Implemented by | Mapping |
|---|---|---|
| `TaskLife`: pending, then submitted, then decided | `Tasks` (`ImplementsTaskLife`) | a task to its status |
| `Membership`: an invited child joins the account that invited it, below its limit | `Pairing` (`ImplementsMembership`) | the child documents, the subscription maps and the history of limits, issuers and links |
| `PurchaseLedger`: a purchase keeps its owner, only the owner is entitled | `Subscription` (`ImplementsPurchaseLedger`) | the claims; an account to its status and purchase |

`TaskPhone` starts from `TaskLife` alone, through its `INSTANCE`; so what the phone
does holds for every server that keeps the life cycle, and the server is proved
to be one. Each promise is as wide as the code makes it, and says so: an
invitation may be used twice, a report of the store may be late.

### Pairing

A child's call reads the credential (`PresentCredential`), the account
(`ReadMaster`), runs the transaction (`LinkChild`, `LinkRefused`), starts the
trial (`ActivateTrial`) and deletes the credential (`DeleteCredential`);
`pairAuthenticatedChild` deletes it before it reads the account. `ActivateTrial`
writes back the subscription map that `ReadMaster` saw, as the code does.
`serial` numbers the issuing invocations, so that a code that is drawn again is
a different credential. `granted`, `linkedBy`, `paired` and `issuer` only record
history. In `Membership` issuing is `Invite`, `LinkChild` is `Join` by the invitation
whose serial number the call carries, `ActivateTrial` is `GiveTrial`, `Purchase` and
`Lapse` are `Buy` and `LoseAccess`; reading, refusing, deleting and dying are stutters.

Abstracted: clock times (a credential is expired or not, a subscription lapsed
or not); the 50 draws of a code (redraw until the caller gives up); rate limits.

### ControlPlane and DeviceInbox

One child document, the update events of its settings, the triggers that handle
them (`bump`: the version's transaction, `write`: one command after the other,
`push`), the command queue, and on the device the coroutines started by pushes
and the periodic worker. `events` is a set from which any event may be taken,
and taken again: Firestore delivers at least once and in any order.
`ApplyFullPolicy` and the commands of one fetch are applied one by one, each
acknowledged before the next, so that the worker and the coroutines interleave
as they do in the app. `InForce` is what `applyCommand` and the policy's parser
together put in force. A setting that was never made is `None` in the
document and `Default` on the device (`Effective`); making it for the first time
is a change even when the value is the default one, except for the blacklist.
`Settled` says that the device has the document's policy and that no event, trigger,
command or worker under way would put anything else in force; `ConvergedStays`,
that only a parent's change ends that.
DeviceInbox has the two reports of a device that share nothing with this: the
list of push endpoints, rewritten from an earlier read, and the events with
their idempotency keys.

Abstracted: a page of 50 commands holds all pending ones, so there is no
cursor; ControlPlane reduces endpoints to "a push token is set"; the canonical
rules collection that `setUsageRules` also writes is not read by the Android
client.

### Tasks, TaskLife, TaskPhone

A call of `completeTask`, `approveTask` or `rejectTask` is in flight from its
check (`CheckComplete`, `CheckDecision`) to its update (`Update`); `stale` says
that another call updated the task in between. `Update` hands the change to the
triggers (`Triggered`), which analyse the photo (`FinishAnalysis`, with Gemini
or the fallback) and push to parent or child (`Notify`). `TaskLife` is the
promise: pending, then submitted before anything else, never pending again.
`NobodyForgotten`: while nothing was lost, the analysis and the pushes that a
task's status calls for are done, or a trigger that is to do them exists.

On the phone every start of the monitoring service adds a listener; a broadcast
in `air` carries the newest task's status and whether it has a duration, and
any broadcast under way may be received next. `OnCreate` is the accessibility
service after a kill: the window survives, the status does not.

### OfflinePolicy

Each flow of an app (worker and command pull on Android; start, network path,
refresh and heartbeat loop on iOS) waits at one network call at a time, and the
connection comes and goes between. `age` says whether the last contact is 72
hours old; with a connection those hours do not pass inside a flow. `inForce` is what the
device really enforces: the stored policy, an older one or none ("outdated"), or
the full lock. On iOS nothing is put in force until Family Controls is `authorized`
(`Enforced`, the guards at AppBlockingManager.swift:128 and 178): until then a flow
sets the flag of the safe mode and shields nothing. The parent may grant it in the
pairing view while the main view's flows are already at work
(`AnswerPairingGrant`), or later; that a grant is taken back in the system's
settings is left out. `LockedOnlyWithoutContact` is the safe side of the fallback:
the full lock is in force only while the 72 hours have passed, and on iOS only with
the flag and the authorization that let the next contact lift it.
`IosEndsInSafeMode` asks for the lock of an app that stays offline and can lock
(`CanLock`: in the foreground, and authorized).

### Enforcement, ScreenTime

The accessibility service's thread runs window events and one round a second;
what they find goes to coroutines (`pipeline`) that first flush to the server
and then decide by the rules stored at that moment, while the worker stores
rules field by field. `unread` and `sameMilli` are the comparison of
`last_update` with the last time read. `screen` is what is really in front,
`currentForegroundApp` what the service believes. `monitoring` says that the
round is posted: `OnInterrupt` takes it off and only the next connection posts it
again, while window events are handled all along. So `UsedUpIsCovered` is
promised, and holds, for as long as the rounds go on. ScreenTime counts ticks: the
day's total and the counts of each app are saved and restored separately, a kill
loses what came after the last save, and midnight changes nothing in a connected
service.

### Subscription, CircuitBreaker

`store` is the stores' truth about a purchase, `sub` what the account's document
says. The purchase call, a notification's handler, the sweep and the
re-verification each have their own program counter; each Firestore query,
transaction, update or batch is a step. Within a night the re-verification
(3:15) follows the sweep (0:00). `PAUSED` is taken together with `ON_HOLD`, and
`REVOKED` with `EXPIRED`: no check and no query tells them apart. In
`PurchaseLedger` the transaction on the claim is `Claim`, the write after it
`Entitle`, a notification or a re-verification `Report`, the sweep's batch
`EndAccess`; what the stores do and what a call asks them are stutters.

In CircuitBreaker the fields of the class are the variables. `execute` up to the
call of the function, `onSuccess` and `onFailure` contain no await, so each is a
step. `withRetry` and `withTimeout` are the states of a call (`attempt`,
`waiting`). Once `healthy`, every attempt succeeds; without that
`RecoversUnlessSpent` would ask for something no breaker can give. It is checked with
the options the code gives (5 failures, 1 slot, 2 successes, 3 attempts), with which
a circuit does not always recover: `Spent` names the one way it stays half-open,
its slots used up by fewer successes than close it. The property says that there is no
other, `breaker_defaults` that this one happens. `failures` is
bounded by `MaxFailures` in `OnFailure`: TLC does not see longer series of
failures, the proofs hold for any bound.

### The services

* **Affiliate**: an application, a conversion (three queries, three writes) and
  a payout (query, one batch). `skewed` and `paidTwice` record which ledgers an
  overlap touched.
* **B2BLicensing**: one organisation; an addition looks for the device before
  its transaction, a removal deletes in a batch what it queried. `crossed` and
  `removedTwice` record overlapping calls about one device.
* **Operators**: a sentinel document guards the first administrator; a key is
  marked before its role is written; a failing second step is undone, and the
  undoing may fail. A claims call that fails may have had its effect.
  `mergeOperatorCustomClaims` reads all claims and writes them back in two calls:
  it assigns no role, and a role it writes back is not in the history `assigned`.
  `overwritable` holds the users who were assigned a role between the two calls;
  `RoleIsAssigned` says that nobody else's role differs from the one assigned last.
* **Registration**: both flows, the retry that finds the document, the copy to
  `families/`, and the migration of that collection.
* **SupportTicket** and **SupportAccess**: the conversation, with calls that wait
  for the AI on the ticket as they read it; and the grants, whose documents and
  the ticket's flag are written one after the other. Neither reads what the
  other writes, except a flag whose outcome is left open.
* **Legal**: one country and type, several locales; the first active version of
  the first locale that has one. The demand for new consents queries, then
  writes in batches.
* **RateLimiter**: one key; the time of a check is taken at its start
  (`StartCheck`), its verdict by the shared counter or, when Firestore fails, by
  the instance's memory. `admitted` records the window that counts a request, and
  whether the request is late: judged by a time a whole window old, or before the
  window that counts it, or counted by a window that such a request opened.

## 3. The runs

| Run | Instance | Distinct states | Shows |
|---|---|---|---|
| `pairing` | 2 accounts, 2 children, 1 code, 1 token, 2 calls, limits 1 and 2, 1 change, 1 dying call | 1,016,000 | `WithinGrantedLimit`, `SpentWhenQuiet`, `TrialStartedWhenQuiet`, `ImplementsMembership` |
| `control_plane_converges` | 1 field, 2 changes or a pairing again, 1 loss, no event twice | 834,000 | `ConvergedStays`, `DeviceConverges` |
| `subscription` | 2 accounts, a Play and an Apple purchase of which one is valid, batches of 1; 2 overlapping calls and 1 event, or 1 call, 2 events and 1 failure | 1,609,000 | `OneAccountPerPurchase`, `ImplementsPurchaseLedger`, `NotificationsInOrder`, `ExpiredPurchaseEnds` |
| `progress` | 1 task and 3 calls on the server, 2 tasks on the phone, both systems, 1 app, 3 callers of the breaker with the code's options | 305,000 | types, 12 properties of tasks, phone, offline policy, enforcement, breaker |
| `services` | 2 calls of each service, 2 accounts, devices, grants or users, 1 dying call each; 2 requests to a window, 5 admitted; 3 fields, 1 change, event twice, 2 triggers in the control plane | 1,376,000 | types, 16 properties of the services, the control plane and the screen time |

What a run leaves out because something it checks implies it, or because a theorem
says more, is proved only, after TLC had found no counterexample: the types of Pairing
and Subscription, `TrialOnlyOncePaired`, `PaidByOwnPurchase`,
`NobodyForgotten`, `ClosedBelowThreshold`, and `StuckOnlyWhenSpent`, the safe half of
`RecoversUnlessSpent`.

The bounds let every case happen that the properties are about. Two calls are
enough for a credential used twice, a limit passed by a race, a payout that
overlaps, a claim that is overwritten, because each of these is a conflict of two
invocations; where a third matters (a stale call between two decisions of a
task; a late answer meeting two probes of the breaker) there are three. Two
changes and two triggers let one trigger overtake the other; one loss takes any
one push, acknowledgement, command or invocation. Two endpoints of room and
three registrations make the oldest drop out. For the operators a failing call and a role
assigned in the middle of a verification are not in one behaviour of the run
(`OpNextApart`); the theorems have them together. Batches of one force the sweep,
the re-verification and the demand for consent to leave accounts for later. Two
tasks on the phone make "the newest" change. One app is enough in Enforcement: its
events interleave with those of leaving and coming back. A day of the screen time
is three ticks with a save every two, so use is lost by a kill and carried over
midnight. In `subscription` two calls present a purchase at the same time, before,
during and after a notification, a sweep and a re-verification; with two events and a
failure there is one call or handler at a time, which still reorders notifications
and lets every other writer run between its query and its transaction. That two
handlers interleave is covered by the transaction being one step, and by the
theorems. In `services` two requests to a window let one window end in an interval
and another begin, with requests on either side (one more than the limit in each gives
the four that `WithinBudget` excludes); one instance beside Firestore, since
instances share nothing but the counter there. What takes more is a third window
that a late request opens (`openedLate`): four concurrent checks, windows of two
ticks, six requests admitted. That is beyond TLC here and rests on `Budget` alone.
A trigger's event twice is in the control plane of `services` and not in
`control_plane_converges`: with liveness it takes TLC too long. `SYMMETRY` is used only in runs that check no liveness.

`CHECK_DEADLOCK FALSE` stands where the bounds let the system stop: no more
settings, credentials, store events, requests or days.

### Fairness

* **ControlPlane**: events are delivered and handlers resumed, the device's
  coroutines proceed, and WorkManager runs the heartbeat. Pushes may be lost:
  fetches are fair only while a push is under way.
* **Subscription**: invocations are resumed, the scheduler starts the nightly
  jobs, time passes. Nothing makes a notification arrive.
* **Tasks**: an update that passed its checks is made and a trigger's invocation
  goes on, unless it is lost.
* **TaskPhone**: Firestore calls the listeners, Android delivers broadcasts, and
  the periodic worker starts the service again.
* **OfflinePolicy**: WorkManager runs the worker again and again; calls are
  answered or time out; the view of an app in the foreground appears once; the
  clock moves. Nothing keeps an app in the foreground or online.
* **Enforcement**: the worker comes again and its writes go on; the coroutines
  too, since their calls end at least with a failure. The rounds go on until an
  interrupt of the service; nothing makes it connect again. Window events may fail
  to come.
* **CircuitBreaker**: every attempt is answered or times out (`withTimeout`
  guarantees it), time passes, and some caller comes again.

### Where the code and its documentation differ

Seven runs expect a violation; each checks a sentence of the repository.

| Run | Sentence | What the code does |
|---|---|---|
| `pairing_single_use` | pairing.ts:238, "a single-use pairing token" | two calls that read the document before either deletes it both link |
| `breaker_defaults` | resilience.ts:8, half-open "allows a single probe request before closing" | with one slot and two required successes the circuit stays half-open and refuses everyone |
| `control_plane_usage_rules` | CommandSyncRepository.kt:38, each command is applied locally | the rules are stored with their wrapping key, where no limit is found |
| `subscription_older_clobbers` | subscription.ts:699-701, an older notification cannot clobber a newer state | verifying the purchase again drops the time the comparison needs |
| `offline_android` | CommandSyncRepository.kt:300-302, a long-offline device never keeps an unbounded stale policy | the fallback comes after a call that fails offline |
| `screen_time_midnight` | docs/CHILD_ENFORCEMENT_TEST_MATRIX.md:47, the counter resets at midnight | counts are compared with the day only when the service connects |
| `enforcement_blocked_in_front` | MiniMasterAccessibilityService.kt:51-52, the latest rules block | the blacklist is looked at only when the app in front changes |

What else does not agree, met while modelling and not checked by a run:

* `activateTrialIfPending` (pairing.ts:39-58) writes back a subscription map read
  before the transaction: a purchase made meanwhile becomes a trial.
* A debug round may read a family's data when the debug grant was revoked or ran
  out: `analyzeWithDebugData` asks the ticket's flag (support.ts:1063), which
  belongs to whatever grant was linked last (API_DOCUMENTATION.md:943).
* docs/TEST_SCENARIOS_TASK_UNLOCK.md, step 6, has the phone lock again when the
  window of an approved task ends; an approved task never locks
  (`isTaskLockActive`).
* API_DOCUMENTATION.md (466, 487, 509) names transitions of a task that overlapping
  calls leave (`DecisionReplacedByStaleCallOnly` says when).
* Affiliate referrals stay "pending" although the comment at affiliate.ts:399
  says that a payout settles them.
* Publishing a legal version has no effect while an older one is active, and
  `isMajorChange` is not read (API_DOCUMENTATION.md:1118).
* The rate limiter calls its window sliding; it is fixed, and the fallback's
  clean-up drops windows longer than two minutes.
* `publishDeviceEvent` is called idempotent; two deliveries that overlap store
  twice (`ReportsKept` excludes them by name).
* A subscription's changes never reach `families/`, and the migration counts
  children by `masterId` while children hold `masterImei`.
* A retry of `registerAuthenticatedMaster` finds the document and never gives
  the role (`RegistrationSettles` excludes the invocation that died).
* iOS `CrossPlatformSyncService` publishes events without the idempotency key
  that the server requires.
* operator-setup.ts:242-252 writes a dotted key with `set` and `merge`, which
  `readManualChecklistState` (81-106) does not find.
* admin.ts (495-560, 794-925) works on a collection `subscriptions` that no
  other code writes; `deleteMasterAccountById` (41-95) leaves the subcollections
  of commands and events.
* cutover-monitor.ts:71-76 enables directly what its states describe as steps.
* docs/CHILD_ENFORCEMENT_TEST_MATRIX.md:49 has an app blocked once its limit is
  reached. Only the rounds notice that while the app stays in front, and
  `onInterrupt` (MiniMasterAccessibilityService.kt:223-226) ends them until the
  service connects again, which does not follow an interrupt.
* iosChildApp/README.md:190-196 has the applied policy in force. What the main view
  applies while the pairing view still waits for Family Controls
  (ChildPairingView.swift:110) has no effect and is not applied again after the
  grant; the next snapshots answer `upToDate`.
* On Android `isLocked` is stored and read nowhere; a daily limit of 0 blocks
  nothing; the end of the allowed hours is inclusive in one check and exclusive
  in the other; the count of settings visits starts again with any other app.

## 4. The proofs

TLC's runs show a property on one instance; the theorems hold for any number of
accounts, children, credentials, purchases, tasks, devices and concurrent calls,
and for all bounds. Every safety property the passing runs check, invariant or
action property, is a theorem of the specification it is about, and so are the
three refinements. Each proof module defines inductive invariants, which TLC
checked on small instances first, proves them of the initial states and of every
action (one lemma per action or group of actions), and derives the properties.

One thought recurs. Handlers read, await, and write; so a property of the documents
is never inductive alone, and the invariants say what a suspended call still knows
(`SawGranted`, `Checked`, `ReadsHold`, `GrantToLink`), that a state which looks
wrong has a call under way to mend it (`TrialUnderWay`, `SpenderUnderWay`,
`BootstrapUnderWay`, `RoleUnderWay`), and that only one call does
(`OneHolder`, `OneRedeemer`, `OneCreates`).

* **PairingProofs** (from `PairingAssumption`). `WithinLimit` is not inductive:
  the transaction compares with the limit the call saw, not with the current
  one. The strengthening says that every limit a call holds is at most `granted`
  for its account, which only grows. For `TrialPaired` a call that is about to
  start a trial belongs to an account that has linked a child, because the link
  is committed first. Cardinality of the set of children needs the set finite.
  `TrialStarted`: an account with a child that is still in `trial_pending` has an
  invocation at its trial, or one died; the one that linked saw `trial_pending`,
  since nothing leads back to it. `Spent`: a stored credential that linked a child
  has the invocation that linked it before its deletion. That needs the serial
  numbers to be unique over the stored documents and the calls about to store one,
  or a code drawn again would inherit the link of its predecessor.
  `MembershipKept`: a call carries what its credential said when it was read, maybe
  long ago, so the invariant (`IssuersKnown`) says that a serial number belongs to one
  account for good, in the documents and in the calls, and that numbers not given out
  belong to nobody. Then a link is a `Join` by the account that issued what the child
  presented. The limit comes from `WithinLimit`'s invariant, the trial's from
  `TrialPaired`'s: its account had a child, and writes back a limit it was granted.
* **ControlPlaneProofs**, about ControlPlane (from `ControlPlaneAssumption`).
  `TypeCorrect` is not its own invariant: that a command holds a value of a known
  setting depends on the event the trigger was started with, long before it
  stores, and that a worker's command exists on what it fetched. `AckFinal` follows from
  the types and the guard of the acknowledgement. For `OneChangePerVersion`, the
  version in the document bounds every version handed out, stored or still held
  by a trigger, and two triggers never hold the same: so a new one is above all of
  them. A new pairing replaces the document and starts the versions again, which is
  where the property stops. `StaysConverged`: `Settled` is shown to survive every step
  but a parent's. What a trigger takes up is an event, what it stores is what it took
  up, what a worker takes up are stored commands, and all of them agreed with the
  device; so whatever is applied changes nothing, however old, repeated or
  interleaved it is.
* **ControlPlaneProofs**, about ScreenTime (from `ScreenTimeAssumption`). `CountsToday`
  compares what the service says with the use of the day, but a connection
  takes its counts from disk: the invariant bounds both, what is in memory by the
  day's use and from below by one save period for each kill, what is on disk by
  what is in memory and the ticks since the last save. The bounds on each number
  (`SoFar`) give `TimeTypes`.
* **ControlPlaneProofs**, about DeviceInbox (from `InboxAssumption`).
  `InboxKeepsReports`: a list for which no two reports raced is ordered by the last
  report of each token, what it does not hold is older than all it holds, and it is
  as long as it can be; a call that is not late still finds the list, or the missing
  event, that it read. That the n-th endpoint is the n-th most recent token is
  counted from this order. `InboxTypes` bounds the stored events: a key is stored
  only by calls that found none, so the events of a key and the calls still about to
  store one are together never more than the calls.
* **ServicesProofs** (from the assumptions of the five modules). *Operators*: while a
  bootstrap holds the sentinel it is the only one, and who was promoted is its
  user or nobody (`OneGrantOfEach`); a key being redeemed has one redeemer and gave
  nothing before; a taken sentinel without an administrator has a bootstrap on its
  way forward or back (`BlockedOnlyByLoss`). A failed claims call may have had its
  effect, which `unclear` excuses. `RolesAssigned`: what a verification has read is
  still its user's role unless that was assigned since (`ReadIsCurrent`), so what it
  writes back is the role assigned last, or the user is among the `overwritable`. *Registration*: an account without the role has a
  registration that will give it. *Legal*: a consent that is not marked is among
  those the demand still has in its batches. *SupportAccess*: access shown without
  an active grant has a call that is about to take it back; a grant being linked is
  fresh and nobody else's. *SupportTicket*: until a round reads a ticket the AI had
  solved, rounds and failures are the same number, so the last failure escalates;
  a reply whose ticket was not written since is about one that has not ended.
* **ServicesProofs**, about RateLimiter (from `LimiterAssumption`). `Budget`: no window
  counts more than the limit of punctual requests; the windows of a counter, but
  for those a late request opened, begin more than a window apart; and the request
  that opened a window is among those it counts. An interval as long as a window
  then meets two windows, and the request that opened the older came before the
  interval unless the younger is not in it: so one less than twice the limit. The
  clean-up forgets a window, which keeps the order only while windows are at most
  half its age limit.
* **SubscriptionProofs** (from `SubscriptionAssumption`). `OneAccount` from the
  claims: an account that holds a purchase, or a call about to grant one, is the
  owner recorded in `purchase_tokens`. No step changes an owner once it is set.
  `InOrder` is an action property and needs no more than the types: of all steps
  only the transaction of a notification ends a notification's handler with the
  account changed, and it compares the times in the same step. `PaidByOwner`: the
  owner of a purchase an account is entitled to is that account. `LedgerKept` needs
  one more thing (`LedgerInv`): what the sweep has in its lists are accounts that were
  entitled, or had begun, when it queried them, and no later writer takes that back.
* **ProgressProofs**, about CircuitBreaker (from `BreakerAssumption`). `ProbeLimit`
  follows from counting: the probes of the present half-open period are running
  calls, and together with the successes counted so far they are at most the slots
  given out. `StuckBySuccesses` (`StuckOnlyWhenSpent`) uses the same count downwards,
  for all options: every slot given out is a running probe or a counted success, so
  a half-open circuit that refuses everyone while no call is running had all its
  slots used up by successes, fewer than it takes to close it. With at least as
  many slots as required successes there is no such state; the code's options (1
  and 2) have it. `ClosedIsHealthy` (a closed
  circuit is below its threshold) is proved only.
* **ProgressProofs**, about Tasks (from `TasksAssumption`). The invariant says what a
  call in flight is entitled to believe: its task exists, and unless another call
  updated it since (`stale`) it still has the status that was checked; a call
  that decides has a task that was submitted. `UnlockIsApproval` and
  `DecisionStands` follow, and so does `Implements`: every action maps to a step
  of `TaskLife` or to a stutter, the update of a stale call being the step that
  makes the life cycle as wide as it is. `NobodyIsForgotten`: the update that gives a
  task a status starts the triggers that status calls for in the same step; a
  trigger ends only by having done its work, and what was done stays done, also when
  a stale call decides the task again.
* **ProgressProofs**, about TaskPhone (from `TaskPhoneAssumption`). `WindowAfterApproval`:
  a broadcast that opens the window carries an approval that has happened, whatever
  the task became since. The server enters only through the steps of `TaskLife`,
  so with `Implements` the result is about the program's own callables.
* **ProgressProofs**, about OfflinePolicy (from `OfflineAssumption`).
  `LockedWithoutContact` needs its companion: safe mode, too, is entered only after
  the 72 hours (`SafeModeExpired`), and every flow that hears from the server leaves
  the lock and the mode with the age, in one step. On iOS the lock is in force only
  with the authorization, since every step that puts something in force heeds it.
* **ProgressProofs**, about Enforcement (from `EnforcementAssumption`): its types.
  What it promises is progress.
* **LicensingProofs** (from `LicensingAssumption`). The invariant says what a call
  in flight still knows of its device: an addition that no other call made late,
  that there is no document; a removal that is not late, that what it found is
  what there is; a removal overtaken by additions only, that what it found is
  still there. So a removal decrements by one for one document unless calls
  crossed, and never lets the counter fall below the documents unless two
  removals did.
* **AffiliateProofs** (from `AffiliateAssumption`). What a payout read of a ledger
  is still pending if nobody changed the ledger since, and at most what is
  pending if no other payout settled it: that carries `LedgersBalance`.
  `EarningsFollow`: the total, and the conversions between their two writes, add
  up to the referrals stored, which are numbered so that a new one is one more.
* **ProgressProofs** and **CompositionProofs**, about the compositions. `EachOnItsOwn`:
  `MCServices` implements the specification of each of its eleven parts, because its
  initial states are theirs and a step of one leaves the variables of the others
  alone; `EachPart` says it for one step of `MCProgress`. So the theorems above carry
  over to the very specifications TLC checks (`PartsTyped`, `PartsHold`,
  `ServicesTyped`, `ServicesHold`, `ServicesNeverDo`): no invariant or action property of
  a passing run rests on an instance alone.

**What the proofs found.** An earlier `WithinBudget` passed the runs of that time, with
one request to a window, and was false:
with two requests to a window of two ticks, a request that was judged late by the
memory opens a window just after the clean-up dropped the previous one, and requests
of three windows fall in one interval. The induction failed at exactly that step
and TLC reproduced it on the larger instance. The property now counts as late what
such a window lets in, and `Budget` shows that nothing else is missing.

**Written to be reasoned about.** No induction over data is available here, so the
modules avoid definitions that would need one. The total of a day's ticks is the
cardinality of the set of ticks (`ScreenTime.Total`), whose one change at a time the
theorems on finite sets follow; a token is taken out of a list that holds it at
most once by position (`DeviceInbox.Without`), not by a filter; a worker's fetched
commands are the set of their numbers, taken in order by the least
(`ControlPlane`), since a queue is always fetched in that order. That a set of
numbers has a least element is proved from the library's well-founded sets.

**Only model-checked.** All liveness properties (`DeviceConverges`,
`ExpiredPurchaseEnds`, `SubmissionAnalysedAndTold`, `LockFollowsNewestTask`,
`IosEndsInSafeMode`, `OnlineEndsWithPolicy`, `UsedUpIsCovered`,
`RecoversUnlessSpent`): the proof system does not reason about fairness and ENABLED
here. Of them the theorems give the safe half where there is one: a converged device
stays converged, a device locks only without contact, nobody is forgotten, a circuit
is stuck only by its own successes.

## 5. What is not modelled

* **Administration** (`admin.ts`), the **wizards**, **acceptance** and
  **cutover** modules: one operator, one document, one merge at a time; the
  interesting part is their contents. **Decisioning**: a log, and a copy of the
  usage rules no app reads. **Pricing**, **integrations**, **validation**,
  **tracing**: tables and functions without state.
* **User interfaces**: the administrator's panel alone is 18,600 of the 49,000
  lines of implementation, the other panels and apps' screens most of the rest.
  They hold no state that another actor reads; what they call is modelled as the
  callers' actions. This is why the modelled handlers, which are nearly all of the
  code with a protocol in it, are a small share of the implementation's lines.
* **Within modelled files**: hashing and lock-out of the administrator PIN,
  custom tokens, the purge of projects (`auth.ts`); dashboards and lists; the
  decoding of store payloads and `getSubscriptionStatus`; tamper detection, device
  administration, debug sessions and the upload queue of events on Android
  (`flushPending` clears events that were enqueued while it sent: a hazard no
  property covers); overlays the system refuses; proof photos on their way to
  storage; unpairing.
* **Firebase itself**, whose guarantees are the assumptions above, security
  rules, text, formatting and logging.

Worth adding next: an abstract register of the policy that ControlPlane implements
in the order of versions, with the proof that it does; an abstract account of
operators (who holds which key and role) that Operators implements; what
Enforcement keeps at every step on the way to its liveness property (a covered
screen shows an app that some rule named); the re-verification's starvation with
more accounts than one batch.
