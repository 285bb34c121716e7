# FireSync in TLA+

FireSync is a Chromium extension that keeps a local, encrypted copy of a Mozilla
account's logins in step with Firefox Sync, fills them into pages and saves new ones.
This directory holds TLA+ modules translated from its source, TLC configurations that
model-check them on small instances, and proofs checked by TLAPS. Paths below are
relative to the repository; `PROJECT.json` maps every definition to the lines it stands
for, lists the runs, the theorems, the hazards and the findings.

## Inventory

| part | state it keeps | operations | talks to |
|---|---|---|---|
| `sync15/reconcile.ts` | none | `reconcile` | called by the engine |
| `sync15/engine.ts`, `meta.ts` | access token, node, server configuration, the run in flight | `sync` | vault store, storage client, token server |
| `sync15/storage.ts`, `tokenserver.ts` | clock offset, backoff | reads by page, single writes, batched POSTs | the Sync storage server |
| `vault/store.ts` | on disk: meta, verifier, sealed vault, tokens and sync state; in session storage: the passphrase key; in memory: the decrypted vault; in IndexedDB: the device key | create, unlock, lock, setProtection, reset, readers and writers | everything in the background worker |
| `background/signin.ts`, `fxa/hosted.ts` | the pending flow in session storage, the last result in local storage | begin, progress, cancel, navigation and tab events | Mozilla's pages through tabs, the vault |
| `fxa/connect.ts`, `fxa/client.ts` | one password sign-in, in memory | begin, submitTotp, submitEmailCode, resendEmailCode | accounts server, vault |
| `background/router.ts`, `index.ts`, `state.ts` | queued sync, alarms, singletons | messages, alarms, idle and start events | all of the above |
| `update/checker.ts`, `version.ts` | last check, what is on offer, dismissed version | check, dismiss, reset, shouldNotify | the update manifest |
| `bridge/client.ts`, `bridge/host.mjs` | pending calls and the port; a decoder's buffer | call, disconnect; import a Firefox profile | native messaging |
| `autofill/content.ts`, `detector.ts`, `overlay.ts`, `filler.ts` | detected forms, matches, open menu and bar | refresh, menu, fill, save prompt | the page, the router |
| `prefs/store.ts` | global and per-site preferences | global, setGlobal, forUrl, setForUrl | chrome storage |
| `match/uri.ts`, `psl.ts`, `equivalent-domains.ts` | none | `originMatches`, `matchScore`, `registrableDomain` | vault, router |
| `ui/*` | what a page shows | messages to the router | the router |

What makes this code hard is that nothing in it takes a lock. Every `await` in a handler
lets another handler, a peer's write, a navigation, the browser's decision to stop the
worker, or a failed request in. The promises that matter:

* **Sync**: no edit is lost, nothing a peer wrote is skipped or overwritten unread, a
  deletion is not resurrected by a tie, and both sides end up agreeing.
* **Vault**: what is on disk can be opened with the key that is current, a write that
  was confirmed is still there after a restart, a locked vault is not served from memory.
* **Sign-in**: an authorization code is redeemed at most once and only for the flow that
  is pending; a cancelled flow stays cancelled.
* **Bridge**: every call settles exactly once, whatever the host and the port do.
* **Updates**: a dismissed version is not announced, a newer one is.
* **Content script**: nothing of a locked vault stays on the page.

`PROJECT.json` lists the hazards one by one, at the line where each bites.

## Plan

Modules in the order they were written, the most important behaviour first:

1. `Reconcile`, `ReconcileLoop` -- the conflict rules, and the loops that compute them.
2. `SyncEngine` over `Reconcile` -- one collection's runs against peers, users, faults and
   restarts; `SyncProofs` about these three.
3. `VaultStore` -- keys, blobs, session and cache under concurrent handlers and restarts;
   `VaultProofs`.
4. `SignIn` -- the hosted flow: the navigation queue, the claim, cancel, tab events; it
   implements `CodeRedemption`; `SignInProofs`.
5. `SyncSession` -- access token, node and backoff across runs and account switches;
   `SyncSessionProofs`.
6. `Background` -- messages, alarms, settings, queued and periodic syncs, locking, start events;
   `WorkerProofs`.
7. `ContentScript` -- matches, menu, filling and save bar against lock and page changes; `ScriptProofs`.
8. `ConnectSession` -- the password flow and its single-use tokens; `ConnectProofs`.
9. `UpdateChecker` over `Versions`; `UpdateProofs`.
10. `Bridge`, which implements `CallTable`; proved about in `WorkerProofs` too.
11. `OriginMatch`, `Batches` and `FormDetector` -- pure algorithms, brought together by `Algorithms`;
    `WorkerProofs`.

All of these are done. What is left worth doing: a
replicated register per record of which `SyncEngine` is an implementation; the vault and
the engine composed, so that an account switch meets a sync state that is not the account's.

## Modules

A run checks few properties, each a question of its own. Where one is a conjunction, its parts
are definitions of the module and are named below in brackets, and most parts have a
mutant. A module's `TypeOK` is a conjunct of one of them; those of `SyncEngine` and `SyncSession`
are theorems instead.

### Reconcile, ReconcileLoop

`Reconcile` holds the rules as operators on a local view (a function from ids) and a set of
pulled records: `ApplyLocally`, `UploadRemotely`, `IgnoredTombstones`, `Conflicts`, and
`Applied` for what `applyRemote` makes of the vault. Content is a number, a tombstone is a
state, null times are `NoTime`, below all times as every comparison in the code treats them.

`ReconcileLoop` runs the two loops of `reconcile()` one iteration at a time over arrays, the
pull in any order and possibly with one id twice. Its run takes every input over two ids,
two authority times, two server times and pulls of up to two records: ties, tombstones on
either side and duplicates all occur. The algorithm ends, so deadlock is not checked there.

* `PlanIsReference` -- the loops return exactly the operators' plan.
* `PlanIsSafe`: every unpushed edit is uploaded or replaced by a pulled version
  (`NoEditForgotten`), and a tombstone wins an exact tie, on either side (`DeletionWinsTies`).

### SyncEngine

One collection, one device, any number of other clients. The variables are the device's disk
(`vault`, `syncState`), the server (`server`, `lastModified`, `clock`, `engineSyncId`) and the
memory of the run in flight (`pc` and the locals of `runSync` and `syncCollection`). Each
action is what the code does between two awaits: `Start`, `InfoCollections`, `ReadMeta`,
`PullPage`, `ReconcileAndApply`, `Commit` or `Conflict412`, `MarkSynced`, `Save`. Around them
run the user's `addPassword`, `updatePassword`, `patchPassword` (with `touchPassword`) and
`deletePassword`, the peers' `PeerWrite` and `PeerReset`, and `RequestFails` and `WorkerDies`.

Four history variables are for the properties only: `history` (all versions the server ever
held), `seen` (the versions this device decided on), `raced` (records whose
content changed during their own upload) and `blind` (a POST without precondition hit an existing collection).

* `OnlyRacedEditsLost` -- a record is marked as synced with content the server never had
  only if its content changed during its own upload: by an edit, or because one pull
  returned it twice and it was both replaced and uploaded.
* `MarkCovers` -- the mark on disk covers no readable version the device did not decide on.
* `CleanBelowMarkAgrees` -- a clean record below the mark is the server's version.
* `NoBlindOverwrite` -- a POST replaces only versions the device decided on.
* `EditsAreSettled`, `EventuallyAgree` -- under fairness, pending edits are settled, and
  device and server converge.

The server is modelled by what the client may rely on. A pull's pages come in no order the
code asks for: what the first request matched and nobody touches is on some page, a record
written since may come in its new version or be missed. This is what makes the mark of the
*first* page (storage.ts:347) the right one, and the mutant that takes the last page's
violates `MarkCovers`.

Bounds: `MaxEdits` edits by users and peers together, `MaxFaults` lost requests, rejections
and worker deaths, `MaxResets` engine resets. Two edits are a conflict, or a race within an
upload; three let one side change again after a conflict was decided. One reset suffices
for a stale mark, two faults for a lost answer followed by another failure. Two records
let a POST be accepted in part and a pull have two pages.

Fairness: weak fairness of the run as a whole (`SyncStep`). A periodic alarm starts runs for
ever (15 minutes by default) and promises settle. Nothing is assumed of users, peers or
failures, which their bounds make quiet eventually; after that the device must converge.

`sync_race` expects a violation of `NoEditLost` and shows a disagreement of the code with its
documentation; see the findings. `MarkCovers` and `NoBlindOverwrite` leave out a POST without a
precondition into an existing collection (`blind`), which is another one; see below.

### VaultStore

Everything the vault keeps, by lifetime: on disk `meta`, `verifier`, `tokens`, `sync` and
`vault` (chrome.storage.local) and `deviceKey` (IndexedDB); in session storage the passphrase
key `session`; in the worker's memory `cached`, a reference into `heap`. Decrypted contents
are objects that handlers share through the cache and change in place, so the model keeps
their identity: a handler that read the cache and one that decrypted a copy of its own
write different things. A key is a number, a sealed blob the key it is sealed with.

Each handler in `h` runs one operation, and each action is what it does up to its next await
of a store: `requireKey` takes up to four (`RequireMeta`, `SessionKey`, `DeviceKey`,
`MintDeviceKey`, `ConfirmDeviceKey`), `readContents` and `writeContents` go on from it
(`LoadBlob`, `Decrypt`, `Seal`, `Store`), `create`, `unlock`, `lock`, `setProtection`
and `reset` have steps of their own. `WorkerDies` cuts every handler short; a
browser restart also empties session storage.

* `DiskOpens` -- as long as no operations overlapped, what is on disk is sealed with the
  key that the meta data leads to, at every step and through deaths at any await; when they
  do, a blob becomes unreadable only after an operation that changes keys overlapped
  another one, or was cut short.
* `SoloEditsSurvive` -- a confirmed edit whose own write overlapped nothing is on disk.
* `LockedIsCold` -- with one operation at a time, once the session has lost the key of a vault
  with a passphrase the contents are out of memory and the operation under way is not about to
  use the key; a change to device mode, which loses the key on purpose, is excepted. It says
  nothing of overlapping operations: a write that overlaps a lock puts the contents back.

Bounds: `MaxOps` operations, of which `MaxOverlaps` start while another is running, and
`MaxDeaths` deaths. Five operations of all ten kinds are enough for create, change of
protection, lock, unlock and a write; one overlap of any two of them, at any pair of
awaits, is every race of two handlers the code has.

What `rekeyed` in `DiskOpens` leaves out does happen: two first `ensure()` mint two
device keys, and a passphrase change cut short after store.ts:211 leaves a session key that
nobody can derive again, with which the next account's tokens are sealed.

### SignIn, CodeRedemption

Session storage keeps `pending`, local storage `result` and, through the vault, `account`.
Navigations are queued (`queue`) and handled one at a time (`nav`, whose `at` is the await it
is in): `TakeNavigation`, `WriteTrail`, `Matches`, `Claim`, `Exchange`, `SaveAccount`,
`NavRemoves`, `NavReports`. `begin`, `cancel` and `onTabClosed` are not queued; they run in
`caller` between any two of these awaits. `NavFails` is a storage call that rejects in the
middle of a navigation, `Poll` the page that waits, `WorkerDies` the end of the worker, with
or without the browser. `attempts` is the token server's count of how often a code was presented.

* `Redeems` -- the coordinator implements `CodeRedemption`, in which no code is presented
  twice (`RedeemedOnce`) and only the account of a presented code is saved.
* `CancelIsFinal` -- a cancelled flow is not taken up again and connects nothing, unless its
  redirect was in hand. That exception is real: a navigation that had read the flow before
  the cancel writes it back with its trail.
* `ReportsAreTrue`: the account of what is reported as complete was taken by the vault
  (`SuccessIsStored`; `stored` remembers which), and
  a page that polls is told that its sign-in is no longer running only
  if that is the truth (`PollTellsOutcome`), unless it asks between the claim of the
  redirect and the result, in which case it reports a failed sign-in that then succeeds.
* `NavigationsAreHandled`, `RedirectIsTaken` -- a failed navigation does not stall the chain,
  and the redirect of the pending flow ends it, from whatever tab it is reported.

Bounds: `MaxFlows` sign-ins, `MaxEvents` reports, cancels and closed tabs, `MaxDeaths`,
`MaxFaults`. Two events let one redirect be reported twice, or be cancelled between two of its
awaits; two callers let two sign-ins begin at once, or one start over another. The safety
properties are proved for any bounds. Fairness: weak fairness of the navigation in
hand, for the promises it awaits settle. No fairness is assumed of people, tabs or the network.

### SyncSession

The session around the collections: what `runSync` and `storageClient` do with the vault's
`tokens`, the engine's memory (`accessToken`, `node`, `configured`) and the storage `client` of
the run, told or not `told` to back off. `at` is the await the run is in; `SyncCollection` and
`CollectionFails` stand for the whole of what `SyncEngine` models in detail. Runs are
coalesced, so there is one at most. Accounts are connected and disconnected between any
two awaits; tokens are revoked, accounts move to other nodes, time passes, requests fail
and the worker dies. A credential says whose it is, whether the client's clock calls it
fresh and whether the server still takes it. Node credentials that age during a run are
taken to its end, for the engine replaces them five minutes early (tokenserver.ts:93-95).

* `NodeOfToken` -- the cached node is one of the cached token's account.
* `RightKeys` -- what is written to an account is encrypted for it, although a run reads the
  vault's tokens twice and works with a node cached for an earlier account.
* `AuthErrorsEnd` -- one set of node credentials meets 401 in two runs at most: in the
  collections of the first, which swallow it, and before those of the second.
* `Recovers` -- an account that stays connected and authorised is synced again and again.

Bounds: two accounts, `MaxSwitches` connects (a switch, or the same account anew),
`MaxFaults` revocations, moves and failures, `MaxBackoffs`, `MaxDeaths`. Two collections let
one fail and the next go on. Fairness: weak fairness of the run and of the clock
(`TokenAges`, `NodeAges`, `BackoffEnds`); the periodic alarm starts runs for ever, a fetch
settles, and expiry times arrive. Recovery from a token the token server turns down
depends on the clock alone: that answer drops no credentials, so every run fails until
the token expires.

No property is about backoffs between runs: a backoff ends with the run it was told to, for
the next run has a new storage client.

### Background

The worker between its components: a handler of `router.ts` or `index.ts` is the list of the
awaits it has left (`todo`, begun from `Program`), and each await is one action on what is
stored (`prefs`, `alarms`, the vault's lock and account, the mark `STARTUP_SYNC_TRIED`) or in
memory (`timer` of a queued sync, the engine's `run`). The messages are named for the pages'
buttons that send them; the browser's events, alarms, timers, deaths and restarts come at any
time, and every event that finds no worker runs the module body first. A run of the engine is
two steps, reading the local records and pushing them.

* `AlarmsAreArmed`: an open vault with a passphrase has its countdown or a handler about to
  arm it, whatever handlers arm, clear and lock at once (`LockIsArmed`), and the sync alarm is
  as the preferences say, unless two handlers that save or arm overlapped (`SyncIsArmed`).
* `SyncsAreStarted`: the catch-up sync runs twice in a browser session at most (`CatchUpFew`), and
  an edit that queued a sync has one to come that reads it, unless the timer joined a run that
  had read the records, the run failed or the worker died (`QueuedIsPushed`).

Bounds: two handlers and the module body at once, two messages or events beside alarms and
timers, one death or failed run. Two messages are enough for any two handlers to overlap.

### ContentScript

One page with a form of two fields, the script's `state`, its button and menu (`ui`), its
captured submission and save bar, its two timers, the promises it waits for (`task`) and the
broadcasts on their way to it (`news`). A message to the worker is three steps: the script asks,
the worker reads its vault and preferences, the answer arrives; several overlap and their
answers come in any order. Drawing the menu changes the page, so it sets the observer's timer.

* `LockedPageForgets` -- after it heard of the lock, a page has no matches and no menu with
  logins, unless an answer from before the lock came after it (`late`; the code lets it in).
* `MenuFollowsUser`: when nothing is under way, the menu is on the focused field
  (`MenuFollowsFocus`), and filling what the user chose does not open it again (`ChosenStaysShut`).
* `AskedOnce` -- one submission is judged or asked about once, unless it was captured again
  from a form that was gone (`again`).
* `SavedOnce` -- one user's submissions, and what is imported, make one login, unless two
  verdicts, saves or imports overlapped (`rushed`).

Bounds: two promises at once, four things done by the user, the page or the vault: a menu
opened, chosen from, and two more; or a submission, its bar, its save and a lock between. There
is no liveness property: with filling on load on, the script never settles (see below).

### ConnectSession

`fxa/connect.ts` with the requests of `fxa/client.ts` and the setup page. Sign-in objects and the
server's sessions are numbered; a handler (`call`) stands at the request it waits for. `Serve`
is the accounts server, modelled by what the client relies on: a key fetch token works once,
and keys and grants want a verified session. `Lose` drops a request or its answer.

* `SavedIsOne` -- user, keys and tokens that are saved are one account's, though a second
  sign-in may begin while the first is served.
* `OneGrant` -- one refresh token per session, however often a code is sent.
* `SessionInOrder`: no keys before the second factor (`KeysAfterVerified`), and the session
  ends with the sign-in (`SessionThrownAway`).
* `PageGetsThrough`: the code goes to the sign-in that asked for it (`CodeReachesAsker`), an
  accepted code leads to an account when nothing was lost (`VerifiedIsSaved`), and "done"
  means saved (`CompleteIsSaved`).

Bounds: two handlers, two accounts, three messages (begin and a code, and one of them again),
one loss, lock or closed page.

### UpdateChecker, Versions

`check`, `dismiss`, `reset`, the alarm and the setting, with two handlers overlapping from await
to await, the host's manifest, upgrades, deaths and hours that pass. A write of the whole
state over one that came after its read is recorded in `crossed`.

* `OffIsSilent` -- the host is asked only under a setting that allows it, unless the setting
  changed after the check had read it.
* `OffersAreRight`: a dismissed release does not come back (`DismissedStaysQuiet`), and what
  is on offer is newer than what runs (`OfferIsNewer`), unless handlers crossed. Newer is meant as
  the number whose digits the components are, in base `Radix`, against which the component by
  component comparison of the code is checked.
* `HostIsSpared` -- an automatic request follows the one before by an hour if the last check
  failed and by the interval, here two, if it did not; unless handlers crossed, or an upgrade
  began anew.

Bounds: four releases, two of them one version, four events, two hours, which are the interval and twice the backoff.

### Bridge, CallTable

The client's table of calls and timers, the port, the bytes on their way, the host's decoder
and its work. Frames have a length prefix of two bytes, bodies of one to three, of which three
is above the host's limit; the pipe delivers any number of bytes at a time. The host may end and the port
close at any time, and then Chrome starts a new host for the next call.

* `TimersAreExact` -- a timer runs for the calls that wait and no others.
* `FramesAreExact` -- the host decodes what was sent, in order and once, and answers that.
* `SettlesOnce` -- the client implements `CallTable`: a call settles once, with its own answer
  or an error.

### OriginMatch, Batches, FormDetector, Algorithms

Pure functions; `Algorithms` picks an input, one state for each, and `MCAlgorithms` says which
there are. `OriginMatch`: `registrableDomain` against the Public Suffix List's definition
(`DomainsFollowTheList`). `LoginsMatchTheirSites` is about what a page is offered and given:

* stricter strategies match less (`Nests`), and a page's own logins come first (`OwnFirst`);
* `OffersBelong`: what is offered is at home on the page (`AtHome`): saved on the same host, on the
  same site by the list's definition, or on a site of the same bundled group. `startsWith` is
  excepted, which goes by the text alone, and under `domain` a login with a site of its own on a page
  whose site, or one of its group, the user listed as its own equivalent (`OpenedUp`). Under
  `domain` everything at home is offered, and nothing saved under https goes to http;
* what is given away (`Revealed`) is offered and at home, whatever equivalents the user added, and what is
  offered is given away unless only those equivalents brought it in (`OfferedAreRevealed`).

The nine sites have neighbours under a suffix of two labels, a site whose name goes on where
another's ends (a.com, a.com.net), two hosts without a domain and an address. Hosts are up to four labels of eight, with rules of
every kind, an exception and a longer rule over a shorter one. `Batches`: `PostsAreExact`, that
records are cut exactly (`CutExactly`) and stored all or none (`AllOrNothing`), over all lists of up to four records and limits up to three.

`FormDetector` takes a page as the sequence of its inputs and finds the forms, their kinds and
their fields as `detectForms` does, fills a login into any of them and reads the page back as a
submission does. `FormsAreUnderstood`: a field that calls itself the user name is taken for it and
one below the password only for lack of another (`FindsUsername`), a form called a login can be
filled (`LoginsCanBeFilled`), and `FillsAreQuiet`: whatever the fields of any form hold before, a
fill changes only the form's user name and current password, and if no form before it has a
password to read, submitting captures the password that was filled and the name the form then
shows, or none if it shows none. An earlier form with a password is captured in its place, which
the property excepts. Its pages are all sequences
of up to four of nineteen inputs in two forms.

## Proofs

All proofs hold for every set of ids, flows, callers, handlers, accounts and releases and for
every bound. What is assumed of the constants: authorities and server times are naturals,
readability is a truth value, the seed is a set of ids (`SyncAssumption`); there are finitely
many ids (`LoopAssumption`); a vault's operations are among the ten (`VaultAssumption`); the
absent account is no account, and there is a collection to sync (`SessionAssumption`);
releases are sequences of naturals, the first is one of them, and the components of a valid
version are below some number (`FirstAssumption`, `RadixAssumption`; the manifest's are at most
65535); the interval is at least one hour (`IntervalAssumption`). Otherwise bounds are
naturals (`SignInAssumption`, `ConnectAssumption`, `ScriptAssumption`; `WorkerAssumption` also says
that no handler is called as the module body is; `BridgeAssumption` that a length prefix has
bytes). Public suffix rules are sequences of labels, and an exception has labels above a suffix and
no suffix below it (`RulesAssumption`; without that the list's own definition and the loop, which
takes whatever it meets first, differ). Posts, pages and hosts are finite sequences, a server
takes at least one record a request, and a login that is filled has a password
(`InputsAssumption`; filler.ts:47 writes no empty one); logins and pages have hosts, and a site
has one of the six strategies (`PagesAssumption`).

* `SyncProofs`, of the rules and the loops: `DirtyIsDecided` and `DeletionNotResurrected` about the rules;
  `LoopsReturnThePlan` and `PlansAreSafe` about the loops. While they run, the plan is the
  rules' plan for the part of the pull that is behind the first loop's index, and for the
  uploads the part of the local records behind the second's (`ApplySoFar`, `IgnoredSoFar`,
  `ConflictsSoFar`, `UploadSoFar`), and no record is planned twice (`NoneTwice`). At the end that is
  the whole plan, in whatever order the arrays came.

* `SyncProofs`, of the engine: `TypeCorrect`, then four safety properties, each on top of the one before.
  `MarkCovers` is not inductive: the mark on disk comes from a run that read the server
  many steps earlier. `MarkInv` follows it through the run: the run's own copy covers too;
  during a pull everything up to the mark of the first page is decided on, in hand or still
  awaited (`ReadUpTo`), and the last page leaves out only what was written since; and a POST
  that passes its precondition finds nothing on the server beyond the mark it read at. The other half of
  the argument is the clock (`Clocks`): no mark is ahead of the server's clock, so whatever
  a peer writes later lies beyond every mark (`StepExtends`, `CoveredStays`).
  `EditsAreKept` (`OnlyRacedEditsLost`) adds where contents come from: a clean record holds a
  version of `history`, a record in an upload is what was read when the upload was built or is
  recorded as `raced`. `CleanAgreesAlways` (`CleanBelowMarkAgrees`) is about the current version
  and not some earlier one: of a pull's page whatever is older than what the vault holds was
  overtaken (`Overtakes`), what was pulled agrees with the vault up to the mark (`PulledUpTo`), and all
  marks that may still be saved, on disk, of the run, of the pull and of the POST, are
  marks below which clean records agree (`MarksAgree`). That a pull applied leaves the newest
  version, and that there is one, is by well-founded induction on server times.

* `VaultProofs`: `SoloSurvives`, `VaultOpens`, `LockIsCold`. `Base` says what a handler has in hand at
  each of its awaits. `Apart` says that overlaps leave a trace: while two handlers are under
  way, the vault is not `Alone`, their edits are `shared`, and if one changes keys it was `rekeyed`. `SoloInv`
  follows a confirmed edit to wherever it must still be: on disk, in the cache, in the
  contents or the sealed blob of whichever handler will write next. `KeysInv` says that, while
  nothing overlapped a change of keys (`Steady`), the keys on disk, in session storage and in the
  handlers' hands fit together at every await, which is what deaths may meet.

* `SignInProofs`: `RedeemedOnceAlways` and `Implements` (`Spec => Redeems`). That no code was
  presented twice says nothing of the next step, so `Inv` is about whoever may still
  present one: the stored flow, the navigation in hand and the `begin`s about to store
  theirs each hold an unspent flow, no two the same, and past its claim the navigation is
  the only holder. Each step is shown to keep that and to be a step of `CodeRedemption` or
  to leave `attempts` and `account` alone. `CancelsAreFinal` and `ReportsAreAlwaysTrue` need
  more (`More`): what was cancelled is nobody's, unless the navigation had it in hand (`Final`); what
  is reported as complete, or about to be, is in the vault (`Told`); and once the account of the
  flow a page waits for is in the vault, its result is there or will come (`Waiting`, `Settled`).

* `SyncSessionProofs`: `WellTyped`, `NodeIsOfToken`, `KeysAreRight` and `RefusalsAreFew`. The invariant
  follows the run: what its client talks to is the cached node of that moment (`ClientInv`),
  its collections have the keys of its client's account (`LoopInv`), and a count of
  refusals above zero goes with a node that is not good, above one with no node
  (`RefusedInv`).

* `ConnectProofs`: `AccountIsOne`, `GrantsAreSingle`, `SessionsAreInOrder` and `PageGoesThrough`. `Safe`
  ties handlers, objects and the server's sessions together: a login has its object to itself
  (`Alone`), later requests are of the object's own account and session (`Working`), and one
  handler wins the keys of a session and with them its only grant (`Winning`). `Through` is about the
  page while nothing was lost: handlers work on the current object, whose session still has its
  keys unless somebody won them, and an accepted code leaves a handler that will finish.

* `WorkerProofs`, of the worker: `AlarmsAreAlwaysArmed` and `SyncsAreAlwaysStarted`. Most of it is about
  the order of awaits: every program and whatever is left of one is `Sound`, that is, who
  clears an alarm will arm it (`Paired`), who arms it has read the preferences before (`Led`),
  and who may be refused has nothing to arm (`Spared`). So one await makes of a handler only what
  `Moved` and `Kept` allow, and an await that has nothing to do with an alarm is done with in one
  lemma (`LockQuiet`, `SyncQuiet`, `TryQuiet`). `LockIsArmed` is not inductive: a death excuses it, and a
  handler that read older preferences ends the excuse, so `LockInv` also covers an excuse that
  is about to end (`Blind`) and asks for a handler that knows better (`Ready`). `SyncInv` says that, as long as no
  two handlers that arm the sync alarm overlapped, the one that does knows the
  preferences and has cleared the alarm; `TryInv` counts the two that may have passed the mark.

* `WorkerProofs`, of the bridge: `TimersAreAlwaysExact`, `CallsSettleOnce` (`BridgeSpec => SettlesOnce`) and
  `FramesAreAlwaysExact`. The invariant ties the table, the timers and the results together; the numbers
  of calls only grow, so an answer that comes late finds no entry. For the frames it says that what was
  decoded, what is buffered and what is in the pipe are, end to end, the frames that were sent, and that
  the buffer holds no whole frame. What the host's loop does with the bytes of one read follows turn by
  turn: each turn takes the first frame off and leaves the rest as it was.

* `WorkerProofs`, of the algorithms: `DomainsAlwaysFollowTheList`, `LoginsAlwaysMatch`, `PostsAreAlwaysExact` and
  `FormsAreAlwaysUnderstood`, for inputs of any size. The loop over a host's labels stops at its first hit
  (`Hits`), and the rules the host ends with are the hits by length (`LengthsAre`): so the least place
  is the longest rule, or the exception. What is cut after r records is `WellCut`: the chunks that are
  done are as they should be (`Right`), the current one goes on where they end, and it becomes one of
  them. A server that serves them has, halfway, nothing stored and aside all that came (`Grow`). The
  best place of a form has a score between that of its token and what its position adds, so a token
  decides before a position; forms share no fields, so a fill stays in its form, and what
  earlier forms read is as before (`FillIsQuiet`). That logins belong is about sites
  (`SameSiteIs`): two hosts with the domain the list gives them are one site if it is one domain or
  in one group.

Folds and loops over data are recursive functions here, and the last two bullets need inductions over
them. These are in `WorkerProofs` from the least element of a set of numbers (`Induction`): a recursion has
a solution (`StepsExist`), and what each step keeps every step has (`StepsKeep`).

* `UpdateProofs`: `UpdateTypes`, `OffIsAlwaysSilent`, `OffersAreAlwaysRight`, `HostIsAlwaysSpared`, and
  `NewerIsStrictOrder`, that comparing versions is a strict order although missing components
  count as zero. A check that is past the settings has seen one that allows it, or is marked
  as overtaken (`turned`). While handlers do not cross, what a
  handler has read is what is stored, the dismissed release is stored as dismissed, and a stored
  offer is newer than what runs or about to be reset (`OfferInv`); and a check that may send its
  request is due, counted from the last one (`SparedInv`).

* `ScriptProofs`: `PageForgetsAlways`, `MenuFollowsAlways`, `AskedOnceAlways`, `SavedOnceAlways`. A locked
  vault either has a lock on its way to the script or is forgotten (`Forgets`). `MenuFollowsUser` is about
  a page at rest; before that, the script knows the focused field (`Tracks`), and a menu that is
  not where the focus is will be seen to: the timer of focusout runs, or the field's query is
  unanswered (`MenuTracks`). Captures are numbered and kept apart (`Numbered`, `Apart`); while nothing
  was rushed, one verdict, save or import runs at a time, and what it has read, and what the
  bar says, is still so (`SaveInv`). Most steps are about the page or about saving and leave the
  other half alone (`Aside`, `Quiet`), so each action is proved on its own half.

Every safety property of the passing runs is stated by a theorem. Model-checked only:

* Liveness (`EditsAreSettled`, `EventuallyAgree`, `NavigationsAreHandled`, `RedirectIsTaken`, `Recovers`):
  it needs fairness and ENABLED, which are out of the prover's reach.
* That nothing gets stuck in `SyncEngine` and `SyncSession`, whose runs check for deadlock.

## What the code does that its documents do not say

Found while modelling. The first is the finding of the run `sync_race`; the others show as what
a property leaves out, or are out of the models.

* An edit made during its record's own upload is marked as pushed (vault/store.ts:462).
* The first upload into a collection that `info/collections` did not list carries no
  precondition (engine.ts:364), though storage.ts:10 says that every write does. A collection
  another client created meanwhile is overwritten unread and lies below the new mark.
* Two overlapping first calls of `ensure()` mint two device keys (device-key.ts:129); the vault may
  be sealed with the one that is gone. store.ts:144 calls it "Safe to call on every path."
* A page that polls between the claim of the redirect and the result (signin.ts:290) is told that
  the sign-in is no longer running, and then it succeeds.
* A backoff is forgotten by the next run (engine.ts:233); storage.ts:9 says "unconditionally".
* With filling on load on, a filling focuses the password field, which refreshes and fills
  again, without end (content.ts:133, 277, 322).
* A submission whose bar was dismissed is captured again by a later click on any button, from
  the form that is gone, and asked about again (content.ts:351-359).
* The answer to a query from before a lock puts the matches back after it (content.ts:116).
* While the vault is locked, `vaultStatus` says that no account is connected (router.ts:49-59), so the
  popup shows the sign-in and never its "Locked" state (popup.ts:35-52).
* The options page reads the collections to sync, changes one and writes (options.ts:73-80), and `setGlobal`
  writes back the whole object it read (prefs/store.ts:40-44): overlapping changes are lost.
* The catch-up sync can run twice in a session (index.ts:88 says once).
* `startsWith` compares texts (uri.ts:70): a login of https://a.com is offered on and given to
  https://a.com.net, though AUTOFILL.md:138 says that matching is "never substring-based", across
  all strategies. The default strategy does not.
* The equivalents a user gives a site are added to the equivalents of the stored login's domain, not of
  the site's (equivalent-domains.ts:34-40, router.ts:224): a login of a site that is listed is not
  offered, but if the list has the site itself, a login of any site is. What is offered so is not given
  to the page, for the check before that knows no equivalents (router.ts:242). AUTOFILL.md:157 has the list for
  sites that are the same.
* `registrableDomain` returns an IP address as it is (psl.ts:101), though psl.ts:95 says null.
* A submission is read from the first form of the page that has a password, whichever was
  submitted (content.ts:351-359).
* A form with a current and a new password is read as the current one (filler.ts:73), so a
  changed password is not offered for saving; and a page with a password and no user name, the
  second of a two-page login, asks to save what was just filled (router.ts:263).
* The user name is the first field of the best score above the password (detector.ts:254), not
  the closest, as detector.ts:9 says.
* Two imports, or an import and a save, can add the same login twice (router.ts:433-449).
* A dismissal, reset or check that ends while another check waits is overwritten by it
  (checker.ts:120); so an upgrade can leave an offer of what is already installed.

## Not modelled

Cryptography and encodings, the form detector's word lists, the profile readers of the bridge
and the build scripts have no state to explore. `authcheck.ts` is a line of requests that
changes nothing. Of the pages, what they send is modelled and what they draw is not, nor is
the badge, whose refreshes can overtake each other; of the overlay, its being in the page but
not where. The bridge's loopback server collects one redirect and is left out. Methods and
classes without a caller are left out: `putRecord` and the deletions of the storage client,
`expiredTombstones`, `purgeRecords`, the sync engine for preferences; `passwords/update` and
`vault/reset` are sent by no page, but `Background` has them.
