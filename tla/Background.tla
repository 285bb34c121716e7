------------------------------ MODULE Background ------------------------------
(***************************************************************************)
(* The background worker: the message handlers of router.ts and the event  *)
(* listeners of index.ts, what they do to the preferences, the alarms, the *)
(* lock, the queue of syncs, and how they overlap.                         *)
(*                                                                         *)
(* A handler is the list of the awaits it has left; between two of them    *)
(* any other handler runs.  The worker dies and is woken by the next event,*)
(* which first runs the module body of index.ts.                           *)
(*                                                                         *)
(* What stands for what.  The preferences are two switches: does the vault *)
(* lock after a time, does a sync run periodically.  An edit is a number.  *)
(* A run of the engine has read the local records or has not; SyncEngine   *)
(* says what it does, VaultStore what a lock and an unlock do, and         *)
(* UpdateChecker what the checks for updates of the same handlers do.  The *)
(* badge is left out.                                                      *)
(***************************************************************************)
EXTENDS Integers, Sequences

CONSTANTS
  Handlers,      \* messages and events handled at once
  MaxEvents,     \* bound: messages, browser events and restarts, but no alarms or timers
  MaxFaults      \* bound: runs that fail, worker deaths

ASSUME WorkerAssumption == MaxEvents \in Nat /\ MaxFaults \in Nat /\ "body" \notin Handlers

VARIABLES
  prefs, alarms,           \* stored: the two switches; the alarms that are set
  protection, session,     \* the vault: its protection, and whether the session has its key
  connected, synced,       \* the vault: tokens, and lastSyncAt
  dirty,                   \* the vault: edits not yet pushed
  tried,                   \* session storage: STARTUP_SYNC_TRIED
  alive, todo, locals,     \* the worker: the handlers' awaits left and what they know
  timer, run,              \* the worker: syncTimer, the engine's run
  \* History: whether two handlers that arm the sync alarm overlapped; the alarms
  \* whose handling a death cut short; catch-up runs in this session; the edits a
  \* queued sync has to push.
  crossed, cut, tries, promised,
  events, faults

vault == <<protection, session, connected, synced>>
stored == <<prefs, alarms, tried>>
worker == <<alive, timer, run>>
history == <<crossed, cut, tries, promised>>
counts == <<events, faults>>
vars == <<vault, stored, worker, dirty, todo, locals, history, counts>>

Body == "body"           \* the module body of index.ts
Procs == Handlers \cup {Body}
Unlocked == protection = "device" \/ (protection = "passphrase" /\ session)
NoRun == [at |-> "idle", took |-> {}]
Alarms == {"lock", "sync"}
NoLocals == [key |-> "lock", value |-> TRUE, edit |-> 0, saw |-> [lock |-> FALSE, sync |-> FALSE]]

Init ==
  /\ prefs \in [lock: BOOLEAN, sync: {TRUE}] /\ alarms = {"sync"} /\ tried = FALSE
  /\ protection \in {"none", "device", "passphrase"} /\ session = FALSE
  /\ connected = (protection # "none") /\ synced = FALSE
  /\ dirty = {}
  /\ alive = FALSE /\ timer = FALSE /\ run = NoRun
  /\ todo = [p \in Procs |-> <<>>] /\ locals = [p \in Procs |-> NoLocals]
  /\ crossed = FALSE /\ cut = {} /\ tries = 0 /\ promised = {}
  /\ events = 0 /\ faults = 0

-----------------------------------------------------------------------------
\* The handlers, await by await.

\* A faulty variant: the preferences are read before the alarm is cleared.
AutoLock_ReadsFirst == <<"lockAfter?", "clearLock", "armLock">>

AutoLock == <<"clearLock", "lockAfter?", "armLock">>
\* A faulty variant: an alarm that is set stays.
PeriodicSync_NoClear == <<"readPrefs", "armSync">>
PeriodicSync == <<"readPrefs", "clearSync", "armSync">>
\* A faulty variant: the mark is set when the run is over.
FirstSync_MarksLast == <<"neverSynced?", "catchUp", "markTried">>
FirstSync == <<"neverSynced?", "markTried", "catchUp">>

Program(op) ==
  CASE op = "vault/unlock" -> <<"unlock">> \o AutoLock
    [] op = "vault/lock" -> <<"lock">>
    [] op = "vault/setPassphrase" -> <<"protect">> \o AutoLock
    [] op = "vault/reset" -> <<"reset">>
    [] op = "account/connect" -> <<"saveAccount", "queueSync">>
    [] op = "signedIn" -> <<"saveAccount", "sync">>
    [] op = "account/disconnect" -> <<"forgetAccount">>
    [] op = "sync/now" -> <<"sync">>
    [] op = "passwords/update" -> <<"edit">>
    [] op = "autofill/save" -> <<"edit", "queueSync">>
    [] op = "prefs/setGlobal" -> <<"readPrefs", "setPrefs">> \o AutoLock \o PeriodicSync
    [] op = "installed" -> PeriodicSync \o AutoLock
    [] op = "startup" -> PeriodicSync \o FirstSync
    [] op = "alarmSync" -> <<"unlocked?", "sync">>
    [] op = "alarmLock" -> <<"lock">>
    [] op = "screenLocked" -> <<"lock">>
    [] op = "userActive" -> AutoLock

\* Which await clears and arms an alarm.
Clear(name) == IF name = "lock" THEN "clearLock" ELSE "clearSync"
Arm(name) == IF name = "lock" THEN "armLock" ELSE "armSync"
Ring(name) == IF name = "lock" THEN "alarmLock" ELSE "alarmSync"

In(step, steps) == \E i \in DOMAIN steps : steps[i] = step
Has(p, step) == In(step, todo[p])
Arms(p, name) == Has(p, Arm(name))

\* An event runs its handler, and wakes the worker if it has to.
Begin(h, op) ==
  /\ todo[h] = <<>>
  /\ alive' = TRUE
  /\ todo' = [todo EXCEPT ![h] = Program(op), ![Body] = IF alive THEN @ ELSE FirstSync]
  /\ crossed' = (crossed \/ (In("armSync", Program(op)) /\ \E q \in Procs : Arms(q, "sync")))

Event(h, op, key, value) ==
  /\ events < MaxEvents /\ events' = events + 1
  /\ Begin(h, op)
  /\ locals' = [locals EXCEPT ![h] = [NoLocals EXCEPT !.key = key, !.value = value, !.edit = events']]
  /\ UNCHANGED <<vault, stored, timer, run, dirty, cut, tries, promised, faults>>
Happens(h, op) == Event(h, op, "lock", TRUE)

\* The pages.  What they show may be out of date, so any message may come at any time.
AskUnlock(h) == Happens(h, "vault/unlock")
AskLock(h) == Happens(h, "vault/lock")
AskProtection(h) == Happens(h, "vault/setPassphrase")
AskDisconnect(h) == Happens(h, "account/disconnect")
AskSync(h) == Happens(h, "sync/now")
SaveSetting(h, key, value) == Event(h, "prefs/setGlobal", key, value)

\* The setup page, the sign-in's end, the content script's bar, and messages that no
\* page sends yet.
OtherMessage(h) ==
  \E op \in {"account/connect", "signedIn", "autofill/save", "passwords/update", "vault/reset"} : Happens(h, op)

\* onInstalled, and the idle listener.
BrowserEvent(h) == \E op \in {"installed", "screenLocked", "userActive"} : Happens(h, op)

\* Alarms are a minute apart at least, their handlers' awaits are not.
AlarmFires(h, name) ==
  /\ name \in alarms /\ Begin(h, Ring(name))
  /\ \A q \in Handlers : todo[q] # Program("alarmSync")
  /\ alarms' = alarms \ ({name} \cap {"lock"})
  /\ UNCHANGED <<vault, prefs, tried, timer, run, dirty, locals, cut, tries, promised, counts>>

-----------------------------------------------------------------------------
\* One await of the handler p.

At(p, step) == todo[p] # <<>> /\ Head(todo[p]) = step

\* What a handler knows is gone with it.
Left(p, steps, known) ==
  /\ todo' = [todo EXCEPT ![p] = steps]
  /\ locals' = [locals EXCEPT ![p] = IF steps = <<>> THEN NoLocals ELSE known]
Onwards(p) == Left(p, Tail(todo[p]), locals[p])
OnwardsIf(p, test) == Left(p, IF test THEN Tail(todo[p]) ELSE <<>>, locals[p])
OnlyVault == UNCHANGED <<stored, worker, dirty, history, counts>>
OnlyStored == UNCHANGED <<vault, worker, dirty, history, counts>>

\* The vault.  What a vault refuses ends the handler with an error.
Unlock(p) ==
  /\ At(p, "unlock") /\ OnwardsIf(p, protection = "passphrase")
  /\ session' = (session \/ protection = "passphrase")
  /\ UNCHANGED <<protection, connected, synced>> /\ OnlyVault

Lock(p) ==
  /\ At(p, "lock") /\ Onwards(p)
  /\ session' = FALSE
  /\ UNCHANGED <<protection, connected, synced>> /\ OnlyVault

Protect(p) ==
  /\ At(p, "protect") /\ OnwardsIf(p, Unlocked)
  /\ IF Unlocked
       THEN \/ protection' = "passphrase" /\ session' = TRUE
            \/ protection' = "device" /\ session' = FALSE
       ELSE UNCHANGED <<protection, session>>
  /\ UNCHANGED <<connected, synced>> /\ OnlyVault

Reset(p) ==
  /\ At(p, "reset") /\ Onwards(p)
  /\ protection' = "none" /\ session' = FALSE /\ connected' = FALSE /\ synced' = FALSE
  /\ dirty' = {} /\ promised' = {}
  /\ UNCHANGED <<stored, worker, crossed, cut, tries, counts>>

\* ensure creates the vault; a locked one refuses the tokens.
SaveAccount(p) ==
  /\ At(p, "saveAccount")
  /\ protection' = (IF protection = "none" THEN "device" ELSE protection)
  /\ OnwardsIf(p, protection = "none" \/ Unlocked)
  /\ connected' = (connected \/ protection = "none" \/ Unlocked)
  /\ UNCHANGED <<session, synced>> /\ OnlyVault

ForgetAccount(p) ==
  /\ At(p, "forgetAccount") /\ Onwards(p)
  /\ connected' = (connected /\ ~Unlocked)
  /\ UNCHANGED <<protection, session, synced>> /\ OnlyVault

Edit(p) ==
  /\ At(p, "edit") /\ OnwardsIf(p, Unlocked)
  /\ dirty' = IF Unlocked THEN dirty \cup {locals[p].edit} ELSE dirty
  /\ UNCHANGED <<vault, stored, worker, history, counts>>

-----------------------------------------------------------------------------
\* Preferences and alarms.

ReadPrefs(p) ==
  /\ At(p, "readPrefs")
  /\ Left(p, Tail(todo[p]), [locals[p] EXCEPT !.saw = prefs])
  /\ UNCHANGED stored /\ OnlyStored

\* setGlobal writes what it read, patched.
SetPrefs(p) ==
  /\ At(p, "setPrefs") /\ Left(p, Tail(todo[p]), NoLocals)
  /\ prefs' = [locals[p].saw EXCEPT ![locals[p].key] = locals[p].value]
  /\ UNCHANGED <<alarms, tried>> /\ OnlyStored

ClearAlarm(p, name) ==
  /\ At(p, Clear(name)) /\ Onwards(p)
  /\ alarms' = alarms \ {name}
  /\ UNCHANGED <<prefs, tried>> /\ OnlyStored

\* scheduleAutoLock asks for the protection, then for the preferences: a vault
\* without a passphrase has nothing to lock.
AskLockAfter(p) ==
  /\ At(p, "lockAfter?")
  /\ Left(p, IF protection = "passphrase" THEN Tail(todo[p]) ELSE SubSeq(todo[p], 3, Len(todo[p])),
          [locals[p] EXCEPT !.saw = prefs])
  /\ UNCHANGED stored /\ OnlyStored

ArmAlarm(p, name) ==
  /\ At(p, Arm(name)) /\ Left(p, Tail(todo[p]), NoLocals)
  /\ alarms' = IF locals[p].saw[name] THEN alarms \cup {name} ELSE alarms
  /\ cut' = cut \ {name}
  /\ UNCHANGED <<vault, prefs, tried, worker, dirty, crossed, tries, promised, counts>>

-----------------------------------------------------------------------------
\* Syncs.

\* sync joins the run under way.
CallSync == run' = IF run.at = "idle" THEN [at |-> "early", took |-> {}] ELSE run

Sync(p) ==
  /\ At(p, "sync") /\ Onwards(p) /\ CallSync
  /\ UNCHANGED <<vault, stored, alive, timer, dirty, history, counts>>

\* A faulty variant: the timer under way is not replaced, nor the new one set.
QueueSync_Lost(p) ==
  /\ At(p, "queueSync") /\ Onwards(p)
  /\ promised' = promised \cup ({locals[p].edit} \cap dirty)
  /\ UNCHANGED <<vault, stored, worker, dirty, crossed, cut, tries, counts>>

QueueSync(p) ==
  /\ At(p, "queueSync") /\ Onwards(p)
  /\ timer' = TRUE
  /\ promised' = promised \cup ({locals[p].edit} \cap dirty)
  /\ UNCHANGED <<vault, stored, alive, run, dirty, crossed, cut, tries, counts>>

TimerFires ==
  /\ timer /\ timer' = FALSE
  /\ CallSync
  /\ promised' = IF run.at = "late" THEN promised \cap run.took ELSE promised
  /\ UNCHANGED <<vault, stored, alive, dirty, todo, locals, crossed, cut, tries, counts>>

\* AskUnlocked is the alarm's, the rest is syncIfNeverSynced.
AskUnlocked(p) ==
  /\ At(p, "unlocked?") /\ OnwardsIf(p, Unlocked)
  /\ UNCHANGED stored /\ OnlyStored

AskSynced(p) ==
  /\ At(p, "neverSynced?") /\ OnwardsIf(p, ~tried /\ Unlocked /\ connected /\ ~synced)
  /\ UNCHANGED stored /\ OnlyStored

MarkTried(p) ==
  /\ At(p, "markTried") /\ Onwards(p)
  /\ tried' = TRUE
  /\ UNCHANGED <<prefs, alarms, locals>> /\ OnlyStored

CatchUp(p) ==
  /\ At(p, "catchUp") /\ Onwards(p) /\ CallSync
  /\ tries' = tries + 1
  /\ UNCHANGED <<vault, stored, alive, timer, dirty, crossed, cut, promised, counts>>

\* The engine's run reads the local records, then pushes them.
RunReads ==
  /\ run.at = "early" /\ Unlocked /\ connected
  /\ run' = [at |-> "late", took |-> dirty]
  /\ UNCHANGED <<vault, stored, alive, timer, dirty, todo, locals, history, counts>>

RunPushes ==
  /\ run.at = "late" /\ Unlocked
  /\ run' = NoRun /\ dirty' = dirty \ run.took
  /\ promised' = promised \ run.took
  /\ synced' = TRUE
  /\ UNCHANGED <<protection, session, connected, stored, alive, timer, todo, locals, crossed, cut, tries, counts>>

RunFails ==
  /\ \/ run.at # "idle" /\ faults < MaxFaults /\ faults' = faults + 1
     \/ run.at = "early" /\ ~(Unlocked /\ connected) /\ UNCHANGED faults
     \/ run.at = "late" /\ ~Unlocked /\ UNCHANGED faults
  /\ run' = NoRun
  /\ promised' = {}
  /\ UNCHANGED <<vault, stored, alive, timer, dirty, todo, locals, crossed, cut, tries, events>>

-----------------------------------------------------------------------------
\* The end of the worker, and of the browser, which forgets the session and may
\* forget the alarms.  A browser that starts again says so.

Gone ==
  /\ timer' = FALSE /\ run' = NoRun
  /\ promised' = {}
  /\ locals' = [p \in Procs |-> NoLocals]
  /\ UNCHANGED <<prefs, protection, connected, synced, dirty, crossed>>

WorkerDies ==
  /\ faults < MaxFaults /\ faults' = faults + 1
  /\ alive /\ alive' = FALSE /\ Gone
  /\ todo' = [p \in Procs |-> <<>>]
  /\ cut' = cut \cup {name \in Alarms : \E p \in Procs : Arms(p, name) \/ (name = "lock" /\ Has(p, "lock"))}
  /\ UNCHANGED <<alarms, tried, session, tries, events>>

BrowserRestarts(h) ==
  /\ events < MaxEvents /\ events' = events + 1
  /\ Gone
  /\ alive' = TRUE
  /\ todo' = [p \in Procs |-> IF p = Body THEN FirstSync
                              ELSE IF p = h THEN Program("startup") ELSE <<>>]
  /\ alarms' \in {alarms, {}} /\ tried' = FALSE /\ session' = FALSE /\ tries' = 0
  /\ cut' = cut \cup (alarms \ alarms')
  /\ UNCHANGED faults

Step(p) ==
  \/ Unlock(p) \/ Lock(p) \/ Protect(p) \/ Reset(p) \/ SaveAccount(p) \/ ForgetAccount(p) \/ Edit(p)
  \/ ReadPrefs(p) \/ SetPrefs(p) \/ AskLockAfter(p)
  \/ Sync(p) \/ QueueSync(p) \/ AskUnlocked(p) \/ AskSynced(p) \/ MarkTried(p) \/ CatchUp(p)
  \/ \E name \in Alarms : ClearAlarm(p, name) \/ ArmAlarm(p, name)

Next ==
  \/ \E h \in Handlers : \/ AskUnlock(h) \/ AskLock(h) \/ AskProtection(h) \/ AskDisconnect(h) \/ AskSync(h)
                         \/ \E key \in Alarms, value \in BOOLEAN : SaveSetting(h, key, value)
                         \/ OtherMessage(h) \/ BrowserEvent(h)
                         \/ \E name \in Alarms : AlarmFires(h, name)
                         \/ BrowserRestarts(h)
  \/ \E p \in Procs : Step(p)
  \/ TimerFires \/ RunReads \/ RunPushes \/ RunFails \/ WorkerDies

Spec == Init /\ [][Next]_vars

-----------------------------------------------------------------------------
\* Properties.

Awaits == {"unlock", "lock", "protect", "reset", "saveAccount", "forgetAccount", "edit", "readPrefs",
           "setPrefs", "lockAfter?", "clearLock", "clearSync", "armLock", "armSync", "sync",
           "queueSync", "unlocked?", "neverSynced?", "markTried", "catchUp"}
Switches == [lock: BOOLEAN, sync: BOOLEAN]
Edits == 1..MaxEvents

\* The values of the variables; a worker that is gone has nothing in hand.
TypeOK ==
  /\ prefs \in Switches /\ alarms \subseteq Alarms /\ cut \subseteq Alarms
  /\ protection \in {"none", "device", "passphrase"}
  /\ {session, connected, synced, tried, alive, timer, crossed} \subseteq BOOLEAN
  /\ dirty \cup promised \cup run.took \subseteq Edits
  /\ run.at \in {"idle", "early", "late"}
  /\ todo \in [Procs -> Seq(Awaits)]
  /\ locals \in [Procs -> [key: Alarms, value: BOOLEAN, edit: 0..MaxEvents, saw: Switches]]
  /\ ~alive => ~timer /\ run = NoRun /\ \A p \in Procs : todo[p] = <<>>
  /\ tries \in Nat /\ events \in 0..MaxEvents /\ faults \in 0..MaxFaults

\* An open vault with a passphrase has its countdown, whatever handlers armed,
\* cleared and locked at once, unless a death cut one of them short: the alarm is
\* cleared before the preferences are read (router.ts:515-526).
LockIsArmed ==
  protection = "passphrase" /\ session /\ prefs.lock /\ "lock" \notin cut
    => "lock" \in alarms \/ \E p \in Procs : Arms(p, "lock") \/ Has(p, "lock")

\* The sync alarm is set or not as the preferences say, unless two handlers armed
\* it at once: it is cleared after the preferences are read (router.ts:489-495).
SyncIsArmed ==
  crossed \/ "sync" \in cut \/ (\E p \in Procs : Arms(p, "sync"))
    \/ ("sync" \in alarms <=> prefs.sync)

\* index.ts:75, 88: the catch-up sync runs "once per browser session [...] however
\* often the worker is recycled".  The module body and onStartup can both find that
\* it was not tried, so it is twice at most.
CatchUpFew == tries <= 2

\* An edit that queued a sync has one to come that reads it, unless the timer joined a
\* run that had read the records, the run failed or the worker died (router.ts:471-481).
QueuedIsPushed ==
  \A e \in promised : timer \/ run.at = "early" \/ e \in run.took

\* The alarms that are set are those the preferences and the vault ask for, whatever
\* handlers, alarms and deaths come between their awaits (router.ts:489-526).
AlarmsAreArmed == TypeOK /\ LockIsArmed /\ SyncIsArmed

\* The syncs that something asked for come, the catch-up of a browser session and those
\* of edits, and no more of the former than its two starters (index.ts:75-106,
\* router.ts:471-481).
SyncsAreStarted == CatchUpFew /\ QueuedIsPushed

===============================================================================
