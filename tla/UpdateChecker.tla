---------------------------- MODULE UpdateChecker ----------------------------
(***************************************************************************)
(* Looking for updates: src/src/update/checker.ts, and the handlers of the *)
(* worker that check, schedule, dismiss and reset (background/router.ts,   *)
(* background/index.ts).                                                   *)
(*                                                                         *)
(* A handler runs from await to await: it reads the settings, then the     *)
(* state, waits for the update host, and writes the whole state back.      *)
(* Handlers overlap, and all end when the worker is stopped, the browser   *)
(* restarts or the extension is upgraded; settings, state and alarm stay.  *)
(*                                                                         *)
(* Time is counted in hours.  Notes, download addresses and the badge's    *)
(* look are left out; a manifest is its version and whether it is critical,*)
(* and one that is malformed, missing or unreachable has no version.       *)
(***************************************************************************)
EXTENDS Versions, FiniteSets

CONSTANTS
  Calls,         \* handlers under way at once
  Releases,      \* the versions there are
  First,         \* the version installed at first
  Radix,         \* for the reference alone: above every component of a valid release
  IntervalHours, \* the setting, clamped
  MaxHours,      \* bound: hours that pass
  MaxEvents      \* bound: what the user, the host and the browser do

ASSUME FirstAssumption == First \in Releases /\ \A v \in Releases : v \in Seq(Nat)
ASSUME RadixAssumption ==
  Radix \in Nat /\ \A v \in Releases : isValidVersion(v) => \A i \in 1..MaxComponents : Component(v, i) < Radix
ASSUME IntervalAssumption == IntervalHours \in Nat \ {0} /\ MaxHours \in Nat /\ MaxEvents \in Nat

VARIABLES
  mode,          \* the setting: "auto", "manual" or "off"
  state,         \* the UpdateState in storage
  alarm,         \* is the alarm armed
  running,       \* the version that runs
  host,          \* what the manifest URL serves
  call,          \* the handlers under way
  now,
  \* History: the version dismissed last, while no other was offered; the hour of
  \* the last automatic request; a write came between another handler's read and
  \* write, or a handler ended half-way.
  ignored, asked, crossed,
  events

vars == <<mode, state, alarm, running, host, call, now, ignored, asked, crossed, events>>

Never == -1
NoVersion == <<>>
NoManifest == [version |-> NoVersion, critical |-> FALSE]
EmptyState == [lastCheckedAt |-> Never, lastError |-> FALSE, available |-> NoManifest, dismissed |-> NoVersion]
Idle == [kind |-> "idle", at |-> "idle", previous |-> EmptyState, version |-> NoVersion,
         armed |-> FALSE, turned |-> FALSE]
ErrorBackoff == 1

Init ==
  /\ mode \in {"auto", "manual", "off"}
  /\ state = EmptyState /\ alarm = (mode = "auto")
  /\ running = First /\ host = NoManifest
  /\ call = [c \in Calls |-> Idle]
  /\ now = 0
  /\ ignored = NoVersion /\ asked = Never /\ crossed = FALSE /\ events = 0

-----------------------------------------------------------------------------
Event == events < MaxEvents /\ events' = events + 1
Put(c, w) == call' = [call EXCEPT ![c] = w]
Begin(c, kind, at) == call[c] = Idle /\ Put(c, [Idle EXCEPT !.kind = kind, !.at = at])

\* Past the first read of the settings, and before the answer of the host.
Checking(c) == call[c].at \in {"due", "previous", "fetch"}
\* Goes by what it has read of the state.
Holds(c) == call[c].at \in {"previous", "fetch", "dismiss"}
Write(c, next) ==
  /\ state' = next
  /\ crossed' = (crossed \/ \E d \in Calls \ {c} : Holds(d))

-----------------------------------------------------------------------------
\* What happens around the worker.

Publish(manifest) ==
  /\ Event /\ host' = manifest
  /\ UNCHANGED <<mode, state, alarm, running, call, now, ignored, asked, crossed>>

HourPasses ==
  /\ now < MaxHours /\ now' = now + 1
  /\ UNCHANGED <<mode, state, alarm, running, host, call, ignored, asked, crossed, events>>

\* prefs/setGlobal, which then arms the alarm again.
SetMode(c, to) ==
  /\ Event /\ mode # to /\ call[c] = Idle
  /\ mode' = to
  /\ call' = [d \in Calls |-> IF d = c THEN [Idle EXCEPT !.kind = "setGlobal", !.at = "schedule"]
                              ELSE [call[d] EXCEPT !.turned = @ \/ Checking(d)]]
  /\ UNCHANGED <<state, alarm, running, host, now, ignored, asked, crossed>>

AlarmFires(c) ==
  /\ Event /\ alarm /\ Begin(c, "alarm", "check")
  /\ UNCHANGED <<mode, state, alarm, running, host, now, ignored, asked, crossed>>

\* updates/check.
CheckNow(c) ==
  /\ Event /\ Begin(c, "force", "check")
  /\ UNCHANGED <<mode, state, alarm, running, host, now, ignored, asked, crossed>>

\* updates/dismiss of what is offered: reads the state.
Dismiss(c) ==
  /\ Event /\ state.available # NoManifest /\ call[c] = Idle
  /\ Put(c, [Idle EXCEPT !.kind = "dismiss", !.at = "dismiss", !.previous = state,
                         !.version = state.available.version])
  /\ UNCHANGED <<mode, state, alarm, running, host, now, ignored, asked, crossed>>

\* Ends every handler but the one that is begun.
Restart(c, kind, at) ==
  /\ call' = [d \in Calls |-> IF d = c THEN [Idle EXCEPT !.kind = kind, !.at = at] ELSE Idle]
  /\ crossed' = (crossed \/ \E d \in Calls : call[d] # Idle)

\* onStartup.
BrowserStarts(c) ==
  /\ Event /\ Restart(c, "startup", "schedule")
  /\ UNCHANGED <<mode, state, alarm, running, host, now, ignored, asked>>

\* onInstalled, with a newer version of the extension.
Upgraded(c, version) ==
  /\ Event /\ isNewer(version, running) /\ running' = version
  /\ Restart(c, "installed", "schedule")
  /\ UNCHANGED <<mode, state, alarm, host, now, ignored, asked>>

WorkerDies ==
  /\ Event /\ \E c \in Calls : call[c] # Idle
  /\ call' = [c \in Calls |-> Idle] /\ crossed' = TRUE
  /\ UNCHANGED <<mode, state, alarm, running, host, now, ignored, asked>>

-----------------------------------------------------------------------------
\* scheduleUpdateCheck: reads the settings, then clears the alarm and, in automatic
\* mode, creates it.

ReadSchedule(c) ==
  /\ call[c].at = "schedule"
  /\ Put(c, [call[c] EXCEPT !.at = "arm", !.armed = (mode = "auto")])
  /\ UNCHANGED <<mode, state, alarm, running, host, now, ignored, asked, crossed, events>>

\* A faulty variant: an upgrade resets nothing.
Arm_NoReset(c) ==
  /\ call[c].at = "arm"
  /\ alarm' = call[c].armed
  /\ IF call[c].kind = "startup" THEN Put(c, [call[c] EXCEPT !.at = "check"]) ELSE Put(c, Idle)
  /\ UNCHANGED <<mode, state, running, host, now, ignored, asked, crossed, events>>

\* What comes after it is the handler's: a start checks, an upgrade resets.
Arm(c) ==
  /\ call[c].at = "arm"
  /\ alarm' = call[c].armed
  /\ Put(c, CASE call[c].kind = "startup" -> [call[c] EXCEPT !.at = "check"]
              [] call[c].kind = "installed" -> [call[c] EXCEPT !.at = "reset"]
              [] OTHER -> Idle)
  /\ UNCHANGED <<mode, state, running, host, now, ignored, asked, crossed, events>>

Reset(c) ==
  /\ call[c].at = "reset"
  /\ Write(c, EmptyState) /\ Put(c, Idle)
  /\ ignored' = NoVersion
  /\ UNCHANGED <<mode, alarm, running, host, now, asked, events>>

-----------------------------------------------------------------------------
\* check.

\* A faulty variant: the button also overrides "off".
ReadSettings_Forced(c) ==
  /\ call[c].at = "check"
  /\ Put(c, IF call[c].kind = "force" THEN [call[c] EXCEPT !.at = "previous"]
            ELSE IF mode = "off" THEN Idle
            ELSE [call[c] EXCEPT !.at = "due"])
  /\ UNCHANGED <<mode, state, alarm, running, host, now, ignored, asked, crossed, events>>

ReadSettings(c) ==
  /\ call[c].at = "check"
  /\ Put(c, IF mode = "off" THEN Idle
            ELSE [call[c] EXCEPT !.at = IF call[c].kind = "force" THEN "previous" ELSE "due"])
  /\ UNCHANGED <<mode, state, alarm, running, host, now, ignored, asked, crossed, events>>

\* A faulty variant: every check is repeated as soon as one that failed.
Wait_Eager == ErrorBackoff

\* isDue; its reads of settings and state are one step.
Wait == IF state.lastError /\ ErrorBackoff < IntervalHours THEN ErrorBackoff ELSE IntervalHours
isDue == mode = "auto" /\ (state.lastCheckedAt = Never \/ now - state.lastCheckedAt >= Wait)

AskDue(c) ==
  /\ call[c].at = "due"
  /\ Put(c, IF isDue THEN [call[c] EXCEPT !.at = "previous"] ELSE Idle)
  /\ UNCHANGED <<mode, state, alarm, running, host, now, ignored, asked, crossed, events>>

\* Reads the state and sends the request.
Fetch(c) ==
  /\ call[c].at = "previous"
  /\ Put(c, [call[c] EXCEPT !.at = "fetch", !.previous = state])
  /\ asked' = IF call[c].kind = "force" THEN asked ELSE now
  /\ crossed' = (crossed \/ \E d \in Calls \ {c} : Holds(d))
  /\ UNCHANGED <<mode, state, alarm, running, host, now, ignored, events>>

\* fetchManifest and normaliseManifest throw on anything else.
Usable(manifest) == isValidVersion(manifest.version)

\* A faulty variant: what is on offer is offered afresh.
Fetched_Renews(c) ==
  /\ call[c].at = "fetch" /\ Usable(host)
  /\ LET available == IF isNewer(host.version, running) THEN host ELSE NoManifest IN
     /\ Write(c, [lastCheckedAt |-> now, lastError |-> FALSE, available |-> available,
                  dismissed |-> IF available = NoManifest THEN call[c].previous.dismissed ELSE NoVersion])
     /\ ignored' = IF available = NoManifest \/ available.version = ignored THEN ignored ELSE NoVersion
  /\ Put(c, Idle)
  /\ UNCHANGED <<mode, alarm, running, host, now, asked, events>>

\* The answer is a manifest with a usable version.
Fetched(c) ==
  /\ call[c].at = "fetch" /\ Usable(host)
  /\ LET available == IF isNewer(host.version, running) THEN host ELSE NoManifest
         dismissed == call[c].previous.dismissed IN
     /\ Write(c, [lastCheckedAt |-> now, lastError |-> FALSE, available |-> available,
                  dismissed |-> IF available = NoManifest \/ available.version = dismissed
                                  THEN dismissed ELSE NoVersion])
     /\ ignored' = IF available = NoManifest \/ available.version = ignored THEN ignored ELSE NoVersion
  /\ Put(c, Idle)
  /\ UNCHANGED <<mode, alarm, running, host, now, asked, events>>

\* A faulty variant: a failure leaves the time of the last check.
FetchFailed_KeepsTime(c) ==
  /\ call[c].at = "fetch"
  /\ Write(c, [call[c].previous EXCEPT !.lastError = TRUE])
  /\ Put(c, Idle)
  /\ UNCHANGED <<mode, alarm, running, host, now, ignored, asked, events>>

\* It is not, or there was none.
FetchFailed(c) ==
  /\ call[c].at = "fetch"
  /\ Write(c, [call[c].previous EXCEPT !.lastCheckedAt = now, !.lastError = TRUE])
  /\ Put(c, Idle)
  /\ UNCHANGED <<mode, alarm, running, host, now, ignored, asked, events>>

Dismissed(c) ==
  /\ call[c].at = "dismiss"
  /\ Write(c, [call[c].previous EXCEPT !.dismissed = call[c].version])
  /\ ignored' = call[c].version
  /\ Put(c, Idle)
  /\ UNCHANGED <<mode, alarm, running, host, now, asked, events>>

shouldNotify ==
  /\ state.available # NoManifest
  /\ state.available.critical \/ state.dismissed # state.available.version

-----------------------------------------------------------------------------
Manifests == [version: Releases, critical: BOOLEAN]

Around ==
  \/ \E manifest \in Manifests \cup {NoManifest} : Publish(manifest)
  \/ \E c \in Calls : \/ \E to \in {"auto", "manual", "off"} : SetMode(c, to)
                      \/ AlarmFires(c) \/ CheckNow(c) \/ Dismiss(c) \/ BrowserStarts(c)
                      \/ \E version \in Releases : Upgraded(c, version)
  \/ HourPasses \/ WorkerDies

Runs(c) ==
  \/ ReadSchedule(c) \/ Arm(c) \/ Reset(c) \/ ReadSettings(c) \/ AskDue(c)
  \/ Fetch(c) \/ Fetched(c) \/ FetchFailed(c) \/ Dismissed(c)

Next == Around \/ \E c \in Calls : Runs(c)

Spec == Init /\ [][Next]_vars

-----------------------------------------------------------------------------
\* Properties.

States == [lastCheckedAt: {Never} \cup 0..MaxHours, lastError: BOOLEAN,
           available: Manifests \cup {NoManifest}, dismissed: Releases \cup {NoVersion}]

\* The values of the variables, and an error only where a check was.
TypeOK ==
  /\ mode \in {"auto", "manual", "off"} /\ alarm \in BOOLEAN /\ running \in Releases
  /\ state \in States /\ (state.lastError => state.lastCheckedAt # Never)
  /\ host \in Manifests \cup {NoManifest} /\ now \in 0..MaxHours /\ events \in 0..MaxEvents
  /\ call \in [Calls -> [kind: {"idle", "setGlobal", "alarm", "force", "dismiss", "startup", "installed"},
                         at: {"idle", "schedule", "arm", "reset", "check", "due", "previous", "fetch", "dismiss"},
                         previous: States, version: Releases \cup {NoVersion}, armed: BOOLEAN, turned: BOOLEAN]]
  /\ ignored \in Releases \cup {NoVersion} /\ asked \in {Never} \cup 0..MaxHours /\ crossed \in BOOLEAN

\* The host is not asked while updates are off, and unasked only in automatic mode,
\* even by an alarm that another handler left armed; a setting changed while a check
\* is on its way comes too late for it (checker.ts:92-98, "does not override off").
OffIsSilent ==
  \A c \in Calls : call[c].at = "fetch" /\ ~call[c].turned =>
    mode # "off" /\ (call[c].kind # "force" => mode = "auto")

\* A release the user dismissed is not brought up again, whatever checks come after,
\* unless another was on offer meanwhile or handlers crossed (checker.ts:120-129).
DismissedStaysQuiet ==
  ~crossed /\ ignored # NoVersion /\ state.available.version = ignored /\ ~state.available.critical
    => ~shouldNotify

\* The version as a number, its components the digits: the reference for comparing versions.
Weight(v) ==
  ((Component(v, 1) * Radix + Component(v, 2)) * Radix + Component(v, 3)) * Radix + Component(v, 4)

\* What is on offer is newer than what runs, once an upgrade's reset is done, unless
\* handlers crossed (update/types.ts:58).
OfferIsNewer ==
  state.available # NoManifest /\ ~crossed /\ ~(\E c \in Calls : call[c].kind = "installed")
    => Weight(state.available.version) > Weight(running)

\* The host is not asked again of itself before an hour has passed since it was last
\* asked so, if the last check failed, and before the interval has, if it did not;
\* unless handlers crossed or an upgrade began anew (checker.ts:33-34, 79-90).
HostIsSpared ==
  [][\A c \in Calls :
       call'[c].at = "fetch" /\ call[c].at = "previous" /\ call[c].kind # "force"
         /\ ~crossed' /\ asked # Never /\ state.lastCheckedAt # Never
         => /\ state.lastError => now - asked >= ErrorBackoff
            /\ ~state.lastError => now - asked >= IntervalHours]_vars

\* What is on offer is worth the user's attention: newer than what runs and not
\* dismissed before (checker.ts:120-129, update/types.ts:58).
OffersAreRight == TypeOK /\ DismissedStaysQuiet /\ OfferIsNewer

=============================================================================
