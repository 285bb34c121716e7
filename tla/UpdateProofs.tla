----------------------------- MODULE UpdateProofs -----------------------------
(***************************************************************************)
(* For any releases, handlers and bounds: newer is a strict order of       *)
(* versions; the update host is left alone as the setting says, and until  *)
(* the next check is due; and what is on offer is newer than what runs and *)
(* was not dismissed.                                                      *)
(***************************************************************************)
EXTENDS UpdateChecker, TLAPS

\* The components of a version are numbers.
LEMMA ComponentIsNumber ==
  ASSUME NEW v \in Seq(Nat), NEW i \in 1..MaxComponents
  PROVE  Component(v, i) \in Int
PROOF
  <1>1. i \in 1..Len(v) => v[i] \in Nat
    OBVIOUS
  <1>2. Len(v) \in Nat /\ i \in Nat /\ i >= 1
    BY DEF MaxComponents
  <1> QED
    BY <1>1, <1>2 DEF Component

\* No two versions are each below the other.
LEMMA BelowIsAsymmetric ==
  ASSUME NEW a \in Seq(Nat), NEW b \in Seq(Nat), Below(a, b)
  PROVE  ~Below(b, a)
PROOF
  <1>1. PICK i \in 1..MaxComponents : BelowAt(a, b, i)
    BY DEF Below
  <1>2. SUFFICES ASSUME NEW k \in 1..MaxComponents, BelowAt(b, a, k) PROVE FALSE
    BY DEF Below
  <1>3. Component(a, i) \in Int /\ Component(b, i) \in Int /\ Component(a, k) \in Int /\ Component(b, k) \in Int
    BY ComponentIsNumber
  <1>4. i \in Int /\ k \in Int /\ i >= 1 /\ k >= 1
    BY DEF MaxComponents
  <1>5. CASE i < k
    BY <1>1, <1>2, <1>3, <1>4, <1>5 DEF BelowAt
  <1>6. CASE k < i
    BY <1>1, <1>2, <1>3, <1>4, <1>6 DEF BelowAt
  <1>7. CASE i = k
    BY <1>1, <1>2, <1>3, <1>7 DEF BelowAt
  <1> QED
    BY <1>4, <1>5, <1>6, <1>7

\* Below a version that is below a third is below the third.
LEMMA BelowIsTransitive ==
  ASSUME NEW a \in Seq(Nat), NEW b \in Seq(Nat), NEW c \in Seq(Nat), Below(a, b), Below(b, c)
  PROVE  Below(a, c)
PROOF
  <1>1. PICK i \in 1..MaxComponents : BelowAt(a, b, i)
    BY DEF Below
  <1>2. PICK k \in 1..MaxComponents : BelowAt(b, c, k)
    BY DEF Below
  <1> DEFINE m == IF i < k THEN i ELSE k
  <1>3. m \in 1..MaxComponents /\ m <= i /\ m <= k
    BY DEF MaxComponents
  <1>4. \A j \in 1..(m - 1) : j \in 1..(i - 1) /\ j \in 1..(k - 1)
    BY <1>3 DEF MaxComponents
  <1>5. \A j \in 1..(m - 1) : Component(a, j) = Component(c, j)
    BY <1>1, <1>2, <1>4 DEF BelowAt
  <1>6. Component(a, m) \in Int /\ Component(b, m) \in Int /\ Component(c, m) \in Int
    BY <1>3, ComponentIsNumber
  <1>7. Component(a, m) < Component(c, m)
    <2>1. CASE i < k
      <3>1. m = i /\ i \in 1..(k - 1)
        BY <2>1 DEF MaxComponents
      <3> QED
        BY <1>1, <1>2, <3>1 DEF BelowAt
    <2>2. CASE k < i
      <3>1. m = k /\ k \in 1..(i - 1)
        BY <2>2 DEF MaxComponents
      <3> QED
        BY <1>1, <1>2, <3>1 DEF BelowAt
    <2>3. CASE i = k
      <3>1. m = i /\ m = k
        BY <2>3
      <3> HIDE DEF m
      <3>2. Component(a, m) < Component(b, m) /\ Component(b, m) < Component(c, m)
        BY <1>1, <1>2, <3>1 DEF BelowAt
      <3> QED
        BY <1>6, <3>2
    <2> QED
      BY <2>1, <2>2, <2>3 DEF MaxComponents
  <1>8. BelowAt(a, c, m)
    BY <1>5, <1>7 DEF BelowAt
  <1> QED
    BY <1>3, <1>8 DEF Below

\* isNewer is a strict order: no version is newer than itself, no two are each newer
\* than the other, and newer than newer is newer (version.ts:42-69).
THEOREM NewerIsStrictOrder ==
  ASSUME NEW a \in Seq(Nat), NEW b \in Seq(Nat), NEW c \in Seq(Nat)
  PROVE  /\ ~isNewer(a, a)
         /\ isNewer(a, b) => ~isNewer(b, a)
         /\ isNewer(a, b) /\ isNewer(b, c) => isNewer(a, c)
PROOF
  <1>1. \A x, y : isNewer(x, y) <=> isValidVersion(x) /\ isValidVersion(y) /\ Below(y, x) /\ ~Below(x, y)
    BY DEF isNewer, compareVersions
  <1>2. isNewer(a, b) => ~isNewer(b, a)
    BY <1>1
  <1>3. ~isNewer(a, a)
    BY <1>1
  <1>4. ASSUME isNewer(a, b), isNewer(b, c) PROVE isNewer(a, c)
    <2>1. isValidVersion(a) /\ isValidVersion(c) /\ Below(b, a) /\ Below(c, b)
      BY <1>1, <1>4
    <2>2. Below(c, a)
      BY <2>1, BelowIsTransitive
    <2>3. ~Below(a, c)
      BY <2>1, <2>2, BelowIsAsymmetric
    <2> QED
      BY <1>1, <2>1, <2>2, <2>3
  <1> QED
    BY <1>2, <1>3, <1>4

-----------------------------------------------------------------------------
\* Types.

Modes == {"auto", "manual", "off"}
Kinds == {"idle", "setGlobal", "alarm", "force", "dismiss", "startup", "installed"}
Steps == {"idle", "schedule", "arm", "reset", "check", "due", "previous", "fetch", "dismiss"}
Handler == [kind: Kinds, at: Steps, previous: States, version: Releases \cup {NoVersion},
            armed: BOOLEAN, turned: BOOLEAN]

\* An error is stored with the time of the check.
Sound(s) == s.lastError => s.lastCheckedAt # Never

\* The inductive invariant: TypeOK, and what handlers have read of the state is sound.
TypeInv == TypeOK /\ \A c \in Calls : Sound(call[c].previous)

\* The handlers and the state of TypeOK, by the names used here.
LEMMA HandlerType == TypeOK => call \in [Calls -> Handler] /\ state \in States /\ Sound(state)
PROOF
  BY DEF TypeOK, Handler, Kinds, Steps, Sound

\* What storage holds at first is a sound state.
LEMMA EmptyStateType == EmptyState \in States /\ Sound(EmptyState)
PROOF
  BY DEF EmptyState, States, Sound, NoManifest, NoVersion, Never

\* A handler that does nothing is of the type.
LEMMA IdleType == Idle \in Handler /\ Sound(Idle.previous)
PROOF
  BY EmptyStateType DEF Idle, Handler, Kinds, Steps, NoVersion

\* A handler moves to a handler of that type: so do all.
LEMMA PutType ==
  ASSUME TypeInv, NEW c \in Calls, NEW w \in Handler, Sound(w.previous), Put(c, w)
  PROVE  /\ call' \in [Calls -> Handler] /\ \A d \in Calls : Sound(call'[d].previous)
         /\ call'[c] = w /\ \A d \in Calls \ {c} : call'[d] = call[d]
PROOF
  <1>1. call \in [Calls -> Handler]
    BY HandlerType DEF TypeInv
  <1>2. call' = [d \in Calls |-> IF d = c THEN w ELSE call[d]]
    BY <1>1 DEF Put
  <1> QED
    BY <1>1, <1>2 DEF TypeInv

\* The handler of a step is one of the type, with sound state, and stays so when it
\* only moves on.
LEMMA MovesOn ==
  ASSUME TypeInv, NEW c \in Calls, NEW at \in Steps, Put(c, [call[c] EXCEPT !.at = at])
  PROVE  /\ call' \in [Calls -> Handler] /\ \A d \in Calls : Sound(call'[d].previous)
         /\ call'[c].at = at /\ call'[c].kind = call[c].kind /\ call'[c].turned = call[c].turned
         /\ \A d \in Calls \ {c} : call'[d] = call[d]
PROOF
  <1> DEFINE w == [call[c] EXCEPT !.at = at]
  <1>1. call[c] \in Handler /\ Sound(call[c].previous)
    BY HandlerType DEF TypeInv
  <1>2. w \in Handler /\ w.previous = call[c].previous
    BY <1>1 DEF Handler
  <1>3. w.at = at /\ w.kind = call[c].kind /\ w.turned = call[c].turned
    BY <1>1 DEF Handler
  <1>4. Put(c, w) /\ Sound(w.previous)
    BY <1>1, <1>2
  <1> HIDE DEF w
  <1> QED
    BY <1>2, <1>3, <1>4, PutType

\* The parts of the invariant that are not about handlers, and those that are.
StoredInv ==
  /\ mode \in Modes /\ alarm \in BOOLEAN /\ running \in Releases
  /\ state \in States /\ Sound(state)
  /\ host \in Manifests \cup {NoManifest} /\ now \in 0..MaxHours /\ events \in 0..MaxEvents
  /\ ignored \in Releases \cup {NoVersion} /\ asked \in {Never} \cup 0..MaxHours /\ crossed \in BOOLEAN
HandlersInv == call \in [Calls -> Handler] /\ \A c \in Calls : Sound(call[c].previous)

\* The invariant is its two parts.
LEMMA TypeParts == TypeInv <=> StoredInv /\ HandlersInv
PROOF
  BY DEF TypeInv, TypeOK, StoredInv, HandlersInv, Modes, Handler, Kinds, Steps, Sound

\* The types hold at the start.
LEMMA TypeInit == Init => TypeInv
PROOF
  <1> SUFFICES ASSUME Init PROVE StoredInv /\ HandlersInv
    BY TypeParts
  <1>1. StoredInv
    <2>1. 0 \in 0..MaxHours /\ 0 \in 0..MaxEvents
      BY IntervalAssumption
    <2>2. (mode = "auto") \in BOOLEAN
      OBVIOUS
    <2> QED
      BY <2>1, <2>2, EmptyStateType, FirstAssumption DEF Init, StoredInv, Modes
  <1>2. HandlersInv
    BY IdleType DEF Init, HandlersInv
  <1> QED
    BY <1>1, <1>2

\* The state a handler stores is of the type when a handler's read of it is.
LEMMA StoredType ==
  ASSUME NEW previous \in States, Sound(previous), now \in 0..MaxHours
  PROVE  /\ [previous EXCEPT !.lastCheckedAt = now, !.lastError = TRUE] \in States
         /\ Sound([previous EXCEPT !.lastCheckedAt = now, !.lastError = TRUE])
         /\ \A v \in Releases \cup {NoVersion} :
              /\ [previous EXCEPT !.dismissed = v] \in States
              /\ Sound([previous EXCEPT !.dismissed = v])
         /\ \A available \in Manifests \cup {NoManifest}, dismissed \in Releases \cup {NoVersion} :
              LET next == [lastCheckedAt |-> now, lastError |-> FALSE,
                           available |-> available, dismissed |-> dismissed] IN
              next \in States /\ Sound(next)
PROOF
  <1>1. now # Never
    BY DEF Never
  <1> QED
    BY <1>1 DEF States, Sound

\* A begun handler, and the end of all others, keep the handlers' type.
LEMMA RestartType ==
  ASSUME NEW c \in Calls, NEW kind \in Kinds, NEW at \in Steps, Restart(c, kind, at)
  PROVE  HandlersInv'
PROOF
  <1> DEFINE w == [Idle EXCEPT !.kind = kind, !.at = at]
  <1>1. w \in Handler /\ Sound(w.previous)
    BY IdleType DEF Handler
  <1>2. call' = [d \in Calls |-> IF d = c THEN w ELSE Idle]
    BY DEF Restart
  <1> HIDE DEF w
  <1> QED
    BY <1>1, <1>2, IdleType DEF HandlersInv

\* A handler that begins is of the type.
LEMMA BeginType ==
  ASSUME TypeInv, NEW c \in Calls, NEW kind \in Kinds, NEW at \in Steps, Begin(c, kind, at)
  PROVE  /\ HandlersInv' /\ call'[c].at = at /\ call'[c].kind = kind
         /\ \A d \in Calls \ {c} : call'[d] = call[d]
PROOF
  <1> DEFINE w == [Idle EXCEPT !.kind = kind, !.at = at]
  <1>1. w \in Handler /\ Sound(w.previous) /\ w.at = at /\ w.kind = kind
    BY IdleType DEF Handler
  <1>2. Put(c, w)
    BY DEF Begin
  <1> HIDE DEF w
  <1> QED
    BY <1>1, <1>2, PutType DEF HandlersInv

\* Every step keeps the types.
LEMMA TypeStep == TypeInv /\ [Next]_vars => TypeInv'
PROOF
  <1> SUFFICES ASSUME TypeInv, [Next]_vars PROVE StoredInv' /\ HandlersInv'
    BY TypeParts, PTL
  <1>0. StoredInv /\ HandlersInv
    BY TypeParts
  <1>e. Event => events' \in 0..MaxEvents
    BY <1>0, IntervalAssumption DEF Event, StoredInv
  <1>1. ASSUME NEW manifest \in Manifests \cup {NoManifest}, Publish(manifest) PROVE StoredInv' /\ HandlersInv'
    BY <1>0, <1>1, <1>e DEF Publish, StoredInv, HandlersInv
  <1>2. CASE HourPasses
    <2>1. now' \in 0..MaxHours
      BY <1>0, <1>2, IntervalAssumption DEF HourPasses, StoredInv
    <2> QED
      BY <1>0, <1>2, <2>1 DEF HourPasses, StoredInv, HandlersInv
  <1>3. CASE WorkerDies
    <2>1. HandlersInv'
      BY <1>3, IdleType DEF WorkerDies, HandlersInv
    <2> QED
      BY <1>0, <1>3, <1>e, <2>1 DEF WorkerDies, StoredInv
  <1>4. ASSUME NEW c \in Calls, NEW to \in Modes, SetMode(c, to) PROVE StoredInv' /\ HandlersInv'
    <2> DEFINE w == [Idle EXCEPT !.kind = "setGlobal", !.at = "schedule"]
               turned(d) == [call[d] EXCEPT !.turned = call[d].turned \/ Checking(d)]
    <2>1. w \in Handler /\ Sound(w.previous)
      BY IdleType DEF Handler, Kinds, Steps
    <2>2. \A d \in Calls : turned(d) \in Handler /\ Sound(turned(d).previous)
      BY <1>0 DEF HandlersInv, Handler
    <2>3. call' = [d \in Calls |-> IF d = c THEN w ELSE turned(d)]
      BY <1>4 DEF SetMode
    <2> HIDE DEF w, turned
    <2>4. HandlersInv'
      BY <2>1, <2>2, <2>3 DEF HandlersInv
    <2> QED
      BY <1>0, <1>4, <1>e, <2>4 DEF SetMode, StoredInv
  <1>5. ASSUME NEW c \in Calls, AlarmFires(c) PROVE StoredInv' /\ HandlersInv'
    BY <1>0, <1>5, <1>e, BeginType DEF AlarmFires, StoredInv, Kinds, Steps
  <1>6. ASSUME NEW c \in Calls, CheckNow(c) PROVE StoredInv' /\ HandlersInv'
    BY <1>0, <1>6, <1>e, BeginType DEF CheckNow, StoredInv, Kinds, Steps
  <1>7. ASSUME NEW c \in Calls, Dismiss(c) PROVE StoredInv' /\ HandlersInv'
    <2> DEFINE w == [Idle EXCEPT !.kind = "dismiss", !.at = "dismiss", !.previous = state,
                                 !.version = state.available.version]
    <2>1. state.available \in Manifests /\ state.available.version \in Releases
      BY <1>0, <1>7 DEF Dismiss, StoredInv, States, Manifests
    <2>2. w \in Handler /\ Sound(w.previous)
      BY <1>0, <2>1, IdleType DEF StoredInv, Handler, Kinds, Steps
    <2>3. Put(c, w)
      BY <1>7 DEF Dismiss
    <2> HIDE DEF w
    <2>4. HandlersInv'
      BY <2>2, <2>3, PutType DEF HandlersInv
    <2> QED
      BY <1>0, <1>7, <1>e, <2>4 DEF Dismiss, StoredInv
  <1>8. ASSUME NEW c \in Calls, BrowserStarts(c) PROVE StoredInv' /\ HandlersInv'
    <2>1. HandlersInv'
      BY <1>8, RestartType DEF BrowserStarts, Kinds, Steps
    <2>2. crossed' \in BOOLEAN
      BY <1>8 DEF BrowserStarts, Restart
    <2> QED
      BY <1>0, <1>8, <1>e, <2>1, <2>2 DEF BrowserStarts, StoredInv
  <1>9. ASSUME NEW c \in Calls, NEW version \in Releases, Upgraded(c, version) PROVE StoredInv' /\ HandlersInv'
    <2>1. HandlersInv'
      BY <1>9, RestartType DEF Upgraded, Kinds, Steps
    <2>2. crossed' \in BOOLEAN
      BY <1>9 DEF Upgraded, Restart
    <2> QED
      BY <1>0, <1>9, <1>e, <2>1, <2>2 DEF Upgraded, StoredInv
  <1>10. ASSUME NEW c \in Calls, ReadSchedule(c) PROVE StoredInv' /\ HandlersInv'
    <2> DEFINE w == [call[c] EXCEPT !.at = "arm", !.armed = (mode = "auto")]
    <2>1. w \in Handler /\ Sound(w.previous)
      BY <1>0 DEF HandlersInv, Handler, Steps
    <2>2. Put(c, w)
      BY <1>10 DEF ReadSchedule
    <2> HIDE DEF w
    <2>3. HandlersInv'
      BY <2>1, <2>2, PutType DEF HandlersInv
    <2> QED
      BY <1>0, <1>10, <2>3 DEF ReadSchedule, StoredInv
  <1>11. ASSUME NEW c \in Calls, Arm(c) PROVE StoredInv' /\ HandlersInv'
    <2>1. HandlersInv'
      <3>1. CASE call[c].kind = "startup"
        BY <1>11, <3>1, MovesOn DEF Arm, HandlersInv, Steps
      <3>2. CASE call[c].kind = "installed"
        BY <1>11, <3>2, MovesOn DEF Arm, HandlersInv, Steps
      <3>3. CASE call[c].kind \notin {"startup", "installed"}
        BY <1>11, <3>3, IdleType, PutType DEF Arm, HandlersInv
      <3> QED
        BY <3>1, <3>2, <3>3
    <2>2. alarm' \in BOOLEAN
      BY <1>0, <1>11 DEF Arm, HandlersInv, Handler
    <2> QED
      BY <1>0, <1>11, <2>1, <2>2 DEF Arm, StoredInv
  <1>12. ASSUME NEW c \in Calls, Reset(c) PROVE StoredInv' /\ HandlersInv'
    <2>1. HandlersInv'
      BY <1>12, IdleType, PutType DEF Reset, HandlersInv
    <2>2. state' \in States /\ Sound(state') /\ crossed' \in BOOLEAN
      BY <1>12, EmptyStateType DEF Reset, Write
    <2> QED
      BY <1>0, <1>12, <2>1, <2>2 DEF Reset, StoredInv, Sound
  <1>13. ASSUME NEW c \in Calls, ReadSettings(c) PROVE StoredInv' /\ HandlersInv'
    <2>1. HandlersInv'
      <3>1. CASE mode = "off"
        BY <1>13, <3>1, IdleType, PutType DEF ReadSettings, HandlersInv
      <3>2. CASE mode # "off"
        BY <1>13, <3>2, MovesOn DEF ReadSettings, HandlersInv, Steps
      <3> QED
        BY <3>1, <3>2
    <2> QED
      BY <1>0, <1>13, <2>1 DEF ReadSettings, StoredInv
  <1>14. ASSUME NEW c \in Calls, AskDue(c) PROVE StoredInv' /\ HandlersInv'
    <2>1. HandlersInv'
      <3>1. CASE ~isDue
        BY <1>14, <3>1, IdleType, PutType DEF AskDue, HandlersInv
      <3>2. CASE isDue
        BY <1>14, <3>2, MovesOn DEF AskDue, HandlersInv, Steps
      <3> QED
        BY <3>1, <3>2
    <2> QED
      BY <1>0, <1>14, <2>1 DEF AskDue, StoredInv
  <1>15. ASSUME NEW c \in Calls, Fetch(c) PROVE StoredInv' /\ HandlersInv'
    <2> DEFINE w == [call[c] EXCEPT !.at = "fetch", !.previous = state]
    <2>1. w \in Handler /\ Sound(w.previous)
      BY <1>0 DEF HandlersInv, StoredInv, Handler, Steps
    <2>2. Put(c, w)
      BY <1>15 DEF Fetch
    <2> HIDE DEF w
    <2>3. HandlersInv'
      BY <2>1, <2>2, PutType DEF HandlersInv
    <2>4. crossed' \in BOOLEAN
      BY <1>15 DEF Fetch
    <2>5. asked' \in {Never} \cup 0..MaxHours
      BY <1>0, <1>15 DEF Fetch, StoredInv
    <2> QED
      BY <1>0, <1>15, <2>3, <2>4, <2>5 DEF Fetch, StoredInv
  <1>16. ASSUME NEW c \in Calls, Fetched(c) PROVE StoredInv' /\ HandlersInv'
    <2>1. HandlersInv'
      BY <1>16, IdleType, PutType DEF Fetched, HandlersInv
    <2>2. crossed' \in BOOLEAN /\ ignored' \in Releases \cup {NoVersion}
      BY <1>0, <1>16 DEF Fetched, Write, StoredInv
    <2>3. call[c].previous \in States /\ Sound(call[c].previous)
      BY <1>0 DEF HandlersInv, Handler
    <2> DEFINE available == IF isNewer(host.version, running) THEN host ELSE NoManifest
               dismissed == IF available = NoManifest \/ available.version = call[c].previous.dismissed
                              THEN call[c].previous.dismissed ELSE NoVersion
    <2>4. available \in Manifests \cup {NoManifest}
      BY <1>0 DEF StoredInv
    <2>5. dismissed \in Releases \cup {NoVersion}
      BY <2>3 DEF States
    <2>6. state' = [lastCheckedAt |-> now, lastError |-> FALSE, available |-> available, dismissed |-> dismissed]
      BY <1>16 DEF Fetched, Write
    <2> HIDE DEF available, dismissed
    <2>7. state' \in States /\ Sound(state')
      BY <1>0, <2>3, <2>4, <2>5, <2>6, StoredType DEF StoredInv
    <2> QED
      BY <1>0, <1>16, <2>1, <2>2, <2>7 DEF Fetched, StoredInv, Sound
  <1>17. ASSUME NEW c \in Calls, FetchFailed(c) PROVE StoredInv' /\ HandlersInv'
    <2>1. HandlersInv'
      BY <1>17, IdleType, PutType DEF FetchFailed, HandlersInv
    <2>2. crossed' \in BOOLEAN
      BY <1>17 DEF FetchFailed, Write
    <2>3. call[c].previous \in States /\ Sound(call[c].previous)
      BY <1>0 DEF HandlersInv, Handler
    <2>4. state' \in States /\ Sound(state')
      BY <1>0, <1>17, <2>3, StoredType DEF FetchFailed, Write, StoredInv
    <2> QED
      BY <1>0, <1>17, <2>1, <2>2, <2>4 DEF FetchFailed, StoredInv, Sound
  <1>18. ASSUME NEW c \in Calls, Dismissed(c) PROVE StoredInv' /\ HandlersInv'
    <2>1. HandlersInv'
      BY <1>18, IdleType, PutType DEF Dismissed, HandlersInv
    <2>2. crossed' \in BOOLEAN
      BY <1>18 DEF Dismissed, Write
    <2>3. call[c].previous \in States /\ Sound(call[c].previous) /\ call[c].version \in Releases \cup {NoVersion}
      BY <1>0 DEF HandlersInv, Handler
    <2>4. state' \in States /\ Sound(state')
      BY <1>0, <1>18, <2>3, StoredType DEF Dismissed, Write, StoredInv
    <2> QED
      BY <1>0, <1>18, <2>1, <2>2, <2>3, <2>4 DEF Dismissed, StoredInv, Sound
  <1>19. CASE UNCHANGED vars
    BY <1>0, <1>19 DEF vars, StoredInv, HandlersInv
  <1>20. CASE Around
    BY <1>20, <1>1, <1>2, <1>3, <1>4, <1>5, <1>6, <1>7, <1>8, <1>9 DEF Around, Modes
  <1>21. ASSUME NEW c \in Calls, Runs(c) PROVE StoredInv' /\ HandlersInv'
    BY <1>21, <1>10, <1>11, <1>12, <1>13, <1>14, <1>15, <1>16, <1>17, <1>18 DEF Runs
  <1> QED
    BY <1>19, <1>20, <1>21 DEF Next

\* Every reachable state of the update checker is well typed, whatever the releases,
\* the handlers and the bounds: errors come with the time of a check.
THEOREM UpdateTypes == Spec => []TypeOK
PROOF
  <1>1. TypeInv => TypeOK
    BY DEF TypeInv
  <1> QED
    BY TypeInit, TypeStep, <1>1, PTL DEF Spec

-----------------------------------------------------------------------------
\* Off is silent.

\* A check past its read of the settings, and none changed since, runs under a setting
\* that lets it: that is inductive where OffIsSilent, about the request alone, is not.
Allowed(m, w) ==
  ~w.turned =>
    /\ w.at \in {"due", "previous", "fetch"} => m # "off"
    /\ w.at \in {"previous", "fetch"} /\ w.kind # "force" => m = "auto"
AllowedInv == \A c \in Calls : Allowed(mode, call[c])

\* No check is under way at the start.
LEMMA AllowedInit == Init => AllowedInv
PROOF
  BY DEF Init, AllowedInv, Allowed, Idle

\* Where the setting stays, only the handler that moves matters.
LEMMA AllowedMove ==
  ASSUME AllowedInv, mode' = mode, NEW c \in Calls, \A d \in Calls \ {c} : call'[d] = call[d],
         Allowed(mode, call'[c])
  PROVE  AllowedInv'
PROOF
  BY DEF AllowedInv, Allowed

\* A handler that does nothing is allowed to.
LEMMA IdleAllowed == Allowed(mode, Idle)
PROOF
  BY DEF Allowed, Idle

\* Every step leaves checks that the setting allows, or that it overtook.
LEMMA AllowedStep == TypeInv /\ AllowedInv /\ [Next]_vars => AllowedInv'
PROOF
  <1> SUFFICES ASSUME TypeInv, AllowedInv, [Next]_vars PROVE AllowedInv'
    OBVIOUS
  <1>0. call \in [Calls -> Handler] /\ \A d \in Calls : Sound(call[d].previous)
    BY TypeParts DEF HandlersInv
  <1>i. ASSUME NEW c \in Calls, Put(c, Idle), mode' = mode PROVE AllowedInv'
    BY <1>i, IdleType, PutType, IdleAllowed, AllowedMove
  <1>1. ASSUME UNCHANGED <<mode, call>> PROVE AllowedInv'
    BY <1>1 DEF AllowedInv, Allowed
  <1>2. CASE WorkerDies
    BY <1>2 DEF WorkerDies, AllowedInv, Allowed, Idle
  <1>3. ASSUME NEW c \in Calls, NEW to \in Modes, SetMode(c, to) PROVE AllowedInv'
    <2> SUFFICES ASSUME NEW d \in Calls PROVE Allowed(mode', call'[d])
      BY DEF AllowedInv
    <2>1. CASE d = c
      <3>1. call'[d] = [Idle EXCEPT !.kind = "setGlobal", !.at = "schedule"]
        BY <1>3, <2>1 DEF SetMode
      <3> QED
        BY <3>1 DEF Allowed, Idle
    <2>2. CASE d # c
      <3>1. call'[d] = [call[d] EXCEPT !.turned = call[d].turned \/ Checking(d)]
        BY <1>3, <2>2 DEF SetMode
      <3>2. call'[d].at = call[d].at /\ (call'[d].turned <=> call[d].turned \/ Checking(d))
        BY <1>0, <3>1 DEF Handler
      <3> QED
        BY <3>2 DEF Allowed, Checking
    <2> QED
      BY <2>1, <2>2
  <1>4. ASSUME NEW c \in Calls, AlarmFires(c) \/ CheckNow(c) PROVE AllowedInv'
    <2>1. PICK kind \in {"alarm", "force"} : Begin(c, kind, "check") /\ mode' = mode
      BY <1>4 DEF AlarmFires, CheckNow
    <2>2. call'[c].at = "check" /\ \A d \in Calls \ {c} : call'[d] = call[d]
      BY <2>1, BeginType DEF Kinds, Steps
    <2>3. Allowed(mode, call'[c])
      BY <2>2 DEF Allowed
    <2> QED
      BY <2>1, <2>2, <2>3, AllowedMove
  <1>5. ASSUME NEW c \in Calls, Dismiss(c) PROVE AllowedInv'
    <2>1. call'[c].at = "dismiss" /\ \A d \in Calls \ {c} : call'[d] = call[d]
      BY <1>0, <1>5 DEF Dismiss, Put, Idle
    <2>2. Allowed(mode, call'[c])
      BY <2>1 DEF Allowed
    <2> QED
      BY <1>5, <2>1, <2>2, AllowedMove DEF Dismiss
  <1>6. ASSUME NEW c \in Calls, NEW kind \in Kinds, Restart(c, kind, "schedule"), mode' = mode PROVE AllowedInv'
    BY <1>6 DEF Restart, AllowedInv, Allowed, Idle
  <1>7. ASSUME NEW c \in Calls, ReadSchedule(c) PROVE AllowedInv'
    <2>1. call'[c].at = "arm" /\ \A d \in Calls \ {c} : call'[d] = call[d]
      BY <1>0, <1>7 DEF ReadSchedule, Put, Handler
    <2>2. Allowed(mode, call'[c])
      BY <2>1 DEF Allowed
    <2> QED
      BY <1>7, <2>1, <2>2, AllowedMove DEF ReadSchedule
  <1>8. ASSUME NEW c \in Calls, NEW at \in {"check", "reset"}, Put(c, [call[c] EXCEPT !.at = at]), mode' = mode
        PROVE AllowedInv'
    <2>1. call'[c].at = at /\ \A d \in Calls \ {c} : call'[d] = call[d]
      BY <1>8, MovesOn DEF Steps
    <2>2. Allowed(mode, call'[c])
      BY <2>1 DEF Allowed
    <2> QED
      BY <1>8, <2>1, <2>2, AllowedMove
  <1>9. ASSUME NEW c \in Calls, Arm(c) PROVE AllowedInv'
    BY <1>i, <1>8, <1>9 DEF Arm
  <1>10. ASSUME NEW c \in Calls, ReadSettings(c) PROVE AllowedInv'
    <2>1. CASE mode = "off"
      BY <1>i, <1>10, <2>1 DEF ReadSettings
    <2>2. CASE mode # "off"
      <3> DEFINE at == IF call[c].kind = "force" THEN "previous" ELSE "due"
      <3>1. at \in Steps /\ Put(c, [call[c] EXCEPT !.at = at]) /\ mode' = mode
        BY <1>10, <2>2 DEF ReadSettings, Steps
      <3>2. /\ call'[c].at = at /\ call'[c].kind = call[c].kind
            /\ \A d \in Calls \ {c} : call'[d] = call[d]
        BY <3>1, MovesOn
      <3>3. Allowed(mode, call'[c])
        BY <2>2, <3>2 DEF Allowed
      <3> QED
        BY <3>1, <3>2, <3>3, AllowedMove
    <2> QED
      BY <2>1, <2>2
  <1>11. ASSUME NEW c \in Calls, AskDue(c) PROVE AllowedInv'
    <2>1. CASE ~isDue
      BY <1>i, <1>11, <2>1 DEF AskDue
    <2>2. CASE isDue
      <3>1. Put(c, [call[c] EXCEPT !.at = "previous"]) /\ mode' = mode /\ mode = "auto"
        BY <1>11, <2>2 DEF AskDue, isDue
      <3>2. \A d \in Calls \ {c} : call'[d] = call[d]
        BY <3>1, MovesOn DEF Steps
      <3>3. Allowed(mode, call'[c])
        BY <3>1 DEF Allowed
      <3> QED
        BY <3>1, <3>2, <3>3, AllowedMove
    <2> QED
      BY <2>1, <2>2
  <1>12. ASSUME NEW c \in Calls, Fetch(c) PROVE AllowedInv'
    <2>1. /\ call'[c].kind = call[c].kind /\ call'[c].turned = call[c].turned
          /\ \A d \in Calls \ {c} : call'[d] = call[d]
      BY <1>0, <1>12 DEF Fetch, Put, Handler
    <2>2. call[c].at = "previous" /\ mode' = mode
      BY <1>12 DEF Fetch
    <2>3. Allowed(mode, call'[c])
      BY <2>1, <2>2 DEF AllowedInv, Allowed
    <2> QED
      BY <2>1, <2>2, <2>3, AllowedMove
  <1>13. CASE Around
    BY <1>13, <1>1, <1>2, <1>3, <1>4, <1>5, <1>6
    DEF Around, Modes, Publish, HourPasses, BrowserStarts, Upgraded, Kinds
  <1>14. ASSUME NEW c \in Calls, Runs(c) PROVE AllowedInv'
    BY <1>14, <1>i, <1>7, <1>9, <1>10, <1>11, <1>12 DEF Runs, Reset, Fetched, FetchFailed, Dismissed
  <1> QED
    BY <1>1, <1>13, <1>14 DEF Next, vars

\* Whatever handlers overlap, the host is asked only under a setting that lets it be,
\* or where the setting changed after the check had read it.
THEOREM OffIsAlwaysSilent == Spec => []OffIsSilent
PROOF
  <1>1. AllowedInv => OffIsSilent
    BY DEF AllowedInv, Allowed, OffIsSilent
  <1> QED
    BY TypeInit, TypeStep, AllowedInit, AllowedStep, <1>1, PTL DEF Spec

-----------------------------------------------------------------------------
\* Offers are right.

Bare == {"schedule", "arm", "reset"}
HasRead(w) == w.at \in {"fetch", "dismiss"}

\* While handlers do not cross: who goes by the state it has read has read what is
\* stored, what the user dismissed is stored as dismissed, and what is stored as an
\* offer is newer than what runs or about to be reset.
ReadInv == ~crossed => \A c \in Calls : HasRead(call[c]) => call[c].previous = state
IgnoredInv == ~crossed /\ ignored # NoVersion => state.dismissed = ignored
KindInv == \A c \in Calls : call[c].kind = "installed" => call[c].at \in Bare
NewerInv ==
  ~crossed /\ (\A c \in Calls : call[c].kind # "installed") /\ state.available # NoManifest
    => isNewer(state.available.version, running)
OfferInv == ReadInv /\ IgnoredInv /\ KindInv /\ NewerInv

\* What a step does to one handler when nothing that is stored changes.
Stays(w, next) ==
  /\ HasRead(next) => next.previous = state \/ (HasRead(w) /\ next.previous = w.previous)
  /\ w.kind = "installed" => next.kind = "installed"
  /\ next.kind = "installed" => next.at \in Bare

\* Nothing is on offer, dismissed or read at the start.
LEMMA OfferInit == Init => OfferInv
PROOF
  BY DEF Init, OfferInv, ReadInv, IgnoredInv, KindInv, NewerInv, HasRead, Idle, EmptyState

\* A step that stores nothing keeps the invariant when its handlers do.
LEMMA QuietOffers ==
  ASSUME OfferInv, UNCHANGED <<state, running, ignored>>, crossed => crossed',
         \A d \in Calls : Stays(call[d], call'[d])
  PROVE  OfferInv'
PROOF
  <1>1. ReadInv'
    BY DEF OfferInv, ReadInv, Stays
  <1>2. IgnoredInv'
    BY DEF OfferInv, IgnoredInv
  <1>3. KindInv'
    BY DEF KindInv, Stays
  <1>4. NewerInv'
    BY DEF OfferInv, NewerInv, Stays
  <1> QED
    BY <1>1, <1>2, <1>3, <1>4 DEF OfferInv

\* A handler that does not move stays.
LEMMA SameStays ==
  ASSUME OfferInv, NEW d \in Calls, call'[d] = call[d]
  PROVE  Stays(call[d], call'[d])
PROOF
  BY DEF OfferInv, KindInv, Stays

\* One handler moves and nothing is stored.
LEMMA MoveOffers ==
  ASSUME OfferInv, UNCHANGED <<state, running, ignored>>, crossed => crossed',
         NEW c \in Calls, \A d \in Calls \ {c} : call'[d] = call[d], Stays(call[c], call'[c])
  PROVE  OfferInv'
PROOF
  <1>1. \A d \in Calls : Stays(call[d], call'[d])
    BY SameStays
  <1> QED
    BY <1>1, QuietOffers

\* The end of all handlers is a crossing where there was one: nobody has read anything.
LEMMA RestartOffers ==
  ASSUME TypeInv, OfferInv, NEW c \in Calls, NEW kind \in Kinds, Restart(c, kind, "schedule"),
         UNCHANGED <<state, ignored>>, (running' = running) \/ (kind = "installed")
  PROVE  OfferInv'
PROOF
  <1>1. \A d \in Calls : call'[d].at \in {"idle", "schedule"} /\ call'[d].kind \in {"idle", kind}
    BY DEF Restart, Idle
  <1>2. call'[c].kind = kind /\ \A d \in Calls : call'[d].kind = "installed" => call'[d].at = "schedule"
    BY DEF Restart, Idle
  <1>3. ~crossed' => ~crossed /\ \A d \in Calls : call[d] = Idle
    BY DEF Restart
  <1>4. ReadInv'
    BY <1>1 DEF ReadInv, HasRead
  <1>5. IgnoredInv'
    BY <1>3 DEF OfferInv, IgnoredInv
  <1>6. KindInv'
    BY <1>2 DEF KindInv, Bare
  <1>7. NewerInv'
    <2>1. Idle.kind # "installed"
      BY DEF Idle
    <2>2. CASE kind = "installed"
      BY <1>2, <2>2 DEF NewerInv
    <2>3. CASE kind # "installed"
      BY <1>3, <2>1, <2>3 DEF OfferInv, NewerInv
    <2> QED
      BY <2>2, <2>3
  <1> QED
    BY <1>4, <1>5, <1>6, <1>7 DEF OfferInv

\* The end of the worker is a crossing.
LEMMA DeathOffers ==
  ASSUME TypeInv, OfferInv, WorkerDies
  PROVE  OfferInv'
PROOF
  BY DEF WorkerDies, OfferInv, ReadInv, IgnoredInv, KindInv, NewerInv, HasRead, Idle

\* A write leaves nobody who goes by an older state, or is a crossing.
LEMMA WriteOffers ==
  ASSUME TypeInv, OfferInv, NEW c \in Calls, NEW next, Write(c, next), Put(c, Idle)
  PROVE  /\ ReadInv' /\ KindInv' /\ state' = next
         /\ \A d \in Calls \ {c} : call'[d] = call[d]
         /\ ~crossed' => ~crossed /\ (HasRead(call[c]) => call[c].previous = state)
PROOF
  <1>1. call'[c] = Idle /\ \A d \in Calls \ {c} : call'[d] = call[d]
    BY IdleType, PutType
  <1>2. ~crossed' => ~crossed /\ \A d \in Calls \ {c} : ~Holds(d)
    BY DEF Write
  <1>3. ReadInv'
    BY <1>1, <1>2 DEF ReadInv, HasRead, Holds, Idle
  <1>4. KindInv'
    BY <1>1 DEF OfferInv, KindInv, Idle
  <1> QED
    BY <1>1, <1>2, <1>3, <1>4 DEF Write, OfferInv, ReadInv

\* A reset leaves no offer and forgets the dismissal.
LEMMA ResetOffers ==
  ASSUME TypeInv, OfferInv, NEW c \in Calls, Reset(c)
  PROVE  OfferInv'
PROOF
  <1>1. ReadInv' /\ KindInv' /\ state' = EmptyState
    BY WriteOffers DEF Reset
  <1>2. IgnoredInv'
    BY DEF Reset, IgnoredInv
  <1>3. NewerInv'
    BY <1>1 DEF NewerInv, EmptyState
  <1> QED
    BY <1>1, <1>2, <1>3 DEF OfferInv

\* A handler of an upgrade is at none of the steps of a check or a dismissal.
LEMMA NotInstalled ==
  ASSUME OfferInv, NEW c \in Calls, HasRead(call[c])
  PROVE  call[c].kind # "installed"
PROOF
  BY DEF OfferInv, KindInv, HasRead, Bare

\* An answer is on offer only when it is newer, and keeps the dismissal of the same release.
LEMMA FetchedOffers ==
  ASSUME TypeInv, OfferInv, NEW c \in Calls, Fetched(c)
  PROVE  OfferInv'
PROOF
  <1> DEFINE available == IF isNewer(host.version, running) THEN host ELSE NoManifest
             dismissed == IF available = NoManifest \/ available.version = call[c].previous.dismissed
                            THEN call[c].previous.dismissed ELSE NoVersion
             next == [lastCheckedAt |-> now, lastError |-> FALSE, available |-> available, dismissed |-> dismissed]
  <1>1. Write(c, next) /\ Put(c, Idle) /\ HasRead(call[c]) /\ running' = running
    BY DEF Fetched, HasRead
  <1>2. ignored' = IF available = NoManifest \/ available.version = ignored THEN ignored ELSE NoVersion
    BY DEF Fetched
  <1>3. available # NoManifest => isNewer(available.version, running)
    OBVIOUS
  <1>4. next.available = available /\ next.dismissed = dismissed
    OBVIOUS
  <1>5. call[c].previous.dismissed = ignored => (ignored' # NoVersion => dismissed = ignored')
    BY <1>2
  <1> HIDE DEF next, available, dismissed
  <1>6. /\ ReadInv' /\ KindInv' /\ state' = next
        /\ ~crossed' => ~crossed /\ call[c].previous = state
    BY <1>1, WriteOffers
  <1>7. IgnoredInv'
    <2> SUFFICES ASSUME ~crossed', ignored' # NoVersion PROVE state'.dismissed = ignored'
      BY DEF IgnoredInv
    <2>1. ignored # NoVersion /\ ~crossed /\ call[c].previous = state
      BY <1>2, <1>6
    <2>2. call[c].previous.dismissed = ignored
      BY <2>1 DEF OfferInv, IgnoredInv
    <2> QED
      BY <1>4, <1>5, <1>6, <2>2
  <1>8. NewerInv'
    BY <1>1, <1>3, <1>4, <1>6 DEF NewerInv
  <1> QED
    BY <1>6, <1>7, <1>8 DEF OfferInv

\* A write that keeps the offer and goes by what is stored keeps it right.
LEMMA SameOffer ==
  ASSUME OfferInv, NEW c \in Calls, HasRead(call[c]), \A d \in Calls \ {c} : call'[d] = call[d],
         ~crossed' => ~crossed /\ state'.available = state.available, running' = running
  PROVE  NewerInv'
PROOF
  <1>1. (\A d \in Calls : call'[d].kind # "installed") => \A d \in Calls : call[d].kind # "installed"
    BY NotInstalled
  <1> QED
    BY <1>1 DEF OfferInv, NewerInv

\* A failed check keeps the offer and the dismissal that are stored.
LEMMA FailedOffers ==
  ASSUME TypeInv, OfferInv, NEW c \in Calls, FetchFailed(c)
  PROVE  OfferInv'
PROOF
  <1> DEFINE next == [call[c].previous EXCEPT !.lastCheckedAt = now, !.lastError = TRUE]
  <1>1. Write(c, next) /\ Put(c, Idle) /\ HasRead(call[c]) /\ running' = running /\ ignored' = ignored
    BY DEF FetchFailed, HasRead
  <1>2. call[c].previous \in States
    BY HandlerType DEF TypeInv, Handler
  <1>3. next.available = call[c].previous.available /\ next.dismissed = call[c].previous.dismissed
    BY <1>2 DEF States
  <1> HIDE DEF next
  <1>4. /\ ReadInv' /\ KindInv' /\ state' = next /\ \A d \in Calls \ {c} : call'[d] = call[d]
        /\ ~crossed' => ~crossed /\ call[c].previous = state
    BY <1>1, WriteOffers
  <1>5. IgnoredInv'
    BY <1>1, <1>3, <1>4 DEF OfferInv, IgnoredInv
  <1>6. NewerInv'
    BY <1>1, <1>3, <1>4, SameOffer
  <1> QED
    BY <1>4, <1>5, <1>6 DEF OfferInv

\* A dismissal keeps the offer that is stored.
LEMMA DismissedOffers ==
  ASSUME TypeInv, OfferInv, NEW c \in Calls, Dismissed(c)
  PROVE  OfferInv'
PROOF
  <1> DEFINE next == [call[c].previous EXCEPT !.dismissed = call[c].version]
  <1>1. Write(c, next) /\ Put(c, Idle) /\ HasRead(call[c]) /\ running' = running /\ ignored' = call[c].version
    BY DEF Dismissed, HasRead
  <1>2. call[c].previous \in States
    BY HandlerType DEF TypeInv, Handler
  <1>3. next.available = call[c].previous.available /\ next.dismissed = call[c].version
    BY <1>2 DEF States
  <1> HIDE DEF next
  <1>4. /\ ReadInv' /\ KindInv' /\ state' = next /\ \A d \in Calls \ {c} : call'[d] = call[d]
        /\ ~crossed' => ~crossed /\ call[c].previous = state
    BY <1>1, WriteOffers
  <1>5. IgnoredInv'
    BY <1>1, <1>3, <1>4 DEF IgnoredInv
  <1>6. NewerInv'
    BY <1>1, <1>3, <1>4, SameOffer
  <1> QED
    BY <1>4, <1>5, <1>6 DEF OfferInv

\* A handler begins with a kind of its own and has read nothing, or what is stored.
LEMMA BegunOffers ==
  ASSUME TypeInv, OfferInv, NEW c \in Calls, AlarmFires(c) \/ CheckNow(c) \/ Dismiss(c)
  PROVE  OfferInv'
PROOF
  <1>1. call[c] = Idle /\ UNCHANGED <<state, running, ignored, crossed>>
    BY DEF AlarmFires, CheckNow, Dismiss, Begin
  <1>2. CASE AlarmFires(c) \/ CheckNow(c)
    <2>1. PICK kind \in {"alarm", "force"} : Begin(c, kind, "check")
      BY <1>2 DEF AlarmFires, CheckNow
    <2>2. call'[c].at = "check" /\ call'[c].kind = kind /\ \A d \in Calls \ {c} : call'[d] = call[d]
      BY <2>1, BeginType DEF Kinds, Steps
    <2>3. Stays(call[c], call'[c])
      BY <1>1, <2>2 DEF Stays, HasRead, Idle
    <2> QED
      BY <1>1, <2>2, <2>3, MoveOffers
  <1>3. CASE Dismiss(c)
    <2>1. /\ call'[c].previous = state /\ call'[c].kind = "dismiss"
          /\ \A d \in Calls \ {c} : call'[d] = call[d]
      BY <1>3, HandlerType DEF TypeInv, Dismiss, Put, Idle
    <2>2. call[c].kind # "installed" /\ call'[c].kind # "installed"
      BY <1>1, <2>1 DEF Idle
    <2>3. Stays(call[c], call'[c])
      BY <2>1, <2>2, Zenon DEF Stays
    <2> QED
      BY <1>1, <2>1, <2>3, MoveOffers
  <1> QED
    BY <1>2, <1>3

\* A changed setting touches neither offer nor dismissal.
LEMMA SetModeOffers ==
  ASSUME TypeInv, OfferInv, NEW c \in Calls, NEW to \in Modes, SetMode(c, to)
  PROVE  OfferInv'
PROOF
  <1>1. UNCHANGED <<state, running, ignored, crossed>> /\ call[c] = Idle
    BY DEF SetMode
  <1>2. ASSUME NEW d \in Calls PROVE Stays(call[d], call'[d])
    <2>1. call[d] \in Handler
      BY HandlerType DEF TypeInv
    <2>2. CASE d = c
      <3>1. call'[d] = [Idle EXCEPT !.kind = "setGlobal", !.at = "schedule"]
        BY <2>2 DEF SetMode
      <3> QED
        BY <1>1, <2>2, <3>1 DEF Stays, HasRead, Idle
    <2>3. CASE d # c
      <3>1. call'[d] = [call[d] EXCEPT !.turned = call[d].turned \/ Checking(d)]
        BY <2>3 DEF SetMode
      <3>2. call'[d].at = call[d].at /\ call'[d].kind = call[d].kind /\ call'[d].previous = call[d].previous
        BY <2>1, <3>1 DEF Handler
      <3> QED
        BY <3>2 DEF Stays, HasRead, OfferInv, KindInv
    <2> QED
      BY <2>2, <2>3
  <1> QED
    BY <1>1, <1>2, QuietOffers

\* A handler that moves on keeps its kind, or ends when it was not an upgrade's.
LEMMA MovedOffers ==
  ASSUME TypeInv, OfferInv, NEW c \in Calls, UNCHANGED <<state, running, ignored, crossed>>,
         \/ Put(c, Idle) /\ call[c].kind # "installed"
         \/ \E at \in {"arm", "reset"} : Put(c, [call[c] EXCEPT !.at = at])
         \/ \E at \in {"check", "due", "previous"} :
              Put(c, [call[c] EXCEPT !.at = at]) /\ call[c].kind # "installed"
  PROVE  OfferInv'
PROOF
  <1>1. CASE Put(c, Idle) /\ call[c].kind # "installed"
    <2>1. call'[c] = Idle /\ \A d \in Calls \ {c} : call'[d] = call[d]
      BY <1>1, IdleType, PutType
    <2>2. Stays(call[c], call'[c])
      BY <1>1, <2>1 DEF Stays, HasRead, Idle
    <2> QED
      BY <2>1, <2>2, MoveOffers
  <1>2. ASSUME NEW at \in {"arm", "reset", "check", "due", "previous"}, Put(c, [call[c] EXCEPT !.at = at]),
               call[c].kind = "installed" => at \in {"arm", "reset"}
        PROVE  OfferInv'
    <2>1. /\ call'[c].at = at /\ call'[c].kind = call[c].kind
          /\ \A d \in Calls \ {c} : call'[d] = call[d]
      BY <1>2, MovesOn DEF Steps
    <2>2. Stays(call[c], call'[c])
      BY <1>2, <2>1 DEF Stays, HasRead, Bare
    <2> QED
      BY <2>1, <2>2, MoveOffers
  <1> QED
    BY <1>1, <1>2

\* The steps of a handler that store nothing.
LEMMA RunsOffers ==
  ASSUME TypeInv, OfferInv, NEW c \in Calls,
         ReadSchedule(c) \/ Arm(c) \/ ReadSettings(c) \/ AskDue(c) \/ Fetch(c)
  PROVE  OfferInv'
PROOF
  <1>0. call \in [Calls -> Handler]
    BY HandlerType DEF TypeInv
  <1>1. CASE ReadSchedule(c)
    <2>1. /\ call'[c].at = "arm" /\ call'[c].kind = call[c].kind
          /\ \A d \in Calls \ {c} : call'[d] = call[d]
      BY <1>0, <1>1 DEF ReadSchedule, Put, Handler
    <2>2. Stays(call[c], call'[c])
      BY <2>1 DEF Stays, HasRead, Bare
    <2> QED
      BY <1>1, <2>1, <2>2, MoveOffers DEF ReadSchedule
  <1>2. CASE Arm(c)
    BY <1>2, MovedOffers DEF Arm
  <1>3. CASE ReadSettings(c)
    <2>1. call[c].kind # "installed"
      BY <1>3 DEF ReadSettings, OfferInv, KindInv, Bare
    <2> QED
      BY <1>3, <2>1, MovedOffers DEF ReadSettings
  <1>4. CASE AskDue(c)
    <2>1. call[c].kind # "installed"
      BY <1>4 DEF AskDue, OfferInv, KindInv, Bare
    <2> QED
      BY <1>4, <2>1, MovedOffers DEF AskDue
  <1>5. CASE Fetch(c)
    <2>1. /\ call'[c].previous = state /\ call'[c].kind = call[c].kind
          /\ \A d \in Calls \ {c} : call'[d] = call[d]
      BY <1>0, <1>5 DEF Fetch, Put, Handler
    <2>2. call[c].kind # "installed"
      BY <1>5 DEF Fetch, OfferInv, KindInv, Bare
    <2>3. Stays(call[c], call'[c])
      BY <2>1, <2>2, Zenon DEF Stays
    <2>4. UNCHANGED <<state, running, ignored>> /\ (crossed => crossed')
      BY <1>5 DEF Fetch
    <2> QED
      BY <2>1, <2>3, <2>4, MoveOffers
  <1> QED
    BY <1>1, <1>2, <1>3, <1>4, <1>5

\* Every step keeps offers right.
LEMMA OfferStep == TypeInv /\ OfferInv /\ [Next]_vars => OfferInv'
PROOF
  <1> SUFFICES ASSUME TypeInv, OfferInv, [Next]_vars PROVE OfferInv'
    OBVIOUS
  <1>1. ASSUME UNCHANGED <<state, running, ignored, crossed, call>> PROVE OfferInv'
    BY <1>1, SameStays, QuietOffers
  <1>2. CASE Around
    BY <1>1, <1>2, DeathOffers, BegunOffers, SetModeOffers, RestartOffers
    DEF Around, Modes, Publish, HourPasses, BrowserStarts, Upgraded, Kinds
  <1>3. ASSUME NEW c \in Calls, Runs(c) PROVE OfferInv'
    BY <1>3, RunsOffers, ResetOffers, FetchedOffers, FailedOffers, DismissedOffers DEF Runs
  <1> QED
    BY <1>1, <1>2, <1>3 DEF Next, vars

\* A digit more weighs more than what a smaller number can have below it.
LEMMA DigitCounts ==
  ASSUME NEW x \in Int, NEW y \in Int, x < y, NEW a \in Int, NEW b \in Int, a < Radix, b >= 0
  PROVE  x * Radix + a < y * Radix + b
PROOF
  <1>1. Radix \in Int /\ Radix >= 0
    BY RadixAssumption
  <1> DEFINE d == y - x - 1
  <1>2. d \in Int /\ d >= 0 /\ y = x + 1 + d
    OBVIOUS
  <1> HIDE DEF d
  <1>3. d * Radix >= 0
    BY <1>1, <1>2
  <1>4. y * Radix = x * Radix + Radix + d * Radix
    BY <1>1, <1>2
  <1>5. x * Radix \in Int /\ d * Radix \in Int /\ y * Radix \in Int
    BY <1>1, <1>2
  <1> QED
    BY <1>1, <1>3, <1>4, <1>5

\* Equal digits before, a smaller number of the rest weighs less.
LEMMA SameDigitCounts ==
  ASSUME NEW x \in Int, NEW a \in Int, NEW b \in Int, a < b
  PROVE  x * Radix + a < x * Radix + b
PROOF
  <1>1. x * Radix \in Int
    BY RadixAssumption
  <1> QED
    BY <1>1

\* The order of versions is the order of their weights.
LEMMA NewerWeighsMore ==
  ASSUME NEW v \in Releases, NEW w \in Releases, isNewer(v, w)
  PROVE  Weight(v) > Weight(w)
PROOF
  <1>1. isValidVersion(v) /\ isValidVersion(w) /\ Below(w, v)
    BY DEF isNewer, compareVersions
  <1>2. PICK i \in 1..MaxComponents : BelowAt(w, v, i)
    BY <1>1 DEF Below
  <1>3. v \in Seq(Nat) /\ w \in Seq(Nat)
    BY FirstAssumption
  <1>4. ASSUME NEW u \in Seq(Nat), u \in Releases, isValidVersion(u), NEW k \in 1..4
        PROVE  Component(u, k) \in Int /\ Component(u, k) >= 0 /\ Component(u, k) < Radix
    <2>1. Component(u, k) < Radix
      BY <1>4, RadixAssumption DEF MaxComponents
    <2>2. k \in 1..Len(u) => u[k] \in Nat
      OBVIOUS
    <2>3. Len(u) \in Nat
      OBVIOUS
    <2> QED
      BY <2>1, <2>2, <2>3 DEF Component
  <1> DEFINE a(k) == Component(w, k)
             b(k) == Component(v, k)
  <1>5. /\ a(1) \in Int /\ a(2) \in Int /\ a(3) \in Int /\ a(4) \in Int
        /\ b(1) \in Int /\ b(2) \in Int /\ b(3) \in Int /\ b(4) \in Int
        /\ a(2) < Radix /\ a(3) < Radix /\ a(4) < Radix
        /\ b(2) >= 0 /\ b(3) >= 0 /\ b(4) >= 0
    BY <1>1, <1>3, <1>4
  <1>6. a(i) < b(i) /\ \A j \in 1..(i - 1) : a(j) = b(j)
    BY <1>2 DEF BelowAt
  <1>7. /\ Weight(w) = ((a(1) * Radix + a(2)) * Radix + a(3)) * Radix + a(4)
        /\ Weight(v) = ((b(1) * Radix + b(2)) * Radix + b(3)) * Radix + b(4)
    BY DEF Weight
  <1>r. Radix \in Int
    BY RadixAssumption
  <1> HIDE DEF a, b
  <1> DEFINE a2 == a(1) * Radix + a(2)
             b2 == b(1) * Radix + b(2)
             a3 == a2 * Radix + a(3)
             b3 == b2 * Radix + b(3)
             a4 == a3 * Radix + a(4)
             b4 == b3 * Radix + b(4)
  <1>8. a2 \in Int /\ b2 \in Int
    BY <1>5, <1>r
  <1>9. a3 \in Int /\ b3 \in Int
    <2> HIDE DEF a2, b2
    <2> QED
      BY <1>5, <1>8, <1>r
  <1>10. a(1) < b(1) => a2 < b2
    BY <1>5, DigitCounts
  <1>11. a(1) = b(1) /\ a(2) < b(2) => a2 < b2
    BY <1>5, SameDigitCounts
  <1>12. a(1) = b(1) /\ a(2) = b(2) => a2 = b2
    OBVIOUS
  <1>13. a2 < b2 => a3 < b3
    <2> HIDE DEF a2, b2
    <2> QED
      BY <1>5, <1>8, DigitCounts
  <1>14. a2 = b2 /\ a(3) < b(3) => a3 < b3
    <2> HIDE DEF a2, b2
    <2> QED
      BY <1>5, <1>8, SameDigitCounts
  <1>15. a2 = b2 /\ a(3) = b(3) => a3 = b3
    OBVIOUS
  <1>16. a3 < b3 => a4 < b4
    <2> HIDE DEF a3, b3
    <2> QED
      BY <1>5, <1>9, DigitCounts
  <1>17. a3 = b3 /\ a(4) < b(4) => a4 < b4
    <2> HIDE DEF a3, b3
    <2> QED
      BY <1>5, <1>9, SameDigitCounts
  <1>18. Weight(w) = a4 /\ Weight(v) = b4
    BY <1>7
  <1>19. a4 \in Int /\ b4 \in Int
    <2> HIDE DEF a3, b3
    <2> QED
      BY <1>5, <1>9, <1>r
  <1> HIDE DEF a2, b2, a3, b3, a4, b4
  <1>20. a4 < b4
    <2>1. CASE i = 1
      BY <1>6, <1>10, <1>13, <1>16, <2>1
    <2>2. CASE i = 2
      BY <1>6, <1>11, <1>13, <1>16, <2>2
    <2>3. CASE i = 3
      BY <1>6, <1>12, <1>14, <1>16, <2>3
    <2>4. CASE i = 4
      BY <1>6, <1>12, <1>15, <1>17, <2>4
    <2> QED
      BY <2>1, <2>2, <2>3, <2>4 DEF MaxComponents
  <1> QED
    BY <1>18, <1>19, <1>20

\* What is on offer is newer than what runs and was not dismissed before, for any
\* releases and handlers, as long as none wrote over what another had read.
THEOREM OffersAreAlwaysRight == Spec => []OffersAreRight
PROOF
  <1>1. TypeInv /\ OfferInv => OffersAreRight
    <2> SUFFICES ASSUME TypeInv, OfferInv PROVE OffersAreRight
      OBVIOUS
    <2>1. TypeOK
      BY DEF TypeInv
    <2>2. DismissedStaysQuiet
      BY DEF OfferInv, IgnoredInv, DismissedStaysQuiet, shouldNotify
    <2>3. OfferIsNewer
      <3> SUFFICES ASSUME state.available # NoManifest, ~crossed, ~(\E c \in Calls : call[c].kind = "installed")
                   PROVE  Weight(state.available.version) > Weight(running)
        BY DEF OfferIsNewer
      <3>1. isNewer(state.available.version, running)
        BY DEF OfferInv, NewerInv
      <3>2. state.available.version \in Releases /\ running \in Releases
        BY <2>1 DEF TypeOK, States, Manifests
      <3> QED
        BY <3>1, <3>2, NewerWeighsMore
    <2> QED
      BY <2>1, <2>2, <2>3 DEF OffersAreRight
  <1> QED
    BY TypeInit, TypeStep, OfferInit, OfferStep, <1>1, PTL DEF Spec

-----------------------------------------------------------------------------
\* The host is spared.

Unasked(w) == w.kind # "force"
Waited(s, hours) ==
  /\ s.lastError => hours >= ErrorBackoff
  /\ ~s.lastError => hours >= IntervalHours
Due(s, t) == s.lastCheckedAt = Never \/ Waited(s, t - s.lastCheckedAt)

\* While handlers do not cross: a check that may send its request is due, and the last
\* check that is stored is no older than the last request, unless one is on its way.
DueInv == ~crossed => \A c \in Calls : call[c].at = "previous" /\ Unasked(call[c]) => Due(state, now)
AskedInv ==
  ~crossed /\ (\A c \in Calls : call[c].at = "fetch" => ~Unasked(call[c]))
    /\ asked # Never /\ state.lastCheckedAt # Never => asked <= state.lastCheckedAt
SparedInv == DueInv /\ AskedInv /\ (asked # Never => asked <= now)

\* What a step does to one handler when neither a check is stored nor a request sent.
Waits(w, next) ==
  /\ next.at = "previous" /\ Unasked(next) => (w.at = "previous" /\ Unasked(w)) \/ Due(state, now)
  /\ w.at = "fetch" /\ Unasked(w) => next.at = "fetch" /\ Unasked(next)

\* Nobody has checked at the start.
LEMMA SparedInit == Init => SparedInv
PROOF
  BY DEF Init, SparedInv, DueInv, AskedInv, Idle

\* What is due stays due.
LEMMA DueStays ==
  ASSUME TypeInv, Due(state, now), now' \in Int, now' >= now
  PROVE  Due(state, now')
PROOF
  <1>1. now \in Int /\ (state.lastCheckedAt # Never => state.lastCheckedAt \in Int)
    BY DEF TypeInv, TypeOK, States, Never
  <1> QED
    BY <1>1, IntervalAssumption DEF Due, Waited, ErrorBackoff

\* A step that stores no check and sends no request keeps the invariant.
LEMMA QuietSpared ==
  ASSUME TypeInv, SparedInv, UNCHANGED <<state, asked>>, now' \in Int, now' >= now, crossed => crossed',
         \A d \in Calls : Waits(call[d], call'[d])
  PROVE  SparedInv'
PROOF
  <1>1. DueInv'
    <2> SUFFICES ASSUME ~crossed', NEW d \in Calls, call'[d].at = "previous", Unasked(call'[d])
                 PROVE  Due(state', now')
      BY DEF DueInv
    <2>1. Due(state, now)
      BY DEF Waits, SparedInv, DueInv
    <2> QED
      BY <2>1, DueStays
  <1>2. AskedInv'
    <2>1. (\A d \in Calls : call'[d].at = "fetch" => ~Unasked(call'[d]))
            => \A d \in Calls : call[d].at = "fetch" => ~Unasked(call[d])
      BY DEF Waits
    <2> QED
      BY <2>1 DEF SparedInv, AskedInv
  <1>3. asked' # Never => asked' <= now'
    <2>1. asked \in Int /\ now \in Int
      BY DEF TypeInv, TypeOK, Never
    <2> QED
      BY <2>1 DEF SparedInv
  <1> QED
    BY <1>1, <1>2, <1>3 DEF SparedInv

\* One handler moves, at the same hour.
LEMMA MoveSpared ==
  ASSUME TypeInv, SparedInv, UNCHANGED <<state, asked, now>>, crossed => crossed',
         NEW c \in Calls, \A d \in Calls \ {c} : call'[d] = call[d], Waits(call[c], call'[c])
  PROVE  SparedInv'
PROOF
  <1>1. \A d \in Calls : Waits(call[d], call'[d])
    BY DEF Waits
  <1>2. now' \in Int /\ now' >= now
    BY DEF TypeInv, TypeOK
  <1> QED
    BY <1>1, <1>2, QuietSpared

\* A handler that moves to a step before it is due, or ends, was not asking.
LEMMA MovedSpared ==
  ASSUME TypeInv, SparedInv, UNCHANGED <<state, asked, now>>, crossed => crossed', NEW c \in Calls,
         \A d \in Calls \ {c} : call'[d] = call[d], call[c].at # "fetch",
         call'[c].at = "previous" => ~Unasked(call'[c])
  PROVE  SparedInv'
PROOF
  <1>1. Waits(call[c], call'[c])
    BY DEF Waits
  <1> QED
    BY <1>1, MoveSpared

\* Where all handlers end and none has checked, nothing was on its way, or it is a crossing.
LEMMA EndSpared ==
  ASSUME SparedInv, UNCHANGED <<state, asked, now>>, ~crossed' => ~crossed /\ \A d \in Calls : call[d] = Idle,
         \A d \in Calls : call'[d].at \in {"idle", "schedule"}
  PROVE  SparedInv'
PROOF
  <1>1. ~crossed' => \A d \in Calls : call[d].at # "fetch"
    BY DEF Idle
  <1>2. DueInv'
    BY DEF DueInv
  <1>3. AskedInv'
    BY <1>1 DEF SparedInv, AskedInv
  <1> QED
    BY <1>2, <1>3 DEF SparedInv

\* A write leaves nobody about to ask, or is a crossing.
LEMMA WriteSpared ==
  ASSUME TypeInv, SparedInv, NEW c \in Calls, NEW next, Write(c, next), Put(c, Idle), UNCHANGED <<asked, now>>,
         ~crossed' /\ (\A d \in Calls \ {c} : call[d].at # "fetch") /\ asked # Never /\ next.lastCheckedAt # Never
           => asked <= next.lastCheckedAt
  PROVE  SparedInv'
PROOF
  <1>1. call'[c] = Idle /\ \A d \in Calls \ {c} : call'[d] = call[d]
    BY IdleType, PutType
  <1>2. state' = next /\ (~crossed' => ~crossed /\ \A d \in Calls \ {c} : ~Holds(d))
    BY DEF Write
  <1>3. DueInv'
    BY <1>1, <1>2 DEF DueInv, Holds, Idle
  <1>4. AskedInv'
    BY <1>1, <1>2 DEF AskedInv, Holds
  <1> QED
    BY <1>3, <1>4 DEF SparedInv

\* The writes: of a check at this hour, of none, or of the one that is stored.
LEMMA WritesSpared ==
  ASSUME TypeInv, OfferInv, SparedInv, NEW c \in Calls,
         Reset(c) \/ Fetched(c) \/ FetchFailed(c) \/ Dismissed(c)
  PROVE  SparedInv'
PROOF
  <1>0. call[c].previous \in States /\ now # Never
    BY HandlerType DEF TypeInv, TypeOK, Handler, Never
  <1>1. CASE Reset(c)
    BY <1>1, WriteSpared DEF Reset, EmptyState
  <1>2. CASE Fetched(c)
    <2>1. PICK next : Write(c, next) /\ next.lastCheckedAt = now
      BY <1>2 DEF Fetched
    <2> QED
      BY <1>2, <2>1, WriteSpared DEF Fetched, SparedInv
  <1>3. CASE FetchFailed(c)
    <2>1. [call[c].previous EXCEPT !.lastCheckedAt = now, !.lastError = TRUE].lastCheckedAt = now
      BY <1>0 DEF States
    <2> QED
      BY <1>3, <2>1, WriteSpared DEF FetchFailed, SparedInv
  <1>4. CASE Dismissed(c)
    <2> DEFINE next == [call[c].previous EXCEPT !.dismissed = call[c].version]
    <2>1. next.lastCheckedAt = call[c].previous.lastCheckedAt
      BY <1>0 DEF States
    <2>2. Write(c, next) /\ Put(c, Idle) /\ call[c].at = "dismiss" /\ UNCHANGED <<asked, now>>
      BY <1>4 DEF Dismissed
    <2> HIDE DEF next
    <2>3. ~crossed' => ~crossed /\ call[c].previous = state
      BY <2>2, WriteOffers DEF HasRead
    <2>4. ~crossed' /\ (\A d \in Calls \ {c} : call[d].at # "fetch") /\ asked # Never /\ next.lastCheckedAt # Never
            => asked <= next.lastCheckedAt
      BY <2>1, <2>2, <2>3 DEF SparedInv, AskedInv
    <2> QED
      BY <2>2, <2>4, WriteSpared
  <1> QED
    BY <1>1, <1>2, <1>3, <1>4

\* The steps around the worker send no request.
LEMMA AroundSpared ==
  ASSUME TypeInv, SparedInv, Around
  PROVE  SparedInv'
PROOF
  <1>0. call \in [Calls -> Handler] /\ now \in Int
    BY HandlerType DEF TypeInv, TypeOK
  <1>1. CASE \E manifest \in Manifests \cup {NoManifest} : Publish(manifest)
    <2>1. UNCHANGED <<state, asked, now, crossed, call>>
      BY <1>1 DEF Publish
    <2>2. \A d \in Calls : Waits(call[d], call'[d])
      BY <2>1 DEF Waits
    <2> QED
      BY <1>0, <2>1, <2>2, QuietSpared
  <1>2. CASE HourPasses
    <2>1. UNCHANGED <<state, asked, crossed, call>> /\ now' = now + 1
      BY <1>2 DEF HourPasses
    <2>2. \A d \in Calls : Waits(call[d], call'[d])
      BY <2>1 DEF Waits
    <2> QED
      BY <1>0, <2>1, <2>2, QuietSpared
  <1>3. CASE WorkerDies
    <2>1. UNCHANGED <<state, asked, now>> /\ crossed' = TRUE /\ \A d \in Calls : call'[d].at = "idle"
      BY <1>3 DEF WorkerDies, Idle
    <2> QED
      BY <2>1, EndSpared
  <1>4. ASSUME NEW c \in Calls, NEW to \in Modes, SetMode(c, to) PROVE SparedInv'
    <2>1. UNCHANGED <<state, asked, now, crossed>> /\ call[c] = Idle
      BY <1>4 DEF SetMode
    <2>2. ASSUME NEW d \in Calls PROVE Waits(call[d], call'[d])
      <3>1. CASE d = c
        <4>1. call'[d].at = "schedule"
          BY <1>4, <3>1 DEF SetMode, Idle
        <4> QED
          BY <2>1, <3>1, <4>1 DEF Waits, Idle
      <3>2. CASE d # c
        <4>1. call'[d] = [call[d] EXCEPT !.turned = call[d].turned \/ Checking(d)]
          BY <1>4, <3>2 DEF SetMode
        <4>2. call'[d].at = call[d].at /\ call'[d].kind = call[d].kind
          BY <1>0, <4>1 DEF Handler
        <4> QED
          BY <4>2 DEF Waits, Unasked
      <3> QED
        BY <3>1, <3>2
    <2> QED
      BY <1>0, <2>1, <2>2, QuietSpared
  <1>5. ASSUME NEW c \in Calls, AlarmFires(c) \/ CheckNow(c) PROVE SparedInv'
    <2>1. PICK kind \in {"alarm", "force"} : Begin(c, kind, "check") /\ UNCHANGED <<state, asked, now, crossed>>
      BY <1>5 DEF AlarmFires, CheckNow
    <2>2. call'[c].at = "check" /\ \A d \in Calls \ {c} : call'[d] = call[d]
      BY <2>1, BeginType DEF Kinds, Steps
    <2>3. call[c].at = "idle"
      BY <2>1 DEF Begin, Idle
    <2> QED
      BY <2>1, <2>2, <2>3, MovedSpared
  <1>6. ASSUME NEW c \in Calls, Dismiss(c) PROVE SparedInv'
    <2>1. call'[c].at = "dismiss" /\ call[c].at = "idle" /\ \A d \in Calls \ {c} : call'[d] = call[d]
      BY <1>0, <1>6 DEF Dismiss, Put, Idle
    <2> QED
      BY <1>6, <2>1, MovedSpared DEF Dismiss
  <1>7. ASSUME NEW c \in Calls, NEW kind \in Kinds, Restart(c, kind, "schedule"), UNCHANGED <<state, asked, now>>
        PROVE  SparedInv'
    <2>1. \A d \in Calls : call'[d].at \in {"idle", "schedule"}
      BY <1>7 DEF Restart, Idle
    <2>2. ~crossed' => ~crossed /\ \A d \in Calls : call[d] = Idle
      BY <1>7 DEF Restart
    <2> QED
      BY <1>7, <2>1, <2>2, EndSpared
  <1> QED
    BY <1>1, <1>2, <1>3, <1>4, <1>5, <1>6, <1>7 DEF Around, Modes, BrowserStarts, Upgraded, Kinds

\* A check that asks when it is due, and the request it sends.
LEMMA AskSpared ==
  ASSUME TypeInv, SparedInv, NEW c \in Calls, AskDue(c) \/ Fetch(c)
  PROVE  SparedInv'
PROOF
  <1>0. call \in [Calls -> Handler] /\ now \in Int
    BY HandlerType DEF TypeInv, TypeOK
  <1>1. CASE AskDue(c)
    <2>0. UNCHANGED <<state, asked, now, crossed>> /\ call[c].at = "due"
      BY <1>1 DEF AskDue
    <2>1. CASE isDue
      <3>1. Due(state, now)
        <4>1. /\ Wait \in Int
              /\ state.lastError => Wait >= ErrorBackoff
              /\ ~state.lastError => Wait = IntervalHours
          BY IntervalAssumption DEF Wait, ErrorBackoff
        <4>2. state.lastCheckedAt \in Int
          BY DEF TypeInv, TypeOK, States, Never
        <4>3. ErrorBackoff \in Int
          BY DEF ErrorBackoff
        <4> QED
          BY <1>0, <2>1, <4>1, <4>2, <4>3 DEF isDue, Due, Waited
      <3>2. \A d \in Calls \ {c} : call'[d] = call[d]
        BY <1>0, <1>1 DEF AskDue, Put
      <3>3. Waits(call[c], call'[c])
        BY <2>0, <3>1 DEF Waits
      <3> QED
        BY <2>0, <3>2, <3>3, MoveSpared
    <2>2. CASE ~isDue
      <3>1. call'[c] = Idle /\ \A d \in Calls \ {c} : call'[d] = call[d]
        BY <1>1, <2>2, IdleType, PutType DEF AskDue
      <3> QED
        BY <2>0, <3>1, MovedSpared DEF Idle
    <2> QED
      BY <2>1, <2>2
  <1>2. CASE Fetch(c)
    <2>1. /\ call'[c].at = "fetch" /\ call'[c].kind = call[c].kind
          /\ \A d \in Calls \ {c} : call'[d] = call[d]
      BY <1>0, <1>2 DEF Fetch, Put, Handler
    <2>2. UNCHANGED <<state, now>> /\ (crossed => crossed') /\ call[c].at = "previous"
      BY <1>2 DEF Fetch
    <2>3. CASE ~Unasked(call[c])
      <3>1. asked' = asked
        BY <1>2, <2>3 DEF Fetch, Unasked
      <3> QED
        BY <2>1, <2>2, <3>1, MovedSpared
    <2>4. CASE Unasked(call[c])
      <3>1. asked' = now
        BY <1>2, <2>4 DEF Fetch, Unasked
      <3>2. call'[c].at = "fetch" /\ Unasked(call'[c])
        BY <2>1, <2>4 DEF Unasked
      <3>3. DueInv'
        BY <2>1, <2>2 DEF SparedInv, DueInv
      <3>4. AskedInv'
        BY <3>2 DEF AskedInv
      <3> QED
        BY <1>0, <2>2, <3>1, <3>3, <3>4 DEF SparedInv
    <2> QED
      BY <2>3, <2>4
  <1> QED
    BY <1>1, <1>2

\* Every step spares the host.
LEMMA SparedStep == TypeInv /\ OfferInv /\ SparedInv /\ [Next]_vars => SparedInv'
PROOF
  <1> SUFFICES ASSUME TypeInv, OfferInv, SparedInv, [Next]_vars PROVE SparedInv'
    OBVIOUS
  <1>0. call \in [Calls -> Handler] /\ now \in Int
    BY HandlerType DEF TypeInv, TypeOK
  <1>1. CASE UNCHANGED vars
    <2>1. UNCHANGED <<state, asked, now, crossed, call>>
      BY <1>1 DEF vars
    <2>2. \A d \in Calls : Waits(call[d], call'[d])
      BY <2>1 DEF Waits
    <2> QED
      BY <1>0, <2>1, <2>2, QuietSpared
  <1>2. ASSUME NEW c \in Calls, ReadSchedule(c) PROVE SparedInv'
    <2>1. call'[c].at = "arm" /\ \A d \in Calls \ {c} : call'[d] = call[d]
      BY <1>0, <1>2 DEF ReadSchedule, Put, Handler
    <2> QED
      BY <1>2, <2>1, MovedSpared DEF ReadSchedule
  <1>3. ASSUME NEW c \in Calls, UNCHANGED <<state, asked, now, crossed>>, call[c].at # "fetch",
               \/ Put(c, Idle)
               \/ \E at \in {"check", "reset", "due"} : Put(c, [call[c] EXCEPT !.at = at])
        PROVE  SparedInv'
    <2>1. call'[c].at # "previous" /\ \A d \in Calls \ {c} : call'[d] = call[d]
      <3>1. CASE Put(c, Idle)
        BY <3>1, IdleType, PutType DEF Idle
      <3>2. ASSUME NEW at \in {"check", "reset", "due"}, Put(c, [call[c] EXCEPT !.at = at])
            PROVE  call'[c].at # "previous" /\ \A d \in Calls \ {c} : call'[d] = call[d]
        BY <3>2, MovesOn DEF Steps
      <3> QED
        BY <1>3, <3>1, <3>2
    <2> QED
      BY <1>3, <2>1, MovedSpared
  <1>4. ASSUME NEW c \in Calls, Arm(c) PROVE SparedInv'
    BY <1>3, <1>4 DEF Arm
  <1>5. ASSUME NEW c \in Calls, ReadSettings(c) PROVE SparedInv'
    <2>0. UNCHANGED <<state, asked, now, crossed>> /\ call[c].at = "check"
      BY <1>5 DEF ReadSettings
    <2>1. CASE mode = "off" \/ call[c].kind # "force"
      BY <1>3, <1>5, <2>0, <2>1 DEF ReadSettings
    <2>2. CASE mode # "off" /\ call[c].kind = "force"
      <3>1. call'[c].kind = "force" /\ \A d \in Calls \ {c} : call'[d] = call[d]
        BY <1>5, <2>2, MovesOn DEF ReadSettings, Steps
      <3> QED
        BY <2>0, <3>1, MovedSpared DEF Unasked
    <2> QED
      BY <2>1, <2>2
  <1>6. CASE Around
    BY <1>6, AroundSpared
  <1>7. ASSUME NEW c \in Calls, Runs(c) PROVE SparedInv'
    BY <1>7, <1>2, <1>4, <1>5, AskSpared, WritesSpared DEF Runs
  <1> QED
    BY <1>1, <1>6, <1>7 DEF Next

\* However checks, dismissals, starts and upgrades follow each other, the host is not
\* asked of itself before the hour of a failed check or the interval of any other has
\* passed since it was last asked so, unless handlers crossed or an upgrade began anew.
THEOREM HostIsAlwaysSpared == Spec => HostIsSpared
PROOF
  <1>1. TypeInv /\ SparedInv /\ [Next]_vars =>
          [\A c \in Calls :
             call'[c].at = "fetch" /\ call[c].at = "previous" /\ call[c].kind # "force"
               /\ ~crossed' /\ asked # Never /\ state.lastCheckedAt # Never
               => /\ state.lastError => now - asked >= ErrorBackoff
                  /\ ~state.lastError => now - asked >= IntervalHours]_vars
    <2> SUFFICES ASSUME TypeInv, SparedInv, Next, NEW c \in Calls,
                        call'[c].at = "fetch", call[c].at = "previous", call[c].kind # "force",
                        ~crossed', asked # Never, state.lastCheckedAt # Never
                 PROVE  Waited(state, now - asked)
      BY DEF vars, Waited
    <2>1. ~crossed /\ \A d \in Calls \ {c} : ~Holds(d)
      <3>0. call \in [Calls -> Handler]
        BY HandlerType DEF TypeInv
      <3>1. ASSUME NEW d \in Calls, Fetch(d) PROVE ~crossed /\ \A e \in Calls \ {c} : ~Holds(e)
        <4>1. d = c
          BY <3>0, <3>1 DEF Fetch, Put
        <4> QED
          BY <3>1, <4>1 DEF Fetch
      <3>2. ASSUME NEW d \in Calls, ~Fetch(d), Runs(d) PROVE FALSE
        <4>1. call'[c] = call[c] \/ d = c
          BY <3>0, <3>2 DEF Runs, ReadSchedule, Arm, Reset, ReadSettings, AskDue, Fetched, FetchFailed, Dismissed, Put
        <4>2. d # c
          BY <3>2 DEF Runs, ReadSchedule, Arm, Reset, ReadSettings, AskDue, Fetched, FetchFailed, Dismissed
        <4> QED
          BY <4>1, <4>2
      <3>3. CASE Around
        <4>1. ASSUME NEW d \in Calls, NEW w, Put(d, w), w.at # "fetch" PROVE FALSE
          BY <3>0, <4>1 DEF Put
        <4>2. ASSUME NEW d \in Calls, AlarmFires(d) \/ CheckNow(d) \/ Dismiss(d) PROVE FALSE
          BY <4>1, <4>2 DEF AlarmFires, CheckNow, Dismiss, Begin, Idle
        <4>3. ASSUME NEW d \in Calls, NEW to \in Modes, SetMode(d, to) PROVE FALSE
          <5>1. CASE c = d
            BY <4>3, <5>1 DEF SetMode, Idle
          <5>2. CASE c # d
            <6>1. call'[c] = [call[c] EXCEPT !.turned = call[c].turned \/ Checking(c)]
              BY <4>3, <5>2 DEF SetMode
            <6> QED
              BY <3>0, <6>1 DEF Handler
          <5> QED
            BY <5>1, <5>2
        <4>4. ASSUME NEW d \in Calls, NEW kind \in Kinds, Restart(d, kind, "schedule") PROVE FALSE
          BY <4>4 DEF Restart, Idle
        <4>5. ~WorkerDies /\ ~HourPasses
          BY DEF WorkerDies, HourPasses, Idle
        <4> QED
          BY <3>3, <4>2, <4>3, <4>4, <4>5 DEF Around, Publish, BrowserStarts, Upgraded, Modes, Kinds
      <3> QED
        BY <3>1, <3>2, <3>3 DEF Next
    <2>2. Due(state, now)
      BY <2>1 DEF SparedInv, DueInv, Unasked
    <2>3. asked <= state.lastCheckedAt
      BY <2>1 DEF SparedInv, AskedInv, Holds
    <2>4. asked \in Int /\ now \in Int /\ state.lastCheckedAt \in Int
      BY DEF TypeInv, TypeOK, States, Never
    <2> QED
      BY <2>2, <2>3, <2>4, IntervalAssumption DEF Due, Waited, ErrorBackoff
  <1> QED
    BY TypeInit, TypeStep, OfferInit, OfferStep, SparedInit, SparedStep, <1>1, PTL DEF Spec, HostIsSpared

=============================================================================
