----------------------------- MODULE WorkerProofs -----------------------------
(***************************************************************************)
(* The background worker and the client of the native bridge in it, for    *)
(* any number of handlers, events, calls and faults: the alarms that       *)
(* should be set are, the syncs that were asked for come, the client keeps *)
(* its table and its timers exact and implements CallTable, and the host   *)
(* decodes exactly the messages that were written, however their bytes     *)
(* come.  And, of the algorithms that the worker calls or that are called  *)
(* in a page: hosts have the domains that the list gives them, logins and  *)
(* forms match, and records are posted exactly, of any length and number.  *)
(***************************************************************************)
EXTENDS Background, Bridge, Algorithms, SequenceTheorems, WellFoundedInduction, TLAPS

-----------------------------------------------------------------------------
\* The awaits that a handler has left.

\* Which await follows which.
Paired(s, i) ==
  /\ s[i] \in {"unlock", "protect", "setPrefs"} => i < Len(s) /\ s[i + 1] = "clearLock"
  /\ s[i] = "clearLock" => i < Len(s) /\ s[i + 1] = "lockAfter?"
  /\ s[i] = "lockAfter?" => i < Len(s) /\ s[i + 1] = "armLock"
  /\ s[i] = "readPrefs" => i < Len(s) /\ s[i + 1] \in {"setPrefs", "clearSync"}
  /\ s[i] = "clearSync" => i < Len(s) /\ s[i + 1] = "armSync"
  /\ s[i] = "setPrefs" => i + 6 <= Len(s) /\ s[i + 6] = "armSync"
  /\ s[i] = "markTried" => i < Len(s) /\ s[i + 1] = "catchUp"
  /\ s[i] = "catchUp" => i = Len(s)

\* And which must have come before.
Led(s, i) ==
  /\ s[i + 1] # "edit"
  /\ s[i + 1] = "armLock" => s[i] = "lockAfter?"
  /\ s[i + 1] = "armSync" => s[i] = "clearSync"
  /\ s[i + 1] = "clearSync" => s[i] = "readPrefs"
  /\ s[i + 1] = "markTried" => s[i] = "neverSynced?"
  /\ s[i + 1] = "catchUp" => s[i] = "markTried"

\* What a handler that may be refused does not have to do any more.
Spared(s, i) ==
  \A j \in i..Len(s) :
    /\ s[i] \in {"unlock", "protect", "saveAccount", "edit", "unlocked?", "neverSynced?"} => s[j] # "armSync"
    /\ s[i] \in {"saveAccount", "edit", "unlocked?", "neverSynced?"} => s[j] \notin {"armLock", "lock"}

Sound(s) ==
  /\ s \in Seq(Awaits)
  /\ \A i \in 1..Len(s) : Paired(s, i) /\ Spared(s, i)
  /\ \A i \in 1..(Len(s) - 1) : Led(s, i)

-----------------------------------------------------------------------------
\* The inductive invariant.

First(p) == IF todo[p] = <<>> THEN "none" ELSE todo[p][1]

\* The values of the variables, and the handlers' awaits in their order.
Notes == [key: Alarms, value: BOOLEAN, edit: 0..MaxEvents, saw: Switches]
Values ==
  /\ prefs \in Switches /\ alarms \subseteq Alarms /\ cut \subseteq Alarms
  /\ protection \in {"none", "device", "passphrase"} /\ session \in BOOLEAN
  /\ connected \in BOOLEAN /\ synced \in BOOLEAN /\ tried \in BOOLEAN
  /\ alive \in BOOLEAN /\ timer \in BOOLEAN /\ crossed \in BOOLEAN
  /\ dirty \subseteq Edits /\ promised \subseteq dirty
  /\ run \in [at: {"idle", "early", "late"}, took: SUBSET Edits]
  /\ tries \in Nat /\ events \in 0..MaxEvents /\ faults \in 0..MaxFaults
Hands ==
  /\ todo \in [Procs -> Seq(Awaits)] /\ \A p \in Procs : Sound(todo[p])
  /\ locals \in [Procs -> Notes]
  /\ \A p \in Procs : Has(p, "edit") => locals[p].edit # 0
  /\ ~alive => ~timer /\ run = NoRun /\ \A p \in Procs : todo[p] = <<>>
Types == Values /\ Hands

\* A handler that will arm the alarm of an open vault, and one that will arm nothing
\* for it read the preferences before they changed.
Ready(p) == Arms(p, "lock") /\ (First(p) = "armLock" => locals[p].saw.lock)
Blind(p) == First(p) = "armLock" /\ ~locals[p].saw.lock

\* An open vault has its countdown or a handler that brings it or a lock.
LockInv ==
  /\ protection = "passphrase" /\ session /\ prefs.lock
  /\ "lock" \notin cut \/ \E p \in Procs : Blind(p)
  => "lock" \in alarms \/ \E p \in Procs : Ready(p) \/ Has(p, "lock")

\* As long as no two handlers that arm the sync alarm overlapped, the one that does
\* knows the preferences and has cleared it.
SyncInv ==
  /\ ~crossed => /\ \A p, q \in Procs : Arms(p, "sync") /\ Arms(q, "sync") => p = q
                 /\ \A p \in Procs : First(p) \in {"clearSync", "armSync"} => locals[p].saw.sync = prefs.sync
                 /\ \A p \in Procs : First(p) = "armSync" => "sync" \notin alarms
  /\ SyncIsArmed

\* The two starters of the catch-up: the module body and one handler.
Past(p) == First(p) \in {"markTried", "catchUp"}
TryInv ==
  /\ tries <= 2
  /\ ~tried => tries = 0 /\ \A p \in Procs : First(p) # "catchUp"
  /\ \A p, q \in Handlers : Has(p, "catchUp") /\ Has(q, "catchUp") => p = q
  /\ tries = 1 => \A p, q \in Procs : Past(p) /\ Past(q) => p = q
  /\ tries = 2 => \A p \in Procs : ~Past(p)

WorkerInv == Types /\ LockInv /\ SyncInv /\ TryInv /\ QueuedIsPushed

-----------------------------------------------------------------------------
\* The programs.

\* What is left later on is as sound.
LEMMA Later ==
  ASSUME NEW s, Sound(s), NEW n \in 0..Len(s), NEW r \in Seq(Awaits), Len(r) = Len(s) - n,
         \A i \in 1..Len(r) : r[i] = s[i + n]
  PROVE  Sound(r)
<1>1. s \in Seq(Awaits) /\ Len(s) \in Nat /\ Len(r) \in Nat
  BY DEF Sound
<1>2. ASSUME NEW i \in 1..Len(r)
      PROVE  Paired(r, i)
  <2>1. i + n \in 1..Len(s) /\ Paired(s, i + n) /\ r[i] = s[i + n]
    BY <1>1 DEF Sound
  <2>2. i < Len(r) <=> i + n < Len(s)
    BY <1>1
  <2>3. i < Len(r) => r[i + 1] = s[i + n + 1]
    BY <1>1
  <2>4. i + 6 <= Len(r) <=> i + n + 6 <= Len(s)
    BY <1>1
  <2>5. i + 6 <= Len(r) => r[i + 6] = s[i + n + 6]
    BY <1>1
  <2>6. i = Len(r) <=> i + n = Len(s)
    BY <1>1
  <2> QED BY <2>1, <2>2, <2>3, <2>4, <2>5, <2>6 DEF Paired
<1>3. ASSUME NEW i \in 1..Len(r)
      PROVE  Spared(r, i)
  <2>1. i + n \in 1..Len(s) /\ Spared(s, i + n) /\ r[i] = s[i + n]
    BY <1>1 DEF Sound
  <2>2. \A j \in i..Len(r) : j + n \in (i + n)..Len(s) /\ r[j] = s[j + n]
    BY <1>1
  <2> QED BY <2>1, <2>2 DEF Spared
<1>4. ASSUME NEW i \in 1..(Len(r) - 1)
      PROVE  Led(r, i)
  <2>1. i + n \in 1..(Len(s) - 1) /\ Led(s, i + n)
    BY <1>1 DEF Sound
  <2>2. r[i] = s[i + n] /\ r[i + 1] = s[i + n + 1]
    BY <1>1
  <2> QED BY <2>1, <2>2 DEF Led
<1> QED BY <1>2, <1>3, <1>4 DEF Sound

\* A handler's first await is one of its awaits.
LEMMA Heads ==
  ASSUME NEW s, Sound(s), s # <<>>
  PROVE  /\ Head(s) = s[1] /\ 1 \in 1..Len(s) /\ Len(s) \in Nat \ {0}
         /\ Paired(s, 1) /\ Spared(s, 1)
         /\ Sound(Tail(s)) /\ Len(Tail(s)) = Len(s) - 1 /\ \A i \in 1..Len(Tail(s)) : Tail(s)[i] = s[i + 1]
         /\ DOMAIN s = 1..Len(s) /\ DOMAIN Tail(s) = 1..(Len(s) - 1)
<1>1. s \in Seq(Awaits)
  BY DEF Sound
<1>2. Head(s) = s[1] /\ 1 \in 1..Len(s) /\ Len(s) \in Nat \ {0}
  BY <1>1
<1>3. Paired(s, 1) /\ Spared(s, 1)
  BY <1>2 DEF Sound
<1>4. /\ Tail(s) \in Seq(Awaits) /\ Len(Tail(s)) = Len(s) - 1
      /\ \A i \in 1..Len(Tail(s)) : Tail(s)[i] = s[i + 1]
  BY <1>1, <1>2
<1>5. Sound(Tail(s))
  <2> DEFINE r == Tail(s)
  <2>1. r \in Seq(Awaits) /\ Len(r) = Len(s) - 1 /\ 1 \in 0..Len(s) /\ \A i \in 1..Len(r) : r[i] = s[i + 1]
    BY <1>2, <1>4
  <2> HIDE DEF r
  <2>2. Sound(r)
    BY <2>1, Later
  <2> QED BY <2>2 DEF r
<1>6. DOMAIN s = 1..Len(s) /\ DOMAIN Tail(s) = 1..(Len(s) - 1)
  BY <1>1, <1>4
<1> QED BY <1>2, <1>3, <1>4, <1>5, <1>6

\* The programs, await by await.
Ops == {"vault/unlock", "vault/lock", "vault/setPassphrase", "vault/reset", "account/connect", "signedIn",
        "account/disconnect", "sync/now", "passwords/update", "autofill/save", "prefs/setGlobal",
        "installed", "startup", "alarmSync", "alarmLock", "screenLocked", "userActive"}
Starts == {"unlock", "protect", "lock", "reset", "saveAccount", "forgetAccount", "sync", "edit", "readPrefs",
           "unlocked?", "clearLock", "neverSynced?"}
Good(s) ==
  /\ Sound(s) /\ s # <<>> /\ s[1] \in Starts

\* What the three of index.ts and router.ts that others use consist of.
LEMMA Texts ==
  /\ LET s == AutoLock IN Len(s) = 3 /\ s[1] = "clearLock" /\ s[2] = "lockAfter?" /\ s[3] = "armLock"
  /\ LET s == PeriodicSync IN Len(s) = 3 /\ s[1] = "readPrefs" /\ s[2] = "clearSync" /\ s[3] = "armSync"
  /\ LET s == FirstSync IN Len(s) = 3 /\ s[1] = "neverSynced?" /\ s[2] = "markTried" /\ s[3] = "catchUp"
  /\ AutoLock \in Seq(Awaits) /\ PeriodicSync \in Seq(Awaits) /\ FirstSync \in Seq(Awaits)
BY DEF AutoLock, PeriodicSync, FirstSync, Awaits

\* One sequence after another.
LEMMA Joined ==
  ASSUME NEW a \in Seq(Awaits), NEW b \in Seq(Awaits), NEW r, r = a \o b
  PROVE  /\ r \in Seq(Awaits) /\ Len(r) = Len(a) + Len(b)
         /\ \A i \in 1..Len(a) : r[i] = a[i]
         /\ \A i \in 1..Len(b) : r[Len(a) + i] = b[i]
OBVIOUS

\* The sequences the programs are made of.
LEMMA Typed == AutoLock \in Seq(Awaits) /\ PeriodicSync \in Seq(Awaits) /\ FirstSync \in Seq(Awaits)
BY Texts

\* One await, or two.
LEMMA ShortPrograms ==
  /\ \A a \in {"lock", "reset", "forgetAccount", "sync", "edit"} : Good(<<a>>)
  /\ \A a \in {"saveAccount", "edit", "unlocked?"}, b \in {"queueSync", "sync"} : Good(<<a, b>>)
<1>1. ASSUME NEW a \in {"lock", "reset", "forgetAccount", "sync", "edit"}
      PROVE  Good(<<a>>)
  <2> DEFINE s == <<a>>
  <2>1. s \in Seq(Awaits) /\ Len(s) = 1 /\ s[1] = a
    BY DEF Awaits
  <2> HIDE DEF s
  <2>2. \A i \in 1..1 : Paired(s, i) /\ Spared(s, i)
    BY <2>1 DEF Paired, Spared
  <2>3. Good(s)
    BY <2>1, <2>2 DEF Good, Sound, Starts
  <2> QED BY <2>3 DEF s
<1>2. ASSUME NEW a \in {"saveAccount", "edit", "unlocked?"}, NEW b \in {"queueSync", "sync"}
      PROVE  Good(<<a, b>>)
  <2> DEFINE s == <<a, b>>
  <2>1. s \in Seq(Awaits) /\ Len(s) = 2 /\ s[1] = a /\ s[2] = b
    BY DEF Awaits
  <2> HIDE DEF s
  <2>2. \A i \in 1..2 : Paired(s, i) /\ Spared(s, i)
    BY <2>1 DEF Paired, Spared
  <2>3. Led(s, 1)
    BY <2>1 DEF Led
  <2>4. Good(s)
    BY <2>1, <2>2, <2>3 DEF Good, Sound, Starts
  <2> QED BY <2>4 DEF s
<1> QED BY <1>1, <1>2

\* scheduleAutoLock.
LEMMA AutoLockIsGood == Good(AutoLock)
<1> DEFINE s == AutoLock
<1>6. /\ s \in Seq(Awaits) /\ Len(s) = 3
      /\ s[1] = "clearLock" /\ s[2] = "lockAfter?" /\ s[3] = "armLock"
  BY Texts
<1> HIDE DEF s
<1>7. \A i \in 1..3 : Paired(s, i) /\ Spared(s, i)
  BY <1>6 DEF Paired, Spared
<1>8. \A i \in 1..2 : Led(s, i)
  BY <1>6 DEF Led
<1>9. Good(s)
  <2>1. s # <<>> /\ s[1] \in Starts
    BY <1>6 DEF Starts
  <2>2. Sound(s)
    BY <1>6, <1>7, <1>8 DEF Sound
  <2> QED BY <2>1, <2>2 DEF Good
<1> QED BY <1>9 DEF s

\* syncIfNeverSynced.
LEMMA FirstSyncIsGood == Good(FirstSync)
<1> DEFINE s == FirstSync
<1>6. /\ s \in Seq(Awaits) /\ Len(s) = 3
      /\ s[1] = "neverSynced?" /\ s[2] = "markTried" /\ s[3] = "catchUp"
  BY Texts
<1> HIDE DEF s
<1>7. \A i \in 1..3 : Paired(s, i) /\ Spared(s, i)
  BY <1>6 DEF Paired, Spared
<1>8. \A i \in 1..2 : Led(s, i)
  BY <1>6 DEF Led
<1>9. Good(s)
  <2>1. s # <<>> /\ s[1] \in Starts
    BY <1>6 DEF Starts
  <2>2. Sound(s)
    BY <1>6, <1>7, <1>8 DEF Sound
  <2> QED BY <2>1, <2>2 DEF Good
<1> QED BY <1>9 DEF s

\* Unlocking.
LEMMA UnlockIsGood == Good(Program("vault/unlock"))
<1> DEFINE s == Program("vault/unlock")
<1> DEFINE a == <<"unlock">>
<1>1. a \in Seq(Awaits)
  BY DEF Awaits
<1>5. Len(a) = 1 /\ a[1] = "unlock"
  OBVIOUS
<1>2. s = a \o AutoLock
  BY DEF Program
<1> HIDE DEF a, s
<1>3. /\ s \in Seq(Awaits) /\ Len(s) = Len(a) + Len(AutoLock)
      /\ \A i \in 1..Len(a) : s[i] = a[i]
      /\ \A i \in 1..Len(AutoLock) : s[Len(a) + i] = AutoLock[i]
  BY <1>1, <1>2, Typed, Joined
<1>6. /\ s \in Seq(Awaits) /\ Len(s) = 4
      /\ s[1] = "unlock" /\ s[2] = "clearLock" /\ s[3] = "lockAfter?" /\ s[4] = "armLock"
  BY <1>3, <1>5, Texts
<1> HIDE DEF s
<1>7. \A i \in 1..4 : Paired(s, i) /\ Spared(s, i)
  BY <1>6 DEF Paired, Spared
<1>8. \A i \in 1..3 : Led(s, i)
  BY <1>6 DEF Led
<1>9. Good(s)
  <2>1. s # <<>> /\ s[1] \in Starts
    BY <1>6 DEF Starts
  <2>2. Sound(s)
    BY <1>6, <1>7, <1>8 DEF Sound
  <2> QED BY <2>1, <2>2 DEF Good
<1> QED BY <1>9 DEF s

\* Changing the protection.
LEMMA ProtectIsGood == Good(Program("vault/setPassphrase"))
<1> DEFINE s == Program("vault/setPassphrase")
<1> DEFINE a == <<"protect">>
<1>1. a \in Seq(Awaits)
  BY DEF Awaits
<1>5. Len(a) = 1 /\ a[1] = "protect"
  OBVIOUS
<1>2. s = a \o AutoLock
  BY DEF Program
<1> HIDE DEF a, s
<1>3. /\ s \in Seq(Awaits) /\ Len(s) = Len(a) + Len(AutoLock)
      /\ \A i \in 1..Len(a) : s[i] = a[i]
      /\ \A i \in 1..Len(AutoLock) : s[Len(a) + i] = AutoLock[i]
  BY <1>1, <1>2, Typed, Joined
<1>6. /\ s \in Seq(Awaits) /\ Len(s) = 4
      /\ s[1] = "protect" /\ s[2] = "clearLock" /\ s[3] = "lockAfter?" /\ s[4] = "armLock"
  BY <1>3, <1>5, Texts
<1> HIDE DEF s
<1>7. \A i \in 1..4 : Paired(s, i) /\ Spared(s, i)
  BY <1>6 DEF Paired, Spared
<1>8. \A i \in 1..3 : Led(s, i)
  BY <1>6 DEF Led
<1>9. Good(s)
  <2>1. s # <<>> /\ s[1] \in Starts
    BY <1>6 DEF Starts
  <2>2. Sound(s)
    BY <1>6, <1>7, <1>8 DEF Sound
  <2> QED BY <2>1, <2>2 DEF Good
<1> QED BY <1>9 DEF s

\* Changing a setting.
LEMMA SettingIsGood == Good(Program("prefs/setGlobal"))
<1> DEFINE s == Program("prefs/setGlobal")
<1> DEFINE a == <<"readPrefs", "setPrefs">>
           b == a \o AutoLock
<1>1. a \in Seq(Awaits)
  BY DEF Awaits
<1>5. Len(a) = 2 /\ a[1] = "readPrefs" /\ a[2] = "setPrefs"
  OBVIOUS
<1>2. s = b \o PeriodicSync
  BY DEF Program
<1> HIDE DEF a, s
<1>3. /\ b \in Seq(Awaits) /\ Len(b) = Len(a) + Len(AutoLock)
      /\ \A i \in 1..Len(a) : b[i] = a[i]
      /\ \A i \in 1..Len(AutoLock) : b[Len(a) + i] = AutoLock[i]
  BY <1>1, Typed, Joined
<1> HIDE DEF b
<1>10. b \in Seq(Awaits)
  BY <1>3
<1>4. /\ s \in Seq(Awaits) /\ Len(s) = Len(b) + Len(PeriodicSync)
      /\ \A i \in 1..Len(b) : s[i] = b[i]
      /\ \A i \in 1..Len(PeriodicSync) : s[Len(b) + i] = PeriodicSync[i]
  BY <1>2, <1>10, Typed, Joined
<1>6. /\ s \in Seq(Awaits) /\ Len(s) = 8
      /\ s[1] = "readPrefs" /\ s[2] = "setPrefs" /\ s[3] = "clearLock" /\ s[4] = "lockAfter?"
      /\ s[5] = "armLock" /\ s[6] = "readPrefs" /\ s[7] = "clearSync" /\ s[8] = "armSync"
  BY <1>3, <1>4, <1>5, Texts
<1> HIDE DEF s
<1>7. \A i \in 1..8 : Paired(s, i) /\ Spared(s, i)
  BY <1>6 DEF Paired, Spared
<1>8. \A i \in 1..7 : Led(s, i)
  BY <1>6 DEF Led
<1>9. Good(s)
  <2>1. s # <<>> /\ s[1] \in Starts
    BY <1>6 DEF Starts
  <2>2. Sound(s)
    BY <1>6, <1>7, <1>8 DEF Sound
  <2> QED BY <2>1, <2>2 DEF Good
<1> QED BY <1>9 DEF s

\* onInstalled.
LEMMA InstalledIsGood == Good(Program("installed"))
<1> DEFINE s == Program("installed")
<1>1. s = PeriodicSync \o AutoLock
  BY DEF Program
<1> HIDE DEF s
<1>3. /\ s \in Seq(Awaits) /\ Len(s) = Len(PeriodicSync) + Len(AutoLock)
      /\ \A i \in 1..Len(PeriodicSync) : s[i] = PeriodicSync[i]
      /\ \A i \in 1..Len(AutoLock) : s[Len(PeriodicSync) + i] = AutoLock[i]
  BY <1>1, Typed, Joined
<1>6. /\ s \in Seq(Awaits) /\ Len(s) = 6
      /\ s[1] = "readPrefs" /\ s[2] = "clearSync" /\ s[3] = "armSync" /\ s[4] = "clearLock"
      /\ s[5] = "lockAfter?" /\ s[6] = "armLock"
  BY <1>3, Texts
<1> HIDE DEF s
<1>7. \A i \in 1..6 : Paired(s, i) /\ Spared(s, i)
  BY <1>6 DEF Paired, Spared
<1>8. \A i \in 1..5 : Led(s, i)
  BY <1>6 DEF Led
<1>9. Good(s)
  <2>1. s # <<>> /\ s[1] \in Starts
    BY <1>6 DEF Starts
  <2>2. Sound(s)
    BY <1>6, <1>7, <1>8 DEF Sound
  <2> QED BY <2>1, <2>2 DEF Good
<1> QED BY <1>9 DEF s

\* onStartup.
LEMMA StartupIsGood == Good(Program("startup"))
<1> DEFINE s == Program("startup")
<1>1. s = PeriodicSync \o FirstSync
  BY DEF Program
<1> HIDE DEF s
<1>3. /\ s \in Seq(Awaits) /\ Len(s) = Len(PeriodicSync) + Len(FirstSync)
      /\ \A i \in 1..Len(PeriodicSync) : s[i] = PeriodicSync[i]
      /\ \A i \in 1..Len(FirstSync) : s[Len(PeriodicSync) + i] = FirstSync[i]
  BY <1>1, Typed, Joined
<1>6. /\ s \in Seq(Awaits) /\ Len(s) = 6
      /\ s[1] = "readPrefs" /\ s[2] = "clearSync" /\ s[3] = "armSync" /\ s[4] = "neverSynced?"
      /\ s[5] = "markTried" /\ s[6] = "catchUp"
  BY <1>3, Texts
<1> HIDE DEF s
<1>7. \A i \in 1..6 : Paired(s, i) /\ Spared(s, i)
  BY <1>6 DEF Paired, Spared
<1>8. \A i \in 1..5 : Led(s, i)
  BY <1>6 DEF Led
<1>9. Good(s)
  <2>1. s # <<>> /\ s[1] \in Starts
    BY <1>6 DEF Starts
  <2>2. Sound(s)
    BY <1>6, <1>7, <1>8 DEF Sound
  <2> QED BY <2>1, <2>2 DEF Good
<1> QED BY <1>9 DEF s

\* Every program is good.
LEMMA Programs == \A op \in Ops : Good(Program(op))
<1>1. ASSUME NEW op \in {"vault/lock", "vault/reset", "account/disconnect", "sync/now", "passwords/update",
                        "alarmLock", "screenLocked"}
      PROVE  Good(Program(op))
  <2>1. \E a \in {"lock", "reset", "forgetAccount", "sync", "edit"} : Program(op) = <<a>>
    BY DEF Program
  <2> QED BY <2>1, ShortPrograms
<1>2. ASSUME NEW op \in {"account/connect", "signedIn", "autofill/save", "alarmSync"}
      PROVE  Good(Program(op))
  <2>1. \E a \in {"saveAccount", "edit", "unlocked?"}, b \in {"queueSync", "sync"} : Program(op) = <<a, b>>
    BY DEF Program
  <2> QED BY <2>1, ShortPrograms
<1>3. Program("userActive") = AutoLock
  BY DEF Program
<1> QED BY <1>1, <1>2, <1>3, AutoLockIsGood, UnlockIsGood, ProtectIsGood, SettingIsGood, InstalledIsGood,
           StartupIsGood DEF Ops

-----------------------------------------------------------------------------
\* One await done.

\* What one await of a handler makes of those that are left.
Moved(s, r) ==
  /\ Sound(r) /\ ~In("edit", r) /\ \A x : In(x, r) => In(x, s)
  /\ r # <<>> => /\ r[1] = "armLock" => s[1] = "lockAfter?"
                 /\ r[1] = "armSync" => s[1] = "clearSync"
                 /\ r[1] = "clearSync" => s[1] = "readPrefs"
                 /\ r[1] = "markTried" => s[1] = "neverSynced?"
                 /\ r[1] = "catchUp" => s[1] = "markTried"
  /\ In("armSync", s) /\ s[1] # "armSync" => In("armSync", r)
  /\ s[1] \notin {"unlock", "protect", "lockAfter?"} =>
       /\ In("armLock", s) /\ s[1] # "armLock" => In("armLock", r)
       /\ In("lock", s) /\ s[1] # "lock" => In("lock", r)

\* What must follow does.
Kept(s, r) ==
  /\ s[1] \in {"unlock", "protect", "setPrefs", "clearLock"} =>
       r # <<>> /\ r[1] \in {"clearLock", "lockAfter?"} /\ In("armLock", r)
  /\ s[1] = "lockAfter?" => r # <<>> /\ r[1] = "armLock" /\ In("armLock", r)
  /\ s[1] = "readPrefs" => r # <<>> /\ r[1] \in {"setPrefs", "clearSync"}
  /\ s[1] = "clearSync" => r # <<>> /\ r[1] = "armSync"
  /\ s[1] = "setPrefs" => In("armSync", r)
  /\ s[1] = "catchUp" => r = <<>>

\* The next await.
LEMMA MovesOn ==
  ASSUME NEW s, Sound(s), s # <<>>
  PROVE  Moved(s, Tail(s)) /\ Kept(s, Tail(s))
<1> DEFINE r == Tail(s)
<1>1. /\ 1 \in 1..Len(s) /\ Len(s) \in Nat \ {0} /\ Paired(s, 1) /\ Sound(r)
      /\ Len(r) = Len(s) - 1 /\ (\A i \in 1..Len(r) : r[i] = s[i + 1]) /\ DOMAIN s = 1..Len(s)
  BY Heads
<1>17. DOMAIN r = 1..(Len(s) - 1) /\ r \in Seq(Awaits)
  BY <1>1, Heads DEF Sound
<1>18. DOMAIN r = 1..Len(r)
  BY <1>17, <1>1
<1> HIDE DEF r
<1>2. r = <<>> <=> Len(s) = 1
  BY <1>1, <1>17
<1>3. \A x : In(x, r) => In(x, s)
  <2> SUFFICES ASSUME NEW x, NEW i \in 1..Len(r), r[i] = x
               PROVE  \E j \in 1..Len(s) : s[j] = x
    BY <1>1, <1>18 DEF In
  <2>1. i + 1 \in 1..Len(s) /\ s[i + 1] = x
    BY <1>1
  <2> QED BY <2>1
<1>4. ASSUME NEW x, In(x, s), s[1] # x
      PROVE  In(x, r)
  <2>1. PICK i \in 1..Len(s) : s[i] = x
    BY <1>1, <1>4 DEF In
  <2>2. i - 1 \in 1..Len(r) /\ r[i - 1] = s[i]
    BY <1>1, <1>4, <2>1
  <2> QED BY <1>18, <2>1, <2>2 DEF In
<1>5. ~In("edit", r)
  <2>1. \A i \in 1..Len(r) : i \in 1..(Len(s) - 1) /\ r[i] = s[i + 1]
    BY <1>1
  <2>2. \A i \in 1..(Len(s) - 1) : Led(s, i)
    BY DEF Sound
  <2> QED BY <1>18, <2>1, <2>2 DEF In, Led
<1>6. r # <<>> => Led(s, 1) /\ r[1] = s[2] /\ 1 \in 1..Len(r)
  BY <1>1, <1>2 DEF Sound
<1>7. s[1] \in {"unlock", "protect", "setPrefs", "clearLock", "lockAfter?", "readPrefs", "clearSync"} => r # <<>>
  BY <1>1, <1>2 DEF Paired
<1>8. s[1] = "lockAfter?" => r # <<>> /\ r[1] = "armLock" /\ In("armLock", r)
  BY <1>1, <1>6, <1>7, <1>18 DEF Paired, In
<1>9. s[1] = "clearLock" => r # <<>> /\ r[1] = "lockAfter?" /\ In("armLock", r)
  <2> SUFFICES ASSUME s[1] = "clearLock" PROVE r[1] = "lockAfter?" /\ In("armLock", r)
    BY <1>7
  <2>1. 1 \in 1..Len(r) /\ r[1] = "lockAfter?"
    BY <1>1, <1>6, <1>7 DEF Paired
  <2>2. Paired(r, 1)
    BY <1>1, <2>1 DEF Sound
  <2>3. 2 \in 1..Len(r) /\ r[2] = "armLock"
    BY <1>1, <2>1, <2>2 DEF Paired
  <2> QED BY <1>18, <2>1, <2>3 DEF In
<1>10. s[1] \in {"unlock", "protect", "setPrefs"} => r # <<>> /\ r[1] = "clearLock" /\ In("armLock", r)
  <2> SUFFICES ASSUME s[1] \in {"unlock", "protect", "setPrefs"} PROVE r[1] = "clearLock" /\ In("armLock", r)
    BY <1>7
  <2>1. 1 \in 1..Len(r) /\ r[1] = "clearLock"
    BY <1>1, <1>6, <1>7 DEF Paired
  <2>2. Paired(r, 1)
    BY <1>1, <2>1 DEF Sound
  <2>3. 2 \in 1..Len(r) /\ r[2] = "lockAfter?"
    BY <1>1, <2>1, <2>2 DEF Paired
  <2>4. Paired(r, 2)
    BY <1>1, <2>3 DEF Sound
  <2>5. 3 \in 1..Len(r) /\ r[3] = "armLock"
    BY <1>1, <2>3, <2>4 DEF Paired
  <2> QED BY <1>18, <2>1, <2>5 DEF In
<1>11. s[1] = "readPrefs" => r # <<>> /\ r[1] \in {"setPrefs", "clearSync"}
  BY <1>1, <1>6, <1>7 DEF Paired
<1>12. s[1] = "clearSync" => r # <<>> /\ r[1] = "armSync"
  BY <1>1, <1>6, <1>7 DEF Paired
<1>13. s[1] = "setPrefs" => In("armSync", r)
  <2> SUFFICES ASSUME s[1] = "setPrefs" PROVE In("armSync", r)
    OBVIOUS
  <2>1. 6 \in 1..Len(r) /\ r[6] = s[7] /\ s[7] = "armSync"
    BY <1>1 DEF Paired
  <2> QED BY <1>18, <2>1 DEF In
<1>14. s[1] = "catchUp" => r = <<>>
  BY <1>1, <1>2 DEF Paired
<1>16. r # <<>> => /\ r[1] = "armLock" => s[1] = "lockAfter?"
                   /\ r[1] = "armSync" => s[1] = "clearSync"
                   /\ r[1] = "clearSync" => s[1] = "readPrefs"
                   /\ r[1] = "markTried" => s[1] = "neverSynced?"
                   /\ r[1] = "catchUp" => s[1] = "markTried"
  BY <1>6 DEF Led
<1>19. Moved(s, r)
  BY <1>1, <1>3, <1>4, <1>5, <1>16 DEF Moved
<1>20. Kept(s, r)
  BY <1>8, <1>9, <1>10, <1>11, <1>12, <1>13, <1>14 DEF Kept
<1> QED BY <1>19, <1>20 DEF r

\* A handler that is refused has none left.
LEMMA MovesOut ==
  ASSUME NEW s, Sound(s), s # <<>>,
         s[1] \in {"unlock", "protect", "saveAccount", "edit", "unlocked?", "neverSynced?"}
  PROVE  Moved(s, <<>>)
<1>1. 1 \in 1..Len(s) /\ Spared(s, 1) /\ DOMAIN s = 1..Len(s)
  BY Heads
<1>2. /\ ~In("armSync", s)
      /\ s[1] \in {"saveAccount", "edit", "unlocked?", "neverSynced?"} => ~In("armLock", s) /\ ~In("lock", s)
  BY <1>1 DEF Spared, In
<1>3. \A x : ~In(x, <<>>)
  BY DEF In
<1>4. Sound(<<>>)
  BY DEF Sound
<1> QED BY <1>2, <1>3, <1>4 DEF Moved

\* scheduleAutoLock that finds nothing to lock.
LEMMA MovesPast ==
  ASSUME NEW s, Sound(s), s # <<>>, s[1] = "lockAfter?"
  PROVE  Moved(s, SubSeq(s, 3, Len(s))) /\ LET r == SubSeq(s, 3, Len(s)) IN r # <<>> => r[1] # "armLock"
<1> DEFINE r == SubSeq(s, 3, Len(s))
<1>1. s \in Seq(Awaits) /\ Len(s) \in Nat /\ Paired(s, 1) /\ DOMAIN s = 1..Len(s)
  BY Heads DEF Sound
<1>2. Len(s) >= 2 /\ s[2] = "armLock"
  BY <1>1 DEF Paired
<1>3. r \in Seq(Awaits) /\ Len(r) = Len(s) - 2 /\ \A i \in 1..Len(r) : r[i] = s[i + 2]
  BY <1>1, <1>2
<1> HIDE DEF r
<1>10. 2 \in 0..Len(s)
  BY <1>1, <1>2
<1>11. Sound(r)
  BY <1>10, <1>3, Later
<1>4. DOMAIN r = 1..Len(r)
  BY <1>3
<1>5. \A x : In(x, r) => In(x, s)
  <2> SUFFICES ASSUME NEW x, NEW i \in 1..Len(r), r[i] = x
               PROVE  \E j \in 1..Len(s) : s[j] = x
    BY <1>1, <1>4 DEF In
  <2>1. i + 2 \in 1..Len(s) /\ s[i + 2] = x
    BY <1>1, <1>3
  <2> QED BY <2>1
<1>6. ASSUME In("armSync", s)
      PROVE  In("armSync", r)
  <2>1. PICK i \in 1..Len(s) : s[i] = "armSync"
    BY <1>1, <1>6 DEF In
  <2>3. i # 1 /\ i # 2
    BY <1>2, <2>1
  <2>2. i - 2 \in 1..Len(r) /\ r[i - 2] = s[i]
    BY <1>1, <1>3, <2>3
  <2> QED BY <1>4, <2>1, <2>2 DEF In
<1>7. ~In("edit", r)
  <2>1. \A i \in 1..Len(r) : i + 1 \in 1..(Len(s) - 1) /\ r[i] = s[i + 1 + 1]
    BY <1>1, <1>3
  <2>2. \A i \in 1..(Len(s) - 1) : Led(s, i)
    BY DEF Sound
  <2> QED BY <1>4, <2>1, <2>2 DEF In, Led
<1>8. r # <<>> => Led(s, 2) /\ r[1] = s[3]
  <2> SUFFICES ASSUME r # <<>> PROVE Led(s, 2) /\ r[1] = s[3]
    OBVIOUS
  <2>1. 1 \in 1..Len(r) /\ 2 \in 1..(Len(s) - 1)
    BY <1>1, <1>3
  <2> QED BY <1>3, <2>1 DEF Sound
<1>9. r # <<>> => r[1] \notin {"armLock", "armSync", "clearSync", "markTried", "catchUp"}
  BY <1>2, <1>8 DEF Led
<1>12. Moved(s, r)
  BY <1>11, <1>5, <1>6, <1>7, <1>9 DEF Moved
<1> QED BY <1>9, <1>12 DEF r

-----------------------------------------------------------------------------
\* A step of a handler.

\* Its own awaits and notes, and nobody else's.
Moves(p) ==
  /\ todo[p] # <<>> /\ Moved(todo[p], todo'[p])
  /\ \A q \in Procs : q # p => todo'[q] = todo[q] /\ locals'[q] = locals[q]
  /\ todo' \in [Procs -> Seq(Awaits)] /\ locals' \in [Procs -> Notes]

LEMMA Leaves ==
  ASSUME Types, NEW p \in Procs, todo[p] # <<>>, NEW steps, Moved(todo[p], steps), NEW known \in Notes,
         Left(p, steps, known)
  PROVE  Moves(p) /\ todo'[p] = steps /\ (steps # <<>> => locals'[p] = known)
<1>1. todo \in [Procs -> Seq(Awaits)] /\ locals \in [Procs -> Notes]
  BY DEF Types, Hands
<1>2. steps \in Seq(Awaits)
  BY DEF Moved, Sound
<1>3. NoLocals \in Notes
  <2>1. 0 \in 0..MaxEvents
    BY WorkerAssumption
  <2> QED BY <2>1 DEF NoLocals, Notes, Alarms, Switches
<1>4. todo' \in [Procs -> Seq(Awaits)] /\ todo'[p] = steps /\ \A q \in Procs : q # p => todo'[q] = todo[q]
  BY <1>1, <1>2 DEF Left
<1> DEFINE k == IF steps = <<>> THEN NoLocals ELSE known
<1>5. k \in Notes
  BY <1>3
<1>6. locals' = [locals EXCEPT ![p] = k]
  BY DEF Left
<1> HIDE DEF k
<1>7. locals' \in [Procs -> Notes] /\ locals'[p] = k /\ \A q \in Procs : q # p => locals'[q] = locals[q]
  BY <1>1, <1>5, <1>6
<1> QED BY <1>4, <1>7 DEF Moves, k

\* What the handler p starts from.
LEMMA Stands ==
  ASSUME Types, NEW p \in Procs, NEW step, At(p, step)
  PROVE  /\ todo[p] # <<>> /\ Sound(todo[p]) /\ todo[p][1] = step /\ First(p) = step
         /\ locals[p] \in Notes /\ Moved(todo[p], Tail(todo[p])) /\ Kept(todo[p], Tail(todo[p])) /\ alive
<1>1. todo[p] # <<>> /\ Sound(todo[p]) /\ locals[p] \in Notes
  BY DEF Types, Hands, At
<1>2. todo[p][1] = step
  BY <1>1, Heads DEF At
<1>3. alive
  BY <1>1 DEF Types, Hands
<1> QED BY <1>1, <1>2, <1>3, MovesOn DEF First

LEMMA GoesOn ==
  ASSUME Types, NEW p \in Procs, NEW step, At(p, step), Onwards(p)
  PROVE  Moves(p) /\ todo'[p] = Tail(todo[p]) /\ (todo'[p] # <<>> => locals'[p] = locals[p])
BY Stands, Leaves DEF Onwards

LEMMA GoesOnIf ==
  ASSUME Types, NEW p \in Procs, NEW step, At(p, step), NEW test, OnwardsIf(p, test),
         step \in {"unlock", "protect", "saveAccount", "edit", "unlocked?", "neverSynced?"}
  PROVE  /\ Moves(p) /\ (test => todo'[p] = Tail(todo[p])) /\ (~test => todo'[p] = <<>>)
         /\ (todo'[p] # <<>> => locals'[p] = locals[p])
<1>1. /\ todo[p] # <<>> /\ locals[p] \in Notes /\ Moved(todo[p], Tail(todo[p])) /\ Moved(todo[p], <<>>)
  BY Stands, MovesOut
<1>2. CASE test
  <2>1. Left(p, Tail(todo[p]), locals[p])
    BY <1>2 DEF OnwardsIf
  <2> QED BY <1>1, <1>2, <2>1, Leaves
<1>3. CASE ~test
  <2>1. Left(p, <<>>, locals[p])
    BY <1>3 DEF OnwardsIf
  <2> QED BY <1>1, <1>3, <2>1, Leaves
<1> QED BY <1>2, <1>3

\* Every step of a handler is one of these.
LEMMA StepMoves ==
  ASSUME Types, NEW p \in Procs, Step(p)
  PROVE  Moves(p)
<1>1. ASSUME NEW step, At(p, step), Onwards(p)
      PROVE  Moves(p)
  BY <1>1, GoesOn
<1>2. ASSUME NEW step, At(p, step), NEW test, OnwardsIf(p, test),
             step \in {"unlock", "protect", "saveAccount", "edit", "unlocked?", "neverSynced?"}
      PROVE  Moves(p)
  BY <1>2, GoesOnIf
<1>3. CASE Unlock(p) \/ Protect(p) \/ SaveAccount(p) \/ Edit(p) \/ AskUnlocked(p) \/ AskSynced(p)
  BY <1>2, <1>3 DEF Unlock, Protect, SaveAccount, Edit, AskUnlocked, AskSynced
<1>4. CASE Lock(p) \/ Reset(p) \/ ForgetAccount(p) \/ Sync(p) \/ QueueSync(p) \/ MarkTried(p) \/ CatchUp(p)
  BY <1>1, <1>4 DEF Lock, Reset, ForgetAccount, Sync, QueueSync, MarkTried, CatchUp
<1>5. CASE \E name \in Alarms : ClearAlarm(p, name)
  BY <1>1, <1>5 DEF ClearAlarm
<1>6. NoLocals \in Notes /\ prefs \in Switches
  <2>1. 0 \in 0..MaxEvents
    BY WorkerAssumption
  <2> QED BY <2>1 DEF NoLocals, Notes, Alarms, Switches, Types, Values
<1>7. CASE SetPrefs(p)
  BY <1>6, <1>7, Stands, Leaves DEF SetPrefs
<1>8. CASE \E name \in Alarms : ArmAlarm(p, name)
  BY <1>6, <1>8, Stands, Leaves DEF ArmAlarm
<1>9. ASSUME locals[p] \in Notes
      PROVE  [locals[p] EXCEPT !.saw = prefs] \in Notes
  BY <1>6, <1>9 DEF Notes
<1>10. CASE ReadPrefs(p)
  BY <1>9, <1>10, Stands, Leaves DEF ReadPrefs
<1>11. CASE AskLockAfter(p)
  <2>1. At(p, "lockAfter?")
    BY <1>11 DEF AskLockAfter
  <2>2. /\ todo[p] # <<>> /\ locals[p] \in Notes /\ Moved(todo[p], Tail(todo[p]))
        /\ Moved(todo[p], SubSeq(todo[p], 3, Len(todo[p])))
    BY <2>1, Stands, MovesPast
  <2> DEFINE r == IF protection = "passphrase" THEN Tail(todo[p]) ELSE SubSeq(todo[p], 3, Len(todo[p]))
             k == [locals[p] EXCEPT !.saw = prefs]
  <2>3. Left(p, r, k)
    BY <1>11 DEF AskLockAfter
  <2>4. Moved(todo[p], r) /\ k \in Notes
    BY <1>9, <2>2
  <2> HIDE DEF r, k
  <2> QED BY <2>2, <2>3, <2>4, Leaves
<1> QED BY <1>3, <1>4, <1>5, <1>7, <1>8, <1>10, <1>11 DEF Step

\* The run under way keeps its type when somebody asks for one.
LEMMA Called ==
  ASSUME Values, CallSync
  PROVE  run' \in [at: {"idle", "early", "late"}, took: SUBSET Edits]
BY DEF Values, CallSync

LEMMA HandsMove ==
  ASSUME Types, NEW p \in Procs, Moves(p), alive' = alive
  PROVE  Hands'
<1>1. alive
  BY DEF Types, Hands, Moves
<1>2. \A q \in Procs : Sound(todo'[q])
  BY DEF Types, Hands, Moves, Moved
<1>3. ASSUME NEW q \in Procs, In("edit", todo'[q])
      PROVE  locals'[q].edit # 0
  <2>1. q # p
    BY <1>3 DEF Moves, Moved
  <2> QED BY <1>3, <2>1 DEF Types, Hands, Moves, Has
<1> QED BY <1>1, <1>2, <1>3 DEF Hands, Moves, Has

LEMMA StepTypes ==
  ASSUME Types, NEW p \in Procs, Step(p)
  PROVE  Types'
<1>1. Moves(p)
  BY StepMoves
<1> USE DEF OnlyVault, OnlyStored, stored, worker, vault, history, counts
<1>2. alive' = alive
  BY DEF Step, Unlock, Lock, Protect, Reset, SaveAccount, ForgetAccount, Edit, ReadPrefs, SetPrefs,
         AskLockAfter, Sync, QueueSync, AskUnlocked, AskSynced, MarkTried, CatchUp, ClearAlarm, ArmAlarm
<1>3. Values'
  <2>1. CASE Unlock(p) \/ Lock(p) \/ SaveAccount(p) \/ ForgetAccount(p)
    BY ZenonT(60), <2>1 DEF Types, Values, Unlock, Lock, SaveAccount, ForgetAccount, Unlocked
  <2>2. CASE Protect(p)
    BY <2>2 DEF Types, Values, Protect
  <2>3. CASE Reset(p)
    BY <2>3 DEF Types, Values, Reset
  <2>4. CASE Edit(p)
    <3>1. todo[p] \in Seq(Awaits) /\ todo[p] # <<>> /\ todo[p][1] = "edit"
      BY <2>4, Stands DEF Edit, Sound
    <3>2. Has(p, "edit")
      <4>1. 1 \in DOMAIN todo[p]
        BY <3>1
      <4> QED BY <3>1, <4>1 DEF Has, In
    <3>3. locals[p].edit \in 1..MaxEvents
      BY <3>2, WorkerAssumption DEF Types, Hands, Notes
    <3> QED BY <2>4, <3>3 DEF Types, Values, Edit, Edits
  <2>5. CASE ReadPrefs(p) \/ AskLockAfter(p) \/ AskUnlocked(p) \/ AskSynced(p) \/ MarkTried(p)
    BY ZenonT(60), <2>5 DEF Types, Values, ReadPrefs, AskLockAfter, AskUnlocked, AskSynced, MarkTried
  <2>6. CASE SetPrefs(p)
    <3>1. locals[p] \in Notes
      BY DEF Types, Hands
    <3>2. prefs' \in Switches
      BY <2>6, <3>1 DEF SetPrefs, Notes, Switches, Alarms
    <3> QED BY <2>6, <3>2 DEF Types, Values, SetPrefs
  <2>7. CASE \E name \in Alarms : ClearAlarm(p, name) \/ ArmAlarm(p, name)
    BY <2>7 DEF Types, Values, ClearAlarm, ArmAlarm
  <2>8. CASE Sync(p)
    BY <2>8, Called DEF Types, Values, Sync
  <2>9. CASE QueueSync(p)
    BY <2>9 DEF Types, Values, QueueSync
  <2>10. CASE CatchUp(p)
    BY <2>10, Called DEF Types, Values, CatchUp
  <2> QED BY <2>1, <2>2, <2>3, <2>4, <2>5, <2>6, <2>7, <2>8, <2>9, <2>10 DEF Step
<1> QED BY <1>1, <1>2, <1>3, HandsMove DEF Types

-----------------------------------------------------------------------------
\* A handler that begins.

\* Nothing is promised or half known yet.
Starting(h, s) ==
  /\ todo[h] = <<>> /\ todo'[h] = s
  /\ todo' \in [Procs -> Seq(Awaits)]
  /\ \A q \in Procs : q \notin {h, Body} => todo'[q] = todo[q]
  /\ todo'[Body] = todo[Body] \/ (todo[Body] = <<>> /\ todo'[Body] = FirstSync)
  /\ alive' /\ crossed' \in BOOLEAN
  /\ ~crossed' => ~crossed /\ (In("armSync", s) => \A q \in Procs : ~Arms(q, "sync"))

LEMMA Begins ==
  ASSUME Types, NEW h \in Handlers, NEW op \in Ops, Begin(h, op)
  PROVE  Starting(h, Program(op)) /\ Good(Program(op))
<1>1. Good(Program(op)) /\ Good(FirstSync)
  BY Programs, FirstSyncIsGood
<1>2. Program(op) \in Seq(Awaits) /\ FirstSync \in Seq(Awaits)
  BY <1>1 DEF Good, Sound
<1>3. h \in Procs /\ Body \in Procs /\ h # Body
  BY WorkerAssumption DEF Procs, Body
<1>4. todo \in [Procs -> Seq(Awaits)] /\ (~alive => todo[Body] = <<>>) /\ crossed \in BOOLEAN
  BY <1>3 DEF Types, Hands, Values
<1> DEFINE s == Program(op)
<1>5. /\ todo[h] = <<>> /\ alive' = TRUE
      /\ todo' = [todo EXCEPT ![h] = s, ![Body] = IF alive THEN @ ELSE FirstSync]
      /\ crossed' = (crossed \/ (In("armSync", s) /\ \E q \in Procs : Arms(q, "sync")))
  BY DEF Begin
<1> HIDE DEF s
<1>6. s \in Seq(Awaits)
  BY <1>2 DEF s
<1>7. /\ todo' \in [Procs -> Seq(Awaits)] /\ todo'[h] = s
      /\ \A q \in Procs : q \notin {h, Body} => todo'[q] = todo[q]
      /\ todo'[Body] = todo[Body] \/ (todo[Body] = <<>> /\ todo'[Body] = FirstSync)
  BY <1>2, <1>3, <1>4, <1>5, <1>6
<1>8. crossed' \in BOOLEAN /\ (~crossed' => ~crossed /\ (In("armSync", s) => \A q \in Procs : ~Arms(q, "sync")))
  BY <1>4, <1>5
<1>9. Starting(h, s)
  BY <1>5, <1>7, <1>8 DEF Starting
<1> QED BY <1>1, <1>9 DEF s

\* The awaits of each program that the invariants speak of.
LEMMA FirstSyncHas ==
  /\ FirstSync # <<>> /\ FirstSync[1] = "neverSynced?" /\ Sound(FirstSync)
  /\ ~In("edit", FirstSync) /\ ~In("armSync", FirstSync) /\ ~In("armLock", FirstSync) /\ ~In("lock", FirstSync)
<1> DEFINE s == FirstSync
<1>1. Len(s) = 3 /\ s \in Seq(Awaits) /\ s[1] = "neverSynced?" /\ s[2] = "markTried" /\ s[3] = "catchUp"
  BY Texts
<1>2. Sound(s)
  BY FirstSyncIsGood DEF Good
<1> HIDE DEF s
<1>3. DOMAIN s = 1..3 /\ s # <<>>
  BY <1>1
<1> QED BY <1>1, <1>2, <1>3 DEF In, s

LEMMA AlarmProgramsHave ==
  /\ In("lock", Program("alarmLock"))
  /\ ~In("edit", Program("alarmLock")) /\ ~In("edit", Program("alarmSync"))
  /\ ~In("armSync", Program("alarmLock")) /\ ~In("armSync", Program("alarmSync"))
BY DEF Program, In

LEMMA CatchUpsBelongTo ==
  ASSUME NEW op \in Ops, op # "startup"
  PROVE  ~In("catchUp", Program(op))
<1> DEFINE Without(s) == s \in Seq(Awaits) /\ ~In("catchUp", s)
<1>1. ASSUME NEW a, NEW b, Without(a), Without(b)
      PROVE  Without(a \o b)
  <2> DEFINE r == a \o b
  <2>1. /\ r \in Seq(Awaits) /\ Len(r) = Len(a) + Len(b) /\ Len(a) \in Nat /\ Len(b) \in Nat
        /\ \A i \in 1..Len(a) : r[i] = a[i] /\ a[i] # "catchUp"
        /\ \A i \in 1..Len(b) : r[Len(a) + i] = b[i] /\ b[i] # "catchUp"
    BY <1>1 DEF In
  <2> HIDE DEF r
  <2>2. ASSUME NEW i \in 1..Len(r)
        PROVE  r[i] # "catchUp"
    <3>1. CASE i <= Len(a)
      BY <2>1, <3>1
    <3>2. CASE i > Len(a)
      <4>1. i - Len(a) \in 1..Len(b) /\ i = Len(a) + (i - Len(a))
        BY <2>1, <3>2
      <4> QED BY <2>1, <4>1
    <3> QED BY <2>1, <3>1, <3>2
  <2>3. DOMAIN r = 1..Len(r)
    BY <2>1
  <2>4. Without(r)
    BY <2>1, <2>2, <2>3 DEF In
  <2> QED BY <2>4 DEF r
<1>2. Without(AutoLock) /\ Without(PeriodicSync)
  BY DEF AutoLock, PeriodicSync, In, Awaits
<1>3. Without(<<"unlock">>) /\ Without(<<"protect">>) /\ Without(<<"readPrefs", "setPrefs">>)
  BY DEF In, Awaits
<1>4. /\ Without(<<"unlock">> \o AutoLock) /\ Without(<<"protect">> \o AutoLock)
      /\ Without(PeriodicSync \o AutoLock) /\ Without(<<"readPrefs", "setPrefs">> \o AutoLock)
  <2> HIDE DEF Without
  <2> QED BY <1>1, <1>2, <1>3
<1>5. Without(<<"readPrefs", "setPrefs">> \o AutoLock \o PeriodicSync)
  <2> HIDE DEF Without
  <2> QED BY <1>1, <1>2, <1>4
<1>6. CASE op \in {"vault/unlock", "vault/setPassphrase", "installed", "prefs/setGlobal", "userActive"}
  <2>1. Program(op) \in {<<"unlock">> \o AutoLock, <<"protect">> \o AutoLock, PeriodicSync \o AutoLock,
                         <<"readPrefs", "setPrefs">> \o AutoLock \o PeriodicSync, AutoLock}
    BY <1>6 DEF Program
  <2>2. Without(Program(op))
    <3> HIDE DEF Without
    <3> QED BY <1>2, <1>4, <1>5, <2>1
  <2> QED BY <2>2
<1>7. CASE op \in {"vault/lock", "vault/reset", "account/disconnect", "sync/now", "passwords/update", "alarmLock",
                   "screenLocked"}
  <2>1. \E a \in {"lock", "reset", "forgetAccount", "sync", "edit"} : Program(op) = <<a>>
    BY <1>7 DEF Program
  <2> QED BY <2>1 DEF In
<1>8. CASE op \in {"account/connect", "signedIn", "autofill/save", "alarmSync"}
  <2>1. \E a \in {"saveAccount", "edit", "unlocked?"}, b \in {"queueSync", "sync"} : Program(op) = <<a, b>>
    BY <1>8 DEF Program
  <2> QED BY <2>1 DEF In
<1> QED BY <1>6, <1>7, <1>8 DEF Ops

-----------------------------------------------------------------------------
\* The types.

LEMMA HandsBegin ==
  ASSUME Types, NEW h \in Handlers, NEW s, Good(s), Starting(h, s),
         locals' \in [Procs -> Notes], \A q \in Procs : q # h => locals'[q] = locals[q],
         In("edit", s) => locals'[h].edit # 0
  PROVE  Hands'
<1>1. h \in Procs /\ Body \in Procs /\ h # Body
  BY WorkerAssumption DEF Procs, Body
<1>2. Sound(s) /\ Sound(FirstSync) /\ ~In("edit", FirstSync)
  BY FirstSyncHas DEF Good
<1>3. ASSUME NEW q \in Procs
      PROVE  Sound(todo'[q]) /\ (In("edit", todo'[q]) => locals'[q].edit # 0)
  <2>1. Sound(todo[q]) /\ (In("edit", todo[q]) => locals[q].edit # 0)
    BY DEF Types, Hands, Has
  <2>2. CASE q = h
    BY <1>2, <2>2 DEF Starting
  <2>3. CASE q # h /\ todo'[q] = todo[q]
    BY <2>1, <2>3
  <2>4. CASE q = Body /\ todo'[q] = FirstSync
    BY <1>1, <1>2, <2>4
  <2> QED BY <2>2, <2>3, <2>4 DEF Starting
<1> QED BY <1>3 DEF Hands, Starting, Has

\* A message or an event of the browser.
LEMMA EventTypes ==
  ASSUME Types, NEW h \in Handlers, NEW op \in Ops, NEW key \in Alarms, NEW value \in BOOLEAN,
         Event(h, op, key, value)
  PROVE  Types'
<1> USE DEF vault, stored
<1>1. Starting(h, Program(op)) /\ Good(Program(op))
  BY Begins DEF Event
<1>2. events' \in 1..MaxEvents /\ events' \in 0..MaxEvents
  BY WorkerAssumption DEF Types, Values, Event
<1>3. Values'
  BY <1>1, <1>2 DEF Types, Values, Event, Starting
<1> DEFINE k == [NoLocals EXCEPT !.key = key, !.value = value, !.edit = events']
<1>4. k \in Notes /\ k.edit = events'
  BY <1>2 DEF NoLocals, Notes, Alarms, Switches
<1>5. locals' = [locals EXCEPT ![h] = k] /\ h \in Procs /\ locals \in [Procs -> Notes]
  BY DEF Event, Procs, Types, Hands
<1> HIDE DEF k
<1>6. locals' \in [Procs -> Notes] /\ locals'[h] = k /\ \A q \in Procs : q # h => locals'[q] = locals[q]
  BY <1>4, <1>5
<1>7. locals'[h].edit # 0
  BY <1>2, <1>4, <1>6
<1>8. Hands'
  BY <1>1, <1>6, <1>7, HandsBegin
<1> QED BY <1>3, <1>8 DEF Types

LEMMA AlarmTypes ==
  ASSUME Types, NEW h \in Handlers, NEW name \in Alarms, AlarmFires(h, name)
  PROVE  Types'
<1> USE DEF vault, counts
<1>1. Ring(name) \in {"alarmLock", "alarmSync"}
  BY DEF Ring
<1>2. Starting(h, Program(Ring(name))) /\ Good(Program(Ring(name)))
  BY <1>1, Begins DEF AlarmFires, Ops
<1>3. ~In("edit", Program(Ring(name)))
  BY <1>1, AlarmProgramsHave
<1>4. Values'
  BY <1>2 DEF Types, Values, AlarmFires, Starting
<1>5. Hands'
  <2>1. locals' = locals /\ locals \in [Procs -> Notes]
    BY DEF Types, Hands, AlarmFires
  <2> QED BY <1>2, <1>3, <2>1, HandsBegin
<1> QED BY <1>4, <1>5 DEF Types

\* The timer and the engine's run.
LEMMA RunTypes ==
  ASSUME Types, TimerFires \/ RunReads \/ RunPushes \/ RunFails
  PROVE  Types'
<1> USE DEF vault, stored
<1>1. Values'
  <2>1. CASE TimerFires
    <3>1. run' \in [at: {"idle", "early", "late"}, took: SUBSET Edits]
      BY <2>1, Called DEF Types, TimerFires
    <3>2. timer' = FALSE /\ promised' \subseteq dirty /\ dirty' = dirty
      BY <2>1 DEF Types, Values, TimerFires
    <3>3. UNCHANGED <<prefs, alarms, cut, protection, session, connected, synced, tried, alive, crossed,
                      tries, events, faults>>
      BY <2>1 DEF TimerFires, counts
    <3> QED BY <3>1, <3>2, <3>3 DEF Types, Values
  <2>2. CASE RunReads
    <3>1. dirty \in SUBSET Edits
      BY DEF Types, Values
    <3>2. run' \in [at: {"idle", "early", "late"}, took: SUBSET Edits]
      BY <2>2, <3>1 DEF RunReads
    <3>3. UNCHANGED <<prefs, alarms, cut, protection, session, connected, synced, tried, alive, timer, crossed,
                      dirty, promised, tries, events, faults>>
      BY <2>2 DEF RunReads, counts, history
    <3> QED BY <3>2, <3>3 DEF Types, Values
  <2>3. CASE RunPushes
    <3>1. run' \in [at: {"idle", "early", "late"}, took: SUBSET Edits]
      BY <2>3 DEF RunPushes, NoRun
    <3>2. synced' = TRUE /\ dirty' \subseteq Edits /\ promised' \subseteq dirty'
      BY <2>3 DEF Types, Values, RunPushes
    <3>3. UNCHANGED <<prefs, alarms, cut, protection, session, connected, tried, alive, timer, crossed,
                      tries, events, faults>>
      BY <2>3 DEF RunPushes, counts
    <3> QED BY <3>1, <3>2, <3>3 DEF Types, Values
  <2>4. CASE RunFails
    BY <2>4, WorkerAssumption DEF Types, Values, RunFails, NoRun
  <2> QED BY <2>1, <2>2, <2>3, <2>4
<1>2. alive /\ alive' = alive /\ todo' = todo /\ locals' = locals
  BY DEF Types, Hands, Values, NoRun, TimerFires, RunReads, RunPushes, RunFails
<1>3. Hands'
  BY <1>2 DEF Types, Hands, Has
<1> QED BY <1>1, <1>3 DEF Types

\* The end of the worker and of the browser.
LEMMA EndTypes ==
  ASSUME Types, WorkerDies \/ \E h \in Handlers : BrowserRestarts(h)
  PROVE  Types'
<1>1. NoLocals \in Notes
  <2>1. 0 \in 0..MaxEvents
    BY WorkerAssumption
  <2> QED BY <2>1 DEF NoLocals, Notes, Alarms, Switches
<1>2. Values'
  <2>1. /\ timer' = FALSE /\ run' = NoRun /\ promised' = {}
        /\ UNCHANGED <<prefs, protection, connected, synced, dirty, crossed>>
    BY DEF WorkerDies, BrowserRestarts, Gone
  <2>2. faults' \in 0..MaxFaults /\ events' \in 0..MaxEvents
    BY WorkerAssumption DEF Types, Values, WorkerDies, BrowserRestarts
  <2>3. alarms' \subseteq Alarms /\ cut' \subseteq Alarms /\ tries' \in Nat
    BY DEF Types, Values, WorkerDies, BrowserRestarts
  <2>4. tried' \in BOOLEAN /\ session' \in BOOLEAN /\ alive' \in BOOLEAN
    BY DEF Types, Values, WorkerDies, BrowserRestarts
  <2>5. run' \in [at: {"idle", "early", "late"}, took: SUBSET Edits]
    BY <2>1 DEF NoRun
  <2> QED BY <2>1, <2>2, <2>3, <2>4, <2>5 DEF Types, Values
<1>3. locals' \in [Procs -> Notes] /\ timer' = FALSE /\ run' = NoRun
  BY <1>1 DEF WorkerDies, BrowserRestarts, Gone
<1>4. Sound(<<>>) /\ ~In("edit", <<>>) /\ <<>> \in Seq(Awaits)
  BY DEF Sound, In
<1>5. CASE WorkerDies
  <2>1. todo' = [p \in Procs |-> <<>>]
    BY <1>5 DEF WorkerDies
  <2>2. Hands'
    BY <1>3, <1>4, <2>1 DEF Hands, Has
  <2> QED BY <1>2, <2>2 DEF Types
<1>6. CASE \E h \in Handlers : BrowserRestarts(h)
  <2>1. PICK h \in Handlers : BrowserRestarts(h)
    BY <1>6
  <2> DEFINE s == Program("startup")
  <2>2. Good(s)
    BY Programs DEF Ops
  <2>3. Sound(s) /\ Sound(FirstSync) /\ ~In("edit", FirstSync) /\ s \in Seq(Awaits) /\ FirstSync \in Seq(Awaits)
    BY <2>2, FirstSyncHas DEF Good, Sound
  <2>4. ~In("edit", s)
    <3>1. s[1] # "edit" /\ (\A i \in 1..(Len(s) - 1) : s[i + 1] # "edit") /\ Len(s) \in Nat /\ DOMAIN s = 1..Len(s)
      <4>1. s[1] = "readPrefs"
        <5>1. s = PeriodicSync \o FirstSync /\ PeriodicSync \in Seq(Awaits) /\ FirstSync \in Seq(Awaits)
          BY Typed DEF Program
        <5>2. 1 \in 1..Len(PeriodicSync) /\ PeriodicSync[1] = "readPrefs"
          BY Texts
        <5> HIDE DEF s
        <5> QED BY <5>1, <5>2, Joined
      <4> HIDE DEF s
      <4>2. \A i \in 1..(Len(s) - 1) : Led(s, i)
        BY <2>3 DEF Sound
      <4>3. \A i \in 1..(Len(s) - 1) : s[i + 1] # "edit"
        BY <4>2 DEF Led
      <4>4. Len(s) \in Nat /\ DOMAIN s = 1..Len(s)
        BY <2>3
      <4> QED BY <4>1, <4>3, <4>4
    <3> HIDE DEF s
    <3>2. \A i \in 1..Len(s) : i = 1 \/ (i - 1 \in 1..(Len(s) - 1) /\ s[i] = s[(i - 1) + 1])
      BY <3>1
    <3> QED BY <3>1, <3>2 DEF In
  <2>5. todo' = [p \in Procs |-> IF p = Body THEN FirstSync ELSE IF p = h THEN s ELSE <<>>] /\ alive'
    BY <2>1 DEF BrowserRestarts
  <2> HIDE DEF s
  <2>6. /\ todo' \in [Procs -> Seq(Awaits)]
        /\ \A q \in Procs : Sound(todo'[q]) /\ ~In("edit", todo'[q])
    BY <1>4, <2>3, <2>4, <2>5
  <2>7. Hands'
    BY <1>3, <2>5, <2>6 DEF Hands, Has
  <2> QED BY <1>2, <2>7 DEF Types
<1> QED BY <1>5, <1>6

-----------------------------------------------------------------------------
\* The countdown of the lock.

\* An await that has nothing to do with it.
LEMMA LockQuiet ==
  ASSUME Types, LockInv, NEW p \in Procs, Moves(p),
         First(p) \notin {"armLock", "lockAfter?", "unlock", "protect", "lock"},
         prefs' = prefs, "lock" \in cut' <=> "lock" \in cut, "lock" \in alarms => "lock" \in alarms',
         protection' = "passphrase" /\ session' => protection = "passphrase" /\ session
  PROVE  LockInv'
<1>1. ASSUME NEW q \in Procs, q # p
      PROVE  (Blind(q)' <=> Blind(q)) /\ (Ready(q)' <=> Ready(q)) /\ (Has(q, "lock")' <=> Has(q, "lock"))
  <2>1. todo'[q] = todo[q] /\ locals'[q] = locals[q]
    BY <1>1 DEF Moves
  <2> QED BY <2>1 DEF Blind, Ready, Has, Arms, First
<1>2. First(p) = todo[p][1]
  BY DEF First, Moves
<1>3. ~Blind(p)' /\ First(p)' # "armLock"
  BY <1>2 DEF Blind, First, Moves, Moved
<1>4. Ready(p) => Ready(p)'
  BY <1>2, <1>3 DEF Ready, Arms, Arm, Has, Moves, Moved
<1>5. Has(p, "lock") => Has(p, "lock")'
  BY <1>2 DEF Has, Moves, Moved
<1> QED BY <1>1, <1>3, <1>4, <1>5 DEF LockInv

\* One after which the handler will arm it.
LEMMA LockReady ==
  ASSUME NEW p \in Procs, Ready(p)'
  PROVE  LockInv'
BY DEF LockInv

\* A vault that is not open, or that nothing has to lock.
LEMMA LockIdle ==
  ASSUME ~(protection' = "passphrase" /\ session' /\ prefs'.lock)
  PROVE  LockInv'
BY DEF LockInv

\* Arming it: the handler that read other preferences leaves it to those that changed them.
LEMMA LockArms ==
  ASSUME Types, LockInv, NEW p \in Procs, ArmAlarm(p, "lock")
  PROVE  LockInv'
<1> USE DEF vault
<1>1. First(p) = "armLock" /\ todo[p] # <<>> /\ todo[p][1] = "armLock" /\ Moves(p)
  <2>1. Step(p)
    BY DEF Step, Alarms
  <2> QED BY <2>1, StepMoves, Stands DEF ArmAlarm, Arm
<1>2. CASE locals[p].saw.lock
  <2>1. "lock" \in alarms'
    BY <1>2 DEF ArmAlarm
  <2> QED BY <2>1 DEF LockInv
<1>3. CASE ~locals[p].saw.lock
  <2> SUFFICES ASSUME protection' = "passphrase", session', prefs'.lock
               PROVE  "lock" \in alarms' \/ \E q \in Procs : Ready(q)' \/ Has(q, "lock")'
    BY DEF LockInv
  <2>1. Blind(p) /\ ~Ready(p)
    BY <1>1, <1>3 DEF Blind, Ready
  <2>2. protection = "passphrase" /\ session /\ prefs.lock /\ alarms' = alarms
    BY <1>3 DEF ArmAlarm
  <2>3. "lock" \in alarms \/ \E q \in Procs : Ready(q) \/ Has(q, "lock")
    BY <2>1, <2>2 DEF LockInv
  <2>4. ASSUME NEW q \in Procs, Ready(q)
        PROVE  Ready(q)'
    <3>1. q # p
      BY <2>1, <2>4
    <3>2. todo'[q] = todo[q] /\ locals'[q] = locals[q]
      BY <1>1, <3>1 DEF Moves
    <3> QED BY <2>4, <3>2 DEF Ready, Arms, Has, First
  <2>5. ASSUME NEW q \in Procs, Has(q, "lock")
        PROVE  Has(q, "lock")'
    <3>1. CASE q # p
      BY <1>1, <2>5, <3>1 DEF Moves, Has
    <3>2. CASE q = p
      <4>1. Moved(todo[p], Tail(todo[p])) /\ todo'[p] = Tail(todo[p])
        <5>1. At(p, "armLock") /\ Left(p, Tail(todo[p]), NoLocals)
          BY DEF ArmAlarm, Arm
        <5>2. todo \in [Procs -> Seq(Awaits)]
          BY DEF Types, Hands
        <5> QED BY <5>1, <5>2, Stands DEF Left
      <4> QED BY <1>1, <2>5, <3>2, <4>1 DEF Has, Moved
    <3> QED BY <3>1, <3>2
  <2> QED BY <2>2, <2>3, <2>4, <2>5
<1> QED BY <1>2, <1>3

LEMMA StepLock ==
  ASSUME Types, LockInv, NEW p \in Procs, Step(p)
  PROVE  LockInv'
<1> USE DEF OnlyVault, OnlyStored, stored, worker, vault, history, counts
<1>1. Moves(p)
  BY StepMoves
<1>2. CASE SaveAccount(p) \/ ForgetAccount(p) \/ Edit(p) \/ ReadPrefs(p) \/ Sync(p) \/ QueueSync(p)
           \/ AskUnlocked(p) \/ AskSynced(p) \/ MarkTried(p) \/ CatchUp(p)
  <2>1. First(p) \in {"saveAccount", "forgetAccount", "edit", "readPrefs", "sync", "queueSync", "unlocked?",
                      "neverSynced?", "markTried", "catchUp"}
    BY <1>2, Stands DEF SaveAccount, ForgetAccount, Edit, ReadPrefs, Sync, QueueSync, AskUnlocked, AskSynced,
       MarkTried, CatchUp
  <2>2. prefs' = prefs /\ cut' = cut /\ alarms' = alarms
    BY <1>2 DEF SaveAccount, ForgetAccount, Edit, ReadPrefs, Sync, QueueSync, AskUnlocked, AskSynced,
       MarkTried, CatchUp
  <2>3. session' = session /\ (protection' = "passphrase" => protection = "passphrase")
    BY <1>2 DEF SaveAccount, ForgetAccount, Edit, ReadPrefs, Sync, QueueSync, AskUnlocked, AskSynced,
       MarkTried, CatchUp
  <2> QED BY <1>1, <2>1, <2>2, <2>3, LockQuiet
<1>3. CASE Lock(p) \/ Reset(p)
  BY <1>3, LockIdle DEF Lock, Reset
<1>4. ASSUME NEW step, At(p, step), step \in {"unlock", "protect", "setPrefs", "clearLock"}, todo'[p] = Tail(todo[p])
      PROVE  LockInv'
  <2>1. Kept(todo[p], Tail(todo[p])) /\ todo[p][1] = step
    BY <1>4, Stands
  <2>2. todo'[p] # <<>> /\ todo'[p][1] # "armLock" /\ In("armLock", todo'[p])
    BY <1>4, <2>1 DEF Kept
  <2>3. Ready(p)'
    BY <2>2 DEF Ready, Arms, Arm, Has, First
  <2> QED BY <2>3, LockReady
<1>5. todo \in [Procs -> Seq(Awaits)]
  BY DEF Types, Hands
<1>6. CASE Unlock(p)
  <2>1. CASE protection = "passphrase"
    BY <1>4, <1>5, <1>6, <2>1 DEF Unlock, OnwardsIf, Left
  <2>2. CASE protection # "passphrase"
    BY <1>6, <2>2, LockIdle DEF Unlock
  <2> QED BY <2>1, <2>2
<1>7. CASE Protect(p)
  <2>1. CASE Unlocked
    BY <1>4, <1>5, <1>7, <2>1 DEF Protect, OnwardsIf, Left
  <2>2. CASE ~Unlocked
    BY <1>7, <2>2, LockIdle DEF Protect, Unlocked
  <2> QED BY <2>1, <2>2
<1>8. CASE SetPrefs(p)
  BY <1>4, <1>5, <1>8 DEF SetPrefs, Left
<1>9. CASE ClearAlarm(p, "lock")
  BY <1>4, <1>5, <1>9 DEF ClearAlarm, Clear, Onwards, Left
<1>10. CASE AskLockAfter(p)
  <2>1. CASE protection = "passphrase" /\ prefs.lock
    <3> DEFINE k == [locals[p] EXCEPT !.saw = prefs]
    <3>1. At(p, "lockAfter?") /\ Left(p, Tail(todo[p]), k)
      BY <1>10, <2>1 DEF AskLockAfter
    <3>2. /\ Kept(todo[p], Tail(todo[p])) /\ Moved(todo[p], Tail(todo[p])) /\ todo[p] # <<>>
          /\ todo[p][1] = "lockAfter?" /\ locals[p] \in Notes
      BY <3>1, Stands
    <3>3. Tail(todo[p]) # <<>> /\ In("armLock", Tail(todo[p]))
      BY <3>2 DEF Kept
    <3>4. k \in Notes /\ k.saw = prefs
      BY <3>2 DEF Notes, Types, Values
    <3> HIDE DEF k
    <3>5. todo'[p] = Tail(todo[p]) /\ locals'[p] = k
      BY <3>1, <3>2, <3>3, <3>4, Leaves
    <3>6. Ready(p)'
      BY <2>1, <3>3, <3>4, <3>5 DEF Ready, Arms, Arm, Has
    <3> QED BY <3>6, LockReady
  <2>2. CASE ~(protection = "passphrase" /\ prefs.lock)
    BY <1>10, <2>2, LockIdle DEF AskLockAfter
  <2> QED BY <2>1, <2>2
<1>11. CASE ClearAlarm(p, "sync") \/ ArmAlarm(p, "sync")
  <2>1. First(p) \in {"clearSync", "armSync"}
    BY <1>11, Stands DEF ClearAlarm, ArmAlarm, Clear, Arm
  <2>2. prefs' = prefs /\ protection' = protection /\ session' = session
    BY <1>11 DEF ClearAlarm, ArmAlarm
  <2>3. ("lock" \in cut' <=> "lock" \in cut) /\ ("lock" \in alarms => "lock" \in alarms')
    BY <1>11 DEF ClearAlarm, ArmAlarm
  <2> QED BY <1>1, <2>1, <2>2, <2>3, LockQuiet
<1>12. CASE ArmAlarm(p, "lock")
  BY <1>12, LockArms
<1> QED BY <1>2, <1>3, <1>6, <1>7, <1>8, <1>9, <1>10, <1>11, <1>12 DEF Step, Alarms

\* A handler that begins has nothing armed, and takes nothing from the others.
LEMMA BeginLock ==
  ASSUME Types, LockInv, NEW h \in Handlers, NEW s, Good(s), Starting(h, s),
         \A q \in Procs : q # h => locals'[q] = locals[q],
         prefs' = prefs, protection' = protection, session' = session, cut' = cut,
         "lock" \in alarms => "lock" \in alarms' \/ In("lock", s)
  PROVE  LockInv'
<1>1. h \in Procs /\ Body \in Procs /\ h # Body
  BY WorkerAssumption DEF Procs, Body
<1>2. First(h)' # "armLock"
  BY DEF First, Starting, Good, Starts
<1>3. ASSUME NEW q \in Procs
      PROVE  /\ Blind(q)' => Blind(q)
             /\ Ready(q) => Ready(q)'
             /\ Has(q, "lock") => Has(q, "lock")'
  <2>1. CASE todo'[q] = todo[q] /\ q # h
    BY <2>1 DEF Blind, Ready, Has, Arms, First
  <2>2. CASE todo[q] = <<>>
    <3>1. ~Ready(q) /\ ~Has(q, "lock")
      BY <2>2 DEF Ready, Arms, Has, In
    <3>2. First(q)' # "armLock"
      <4>1. CASE q = h
        BY <1>2, <4>1
      <4>2. CASE q # h
        <5>1. todo'[q] = todo[q] \/ todo'[q] = FirstSync
          BY <4>2 DEF Starting
        <5> QED BY <2>2, <5>1, FirstSyncHas DEF First
      <4> QED BY <4>1, <4>2
    <3> QED BY <3>1, <3>2 DEF Blind
  <2> QED BY <1>1, <2>1, <2>2 DEF Starting
<1>4. In("lock", s) => Has(h, "lock")'
  BY DEF Has, Starting
<1> QED BY <1>1, <1>3, <1>4 DEF LockInv

\* A worker that dies took a handler with it or left the countdown.
LEMMA EndLock ==
  ASSUME Types, LockInv, WorkerDies \/ \E h \in Handlers : BrowserRestarts(h)
  PROVE  LockInv'
<1>1. CASE \E h \in Handlers : BrowserRestarts(h)
  BY <1>1, LockIdle DEF BrowserRestarts
<1>2. CASE WorkerDies
  <2>1. \A p \in Procs : ~Blind(p)'
    BY <1>2 DEF WorkerDies, Blind, First
  <2>2. CASE \E p \in Procs : Ready(p) \/ Has(p, "lock")
    <3>1. "lock" \in cut'
      BY <1>2, <2>2 DEF WorkerDies, Ready, Alarms
    <3> QED BY <2>1, <3>1 DEF LockInv
  <2>3. CASE ~ \E p \in Procs : Ready(p) \/ Has(p, "lock")
    BY <1>2, <2>1, <2>3 DEF WorkerDies, Gone, LockInv
  <2> QED BY <2>2, <2>3
<1> QED BY <1>1, <1>2

-----------------------------------------------------------------------------
\* The alarm of the periodic sync.

\* Who is about to clear it or to arm it will arm it.
LEMMA FirstArms ==
  ASSUME Types, NEW p \in Procs, First(p) \in {"clearSync", "armSync"}
  PROVE  Arms(p, "sync")
<1> DEFINE s == todo[p]
<1>1. s # <<>> /\ s[1] \in {"clearSync", "armSync"} /\ Sound(s)
  BY DEF First, Types, Hands
<1> HIDE DEF s
<1>2. 1 \in DOMAIN s
  BY <1>1, Heads
<1>3. s[1] = "clearSync" => In("armSync", s)
  BY <1>1, MovesOn DEF Kept, Moved, In
<1>4. In("armSync", s)
  BY <1>1, <1>2, <1>3 DEF In
<1> QED BY <1>4 DEF Arms, Arm, Has, s

\* The others are where they were.
LEMMA OthersStay ==
  ASSUME NEW p \in Procs, Moves(p), NEW q \in Procs, q # p
  PROVE  First(q)' = First(q) /\ (Arms(q, "sync")' <=> Arms(q, "sync")) /\ locals'[q] = locals[q]
BY DEF Moves, First, Arms, Has

\* An await that has nothing to do with it.
LEMMA SyncQuiet ==
  ASSUME Types, SyncInv, NEW p \in Procs, Moves(p),
         First(p) \notin {"readPrefs", "setPrefs", "clearSync", "armSync"},
         prefs' = prefs, crossed' = crossed,
         "sync" \in cut' <=> "sync" \in cut, "sync" \in alarms' <=> "sync" \in alarms
  PROVE  SyncInv'
<1>1. First(p) = todo[p][1]
  BY DEF First, Moves
<1>2. First(p)' \notin {"clearSync", "armSync"}
  BY <1>1 DEF First, Moves, Moved
<1>3. Arms(p, "sync")' <=> Arms(p, "sync")
  BY <1>1 DEF Arms, Arm, Has, Moves, Moved
<1>4. \A q \in Procs : Arms(q, "sync")' <=> Arms(q, "sync")
  BY <1>3, OthersStay
<1>5. \A q \in Procs : First(q)' \in {"clearSync", "armSync"} => First(q)' = First(q) /\ locals'[q] = locals[q]
  BY <1>2, OthersStay
<1> QED BY <1>4, <1>5 DEF SyncInv, SyncIsArmed

\* Reading the preferences.
LEMMA SyncReads ==
  ASSUME Types, SyncInv, NEW p \in Procs, ReadPrefs(p)
  PROVE  SyncInv'
<1> USE DEF OnlyStored, stored, history
<1> DEFINE r == Tail(todo[p])
           k == [locals[p] EXCEPT !.saw = prefs]
<1>1. At(p, "readPrefs") /\ Left(p, r, k)
  BY DEF ReadPrefs
<1>2. /\ First(p) = "readPrefs" /\ todo[p][1] = "readPrefs" /\ todo[p] # <<>> /\ locals[p] \in Notes
      /\ Moved(todo[p], r) /\ Kept(todo[p], r)
  BY <1>1, Stands
<1>3. k \in Notes /\ k.saw = prefs
  BY <1>2 DEF Notes, Types, Values
<1> HIDE DEF r, k
<1>4. r # <<>> /\ r[1] \in {"setPrefs", "clearSync"}
  BY <1>2 DEF Kept
<1>5. Moves(p) /\ todo'[p] = r /\ locals'[p] = k
  BY <1>1, <1>2, <1>3, <1>4, Leaves
<1>6. First(p)' # "armSync"
  BY <1>4, <1>5 DEF First
<1>7. Arms(p, "sync")' <=> Arms(p, "sync")
  BY <1>2, <1>5 DEF Arms, Arm, Has, Moved
<1>8. \A q \in Procs : Arms(q, "sync")' <=> Arms(q, "sync")
  BY <1>5, <1>7, OthersStay
<1>9. UNCHANGED <<prefs, alarms, cut, crossed>>
  BY DEF ReadPrefs
<1>10. \A q \in Procs : q # p => First(q)' = First(q) /\ locals'[q] = locals[q]
  BY <1>5, OthersStay
<1>11. SyncIsArmed'
  BY <1>8, <1>9 DEF SyncInv, SyncIsArmed
<1> QED BY <1>3, <1>5, <1>6, <1>8, <1>9, <1>10, <1>11 DEF SyncInv

\* Writing them: nobody else knows the old ones, unless two overlapped.
LEMMA SyncWrites ==
  ASSUME Types, SyncInv, NEW p \in Procs, SetPrefs(p)
  PROVE  SyncInv'
<1> USE DEF OnlyStored, history
<1>1. At(p, "setPrefs") /\ todo'[p] = Tail(todo[p])
  BY DEF SetPrefs, Left, Types, Hands
<1>2. /\ First(p) = "setPrefs" /\ todo[p][1] = "setPrefs" /\ todo[p] # <<>>
      /\ Moved(todo[p], Tail(todo[p])) /\ Kept(todo[p], Tail(todo[p]))
  BY <1>1, Stands
<1>3. Moves(p)
  BY StepMoves DEF Step
<1>4. Arms(p, "sync")' /\ Arms(p, "sync")
  BY <1>1, <1>2 DEF Arms, Arm, Has, Kept, Moved
<1>5. First(p)' \notin {"clearSync", "armSync"}
  BY <1>1, <1>2 DEF Moved, First
<1>6. UNCHANGED <<alarms, cut, crossed>>
  BY DEF SetPrefs
<1>7. \A q \in Procs : Arms(q, "sync")' <=> Arms(q, "sync")
  BY <1>3, <1>4, OthersStay
<1>8. ASSUME ~crossed, NEW q \in Procs
      PROVE  First(q)' \notin {"clearSync", "armSync"}
  <2>1. CASE q = p
    BY <1>5, <2>1
  <2>2. CASE q # p
    <3>1. ~Arms(q, "sync")
      BY <1>4, <1>8, <2>2 DEF SyncInv
    <3>2. First(q) \notin {"clearSync", "armSync"}
      BY <3>1, FirstArms
    <3> QED BY <1>3, <2>2, <3>2, OthersStay
  <2> QED BY <2>1, <2>2
<1>9. SyncIsArmed'
  BY <1>4 DEF SyncIsArmed
<1> QED BY <1>6, <1>7, <1>8, <1>9 DEF SyncInv

\* Clearing it.
LEMMA SyncClears ==
  ASSUME Types, SyncInv, NEW p \in Procs, ClearAlarm(p, "sync")
  PROVE  SyncInv'
<1> USE DEF OnlyStored, history
<1>1. At(p, "clearSync") /\ Onwards(p)
  BY DEF ClearAlarm, Clear
<1>2. /\ First(p) = "clearSync" /\ todo[p][1] = "clearSync" /\ todo[p] # <<>>
      /\ Moved(todo[p], Tail(todo[p])) /\ Kept(todo[p], Tail(todo[p]))
  BY <1>1, Stands
<1>3. Moves(p) /\ todo'[p] = Tail(todo[p]) /\ Tail(todo[p]) # <<>> /\ locals'[p] = locals[p]
  BY <1>1, <1>2, GoesOn DEF Kept
<1>4. Arms(p, "sync")' /\ Arms(p, "sync")
  BY <1>2, <1>3, FirstArms DEF Arms, Arm, Has, Moved
<1>5. \A q \in Procs : Arms(q, "sync")' <=> Arms(q, "sync")
  BY <1>3, <1>4, OthersStay
<1>6. "sync" \notin alarms' /\ UNCHANGED <<prefs, cut, crossed>>
  BY DEF ClearAlarm
<1>7. \A q \in Procs : q # p => First(q)' = First(q) /\ locals'[q] = locals[q]
  BY <1>3, OthersStay
<1>8. SyncIsArmed'
  BY <1>4 DEF SyncIsArmed
<1>9. ASSUME ~crossed, NEW q \in Procs, First(q)' \in {"clearSync", "armSync"}
      PROVE  locals'[q].saw.sync = prefs.sync
  BY <1>2, <1>3, <1>7, <1>9 DEF SyncInv
<1> QED BY <1>5, <1>6, <1>8, <1>9 DEF SyncInv

\* Arming it.
LEMMA SyncArms ==
  ASSUME Types, SyncInv, NEW p \in Procs, ArmAlarm(p, "sync")
  PROVE  SyncInv'
<1> USE DEF vault
<1>1. At(p, "armSync")
  BY DEF ArmAlarm, Arm
<1>2. First(p) = "armSync" /\ todo[p][1] = "armSync" /\ todo[p] # <<>>
  BY <1>1, Stands
<1>3. Moves(p)
  BY StepMoves DEF Step, Alarms
<1>4. First(p)' \notin {"clearSync", "armSync"}
  BY <1>2, <1>3 DEF First, Moves, Moved
<1>5. Arms(p, "sync")
  BY <1>2, FirstArms
<1>6. UNCHANGED <<prefs, crossed>>
  BY DEF ArmAlarm
<1>7. CASE crossed
  BY <1>6, <1>7 DEF SyncInv, SyncIsArmed
<1>8. CASE ~crossed
  <2>1. \A q \in Procs : q # p => ~Arms(q, "sync")
    BY <1>5, <1>8 DEF SyncInv
  <2>2. ASSUME NEW q \in Procs
        PROVE  First(q)' \notin {"clearSync", "armSync"} /\ (q # p => ~Arms(q, "sync")')
    <3>1. CASE q = p
      BY <1>4, <3>1
    <3>2. CASE q # p
      <4>1. ~Arms(q, "sync") /\ First(q) \notin {"clearSync", "armSync"}
        BY <2>1, <3>2, FirstArms
      <4> QED BY <1>3, <3>2, <4>1, OthersStay
    <3> QED BY <3>1, <3>2
  <2>3. locals[p].saw.sync = prefs.sync /\ "sync" \notin alarms
    BY <1>2, <1>8 DEF SyncInv
  <2>4. "sync" \in alarms' <=> prefs'.sync
    BY <1>6, <2>3 DEF ArmAlarm
  <2>5. SyncIsArmed'
    BY <2>4 DEF SyncIsArmed
  <2> QED BY <2>2, <2>5 DEF SyncInv
<1> QED BY <1>7, <1>8

LEMMA StepSync ==
  ASSUME Types, SyncInv, NEW p \in Procs, Step(p)
  PROVE  SyncInv'
<1> USE DEF OnlyVault, OnlyStored, stored, worker, vault, history, counts
<1>1. Moves(p)
  BY StepMoves
<1>2. CASE Unlock(p) \/ Lock(p) \/ Protect(p) \/ Reset(p) \/ SaveAccount(p) \/ ForgetAccount(p) \/ Edit(p)
           \/ AskLockAfter(p) \/ Sync(p) \/ QueueSync(p) \/ AskUnlocked(p) \/ AskSynced(p) \/ MarkTried(p)
           \/ CatchUp(p)
  <2>1. First(p) \in {"unlock", "lock", "protect", "reset", "saveAccount", "forgetAccount", "edit", "lockAfter?",
                      "sync", "queueSync", "unlocked?", "neverSynced?", "markTried", "catchUp"}
    BY <1>2, Stands DEF Unlock, Lock, Protect, Reset, SaveAccount, ForgetAccount, Edit, AskLockAfter, Sync,
       QueueSync, AskUnlocked, AskSynced, MarkTried, CatchUp
  <2>2. UNCHANGED <<prefs, crossed, cut, alarms>>
    BY <1>2 DEF Unlock, Lock, Protect, Reset, SaveAccount, ForgetAccount, Edit, AskLockAfter, Sync,
       QueueSync, AskUnlocked, AskSynced, MarkTried, CatchUp
  <2> QED BY <1>1, <2>1, <2>2, SyncQuiet
<1>3. CASE ClearAlarm(p, "lock") \/ ArmAlarm(p, "lock")
  <2>1. First(p) \in {"clearLock", "armLock"}
    BY <1>3, Stands DEF ClearAlarm, ArmAlarm, Clear, Arm
  <2>2. /\ UNCHANGED <<prefs, crossed>>
        /\ "sync" \in cut' <=> "sync" \in cut
        /\ "sync" \in alarms' <=> "sync" \in alarms
    BY <1>3 DEF ClearAlarm, ArmAlarm
  <2> QED BY <1>1, <2>1, <2>2, SyncQuiet
<1> QED BY <1>2, <1>3, SyncReads, SyncWrites, SyncClears, SyncArms DEF Step, Alarms

\* A handler that begins.
LEMMA BeginSync ==
  ASSUME Types, SyncInv, NEW h \in Handlers, NEW s, Good(s), Starting(h, s),
         \A q \in Procs : q # h => locals'[q] = locals[q],
         prefs' = prefs, cut' = cut, "sync" \in alarms' <=> "sync" \in alarms
  PROVE  SyncInv'
<1>1. h \in Procs /\ Body \in Procs /\ h # Body
  BY WorkerAssumption DEF Procs, Body
<1>2. ASSUME NEW q \in Procs, q # h
      PROVE  /\ Arms(q, "sync")' <=> Arms(q, "sync")
             /\ First(q)' \in {"clearSync", "armSync"} => First(q)' = First(q) /\ locals'[q] = locals[q]
  <2>1. CASE todo'[q] = todo[q]
    BY <1>2, <2>1 DEF Arms, Has, First
  <2>2. CASE todo[q] = <<>> /\ todo'[q] = FirstSync
    <3>1. ~Arms(q, "sync") /\ ~Arms(q, "sync")'
      BY <2>2, FirstSyncHas DEF Arms, Arm, Has, In
    <3> QED BY <2>2, <3>1, FirstSyncHas DEF First
  <2> QED BY <1>2, <2>1, <2>2 DEF Starting
<1>3. First(h)' \notin {"clearSync", "armSync"}
  BY DEF First, Starting, Good, Starts
<1>4. ~Arms(h, "sync")
  BY DEF Starting, Arms, Has, In
<1>5. CASE crossed'
  BY <1>5 DEF SyncInv, SyncIsArmed
<1>6. CASE ~crossed'
  <2>1. ~crossed /\ (Arms(h, "sync")' => \A q \in Procs : ~Arms(q, "sync"))
    BY <1>6 DEF Starting, Arms, Arm, Has
  <2>2. \A q, o \in Procs : Arms(q, "sync")' /\ Arms(o, "sync")' => q = o
    BY <1>2, <2>1 DEF SyncInv
  <2>3. \A q \in Procs : First(q)' \in {"clearSync", "armSync"} => locals'[q].saw.sync = prefs.sync
    BY <1>2, <1>3, <2>1 DEF SyncInv
  <2>4. \A q \in Procs : First(q)' = "armSync" => "sync" \notin alarms'
    BY <1>2, <1>3, <2>1 DEF SyncInv
  <2>5. SyncIsArmed'
    BY <1>2, <1>4, <2>1 DEF SyncInv, SyncIsArmed
  <2> QED BY <2>2, <2>3, <2>4, <2>5 DEF SyncInv
<1> QED BY <1>5, <1>6

\* The end of the worker and of the browser.
LEMMA EndSync ==
  ASSUME Types, SyncInv, WorkerDies \/ \E h \in Handlers : BrowserRestarts(h)
  PROVE  SyncInv'
<1>1. CASE WorkerDies
  <2>1. \A p \in Procs : First(p)' = "none" /\ ~Arms(p, "sync")'
    BY <1>1 DEF WorkerDies, First, Arms, Has, In
  <2>2. UNCHANGED <<prefs, alarms, crossed>>
    BY <1>1 DEF WorkerDies, Gone
  <2>3. SyncIsArmed'
    <3>1. CASE crossed \/ "sync" \in cut \/ ("sync" \in alarms <=> prefs.sync)
      BY <1>1, <2>2, <3>1 DEF WorkerDies, SyncIsArmed
    <3>2. CASE \E p \in Procs : Arms(p, "sync")
      BY <1>1, <3>2 DEF WorkerDies, SyncIsArmed, Alarms
    <3> QED BY <3>1, <3>2 DEF SyncInv, SyncIsArmed
  <2> QED BY <2>1, <2>3 DEF SyncInv
<1>2. CASE \E h \in Handlers : BrowserRestarts(h)
  <2>1. PICK h \in Handlers : BrowserRestarts(h)
    BY <1>2
  <2>2. h \in Procs /\ h # Body
    BY WorkerAssumption DEF Procs, Body
  <2> DEFINE s == Program("startup")
  <2>3. s # <<>> /\ s[1] \in Starts
    BY Programs DEF Ops, Good
  <2>4. In("armSync", s)
    <3>1. s = PeriodicSync \o FirstSync /\ PeriodicSync \in Seq(Awaits) /\ FirstSync \in Seq(Awaits)
      BY Typed DEF Program
    <3>2. 3 \in 1..Len(PeriodicSync) /\ PeriodicSync[3] = "armSync"
      BY Texts
    <3> HIDE DEF s
    <3>3. s \in Seq(Awaits) /\ Len(s) = Len(PeriodicSync) + Len(FirstSync) /\ s[3] = "armSync"
      BY <3>1, <3>2, Joined
    <3>4. 3 \in DOMAIN s
      BY <3>1, <3>2, <3>3
    <3> QED BY <3>3, <3>4 DEF In
  <2>5. todo' = [p \in Procs |-> IF p = Body THEN FirstSync ELSE IF p = h THEN s ELSE <<>>]
    BY <2>1 DEF BrowserRestarts
  <2> HIDE DEF s
  <2>6. Arms(h, "sync")' /\ First(h)' \notin {"clearSync", "armSync"}
    BY <2>2, <2>3, <2>4, <2>5 DEF Arms, Arm, Has, First, Starts
  <2>7. ASSUME NEW q \in Procs, q # h
        PROVE  ~Arms(q, "sync")' /\ First(q)' \notin {"clearSync", "armSync"}
    <3>1. todo'[q] \in {FirstSync, <<>>}
      BY <2>5, <2>7
    <3> QED BY <3>1, FirstSyncHas DEF Arms, Arm, Has, First, In
  <2>8. SyncIsArmed'
    BY <2>2, <2>6 DEF SyncIsArmed
  <2> QED BY <2>6, <2>7, <2>8 DEF SyncInv
<1> QED BY <1>1, <1>2

-----------------------------------------------------------------------------
\* The catch-up of a browser session.

\* Who found that it was not tried will try it.
LEMMA PastHas ==
  ASSUME Types, NEW p \in Procs, Past(p)
  PROVE  Has(p, "catchUp")
<1> DEFINE s == todo[p]
<1>1. s # <<>> /\ s[1] \in {"markTried", "catchUp"} /\ Sound(s)
  BY DEF Past, First, Types, Hands
<1> HIDE DEF s
<1>2. Len(s) \in Nat /\ 1 \in 1..Len(s) /\ Paired(s, 1) /\ DOMAIN s = 1..Len(s)
  BY <1>1, Heads
<1>3. In("catchUp", s)
  BY <1>1, <1>2 DEF In, Paired
<1> QED BY <1>3 DEF Has, s

\* The others are where they were.
LEMMA OthersWait ==
  ASSUME NEW p \in Procs, Moves(p), NEW q \in Procs, q # p
  PROVE  First(q)' = First(q) /\ (Past(q)' <=> Past(q)) /\ (Has(q, "catchUp")' <=> Has(q, "catchUp"))
BY DEF Moves, First, Past, Has

\* No await adds one.
LEMMA StartersStay ==
  ASSUME TryInv, NEW p \in Procs, Moves(p)
  PROVE  \A q, o \in Handlers : Has(q, "catchUp")' /\ Has(o, "catchUp")' => q = o
<1>1. Has(p, "catchUp")' => Has(p, "catchUp")
  BY DEF Has, Moves, Moved
<1>2. \A q \in Procs : Has(q, "catchUp")' => Has(q, "catchUp")
  BY <1>1, OthersWait
<1> QED BY <1>2 DEF TryInv, Procs

\* An await that has nothing to do with it.
LEMMA TryQuiet ==
  ASSUME Types, TryInv, NEW p \in Procs, Moves(p),
         First(p) \notin {"neverSynced?", "markTried", "catchUp"}, tries' = tries, tried' = tried
  PROVE  TryInv'
<1>1. First(p) = todo[p][1]
  BY DEF First, Moves
<1>2. First(p)' \notin {"markTried", "catchUp"} /\ ~Past(p)'
  BY <1>1 DEF First, Past, Moves, Moved
<1>3. \A q \in Procs : (Past(q)' => Past(q)) /\ (First(q)' = "catchUp" => First(q) = "catchUp")
  BY <1>2, OthersWait
<1>4. \A q, o \in Handlers : Has(q, "catchUp")' /\ Has(o, "catchUp")' => q = o
  BY StartersStay
<1> QED BY <1>3, <1>4 DEF TryInv

\* Finding that it was not tried.
LEMMA TryAsks ==
  ASSUME Types, TryInv, NEW p \in Procs, AskSynced(p)
  PROVE  TryInv'
<1> USE DEF OnlyStored, stored, history
<1>1. Moves(p)
  BY StepMoves DEF Step
<1>2. At(p, "neverSynced?") /\ OnwardsIf(p, ~tried /\ Unlocked /\ connected /\ ~synced)
  BY DEF AskSynced
<1>3. First(p) = "neverSynced?" /\ todo[p][1] = "neverSynced?" /\ todo[p] # <<>>
  BY <1>2, Stands
<1>4. First(p)' # "catchUp"
  BY <1>1, <1>3 DEF First, Moves, Moved
<1>5. \A q, o \in Handlers : Has(q, "catchUp")' /\ Has(o, "catchUp")' => q = o
  BY <1>1, StartersStay
<1>6. tries' = tries /\ tried' = tried
  BY DEF AskSynced
<1>7. \A q \in Procs : First(q)' = "catchUp" => First(q) = "catchUp"
  BY <1>1, <1>4, OthersWait
<1>8. CASE tried
  <2>1. todo'[p] = <<>>
    BY <1>2, <1>8, GoesOnIf
  <2>2. ~Past(p)'
    BY <2>1 DEF Past, First
  <2>3. \A q \in Procs : Past(q)' => Past(q)
    BY <1>1, <2>2, OthersWait
  <2> QED BY <1>5, <1>6, <1>7, <1>8, <2>3 DEF TryInv
<1>9. CASE ~tried
  BY <1>5, <1>6, <1>7, <1>9 DEF TryInv
<1> QED BY <1>8, <1>9

\* Marking it, before it runs.
LEMMA TryMarks ==
  ASSUME Types, TryInv, NEW p \in Procs, MarkTried(p)
  PROVE  TryInv'
<1> USE DEF OnlyStored, history
<1>1. Moves(p)
  BY StepMoves DEF Step
<1>2. Past(p)
  BY Stands DEF MarkTried, Past
<1>3. tries' = tries /\ tried' = TRUE
  BY DEF MarkTried
<1>4. \A q \in Procs : Past(q)' => Past(q)
  BY <1>1, <1>2, OthersWait
<1>5. \A q, o \in Handlers : Has(q, "catchUp")' /\ Has(o, "catchUp")' => q = o
  BY <1>1, StartersStay
<1> QED BY <1>3, <1>4, <1>5 DEF TryInv

\* Running it: of the two that may have passed the mark, one is left.
LEMMA TryRuns ==
  ASSUME Types, TryInv, NEW p \in Procs, CatchUp(p)
  PROVE  TryInv'
<1>1. Moves(p)
  BY StepMoves DEF Step
<1>2. First(p) = "catchUp" /\ Past(p) /\ todo'[p] = <<>>
  <2>1. At(p, "catchUp") /\ Onwards(p)
    BY DEF CatchUp
  <2>2. First(p) = "catchUp" /\ todo[p][1] = "catchUp" /\ Kept(todo[p], Tail(todo[p]))
    BY <2>1, Stands
  <2>3. todo'[p] = Tail(todo[p])
    BY <2>1, GoesOn
  <2> QED BY <2>2, <2>3 DEF Kept, Past
<1>3. tried /\ tried' = tried /\ tries' = tries + 1 /\ tries \in {0, 1}
  <2>1. tried /\ tries # 2 /\ tries <= 2 /\ tries \in Nat
    BY <1>2 DEF TryInv, Types, Values
  <2>2. tried' = tried /\ tries' = tries + 1
    BY DEF CatchUp, stored
  <2> QED BY <2>1, <2>2
<1>4. First(p)' = "none" /\ ~Past(p)'
  BY <1>2 DEF First, Past
<1>5. \A q \in Procs : Past(q)' => Past(q) /\ q # p
  BY <1>1, <1>4, OthersWait
<1>6. \A q, o \in Handlers : Has(q, "catchUp")' /\ Has(o, "catchUp")' => q = o
  BY <1>1, StartersStay
<1>7. CASE tries = 0
  <2>1. ASSUME NEW q \in Procs, NEW o \in Procs, Past(q), Past(o), q # p, o # p
        PROVE  q = o
    <3>1. Has(p, "catchUp") /\ Has(q, "catchUp") /\ Has(o, "catchUp")
      BY <1>2, <2>1, PastHas
    <3>2. \A a, b \in Handlers : Has(a, "catchUp") /\ Has(b, "catchUp") => a = b
      BY DEF TryInv
    <3> QED BY <2>1, <3>1, <3>2 DEF Procs
  <2>2. tries' = 1
    BY <1>3, <1>7
  <2> QED BY <1>3, <1>5, <1>6, <2>1, <2>2 DEF TryInv
<1>8. CASE tries = 1
  <2>1. tries' = 2
    BY <1>3, <1>8
  <2>2. \A q \in Procs : ~Past(q)'
    BY <1>2, <1>5, <1>8 DEF TryInv
  <2> QED BY <1>3, <1>6, <2>1, <2>2 DEF TryInv
<1> QED BY <1>3, <1>7, <1>8

LEMMA StepTry ==
  ASSUME Types, TryInv, NEW p \in Procs, Step(p)
  PROVE  TryInv'
<1> USE DEF OnlyVault, OnlyStored, stored, worker, vault, history, counts
<1>1. Moves(p)
  BY StepMoves
<1>2. CASE Unlock(p) \/ Lock(p) \/ Protect(p) \/ Reset(p) \/ SaveAccount(p) \/ ForgetAccount(p) \/ Edit(p)
           \/ ReadPrefs(p) \/ SetPrefs(p) \/ AskLockAfter(p) \/ Sync(p) \/ QueueSync(p) \/ AskUnlocked(p)
  <2>1. First(p) \in {"unlock", "lock", "protect", "reset", "saveAccount", "forgetAccount", "edit", "readPrefs",
                      "setPrefs", "lockAfter?", "sync", "queueSync", "unlocked?"}
    BY <1>2, Stands DEF Unlock, Lock, Protect, Reset, SaveAccount, ForgetAccount, Edit, ReadPrefs, SetPrefs,
       AskLockAfter, Sync, QueueSync, AskUnlocked
  <2>2. tries' = tries /\ tried' = tried
    BY <1>2 DEF Unlock, Lock, Protect, Reset, SaveAccount, ForgetAccount, Edit, ReadPrefs, SetPrefs,
       AskLockAfter, Sync, QueueSync, AskUnlocked
  <2> QED BY <1>1, <2>1, <2>2, TryQuiet
<1>3. ASSUME NEW name \in Alarms, ClearAlarm(p, name) \/ ArmAlarm(p, name)
      PROVE  TryInv'
  <2>1. First(p) \in {"clearSync", "armSync", "clearLock", "armLock"}
    BY <1>3, Stands DEF ClearAlarm, ArmAlarm, Clear, Arm
  <2>2. tries' = tries /\ tried' = tried
    BY <1>3 DEF ClearAlarm, ArmAlarm
  <2> QED BY <1>1, <2>1, <2>2, TryQuiet
<1> QED BY <1>2, <1>3, TryAsks, TryMarks, TryRuns DEF Step

\* A handler that begins, other than the start of the browser's.
LEMMA BeginTry ==
  ASSUME Types, TryInv, NEW h \in Handlers, NEW s, Good(s), Starting(h, s), ~In("catchUp", s),
         tries' = tries, tried' = tried
  PROVE  TryInv'
<1>1. h \in Procs /\ Body \in Procs /\ Body \notin Handlers
  BY WorkerAssumption DEF Procs, Body
<1>2. First(h)' \notin {"markTried", "catchUp"} /\ ~Has(h, "catchUp")'
  BY DEF First, Starting, Good, Starts, Has
<1>3. ASSUME NEW q \in Procs
      PROVE  (Past(q)' => Past(q)) /\ (First(q)' = "catchUp" => First(q) = "catchUp")
  <2>1. CASE todo'[q] = todo[q]
    BY <2>1 DEF First, Past
  <2>2. CASE q = h
    BY <1>2, <2>2 DEF Past
  <2>3. CASE todo'[q] = FirstSync
    BY <2>3, FirstSyncHas DEF First, Past
  <2> QED BY <2>1, <2>2, <2>3 DEF Starting
<1>4. ASSUME NEW q \in Handlers, Has(q, "catchUp")'
      PROVE  Has(q, "catchUp")
  <2>1. q # h /\ q # Body /\ q \in Procs
    BY <1>1, <1>2, <1>4 DEF Procs
  <2> QED BY <1>4, <2>1 DEF Has, Starting
<1> QED BY <1>3, <1>4 DEF TryInv

\* The end of the worker and of the browser.
LEMMA EndTry ==
  ASSUME Types, TryInv, WorkerDies \/ \E h \in Handlers : BrowserRestarts(h)
  PROVE  TryInv'
<1>1. CASE WorkerDies
  <2>1. \A p \in Procs : ~Past(p)' /\ First(p)' = "none" /\ ~Has(p, "catchUp")'
    BY <1>1 DEF WorkerDies, First, Past, Has, In
  <2>2. tries' = tries /\ tried' = tried
    BY <1>1 DEF WorkerDies
  <2> QED BY <2>1, <2>2 DEF TryInv, Procs
<1>2. CASE \E h \in Handlers : BrowserRestarts(h)
  <2>1. PICK h \in Handlers : BrowserRestarts(h)
    BY <1>2
  <2>2. Body \notin Handlers
    BY WorkerAssumption DEF Body
  <2> DEFINE s == Program("startup")
  <2>3. s # <<>> /\ s[1] \in Starts
    BY Programs DEF Ops, Good
  <2>4. /\ todo' = [p \in Procs |-> IF p = Body THEN FirstSync ELSE IF p = h THEN s ELSE <<>>]
        /\ tries' = 0
    BY <2>1 DEF BrowserRestarts
  <2> HIDE DEF s
  <2>5. ASSUME NEW q \in Procs
        PROVE  First(q)' # "catchUp"
    <3>1. todo'[q] \in {FirstSync, s, <<>>}
      BY <2>4
    <3> QED BY <2>3, <3>1, FirstSyncHas DEF First, Starts
  <2>6. ASSUME NEW q \in Handlers, q # h
        PROVE  ~Has(q, "catchUp")'
    BY <2>2, <2>4, <2>6 DEF Has, In, Procs
  <2> QED BY <2>4, <2>5, <2>6 DEF TryInv
<1> QED BY <1>1, <1>2

-----------------------------------------------------------------------------
\* The queued syncs.

LEMMA NextPromise ==
  ASSUME Types, QueuedIsPushed, [Next]_vars
  PROVE  QueuedIsPushed'
<1> USE DEF OnlyVault, OnlyStored, stored, worker, vault, history, counts
<1>1. ASSUME promised' = promised, timer' = timer, CallSync \/ run' = run
      PROVE  QueuedIsPushed'
  BY <1>1 DEF QueuedIsPushed, CallSync, Types, Values
<1>2. ASSUME promised' = {}
      PROVE  QueuedIsPushed'
  BY <1>2 DEF QueuedIsPushed
<1>3. ASSUME NEW h \in Handlers, NEW op, NEW key, NEW value, Event(h, op, key, value)
      PROVE  QueuedIsPushed'
  BY <1>1, <1>3 DEF Event
<1>4. ASSUME NEW h \in Handlers, NEW name, AlarmFires(h, name)
      PROVE  QueuedIsPushed'
  BY <1>1, <1>4 DEF AlarmFires
<1>5. ASSUME NEW h \in Handlers, BrowserRestarts(h)
      PROVE  QueuedIsPushed'
  BY <1>2, <1>5 DEF BrowserRestarts, Gone
<1>6. ASSUME NEW p \in Procs, Step(p)
      PROVE  QueuedIsPushed'
  <2>1. CASE Unlock(p) \/ Lock(p) \/ Protect(p) \/ SaveAccount(p) \/ ForgetAccount(p) \/ Edit(p) \/ ReadPrefs(p)
             \/ SetPrefs(p) \/ AskLockAfter(p) \/ AskUnlocked(p) \/ AskSynced(p) \/ MarkTried(p)
    BY <1>1, <2>1 DEF Unlock, Lock, Protect, SaveAccount, ForgetAccount, Edit, ReadPrefs, SetPrefs,
       AskLockAfter, AskUnlocked, AskSynced, MarkTried
  <2>2. CASE Reset(p)
    BY <1>2, <2>2 DEF Reset
  <2>3. CASE Sync(p) \/ CatchUp(p)
    BY <1>1, <2>3 DEF Sync, CatchUp
  <2>4. CASE \E name \in Alarms : ClearAlarm(p, name) \/ ArmAlarm(p, name)
    BY <1>1, <2>4 DEF ClearAlarm, ArmAlarm
  <2>5. CASE QueueSync(p)
    BY <2>5 DEF QueueSync, QueuedIsPushed
  <2> QED BY <1>6, <2>1, <2>2, <2>3, <2>4, <2>5 DEF Step
<1>7. CASE TimerFires
  <2>1. run.at \in {"idle", "early", "late"}
    BY DEF Types, Values
  <2>2. CASE run.at = "late"
    BY <1>7, <2>2 DEF TimerFires, CallSync, QueuedIsPushed
  <2>3. CASE run.at # "late"
    <3>1. run'.at = "early"
      BY <1>7, <2>1, <2>3 DEF TimerFires, CallSync
    <3> QED BY <3>1 DEF QueuedIsPushed
  <2> QED BY <2>2, <2>3
<1>8. CASE RunReads
  <2>1. run'.took = dirty /\ promised' = promised
    BY <1>8 DEF RunReads
  <2> QED BY <2>1 DEF QueuedIsPushed, Types, Values
<1>9. CASE RunPushes
  BY <1>9 DEF RunPushes, QueuedIsPushed
<1>10. CASE RunFails \/ WorkerDies
  BY <1>2, <1>10 DEF RunFails, WorkerDies, Gone
<1>11. CASE UNCHANGED vars
  BY <1>1, <1>11 DEF vars
<1> QED BY <1>3, <1>4, <1>5, <1>6, <1>7, <1>8, <1>9, <1>10, <1>11
    DEF Next, AskUnlock, AskLock, AskProtection, AskDisconnect, AskSync, SaveSetting, OtherMessage,
        BrowserEvent, Happens

-----------------------------------------------------------------------------
\* The invariant.

LEMMA WorkerInvInit == Init => WorkerInv
<1> SUFFICES ASSUME Init PROVE WorkerInv
  OBVIOUS
<1>1. Sound(<<>>) /\ <<>> \in Seq(Awaits) /\ \A x : ~In(x, <<>>)
  BY DEF Sound, In
<1>2. \A p \in Procs : todo[p] = <<>> /\ First(p) = "none" /\ \A x : ~Has(p, x)
  BY <1>1 DEF Init, First, Has
<1>3. Values
  <2>1. prefs \in Switches /\ alarms \subseteq Alarms /\ cut \subseteq Alarms
    BY DEF Init, Switches, Alarms
  <2>2. run \in [at: {"idle", "early", "late"}, took: SUBSET Edits]
    BY DEF Init, NoRun
  <2>3. connected \in BOOLEAN /\ protection \in {"none", "device", "passphrase"}
    BY DEF Init
  <2>4. tries \in Nat /\ events \in 0..MaxEvents /\ faults \in 0..MaxFaults
    BY WorkerAssumption DEF Init
  <2>5. /\ session = FALSE /\ synced = FALSE /\ tried = FALSE /\ alive = FALSE /\ timer = FALSE /\ crossed = FALSE
        /\ dirty = {} /\ promised = {}
    BY DEF Init
  <2> QED BY <2>1, <2>2, <2>3, <2>4, <2>5 DEF Values
<1>4. Hands
  <2>1. NoLocals \in Notes
    <3>1. 0 \in 0..MaxEvents
      BY WorkerAssumption
    <3> QED BY <3>1 DEF NoLocals, Notes, Alarms, Switches
  <2>2. todo \in [Procs -> Seq(Awaits)] /\ locals \in [Procs -> Notes]
    BY <1>1, <2>1 DEF Init
  <2> QED BY <1>1, <1>2, <2>2 DEF Init, Hands
<1>5. LockInv
  BY DEF Init, LockInv
<1>6. SyncInv
  BY <1>2 DEF Init, SyncInv, SyncIsArmed, Arms
<1>7. TryInv
  BY <1>2 DEF Init, TryInv, Past, Procs
<1>8. QueuedIsPushed
  BY DEF Init, QueuedIsPushed
<1> QED BY <1>3, <1>4, <1>5, <1>6, <1>7, <1>8 DEF WorkerInv, Types

LEMMA WorkerInvNext == WorkerInv /\ [Next]_vars => WorkerInv'
<1> SUFFICES ASSUME Types, LockInv, SyncInv, TryInv, QueuedIsPushed, [Next]_vars
             PROVE  Types' /\ LockInv' /\ SyncInv' /\ TryInv'
  BY NextPromise DEF WorkerInv
<1>1. ASSUME NEW h \in Handlers, NEW op \in Ops \ {"startup"}, NEW key \in Alarms, NEW value \in BOOLEAN,
             Event(h, op, key, value)
      PROVE  Types' /\ LockInv' /\ SyncInv' /\ TryInv'
  <2>1. Starting(h, Program(op)) /\ Good(Program(op))
    BY <1>1, Begins DEF Event
  <2>2. ~In("catchUp", Program(op))
    BY CatchUpsBelongTo
  <2>3. UNCHANGED <<prefs, protection, session, cut, alarms, tries, tried>>
    BY <1>1 DEF Event, vault, stored
  <2>4. \A q \in Procs : q # h => locals'[q] = locals[q]
    BY <1>1 DEF Event, Types, Hands
  <2> QED BY <1>1, <2>1, <2>2, <2>3, <2>4, EventTypes, BeginLock, BeginSync, BeginTry
<1>2. ASSUME NEW h \in Handlers, NEW name \in Alarms, AlarmFires(h, name)
      PROVE  Types' /\ LockInv' /\ SyncInv' /\ TryInv'
  <2>1. Ring(name) \in Ops \ {"startup"}
    BY DEF Ring, Ops
  <2>2. Starting(h, Program(Ring(name))) /\ Good(Program(Ring(name))) /\ ~In("catchUp", Program(Ring(name)))
    BY <1>2, <2>1, Begins, CatchUpsBelongTo DEF AlarmFires
  <2>3. UNCHANGED <<prefs, protection, session, cut, tries, tried, locals>>
    BY <1>2 DEF AlarmFires, vault
  <2>4. "lock" \in alarms => "lock" \in alarms' \/ In("lock", Program(Ring(name)))
    BY <1>2, AlarmProgramsHave DEF AlarmFires, Ring
  <2>5. "sync" \in alarms' <=> "sync" \in alarms
    BY <1>2 DEF AlarmFires
  <2> QED BY <1>2, <2>2, <2>3, <2>4, <2>5, AlarmTypes, BeginLock, BeginSync, BeginTry
<1>3. ASSUME NEW p \in Procs, Step(p)
      PROVE  Types' /\ LockInv' /\ SyncInv' /\ TryInv'
  BY <1>3, StepTypes, StepLock, StepSync, StepTry
<1>4. ASSUME UNCHANGED <<todo, locals, prefs, protection, session, cut, alarms, tries, tried, crossed>>
      PROVE  LockInv' /\ SyncInv' /\ TryInv'
  BY <1>4 DEF LockInv, SyncInv, TryInv, SyncIsArmed, Blind, Ready, Past, First, Arms, Has
<1>5. CASE TimerFires \/ RunReads \/ RunPushes \/ RunFails
  <2>1. UNCHANGED <<todo, locals, prefs, protection, session, cut, alarms, tries, tried, crossed>>
    BY <1>5 DEF TimerFires, RunReads, RunPushes, RunFails, vault, stored, history
  <2> QED BY <1>4, <1>5, <2>1, RunTypes
<1>6. CASE WorkerDies \/ \E h \in Handlers : BrowserRestarts(h)
  BY <1>6, EndTypes, EndLock, EndSync, EndTry
<1>7. CASE UNCHANGED vars
  <2>1. Types'
    BY <1>7 DEF Types, Values, Hands, Has, vars, vault, stored, worker, history, counts
  <2> QED BY <1>4, <1>7, <2>1 DEF vars, vault, stored, worker, history, counts
<1>8. CASE Next
  <2>1. ASSUME NEW h \in Handlers,
               \/ AskUnlock(h) \/ AskLock(h) \/ AskProtection(h) \/ AskDisconnect(h) \/ AskSync(h)
               \/ OtherMessage(h) \/ BrowserEvent(h)
               \/ \E key \in Alarms, value \in BOOLEAN : SaveSetting(h, key, value)
        PROVE  Types' /\ LockInv' /\ SyncInv' /\ TryInv'
    <3>1. \E op \in Ops \ {"startup"}, key \in Alarms, value \in BOOLEAN : Event(h, op, key, value)
      <4>1. "lock" \in Alarms /\ TRUE \in BOOLEAN
        BY DEF Alarms
      <4>2. CASE AskUnlock(h) \/ AskLock(h) \/ AskProtection(h) \/ AskDisconnect(h) \/ AskSync(h)
                 \/ OtherMessage(h) \/ BrowserEvent(h)
        <5>1. \E op \in Ops \ {"startup"} : Event(h, op, "lock", TRUE)
          BY <4>2 DEF AskUnlock, AskLock, AskProtection, AskDisconnect, AskSync, OtherMessage, BrowserEvent,
             Happens, Ops
        <5> QED BY <4>1, <5>1
      <4>3. CASE \E key \in Alarms, value \in BOOLEAN : SaveSetting(h, key, value)
        <5>1. "prefs/setGlobal" \in Ops \ {"startup"}
          BY DEF Ops
        <5> QED BY <4>3, <5>1 DEF SaveSetting
      <4> QED BY <2>1, <4>2, <4>3
    <3> QED BY <3>1, <1>1
  <2> QED BY <1>2, <1>3, <1>5, <1>6, <1>8, <2>1 DEF Next
<1> QED BY <1>7, <1>8

\* The handlers, with what they know of each other's alarms.
THEOREM WorkerKeepsOrder == Spec => []WorkerInv
<1>1. Init => WorkerInv
  BY WorkerInvInit
<1>2. WorkerInv /\ [Next]_vars => WorkerInv'
  BY WorkerInvNext
<1> QED BY <1>1, <1>2, PTL DEF Spec

LEMMA TypesAreOK == Types => TypeOK
<1> SUFFICES ASSUME Types PROVE TypeOK
  OBVIOUS
<1>1. run.at \in {"idle", "early", "late"} /\ run.took \subseteq Edits
  BY DEF Types, Values
<1>2. dirty \cup promised \cup run.took \subseteq Edits
  BY <1>1 DEF Types, Values
<1>3. {session, connected, synced, tried, alive, timer, crossed} \subseteq BOOLEAN
  BY DEF Types, Values
<1> QED BY <1>1, <1>2, <1>3 DEF Types, Values, Hands, Notes, TypeOK

\* The alarms that are set are those that the preferences and the vault ask for
\* (router.ts:489-526), for any number of handlers, messages and deaths of the worker.
THEOREM AlarmsAreAlwaysArmed == Spec => []AlarmsAreArmed
<1>1. WorkerInv => AlarmsAreArmed
  <2> SUFFICES ASSUME WorkerInv PROVE AlarmsAreArmed
    OBVIOUS
  <2>1. TypeOK
    BY TypesAreOK DEF WorkerInv
  <2>2. LockIsArmed
    BY DEF WorkerInv, LockInv, LockIsArmed, Ready
  <2>3. SyncIsArmed
    BY DEF WorkerInv, SyncInv
  <2> QED BY <2>1, <2>2, <2>3 DEF AlarmsAreArmed
<1> QED BY <1>1, WorkerKeepsOrder, PTL

\* The syncs that something asked for come, and a browser session's catch-up no more
\* often than it has starters (index.ts:75-106, router.ts:471-481).
THEOREM SyncsAreAlwaysStarted == Spec => []SyncsAreStarted
<1>1. WorkerInv => SyncsAreStarted
  BY DEF WorkerInv, TryInv, CatchUpFew, SyncsAreStarted
<1> QED BY <1>1, WorkerKeepsOrder, PTL

-----------------------------------------------------------------------------
\* The client of the bridge.

Outcome == [how: Errors \cup {"waiting", "answer"}, id: Int]
Unsettled == {id \in DOMAIN calls : calls[id] = Waiting}

\* The inductive invariant: table, timers and unsettled promises are the same calls.
ClientInv ==
  /\ calls \in Seq(Outcome)
  /\ pending = Unsettled
  /\ timers = Unsettled

\* Settling calls that wait, with anything but "waiting", takes them and no others from
\* the unsettled, and leaves as many calls.
LEMMA SettleEffect ==
  ASSUME ClientInv, NEW ids, ids \subseteq pending, NEW how \in Outcome, how.how # "waiting",
         Settle(ids, how), pending' = pending \ ids, timers' = timers \ ids
  PROVE  ClientInv' /\ Len(calls') = Len(calls)
  <1>1. calls' \in Seq(Outcome) /\ Len(calls') = Len(calls) /\ DOMAIN calls' = DOMAIN calls
    BY DEF Settle, ClientInv
  <1>2. \A id \in DOMAIN calls : calls'[id] = IF id \in ids THEN how ELSE calls[id]
    BY DEF Settle, ClientInv, Unsettled
  <1>3. how # Waiting
    BY DEF Waiting
  <1>4. Unsettled' = Unsettled \ ids
    BY <1>1, <1>2, <1>3 DEF Unsettled
  <1> QED
    BY <1>1, <1>4 DEF ClientInv

\* ... and adds them, with that outcome, to the results.
LEMMA SettleResults ==
  ASSUME ClientInv, NEW ids, ids \subseteq pending, NEW how \in Outcome, how.how # "waiting",
         Settle(ids, how)
  PROVE  Results' = Results \cup {[id |-> id, result |-> how] : id \in ids}
  <1>1. DOMAIN calls' = DOMAIN calls
    BY DEF Settle, ClientInv
  <1>2. \A id \in DOMAIN calls : calls'[id] = IF id \in ids THEN how ELSE calls[id]
    BY DEF Settle, ClientInv, Unsettled
  <1>3. how # Waiting
    BY DEF Waiting
  <1>4. ids \subseteq DOMAIN calls /\ \A id \in ids : calls[id] = Waiting
    BY DEF ClientInv, Unsettled
  <1> DEFINE Settled == {i \in DOMAIN calls : calls[i] # Waiting}
             SettledThen == {i \in DOMAIN calls' : calls'[i] # Waiting}
  <1>5. SettledThen = Settled \cup ids
    BY <1>1, <1>2, <1>3, <1>4
  <1>6. \A i \in ids : calls'[i] = how
    BY <1>2, <1>4
  <1>7. \A i \in Settled : calls'[i] = calls[i]
    BY <1>2, <1>4
  <1>8. Results' = {[id |-> i, result |-> calls'[i]] : i \in SettledThen}
    BY DEF Results
  <1>9. Results = {[id |-> i, result |-> calls[i]] : i \in Settled}
    BY DEF Results
  <1> HIDE DEF Settled, SettledThen
  <1>10. {[id |-> i, result |-> calls'[i]] : i \in SettledThen}
         = {[id |-> i, result |-> calls[i]] : i \in Settled} \cup {[id |-> i, result |-> how] : i \in ids}
    BY <1>5, <1>6, <1>7
  <1> QED
    BY <1>8, <1>9, <1>10

\* A call made is the last of the calls, and the others stay as they are.
LEMMA AppendEffect ==
  ASSUME ClientInv, NEW how \in Outcome, calls' = Append(calls, how)
  PROVE  /\ calls' \in Seq(Outcome) /\ Len(calls') = Len(calls) + 1
         /\ DOMAIN calls' = DOMAIN calls \cup {Len(calls) + 1}
         /\ Len(calls) + 1 \notin DOMAIN calls
         /\ calls'[Len(calls) + 1] = how
         /\ \A id \in DOMAIN calls : calls'[id] = calls[id]
  BY DEF ClientInv

\* The unsettled and the results after it.
LEMMA AppendUnsettled ==
  ASSUME ClientInv, NEW how \in Outcome, calls' = Append(calls, how)
  PROVE  Unsettled' = Unsettled \cup (IF how = Waiting THEN {Len(calls) + 1} ELSE {})
  BY AppendEffect DEF Unsettled

\* A call added as already answered adds its answer to what the table has answered.
LEMMA AppendResults ==
  ASSUME ClientInv, NEW how \in Outcome, calls' = Append(calls, how)
  PROVE  Results' = Results \cup (IF how = Waiting THEN {}
                                 ELSE {[id |-> Len(calls) + 1, result |-> how]})
  <1> DEFINE Settled == {i \in DOMAIN calls : calls[i] # Waiting}
             SettledThen == {i \in DOMAIN calls' : calls'[i] # Waiting}
             last == Len(calls) + 1
  <1>1. SettledThen = Settled \cup (IF how = Waiting THEN {} ELSE {last})
    BY AppendEffect
  <1>2. \A i \in Settled : calls'[i] = calls[i]
    BY AppendEffect
  <1>3. calls'[last] = how
    BY AppendEffect
  <1>4. Results' = {[id |-> i, result |-> calls'[i]] : i \in SettledThen}
    BY DEF Results
  <1>5. Results = {[id |-> i, result |-> calls[i]] : i \in Settled}
    BY DEF Results
  <1> HIDE DEF Settled, SettledThen, last
  <1>6. {[id |-> i, result |-> calls'[i]] : i \in SettledThen}
        = {[id |-> i, result |-> calls[i]] : i \in Settled}
            \cup (IF how = Waiting THEN {} ELSE {[id |-> last, result |-> how]})
    BY <1>1, <1>2, <1>3
  <1> QED
    BY <1>4, <1>5, <1>6 DEF last

\* Table and timers lose all that wait when the port ends.
LEMMA TeardownSettles ==
  ASSUME ClientInv, NEW error \in Errors, Teardown(error)
  PROVE  /\ ClientInv' /\ Len(calls') = Len(calls) /\ pending' = {}
         /\ Results' = Results \cup {[id |-> id, result |-> Failure(error)] : id \in pending}
  <1>1. Failure(error) \in Outcome /\ Failure(error).how # "waiting"
    BY DEF Failure, Outcome, Errors
  <1>2. Settle(pending, Failure(error)) /\ pending' = pending \ pending /\ timers' = timers \ pending
    BY DEF Teardown
  <1>3. ClientInv' /\ Len(calls') = Len(calls)
    BY <1>1, <1>2, SettleEffect
  <1>4. Results' = Results \cup {[id |-> id, result |-> Failure(error)] : id \in pending}
    BY <1>1, <1>2, SettleResults
  <1> QED
    BY <1>3, <1>4 DEF Teardown

\* One call settles: the client's table does, and the abstract one.
LEMMA OneSettles ==
  ASSUME ClientInv, NEW id \in pending, NEW how \in Outcome, how.how # "waiting",
         Settle({id}, how), pending' = pending \ {id}, timers' = timers \ {id}
  PROVE  ClientInv' /\ Table!Settle({id}, how)
  <1>1. ClientInv' /\ Len(calls') = Len(calls)
    BY SettleEffect
  <1>2. Results' = Results \cup {[id |-> i, result |-> how] : i \in {id}}
    BY SettleResults
  <1> QED
    BY <1>1, <1>2 DEF Table!Settle

\* Every step of the bridge keeps the invariant and is a step of the table.
LEMMA ClientStep ==
  ASSUME ClientInv, [BridgeNext]_bridgeVars
  PROVE  ClientInv' /\ [Table!Next]_(<<Len(calls), pending, Results>>)
  <1>1. CASE UNCHANGED client
    <2>1. UNCHANGED <<calls, pending, timers>>
      BY <1>1 DEF client
    <2>2. ClientInv'
      BY <2>1 DEF ClientInv, Unsettled
    <2>3. UNCHANGED <<Len(calls), pending, Results>>
      BY <2>1 DEF Results
    <2> QED
      BY <2>2, <2>3
  <1>2. ASSUME NEW size \in Sizes, Call(size)
        PROVE  ClientInv' /\ Table!Begin
    <2>1. calls' = Append(calls, Waiting)
      BY <1>2 DEF Call
    <2>2. pending' = pending \cup {Len(calls) + 1} /\ timers' = timers \cup {Len(calls) + 1}
      BY <1>2 DEF Call
    <2>3. Waiting \in Outcome
      BY DEF Waiting, Outcome
    <2>4. Unsettled' = Unsettled \cup {Len(calls) + 1}
      BY <2>1, <2>3, AppendUnsettled
    <2>5. ClientInv'
      BY <2>1, <2>2, <2>3, <2>4, AppendEffect DEF ClientInv
    <2>6. Results' = Results /\ Len(calls') = Len(calls) + 1
      BY <2>1, <2>3, AppendResults, AppendEffect
    <2> QED
      BY <2>2, <2>5, <2>6 DEF Table!Begin
  <1>3. ASSUME CallFails
        PROVE  ClientInv' /\ Table!BeginInVain("unavailable")
    <2> DEFINE how == Failure("unavailable")
    <2>1. calls' = Append(calls, how) /\ UNCHANGED <<pending, timers>>
      BY <1>3 DEF CallFails
    <2>2. how \in Outcome /\ how # Waiting
      BY DEF Failure, Outcome, Waiting, Errors
    <2>3. Unsettled' = Unsettled
      BY <2>1, <2>2, AppendUnsettled
    <2>4. ClientInv'
      BY <2>1, <2>2, <2>3, AppendEffect DEF ClientInv
    <2>5. Results' = Results \cup {[id |-> Len(calls) + 1, result |-> how]} /\ Len(calls') = Len(calls) + 1
      BY <2>1, <2>2, AppendResults, AppendEffect
    <2>6. how = Table!Failure("unavailable")
      BY DEF Failure, Table!Failure
    <2> HIDE DEF how
    <2> QED
      BY <2>1, <2>4, <2>5, <2>6 DEF Table!BeginInVain
  <1>4. CASE OnMessage
    <2> DEFINE id == Head(answers).id
               how == IF Head(answers).ok THEN Answer(id) ELSE Failure("refused")
    <2>1. CASE id \notin pending
      BY <1>4, <2>1, <1>1 DEF OnMessage, client
    <2>2. CASE id \in pending
      <3>1. Settle({id}, how) /\ pending' = pending \ {id} /\ timers' = timers \ {id}
        BY <1>4, <2>2 DEF OnMessage
      <3>2. id \in Int
        BY <2>2 DEF ClientInv, Unsettled
      <3>3. how \in Outcome /\ how.how # "waiting"
        BY <3>2 DEF Outcome, Answer, Failure, Errors
      <3>4. how \in {Table!Answer(id), Table!Failure("refused")}
        BY DEF Answer, Failure, Table!Answer, Table!Failure
      <3> HIDE DEF id, how
      <3>5. ClientInv' /\ Table!Settle({id}, how)
        BY <2>2, <3>1, <3>3, OneSettles
      <3> QED
        BY <2>2, <3>4, <3>5 DEF Table!Next, Errors
    <2> QED
      BY <2>1, <2>2
  <1>5. ASSUME NEW id \in DOMAIN calls, Timeout(id)
        PROVE  ClientInv' /\ Table!Next
    <2>1. Settle({id}, Failure("timeout")) /\ pending' = pending \ {id} /\ timers' = timers \ {id}
      BY <1>5 DEF Timeout
    <2>2. id \in pending
      BY <1>5 DEF Timeout, ClientInv
    <2>3. Failure("timeout") \in Outcome /\ Failure("timeout").how # "waiting"
      BY DEF Outcome, Failure, Errors
    <2>4. ClientInv' /\ Table!Settle({id}, Failure("timeout"))
      BY <2>1, <2>2, <2>3, OneSettles
    <2>5. Failure("timeout") = Table!Failure("timeout") /\ "timeout" \in Errors
      BY DEF Failure, Table!Failure, Errors
    <2> QED
      BY <2>2, <2>4, <2>5 DEF Table!Next
  <1>6. ASSUME NEW error \in Errors, Teardown(error)
        PROVE  ClientInv' /\ [Table!Next]_(<<Len(calls), pending, Results>>)
    <2>1. /\ ClientInv' /\ Len(calls') = Len(calls) /\ pending' = {}
          /\ Results' = Results \cup {[id |-> id, result |-> Failure(error)] : id \in pending}
      BY <1>6, TeardownSettles
    <2>2. Failure(error) = Table!Failure(error)
      BY DEF Failure, Table!Failure
    <2>3. CASE pending = {}
      BY <2>1, <2>3
    <2>4. CASE pending # {}
      <3>1. Table!Settle(pending, Table!Failure(error))
        BY <2>1, <2>2, <2>4 DEF Table!Settle
      <3> QED
        BY <1>6, <2>1, <3>1 DEF Table!Next
    <2> QED
      BY <2>3, <2>4
  <1>7. CASE OnDisconnect
    <2>1. PICK error \in {"unavailable", "closed"} : Teardown(error)
      BY <1>7 DEF OnDisconnect
    <2>2. error \in Errors
      BY DEF Errors
    <2> QED
      BY <1>6, <2>1, <2>2
  <1>8. CASE Disconnect
    <2>1. "closed" \in Errors /\ Teardown("closed")
      BY <1>8 DEF Disconnect, Errors
    <2> QED
      BY <1>6, <2>1
  <1>9. CASE UNCHANGED bridgeVars
    BY <1>1, <1>9 DEF bridgeVars
  <1>10. ASSUME NEW n \in DOMAIN pipe, Data(n)
         PROVE  UNCHANGED client
    BY <1>10 DEF Data
  <1>11. ASSUME NEW id \in DOMAIN calls, Handled(id)
         PROVE  UNCHANGED client
    BY <1>11 DEF Handled
  <1>12. CASE HostDies
    BY <1>1, <1>12 DEF HostDies
  <1>13. "unavailable" \in Errors
    BY DEF Errors
  <1> QED
    BY <1>1, <1>2, <1>3, <1>4, <1>5, <1>7, <1>8, <1>9, <1>10, <1>11, <1>12, <1>13 DEF BridgeNext, Table!Next

\* A client starts with no call, and so does the table it implements.
LEMMA ClientInit ==
  ASSUME BridgeInit
  PROVE  ClientInv /\ Table!Init
  <1>1. calls = <<>> /\ pending = {} /\ timers = {}
    BY DEF BridgeInit
  <1>2. Results = {} /\ Unsettled = {}
    BY <1>1 DEF Results, Unsettled
  <1> QED
    BY <1>1, <1>2 DEF ClientInv, Table!Init

\* Timers run for the calls that wait and no others, whatever calls are made and however
\* they end (client.ts:154-201).
THEOREM TimersAreAlwaysExact == BridgeSpec => []TimersAreExact
  <1>1. ClientInv => TimersAreExact
    BY DEF ClientInv, TimersAreExact, Unsettled
  <1>2. BridgeInit => ClientInv
    BY ClientInit
  <1>3. ClientInv /\ [BridgeNext]_bridgeVars => ClientInv'
    BY ClientStep
  <1> QED
    BY <1>1, <1>2, <1>3, PTL DEF BridgeSpec

\* The bridge implements the table: every call waits until it settles, once, with its
\* own answer or an error (client.ts:154-201).
THEOREM CallsSettleOnce == BridgeSpec => SettlesOnce
  <1>1. BridgeInit => ClientInv /\ Table!Init
    BY ClientInit
  <1>2. ClientInv /\ [BridgeNext]_bridgeVars => ClientInv' /\ [Table!Next]_(<<Len(calls), pending, Results>>)
    BY ClientStep
  <1> QED
    BY <1>1, <1>2, PTL DEF BridgeSpec, SettlesOnce, Table!Spec

-----------------------------------------------------------------------------
\* Sequences that are computed step by step.

\* What zero is in, and the successor of each of its members, is every number.
LEMMA Induction ==
  ASSUME NEW S, 0 \in S, \A n \in Nat : n \in S => n + 1 \in S
  PROVE  Nat \subseteq S
  <1> DEFINE Out == Nat \ S
  <1> SUFFICES ASSUME Out # {} PROVE FALSE
    OBVIOUS
  <1>1. PICK n \in Out : \A m \in Out : ~(<<m, n>> \in OpToRel(<, Nat))
    <2> HIDE DEF Out
    <2>1. Out \subseteq Nat
      BY DEF Out
    <2> QED
      BY <2>1, NatLessThanWellFounded, WFMin
  <1>2. n # 0 /\ n - 1 \in Nat
    OBVIOUS
  <1>3. n - 1 \in Out
    BY <1>2
  <1>4. <<n - 1, n>> \in OpToRel(<, Nat)
    BY <1>2 DEF OpToRel
  <1> QED
    BY <1>1, <1>3, <1>4, Zenon

\* The values g of N steps, each a function of the value before.
Steps(g, N, start, step) == g[0] = start /\ \A i \in 1..N : g[i] = step[i][g[i - 1]]

\* There are such values ...
LEMMA StepsExist ==
  ASSUME NEW N \in Nat, NEW V, NEW start \in V, NEW step \in [1..N -> [V -> V]]
  PROVE  \E g \in [0..N -> V] : Steps(g, N, start, step)
  <1> DEFINE S == {n \in Nat : n <= N => \E g \in [0..n -> V] : Steps(g, n, start, step)}
  <1>1. 0 \in S
    <2> DEFINE g == [i \in 0..0 |-> start]
    <2>1. g \in [0..0 -> V] /\ Steps(g, 0, start, step)
      BY DEF Steps
    <2> QED
      BY <2>1
  <1>2. ASSUME NEW n \in Nat, n \in S, n + 1 <= N
        PROVE  \E h \in [0..(n + 1) -> V] : Steps(h, n + 1, start, step)
    <2>1. PICK g \in [0..n -> V] : Steps(g, n, start, step)
      BY <1>2
    <2> DEFINE new == step[n + 1][g[n]]
               h == [i \in 0..(n + 1) |-> IF i = n + 1 THEN new ELSE g[i]]
    <2>2. n + 1 \in 1..N /\ g[n] \in V /\ \A i \in 0..n : g[i] \in V
      BY <1>2
    <2>3. new \in V
      BY <2>2
    <2>4. h[n + 1] = new /\ h[n] = g[n] /\ h[0] = g[0] /\ \A i \in 1..n : h[i] = g[i] /\ h[i - 1] = g[i - 1]
      <3> HIDE DEF new
      <3> QED OBVIOUS
    <2>5. h \in [0..(n + 1) -> V]
      <3> HIDE DEF new
      <3> QED BY <2>2, <2>3
    <2> HIDE DEF h
    <2>6. h[n + 1] = step[n + 1][h[n]]
      BY <2>4
    <2> HIDE DEF new
    <2>7. \A i \in 1..n : h[i] = step[i][h[i - 1]]
      BY <2>1, <2>4 DEF Steps
    <2>8. (n + 1) - 1 = n /\ \A i \in 1..(n + 1) : i \in 1..n \/ i = n + 1
      OBVIOUS
    <2>9. Steps(h, n + 1, start, step)
      BY <2>1, <2>4, <2>6, <2>7, <2>8 DEF Steps
    <2> QED
      BY <2>5, <2>9
  <1>3. \A n \in Nat : n \in S => n + 1 \in S
    <2> SUFFICES ASSUME NEW n \in Nat, n \in S PROVE n + 1 \in S
      OBVIOUS
    <2>1. CASE n + 1 <= N
      BY <1>2, <2>1
    <2>2. CASE ~(n + 1 <= N)
      BY <2>2
    <2> QED
      BY <2>1, <2>2
  <1> HIDE DEF S
  <1>4. N \in S
    BY <1>1, <1>3, Induction
  <1> QED
    BY <1>4 DEF S

\* ... and what the first has and every step keeps, all of them have.
LEMMA StepsKeep ==
  ASSUME NEW N \in Nat, NEW P, 0 \in P, \A i \in 1..N : i - 1 \in P => i \in P
  PROVE  0..N \subseteq P
  <1> DEFINE S == {i \in Nat : i <= N => i \in P}
  <1>1. \A i \in Nat : i \in S => i + 1 \in S
    <2> SUFFICES ASSUME NEW i \in Nat, i <= N => i \in P, i + 1 <= N PROVE i + 1 \in P
      OBVIOUS
    <2>1. i + 1 \in 1..N /\ (i + 1) - 1 = i /\ i \in P
      OBVIOUS
    <2> QED
      BY <2>1
  <1>2. Nat \subseteq S
    <2> HIDE DEF S
    <2>1. 0 \in S
      BY DEF S
    <2> QED
      BY <1>1, <2>1, Induction
  <1> QED
    BY <1>2

-----------------------------------------------------------------------------
\* The bytes of messages.

Message == [id: Nat, size: Nat]
Byte == [of: Message, at: Nat]

\* A frame is bytes of its message, the length first.
LEMMA FrameHas ==
  ASSUME NEW m \in Message
  PROVE  /\ Frame(m) \in Seq(Byte) /\ Len(Frame(m)) = Prefix + m.size
         /\ \A k \in 1..(Prefix + m.size) : Frame(m)[k].of = m
  <1>1. Prefix + m.size \in Nat
    BY BridgeAssumption DEF Message
  <1>2. \A k \in 1..(Prefix + m.size) : [of |-> m, at |-> k] \in Byte
    BY <1>1 DEF Byte
  <1> QED
    BY <1>1, <1>2 DEF Frame

\* Bytes is what its recursion says, and a sequence of bytes.
LEMMA BytesSolved ==
  ASSUME NEW s \in Seq(Message)
  PROVE  \E all \in [0..Len(s) -> Seq(Byte)] :
           /\ all[0] = <<>> /\ \A i \in 1..Len(s) : all[i] = all[i - 1] \o Frame(s[i])
           /\ Bytes(s) = all[Len(s)]
  <1> DEFINE N == Len(s)
             V == Seq(Byte)
             step == [i \in 1..N |-> [v \in V |-> v \o Frame(s[i])]]
             Solves(g) == g = [n \in 0..N |-> IF n = 0 THEN <<>> ELSE g[n - 1] \o Frame(s[n])]
             all == CHOOSE h : Solves(h)
  <1>1. N \in Nat /\ <<>> \in V /\ \A i \in 1..N, v \in V : v \o Frame(s[i]) \in V
    <2>1. \A i \in 1..N : Frame(s[i]) \in Seq(Byte)
      BY FrameHas
    <2> QED
      BY <2>1
  <1>2. Bytes(s) = all[N]
    BY Zenon DEF Bytes
  <1> HIDE DEF N, V
  <1>3. step \in [1..N -> [V -> V]]
    BY <1>1
  <1>4. PICK g \in [0..N -> V] : Steps(g, N, <<>>, step)
    <2> HIDE DEF step
    <2> QED
      BY <1>1, <1>3, StepsExist
  <1>5. \A i \in 1..N : g[i] = g[i - 1] \o Frame(s[i])
    <2> SUFFICES ASSUME NEW i \in 1..N PROVE g[i] = g[i - 1] \o Frame(s[i])
      OBVIOUS
    <2>1. g[i - 1] \in V
      BY <1>1
    <2> QED
      BY <1>4, <2>1 DEF Steps
  <1> HIDE DEF step
  <1>6. Solves(g)
    <2>1. \A n \in 0..N : n = 0 \/ n \in 1..N
      BY <1>1
    <2>2. \A n \in 0..N : g[n] = IF n = 0 THEN <<>> ELSE g[n - 1] \o Frame(s[n])
      BY <1>4, <1>5, <2>1, Zenon DEF Steps
    <2> QED
      BY <2>2, Zenon
  <1>7. Solves(all)
    <2> HIDE DEF Solves
    <2> QED
      BY <1>6
  <1> HIDE DEF all
  <1>8. all[0] = <<>> /\ \A i \in 1..N : all[i] = all[i - 1] \o Frame(s[i])
    <2>1. 0 \in 0..N /\ \A i \in 1..N : i \in 0..N /\ i # 0
      BY <1>1
    <2>2. \A i \in 0..N : all[i] = IF i = 0 THEN <<>> ELSE all[i - 1] \o Frame(s[i])
      BY <1>7, Zenon
    <2> QED
      BY <2>1, <2>2, Zenon
  <1>9. \A n \in 0..N : all[n] \in V
    <2> DEFINE P == {n \in 0..N : all[n] \in V}
    <2>1. 0 \in P
      BY <1>8, <1>1
    <2>2. ASSUME NEW i \in 1..N, i - 1 \in P PROVE i \in P
      <3>1. all[i] = all[i - 1] \o Frame(s[i]) /\ all[i - 1] \in V
        BY <1>8, <2>2
      <3>2. all[i] \in V
        BY <3>1, <1>1
      <3>3. i \in 0..N
        BY <1>1
      <3> QED
        BY <3>2, <3>3
    <2> HIDE DEF P
    <2>3. 0..N \subseteq P
      BY <2>1, <2>2, <1>1, StepsKeep
    <2> QED
      BY <2>3 DEF P
  <1>10. all \in [0..N -> V]
    <2>1. all = [i \in 0..N |-> all[i]]
      BY <1>7
    <2> QED
      BY <2>1, <1>9
  <1> QED
    BY <1>2, <1>8, <1>10, Zenon DEF N, V

\* The frames are bytes.
LEMMA BytesType ==
  ASSUME NEW s \in Seq(Message)
  PROVE  Bytes(s) \in Seq(Byte)
  <1>1. PICK all \in [0..Len(s) -> Seq(Byte)] : Bytes(s) = all[Len(s)]
    BY BytesSolved
  <1> QED
    BY <1>1

\* No message has no bytes.
LEMMA BytesNone == Bytes(<<>>) = <<>>
  <1>1. <<>> \in Seq(Message) /\ Len(<<>>) = 0
    OBVIOUS
  <1>2. PICK all \in [0..Len(<<>>) -> Seq(Byte)] : all[0] = <<>> /\ Bytes(<<>>) = all[Len(<<>>)]
    BY <1>1, BytesSolved
  <1> QED
    BY <1>1, <1>2

\* The bytes of messages one after the other are their bytes one after the other.
LEMMA BytesJoin ==
  ASSUME NEW s \in Seq(Message), NEW t \in Seq(Message)
  PROVE  Bytes(s \o t) = Bytes(s) \o Bytes(t)
  <1> DEFINE M == Len(s)
             N == Len(t)
             u == s \o t
  <1>1. PICK a \in [0..M -> Seq(Byte)] :
          a[0] = <<>> /\ (\A i \in 1..M : a[i] = a[i - 1] \o Frame(s[i])) /\ Bytes(s) = a[M]
    BY BytesSolved
  <1>2. PICK b \in [0..N -> Seq(Byte)] :
          b[0] = <<>> /\ (\A i \in 1..N : b[i] = b[i - 1] \o Frame(t[i])) /\ Bytes(t) = b[N]
    BY BytesSolved
  <1>3. /\ u \in Seq(Message) /\ Len(u) = M + N /\ M \in Nat /\ N \in Nat
        /\ \A i \in 1..M : u[i] = s[i]
        /\ \A i \in 1..N : u[M + i] = t[i]
    OBVIOUS
  <1>4. \A i \in 1..N : Frame(t[i]) \in Seq(Byte)
    BY FrameHas
  <1> HIDE DEF u
  <1>5. PICK c \in [0..(M + N) -> Seq(Byte)] :
          c[0] = <<>> /\ (\A i \in 1..(M + N) : c[i] = c[i - 1] \o Frame(u[i])) /\ Bytes(u) = c[M + N]
    BY <1>3, BytesSolved
  <1> HIDE DEF M, N
  <1>6. \A i \in 0..M : c[i] = a[i]
    <2> DEFINE P == {i \in 0..M : c[i] = a[i]}
    <2>1. 0 \in P
      BY <1>1, <1>3, <1>5
    <2>2. ASSUME NEW i \in 1..M, i - 1 \in P PROVE i \in P
      <3>1. i \in 1..(M + N) /\ i \in 0..M /\ c[i - 1] = a[i - 1] /\ u[i] = s[i]
        BY <1>3, <2>2
      <3>2. c[i] = c[i - 1] \o Frame(u[i]) /\ a[i] = a[i - 1] \o Frame(s[i])
        BY <1>1, <1>5, <3>1
      <3>3. c[i] = a[i]
        BY <3>1, <3>2, Zenon
      <3> QED
        BY <3>1, <3>3
    <2> HIDE DEF P
    <2>3. 0..M \subseteq P
      BY <2>1, <2>2, <1>3, StepsKeep
    <2> QED
      BY <2>3 DEF P
  <1>7. \A i \in 0..N : c[M + i] = a[M] \o b[i]
    <2> DEFINE P == {i \in 0..N : c[M + i] = a[M] \o b[i]}
    <2>0. a[M] \in Seq(Byte) /\ c[M] = a[M]
      BY <1>3, <1>6
    <2>1. 0 \in P
      <3>1. a[M] \o <<>> = a[M]
        BY <2>0, ConcatEmptySeq
      <3>2. M + 0 = M /\ 0 \in 0..N
        BY <1>3
      <3> QED
        BY <3>1, <3>2, <2>0, <1>2
    <2>2. ASSUME NEW i \in 1..N, i - 1 \in P PROVE i \in P
      <3>1. M + i \in 1..(M + N) /\ (M + i) - 1 = M + (i - 1) /\ i \in 0..N /\ i - 1 \in 0..N /\ u[M + i] = t[i]
        BY <1>3
      <3>2. c[M + i] = c[M + (i - 1)] \o Frame(t[i])
        BY <1>5, <3>1
      <3>3. c[M + (i - 1)] = a[M] \o b[i - 1]
        BY <2>2
      <3>4. b[i - 1] \in Seq(Byte) /\ Frame(t[i]) \in Seq(Byte) /\ b[i] = b[i - 1] \o Frame(t[i])
        BY <3>1, <1>2, <1>4
      <3>5. (a[M] \o b[i - 1]) \o Frame(t[i]) = a[M] \o b[i]
        <4>1. \A x, y, z \in Seq(Byte) : (x \o y) \o z = x \o (y \o z)
          BY SMTT(60), ConcatAssociative
        <4>2. a[M] \in Seq(Byte) /\ b[i - 1] \in Seq(Byte) /\ Frame(t[i]) \in Seq(Byte)
          BY <2>0, <3>4
        <4>3. (a[M] \o b[i - 1]) \o Frame(t[i]) = a[M] \o (b[i - 1] \o Frame(t[i]))
          BY <4>1, <4>2
        <4> QED
          BY <3>4, <4>3
      <3> QED
        BY <3>1, <3>2, <3>3, <3>5, Zenon
    <2> HIDE DEF P
    <2>3. 0..N \subseteq P
      BY <2>1, <2>2, <1>3, StepsKeep
    <2> QED
      BY <2>3 DEF P
  <1>8. Bytes(u) = Bytes(s) \o Bytes(t)
    <2>1. N \in 0..N
      BY <1>3
    <2> QED
      BY <1>1, <1>2, <1>5, <1>7, <2>1, Zenon
  <1> QED
    BY <1>8 DEF u

\* One message has the bytes of its frame.
LEMMA BytesOne ==
  ASSUME NEW m \in Message
  PROVE  Bytes(<<m>>) = Frame(m)
  <1> DEFINE s == <<m>>
  <1>1. s \in Seq(Message) /\ Len(s) = 1 /\ s[1] = m
    OBVIOUS
  <1> HIDE DEF s
  <1>2. PICK all \in [0..Len(s) -> Seq(Byte)] :
           all[0] = <<>> /\ (\A i \in 1..Len(s) : all[i] = all[i - 1] \o Frame(s[i])) /\ Bytes(s) = all[Len(s)]
    BY <1>1, BytesSolved
  <1>3. Bytes(s) = <<>> \o Frame(m)
    <2>1. 1 \in 1..1 /\ 1 - 1 = 0
      OBVIOUS
    <2> QED
      BY <1>1, <1>2, <2>1
  <1>4. <<>> \o Frame(m) = Frame(m)
    BY FrameHas, ConcatEmptySeq
  <1> QED
    BY <1>3, <1>4 DEF s

-----------------------------------------------------------------------------
\* The decoder of the host.

\* What is left after the front of a sequence.
LEMMA DropFront ==
  ASSUME NEW S, NEW r \in Seq(S), NEW t \in Seq(S), NEW f \in Seq(S), NEW y \in Seq(S),
         r \o t = f \o y, Len(f) <= Len(r)
  PROVE  SubSeq(r, Len(f) + 1, Len(r)) \o t = y
  <1> DEFINE L == Len(f)
             d == SubSeq(r, L + 1, Len(r))
  <1>1. L \in Nat /\ Len(r) \in Nat /\ Len(t) \in Nat /\ Len(y) \in Nat /\ L <= Len(r)
    OBVIOUS
  <1>2. d \in Seq(S) /\ Len(d) = Len(r) - L /\ \A i \in 1..(Len(r) - L) : d[i] = r[L + i]
    OBVIOUS
  <1>3. Len(r) + Len(t) = L + Len(y)
    <2>1. Len(r \o t) = Len(r) + Len(t) /\ Len(f \o y) = L + Len(y)
      BY ConcatProperties
    <2> QED
      BY <2>1
  <1>4. \A i \in 1..Len(y) : L + i \in 1..(Len(r) + Len(t)) /\ y[i] = (f \o y)[L + i]
    BY <1>1, <1>3
  <1> HIDE DEF d
  <1>5. \A i \in 1..Len(y) : y[i] = (d \o t)[i]
    <2> SUFFICES ASSUME NEW i \in 1..Len(y) PROVE y[i] = (d \o t)[i]
      OBVIOUS
    <2>1. y[i] = (r \o t)[L + i]
      BY <1>4
    <2>2. (r \o t)[L + i] = IF L + i <= Len(r) THEN r[L + i] ELSE t[L + i - Len(r)]
      BY <1>4, <1>1
    <2>3. (d \o t)[i] = IF i <= Len(r) - L THEN d[i] ELSE t[i - (Len(r) - L)]
      BY <1>1, <1>2, <1>3
    <2>4. L + i - Len(r) = i - (Len(r) - L) /\ (L + i <= Len(r) <=> i <= Len(r) - L)
      BY <1>1
    <2>5. i <= Len(r) - L => d[i] = r[L + i]
      BY <1>1, <1>2
    <2> HIDE DEF L
    <2> QED
      BY <2>1, <2>2, <2>3, <2>4, <2>5, Zenon
  <1>6. d \o t \in Seq(S) /\ Len(d \o t) = Len(y)
    BY <1>1, <1>2, <1>3
  <1>7. d \o t = y
    BY <1>5, <1>6, SeqEqual
  <1> QED
    BY <1>7 DEF d

\* Bytes that begin with something whole begin with the frame of the first message.
LEMMA FirstFrame ==
  ASSUME NEW rest \in Seq(Byte), NEW tail \in Seq(Byte), NEW left \in Seq(Message),
         rest \o tail = Bytes(left), Whole(rest)
  PROVE  /\ rest[1].of \in Message
         /\ left = <<rest[1].of>> \o Tail(left) /\ Tail(left) \in Seq(Message)
         /\ After(rest) \in Seq(Byte) /\ Len(After(rest)) < Len(rest)
         /\ After(rest) \o tail = Bytes(Tail(left))
  <1>1. Len(rest) \in Nat /\ Len(rest) >= 1 /\ Prefix \in Nat /\ Prefix >= 1
    BY BridgeAssumption DEF Whole
  <1>2. rest # <<>> /\ rest[1] \in Byte /\ (rest \o tail)[1] = rest[1]
    BY <1>1
  <1>3. left # <<>>
    <2>1. rest \o tail # <<>>
      BY <1>1
    <2> QED
      BY <2>1, BytesNone
  <1> DEFINE m == Head(left)
             more == Tail(left)
  <1>4. m \in Message /\ more \in Seq(Message) /\ left = <<m>> \o more
    BY <1>3
  <1> HIDE DEF m, more
  <1>5. Bytes(left) = Frame(m) \o Bytes(more)
    <2>1. <<m>> \in Seq(Message)
      BY <1>4
    <2>2. Bytes(<<m>> \o more) = Bytes(<<m>>) \o Bytes(more)
      BY <2>1, <1>4, BytesJoin
    <2> QED
      BY <2>2, <1>4, BytesOne
  <1>6. Frame(m) \in Seq(Byte) /\ Len(Frame(m)) = Prefix + m.size /\ Frame(m)[1].of = m /\ Bytes(more) \in Seq(Byte)
        /\ m.size \in Nat
    <2>1. m.size \in Nat /\ 1 \in 1..(Prefix + m.size)
      BY <1>4, <1>1 DEF Message
    <2> QED
      BY <2>1, <1>4, FrameHas, BytesType
  <1>7. (Frame(m) \o Bytes(more))[1] = Frame(m)[1]
    BY <1>1, <1>6
  <1>8. rest[1].of = m
    BY <1>2, <1>5, <1>6, <1>7
  <1>9. Len(rest) >= Prefix + m.size
    BY <1>8 DEF Whole
  <1>10. After(rest) = SubSeq(rest, Len(Frame(m)) + 1, Len(rest))
    BY <1>6, <1>8 DEF After
  <1>11. After(rest) \o tail = Bytes(more)
    <2> DEFINE f == Frame(m)
               y == Bytes(more)
    <2>1. f \in Seq(Byte) /\ y \in Seq(Byte) /\ rest \o tail = f \o y /\ Len(f) <= Len(rest)
      BY <1>1, <1>5, <1>6, <1>9
    <2>2. After(rest) = SubSeq(rest, Len(f) + 1, Len(rest))
      BY <1>10
    <2> HIDE DEF f, y
    <2>3. SubSeq(rest, Len(f) + 1, Len(rest)) \o tail = y
      BY <2>1, DropFront
    <2> QED
      BY <2>2, <2>3 DEF y
  <1>12. After(rest) \in Seq(Byte) /\ Len(After(rest)) < Len(rest)
    <2> DEFINE i == Len(Frame(m)) + 1
               n == Len(rest)
    <2>1. i \in Nat /\ n \in Nat /\ 2 <= i /\ i <= n + 1
      BY SMTT(30), <1>1, <1>6, <1>9
    <2>2. After(rest) = SubSeq(rest, i, n)
      BY <1>10
    <2> HIDE DEF i
    <2>3. SubSeq(rest, i, n) \in Seq(Byte) /\ Len(SubSeq(rest, i, n)) = n + 1 - i
      BY <2>1
    <2> QED
      BY <2>1, <2>2, <2>3
  <1> QED
    BY <1>4, <1>8, <1>11, <1>12 DEF m, more

\* What the decoder holds between two turns of its loop.
Decoder == [messages: Seq(Message), rest: Seq(Byte), ok: BOOLEAN]

\* What it has read of the messages all, whose bytes are its first ones and tail.
Reads(d, all, tail) ==
  \E left \in Seq(Message) : all = d.messages \o left /\ d.rest \o tail = Bytes(left)

\* A turn takes one message off the bytes, or leaves them, in which case there is none.
LEMMA TurnReads ==
  ASSUME NEW d \in Decoder, NEW all \in Seq(Message), NEW tail \in Seq(Byte), Reads(d, all, tail)
  PROVE  /\ Turn(d) \in Decoder /\ Reads(Turn(d), all, tail)
         /\ Turn(d).ok => /\ d.ok
                          /\ \/ Turn(d) = d /\ ~Whole(d.rest)
                             \/ Len(Turn(d).rest) < Len(d.rest)
  <1>1. d.messages \in Seq(Message) /\ d.rest \in Seq(Byte) /\ d.ok \in BOOLEAN
    BY DEF Decoder
  <1>2. CASE Refused(d.rest)
    <2>1. Turn(d) = [d EXCEPT !.ok = FALSE]
      BY <1>2 DEF Turn
    <2>2. Turn(d) \in Decoder /\ Turn(d).messages = d.messages /\ Turn(d).rest = d.rest /\ Turn(d).ok = FALSE
      BY <2>1 DEF Decoder
    <2> QED
      BY <2>2 DEF Reads
  <1>3. CASE ~Refused(d.rest) /\ ~Whole(d.rest)
    BY <1>3 DEF Turn
  <1>4. CASE ~Refused(d.rest) /\ Whole(d.rest)
    <2>1. PICK left \in Seq(Message) : all = d.messages \o left /\ d.rest \o tail = Bytes(left)
      BY DEF Reads
    <2> DEFINE m == d.rest[1].of
               more == Tail(left)
               rest == After(d.rest)
               e == Turn(d)
    <2>2. /\ m \in Message /\ left = <<m>> \o more /\ more \in Seq(Message)
          /\ rest \in Seq(Byte) /\ Len(rest) < Len(d.rest) /\ rest \o tail = Bytes(more)
      BY ZenonT(60), <2>1, <1>1, <1>4, FirstFrame
    <2>3. e = [d EXCEPT !.messages = Append(d.messages, m), !.rest = rest]
      BY <1>4 DEF Turn
    <2> HIDE DEF m, more, rest, e
    <2>4. Append(d.messages, m) \in Seq(Message) /\ Append(d.messages, m) = d.messages \o <<m>>
      BY <1>1, <2>2, AppendProperties, AppendIsConcat
    <2>5. e \in Decoder /\ e.messages = Append(d.messages, m) /\ e.rest = rest /\ e.ok = d.ok
      BY <2>2, <2>3, <2>4 DEF Decoder
    <2>6. all = e.messages \o more
      <3>1. <<m>> \in Seq(Message)
        BY <2>2
      <3>0. \A x, y, z \in Seq(Message) : (x \o y) \o z = x \o (y \o z)
        BY SMTT(60), ConcatAssociative
      <3>2. (d.messages \o <<m>>) \o more = d.messages \o (<<m>> \o more)
        <4> DEFINE one == <<m>>
        <4>1. one \in Seq(Message) /\ more \in Seq(Message) /\ d.messages \in Seq(Message)
          BY <3>1, <2>2, <1>1
        <4> HIDE DEF one
        <4>2. (d.messages \o one) \o more = d.messages \o (one \o more)
          BY <3>0, <4>1
        <4> QED
          BY <4>2 DEF one
      <3> QED
        BY <3>2, <2>1, <2>2, <2>4, <2>5
    <2>7. Reads(e, all, tail)
      BY <2>2, <2>5, <2>6 DEF Reads
    <2>8. Len(e.rest) < Len(d.rest) /\ (e.ok => d.ok)
      BY <2>2, <2>5
    <2> QED
      BY <2>5, <2>7, <2>8 DEF e
  <1> QED
    BY <1>2, <1>3, <1>4

\* Push takes what is whole off the bytes, and leaves nothing that is.
LEMMA PushReads ==
  ASSUME NEW bytes \in Seq(Byte), NEW tail \in Seq(Byte), NEW all \in Seq(Message),
         bytes \o tail = Bytes(all)
  PROVE  /\ Push(bytes) \in Decoder /\ Reads(Push(bytes), all, tail)
         /\ Push(bytes).ok => ~Whole(Push(bytes).rest)
  <1> DEFINE N == Len(bytes)
             V == {d \in Decoder : Reads(d, all, tail)}
             start == [messages |-> <<>>, rest |-> bytes, ok |-> TRUE]
             step == [i \in 1..N |-> [v \in V |-> Turn(v)]]
             Solves(g) == g = [k \in 0..N |-> IF k = 0 THEN start ELSE Turn(g[k - 1])]
             turns == CHOOSE h : Solves(h)
  <1>1. Push(bytes) = turns[N]
    BY Zenon DEF Push
  <1>2. start \in V
    <2>1. start \in Decoder
      BY DEF Decoder
    <2>2. all = <<>> \o all
      BY ConcatEmptySeq
    <2> QED
      BY <2>1, <2>2 DEF Reads
  <1>3. \A v \in V : Turn(v) \in V
    BY TurnReads
  <1>4. N \in Nat
    OBVIOUS
  <1>5. start.ok = TRUE /\ Len(start.rest) = N
    OBVIOUS
  <1> HIDE DEF N, V, start
  <1>6. step \in [1..N -> [V -> V]]
    BY <1>3
  <1>7. PICK g \in [0..N -> V] : Steps(g, N, start, step)
    <2> HIDE DEF step
    <2> QED
      BY <1>2, <1>4, <1>6, StepsExist
  <1>8. \A i \in 1..N : g[i] = Turn(g[i - 1])
    <2> SUFFICES ASSUME NEW i \in 1..N PROVE g[i] = Turn(g[i - 1])
      OBVIOUS
    <2>1. g[i - 1] \in V
      BY <1>4
    <2> QED
      BY <1>7, <2>1 DEF Steps
  <1> HIDE DEF step
  <1>9. Solves(g)
    <2>1. \A n \in 0..N : n = 0 \/ n \in 1..N
      BY <1>4
    <2>2. \A n \in 0..N : g[n] = IF n = 0 THEN start ELSE Turn(g[n - 1])
      BY <1>7, <1>8, <2>1, Zenon DEF Steps
    <2> QED
      BY <2>2, Zenon
  <1>10. Solves(turns)
    <2> HIDE DEF Solves
    <2> QED
      BY <1>9
  <1> HIDE DEF turns
  <1>11. turns[0] = start /\ \A i \in 1..N : turns[i] = Turn(turns[i - 1])
    <2>1. 0 \in 0..N /\ \A i \in 1..N : i \in 0..N /\ i # 0
      BY <1>4
    <2>2. \A i \in 0..N : turns[i] = IF i = 0 THEN start ELSE Turn(turns[i - 1])
      BY <1>10, Zenon
    <2> QED
      BY <2>1, <2>2, Zenon
  <1> DEFINE Done(d, k) == d.ok => ~Whole(d.rest) \/ Len(d.rest) + k <= N
             P == {k \in 0..N : turns[k] \in V /\ Done(turns[k], k)}
  <1>12. 0 \in P
    BY <1>2, <1>4, <1>5, <1>11
  <1>13. ASSUME NEW i \in 1..N, i - 1 \in P PROVE i \in P
    <2> DEFINE d == turns[i - 1]
    <2>1. d \in V /\ Done(d, i - 1)
      BY <1>13
    <2>2. turns[i] = Turn(d) /\ i \in 0..N
      BY <1>4, <1>11
    <2> HIDE DEF d
    <2>3. Turn(d) \in V
      BY <1>3, <2>1
    <2>4. Turn(d).ok => d.ok /\ ((Turn(d) = d /\ ~Whole(d.rest)) \/ Len(Turn(d).rest) < Len(d.rest))
      BY <2>1, TurnReads DEF V
    <2>5. Len(d.rest) \in Nat /\ Len(Turn(d).rest) \in Nat
      BY <2>1, <2>3 DEF V, Decoder
    <2>6. ASSUME Turn(d).ok PROVE ~Whole(Turn(d).rest) \/ Len(Turn(d).rest) + i <= N
      <3>1. CASE Turn(d) = d /\ ~Whole(d.rest)
        BY <3>1
      <3>2. CASE Len(Turn(d).rest) < Len(d.rest) /\ Len(d.rest) + (i - 1) <= N
        BY <3>2, <2>5, <1>4
      <3>3. CASE Len(Turn(d).rest) < Len(d.rest) /\ ~Whole(d.rest)
        <4>1. CASE Refused(d.rest)
          BY <4>1, <2>6 DEF Turn
        <4>2. CASE ~Refused(d.rest)
          BY <4>2, <3>3 DEF Turn
        <4> QED
          BY <4>1, <4>2
      <3> QED
        BY <2>1, <2>4, <2>6, <3>1, <3>2, <3>3
    <2> QED
      BY <2>2, <2>3, <2>6
  <1> HIDE DEF P
  <1>14. 0..N \subseteq P
    BY <1>4, <1>12, <1>13, StepsKeep
  <1>15. turns[N] \in V /\ (turns[N].ok => ~Whole(turns[N].rest) \/ Len(turns[N].rest) + N <= N)
    BY <1>4, <1>14 DEF P
  <1>16. Len(turns[N].rest) \in Nat
    BY <1>15 DEF V, Decoder
  <1>17. Len(turns[N].rest) + N <= N => ~Whole(turns[N].rest)
    BY <1>4, <1>16, BridgeAssumption DEF Whole
  <1> QED
    BY <1>1, <1>15, <1>17 DEF V

-----------------------------------------------------------------------------
\* The host.

\* The ids of the requests that the host has decoded.
Asked == {decoded[k].id : k \in DOMAIN decoded}

HostTypes ==
  /\ open \in BOOLEAN /\ up \in BOOLEAN /\ losses \in 0..MaxLosses
  /\ sent \in Seq(Messages) /\ decoded \in Seq(Messages)
  /\ pipe \in Seq(Byte) /\ buffer \in Seq(Byte)
  /\ answers \in Seq([id: Nat, ok: BOOLEAN])

\* The host works on what it was asked, and answers that; when it gives up it says so,
\* to nobody.
HostAnswers ==
  /\ work \subseteq Asked
  /\ \A i \in DOMAIN answers : answers[i].id \in Asked \/ (~up /\ answers[i].id = 0)
  /\ \A k \in DOMAIN decoded : decoded[k].id \in DOMAIN calls
  /\ \A k \in DOMAIN sent : sent[k].id \in DOMAIN calls

\* The promises of the calls there may be.
CallsTyped ==
  /\ Len(calls) <= MaxCalls
  /\ \A id \in DOMAIN calls :
       calls[id] \in {Waiting} \cup {Failure(error) : error \in Errors} \cup {Answer(i) : i \in Ids}

\* The inductive invariant of the bytes: decoder and pipe hold those of the messages
\* that were sent and not decoded yet.
Stream ==
  up => /\ \E left \in Seq(Message) : sent = decoded \o left /\ buffer \o pipe = Bytes(left)
        /\ ~Whole(buffer)

HostInv == HostTypes /\ HostAnswers /\ CallsTyped /\ Stream

\* The messages there are are messages, and three sequences are joined either way.
LEMMA MessagesAre == Messages \subseteq Message /\ Seq(Messages) \subseteq Seq(Message)
  <1>1. Messages \subseteq Message
    <2>1. Ids \subseteq Nat /\ Sizes \subseteq Nat
      BY BridgeAssumption DEF Ids
    <2> QED
      BY <2>1 DEF Messages, Message
  <1> QED
    BY <1>1

\* Concatenation groups either way.
LEMMA Grouped ==
  ASSUME NEW S, NEW x \in Seq(S), NEW y \in Seq(S), NEW z \in Seq(S)
  PROVE  (x \o y) \o z = x \o (y \o z)
  BY ConcatAssociative

\* What is decoded is the beginning of what was sent.
LEMMA DecodedAreSent ==
  ASSUME sent \in Seq(Messages), NEW first \in Seq(Message), NEW left \in Seq(Message), sent = first \o left
  PROVE  first \in Seq(Messages) /\ \A k \in DOMAIN first : k \in DOMAIN sent /\ first[k] = sent[k]
  <1>1. \A k \in DOMAIN first : k \in DOMAIN sent /\ first[k] = sent[k]
    BY ConcatProperties
  <1>2. \A k \in 1..Len(first) : first[k] \in Messages
    BY <1>1
  <1>3. first \in Seq(Messages)
    <2>1. first = [k \in 1..Len(first) |-> first[k]] /\ Len(first) \in Nat
      OBVIOUS
    <2> QED
      BY <2>1, <1>2
  <1> QED
    BY <1>1, <1>3

\* Nothing that has no byte is whole.
LEMMA NothingIsWhole == ~Whole(<<>>)
  BY BridgeAssumption DEF Whole

\* A message is sent to a host that is there.
LEMMA SendStream ==
  ASSUME HostTypes, Stream, up, NEW m \in Messages, UNCHANGED <<up, buffer, decoded>>,
         sent' = Append(sent, m), pipe' = pipe \o Frame(m)
  PROVE  Stream' /\ sent' \in Seq(Messages) /\ pipe' \in Seq(Byte)
  <1>1. PICK left \in Seq(Message) : sent = decoded \o left /\ buffer \o pipe = Bytes(left)
    BY DEF Stream
  <1>2. /\ m \in Message /\ decoded \in Seq(Message) /\ sent \in Seq(Message)
        /\ pipe \in Seq(Byte) /\ buffer \in Seq(Byte) /\ Frame(m) \in Seq(Byte)
    BY MessagesAre, FrameHas DEF HostTypes
  <1> DEFINE one == <<m>>
             more == left \o one
  <1>3. one \in Seq(Message) /\ Bytes(one) = Frame(m)
    BY <1>2, BytesOne
  <1>4. sent' = sent \o one
    BY <1>2, AppendIsConcat
  <1> HIDE DEF one
  <1>5. more \in Seq(Message)
    BY <1>3
  <1>6. sent' = decoded' \o more
    <2>1. (decoded \o left) \o one = decoded \o (left \o one)
      <3>1. decoded \in Seq(Message) /\ left \in Seq(Message) /\ one \in Seq(Message)
        BY <1>2, <1>3
      <3> QED
        BY <3>1, Grouped
    <2> QED
      BY <2>1, <1>1, <1>4
  <1>7. buffer' \o pipe' = Bytes(more)
    <2>1. Bytes(more) = Bytes(left) \o Frame(m)
      BY <1>3, BytesJoin
    <2>2. (buffer \o pipe) \o Frame(m) = buffer \o (pipe \o Frame(m))
      <3>1. buffer \in Seq(Byte) /\ pipe \in Seq(Byte) /\ Frame(m) \in Seq(Byte)
        BY <1>2
      <3> QED
        BY SMTT(60), <3>1, Grouped
    <2> QED
      BY <2>1, <2>2, <1>1
  <1>8. sent' \in Seq(Messages) /\ pipe' \in Seq(Byte)
    BY <1>2 DEF HostTypes
  <1>9. ~Whole(buffer)'
    BY DEF Stream, Whole
  <1> HIDE DEF more
  <1> QED
    BY <1>5, <1>6, <1>7, <1>8, <1>9 DEF Stream

\* A message is the first that a new host is sent.
LEMMA FirstStream ==
  ASSUME NEW m \in Messages, up' \in BOOLEAN, buffer' = <<>>, decoded' = <<>>,
         sent' = (IF up' THEN <<m>> ELSE <<>>), pipe' = (IF up' THEN Frame(m) ELSE <<>>)
  PROVE  Stream' /\ sent' \in Seq(Messages) /\ pipe' \in Seq(Byte)
  <1>1. m \in Message /\ Frame(m) \in Seq(Byte)
    BY MessagesAre, FrameHas
  <1>2. sent' \in Seq(Messages) /\ pipe' \in Seq(Byte)
    BY <1>1
  <1>3. ASSUME up'
        PROVE  \E left \in Seq(Message) : sent' = decoded' \o left /\ buffer' \o pipe' = Bytes(left)
    <2> DEFINE one == <<m>>
    <2>1. one \in Seq(Message) /\ Bytes(one) = Frame(m)
      BY <1>1, BytesOne
    <2>2. sent' = one /\ pipe' = Frame(m)
      BY <1>3
    <2> HIDE DEF one
    <2>3. <<>> \o one = one /\ <<>> \o Frame(m) = Frame(m)
      BY <1>1, <2>1, ConcatEmptySeq
    <2> QED
      BY <2>1, <2>2, <2>3
  <1>4. ~Whole(buffer)'
    BY NothingIsWhole DEF Whole
  <1> QED
    BY <1>2, <1>3, <1>4 DEF Stream

\* A sequence is its first n members and the others.
LEMMA SplitAt ==
  ASSUME NEW S, NEW s \in Seq(S), NEW n \in 1..Len(s)
  PROVE  /\ SubSeq(s, 1, n) \in Seq(S) /\ SubSeq(s, n + 1, Len(s)) \in Seq(S)
         /\ SubSeq(s, 1, n) \o SubSeq(s, n + 1, Len(s)) = s
  <1> DEFINE a == SubSeq(s, 1, n)
             b == SubSeq(s, n + 1, Len(s))
  <1>1. n \in Nat /\ Len(s) \in Nat /\ n <= Len(s)
    OBVIOUS
  <1>2. a \in Seq(S) /\ Len(a) = n /\ \A i \in 1..n : a[i] = s[i]
    OBVIOUS
  <1>3. b \in Seq(S) /\ Len(b) = Len(s) - n /\ \A i \in 1..(Len(s) - n) : b[i] = s[n + i]
    BY <1>1
  <1> HIDE DEF a, b
  <1>4. a \o b \in Seq(S) /\ Len(a \o b) = Len(s)
    <2>1. a \in Seq(S) /\ b \in Seq(S)
      BY <1>2, <1>3
    <2>2. a \o b \in Seq(S) /\ Len(a \o b) = Len(a) + Len(b)
      BY <2>1, ConcatProperties
    <2> QED
      BY <1>1, <1>2, <1>3, <2>2
  <1>5. ASSUME NEW i \in 1..Len(s) PROVE (a \o b)[i] = s[i]
    <2>1. (a \o b)[i] = IF i <= Len(a) THEN a[i] ELSE b[i - Len(a)]
      BY <1>1, <1>2, <1>3
    <2>2. CASE i <= n
      BY <1>1, <1>2, <2>1, <2>2
    <2>3. CASE ~(i <= n)
      <3>1. i - n \in 1..(Len(s) - n) /\ n + (i - n) = i
        BY <1>1, <2>3
      <3> QED
        BY <1>2, <1>3, <2>1, <2>3, <3>1
    <2> QED
      BY <2>2, <2>3
  <1>6. a \o b = s
    BY <1>4, <1>5, SeqEqual
  <1> QED
    BY <1>2, <1>3, <1>6 DEF a, b

\* The host reads from the pipe.
LEMMA DataStream ==
  ASSUME HostTypes, HostAnswers, Stream, NEW n \in DOMAIN pipe, Data(n)
  PROVE  /\ Stream' /\ pipe' \in Seq(Byte) /\ buffer' \in Seq(Byte) /\ up' \in BOOLEAN
         /\ decoded' \in Seq(Messages) /\ \A k \in DOMAIN decoded' : decoded'[k].id \in DOMAIN calls
         /\ Asked \subseteq Asked' /\ work' \subseteq Asked'
  <1> DEFINE bytes == buffer \o SubSeq(pipe, 1, n)
             tail == SubSeq(pipe, n + 1, Len(pipe))
             pushed == Push(bytes)
  <1>1. up /\ pipe' = tail /\ buffer' = pushed.rest /\ up' = pushed.ok /\ UNCHANGED sent
    BY DEF Data
  <1>2. /\ pushed.ok => /\ decoded' = decoded \o pushed.messages
                        /\ work' = work \cup {pushed.messages[i].id : i \in DOMAIN pushed.messages}
        /\ ~pushed.ok => UNCHANGED <<decoded, work>>
    BY DEF Data
  <1>3. PICK left \in Seq(Message) : sent = decoded \o left /\ buffer \o pipe = Bytes(left)
    BY <1>1 DEF Stream
  <1>4. /\ decoded \in Seq(Message) /\ decoded \in Seq(Messages) /\ sent \in Seq(Messages)
        /\ pipe \in Seq(Byte) /\ buffer \in Seq(Byte) /\ work \subseteq Asked
    BY MessagesAre DEF HostTypes, HostAnswers
  <1>5. SubSeq(pipe, 1, n) \in Seq(Byte) /\ tail \in Seq(Byte) /\ SubSeq(pipe, 1, n) \o tail = pipe
    <2>1. pipe \in Seq(Byte) /\ n \in 1..Len(pipe)
      BY <1>4
    <2> QED
      BY <2>1, SplitAt
  <1>6. bytes \in Seq(Byte) /\ bytes \o tail = Bytes(left)
    <2> DEFINE front == SubSeq(pipe, 1, n)
    <2>1. front \in Seq(Byte) /\ tail \in Seq(Byte) /\ buffer \in Seq(Byte) /\ front \o tail = pipe
      BY <1>4, <1>5
    <2> HIDE DEF front, tail
    <2>2. (buffer \o front) \o tail = buffer \o (front \o tail) /\ buffer \o front \in Seq(Byte)
      <3>1. buffer \in Seq(Byte) /\ front \in Seq(Byte) /\ tail \in Seq(Byte)
        BY <2>1
      <3>2. (buffer \o front) \o tail = buffer \o (front \o tail)
        BY <3>1, Grouped
      <3> QED
        BY <3>1, <3>2
    <2> QED
      BY <1>3, <2>1, <2>2 DEF front
  <1> HIDE DEF bytes, tail
  <1>7. pushed \in Decoder /\ Reads(pushed, left, tail) /\ (pushed.ok => ~Whole(pushed.rest))
    BY <1>5, <1>6, PushReads
  <1> HIDE DEF pushed
  <1>8. pushed.messages \in Seq(Message) /\ pushed.rest \in Seq(Byte) /\ pushed.ok \in BOOLEAN
    BY <1>7 DEF Decoder
  <1>9. PICK more \in Seq(Message) : left = pushed.messages \o more /\ pushed.rest \o tail = Bytes(more)
    BY <1>7 DEF Reads
  <1> DEFINE first == decoded \o pushed.messages
  <1>10. first \in Seq(Message) /\ sent = first \o more
    <2>1. (decoded \o pushed.messages) \o more = decoded \o (pushed.messages \o more)
      <3>1. \A x, y, z \in Seq(Message) : (x \o y) \o z = x \o (y \o z)
        BY SMTT(60), Grouped
      <3> QED
        BY <1>4, <1>8, <3>1
    <2> QED
      BY <1>3, <1>4, <1>8, <1>9, <2>1
  <1>11. DOMAIN decoded \subseteq DOMAIN first /\ \A k \in DOMAIN decoded : first[k] = decoded[k]
    BY <1>4, <1>8
  <1>12. \A i \in DOMAIN pushed.messages : Len(decoded) + i \in DOMAIN first /\ first[Len(decoded) + i] = pushed.messages[i]
    BY <1>4, <1>8
  <1> HIDE DEF first
  <1>13. first \in Seq(Messages) /\ \A k \in DOMAIN first : k \in DOMAIN sent /\ first[k] = sent[k]
    BY <1>4, <1>10, DecodedAreSent
  <1>14. CASE pushed.ok
    <2>1. decoded' = first /\ sent' = sent
      BY <1>1, <1>2, <1>14 DEF first
    <2>2. \A k \in DOMAIN first : first[k].id \in DOMAIN calls
      BY <1>13 DEF HostAnswers
    <2>3. Asked \subseteq Asked' /\ work' \subseteq Asked'
      <3>1. Asked' = {first[k].id : k \in DOMAIN first}
        BY <2>1 DEF Asked
      <3>2. \A i \in DOMAIN pushed.messages : pushed.messages[i].id \in Asked'
        BY <1>12, <3>1
      <3>3. \A k \in DOMAIN decoded : decoded[k].id \in Asked'
        BY <1>11, <3>1
      <3>4. Asked \subseteq Asked'
        BY <3>3 DEF Asked
      <3> QED
        BY <1>2, <1>4, <1>14, <3>2, <3>4
    <2>4. Stream'
      <3>1. sent' = decoded' \o more /\ buffer' \o pipe' = Bytes(more)
        BY <1>1, <1>9, <1>10, <2>1
      <3>2. ~Whole(buffer)'
        BY <1>1, <1>7, <1>14 DEF Whole
      <3> QED
        BY <3>1, <3>2 DEF Stream
    <2> QED
      BY <1>1, <1>5, <1>8, <1>13, <2>1, <2>2, <2>3, <2>4
  <1>15. CASE ~pushed.ok
    <2>1. Stream'
      BY <1>1, <1>15 DEF Stream
    <2>2. decoded' = decoded /\ work' = work
      BY <1>2, <1>15
    <2>3. \A k \in DOMAIN decoded : decoded[k].id \in DOMAIN calls
      BY DEF HostAnswers
    <2> QED
      BY <1>1, <1>4, <1>5, <1>8, <2>1, <2>2, <2>3 DEF Asked
  <1> QED
    BY <1>14, <1>15

\* Only the answers, the work and the numbers of calls made matter to what the host
\* answers.
LEMMA AnswersStay ==
  ASSUME HostAnswers, DOMAIN calls \subseteq DOMAIN calls', UNCHANGED decoded, work' \subseteq work,
         \A k \in DOMAIN sent' : sent'[k].id \in DOMAIN calls',
         \A i \in DOMAIN answers' : answers'[i].id \in Asked \/ (~up' /\ answers'[i].id = 0)
  PROVE  HostAnswers'
  BY DEF HostAnswers, Asked

\* Promises that settle, with a failure or a call's own answer, stay what they may be.
LEMMA SettleTyped ==
  ASSUME CallsTyped, calls \in Seq(Outcome), NEW ids, NEW how, Settle(ids, how),
         how \in {Failure(error) : error \in Errors} \cup {Answer(i) : i \in Ids}
  PROVE  CallsTyped' /\ DOMAIN calls' = DOMAIN calls
  <1> DEFINE Hows == {Waiting} \cup {Failure(error) : error \in Errors} \cup {Answer(i) : i \in Ids}
  <1>1. how \in Hows /\ Len(calls) <= MaxCalls /\ \A id \in DOMAIN calls : calls[id] \in Hows
    BY DEF CallsTyped
  <1>2. DOMAIN calls' = DOMAIN calls /\ \A id \in DOMAIN calls : calls'[id] \in {how, calls[id]}
    BY DEF Settle
  <1>3. Len(calls') = Len(calls)
    BY DEF Settle
  <1>4. Hows' = Hows
    BY DEF Waiting, Failure, Answer, Ids, Errors
  <1> HIDE DEF Hows
  <1>5. \A id \in DOMAIN calls' : calls'[id] \in Hows'
    BY <1>1, <1>2, <1>4
  <1> QED
    BY <1>1, <1>2, <1>3, <1>5 DEF CallsTyped, Hows

\* A call that is made is one more.
LEMMA AppendTyped ==
  ASSUME CallsTyped, calls \in Seq(Outcome), Len(calls) < MaxCalls, NEW how \in Outcome,
         how \in {Waiting} \cup {Failure(error) : error \in Errors}, calls' = Append(calls, how)
  PROVE  CallsTyped' /\ DOMAIN calls' = DOMAIN calls \cup {Len(calls) + 1} /\ Len(calls) + 1 \in Ids
  <1> DEFINE Hows == {Waiting} \cup {Failure(error) : error \in Errors} \cup {Answer(i) : i \in Ids}
  <1>1. how \in Hows /\ Len(calls) \in Nat /\ \A id \in DOMAIN calls : calls[id] \in Hows
    BY DEF CallsTyped
  <1>2. /\ DOMAIN calls' = DOMAIN calls \cup {Len(calls) + 1} /\ Len(calls') = Len(calls) + 1
        /\ calls'[Len(calls) + 1] = how /\ \A id \in DOMAIN calls : calls'[id] = calls[id]
    OBVIOUS
  <1>3. Len(calls') <= MaxCalls /\ Len(calls) + 1 \in Ids
    BY <1>1, <1>2, BridgeAssumption DEF Ids
  <1>4. Hows' = Hows
    BY DEF Waiting, Failure, Answer, Ids, Errors
  <1> HIDE DEF Hows
  <1>5. \A id \in DOMAIN calls' : calls'[id] \in Hows'
    BY <1>1, <1>2, <1>4
  <1> QED
    BY <1>2, <1>3, <1>5 DEF CallsTyped, Hows

\* No bytes move.
LEMMA StreamStays ==
  ASSUME Stream, UNCHANGED <<pipe, buffer, sent, decoded>>, up' = up \/ ~up'
  PROVE  Stream'
  BY DEF Stream, Whole

\* Every step of the bridge keeps the invariant.
LEMMA HostStep ==
  ASSUME HostInv, ClientInv, [BridgeNext]_bridgeVars
  PROVE  HostInv'
  <1>1. calls \in Seq(Outcome) /\ pending \subseteq DOMAIN calls /\ timers \subseteq DOMAIN calls
    BY DEF ClientInv, Unsettled
  <1>2. HostTypes /\ HostAnswers /\ CallsTyped /\ Stream
    BY DEF HostInv
  <1>3. ASSUME NEW size \in Sizes, Call(size)
        PROVE  HostInv'
    <2> DEFINE id == Len(calls) + 1
               m == [id |-> id, size |-> size]
    <2>1. calls' = Append(calls, Waiting) /\ Len(calls) < MaxCalls /\ open' = TRUE /\ UNCHANGED losses
      BY <1>3 DEF Call
    <2>2. CallsTyped' /\ DOMAIN calls' = DOMAIN calls \cup {id} /\ id \in Ids
      <3>1. Waiting \in Outcome
        BY DEF Waiting, Outcome
      <3> QED
        BY <1>1, <1>2, <2>1, <3>1, AppendTyped
    <2>3. m \in Messages /\ m.id = id
      BY <2>2 DEF Messages
    <2>4. CASE open /\ up
      <3>1. UNCHANGED <<up, buffer, work, answers, decoded>> /\ sent' = Append(sent, m) /\ pipe' = pipe \o Frame(m)
        BY <1>3, <2>4 DEF Call
      <3> HIDE DEF m, id
      <3>2. Stream' /\ sent' \in Seq(Messages) /\ pipe' \in Seq(Byte)
        BY <1>2, <2>3, <2>4, <3>1, SendStream
      <3>3. HostTypes'
        BY <1>2, <2>1, <3>1, <3>2 DEF HostTypes
      <3>4. \A k \in DOMAIN sent' : sent'[k].id \in DOMAIN calls'
        <4>1. \A k \in DOMAIN sent' : sent'[k] = m \/ (k \in DOMAIN sent /\ sent'[k] = sent[k])
          BY <1>2, <3>1 DEF HostTypes
        <4> QED
          BY <1>2, <2>2, <2>3, <4>1 DEF HostAnswers
      <3>5. HostAnswers'
        BY <1>2, <2>2, <3>1, <3>4, AnswersStay DEF HostAnswers
      <3> QED
        BY <2>2, <3>2, <3>3, <3>5 DEF HostInv
    <2>5. CASE open /\ ~up
      <3>1. UNCHANGED <<up, buffer, work, answers, decoded, sent, pipe>>
        BY <1>3, <2>5 DEF Call
      <3> HIDE DEF m, id
      <3>2. HostTypes'
        BY <1>2, <2>1, <3>1 DEF HostTypes
      <3>3. HostAnswers'
        BY <1>2, <2>2, <3>1, AnswersStay DEF HostAnswers
      <3>4. Stream'
        BY <1>2, <3>1, StreamStays
      <3> QED
        BY <2>2, <3>2, <3>3, <3>4 DEF HostInv
    <2>6. CASE ~open
      <3>1. /\ up' \in BOOLEAN /\ buffer' = <<>> /\ decoded' = <<>> /\ work' = {} /\ answers' = <<>>
            /\ sent' = (IF up' THEN <<m>> ELSE <<>>) /\ pipe' = (IF up' THEN Frame(m) ELSE <<>>)
        BY <1>3, <2>6 DEF Call
      <3> HIDE DEF m, id
      <3>2. Stream' /\ sent' \in Seq(Messages) /\ pipe' \in Seq(Byte)
        BY <2>3, <3>1, FirstStream
      <3>3. HostTypes'
        BY <1>2, <2>1, <3>1, <3>2 DEF HostTypes
      <3>4. \A k \in DOMAIN sent' : sent'[k].id \in DOMAIN calls'
        BY <2>2, <2>3, <3>1
      <3>5. HostAnswers'
        BY <3>1, <3>4 DEF HostAnswers
      <3> QED
        BY <2>2, <3>2, <3>3, <3>5 DEF HostInv
    <2> QED
      BY <2>4, <2>5, <2>6
  <1>4. ASSUME CallFails
        PROVE  HostInv'
    <2>1. calls' = Append(calls, Failure("unavailable")) /\ Len(calls) < MaxCalls /\ UNCHANGED <<open, host, losses>>
      BY <1>4 DEF CallFails
    <2>2. Failure("unavailable") \in Outcome /\ Failure("unavailable") \in {Failure(error) : error \in Errors}
      BY DEF Failure, Outcome, Errors
    <2>3. CallsTyped' /\ DOMAIN calls' = DOMAIN calls \cup {Len(calls) + 1}
      BY <1>1, <1>2, <2>1, <2>2, AppendTyped
    <2>4. UNCHANGED <<up, pipe, buffer, work, answers, sent, decoded>>
      BY <2>1 DEF host
    <2>5. HostTypes' /\ HostAnswers' /\ Stream'
      BY <1>2, <2>1, <2>3, <2>4, AnswersStay, StreamStays DEF HostTypes, HostAnswers
    <2> QED
      BY <2>3, <2>5 DEF HostInv
  <1>5. ASSUME OnMessage
        PROVE  HostInv'
    <2>1. answers # <<>> /\ answers' = Tail(answers) /\ UNCHANGED <<open, up, pipe, buffer, work, sent, decoded, losses>>
      BY <1>5 DEF OnMessage
    <2>2. CallsTyped' /\ DOMAIN calls' = DOMAIN calls
      <3> DEFINE id == Head(answers).id
                 how == IF Head(answers).ok THEN Answer(id) ELSE Failure("refused")
      <3>1. CASE id \notin pending
        BY <1>2, <1>5, <3>1 DEF OnMessage, CallsTyped
      <3>2. CASE id \in pending
        <4>1. Settle({id}, how)
          BY <1>5, <3>2 DEF OnMessage
        <4>2. id \in Ids /\ "refused" \in Errors
          BY <1>1, <1>2, <3>2, BridgeAssumption DEF CallsTyped, Ids, Errors
        <4>3. how \in {Failure(error) : error \in Errors} \cup {Answer(i) : i \in Ids}
          BY <4>2
        <4> HIDE DEF id, how
        <4> QED
          BY <1>1, <1>2, <4>1, <4>3, SettleTyped
      <3> QED
        BY <3>1, <3>2
    <2>3. HostTypes'
      BY <1>2, <2>1 DEF HostTypes
    <2>4. \A i \in DOMAIN answers' : i + 1 \in DOMAIN answers /\ answers'[i] = answers[i + 1]
      BY <1>2, <2>1 DEF HostTypes
    <2>5. HostAnswers'
      <3>1. \A i \in DOMAIN answers' : answers'[i].id \in Asked \/ (~up' /\ answers'[i].id = 0)
        BY <1>2, <2>1, <2>4 DEF HostAnswers
      <3>2. \A k \in DOMAIN sent' : sent'[k].id \in DOMAIN calls'
        BY <1>2, <2>1, <2>2 DEF HostAnswers
      <3> QED
        BY <1>2, <2>1, <2>2, <3>1, <3>2, AnswersStay
    <2>6. Stream'
      BY <1>2, <2>1, StreamStays
    <2> QED
      BY <2>2, <2>3, <2>5, <2>6 DEF HostInv
  <1>6. ASSUME NEW ids, NEW error \in Errors, Settle(ids, Failure(error)),
               open' \in BOOLEAN, losses' \in 0..MaxLosses,
               up' = up \/ up' = FALSE, UNCHANGED <<pipe, buffer, work, answers, sent, decoded>>
        PROVE  HostInv'
    <2>1. CallsTyped' /\ DOMAIN calls' = DOMAIN calls
      BY <1>1, <1>2, <1>6, SettleTyped
    <2>2. HostTypes'
      BY <1>2, <1>6 DEF HostTypes
    <2>3. HostAnswers'
      BY <1>2, <1>6, <2>1, AnswersStay DEF HostAnswers
    <2>4. Stream'
      BY <1>2, <1>6, StreamStays
    <2> QED
      BY <2>1, <2>2, <2>3, <2>4 DEF HostInv
  <1>7. ASSUME NEW id \in DOMAIN calls, Timeout(id)
        PROVE  HostInv'
    <2>1. Settle({id}, Failure("timeout")) /\ UNCHANGED <<open, up, pipe, buffer, work, answers, sent, decoded, losses>>
      BY <1>7 DEF Timeout, host
    <2>2. "timeout" \in Errors /\ open \in BOOLEAN /\ losses \in 0..MaxLosses
      BY <1>2 DEF Errors, HostTypes
    <2> QED
      BY <1>6, <2>1, <2>2
  <1>8. ASSUME OnDisconnect
        PROVE  HostInv'
    <2>1. PICK error \in {"unavailable", "closed"} : Teardown(error)
      BY <1>8 DEF OnDisconnect
    <2>2. error \in Errors /\ Settle(pending, Failure(error))
      BY <2>1 DEF Errors, Teardown
    <2>3. open' = FALSE /\ UNCHANGED <<up, pipe, buffer, work, answers, sent, decoded, losses>> /\ losses \in 0..MaxLosses
      BY <1>2, <1>8 DEF OnDisconnect, host, HostTypes
    <2> QED
      BY <1>6, <2>2, <2>3
  <1>9. ASSUME Disconnect
        PROVE  HostInv'
    <2>1. "closed" \in Errors /\ Settle(pending, Failure("closed"))
      BY <1>9 DEF Disconnect, Errors, Teardown
    <2>2. open' = FALSE /\ up' = FALSE /\ UNCHANGED <<pipe, buffer, work, answers, sent, decoded>>
      BY <1>9 DEF Disconnect
    <2>3. losses' \in 0..MaxLosses
      BY <1>2, <1>9, BridgeAssumption DEF Disconnect, HostTypes
    <2> QED
      BY <1>6, <2>1, <2>2, <2>3
  <1>10. ASSUME NEW n \in DOMAIN pipe, Data(n)
         PROVE  HostInv'
    <2>1. /\ Stream' /\ pipe' \in Seq(Byte) /\ buffer' \in Seq(Byte) /\ up' \in BOOLEAN
          /\ decoded' \in Seq(Messages) /\ \A k \in DOMAIN decoded' : decoded'[k].id \in DOMAIN calls
          /\ Asked \subseteq Asked' /\ work' \subseteq Asked'
      BY <1>2, <1>10, DataStream
    <2>2. up /\ UNCHANGED <<open, calls, sent, losses>>
      BY <1>10 DEF Data, client
    <2>3. answers' = answers \/ (~up' /\ answers' = Append(answers, [id |-> 0, ok |-> FALSE]))
      BY <1>10 DEF Data
    <2> DEFINE last == [id |-> 0, ok |-> FALSE]
    <2>a. last \in [id: Nat, ok: BOOLEAN] /\ last.id = 0
      OBVIOUS
    <2> HIDE DEF last
    <2>b. answers' = answers \/ (~up' /\ answers' = Append(answers, last))
      BY <2>3 DEF last
    <2>4. answers' \in Seq([id: Nat, ok: BOOLEAN])
      <3> DEFINE R == [id: Nat, ok: BOOLEAN]
      <3>1. answers \in Seq(R) /\ last \in R
        BY <1>2, <2>a DEF HostTypes
      <3> HIDE DEF R
      <3>2. Append(answers, last) \in Seq(R)
        BY <3>1
      <3>3. answers' \in Seq(R)
        BY <2>b, <3>1, <3>2, Zenon
      <3> QED
        BY <3>3 DEF R
    <2>5. HostTypes'
      BY <1>2, <2>1, <2>2, <2>4 DEF HostTypes
    <2>6. \A i \in DOMAIN answers' : answers'[i].id \in Asked' \/ (~up' /\ answers'[i].id = 0)
      <3>1. \A i \in DOMAIN answers : answers[i].id \in Asked
        BY <1>2, <2>2 DEF HostAnswers
      <3>2. CASE answers' = answers
        BY <2>1, <3>1, <3>2
      <3>3. CASE ~up' /\ answers' = Append(answers, last)
        <4>1. \A i \in DOMAIN answers' : (i \in DOMAIN answers /\ answers'[i] = answers[i]) \/ answers'[i] = last
          BY <1>2, <2>a, <3>3 DEF HostTypes
        <4> QED
          BY <2>1, <2>a, <3>1, <3>3, <4>1
      <3> QED
        BY <2>b, <3>2, <3>3
    <2>7. HostAnswers'
      BY <1>2, <2>1, <2>2, <2>6 DEF HostAnswers
    <2>8. CallsTyped'
      BY <1>2, <2>2 DEF CallsTyped, Waiting, Failure, Answer, Ids, Errors
    <2> QED
      BY <2>1, <2>5, <2>7, <2>8 DEF HostInv
  <1>11. ASSUME NEW id \in DOMAIN calls, Handled(id)
         PROVE  HostInv'
    <2>1. PICK ok \in BOOLEAN : answers' = Append(answers, [id |-> id, ok |-> ok])
      BY <1>11 DEF Handled
    <2>2. id \in work /\ work' = work \ {id} /\ UNCHANGED <<open, calls, up, pipe, buffer, sent, decoded, losses>>
      BY <1>11 DEF Handled, client
    <2>3. id \in Nat
      BY <1>1
    <2>4. answers' \in Seq([id: Nat, ok: BOOLEAN])
      BY <1>2, <2>1, <2>3 DEF HostTypes
    <2>5. \A i \in DOMAIN answers' : (i \in DOMAIN answers /\ answers'[i] = answers[i]) \/ answers'[i].id = id
      BY <1>2, <2>1 DEF HostTypes
    <2>6. HostTypes'
      BY <1>2, <2>2, <2>4 DEF HostTypes
    <2>7. HostAnswers'
      <3>1. id \in Asked
        BY <1>2, <2>2 DEF HostAnswers
      <3>2. \A i \in DOMAIN answers' : answers'[i].id \in Asked \/ (~up' /\ answers'[i].id = 0)
        BY <1>2, <2>2, <2>5, <3>1 DEF HostAnswers
      <3>3. \A k \in DOMAIN sent' : sent'[k].id \in DOMAIN calls'
        BY <1>2, <2>2 DEF HostAnswers
      <3> QED
        BY <1>2, <2>2, <3>2, <3>3, AnswersStay
    <2>8. CallsTyped' /\ Stream'
      BY <1>2, <2>2, StreamStays DEF CallsTyped, Waiting, Failure, Answer, Ids, Errors
    <2> QED
      BY <2>6, <2>7, <2>8 DEF HostInv
  <1>12. ASSUME HostDies \/ UNCHANGED bridgeVars
         PROVE  HostInv'
    <2>1. /\ UNCHANGED <<open, calls, pipe, buffer, work, answers, sent, decoded>>
          /\ (up' = up /\ losses' = losses) \/ (up' = FALSE /\ losses < MaxLosses /\ losses' = losses + 1)
      BY <1>12 DEF HostDies, bridgeVars, client, host
    <2>2. losses' \in 0..MaxLosses
      BY <1>2, <2>1, BridgeAssumption DEF HostTypes
    <2>3. HostTypes'
      BY <1>2, <2>1, <2>2 DEF HostTypes
    <2>4. HostAnswers'
      BY <1>2, <2>1, AnswersStay DEF HostAnswers
    <2>5. CallsTyped' /\ Stream'
      BY <1>2, <2>1, StreamStays DEF CallsTyped, Waiting, Failure, Answer, Ids, Errors
    <2> QED
      BY <2>3, <2>4, <2>5 DEF HostInv
  <1> QED
    BY <1>3, <1>4, <1>5, <1>7, <1>8, <1>9, <1>10, <1>11, <1>12 DEF BridgeNext

\* A bridge starts without port, host and bytes.
LEMMA HostInit ==
  ASSUME BridgeInit
  PROVE  HostInv
  <1>1. /\ open = FALSE /\ up = FALSE /\ losses = 0 /\ calls = <<>> /\ work = {}
        /\ pipe = <<>> /\ buffer = <<>> /\ answers = <<>> /\ sent = <<>> /\ decoded = <<>>
    BY DEF BridgeInit
  <1>2. HostTypes
    <2>1. open \in BOOLEAN /\ up \in BOOLEAN
      BY <1>1
    <2>0. losses \in 0..MaxLosses
      BY <1>1, BridgeAssumption
    <2>2. sent \in Seq(Messages) /\ decoded \in Seq(Messages) /\ pipe \in Seq(Byte) /\ buffer \in Seq(Byte)
      BY <1>1
    <2>3. answers \in Seq([id: Nat, ok: BOOLEAN])
      BY <1>1
    <2> QED
      BY <2>0, <2>1, <2>2, <2>3 DEF HostTypes
  <1>3. HostAnswers /\ Stream
    BY <1>1 DEF HostAnswers, Stream
  <1>4. CallsTyped
    BY <1>1, BridgeAssumption DEF CallsTyped
  <1> QED
    BY <1>2, <1>3, <1>4 DEF HostInv

\* The invariant says what is to be shown.
LEMMA HostInvImplies ==
  ASSUME HostInv, ClientInv
  PROVE  FramesAreExact
  <1>1. HostTypes /\ HostAnswers /\ CallsTyped /\ Stream
    BY DEF HostInv
  <1>2. pending \subseteq DOMAIN calls /\ timers \subseteq DOMAIN calls
    BY DEF ClientInv, Unsettled
  <1>3. Asked \subseteq DOMAIN calls
    BY <1>1 DEF HostAnswers, Asked
  <1>4. DOMAIN calls \subseteq Ids
    BY <1>1, BridgeAssumption DEF ClientInv, CallsTyped, Ids
  <1>5. BridgeTypeOK
    <2>1. {open, up} \subseteq BOOLEAN /\ {sent, decoded} \subseteq Seq(Messages) /\ losses \in 0..MaxLosses
      BY <1>1 DEF HostTypes
    <2>2. {pending, timers, work} \subseteq SUBSET DOMAIN calls
      BY <1>1, <1>2, <1>3 DEF HostAnswers
    <2>3. \A i \in DOMAIN answers : IF up THEN \E k \in DOMAIN decoded : decoded[k].id = answers[i].id
                                    ELSE answers[i].id \in {0} \cup Ids
      BY <1>1, <1>3, <1>4 DEF HostAnswers, Asked
    <2> QED
      BY <1>1, <2>1, <2>2, <2>3 DEF BridgeTypeOK, CallsTyped
  <1>6. ASSUME up
        PROVE  Bytes(sent) = (Bytes(decoded) \o buffer) \o pipe /\ ~Whole(buffer)
    <2>1. PICK left \in Seq(Message) : sent = decoded \o left /\ buffer \o pipe = Bytes(left)
      BY <1>1, <1>6 DEF Stream
    <2>2. decoded \in Seq(Message) /\ buffer \in Seq(Byte) /\ pipe \in Seq(Byte) /\ Bytes(decoded) \in Seq(Byte)
      BY <1>1, MessagesAre, BytesType DEF HostTypes
    <2>3. Bytes(sent) = Bytes(decoded) \o (buffer \o pipe)
      BY <2>1, <2>2, BytesJoin
    <2> DEFINE b == Bytes(decoded)
    <2>4. b \in Seq(Byte)
      BY <2>2
    <2> HIDE DEF b
    <2>5. (b \o buffer) \o pipe = b \o (buffer \o pipe)
      BY SMTT(30), <2>2, <2>4, Grouped
    <2> QED
      BY <1>1, <1>6, <2>3, <2>5 DEF Stream, b
  <1> QED
    BY <1>5, <1>6 DEF FramesAreExact

\* However the bytes come, the host decodes what was sent, in order and once, and holds
\* back no message that is whole (host.mjs:40-69).
THEOREM FramesAreAlwaysExact == BridgeSpec => []FramesAreExact
  <1>1. BridgeInit => HostInv /\ ClientInv
    BY HostInit, ClientInit
  <1>2. HostInv /\ ClientInv /\ [BridgeNext]_bridgeVars => (HostInv /\ ClientInv)'
    BY HostStep, ClientStep
  <1>3. HostInv /\ ClientInv => FramesAreExact
    BY HostInvImplies
  <1> QED
    BY <1>1, <1>2, <1>3, PTL DEF BridgeSpec

-----------------------------------------------------------------------------
\* The algorithms.  Least and greatest numbers.

\* A set of numbers has a least one.
LEMMA MinIs ==
  ASSUME NEW S \in SUBSET Nat, S # {}
  PROVE  Min(S) \in S /\ \A y \in S : Min(S) <= y
  <1>1. PICK x \in S : \A y \in S : ~(<<y, x>> \in OpToRel(<, Nat))
    BY NatLessThanWellFounded, WFMin
  <1>2. ASSUME NEW y \in S PROVE x <= y
    <2>1. x \in Nat /\ y \in Nat
      OBVIOUS
    <2>2. ~(<<y, x>> \in OpToRel(<, Nat))
      BY <1>1
    <2>3. ~(y < x)
      BY <2>1, <2>2 DEF OpToRel
    <2> QED
      BY <2>1, <2>3
  <1> QED
    BY <1>2 DEF Min

\* The greatest number is the one that is no less than any.
LEMMA MaxIs ==
  ASSUME NEW S \in SUBSET Nat, NEW x \in S, \A y \in S : y <= x
  PROVE  Max(S) = x
  <1>1. \A y \in S : x >= y
    OBVIOUS
  <1> DEFINE m == Max(S)
  <1>2. m \in S /\ \A y \in S : m >= y
    BY <1>1, Zenon DEF Max
  <1> HIDE DEF m
  <1>3. m \in Nat /\ x \in Nat /\ m >= x /\ x >= m
    BY <1>1, <1>2
  <1> QED
    BY <1>3 DEF m

-----------------------------------------------------------------------------
\* Domains.

Hits(site) == {i \in DOMAIN site : RuleAt(site, i)}
Hostname == Seq(STRING) \ {<<>>}

\* The last labels of a host.
LEMMA FromIs ==
  ASSUME NEW site \in Seq(STRING), NEW i \in 1..Len(site)
  PROVE  /\ From(site, i) \in Seq(STRING) /\ Len(From(site, i)) = Len(site) - i + 1
         /\ \A k \in 1..(Len(site) - i + 1) : From(site, i)[k] = site[i + k - 1]
  BY DEF From

\* The last labels of a host, and of those the last.
LEMMA FromHas ==
  ASSUME NEW site \in Hostname, NEW i \in DOMAIN site
  PROVE  /\ From(site, i) \in Hostname /\ Len(From(site, i)) = Len(site) - i + 1
         /\ \A j \in DOMAIN site : i <= j => j - i + 1 \in DOMAIN From(site, i) /\ From(From(site, i), j - i + 1) = From(site, j)
  <1>1. site \in Seq(STRING) /\ i \in 1..Len(site) /\ Len(site) \in Nat
    BY DEF Hostname
  <1> DEFINE f == From(site, i)
  <1>2. f \in Seq(STRING) /\ Len(f) = Len(site) - i + 1 /\ \A n \in 1..Len(f) : f[n] = site[i + n - 1]
    BY <1>1, FromIs
  <1> HIDE DEF f
  <1>3. ASSUME NEW j \in DOMAIN site, i <= j
        PROVE  j - i + 1 \in DOMAIN f /\ From(f, j - i + 1) = From(site, j)
    <2> DEFINE k == j - i + 1
               fk == From(f, k)
               hj == From(site, j)
    <2>1. j \in 1..Len(site) /\ k \in 1..Len(f) /\ Len(f) - k + 1 = Len(site) - j + 1
      <3>1. j \in 1..Len(site) /\ Len(f) = Len(site) - i + 1
        BY <1>1, <1>2, <1>3
      <3> QED
        BY SMTT(30), <1>1, <1>3, <3>1
    <2>2. fk \in Seq(STRING) /\ Len(fk) = Len(f) - k + 1 /\ \A n \in 1..(Len(f) - k + 1) : fk[n] = f[k + n - 1]
      BY <1>2, <2>1, FromIs
    <2>3. hj \in Seq(STRING) /\ Len(hj) = Len(site) - j + 1 /\ \A n \in 1..(Len(site) - j + 1) : hj[n] = site[j + n - 1]
      BY <1>1, <2>1, FromIs
    <2> HIDE DEF fk, hj
    <2>4. Len(fk) = Len(hj) /\ \A n \in 1..Len(fk) : fk[n] = hj[n]
      <3>1. ASSUME NEW n \in 1..(Len(site) - j + 1) PROVE fk[n] = hj[n]
        <4> DEFINE at == k + n - 1
        <4>0. Len(f) \in Nat /\ k \in Nat /\ n \in 1..(Len(f) - k + 1) /\ k \in 1..Len(f)
          BY <1>2, <2>1
        <4>1. at \in 1..Len(f) /\ i + at - 1 = j + n - 1
          <5>1. at \in 1..Len(f)
            <6> HIDE DEF k
            <6> QED BY <4>0
          <5>0. i \in Nat /\ j \in Nat
            <6>1. i \in Nat
              BY <1>1
            <6>2. j \in Nat
              <7> HIDE DEF k
              <7> QED BY <2>1
            <6> QED BY <6>1, <6>2
          <5>2. n \in Nat
            <6> HIDE DEF k
            <6> QED BY <4>0
          <5>3. i + at - 1 = j + n - 1
            BY SMTT(30), <5>0, <5>2
          <5> QED
            BY <5>1, <5>3
        <4>2. fk[n] = f[at]
          BY <2>1, <2>2
        <4>3. f[at] = site[i + at - 1]
          <5> HIDE DEF at
          <5> QED BY <1>2, <4>1
        <4>4. hj[n] = site[j + n - 1]
          BY <2>3
        <4> HIDE DEF at, k
        <4> QED
          BY <4>1, <4>2, <4>3, <4>4
      <3>2. Len(fk) = Len(site) - j + 1 /\ Len(hj) = Len(site) - j + 1
        BY <2>1, <2>2, <2>3
      <3> QED
        BY <3>1, <3>2
    <2>5. fk = hj
      BY <2>2, <2>3, <2>4, SeqEqual
    <2>6. k \in DOMAIN f
      BY <1>2, <2>1
    <2> QED
      BY <2>5, <2>6 DEF fk, hj
  <1>4. f # <<>>
    BY <1>1, <1>2
  <1> QED
    BY <1>2, <1>3, <1>4 DEF Hostname, f

\* The rules that a host ends with, by their lengths.
Lengths(site, rules) == {Len(r) : r \in {rule \in rules : EndsWith(site, rule)}}

\* They are the lengths from the places where a rule begins.
LEMMA LengthsAre ==
  ASSUME NEW site \in Hostname, NEW rules
  PROVE  /\ Lengths(site, rules) = {Len(site) - i + 1 : i \in {j \in DOMAIN site : From(site, j) \in rules}}
         /\ Lengths(site, rules) \in SUBSET (1..Len(site)) /\ Len(site) \in Nat \ {0} /\ DOMAIN site = 1..Len(site)
  <1> DEFINE Places == {j \in DOMAIN site : From(site, j) \in rules}
             Found == {Len(site) - i + 1 : i \in Places}
  <1>1. ASSUME NEW n \in Lengths(site, rules) PROVE n \in Found
    <2>1. PICK r \in rules : EndsWith(site, r) /\ n = Len(r)
      BY <1>1 DEF Lengths
    <2>2. PICK i \in DOMAIN site : From(site, i) = r
      BY <2>1 DEF EndsWith
    <2>3. i \in Places /\ n = Len(site) - i + 1
      BY <2>1, <2>2, FromHas
    <2> QED
      BY <2>3
  <1>2. ASSUME NEW i \in Places PROVE Len(site) - i + 1 \in Lengths(site, rules)
    <2>1. From(site, i) \in rules /\ Len(From(site, i)) = Len(site) - i + 1 /\ EndsWith(site, From(site, i))
      BY FromHas DEF EndsWith
    <2> QED
      BY <2>1 DEF Lengths
  <1>3. Lengths(site, rules) = Found
    BY <1>1, <1>2
  <1>4. Len(site) \in Nat \ {0} /\ DOMAIN site = 1..Len(site)
    BY DEF Hostname
  <1>5. \A i \in Places : Len(site) - i + 1 \in 1..Len(site)
    BY <1>4
  <1> HIDE DEF Places
  <1>6. Found \subseteq 1..Len(site)
    BY <1>5
  <1> QED
    BY <1>3, <1>4, <1>6 DEF Places

\* The length of the suffix, in words of the places where a rule is found.
LEMMA SuffixWithoutRule ==
  ASSUME NEW site \in Hostname, Hits(site) = {}
  PROVE  SuffixLength(site) = 1
  <1> DEFINE N == Len(site)
             under == {n + 1 : n \in {m \in Lengths(site, Wildcards) : m < N}}
             all == {1} \cup Lengths(site, PublicSuffixes) \cup under
  <1>1. /\ \A i \in DOMAIN site : From(site, i) \notin Exceptions \cup PublicSuffixes
        /\ \A i \in DOMAIN site : i < N => From(site, i + 1) \notin Wildcards
    BY DEF Hits, RuleAt
  <1>2. N \in Nat \ {0} /\ DOMAIN site = 1..N
    BY LengthsAre
  <1>3. Lengths(site, Exceptions) = {} /\ Lengths(site, PublicSuffixes) = {}
    <2>1. {j \in DOMAIN site : From(site, j) \in Exceptions} = {} /\ {j \in DOMAIN site : From(site, j) \in PublicSuffixes} = {}
      BY <1>1
    <2> QED
      BY <2>1, LengthsAre
  <1>4. ASSUME NEW n \in Lengths(site, Wildcards), n < N PROVE FALSE
    <2>1. PICK i \in DOMAIN site : From(site, i) \in Wildcards /\ n = N - i + 1
      BY LengthsAre
    <2>2. i - 1 \in 1..N /\ i - 1 < N /\ (i - 1) + 1 = i
      BY <1>2, <1>4, <2>1
    <2> QED
      BY <1>1, <1>2, <2>1, <2>2
  <1>5. under = {}
    BY <1>4
  <1>6. Max(all) = 1
    <2>1. all = {1}
      BY <1>3, <1>5
    <2> HIDE DEF all
    <2> QED
      BY <2>1, MaxIs
  <1> QED
    BY <1>3, <1>6 DEF SuffixLength, Lengths

\* Where the first rule that is found is an exception, the suffix is one label less.
LEMMA SuffixWithException ==
  ASSUME NEW site \in Hostname, NEW k \in Hits(site), \A i \in Hits(site) : k <= i, From(site, k) \in Exceptions
  PROVE  SuffixLength(site) = Len(site) - k
  <1> DEFINE N == Len(site)
             all == Lengths(site, Exceptions)
  <1>1. N \in Nat \ {0} /\ k \in 1..N /\ DOMAIN site = 1..N
    BY LengthsAre DEF Hits
  <1>2. N - k + 1 \in all /\ all \in SUBSET Nat
    BY LengthsAre, <1>1
  <1>3. ASSUME NEW n \in all PROVE n <= N - k + 1
    <2>1. PICK i \in DOMAIN site : From(site, i) \in Exceptions /\ n = N - i + 1
      BY LengthsAre
    <2>2. i \in Hits(site)
      BY <2>1 DEF Hits, RuleAt
    <2> QED
      BY <1>1, <2>1, <2>2
  <1> HIDE DEF all
  <1>4. Max(all) = N - k + 1 /\ all # {}
    BY <1>2, <1>3, MaxIs
  <1>5. Max(all) - 1 = N - k
    BY <1>1, <1>4
  <1> QED
    BY <1>4, <1>5 DEF SuffixLength, Lengths, all

\* Elsewhere the suffix begins where the first rule is found.
LEMMA SuffixWithRule ==
  ASSUME NEW site \in Hostname, NEW k \in Hits(site), \A i \in Hits(site) : k <= i, From(site, k) \notin Exceptions
  PROVE  SuffixLength(site) = Len(site) - k + 1
  <1> DEFINE N == Len(site)
             under == {n + 1 : n \in {m \in Lengths(site, Wildcards) : m < N}}
             all == {1} \cup Lengths(site, PublicSuffixes) \cup under
  <1>1. N \in Nat \ {0} /\ k \in 1..N /\ DOMAIN site = 1..N
    BY LengthsAre DEF Hits
  <1>2. From(site, k) \in PublicSuffixes \/ (k < N /\ k + 1 \in 1..N /\ From(site, k + 1) \in Wildcards)
    BY <1>1 DEF Hits, RuleAt
  <1>3. ASSUME NEW i \in DOMAIN site, From(site, i) \in Exceptions PROVE FALSE
    <2>1. i \in Hits(site)
      BY <1>3 DEF Hits, RuleAt
    <2>2. k <= i /\ k # i
      BY <1>3, <2>1
    <2>3. CASE From(site, k) \in PublicSuffixes
      <3>0. i - k + 1 \in DOMAIN From(site, k) /\ From(From(site, k), i - k + 1) = From(site, i)
        BY <1>1, <2>2, FromHas
      <3>1. EndsWith(From(site, k), From(site, i))
        BY <3>0, Zenon DEF EndsWith
      <3> QED
        BY <1>3, <2>3, <3>1, RulesAssumption
    <2>4. CASE k < N /\ k + 1 \in 1..N /\ From(site, k + 1) \in Wildcards
      <3>1. k + 1 <= i /\ k + 1 \in DOMAIN site
        BY <1>1, <2>2, <2>4
      <3>2. EndsWith(From(site, k + 1), From(site, i))
        BY <3>1, FromHas DEF EndsWith
      <3> QED
        BY <1>3, <2>4, <3>2, RulesAssumption
    <2> QED
      BY <1>2, <2>3, <2>4
  <1>4. Lengths(site, Exceptions) = {}
    <2>1. {j \in DOMAIN site : From(site, j) \in Exceptions} = {}
      BY <1>3
    <2> QED
      BY <2>1, LengthsAre
  <1>5. ASSUME NEW n \in all PROVE n \in Nat /\ n <= N - k + 1
    <2>1. CASE n = 1
      BY <1>1, <2>1
    <2>2. CASE n \in Lengths(site, PublicSuffixes)
      <3>1. PICK i \in DOMAIN site : From(site, i) \in PublicSuffixes /\ n = N - i + 1
        BY <2>2, LengthsAre
      <3>2. i \in Hits(site)
        BY <3>1 DEF Hits, RuleAt
      <3> QED
        BY <1>1, <3>1, <3>2
    <2>3. CASE n \in under
      <3>1. PICK m \in Lengths(site, Wildcards) : m < N /\ n = m + 1
        BY <2>3
      <3>2. PICK i \in DOMAIN site : From(site, i) \in Wildcards /\ m = N - i + 1
        BY LengthsAre
      <3>3. i - 1 \in 1..N /\ i - 1 < N /\ (i - 1) + 1 = i
        BY <1>1, <3>1, <3>2
      <3>4. i - 1 \in Hits(site)
        BY <1>1, <3>2, <3>3 DEF Hits, RuleAt
      <3> QED
        BY <1>1, <3>1, <3>2, <3>4
    <2> QED
      BY <1>5, <2>1, <2>2, <2>3
  <1>6. N - k + 1 \in all
    <2>1. CASE From(site, k) \in PublicSuffixes
      <3>1. N - k + 1 \in Lengths(site, PublicSuffixes)
        BY <1>1, <2>1, LengthsAre
      <3> QED
        BY <3>1
    <2>2. CASE k < N /\ k + 1 \in 1..N /\ From(site, k + 1) \in Wildcards
      <3>1. N - (k + 1) + 1 \in Lengths(site, Wildcards)
        BY <1>1, <2>2, LengthsAre
      <3>2. N - (k + 1) + 1 = N - k /\ N - k < N /\ (N - k) + 1 = N - k + 1
        BY <1>1
      <3> QED
        BY <3>1, <3>2
    <2> QED
      BY <1>2, <2>1, <2>2
  <1> HIDE DEF all
  <1>7. Max(all) = N - k + 1
    <2>1. all \in SUBSET Nat
      BY <1>5
    <2> QED
      BY <1>5, <1>6, <2>1, MaxIs
  <1> QED
    BY <1>4, <1>7 DEF SuffixLength, Lengths, all

\* The registrable domain is one label more than the suffix.
LEMMA ListIsFollowed ==
  ASSUME NEW site \in Hostname
  PROVE  FollowsTheList(site)
  <1>i. CASE site \in IpAddresses
    BY <1>i DEF FollowsTheList, registrableDomain, SiteOf
  <1> SUFFICES ASSUME site \notin IpAddresses
               PROVE  /\ registrableDomain(site) = IF Len(site) > SuffixLength(site)
                                                   THEN From(site, Len(site) - SuffixLength(site)) ELSE NoDomain
                      /\ isPublicSuffix(site) <=> registrableDomain(site) = NoDomain
    BY <1>i, Zenon DEF FollowsTheList, SiteOf
  <1> DEFINE N == Len(site)
             hits == Hits(site)
  <1>1. N \in Nat \ {0} /\ DOMAIN site = 1..N /\ hits \in SUBSET Nat /\ hits \subseteq 1..N
    BY LengthsAre DEF Hits
  <1>2. \A i \in 1..N : From(site, i) # NoDomain
    BY <1>1, FromHas DEF Hostname, NoDomain
  <1>3. From(site, 1) = site
    BY DEF From, Hostname
  <1>4. registrableDomain(site) =
          IF N < 2 THEN NoDomain
          ELSE IF hits = {} THEN From(site, N - 1)
          ELSE IF From(site, Min(hits)) \in Exceptions THEN From(site, Min(hits))
          ELSE IF Min(hits) = 1 THEN NoDomain ELSE From(site, Min(hits) - 1)
    BY DEF registrableDomain, Hits
  <1>5. isPublicSuffix(site) <=> /\ site \notin Exceptions
                                 /\ site \in PublicSuffixes \/ N = 1 \/ From(site, 2) \in Wildcards
    BY DEF isPublicSuffix
  <1>6. 1 \in hits <=> site \in Exceptions \cup PublicSuffixes \/ (1 < N /\ From(site, 2) \in Wildcards)
    BY <1>1, <1>3 DEF Hits, RuleAt
  <1>7. site \in Exceptions => N > 1
    BY RulesAssumption
  <1>8. CASE hits = {}
    <2>1. SuffixLength(site) = 1
      BY <1>8, SuffixWithoutRule
    <2>2. CASE N = 1
      BY <1>4, <1>5, <1>7, <2>1, <2>2
    <2>3. CASE N # 1
      <3>1. N - 1 \in 1..N /\ N > 1 /\ ~(N < 2)
        BY <1>1, <2>3
      <3>2. registrableDomain(site) = From(site, N - 1) /\ From(site, N - 1) # NoDomain
        BY <1>2, <1>4, <1>8, <3>1, Zenon
      <3>3. ~isPublicSuffix(site)
        <4>1. 1 \notin hits /\ 1 < N
          BY <1>8, <3>1
        <4> HIDE DEF hits
        <4> QED
          BY <1>5, <1>6, <2>3, <4>1, Zenon
      <3> QED
        BY <2>1, <3>1, <3>2, <3>3
    <2> QED
      BY <2>2, <2>3
  <1>9. CASE hits # {}
    <2> DEFINE k == Min(hits)
    <2>1. k \in hits /\ \A i \in hits : k <= i
      BY <1>1, <1>9, MinIs
    <2> HIDE DEF k, hits
    <2>2. k \in 1..N
      BY <1>1, <2>1
    <2>3. CASE From(site, k) \in Exceptions
      <3>1. SuffixLength(site) = N - k
        BY <2>1, <2>3, SuffixWithException DEF hits
      <3>2. N > 1
        <4>1. Len(From(site, k)) > 1 /\ Len(From(site, k)) = N - k + 1
          BY <1>1, <2>2, <2>3, FromHas, RulesAssumption
        <4> QED
          BY <1>1, <2>2, <4>1
      <3>3. registrableDomain(site) = From(site, k)
        <4>1. ~(N < 2)
          BY <1>1, <3>2
        <4> QED
          BY <1>4, <1>9, <2>3, <4>1, Zenon DEF k
      <3>4. N > N - k /\ N - (N - k) = k
        BY <1>1, <2>2
      <3>5. ~isPublicSuffix(site)
        <4>1. CASE k = 1
          BY <1>3, <1>5, <2>3, <4>1
        <4>2. CASE k # 1
          <5>1. 1 \notin hits
            BY <2>1, <2>2, <4>2
          <5> QED
            BY <1>1, <1>5, <1>6, <3>2, <5>1
        <4> QED
          BY <4>1, <4>2
      <3> QED
        BY <1>2, <2>2, <3>1, <3>3, <3>4, <3>5
    <2>4. CASE From(site, k) \notin Exceptions
      <3>1. SuffixLength(site) = N - k + 1
        BY <2>1, <2>4, SuffixWithRule DEF hits
      <3>2. CASE k = 1
        <4>1. N - k + 1 = N /\ ~(N > N)
          BY <1>1, <3>2
        <4>2. registrableDomain(site) = NoDomain
          BY <1>4, <1>9, <2>4, <3>2 DEF k
        <4>3. isPublicSuffix(site)
          BY <1>3, <1>5, <1>6, <2>1, <2>4, <3>2
        <4> QED
          BY <3>1, <4>1, <4>2, <4>3
      <3>3. CASE k # 1
        <4>1. N > N - k + 1 /\ N - (N - k + 1) = k - 1 /\ k - 1 \in 1..N /\ N > 1
          BY <1>1, <2>2, <3>3
        <4>2. registrableDomain(site) = From(site, k - 1)
          <5>1. ~(N < 2)
            BY <1>1, <4>1
          <5> QED
            BY <1>4, <1>9, <2>4, <3>3, <5>1, Zenon DEF k
        <4>3. ~isPublicSuffix(site)
          <5>1. 1 \notin hits
            BY <2>1, <2>2, <3>3
          <5> QED
            BY <1>1, <1>5, <1>6, <4>1, <5>1
        <4> QED
          BY <1>2, <3>1, <4>1, <4>2, <4>3
      <3> QED
        BY <3>2, <3>3
    <2> QED
      BY <2>3, <2>4
  <1> QED
    BY <1>8, <1>9

-----------------------------------------------------------------------------
\* Logins.

\* Under the default strategy a login is offered that is at home, or elsewhere if the
\* page's site is opened up, and nothing else.
LEMMA SameSiteIs ==
  ASSUME NEW l, NEW page, l.host \in Hostname, page.host \in Hostname, NEW extra
  PROVE  SameSite(l, page, extra) <=>
           schemeIsAcceptable(l, page) /\ (AtHome(l, page) \/ OpenedUp(l, page, extra))
  <1> DEFINE from == SiteOf(l.host)
             to == SiteOf(page.host)
             opened == to \in extra \/ \E group \in Groups : to \in group /\ group \cap extra # {}
             grouped == \E group \in Groups : from \in group /\ to \in group
  <1>1. registrableDomain(l.host) = from /\ registrableDomain(page.host) = to
    BY ListIsFollowed DEF FollowsTheList
  <1>2. to \in equivalentDomains(from, extra) <=> from = to \/ grouped \/ opened
    BY DEF equivalentDomains
  <1>3. AtHome(l, page) <=> l.host = page.host \/ (from # NoDomain /\ to # NoDomain /\ (from = to \/ grouped))
    BY DEF AtHome
  <1>4. OpenedUp(l, page, extra) <=> from # NoDomain /\ to # NoDomain /\ opened
    BY DEF OpenedUp
  <1>5. l.host = page.host => from = to
    OBVIOUS
  <1>6. SameSite(l, page, extra) <=>
          /\ schemeIsAcceptable(l, page)
          /\ IF NoDomain \in {from, to} THEN l.host = page.host ELSE to \in equivalentDomains(from, extra)
    BY <1>1 DEF SameSite
  <1> HIDE DEF from, to, opened, grouped
  <1> QED
    BY <1>2, <1>3, <1>4, <1>5, <1>6

\* Stricter strategies, own logins first, and what is offered belongs to the page and is
\* revealed, of one page.
LEMMA LoginsMatch ==
  ASSUME NEW page \in Pages, NEW settings \in Settings
  PROVE  /\ Nests(Logins, page, settings) /\ OwnFirst(Logins, page, settings)
         /\ OffersBelong(Logins, page, settings) /\ OfferedAreRevealed(Logins, page, settings)
  <1> DEFINE matches(l, strategy, extra) == originMatches(l, page, strategy, extra)
             strategy == Strategy(settings)
  <1>0. page.host \in Hostname /\ \A l \in Logins : l.host \in Hostname
    <2>1. \A url \in Logins \cup Pages : url.host \in Hostname
      BY PagesAssumption, Zenon DEF Hostname
    <2> QED
      BY <2>1
  <1>m. ASSUME NEW l \in Logins, NEW extra
        PROVE  /\ matches(l, "exact", extra) <=> Origin(l) = Origin(page) /\ page.path = "/"
               /\ matches(l, "host", extra) <=> l.host = page.host /\ schemeIsAcceptable(l, page)
               /\ matches(l, "startsWith", extra) <=> TextBegins(l, page) /\ schemeIsAcceptable(l, page)
               /\ matches(l, "domain", extra) <=>
                    schemeIsAcceptable(l, page) /\ (AtHome(l, page) \/ OpenedUp(l, page, extra))
    BY <1>0, SameSiteIs DEF originMatches
  <1>o. \A l : Origin(l) = Origin(page) => l.scheme = page.scheme /\ l.host = page.host /\ l.port = page.port
    BY DEF Origin
  <1>1. Nests(Logins, page, settings)
    <2> SUFFICES ASSUME NEW l \in Logins
                 PROVE  /\ matches(l, "exact", settings.extra) =>
                              matches(l, "host", settings.extra) /\ matches(l, "startsWith", settings.extra)
                        /\ matches(l, "host", settings.extra) => matches(l, "domain", settings.extra)
      BY Zenon DEF Nests
    <2>1. l.scheme = page.scheme => schemeIsAcceptable(l, page)
      BY DEF schemeIsAcceptable
    <2>2. l.host = page.host => IsPrefix(l.host, page.host)
      BY <1>0 DEF IsPrefix, Hostname
    <2>3. Origin(l) = Origin(page) => TextBegins(l, page)
      BY <1>o, <2>2 DEF TextBegins
    <2>4. l.host = page.host => AtHome(l, page)
      BY DEF AtHome
    <2> QED
      BY <1>m, <1>o, <2>1, <2>3, <2>4, Zenon
  <1>2. OwnFirst(Logins, page, settings)
    <2> SUFFICES ASSUME NEW own, NEW other, Origin(own) = Origin(page), Origin(other) # Origin(page)
                 PROVE  Before(own, other, page)
      BY DEF OwnFirst
    <2>1. own.scheme = page.scheme /\ own.host = page.host
      BY DEF Origin
    <2> DEFINE same(l) == registrableDomain(l.host) # NoDomain /\ registrableDomain(l.host) = registrableDomain(page.host)
               d(l) == IF same(l) THEN 10 ELSE 0
               h(l) == IF l.host = page.host THEN 20 ELSE 0
               o(l) == IF Origin(l) = Origin(page) THEN 30 ELSE 0
               s(l) == IF l.scheme = page.scheme THEN 5 ELSE 0
    <2>2. \A l : matchScore(l, page) = d(l) + h(l) + o(l) + s(l)
      BY Zenon DEF matchScore
    <2>3. d(own) \in 0..10 /\ h(own) = 20 /\ o(own) = 30 /\ s(own) = 5
      BY <2>1
    <2>4. d(other) \in 0..10 /\ h(other) \in 0..20 /\ o(other) = 0 /\ s(other) \in 0..5
      OBVIOUS
    <2> HIDE DEF d, h, o, s
    <2>5. matchScore(own, page) > matchScore(other, page)
      BY <2>2, <2>3, <2>4
    <2> QED
      BY <2>5 DEF Before
  <1>3. ASSUME NEW l \in Logins
        PROVE  /\ l \in Offered(Logins, page, settings) <=> matches(l, strategy, settings.extra)
               /\ Revealed(l, page, settings) <=> matches(l, strategy, {})
    BY DEF Offered, Revealed, findPasswordsForUrl
  <1>h. strategy \in Strategies
    BY PagesAssumption, Zenon
  <1>4. ASSUME NEW l \in Logins, NEW extra
        PROVE  /\ matches(l, strategy, extra) => schemeIsAcceptable(l, page)
               /\ matches(l, strategy, extra) /\ strategy # "startsWith" =>
                    AtHome(l, page) \/ (strategy = "domain" /\ OpenedUp(l, page, extra))
               /\ strategy = "domain" /\ AtHome(l, page) /\ schemeIsAcceptable(l, page) => matches(l, strategy, extra)
               /\ strategy # "domain" \/ AtHome(l, page) => (matches(l, strategy, extra) <=> matches(l, strategy, {}))
               /\ matches(l, strategy, {}) => matches(l, strategy, extra)
    <2>1. /\ Origin(l) = Origin(page) => schemeIsAcceptable(l, page) /\ AtHome(l, page)
          /\ l.host = page.host => AtHome(l, page)
          /\ ~OpenedUp(l, page, {})
      BY <1>o DEF schemeIsAcceptable, AtHome, OpenedUp
    <2>2. CASE strategy = "exact"
      BY <1>m, <2>1, <2>2
    <2>3. CASE strategy = "host"
      BY <1>m, <2>1, <2>3
    <2>4. CASE strategy = "startsWith"
      BY <1>m, <2>1, <2>4
    <2>5. CASE strategy = "domain"
      BY <1>m, <2>1, <2>5
    <2>6. CASE strategy \in {"never", "regex"}
      <3>1. \A other : matches(l, strategy, other) = FALSE
        BY <2>6 DEF originMatches
      <3> QED
        BY <2>6, <3>1
    <2> QED
      BY <1>h, <2>2, <2>3, <2>4, <2>5, <2>6 DEF Strategies
  <1> HIDE DEF matches, strategy
  <1>5. OffersBelong(Logins, page, settings)
    <2> SUFFICES ASSUME NEW l \in Logins
                 PROVE  /\ l \in Offered(Logins, page, settings) /\ l.scheme = "https" => page.scheme = "https"
                        /\ l \in Offered(Logins, page, settings) /\ strategy # "startsWith" =>
                             AtHome(l, page) \/ (strategy = "domain" /\ OpenedUp(l, page, settings.extra))
                        /\ strategy = "domain" /\ AtHome(l, page) /\ (l.scheme = "http" \/ page.scheme = "https") =>
                             l \in Offered(Logins, page, settings)
                        /\ Revealed(l, page, settings) =>
                             l \in Offered(Logins, page, settings) /\ (strategy = "startsWith" \/ AtHome(l, page))
      BY Zenon DEF OffersBelong, strategy
    <2>1. schemeIsAcceptable(l, page) <=> (l.scheme = "https" => page.scheme = "https")
      BY DEF schemeIsAcceptable
    <2>2. ~OpenedUp(l, page, {})
      BY DEF OpenedUp
    <2> QED
      BY <1>3, <1>4, <2>1, <2>2
  <1>6. OfferedAreRevealed(Logins, page, settings)
    <2> SUFFICES ASSUME NEW l \in Offered(Logins, page, settings)
                 PROVE  Revealed(l, page, settings) \/ (strategy = "domain" /\ ~AtHome(l, page))
      BY Zenon DEF OfferedAreRevealed, strategy
    <2>1. l \in Logins
      BY DEF Offered, findPasswordsForUrl
    <2> QED
      BY <1>3, <1>4, <2>1
  <1> QED
    BY <1>1, <1>2, <1>5, <1>6

-----------------------------------------------------------------------------
\* Forms.

Field == [form: STRING, type: STRING, autocomplete: Tokens, words: SUBSET STRING]
Places == Nat \ {0}

\* The first place is in front of the others.
LEMMA FirstIs ==
  ASSUME NEW P \in SUBSET Places
  PROVE  /\ P = {} => FirstOf(P) = Nothing
         /\ P # {} => FirstOf(P) \in P /\ \A j \in P : FirstOf(P) <= j
  <1>1. P \in SUBSET Nat
    BY DEF Places
  <1> QED
    BY <1>1, MinIs DEF FirstOf

\* The best place is the first of those that no place has a better score than.
LEMMA BestIs ==
  ASSUME NEW P \in SUBSET Places, NEW score
  PROVE  /\ Best(P, score) = Nothing \/ (Best(P, score) \in P /\ \A j \in P : score[j] <= score[Best(P, score)])
         /\ \A i \in P : (\A j \in P : score[j] <= score[i]) => Best(P, score) # Nothing /\ Best(P, score) <= i
  <1> DEFINE B == {i \in P : \A j \in P : score[j] <= score[i]}
  <1>1. B \in SUBSET Places /\ \A i \in B : i \in P /\ \A j \in P : score[j] <= score[i]
    OBVIOUS
  <1>2. \A i \in P : (\A j \in P : score[j] <= score[i]) => i \in B
    OBVIOUS
  <1>3. Best(P, score) = FirstOf(B)
    BY DEF Best
  <1> HIDE DEF B
  <1>4. B = {} => FirstOf(B) = Nothing
    BY <1>1, FirstIs
  <1>5. B # {} => FirstOf(B) \in B /\ FirstOf(B) # Nothing /\ \A j \in B : FirstOf(B) <= j
    BY <1>1, FirstIs DEF Nothing, Places
  <1> QED
    BY <1>1, <1>2, <1>3, <1>4, <1>5, Zenon

\* What a user name's field may score: a token more than anything else.
LEMMA ScoresAre ==
  ASSUME NEW field \in Field
  PROVE  /\ field.autocomplete = "username" => Kind(field) = "username"
         /\ Kind(field) \in Usernames => /\ Score(field) \in {60, 65, 90, 100}
                                         /\ Score(field) = 100 <=> field.autocomplete = "username"
  <1>1. field.autocomplete \in Tokens
    BY DEF Field
  <1>2. CASE field.autocomplete = "username"
    <2>1. Kind(field) = "username"
      BY <1>2 DEF Kind, NoToken
    <2>2. Score(field) = 100
      BY <1>2 DEF Score, NoToken
    <2> QED
      BY <1>2, <2>1, <2>2
  <1>3. CASE field.autocomplete = "email"
    <2>1. Score(field) = 90
      BY <1>3 DEF Score, NoToken
    <2> QED
      BY <1>3, <2>1
  <1>4. CASE field.autocomplete = NoToken
    <2>1. Score(field) \in {60, 65}
      BY <1>4 DEF Score, NoToken
    <2>2. field.autocomplete # "username"
      BY <1>4 DEF NoToken
    <2> QED
      BY <2>1, <2>2
  <1>5. CASE field.autocomplete \in {"one-time-code", "current-password", "new-password"}
    <2>1. Kind(field) \in {"totp", "current-password", "new-password"}
      BY <1>5 DEF Kind, NoToken
    <2> QED
      BY <1>5, <2>1 DEF Usernames
  <1> QED
    BY <1>1, <1>2, <1>3, <1>4, <1>5 DEF Tokens, Usernames

\* A password field is of a kind of passwords, or has a token for something else.
LEMMA PasswordsAre ==
  ASSUME NEW field \in Field, field.type = "password",
         Kind(field) \notin {"current-password", "new-password", "confirm-password"}
  PROVE  field.autocomplete \in Usernames \cup {"one-time-code"}
  <1>1. field.autocomplete \in Tokens
    BY DEF Field
  <1>2. field.autocomplete # NoToken
    BY DEF Kind, PasswordKind
  <1>3. field.autocomplete \notin {"current-password", "new-password"}
    BY <1>2 DEF Kind
  <1> QED
    BY <1>1, <1>2, <1>3 DEF Tokens

\* What is a place on a page.
LEMMA PlacesAre ==
  ASSUME NEW page \in Seq(Field)
  PROVE  /\ DOMAIN page \in SUBSET Places /\ \A i \in DOMAIN page : page[i] \in Field
         /\ \A fields \in SUBSET DOMAIN page : \A kinds : OfKind(page, fields, kinds) \in SUBSET fields
         /\ \A i : Group(page, i) \in SUBSET DOMAIN page
  BY DEF Places, OfKind, Group

\* The user name that stands alone.
LEMMA StandaloneIsNamed ==
  ASSUME NEW page \in Seq(Field), NEW i \in DOMAIN page, page[i].autocomplete = "username"
  PROVE  LET at == findStandaloneUsernameField(page) IN at \in DOMAIN page /\ page[at].autocomplete = "username"
  <1> DEFINE pool == OfKind(page, DOMAIN page, Usernames)
             score == [j \in pool |-> Score(page[j])]
             at == Best(pool, score)
  <1>1. findStandaloneUsernameField(page) = at
    BY DEF findStandaloneUsernameField
  <1>2. pool \in SUBSET DOMAIN page /\ DOMAIN page \in SUBSET Places /\ \A j \in pool : page[j] \in Field /\ Kind(page[j]) \in Usernames
    BY PlacesAre DEF OfKind
  <1>3. i \in pool
    BY PlacesAre, ScoresAre DEF OfKind, Usernames
  <1>4. \A j \in pool : score[j] \in {60, 65, 90, 100} /\ (score[j] = 100 <=> page[j].autocomplete = "username")
    BY <1>2, ScoresAre
  <1> HIDE DEF pool, score
  <1>5. score[i] = 100 /\ \A j \in pool : score[j] <= score[i]
    BY <1>3, <1>4
  <1>6. pool \in SUBSET Places
    BY <1>2
  <1>7. at \in pool /\ \A j \in pool : score[j] <= score[at]
    BY <1>3, <1>5, <1>6, BestIs
  <1> HIDE DEF at
  <1>8. score[at] = 100
    BY <1>3, <1>4, <1>5, <1>7
  <1> QED
    BY <1>1, <1>2, <1>4, <1>7, <1>8

\* The user name of a form is beside its password.
LEMMA UsernameIsNear ==
  ASSUME NEW page \in Seq(Field), NEW fields \in SUBSET DOMAIN page, NEW anchor \in Places
  PROVE  LET at == findUsernameFor(page, fields, anchor)
             names == {i \in fields : page[i].autocomplete = "username"} IN
         /\ at = Nothing \/ (at \in fields /\ at # anchor /\ Kind(page[at]) \in Usernames)
         /\ \A i \in names : i < anchor => at \in names /\ at < anchor
         /\ at > anchor => at \in names \/ \A j \in OfKind(page, fields, Usernames) : ~(j < anchor)
         /\ at = Nothing => OfKind(page, fields, Usernames) \subseteq {anchor}
  <1> DEFINE pool == OfKind(page, fields, Usernames) \ {anchor}
             score == [j \in pool |-> Score(page[j]) + (IF j < anchor THEN 10 ELSE 0 - 20)]
             at == Best(pool, score)
             named(j) == page[j].autocomplete = "username"
  <1>1. findUsernameFor(page, fields, anchor) = at
    BY DEF findUsernameFor
  <1>2. \A j : j \in pool <=> j \in fields /\ Kind(page[j]) \in Usernames /\ j # anchor
    BY DEF OfKind
  <1>3. pool \in SUBSET Places /\ \A j \in fields : j \in Places /\ page[j] \in Field
    BY PlacesAre
  <1>4. \A j \in pool : Score(page[j]) \in {60, 65, 90, 100} /\ (Score(page[j]) = 100 <=> named(j))
    BY <1>2, <1>3, ScoresAre
  <1>5. \A j \in pool : /\ j < anchor => score[j] = Score(page[j]) + 10
                        /\ ~(j < anchor) => score[j] = Score(page[j]) - 20
    <2> SUFFICES ASSUME NEW j \in pool
                 PROVE  /\ j < anchor => score[j] = Score(page[j]) + 10
                        /\ ~(j < anchor) => score[j] = Score(page[j]) - 20
      OBVIOUS
    <2> DEFINE v == Score(page[j])
    <2>1. v \in Int /\ score[j] = v + (IF j < anchor THEN 10 ELSE 0 - 20)
      BY <1>4
    <2> HIDE DEF v, score
    <2> QED
      BY <2>1 DEF v
  <1>6. \A j \in fields : named(j) /\ j # anchor => j \in pool
    BY <1>2, <1>3, ScoresAre DEF Usernames
  <1> HIDE DEF pool, score
  <1>7. /\ at = Nothing \/ (at \in pool /\ \A j \in pool : score[j] <= score[at])
        /\ \A i \in pool : (\A j \in pool : score[j] <= score[i]) => at # Nothing /\ at <= i
    BY <1>3, BestIs
  <1> HIDE DEF at, named
  <1>8. at = Nothing \/ (at \in fields /\ at # anchor /\ Kind(page[at]) \in Usernames)
    BY <1>2, <1>7
  <1>9. ASSUME NEW i \in fields, named(i), i < anchor PROVE at \in fields /\ named(at) /\ at < anchor
    <2>1. i \in pool /\ Score(page[i]) = 100
      BY <1>3, <1>4, <1>6, <1>9 DEF Places
    <2>2. score[i] = 110 /\ \A j \in pool : score[j] <= 110 /\ (score[j] = 110 => j < anchor /\ Score(page[j]) = 100)
      BY <1>4, <1>5, <1>9, <2>1
    <2>3. at # Nothing
      BY <1>7, <2>1, <2>2
    <2>4. at \in pool /\ score[at] >= 110
      BY <1>7, <2>1, <2>2, <2>3
    <2>5. score[at] = 110
      <3>1. \A j \in pool : score[j] \in Int
        BY <1>4, <1>5
      <3> QED
        BY <2>2, <2>4, <3>1
    <2> QED
      BY <1>2, <1>4, <2>2, <2>4, <2>5
  <1>10. ASSUME at > anchor, ~named(at), NEW j \in OfKind(page, fields, Usernames), j < anchor PROVE FALSE
    <2>1. at # Nothing /\ at \in Places /\ ~(at < anchor)
      <3>1. at # Nothing
        <4>1. ~(Nothing > anchor)
          BY DEF Places, Nothing
        <4> QED
          BY <1>10, <4>1
      <3>2. at \in Places
        BY <1>3, <1>7, <3>1
      <3> QED
        BY <1>10, <3>1, <3>2 DEF Places
    <2>2. at \in pool /\ Score(page[at]) \in {60, 65, 90}
      BY <1>4, <1>7, <1>10, <2>1
    <2>3. score[at] <= 70
      BY <1>5, <2>1, <2>2
    <2>4. j \in fields /\ j \in Places /\ j \in pool
      BY <1>2, <1>3, <1>10 DEF OfKind, Places
    <2>5. score[j] >= 70 /\ score[j] \in Int
      BY <1>4, <1>5, <1>10, <2>4
    <2>6. \A m \in pool : score[m] <= score[j]
      <3>1. \A m \in pool : score[m] \in Int /\ score[m] <= score[at]
        BY <1>4, <1>5, <1>7, <2>1
      <3> QED
        BY <2>2, <2>3, <2>5, <3>1
    <2>7. at <= j
      BY <1>7, <2>4, <2>6
    <2> QED
      BY <1>10, <2>1, <2>4, <2>7 DEF Places
  <1>11. at > anchor /\ at \notin {i \in fields : named(i)} => \A j \in OfKind(page, fields, Usernames) : ~(j < anchor)
    <2>1. at > anchor => at \in fields
      <3>1. ~(Nothing > anchor)
        BY DEF Places, Nothing
      <3> QED
        BY <1>8, <3>1
    <2> QED
      BY <1>10, <2>1
  <1>12. at = Nothing => OfKind(page, fields, Usernames) \subseteq {anchor}
    <2> SUFFICES ASSUME NEW j \in pool PROVE at # Nothing
      BY <1>2 DEF OfKind
    <2> DEFINE gap(i) == 110 - score[i]
               gaps == {gap(i) : i \in pool}
    <2>1. \A i \in pool : score[i] \in Int /\ score[i] <= 110
      BY <1>4, <1>5
    <2>2. \A i \in pool : gap(i) \in Nat /\ gap(i) \in gaps
      BY <2>1
    <2>3. gaps \in SUBSET Nat /\ gaps # {}
      BY <2>2
    <2>4. PICK i \in pool : \A m \in pool : gap(i) <= gap(m)
      <3>1. Min(gaps) \in gaps /\ \A y \in gaps : Min(gaps) <= y
        BY <2>3, MinIs
      <3> HIDE DEF gap
      <3> QED
        BY <2>2, <3>1
    <2>5. \A m \in pool : score[m] <= score[i]
      BY <2>1, <2>4
    <2> QED
      BY <1>7, <2>5
  <1> QED
    BY <1>1, <1>8, <1>9, <1>11, <1>12, Zenon DEF named

\* What is in a form that was detected.
LEMMA DetectedHas ==
  ASSUME NEW page \in Seq(Field), NEW fields \in SUBSET DOMAIN page
  PROVE  LET form == Detected(page, fields)
             anchor == Anchor(page, fields) IN
         /\ form.fields = fields /\ form.kind = classifyFormKind(page, fields)
         /\ (anchor = Nothing \/ anchor \in fields)
         /\ form.username = IF anchor = Nothing THEN Nothing ELSE findUsernameFor(page, fields, anchor)
         /\ form.currentPassword = Nothing \/ (form.currentPassword \in fields /\ Kind(page[form.currentPassword]) = "current-password")
         /\ form.newPassword = Nothing \/ form.newPassword \in fields
         /\ \A i \in fields : Kind(page[i]) = "current-password" => form.currentPassword # Nothing
         /\ form.currentPassword # Nothing => anchor = form.currentPassword
  <1> DEFINE form == Detected(page, fields)
             anchor == Anchor(page, fields)
             named(kind) == OfKind(page, fields, {kind})
  <1>1. fields \in SUBSET Places /\ Passwords(page, fields) \in SUBSET fields
        /\ \A kind : named(kind) \in SUBSET fields /\ \A i : i \in named(kind) <=> i \in fields /\ Kind(page[i]) = kind
    BY PlacesAre DEF OfKind, Passwords
  <1>2. \A P \in SUBSET fields : /\ P = {} => FirstOf(P) = Nothing
                                 /\ P # {} => FirstOf(P) \in P /\ FirstOf(P) # Nothing
    <2> SUFFICES ASSUME NEW P \in SUBSET fields
                 PROVE  (P = {} => FirstOf(P) = Nothing) /\ (P # {} => FirstOf(P) \in P /\ FirstOf(P) # Nothing)
      OBVIOUS
    <2>1. P \in SUBSET Places /\ Nothing \notin P
      BY <1>1 DEF Places, Nothing
    <2> QED
      BY <2>1, FirstIs
  <1>3. /\ form.fields = fields /\ form.kind = classifyFormKind(page, fields)
        /\ form.username = IF anchor = Nothing THEN Nothing ELSE findUsernameFor(page, fields, anchor)
        /\ form.currentPassword = FirstOf(named("current-password")) /\ form.newPassword = FirstOf(named("new-password"))
    BY DEF Detected
  <1>4. anchor = FirstOf(IF named("current-password") # {} THEN named("current-password")
                         ELSE IF named("new-password") # {} THEN named("new-password") ELSE Passwords(page, fields))
    BY DEF Anchor
  <1> HIDE DEF form, anchor, named
  <1>5. anchor = Nothing \/ anchor \in fields
    BY <1>1, <1>2, <1>4
  <1>6. form.currentPassword = Nothing \/ (form.currentPassword \in fields /\ Kind(page[form.currentPassword]) = "current-password")
    BY <1>1, <1>2, <1>3
  <1>7. form.newPassword = Nothing \/ form.newPassword \in fields
    BY <1>1, <1>2, <1>3
  <1>8. \A i \in fields : Kind(page[i]) = "current-password" => form.currentPassword # Nothing
    BY <1>1, <1>2, <1>3
  <1>9. form.currentPassword # Nothing => anchor = form.currentPassword
    BY <1>1, <1>2, <1>3, <1>4
  <1> QED
    BY <1>3, <1>5, <1>6, <1>7, <1>8, <1>9 DEF form, anchor

\* The forms of a page, and no two of them share a field.
LEMMA FormsAre ==
  ASSUME NEW page \in Seq(Field), NEW k \in DOMAIN detectForms(page)
  PROVE  /\ k \in DOMAIN page /\ Group(page, k) \in SUBSET DOMAIN page
         /\ detectForms(page)[k] = Detected(page, Group(page, k))
         /\ \A i \in DOMAIN detectForms(page) : i # k => Group(page, i) \cap Group(page, k) = {}
  <1>1. /\ \A i \in DOMAIN detectForms(page) : i \in DOMAIN page /\ \A j \in Group(page, i) : i <= j
        /\ detectForms(page)[k] = Detected(page, Group(page, k))
    BY DEF detectForms
  <1>2. \A i : Group(page, i) \in SUBSET DOMAIN page
    BY DEF Group
  <1>3. ASSUME NEW i \in DOMAIN detectForms(page), NEW j \in Group(page, i), j \in Group(page, k) PROVE i = k
    <2>1. page[i].form = page[k].form
      BY <1>3 DEF Group
    <2>2. i \in Group(page, k) /\ k \in Group(page, i)
      BY <1>1, <2>1 DEF Group
    <2>3. i \in Nat /\ k \in Nat /\ i <= k /\ k <= i
      BY <1>1, <2>2, PlacesAre DEF Places
    <2> QED
      BY <2>3
  <1> QED
    BY <1>1, <1>2, <1>3

\* A user name is found beside its password.
LEMMA UsernamesAreFound ==
  ASSUME NEW page \in Seq(Field)
  PROVE  FindsUsername(page)
  <1> DEFINE names(fields) == {i \in fields : page[i].autocomplete = "username"}
  <1>1. names(DOMAIN page) # {} => findStandaloneUsernameField(page) \in names(DOMAIN page)
    BY StandaloneIsNamed
  <1>2. ASSUME NEW k \in DOMAIN detectForms(page)
        PROVE  LET form == detectForms(page)[k]
                   anchor == Anchor(page, form.fields)
                   above == {i \in form.fields : i < anchor} IN
               anchor # Nothing =>
                 /\ names(above) # {} => form.username \in names(above)
                 /\ form.username > anchor =>
                      form.username \in names(form.fields) \/ OfKind(page, above, Usernames) = {}
                 /\ form.username = Nothing => OfKind(page, form.fields, Usernames) \subseteq {anchor}
    <2> DEFINE fields == Group(page, k)
               anchor == Anchor(page, fields)
               above == {i \in fields : i < anchor}
               at == findUsernameFor(page, fields, anchor)
               Near(f, u) == LET a == Anchor(page, f) IN
                 a # Nothing =>
                   /\ names({i \in f : i < a}) # {} => u \in names({i \in f : i < a})
                   /\ u > a => u \in names(f) \/ OfKind(page, {i \in f : i < a}, Usernames) = {}
                   /\ u = Nothing => OfKind(page, f, Usernames) \subseteq {a}
    <2>1. fields \in SUBSET DOMAIN page /\ detectForms(page)[k] = Detected(page, fields)
      BY FormsAre
    <2> HIDE DEF fields
    <2>2. /\ Detected(page, fields).fields = fields /\ (anchor = Nothing \/ anchor \in fields)
          /\ Detected(page, fields).username = IF anchor = Nothing THEN Nothing ELSE at
      BY <2>1, DetectedHas
    <2>3. CASE anchor = Nothing
      <3>1. Near(fields, Nothing)
        BY <2>3
      <3> HIDE DEF Near, anchor
      <3>2. Near(detectForms(page)[k].fields, detectForms(page)[k].username)
        <4>1. detectForms(page)[k].fields = fields /\ detectForms(page)[k].username = Nothing
          BY <2>1, <2>2, <2>3
        <4> QED
          BY <3>1, <4>1, Zenon
      <3> QED
        BY <3>2 DEF Near
    <2>4. CASE anchor # Nothing
      <3>1. anchor \in Places
        BY <2>1, <2>2, <2>4, PlacesAre
      <3> HIDE DEF anchor
      <3>2. /\ \A i \in names(fields) : i < anchor => at \in names(fields) /\ at < anchor
            /\ at > anchor => at \in names(fields) \/ \A j \in OfKind(page, fields, Usernames) : ~(j < anchor)
            /\ at = Nothing => OfKind(page, fields, Usernames) \subseteq {anchor}
        BY <2>1, <3>1, UsernameIsNear
      <3> HIDE DEF at
      <3>3. names(above) # {} => at \in names(above)
        BY <3>2
      <3>4. (\A j \in OfKind(page, fields, Usernames) : ~(j < anchor)) => OfKind(page, above, Usernames) = {}
        BY DEF OfKind
      <3>5. Near(fields, at)
        BY <3>2, <3>3, <3>4 DEF anchor
      <3> HIDE DEF Near
      <3>6. Near(detectForms(page)[k].fields, detectForms(page)[k].username)
        <4>1. detectForms(page)[k].fields = fields /\ detectForms(page)[k].username = at
          BY <2>1, <2>2, <2>4
        <4> QED
          BY <3>5, <4>1, Zenon
      <3> QED
        BY <3>6 DEF Near
    <2> QED
      BY <2>3, <2>4
  <1> QED
    BY <1>1, <1>2 DEF FindsUsername

\* A login has a field for its password.
LEMMA LoginsHavePasswords ==
  ASSUME NEW page \in Seq(Field)
  PROVE  LoginsCanBeFilled(page)
  <1> SUFFICES ASSUME NEW k \in DOMAIN detectForms(page), detectForms(page)[k].kind = "login",
                      detectForms(page)[k].currentPassword = Nothing,
                      NEW i \in Passwords(page, detectForms(page)[k].fields)
               PROVE  page[i].autocomplete \in Usernames \cup {"one-time-code"}
    BY DEF LoginsCanBeFilled
  <1> DEFINE fields == Group(page, k)
             form == Detected(page, fields)
             some(kind) == OfKind(page, Passwords(page, fields), {kind}) # {}
  <1>1. fields \in SUBSET DOMAIN page /\ detectForms(page)[k] = form
    BY FormsAre
  <1> HIDE DEF fields
  <1>2. /\ form.fields = fields /\ form.kind = classifyFormKind(page, fields)
        /\ \A j \in fields : Kind(page[j]) = "current-password" => form.currentPassword # Nothing
    BY <1>1, DetectedHas
  <1>3. i \in fields /\ page[i].type = "password" /\ page[i] \in Field
    BY <1>1, <1>2, PlacesAre DEF Passwords
  <1>4. ~some("current-password") /\ \A j \in fields : Kind(page[j]) # "current-password"
    BY <1>1, <1>2 DEF OfKind, Passwords
  <1>5. classifyFormKind(page, fields) = "login"
    BY <1>1, <1>2
  <1>6. ~some("new-password") /\ ~some("confirm-password")
    BY <1>4, <1>5 DEF classifyFormKind
  <1>7. Kind(page[i]) \notin {"current-password", "new-password", "confirm-password"}
    BY <1>3, <1>4, <1>6 DEF OfKind, Passwords
  <1> QED
    BY <1>3, <1>7, PasswordsAre

Written(text) == text # ""
Over(new, old) == IF Written(new) THEN new ELSE old
ReadAt(form) == IF form.currentPassword # Nothing THEN form.currentPassword ELSE form.newPassword

\* Nothing is read of a form exactly when its password is not written.
LEMMA NothingIsRead ==
  ASSUME NEW form, NEW texts
  PROVE  readCredential(form, texts) = NoCredential <=> (ReadAt(form) = Nothing \/ ~Written(texts[ReadAt(form)]))
  <1> DEFINE at == ReadAt(form)
             held == [username |-> IF form.username = Nothing THEN "" ELSE texts[form.username], password |-> texts[at]]
  <1>1. readCredential(form, texts) = IF at = Nothing \/ ~Written(texts[at]) THEN NoCredential ELSE held
    BY Zenon DEF readCredential, Written, ReadAt
  <1>2. held.password = texts[at]
    OBVIOUS
  <1>3. NoCredential.password = "" /\ (Written(texts[at]) <=> texts[at] # "")
    BY Zenon DEF Written, NoCredential
  <1> HIDE DEF held, at
  <1>4. Written(texts[at]) => held # NoCredential
    BY <1>2, <1>3, Zenon
  <1> QED
    BY <1>1, <1>4, Zenon DEF at

\* Filling form k writes no other, and what was filled is captured.
FillIs(page, k, username, password, before) ==
  LET forms == detectForms(page)
      form == forms[k]
      after == fillLogin(form, before, [username |-> username, password |-> password])
      first == \A j \in DOMAIN forms : j < k => readCredential(forms[j], before) = NoCredential IN
  /\ \A i \in DOMAIN page : after[i] # before[i] =>
       i \in form.fields /\ Kind(page[i]) \notin {"new-password", "confirm-password", "totp", "unknown"}
  /\ form.currentPassword # Nothing /\ first =>
       LET captured == rememberSubmission(forms, after) IN
       /\ captured.password = password
       /\ form.username = Nothing => captured.username = ""
       /\ form.username # Nothing => captured.username = Over(username, before[form.username])

\* It does, whatever the form, the login and the texts.
LEMMA FillIsQuiet ==
  ASSUME NEW page \in Seq(Field), NEW k \in DOMAIN detectForms(page),
         NEW username, NEW password, Written(password),
         NEW before, DOMAIN before = DOMAIN page
  PROVE  FillIs(page, k, username, password, before)
  <1> DEFINE forms == detectForms(page)
             login == [username |-> username, password |-> password]
  <1> DEFINE fields == Group(page, k)
             form == forms[k]
             values == fillLogin(form, before, login)
             anchor == Anchor(page, fields)
  <1>1. fields \in SUBSET DOMAIN page /\ form = Detected(page, fields)
    BY FormsAre
  <1>2. \A i \in DOMAIN forms : LET other == forms[i] IN
          /\ other.currentPassword = Nothing \/ other.currentPassword \in Group(page, i)
          /\ other.newPassword = Nothing \/ other.newPassword \in Group(page, i)
    <2> SUFFICES ASSUME NEW i \in DOMAIN forms
                 PROVE  /\ forms[i].currentPassword = Nothing \/ forms[i].currentPassword \in Group(page, i)
                        /\ forms[i].newPassword = Nothing \/ forms[i].newPassword \in Group(page, i)
      OBVIOUS
    <2> DEFINE g == Group(page, i)
               d == Detected(page, g)
    <2>1. g \in SUBSET DOMAIN page /\ forms[i] = d
      BY FormsAre
    <2> HIDE DEF g
    <2>2. (d.currentPassword = Nothing \/ d.currentPassword \in g) /\ (d.newPassword = Nothing \/ d.newPassword \in g)
      BY <2>1, DetectedHas
    <2> HIDE DEF d
    <2> QED
      BY <2>1, <2>2 DEF g
  <1>3. \A i \in DOMAIN forms : i # k => Group(page, i) \cap fields = {}
    BY FormsAre
  <1>0. k \in DOMAIN page /\ k \in Nat /\ \A i : Group(page, i) \in SUBSET DOMAIN page
    <2>1. k \in DOMAIN page
      BY FormsAre
    <2>2. k \in Nat
      BY <2>1, PlacesAre DEF Places
    <2>3. \A i : Group(page, i) \in SUBSET DOMAIN page
      BY DEF Group
    <2> QED
      BY <2>1, <2>2, <2>3
  <1>4. \A i \in DOMAIN page : i # Nothing
    BY PlacesAre DEF Places, Nothing
  <1>c. /\ DOMAIN before = DOMAIN page /\ k \in DOMAIN forms
        /\ \A i \in DOMAIN forms : i \in DOMAIN page
    BY FormsAre
  <1>n. \A i \in DOMAIN forms : i \in Nat
    BY <1>c, PlacesAre DEF Places
  <1> HIDE DEF fields, forms
  <1>5. /\ form.fields = fields /\ (anchor = Nothing \/ anchor \in fields)
        /\ form.username = IF anchor = Nothing THEN Nothing ELSE findUsernameFor(page, fields, anchor)
        /\ form.currentPassword = Nothing \/ (form.currentPassword \in fields /\ Kind(page[form.currentPassword]) = "current-password")
        /\ form.currentPassword # Nothing => anchor = form.currentPassword
    <2> DEFINE d == Detected(page, fields)
    <2>1. /\ d.fields = fields /\ (anchor = Nothing \/ anchor \in fields)
          /\ d.username = IF anchor = Nothing THEN Nothing ELSE findUsernameFor(page, fields, anchor)
          /\ d.currentPassword = Nothing \/ (d.currentPassword \in fields /\ Kind(page[d.currentPassword]) = "current-password")
          /\ d.currentPassword # Nothing => anchor = d.currentPassword
      BY ZenonT(60), <1>1, DetectedHas
    <2> HIDE DEF d, anchor
    <2>2. form = d
      BY <1>1 DEF d
    <2> HIDE DEF form
    <2> QED
      BY <2>1, <2>2
  <1> HIDE DEF form, anchor
  <1>6. form.username = Nothing \/ (form.username \in fields /\ form.username # anchor /\ Kind(page[form.username]) \in Usernames)
    <2>1. CASE anchor = Nothing
      BY <1>5, <2>1
    <2>2. CASE anchor # Nothing
      <3>0. anchor \in fields /\ fields \in SUBSET Places
        BY <1>1, <1>5, <2>2, PlacesAre
      <3>1. anchor \in Places
        BY <3>0
      <3> DEFINE at == findUsernameFor(page, fields, anchor)
      <3>2. at = Nothing \/ (at \in fields /\ at # anchor /\ Kind(page[at]) \in Usernames)
        BY <1>1, <3>1, UsernameIsNear
      <3> HIDE DEF at
      <3>3. form.username = at
        BY <1>5, <2>2 DEF at
      <3> QED
        BY <3>2, <3>3
    <2> QED
      BY <2>1, <2>2
  <1>7. \A i \in DOMAIN page :
          /\ i = form.currentPassword => values[i] = password
          /\ i # form.currentPassword /\ i = form.username => values[i] = Over(username, before[i])
          /\ i # form.currentPassword /\ i # form.username => values[i] = before[i]
    <2> SUFFICES ASSUME NEW i \in DOMAIN before
                 PROVE  /\ i = form.currentPassword => values[i] = password
                        /\ i # form.currentPassword /\ i = form.username => values[i] = Over(username, before[i])
                        /\ i # form.currentPassword /\ i # form.username => values[i] = before[i]
      BY <1>c
    <2>1. login.username = username /\ login.password = password
      OBVIOUS
    <2> DEFINE new == IF i = form.currentPassword /\ Written(login.password) THEN login.password
                      ELSE IF i = form.username /\ Written(login.username) THEN login.username ELSE before[i]
    <2>2. values[i] = new
      BY Zenon DEF fillLogin, Written
    <2> HIDE DEF form, values, login
    <2> QED
      BY <2>1, <2>2 DEF Over
  <1> HIDE DEF values
  <1>8. ASSUME NEW i \in DOMAIN page, values[i] # before[i]
        PROVE  i \in form.fields /\ Kind(page[i]) \notin {"new-password", "confirm-password", "totp", "unknown"}
    <2>1. i = form.currentPassword \/ i = form.username
      BY <1>7, <1>8
    <2>2. i # Nothing
      BY <1>4
    <2>3. CASE i = form.currentPassword
      BY <1>5, <2>2, <2>3
    <2>4. CASE i = form.username
      <3>1. i \in fields /\ Kind(page[i]) \in Usernames
        BY <1>6, <2>2, <2>4
      <3> QED
        BY <1>5, <3>1 DEF Usernames
    <2> QED
      BY <2>1, <2>3, <2>4
  <1>9. ASSUME form.currentPassword # Nothing,
               \A j \in DOMAIN forms : j < k => readCredential(forms[j], before) = NoCredential
        PROVE  LET captured == rememberSubmission(forms, values) IN
               /\ captured.password = password
               /\ form.username = Nothing => captured.username = ""
               /\ form.username # Nothing => captured.username = Over(username, before[form.username])
    <2> DEFINE read == {i \in DOMAIN forms : readCredential(forms[i], values) # NoCredential}
               filled == [username |-> IF form.username = Nothing THEN "" ELSE values[form.username], password |-> password]
    <2>1. form.currentPassword \in DOMAIN page /\ values[form.currentPassword] = password
      BY <1>1, <1>5, <1>7, <1>9
    <2>2. form.username # Nothing => values[form.username] = Over(username, before[form.username])
      <3> SUFFICES ASSUME form.username # Nothing
                   PROVE  values[form.username] = Over(username, before[form.username])
        OBVIOUS
      <3>1. form.username \in DOMAIN page /\ form.username # form.currentPassword
        BY <1>1, <1>5, <1>6, <1>9
      <3> QED
        BY <1>7, <3>1
    <2>3. readCredential(form, values) = filled
      BY <1>9, <2>1, Zenon DEF readCredential, Written
    <2>4. readCredential(form, values) # NoCredential
      BY <1>9, <2>1, NothingIsRead, Zenon DEF ReadAt
    <2>5. ASSUME NEW i \in DOMAIN forms, i < k PROVE readCredential(forms[i], values) = NoCredential
      <3> DEFINE at == ReadAt(forms[i])
      <3>1. at = Nothing \/ at \in Group(page, i)
        BY <1>2 DEF ReadAt
      <3>2. readCredential(forms[i], before) = NoCredential
        BY <1>9, <2>5
      <3>3. at = Nothing \/ ~Written(before[at])
        BY <3>2, NothingIsRead, Zenon
      <3> HIDE DEF at
      <3>4. at = Nothing \/ ~Written(values[at])
        <4> SUFFICES ASSUME at # Nothing PROVE ~Written(values[at])
          OBVIOUS
        <4>1. i # k
          BY <1>0, <2>5
        <4>2. at \in DOMAIN page /\ at # form.currentPassword /\ at # form.username
          BY <1>0, <1>3, <1>5, <1>6, <1>9, <3>1, <4>1
        <4>3. values[at] = before[at]
          BY <1>7, <4>2
        <4> QED
          BY <3>3, <4>3
      <3> QED
        BY <3>4, NothingIsRead, Zenon DEF at
    <2>6. k \in read /\ \A i \in read : i \in DOMAIN forms /\ ~(i < k)
      BY <1>c, <2>4, <2>5 DEF form
    <2> HIDE DEF read, filled
    <2>7. Min(read) = k /\ read # {}
      <3>1. read \in SUBSET Nat /\ read # {}
        BY <1>n, <2>6
      <3>2. Min(read) \in read /\ Min(read) <= k
        BY <2>6, <3>1, MinIs
      <3> QED
        BY <1>0, <2>6, <3>1, <3>2
    <2>8. rememberSubmission(forms, values) = filled
      <3>1. readCredential(forms[Min(read)], values) = filled
        BY <2>3, <2>7 DEF form
      <3> QED
        BY <2>7, <3>1, Zenon DEF rememberSubmission, read
    <2>9. /\ filled.password = password
          /\ form.username = Nothing => filled.username = ""
          /\ form.username # Nothing => filled.username = values[form.username]
      BY Zenon DEF filled
    <2> QED
      BY <2>2, <2>8, <2>9, Zenon
  <1> QED
    BY <1>8, <1>9, Zenon DEF FillIs, forms, form, values

\* A record of two fields.
LEMMA LoginIs ==
  ASSUME NEW names, NEW passwords, NEW login \in [username: names, password: passwords]
  PROVE  login.password \in passwords /\ login = [username |-> login.username, password |-> login.password]
  OBVIOUS

\* So it is for every form, login and text.
LEMMA FillsStayQuiet ==
  ASSUME NEW page \in Seq(Field)
  PROVE  FillsAreQuiet(page, FilledLogins, Prefilled)
  <1> DEFINE forms == detectForms(page)
             first(k, before) == \A j \in DOMAIN forms : j < k => readCredential(forms[j], before) = NoCredential
             Local(k, before, after) ==
               \A i \in DOMAIN page : after[i] # before[i] =>
                 i \in forms[k].fields /\ Kind(page[i]) \notin {"new-password", "confirm-password", "totp", "unknown"}
             Quiet(k, before, login) ==
               LET after == fillLogin(forms[k], before, login) IN
               /\ Local(k, before, after)
               /\ forms[k].currentPassword # Nothing /\ first(k, before) =>
                    LET captured == rememberSubmission(forms, after) IN
                    /\ captured.password = login.password
                    /\ forms[k].username = Nothing => captured.username = ""
                    /\ forms[k].username # Nothing =>
                         captured.username = IF login.username # "" THEN login.username ELSE before[forms[k].username]
  <1>1. SUFFICES ASSUME NEW k \in DOMAIN forms, NEW login \in FilledLogins, NEW before \in [DOMAIN page -> Prefilled]
                 PROVE  Quiet(k, before, login)
    BY Zenon DEF FillsAreQuiet
  <1>2. DOMAIN before = DOMAIN page
    OBVIOUS
  <1>3. login \in [username: STRING, password: STRING \ {""}]
    BY InputsAssumption, Zenon
  <1>4. /\ login.password \in STRING \ {""}
        /\ login = [username |-> login.username, password |-> login.password]
    BY <1>3, LoginIs, Zenon
  <1>5. Written(login.password)
    BY <1>4, Zenon DEF Written
  <1>6. FillIs(page, k, login.username, login.password, before)
    BY <1>2, <1>5, FillIsQuiet
  <1> QED
    BY <1>4, <1>6, Zenon DEF FillIs, Over, Written

-----------------------------------------------------------------------------
\* Batches.

Chunk == Seq(Nat)
Limit == [records: Nat \ {0}, bytes: Nat]
Parts == [done: Seq(Chunk), current: Chunk, bytes: Nat]

\* Total is what its recursion says.
LEMMA TotalSolved ==
  ASSUME NEW sizes, NEW chunk \in Chunk, \A i \in 1..Len(chunk) : sizes[chunk[i]] \in Nat
  PROVE  \E sum \in [0..Len(chunk) -> Nat] :
           /\ sum[0] = 0 /\ \A i \in 1..Len(chunk) : sum[i] = sum[i - 1] + sizes[chunk[i]]
           /\ Total(chunk, sizes) = sum[Len(chunk)]
  <1> DEFINE N == Len(chunk)
             step == [i \in 1..N |-> [v \in Nat |-> v + sizes[chunk[i]]]]
             Solves(g) == g = [k \in 0..N |-> IF k = 0 THEN 0 ELSE g[k - 1] + sizes[chunk[k]]]
             all == CHOOSE h : Solves(h)
  <1>1. N \in Nat /\ \A i \in 1..N : sizes[chunk[i]] \in Nat
    BY DEF Chunk
  <1>2. Total(chunk, sizes) = all[N]
    BY Zenon DEF Total
  <1> HIDE DEF N
  <1>3. step \in [1..N -> [Nat -> Nat]]
    BY <1>1
  <1>4. PICK g \in [0..N -> Nat] : Steps(g, N, 0, step)
    <2> HIDE DEF step
    <2> QED
      BY <1>1, <1>3, StepsExist
  <1>5. \A i \in 1..N : g[i] = g[i - 1] + sizes[chunk[i]]
    <2> SUFFICES ASSUME NEW i \in 1..N PROVE g[i] = g[i - 1] + sizes[chunk[i]]
      OBVIOUS
    <2>1. g[i - 1] \in Nat
      BY <1>1
    <2> QED
      BY <1>4, <2>1 DEF Steps
  <1> HIDE DEF step
  <1>6. Solves(g)
    <2>1. \A n \in 0..N : n = 0 \/ n \in 1..N
      BY <1>1
    <2>2. \A n \in 0..N : g[n] = IF n = 0 THEN 0 ELSE g[n - 1] + sizes[chunk[n]]
      BY <1>4, <1>5, <2>1, Zenon DEF Steps
    <2> QED
      BY <2>2, Zenon
  <1>7. Solves(all)
    <2> HIDE DEF Solves
    <2> QED
      BY <1>6
  <1> HIDE DEF all
  <1>8. all[0] = 0 /\ \A i \in 1..N : all[i] = all[i - 1] + sizes[chunk[i]]
    <2>1. 0 \in 0..N /\ \A i \in 1..N : i \in 0..N /\ i # 0
      BY <1>1
    <2>2. \A i \in 0..N : all[i] = IF i = 0 THEN 0 ELSE all[i - 1] + sizes[chunk[i]]
      BY <1>7, Zenon
    <2> QED
      BY <2>1, <2>2, Zenon
  <1>9. 0..N \subseteq {n \in 0..N : all[n] \in Nat}
    <2> DEFINE P == {n \in 0..N : all[n] \in Nat}
    <2>1. 0 \in P
      BY <1>8, <1>1
    <2>2. ASSUME NEW i \in 1..N, i - 1 \in P PROVE i \in P
      <3>1. all[i] = all[i - 1] + sizes[chunk[i]] /\ all[i - 1] \in Nat /\ sizes[chunk[i]] \in Nat
        BY <1>1, <1>8, <2>2
      <3> QED
        BY <1>1, <3>1
    <2> HIDE DEF P
    <2> QED
      BY <2>1, <2>2, <1>1, StepsKeep DEF P
  <1>10. all \in [0..N -> Nat]
    <2>1. all = [i \in 0..N |-> all[i]]
      BY <1>7
    <2> QED
      BY <2>1, <1>9
  <1> QED
    BY <1>2, <1>8, <1>10, Zenon DEF N

\* One record more is its bytes more.
LEMMA TotalAppend ==
  ASSUME NEW sizes, NEW chunk \in Chunk, NEW r \in Nat, sizes[r] \in Nat, \A i \in 1..Len(chunk) : sizes[chunk[i]] \in Nat
  PROVE  Total(Append(chunk, r), sizes) = Total(chunk, sizes) + sizes[r] /\ Total(chunk, sizes) \in Nat
  <1> DEFINE N == Len(chunk)
             more == Append(chunk, r)
  <1>1. /\ N \in Nat /\ more \in Chunk /\ Len(more) = N + 1 /\ more[N + 1] = r
        /\ \A i \in 1..N : more[i] = chunk[i]
    BY DEF Chunk
  <1> HIDE DEF more
  <1>2. PICK a \in [0..N -> Nat] :
          a[0] = 0 /\ (\A i \in 1..N : a[i] = a[i - 1] + sizes[chunk[i]]) /\ Total(chunk, sizes) = a[N]
    BY TotalSolved
  <1>3. \A i \in 1..Len(more) : sizes[more[i]] \in Nat
    BY <1>1
  <1>a. PICK b \in [0..Len(more) -> Nat] :
          b[0] = 0 /\ (\A i \in 1..Len(more) : b[i] = b[i - 1] + sizes[more[i]]) /\ Total(more, sizes) = b[Len(more)]
    BY <1>1, <1>3, TotalSolved
  <1>4. /\ b \in [0..(N + 1) -> Nat] /\ b[0] = 0 /\ \A i \in 1..(N + 1) : b[i] = b[i - 1] + sizes[more[i]]
        /\ Total(more, sizes) = b[N + 1]
    BY <1>1, <1>a
  <1> DEFINE P == {i \in 0..N : b[i] = a[i]}
  <1>5. 0 \in P
    BY <1>1, <1>2, <1>4
  <1>6. ASSUME NEW i \in 1..N, i - 1 \in P PROVE i \in P
    <2>1. i \in 1..(N + 1) /\ i \in 0..N /\ more[i] = chunk[i]
      BY <1>1
    <2>2. b[i] = b[i - 1] + sizes[chunk[i]] /\ a[i] = a[i - 1] + sizes[chunk[i]] /\ b[i - 1] = a[i - 1]
      BY <1>2, <1>4, <1>6, <2>1
    <2> QED
      BY <2>1, <2>2
  <1> HIDE DEF P
  <1>7. 0..N \subseteq P
    BY <1>1, <1>5, <1>6, StepsKeep
  <1>8. b[N] = a[N] /\ a[N] \in Nat
    BY <1>1, <1>7 DEF P
  <1>9. b[N + 1] = b[N] + sizes[r]
    <2>1. N + 1 \in 1..(N + 1) /\ (N + 1) - 1 = N
      BY <1>1
    <2> QED
      BY <1>1, <1>4, <2>1
  <1> QED
    BY <1>2, <1>4, <1>8, <1>9 DEF more

\* No record has no bytes, and one record its own.
LEMMA TotalOne ==
  ASSUME NEW sizes, NEW r \in Nat, sizes[r] \in Nat
  PROVE  Total(<<>>, sizes) = 0 /\ Total(<<r>>, sizes) = sizes[r]
  <1>1. <<>> \in Chunk /\ Len(<<>>) = 0 /\ Append(<<>>, r) = <<r>>
    BY DEF Chunk
  <1>2. Total(<<>>, sizes) = 0
    BY <1>1, TotalSolved
  <1>3. Total(<<r>>, sizes) = Total(<<>>, sizes) + sizes[r]
    <2>1. \A i \in 1..Len(<<>>) : sizes[<<>>[i]] \in Nat
      BY <1>1
    <2> QED
      BY <1>1, <2>1, TotalAppend
  <1> QED
    BY <1>2, <1>3

\* What is cut stays in pieces.
LEMMA AddTypes ==
  ASSUME NEW parts \in Parts, NEW r \in Nat, NEW size \in Nat, NEW limits
  PROVE  Add(parts, r, size, limits) \in Parts
  <1>1. parts.done \in Seq(Chunk) /\ parts.current \in Seq(Nat) /\ parts.bytes \in Nat
    BY DEF Parts, Chunk
  <1>2. Append(parts.done, parts.current) \in Seq(Chunk)
    <2>1. parts.current \in Chunk
      BY <1>1 DEF Chunk
    <2> QED
      BY <1>1, <2>1
  <1>3. <<r>> \in Seq(Nat) /\ Append(parts.current, r) \in Seq(Nat) /\ parts.bytes + size \in Nat
    BY <1>1
  <1> QED
    BY <1>1, <1>2, <1>3 DEF Add, Parts, Chunk

\* Cut is what its recursion says.
LEMMA CutSolved ==
  ASSUME NEW sizes \in Seq(Nat), NEW limits
  PROVE  \E parts \in [0..Len(sizes) -> Parts] :
           /\ parts[0] = Uncut /\ \A r \in 1..Len(sizes) : parts[r] = Add(parts[r - 1], r, sizes[r], limits)
           /\ Cut(sizes, limits) = parts[Len(sizes)]
  <1> DEFINE N == Len(sizes)
             step == [i \in 1..N |-> [v \in Parts |-> Add(v, i, sizes[i], limits)]]
             Solves(g) == g = [r \in 0..N |-> IF r = 0 THEN Uncut ELSE Add(g[r - 1], r, sizes[r], limits)]
             all == CHOOSE h : Solves(h)
  <1>1. N \in Nat /\ Uncut \in Parts /\ \A i \in 1..N, v \in Parts : Add(v, i, sizes[i], limits) \in Parts
    <2>1. Uncut \in Parts
      BY DEF Uncut, Parts, Chunk
    <2>2. \A i \in 1..N : i \in Nat /\ sizes[i] \in Nat
      OBVIOUS
    <2> QED
      BY <2>1, <2>2, AddTypes
  <1>2. Cut(sizes, limits) = all[N]
    BY Zenon DEF Cut
  <1> HIDE DEF N
  <1>3. step \in [1..N -> [Parts -> Parts]]
    BY <1>1
  <1>4. PICK g \in [0..N -> Parts] : Steps(g, N, Uncut, step)
    <2> HIDE DEF step
    <2> QED
      BY <1>1, <1>3, StepsExist
  <1>5. \A i \in 1..N : g[i] = Add(g[i - 1], i, sizes[i], limits)
    <2> SUFFICES ASSUME NEW i \in 1..N PROVE g[i] = Add(g[i - 1], i, sizes[i], limits)
      OBVIOUS
    <2>1. g[i - 1] \in Parts
      BY <1>1
    <2> QED
      BY <1>4, <2>1 DEF Steps
  <1> HIDE DEF step
  <1>6. Solves(g)
    <2>1. \A n \in 0..N : n = 0 \/ n \in 1..N
      BY <1>1
    <2>2. \A r \in 0..N : g[r] = IF r = 0 THEN Uncut ELSE Add(g[r - 1], r, sizes[r], limits)
      BY <1>4, <1>5, <2>1, Zenon DEF Steps
    <2> QED
      BY <2>2, Zenon
  <1>7. Solves(all)
    <2> HIDE DEF Solves
    <2> QED
      BY <1>6
  <1> HIDE DEF all
  <1>8. all[0] = Uncut /\ \A i \in 1..N : all[i] = Add(all[i - 1], i, sizes[i], limits)
    <2>1. 0 \in 0..N /\ \A i \in 1..N : i \in 0..N /\ i # 0
      BY <1>1
    <2>2. \A r \in 0..N : all[r] = IF r = 0 THEN Uncut ELSE Add(all[r - 1], r, sizes[r], limits)
      BY <1>7, Zenon
    <2> QED
      BY <2>1, <2>2, Zenon
  <1>9. 0..N \subseteq {n \in 0..N : all[n] \in Parts}
    <2> DEFINE P == {n \in 0..N : all[n] \in Parts}
    <2>1. 0 \in P
      BY <1>8, <1>1
    <2>2. ASSUME NEW i \in 1..N, i - 1 \in P PROVE i \in P
      <3>1. all[i] = Add(all[i - 1], i, sizes[i], limits)
        BY <1>8, Zenon
      <3>2. all[i - 1] \in Parts
        BY <2>2, Zenon
      <3>3. i \in 0..N
        BY <1>1
      <3>4. all[i] \in Parts
        BY <1>1, <3>1, <3>2, Zenon
      <3> QED
        BY <3>3, <3>4
    <2> HIDE DEF P
    <2> QED
      BY <2>1, <2>2, <1>1, StepsKeep DEF P
  <1>10. all \in [0..N -> Parts]
    <2>1. all = [i \in 0..N |-> all[i]]
      BY <1>7
    <2> QED
      BY <2>1, <1>9
  <1> QED
    BY <1>2, <1>8, <1>10, Zenon DEF N

\* The k-th chunk is as it should be.
Right(chunks, k, sizes, limits) ==
  /\ chunks[k] = [j \in 1..Len(chunks[k]) |-> End(chunks, k - 1) + j]
  /\ Len(chunks[k]) \in 1..limits.records
  /\ Total(chunks[k], sizes) <= limits.bytes \/ Len(chunks[k]) = 1
  /\ k > 1 => \/ Len(chunks[k - 1]) = limits.records
              \/ Total(chunks[k - 1], sizes) + sizes[chunks[k][1]] > limits.bytes

\* The chunks are as they should be, for the first n records.
Exact(chunks, n, sizes, limits) ==
  End(chunks, Len(chunks)) = n /\ \A k \in DOMAIN chunks : Right(chunks, k, sizes, limits)

\* What is cut when r records were added.
WellCut(parts, r, sizes, limits) ==
  IF r = 0 THEN parts = Uncut
  ELSE /\ parts.current # <<>> /\ parts.bytes = Total(parts.current, sizes)
       /\ Exact(Append(parts.done, parts.current), r, sizes, limits)

\* A chunk that is right begins behind the one before and ends with its last record.
LEMMA ChunkHas ==
  ASSUME NEW chunks \in Seq(Chunk), NEW k \in DOMAIN chunks, NEW sizes, NEW limits \in Limit,
         Right(chunks, k, sizes, limits), End(chunks, k - 1) \in Nat
  PROVE  /\ Len(chunks[k]) \in Nat \ {0} /\ End(chunks, k) = End(chunks, k - 1) + Len(chunks[k])
         /\ \A j \in 1..Len(chunks[k]) : chunks[k][j] = End(chunks, k - 1) + j
  <1> DEFINE c == chunks[k]
             e == End(chunks, k - 1)
  <1>1. c = [j \in 1..Len(c) |-> e + j] /\ Len(c) \in 1..limits.records /\ limits.records \in Nat
    BY DEF Right, Limit
  <1>2. End(chunks, k) = c[Len(c)]
    BY DEF End, Last
  <1> HIDE DEF c, e
  <1>3. Len(c) \in Nat \ {0} /\ \A j \in 1..Len(c) : c[j] = e + j
    BY <1>1
  <1> QED
    BY <1>2, <1>3 DEF c, e

\* The first record opens the first chunk.
LEMMA AddFirst ==
  ASSUME NEW sizes, sizes[1] \in Nat, NEW limits \in Limit
  PROVE  WellCut(Add(Uncut, 1, sizes[1], limits), 1, sizes, limits)
  <1> DEFINE new == Add(Uncut, 1, sizes[1], limits)
             chunks == <<<<1>>>>
  <1>1. ~Full(Uncut, sizes[1], limits)
    BY DEF Full, Uncut, Limit
  <1>2. new.done = <<>> /\ new.current = <<1>> /\ new.bytes = 0 + sizes[1]
    BY <1>1 DEF Add, Uncut
  <1>3. Total(<<1>>, sizes) = sizes[1]
    BY TotalOne
  <1>4. Len(chunks) = 1 /\ chunks[1] = <<1>> /\ DOMAIN chunks = {1} /\ Len(<<1>>) = 1 /\ <<1>>[1] = 1
    OBVIOUS
  <1> HIDE DEF chunks
  <1>5. Right(chunks, 1, sizes, limits)
    <2>1. End(chunks, 1 - 1) = 0
      BY DEF End
    <2>2. <<1>> = [j \in 1..1 |-> 0 + j]
      OBVIOUS
    <2>3. 1 \in 1..limits.records
      BY DEF Limit
    <2> QED
      BY <1>4, <2>1, <2>2, <2>3 DEF Right
  <1>6. End(chunks, 1) = 1
    BY <1>4 DEF End, Last
  <1>7. Exact(chunks, 1, sizes, limits)
    BY <1>4, <1>5, <1>6 DEF Exact
  <1> HIDE DEF new
  <1>8. Append(new.done, new.current) = chunks /\ new.current # <<>> /\ new.bytes = Total(new.current, sizes)
    BY <1>2, <1>3, <1>4 DEF chunks
  <1>9. 1 # 0
    OBVIOUS
  <1> QED
    BY <1>7, <1>8, <1>9, Zenon DEF WellCut, new

\* Another goes to the current chunk or opens the next.
LEMMA AddNext ==
  ASSUME NEW sizes \in Seq(Nat), NEW limits \in Limit, NEW parts \in Parts, NEW r \in 1..Len(sizes), r > 1,
         WellCut(parts, r - 1, sizes, limits)
  PROVE  WellCut(Add(parts, r, sizes[r], limits), r, sizes, limits)
  <1> DEFINE size == sizes[r]
             done == parts.done
             current == parts.current
             L == Len(current)
             K == Len(done) + 1
             X == Append(done, current)
             new == Add(parts, r, size, limits)
             Y == Append(new.done, new.current)
  <1>1. /\ r \in Nat /\ r - 1 # 0 /\ size \in Nat /\ done \in Seq(Chunk) /\ current \in Chunk /\ parts.bytes \in Nat
        /\ limits.records \in Nat \ {0} /\ limits.bytes \in Nat
    BY DEF Parts, Limit
  <1>2. current # <<>> /\ parts.bytes = Total(current, sizes) /\ Exact(X, r - 1, sizes, limits)
    BY <1>1 DEF WellCut
  <1>3. new \in Parts
    BY <1>1, AddTypes
  <1> HIDE DEF done, current, size
  <1>4. /\ X \in Seq(Chunk) /\ Len(X) = K /\ K \in Nat \ {0} /\ X[K] = current /\ DOMAIN X = 1..K
        /\ \A k \in 1..(K - 1) : X[k] = done[k]
    BY <1>1
  <1> HIDE DEF X, K
  <1>5. End(X, K) = r - 1 /\ \A k \in 1..K : Right(X, k, sizes, limits)
    BY <1>2, <1>4 DEF Exact
  <1>6. Right(X, K, sizes, limits) /\ End(X, K) = Last(current)
    BY <1>4, <1>5 DEF End
  <1>7. L \in Nat \ {0} /\ L \in 1..limits.records
    <2>1. L \in 1..limits.records
      BY <1>4, <1>6 DEF Right
    <2> QED
      BY <1>1, <2>1
  <1>8. CASE Full(parts, size, limits)
    <2>1. new = [done |-> X, current |-> <<r>>, bytes |-> size]
      BY <1>8 DEF Add, X, done, current
    <2>2. new.done = X /\ new.current = <<r>> /\ new.bytes = size
      BY <2>1
    <2> HIDE DEF new
    <2>3. /\ Len(Y) = K + 1 /\ Y[K + 1] = <<r>> /\ DOMAIN Y = 1..(K + 1)
          /\ \A k \in 1..K : Y[k] = X[k]
      <3>1. <<r>> \in Chunk
        BY <1>1 DEF Chunk
      <3> QED
        BY <1>4, <2>2, <3>1
    <2> HIDE DEF Y
    <2>4. \A k \in 0..K : End(Y, k) = End(X, k)
      BY <2>3 DEF End
    <2>5. \A k \in 1..K : Right(Y, k, sizes, limits)
      <3> SUFFICES ASSUME NEW k \in 1..K PROVE Right(Y, k, sizes, limits)
        OBVIOUS
      <3>0. k - 1 \in 0..(K - 1) /\ k - 1 \in 0..K /\ (k > 1 => k - 1 \in 1..(K - 1) /\ k - 1 \in 1..K) /\ k \in 1..K
        BY <1>4
      <3>1. Right(X, k, sizes, limits) /\ Y[k] = X[k]
        BY <1>4, <1>5, <2>3
      <3>2. End(Y, k - 1) = End(X, k - 1)
        BY <2>4, <3>0
      <3>3. k > 1 => Y[k - 1] = X[k - 1]
        BY <1>4, <2>3, <3>0
      <3> QED
        BY <3>1, <3>2, <3>3, Zenon DEF Right
    <2>6. Right(Y, K + 1, sizes, limits)
      <3>1. (K + 1) - 1 = K /\ End(Y, K) = r - 1 /\ Y[K] = current /\ Y[K + 1] = <<r>> /\ Len(<<r>>) = 1 /\ <<r>>[1] = r
        BY <1>4, <1>5, <2>3, <2>4
      <3>2. <<r>> = [j \in 1..1 |-> (r - 1) + j]
        BY <1>1
      <3>3. 1 \in 1..limits.records
        BY <1>1
      <3>4. L = limits.records \/ Total(current, sizes) + size > limits.bytes
        <4>1. L >= limits.records \/ parts.bytes + size > limits.bytes
          BY <1>8 DEF Full, current
        <4> QED
          BY <1>1, <1>2, <1>7, <4>1
      <3>5. Y[K + 1] = [j \in 1..Len(Y[K + 1]) |-> End(Y, (K + 1) - 1) + j]
        BY <3>1, <3>2
      <3>6. \/ Len(Y[(K + 1) - 1]) = limits.records
            \/ Total(Y[(K + 1) - 1], sizes) + sizes[Y[K + 1][1]] > limits.bytes
        BY <3>1, <3>4 DEF size
      <3>7. Len(Y[K + 1]) \in 1..limits.records /\ Len(Y[K + 1]) = 1
        BY <3>1, <3>3
      <3> QED
        BY <3>5, <3>6, <3>7, Zenon DEF Right
    <2>7. End(Y, K + 1) = r
      BY <1>4, <2>3 DEF End, Last
    <2>8. Exact(Y, r, sizes, limits)
      <3>1. \A k \in 1..(K + 1) : k \in 1..K \/ k = K + 1
        BY <1>4
      <3> QED
        BY <2>3, <2>5, <2>6, <2>7, <3>1, Zenon DEF Exact
    <2>9. Total(<<r>>, sizes) = size
      BY <1>1, TotalOne DEF size
    <2>10. <<r>> # <<>> /\ r # 0
      BY <1>1
    <2> QED
      BY <2>2, <2>8, <2>9, <2>10, Zenon DEF WellCut, Y, new, size
  <1>9. CASE ~Full(parts, size, limits)
    <2> DEFINE more == Append(current, r)
    <2>1. new.done = done /\ new.current = more /\ new.bytes = parts.bytes + size
      BY <1>9 DEF Add, done, current
    <2>2. /\ more \in Chunk /\ Len(more) = L + 1 /\ more[L + 1] = r /\ \A j \in 1..L : more[j] = current[j]
      <3>1. current \in Seq(Nat) /\ r \in Nat /\ Len(current) = L /\ L \in Nat
        BY <1>1 DEF Chunk
      <3> HIDE DEF current, L
      <3>2. more \in Seq(Nat) /\ Len(more) = L + 1 /\ more[L + 1] = r
        BY <3>1
      <3>3. \A j \in 1..L : more[j] = current[j]
        BY <3>1
      <3> QED
        BY <3>2, <3>3 DEF Chunk
    <2> HIDE DEF more, new
    <2>3. /\ Len(Y) = K /\ Y[K] = more /\ DOMAIN Y = 1..K /\ \A k \in 1..(K - 1) : Y[k] = done[k]
      BY <1>1, <2>1, <2>2 DEF K
    <2> HIDE DEF Y
    <2>4. \A k \in 0..(K - 1) : End(Y, k) = End(X, k)
      <3> SUFFICES ASSUME NEW k \in 0..(K - 1) PROVE End(Y, k) = End(X, k)
        OBVIOUS
      <3>1. k # 0 => k \in 1..(K - 1)
        BY <1>4
      <3>2. k # 0 => Y[k] = X[k]
        BY <1>4, <2>3, <3>1, Zenon
      <3> QED
        BY <3>2, Zenon DEF End
    <2> DEFINE e == End(X, K - 1)
    <2>5. current = [j \in 1..L |-> e + j]
      BY <1>4, <1>6 DEF Right
    <2>6. \A k \in 1..(K - 1) : Right(Y, k, sizes, limits)
      <3> SUFFICES ASSUME NEW k \in 1..(K - 1) PROVE Right(Y, k, sizes, limits)
        OBVIOUS
      <3>0. k - 1 \in 0..(K - 1) /\ k - 1 \in 0..K /\ (k > 1 => k - 1 \in 1..(K - 1) /\ k - 1 \in 1..K) /\ k \in 1..K
        BY <1>4
      <3>1. Right(X, k, sizes, limits) /\ Y[k] = X[k]
        BY <1>4, <1>5, <2>3
      <3>2. End(Y, k - 1) = End(X, k - 1)
        BY <2>4, <3>0
      <3>3. k > 1 => Y[k - 1] = X[k - 1]
        BY <1>4, <2>3, <3>0
      <3> QED
        BY <3>1, <3>2, <3>3, Zenon DEF Right
    <2> HIDE DEF e
    <2>7. e + L = r - 1 /\ current[1] = e + 1
      <3>1. current[L] = r - 1
        BY <1>5, <1>6 DEF Last
      <3> QED
        BY <1>7, <2>5, <3>1
    <2>8. e \in Nat
      <3>1. CASE K = 1
        BY <3>1 DEF e, End
      <3>2. CASE K # 1
        <4>1. K - 1 \in 1..K /\ K - 1 # 0 /\ X[K - 1] \in Seq(Nat)
          BY <1>4, <3>2 DEF Chunk
        <4> DEFINE before == X[K - 1]
        <4>2. Len(before) \in 1..limits.records
          BY <1>5, <4>1 DEF Right
        <4>3. e = before[Len(before)]
          BY <4>1 DEF e, End, Last
        <4> HIDE DEF before
        <4>4. before \in Seq(Nat)
          BY <4>1 DEF before
        <4>5. Len(before) \in 1..Len(before)
          BY <1>1, <4>2
        <4> QED
          BY <4>3, <4>4, <4>5
      <3> QED
        BY <3>1, <3>2
    <2>9. L + 1 <= limits.records /\ parts.bytes + size <= limits.bytes
      BY SMTT(30), <1>1, <1>2, <1>7, <1>9 DEF Full, current
    <2>10. \A j \in 1..L : sizes[current[j]] \in Nat
      <3> SUFFICES ASSUME NEW j \in 1..L PROVE sizes[current[j]] \in Nat
        OBVIOUS
      <3>1. current[j] = e + j /\ current[j] \in Nat
        BY <1>1, <2>5 DEF Chunk
      <3>2. j \in Nat /\ j <= L /\ r <= Len(sizes) /\ Len(sizes) \in Nat
        BY <1>7
      <3>3. current[j] <= r - 1
        BY <1>1, <1>7, <2>7, <2>8, <3>1, <3>2
      <3>4. current[j] # 0
        BY <2>8, <3>1, <3>2
      <3>5. current[j] \in 1..Len(sizes)
        BY <1>1, <3>1, <3>2, <3>3, <3>4
      <3> QED
        BY <3>5
    <2>11. Total(more, sizes) = parts.bytes + size
      BY <1>1, <1>2, <2>10, TotalAppend DEF more, size
    <2>12. Right(Y, K, sizes, limits)
      <3>1. more = [j \in 1..(L + 1) |-> e + j]
        <4>1. \A j \in 1..(L + 1) : more[j] = e + j
          <5> SUFFICES ASSUME NEW j \in 1..(L + 1) PROVE more[j] = e + j
            OBVIOUS
          <5>1. CASE j = L + 1
            BY <1>1, <1>7, <2>2, <2>7, <2>8, <5>1
          <5>2. CASE j # L + 1
            <6>1. j \in 1..L
              BY <1>7, <5>2
            <6> QED
              BY <2>2, <2>5, <6>1
          <5> QED
            BY <5>1, <5>2
        <4>2. more = [j \in 1..(L + 1) |-> more[j]]
          BY <2>2 DEF Chunk
        <4> QED
          BY <4>1, <4>2
      <3>2. K - 1 \in 0..(K - 1) /\ End(Y, K - 1) = e
        BY <1>4, <2>4 DEF e
      <3>3. Y[K] = [j \in 1..Len(Y[K]) |-> End(Y, K - 1) + j]
        BY <2>2, <2>3, <3>1, <3>2
      <3>4. Len(Y[K]) \in 1..limits.records
        BY <1>1, <1>7, <2>2, <2>3, <2>9
      <3>5. Total(Y[K], sizes) <= limits.bytes
        BY <2>3, <2>9, <2>11
      <3>6. K > 1 => Y[K - 1] = X[K - 1] /\ Y[K][1] = X[K][1]
        <4>1. more[1] = current[1]
          BY <1>7, <2>2
        <4> QED
          BY <1>4, <2>3, <4>1
      <3>7. K > 1 => \/ Len(X[K - 1]) = limits.records
                     \/ Total(X[K - 1], sizes) + sizes[X[K][1]] > limits.bytes
        BY <1>6, Zenon DEF Right
      <3> QED
        BY <3>3, <3>4, <3>5, <3>6, <3>7, Zenon DEF Right
    <2>13. End(Y, K) = r
      BY <1>4, <2>2, <2>3 DEF End, Last
    <2>14. Exact(Y, r, sizes, limits)
      <3>1. \A k \in 1..K : k \in 1..(K - 1) \/ k = K
        BY <1>4
      <3> QED
        BY <2>3, <2>6, <2>12, <2>13, <3>1, Zenon DEF Exact
    <2>15. more # <<>> /\ r # 0
      BY <1>1, <1>7, <2>2
    <2> QED
      BY <2>1, <2>11, <2>14, <2>15, Zenon DEF WellCut, Y, new, size
  <1> QED
    BY <1>8, <1>9

\* The chunks of a list are as they should be.
LEMMA ChunksAreExact ==
  ASSUME NEW sizes \in Seq(Nat), NEW limits \in Limit
  PROVE  Chunks(sizes, limits) \in Seq(Chunk) /\ Exact(Chunks(sizes, limits), Len(sizes), sizes, limits)
  <1> DEFINE N == Len(sizes)
  <1>1. PICK parts \in [0..N -> Parts] :
          /\ parts[0] = Uncut /\ \A r \in 1..N : parts[r] = Add(parts[r - 1], r, sizes[r], limits)
          /\ Cut(sizes, limits) = parts[N]
    BY CutSolved
  <1>2. N \in Nat /\ \A r \in 1..N : sizes[r] \in Nat
    OBVIOUS
  <1> HIDE DEF N
  <1> DEFINE P == {r \in 0..N : WellCut(parts[r], r, sizes, limits)}
  <1>3. 0 \in P
    BY <1>1, <1>2 DEF WellCut
  <1>4. ASSUME NEW r \in 1..N, r - 1 \in P PROVE r \in P
    <2>1. r - 1 \in 0..N /\ r \in 0..N /\ parts[r - 1] \in Parts /\ WellCut(parts[r - 1], r - 1, sizes, limits)
      BY <1>2, <1>4
    <2>2. parts[r] = Add(parts[r - 1], r, sizes[r], limits)
      BY <1>1
    <2>3. CASE r = 1
      <3>1. parts[r - 1] = Uncut /\ sizes[1] \in Nat
        BY <1>1, <1>2, <2>3
      <3>2. WellCut(parts[r], r, sizes, limits)
        BY <2>2, <2>3, <3>1, AddFirst
      <3> QED
        BY <2>1, <3>2
    <2>4. CASE r # 1
      <3>1. r > 1
        BY <1>2, <2>4
      <3>2. WellCut(parts[r], r, sizes, limits)
        BY <2>1, <2>2, <3>1, AddNext DEF N
      <3> QED
        BY <2>1, <3>2
    <2> QED
      BY <2>3, <2>4
  <1> HIDE DEF P
  <1>5. 0..N \subseteq P
    BY <1>2, <1>3, <1>4, StepsKeep
  <1> DEFINE last == parts[N]
  <1>6. last \in Parts /\ WellCut(last, N, sizes, limits)
    BY <1>2, <1>5 DEF P
  <1> HIDE DEF last
  <1>7. Chunks(sizes, limits) = IF last.current = <<>> THEN last.done ELSE Append(last.done, last.current)
    BY <1>1 DEF Chunks, last
  <1>8. CASE N = 0
    <2>1. last = Uncut
      BY <1>6, <1>8 DEF WellCut
    <2>2. Chunks(sizes, limits) = <<>>
      BY <1>7, <2>1 DEF Uncut
    <2>3. Exact(<<>>, 0, sizes, limits)
      BY DEF Exact, End
    <2> QED
      BY <1>8, <2>2, <2>3 DEF N
  <1>9. CASE N # 0
    <2>1. last.current # <<>> /\ Exact(Append(last.done, last.current), N, sizes, limits)
      BY <1>6, <1>9, Zenon DEF WellCut
    <2>2. Chunks(sizes, limits) = Append(last.done, last.current)
      BY <1>7, <2>1
    <2>3. Append(last.done, last.current) \in Seq(Chunk)
      BY <1>6 DEF Parts
    <2> QED
      BY <2>1, <2>2, <2>3 DEF N
  <1> QED
    BY <1>8, <1>9

\* Records are cut as CutExactly says.
LEMMA RecordsAreCut ==
  ASSUME NEW sizes \in Seq(Nat), NEW limits \in Limit
  PROVE  CutExactly(sizes, limits)
  BY ChunksAreExact, Zenon DEF CutExactly, Exact, Right

Server == [keeps: BOOLEAN, batch: SUBSET Nat, stored: SUBSET Nat]

\* The server stays a server.
LEMMA ServeTypes ==
  ASSUME NEW server \in Server, NEW chunks \in Seq(Chunk), NEW i \in 1..Len(chunks), NEW id
  PROVE  Serve(server, Request(chunks, i, id)) \in Server
  <1> DEFINE request == Request(chunks, i, id)
             R == ToSet(chunks[i])
  <1>1. R \in SUBSET Nat
    <2>1. chunks[i] \in Seq(Nat)
      BY DEF Chunk
    <2> QED
      BY <2>1 DEF ToSet
  <1> HIDE DEF R
  <1>2. request.records = R
    BY DEF Request, R
  <1>3. server.batch \in SUBSET Nat /\ server.stored \in SUBSET Nat
    BY DEF Server
  <1> HIDE DEF request
  <1>4. /\ [server EXCEPT !.stored = @ \cup R] \in Server
        /\ [server EXCEPT !.stored = @ \cup (server.batch \cup R), !.batch = {}] \in Server
        /\ [server EXCEPT !.batch = server.batch \cup R] \in Server
    BY <1>1, <1>3 DEF Server
  <1> QED
    BY <1>2, <1>4 DEF Serve, request

\* Posted is what its recursion says.
LEMMA PostedSolved ==
  ASSUME NEW chunks \in Seq(Chunk), NEW n \in 0..Len(chunks)
  PROVE  \E server \in [0..n -> Server] :
           /\ server[0] = [keeps |-> TRUE, batch |-> {}, stored |-> {}]
           /\ \A i \in 1..n : server[i] = Serve(server[i - 1], Request(chunks, i, TRUE))
           /\ Posted(chunks, TRUE, n) = server[n]
  <1> DEFINE new == [keeps |-> TRUE, batch |-> {}, stored |-> {}]
             step == [i \in 1..n |-> [v \in Server |-> Serve(v, Request(chunks, i, TRUE))]]
             Solves(g) == g = [i \in 0..n |-> IF i = 0 THEN new ELSE Serve(g[i - 1], Request(chunks, i, TRUE))]
             all == CHOOSE h : Solves(h)
  <1>1. n \in Nat /\ new \in Server /\ \A i \in 1..n, v \in Server : Serve(v, Request(chunks, i, TRUE)) \in Server
    <2>1. n \in Nat /\ \A i \in 1..n : i \in 1..Len(chunks)
      OBVIOUS
    <2>2. new \in Server
      BY DEF Server
    <2> QED
      BY <2>1, <2>2, ServeTypes
  <1>2. Posted(chunks, TRUE, n) = all[n]
    BY Zenon DEF Posted
  <1> HIDE DEF new
  <1>3. step \in [1..n -> [Server -> Server]]
    BY <1>1
  <1>4. PICK g \in [0..n -> Server] : Steps(g, n, new, step)
    <2> HIDE DEF step
    <2> QED
      BY <1>1, <1>3, StepsExist
  <1>5. \A i \in 1..n : g[i] = Serve(g[i - 1], Request(chunks, i, TRUE))
    <2> SUFFICES ASSUME NEW i \in 1..n PROVE g[i] = Serve(g[i - 1], Request(chunks, i, TRUE))
      OBVIOUS
    <2>1. g[i - 1] \in Server
      BY <1>1
    <2> QED
      BY <1>4, <2>1 DEF Steps
  <1> HIDE DEF step
  <1>6. Solves(g)
    <2>1. \A i \in 0..n : i = 0 \/ i \in 1..n
      BY <1>1
    <2>2. \A i \in 0..n : g[i] = IF i = 0 THEN new ELSE Serve(g[i - 1], Request(chunks, i, TRUE))
      BY <1>4, <1>5, <2>1, Zenon DEF Steps
    <2> QED
      BY <2>2, Zenon
  <1>7. Solves(all)
    <2> HIDE DEF Solves
    <2> QED
      BY <1>6
  <1> HIDE DEF all
  <1>8. all[0] = new /\ \A i \in 1..n : all[i] = Serve(all[i - 1], Request(chunks, i, TRUE))
    <2>1. 0 \in 0..n /\ \A i \in 1..n : i \in 0..n /\ i # 0
      BY <1>1
    <2>2. \A i \in 0..n : all[i] = IF i = 0 THEN new ELSE Serve(all[i - 1], Request(chunks, i, TRUE))
      BY <1>7, Zenon
    <2> QED
      BY <2>1, <2>2, Zenon
  <1>9. 0..n \subseteq {i \in 0..n : all[i] \in Server}
    <2> DEFINE P == {i \in 0..n : all[i] \in Server}
    <2>1. 0 \in P
      BY <1>8, <1>1
    <2>2. ASSUME NEW i \in 1..n, i - 1 \in P PROVE i \in P
      <3>1. all[i] = Serve(all[i - 1], Request(chunks, i, TRUE))
        BY <1>8, Zenon
      <3>2. all[i - 1] \in Server
        BY <2>2, Zenon
      <3>3. i \in 0..n /\ i \in 1..Len(chunks)
        BY <1>1
      <3>4. all[i] \in Server
        BY <3>1, <3>2, <3>3, ServeTypes
      <3> QED
        BY <3>3, <3>4
    <2> HIDE DEF P
    <2> QED
      BY <2>1, <2>2, <1>1, StepsKeep DEF P
  <1>10. all \in [0..n -> Server]
    <2>1. all = [i \in 0..n |-> all[i]]
      BY <1>7
    <2> QED
      BY <2>1, <1>9
  <1> QED
    BY <1>2, <1>8, <1>10, Zenon DEF new

\* What a chunk brings follows what the ones before brought.
Grow(chunks) ==
  /\ \A k \in 0..Len(chunks) : End(chunks, k) \in Nat
  /\ \A k \in 1..Len(chunks) : (1..End(chunks, k - 1)) \cup ToSet(chunks[k]) = 1..End(chunks, k)

\* What a chunk brings follows what the ones before brought.
LEMMA EndsGrow ==
  ASSUME NEW sizes, NEW limits \in Limit, NEW chunks \in Seq(Chunk), NEW N, Exact(chunks, N, sizes, limits)
  PROVE  Grow(chunks)
  <1> DEFINE M == Len(chunks)
             P == {k \in 0..M : End(chunks, k) \in Nat}
  <1>1. M \in Nat /\ DOMAIN chunks = 1..M
    OBVIOUS
  <1> HIDE DEF M
  <1>2. \A k \in 1..M : Right(chunks, k, sizes, limits)
    BY <1>1 DEF Exact
  <1>3. 0 \in P
    BY <1>1 DEF End
  <1>4. ASSUME NEW k \in 1..M, k - 1 \in P PROVE k \in P
    <2>1. k \in DOMAIN chunks /\ End(chunks, k - 1) \in Nat /\ Right(chunks, k, sizes, limits) /\ k \in 0..M
      BY <1>1, <1>2, <1>4
    <2>2. Len(chunks[k]) \in Nat \ {0} /\ End(chunks, k) = End(chunks, k - 1) + Len(chunks[k])
      BY <2>1, ChunkHas
    <2>3. End(chunks, k) \in Nat
      BY <2>1, <2>2
    <2> QED
      BY <2>1, <2>3
  <1> HIDE DEF P
  <1>5. 0..M \subseteq P
    BY <1>1, <1>3, <1>4, StepsKeep
  <1>6. \A k \in 0..M : End(chunks, k) \in Nat
    BY <1>5 DEF P
  <1>7. ASSUME NEW k \in 1..M PROVE (1..End(chunks, k - 1)) \cup ToSet(chunks[k]) = 1..End(chunks, k)
    <2> DEFINE c == chunks[k]
               e == End(chunks, k - 1)
               f == End(chunks, k)
    <2>1. k \in DOMAIN chunks /\ e \in Nat /\ Right(chunks, k, sizes, limits)
      BY <1>1, <1>2, <1>6
    <2>2. Len(c) \in Nat \ {0} /\ f = e + Len(c) /\ \A j \in 1..Len(c) : c[j] = e + j
      BY <2>1, ChunkHas
    <2>3. DOMAIN c = 1..Len(c)
      BY <2>1 DEF Chunk
    <2>4. ToSet(c) = {c[j] : j \in 1..Len(c)}
      BY <2>3 DEF ToSet
    <2> HIDE DEF c, e, f
    <2>5. ASSUME NEW x \in 1..f PROVE x \in 1..e \/ x \in {c[j] : j \in 1..Len(c)}
      <3>1. CASE x <= e
        BY <2>1, <2>2, <3>1
      <3>2. CASE ~(x <= e)
        <4>1. x - e \in 1..Len(c) /\ e + (x - e) = x
          BY <2>1, <2>2, <3>2
        <4>2. c[x - e] = x
          BY <2>2, <4>1
        <4> QED
          BY <4>1, <4>2
      <3> QED
        BY <3>1, <3>2
    <2>6. 1..e \subseteq 1..f
      BY <2>1, <2>2
    <2>7. \A j \in 1..Len(c) : c[j] \in 1..f
      BY <2>1, <2>2
    <2> QED
      BY <2>4, <2>5, <2>6, <2>7 DEF c, e, f
  <1> QED
    BY <1>6, <1>7 DEF M, Grow

\* All records are stored, or none.
LEMMA PostsAreAtomic ==
  ASSUME NEW sizes \in Seq(Nat), NEW limits \in Limit
  PROVE  AllOrNothing(sizes, limits)
  <1> DEFINE chunks == Chunks(sizes, limits)
             N == Len(sizes)
             M == Len(chunks)
  <1>1. chunks \in Seq(Chunk) /\ Exact(chunks, N, sizes, limits)
    BY ChunksAreExact
  <1> HIDE DEF chunks, N, M
  <1>0. Grow(chunks)
    <2>1. limits \in Limit
      OBVIOUS
    <2>2. chunks \in Seq(Chunk) /\ Exact(chunks, N, sizes, limits)
      BY <1>1
    <2> QED
      BY <2>1, <2>2, EndsGrow
  <1> USE DEF chunks, N, M
  <1> SUFFICES ASSUME NEW n \in 0..M
               PROVE  Posted(chunks, TRUE, n).stored = IF n = M THEN 1..N ELSE {}
    BY Zenon DEF AllOrNothing
  <1> HIDE DEF chunks, N
  <1>2. M \in Nat /\ n \in Nat /\ n \in 0..Len(chunks) /\ End(chunks, M) = N
    BY <1>1 DEF Exact
  <1>3. /\ \A k \in 0..M : End(chunks, k) \in Nat
        /\ \A k \in 1..M : (1..End(chunks, k - 1)) \cup ToSet(chunks[k]) = 1..End(chunks, k)
    BY <1>0, Zenon DEF Grow
  <1>4. PICK server \in [0..n -> Server] :
           /\ server[0] = [keeps |-> TRUE, batch |-> {}, stored |-> {}]
           /\ \A i \in 1..n : server[i] = Serve(server[i - 1], Request(chunks, i, TRUE))
           /\ Posted(chunks, TRUE, n) = server[n]
    BY <1>1, <1>2, PostedSolved
  <1> HIDE DEF M
  <1> DEFINE Halfway(s, i) == /\ s.keeps = TRUE
                              /\ s.batch = IF i = M THEN {} ELSE 1..End(chunks, i)
                              /\ s.stored = IF i = M THEN 1..N ELSE {}
             P == {i \in 0..n : Halfway(server[i], i)}
  <1>5. 0 \in P
    <2>1. 1..End(chunks, 0) = {}
      BY DEF End
    <2>2. M = 0 => 1..N = {}
      BY <1>2, <2>1
    <2>3. 0 \in 0..n
      BY <1>2
    <2> QED
      BY <1>4, <2>1, <2>2, <2>3
  <1>6. ASSUME NEW i \in 1..n, i - 1 \in P PROVE i \in P
    <2> DEFINE s == server[i - 1]
               R == ToSet(chunks[i])
               q == Request(chunks, i, TRUE)
    <2>1. i \in 1..M /\ i - 1 # M /\ i \in 0..n /\ i - 1 \in 0..n /\ i \in Nat
      BY <1>2 DEF M
    <2>2. s \in Server /\ s.keeps = TRUE /\ s.batch = 1..End(chunks, i - 1) /\ s.stored = {}
      BY <1>4, <1>6, <2>1
    <2>3. server[i] = Serve(s, q)
      BY <1>4
    <2> HIDE DEF s, R
    <2>4. q.batch # "none" /\ q.commit = (i = M) /\ q.records = R
      <3>1. q = [batch |-> IF i = 1 THEN "true" ELSE "id", commit |-> i = M, records |-> R]
        BY DEF Request, M, R
      <3> HIDE DEF q
      <3>2. q.batch = IF i = 1 THEN "true" ELSE "id"
        BY <3>1
      <3>3. q.batch # "none"
        BY <3>2
      <3> QED
        BY <3>1, <3>3
    <2> HIDE DEF q
    <2>5. s.batch \cup R = 1..End(chunks, i)
      BY <1>3, <2>1, <2>2 DEF R
    <2>6. server[i] = IF i = M THEN [s EXCEPT !.stored = @ \cup (s.batch \cup R), !.batch = {}]
                      ELSE [s EXCEPT !.batch = s.batch \cup R]
      BY <2>2, <2>3, <2>4 DEF Serve
    <2> DEFINE B == s.batch \cup R
    <2>7. B = 1..End(chunks, i)
      BY <2>5
    <2> HIDE DEF B
    <2>8. CASE i = M
      <3>1. server[i] = [s EXCEPT !.stored = @ \cup B, !.batch = {}]
        BY <2>6, <2>8 DEF B
      <3>2. server[i].keeps = TRUE /\ server[i].batch = {} /\ server[i].stored = B
        BY <2>2, <3>1 DEF Server
      <3>3. B = 1..N
        BY <1>2, <2>7, <2>8
      <3> QED
        BY <2>1, <2>8, <3>2, <3>3
    <2>9. CASE i # M
      <3>1. server[i] = [s EXCEPT !.batch = B]
        BY <2>6, <2>9 DEF B
      <3>2. server[i].keeps = TRUE /\ server[i].batch = B /\ server[i].stored = {}
        BY <2>2, <3>1 DEF Server
      <3> QED
        BY <2>1, <2>7, <2>9, <3>2
    <2> QED
      BY <2>8, <2>9
  <1> HIDE DEF P
  <1>7. 0..n \subseteq P
    BY <1>2, <1>5, <1>6, StepsKeep
  <1>8. Halfway(server[n], n)
    BY <1>2, <1>7 DEF P
  <1> QED
    BY <1>4, <1>8

-----------------------------------------------------------------------------
\* The input that was picked.

PickInv ==
  /\ input.of = "host" => input.host \in Hosts
  /\ input.of = "page" => input.page \in Pages /\ input.settings \in Settings
  /\ input.of = "post" => input.sizes \in Seq(Nat) /\ input.limits \in Limit
  /\ input.of = "forms" => input.page \in Forms

\* What was picked is what may be.
LEMMA PickedIsInput == PickSpec => []PickInv
  <1>1. PickInit => PickInv
    <2> SUFFICES ASSUME PickInit PROVE PickInv
      OBVIOUS
    <2>1. input.of = "nothing"
      BY DEF PickInit, Start
    <2> QED
      BY <2>1 DEF PickInv
  <1>2. PickInv /\ [PickNext]_input => PickInv'
    <2> SUFFICES ASSUME PickInv, [PickNext]_input PROVE PickInv'
      OBVIOUS
    <2>1. ASSUME NEW site \in Hosts, input' = [of |-> "host", host |-> site] PROVE PickInv'
      <3>1. input'.of = "host" /\ input'.host = site
        BY <2>1
      <3> QED
        BY <3>1 DEF PickInv
    <2>2. ASSUME NEW page \in Pages, NEW settings \in Settings,
                 input' = [of |-> "page", page |-> page, settings |-> settings]
          PROVE  PickInv'
      <3>1. input'.of = "page" /\ input'.page = page /\ input'.settings = settings
        BY <2>2
      <3> QED
        BY <3>1 DEF PickInv
    <2>3. ASSUME NEW post \in Posts, input' = [of |-> "post", sizes |-> post.sizes, limits |-> post.limits] PROVE PickInv'
      <3>1. input'.of = "post" /\ input'.sizes = post.sizes /\ input'.limits = post.limits
        BY <2>3
      <3>2. post.sizes \in Seq(Nat) /\ post.limits \in Limit
        BY InputsAssumption DEF Limit
      <3> QED
        BY <3>1, <3>2 DEF PickInv
    <2>4. ASSUME NEW page \in Forms, input' = [of |-> "forms", page |-> page] PROVE PickInv'
      <3>1. input'.of = "forms" /\ input'.page = page
        BY <2>4
      <3> QED
        BY <3>1 DEF PickInv
    <2>5. ASSUME UNCHANGED input PROVE PickInv'
      BY <2>5 DEF PickInv
    <2> QED
      BY <2>1, <2>2, <2>3, <2>4, <2>5 DEF PickNext, PickHost, PickPage, PickPost, PickForms
  <1> QED
    BY <1>1, <1>2, PTL DEF PickSpec

\* Every host has the registrable domain that the list gives it (psl.ts:98-124).
THEOREM DomainsAlwaysFollowTheList == PickSpec => []DomainsFollowTheList
  <1>1. PickInv => DomainsFollowTheList
    BY ListIsFollowed, InputsAssumption DEF PickInv, DomainsFollowTheList, Hostname
  <1> QED
    BY <1>1, PickedIsInput, PTL

\* Stricter strategies offer less, a page's own logins come first, and what is offered is
\* at home on the page, but for startsWith and the user's equivalents, and is revealed, but
\* for the latter (uri.ts:49-122, router.ts:215-246).
THEOREM LoginsAlwaysMatch == PickSpec => []LoginsMatchTheirSites
  <1>1. PickInv => LoginsMatchTheirSites
    BY LoginsMatch DEF PickInv, LoginsMatchTheirSites
  <1> QED
    BY <1>1, PickedIsInput, PTL

\* Records are cut within the limits and stored all or none (storage.ts:414-459).
THEOREM PostsAreAlwaysExact == PickSpec => []PostsAreExact
  <1>1. PickInv => PostsAreExact
    BY RecordsAreCut, PostsAreAtomic DEF PickInv, PostsAreExact
  <1> QED
    BY <1>1, PickedIsInput, PTL

\* The forms of a page have the user name beside the password, logins can be filled, and
\* filling one is neither seen elsewhere nor asked about (detector.ts:285-346, filler.ts:36).
THEOREM FormsAreAlwaysUnderstood == PickSpec => []FormsAreUnderstood
  <1>1. PickInv => FormsAreUnderstood
    <2> SUFFICES ASSUME PickInv, input.of = "forms" PROVE FormsAreUnderstood
      BY DEF FormsAreUnderstood
    <2>1. input.page \in Seq(Field)
      BY InputsAssumption DEF PickInv, Field
    <2>2. FillsAreQuiet(input.page, FilledLogins, Prefilled)
      BY <2>1, FillsStayQuiet
    <2> QED
      BY <2>1, <2>2, UsernamesAreFound, LoginsHavePasswords DEF FormsAreUnderstood
  <1> QED
    BY <1>1, PickedIsInput, PTL

=============================================================================
