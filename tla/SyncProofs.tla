----------------------------- MODULE SyncProofs -----------------------------
(***************************************************************************)
(* What the conflict rules guarantee for every vault and every pull; that  *)
(* the two loops of reconcile() compute what the rules describe, in        *)
(* whatever order the pull and the local records come; and what the engine *)
(* makes of it, for every set of ids, every choice of authorities and      *)
(* every bound.                                                            *)
(*                                                                         *)
(* For the engine, types and clocks come first: no mark and no pulled      *)
(* version is ahead of the server's clock, which is what makes a later     *)
(* write lie beyond every mark.  Then what is below a mark: every version  *)
(* there was seen (NoBlindOverwrite), what a clean record holds the server *)
(* once held (OnlyRacedEditsLost), and the server still holds it           *)
(* (CleanBelowMarkAgrees).                                                 *)
(***************************************************************************)
EXTENDS ReconcileLoop, SyncEngine, FiniteSetTheorems, WellFoundedInduction, TLAPS

\* In a conflict exactly one side wins: the record is uploaded over a pulled
\* version or replaced by it, never both and never neither.
LEMMA ConflictIsDecided ==
  ASSUME NEW l \in LocalRecord, NEW r, Held(l), l.dirty
  PROVE  KeepsLocal(l, r) <=> ~TakesRemote(l, r)
BY DEF KeepsLocal, TakesRemote

\* No unpushed edit falls through reconcile(): whatever the pull returned, a
\* dirty record is in the upload or is replaced by a pulled version of itself.
THEOREM DirtyIsDecided ==
  ASSUME NEW ids, NEW held \in [ids -> LocalRecord],
         NEW pulled \in SUBSET RemoteRecords(ids),
         NEW id \in ids, Held(held[id]), held[id].dirty
  PROVE  \/ id \in UploadRemotely(held, pulled)
         \/ \E r \in ApplyLocally(held, pulled) : r.id = id
<1>1. CASE \A r \in pulled : r.id # id
  BY <1>1 DEF UploadRemotely
<1>2. CASE \E r \in pulled : r.id = id
  <2>1. PICK r \in pulled : r.id = id
    BY <1>2
  <2>2. CASE TakesRemote(held[id], r)
    BY <2>1, <2>2 DEF ApplyLocally
  <2>3. CASE ~TakesRemote(held[id], r)
    <3>1. KeepsLocal(held[id], r)
      BY <2>3, ConflictIsDecided
    <3>2. QED
      BY <2>1, <3>1 DEF UploadRemotely
  <2>4. QED
    BY <2>2, <2>3
<1>3. QED
  BY <1>1, <1>2

\* "a deletion is never silently resurrected" (docs/PROTOCOL.md:248): an
\* unpushed deletion gives way to a live version only if that version carries
\* a strictly later authority.
THEOREM DeletionNotResurrected ==
  ASSUME NEW ids, NEW held \in [ids -> LocalRecord],
         NEW pulled \in SUBSET RemoteRecords(ids),
         NEW r \in ApplyLocally(held, pulled),
         held[r.id].state = "dead", held[r.id].dirty, r.state = "live"
  PROVE  r.authorityTime > held[r.id].authorityTime
<1>1. r \in RemoteRecords(ids) /\ TakesRemote(held[r.id], r)
  BY DEF ApplyLocally
<1>2. r.id \in ids /\ r.authorityTime \in Nat /\ held[r.id] \in LocalRecord
  BY <1>1 DEF RemoteRecords
<1>3. held[r.id].authorityTime \in Nat
  BY <1>2 DEF LocalRecord
<1>4. ~LocalWins(held[r.id], r)
  BY <1>1 DEF TakesRemote, Held
<1>5. QED
  BY <1>2, <1>3, <1>4 DEF LocalWins

-----------------------------------------------------------------------------
(***************************************************************************)
(* The two loops.                                                          *)
(*                                                                         *)
(* After each iteration the arrays are the plan for the pulled records     *)
(* seen so far, and the upload also has the dirty records the second loop  *)
(* has visited that the pull does not have.                                *)
(***************************************************************************)

\* The pulled records the first loop is through with.
Seen == {pull[i] : i \in 1..(next - 1)}

Inputs ==
  /\ local \in [Ids -> LocalRecord]
  /\ pull \in Seq(RemoteRecords(Ids)) /\ PullOrder(pull)
  /\ next \in 1..(Len(pull) + 1) /\ todo \in SUBSET Ids
  /\ \/ phase = "remote" /\ todo = Ids
     \/ phase = "local" /\ next = Len(pull) + 1
     \/ phase = "done" /\ next = Len(pull) + 1 /\ todo = {}

ConflictRecords == [id: Ids, resolution: {"local", "remote"}]

Arrays ==
  /\ applyLocally \in Seq(RemoteRecords(Ids))
  /\ uploadRemotely \in Seq(Ids) /\ ignoredTombstones \in Seq(Ids)
  /\ conflicts \in Seq(ConflictRecords)

\* What the first loop builds.
ApplySoFar == Members(applyLocally) = ApplyLocally(local, Seen)
IgnoredSoFar == Members(ignoredTombstones) = IgnoredTombstones(local, Seen)
ConflictsSoFar == Ids_(conflicts) = Conflicts(local, Seen)

\* A dirty record that beat a pulled version, or that the second loop found in no pull.
Uploaded(id) ==
  /\ Held(local[id]) /\ local[id].dirty
  /\ \/ \E r \in Seen : r.id = id /\ KeepsLocal(local[id], r)
     \/ id \notin todo /\ \A i \in DOMAIN pull : pull[i].id # id

UploadSoFar == Members(uploadRemotely) = {id \in Ids : Uploaded(id)}

\* No record is in the array twice: one of the pull is not seen twice.
NoneTwice ==
  /\ IsFiniteSet(Members(applyLocally))
  /\ Len(applyLocally) = Cardinality(Members(applyLocally))

PlanSoFar == ApplySoFar /\ IgnoredSoFar /\ ConflictsSoFar /\ UploadSoFar /\ NoneTwice

LoopInv == Inputs /\ Arrays /\ PlanSoFar

-----------------------------------------------------------------------------
\* The operators, when one more record has been seen.

\* The members of an array after a push.
LEMMA AppendMembers ==
  ASSUME NEW S, NEW s \in Seq(S), NEW e \in S
  PROVE  /\ Append(s, e) \in Seq(S) /\ Len(Append(s, e)) = Len(s) + 1
         /\ Members(Append(s, e)) = Members(s) \cup {e}
<1>1. /\ Append(s, e) \in Seq(S) /\ Len(Append(s, e)) = Len(s) + 1 /\ Len(s) \in Nat
      /\ DOMAIN Append(s, e) = 1..(Len(s) + 1) /\ DOMAIN s = 1..Len(s)
      /\ \A i \in 1..Len(s) : Append(s, e)[i] = s[i]
      /\ Append(s, e)[Len(s) + 1] = e
  OBVIOUS
<1> DEFINE t == Append(s, e)
<1>2. /\ DOMAIN t = 1..(Len(s) + 1) /\ DOMAIN s = 1..Len(s) /\ Len(s) \in Nat
      /\ \A i \in 1..Len(s) : t[i] = s[i]
      /\ t[Len(s) + 1] = e
  BY <1>1
<1> HIDE DEF t
<1>3. Members(t) = Members(s) \cup {e}
  <2>1. ASSUME NEW x \in Members(t)
        PROVE  x \in Members(s) \cup {e}
    <3>1. PICK i \in DOMAIN t : x = t[i]
      BY DEF Members
    <3>2. i \in 1..Len(s) \/ i = Len(s) + 1
      BY <1>2, <3>1
    <3>3. QED
      BY <1>2, <3>1, <3>2 DEF Members
  <2>2. ASSUME NEW x \in Members(s)
        PROVE  x \in Members(t)
    <3>1. PICK i \in 1..Len(s) : x = s[i]
      BY <1>2 DEF Members
    <3>2. i \in DOMAIN t /\ t[i] = x
      BY <1>2, <3>1
    <3>3. QED
      BY <3>2 DEF Members
  <2>3. e \in Members(t)
    <3>1. Len(s) + 1 \in DOMAIN t
      BY <1>2
    <3>2. QED
      BY <1>2, <3>1 DEF Members
  <2>4. QED
    BY <2>1, <2>2, <2>3
<1>4. QED
  BY <1>1, <1>3 DEF t

\* The ids in an array are those of its members.
LEMMA IdsOfMembers == \A s : Ids_(s) = {x.id : x \in Members(s)}
BY DEF Ids_, Members

\* The next iteration has seen one record more, and has not seen it before.
LEMMA SeesCurrent ==
  ASSUME LoopInv, phase = "remote", next <= Len(pull), next' = next + 1, pull' = pull
  PROVE  /\ Current \in RemoteRecords(Ids) /\ Current \notin Seen
         /\ Seen \in SUBSET RemoteRecords(Ids) /\ Seen' = Seen \cup {Current}
<1>1. /\ next \in Nat /\ next >= 1 /\ Len(pull) \in Nat /\ DOMAIN pull = 1..Len(pull)
      /\ \A i \in 1..Len(pull) : pull[i] \in RemoteRecords(Ids)
  BY DEF LoopInv, Inputs
<1>2. Current \in RemoteRecords(Ids) /\ Seen \in SUBSET RemoteRecords(Ids)
  BY <1>1 DEF Current, Seen
<1>3. ASSUME NEW i \in 1..(next - 1), pull[i] = pull[next]
      PROVE  FALSE
  <2>1. i \in DOMAIN pull /\ next \in DOMAIN pull /\ i < next
    BY <1>1
  <2>2. pull[i].modified < pull[next].modified
    BY <1>3, <2>1 DEF LoopInv, Inputs, PullOrder
  <2>3. pull[next].modified \in Int
    BY <1>2 DEF Current, RemoteRecords, Time
  <2>4. QED
    BY <1>3, <2>2, <2>3
<1>4. Current \notin Seen
  BY <1>3 DEF Current, Seen
<1>5. 1..(next' - 1) = (1..(next - 1)) \cup {next}
  BY <1>1
<1>6. Seen' = Seen \cup {Current}
  BY <1>5 DEF Seen, Current
<1>7. QED
  BY <1>2, <1>4, <1>6

\* The parts of the plan when one more record c has been seen.
LEMMA PlanGrows ==
  ASSUME NEW some, NEW c
  PROVE  /\ ApplyLocally(local, some \cup {c})
              = ApplyLocally(local, some) \cup (IF TakesRemote(local[c.id], c) THEN {c} ELSE {})
         /\ IgnoredTombstones(local, some \cup {c})
              = IgnoredTombstones(local, some)
                  \cup (IF ~Held(local[c.id]) /\ c.state = "dead" THEN {c.id} ELSE {})
         /\ Conflicts(local, some \cup {c})
              = Conflicts(local, some)
                  \cup (IF Held(local[c.id]) /\ local[c.id].dirty THEN {c.id} ELSE {})
<1>1. ApplyLocally(local, some \cup {c})
        = ApplyLocally(local, some) \cup (IF TakesRemote(local[c.id], c) THEN {c} ELSE {})
  BY DEF ApplyLocally
<1>2. IgnoredTombstones(local, some \cup {c})
        = IgnoredTombstones(local, some)
            \cup (IF ~Held(local[c.id]) /\ c.state = "dead" THEN {c.id} ELSE {})
  BY DEF IgnoredTombstones
<1>3. Conflicts(local, some \cup {c})
        = Conflicts(local, some)
            \cup (IF Held(local[c.id]) /\ local[c.id].dirty THEN {c.id} ELSE {})
  BY DEF Conflicts
<1>4. QED
  BY <1>1, <1>2, <1>3

\* defaultResolve decides for the local side where LocalWins says so.
LEMMA ResolveIsLocalWins ==
  ASSUME NEW l \in LocalRecord, NEW r \in RemoteRecords(Ids)
  PROVE  /\ Resolve(l, r) \in {"local", "remote"}
         /\ Resolve(l, r) = "local" <=> LocalWins(l, r)
<1>1. l.authorityTime \in Nat /\ r.authorityTime \in Nat
  BY DEF LocalRecord, RemoteRecords
<1>2. CASE l.authorityTime # r.authorityTime
  BY <1>1, <1>2 DEF Resolve, LocalWins
<1>3. CASE l.authorityTime = r.authorityTime
  BY <1>1, <1>3 DEF Resolve, LocalWins
<1>4. QED
  BY <1>2, <1>3

-----------------------------------------------------------------------------
\* Every step keeps the invariant.

\* An iteration of the first loop, in the terms of the operators: what each array gets.
LEMMA IterationDecides ==
  ASSUME LoopInv, Unknown \/ Clean \/ Conflict, Current \in RemoteRecords(Ids)
  PROVE  /\ applyLocally' = IF TakesRemote(Mine, Current) THEN Append(applyLocally, Current)
                                                           ELSE applyLocally
         /\ uploadRemotely' = IF KeepsLocal(Mine, Current) THEN Append(uploadRemotely, Current.id)
                                                            ELSE uploadRemotely
         /\ ignoredTombstones' = IF ~Held(Mine) /\ Current.state = "dead"
                                   THEN Append(ignoredTombstones, Current.id) ELSE ignoredTombstones
         /\ conflicts' = IF Held(Mine) /\ Mine.dirty
                           THEN Append(conflicts, [id |-> Current.id,
                                                   resolution |-> Resolve(Mine, Current)])
                           ELSE conflicts
<1>1. Mine \in LocalRecord
  BY DEF Mine, LoopInv, Inputs, RemoteRecords
<1>2. CASE Unknown
  BY <1>2 DEF Unknown, TakesRemote, KeepsLocal
<1>3. CASE Clean
  <2>1. Mine.syncedAt \in TimeOrNone /\ Current.modified \in Nat
    BY <1>1 DEF LocalRecord, RemoteRecords, Time
  <2>2. Mine.syncedAt = NoTime \/ Current.modified > Mine.syncedAt <=> Current.modified > Mine.syncedAt
    BY <2>1 DEF TimeOrNone, NoTime
  <2>3. TakesRemote(Mine, Current) <=> Current.modified > Mine.syncedAt
    BY <1>3 DEF Clean, TakesRemote
  <2>4. ~KeepsLocal(Mine, Current)
    BY <1>3 DEF Clean, KeepsLocal
  <2>5. QED
    BY <1>3, <2>2, <2>3, <2>4 DEF Clean
<1>4. CASE Conflict
  <2>1. Resolve(Mine, Current) = "local" <=> LocalWins(Mine, Current)
    BY <1>1, ResolveIsLocalWins
  <2>2. TakesRemote(Mine, Current) <=> ~LocalWins(Mine, Current)
    BY <1>4 DEF Conflict, TakesRemote
  <2>3. KeepsLocal(Mine, Current) <=> LocalWins(Mine, Current)
    BY <1>4 DEF Conflict, KeepsLocal
  <2>4. QED
    BY <1>4, <2>1, <2>2, <2>3 DEF Conflict
<1>5. QED
  BY <1>2, <1>3, <1>4

\* The arrays grow by what their part of the plan grows by.
LEMMA KeepsRemoteIteration ==
  ASSUME LoopInv, RemoteIteration
  PROVE  LoopInv'
<1> DEFINE c == Current
           l == local[c.id]
           note == [id |-> c.id, resolution |-> Resolve(l, c)]
<1>1. /\ phase = "remote" /\ next <= Len(pull) /\ next' = next + 1
      /\ local' = local /\ pull' = pull /\ phase' = phase /\ todo' = todo
      /\ (Unknown \/ Clean \/ Conflict)
  BY DEF RemoteIteration
<1>2. /\ c \in RemoteRecords(Ids) /\ c \notin Seen
      /\ Seen \in SUBSET RemoteRecords(Ids) /\ Seen' = Seen \cup {c}
  BY <1>1, SeesCurrent
<1>3. l \in LocalRecord /\ c.id \in Ids /\ note \in ConflictRecords
  <2>1. c.id \in Ids
    BY <1>2 DEF RemoteRecords
  <2>2. l \in LocalRecord
    BY <2>1 DEF LoopInv, Inputs
  <2>3. Resolve(l, c) \in {"local", "remote"}
    BY <1>2, <2>2, ResolveIsLocalWins
  <2>4. QED
    BY <2>1, <2>2, <2>3 DEF ConflictRecords
<1>4. /\ applyLocally' = IF TakesRemote(l, c) THEN Append(applyLocally, c) ELSE applyLocally
      /\ uploadRemotely' = IF KeepsLocal(l, c) THEN Append(uploadRemotely, c.id) ELSE uploadRemotely
      /\ ignoredTombstones' = IF ~Held(l) /\ c.state = "dead"
                                THEN Append(ignoredTombstones, c.id) ELSE ignoredTombstones
      /\ conflicts' = IF Held(l) /\ l.dirty THEN Append(conflicts, note) ELSE conflicts
  BY <1>1, <1>2, IterationDecides DEF Mine
<1>5. Inputs'
  BY <1>1 DEF LoopInv, Inputs
<1> HIDE DEF c, l, note
<1>6. Arrays /\ ApplySoFar /\ IgnoredSoFar /\ ConflictsSoFar /\ UploadSoFar /\ NoneTwice
  BY DEF LoopInv, PlanSoFar
<1>7. /\ applyLocally' \in Seq(RemoteRecords(Ids))
      /\ Members(applyLocally') = Members(applyLocally) \cup (IF TakesRemote(l, c) THEN {c} ELSE {})
      /\ Len(applyLocally') = Len(applyLocally) + (IF TakesRemote(l, c) THEN 1 ELSE 0)
  <2>1. CASE TakesRemote(l, c)
    BY <1>2, <1>4, <1>6, <2>1, AppendMembers DEF Arrays
  <2>2. CASE ~TakesRemote(l, c)
    BY <1>4, <1>6, <2>2 DEF Arrays
  <2>3. QED
    BY <2>1, <2>2
<1>8. /\ uploadRemotely' \in Seq(Ids)
      /\ Members(uploadRemotely') = Members(uploadRemotely) \cup (IF KeepsLocal(l, c) THEN {c.id} ELSE {})
  <2>1. CASE KeepsLocal(l, c)
    BY <1>3, <1>4, <1>6, <2>1, AppendMembers DEF Arrays
  <2>2. CASE ~KeepsLocal(l, c)
    BY <1>4, <1>6, <2>2 DEF Arrays
  <2>3. QED
    BY <2>1, <2>2
<1>9. /\ ignoredTombstones' \in Seq(Ids)
      /\ Members(ignoredTombstones') = Members(ignoredTombstones)
                                         \cup (IF ~Held(l) /\ c.state = "dead" THEN {c.id} ELSE {})
  <2>1. CASE ~Held(l) /\ c.state = "dead"
    BY <1>3, <1>4, <1>6, <2>1, AppendMembers DEF Arrays
  <2>2. CASE ~(~Held(l) /\ c.state = "dead")
    BY <1>4, <1>6, <2>2 DEF Arrays
  <2>3. QED
    BY <2>1, <2>2
<1>10. /\ conflicts' \in Seq(ConflictRecords)
       /\ Ids_(conflicts') = Ids_(conflicts) \cup (IF Held(l) /\ l.dirty THEN {c.id} ELSE {})
  <2>1. CASE Held(l) /\ l.dirty
    <3>1. /\ conflicts' \in Seq(ConflictRecords)
          /\ Members(conflicts') = Members(conflicts) \cup {note}
      BY <1>3, <1>4, <1>6, <2>1, AppendMembers DEF Arrays
    <3>2. note.id = c.id
      BY DEF note
    <3>3. Ids_(conflicts') = Ids_(conflicts) \cup {c.id}
      BY <3>1, <3>2, IdsOfMembers
    <3>4. QED
      BY <2>1, <3>1, <3>3
  <2>2. CASE ~(Held(l) /\ l.dirty)
    BY <1>4, <1>6, <2>2 DEF Arrays
  <2>3. QED
    BY <2>1, <2>2
<1>11. Arrays'
  BY <1>7, <1>8, <1>9, <1>10 DEF Arrays
<1>12. ApplySoFar' /\ IgnoredSoFar' /\ ConflictsSoFar'
  <2>1. /\ ApplyLocally(local', Seen')
             = ApplyLocally(local, Seen) \cup (IF TakesRemote(l, c) THEN {c} ELSE {})
        /\ IgnoredTombstones(local', Seen')
             = IgnoredTombstones(local, Seen) \cup (IF ~Held(l) /\ c.state = "dead" THEN {c.id} ELSE {})
        /\ Conflicts(local', Seen')
             = Conflicts(local, Seen) \cup (IF Held(l) /\ l.dirty THEN {c.id} ELSE {})
    BY <1>1, <1>2, PlanGrows DEF l
  <2>2. QED
    BY <1>6, <1>7, <1>9, <1>10, <2>1 DEF ApplySoFar, IgnoredSoFar, ConflictsSoFar
<1>13. UploadSoFar'
  <2>1. ASSUME NEW id \in Ids
        PROVE  Uploaded(id)' <=> Uploaded(id) \/ (KeepsLocal(l, c) /\ id = c.id)
    BY <1>1, <1>2 DEF Uploaded, KeepsLocal, l
  <2>2. QED
    BY <1>3, <1>6, <1>8, <2>1 DEF UploadSoFar
<1>14. NoneTwice'
  <2>1. CASE TakesRemote(l, c)
    <3>1. c \notin Members(applyLocally)
      BY <1>2, <1>6 DEF ApplySoFar, ApplyLocally
    <3>2. /\ IsFiniteSet(Members(applyLocally) \cup {c})
          /\ Cardinality(Members(applyLocally) \cup {c}) = Cardinality(Members(applyLocally)) + 1
      BY <1>6, <3>1, FS_AddElement DEF NoneTwice
    <3>3. QED
      BY <1>6, <1>7, <2>1, <3>2 DEF NoneTwice
  <2>2. CASE ~TakesRemote(l, c)
    BY <1>4, <1>6, <2>2 DEF NoneTwice
  <2>3. QED
    BY <2>1, <2>2
<1>15. QED
  BY <1>5, <1>11, <1>12, <1>13, <1>14 DEF LoopInv, PlanSoFar

\* An iteration of the second loop adds the record it visits if no pull decided on it.
LEMMA KeepsLocalIteration ==
  ASSUME LoopInv, NEW id \in Ids, LocalIteration(id)
  PROVE  LoopInv'
<1> DEFINE alone == \A i \in DOMAIN pull : pull[i].id # id
<1>1. /\ phase = "local" /\ id \in todo /\ todo' = todo \ {id}
      /\ UNCHANGED <<local, pull, phase, next, applyLocally, conflicts, ignoredTombstones>>
      /\ uploadRemotely' = IF Held(local[id]) /\ local[id].dirty /\ alone
                             THEN Append(uploadRemotely, id) ELSE uploadRemotely
  BY DEF LocalIteration
<1>2. Inputs'
  BY <1>1 DEF LoopInv, Inputs
<1>3. Seen' = Seen
  BY <1>1 DEF Seen
<1>4. Arrays /\ UploadSoFar
  BY DEF LoopInv, PlanSoFar
<1>5. /\ uploadRemotely' \in Seq(Ids)
      /\ Members(uploadRemotely') = Members(uploadRemotely)
            \cup (IF Held(local[id]) /\ local[id].dirty /\ alone THEN {id} ELSE {})
  <2>1. CASE Held(local[id]) /\ local[id].dirty /\ alone
    BY <1>1, <1>4, <2>1, AppendMembers DEF Arrays
  <2>2. CASE ~(Held(local[id]) /\ local[id].dirty /\ alone)
    BY <1>1, <1>4, <2>2 DEF Arrays
  <2>3. QED
    BY <2>1, <2>2
<1>6. UploadSoFar'
  <2>1. ASSUME NEW i \in Ids
        PROVE  Uploaded(i)' <=> Uploaded(i) \/ (Held(local[i]) /\ local[i].dirty /\ alone /\ i = id)
    BY <1>1, <1>3 DEF Uploaded
  <2>2. QED
    BY <1>4, <1>5, <2>1 DEF UploadSoFar
<1>7. Arrays'
  BY <1>1, <1>4, <1>5 DEF Arrays
<1>8. ApplySoFar' /\ IgnoredSoFar' /\ ConflictsSoFar' /\ NoneTwice'
  BY <1>1, <1>3 DEF LoopInv, PlanSoFar, ApplySoFar, IgnoredSoFar, ConflictsSoFar, NoneTwice
<1>9. QED
  BY <1>2, <1>6, <1>7, <1>8 DEF LoopInv, PlanSoFar

\* Nothing has been seen before the loops begin.
LEMMA LoopInit == ReconcileInit => LoopInv
<1> SUFFICES ASSUME ReconcileInit PROVE LoopInv
  OBVIOUS
<1>1. LocalChoices \subseteq LocalRecord /\ RemoteChoices \subseteq RemoteRecords(Ids)
  <2>1. (\A a \in Authorities : a \in Nat) /\ (\A t \in Times : t \in Nat)
    BY LoopAssumption
  <2>2. Absent \in LocalRecord
    BY DEF Absent, LocalRecord, TimeOrNone, NoTime
  <2>3. ASSUME NEW l \in [state: {"live", "dead"}, data: {1}, authorityTime: Authorities,
                          syncedAt: Times \cup {NoTime}, dirty: BOOLEAN]
        PROVE  l \in LocalRecord
    <3>0. /\ l.state \in {"live", "dead"} /\ l.data \in {1} /\ l.authorityTime \in Authorities
          /\ l.syncedAt \in Times \cup {NoTime}
      OBVIOUS
    <3>1. /\ l.state \in {"none", "live", "dead"} /\ l.data \in Nat /\ l.authorityTime \in Nat
          /\ l.syncedAt \in TimeOrNone
      <4>1. l.authorityTime \in Nat
        BY <2>1, <3>0
      <4>2. l.syncedAt \in TimeOrNone
        BY <2>1, <3>0 DEF TimeOrNone
      <4>3. QED
        BY <3>0, <4>1, <4>2
    <3>2. l.dirty \in BOOLEAN
      OBVIOUS
    <3>3. l = [state |-> l.state, data |-> l.data, authorityTime |-> l.authorityTime,
               syncedAt |-> l.syncedAt, dirty |-> l.dirty]
      OBVIOUS
    <3>4. QED
      BY <3>1, <3>2, <3>3 DEF LocalRecord
  <2>4. ASSUME NEW r \in RemoteChoices
        PROVE  r \in RemoteRecords(Ids)
    <3>0. /\ r.id \in Ids /\ r.state \in {"live", "dead"} /\ r.data \in {2}
          /\ r.authorityTime \in Authorities /\ r.modified \in Times
      BY DEF RemoteChoices
    <3>1. /\ r.id \in Ids /\ r.state \in {"live", "dead"} /\ r.data \in Nat
          /\ r.authorityTime \in Nat /\ r.modified \in Time
      <4>1. r.authorityTime \in Nat /\ r.modified \in Nat
        BY <2>1, <3>0
      <4>2. QED
        BY <3>0, <4>1 DEF Time
    <3>2. r = [id |-> r.id, state |-> r.state, data |-> r.data,
               authorityTime |-> r.authorityTime, modified |-> r.modified]
      BY DEF RemoteChoices
    <3>3. QED
      BY <3>1, <3>2 DEF RemoteRecords
  <2>5. QED
    BY <2>2, <2>3, <2>4 DEF LocalChoices
<1>2. local \in [Ids -> LocalRecord]
  BY <1>1 DEF ReconcileInit
<1>3. pull \in Seq(RemoteRecords(Ids))
  <2>1. PICK n \in 0..MaxRemote : pull \in [1..n -> RemoteChoices]
    BY DEF ReconcileInit
  <2>2. n \in Nat
    BY LoopAssumption
  <2>3. QED
    BY <1>1, <2>1, <2>2
<1>4. Inputs
  BY <1>2, <1>3 DEF ReconcileInit, Inputs
<1>5. Seen = {}
  BY DEF ReconcileInit, Seen
<1>6. Members(<<>>) = {} /\ Ids_(<<>>) = {}
  BY DEF Members, Ids_
<1>7. Arrays
  BY DEF ReconcileInit, Arrays
<1>8. ApplySoFar /\ IgnoredSoFar /\ ConflictsSoFar
  BY <1>5, <1>6 DEF ReconcileInit, ApplySoFar, IgnoredSoFar, ConflictsSoFar, ApplyLocally, IgnoredTombstones, Conflicts
<1>9. UploadSoFar
  BY <1>5, <1>6 DEF ReconcileInit, UploadSoFar, Uploaded
<1>10. NoneTwice
  BY <1>6, FS_EmptySet DEF ReconcileInit, NoneTwice
<1>11. QED
  BY <1>4, <1>7, <1>8, <1>9, <1>10 DEF LoopInv, PlanSoFar

\* Every step keeps the invariant.
LEMMA LoopNext == LoopInv /\ [ReconcileNext]_loops => LoopInv'
<1> SUFFICES ASSUME LoopInv, [ReconcileNext]_loops PROVE LoopInv'
  OBVIOUS
<1>1. CASE RemoteIteration
  BY <1>1, KeepsRemoteIteration
<1>2. CASE \E id \in Ids : LocalIteration(id)
  BY <1>2, KeepsLocalIteration
<1>3. CASE RemoteLoopEnds \/ LocalLoopEnds \/ UNCHANGED loops
  <2>1. UNCHANGED <<local, pull, next, todo, plan>>
    BY <1>3 DEF RemoteLoopEnds, LocalLoopEnds, loops
  <2>2. Inputs'
    <3>1. CASE RemoteLoopEnds
      BY <3>1 DEF RemoteLoopEnds, LoopInv, Inputs
    <3>2. CASE LocalLoopEnds
      BY <3>2 DEF LocalLoopEnds, LoopInv, Inputs
    <3>3. CASE UNCHANGED loops
      BY <3>3 DEF loops, LoopInv, Inputs
    <3>4. QED
      BY <1>3, <3>1, <3>2, <3>3
  <2>3. Seen' = Seen
    BY <2>1 DEF Seen
  <2>4. Arrays'
    BY <2>1 DEF LoopInv, Arrays, plan
  <2>5. UploadSoFar'
    BY <2>1, <2>3 DEF LoopInv, PlanSoFar, UploadSoFar, Uploaded, plan
  <2>6. ApplySoFar' /\ IgnoredSoFar' /\ ConflictsSoFar' /\ NoneTwice'
    BY <2>1, <2>3 DEF LoopInv, PlanSoFar, ApplySoFar, IgnoredSoFar, ConflictsSoFar, NoneTwice, plan
  <2>7. QED
    BY <2>2, <2>4, <2>5, <2>6 DEF LoopInv, PlanSoFar
<1>4. QED
  BY <1>1, <1>2, <1>3 DEF ReconcileNext

\* When the loops are done, all that was pulled has been seen.
LEMMA AllSeen ==
  ASSUME LoopInv, phase = "done"
  PROVE  Seen = Members(pull) /\ Members(pull) \in SUBSET RemoteRecords(Ids)
<1>1. /\ next = Len(pull) + 1 /\ Len(pull) \in Nat /\ DOMAIN pull = 1..Len(pull)
      /\ \A i \in DOMAIN pull : pull[i] \in RemoteRecords(Ids)
  BY DEF LoopInv, Inputs
<1>2. 1..(next - 1) = DOMAIN pull
  BY <1>1
<1>3. QED
  BY <1>1, <1>2 DEF Seen, Members

\* At the end the four arrays are the plan the rules describe.
LEMMA LoopsComputePlan == LoopInv => PlanIsReference
<1> SUFFICES ASSUME LoopInv, phase = "done" PROVE PlanIsReference
  BY DEF PlanIsReference
<1>1. Seen = Members(pull) /\ todo = {} /\ DOMAIN local = Ids
  BY AllSeen DEF LoopInv, Inputs
<1>2. Members(uploadRemotely) = UploadRemotely(local, Members(pull))
  <2>1. ASSUME NEW id
        PROVE  (\A i \in DOMAIN pull : pull[i].id # id) <=> (\A r \in Members(pull) : r.id # id)
    BY DEF Members
  <2>2. QED
    BY <1>1, <2>1 DEF LoopInv, PlanSoFar, UploadSoFar, Uploaded, UploadRemotely
<1>3. QED
  BY <1>1, <1>2 DEF PlanIsReference, LoopInv, PlanSoFar, ApplySoFar, IgnoredSoFar, ConflictsSoFar, NoneTwice

\* The two loops return exactly the plan that the conflict rules describe, in whatever
\* order the pull and the local records come (reconcile.ts:101-140).
THEOREM LoopsReturnThePlan == ReconcileSpec => []PlanIsReference
BY LoopInit, LoopNext, LoopsComputePlan, PTL DEF ReconcileSpec

\* No member of the plan is anything but a pulled record or a local id.
LEMMA LoopTypes == LoopInv => LoopTypeOK
<1> SUFFICES ASSUME LoopInv PROVE LoopTypeOK
  OBVIOUS
<1>1. /\ local \in [Ids -> LocalRecord] /\ phase \in {"remote", "local", "done"}
      /\ next \in 1..(Len(pull) + 1) /\ todo \subseteq Ids
      /\ \A i \in DOMAIN pull : pull[i] \in RemoteRecords(Ids)
  BY DEF LoopInv, Inputs
<1>2. Members(applyLocally) \subseteq Members(pull)
  <2>1. Seen \subseteq Members(pull)
    <3>1. next - 1 <= Len(pull) /\ DOMAIN pull = 1..Len(pull) /\ Len(pull) \in Nat /\ next \in Nat
      BY DEF LoopInv, Inputs
    <3>2. 1..(next - 1) \subseteq DOMAIN pull
      BY <3>1
    <3>3. QED
      BY <3>2 DEF Seen, Members
  <2>2. QED
    BY <2>1 DEF LoopInv, PlanSoFar, ApplySoFar, ApplyLocally
<1>3. Members(uploadRemotely) \subseteq Ids /\ Members(ignoredTombstones) \subseteq Ids
  BY DEF LoopInv, Arrays, Members
<1>4. QED
  BY <1>1, <1>2, <1>3 DEF LoopTypeOK

\* An edit is both uploaded and replaced only if two versions of it were pulled.
LEMMA NoneForgotten == LoopInv => NoEditForgotten
<1> SUFFICES ASSUME LoopInv, phase = "done", NEW id \in Ids, Held(local[id]), local[id].dirty
             PROVE  /\ id \in Members(uploadRemotely) \cup Ids_(applyLocally)
                    /\ id \in Members(uploadRemotely) \cap Ids_(applyLocally)
                         => \E i, j \in DOMAIN pull : i # j /\ pull[i].id = id /\ pull[j].id = id
  BY DEF NoEditForgotten
<1>1. /\ Members(uploadRemotely) = UploadRemotely(local, Members(pull))
      /\ Members(applyLocally) = ApplyLocally(local, Members(pull))
  BY LoopsComputePlan DEF PlanIsReference
<1>2. local \in [Ids -> LocalRecord] /\ Members(pull) \in SUBSET RemoteRecords(Ids)
  BY AllSeen DEF LoopInv, Inputs
<1>3. id \in Members(uploadRemotely) \cup Ids_(applyLocally)
  BY <1>1, <1>2, DirtyIsDecided, IdsOfMembers
<1>4. ASSUME id \in Members(uploadRemotely), id \in Ids_(applyLocally)
      PROVE  \E i, j \in DOMAIN pull : i # j /\ pull[i].id = id /\ pull[j].id = id
  <2>1. PICK r \in Members(pull) : r.id = id /\ TakesRemote(local[id], r)
    BY <1>1, <1>4, IdsOfMembers DEF ApplyLocally
  <2>2. PICK q \in Members(pull) : q.id = id /\ KeepsLocal(local[id], q)
    BY <1>1, <1>4, <2>1 DEF UploadRemotely
  <2>3. q # r
    BY <1>2, <2>1, <2>2, ConflictIsDecided
  <2>4. PICK i \in DOMAIN pull, j \in DOMAIN pull : pull[i] = r /\ pull[j] = q
    BY DEF Members
  <2>5. QED
    BY <2>1, <2>2, <2>3, <2>4
<1>5. QED
  BY <1>3, <1>4

\* A live version replaces a deletion only with a later authority, and loses ties.
LEMMA TiesAreDeleted == LoopInv => DeletionWinsTies
<1> SUFFICES ASSUME LoopInv, phase = "done", NEW i \in DOMAIN pull,
                    Held(local[pull[i].id]), local[pull[i].id].dirty
             PROVE  LET r == pull[i]  l == local[r.id] IN
                    /\ l.state = "dead" /\ r.state = "live" /\ l.authorityTime >= r.authorityTime
                         => r \notin Members(applyLocally) /\ r.id \in Members(uploadRemotely)
                    /\ l.state = "live" /\ r.state = "dead" /\ l.authorityTime = r.authorityTime
                         => r \in Members(applyLocally)
  BY DEF DeletionWinsTies
<1> DEFINE r == pull[i]
           l == local[r.id]
<1>1. /\ Members(uploadRemotely) = UploadRemotely(local, Members(pull))
      /\ Members(applyLocally) = ApplyLocally(local, Members(pull))
  BY LoopsComputePlan DEF PlanIsReference
<1>2. local \in [Ids -> LocalRecord] /\ Members(pull) \in SUBSET RemoteRecords(Ids) /\ r \in Members(pull)
  BY AllSeen DEF LoopInv, Inputs, Members
<1>3. r \in RemoteRecords(Ids) /\ r.id \in Ids /\ r.authorityTime \in Nat /\ l \in LocalRecord /\ l.authorityTime \in Nat
  BY <1>2 DEF RemoteRecords, LocalRecord
<1> HIDE DEF r
<1>4. ASSUME l.state = "dead", r.state = "live", l.authorityTime >= r.authorityTime
      PROVE  r \notin Members(applyLocally) /\ r.id \in Members(uploadRemotely)
  <2>1. r \notin ApplyLocally(local, Members(pull))
    BY <1>2, <1>3, <1>4, DeletionNotResurrected DEF r
  <2>2. KeepsLocal(l, r)
    BY <1>3, <1>4 DEF KeepsLocal, LocalWins, r
  <2>3. r.id \in UploadRemotely(local, Members(pull))
    BY <1>2, <1>3, <2>2 DEF UploadRemotely, KeepsLocal
  <2>4. QED
    BY <1>1, <2>1, <2>3
<1>5. ASSUME l.state = "live", r.state = "dead", l.authorityTime = r.authorityTime
      PROVE  r \in Members(applyLocally)
  <2>1. ~LocalWins(l, r)
    BY <1>3, <1>5 DEF LocalWins
  <2>2. TakesRemote(l, r)
    BY <2>1 DEF TakesRemote, r
  <2>3. QED
    BY <1>1, <1>2, <2>2 DEF ApplyLocally
<1>6. QED
  BY <1>4, <1>5 DEF r

\* No plan forgets an unpushed edit or lets a live version win a tie with a deletion
\* (reconcile.ts:26, 62-64; docs/PROTOCOL.md:248).
THEOREM PlansAreSafe == ReconcileSpec => []PlanIsSafe
<1>1. LoopInv => PlanIsSafe
  BY LoopTypes, NoneForgotten, TiesAreDeleted DEF PlanIsSafe
<1>2. QED
  BY <1>1, LoopInit, LoopNext, PTL DEF ReconcileSpec

-----------------------------------------------------------------------------
\* What the engine relies on of reconcile() and of the writes that follow it.

\* Only unpushed edits are uploaded: a clean record never travels back.
LEMMA OnlyDirtyIsUploaded ==
  ASSUME NEW ids, NEW held \in [ids -> LocalRecord], NEW pulled,
         NEW id \in UploadRemotely(held, pulled)
  PROVE  id \in ids /\ Held(held[id]) /\ held[id].dirty
BY DEF UploadRemotely

\* Among pulled versions of an id one is the newest: their times are natural
\* numbers no greater than the server's clock.
LEMMA NewestExists ==
  ASSUME NEW ids, NEW records \in SUBSET RemoteRecords(ids),
         NEW now \in Nat, \A r \in records : r.modified <= now,
         NEW id, \E r \in records : r.id = id
  PROVE  \E r \in records : r.id = id /\ IsNewest(r, records)
<1> DEFINE Ages == {now - r.modified : r \in {q \in records : q.id = id}}
<1>1. \A r \in records : r.modified \in Nat
  BY DEF RemoteRecords, Time
<1>2. Ages \in SUBSET Nat /\ Ages # {}
  BY <1>1
<1> HIDE DEF Ages
<1>3. PICK age \in Ages : \A x \in Ages : ~(<<x, age>> \in OpToRel(<, Nat))
  BY <1>2, NatLessThanWellFounded, WFMin
<1>4. ASSUME NEW x \in Ages
      PROVE  age <= x
  <2>1. x \in Nat /\ age \in Nat
    BY <1>2, <1>3
  <2>2. x < age => <<x, age>> \in OpToRel(<, Nat)
    BY <2>1 DEF OpToRel
  <2>3. ~(x < age)
    BY <1>3, <2>2, Zenon
  <2>4. QED
    BY <2>1, <2>3
<1>5. PICK r \in records : r.id = id /\ age = now - r.modified
  BY <1>3 DEF Ages
<1>6. ASSUME NEW q \in records, q.id = r.id
      PROVE  q.modified <= r.modified
  <2>1. now - q.modified \in Ages
    BY <1>5, <1>6 DEF Ages
  <2>2. QED
    BY <2>1, <1>1, <1>4, <1>5
<1>7. QED
  BY <1>5, <1>6 DEF IsNewest

\* Applying a plan replaces a record by the newest of the versions it won
\* with, clean and synced at that version's time, and leaves the others alone.
LEMMA AppliedIsNewest ==
  ASSUME NEW ids, NEW held \in [ids -> LocalRecord],
         NEW records \in SUBSET RemoteRecords(ids),
         NEW now \in Nat, \A r \in records : r.modified <= now
  PROVE  /\ Applied(held, records) \in [ids -> LocalRecord]
         /\ \A id \in ids :
              \/ /\ \A r \in records : r.id # id
                 /\ Applied(held, records)[id] = held[id]
              \/ \E r \in records : /\ r.id = id /\ IsNewest(r, records)
                                    /\ Applied(held, records)[id] = Adopted(r)
<1> DEFINE new == Applied(held, records)
<1>0. DOMAIN held = ids /\ DOMAIN new = ids
  BY DEF Applied
<1>1. ASSUME NEW id \in ids
      PROVE  \/ (\A r \in records : r.id # id) /\ new[id] = held[id]
             \/ \E r \in records : r.id = id /\ IsNewest(r, records) /\ new[id] = Adopted(r)
  <2>1. CASE \A r \in records : r.id # id
    BY <2>1, <1>0 DEF Applied
  <2>2. CASE \E r \in records : r.id = id
    <3> DEFINE best == CHOOSE r \in records : r.id = id /\ IsNewest(r, records)
    <3>1. \E r \in records : r.id = id /\ IsNewest(r, records)
      BY <2>2, NewestExists
    <3>2. best \in records /\ best.id = id /\ IsNewest(best, records)
      BY <3>1
    <3>3. new[id] = Adopted(best)
      BY <2>2, <1>0 DEF Applied
    <3>4. QED
      BY <3>2, <3>3
  <2>3. QED
    BY <2>1, <2>2
<1>2. ASSUME NEW r \in records
      PROVE  Adopted(r) \in LocalRecord
  BY DEF Adopted, LocalRecord, RemoteRecords, Time, TimeOrNone
<1>3. new = [id \in ids |-> new[id]]
  BY <1>0 DEF Applied
<1>4. QED
  BY <1>1, <1>2, <1>3

-----------------------------------------------------------------------------
\* The server's clock is ahead of everything it wrote and of every mark.
Clocks ==
  /\ \A id \in Ids : OnServer(id) => server[id].modified \in Nat /\ server[id].modified <= lastModified
  /\ lastModified <= clock
  /\ syncState.lastModified <= clock /\ state.lastModified <= clock
  /\ highWaterMark <= clock
  /\ \A r \in remote : r.modified <= clock
  /\ pc = "posted" => modified <= clock

BaseInv == TypeOK /\ Clocks

\* At the start there are no marks and nothing is pulled; the seeds are no newer than the clock.
LEMMA BaseInit == Init => BaseInv
<1> SUFFICES ASSUME Init PROVE BaseInv
  OBVIOUS
<1> USE SyncAssumption DEF Init
<1>1. Absent \in LocalRecord /\ Missing \in ServerRecord
  BY DEF Absent, LocalRecord, Missing, ServerRecord, TimeOrNone, NoTime
<1>2. Seeded \in [Ids -> ServerRecord]
  BY <1>1 DEF Seeded, ServerRecord, TimeOrNone, NoTime
<1>3. history \in SUBSET Version
  <2>1. \A id \in SeedIds : Seeded[id].state = "live" /\ Seeded[id].data = 0 /\ Seeded[id].modified = 1
    BY DEF Seeded
  <2>2. \A id \in SeedIds : VersionOf(id, Seeded[id]) \in Version
    BY ONLY SyncAssumption, <2>1 DEF VersionOf, Version, Time
  <2>3. QED
    BY <2>2
<1>4. TypeOK
  <2>1. vault \in [Ids -> LocalRecord] /\ server \in [Ids -> ServerRecord]
    BY <1>1, <1>2
  <2>2. /\ syncState \in CollectionSyncState /\ state \in CollectionSyncState
        /\ lastModified \in TimeOrNone /\ clock \in Time
    BY DEF CollectionSyncState, TimeOrNone, NoTime, Time, NoId
  <2>3. /\ info \in TimeOrNone /\ unread \subseteq Ids /\ highWaterMark \in TimeOrNone
        /\ modified \in TimeOrNone /\ pc \in States /\ engineSyncId \in Nat
    BY DEF TimeOrNone, States
  <2>4. /\ remote = {} /\ bsos = {} /\ accepted = {} /\ seen = {} /\ raced = {} /\ blind = FALSE
        /\ pc # "posted"
    OBVIOUS
  <2>5. edits \in 0..MaxEdits /\ faults \in 0..MaxFaults /\ resets \in 0..MaxResets
    OBVIOUS
  <2>6. /\ remote \subseteq RemoteRecords(Ids) /\ bsos \subseteq Bso /\ accepted \subseteq Ids
        /\ seen \subseteq (Ids \X Time) /\ raced \subseteq Ids /\ blind \in BOOLEAN
        /\ pc = "posted" => modified # NoTime
    BY ONLY <2>4
  <2>7. QED
    BY ONLY <1>3, <2>1, <2>2, <2>3, <2>5, <2>6 DEF TypeOK
<1>5. Clocks
  <2>1. \A id \in Ids : OnServer(id) => id \in SeedIds /\ server[id].modified = 1
    BY DEF OnServer, Seeded, Missing
  <2>2. SeedIds # {} => lastModified = 1
    OBVIOUS
  <2>3. \A id \in Ids : OnServer(id) => server[id].modified \in Nat /\ server[id].modified <= lastModified
    BY <2>1, <2>2
  <2>4. QED
    BY <2>3 DEF Clocks, NoTime
<1>6. QED
  BY <1>4, <1>5 DEF BaseInv

-----------------------------------------------------------------------------
\* Each action keeps types and clocks.

\* One write of a record into the vault, with its count of edits.
LEMMA BaseWrite ==
  ASSUME BaseInv, NEW id \in Ids, NEW rec \in LocalRecord, Write(id, rec)
  PROVE  BaseInv'
<1> USE DEF BaseInv, Write, NoteRace, cloud, run
<1>1. TypeOK'
  BY SyncAssumption DEF TypeOK
<1>2. Clocks'
  BY DEF Clocks, OnServer
<1>3. QED
  BY <1>1, <1>2

\* The user's four operations on a record are writes.
LEMMA BaseUserEdit == BaseInv /\ UserEdit => BaseInv'
<1> SUFFICES ASSUME BaseInv, UserEdit PROVE BaseInv'
  OBVIOUS
<1> USE SyncAssumption DEF BaseInv, TypeOK, LocalRecord, TimeOrNone, NoTime, Held
<1>1. PICK id \in Ids : addPassword(id) \/ updatePassword(id) \/ patchPassword(id) \/ deletePassword(id)
  BY DEF UserEdit
<1>2. edits + 1 \in Nat /\ vault[id] \in LocalRecord
  OBVIOUS
<1>3. \E rec \in LocalRecord : Write(id, rec)
  <2>1. CASE addPassword(id)
    BY <1>2, <2>1 DEF addPassword
  <2>2. CASE updatePassword(id)
    BY <1>2, <2>2 DEF updatePassword
  <2>3. CASE patchPassword(id)
    BY <1>2, <2>3 DEF patchPassword
  <2>4. CASE deletePassword(id)
    BY <1>2, <2>4 DEF deletePassword
  <2>5. QED
    BY <1>1, <2>1, <2>2, <2>3, <2>4
<1>4. QED
  BY <1>3, BaseWrite

\* A peer writes at the clock's next tick, which becomes the collection's time.
LEMMA BasePeerWrite ==
  ASSUME BaseInv, NEW id \in Ids, PeerWrite(id)
  PROVE  BaseInv'
<1> USE SyncAssumption DEF BaseInv, PeerWrite, device, run
<1>1. PICK st \in {"live", "dead"}, auth \in Authorities, ok \in Readable :
        /\ server' = [server EXCEPT ![id] =
             [state |-> st, data |-> edits + 1, authorityTime |-> auth,
              modified |-> clock + 1, readable |-> ok]]
        /\ history' = history \cup {VersionOf(id, server'[id])}
  OBVIOUS
<1>2. clock + 1 \in Nat /\ edits + 1 \in Nat
  BY DEF TypeOK, Time
<1>3. server' \in [Ids -> ServerRecord]
  BY <1>1, <1>2 DEF TypeOK, ServerRecord, TimeOrNone
<1>4. VersionOf(id, server'[id]) \in Version
  BY <1>1, <1>2 DEF TypeOK, VersionOf, Version, Time
<1>5. TypeOK'
  BY <1>1, <1>2, <1>3, <1>4 DEF TypeOK, Time, TimeOrNone
<1>6. Clocks'
  BY <1>1, <1>2 DEF Clocks, OnServer, TypeOK, Time, TimeOrNone, NoTime, CollectionSyncState,
                    RemoteRecords, ServerRecord
<1>7. QED
  BY <1>5, <1>6

\* A reset takes the collection away and leaves the clock.
LEMMA BasePeerReset == BaseInv /\ PeerReset => BaseInv'
<1> SUFFICES ASSUME BaseInv, PeerReset PROVE BaseInv'
  OBVIOUS
<1> USE SyncAssumption DEF BaseInv, PeerReset, device, run, ghosts
<1>1. Missing \in ServerRecord
  BY DEF Missing, ServerRecord, TimeOrNone, NoTime
<1>2. TypeOK'
  BY <1>1 DEF TypeOK, Time, TimeOrNone, NoTime, NoId
<1>3. Clocks'
  BY DEF Clocks, OnServer, Missing, TypeOK, Time, NoTime
<1>4. QED
  BY <1>2, <1>3

\* The first two steps of a run read the disk and the collection's time.
LEMMA BaseStart == BaseInv /\ (Start \/ InfoCollections) => BaseInv'
BY SyncAssumption
   DEF BaseInv, TypeOK, Clocks, OnServer, Start, InfoCollections, device, cloud, ghosts, counters,
       States, CollectionSyncState

\* The engine metadata decide the mark: the one on disk, or none.
LEMMA BaseReadMeta == BaseInv /\ ReadMeta => BaseInv'
<1> SUFFICES ASSUME BaseInv, ReadMeta PROVE BaseInv'
  OBVIOUS
<1> USE DEF BaseInv, ReadMeta, device, cloud, ghosts, counters
<1>1. MarkAfterMeta \in TimeOrNone /\ MarkAfterMeta <= clock
  BY DEF MarkAfterMeta, TypeOK, Clocks, CollectionSyncState, TimeOrNone, NoTime, Time
<1>2. TypeOK'
  BY <1>1 DEF TypeOK, CollectionSyncState, States, AfterMeta
<1>3. Clocks'
  BY <1>1 DEF Clocks, OnServer, AfterMeta
<1>4. QED
  BY <1>2, <1>3

\* What a page decodes to: versions on the server, not ahead of its clock.
LEMMA DecodedIsPulled ==
  ASSUME BaseInv, NEW ids \in SUBSET {id \in Ids : OnServer(id)}
  PROVE  /\ Decoded(ids) \in SUBSET RemoteRecords(Ids)
         /\ \A r \in Decoded(ids) : r.modified <= clock
         /\ \A id \in ids : server[id].readable =>
              \E r \in Decoded(ids) : r.id = id /\ r.modified = server[id].modified
<1>1. ASSUME NEW id \in ids
      PROVE  /\ server[id].state \in {"live", "dead"} /\ server[id].data \in Nat
             /\ server[id].authorityTime \in Nat /\ server[id].modified \in Nat
             /\ server[id].modified <= clock
  <2>1. id \in Ids /\ OnServer(id) /\ server[id] \in ServerRecord
    BY DEF BaseInv, TypeOK
  <2>2. server[id].modified \in Nat /\ server[id].modified <= lastModified /\ lastModified <= clock
    BY <2>1 DEF BaseInv, Clocks
  <2>3. lastModified \in Int /\ clock \in Int
    BY DEF BaseInv, TypeOK, TimeOrNone, NoTime, Time
  <2>4. QED
    BY <2>1, <2>2, <2>3 DEF OnServer, ServerRecord
<1>2. ASSUME NEW r \in Decoded(ids)
      PROVE  r \in RemoteRecords(Ids) /\ r.modified <= clock
  BY <1>1 DEF Decoded, RemoteRecords, Time
<1>3. ASSUME NEW id \in ids, server[id].readable
      PROVE  \E r \in Decoded(ids) : r.id = id /\ r.modified = server[id].modified
  <2> DEFINE d(i) == [id |-> i, state |-> server[i].state, data |-> server[i].data,
                      authorityTime |-> IF server[i].state = "dead" THEN server[i].modified
                                                                    ELSE server[i].authorityTime,
                      modified |-> server[i].modified]
  <2>1. d(id) \in Decoded(ids)
    BY <1>3 DEF Decoded
  <2>2. QED
    BY <2>1
<1>4. QED
  BY <1>2, <1>3

\* The time in a response's header is a time the clock has passed.
LEMMA XLastModifiedType == BaseInv => XLastModified \in Nat /\ XLastModified <= clock
<1> SUFFICES ASSUME BaseInv PROVE XLastModified \in Nat /\ XLastModified <= clock
  OBVIOUS
<1>1. lastModified \in Nat \cup {NoTime} /\ clock \in Nat /\ lastModified <= clock
  BY DEF BaseInv, TypeOK, Clocks, TimeOrNone, Time
<1>2. QED
  BY <1>1 DEF XLastModified

\* What a page brings is what the server has, so no newer than its clock.
LEMMA BasePullPage == BaseInv /\ PullPage => BaseInv'
<1> SUFFICES ASSUME BaseInv, PullPage PROVE BaseInv'
  OBVIOUS
<1> USE DEF PullPage, device, cloud, ghosts, counters
<1>1. /\ remote' \in SUBSET RemoteRecords(Ids)
      /\ \A r \in remote' : r.modified <= clock
  <2>1. PICK ids \in SUBSET {id \in Ids : OnServer(id)} : remote' = remote \cup Decoded(ids)
    <3>1. PICK page \in SUBSET Newer : remote' = remote \cup Decoded(page)
      OBVIOUS
    <3>2. page \in SUBSET {id \in Ids : OnServer(id)}
      BY DEF Newer
    <3>3. QED
      BY <3>1, <3>2
  <2>2. /\ Decoded(ids) \in SUBSET RemoteRecords(Ids)
        /\ \A r \in Decoded(ids) : r.modified <= clock
    BY DecodedIsPulled
  <2>3. QED
    BY <2>1, <2>2 DEF BaseInv, TypeOK, Clocks
<1>2. highWaterMark' \in TimeOrNone /\ highWaterMark' <= clock
  <2>1. /\ XLastModified \in TimeOrNone /\ XLastModified <= clock
        /\ highWaterMark \in TimeOrNone /\ highWaterMark <= clock
    BY XLastModifiedType DEF BaseInv, TypeOK, Clocks, TimeOrNone
  <2>2. QED
    BY <2>1 DEF MarkAfterPage
<1>2a. unread' \in SUBSET Ids
  BY DEF Newer, Awaited, BaseInv, TypeOK
<1>3. TypeOK'
  BY <1>1, <1>2, <1>2a DEF BaseInv, TypeOK, States
<1>4. Clocks'
  BY <1>1, <1>2 DEF BaseInv, Clocks, OnServer
<1>5. QED
  BY <1>3, <1>4 DEF BaseInv

\* The vault and the upload a plan leaves behind.
LEMMA PlanTypes ==
  ASSUME BaseInv
  PROVE  /\ ApplyLocally(vault, remote) \in SUBSET RemoteRecords(Ids)
         /\ \A r \in ApplyLocally(vault, remote) : r.modified <= clock
         /\ Applied(vault, ApplyLocally(vault, remote)) \in [Ids -> LocalRecord]
         /\ UploadRemotely(vault, remote) \in SUBSET Ids
         /\ BsosOf(UploadRemotely(vault, remote)) \in SUBSET Bso
<1> USE DEF BaseInv
<1>1. /\ ApplyLocally(vault, remote) \in SUBSET RemoteRecords(Ids)
      /\ \A r \in ApplyLocally(vault, remote) : r.modified <= clock
  BY DEF ApplyLocally, TypeOK, Clocks
<1>2. Applied(vault, ApplyLocally(vault, remote)) \in [Ids -> LocalRecord]
  BY <1>1, AppliedIsNewest DEF TypeOK, Time
<1>3. UploadRemotely(vault, remote) \in SUBSET Ids
  BY DEF UploadRemotely, TypeOK
<1>4. \A id \in UploadRemotely(vault, remote) : vault[id] \in LocalRecord /\ Held(vault[id])
  BY <1>3, OnlyDirtyIsUploaded DEF TypeOK
<1>5. BsosOf(UploadRemotely(vault, remote)) \in SUBSET Bso
  BY <1>3, <1>4 DEF BsosOf, Bso, LocalRecord, Held
<1>6. QED
  BY <1>1, <1>2, <1>3, <1>5

\* What the plan puts in the vault are pulled records, what it encrypts are the vault's.
LEMMA BaseReconcile == BaseInv /\ ReconcileAndApply => BaseInv'
<1> SUFFICES ASSUME BaseInv, ReconcileAndApply PROVE BaseInv'
  OBVIOUS
<1> DEFINE apply == ApplyLocally(vault, remote)
           upload == UploadRemotely(vault, remote)
<1>1. /\ vault' = Applied(vault, apply) /\ bsos' = BsosOf(upload)
      /\ raced' \in SUBSET (raced \cup upload)
      /\ \/ pc' = "save" /\ state' = [state EXCEPT !.lastModified = highWaterMark]
         \/ pc' = "push" /\ state' = state
      /\ seen' = seen \cup {<<r.id, r.modified>> : r \in remote}
      /\ remote' = {} /\ info' = NoTime /\ unread' = unread
      /\ UNCHANGED <<syncState, cloud, highWaterMark, accepted, modified, history, blind, counters>>
  BY DEF ReconcileAndApply
<1>2. vault' \in [Ids -> LocalRecord] /\ bsos' \in SUBSET Bso /\ upload \in SUBSET Ids
  BY <1>1, PlanTypes
<1>3. seen' \in SUBSET (Ids \X Time)
  BY <1>1 DEF BaseInv, TypeOK, RemoteRecords
<1>4. state' \in CollectionSyncState /\ state'.lastModified <= clock
  BY <1>1 DEF BaseInv, TypeOK, Clocks, CollectionSyncState
<1> HIDE DEF apply, upload
<1>5. TypeOK'
  BY <1>1, <1>2, <1>3, <1>4 DEF BaseInv, TypeOK, cloud, counters, States, TimeOrNone
<1>6. Clocks'
  BY <1>1, <1>4 DEF BaseInv, Clocks, OnServer, cloud
<1>7. QED
  BY <1>5, <1>6 DEF BaseInv

\* What a commit writes, without the bookkeeping: the accepted records at one
\* new time, everything else untouched.
LEMMA CommitWrites ==
  ASSUME BaseInv, Commit
  PROVE  \E ids \in SUBSET Ids, at \in Nat :
           /\ server' \in [Ids -> ServerRecord]
           /\ \A id \in Ids \ ids : server'[id] = server[id]
           /\ \A id \in ids : /\ server'[id].modified = at /\ server'[id].state # "none"
                              /\ VersionOf(id, server'[id]) \in Version
           /\ \/ ids = {} /\ at = XLastModified /\ lastModified' = lastModified /\ clock' = clock
              \/ ids # {} /\ at = clock + 1 /\ lastModified' = at /\ clock' = at
           /\ history' = history \cup {VersionOf(id, server'[id]) : id \in ids}
           /\ seen' = seen \cup {<<id, at>> : id \in ids}
           /\ accepted' = ids /\ modified' = at
           /\ faults' \in 0..MaxFaults
<1>1. PICK taken \in SUBSET bsos :
       LET at == IF taken = {} THEN XLastModified ELSE clock + 1
           of(id) == CHOOSE b \in taken : b.id = id
           ids == {b.id : b \in taken}
       IN
       /\ taken # bsos => faults < MaxFaults
       /\ faults' = IF taken # bsos THEN faults + 1 ELSE faults
       /\ server' = [id \in Ids |->
            IF id \in ids
              THEN [state |-> of(id).state, data |-> of(id).data,
                    authorityTime |-> of(id).authorityTime, modified |-> at, readable |-> TRUE]
              ELSE server[id]]
       /\ lastModified' = IF taken = {} THEN lastModified ELSE at
       /\ clock' = IF taken = {} THEN clock ELSE at
       /\ history' = history \cup {VersionOf(id, server'[id]) : id \in ids}
       /\ seen' = seen \cup {<<id, at>> : id \in ids}
       /\ accepted' = ids /\ modified' = at
  BY Zenon DEF Commit
<1> DEFINE ids == {b.id : b \in taken}
           at == IF taken = {} THEN XLastModified ELSE clock + 1
           of(id) == CHOOSE b \in taken : b.id = id
<1>2. ids \in SUBSET Ids /\ (ids = {} <=> taken = {})
  BY DEF BaseInv, TypeOK, Bso
<1>3. at \in Nat
  BY XLastModifiedType DEF BaseInv, TypeOK, Time
<1>4. ASSUME NEW id \in ids
      PROVE  /\ of(id) \in Bso
             /\ server'[id] = [state |-> of(id).state, data |-> of(id).data,
                    authorityTime |-> of(id).authorityTime, modified |-> at, readable |-> TRUE]
  <2>1. \E b \in taken : b.id = id
    OBVIOUS
  <2>2. of(id) \in taken
    BY <2>1
  <2>3. id \in Ids
    BY <1>2
  <2>4. QED
    BY <1>1, <2>2, <2>3 DEF BaseInv, TypeOK
<1>5. server' = [id \in Ids |-> server'[id]]
  BY <1>1
<1>6. \A id \in Ids \ ids : server'[id] = server[id]
  BY <1>1
<1> HIDE DEF of, at, ids
<1>7. ASSUME NEW id \in ids
      PROVE  /\ server'[id] \in ServerRecord
             /\ server'[id].modified = at /\ server'[id].state # "none"
             /\ VersionOf(id, server'[id]) \in Version
  <2>1. /\ of(id).state \in {"live", "dead"} /\ of(id).data \in Nat /\ of(id).authorityTime \in Nat
        /\ server'[id] = [state |-> of(id).state, data |-> of(id).data,
                    authorityTime |-> of(id).authorityTime, modified |-> at, readable |-> TRUE]
    BY <1>4 DEF Bso
  <2>2. id \in Ids
    BY <1>2
  <2>3. QED
    BY <2>1, <2>2, <1>3 DEF ServerRecord, VersionOf, Version, TimeOrNone, Time
<1>8. server' \in [Ids -> ServerRecord]
  BY <1>5, <1>6, <1>7 DEF BaseInv, TypeOK
<1>9. \/ ids = {} /\ at = XLastModified /\ lastModified' = lastModified /\ clock' = clock
      \/ ids # {} /\ at = clock + 1 /\ lastModified' = at /\ clock' = at
  BY <1>1, <1>2 DEF at, ids
<1>10. faults' \in 0..MaxFaults
  BY <1>1, SyncAssumption DEF BaseInv, TypeOK
<1>11. /\ history' = history \cup {VersionOf(id, server'[id]) : id \in ids}
       /\ seen' = seen \cup {<<id, at>> : id \in ids}
       /\ accepted' = ids /\ modified' = at
  BY <1>1 DEF at, ids
<1>12. QED
  BY <1>2, <1>3, <1>6, <1>7, <1>8, <1>9, <1>10, <1>11

\* A POST is written at the clock's next tick, the time its answer bears.
LEMMA BaseCommit == BaseInv /\ Commit => BaseInv'
<1> SUFFICES ASSUME BaseInv, Commit PROVE BaseInv'
  OBVIOUS
<1>1. PICK ids \in SUBSET Ids, at \in Nat :
           /\ server' \in [Ids -> ServerRecord]
           /\ \A id \in Ids \ ids : server'[id] = server[id]
           /\ \A id \in ids : /\ server'[id].modified = at /\ server'[id].state # "none"
                              /\ VersionOf(id, server'[id]) \in Version
           /\ \/ ids = {} /\ at = XLastModified /\ lastModified' = lastModified /\ clock' = clock
              \/ ids # {} /\ at = clock + 1 /\ lastModified' = at /\ clock' = at
           /\ history' = history \cup {VersionOf(id, server'[id]) : id \in ids}
           /\ seen' = seen \cup {<<id, at>> : id \in ids}
           /\ accepted' = ids /\ modified' = at
           /\ faults' \in 0..MaxFaults
  BY CommitWrites
<1>2. /\ pc' = "posted"
      /\ blind' = (blind \/ (highWaterMark = NoTime /\ lastModified # NoTime))
      /\ UNCHANGED <<device, engineSyncId, state, info, unread, highWaterMark, remote, bsos, raced,
                     edits, resets>>
  BY DEF Commit
<1>3. XLastModified \in Nat /\ XLastModified <= clock
  BY XLastModifiedType
<1>4. TypeOK'
  <2>1. /\ history' \in SUBSET Version /\ seen' \in SUBSET (Ids \X Time)
    BY <1>1 DEF BaseInv, TypeOK, Time
  <2>2. /\ lastModified' \in TimeOrNone /\ clock' \in Time /\ modified' \in TimeOrNone
        /\ modified' # NoTime /\ blind' \in BOOLEAN
    BY <1>1, <1>2 DEF BaseInv, TypeOK, Time, TimeOrNone, NoTime
  <2>3. QED
    BY <1>1, <1>2, <2>1, <2>2 DEF BaseInv, TypeOK, device, States
<1>5. clock \in Nat /\ clock <= clock' /\ clock' \in Nat /\ modified' <= clock' /\ lastModified' <= clock'
  BY <1>1, <1>3 DEF BaseInv, TypeOK, Clocks, Time
<1>6. ASSUME NEW id \in Ids, server'[id].state # "none"
      PROVE  server'[id].modified \in Nat /\ server'[id].modified <= lastModified'
  <2>1. CASE id \in ids
    BY <1>1, <2>1, <1>5 DEF BaseInv
  <2>2. CASE id \notin ids
    <3>1. server'[id] = server[id] /\ server[id].modified \in Nat
          /\ server[id].modified <= lastModified /\ lastModified <= clock
      BY <1>1, <2>2, <1>6 DEF BaseInv, Clocks, OnServer
    <3>2. lastModified \in Nat
      BY <3>1 DEF BaseInv, TypeOK, TimeOrNone, NoTime
    <3>3. QED
      BY <1>1, <1>5, <3>1, <3>2
  <2>3. QED
    BY <2>1, <2>2
<1>7. Clocks'
  <2>1. /\ syncState.lastModified \in Int /\ state.lastModified \in Int /\ highWaterMark \in Int
        /\ \A r \in remote : r.modified \in Nat
    BY DEF BaseInv, TypeOK, CollectionSyncState, TimeOrNone, NoTime, RemoteRecords, Time
  <2>2. QED
    BY <1>2, <1>5, <1>6, <2>1 DEF BaseInv, Clocks, OnServer, device
<1>8. QED
  BY <1>4, <1>7 DEF BaseInv

\* A 412 takes the run's mark back to none.
LEMMA BaseConflict412 == BaseInv /\ Conflict412 => BaseInv'
<1> SUFFICES ASSUME BaseInv, Conflict412 PROVE BaseInv'
  OBVIOUS
<1>1. state' \in CollectionSyncState /\ state'.lastModified = NoTime
  BY DEF Conflict412, BaseInv, TypeOK, CollectionSyncState, TimeOrNone
<1>2. TypeOK'
  BY <1>1 DEF Conflict412, BaseInv, TypeOK, States, device, cloud, ghosts, counters
<1>3. clock \in Nat
  BY DEF BaseInv, TypeOK, Time
<1>4. Clocks'
  BY <1>1, <1>3 DEF Conflict412, BaseInv, Clocks, OnServer, NoTime, device, cloud
<1>5. QED
  BY <1>2, <1>4 DEF BaseInv

\* The records marked as synced take the time of the POST's answer.
LEMMA BaseMarkSynced == BaseInv /\ MarkSynced => BaseInv'
<1> SUFFICES ASSUME BaseInv, MarkSynced PROVE BaseInv'
  OBVIOUS
<1>1. \A id \in Ids : Marked(id) \in LocalRecord
  BY DEF Marked, BaseInv, TypeOK, LocalRecord
<1>2. state' \in CollectionSyncState /\ state'.lastModified = modified
  BY DEF MarkSynced, BaseInv, TypeOK, CollectionSyncState
<1>3. TypeOK'
  BY <1>1, <1>2 DEF MarkSynced, BaseInv, TypeOK, States, cloud, ghosts, counters
<1>4. Clocks'
  BY <1>2 DEF MarkSynced, BaseInv, Clocks, OnServer, cloud
<1>5. QED
  BY <1>3, <1>4 DEF BaseInv

\* Ending a run, however it ends, leaves nothing of it in memory.
LEMMA ForgetTypes ==
  ASSUME BaseInv, Forget
  PROVE  /\ pc' \in States /\ pc' # "posted" /\ state' \in CollectionSyncState
         /\ info' \in TimeOrNone /\ unread' = {}
         /\ highWaterMark' \in TimeOrNone /\ modified' \in TimeOrNone
         /\ remote' = {} /\ bsos' = {} /\ accepted' = {}
         /\ state'.lastModified <= clock /\ highWaterMark' <= clock
<1>1. clock \in Nat
  BY DEF BaseInv, TypeOK, Time
<1>2. state' \in CollectionSyncState /\ state'.lastModified = -1
  BY DEF Forget, CollectionSyncState, TimeOrNone, NoTime, NoId
<1>3. QED
  BY <1>1, <1>2 DEF Forget, States, TimeOrNone, NoTime

\* The run's mark goes to disk and the run forgets the rest.
LEMMA BaseSave == BaseInv /\ Save => BaseInv'
<1> SUFFICES ASSUME BaseInv, Save PROVE BaseInv'
  OBVIOUS
<1> USE ForgetTypes DEF Save, cloud, ghosts, counters
<1>1. TypeOK'
  BY DEF BaseInv, TypeOK
<1>2. Clocks'
  BY DEF BaseInv, Clocks, OnServer
<1>3. QED
  BY <1>1, <1>2 DEF BaseInv

\* A failed request or a dead worker leaves marks that were there.
LEMMA BaseFault == BaseInv /\ (RequestFails \/ WorkerDies) => BaseInv'
<1> SUFFICES ASSUME BaseInv, RequestFails \/ WorkerDies PROVE BaseInv'
  OBVIOUS
<1>1. faults' \in 0..MaxFaults /\ UNCHANGED <<device, cloud, ghosts, edits, resets>>
  <2>1. faults \in 0..MaxFaults /\ MaxFaults \in Nat
    BY SyncAssumption DEF BaseInv, TypeOK
  <2>2. /\ faults < MaxFaults /\ faults' = faults + 1
        /\ UNCHANGED <<device, cloud, ghosts, edits, resets>>
    BY DEF RequestFails, WorkerDies
  <2>3. QED
    BY <2>1, <2>2
<1>2. CASE Forget
  <2> USE ForgetTypes, <1>1, <1>2 DEF device, cloud, ghosts
  <2>1. TypeOK'
    BY DEF BaseInv, TypeOK
  <2>2. Clocks'
    BY DEF BaseInv, Clocks, OnServer
  <2>3. QED
    BY <2>1, <2>2 DEF BaseInv
<1>3. CASE /\ pc' = "save" /\ remote' = {} /\ unread' = {}
           /\ UNCHANGED <<state, info, highWaterMark, bsos, accepted, modified>>
  <2> USE <1>1, <1>3 DEF device, cloud, ghosts
  <2>1. TypeOK'
    BY DEF BaseInv, TypeOK, States, TimeOrNone
  <2>2. Clocks'
    BY DEF BaseInv, Clocks, OnServer
  <2>3. QED
    BY <2>1, <2>2 DEF BaseInv
<1>4. QED
  BY <1>2, <1>3 DEF RequestFails, WorkerDies

\* Every step keeps types and clocks.
LEMMA BaseNext == BaseInv /\ [Next]_vars => BaseInv'
<1> SUFFICES ASSUME BaseInv, [Next]_vars PROVE BaseInv'
  OBVIOUS
<1>1. CASE UNCHANGED vars
  BY <1>1 DEF vars, device, cloud, run, ghosts, counters, BaseInv, TypeOK, Clocks, OnServer
<1>2. CASE SyncStep
  BY <1>2, BaseStart, BaseReadMeta, BasePullPage, BaseReconcile, BaseCommit, BaseConflict412,
     BaseMarkSynced, BaseSave DEF SyncStep
<1>3. CASE \E id \in Ids : PeerWrite(id)
  BY <1>3, BasePeerWrite
<1>4. QED
  BY <1>1, <1>2, <1>3, BaseUserEdit, BasePeerReset, BaseFault DEF Next

\* The types hold in every reachable state.
THEOREM TypeCorrect == Spec => []TypeOK
<1>1. Spec => []BaseInv
  BY BaseInit, BaseNext, PTL DEF Spec
<1>2. BaseInv => TypeOK
  BY DEF BaseInv
<1>3. QED
  BY <1>1, <1>2, PTL

-----------------------------------------------------------------------------
(***************************************************************************)
(* The high-water mark.                                                    *)
(*                                                                         *)
(* MarkCovers is not inductive: what the mark on disk covers was covered   *)
(* by the run's copy before it was saved, that by the answer to the POST,  *)
(* that by the precondition, that by the pull, and the pull page by page   *)
(* except for what is still unread.  MarkInv is that chain.                *)
(***************************************************************************)

\* Everything up to the mark was decided on, is in the pull or is among the rest.
ReadUpTo(mark, rest) ==
  \A id \in Ids : OnServer(id) /\ server[id].readable /\ server[id].modified <= mark =>
    \/ <<id, server[id].modified>> \in seen
    \/ \E r \in remote : r.id = id /\ r.modified = server[id].modified
    \/ id \in rest

MarksCover ==
  /\ Covered(syncState.lastModified)
  /\ Covered(state.lastModified)
  /\ pc = "pull more" => ReadUpTo(highWaterMark, unread)
  /\ pc = "reconcile" => ReadUpTo(highWaterMark, {})
  /\ pc = "push" => Covered(highWaterMark)
  /\ pc = "posted" => Covered(modified)

MarkInv == blind \/ MarksCover

\* What a step may do to the server: take records away, or put versions there
\* that are newer than the clock was or that the device itself wrote.
Extending ==
  /\ seen \subseteq seen'
  /\ \A id \in Ids : \/ server'[id] = server[id]
                     \/ server'[id].state = "none"
                     \/ server'[id].modified > clock
                     \/ <<id, server'[id].modified>> \in seen'

\* Every step of the program extends what was seen and replaces a version on the
\* server with a newer one, with none, or with one of its own.
LEMMA StepExtends == BaseInv /\ [Next]_vars => Extending
<1> SUFFICES ASSUME BaseInv, [Next]_vars PROVE Extending
  OBVIOUS
<1>1. CASE UNCHANGED vars
  BY <1>1 DEF vars, cloud, ghosts, Extending
<1>2. CASE Start \/ InfoCollections \/ ReadMeta \/ PullPage \/ Conflict412 \/ MarkSynced \/ Save
           \/ RequestFails \/ WorkerDies
  BY <1>2 DEF Start, InfoCollections, ReadMeta, PullPage, Conflict412, MarkSynced, Save,
              RequestFails, WorkerDies, cloud, ghosts, Extending
<1>3. CASE ReconcileAndApply
  BY <1>3 DEF ReconcileAndApply, cloud, Extending
<1>4. CASE Commit
  <2>1. PICK ids \in SUBSET Ids, at \in Nat :
           /\ \A id \in Ids \ ids : server'[id] = server[id]
           /\ \A id \in ids : server'[id].modified = at
           /\ seen' = seen \cup {<<id, at>> : id \in ids}
    BY <1>4, CommitWrites
  <2>2. QED
    BY <2>1 DEF Extending
<1>5. CASE UserEdit
  BY <1>5 DEF UserEdit, addPassword, updatePassword, patchPassword, deletePassword, Write,
              cloud, Extending
<1>6. ASSUME NEW id \in Ids, PeerWrite(id)
      PROVE  Extending
  <2>1. PICK st \in {"live", "dead"}, auth \in Authorities, ok \in Readable :
           server' = [server EXCEPT ![id] =
             [state |-> st, data |-> edits + 1, authorityTime |-> auth,
              modified |-> clock + 1, readable |-> ok]]
    BY <1>6 DEF PeerWrite
  <2>2. seen' = seen /\ clock \in Nat /\ server \in [Ids -> ServerRecord]
    BY <1>6 DEF PeerWrite, BaseInv, TypeOK, Time
  <2>3. QED
    BY <2>1, <2>2 DEF Extending
<1>7. CASE PeerReset
  BY <1>7 DEF PeerReset, ghosts, Extending, Missing
<1>8. QED
  BY <1>1, <1>2, <1>3, <1>4, <1>5, <1>6, <1>7 DEF Next, SyncStep

\* Such a step uncovers nothing below a mark the clock has reached.
LEMMA CoveredStays ==
  ASSUME BaseInv, BaseInv', Extending, NEW mark \in Int, mark <= clock
  PROVE  /\ Covered(mark) => Covered(mark)'
         /\ \A id \in Ids : /\ server'[id].state # "none" /\ server'[id].modified <= mark
                            /\ <<id, server'[id].modified>> \notin seen'
                            => server'[id] = server[id] /\ <<id, server[id].modified>> \notin seen
<1>1. ASSUME NEW id \in Ids, server'[id].state # "none", server'[id].modified <= mark,
             <<id, server'[id].modified>> \notin seen'
      PROVE  server'[id] = server[id] /\ <<id, server[id].modified>> \notin seen
  <2>1. server'[id].modified \in Int /\ clock \in Int
    BY <1>1 DEF BaseInv, TypeOK, Clocks, OnServer, Time
  <2>2. QED
    BY <1>1, <2>1 DEF Extending
<1>2. ASSUME Covered(mark)
      PROVE  Covered(mark)'
  BY <1>1, <1>2 DEF Covered, OnServer
<1>3. QED
  BY <1>1, <1>2

\* Nothing is older than NoTime.
LEMMA NothingBelow == BaseInv => Covered(NoTime)
BY DEF BaseInv, Clocks, OnServer, Covered, NoTime

\* The marks a run holds, and the clock, are integers in this order.
LEMMA MarkTypes ==
  BaseInv => /\ clock \in Nat
             /\ syncState.lastModified \in Int /\ syncState.lastModified <= clock
             /\ state.lastModified \in Int /\ state.lastModified <= clock
             /\ highWaterMark \in Int /\ highWaterMark <= clock
             /\ pc = "posted" => modified \in Int /\ modified <= clock
BY DEF BaseInv, TypeOK, Clocks, CollectionSyncState, TimeOrNone, NoTime, Time

\* Steps of the others leave the run's marks alone.
LEMMA MarkKept ==
  ASSUME BaseInv, BaseInv', Extending, MarkInv, clock <= clock', blind' = blind,
         UNCHANGED <<syncState, pc, state, unread, highWaterMark, modified, remote>>
  PROVE  MarkInv'
<1>1. CASE blind
  BY <1>1 DEF MarkInv
<1>2. CASE ~blind
  <2>0. MarksCover
    BY <1>2 DEF MarkInv
  <2>1. Covered(syncState.lastModified)' /\ Covered(state.lastModified)'
    BY <2>0, MarkTypes, CoveredStays DEF MarksCover, Covered
  <2>a. \A id \in Ids : /\ server'[id].state # "none" /\ server'[id].modified <= highWaterMark
                        /\ <<id, server'[id].modified>> \notin seen'
                        => server'[id] = server[id] /\ <<id, server[id].modified>> \notin seen
    BY MarkTypes, CoveredStays
  <2>2. pc' = "pull more" => ReadUpTo(highWaterMark, unread)'
    BY <2>0, <2>a DEF MarksCover, ReadUpTo, OnServer
  <2>3. pc' = "reconcile" => ReadUpTo(highWaterMark, {})'
    BY <2>0, <2>a DEF MarksCover, ReadUpTo, OnServer
  <2>4. /\ pc' = "push" => Covered(highWaterMark)'
        /\ pc' = "posted" => Covered(modified)'
    BY <2>0, MarkTypes, CoveredStays DEF MarksCover, Covered
  <2>5. QED
    BY <2>1, <2>2, <2>3, <2>4 DEF MarkInv, MarksCover
<1>3. QED
  BY <1>1, <1>2

\* A run that ends, however it does.
LEMMA MarkForget ==
  ASSUME BaseInv, BaseInv', MarkInv, Forget, UNCHANGED <<cloud, ghosts>>,
         \/ syncState' = syncState
         \/ syncState' = state
  PROVE  MarkInv'
<1>1. pc' = "idle" /\ state'.lastModified = NoTime
  BY DEF Forget
<1>2. Covered(NoTime)'
  BY DEF BaseInv, Clocks, OnServer, Covered, NoTime
<1>3. ~blind => Covered(syncState.lastModified)'
  BY DEF MarkInv, MarksCover, Covered, OnServer, cloud, ghosts
<1>4. QED
  BY <1>1, <1>2, <1>3 DEF MarkInv, MarksCover, Covered, ghosts

\* A run begins with the mark on disk; a 412 takes it away.
LEMMA MarkStart ==
  ASSUME BaseInv, MarkInv, Start \/ InfoCollections \/ Conflict412
  PROVE  MarkInv'
<1>1. /\ UNCHANGED <<cloud, ghosts, syncState>>
      /\ pc' \in {"info", "meta", "save"}
      /\ state' = syncState \/ state' = state \/ state'.lastModified = NoTime
  BY DEF Start, InfoCollections, Conflict412, device, BaseInv, TypeOK, CollectionSyncState
<1>2. CASE blind
  BY <1>1, <1>2 DEF MarkInv, ghosts, cloud
<1>3. CASE ~blind
  <2>1. Covered(syncState.lastModified)' /\ Covered(state.lastModified)'
    BY <1>1, <1>3, NothingBelow DEF MarkInv, MarksCover, Covered, OnServer, cloud, ghosts
  <2>2. QED
    BY <1>1, <2>1 DEF MarkInv, MarksCover, cloud, ghosts
<1>4. QED
  BY <1>2, <1>3

\* Before a page is read, the pull's mark is the run's, and it covers the same versions.
LEMMA MarkReadMeta == ASSUME BaseInv, MarkInv, ReadMeta PROVE MarkInv'
<1>1. /\ UNCHANGED <<syncState, cloud, ghosts, remote>>
      /\ state'.lastModified = MarkAfterMeta /\ highWaterMark' = MarkAfterMeta
      /\ pc' \in {"pull", "reconcile"}
  BY DEF ReadMeta, AfterMeta, device
<1>2. CASE blind
  BY <1>1, <1>2 DEF MarkInv, ghosts
<1>3. CASE ~blind
  <2>1. Covered(MarkAfterMeta)
    BY <1>3, NothingBelow DEF MarkAfterMeta, MarkInv, MarksCover
  <2>2. Covered(syncState.lastModified)' /\ Covered(state.lastModified)'
    BY <1>1, <1>3, <2>1 DEF MarkInv, MarksCover, Covered, OnServer, cloud, ghosts
  <2>3. ReadUpTo(highWaterMark, {})'
    BY <1>1, <2>1 DEF Covered, ReadUpTo, OnServer, cloud, ghosts
  <2>4. QED
    BY <1>1, <2>2, <2>3 DEF MarkInv, MarksCover
<1>4. QED
  BY <1>2, <1>3

\* A page: what it returns is in the pull, what it leaves out is still awaited,
\* and the last page leaves out only what was written after the first.
LEMMA MarkPullPage == ASSUME BaseInv, MarkInv, PullPage PROVE MarkInv'
<1>1. UNCHANGED <<syncState, cloud, ghosts, state>> /\ pc \in {"pull", "pull more"}
  BY DEF PullPage, device
<1>2. PICK page \in SUBSET Newer :
        /\ remote' = remote \cup Decoded(page)
        /\ \/ pc' = "pull more" /\ unread' = Awaited \ page
           \/ /\ pc' = "reconcile"
              /\ \A id \in Awaited \ page :
                   OnServer(id) => pc = "pull more" /\ server[id].modified > highWaterMark
  BY DEF PullPage
<1>3. \A id \in page : server[id].readable =>
        \E r \in remote' : r.id = id /\ r.modified = server[id].modified
  <2>1. page \in SUBSET {id \in Ids : OnServer(id)}
    BY DEF Newer
  <2>2. \A id \in page : server[id].readable =>
          \E r \in Decoded(page) : r.id = id /\ r.modified = server[id].modified
    BY <2>1, DecodedIsPulled
  <2>3. QED
    BY <1>2, <2>2
<1>4. CASE blind
  BY <1>1, <1>4 DEF MarkInv, ghosts
<1>5. CASE ~blind
  <2>1. MarksCover
    BY <1>5 DEF MarkInv
  <2>2. Covered(syncState.lastModified)' /\ Covered(state.lastModified)'
    BY <1>1, <2>1 DEF MarksCover, Covered, OnServer, cloud, ghosts
  <2>3. ASSUME NEW id \in Ids, OnServer(id), server[id].readable,
               server[id].modified <= highWaterMark', <<id, server[id].modified>> \notin seen,
               ~ \E r \in remote' : r.id = id /\ r.modified = server[id].modified
        PROVE  pc' = "pull more" /\ id \in unread'
    <3>1. id \notin page
      BY <1>3, <2>3
    <3>2. CASE pc = "pull"
      <4>1. ~(server[id].modified <= state.lastModified)
        BY <2>1, <2>3 DEF MarksCover, Covered
      <4>2. id \in Awaited
        BY <2>3, <3>2, <4>1, MarkTypes DEF Awaited, Newer, BaseInv, Clocks
      <4>3. QED
        BY <1>2, <2>3, <3>1, <3>2, <4>2
    <3>3. CASE pc = "pull more"
      <4>1. highWaterMark' = highWaterMark
        BY <3>3 DEF PullPage, MarkAfterPage
      <4>2. id \in Awaited
        BY <1>2, <2>1, <2>3, <3>3, <4>1 DEF Awaited, MarksCover, ReadUpTo
      <4>3. ~(server[id].modified > highWaterMark)
        BY <2>3, <4>1, MarkTypes DEF BaseInv, Clocks
      <4>4. QED
        BY <1>2, <2>3, <3>1, <4>2, <4>3
    <3>4. QED
      BY <1>1, <3>2, <3>3
  <2>4. /\ pc' = "pull more" => ReadUpTo(highWaterMark, unread)'
        /\ pc' = "reconcile" => ReadUpTo(highWaterMark, {})'
    BY <1>1, <2>3 DEF ReadUpTo, OnServer, cloud, ghosts
  <2>5. pc' \in {"pull more", "reconcile"}
    BY <1>2
  <2>6. QED
    BY <2>2, <2>4, <2>5 DEF MarkInv, MarksCover
<1>6. QED
  BY <1>4, <1>5

\* What was pulled is seen, so the pull's mark covers as much as it promises.
LEMMA MarkReconcile == ASSUME BaseInv, BaseInv', MarkInv, ReconcileAndApply PROVE MarkInv'
<1>1. /\ UNCHANGED <<syncState, cloud, blind, highWaterMark>> /\ pc = "reconcile"
      /\ seen' = seen \cup {<<r.id, r.modified>> : r \in remote}
  BY DEF ReconcileAndApply
<1>2. \/ pc' = "save" /\ state' = [state EXCEPT !.lastModified = highWaterMark]
      \/ pc' = "push" /\ state' = state
  BY DEF ReconcileAndApply
<1>4. CASE blind
  BY <1>1, <1>4 DEF MarkInv
<1>5. CASE ~blind
  <2>1. MarksCover
    BY <1>5 DEF MarkInv
  <2>2. Covered(highWaterMark)'
    BY <1>1, <2>1 DEF MarksCover, ReadUpTo, Covered, OnServer, cloud
  <2>3. Covered(syncState.lastModified)'
    BY <1>1, <2>1 DEF MarksCover, Covered, OnServer, cloud
  <2>4. Covered(state.lastModified)'
    <3>1. CASE state' = state
      BY <1>1, <2>1, <3>1 DEF MarksCover, Covered, OnServer, cloud
    <3>2. CASE state' = [state EXCEPT !.lastModified = highWaterMark]
      <4>1. state'.lastModified = highWaterMark
        BY <3>2 DEF BaseInv, TypeOK, CollectionSyncState
      <4>2. QED
        BY <1>1, <2>2, <4>1 DEF Covered
    <3>3. QED
      BY <1>2, <3>1, <3>2
  <2>5. pc' \in {"save", "push"}
    BY <1>2
  <2>6. QED
    BY <2>2, <2>3, <2>4, <2>5 DEF MarkInv, MarksCover
<1>6. QED
  BY <1>4, <1>5

\* A POST whose precondition holds leaves nothing undecided: what was on the
\* server is below the mark it read at, and what it wrote is its own.
LEMMA MarkCommit ==
  ASSUME BaseInv, BaseInv', Extending, MarkInv, Commit
  PROVE  MarkInv'
<1>1. /\ UNCHANGED <<syncState, state>> /\ pc = "push" /\ pc' = "posted"
      /\ PreconditionHolds
      /\ blind' = (blind \/ (highWaterMark = NoTime /\ lastModified # NoTime))
  BY DEF Commit, device
<1>0. clock \in Nat
  BY MarkTypes
<1>2. PICK ids \in SUBSET Ids, at \in Nat :
         /\ \A id \in Ids \ ids : server'[id] = server[id]
         /\ \A id \in ids : server'[id].modified = at
         /\ clock' = clock \/ clock' = clock + 1
         /\ seen' = seen \cup {<<id, at>> : id \in ids}
  <2>1. PICK ids \in SUBSET Ids, at \in Nat :
         /\ \A id \in Ids \ ids : server'[id] = server[id]
         /\ \A id \in ids : server'[id].modified = at
         /\ \/ ids = {} /\ at = XLastModified /\ lastModified' = lastModified /\ clock' = clock
            \/ ids # {} /\ at = clock + 1 /\ lastModified' = at /\ clock' = at
         /\ seen' = seen \cup {<<id, at>> : id \in ids}
    BY CommitWrites, Zenon
  <2>2. clock' = clock \/ clock' = clock + 1
    BY <2>1
  <2>3. QED
    BY <2>1, <2>2
<1>4. CASE blind'
  BY <1>4 DEF MarkInv
<1>5. CASE ~blind'
  <2>1. MarksCover /\ (highWaterMark # NoTime \/ lastModified = NoTime)
    BY <1>1, <1>5 DEF MarkInv
  <2>2. ASSUME NEW id \in Ids, OnServer(id), server[id].readable
        PROVE  <<id, server[id].modified>> \in seen
    <3>1. server[id].modified \in Nat /\ server[id].modified <= lastModified /\ lastModified \in Int
      BY <2>2 DEF BaseInv, TypeOK, Clocks, TimeOrNone, NoTime
    <3>2. lastModified <= highWaterMark /\ highWaterMark \in Int
      BY <1>1, <2>1, <3>1, MarkTypes DEF PreconditionHolds, NoTime
    <3>3. server[id].modified <= highWaterMark
      BY <3>1, <3>2
    <3>4. QED
      BY <1>1, <2>1, <2>2, <3>3 DEF MarksCover, Covered
  <2>3. ASSUME NEW id \in Ids, OnServer(id)', server'[id].readable
        PROVE  <<id, server'[id].modified>> \in seen'
    BY <1>2, <2>2, <2>3 DEF OnServer
  <2>4. Covered(syncState.lastModified)' /\ Covered(state.lastModified)' /\ Covered(modified)'
    BY <2>3 DEF Covered
  <2>5. QED
    BY <1>1, <2>4 DEF MarkInv, MarksCover
<1>6. QED
  BY <1>4, <1>5

\* The time of the POST's answer becomes the run's mark, and the POST covered it.
LEMMA MarkMarkSynced == ASSUME BaseInv, MarkInv, MarkSynced PROVE MarkInv'
<1>1. /\ UNCHANGED <<syncState, cloud, ghosts>> /\ pc = "posted" /\ pc' = "save"
      /\ state' = [state EXCEPT !.lastModified = modified]
  BY DEF MarkSynced
<1>2. state'.lastModified = modified
  BY <1>1 DEF BaseInv, TypeOK, CollectionSyncState
<1>3. CASE blind
  BY <1>1, <1>3 DEF MarkInv, ghosts, cloud
<1>4. CASE ~blind
  <2>1. Covered(syncState.lastModified)' /\ Covered(state.lastModified)'
    BY <1>1, <1>2, <1>4 DEF MarkInv, MarksCover, Covered, OnServer, cloud, ghosts
  <2>2. QED
    BY <1>1, <1>4, <2>1 DEF MarkInv, MarksCover, cloud, ghosts
<1>5. QED
  BY <1>3, <1>4

\* A failure ends the run with a mark it had, or without writing one.
LEMMA MarkFault ==
  ASSUME BaseInv, BaseInv', MarkInv, RequestFails \/ WorkerDies
  PROVE  MarkInv'
<1>1. UNCHANGED <<syncState, cloud, ghosts>>
  BY DEF RequestFails, WorkerDies, device
<1>2. CASE Forget
  BY <1>1, <1>2, MarkForget
<1>3. CASE pc' = "save" /\ state' = state
  <2>2. ~blind => Covered(syncState.lastModified)' /\ Covered(state.lastModified)'
    BY <1>1, <1>3 DEF MarkInv, MarksCover, Covered, OnServer, cloud, ghosts
  <2>3. QED
    BY <1>1, <1>3, <2>2 DEF MarkInv, MarksCover, ghosts
<1>4. QED
  BY <1>2, <1>3 DEF RequestFails, WorkerDies

\* Users write in the vault only, and what peers write is beyond every mark.
LEMMA MarkOthers ==
  ASSUME BaseInv, BaseInv', Extending, MarkInv,
         \/ UserEdit
         \/ \E id \in Ids : PeerWrite(id)
         \/ PeerReset
         \/ UNCHANGED vars
  PROVE  MarkInv'
<1>1. clock \in Nat
  BY MarkTypes
<1>2. CASE UserEdit
  <2>1. UNCHANGED <<syncState, cloud, run, blind>>
    BY <1>2 DEF UserEdit, addPassword, updatePassword, patchPassword, deletePassword, Write
  <2>2. QED
    BY <1>1, <2>1, MarkKept DEF cloud, run
<1>3. CASE \E id \in Ids : PeerWrite(id)
  <2>1. UNCHANGED <<device, run, blind>> /\ clock' = clock + 1
    BY <1>3 DEF PeerWrite
  <2>2. QED
    BY <1>1, <2>1, MarkKept DEF device, run
<1>4. CASE PeerReset
  BY <1>1, <1>4, MarkKept DEF PeerReset, device, run, ghosts
<1>5. CASE UNCHANGED vars
  BY <1>1, <1>5, MarkKept DEF vars, device, cloud, run, ghosts
<1>6. QED
  BY <1>2, <1>3, <1>4, <1>5

Inv == BaseInv /\ MarkInv

\* At the start there is no mark, and so nothing to cover.
LEMMA InvInit == Init => Inv
<1> SUFFICES ASSUME Init PROVE Inv
  OBVIOUS
<1>1. BaseInv
  BY BaseInit
<1>2. /\ pc = "idle"
      /\ syncState.lastModified = NoTime /\ state.lastModified = NoTime
  BY DEF Init
<1>3. QED
  BY <1>1, <1>2, NothingBelow DEF Inv, MarkInv, MarksCover

\* Every step keeps types, clocks and marks.
LEMMA InvNext == Inv /\ [Next]_vars => Inv'
<1> SUFFICES ASSUME Inv, [Next]_vars PROVE Inv'
  OBVIOUS
<1>1. BaseInv /\ MarkInv
  BY DEF Inv
<1>2. BaseInv'
  BY <1>1, BaseNext
<1>3. Extending
  BY <1>1, StepExtends
<1>4. ASSUME SyncStep
      PROVE  MarkInv'
  <2>1. CASE Start \/ InfoCollections \/ Conflict412
    BY <1>1, <2>1, MarkStart
  <2>2. CASE ReadMeta
    BY <1>1, <2>2, MarkReadMeta
  <2>3. CASE PullPage
    BY <1>1, <2>3, MarkPullPage
  <2>4. CASE ReconcileAndApply
    BY <1>1, <1>2, <2>4, MarkReconcile
  <2>5. CASE Commit
    BY <1>1, <1>2, <1>3, <2>5, MarkCommit
  <2>6. CASE MarkSynced
    BY <1>1, <2>6, MarkMarkSynced
  <2>7. CASE Save
    BY <1>1, <1>2, <2>7, MarkForget DEF Save
  <2>8. QED
    BY <1>4, <2>1, <2>2, <2>3, <2>4, <2>5, <2>6, <2>7 DEF SyncStep
<1>5. ASSUME ~SyncStep
      PROVE  MarkInv'
  BY <1>1, <1>2, <1>3, <1>5, MarkFault, MarkOthers DEF Next
<1>6. QED
  BY <1>2, <1>4, <1>5 DEF Inv

\* Whatever the interleaving, the mark on disk never covers a readable version
\* that the device has not decided on, until a POST went out without its
\* precondition.
THEOREM MarkCoversAlways == Spec => []MarkCovers
<1>1. Inv => MarkCovers
  BY DEF Inv, MarkInv, MarksCover, MarkCovers
<1>2. QED
  BY <1>1, InvInit, InvNext, PTL DEF Spec

\* No POST replaces a version the device has not decided on, unless it was sent
\* without its precondition.
THEOREM NeverForces == Spec => NoBlindOverwrite
<1> DEFINE Decided ==
      pc = "push" /\ pc' = "posted" /\ ~blind' =>
        \A id \in Ids : OnServer(id) /\ server[id].readable /\ server'[id] # server[id]
                          => <<id, server[id].modified>> \in seen
<1>1. Inv /\ [Next]_vars => Decided
  <2> SUFFICES ASSUME Inv, [Next]_vars, pc = "push", pc' = "posted", ~blind',
                      NEW id \in Ids, OnServer(id), server[id].readable
               PROVE  <<id, server[id].modified>> \in seen
    BY Zenon
  <2>1. Commit
    <3>1. ~UNCHANGED vars
      BY DEF vars, run
    <3>2. CASE UserEdit
      BY <3>2 DEF UserEdit, addPassword, updatePassword, patchPassword, deletePassword, Write, run
    <3>3. CASE (\E i \in Ids : PeerWrite(i)) \/ PeerReset
      BY <3>3 DEF PeerWrite, PeerReset, run
    <3>4. CASE RequestFails \/ WorkerDies
      BY <3>4 DEF RequestFails, WorkerDies, Forget
    <3>5. CASE SyncStep
      BY <3>5 DEF SyncStep, Start, InfoCollections, ReadMeta, PullPage, ReconcileAndApply,
                  Conflict412, MarkSynced, Save
    <3>6. QED
      BY <3>1, <3>2, <3>3, <3>4, <3>5 DEF Next
  <2>2. /\ PreconditionHolds
        /\ ~blind /\ (highWaterMark # NoTime \/ lastModified = NoTime)
    BY <2>1 DEF Commit
  <2>3. Covered(highWaterMark) /\ BaseInv
    BY <2>2 DEF Inv, MarkInv, MarksCover
  <2>4. server[id].modified \in Nat /\ server[id].modified <= lastModified /\ lastModified \in Int
    BY <2>3 DEF BaseInv, TypeOK, Clocks, TimeOrNone, NoTime
  <2>5. lastModified <= highWaterMark /\ highWaterMark \in Int
    BY <2>2, <2>3, <2>4, MarkTypes DEF PreconditionHolds, NoTime
  <2>6. server[id].modified <= highWaterMark
    BY <2>4, <2>5
  <2>7. QED
    BY <2>3, <2>6 DEF Covered
<1>2. QED
  BY <1>1, InvInit, InvNext, PTL DEF Spec, NoBlindOverwrite

-----------------------------------------------------------------------------
(***************************************************************************)
(* What a clean record holds.                                              *)
(*                                                                         *)
(* A record is clean because the device adopted a pulled version, which    *)
(* the server held, or because the server took its upload, which is still  *)
(* what the vault holds unless the record is in raced.  Both need that the *)
(* server's history names a version by its id and time.                    *)
(***************************************************************************)

\* A pulled record as a version of the server.
PulledVersion(r) == [id |-> r.id, state |-> r.state, data |-> r.data, modified |-> r.modified]

HistoryInv ==
  /\ \A id \in Ids : OnServer(id) => VersionOf(id, server[id]) \in history
  /\ \A h \in history : h.modified <= clock
  /\ \A h, k \in history : h.id = k.id /\ h.modified = k.modified => h = k
  /\ \A h \in history : OnServer(h.id) => h.modified <= server[h.id].modified
  /\ \A r \in remote : PulledVersion(r) \in history

\* The vault still holds b, which is on its way.
StillHolds(b) == vault[b.id].state = b.state /\ vault[b.id].data = b.data

UploadInv ==
  /\ pc \in {"push", "posted"} => \A b \in bsos : StillHolds(b) \/ b.id \in raced
  /\ pc = "posted" => \A id \in accepted : \E b \in bsos :
       b.id = id /\ [id |-> id, state |-> b.state, data |-> b.data, modified |-> modified] \in history

EditsInv == HistoryInv /\ UploadInv /\ OnlyRacedEditsLost

\* The types these proofs use.
LEMMA EditTypes ==
  BaseInv => /\ clock \in Nat
             /\ \A h \in history : h.id \in Ids /\ h.modified \in Nat
             /\ \A id \in Ids : OnServer(id) => /\ server[id].modified \in Nat
                                                /\ server[id].modified <= clock
                                                /\ server[id].state \in {"live", "dead"}
             /\ \A r \in remote : /\ r.id \in Ids /\ r.modified \in Nat
                                  /\ r.state \in {"live", "dead"}
<1> SUFFICES ASSUME BaseInv PROVE
             /\ clock \in Nat
             /\ \A h \in history : h.id \in Ids /\ h.modified \in Nat
             /\ \A id \in Ids : OnServer(id) => /\ server[id].modified \in Nat
                                                /\ server[id].modified <= clock
                                                /\ server[id].state \in {"live", "dead"}
             /\ \A r \in remote : /\ r.id \in Ids /\ r.modified \in Nat
                                  /\ r.state \in {"live", "dead"}
  OBVIOUS
<1>1. clock \in Nat /\ lastModified \in Int /\ lastModified <= clock
  BY DEF BaseInv, TypeOK, Clocks, Time, TimeOrNone, NoTime
<1>2. \A h \in history : h.id \in Ids /\ h.modified \in Nat
  BY DEF BaseInv, TypeOK, Version, Time
<1>3. ASSUME NEW id \in Ids, OnServer(id)
      PROVE  /\ server[id].modified \in Nat /\ server[id].modified <= clock
             /\ server[id].state \in {"live", "dead"}
  <2>1. server[id].modified \in Nat /\ server[id].modified <= lastModified
    BY <1>3 DEF BaseInv, Clocks
  <2>2. server[id] \in ServerRecord
    BY DEF BaseInv, TypeOK
  <2>3. QED
    BY <1>1, <1>3, <2>1, <2>2 DEF OnServer, ServerRecord
<1>4. \A r \in remote : r.id \in Ids /\ r.modified \in Nat /\ r.state \in {"live", "dead"}
  BY DEF BaseInv, TypeOK, RemoteRecords, Time
<1>5. QED
  BY <1>1, <1>2, <1>3, <1>4

\* A step that writes no version keeps what history is.
LEMMA HistoryKept ==
  ASSUME BaseInv, HistoryInv, UNCHANGED <<history, clock>>,
         \A id \in Ids : server'[id] = server[id] \/ server'[id].state = "none",
         \A r \in remote' : PulledVersion(r) \in history
  PROVE  HistoryInv'
<1>1. \A id \in Ids : OnServer(id)' => server'[id] = server[id] /\ OnServer(id)
  BY DEF OnServer
<1>2. \A id \in Ids : OnServer(id)' => VersionOf(id, server'[id]) \in history'
  BY <1>1 DEF HistoryInv
<1>3. \A h \in history' : h.id \in Ids
  BY EditTypes
<1>4. \A h \in history' : OnServer(h.id)' => h.modified <= server'[h.id].modified
  BY <1>1, <1>3 DEF HistoryInv
<1>5. QED
  BY <1>2, <1>4 DEF HistoryInv

\* A step that writes versions of some ids at one new time does, too.
LEMMA HistoryGrows ==
  ASSUME BaseInv, HistoryInv, NEW ids \in SUBSET Ids, clock' = clock + 1, remote' = remote,
         \A id \in ids : server'[id].modified = clock + 1,
         \A id \in Ids \ ids : server'[id] = server[id],
         history' = history \cup {VersionOf(id, server'[id]) : id \in ids}
  PROVE  HistoryInv'
<1>0. /\ clock \in Nat /\ \A h \in history : h.id \in Ids /\ h.modified \in Nat /\ h.modified <= clock
      /\ \A id \in Ids : OnServer(id) => server[id].modified \in Nat
  BY EditTypes DEF HistoryInv
<1>1. ASSUME NEW h \in history'
      PROVE  \/ h \in history
             \/ h.id \in ids /\ h = VersionOf(h.id, server'[h.id]) /\ h.modified = clock + 1
  BY DEF VersionOf
<1>2. \A id \in Ids : OnServer(id)' => VersionOf(id, server'[id]) \in history'
  BY DEF HistoryInv, OnServer
<1>3. \A h \in history' : h.modified <= clock'
  BY <1>0, <1>1
<1>4. ASSUME NEW h \in history', NEW k \in history', h.id = k.id, h.modified = k.modified
      PROVE  h = k
  <2>1. CASE h \in history /\ k \in history
    BY <1>4, <2>1 DEF HistoryInv
  <2>2. CASE h \notin history /\ k \notin history
    BY <1>1, <1>4, <2>2
  <2>3. CASE h \in history /\ k \notin history
    BY <1>0, <1>1, <1>4, <2>3
  <2>4. CASE h \notin history /\ k \in history
    BY <1>0, <1>1, <1>4, <2>4
  <2>5. QED
    BY <2>1, <2>2, <2>3, <2>4
<1>5. ASSUME NEW h \in history', OnServer(h.id)'
      PROVE  h.modified <= server'[h.id].modified
  <2>1. h.id \in Ids
    BY <1>0, <1>1
  <2>2. CASE h.id \in ids
    BY <1>0, <1>1, <2>2
  <2>3. CASE h.id \notin ids
    <3>1. h \in history /\ server'[h.id] = server[h.id] /\ OnServer(h.id)
      BY <1>1, <1>5, <2>1, <2>3 DEF OnServer
    <3>2. QED
      BY <3>1 DEF HistoryInv
  <2>4. QED
    BY <2>2, <2>3
<1>6. \A r \in remote' : PulledVersion(r) \in history'
  BY DEF HistoryInv
<1>7. QED
  BY <1>2, <1>3, <1>4, <1>5, <1>6 DEF HistoryInv

\* What a page decodes to is the server's version.
LEMMA DecodedIsServed ==
  ASSUME NEW ids, NEW r \in Decoded(ids)
  PROVE  /\ r.id \in ids /\ server[r.id].readable
         /\ r.modified = server[r.id].modified
         /\ PulledVersion(r) = VersionOf(r.id, server[r.id])
BY DEF Decoded, PulledVersion, VersionOf

\* Every edit of the user leaves the record dirty.
LEMMA UserWrites ==
  ASSUME BaseInv, UserEdit
  PROVE  \E id \in Ids, rec \in LocalRecord : rec.dirty = TRUE /\ Write(id, rec)
<1> USE SyncAssumption DEF BaseInv, TypeOK, LocalRecord, TimeOrNone, NoTime, Held
<1>1. PICK id \in Ids : addPassword(id) \/ updatePassword(id) \/ patchPassword(id) \/ deletePassword(id)
  BY DEF UserEdit
<1>2. edits + 1 \in Nat /\ vault[id] \in LocalRecord
  OBVIOUS
<1>3. CASE addPassword(id)
  BY <1>2, <1>3 DEF addPassword
<1>4. CASE updatePassword(id)
  BY <1>2, <1>4 DEF updatePassword
<1>5. CASE patchPassword(id)
  BY <1>2, <1>5 DEF patchPassword
<1>6. CASE deletePassword(id)
  BY <1>2, <1>6 DEF deletePassword
<1>7. QED
  BY <1>1, <1>3, <1>4, <1>5, <1>6

\* A record after a plan is applied: as it was, or an adopted pulled version.
LEMMA AppliedRecord ==
  ASSUME BaseInv, NEW id \in Ids
  PROVE  LET apply == ApplyLocally(vault, remote) IN
         \/ /\ \A r \in apply : r.id # id
            /\ Applied(vault, apply)[id] = vault[id]
         \/ \E r \in apply : r.id = id /\ Applied(vault, apply)[id] = Adopted(r)
<1>1. /\ ApplyLocally(vault, remote) \in SUBSET RemoteRecords(Ids)
      /\ \A r \in ApplyLocally(vault, remote) : r.modified <= clock
      /\ clock \in Nat /\ vault \in [Ids -> LocalRecord]
  BY PlanTypes DEF BaseInv, TypeOK, Time
<1>2. QED
  BY <1>1, AppliedIsNewest

\* A user's edit is pending, and a race when its record is being uploaded.
LEMMA EditsWrite ==
  ASSUME BaseInv, EditsInv, UserEdit
  PROVE  EditsInv'
<1>1. PICK id \in Ids, rec \in LocalRecord : rec.dirty = TRUE /\ Write(id, rec)
  BY UserWrites
<1>2. /\ vault' = [vault EXCEPT ![id] = rec] /\ UNCHANGED <<server, clock, history, remote, pc, bsos, accepted, modified>>
      /\ raced' = IF pc \in {"push", "posted"} /\ InUpload(id) THEN raced \cup {id} ELSE raced \ {id}
  BY <1>1 DEF Write, NoteRace, cloud, run
<1>3. vault'[id] = rec /\ \A i \in Ids \ {id} : vault'[i] = vault[i] /\ (i \in raced' <=> i \in raced)
  BY <1>2 DEF BaseInv, TypeOK
<1>4. HistoryInv'
  BY <1>2, HistoryKept DEF EditsInv, HistoryInv
<1>5. UploadInv'
  <2>1. ASSUME pc \in {"push", "posted"}, NEW b \in bsos, b.id \notin raced'
        PROVE  StillHolds(b)'
    <3>1. b.id # id
      BY <1>2, <2>1 DEF InUpload
    <3>2. b.id \in Ids
      BY DEF BaseInv, TypeOK, Bso
    <3>3. b.id \notin raced /\ vault'[b.id] = vault[b.id]
      BY <1>3, <2>1, <3>1, <3>2
    <3>4. QED
      BY <2>1, <3>3 DEF StillHolds, EditsInv, UploadInv
  <2>2. QED
    BY <1>2, <2>1 DEF EditsInv, UploadInv
<1>6. OnlyRacedEditsLost'
  <2> SUFFICES ASSUME NEW i \in Ids, Lost(i)' PROVE i \in raced'
    BY DEF OnlyRacedEditsLost
  <2>1. ~vault'[i].dirty
    BY DEF Lost
  <2>2. i # id
    BY <1>1, <1>3, <2>1
  <2>3. Lost(i)
    BY <1>2, <1>3, <2>2 DEF Lost
  <2>4. QED
    BY <1>3, <2>2, <2>3 DEF EditsInv, OnlyRacedEditsLost
<1>7. QED
  BY <1>4, <1>5, <1>6 DEF EditsInv

\* Steps that leave the vault and the upload alone.
LEMMA EditsKept ==
  ASSUME EditsInv, HistoryInv', UNCHANGED <<vault, raced>>, history \subseteq history',
         \/ pc' \notin {"push", "posted"}
         \/ UNCHANGED <<pc, bsos, accepted, modified>>
  PROVE  EditsInv'
<1>1. UploadInv'
  BY DEF EditsInv, UploadInv, StillHolds
<1>2. OnlyRacedEditsLost'
  BY DEF EditsInv, OnlyRacedEditsLost, Lost
<1>3. QED
  BY <1>1, <1>2 DEF EditsInv

\* A peer's version is newer than all there were.
LEMMA EditsPeerWrite ==
  ASSUME BaseInv, EditsInv, NEW id \in Ids, PeerWrite(id)
  PROVE  EditsInv'
<1>1. PICK st \in {"live", "dead"}, auth \in Authorities, ok \in Readable :
        /\ server' = [server EXCEPT ![id] =
             [state |-> st, data |-> edits + 1, authorityTime |-> auth,
              modified |-> clock + 1, readable |-> ok]]
        /\ history' = history \cup {VersionOf(id, server'[id])}
  BY DEF PeerWrite
<1>2. server'[id].modified = clock + 1 /\ \A i \in Ids \ {id} : server'[i] = server[i]
  BY <1>1 DEF BaseInv, TypeOK
<1>3. UNCHANGED <<vault, raced, pc, bsos, accepted, modified, remote>> /\ clock' = clock + 1
  BY DEF PeerWrite, device, run
<1> DEFINE ids == {id}
<1>4. /\ ids \in SUBSET Ids /\ \A i \in ids : server'[i].modified = clock + 1
      /\ \A i \in Ids \ ids : server'[i] = server[i]
      /\ history' = history \cup {VersionOf(i, server'[i]) : i \in ids}
  BY <1>1, <1>2
<1> HIDE DEF ids
<1>5. HistoryInv'
  BY <1>3, <1>4, HistoryGrows DEF EditsInv
<1>6. QED
  BY <1>1, <1>3, <1>5, EditsKept

\* The steps of a run before its plan and after its answer, a reset by a peer, and
\* failures, write no version.
LEMMA EditsQuiet ==
  ASSUME BaseInv, EditsInv,
         \/ Start \/ InfoCollections \/ ReadMeta \/ PullPage \/ Conflict412 \/ Save
         \/ PeerReset \/ RequestFails \/ WorkerDies \/ UNCHANGED vars
  PROVE  EditsInv'
<1>1. UNCHANGED <<vault, raced, history, clock>>
  BY DEF Start, InfoCollections, ReadMeta, PullPage, Conflict412, Save, PeerReset, RequestFails,
         WorkerDies, vars, device, cloud, ghosts
<1>2. \A id \in Ids : server'[id] = server[id] \/ server'[id].state = "none"
  <2>1. CASE PeerReset
    BY <2>1 DEF PeerReset, Missing
  <2>2. CASE ~PeerReset
    BY <2>2 DEF Start, InfoCollections, ReadMeta, PullPage, Conflict412, Save, RequestFails,
                WorkerDies, vars, cloud
  <2>3. QED
    BY <2>1, <2>2
<1>3. \/ pc' \notin {"push", "posted"}
      \/ UNCHANGED <<pc, bsos, accepted, modified>>
  BY DEF Start, InfoCollections, ReadMeta, AfterMeta, PullPage, Conflict412, Save, PeerReset,
         RequestFails, WorkerDies, Forget, vars, run
<1>4. \A r \in remote' : PulledVersion(r) \in history
  <2>1. CASE PullPage
    <3>1. PICK page \in SUBSET Newer : remote' = remote \cup Decoded(page)
      BY <2>1 DEF PullPage
    <3>2. ASSUME NEW r \in Decoded(page)
          PROVE  PulledVersion(r) \in history
      <4>1. r.id \in page /\ PulledVersion(r) = VersionOf(r.id, server[r.id])
        BY DecodedIsServed
      <4>2. r.id \in Ids /\ OnServer(r.id)
        BY <4>1 DEF Newer
      <4>3. QED
        BY <4>1, <4>2 DEF EditsInv, HistoryInv
    <3>3. QED
      BY <3>1, <3>2 DEF EditsInv, HistoryInv
  <2>2. CASE ~PullPage
    <3>1. remote' = remote \/ remote' = {}
      BY <2>2 DEF Start, InfoCollections, ReadMeta, Conflict412, Save, PeerReset, RequestFails,
                  WorkerDies, Forget, vars, run
    <3>2. QED
      BY <3>1 DEF EditsInv, HistoryInv
  <2>3. QED
    BY <2>1, <2>2
<1>5. HistoryInv'
  BY <1>1, <1>2, <1>4, HistoryKept DEF EditsInv
<1>6. QED
  BY <1>1, <1>3, <1>5, EditsKept

\* The plan adopts versions the server held; what it uploads is what the vault holds,
\* unless it also replaced it.
LEMMA EditsReconcile ==
  ASSUME BaseInv, EditsInv, ReconcileAndApply
  PROVE  EditsInv'
<1> DEFINE apply == ApplyLocally(vault, remote)
           upload == UploadRemotely(vault, remote)
           replaced == {r.id : r \in apply}
<1>1. /\ vault' = Applied(vault, apply) /\ bsos' = BsosOf(upload)
      /\ raced' = (raced \ (replaced \cup upload)) \cup (replaced \cap upload)
      /\ remote' = {} /\ UNCHANGED <<server, clock, history>> /\ pc' \in {"save", "push"}
  BY DEF ReconcileAndApply, cloud
<1>2. \A id \in Ids : \/ id \notin replaced /\ vault'[id] = vault[id]
                      \/ \E r \in apply : r.id = id /\ vault'[id] = Adopted(r)
  BY <1>1, AppliedRecord
<1>3. apply \subseteq remote /\ upload \subseteq Ids /\ \A id \in upload : vault[id].dirty
  BY OnlyDirtyIsUploaded DEF ApplyLocally, BaseInv, TypeOK
<1>4. bsos' = {[id |-> id, state |-> vault[id].state, data |-> vault[id].data,
                authorityTime |-> vault[id].authorityTime] : id \in upload}
  BY <1>1 DEF BsosOf
<1>r. \A r \in apply : r.id \in replaced
  OBVIOUS
<1> HIDE DEF apply, upload, replaced
<1>5. HistoryInv'
  BY <1>1, HistoryKept DEF EditsInv
<1>6. UploadInv'
  <2> SUFFICES ASSUME NEW b \in bsos', b.id \notin raced' PROVE StillHolds(b)'
    BY <1>1 DEF UploadInv
  <2>1. PICK id \in upload : b.id = id /\ b.state = vault[id].state /\ b.data = vault[id].data
    BY <1>4
  <2>2. id \notin replaced
    BY <1>1, <2>1
  <2>3. vault'[id] = vault[id]
    BY <1>2, <1>3, <1>r, <2>2
  <2>4. QED
    BY <2>1, <2>3 DEF StillHolds
<1>7. OnlyRacedEditsLost'
  <2> SUFFICES ASSUME NEW id \in Ids, Lost(id)' PROVE id \in raced'
    BY DEF OnlyRacedEditsLost
  <2>1. CASE id \notin replaced /\ vault'[id] = vault[id]
    <3>1. Lost(id)
      BY <1>1, <2>1 DEF Lost
    <3>2. id \notin upload
      BY <1>3, <3>1 DEF Lost
    <3>3. QED
      BY <1>1, <2>1, <3>1, <3>2 DEF EditsInv, OnlyRacedEditsLost
  <2>2. ASSUME NEW r \in apply, r.id = id, vault'[id] = Adopted(r)
        PROVE  FALSE
    <3>1. PulledVersion(r) \in history
      BY <1>3 DEF EditsInv, HistoryInv
    <3>2. [id |-> id, state |-> vault'[id].state, data |-> vault'[id].data,
           modified |-> vault'[id].syncedAt] = PulledVersion(r)
      BY <2>2 DEF Adopted, PulledVersion
    <3>3. QED
      BY <1>1, <3>1, <3>2 DEF Lost
  <2>3. QED
    BY <1>2, <2>1, <2>2
<1>8. QED
  BY <1>5, <1>6, <1>7 DEF EditsInv

\* What a POST writes: for each record it takes, what was encrypted for it.
LEMMA CommitSends ==
  ASSUME BaseInv, Commit
  PROVE  \E ids \in SUBSET Ids, at \in Nat :
           /\ \A id \in Ids \ ids : server'[id] = server[id]
           /\ \A id \in ids :
                /\ server'[id].modified = at
                /\ \E b \in bsos : b.id = id /\ server'[id].state = b.state /\ server'[id].data = b.data
           /\ \/ ids = {} /\ at = XLastModified /\ clock' = clock /\ lastModified' = lastModified
              \/ ids # {} /\ at = clock + 1 /\ clock' = at /\ lastModified' = at
           /\ history' = history \cup {VersionOf(id, server'[id]) : id \in ids}
           /\ accepted' = ids /\ modified' = at
<1>1. PICK taken \in SUBSET bsos :
       LET at == IF taken = {} THEN XLastModified ELSE clock + 1
           of(id) == CHOOSE b \in taken : b.id = id
           ids == {b.id : b \in taken}
       IN
       /\ server' = [id \in Ids |->
            IF id \in ids
              THEN [state |-> of(id).state, data |-> of(id).data,
                    authorityTime |-> of(id).authorityTime, modified |-> at, readable |-> TRUE]
              ELSE server[id]]
       /\ lastModified' = IF taken = {} THEN lastModified ELSE at
       /\ clock' = IF taken = {} THEN clock ELSE at
       /\ history' = history \cup {VersionOf(id, server'[id]) : id \in ids}
       /\ accepted' = ids /\ modified' = at
  BY Zenon DEF Commit
<1> DEFINE ids == {b.id : b \in taken}
           at == IF taken = {} THEN XLastModified ELSE clock + 1
           of(id) == CHOOSE b \in taken : b.id = id
<1>2. ids \in SUBSET Ids /\ (ids = {} <=> taken = {})
  BY DEF BaseInv, TypeOK, Bso
<1>3. at \in Nat
  BY XLastModifiedType DEF BaseInv, TypeOK, Time
<1>4. ASSUME NEW id \in ids
      PROVE  /\ server'[id].modified = at
             /\ \E b \in bsos : b.id = id /\ server'[id].state = b.state /\ server'[id].data = b.data
  <2>1. \E b \in taken : b.id = id
    OBVIOUS
  <2>2. of(id) \in taken /\ of(id).id = id
    BY <2>1
  <2>3. id \in Ids
    BY <1>2
  <2>4. server'[id] = [state |-> of(id).state, data |-> of(id).data,
                       authorityTime |-> of(id).authorityTime, modified |-> at, readable |-> TRUE]
    BY <1>1, <2>3
  <2> HIDE DEF of, at, ids
  <2>5. QED
    BY <2>2, <2>4
<1>5. \A id \in Ids \ ids : server'[id] = server[id]
  BY <1>1
<1>6. /\ \/ ids = {} /\ at = XLastModified /\ clock' = clock /\ lastModified' = lastModified
         \/ ids # {} /\ at = clock + 1 /\ clock' = at /\ lastModified' = at
      /\ history' = history \cup {VersionOf(id, server'[id]) : id \in ids}
      /\ accepted' = ids /\ modified' = at
  BY <1>1, <1>2
<1> HIDE DEF of, at, ids
<1>7. QED
  BY <1>2, <1>3, <1>4, <1>5, <1>6

\* The versions a POST writes become history.
LEMMA EditsCommit ==
  ASSUME BaseInv, EditsInv, Commit
  PROVE  EditsInv'
<1>1. PICK ids \in SUBSET Ids, at \in Nat :
           /\ \A id \in Ids \ ids : server'[id] = server[id]
           /\ \A id \in ids :
                /\ server'[id].modified = at
                /\ \E b \in bsos : b.id = id /\ server'[id].state = b.state /\ server'[id].data = b.data
           /\ \/ ids = {} /\ at = XLastModified /\ clock' = clock /\ lastModified' = lastModified
              \/ ids # {} /\ at = clock + 1 /\ clock' = at /\ lastModified' = at
           /\ history' = history \cup {VersionOf(id, server'[id]) : id \in ids}
           /\ accepted' = ids /\ modified' = at
  BY CommitSends
<1>2. UNCHANGED <<vault, raced, remote, bsos>> /\ pc = "push" /\ pc' = "posted"
  BY DEF Commit, device
<1>3. HistoryInv'
  <2>1. CASE ids = {}
    <3>1. history' = history /\ clock' = clock /\ \A id \in Ids : server'[id] = server[id]
      BY <1>1, <2>1, EditTypes
    <3>2. QED
      BY <1>2, <3>1, HistoryKept DEF EditsInv, HistoryInv
  <2>2. CASE ids # {}
    <3>1. clock' = clock + 1 /\ \A id \in ids : server'[id].modified = clock + 1
      BY <1>1, <2>2
    <3>2. QED
      BY <1>1, <1>2, <3>1, HistoryGrows DEF EditsInv
  <2>3. QED
    BY <2>1, <2>2
<1>4. UploadInv'
  <2>1. \A b \in bsos : StillHolds(b) \/ b.id \in raced
    BY <1>2 DEF EditsInv, UploadInv
  <2>2. ASSUME NEW id \in ids
        PROVE  \E b \in bsos : b.id = id /\
                 [id |-> id, state |-> b.state, data |-> b.data, modified |-> at] \in history'
    <3>1. PICK b \in bsos : b.id = id /\ server'[id].state = b.state /\ server'[id].data = b.data
      BY <1>1
    <3>2. VersionOf(id, server'[id]) = [id |-> id, state |-> b.state, data |-> b.data, modified |-> at]
      BY <1>1, <3>1 DEF VersionOf
    <3>3. VersionOf(id, server'[id]) \in history'
      BY <1>1
    <3>4. QED
      BY <3>1, <3>2, <3>3
  <2>3. QED
    BY <1>1, <1>2, <2>1, <2>2 DEF UploadInv, StillHolds
<1>5. OnlyRacedEditsLost'
  <2>1. history \subseteq history'
    BY <1>1
  <2>2. QED
    BY <1>2, <2>1 DEF EditsInv, OnlyRacedEditsLost, Lost
<1>6. QED
  BY <1>3, <1>4, <1>5 DEF EditsInv

\* A record whose acceptance is noted holds what was sent, or was raced.
LEMMA EditsMarkSynced ==
  ASSUME BaseInv, EditsInv, MarkSynced
  PROVE  EditsInv'
<1>1. /\ vault' = [id \in Ids |-> Marked(id)] /\ pc = "posted" /\ pc' = "save"
      /\ UNCHANGED <<server, clock, history, raced, remote>>
  BY DEF MarkSynced, cloud, ghosts
<1>2. HistoryInv'
  BY <1>1, HistoryKept DEF EditsInv, HistoryInv
<1>3. UploadInv'
  BY <1>1 DEF UploadInv
<1>4. OnlyRacedEditsLost'
  <2> SUFFICES ASSUME NEW id \in Ids, Lost(id)', id \notin raced PROVE FALSE
    BY <1>1 DEF OnlyRacedEditsLost
  <2>1. vault'[id] = Marked(id)
    BY <1>1
  <2>2. CASE ~(id \in accepted /\ Held(vault[id]))
    <3>1. Lost(id)
      BY <1>1, <2>1, <2>2 DEF Marked, Lost
    <3>2. QED
      BY <3>1 DEF EditsInv, OnlyRacedEditsLost
  <2>3. CASE id \in accepted /\ Held(vault[id])
    <3>1. /\ vault'[id].state = vault[id].state /\ vault'[id].data = vault[id].data
          /\ vault'[id].syncedAt = modified
      <4>1. vault[id] \in LocalRecord
        BY DEF BaseInv, TypeOK
      <4>2. QED
        BY <2>1, <2>3, <4>1 DEF Marked, LocalRecord
    <3>2. PICK b \in bsos :
            b.id = id /\ [id |-> id, state |-> b.state, data |-> b.data, modified |-> modified] \in history
      BY <1>1, <2>3 DEF EditsInv, UploadInv
    <3>3. vault[id].state = b.state /\ vault[id].data = b.data
      BY <1>1, <3>2 DEF EditsInv, UploadInv, StillHolds
    <3>4. QED
      BY <1>1, <3>1, <3>2, <3>3 DEF Lost
  <2>4. QED
    BY <2>2, <2>3
<1>5. QED
  BY <1>2, <1>3, <1>4 DEF EditsInv

\* At the start the vault is empty and history is the seed.
LEMMA EditsInit == Init => EditsInv
<1> SUFFICES ASSUME Init PROVE EditsInv
  OBVIOUS
<1>1. /\ \A id \in Ids : OnServer(id) => id \in SeedIds
      /\ \A h \in history : \E id \in SeedIds : h = VersionOf(id, Seeded[id])
      /\ \A id \in SeedIds : id \in Ids /\ VersionOf(id, server[id]) \in history /\ server[id].modified = 1
      /\ remote = {} /\ clock = 1 /\ server = Seeded
  BY SyncAssumption DEF Init, Seeded, OnServer, Missing
<1>2. \A h \in history : h.id \in SeedIds /\ h = VersionOf(h.id, server[h.id]) /\ h.modified = 1
  BY <1>1 DEF VersionOf
<1>3. HistoryInv
  <2>1. \A h \in history : h.modified <= clock /\ (OnServer(h.id) => h.modified <= server[h.id].modified)
    BY <1>1, <1>2
  <2>2. QED
    BY <1>1, <1>2, <2>1 DEF HistoryInv
<1>4. UploadInv
  BY DEF Init, UploadInv
<1>5. OnlyRacedEditsLost
  BY DEF Init, OnlyRacedEditsLost, Lost, Held, Absent
<1>6. QED
  BY <1>3, <1>4, <1>5 DEF EditsInv

\* Every step keeps what clean records hold.
LEMMA EditsNext == BaseInv /\ EditsInv /\ [Next]_vars => EditsInv'
<1> SUFFICES ASSUME BaseInv, EditsInv, [Next]_vars PROVE EditsInv'
  OBVIOUS
<1>1. CASE SyncStep
  BY <1>1, EditsQuiet, EditsReconcile, EditsCommit, EditsMarkSynced DEF SyncStep
<1>2. CASE ~SyncStep
  BY <1>2, EditsQuiet, EditsWrite, EditsPeerWrite DEF Next
<1>3. QED
  BY <1>1, <1>2

\* However edits, pulls, uploads, rejections, failures and resets interleave, a record
\* that looks synced holds what the server held, unless its content changed during
\* its own upload.
THEOREM EditsAreKept == Spec => []OnlyRacedEditsLost
<1>1. EditsInv => OnlyRacedEditsLost
  BY DEF EditsInv
<1>2. QED
  BY <1>1, BaseInit, BaseNext, EditsInit, EditsNext, PTL DEF Spec

-----------------------------------------------------------------------------
(***************************************************************************)
(* What a clean record below a mark agrees with.                           *)
(*                                                                         *)
(* Along the run: what the pull has up to its mark, the plan adopts or     *)
(* finds adopted; a POST that passes its precondition finds nothing newer, *)
(* and what it wrote is what the vault holds.  A record pulled twice has   *)
(* changed since the first page, so its newer version is beyond the mark.  *)
(***************************************************************************)

\* CleanBelowMarkAgrees for any mark.
AgreesUpTo(mark) ==
  \A id \in Ids :
    OnServer(id) /\ server[id].readable /\ server[id].modified <= mark /\ ~vault[id].dirty
      => Agrees(id) \/ id \in raced

\* Between the run's mark and the pull's, everything is in the pull or among the rest.
PulledUpTo(rest) ==
  \A id \in Ids :
    OnServer(id) /\ server[id].readable /\ server[id].modified > state.lastModified
      /\ server[id].modified <= highWaterMark
      => \/ \E r \in remote : r.id = id /\ r.modified = server[id].modified
         \/ id \in rest

\* What has changed since it was pulled is beyond the mark.
Overtakes(mark) ==
  \A r \in remote : OnServer(r.id) /\ server[r.id].modified # r.modified
                      => server[r.id].modified > mark

PullInv ==
  /\ pc \notin {"pull more", "reconcile"} => remote = {}
  /\ Overtakes(highWaterMark) /\ Overtakes(state.lastModified) /\ Overtakes(syncState.lastModified)
  /\ pc = "pull more" => PulledUpTo(unread)
  /\ pc = "reconcile" => PulledUpTo({})

MarksAgree ==
  /\ AgreesUpTo(syncState.lastModified) /\ AgreesUpTo(state.lastModified)
  /\ pc = "push" => AgreesUpTo(highWaterMark)
  /\ pc = "posted" => AgreesUpTo(modified) /\ (accepted # {} => modified > syncState.lastModified)

AgreeInv == PullInv /\ (blind \/ MarksAgree)

\* What others and a POST do to the server: leave a record, delete it or put a version
\* there that is newer than the clock was.
Newest ==
  \A id \in Ids : \/ server'[id] = server[id]
                  \/ server'[id].state = "none"
                  \/ server'[id].modified > clock

\* Such a step leaves what is at or below a mark.
LEMMA BelowMarkIsOld ==
  ASSUME BaseInv, Newest, NEW mark \in Int, mark <= clock, NEW id \in Ids, OnServer(id)',
         server'[id].modified \in Int, server'[id].modified <= mark
  PROVE  server'[id] = server[id] /\ OnServer(id)
<1>1. clock \in Int
  BY MarkTypes
<1>2. QED
  BY <1>1 DEF Newest, OnServer

\* The versions on the server have natural times, before a step and after it.
LEMMA ServedTimes ==
  ASSUME BaseInv'
  PROVE  \A id \in Ids : OnServer(id)' => server'[id].modified \in Int
BY DEF BaseInv, Clocks, OnServer

\* Below a mark such a step changes nothing, so what agreed up to it still does.
LEMMA AgreesStays ==
  ASSUME BaseInv, BaseInv', Newest, NEW mark \in Int, mark <= clock, AgreesUpTo(mark),
         \A id \in Ids : \/ vault'[id] = vault[id] /\ (id \in raced => id \in raced')
                         \/ vault'[id].dirty
  PROVE  AgreesUpTo(mark)'
<1> SUFFICES ASSUME NEW id \in Ids, OnServer(id)', server'[id].readable, server'[id].modified <= mark,
                    ~vault'[id].dirty
             PROVE  Agrees(id)' \/ id \in raced'
  BY DEF AgreesUpTo
<1>1. server'[id] = server[id] /\ OnServer(id)
  BY ServedTimes, BelowMarkIsOld
<1>2. vault'[id] = vault[id] /\ (id \in raced => id \in raced')
  OBVIOUS
<1>3. QED
  BY <1>1, <1>2 DEF AgreesUpTo, Agrees

\* Nothing is below NoTime.
LEMMA NothingAgrees == BaseInv => AgreesUpTo(NoTime)
BY DEF BaseInv, Clocks, OnServer, AgreesUpTo, NoTime

\* The steps of others leave the pull what it is.
LEMMA PullKept ==
  ASSUME BaseInv, BaseInv', PullInv, Newest,
         UNCHANGED <<syncState, pc, state, unread, highWaterMark, remote>>
  PROVE  PullInv'
<1>0. \A r \in remote : r.id \in Ids
  BY EditTypes
<1>1. ASSUME NEW mark \in Int, mark <= clock, Overtakes(mark)
      PROVE  Overtakes(mark)'
  <2> SUFFICES ASSUME NEW r \in remote, OnServer(r.id)', server'[r.id].modified # r.modified,
                      ~(server'[r.id].modified > mark)
               PROVE  FALSE
    BY DEF Overtakes
  <2>1. server'[r.id].modified \in Int /\ server'[r.id].modified <= mark
    BY <1>0, ServedTimes
  <2>2. server'[r.id] = server[r.id] /\ OnServer(r.id)
    BY <1>0, <1>1, <2>1, BelowMarkIsOld
  <2>3. QED
    BY <1>1, <2>2 DEF Overtakes
<1>2. Overtakes(highWaterMark)' /\ Overtakes(state.lastModified)' /\ Overtakes(syncState.lastModified)'
  BY <1>1, MarkTypes DEF PullInv, Overtakes
<1>3. \A id \in Ids : OnServer(id)' /\ server'[id].modified <= highWaterMark
                        => server'[id] = server[id] /\ OnServer(id)
  BY ServedTimes, BelowMarkIsOld, MarkTypes
<1>4. /\ pc' = "pull more" => PulledUpTo(unread)'
      /\ pc' = "reconcile" => PulledUpTo({})'
  BY <1>3 DEF PullInv, PulledUpTo
<1>5. QED
  BY <1>2, <1>4 DEF PullInv

\* The steps of others keep the agreement.
LEMMA AgreeKept ==
  ASSUME BaseInv, BaseInv', AgreeInv, Newest, blind' = blind,
         UNCHANGED <<syncState, pc, state, unread, highWaterMark, remote, modified, accepted>>,
         \A id \in Ids : \/ vault'[id] = vault[id] /\ (id \in raced => id \in raced')
                         \/ vault'[id].dirty
  PROVE  AgreeInv'
<1>1. PullInv'
  BY PullKept DEF AgreeInv
<1>2. ASSUME MarksAgree
      PROVE  MarksAgree'
  <2>1. ASSUME NEW mark \in Int, mark <= clock, AgreesUpTo(mark)
        PROVE  AgreesUpTo(mark)'
    BY <2>1, AgreesStays
  <2>2. AgreesUpTo(syncState.lastModified)' /\ AgreesUpTo(state.lastModified)'
    BY <1>2, <2>1, MarkTypes DEF MarksAgree, AgreesUpTo
  <2>3. pc' = "push" => AgreesUpTo(highWaterMark)'
    BY <1>2, <2>1, MarkTypes DEF MarksAgree, AgreesUpTo
  <2>4. pc' = "posted" => AgreesUpTo(modified)'
    BY <1>2, <2>1, MarkTypes DEF MarksAgree, AgreesUpTo
  <2>5. QED
    BY <1>2, <2>2, <2>3, <2>4 DEF MarksAgree
<1>3. QED
  BY <1>1, <1>2 DEF AgreeInv

\* The run moves on to a step without a pull: what it holds of marks it had.
LEMMA AgreeMoves ==
  ASSUME BaseInv, AgreeInv, UNCHANGED <<vault, server, raced, blind>>,
         pc' \notin {"push", "posted"}, PullInv',
         syncState' = syncState \/ syncState' = state,
         state'.lastModified \in {NoTime, state.lastModified, syncState.lastModified}
  PROVE  AgreeInv'
<1>1. ASSUME MarksAgree
      PROVE  MarksAgree'
  <2>1. \A mark \in {NoTime, state.lastModified, syncState.lastModified} : AgreesUpTo(mark)
    BY <1>1, NothingAgrees DEF MarksAgree
  <2>2. AgreesUpTo(state.lastModified)' /\ AgreesUpTo(syncState.lastModified)'
    BY <2>1 DEF AgreesUpTo, Agrees, OnServer
  <2>3. QED
    BY <2>2 DEF MarksAgree
<1>2. QED
  BY <1>1 DEF AgreeInv

\* Without a pull there is nothing to say of one.
LEMMA NoPull == pc' \notin {"pull more", "reconcile"} /\ remote' = {} => PullInv'
BY DEF PullInv, Overtakes

\* A run's state with another mark.
LEMMA MarkIsSet ==
  BaseInv => [state EXCEPT !.lastModified = NoTime] = [lastModified |-> NoTime, syncId |-> state.syncId]
BY DEF BaseInv, TypeOK, CollectionSyncState

\* The steps of a run around the pull.
LEMMA AgreeQuiet ==
  ASSUME BaseInv, AgreeInv,
         \/ Start \/ InfoCollections \/ Conflict412 \/ Save \/ RequestFails \/ WorkerDies
  PROVE  AgreeInv'
<1>1. UNCHANGED <<vault, server, raced, blind>>
  BY DEF Start, InfoCollections, Conflict412, Save, RequestFails, WorkerDies, device, cloud, ghosts
<1>2. pc' \in {"idle", "info", "meta", "save"}
  BY DEF Start, InfoCollections, Conflict412, Save, RequestFails, WorkerDies, Forget
<1>3. remote' = {}
  BY DEF Start, InfoCollections, Conflict412, Save, RequestFails, WorkerDies, Forget, AgreeInv, PullInv
<1>4. syncState' = syncState \/ syncState' = state
  BY DEF Start, InfoCollections, Conflict412, Save, RequestFails, WorkerDies, device
<1>5. state'.lastModified \in {NoTime, state.lastModified, syncState.lastModified}
  <2>1. CASE Conflict412
    <3>1. state' = [lastModified |-> NoTime, syncId |-> state.syncId]
      BY <2>1, MarkIsSet DEF Conflict412
    <3>2. QED
      BY <3>1
  <2>2. CASE Start \/ InfoCollections
    BY <2>2 DEF Start, InfoCollections
  <2>3. CASE Save \/ RequestFails \/ WorkerDies
    <3>1. state' = [lastModified |-> NoTime, syncId |-> NoId] \/ state' = state
      BY <2>3 DEF Save, RequestFails, WorkerDies, Forget
    <3>2. QED
      BY <3>1
  <2>4. QED
    BY <2>1, <2>2, <2>3
<1>6. QED
  BY <1>1, <1>2, <1>3, <1>4, <1>5, NoPull, AgreeMoves

\* Before the first page the pull's mark is the run's.
LEMMA AgreeReadMeta ==
  ASSUME BaseInv, AgreeInv, ReadMeta
  PROVE  AgreeInv'
<1>1. /\ UNCHANGED <<vault, server, raced, blind, syncState, remote>> /\ pc = "meta"
      /\ state'.lastModified = MarkAfterMeta /\ highWaterMark' = MarkAfterMeta
      /\ pc' \in {"pull", "reconcile"}
  BY DEF ReadMeta, AfterMeta, device, cloud, ghosts
<1>2. remote' = {}
  BY <1>1 DEF AgreeInv, PullInv
<1>3. MarkAfterMeta \in {NoTime, state.lastModified}
  BY DEF MarkAfterMeta
<1>4. MarkAfterMeta \in Int /\ \A id \in Ids : OnServer(id) => server[id].modified \in Int
  BY <1>3, MarkTypes, EditTypes DEF NoTime
<1>5. PulledUpTo({})'
  BY <1>1, <1>4 DEF PulledUpTo, OnServer
<1>6. PullInv'
  BY <1>1, <1>2, <1>5 DEF PullInv, Overtakes
<1>7. QED
  BY <1>1, <1>3, <1>6, AgreeMoves

\* A page brings what was awaited up to the mark, or leaves it among the unread.
LEMMA AgreePullPage ==
  ASSUME BaseInv, AgreeInv, PullPage
  PROVE  AgreeInv'
<1>1. /\ UNCHANGED <<vault, server, raced, blind, syncState, state>>
      /\ pc \in {"pull", "pull more"} /\ pc' \in {"pull more", "reconcile"}
      /\ highWaterMark' = IF pc = "pull" THEN XLastModified ELSE highWaterMark
  BY DEF PullPage, MarkAfterPage, device, cloud, ghosts
<1>2. PICK page \in SUBSET Newer :
        /\ remote' = remote \cup Decoded(page)
        /\ \/ pc' = "pull more" /\ unread' = Awaited \ page
           \/ /\ pc' = "reconcile"
              /\ \A id \in Awaited \ page :
                   OnServer(id) => pc = "pull more" /\ server[id].modified > highWaterMark
  BY DEF PullPage
<1>3. pc = "pull" => remote = {}
  BY DEF AgreeInv, PullInv
<1>4. \A id \in page : id \in Ids /\ OnServer(id)
  BY DEF Newer
<1>5. ASSUME NEW id \in page, server[id].readable
      PROVE  \E r \in remote' : r.id = id /\ r.modified = server[id].modified
  <2>1. page \in SUBSET {i \in Ids : OnServer(i)}
    BY <1>4
  <2>2. \E r \in Decoded(page) : r.id = id /\ r.modified = server[id].modified
    BY <1>5, <2>1, DecodedIsPulled
  <2>3. QED
    BY <1>2, <2>2
<1>6. ASSUME NEW id \in Ids, OnServer(id), server[id].readable, server[id].modified > state.lastModified,
             server[id].modified <= highWaterMark'
      PROVE  \/ \E r \in remote' : r.id = id /\ r.modified = server[id].modified
             \/ id \in Awaited \ page
  <2>1. CASE id \in Awaited
    BY <1>5, <1>6, <2>1
  <2>2. CASE id \notin Awaited
    <3>1. pc = "pull more" /\ id \notin unread /\ highWaterMark' = highWaterMark
      BY <1>1, <1>6, <2>2 DEF Awaited, Newer
    <3>2. PulledUpTo(unread)
      BY <3>1 DEF AgreeInv, PullInv
    <3>3. QED
      BY <1>2, <1>6, <3>1, <3>2 DEF PulledUpTo
  <2>3. QED
    BY <2>1, <2>2
<1>7. /\ pc' = "pull more" => PulledUpTo(unread)'
      /\ pc' = "reconcile" => PulledUpTo({})'
  <2>1. pc' = "pull more" => PulledUpTo(unread)'
    BY <1>1, <1>2, <1>6 DEF PulledUpTo, OnServer
  <2>2. ASSUME pc' = "reconcile", NEW id \in Ids, id \in Awaited \ page, OnServer(id)
        PROVE  server[id].modified > highWaterMark /\ highWaterMark' = highWaterMark
    BY <1>1, <1>2, <2>2
  <2>3. ASSUME pc' = "reconcile", NEW id \in Ids, OnServer(id), server[id].readable,
               server[id].modified > state.lastModified, server[id].modified <= highWaterMark'
        PROVE  \E r \in remote' : r.id = id /\ r.modified = server[id].modified
    <3>1. server[id].modified \in Int /\ highWaterMark \in Int
      BY <2>3, EditTypes, MarkTypes
    <3>2. CASE id \in Awaited \ page
      <4>1. server[id].modified > highWaterMark /\ server[id].modified <= highWaterMark
        BY <2>2, <2>3, <3>2
      <4>2. QED
        BY <3>1, <4>1
    <3>3. CASE id \notin Awaited \ page
      BY <1>6, <2>3, <3>3
    <3>4. QED
      BY <3>2, <3>3
  <2>4. pc' = "reconcile" => PulledUpTo({})'
    BY <1>1, <2>3 DEF PulledUpTo, OnServer
  <2>5. QED
    BY <2>1, <2>4
<1>8. ASSUME NEW r \in remote', OnServer(r.id), server[r.id].modified # r.modified
      PROVE  r \in remote /\ highWaterMark' = highWaterMark
  <2>1. r \in remote
    BY <1>2, <1>8, DecodedIsServed
  <2>2. QED
    BY <1>1, <1>3, <2>1
<1>9. Overtakes(highWaterMark)' /\ Overtakes(state.lastModified)' /\ Overtakes(syncState.lastModified)'
  BY <1>1, <1>8 DEF AgreeInv, PullInv, Overtakes, OnServer
<1>10. PullInv'
  BY <1>1, <1>7, <1>9 DEF PullInv
<1>11. QED
  BY <1>1, <1>10, AgreeMoves

\* A record and a pulled version of the same id and time are the same version.
LEMMA SameVersion ==
  ASSUME BaseInv, HistoryInv, NEW id \in Ids, OnServer(id), NEW h \in history, h.id = id,
         h.modified = server[id].modified
  PROVE  h.state = server[id].state /\ h.data = server[id].data
<1>1. VersionOf(id, server[id]) \in history
  BY DEF HistoryInv
<1>2. h = VersionOf(id, server[id])
  BY <1>1 DEF HistoryInv, VersionOf
<1>3. QED
  BY <1>2 DEF VersionOf

\* Of a record that was in the pull as the server has it, the plan makes the server's
\* version, if the record is clean then.
LEMMA AgreeReconcile ==
  ASSUME BaseInv, EditsInv, AgreeInv, ReconcileAndApply
  PROVE  AgreeInv'
<1> DEFINE apply == ApplyLocally(vault, remote)
           upload == UploadRemotely(vault, remote)
           replaced == {r.id : r \in apply}
<1>1. /\ vault' = Applied(vault, apply)
      /\ raced' = (raced \ (replaced \cup upload)) \cup (replaced \cap upload)
      /\ remote' = {} /\ UNCHANGED <<server, blind, syncState, highWaterMark>> /\ pc = "reconcile"
      /\ \/ pc' = "save" /\ state' = [state EXCEPT !.lastModified = highWaterMark]
         \/ pc' = "push" /\ state' = state
  BY DEF ReconcileAndApply, cloud
<1>2. \A id \in Ids : \/ id \notin replaced /\ vault'[id] = vault[id]
                      \/ \E r \in apply : r.id = id /\ vault'[id] = Adopted(r)
  BY <1>1, AppliedRecord
<1>3. /\ apply \subseteq remote /\ upload \subseteq Ids /\ \A id \in upload : vault[id].dirty
      /\ \A r \in remote : TakesRemote(vault[r.id], r) => r.id \in replaced
  BY OnlyDirtyIsUploaded DEF ApplyLocally, BaseInv, TypeOK
<1> HIDE DEF apply, upload, replaced
<1>4. HistoryInv /\ PullInv
  BY DEF EditsInv, AgreeInv
<1>5. ASSUME NEW mark, Overtakes(mark), NEW id \in Ids, OnServer(id), server[id].modified <= mark,
             NEW r \in apply, r.id = id, vault'[id] = Adopted(r), mark \in Int
      PROVE  Agrees(id)'
  <2>1. r \in remote /\ PulledVersion(r) \in history /\ r.state \in {"live", "dead"}
    BY <1>3, <1>4, EditTypes DEF HistoryInv
  <2>2. server[id].modified = r.modified
    BY <1>5, <2>1, EditTypes DEF Overtakes
  <2> DEFINE h == PulledVersion(r)
  <2>3. h.id = id /\ h.modified = r.modified /\ h.state = r.state /\ h.data = r.data
    BY <1>5 DEF PulledVersion
  <2>4. h \in history
    BY <2>1
  <2> HIDE DEF h
  <2>5. r.state = server[id].state /\ r.data = server[id].data
    BY <1>4, <1>5, <2>2, <2>3, <2>4, SameVersion
  <2>6. vault'[id].state = r.state /\ vault'[id].data = r.data
    BY <1>5 DEF Adopted
  <2>7. QED
    BY <1>1, <2>1, <2>5, <2>6 DEF Agrees, Held
<1>6. ASSUME NEW id \in Ids, vault'[id] = vault[id], ~vault[id].dirty, id \notin replaced, id \in raced
      PROVE  id \in raced'
  BY <1>1, <1>3, <1>6
<1>7. ASSUME NEW mark \in Int, Overtakes(mark), AgreesUpTo(mark)
      PROVE  AgreesUpTo(mark)'
  <2> SUFFICES ASSUME NEW id \in Ids, OnServer(id), server[id].readable, server[id].modified <= mark,
                      ~vault'[id].dirty
               PROVE  Agrees(id)' \/ id \in raced'
    BY <1>1 DEF AgreesUpTo, OnServer
  <2>1. CASE id \notin replaced /\ vault'[id] = vault[id]
    <3>1. Agrees(id) \/ id \in raced
      BY <1>7, <2>1 DEF AgreesUpTo
    <3>2. QED
      BY <1>1, <1>6, <2>1, <3>1 DEF Agrees
  <2>2. QED
    BY <1>2, <1>5, <1>7, <2>1
<1>8. ASSUME AgreesUpTo(state.lastModified)
      PROVE  AgreesUpTo(highWaterMark)'
  <2> SUFFICES ASSUME NEW id \in Ids, OnServer(id), server[id].readable, server[id].modified <= highWaterMark,
                      ~vault'[id].dirty
               PROVE  Agrees(id)' \/ id \in raced'
    BY <1>1 DEF AgreesUpTo, OnServer
  <2>0. server[id].modified \in Int /\ highWaterMark \in Int /\ state.lastModified \in Int
    BY EditTypes, MarkTypes
  <2>1. CASE id \notin replaced /\ vault'[id] = vault[id]
    <3>1. CASE server[id].modified <= state.lastModified
      <4>1. Agrees(id) \/ id \in raced
        BY <1>8, <2>1, <3>1 DEF AgreesUpTo
      <4>2. QED
        BY <1>1, <1>6, <2>1, <4>1 DEF Agrees
    <3>2. CASE server[id].modified > state.lastModified
      <4>1. PICK r \in remote : r.id = id /\ r.modified = server[id].modified
        BY <1>1, <1>4, <3>2 DEF PullInv, PulledUpTo
      <4>2. ~TakesRemote(vault[id], r)
        BY <1>3, <2>1, <4>1
      <4>3. CASE ~Held(vault[id])
        <5> DEFINE h == PulledVersion(r)
        <5>1. h \in history /\ h.id = id /\ h.modified = server[id].modified /\ h.state = r.state
          BY <1>4, <4>1 DEF HistoryInv, PulledVersion
        <5> HIDE DEF h
        <5>2. r.state = server[id].state
          BY <1>4, <5>1, SameVersion
        <5>3. r.state = "dead"
          BY <4>2, <4>3 DEF TakesRemote
        <5>4. QED
          BY <1>1, <2>1, <4>3, <5>2, <5>3 DEF Agrees
      <4>4. CASE Held(vault[id])
        <5>1. vault[id].syncedAt \in Int /\ ~(r.modified > vault[id].syncedAt)
          BY <2>1, <4>2, <4>4 DEF TakesRemote, BaseInv, TypeOK, LocalRecord, TimeOrNone, NoTime
        <5>2. CASE Lost(id)
          <6>1. id \in raced
            BY <5>2 DEF EditsInv, OnlyRacedEditsLost
          <6>2. QED
            BY <1>6, <2>1, <6>1
        <5>3. CASE ~Lost(id)
          <6> DEFINE k == [id |-> id, state |-> vault[id].state, data |-> vault[id].data,
                           modified |-> vault[id].syncedAt]
          <6>1. k \in history
            BY <2>1, <4>4, <5>3 DEF Lost
          <6>2. k.id = id /\ k.modified = vault[id].syncedAt /\ k.state = vault[id].state /\ k.data = vault[id].data
            OBVIOUS
          <6> HIDE DEF k
          <6>3. vault[id].syncedAt <= server[id].modified
            BY <1>4, <6>1, <6>2 DEF HistoryInv
          <6>4. k.modified = server[id].modified
            BY <2>0, <4>1, <5>1, <6>2, <6>3
          <6>5. vault[id].state = server[id].state /\ vault[id].data = server[id].data
            BY <1>4, <6>1, <6>2, <6>4, SameVersion
          <6>6. QED
            BY <1>1, <2>1, <4>4, <6>5 DEF Agrees
        <5>4. QED
          BY <5>2, <5>3
      <4>5. QED
        BY <4>3, <4>4
    <3>3. QED
      BY <2>0, <3>1, <3>2
  <2>2. QED
    BY <1>2, <1>4, <1>5, <2>0, <2>1 DEF PullInv
<1>9. PullInv'
  BY <1>1, NoPull
<1>10. ASSUME MarksAgree
       PROVE  MarksAgree'
  <2>1. AgreesUpTo(syncState.lastModified)'
    BY <1>1, <1>4, <1>7, <1>10, MarkTypes DEF MarksAgree, PullInv, AgreesUpTo
  <2>2. AgreesUpTo(highWaterMark)'
    BY <1>8, <1>10 DEF MarksAgree
  <2>3. CASE pc' = "push" /\ state' = state
    <3>1. AgreesUpTo(state.lastModified)'
      BY <1>4, <1>7, <1>10, <2>3, MarkTypes DEF MarksAgree, PullInv, AgreesUpTo
    <3>2. QED
      BY <2>1, <2>2, <2>3, <3>1 DEF MarksAgree
  <2>4. CASE pc' = "save" /\ state' = [state EXCEPT !.lastModified = highWaterMark]
    <3>1. state'.lastModified = highWaterMark'
      BY <1>1, <2>4 DEF BaseInv, TypeOK, CollectionSyncState
    <3>2. AgreesUpTo(state.lastModified)'
      BY <2>2, <3>1 DEF AgreesUpTo
    <3>3. QED
      BY <2>1, <2>4, <3>2 DEF MarksAgree
  <2>5. QED
    BY <1>1, <2>3, <2>4
<1>11. QED
  BY <1>1, <1>9, <1>10 DEF AgreeInv

\* A POST that passes its precondition finds nothing beyond the mark, and what it
\* wrote the vault still holds.
LEMMA AgreeCommit ==
  ASSUME BaseInv, BaseInv', EditsInv, AgreeInv, Commit
  PROVE  AgreeInv'
<1>1. PICK ids \in SUBSET Ids, at \in Nat :
           /\ \A id \in Ids \ ids : server'[id] = server[id]
           /\ \A id \in ids :
                /\ server'[id].modified = at
                /\ \E b \in bsos : b.id = id /\ server'[id].state = b.state /\ server'[id].data = b.data
           /\ \/ ids = {} /\ at = XLastModified /\ clock' = clock /\ lastModified' = lastModified
              \/ ids # {} /\ at = clock + 1 /\ clock' = at /\ lastModified' = at
           /\ history' = history \cup {VersionOf(id, server'[id]) : id \in ids}
           /\ accepted' = ids /\ modified' = at
  BY CommitSends
<1>2. /\ UNCHANGED <<vault, syncState, state, raced, remote>>
      /\ pc = "push" /\ pc' = "posted" /\ PreconditionHolds
      /\ blind' = (blind \/ (highWaterMark = NoTime /\ lastModified # NoTime))
  BY DEF Commit, device
<1>3. PullInv'
  BY <1>2, NoPull DEF AgreeInv, PullInv
<1>4. clock \in Nat
  BY MarkTypes
<1>5. Newest
  BY <1>1, <1>4 DEF Newest
<1>6. ASSUME ~blind'
      PROVE  MarksAgree'
  <2>1. MarksAgree /\ (highWaterMark # NoTime \/ lastModified = NoTime)
    BY <1>2, <1>6 DEF AgreeInv
  <2>2. AgreesUpTo(syncState.lastModified)' /\ AgreesUpTo(state.lastModified)'
    <3>1. ASSUME NEW mark \in Int, mark <= clock, AgreesUpTo(mark)
          PROVE  AgreesUpTo(mark)'
      BY <1>2, <1>5, <3>1, AgreesStays
    <3>2. QED
      BY <1>2, <2>1, <3>1, MarkTypes DEF MarksAgree, AgreesUpTo
  <2>3. AgreesUpTo(modified)'
    <3> SUFFICES ASSUME NEW id \in Ids, OnServer(id)', server'[id].readable, ~vault[id].dirty
                 PROVE  Agrees(id)' \/ id \in raced
      BY <1>2 DEF AgreesUpTo
    <3>1. CASE id \in ids
      <4>1. PICK b \in bsos : b.id = id /\ server'[id].state = b.state /\ server'[id].data = b.data
        BY <1>1, <3>1
      <4>2. StillHolds(b) \/ id \in raced
        BY <1>2, <4>1 DEF EditsInv, UploadInv
      <4>3. QED
        BY <1>2, <4>1, <4>2 DEF StillHolds, Agrees, Held, OnServer
    <3>2. CASE id \notin ids
      <4>1. server'[id] = server[id] /\ OnServer(id)
        BY <1>1, <3>2 DEF OnServer
      <4>2. server[id].modified \in Nat /\ server[id].modified <= lastModified /\ lastModified \in Int
        BY <4>1 DEF BaseInv, TypeOK, Clocks, TimeOrNone, NoTime
      <4>3. lastModified <= highWaterMark /\ highWaterMark \in Int
        BY <1>2, <2>1, <4>2, MarkTypes DEF PreconditionHolds, NoTime
      <4>4. Agrees(id) \/ id \in raced
        BY <1>2, <2>1, <4>1, <4>2, <4>3 DEF MarksAgree, AgreesUpTo
      <4>5. QED
        BY <1>2, <4>1, <4>4 DEF Agrees
    <3>3. QED
      BY <3>1, <3>2
  <2>4. accepted' # {} => modified' > syncState'.lastModified
    BY <1>1, <1>2, MarkTypes
  <2>5. QED
    BY <1>2, <2>2, <2>3, <2>4 DEF MarksAgree
<1>7. QED
  BY <1>3, <1>6 DEF AgreeInv

\* The answer makes clean what the server took: its own version, or a peer's later
\* one, beyond the mark.
LEMMA AgreeMarkSynced ==
  ASSUME BaseInv, EditsInv, AgreeInv, MarkSynced
  PROVE  AgreeInv'
<1>1. /\ vault' = [id \in Ids |-> Marked(id)] /\ pc = "posted" /\ pc' = "save"
      /\ UNCHANGED <<server, raced, remote, blind, syncState>>
      /\ state' = [state EXCEPT !.lastModified = modified]
  BY DEF MarkSynced, cloud, ghosts
<1>2. PullInv'
  BY <1>1, NoPull DEF AgreeInv, PullInv
<1>3. state'.lastModified = modified /\ modified \in Int
  BY <1>1, MarkTypes DEF BaseInv, TypeOK, CollectionSyncState
<1>4. ASSUME NEW id \in Ids, id \in accepted, OnServer(id)
      PROVE  /\ server[id].modified \in Int /\ server[id].modified >= modified
             /\ server[id].modified = modified =>
                  \/ id \in raced
                  \/ vault[id].state = server[id].state /\ vault[id].data = server[id].data
  <2>1. PICK b \in bsos :
          b.id = id /\ [id |-> id, state |-> b.state, data |-> b.data, modified |-> modified] \in history
    BY <1>1, <1>4 DEF EditsInv, UploadInv
  <2> DEFINE h == [id |-> id, state |-> b.state, data |-> b.data, modified |-> modified]
  <2>2. h \in history /\ h.id = id /\ h.modified = modified /\ h.state = b.state /\ h.data = b.data
    BY <2>1
  <2> HIDE DEF h
  <2>3. server[id].modified \in Int /\ server[id].modified >= modified
    BY <1>3, <1>4, <2>2, EditTypes DEF EditsInv, HistoryInv
  <2>4. ASSUME server[id].modified = modified
        PROVE  b.state = server[id].state /\ b.data = server[id].data
    BY <1>4, <2>2, <2>4, SameVersion DEF EditsInv
  <2>5. StillHolds(b) \/ id \in raced
    BY <1>1, <2>1 DEF EditsInv, UploadInv
  <2>6. QED
    BY <2>1, <2>3, <2>4, <2>5 DEF StillHolds
<1>5. ASSUME NEW id \in Ids
      PROVE  /\ vault'[id].state = vault[id].state /\ vault'[id].data = vault[id].data
             /\ id \notin accepted => vault'[id] = vault[id]
             /\ ~Held(vault[id]) => vault'[id] = vault[id]
  <2>1. vault'[id] = Marked(id) /\ vault[id] \in LocalRecord
    BY <1>1 DEF BaseInv, TypeOK
  <2>2. QED
    BY <2>1 DEF Marked, LocalRecord
<1>6. ASSUME NEW mark \in Int, AgreesUpTo(mark), accepted # {} => mark <= modified,
             NEW id \in Ids, OnServer(id), server[id].readable, server[id].modified <= mark,
             ~vault'[id].dirty
      PROVE  Agrees(id)' \/ id \in raced
  <2>1. CASE vault'[id] = vault[id]
    <3>1. Agrees(id) \/ id \in raced
      BY <1>6, <2>1 DEF AgreesUpTo
    <3>2. QED
      BY <1>1, <2>1, <3>1 DEF Agrees
  <2>2. CASE vault'[id] # vault[id]
    <3>1. id \in accepted /\ Held(vault[id])
      BY <1>5, <2>2
    <3>2. server[id].modified = modified
      BY <1>3, <1>4, <1>6, <3>1
    <3>3. id \in raced \/ (vault[id].state = server[id].state /\ vault[id].data = server[id].data)
      BY <1>4, <1>6, <3>1, <3>2
    <3>4. QED
      BY <1>1, <1>5, <3>1, <3>3 DEF Agrees, Held
  <2>3. QED
    BY <2>1, <2>2
<1>7. ASSUME MarksAgree
      PROVE  MarksAgree'
  <2>1. AgreesUpTo(modified) /\ AgreesUpTo(syncState.lastModified)
        /\ (accepted # {} => modified > syncState.lastModified) /\ syncState.lastModified \in Int
    BY <1>1, <1>7, MarkTypes DEF MarksAgree
  <2>2. AgreesUpTo(state.lastModified)'
    BY <1>1, <1>3, <1>6, <2>1 DEF AgreesUpTo, OnServer
  <2>3. AgreesUpTo(syncState.lastModified)'
    BY <1>1, <1>3, <1>6, <2>1 DEF AgreesUpTo, OnServer
  <2>4. QED
    BY <1>1, <2>2, <2>3 DEF MarksAgree
<1>8. QED
  BY <1>1, <1>2, <1>7 DEF AgreeInv

\* Users and peers.
LEMMA AgreeOthers ==
  ASSUME BaseInv, BaseInv', AgreeInv,
         UserEdit \/ (\E id \in Ids : PeerWrite(id)) \/ PeerReset \/ UNCHANGED vars
  PROVE  AgreeInv'
<1>1. CASE UserEdit
  <2>1. PICK id \in Ids, rec \in LocalRecord : rec.dirty = TRUE /\ Write(id, rec)
    BY <1>1, UserWrites
  <2>2. /\ vault' = [vault EXCEPT ![id] = rec] /\ UNCHANGED <<server, blind, syncState, run>>
        /\ raced' = IF pc \in {"push", "posted"} /\ InUpload(id) THEN raced \cup {id} ELSE raced \ {id}
    BY <2>1 DEF Write, NoteRace, cloud
  <2>3. \A i \in Ids : \/ vault'[i] = vault[i] /\ (i \in raced => i \in raced')
                       \/ vault'[i].dirty
    BY <2>1, <2>2 DEF BaseInv, TypeOK
  <2>4. QED
    BY <2>2, <2>3, AgreeKept DEF Newest, run
<1>2. ASSUME NEW id \in Ids, PeerWrite(id)
      PROVE  AgreeInv'
  <2>1. PICK st \in {"live", "dead"}, auth \in Authorities, ok \in Readable :
           server' = [server EXCEPT ![id] =
             [state |-> st, data |-> edits + 1, authorityTime |-> auth,
              modified |-> clock + 1, readable |-> ok]]
    BY <1>2 DEF PeerWrite
  <2>2. Newest
    BY <2>1, MarkTypes DEF Newest, BaseInv, TypeOK
  <2>3. QED
    BY <1>2, <2>2, AgreeKept DEF PeerWrite, device, run
<1>3. CASE PeerReset
  <2>1. Newest
    BY <1>3 DEF PeerReset, Newest, Missing
  <2>2. QED
    BY <1>3, <2>1, AgreeKept DEF PeerReset, device, run, ghosts
<1>4. CASE UNCHANGED vars
  BY <1>4, AgreeKept DEF vars, device, cloud, run, ghosts, Newest
<1>5. QED
  BY <1>1, <1>2, <1>3, <1>4

\* Nothing is below a mark at the start.
LEMMA AgreeInit == Init => AgreeInv
<1> SUFFICES ASSUME Init PROVE AgreeInv
  OBVIOUS
<1>1. pc = "idle" /\ remote = {} /\ syncState.lastModified = NoTime /\ state.lastModified = NoTime
  BY DEF Init
<1>2. AgreesUpTo(NoTime)
  BY BaseInit, NothingAgrees
<1>3. QED
  BY <1>1, <1>2 DEF AgreeInv, PullInv, Overtakes, MarksAgree

\* Every step keeps the agreement.
LEMMA AgreeNext == BaseInv /\ EditsInv /\ AgreeInv /\ [Next]_vars => AgreeInv'
<1> SUFFICES ASSUME BaseInv, EditsInv, AgreeInv, [Next]_vars PROVE AgreeInv'
  OBVIOUS
<1>1. BaseInv'
  BY BaseNext
<1>2. CASE SyncStep
  BY <1>1, <1>2, AgreeQuiet, AgreeReadMeta, AgreePullPage, AgreeReconcile, AgreeCommit, AgreeMarkSynced
  DEF SyncStep
<1>3. CASE ~SyncStep
  BY <1>1, <1>3, AgreeQuiet, AgreeOthers DEF Next
<1>4. QED
  BY <1>2, <1>3

\* What is shown as in sync is in sync: a clean record below the mark on disk is the
\* server's version, login or tombstone, unless its content changed during its own
\* upload or a POST went out without its precondition.
THEOREM CleanAgreesAlways == Spec => []CleanBelowMarkAgrees
<1>1. AgreeInv => CleanBelowMarkAgrees
  BY DEF AgreeInv, MarksAgree, AgreesUpTo, CleanBelowMarkAgrees
<1>2. QED
  BY <1>1, BaseInit, BaseNext, EditsInit, EditsNext, AgreeInit, AgreeNext, PTL DEF Spec
=============================================================================
