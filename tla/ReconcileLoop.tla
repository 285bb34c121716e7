---------------------------- MODULE ReconcileLoop ----------------------------
(***************************************************************************)
(* How reconcile() computes its plan: the loop over the pulled records     *)
(* (reconcile.ts:101-134), then the loop over the local ones (136-140),    *)
(* one iteration per step, with the four arrays the result is built from.  *)
(* The inputs are arrays in any order, the pull possibly with the same id  *)
(* twice.  The plan reached must be the one the operators of Reconcile     *)
(* describe, and no unpushed edit may fall through the two loops.          *)
(***************************************************************************)
EXTENDS Reconcile, Sequences, FiniteSets

CONSTANTS
  Times,           \* server times
  MaxRemote        \* bound: records in one pull

ASSUME LoopAssumption ==
  /\ IsFiniteSet(Ids)
  /\ Authorities \subseteq Nat /\ Times \subseteq Nat
  /\ MaxRemote \in Nat

VARIABLES
  local,           \* the local view, a function on Ids
  pull,            \* the pulled records, in pull order
  phase,           \* "remote", "local" or "done": the loop being run
  next,            \* index of the next pulled record
  todo,            \* local ids the second loop has not visited
  applyLocally, uploadRemotely, conflicts, ignoredTombstones

plan == <<applyLocally, uploadRemotely, conflicts, ignoredTombstones>>
loops == <<local, pull, phase, next, todo, plan>>

\* A local record the vault can hold.  A record never synced has a content of
\* its own and is dirty: addPassword (store.ts:361-368) is the only way in
\* that does not come from the server.
LocalChoices ==
  {Absent} \cup
  {l \in [state: {"live", "dead"}, data: {1}, authorityTime: Authorities,
          syncedAt: Times \cup {NoTime}, dirty: BOOLEAN] :
     l.syncedAt = NoTime => l.dirty}

RemoteChoices ==
  [id: Ids, state: {"live", "dead"}, data: {2}, authorityTime: Authorities,
   modified: Times]

\* A later page reads the server later, so an id that occurs twice is newer the second time.
PullOrder(s) ==
  \A i, j \in DOMAIN s : i < j /\ s[i].id = s[j].id => s[i].modified < s[j].modified

ReconcileInit ==
  /\ local \in [Ids -> LocalChoices]
  /\ pull \in UNION {[1..n -> RemoteChoices] : n \in 0..MaxRemote}
  /\ PullOrder(pull)
  /\ phase = "remote" /\ next = 1 /\ todo = Ids
  /\ applyLocally = <<>> /\ uploadRemotely = <<>>
  /\ conflicts = <<>> /\ ignoredTombstones = <<>>

-----------------------------------------------------------------------------
\* The first loop: one pulled record.

Current == pull[next]
Mine == local[Current.id]

\* Nothing held under that id: take it, or ignore a tombstone for it.
Unknown ==
  /\ ~Held(Mine)
  /\ IF Current.state = "dead"
       THEN /\ ignoredTombstones' = Append(ignoredTombstones, Current.id)
            /\ UNCHANGED applyLocally
       ELSE /\ applyLocally' = Append(applyLocally, Current)
            /\ UNCHANGED ignoredTombstones
  /\ UNCHANGED <<uploadRemotely, conflicts>>

\* A faulty Clean: a record in sync with the server is never refreshed from it.
Clean_SyncedIsFinal ==
  /\ Held(Mine) /\ ~Mine.dirty
  /\ applyLocally' = IF Mine.syncedAt = NoTime
                       THEN Append(applyLocally, Current) ELSE applyLocally
  /\ UNCHANGED <<uploadRemotely, conflicts, ignoredTombstones>>

\* Clean locally: the server is authoritative, if it has something newer.
Clean ==
  /\ Held(Mine) /\ ~Mine.dirty
  /\ applyLocally' = IF Mine.syncedAt = NoTime \/ Current.modified > Mine.syncedAt
                       THEN Append(applyLocally, Current)
                       ELSE applyLocally
  /\ UNCHANGED <<uploadRemotely, conflicts, ignoredTombstones>>

\* A faulty Resolve: on a tie the local side keeps its version, deleted or not.
Resolve_TieKeepsEdit(l, r) ==
  IF l.authorityTime >= r.authorityTime THEN "local" ELSE "remote"

\* defaultResolve
Resolve(l, r) ==
  IF l.authorityTime # r.authorityTime
    THEN IF l.authorityTime > r.authorityTime THEN "local" ELSE "remote"
    ELSE IF (l.state = "dead") # (r.state = "dead")
           THEN IF l.state = "dead" THEN "local" ELSE "remote"
           ELSE "remote"

\* Changed on both sides.
Conflict ==
  /\ Held(Mine) /\ Mine.dirty
  /\ conflicts' = Append(conflicts, [id |-> Current.id,
                                     resolution |-> Resolve(Mine, Current)])
  /\ IF Resolve(Mine, Current) = "local"
       THEN /\ uploadRemotely' = Append(uploadRemotely, Current.id)
            /\ UNCHANGED applyLocally
       ELSE /\ applyLocally' = Append(applyLocally, Current)
            /\ UNCHANGED uploadRemotely
  /\ UNCHANGED ignoredTombstones

RemoteIteration ==
  /\ phase = "remote" /\ next <= Len(pull)
  /\ Unknown \/ Clean \/ Conflict
  /\ next' = next + 1
  /\ UNCHANGED <<local, pull, phase, todo>>

RemoteLoopEnds ==
  /\ phase = "remote" /\ next > Len(pull)
  /\ phase' = "local"
  /\ UNCHANGED <<local, pull, next, todo, plan>>

-----------------------------------------------------------------------------
\* The second loop: one local record, in any order.  Only a dirty record whose
\* id the pull did not return is uploaded here.

\* A faulty iteration: dirty records the pull also returned are uploaded again.
LocalIteration_NoHas(id) ==
  /\ phase = "local" /\ id \in todo
  /\ todo' = todo \ {id}
  /\ uploadRemotely' = IF Held(local[id]) /\ local[id].dirty
                         THEN Append(uploadRemotely, id) ELSE uploadRemotely
  /\ UNCHANGED <<local, pull, phase, next, applyLocally, conflicts, ignoredTombstones>>

\* A faulty iteration: only records the server never had are uploaded.
LocalIteration_NewOnly(id) ==
  /\ phase = "local" /\ id \in todo
  /\ todo' = todo \ {id}
  /\ uploadRemotely' =
       IF Held(local[id]) /\ local[id].syncedAt = NoTime /\ \A i \in DOMAIN pull : pull[i].id # id
         THEN Append(uploadRemotely, id)
         ELSE uploadRemotely
  /\ UNCHANGED <<local, pull, phase, next, applyLocally, conflicts, ignoredTombstones>>

LocalIteration(id) ==
  /\ phase = "local" /\ id \in todo
  /\ todo' = todo \ {id}
  /\ uploadRemotely' =
       IF Held(local[id]) /\ local[id].dirty /\ \A i \in DOMAIN pull : pull[i].id # id
         THEN Append(uploadRemotely, id)
         ELSE uploadRemotely
  /\ UNCHANGED <<local, pull, phase, next, applyLocally, conflicts, ignoredTombstones>>

LocalLoopEnds ==
  /\ phase = "local" /\ todo = {}
  /\ phase' = "done"
  /\ UNCHANGED <<local, pull, next, todo, plan>>

ReconcileNext ==
  \/ RemoteIteration
  \/ RemoteLoopEnds
  \/ \E id \in Ids : LocalIteration(id)
  \/ LocalLoopEnds

ReconcileSpec == ReconcileInit /\ [][ReconcileNext]_loops

-----------------------------------------------------------------------------
Members(s) == {s[i] : i \in DOMAIN s}
Ids_(s) == {s[i].id : i \in DOMAIN s}

LoopTypeOK ==
  /\ local \in [Ids -> LocalRecord]
  /\ \A i \in DOMAIN pull : pull[i] \in RemoteRecords(Ids)
  /\ phase \in {"remote", "local", "done"}
  /\ next \in 1..(Len(pull) + 1) /\ todo \subseteq Ids
  /\ Members(applyLocally) \subseteq Members(pull)
  /\ Members(uploadRemotely) \cup Members(ignoredTombstones) \subseteq Ids

\* The two loops return exactly the plan the operators of Reconcile describe,
\* whatever the order of the pull and of the local records, and no array holds
\* a record twice unless the pull did.
PlanIsReference ==
  phase = "done" =>
    /\ Members(applyLocally) = ApplyLocally(local, Members(pull))
    /\ Members(uploadRemotely) = UploadRemotely(local, Members(pull))
    /\ Members(ignoredTombstones) = IgnoredTombstones(local, Members(pull))
    /\ Ids_(conflicts) = Conflicts(local, Members(pull))
    /\ Len(applyLocally) = Cardinality(Members(applyLocally))

\* Every unpushed edit is decided: it is in the upload, or a pulled version of
\* that very record replaces it (reconcile.ts:26, "Local edits not yet pushed").
\* It is both only when the pull returned the record twice.
NoEditForgotten ==
  phase = "done" =>
    \A id \in Ids : Held(local[id]) /\ local[id].dirty =>
      /\ id \in Members(uploadRemotely) \cup Ids_(applyLocally)
      /\ id \in Members(uploadRemotely) \cap Ids_(applyLocally)
           => \E i, j \in DOMAIN pull : i # j /\ pull[i].id = id /\ pull[j].id = id

\* "with a tombstone winning an exact tie so a deletion is never silently
\* resurrected" (docs/PROTOCOL.md:248, reconcile.ts:62-64), on either side: a
\* live version never replaces an unpushed deletion of the same or a later
\* authority, and an unpushed edit is never uploaded over a deletion of the
\* same authority.
DeletionWinsTies ==
  phase = "done" =>
    \A i \in DOMAIN pull :
      LET r == pull[i]  l == local[r.id] IN
        /\ Held(l) /\ l.dirty /\ l.state = "dead" /\ r.state = "live"
             /\ l.authorityTime >= r.authorityTime
             => r \notin Members(applyLocally) /\ r.id \in Members(uploadRemotely)
        /\ Held(l) /\ l.dirty /\ l.state = "live" /\ r.state = "dead"
             /\ l.authorityTime = r.authorityTime
             => r \in Members(applyLocally)

\* What a plan may not do, whatever the order of the pull: forget an unpushed edit or
\* let a live version win a tie with a deletion (reconcile.ts:26, 62-64).
PlanIsSafe == LoopTypeOK /\ NoEditForgotten /\ DeletionWinsTies

=============================================================================
