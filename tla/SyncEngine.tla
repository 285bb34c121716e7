----------------------------- MODULE SyncEngine -----------------------------
(***************************************************************************)
(* One collection kept in sync by src/src/sync15/engine.ts.                *)
(*                                                                         *)
(* The device holds a vault of records and, beside it, the sync state: the *)
(* high-water mark (lastModified) and the engine's sync id.  A sync run is *)
(* a chain of awaits -- info/collections, meta/global, the pages of the    *)
(* pull, the POST -- and every await lets something else in: the user edits*)
(* a record, another client writes to the server or resets the engine, the *)
(* network fails, the service worker dies.  Each action below is what the  *)
(* code does between two awaits.                                           *)
(*                                                                         *)
(* What stands for what.                                                   *)
(*   - The vault's cache is warm: a handler's read-modify-write of a record*)
(*     is one step (no await in it reaches the event loop).  VaultStore    *)
(*     models the caches, keys and blobs underneath.                       *)
(*   - Server time advances by one with every write, and all records of a  *)
(*     POST carry the time of its commit.                                  *)
(*   - A record is named by its id; `data' numbers its content, a fresh    *)
(*     number for every edit anywhere.                                     *)
(*   - Chunking of a POST is hidden: the chunks are one atomic batch.      *)
(***************************************************************************)
EXTENDS Reconcile, FiniteSets

CONSTANTS
  Readable,      \* may a peer's payload fail to decrypt?  {TRUE} or BOOLEAN
  SeedIds,       \* ids already on the server before the first sync
  MaxEdits,      \* bound: edits by the user and by the peers together
  MaxFaults,     \* bound: lost requests and answers, rejections and worker deaths
  MaxResets      \* bound: engine resets by a peer

ASSUME SyncAssumption ==
  /\ Authorities \subseteq Nat
  /\ Readable \subseteq BOOLEAN
  /\ SeedIds \subseteq Ids
  /\ MaxEdits \in Nat /\ MaxFaults \in Nat /\ MaxResets \in Nat

NoId == 0        \* no sync id: a null on the device, no entry in meta/global

VARIABLES
  \* On the device's disk.
  vault,          \* [Ids -> LocalRecord]
  syncState,      \* CollectionSyncState: lastModified and syncId
  \* On the server.
  server,         \* [Ids -> ServerRecord], "none" where it holds nothing
  lastModified,   \* the collection's time; NoTime when there is no collection
  clock,          \* the time of the latest write
  engineSyncId,   \* meta/global engines[name].syncID
  \* The run in flight, in memory only.
  pc,             \* the await the run is in
  state,          \* the run's copy of syncState
  info,           \* info/collections[name]; NoTime: undefined
  unread,         \* ids the pull matched and no page has returned yet
  highWaterMark,
  remote,         \* records pulled and decoded so far
  bsos,           \* records being uploaded, as they were encrypted
  accepted,       \* the answer to the POST: ids in `success' ...
  modified,       \* ... and its `modified'
  \* Bookkeeping for the properties, not in the code.
  history,        \* every version the server ever held
  seen,           \* <<id, time>> of the server's versions the device decided on
  raced,          \* records whose content changed in the vault during their upload
  blind,          \* has a POST without precondition hit an existing collection?
  edits, faults, resets

device == <<vault, syncState>>
cloud == <<server, lastModified, clock, engineSyncId>>
run == <<pc, state, info, unread, highWaterMark, remote, bsos, accepted, modified>>
ghosts == <<history, seen, raced, blind>>
counters == <<edits, faults, resets>>
vars == <<device, cloud, run, ghosts, counters>>

ServerRecord == [state: {"none", "live", "dead"}, data: Nat, authorityTime: Nat,
                 modified: TimeOrNone, readable: BOOLEAN]

Missing == [state |-> "none", data |-> 0, authorityTime |-> 0,
            modified |-> NoTime, readable |-> TRUE]

CollectionSyncState == [lastModified: TimeOrNone, syncId: Nat]

\* A payload on its way to the server.
Bso == [id: Ids, state: {"live", "dead"}, data: Nat, authorityTime: Nat]

\* A version the server held.
Version == [id: Ids, state: {"live", "dead"}, data: Nat, modified: Time]

OnServer(id) == server[id].state # "none"

VersionOf(id, r) == [id |-> id, state |-> r.state, data |-> r.data, modified |-> r.modified]

InUpload(id) == \E b \in bsos : b.id = id

-----------------------------------------------------------------------------
\* The server already holds SeedIds, written by Firefox before FireSync existed.

Seeded == [id \in Ids |->
  IF id \in SeedIds
    THEN [state |-> "live", data |-> 0, authorityTime |-> 0, modified |-> 1, readable |-> TRUE]
    ELSE Missing]

Init ==
  /\ vault = [id \in Ids |-> Absent]
  /\ syncState = [lastModified |-> NoTime, syncId |-> NoId]
  /\ server = Seeded
  /\ lastModified = IF SeedIds = {} THEN NoTime ELSE 1
  /\ clock = 1
  /\ engineSyncId = 1
  /\ pc = "idle"
  /\ state = [lastModified |-> NoTime, syncId |-> NoId]
  /\ info = NoTime /\ unread = {} /\ highWaterMark = NoTime
  /\ remote = {} /\ bsos = {} /\ accepted = {} /\ modified = NoTime
  /\ history = {VersionOf(id, Seeded[id]) : id \in SeedIds}
  /\ seen = {}
  /\ raced = {} /\ blind = FALSE
  /\ edits = 0 /\ faults = 0 /\ resets = 0

-----------------------------------------------------------------------------
\* The user, through the vault's write methods.  Each replaces the record and
\* marks it dirty; a sync may be anywhere in its run.

\* An edit to a record whose upload is under way is a race; any other edit
\* makes the record's content the vault's own again.
NoteRace(id) ==
  raced' = IF pc \in {"push", "posted"} /\ InUpload(id) THEN raced \cup {id} ELSE raced \ {id}

Write(id, rec) ==
  /\ edits < MaxEdits
  /\ edits' = edits + 1
  /\ vault' = [vault EXCEPT ![id] = rec]
  /\ NoteRace(id)
  /\ UNCHANGED <<syncState, cloud, run, history, seen, blind, faults, resets>>

\* newRecordId is random: no client has used the id before.
Fresh(id) == ~Held(vault[id]) /\ ~OnServer(id) /\ \A h \in history : h.id # id

addPassword(id) ==
  /\ Fresh(id)
  /\ \E now \in Authorities :
       Write(id, [state |-> "live", data |-> edits + 1, authorityTime |-> now,
                  syncedAt |-> NoTime, dirty |-> TRUE])

updatePassword(id) ==
  /\ vault[id].state = "live"
  /\ \E now \in Authorities :
       Write(id, [vault[id] EXCEPT !.data = edits + 1, !.authorityTime = now, !.dirty = TRUE])

\* patchPassword and touchPassword change the content and not the authority.
patchPassword(id) ==
  /\ vault[id].state = "live"
  /\ Write(id, [vault[id] EXCEPT !.data = edits + 1, !.dirty = TRUE])

deletePassword(id) ==
  /\ Held(vault[id])
  /\ \E now \in Authorities :
       Write(id, [state |-> "dead", data |-> edits + 1, authorityTime |-> now,
                  syncedAt |-> vault[id].syncedAt, dirty |-> TRUE])

UserEdit == \E id \in Ids :
  addPassword(id) \/ updatePassword(id) \/ patchPassword(id) \/ deletePassword(id)

-----------------------------------------------------------------------------
\* The other clients of the account.

\* A peer writes a record it knows of, or a new one, with whatever timestamp
\* its clock gave the edit and in a payload this device may fail to read.
PeerWrite(id) ==
  /\ edits < MaxEdits
  /\ OnServer(id) \/ Fresh(id) \/ \E h \in history : h.id = id
  /\ \E st \in {"live", "dead"}, auth \in Authorities, ok \in Readable :
       /\ st = "dead" => OnServer(id)
       /\ server' = [server EXCEPT ![id] =
            [state |-> st, data |-> edits + 1, authorityTime |-> auth,
             modified |-> clock + 1, readable |-> ok]]
       /\ history' = history \cup {VersionOf(id, server'[id])}
  /\ clock' = clock + 1 /\ lastModified' = clock + 1
  /\ edits' = edits + 1
  /\ UNCHANGED <<device, engineSyncId, run, seen, raced, blind, faults, resets>>

\* A peer resets the engine: it deletes the collection, and meta/global shows
\* a new sync id, no entry (engine switched off) or, for now, still the old id.
PeerReset ==
  /\ resets < MaxResets
  /\ resets' = resets + 1
  /\ server' = [id \in Ids |-> Missing]
  /\ lastModified' = NoTime
  /\ engineSyncId' \in {engineSyncId, NoId, resets + 2}
  /\ UNCHANGED <<device, clock, run, ghosts, edits, faults>>

-----------------------------------------------------------------------------
\* The run.

\* A run starts from the sync state on disk: an alarm, a queued edit or the
\* user.  Calls made while it is in flight join it.
Start ==
  /\ pc = "idle"
  /\ pc' = "info" /\ state' = syncState
  /\ UNCHANGED <<device, cloud, info, unread, highWaterMark, remote, bsos, accepted, modified,
                 ghosts, counters>>

InfoCollections ==
  /\ pc = "info"
  /\ pc' = "meta" /\ info' = lastModified
  /\ UNCHANGED <<device, cloud, state, unread, highWaterMark, remote, bsos, accepted, modified,
                 ghosts, counters>>

engineWasReset(cached) == engineSyncId # NoId /\ cached # NoId /\ engineSyncId # cached

\* A faulty variant: a device that never synced finds nothing to pull.
serverHasChanges_NeverSynced(mark) == info # NoTime /\ mark # NoTime /\ info > mark

serverHasChanges(mark) == info # NoTime /\ (mark = NoTime \/ info > mark)

MarkAfterMeta == IF engineWasReset(state.syncId) THEN NoTime ELSE state.lastModified

\* A faulty variant: a collection without changes on the server is done.
AfterMeta_Skip(mark) == IF serverHasChanges(mark) THEN "pull" ELSE "save"

AfterMeta(mark) == IF serverHasChanges(mark) THEN "pull" ELSE "reconcile"

\* meta/global decides whether the high-water mark still means anything, and
\* with info/collections whether there is anything to pull.
ReadMeta ==
  /\ pc = "meta"
  /\ LET mark == MarkAfterMeta IN
       /\ state' = [lastModified |-> mark, syncId |-> engineSyncId]
       /\ highWaterMark' = mark
       /\ pc' = AfterMeta(mark)
  /\ UNCHANGED <<device, cloud, info, unread, remote, bsos, accepted, modified, ghosts, counters>>

\* What a GET newer=mark matches, and the X-Last-Modified it carries.
Newer == {id \in Ids : OnServer(id) /\ server[id].modified > state.lastModified}

XLastModified == IF lastModified = NoTime THEN 0 ELSE lastModified

\* decodeRecord: a payload that fails to decrypt is skipped; the authority of a
\* tombstone is the time the server received it, as it carries no data.
Decoded(ids) ==
  {[id |-> id, state |-> server[id].state, data |-> server[id].data,
    authorityTime |-> IF server[id].state = "dead" THEN server[id].modified
                                                    ELSE server[id].authorityTime,
    modified |-> server[id].modified] : id \in {i \in ids : server[i].readable}}

\* A faulty variant: the mark is the collection's time as of the last page.
MarkAfterPage_Last == XLastModified

\* The mark a pull ends with is the collection's time as of its first page.
MarkAfterPage == IF pc = "pull" THEN XLastModified ELSE highWaterMark

\* One page.  The code asks for no order and sends no precondition.  What the
\* first request matched and nobody touches is on some page; a record written
\* since then may come, in its new version, or be missed.
Awaited == IF pc = "pull" THEN Newer ELSE unread

PullPage ==
  /\ pc \in {"pull", "pull more"}
  /\ highWaterMark' = MarkAfterPage
  /\ \E page \in SUBSET {id \in Newer : id \in Awaited \/ server[id].modified > highWaterMark} :
       /\ remote' = remote \cup Decoded(page)
       /\ \/ /\ pc' = "pull more" /\ unread' = Awaited \ page
             /\ page \cap Awaited # {}
          \/ /\ pc' = "reconcile" /\ unread' = {}
             /\ \A id \in Awaited \ page :
                  OnServer(id) => pc = "pull more" /\ server[id].modified > highWaterMark
  /\ UNCHANGED <<device, cloud, state, info, bsos, accepted, modified, ghosts, counters>>

BsosOf(ids) ==
  {[id |-> id, state |-> vault[id].state, data |-> vault[id].data,
    authorityTime |-> vault[id].authorityTime] : id \in ids}

\* localRecords, reconcile and applyRemote, and the encryption of the upload
\* from the records as they are now.
ReconcileAndApply ==
  /\ pc = "reconcile"
  /\ LET apply == ApplyLocally(vault, remote)
         upload == UploadRemotely(vault, remote)
     IN  /\ vault' = Applied(vault, apply)
         /\ bsos' = BsosOf(upload)
         /\ LET replaced == {r.id : r \in apply} IN
              raced' = (raced \ (replaced \cup upload)) \cup (replaced \cap upload)
         /\ IF upload = {}
              THEN pc' = "save" /\ state' = [state EXCEPT !.lastModified = highWaterMark]
              ELSE pc' = "push" /\ UNCHANGED state
  /\ seen' = seen \cup {<<r.id, r.modified>> : r \in remote}
  /\ remote' = {} /\ info' = NoTime /\ UNCHANGED unread
  /\ UNCHANGED <<syncState, cloud, highWaterMark, accepted, modified, history, blind, counters>>

\* A faulty variant: the precondition is not sent.
PreconditionHolds_NotSent == TRUE

\* The POST reaches the server.  The client sends the time it read at as
\* X-If-Unmodified-Since, if it has one; the server answers 412 to a client
\* whose collection has moved on.
PreconditionHolds == highWaterMark = NoTime \/ lastModified <= highWaterMark

\* The server takes some of the records, all at one new time, and rejects the
\* others; with nothing taken the collection keeps its time.
Commit ==
  /\ pc = "push" /\ PreconditionHolds
  /\ pc' = "posted"
  /\ \E taken \in SUBSET bsos :
       LET at == IF taken = {} THEN XLastModified ELSE clock + 1
           of(id) == CHOOSE b \in taken : b.id = id
           ids == {b.id : b \in taken}
       IN
       /\ taken # bsos => faults < MaxFaults
       /\ faults' = IF taken # bsos THEN faults + 1 ELSE faults
       /\ server' = [id \in Ids |->
            IF id \in ids
              THEN [state |-> of(id).state, data |-> of(id).data,
                    authorityTime |-> of(id).authorityTime, modified |-> at, readable |-> TRUE]
              ELSE server[id]]
       /\ lastModified' = IF taken = {} THEN lastModified ELSE at
       /\ clock' = IF taken = {} THEN clock ELSE at
       /\ history' = history \cup {VersionOf(id, server'[id]) : id \in ids}
       /\ seen' = seen \cup {<<id, at>> : id \in ids}
       /\ accepted' = ids /\ modified' = at
  /\ blind' = (blind \/ (highWaterMark = NoTime /\ lastModified # NoTime))
  /\ UNCHANGED <<device, engineSyncId, state, info, unread, highWaterMark, remote, bsos, raced,
                 edits, resets>>

\* 412: drop the mark, so that the next run reads everything again.
Conflict412 ==
  /\ pc = "push" /\ ~PreconditionHolds
  /\ pc' = "save" /\ state' = [state EXCEPT !.lastModified = NoTime]
  /\ UNCHANGED <<device, cloud, info, unread, highWaterMark, remote, bsos, accepted, modified,
                 ghosts, counters>>

\* A faulty variant: rejected records are marked like accepted ones.
Marked_Rejected(id) ==
  IF InUpload(id) THEN [vault[id] EXCEPT !.dirty = FALSE, !.syncedAt = modified] ELSE vault[id]

\* markSynced clears the dirty flag of the records the server accepted, as they
\* are in the vault when the answer arrives.
Marked(id) ==
  IF id \in accepted /\ Held(vault[id])
    THEN [vault[id] EXCEPT !.dirty = FALSE, !.syncedAt = modified]
    ELSE vault[id]

\* The answer to the POST.
MarkSynced ==
  /\ pc = "posted"
  /\ pc' = "save"
  /\ vault' = [id \in Ids |-> Marked(id)]
  /\ highWaterMark' = modified
  /\ state' = [state EXCEPT !.lastModified = modified]
  /\ UNCHANGED <<syncState, cloud, info, unread, remote, bsos, accepted, modified, ghosts, counters>>

\* The run's memory once it is over.
Forget ==
  /\ pc' = "idle"
  /\ state' = [lastModified |-> NoTime, syncId |-> NoId]
  /\ info' = NoTime /\ unread' = {} /\ highWaterMark' = NoTime
  /\ remote' = {} /\ bsos' = {} /\ accepted' = {} /\ modified' = NoTime

\* writeSyncState at the end of the run.
Save ==
  /\ pc = "save"
  /\ syncState' = state
  /\ Forget
  /\ UNCHANGED <<vault, cloud, ghosts, counters>>

-----------------------------------------------------------------------------
\* Failures.

\* A request or its answer is lost.  Before the collection's own requests the
\* whole run fails and leaves the sync state as it was; in a collection the
\* error is caught there and the run goes on to save the state as it is.
RequestFails ==
  /\ faults < MaxFaults /\ faults' = faults + 1
  /\ \/ /\ pc \in {"info", "meta"}
        /\ Forget
     \/ /\ pc \in {"pull", "pull more", "push", "posted"}
        /\ pc' = "save"
        /\ remote' = {} /\ unread' = {}
        /\ UNCHANGED <<state, info, highWaterMark, bsos, accepted, modified>>
  /\ UNCHANGED <<device, cloud, ghosts, edits, resets>>

\* The service worker is stopped.
WorkerDies ==
  /\ faults < MaxFaults /\ faults' = faults + 1
  /\ pc # "idle"
  /\ Forget
  /\ UNCHANGED <<device, cloud, ghosts, edits, resets>>

SyncStep ==
  \/ Start \/ InfoCollections \/ ReadMeta \/ PullPage \/ ReconcileAndApply
  \/ Commit \/ Conflict412 \/ MarkSynced \/ Save

Next ==
  \/ SyncStep
  \/ UserEdit
  \/ \E id \in Ids : PeerWrite(id)
  \/ PeerReset
  \/ RequestFails
  \/ WorkerDies

Spec == Init /\ [][Next]_vars

\* The periodic alarm (15 minutes by default, router.ts:489-495) starts a run
\* again and again, and a run's promises settle.  Users, peers and failures
\* owe nothing.
FairSpec == Spec /\ WF_vars(SyncStep)

-----------------------------------------------------------------------------
\* Properties.

States == {"idle", "info", "meta", "pull", "pull more", "reconcile", "push", "posted", "save"}

\* The values of the variables, with what each step of a run may rely on: a
\* POST has something to send, and its answer carries a time.
TypeOK ==
  /\ vault \in [Ids -> LocalRecord]
  /\ syncState \in CollectionSyncState
  /\ server \in [Ids -> ServerRecord]
  /\ lastModified \in TimeOrNone /\ clock \in Time /\ engineSyncId \in Nat
  /\ pc \in States /\ state \in CollectionSyncState
  /\ info \in TimeOrNone /\ unread \subseteq Ids /\ highWaterMark \in TimeOrNone
  /\ remote \subseteq RemoteRecords(Ids) /\ bsos \subseteq Bso
  /\ accepted \subseteq Ids /\ modified \in TimeOrNone
  /\ history \subseteq Version
  /\ seen \subseteq (Ids \X Time)
  /\ raced \subseteq Ids /\ blind \in BOOLEAN
  /\ edits \in 0..MaxEdits /\ faults \in 0..MaxFaults /\ resets \in 0..MaxResets
  /\ pc = "posted" => modified # NoTime

\* A record with "local edits not yet pushed" (reconcile.ts:26) looks clean:
\* the server never held what the vault takes to be in sync.
Lost(id) ==
  /\ Held(vault[id]) /\ ~vault[id].dirty
  /\ [id |-> id, state |-> vault[id].state, data |-> vault[id].data,
      modified |-> vault[id].syncedAt] \notin history

\* markSynced is to "clear the dirty flag for records the server has accepted"
\* (store.ts:452): no clean record holds content the server never saw.  The
\* code does not keep this.
NoEditLost == \A id \in Ids : ~Lost(id)

\* What the code does keep: a record is marked as synced with content the
\* server never had only when its content changed while an upload of it was
\* under way: by an edit, or because one pull returned it twice and the upload
\* that beat the older version was sent although the newer one had replaced it.
\* No failure, rejection, conflict, restart or reset does it otherwise.
OnlyRacedEditsLost == \A id \in Ids : Lost(id) => id \in raced

\* Every version a peer left on the server that is not newer than the mark on
\* disk has been decided on: reconcile.ts:82-83 assumes of all that a pull does
\* not return that it is "unchanged on the server".  The exceptions are the
\* payloads that do not decrypt and, after a POST without precondition into a
\* collection a peer had just created, everything.
Covered(mark) ==
  \A id \in Ids : OnServer(id) /\ server[id].readable /\ server[id].modified <= mark
                    => <<id, server[id].modified>> \in seen

MarkCovers == blind \/ Covered(syncState.lastModified)

\* Device and server hold the same version of a record.
Agrees(id) ==
  IF Held(vault[id])
    THEN vault[id].state = server[id].state /\ vault[id].data = server[id].data
    ELSE server[id].state = "dead"

\* A clean record the mark covers is the server's version, tombstone or login:
\* what the user is offered as in sync is in sync.
CleanBelowMarkAgrees ==
  \A id \in Ids :
    (/\ OnServer(id) /\ server[id].readable
     /\ server[id].modified <= syncState.lastModified
     /\ ~vault[id].dirty)
    => Agrees(id) \/ id \in raced \/ blind

\* A POST replaces only versions the device has decided on (docs/PROTOCOL.md:
\* 173-174, "never force"; engine.ts:375, "Do not clobber").
NoBlindOverwrite ==
  [][ pc = "push" /\ pc' = "posted" /\ ~blind' =>
        \A id \in Ids : OnServer(id) /\ server[id].readable /\ server'[id] # server[id]
                          => <<id, server[id].modified>> \in seen ]_vars

\* An edit does not stay pending: it is pushed or a later remote edit replaces it.
EditsAreSettled == \A id \in Ids : vault[id].dirty ~> ~vault[id].dirty

\* Once users, peers and faults are quiet, the device ends up with the server's
\* version of everything the server holds in a form it can read.
EventuallyAgree ==
  <>[](\A id \in Ids : OnServer(id) /\ server[id].readable
                         => Agrees(id) \/ id \in raced \/ blind)

=============================================================================
