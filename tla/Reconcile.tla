------------------------------ MODULE Reconcile ------------------------------
(***************************************************************************)
(* The conflict rules of src/src/sync15/reconcile.ts, as operators.        *)
(*                                                                         *)
(* reconcile() compares the records a device holds with the records a pull *)
(* returned and produces a plan: what to overwrite locally, what to upload *)
(* and which remote tombstones to ignore.  It has no state, clock or I/O,  *)
(* so it is modelled by what it returns; ReconcileLoop models how the two  *)
(* loops of the code compute it.                                           *)
(*                                                                         *)
(* Representation.                                                         *)
(*   - A local view is a function from ids to LocalRecord.  An id the      *)
(*     device does not hold maps to Absent (the code: Map.get returns      *)
(*     undefined).                                                         *)
(*   - A pull is a set of RemoteRecord.  One id may occur twice, with      *)
(*     different `modified' times: a record rewritten between two pages.   *)
(*   - `data' is the identity of the record's content, a natural number;   *)
(*     what is inside a login never matters to the rules.  A record with   *)
(*     state "dead" is a tombstone (deleted: true, data: null).            *)
(*   - Times are integers in one unit.  The code's null is NoTime, below   *)
(*     every time, which is how each of its comparisons treats null.       *)
(***************************************************************************)
EXTENDS Integers

CONSTANTS
  Ids,           \* the record ids in use
  Authorities    \* values a device's clock can give an edit (timePasswordChanged)

NoTime == -1
Time == Nat
TimeOrNone == Nat \cup {NoTime}

LocalRecord == [state: {"none", "live", "dead"}, data: Nat, authorityTime: Nat,
                syncedAt: TimeOrNone, dirty: BOOLEAN]

RemoteRecords(ids) == [id: ids, state: {"live", "dead"}, data: Nat,
                       authorityTime: Nat, modified: Time]

Absent == [state |-> "none", data |-> 0, authorityTime |-> 0,
           syncedAt |-> NoTime, dirty |-> FALSE]

Held(l) == l.state # "none"

\* Does the local side of a genuine conflict win?  Later authority wins; on a
\* tie a deletion beats an edit and otherwise the server's version wins.
LocalWins(l, r) ==
  \/ l.authorityTime > r.authorityTime
  \/ /\ l.authorityTime = r.authorityTime
     /\ l.state = "dead" /\ r.state # "dead"

\* A faulty variant: a record in sync with the server is never refreshed from it.
TakesRemote_SyncedIsFinal(l, r) ==
  \/ ~Held(l) /\ r.state # "dead"
  \/ Held(l) /\ l.dirty /\ ~LocalWins(l, r)

\* Is the remote record r to overwrite (or create) the local record l?
TakesRemote(l, r) ==
  \/ ~Held(l) /\ r.state # "dead"
  \/ Held(l) /\ ~l.dirty /\ r.modified > l.syncedAt
  \/ Held(l) /\ l.dirty /\ ~LocalWins(l, r)

\* Is the local record l, which also changed remotely, to be uploaded over r?
KeepsLocal(l, r) == Held(l) /\ l.dirty /\ LocalWins(l, r)

-----------------------------------------------------------------------------
\* The plan.

ApplyLocally(local, remote) == {r \in remote : TakesRemote(local[r.id], r)}

\* A dirty record is uploaded when the pull did not return its id at all, or
\* when it beat a version the pull returned.
UploadRemotely(local, remote) ==
  {id \in DOMAIN local :
     /\ Held(local[id]) /\ local[id].dirty
     /\ \/ \A r \in remote : r.id # id
        \/ \E r \in remote : r.id = id /\ KeepsLocal(local[id], r)}

IgnoredTombstones(local, remote) ==
  {r.id : r \in {q \in remote : ~Held(local[q.id]) /\ q.state = "dead"}}

Conflicts(local, remote) ==
  {r.id : r \in {q \in remote : Held(local[q.id]) /\ local[q.id].dirty}}

-----------------------------------------------------------------------------
\* What the engine writes to the vault for a record the server won.
Adopted(r) == [state |-> r.state, data |-> r.data,
               authorityTime |-> r.authorityTime,
               syncedAt |-> r.modified, dirty |-> FALSE]

\* The newest version of an id among the records to apply: applyRemote stores
\* them in pull order and a later page reads the server later, so the newest
\* is the one that stays.
IsNewest(r, records) ==
  r \in records /\ \A q \in records : q.id = r.id => q.modified <= r.modified

Applied(local, records) ==
  [id \in DOMAIN local |->
     IF \E r \in records : r.id = id
       THEN Adopted(CHOOSE r \in records : r.id = id /\ IsNewest(r, records))
       ELSE local[id]]

=============================================================================
