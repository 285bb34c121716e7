------------------------------ MODULE VaultStore ------------------------------
(***************************************************************************)
(* The vault of src/src/vault/store.ts under concurrent handlers.          *)
(*                                                                         *)
(* Three stores with different lifetimes hold the vault: local storage     *)
(* (meta, verifier and the sealed blobs) and IndexedDB (the device key)    *)
(* survive a browser restart, session storage (the passphrase key) only    *)
(* the service worker, and the decrypted contents nothing.  No handler     *)
(* takes a lock.  Each action is what a handler does up to its next await  *)
(* of a store; `at' is the await it is in.                                 *)
(*                                                                         *)
(* What stands for what.                                                   *)
(*   - A key is a number; a fresh one is minted or derived with a fresh    *)
(*     salt.  A sealed blob is the key it was sealed with and, for the     *)
(*     vault, its contents.  Unsealing with another key throws.            *)
(*   - The contents are a set of edits.  Decrypted contents are objects    *)
(*     that handlers share through the cache and change in place, so the   *)
(*     model keeps object identities: heap[o] is what object o holds.      *)
(*   - The user always gives the right passphrase; a wrong one throws      *)
(*     before anything changes.                                            *)
(***************************************************************************)
EXTENDS Integers, Sequences, FiniteSets

CONSTANTS
  Handlers,      \* message handlers, alarms and events running in the worker
  Ops,           \* the operations of this instance
  MaxOps,        \* bound: operations started
  MaxOverlaps,   \* bound: operations started while another runs
  MaxDeaths      \* bound: worker deaths and browser restarts

ASSUME VaultAssumption ==
  /\ Ops \subseteq {"write", "ensure", "lock", "unlock", "to pass", "to device", "reset",
                    "connect", "disconnect", "mark"}
  /\ MaxOps \in Nat /\ MaxOverlaps \in Nat /\ MaxDeaths \in Nat

None == 0                          \* no key, no object, no edit
NoBlob == [key |-> None, contents |-> {}]

VARIABLES
  \* Local storage and IndexedDB.
  meta,          \* protection and, for a passphrase, the key its salt leads to
  verifier, tokens, sync,          \* the keys they are sealed with
  vault,         \* the sealed contents
  deviceKey,
  \* Session storage.
  session,       \* firesync.unlocked
  \* The worker's memory.
  cached,        \* cachedContents: an object
  heap,          \* the objects
  h,             \* the handlers
  \* Bookkeeping for the properties and bounds.
  keys,          \* keys minted or derived so far
  acked,         \* edits whose write was confirmed
  shared,        \* edits whose write overlapped another operation
  rekeyed,       \* has a change of keys overlapped another operation, or been cut short?
  overlaps,      \* operations started while another ran
  ops, deaths

disk == <<meta, verifier, tokens, sync, vault, deviceKey>>
memory == <<cached, heap>>
ghosts == <<keys, acked, shared, rekeyed, overlaps, ops, deaths>>
vars == <<disk, session, memory, h, ghosts>>

Idle == [op |-> "none", at |-> "idle", ret |-> "idle", key |-> None, obj |-> None,
         blob |-> NoBlob, had |-> None, edit |-> None]

Init ==
  /\ meta = [protection |-> "none", key |-> None]
  /\ verifier = None /\ tokens = None /\ sync = None /\ vault = NoBlob /\ deviceKey = None
  /\ session = None
  /\ cached = None /\ heap = <<>>
  /\ h = [i \in Handlers |-> Idle]
  /\ keys = 0 /\ acked = {} /\ shared = {} /\ rekeyed = FALSE
  /\ overlaps = 0 /\ ops = 0 /\ deaths = 0

\* Handler i, in the await `at', goes on; its locals become r.
At(i, at) == h[i].at = at
Go(i, r) == h' = [h EXCEPT ![i] = r]
To(i, at) == Go(i, [h[i] EXCEPT !.at = at])
Done(i) == Go(i, Idle)

Busy(i) == h[i].op # "none"
Rekeys(op) == op \in {"ensure", "to pass", "to device", "reset"}

-----------------------------------------------------------------------------
\* Starting an operation, up to its first await.

Count(i, op, edit) ==
  LET others == {j \in Handlers \ {i} : Busy(j)} IN
  /\ ops < MaxOps /\ ops' = ops + 1
  /\ overlaps' = overlaps + (IF others = {} THEN 0 ELSE 1) /\ overlaps' \in 0..MaxOverlaps
  /\ shared' = IF others = {} THEN shared
               ELSE shared \cup (({edit} \cup {h[j].edit : j \in others}) \ {None})
  /\ rekeyed' = (rekeyed \/ (others # {} /\ (Rekeys(op) \/ \E j \in others : Rekeys(h[j].op))))

\* readContents serves the cache, else it asks for the key and the blob.
Edit(o, e) == heap' = [heap EXCEPT ![o] = @ \cup {e}]

StartWrite(i) ==
  LET e == ops + 1 IN
  /\ IF cached # None
       THEN /\ Edit(cached, e)
            /\ Go(i, [Idle EXCEPT !.op = "write", !.edit = e, !.obj = cached,
                                  !.at = "meta", !.ret = "seal"])
       ELSE /\ Go(i, [Idle EXCEPT !.op = "write", !.edit = e, !.at = "meta", !.ret = "load"])
            /\ UNCHANGED heap
  /\ Count(i, "write", e)
  /\ UNCHANGED cached

\* A faulty variant: the contents stay in the cache.
StartDrop_Keeps(i, op, at) ==
  /\ Go(i, [Idle EXCEPT !.op = op, !.at = at])
  /\ Count(i, op, None)
  /\ UNCHANGED memory

\* lock and reset drop the cache before their first await.
StartDrop(i, op, at) ==
  /\ cached' = None
  /\ Go(i, [Idle EXCEPT !.op = op, !.at = at])
  /\ Count(i, op, None)
  /\ UNCHANGED heap

StartOther(i, op, at, ret) ==
  /\ Go(i, [Idle EXCEPT !.op = op, !.at = at, !.ret = ret])
  /\ Count(i, op, None)
  /\ UNCHANGED memory

Start(i) ==
  /\ ~Busy(i)
  /\ \/ "write" \in Ops /\ StartWrite(i)
     \/ "lock" \in Ops /\ StartDrop(i, "lock", "forget key")
     \/ "reset" \in Ops /\ StartDrop(i, "reset", "remove")
     \/ "ensure" \in Ops /\ StartOther(i, "ensure", "is initialized", "idle")
     \/ "unlock" \in Ops /\ StartOther(i, "unlock", "unlock meta", "idle")
     \/ \E op \in Ops \cap {"to pass", "to device"} : StartOther(i, op, "protection", "idle")
     \/ "connect" \in Ops /\ StartOther(i, "connect", "meta", "put tokens")
     \/ "disconnect" \in Ops /\ StartOther(i, "disconnect", "drop tokens", "idle")
     \/ "mark" \in Ops /\ StartOther(i, "mark", "meta", "read sync")
  /\ UNCHANGED <<disk, session, keys, acked, deaths>>

-----------------------------------------------------------------------------
\* requireKey, which hands the key to the await `ret'.

RequireMeta(i) ==
  /\ At(i, "meta")
  /\ CASE meta.protection = "none"   -> Done(i)
       [] meta.protection = "device" -> To(i, "device key")
       [] meta.protection = "pass"   -> To(i, "session key")
  /\ UNCHANGED <<disk, session, memory, ghosts>>

SessionKey(i) ==
  /\ At(i, "session key")
  /\ IF session = None THEN Done(i) ELSE Go(i, [h[i] EXCEPT !.key = session, !.at = h[i].ret])
  /\ UNCHANGED <<disk, session, memory, ghosts>>

\* A faulty variant: the key is minted although there is one.
DeviceKey_AlwaysMints(i) ==
  /\ At(i, "device key")
  /\ To(i, "mint")
  /\ UNCHANGED <<disk, session, memory, ghosts>>

\* getOrCreateDeviceKey: look, mint, put, and read back what is there then.
DeviceKey(i) ==
  /\ At(i, "device key")
  /\ IF deviceKey = None THEN To(i, "mint")
     ELSE Go(i, [h[i] EXCEPT !.key = deviceKey, !.at = h[i].ret])
  /\ UNCHANGED <<disk, session, memory, ghosts>>

MintDeviceKey(i) ==
  /\ At(i, "mint")
  /\ keys' = keys + 1 /\ deviceKey' = keys + 1
  /\ To(i, "confirm")
  /\ UNCHANGED <<meta, verifier, tokens, sync, vault, session, memory, acked, shared, rekeyed,
                 overlaps, ops, deaths>>

ConfirmDeviceKey(i) ==
  /\ At(i, "confirm")
  /\ IF deviceKey = None THEN Done(i)
     ELSE Go(i, [h[i] EXCEPT !.key = deviceKey, !.at = h[i].ret])
  /\ UNCHANGED <<disk, session, memory, ghosts>>

-----------------------------------------------------------------------------
\* readContents and writeContents.

LoadBlob(i) ==
  /\ At(i, "load")
  /\ Go(i, [h[i] EXCEPT !.blob = vault, !.at = "decrypt"])
  /\ UNCHANGED <<disk, session, memory, ghosts>>

\* The decrypted blob becomes a new object in the cache, and the operation that
\* asked for it goes on with that object.
Decrypt(i) ==
  /\ At(i, "decrypt")
  /\ IF h[i].blob # NoBlob /\ h[i].blob.key # h[i].key
       THEN Done(i) /\ UNCHANGED memory
       ELSE LET o == Len(heap) + 1 IN
            /\ cached' = o
            /\ heap' = Append(heap, h[i].blob.contents \cup ({h[i].edit} \ {None}))
            /\ Go(i, [h[i] EXCEPT !.obj = o, !.blob = NoBlob,
                        !.at = IF h[i].op = "write" THEN "meta" ELSE "read tokens",
                        !.ret = IF h[i].op = "write" THEN "seal" ELSE "idle"])
  /\ UNCHANGED <<disk, session, ghosts>>

Seal(i) ==
  /\ At(i, "seal")
  /\ cached' = h[i].obj
  /\ Go(i, [h[i] EXCEPT !.blob = [key |-> h[i].key, contents |-> heap[h[i].obj]], !.at = "store"])
  /\ UNCHANGED <<disk, session, heap, ghosts>>

\* A faulty variant: the write is confirmed without waiting for the store.
Store_NoAwait(i) ==
  /\ At(i, "store")
  /\ vault' \in {vault, h[i].blob} /\ acked' = acked \cup {h[i].edit}
  /\ Done(i)
  /\ UNCHANGED <<meta, verifier, tokens, sync, deviceKey, session, memory, keys, shared,
                 rekeyed, overlaps, ops, deaths>>

Store(i) ==
  /\ At(i, "store")
  /\ vault' = h[i].blob /\ acked' = acked \cup {h[i].edit}
  /\ Done(i)
  /\ UNCHANGED <<meta, verifier, tokens, sync, deviceKey, session, memory, keys, shared,
                 rekeyed, overlaps, ops, deaths>>

-----------------------------------------------------------------------------
\* writeTokens, which also rewrites the sync state if it holds an error, the
\* engine's readSyncState and writeSyncState, and clearTokens.

PutTokens(i) ==
  /\ At(i, "put tokens")
  /\ tokens' = h[i].key
  /\ Go(i, [h[i] EXCEPT !.at = "meta", !.ret = "read sync"])
  /\ UNCHANGED <<meta, verifier, sync, vault, deviceKey, session, memory, ghosts>>

ReadSync(i) ==
  /\ At(i, "read sync")
  /\ \/ Done(i)
     \/ sync \in {None, h[i].key} /\ Go(i, [h[i] EXCEPT !.at = "meta", !.ret = "put sync"])
  /\ UNCHANGED <<disk, session, memory, ghosts>>

PutSync(i) ==
  /\ At(i, "put sync")
  /\ sync' = h[i].key
  /\ Done(i)
  /\ UNCHANGED <<meta, verifier, tokens, vault, deviceKey, session, memory, ghosts>>

DropTokens(i) ==
  /\ At(i, "drop tokens")
  /\ tokens' = None
  /\ Done(i)
  /\ UNCHANGED <<meta, verifier, sync, vault, deviceKey, session, memory, ghosts>>

-----------------------------------------------------------------------------
\* create, behind ensure.

IsInitialized(i) ==
  /\ At(i, "is initialized")
  /\ IF meta.protection # "none" THEN Done(i)
     ELSE Go(i, [h[i] EXCEPT !.at = "device key", !.ret = "create"])
  /\ UNCHANGED <<disk, session, memory, ghosts>>

Create(i) ==
  /\ At(i, "create")
  /\ meta' = [protection |-> "device", key |-> None]
  /\ verifier' = h[i].key /\ sync' = h[i].key
  /\ vault' = [key |-> h[i].key, contents |-> {}]
  /\ To(i, "created")
  /\ UNCHANGED <<tokens, deviceKey, session, memory, ghosts>>

Created(i) ==
  /\ At(i, "created")
  /\ cached' = Len(heap) + 1 /\ heap' = Append(heap, {})
  /\ Done(i)
  /\ UNCHANGED <<disk, session, ghosts>>

-----------------------------------------------------------------------------
\* unlock, on its own and as the first part of setProtection.

UnlockMeta(i) ==
  /\ At(i, "unlock meta")
  /\ IF meta.protection # "pass" THEN Done(i)
     ELSE Go(i, [h[i] EXCEPT !.key = meta.key, !.at = "verify"])
  /\ UNCHANGED <<disk, session, memory, ghosts>>

Verify(i) ==
  /\ At(i, "verify")
  /\ IF verifier # h[i].key THEN Done(i) ELSE To(i, "remember")
  /\ UNCHANGED <<disk, session, memory, ghosts>>

Remember(i) ==
  /\ At(i, "remember")
  /\ session' = h[i].key
  /\ To(i, "unlocked")
  /\ UNCHANGED <<disk, memory, ghosts>>

Unlocked(i) ==
  /\ At(i, "unlocked")
  /\ cached' = None
  /\ IF h[i].op = "unlock" THEN Done(i) ELSE To(i, "read")
  /\ UNCHANGED <<disk, session, heap, ghosts>>

\* The second half of lock.
ForgetKey(i) ==
  /\ At(i, "forget key")
  /\ session' = None
  /\ Done(i)
  /\ UNCHANGED <<disk, memory, ghosts>>

-----------------------------------------------------------------------------
\* setProtection.

Protection(i) ==
  /\ At(i, "protection")
  /\ CASE meta.protection = "none"   -> Done(i)
       [] meta.protection = "device" -> To(i, "read")
       [] meta.protection = "pass"   -> To(i, "unlock meta")
  /\ UNCHANGED <<disk, session, memory, ghosts>>

\* The reads of contents, tokens and sync state, each of which needs the key.
ReadAll(i) ==
  /\ At(i, "read")
  /\ Go(i, [h[i] EXCEPT !.obj = cached, !.at = "meta",
                        !.ret = IF cached # None THEN "read tokens" ELSE "load"])
  /\ UNCHANGED <<disk, session, memory, ghosts>>

ReadTokens(i) ==
  /\ At(i, "read tokens")
  /\ IF tokens \notin {None, h[i].key} \/ sync \notin {None, h[i].key} THEN Done(i)
     ELSE Go(i, [h[i] EXCEPT !.had = tokens, !.ret = "forget session",
                   !.at = IF h[i].op = "to pass" THEN "derive" ELSE "device key"])
  /\ UNCHANGED <<disk, session, memory, ghosts>>

\* The new key, and the session that goes with it, before anything is written.
Derive(i) ==
  /\ At(i, "derive")
  /\ keys' = keys + 1 /\ session' = keys + 1
  /\ Go(i, [h[i] EXCEPT !.key = keys + 1, !.at = "reseal"])
  /\ UNCHANGED <<disk, memory, acked, shared, rekeyed, overlaps, ops, deaths>>

ForgetSession(i) ==
  /\ At(i, "forget session")
  /\ session' = None
  /\ To(i, "reseal")
  /\ UNCHANGED <<disk, memory, ghosts>>

Reseal(i) ==
  /\ At(i, "reseal")
  /\ Go(i, [h[i] EXCEPT !.blob = [key |-> h[i].key, contents |-> heap[h[i].obj]],
                        !.at = IF h[i].had = None THEN "remove tokens" ELSE "set all"])
  /\ UNCHANGED <<disk, session, memory, ghosts>>

RemoveTokens(i) ==
  /\ At(i, "remove tokens")
  /\ tokens' = None
  /\ To(i, "set all")
  /\ UNCHANGED <<meta, verifier, sync, vault, deviceKey, session, memory, ghosts>>

\* A faulty variant: the tokens are left under the old key.
SetAll_NotTokens(i) ==
  /\ At(i, "set all")
  /\ meta' = IF h[i].op = "to pass" THEN [protection |-> "pass", key |-> h[i].key]
             ELSE [protection |-> "device", key |-> None]
  /\ verifier' = h[i].key /\ sync' = h[i].key /\ vault' = h[i].blob
  /\ To(i, "resealed")
  /\ UNCHANGED <<tokens, deviceKey, session, memory, ghosts>>

\* Everything in one write.
SetAll(i) ==
  /\ At(i, "set all")
  /\ meta' = IF h[i].op = "to pass" THEN [protection |-> "pass", key |-> h[i].key]
             ELSE [protection |-> "device", key |-> None]
  /\ verifier' = h[i].key /\ sync' = h[i].key /\ vault' = h[i].blob
  /\ tokens' = IF h[i].had # None THEN h[i].key ELSE tokens
  /\ To(i, "resealed")
  /\ UNCHANGED <<deviceKey, session, memory, ghosts>>

Resealed(i) ==
  /\ At(i, "resealed")
  /\ cached' = h[i].obj
  /\ Done(i)
  /\ UNCHANGED <<disk, session, heap, ghosts>>

-----------------------------------------------------------------------------
\* reset: local storage, then the session, then the device key.

Remove(i) ==
  /\ At(i, "remove")
  /\ meta' = [protection |-> "none", key |-> None]
  /\ verifier' = None /\ tokens' = None /\ sync' = None /\ vault' = NoBlob
  /\ acked' = {}
  /\ To(i, "remove session")
  /\ UNCHANGED <<deviceKey, session, memory, keys, shared, rekeyed, overlaps, ops, deaths>>

RemoveSession(i) ==
  /\ At(i, "remove session")
  /\ session' = None
  /\ To(i, "clear device key")
  /\ UNCHANGED <<disk, memory, ghosts>>

ClearDeviceKey(i) ==
  /\ At(i, "clear device key")
  /\ deviceKey' = None
  /\ Done(i)
  /\ UNCHANGED <<meta, verifier, tokens, sync, vault, session, memory, ghosts>>

-----------------------------------------------------------------------------
\* The browser stops the worker, on its own or because it exits itself.

WorkerDies ==
  /\ deaths < MaxDeaths /\ deaths' = deaths + 1
  /\ h' = [i \in Handlers |-> Idle] /\ cached' = None /\ heap' = <<>>
  /\ session' \in {session, None}
  /\ rekeyed' = (rekeyed \/ \E i \in Handlers : h[i].op = "to pass")
  /\ UNCHANGED <<disk, keys, acked, shared, overlaps, ops>>

Step(i) ==
  \/ RequireMeta(i) \/ SessionKey(i) \/ DeviceKey(i) \/ MintDeviceKey(i) \/ ConfirmDeviceKey(i)
  \/ LoadBlob(i) \/ Decrypt(i) \/ Seal(i) \/ Store(i)
  \/ PutTokens(i) \/ ReadSync(i) \/ PutSync(i) \/ DropTokens(i)
  \/ IsInitialized(i) \/ Create(i) \/ Created(i)
  \/ UnlockMeta(i) \/ Verify(i) \/ Remember(i) \/ Unlocked(i) \/ ForgetKey(i)
  \/ Protection(i) \/ ReadAll(i) \/ ReadTokens(i) \/ Derive(i) \/ ForgetSession(i)
  \/ Reseal(i) \/ RemoveTokens(i) \/ SetAll(i) \/ Resealed(i)
  \/ Remove(i) \/ RemoveSession(i) \/ ClearDeviceKey(i)

Next == (\E i \in Handlers : Start(i) \/ Step(i)) \/ WorkerDies

Spec == Init /\ [][Next]_vars

-----------------------------------------------------------------------------
\* Properties.

Blob == [key: Nat, contents: SUBSET (1..MaxOps)]

\* The values of the variables; the cache and the handlers refer to objects
\* that exist.
TypeOK ==
  /\ meta \in [protection: {"none", "device", "pass"}, key: Nat]
  /\ {verifier, tokens, sync, deviceKey, session, keys} \subseteq Nat
  /\ vault \in Blob
  /\ heap \in Seq(SUBSET (1..MaxOps))
  /\ cached \in 0..Len(heap)
  /\ \A i \in Handlers : h[i].obj \in 0..Len(heap) /\ h[i].blob \in Blob
  /\ acked \subseteq 1..MaxOps /\ shared \subseteq 1..MaxOps /\ rekeyed \in BOOLEAN
  /\ overlaps \in 0..MaxOverlaps /\ ops \in 0..MaxOps /\ deaths \in 0..MaxDeaths

AllIdle == \A i \in Handlers : ~Busy(i)

\* The key that the protection mode on disk leads to.
KeyOnDisk == IF meta.protection = "device" THEN deviceKey ELSE meta.key

\* The verifier, the vault and the sync state on disk are sealed with the key
\* that the meta data leads to.
Opens ==
  meta.protection # "none" =>
    verifier = KeyOnDisk /\ vault.key = KeyOnDisk /\ sync = KeyOnDisk

\* The tokens as well.
TokensOpen == meta.protection # "none" => tokens \in {None, KeyOnDisk}

\* With one handler at a time the vault can be opened in every state, so also
\* wherever a death interrupts a change of protection or a reset (store.ts:184-186,
\* 232-237); and however the handlers interleave, nothing on disk gets sealed with
\* another key than the current one unless an operation that changes keys overlapped
\* another or a death cut a change of passphrase short.
Alone == overlaps = 0
DiskOpens == TypeOK /\ (Alone => Opens) /\ (rekeyed \/ (Opens /\ TokensOpen))

\* A confirmed edit whose write overlapped no other operation is on disk, and
\* stays there through later overlaps, locks, changes of protection and deaths.
SoloEditsSurvive == acked \ shared \subseteq vault.contents

\* The awaits that hold the key of the vault for what comes next, and those of
\* setProtection after the session was forgotten and before the device key counts.
Opening == {"load", "decrypt", "seal", "put tokens", "read sync", "put sync", "read tokens", "derive"}
Resealing == {"reseal", "remove tokens", "set all"}

\* With one handler at a time a lock takes effect at once: as soon as the session has
\* lost the key the contents are out of memory and nobody is about to use the key, so
\* nothing puts them back; except for a change to device mode, which loses the key and
\* keeps the contents on purpose (store.ts:170-173, 213-228).
Locked == meta.protection = "pass" /\ session = None
ToDevice(i) == h[i].op = "to device" /\ h[i].at \in Resealing
LockedIsCold ==
  Alone /\ Locked /\ ~(\E i \in Handlers : ToDevice(i)) =>
    cached = None /\ \A i \in Handlers : h[i].at \notin Opening

=============================================================================
