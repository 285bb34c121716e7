------------------------------ MODULE VaultProofs ------------------------------
(***************************************************************************)
(* The vault under any number of handlers, operations, overlaps and        *)
(* deaths: what is on disk opens, confirmed edits stay, and a locked vault *)
(* is not in memory.                                                       *)
(***************************************************************************)
EXTENDS VaultStore, TLAPS

\* The awaits of requireKey, and those of each operation.
KeyAts == {"meta", "device key", "mint", "confirm", "session key"}
WriteAts == KeyAts \cup {"load", "decrypt", "seal", "store"}
EnsureAts == {"is initialized", "device key", "mint", "confirm", "create", "created"}
Unlocking == {"unlock meta", "verify", "remember", "unlocked"}
ChangeAts == KeyAts \cup Unlocking \cup Resealing \cup
  {"protection", "read", "load", "decrypt", "read tokens", "derive", "forget session", "resealed"}
SyncAts == KeyAts \cup {"put tokens", "read sync", "put sync"}
ResetAts == {"remove", "remove session", "clear device key"}
Changes == {"to pass", "to device"}

Kinds == {"none", "write", "ensure", "lock", "unlock", "to pass", "to device", "reset",
          "connect", "disconnect", "mark"}
Ats == {"idle", "forget key", "drop tokens"}
         \cup WriteAts \cup EnsureAts \cup ChangeAts \cup SyncAts \cup ResetAts
Rets == {"idle", "seal", "load", "create", "read tokens", "forget session",
         "put tokens", "read sync", "put sync"}
Edits == 1..MaxOps

Handler == [op: Kinds, at: Ats, ret: Rets, key: Nat, obj: Nat, blob: Blob, had: Nat,
            edit: Edits \cup {None}]

\* Each operation is in one of its own awaits.
Staged(r) ==
  /\ r.op = "none" => r = Idle
  /\ r.op = "write" => r.at \in WriteAts /\ r.ret \in {"seal", "load"} /\ r.edit \in Edits
  /\ r.op = "ensure" => r.at \in EnsureAts /\ (r.at = "is initialized" \/ r.ret = "create")
  /\ r.op = "unlock" => r.at \in Unlocking
  /\ r.op = "lock" => r.at = "forget key"
  /\ r.op \in Changes =>
       /\ r.at \in ChangeAts
       /\ r.at \in KeyAts => r.ret \in {"read tokens", "load", "forget session"}
       /\ r.at = "derive" => r.op = "to pass"
       /\ r.at = "forget session" \/ (r.at \in KeyAts /\ r.ret = "forget session") => r.op = "to device"
  /\ r.op \in {"connect", "mark"} => r.at \in SyncAts /\ r.ret \in {"put tokens", "read sync", "put sync"}
  /\ r.op = "disconnect" => r.at = "drop tokens"
  /\ r.op = "reset" => r.at \in ResetAts

\* The handlers that hold decrypted contents.
Holds(r) ==
  \/ r.op = "write" /\ (r.at = "seal" \/ r.ret = "seal")
  \/ r.op \in Changes /\ r.at \in {"read tokens", "derive", "forget session", "resealed"} \cup Resealing
  \/ r.op \in Changes /\ r.at \in KeyAts /\ r.ret \in {"read tokens", "forget session"}

\* The values of the stores, and of the handlers.
DiskTypes ==
  /\ meta \in [protection: {"none", "device", "pass"}, key: Nat]
  /\ verifier \in Nat /\ tokens \in Nat /\ sync \in Nat /\ deviceKey \in Nat /\ session \in Nat
  /\ vault \in Blob

MemoryTypes == heap \in Seq(SUBSET Edits) /\ cached \in 0..Len(heap)

CountTypes ==
  /\ keys \in Nat /\ rekeyed \in BOOLEAN
  /\ acked \subseteq Edits /\ shared \subseteq Edits
  /\ overlaps \in 0..MaxOverlaps /\ ops \in 0..MaxOps /\ deaths \in 0..MaxDeaths

Stores == DiskTypes /\ MemoryTypes /\ CountTypes

Sound(r, n) == Staged(r) /\ r.obj \in 0..n /\ (Holds(r) => r.obj # None)

Base ==
  /\ Stores
  /\ h \in [Handlers -> Handler]
  /\ \A i \in Handlers : Sound(h[i], Len(heap))

USE DEF disk, memory, ghosts

-----------------------------------------------------------------------------

\* An idle handler is sound.
LEMMA IdleSound ==
  /\ Idle \in Handler /\ NoBlob \in Blob
  /\ \A n \in Nat : Sound(Idle, n)
<1>1. NoBlob \in Blob
  BY DEF NoBlob, Blob, None
<1>2. Idle \in Handler
  BY <1>1 DEF Idle, Handler, Kinds, Ats, Rets, None
<1> QED BY <1>1, <1>2 DEF Sound, Staged, Holds, Idle, None, Changes

\* What a step of handler i makes of the handlers.
LEMMA GoFacts ==
  ASSUME h \in [Handlers -> Handler], NEW i \in Handlers, NEW r \in Handler, Go(i, r)
  PROVE  /\ h' \in [Handlers -> Handler]
         /\ h'[i] = r /\ \A j \in Handlers \ {i} : h'[j] = h[j]
BY DEF Go

\* A step of handler i that grows the heap or leaves it alone: the stores and the handler's new
\* locals are left to show.
LEMMA BaseGo ==
  ASSUME Base, NEW i \in Handlers, NEW r \in Handler, Go(i, r),
         Sound(r, Len(heap')), Stores', heap' = heap \/ Len(heap) <= Len(heap')
  PROVE  Base'
<1>1. h' \in [Handlers -> Handler] /\ h'[i] = r /\ \A j \in Handlers \ {i} : h'[j] = h[j]
  BY GoFacts DEF Base
<1>2. Len(heap) \in Nat /\ Len(heap') \in Nat
  <2>1. heap \in Seq(SUBSET Edits) /\ heap' \in Seq(SUBSET Edits)
    BY DEF Base, Stores, DiskTypes, MemoryTypes
  <2> QED BY ONLY <2>1
<1>3. ASSUME NEW j \in Handlers PROVE Sound(h'[j], Len(heap'))
  <2>1. CASE j = i
    BY <2>1, <1>1
  <2>2. CASE j # i
    <3>1. h'[j] = h[j] /\ Sound(h[j], Len(heap))
      BY <2>2, <1>1 DEF Base
    <3> QED BY <3>1, <1>2 DEF Sound
  <2> QED BY <2>1, <2>2
<1> QED BY <1>1, <1>3 DEF Base

\* Steps that leave the memory, the disk and the counts alone keep their types.
LEMMA StoresKeep ==
  ASSUME Stores
  PROVE  /\ UNCHANGED <<disk, session>> => DiskTypes'
         /\ UNCHANGED heap /\ cached' \in 0..Len(heap) => MemoryTypes'
         /\ UNCHANGED memory => MemoryTypes' /\ heap' = heap
         /\ UNCHANGED ghosts => CountTypes'
<1>1. UNCHANGED <<disk, session>> => DiskTypes'
  BY DEF Stores, DiskTypes
<1>2. /\ UNCHANGED heap /\ cached' \in 0..Len(heap) => MemoryTypes'
      /\ UNCHANGED memory => MemoryTypes' /\ heap' = heap
  BY DEF Stores, MemoryTypes
<1>3. UNCHANGED ghosts => CountTypes'
  BY Zenon DEF Stores, CountTypes
<1> QED BY <1>1, <1>2, <1>3

\* A step that changes nothing but its handler.
LEMMA BaseLocal ==
  ASSUME Base, NEW i \in Handlers, NEW r \in Handler, Go(i, r), Sound(r, Len(heap)),
         UNCHANGED <<disk, session, memory, ghosts>>
  PROVE  Base'
<1>1. Stores' /\ heap' = heap
  BY StoresKeep DEF Base, Stores
<1> QED BY <1>1, BaseGo

\* requireKey, and what it hands the key to.
LEMMA RequireKeySound ==
  ASSUME NEW q \in Handler, NEW n \in Nat, Sound(q, n), q.at \in KeyAts,
         NEW r \in Handler, r.op = q.op, r.ret = q.ret, r.obj = q.obj, r.edit = q.edit,
         r.at \in {"device key", "session key", "mint", "confirm"} \/ r.at = q.ret,
         r.op = "ensure" => r.at # "session key"
  PROVE  Sound(r, n)
<1>1. q.op # "none"
  <2>1. q.op = "none" => q = Idle
    BY DEF Sound, Staged
  <2>2. Idle.at = "idle"
    BY DEF Idle
  <2> QED BY <2>1, <2>2 DEF KeyAts
<1>2. CASE q.op = "write"
  BY <1>2 DEF Sound, Staged, Holds, KeyAts, WriteAts, Changes
<1>3. CASE q.op = "ensure"
  BY <1>3 DEF Sound, Staged, Holds, KeyAts, EnsureAts, Changes
<1>4. CASE q.op \in Changes
  BY <1>4 DEF Sound, Staged, Holds, KeyAts, ChangeAts, Changes, Resealing, Unlocking
<1>5. CASE q.op \in {"connect", "mark"}
  BY <1>5 DEF Sound, Staged, Holds, KeyAts, SyncAts, Changes
<1>6. CASE q.op \in {"unlock", "lock", "disconnect", "reset"}
  BY <1>6 DEF Sound, Staged, KeyAts, Changes, Unlocking, ResetAts
<1> QED BY <1>1, <1>2, <1>3, <1>4, <1>5, <1>6 DEF Handler, Kinds, Changes

\* An await tells the operation.
LEMMA AtTells ==
  ASSUME NEW q \in Handler, NEW n \in Nat, Sound(q, n)
  PROVE  /\ q.op = "none" => q = Idle /\ q.at = "idle"
         /\ q.at \in {"load", "decrypt"} => q.op \in {"write"} \cup Changes
         /\ q.at \in {"seal", "store"} => q.op = "write"
         /\ q.at \in {"put tokens", "read sync", "put sync"} => q.op \in {"connect", "mark"}
         /\ q.at = "drop tokens" => q.op = "disconnect"
         /\ q.at \in {"is initialized", "create", "created"} => q.op = "ensure"
         /\ q.at \in Unlocking => q.op \in {"unlock"} \cup Changes
         /\ q.at = "forget key" => q.op = "lock"
         /\ q.at \in {"protection", "read", "read tokens", "resealed"} \cup Resealing => q.op \in Changes
         /\ q.at = "derive" => q.op = "to pass"
         /\ q.at = "forget session" => q.op = "to device"
         /\ q.at \in ResetAts => q.op = "reset"
<1>1. q.op = "none" => q = Idle /\ q.at = "idle"
  <2>1. Idle.at = "idle"
    BY DEF Idle
  <2> QED BY <2>1 DEF Sound, Staged
<1> USE DEF Sound, Staged, KeyAts, Changes, Unlocking, Resealing, ResetAts
<1>2. CASE q.op = "none"
  BY <1>1, <1>2
<1>3. CASE q.op = "write"
  BY <1>3 DEF WriteAts
<1>4. CASE q.op = "ensure"
  BY <1>4 DEF EnsureAts
<1>5. CASE q.op \in Changes
  BY <1>5 DEF ChangeAts
<1>6. CASE q.op \in {"connect", "mark"}
  BY <1>6 DEF SyncAts
<1>7. CASE q.op \in {"unlock", "lock", "disconnect", "reset"}
  BY <1>7
<1> QED BY <1>2, <1>3, <1>4, <1>5, <1>6, <1>7 DEF Handler, Kinds

\* The awaits of requireKey keep the types.
LEMMA BaseRequireKey ==
  ASSUME Base, NEW i \in Handlers,
         RequireMeta(i) \/ SessionKey(i) \/ DeviceKey(i) \/ ConfirmDeviceKey(i)
  PROVE  Base'
<1>1. h[i] \in Handler /\ Sound(h[i], Len(heap)) /\ Len(heap) \in Nat
  BY DEF Base, Stores, DiskTypes, MemoryTypes
<1>2. h[i].at \in KeyAts /\ UNCHANGED <<disk, session, memory, ghosts>>
  BY DEF RequireMeta, SessionKey, DeviceKey, ConfirmDeviceKey, At, KeyAts
<1>3. session \in Nat /\ deviceKey \in Nat /\ meta.protection \in {"none", "device", "pass"}
  BY DEF Base, Stores, DiskTypes, MemoryTypes
<1>4. CASE Done(i)
  BY <1>1, <1>2, <1>4, IdleSound, BaseLocal DEF Done
<1>5. ASSUME NEW at \in {"device key", "session key", "mint"}, To(i, at),
             at = "session key" => h[i].op # "ensure"
      PROVE Base'
  <2> DEFINE r == [h[i] EXCEPT !.at = at]
  <2>1. r \in Handler
    BY <1>1 DEF Handler, Ats, WriteAts, KeyAts
  <2>2. r.op = h[i].op /\ r.ret = h[i].ret /\ r.obj = h[i].obj /\ r.edit = h[i].edit /\ r.at = at
    BY <1>1 DEF Handler
  <2>3. Sound(r, Len(heap))
    BY <1>1, <1>2, <1>5, <2>1, <2>2, RequireKeySound
  <2> QED BY <1>2, <1>5, <2>1, <2>3, BaseLocal DEF To
<1>6. ASSUME NEW k \in Nat, Go(i, [h[i] EXCEPT !.key = k, !.at = h[i].ret])
      PROVE Base'
  <2> DEFINE r == [h[i] EXCEPT !.key = k, !.at = h[i].ret]
  <2>1. h[i].ret \in Ats
    BY <1>1 DEF Handler, Ats, Rets, WriteAts, EnsureAts, ChangeAts, SyncAts
  <2>2. r \in Handler
    BY <1>1, <2>1 DEF Handler
  <2>3. r.op = h[i].op /\ r.ret = h[i].ret /\ r.obj = h[i].obj /\ r.edit = h[i].edit /\ r.at = h[i].ret
    BY <1>1 DEF Handler
  <2>4. h[i].op = "ensure" => h[i].ret # "session key"
    BY <1>1, <1>2 DEF Sound, Staged, KeyAts
  <2>5. Sound(r, Len(heap))
    BY <1>1, <1>2, <2>2, <2>3, <2>4, RequireKeySound
  <2> QED BY <1>2, <1>6, <2>2, <2>5, BaseLocal
<1>7. h[i].at = "meta" => h[i].op # "ensure"
  BY <1>1 DEF Sound, Staged, EnsureAts
<1>8. CASE RequireMeta(i)
  BY <1>3, <1>4, <1>5, <1>7, <1>8 DEF RequireMeta, At
<1>9. CASE SessionKey(i)
  BY <1>3, <1>4, <1>6, <1>9 DEF SessionKey
<1>10. CASE DeviceKey(i)
  BY <1>3, <1>5, <1>6, <1>10 DEF DeviceKey
<1>11. CASE ConfirmDeviceKey(i)
  BY <1>3, <1>4, <1>6, <1>11 DEF ConfirmDeviceKey
<1> QED BY <1>8, <1>9, <1>10, <1>11

\* A step that moves its handler to another await and may change the stores.
LEMMA BaseTo ==
  ASSUME Base, NEW i \in Handlers, NEW at \in Ats, To(i, at), Stores', heap' = heap,
         Sound([h[i] EXCEPT !.at = at], Len(heap))
  PROVE  Base'
<1>1. [h[i] EXCEPT !.at = at] \in Handler
  BY DEF Base, Handler
<1>2. Len(heap) \in Nat
  BY DEF Base, Stores, DiskTypes, MemoryTypes
<1> QED BY <1>1, <1>2, BaseGo DEF To

\* A step that ends its operation.
LEMMA BaseDone ==
  ASSUME Base, NEW i \in Handlers, Done(i), Stores', heap' = heap \/ Len(heap) <= Len(heap')
  PROVE  Base'
<1>1. Len(heap') \in Nat
  BY DEF Stores
<1> QED BY <1>1, IdleSound, BaseGo DEF Done

\* The steps that read keep the types.
LEMMA BaseReads ==
  ASSUME Base, NEW i \in Handlers,
         LoadBlob(i) \/ ReadSync(i) \/ IsInitialized(i) \/ UnlockMeta(i) \/ Verify(i)
           \/ Protection(i) \/ ReadAll(i) \/ ReadTokens(i) \/ Reseal(i)
  PROVE  Base'
<1>1. h[i] \in Handler /\ Sound(h[i], Len(heap)) /\ Len(heap) \in Nat
  BY DEF Base, Stores, DiskTypes, MemoryTypes
<1>2. UNCHANGED <<disk, session, memory, ghosts>>
  BY DEF LoadBlob, ReadSync, IsInitialized, UnlockMeta, Verify, Protection, ReadAll, ReadTokens, Reseal
<1>3. /\ session \in Nat /\ tokens \in Nat /\ meta.protection \in {"none", "device", "pass"}
      /\ meta.key \in Nat /\ vault \in Blob /\ cached \in 0..Len(heap)
  BY DEF Base, Stores, DiskTypes, MemoryTypes
<1>4. CASE Done(i)
  BY <1>1, <1>2, <1>4, IdleSound, BaseLocal DEF Done
<1>5. CASE LoadBlob(i)
  <2> DEFINE r == [h[i] EXCEPT !.blob = vault, !.at = "decrypt"]
  <2>1. r \in Handler
    BY <1>1, <1>3 DEF Handler, Ats, WriteAts
  <2>2. h[i].op \in {"write"} \cup Changes /\ h[i].at = "load"
    BY <1>1, <1>5, AtTells DEF LoadBlob, At
  <2>3. Sound(r, Len(heap))
    BY <1>1, <2>2 DEF Sound, Staged, Holds, Handler, WriteAts, ChangeAts, KeyAts, Changes, Resealing
  <2> QED BY <1>2, <1>5, <2>1, <2>3, BaseLocal DEF LoadBlob
<1>6. CASE ReadSync(i)
  <2> DEFINE r == [h[i] EXCEPT !.at = "meta", !.ret = "put sync"]
  <2>1. r \in Handler
    BY <1>1 DEF Handler, Ats, WriteAts, KeyAts, Rets
  <2>2. h[i].op \in {"connect", "mark"} /\ h[i].at = "read sync"
    BY <1>1, <1>6, AtTells DEF ReadSync, At
  <2>3. Sound(r, Len(heap))
    BY <1>1, <2>2 DEF Sound, Staged, Holds, Handler, SyncAts, KeyAts, Changes
  <2> QED BY <1>2, <1>4, <1>6, <2>1, <2>3, BaseLocal DEF ReadSync
<1>7. CASE IsInitialized(i)
  <2> DEFINE r == [h[i] EXCEPT !.at = "device key", !.ret = "create"]
  <2>1. r \in Handler
    BY <1>1 DEF Handler, Ats, WriteAts, KeyAts, Rets
  <2>2. h[i].op = "ensure" /\ h[i].at = "is initialized"
    BY <1>1, <1>7, AtTells DEF IsInitialized, At
  <2>3. Sound(r, Len(heap))
    BY <1>1, <2>2 DEF Sound, Staged, Holds, Handler, EnsureAts, Changes
  <2> QED BY <1>2, <1>4, <1>7, <2>1, <2>3, BaseLocal DEF IsInitialized
<1>8. CASE UnlockMeta(i)
  <2> DEFINE r == [h[i] EXCEPT !.key = meta.key, !.at = "verify"]
  <2>1. r \in Handler
    BY <1>1, <1>3 DEF Handler, Ats, ChangeAts, Unlocking
  <2>2. h[i].op \in {"unlock"} \cup Changes /\ h[i].at = "unlock meta"
    BY <1>1, <1>8, AtTells DEF UnlockMeta, At, Unlocking
  <2>3. Sound(r, Len(heap))
    BY <1>1, <2>2 DEF Sound, Staged, Holds, Handler, ChangeAts, Unlocking, KeyAts, Changes, Resealing
  <2> QED BY <1>2, <1>4, <1>8, <2>1, <2>3, BaseLocal DEF UnlockMeta
<1>9. ASSUME NEW at \in {"read", "unlock meta"}, To(i, at), h[i].op \in Changes
      PROVE Base'
  <2>1. Sound([h[i] EXCEPT !.at = at], Len(heap))
    BY <1>1, <1>9 DEF Sound, Staged, Holds, Handler, ChangeAts, Unlocking, KeyAts, Changes, Resealing
  <2>2. at \in Ats
    BY DEF Ats, ChangeAts, Unlocking
  <2>3. Stores' /\ heap' = heap
    BY <1>2, StoresKeep DEF Base, Stores
  <2> QED BY <1>9, <2>1, <2>2, <2>3, BaseTo
<1>10. CASE Verify(i)
  <2>1. h[i].op \in {"unlock"} \cup Changes /\ h[i].at = "verify"
    BY <1>1, <1>10, AtTells DEF Verify, At, Unlocking
  <2>2. Sound([h[i] EXCEPT !.at = "remember"], Len(heap))
    BY <1>1, <2>1 DEF Sound, Staged, Holds, Handler, ChangeAts, Unlocking, KeyAts, Changes, Resealing
  <2>3. "remember" \in Ats
    BY DEF Ats, ChangeAts, Unlocking
  <2>4. Stores' /\ heap' = heap
    BY <1>2, StoresKeep DEF Base, Stores
  <2> QED BY <1>4, <1>10, <2>2, <2>3, <2>4, BaseTo DEF Verify
<1>11. CASE Protection(i)
  <2>1. h[i].op \in Changes
    BY <1>1, <1>11, AtTells DEF Protection, At
  <2> QED BY <1>3, <1>4, <1>9, <1>11, <2>1 DEF Protection
<1>12. CASE ReadAll(i)
  <2> DEFINE r == [h[i] EXCEPT !.obj = cached, !.at = "meta",
                        !.ret = IF cached # None THEN "read tokens" ELSE "load"]
  <2>a. cached \in Nat /\ "meta" \in Ats /\ {"read tokens", "load"} \subseteq Rets
    BY <1>1, <1>3 DEF Ats, WriteAts, KeyAts, Rets
  <2>1. r \in Handler
    BY <1>1, <2>a DEF Handler
  <2>2. h[i].op \in Changes /\ h[i].at = "read"
    BY <1>1, <1>12, AtTells DEF ReadAll, At
  <2>3. Sound(r, Len(heap))
    BY <1>1, <1>3, <2>2 DEF Sound, Staged, Holds, Handler, ChangeAts, KeyAts, Changes, Resealing
  <2> QED BY <1>2, <1>12, <2>1, <2>3, BaseLocal DEF ReadAll
<1>13. CASE ReadTokens(i)
  <2> DEFINE r == [h[i] EXCEPT !.had = tokens, !.ret = "forget session",
                   !.at = IF h[i].op = "to pass" THEN "derive" ELSE "device key"]
  <2>1. r \in Handler
    BY <1>1, <1>3 DEF Handler, Ats, WriteAts, KeyAts, ChangeAts, Rets
  <2>2. h[i].op \in Changes /\ h[i].at = "read tokens"
    BY <1>1, <1>13, AtTells DEF ReadTokens, At
  <2>3. Sound(r, Len(heap))
    BY <1>1, <1>3, <2>2 DEF Sound, Staged, Holds, Handler, ChangeAts, KeyAts, Changes, Resealing
  <2> QED BY <1>2, <1>4, <1>13, <2>1, <2>3, BaseLocal DEF ReadTokens
<1>14. CASE Reseal(i)
  <2> DEFINE r == [h[i] EXCEPT !.blob = [key |-> h[i].key, contents |-> heap[h[i].obj]],
                        !.at = IF h[i].had = None THEN "remove tokens" ELSE "set all"]
  <2>1. h[i].op \in Changes /\ h[i].at = "reseal"
    BY <1>1, <1>14, AtTells DEF Reseal, At, Resealing
  <2>2. h[i].obj \in 1..Len(heap)
    <3>1. Holds(h[i])
      BY <2>1 DEF Holds, Resealing
    <3>2. h[i].obj \in 0..Len(heap) /\ h[i].obj # 0
      BY <1>1, <3>1 DEF Sound, None
    <3> QED BY <1>1, <3>2
  <2>3. heap[h[i].obj] \in SUBSET Edits
    BY <2>2 DEF Base, Stores, DiskTypes, MemoryTypes
  <2>4. [key |-> h[i].key, contents |-> heap[h[i].obj]] \in Blob
    BY <1>1, <2>3 DEF Handler, Blob, Edits
  <2>5. r \in Handler
    BY <1>1, <2>4 DEF Handler, Ats, ChangeAts, Resealing
  <2>6. Sound(r, Len(heap))
    BY <1>1, <2>1 DEF Sound, Staged, Holds, Handler, ChangeAts, KeyAts, Changes, Resealing
  <2> QED BY <1>2, <1>14, <2>5, <2>6, BaseLocal DEF Reseal
<1> QED BY <1>5, <1>6, <1>7, <1>8, <1>10, <1>11, <1>12, <1>13, <1>14

\* The steps that write to the disk, the session or the keys keep the types.
LEMMA BaseWrites ==
  ASSUME Base, NEW i \in Handlers,
         MintDeviceKey(i) \/ Create(i) \/ Remember(i) \/ ForgetSession(i) \/ RemoveTokens(i)
           \/ SetAll(i) \/ Remove(i) \/ RemoveSession(i) \/ PutTokens(i) \/ Derive(i)
  PROVE  Base'
<1>1. h[i] \in Handler /\ Sound(h[i], Len(heap)) /\ Len(heap) \in Nat
  BY DEF Base, Stores, DiskTypes, MemoryTypes
<1>2. h[i].key \in Nat /\ h[i].blob \in Blob /\ h[i].had \in Nat
  BY <1>1 DEF Handler
<1>3. NoBlob \in Blob /\ [key |-> h[i].key, contents |-> {}] \in Blob
  BY <1>2, IdleSound DEF Blob
<1>a. keys + 1 \in Nat
  <2>1. keys \in Nat
    BY Zenon DEF Base, Stores, CountTypes
  <2> QED BY <2>1
<1> USE DEF Sound, Staged, Holds, Handler, Changes
<1>4. CASE MintDeviceKey(i)
  <2>1. h[i].at = "mint"
    BY <1>4 DEF MintDeviceKey, At
  <2> DEFINE r == [h[i] EXCEPT !.at = "confirm"]
  <2>2. r \in Handler /\ "confirm" \in Ats
    BY <1>1 DEF Ats, WriteAts, KeyAts
  <2>3. r.op = h[i].op /\ r.ret = h[i].ret /\ r.obj = h[i].obj /\ r.edit = h[i].edit /\ r.at = "confirm"
    BY <1>1
  <2>4. Sound(r, Len(heap))
    BY <1>1, <2>1, <2>2, <2>3, RequireKeySound DEF KeyAts
  <2>5. Stores' /\ heap' = heap
    <3>1. keys' = keys + 1 /\ deviceKey' = keys + 1 /\ keys + 1 \in Nat
      BY <1>4, <1>a DEF MintDeviceKey
    <3>2. DiskTypes'
      BY <1>4, <3>1 DEF MintDeviceKey, Base, Stores, DiskTypes
    <3>3. CountTypes'
      BY <1>4, <3>1, Zenon DEF MintDeviceKey, Base, Stores, CountTypes
    <3> QED BY <1>4, <3>2, <3>3, StoresKeep DEF MintDeviceKey, Base, Stores
  <2> QED BY <1>4, <2>2, <2>4, <2>5, BaseTo DEF MintDeviceKey
<1>5. CASE Create(i)
  <2>1. h[i].at = "create" /\ h[i].op = "ensure"
    BY <1>1, <1>5, AtTells DEF Create, At
  <2>2. Sound([h[i] EXCEPT !.at = "created"], Len(heap)) /\ "created" \in Ats
    BY <1>1, <2>1 DEF EnsureAts, Ats
  <2>3. Stores' /\ heap' = heap
    <3>1. DiskTypes'
      BY <1>2, <1>3, <1>5 DEF Create, Base, Stores, DiskTypes, None
    <3>2. UNCHANGED <<memory, ghosts>>
      BY <1>2, <1>3, <1>5 DEF Create
    <3> QED BY <3>1, <3>2, StoresKeep DEF Base, Stores
  <2> QED BY <1>5, <2>2, <2>3, BaseTo DEF Create
<1>6. CASE Remember(i)
  <2>1. h[i].op \in {"unlock"} \cup Changes /\ h[i].at = "remember"
    BY <1>1, <1>6, AtTells DEF Remember, At, Unlocking
  <2>2. Sound([h[i] EXCEPT !.at = "unlocked"], Len(heap)) /\ "unlocked" \in Ats
    BY <1>1, <2>1 DEF ChangeAts, Unlocking, KeyAts, Resealing, Ats
  <2>3. Stores' /\ heap' = heap
    <3>1. DiskTypes'
      BY <1>2, <1>6 DEF Remember, Base, Stores, DiskTypes
    <3>2. UNCHANGED <<memory, ghosts>>
      BY <1>2, <1>6 DEF Remember
    <3> QED BY <3>1, <3>2, StoresKeep DEF Base, Stores
  <2> QED BY <1>6, <2>2, <2>3, BaseTo DEF Remember
<1>7. CASE ForgetSession(i)
  <2>1. h[i].op = "to device" /\ h[i].at = "forget session"
    BY <1>1, <1>7, AtTells DEF ForgetSession, At
  <2>2. Sound([h[i] EXCEPT !.at = "reseal"], Len(heap)) /\ "reseal" \in Ats
    BY <1>1, <2>1 DEF ChangeAts, KeyAts, Resealing, Ats
  <2>3. Stores' /\ heap' = heap
    <3>1. DiskTypes'
      BY <1>7 DEF ForgetSession, Base, Stores, DiskTypes, None
    <3>2. UNCHANGED <<memory, ghosts>>
      BY <1>7 DEF ForgetSession
    <3> QED BY <3>1, <3>2, StoresKeep DEF Base, Stores
  <2> QED BY <1>7, <2>2, <2>3, BaseTo DEF ForgetSession
<1>8. CASE RemoveTokens(i)
  <2>1. h[i].op \in Changes /\ h[i].at = "remove tokens"
    BY <1>1, <1>8, AtTells DEF RemoveTokens, At, Resealing
  <2>2. Sound([h[i] EXCEPT !.at = "set all"], Len(heap)) /\ "set all" \in Ats
    BY <1>1, <2>1 DEF ChangeAts, KeyAts, Resealing, Ats
  <2>3. Stores' /\ heap' = heap
    <3>1. DiskTypes'
      BY <1>8 DEF RemoveTokens, Base, Stores, DiskTypes, None
    <3>2. UNCHANGED <<memory, ghosts>>
      BY <1>8 DEF RemoveTokens
    <3> QED BY <3>1, <3>2, StoresKeep DEF Base, Stores
  <2> QED BY <1>8, <2>2, <2>3, BaseTo DEF RemoveTokens
<1>9. CASE SetAll(i)
  <2>1. h[i].op \in Changes /\ h[i].at = "set all"
    BY <1>1, <1>9, AtTells DEF SetAll, At, Resealing
  <2>2. Sound([h[i] EXCEPT !.at = "resealed"], Len(heap)) /\ "resealed" \in Ats
    BY <1>1, <2>1 DEF ChangeAts, KeyAts, Resealing, Ats
  <2>3. Stores' /\ heap' = heap
    <3>1. DiskTypes'
      BY <1>2, <1>9 DEF SetAll, Base, Stores, DiskTypes, None
    <3>2. UNCHANGED <<memory, ghosts>>
      BY <1>2, <1>9 DEF SetAll
    <3> QED BY <3>1, <3>2, StoresKeep DEF Base, Stores
  <2> QED BY <1>9, <2>2, <2>3, BaseTo DEF SetAll
<1>10. CASE Remove(i)
  <2>1. h[i].op = "reset" /\ h[i].at = "remove"
    BY <1>1, <1>10, AtTells DEF Remove, At, ResetAts
  <2>2. Sound([h[i] EXCEPT !.at = "remove session"], Len(heap)) /\ "remove session" \in Ats
    BY <1>1, <2>1 DEF ResetAts, Ats
  <2>3. Stores' /\ heap' = heap
    <3>1. DiskTypes'
      BY <1>3, <1>10 DEF Remove, DiskTypes, None, Base, Stores
    <3>2. CountTypes'
      BY <1>10, Zenon DEF Remove, Base, Stores, CountTypes
    <3> QED BY <1>10, <3>1, <3>2, StoresKeep DEF Remove, Base, Stores
  <2> QED BY <1>10, <2>2, <2>3, BaseTo DEF Remove
<1>11. CASE RemoveSession(i)
  <2>1. h[i].op = "reset" /\ h[i].at = "remove session"
    BY <1>1, <1>11, AtTells DEF RemoveSession, At, ResetAts
  <2>2. Sound([h[i] EXCEPT !.at = "clear device key"], Len(heap)) /\ "clear device key" \in Ats
    BY <1>1, <2>1 DEF ResetAts, Ats
  <2>3. Stores' /\ heap' = heap
    <3>1. DiskTypes'
      BY <1>11 DEF RemoveSession, Base, Stores, DiskTypes, None
    <3>2. UNCHANGED <<memory, ghosts>>
      BY <1>11 DEF RemoveSession
    <3> QED BY <3>1, <3>2, StoresKeep DEF Base, Stores
  <2> QED BY <1>11, <2>2, <2>3, BaseTo DEF RemoveSession
<1>12. CASE PutTokens(i)
  <2> DEFINE r == [h[i] EXCEPT !.at = "meta", !.ret = "read sync"]
  <2>1. r \in Handler
    BY <1>1 DEF Ats, WriteAts, KeyAts, Rets
  <2>2. h[i].op \in {"connect", "mark"} /\ h[i].at = "put tokens"
    BY <1>1, <1>12, AtTells DEF PutTokens, At
  <2>3. Sound(r, Len(heap))
    BY <1>1, <2>2 DEF SyncAts, KeyAts
  <2>4. Stores' /\ heap' = heap
    <3>1. DiskTypes'
      BY <1>2, <1>12 DEF PutTokens, Base, Stores, DiskTypes
    <3>2. UNCHANGED <<memory, ghosts>>
      BY <1>2, <1>12 DEF PutTokens
    <3> QED BY <3>1, <3>2, StoresKeep DEF Base, Stores
  <2> QED BY <1>1, <1>12, <2>1, <2>3, <2>4, BaseGo DEF PutTokens
<1>13. CASE Derive(i)
  <2> DEFINE r == [h[i] EXCEPT !.key = keys + 1, !.at = "reseal"]
  <2>1. r \in Handler
    BY <1>1, <1>a DEF Ats, ChangeAts, Resealing
  <2>2. h[i].op = "to pass" /\ h[i].at = "derive"
    BY <1>1, <1>13, AtTells DEF Derive, At
  <2>3. Sound(r, Len(heap))
    BY <1>1, <2>2 DEF ChangeAts, KeyAts, Resealing
  <2>4. Stores' /\ heap' = heap
    <3>1. keys' = keys + 1 /\ session' = keys + 1 /\ keys + 1 \in Nat
      BY <1>13, <1>a DEF Derive
    <3>2. DiskTypes'
      BY <1>13, <3>1 DEF Derive, Base, Stores, DiskTypes
    <3>3. CountTypes'
      BY <1>13, <3>1, Zenon DEF Derive, Base, Stores, CountTypes
    <3> QED BY <1>13, <3>2, <3>3, StoresKeep DEF Derive, Base, Stores
  <2> QED BY <1>1, <1>13, <2>1, <2>3, <2>4, BaseGo DEF Derive
<1> QED BY <1>4, <1>5, <1>6, <1>7, <1>8, <1>9, <1>10, <1>11, <1>12, <1>13

\* The other steps keep the types.
LEMMA BaseEnds ==
  ASSUME Base, NEW i \in Handlers,
         Store(i) \/ PutSync(i) \/ DropTokens(i) \/ ForgetKey(i) \/ ClearDeviceKey(i) \/ Created(i)
           \/ Resealed(i) \/ Seal(i) \/ Decrypt(i) \/ Unlocked(i)
  PROVE  Base'
<1>1. h[i] \in Handler /\ Sound(h[i], Len(heap)) /\ Len(heap) \in Nat /\ heap \in Seq(SUBSET Edits)
  BY DEF Base, Stores, DiskTypes, MemoryTypes
<1>2. h[i].key \in Nat /\ h[i].blob \in Blob /\ h[i].obj \in 0..Len(heap) /\ h[i].edit \in Edits \cup {None}
  BY <1>1 DEF Handler, Sound
<1>3. CASE Store(i)
  <2>1. h[i].op = "write"
    BY <1>1, <1>3, AtTells DEF Store, At
  <2>2. h[i].edit \in Edits
    BY <1>1, <2>1 DEF Sound, Staged
  <2>3. Stores' /\ heap' = heap
    <3>1. DiskTypes'
      BY <1>2, <1>3 DEF Store, Base, Stores, DiskTypes
    <3>2. acked' \subseteq Edits
      BY <1>3, <2>2 DEF Store, Base, Stores, CountTypes
    <3>3. CountTypes'
      BY <1>3, <3>2, Zenon DEF Store, Base, Stores, CountTypes
    <3> QED BY <1>3, <3>1, <3>3, StoresKeep DEF Store, Base, Stores
  <2> QED BY <1>1, <1>3, <2>3, BaseDone DEF Store
<1>4. CASE PutSync(i)
  <2>1. Stores' /\ heap' = heap
    <3>1. DiskTypes'
      BY <1>2, <1>4 DEF PutSync, Base, Stores, DiskTypes
    <3>2. UNCHANGED <<memory, ghosts>>
      BY <1>2, <1>4 DEF PutSync
    <3> QED BY <3>1, <3>2, StoresKeep DEF Base, Stores
  <2> QED BY <1>1, <1>4, <2>1, BaseDone DEF PutSync
<1>5. CASE DropTokens(i)
  <2>1. Stores' /\ heap' = heap
    <3>1. DiskTypes'
      BY <1>5 DEF DropTokens, Base, Stores, DiskTypes, None
    <3>2. UNCHANGED <<memory, ghosts>>
      BY <1>5 DEF DropTokens
    <3> QED BY <3>1, <3>2, StoresKeep DEF Base, Stores
  <2> QED BY <1>1, <1>5, <2>1, BaseDone DEF DropTokens
<1>6. CASE ForgetKey(i)
  <2>1. Stores' /\ heap' = heap
    <3>1. DiskTypes'
      BY <1>6 DEF ForgetKey, Base, Stores, DiskTypes, None
    <3>2. UNCHANGED <<memory, ghosts>>
      BY <1>6 DEF ForgetKey
    <3> QED BY <3>1, <3>2, StoresKeep DEF Base, Stores
  <2> QED BY <1>1, <1>6, <2>1, BaseDone DEF ForgetKey
<1>7. CASE ClearDeviceKey(i)
  <2>1. Stores' /\ heap' = heap
    <3>1. DiskTypes'
      BY <1>7 DEF ClearDeviceKey, Base, Stores, DiskTypes, None
    <3>2. UNCHANGED <<memory, ghosts>>
      BY <1>7 DEF ClearDeviceKey
    <3> QED BY <3>1, <3>2, StoresKeep DEF Base, Stores
  <2> QED BY <1>1, <1>7, <2>1, BaseDone DEF ClearDeviceKey
<1>8. CASE Created(i)
  <2>1. heap' \in Seq(SUBSET Edits) /\ Len(heap') = Len(heap) + 1 /\ cached' = Len(heap) + 1
    BY <1>1, <1>8 DEF Created
  <2>2. cached' \in 0..Len(heap')
    BY <1>1, <2>1
  <2>3. Stores'
    BY <1>8, <2>1, <2>2, StoresKeep DEF Created, Base, Stores, MemoryTypes
  <2> QED BY <1>1, <1>8, <2>1, <2>3, BaseDone DEF Created
<1>9. CASE Resealed(i)
  <2>1. Stores' /\ heap' = heap
    <3>1. heap' = heap /\ cached' \in 0..Len(heap) /\ UNCHANGED <<disk, ghosts>> /\ UNCHANGED session
      BY <1>1, <1>2, <1>9 DEF Resealed, None
    <3> QED BY <3>1, StoresKeep DEF Base, Stores
  <2> QED BY <1>1, <1>9, <2>1, BaseDone DEF Resealed
<1>10. CASE Seal(i)
  <2> DEFINE r == [h[i] EXCEPT !.blob = [key |-> h[i].key, contents |-> heap[h[i].obj]], !.at = "store"]
  <2>1. h[i].op = "write" /\ h[i].at = "seal"
    BY <1>1, <1>10, AtTells DEF Seal, At
  <2>2. Holds(h[i])
    BY <2>1 DEF Holds
  <2>3. h[i].obj \in 1..Len(heap)
    BY <1>1, <1>2, <2>2 DEF Sound, None
  <2>4. heap[h[i].obj] \in SUBSET Edits
    BY <1>1, <2>3
  <2>5. [key |-> h[i].key, contents |-> heap[h[i].obj]] \in Blob
    BY <1>2, <2>4 DEF Blob, Edits
  <2>6. r \in Handler
    BY <1>1, <2>5 DEF Handler, Ats, WriteAts
  <2>7. Sound(r, Len(heap))
    BY <1>1, <2>1 DEF Sound, Staged, Holds, Handler, WriteAts, Changes
  <2>8. Stores' /\ heap' = heap
    <3>1. heap' = heap /\ cached' \in 0..Len(heap) /\ UNCHANGED <<disk, ghosts>> /\ UNCHANGED session
      BY <1>1, <1>2, <1>10 DEF Seal, None
    <3> QED BY <3>1, StoresKeep DEF Base, Stores
  <2> QED BY <1>1, <1>10, <2>6, <2>7, <2>8, BaseGo DEF Seal
<1>11. CASE Decrypt(i)
  <2>1. h[i].op \in {"write"} \cup Changes /\ h[i].at = "decrypt"
    BY <1>1, <1>11, AtTells DEF Decrypt, At
  <2>2. CASE Done(i) /\ UNCHANGED memory
    <3>1. Stores'
      <4>1. DiskTypes'
        BY <1>11, <2>2 DEF Decrypt, Base, Stores, DiskTypes
      <4>2. UNCHANGED <<memory, ghosts>>
        BY <1>11, <2>2 DEF Decrypt
      <4> QED BY <4>1, <4>2, StoresKeep DEF Base, Stores
    <3> QED BY <1>1, <2>2, <3>1, BaseDone
  <2>3. CASE ~(h[i].blob # NoBlob /\ h[i].blob.key # h[i].key)
    <3> DEFINE o == Len(heap) + 1
               r == [h[i] EXCEPT !.obj = o, !.blob = NoBlob,
                        !.at = IF h[i].op = "write" THEN "meta" ELSE "read tokens",
                        !.ret = IF h[i].op = "write" THEN "seal" ELSE "idle"]
    <3>1. h[i].blob.contents \cup ({h[i].edit} \ {None}) \in SUBSET Edits
      BY <1>2 DEF Blob, Edits
    <3>2. /\ cached' = o /\ Go(i, r)
          /\ heap' = Append(heap, h[i].blob.contents \cup ({h[i].edit} \ {None}))
      BY <1>11, <2>3 DEF Decrypt
    <3>3. heap' \in Seq(SUBSET Edits) /\ Len(heap') = o /\ o \in Nat /\ o # 0
      BY <1>1, <3>1, <3>2
    <3>4. Stores'
      <4>1. MemoryTypes'
        BY <3>2, <3>3 DEF MemoryTypes
      <4> QED BY <1>11, <4>1, StoresKeep DEF Decrypt, Base, Stores
    <3>a. o \in Nat /\ o \in 0..o /\ o # None
      BY <1>1 DEF None
    <3>b. {"meta", "read tokens"} \subseteq Ats /\ {"seal", "idle"} \subseteq Rets
      BY DEF Ats, WriteAts, KeyAts, ChangeAts, Rets
    <3> HIDE DEF o
    <3>5. r \in Handler
      BY <1>1, <3>a, <3>b, IdleSound DEF Handler
    <3>6. r.op = h[i].op /\ r.edit = h[i].edit /\ r.obj = o
          /\ (h[i].op = "write" => r.at = "meta" /\ r.ret = "seal")
          /\ (h[i].op # "write" => r.at = "read tokens")
      BY <1>1 DEF Handler
    <3>7. Sound(r, o)
      <4>1. CASE h[i].op = "write"
        BY <1>1, <3>a, <3>6, <4>1 DEF Sound, Staged, WriteAts, KeyAts, Changes
      <4>2. CASE h[i].op \in Changes
        BY <3>a, <3>6, <4>2 DEF Sound, Staged, ChangeAts, KeyAts, Changes
      <4> QED BY <2>1, <4>1, <4>2
    <3> QED BY <1>1, <3>2, <3>3, <3>4, <3>5, <3>7, BaseGo
  <2> QED BY <1>11, <2>2, <2>3 DEF Decrypt
<1>12. CASE Unlocked(i)
  <2>1. h[i].op \in {"unlock"} \cup Changes /\ h[i].at = "unlocked"
    BY <1>1, <1>12, AtTells DEF Unlocked, At, Unlocking
  <2>2. Stores' /\ heap' = heap
    <3>1. heap' = heap /\ cached' \in 0..Len(heap) /\ UNCHANGED <<disk, ghosts>> /\ UNCHANGED session
      BY <1>1, <1>12 DEF Unlocked, None
    <3> QED BY <3>1, StoresKeep DEF Base, Stores
  <2>3. CASE h[i].op = "unlock"
    BY <1>1, <1>12, <2>2, <2>3, BaseDone DEF Unlocked
  <2>4. CASE h[i].op # "unlock"
    <3>1. Sound([h[i] EXCEPT !.at = "read"], Len(heap))
      BY <1>1, <2>1, <2>4 DEF Sound, Staged, Holds, Handler, ChangeAts, KeyAts, Unlocking, Resealing, Changes
    <3>2. "read" \in Ats
      BY DEF Ats, ChangeAts
    <3> QED BY <1>12, <2>2, <2>4, <3>1, <3>2, BaseTo DEF Unlocked
  <2> QED BY <2>3, <2>4
<1> QED BY <1>3, <1>4, <1>5, <1>6, <1>7, <1>8, <1>9, <1>10, <1>11, <1>12

\* Counting an operation keeps the types of the counts.
LEMMA CountKeeps ==
  ASSUME Base, NEW i \in Handlers, NEW op, NEW edit \in Edits \cup {None}, Count(i, op, edit),
         UNCHANGED <<keys, acked, deaths>>
  PROVE  CountTypes' /\ ops + 1 \in Edits
<1>1. ops \in 0..MaxOps /\ MaxOps \in Nat
  BY VaultAssumption, Zenon DEF Base, Stores, CountTypes
<1>a. ops < MaxOps /\ ops' = ops + 1
  BY Zenon DEF Count
<1>2. ops' \in 0..MaxOps /\ ops + 1 \in Edits
  BY ONLY <1>1, <1>a DEF Edits
<1>3. \A j \in Handlers : h[j].edit \in Edits \cup {None}
  BY DEF Base, Handler
<1>4. shared \subseteq Edits
  BY DEF Base, Stores, CountTypes
<1>5. shared' \subseteq Edits
  BY <1>3, <1>4 DEF Count
<1>6. rekeyed' \in BOOLEAN
  BY Zenon DEF Count
<1>7. overlaps' \in 0..MaxOverlaps
  BY Zenon DEF Count
<1> QED BY <1>2, <1>5, <1>6, <1>7, Zenon DEF Base, Stores, CountTypes

\* Starting an operation keeps the types.
LEMMA BaseStart ==
  ASSUME Base, NEW i \in Handlers, Start(i)
  PROVE  Base'
<1>1. h[i] \in Handler /\ Len(heap) \in Nat /\ heap \in Seq(SUBSET Edits) /\ cached \in 0..Len(heap)
  BY DEF Base, Stores, MemoryTypes
<1>2. UNCHANGED <<disk, session, keys, acked, deaths>>
  BY DEF Start
<1>3. DiskTypes'
  BY <1>2, StoresKeep DEF Base, Stores
<1>4. 0 \in 0..Len(heap)
  BY <1>1
<1> USE DEF Sound, Staged, Holds, Changes
<1>5. CASE StartWrite(i)
  <2>1. Count(i, "write", ops + 1) /\ cached' = cached
    BY <1>5 DEF StartWrite
  <2>2. ops + 1 \in Edits
    <3>1. ops \in 0..MaxOps /\ MaxOps \in Nat
      BY VaultAssumption, Zenon DEF Base, Stores, CountTypes
    <3>2. ops < MaxOps
      BY <2>1, Zenon DEF Count
    <3> QED BY ONLY <3>1, <3>2 DEF Edits
  <2>3. CountTypes'
    BY <1>2, <2>1, <2>2, CountKeeps
  <2> DEFINE e == ops + 1
  <2>4. CASE cached # None
    <3> DEFINE r == [Idle EXCEPT !.op = "write", !.edit = e, !.obj = cached, !.at = "meta", !.ret = "seal"]
    <3>1. Edit(cached, e) /\ Go(i, r)
      BY <1>5, <2>4 DEF StartWrite
    <3>2. cached \in 1..Len(heap)
      BY <1>1, <2>4 DEF None
    <3>3. heap' \in Seq(SUBSET Edits) /\ Len(heap') = Len(heap)
      BY <1>1, <2>2, <3>1, <3>2 DEF Edit
    <3>4. MemoryTypes'
      BY <1>1, <2>1, <3>3 DEF MemoryTypes
    <3> HIDE DEF e
    <3>5. e \in Edits
      BY <2>2 DEF e
    <3>a. "meta" \in Ats /\ "seal" \in Rets /\ "write" \in Kinds /\ cached \in Nat
      BY <1>1 DEF Ats, Rets, WriteAts, KeyAts, Kinds
    <3>b. r \in Handler
      BY <3>5, <3>a, IdleSound DEF Handler, Idle
    <3>c. r.op = "write" /\ r.edit = e /\ r.obj = cached /\ r.at = "meta" /\ r.ret = "seal"
      BY DEF Idle
    <3> HIDE DEF r
    <3>6. r \in Handler /\ Sound(r, Len(heap'))
      <4>1. r.obj \in 0..Len(heap') /\ r.obj # None
        BY <1>1, <2>4, <3>2, <3>3, <3>c
      <4>2. Staged(r)
        BY <3>5, <3>c DEF WriteAts, KeyAts
      <4> QED BY <3>b, <4>1, <4>2
    <3>7. Stores' /\ Len(heap) <= Len(heap')
      BY <1>1, <1>3, <2>3, <3>3, <3>4 DEF Stores
    <3> HIDE DEF Sound, Staged, Holds
    <3> QED BY <3>1, <3>6, <3>7, BaseGo
  <2>5. CASE cached = None
    <3> DEFINE r == [Idle EXCEPT !.op = "write", !.edit = e, !.at = "meta", !.ret = "load"]
    <3>1. UNCHANGED memory /\ Go(i, r)
      BY <1>5, <2>5 DEF StartWrite
    <3>2. MemoryTypes' /\ heap' = heap
      BY <3>1, StoresKeep DEF Base
    <3> HIDE DEF e
    <3>3. e \in Edits
      BY <2>2 DEF e
    <3>4. r \in Handler /\ Sound(r, Len(heap))
      BY <1>1, <1>4, <3>3, IdleSound
         DEF Handler, Idle, Kinds, Ats, Rets, WriteAts, KeyAts, None
    <3> QED BY <1>1, <1>3, <2>3, <3>1, <3>2, <3>4, BaseGo DEF Stores
  <2> QED BY <2>4, <2>5
<1>6. ASSUME NEW op \in {"lock", "reset"}, NEW at \in {"forget key", "remove"},
             op = "lock" <=> at = "forget key", StartDrop(i, op, at)
      PROVE Base'
  <2> DEFINE r == [Idle EXCEPT !.op = op, !.at = at]
  <2>1. CountTypes'
    BY <1>2, <1>6, CountKeeps DEF StartDrop
  <2>2. MemoryTypes' /\ heap' = heap
    BY <1>1, <1>4, <1>6, StoresKeep DEF StartDrop, Base, None
  <2>3. r \in Handler /\ Sound(r, Len(heap))
    BY <1>1, <1>4, <1>6, IdleSound
       DEF Handler, Idle, Kinds, Ats, ResetAts, KeyAts, None
  <2> QED BY <1>1, <1>3, <1>6, <2>1, <2>2, <2>3, BaseGo DEF StartDrop, Stores
<1>7. ASSUME NEW op \in Kinds, NEW at \in Ats, NEW ret \in Rets, StartOther(i, op, at, ret),
             \/ op = "ensure" /\ at = "is initialized"
             \/ op = "unlock" /\ at = "unlock meta"
             \/ op \in Changes /\ at = "protection"
             \/ op = "connect" /\ at = "meta" /\ ret = "put tokens"
             \/ op = "mark" /\ at = "meta" /\ ret = "read sync"
             \/ op = "disconnect" /\ at = "drop tokens"
      PROVE Base'
  <2> DEFINE r == [Idle EXCEPT !.op = op, !.at = at, !.ret = ret]
  <2>1. CountTypes'
    BY <1>2, <1>7, CountKeeps DEF StartOther
  <2>2. MemoryTypes' /\ heap' = heap
    BY <1>7, StoresKeep DEF StartOther, Base
  <2>3. r \in Handler
    BY IdleSound DEF Handler, Idle
  <2>4. r.op = op /\ r.at = at /\ r.ret = ret /\ r.obj = 0
    BY DEF Idle, None
  <2>5. Sound(r, Len(heap))
    BY <1>1, <1>4, <1>7, <2>4
       DEF EnsureAts, Unlocking, ChangeAts, SyncAts, KeyAts, Resealing, None
  <2> QED BY <1>1, <1>3, <1>7, <2>1, <2>2, <2>3, <2>5, BaseGo DEF StartOther, Stores
<1>8. /\ {"is initialized", "unlock meta", "protection", "meta", "drop tokens"} \subseteq Ats
      /\ {"idle", "put tokens", "read sync"} \subseteq Rets
      /\ {"ensure", "unlock", "to pass", "to device", "connect", "mark", "disconnect"} \subseteq Kinds
  BY DEF Ats, EnsureAts, Unlocking, ChangeAts, SyncAts, KeyAts, Rets, Kinds
<1>9. CASE StartDrop(i, "lock", "forget key") \/ StartDrop(i, "reset", "remove")
  BY <1>6, <1>9
<1>10. CASE \/ StartOther(i, "ensure", "is initialized", "idle")
            \/ StartOther(i, "unlock", "unlock meta", "idle")
            \/ StartOther(i, "to pass", "protection", "idle")
            \/ StartOther(i, "to device", "protection", "idle")
  BY <1>7, <1>8, <1>10
<1>11. CASE \/ StartOther(i, "connect", "meta", "put tokens")
            \/ StartOther(i, "disconnect", "drop tokens", "idle")
            \/ StartOther(i, "mark", "meta", "read sync")
  BY <1>7, <1>8, <1>11
<1> QED BY <1>5, <1>9, <1>10, <1>11 DEF Start

\* A death of the worker keeps the types.
LEMMA BaseDies ==
  ASSUME Base, WorkerDies
  PROVE  Base'
<1>1. deaths' \in 0..MaxDeaths
  <2>1. deaths \in 0..MaxDeaths /\ MaxDeaths \in Nat
    BY VaultAssumption, Zenon DEF Base, Stores, CountTypes
  <2>2. deaths < MaxDeaths /\ deaths' = deaths + 1
    BY Zenon DEF WorkerDies
  <2> QED BY ONLY <2>1, <2>2
<1>2. rekeyed' \in BOOLEAN
  BY Zenon DEF WorkerDies
<1>3. CountTypes'
  BY <1>1, <1>2, Zenon DEF WorkerDies, Base, Stores, CountTypes
<1>4. DiskTypes'
  <2>1. session' \in {session, 0} /\ UNCHANGED disk
    BY Zenon DEF WorkerDies, None
  <2> QED BY <2>1 DEF Base, Stores, DiskTypes
<1>5. MemoryTypes' /\ Len(heap') = 0
  <2>1. heap' = <<>> /\ cached' = 0
    BY Zenon DEF WorkerDies, None
  <2> QED BY ONLY <2>1 DEF MemoryTypes
<1>6. \A i \in Handlers : h'[i] = Idle
  BY DEF WorkerDies
<1>7. h' \in [Handlers -> Handler]
  BY IdleSound DEF WorkerDies
<1> QED BY <1>3, <1>4, <1>5, <1>6, <1>7, IdleSound DEF Base, Stores

\* The initial state has the types.
LEMMA BaseInit ==
  ASSUME Init
  PROVE  Base
<1>1. CountTypes
  <2>a. MaxOverlaps \in Nat /\ MaxOps \in Nat /\ MaxDeaths \in Nat
    BY VaultAssumption, Zenon
  <2>1. 0 \in 0..MaxOverlaps /\ 0 \in 0..MaxOps /\ 0 \in 0..MaxDeaths /\ 0 \in Nat
    BY ONLY <2>a
  <2>2. FALSE \in BOOLEAN /\ {} \subseteq Edits
    OBVIOUS
  <2> QED BY <2>1, <2>2, Zenon DEF Init, CountTypes
<1>2. DiskTypes
  BY IdleSound DEF Init, DiskTypes, None
<1>3. MemoryTypes /\ Len(heap) = 0
  BY DEF Init, MemoryTypes, None
<1>4. h \in [Handlers -> Handler] /\ \A i \in Handlers : h[i] = Idle
  BY IdleSound DEF Init
<1> QED BY <1>1, <1>2, <1>3, <1>4, IdleSound DEF Base, Stores

\* Every step keeps the types.
LEMMA BaseStep == Base /\ [Next]_vars => Base'
<1> SUFFICES ASSUME Base, [Next]_vars PROVE Base'
  OBVIOUS
<1>1. ASSUME NEW i \in Handlers, Step(i) PROVE Base'
  BY <1>1, BaseRequireKey, BaseReads, BaseWrites, BaseEnds DEF Step
<1>2. CASE UNCHANGED vars
  <2>1. UNCHANGED <<disk, session, memory, ghosts>> /\ h' = h
    BY <1>2 DEF vars
  <2> QED BY <2>1, StoresKeep DEF Base, Stores
<1> QED BY <1>1, <1>2, BaseStart, BaseDies DEF Next

\* The types and the stages of the handlers hold in every state.
LEMMA BaseInvariance == Spec => []Base
BY BaseInit, BaseStep, PTL DEF Spec

\* They imply the type invariant.
LEMMA BaseTypes == Base => TypeOK
<1> SUFFICES ASSUME Base PROVE TypeOK
  OBVIOUS
<1>1. heap \in Seq(SUBSET (1..MaxOps)) /\ cached \in 0..Len(heap) /\ vault \in Blob
  BY DEF Base, Stores, MemoryTypes, DiskTypes, Edits
<1>2. \A i \in Handlers : h[i].obj \in 0..Len(heap) /\ h[i].blob \in Blob
  BY DEF Base, Sound, Handler
<1>3. /\ meta \in [protection: {"none", "device", "pass"}, key: Nat]
      /\ {verifier, tokens, sync, deviceKey, session, keys} \subseteq Nat
  <2>1. keys \in Nat
    BY Zenon DEF Base, Stores, CountTypes
  <2> QED BY <2>1 DEF Base, Stores, DiskTypes
<1>4. /\ acked \subseteq 1..MaxOps /\ shared \subseteq 1..MaxOps /\ rekeyed \in BOOLEAN
      /\ overlaps \in 0..MaxOverlaps /\ ops \in 0..MaxOps /\ deaths \in 0..MaxDeaths
  BY Zenon DEF Base, Stores, CountTypes, Edits
<1> QED BY <1>1, <1>2, <1>3, <1>4, Zenon DEF TypeOK

-----------------------------------------------------------------------------
(***************************************************************************)
(* Handlers that overlap: never when alone, and with a change of keys only *)
(* once that was recorded; their writes are recorded as shared.            *)
(***************************************************************************)

Apart ==
  \A i, j \in Handlers : i # j /\ Busy(i) /\ Busy(j) =>
    /\ ~Alone
    /\ rekeyed \/ ~Rekeys(h[i].op)
    /\ h[i].edit \in shared \cup {None}

\* A step of an operation leaves it what it was, or ends it.
LEMMA StepKeeps ==
  ASSUME Base, NEW i \in Handlers, Step(i)
  PROVE  /\ Busy(i) /\ h[i].op \in Kinds
         /\ \A j \in Handlers \ {i} : h'[j] = h[j]
         /\ h'[i] = Idle \/ (h'[i].op = h[i].op /\ h'[i].edit = h[i].edit)
         /\ UNCHANGED <<shared, rekeyed, overlaps, ops, deaths>>
<1>1. h \in [Handlers -> Handler] /\ h[i] \in Handler /\ h[i].op \in Kinds
      /\ Sound(h[i], Len(heap)) /\ Len(heap) \in Nat
  BY DEF Base, Handler, Stores, MemoryTypes
<1>a. meta.protection \in {"none", "device", "pass"}
  BY DEF Base, Stores, DiskTypes
<1>2. h[i].op = "none" => h[i].at = "idle"
  BY <1>1, AtTells
<1> USE DEF At, Done, To
<1>4. CASE RequireMeta(i) \/ SessionKey(i) \/ DeviceKey(i) \/ ConfirmDeviceKey(i) \/ MintDeviceKey(i)
  <2>1. Busy(i) /\ UNCHANGED <<shared, rekeyed, overlaps, ops, deaths>>
    BY <1>2, <1>4 DEF RequireMeta, SessionKey, DeviceKey, ConfirmDeviceKey, MintDeviceKey, Busy
  <2>2. /\ \A j \in Handlers \ {i} : h'[j] = h[j]
        /\ h'[i] = Idle \/ (h'[i].op = h[i].op /\ h'[i].edit = h[i].edit)
    <3>1. CASE RequireMeta(i)
      BY <1>1, <1>a, <3>1 DEF RequireMeta, Go, Handler
    <3>2. CASE SessionKey(i)
      BY <1>1, <3>2 DEF SessionKey, Go, Handler
    <3>3. CASE DeviceKey(i)
      BY <1>1, <3>3 DEF DeviceKey, Go, Handler
    <3>4. CASE ConfirmDeviceKey(i)
      BY <1>1, <3>4 DEF ConfirmDeviceKey, Go, Handler
    <3>5. CASE MintDeviceKey(i)
      BY <1>1, <3>5 DEF MintDeviceKey, Go, Handler
    <3> QED BY <1>4, <3>1, <3>2, <3>3, <3>4, <3>5
  <2> QED BY <1>1, <2>1, <2>2
<1>5. CASE LoadBlob(i) \/ Seal(i) \/ Store(i)
  <2>1. Busy(i) /\ UNCHANGED <<shared, rekeyed, overlaps, ops, deaths>>
    BY <1>2, <1>5 DEF LoadBlob, Seal, Store, Busy
  <2>2. /\ \A j \in Handlers \ {i} : h'[j] = h[j]
        /\ h'[i] = Idle \/ (h'[i].op = h[i].op /\ h'[i].edit = h[i].edit)
    BY <1>1, <1>5 DEF LoadBlob, Seal, Store, Go, Handler
  <2> QED BY <1>1, <2>1, <2>2
<1>6. CASE Decrypt(i)
  <2>1. Busy(i) /\ UNCHANGED <<shared, rekeyed, overlaps, ops, deaths>>
    BY <1>2, <1>6 DEF Decrypt, Busy
  <2>2. /\ \A j \in Handlers \ {i} : h'[j] = h[j]
        /\ h'[i] = Idle \/ (h'[i].op = h[i].op /\ h'[i].edit = h[i].edit)
    BY <1>1, <1>6 DEF Decrypt, Go, Handler
  <2> QED BY <1>1, <2>1, <2>2
<1>7. CASE PutTokens(i) \/ ReadSync(i) \/ PutSync(i) \/ DropTokens(i)
           \/ IsInitialized(i) \/ Create(i) \/ Created(i)
  <2>1. Busy(i) /\ UNCHANGED <<shared, rekeyed, overlaps, ops, deaths>>
    BY <1>2, <1>7 DEF PutTokens, ReadSync, PutSync, DropTokens, IsInitialized, Create, Created, Busy
  <2>2. /\ \A j \in Handlers \ {i} : h'[j] = h[j]
        /\ h'[i] = Idle \/ (h'[i].op = h[i].op /\ h'[i].edit = h[i].edit)
    BY <1>1, <1>7
       DEF PutTokens, ReadSync, PutSync, DropTokens, IsInitialized, Create, Created, Go, Handler
  <2> QED BY <1>1, <2>1, <2>2
<1>8. CASE UnlockMeta(i) \/ Verify(i) \/ Remember(i) \/ Unlocked(i) \/ ForgetKey(i)
  <2>1. Busy(i) /\ UNCHANGED <<shared, rekeyed, overlaps, ops, deaths>>
    BY <1>2, <1>8 DEF UnlockMeta, Verify, Remember, Unlocked, ForgetKey, Busy
  <2>2. /\ \A j \in Handlers \ {i} : h'[j] = h[j]
        /\ h'[i] = Idle \/ (h'[i].op = h[i].op /\ h'[i].edit = h[i].edit)
    BY <1>1, <1>8 DEF UnlockMeta, Verify, Remember, Unlocked, ForgetKey, Go, Handler
  <2> QED BY <1>1, <2>1, <2>2
<1>9. CASE Protection(i) \/ ReadAll(i) \/ ReadTokens(i) \/ Derive(i) \/ ForgetSession(i)
  <2>1. Busy(i) /\ UNCHANGED <<shared, rekeyed, overlaps, ops, deaths>>
    BY <1>2, <1>9 DEF Protection, ReadAll, ReadTokens, Derive, ForgetSession, Busy
  <2>2. /\ \A j \in Handlers \ {i} : h'[j] = h[j]
        /\ h'[i] = Idle \/ (h'[i].op = h[i].op /\ h'[i].edit = h[i].edit)
    <3>1. CASE Protection(i)
      BY <1>1, <1>a, <3>1 DEF Protection, Go, Handler
    <3>2. CASE ReadAll(i)
      BY <1>1, <3>2 DEF ReadAll, Go, Handler
    <3>3. CASE ReadTokens(i)
      BY <1>1, <3>3 DEF ReadTokens, Go, Handler
    <3>4. CASE Derive(i)
      BY <1>1, <3>4 DEF Derive, Go, Handler
    <3>5. CASE ForgetSession(i)
      BY <1>1, <3>5 DEF ForgetSession, Go, Handler
    <3> QED BY <1>9, <3>1, <3>2, <3>3, <3>4, <3>5
  <2> QED BY <1>1, <2>1, <2>2
<1>10. CASE Reseal(i) \/ RemoveTokens(i) \/ SetAll(i) \/ Resealed(i)
            \/ Remove(i) \/ RemoveSession(i) \/ ClearDeviceKey(i)
  <2>1. Busy(i) /\ UNCHANGED <<shared, rekeyed, overlaps, ops, deaths>>
    BY <1>2, <1>10 DEF Reseal, RemoveTokens, SetAll, Resealed, Remove, RemoveSession, ClearDeviceKey, Busy
  <2>2. /\ \A j \in Handlers \ {i} : h'[j] = h[j]
        /\ h'[i] = Idle \/ (h'[i].op = h[i].op /\ h'[i].edit = h[i].edit)
    <3>1. CASE Reseal(i)
      BY <1>1, <3>1 DEF Reseal, Go, Handler
    <3>2. CASE RemoveTokens(i)
      BY <1>1, <3>2 DEF RemoveTokens, Go, Handler
    <3>3. CASE SetAll(i)
      BY <1>1, <3>3 DEF SetAll, Go, Handler
    <3>4. CASE Resealed(i)
      BY <1>1, <3>4 DEF Resealed, Go, Handler
    <3>5. CASE Remove(i)
      BY <1>1, <3>5 DEF Remove, Go, Handler
    <3>6. CASE RemoveSession(i)
      BY <1>1, <3>6 DEF RemoveSession, Go, Handler
    <3>7. CASE ClearDeviceKey(i)
      BY <1>1, <3>7 DEF ClearDeviceKey, Go, Handler
    <3> QED BY <1>10, <3>1, <3>2, <3>3, <3>4, <3>5, <3>6, <3>7
  <2> QED BY <1>1, <2>1, <2>2
<1> QED BY <1>4, <1>5, <1>6, <1>7, <1>8, <1>9, <1>10 DEF Step

\* What a start counts, when it overlaps another operation and when it does not.
LEMMA StartCounts ==
  ASSUME Base, NEW i \in Handlers, Start(i)
  PROVE  /\ ~Busy(i) /\ \A j \in Handlers \ {i} : h'[j] = h[j]
         /\ h'[i] \in Handler /\ h'[i].op # "none"
         /\ \E edit \in Edits \cup {None} : Count(i, h'[i].op, edit) /\ h'[i].edit = edit
<1>1. h \in [Handlers -> Handler] /\ ~Busy(i) /\ Base'
  BY BaseStart DEF Base, Start
<1>2. h'[i] \in Handler
  BY <1>1 DEF Base
<1>3. CASE StartWrite(i)
  <2> DEFINE e == ops + 1
  <2>1. PICK r : /\ Go(i, r) /\ r.op = "write" /\ r.edit = e
                 /\ Count(i, "write", e)
    BY <1>3 DEF StartWrite, Idle
  <2> HIDE DEF e
  <2>2. h'[i] = r /\ \A j \in Handlers \ {i} : h'[j] = h[j]
    BY <1>1, <2>1 DEF Go
  <2>3. e \in Edits \cup {None}
    BY <1>2, <2>1, <2>2 DEF Handler
  <2> QED BY <1>1, <1>2, <2>1, <2>2, <2>3
<1>4. ASSUME NEW op \in Kinds \ {"none"}, NEW at, NEW ret,
             StartDrop(i, op, at) \/ StartOther(i, op, at, ret)
      PROVE  /\ \A j \in Handlers \ {i} : h'[j] = h[j]
             /\ h'[i].op # "none"
             /\ Count(i, h'[i].op, None) /\ h'[i].edit = None
  <2>1. PICK r : Go(i, r) /\ r.op = op /\ r.edit = None
    <3>1. CASE StartDrop(i, op, at)
      <4>1. Go(i, [Idle EXCEPT !.op = op, !.at = at])
        BY <3>1 DEF StartDrop
      <4>2. [Idle EXCEPT !.op = op, !.at = at].op = op /\ [Idle EXCEPT !.op = op, !.at = at].edit = None
        BY DEF Idle
      <4> QED BY <4>1, <4>2
    <3>2. CASE StartOther(i, op, at, ret)
      <4>1. Go(i, [Idle EXCEPT !.op = op, !.at = at, !.ret = ret])
        BY <3>2 DEF StartOther
      <4>2. /\ [Idle EXCEPT !.op = op, !.at = at, !.ret = ret].op = op
            /\ [Idle EXCEPT !.op = op, !.at = at, !.ret = ret].edit = None
        BY DEF Idle
      <4> QED BY <4>1, <4>2
    <3> QED BY <1>4, <3>1, <3>2
  <2>2. h'[i] = r /\ \A j \in Handlers \ {i} : h'[j] = h[j]
    BY <1>1, <2>1 DEF Go
  <2>3. Count(i, op, None)
    BY <1>4 DEF StartDrop, StartOther
  <2> QED BY <2>1, <2>2, <2>3
<1>5. {"ensure", "unlock", "to pass", "to device", "connect", "mark", "disconnect", "lock", "reset"}
        \subseteq Kinds \ {"none"}
  BY DEF Kinds
<1>6. CASE \/ StartDrop(i, "lock", "forget key") \/ StartDrop(i, "reset", "remove")
           \/ StartOther(i, "ensure", "is initialized", "idle")
           \/ StartOther(i, "unlock", "unlock meta", "idle")
           \/ StartOther(i, "to pass", "protection", "idle")
           \/ StartOther(i, "to device", "protection", "idle")
           \/ StartOther(i, "connect", "meta", "put tokens")
           \/ StartOther(i, "disconnect", "drop tokens", "idle")
           \/ StartOther(i, "mark", "meta", "read sync")
  BY <1>1, <1>2, <1>4, <1>5, <1>6
<1> QED BY <1>3, <1>6 DEF Start

\* Every step keeps the handlers apart.
LEMMA ApartStep ==
  ASSUME Base, Apart, [Next]_vars
  PROVE  Apart'
<1>0. Idle.op = "none" /\ Idle.edit = None
  BY DEF Idle
<1>1. ASSUME NEW i \in Handlers, Step(i) PROVE Apart'
  <2>1. \A j \in Handlers \ {i} : h'[j] = h[j]
    BY <1>1, StepKeeps
  <2>2. Busy(i) /\ UNCHANGED <<shared, rekeyed, overlaps>>
    BY <1>1, StepKeeps
  <2>3. h'[i].op = "none" \/ (h'[i].op = h[i].op /\ h'[i].edit = h[i].edit)
    BY <1>0, <1>1, StepKeeps
  <2> SUFFICES ASSUME NEW j \in Handlers, NEW k \in Handlers, j # k, Busy(j)', Busy(k)'
               PROVE  /\ ~Alone
                      /\ rekeyed \/ ~Rekeys(h'[j].op)
                      /\ h'[j].edit \in shared \cup {None}
    BY <2>2, Zenon DEF Apart, Alone
  <2>4. Busy(j) /\ Busy(k) /\ h'[j].op = h[j].op /\ h'[j].edit = h[j].edit
    BY <2>1, <2>2, <2>3 DEF Busy
  <2>5. ~Alone /\ (rekeyed \/ ~Rekeys(h[j].op)) /\ h[j].edit \in shared \cup {None}
    BY <2>4, Zenon DEF Apart
  <2> QED BY <2>4, <2>5, Zenon
<1>2. ASSUME NEW i \in Handlers, Start(i) PROVE Apart'
  <2>1. /\ ~Busy(i) /\ \A j \in Handlers \ {i} : h'[j] = h[j]
        /\ h'[i] \in Handler /\ h'[i].op # "none"
    BY <1>2, StartCounts
  <2>2. PICK edit \in Edits \cup {None} : Count(i, h'[i].op, edit) /\ h'[i].edit = edit
    BY <1>2, StartCounts
  <2> DEFINE others == {j \in Handlers \ {i} : Busy(j)}
  <2>3. overlaps \in Nat
    <3>1. overlaps \in 0..MaxOverlaps /\ MaxOverlaps \in Nat
      BY VaultAssumption, Zenon DEF Base, Stores, CountTypes
    <3> QED BY <3>1
  <2>4. CASE others = {}
    <3>1. \A j \in Handlers \ {i} : h'[j].op = "none"
      BY <2>1, <2>4 DEF Busy
    <3> QED BY <3>1 DEF Apart, Busy
  <2>5. CASE others # {}
    <3>1. overlaps' = overlaps + 1
      BY <2>2, <2>5 DEF Count
    <3>2. ~Alone'
      BY <2>3, <3>1 DEF Alone
    <3>3. rekeyed' = (rekeyed \/ (Rekeys(h'[i].op) \/ \E j \in others : Rekeys(h[j].op)))
      BY <2>2, <2>5, Zenon DEF Count
    <3>4. shared' = shared \cup (({edit} \cup {h[j].edit : j \in others}) \ {None})
      BY <2>2, <2>5, Zenon DEF Count
    <3>5. ASSUME NEW j \in Handlers, h'[j].op # "none"
          PROVE (rekeyed' \/ ~Rekeys(h'[j].op)) /\ h'[j].edit \in shared' \cup {None}
      <4>1. CASE j = i
        <5>1. rekeyed' \/ ~Rekeys(h'[j].op)
          BY <3>3, <4>1, Zenon
        <5> QED BY <2>2, <3>4, <4>1, <5>1
      <4>2. CASE j # i
        <5>1. h'[j] = h[j] /\ j \in others
          BY <2>1, <3>5, <4>2 DEF Busy
        <5>2. rekeyed' \/ ~Rekeys(h'[j].op)
          BY <3>3, <5>1, Zenon
        <5> QED BY <3>4, <5>1, <5>2
      <4> QED BY <4>1, <4>2
    <3> QED BY <3>2, <3>5, Zenon DEF Apart, Busy
  <2> QED BY <2>4, <2>5
<1>3. CASE WorkerDies
  <2>1. \A j \in Handlers : h'[j].op = "none"
    BY <1>0, <1>3 DEF WorkerDies
  <2> QED BY <2>1 DEF Apart, Busy
<1>4. CASE UNCHANGED vars
  <2>1. h' = h /\ UNCHANGED <<shared, rekeyed, overlaps>>
    BY <1>4 DEF vars
  <2> QED BY <2>1, Zenon DEF Apart, Busy, Alone
<1> QED BY <1>1, <1>2, <1>3, <1>4 DEF Next

\* The handlers are apart in every state.
LEMMA ApartInvariance == Spec => []Apart
<1>1. Init => Apart
  BY DEF Init, Apart, Busy, Idle
<1> QED BY <1>1, ApartStep, BaseInvariance, PTL DEF Spec

-----------------------------------------------------------------------------
(***************************************************************************)
(* Confirmed edits whose write overlapped nothing.                         *)
(***************************************************************************)

Solo == acked \ shared

\* They are on disk and in the cache, ...
SoloStored ==
  /\ Solo \subseteq vault.contents
  /\ meta.protection = "none" => Solo = {}
  /\ cached # None => Solo \subseteq heap[cached]

\* ... and in the contents and blobs that handlers carry; and a write that overlaps
\* nothing has its edit there too.
SoloCarried(i) ==
  /\ h[i].obj # None => Solo \subseteq heap[h[i].obj]
  /\ h[i].at \in {"decrypt", "store", "remove tokens", "set all"} => Solo \subseteq h[i].blob.contents
  /\ h[i].op = "ensure" /\ h[i].at # "is initialized" => Solo = {}
  /\ h[i].op = "write" /\ h[i].edit \notin shared =>
       /\ h[i].at # "meta" => meta.protection # "none"
       /\ h[i].ret = "seal" => h[i].edit \in heap[h[i].obj]
       /\ h[i].at = "store" => cached = h[i].obj /\ h[i].edit \in h[i].blob.contents
       /\ h[i].at \in {"seal", "store"} => h[i].ret = "seal"

SoloInv == SoloStored /\ \A i \in Handlers : SoloCarried(i)

\* An object never loses an edit.
HeapGrows == \A o \in 1..Len(heap) : o \in 1..Len(heap') /\ heap[o] \subseteq heap'[o]

\* A heap that stays the same loses nothing.
LEMMA HeapSame == heap' = heap => HeapGrows
BY DEF HeapGrows

\* The handlers that do not step.
LEMMA SoloOthers ==
  ASSUME Base, SoloInv, Solo' \subseteq Solo, HeapGrows, NEW j \in Handlers, h'[j] = h[j],
         h[j].op = "write" => h[j].edit \in shared'
  PROVE  SoloCarried(j)'
<1>1. SoloCarried(j) /\ h[j].obj \in 0..Len(heap) /\ Len(heap) \in Nat
  BY DEF SoloInv, Base, Sound, Stores, MemoryTypes
<1>2. h[j].obj # None => heap[h[j].obj] \subseteq heap'[h[j].obj]
  BY <1>1 DEF HeapGrows, None
<1> QED BY <1>1, <1>2 DEF SoloCarried

\* An idle handler carries nothing.
LEMMA IdleCarries ==
  ASSUME NEW j, h'[j] = Idle
  PROVE  SoloCarried(j)'
<1>1. h'[j].op = "none" /\ h'[j].at = "idle" /\ h'[j].obj = None
  BY DEF Idle
<1> QED BY <1>1 DEF SoloCarried

\* A step of handler i: what is left to show is the stores and the handler itself.
LEMMA SoloGo ==
  ASSUME Base, Apart, SoloInv, NEW i \in Handlers, Step(i), HeapGrows, Solo' \subseteq Solo,
         SoloStored', h'[i] = Idle \/ SoloCarried(i)'
  PROVE  SoloInv'
<1>1. Busy(i) /\ UNCHANGED shared
  BY StepKeeps
<1>2. \A j \in Handlers \ {i} : h'[j] = h[j]
  BY StepKeeps
<1>3. ASSUME NEW j \in Handlers \ {i} PROVE SoloCarried(j)'
  <2>1. h[j].op = "write" => h[j].edit \in shared
    <3>1. h[j].op = "write" => Busy(j) /\ h[j].edit \in Edits
      BY DEF Base, Sound, Staged, Busy
    <3>2. \A e \in Edits : e # None
      BY DEF Edits, None
    <3> QED BY <1>1, <3>1, <3>2 DEF Apart
  <2> QED BY <1>1, <1>2, <2>1, SoloOthers
<1>4. SoloCarried(i)'
  BY IdleCarries
<1> QED BY <1>3, <1>4 DEF SoloInv

\* Steps that leave the vault and the memory alone, and carry what they carried.
LEMMA SoloQuiet ==
  ASSUME Base, Apart, SoloInv, NEW i \in Handlers, Step(i),
         UNCHANGED <<meta, vault, memory, acked>>,
         h'[i] = Idle \/ SoloCarried(i)'
  PROVE  SoloInv'
<1>1. UNCHANGED shared /\ heap' = heap /\ cached' = cached
  BY StepKeeps
<1>2. Solo' = Solo /\ HeapGrows
  BY <1>1, HeapSame DEF Solo
<1>3. SoloStored'
  BY <1>1, <1>2 DEF SoloInv, SoloStored
<1> QED BY <1>2, <1>3, SoloGo

\* requireKey keeps the confirmed edits.
LEMMA SoloRequireKey ==
  ASSUME Base, Apart, SoloInv, NEW i \in Handlers, Step(i),
         RequireMeta(i) \/ SessionKey(i) \/ DeviceKey(i) \/ MintDeviceKey(i) \/ ConfirmDeviceKey(i)
  PROVE  SoloInv'
<1>1. h[i] \in Handler /\ Sound(h[i], Len(heap)) /\ SoloCarried(i)
      /\ meta.protection \in {"none", "device", "pass"} /\ h \in [Handlers -> Handler]
  BY DEF Base, SoloInv, Stores, DiskTypes
<1>2. h[i].at \in KeyAts /\ UNCHANGED <<meta, vault, memory, acked>>
  BY DEF RequireMeta, SessionKey, DeviceKey, MintDeviceKey, ConfirmDeviceKey, At, KeyAts
<1>3. UNCHANGED shared
  BY StepKeeps
<1>4. \/ h'[i] = Idle
      \/ \E k, at : /\ h'[i] = [h[i] EXCEPT !.key = k, !.at = at]
                    /\ at \in {"device key", "session key", "mint", "confirm"} \/ at = h[i].ret
                    /\ h[i].at = "meta" => meta.protection # "none"
  <2>1. CASE RequireMeta(i)
    <3>1. h'[i] = Idle \/ (meta.protection # "none" /\ \E at \in {"device key", "session key"} :
                              h'[i] = [h[i] EXCEPT !.at = at])
      BY <1>1, <2>1 DEF RequireMeta, Go, To, Done
    <3>2. \A at : [h[i] EXCEPT !.at = at] = [h[i] EXCEPT !.key = h[i].key, !.at = at]
      BY <1>1 DEF Handler
    <3> QED BY <3>1, <3>2
  <2>2. CASE MintDeviceKey(i)
    <3>1. h'[i] = [h[i] EXCEPT !.at = "confirm"] /\ h[i].at = "mint"
      BY <1>1, <2>2 DEF MintDeviceKey, Go, To, At
    <3>2. [h[i] EXCEPT !.at = "confirm"] = [h[i] EXCEPT !.key = h[i].key, !.at = "confirm"]
      BY <1>1 DEF Handler
    <3> QED BY <3>1, <3>2
  <2>3. CASE DeviceKey(i)
    <3>1. /\ h[i].at = "device key"
          /\ \/ h'[i] = [h[i] EXCEPT !.at = "mint"]
             \/ h'[i] = [h[i] EXCEPT !.key = deviceKey, !.at = h[i].ret]
      BY <1>1, <2>3 DEF DeviceKey, Go, To, At
    <3>2. [h[i] EXCEPT !.at = "mint"] = [h[i] EXCEPT !.key = h[i].key, !.at = "mint"]
      BY <1>1 DEF Handler
    <3> QED BY <3>1, <3>2
  <2>4. CASE SessionKey(i)
    <3>1. /\ h[i].at = "session key"
          /\ h'[i] = Idle \/ h'[i] = [h[i] EXCEPT !.key = session, !.at = h[i].ret]
      BY <1>1, <2>4 DEF SessionKey, Go, Done, At
    <3> QED BY <3>1
  <2>5. CASE ConfirmDeviceKey(i)
    <3>1. /\ h[i].at = "confirm"
          /\ h'[i] = Idle \/ h'[i] = [h[i] EXCEPT !.key = deviceKey, !.at = h[i].ret]
      BY <1>1, <2>5 DEF ConfirmDeviceKey, Go, Done, At
    <3> QED BY <3>1
  <2> QED BY <2>1, <2>2, <2>3, <2>4, <2>5
<1>5. ASSUME NEW k, NEW at, h'[i] = [h[i] EXCEPT !.key = k, !.at = at],
             at \in {"device key", "session key", "mint", "confirm"} \/ at = h[i].ret,
             h[i].at = "meta" => meta.protection # "none"
      PROVE SoloCarried(i)'
  <2>1. /\ h'[i].op = h[i].op /\ h'[i].obj = h[i].obj /\ h'[i].blob = h[i].blob
        /\ h'[i].edit = h[i].edit /\ h'[i].ret = h[i].ret /\ h'[i].at = at
    BY <1>1, <1>5 DEF Handler
  <2>2. at \notin {"decrypt", "store", "remove tokens", "set all"} /\ at # "is initialized"
        /\ (at = "seal" => h[i].ret = "seal")
    BY <1>1, <1>5 DEF Handler, Rets
  <2>3. h[i].at # "is initialized"
    BY <1>2 DEF KeyAts
  <2> QED BY <1>1, <1>2, <1>3, <1>5, <2>1, <2>2, <2>3 DEF SoloCarried, Solo
<1>6. h'[i] = Idle \/ SoloCarried(i)'
  BY <1>4, <1>5
<1> QED BY <1>2, <1>6, SoloQuiet

\* So do the steps that leave the vault and the memory alone, ...
LEMMA SoloQuietSteps ==
  ASSUME Base, Apart, SoloInv, NEW i \in Handlers, Step(i),
         \/ PutTokens(i) \/ ReadSync(i) \/ PutSync(i) \/ DropTokens(i) \/ IsInitialized(i)
         \/ UnlockMeta(i) \/ Verify(i) \/ Remember(i) \/ ForgetKey(i) \/ Protection(i)
         \/ ReadTokens(i) \/ Derive(i) \/ ForgetSession(i) \/ RemoveTokens(i)
         \/ RemoveSession(i) \/ ClearDeviceKey(i) \/ LoadBlob(i) \/ ReadAll(i) \/ Reseal(i)
  PROVE  SoloInv'
<1>1. h[i] \in Handler /\ Sound(h[i], Len(heap)) /\ SoloCarried(i) /\ SoloStored
      /\ meta.protection \in {"none", "device", "pass"} /\ h \in [Handlers -> Handler]
      /\ Len(heap) \in Nat
  BY DEF Base, SoloInv, Stores, DiskTypes, MemoryTypes
<1>2. UNCHANGED <<meta, vault, memory, acked>>
  BY DEF PutTokens, ReadSync, PutSync, DropTokens, IsInitialized, UnlockMeta, Verify, Remember,
         ForgetKey, Protection, ReadTokens, Derive, ForgetSession, RemoveTokens, RemoveSession,
         ClearDeviceKey, LoadBlob, ReadAll, Reseal
<1>3. UNCHANGED <<shared, acked, heap, cached>> /\ Solo' = Solo
  BY <1>2, StepKeeps DEF Solo
\* The handlers that are not of a write, and carry no blob anew.
<1>4. ASSUME h'[i].op = h[i].op, h[i].op \notin {"write", "ensure"},
             h'[i].obj = h[i].obj, h'[i].blob = h[i].blob,
             h'[i].at \notin {"decrypt", "store", "remove tokens", "set all"}
      PROVE SoloCarried(i)'
  BY <1>1, <1>3, <1>4 DEF SoloCarried
<1> USE DEF Go, Done, To, At, Handler
<1>5. CASE PutTokens(i) \/ ReadSync(i) \/ PutSync(i) \/ DropTokens(i)
  <2>1. h[i].op \in {"connect", "mark", "disconnect"}
    BY <1>1, <1>5, AtTells DEF PutTokens, ReadSync, PutSync, DropTokens
  <2>2. h'[i] = Idle \/ (/\ h'[i].op = h[i].op /\ h'[i].obj = h[i].obj /\ h'[i].blob = h[i].blob
                         /\ h'[i].at = "meta")
    BY <1>1, <1>5 DEF PutTokens, ReadSync, PutSync, DropTokens
  <2> QED BY <1>2, <1>4, <2>1, <2>2, SoloQuiet
<1>6. CASE IsInitialized(i)
  <2>1. h[i].op = "ensure" /\ h[i].at = "is initialized"
    BY <1>1, <1>6, AtTells DEF IsInitialized
  <2>2. h'[i] = Idle \/ (/\ h'[i].op = "ensure" /\ h'[i].obj = h[i].obj /\ h'[i].at = "device key"
                         /\ meta.protection = "none")
    BY <1>1, <1>6, <2>1 DEF IsInitialized
  <2>3. h'[i] = Idle \/ SoloCarried(i)'
    BY <1>1, <1>3, <2>2 DEF SoloCarried, SoloStored
  <2> QED BY <1>2, <2>3, SoloQuiet
<1>7. CASE UnlockMeta(i) \/ Verify(i) \/ Remember(i) \/ ForgetKey(i)
  <2>1. h[i].op \in {"unlock", "lock"} \cup Changes
    BY <1>1, <1>7, AtTells DEF UnlockMeta, Verify, Remember, ForgetKey, Unlocking
  <2>2. h'[i] = Idle \/ (/\ h'[i].op = h[i].op /\ h'[i].obj = h[i].obj /\ h'[i].blob = h[i].blob
                         /\ h'[i].at \in Unlocking)
    BY <1>1, <1>7 DEF UnlockMeta, Verify, Remember, ForgetKey, Unlocking
  <2> QED BY <1>2, <1>4, <2>1, <2>2, SoloQuiet DEF Changes, Unlocking
<1>8. CASE Protection(i)
  <2>1. h[i].op \in Changes
    BY <1>1, <1>8, AtTells DEF Protection
  <2>2. h'[i] = Idle \/ (/\ h'[i].op = h[i].op /\ h'[i].obj = h[i].obj /\ h'[i].blob = h[i].blob
                         /\ h'[i].at \in {"read", "unlock meta"})
    BY <1>1, <1>8 DEF Protection
  <2> QED BY <1>2, <1>4, <2>1, <2>2, SoloQuiet DEF Changes
<1>9. CASE ReadTokens(i)
  <2>1. h[i].op \in Changes
    BY <1>1, <1>9, AtTells DEF ReadTokens
  <2>2. h'[i] = Idle \/ (/\ h'[i].op = h[i].op /\ h'[i].obj = h[i].obj /\ h'[i].blob = h[i].blob
                         /\ h'[i].at \in {"derive", "device key"})
    BY <1>1, <1>9 DEF ReadTokens
  <2> QED BY <1>2, <1>4, <2>1, <2>2, SoloQuiet DEF Changes
<1>10. CASE Derive(i) \/ ForgetSession(i)
  <2>1. h[i].op \in Changes
    BY <1>1, <1>10, AtTells DEF Derive, ForgetSession, Changes
  <2>2. /\ h'[i].op = h[i].op /\ h'[i].obj = h[i].obj /\ h'[i].blob = h[i].blob
        /\ h'[i].at = "reseal"
    BY <1>1, <1>10 DEF Derive, ForgetSession
  <2> QED BY <1>2, <1>4, <2>1, <2>2, SoloQuiet DEF Changes
<1>11. CASE RemoveTokens(i)
  <2>1. h[i].op \in Changes
    BY <1>1, <1>11, AtTells DEF RemoveTokens, Resealing
  <2>2. /\ h'[i].op = h[i].op /\ h'[i].obj = h[i].obj /\ h'[i].blob = h[i].blob
        /\ h'[i].at = "set all" /\ h[i].at = "remove tokens"
    BY <1>1, <1>11 DEF RemoveTokens
  <2>3. SoloCarried(i)'
    BY <1>1, <1>3, <2>1, <2>2 DEF SoloCarried, Changes
  <2> QED BY <1>2, <2>3, SoloQuiet
<1>12. CASE RemoveSession(i) \/ ClearDeviceKey(i)
  <2>1. h[i].op = "reset"
    BY <1>1, <1>12, AtTells DEF RemoveSession, ClearDeviceKey, ResetAts
  <2>2. h'[i] = Idle \/ (/\ h'[i].op = h[i].op /\ h'[i].obj = h[i].obj /\ h'[i].blob = h[i].blob
                         /\ h'[i].at = "clear device key")
    BY <1>1, <1>12 DEF RemoveSession, ClearDeviceKey
  <2> QED BY <1>2, <1>4, <2>1, <2>2, SoloQuiet
<1>13. CASE LoadBlob(i)
  <2>1. h[i].op \in {"write"} \cup Changes /\ h[i].at = "load"
    BY <1>1, <1>13, AtTells DEF LoadBlob
  <2>2. /\ h'[i].op = h[i].op /\ h'[i].obj = h[i].obj /\ h'[i].blob = vault
        /\ h'[i].at = "decrypt" /\ h'[i].ret = h[i].ret /\ h'[i].edit = h[i].edit
    BY <1>1, <1>13 DEF LoadBlob
  <2>3. SoloCarried(i)'
    BY <1>1, <1>2, <1>3, <2>1, <2>2 DEF SoloCarried, SoloStored, Changes
  <2> QED BY <1>2, <2>3, SoloQuiet
<1>14. CASE ReadAll(i)
  <2>1. h[i].op \in Changes
    BY <1>1, <1>14, AtTells DEF ReadAll
  <2>2. h'[i].op = h[i].op /\ h'[i].obj = cached /\ h'[i].at = "meta"
    BY <1>1, <1>14 DEF ReadAll
  <2>3. SoloCarried(i)'
    BY <1>1, <1>3, <2>1, <2>2 DEF SoloCarried, SoloStored, Changes
  <2> QED BY <1>2, <2>3, SoloQuiet
<1>15. CASE Reseal(i)
  <2>1. h[i].op \in Changes /\ h[i].at = "reseal"
    BY <1>1, <1>15, AtTells DEF Reseal, Resealing
  <2>2. h[i].obj # None
    BY <1>1, <2>1 DEF Sound, Holds, Resealing
  <2>3. /\ h'[i].op = h[i].op /\ h'[i].obj = h[i].obj /\ h'[i].blob.contents = heap[h[i].obj]
    BY <1>1, <1>15 DEF Reseal
  <2>4. SoloCarried(i)'
    BY <1>1, <1>3, <2>1, <2>2, <2>3 DEF SoloCarried, Changes
  <2> QED BY <1>2, <2>4, SoloQuiet
<1> QED BY <1>5, <1>6, <1>7, <1>8, <1>9, <1>10, <1>11, <1>12, <1>13, <1>14, <1>15

\* ... the steps that change the memory, ...
LEMMA SoloMemorySteps ==
  ASSUME Base, Apart, SoloInv, NEW i \in Handlers, Step(i),
         Decrypt(i) \/ Seal(i) \/ Created(i) \/ Unlocked(i) \/ Resealed(i)
  PROVE  SoloInv'
<1>1. h[i] \in Handler /\ Sound(h[i], Len(heap)) /\ SoloCarried(i) /\ SoloStored
      /\ h \in [Handlers -> Handler] /\ Len(heap) \in Nat /\ heap \in Seq(SUBSET Edits)
  BY DEF Base, SoloInv, Stores, MemoryTypes
<1>2. UNCHANGED <<meta, vault, acked>>
  BY DEF Decrypt, Seal, Created, Unlocked, Resealed
<1>3. UNCHANGED shared /\ Solo' = Solo
  BY <1>2, StepKeeps DEF Solo
<1> USE DEF Go, Done, To, At, Handler
<1>4. CASE Unlocked(i)
  <2>1. h[i].op \in {"unlock"} \cup Changes
    BY <1>1, <1>4, AtTells DEF Unlocked, Unlocking
  <2>2. heap' = heap /\ cached' = None
    BY <1>4 DEF Unlocked
  <2>3. h'[i] = Idle \/ (h'[i].op = h[i].op /\ h'[i].obj = h[i].obj /\ h'[i].at = "read")
    BY <1>1, <1>4 DEF Unlocked
  <2>4. h'[i] = Idle \/ SoloCarried(i)'
    BY <1>1, <1>3, <2>1, <2>2, <2>3 DEF SoloCarried, Changes
  <2>5. SoloStored'
    BY <1>1, <1>2, <1>3, <2>2 DEF SoloStored
  <2> QED BY <1>3, <2>2, <2>4, <2>5, HeapSame, SoloGo
<1>5. CASE Resealed(i)
  <2>1. h[i].op \in Changes /\ h[i].at = "resealed"
    BY <1>1, <1>5, AtTells DEF Resealed
  <2>2. h[i].obj # None
    BY <1>1, <2>1 DEF Sound, Holds
  <2>3. heap' = heap /\ cached' = h[i].obj /\ h'[i] = Idle
    BY <1>1, <1>5 DEF Resealed
  <2>4. SoloStored'
    BY <1>1, <1>2, <1>3, <2>2, <2>3 DEF SoloStored, SoloCarried
  <2> QED BY <1>3, <2>3, <2>4, HeapSame, SoloGo
<1>6. CASE Created(i)
  <2>1. Solo = {}
    BY <1>1, <1>6, AtTells DEF Created, SoloCarried
  <2>2. h'[i] = Idle /\ heap' = Append(heap, {})
    BY <1>1, <1>6 DEF Created
  <2>3. HeapGrows
    BY <1>1, <2>2 DEF HeapGrows
  <2>4. SoloStored'
    BY <1>3, <2>1 DEF SoloStored
  <2> QED BY <1>3, <2>2, <2>3, <2>4, SoloGo
<1>7. CASE Seal(i)
  <2>1. h[i].op = "write" /\ h[i].at = "seal"
    BY <1>1, <1>7, AtTells DEF Seal
  <2>2. h[i].obj # None
    BY <1>1, <2>1 DEF Sound, Holds
  <2>3. heap' = heap /\ cached' = h[i].obj
    BY <1>7 DEF Seal
  <2>4. /\ h'[i].op = h[i].op /\ h'[i].obj = h[i].obj /\ h'[i].blob.contents = heap[h[i].obj]
        /\ h'[i].at = "store" /\ h'[i].ret = h[i].ret /\ h'[i].edit = h[i].edit
    BY <1>1, <1>7 DEF Seal
  <2>5. SoloCarried(i)'
    BY <1>1, <1>2, <1>3, <2>1, <2>2, <2>3, <2>4 DEF SoloCarried
  <2>6. SoloStored'
    BY <1>1, <1>2, <1>3, <2>2, <2>3 DEF SoloStored, SoloCarried
  <2> QED BY <1>3, <2>3, <2>5, <2>6, HeapSame, SoloGo
<1>8. CASE Decrypt(i)
  <2>1. h[i].op \in {"write"} \cup Changes /\ h[i].at = "decrypt"
    BY <1>1, <1>8, AtTells DEF Decrypt
  <2>2. CASE Done(i) /\ UNCHANGED memory
    <3>1. h'[i] = Idle
      BY <1>1, <2>2
    <3> QED BY <1>2, <2>2, <3>1, SoloQuiet
  <2>3. CASE ~(Done(i) /\ UNCHANGED memory)
    <3> DEFINE o == Len(heap) + 1
               c == h[i].blob.contents \cup ({h[i].edit} \ {None})
    <3>1. cached' = o /\ heap' = Append(heap, c)
      BY <1>8, <2>3 DEF Decrypt
    <3>2. /\ h'[i].op = h[i].op /\ h'[i].obj = o /\ h'[i].edit = h[i].edit
          /\ h'[i].at \in {"meta", "read tokens"} /\ (h[i].op = "write" => h'[i].at = "meta")
      <4>1. Go(i, [h[i] EXCEPT !.obj = o, !.blob = NoBlob,
                        !.at = IF h[i].op = "write" THEN "meta" ELSE "read tokens",
                        !.ret = IF h[i].op = "write" THEN "seal" ELSE "idle"])
        BY <1>8, <2>3 DEF Decrypt
      <4> HIDE DEF o
      <4> QED BY <1>1, <4>1
    <3>3. HeapGrows /\ heap'[o] = c
      BY <1>1, <3>1 DEF HeapGrows
    <3>4. Solo \subseteq c
      BY <1>1, <2>1 DEF SoloCarried
    <3>5. h[i].op = "write" => h[i].edit \in c
      <4>1. h[i].op = "write" => h[i].edit \in Edits
        BY <1>1 DEF Sound, Staged
      <4>2. None \notin Edits
        BY DEF Edits, None
      <4> QED BY <4>1, <4>2
    <3> HIDE DEF o, c
    <3>6. SoloCarried(i)'
      BY <1>1, <1>3, <2>1, <3>2, <3>3, <3>4, <3>5 DEF SoloCarried, Changes
    <3>7. SoloStored'
      BY <1>1, <1>2, <1>3, <3>1, <3>3, <3>4 DEF SoloStored
    <3> QED BY <1>3, <3>3, <3>6, <3>7, SoloGo
  <2> QED BY <2>2, <2>3
<1> QED BY <1>4, <1>5, <1>6, <1>7, <1>8

\* A write is confirmed: if nothing overlapped it, no other handler runs.
LEMMA SoloStore ==
  ASSUME Base, Apart, SoloInv, NEW i \in Handlers, Step(i), Store(i)
  PROVE  SoloInv'
<1>1. h[i] \in Handler /\ Sound(h[i], Len(heap)) /\ SoloCarried(i) /\ SoloStored
      /\ h \in [Handlers -> Handler] /\ Len(heap) \in Nat
  BY DEF Base, SoloInv, Stores, MemoryTypes
<1>2. h[i].op = "write" /\ h[i].at = "store"
  BY <1>1, AtTells DEF Store, At
<1>3. /\ vault' = h[i].blob /\ acked' = acked \cup {h[i].edit}
      /\ UNCHANGED <<meta, memory, shared>> /\ h'[i] = Idle
  BY <1>1 DEF Store, Done, Go
<1>4. HeapGrows
  BY <1>3, HeapSame
<1>5. CASE h[i].edit \in shared
  <2>1. Solo' = Solo
    BY <1>3, <1>5 DEF Solo
  <2>2. SoloStored'
    BY <1>1, <1>2, <1>3, <2>1 DEF SoloStored, SoloCarried
  <2> QED BY <1>3, <1>4, <2>1, <2>2, SoloGo
<1>6. CASE h[i].edit \notin shared
  <2>1. Solo' \subseteq Solo \cup {h[i].edit}
    BY <1>3 DEF Solo
  <2>2. meta.protection # "none" /\ cached = h[i].obj /\ h[i].edit \in h[i].blob.contents
        /\ h[i].edit \in heap[h[i].obj] /\ Solo \subseteq h[i].blob.contents
    BY <1>1, <1>2, <1>6 DEF SoloCarried
  <2>3. SoloStored'
    BY <1>1, <1>3, <2>1, <2>2 DEF SoloStored
  <2>4. ASSUME NEW j \in Handlers PROVE SoloCarried(j)'
    <3>1. CASE j = i
      BY <1>3, <3>1, IdleCarries
    <3>2. CASE j # i
      <4>1. h[i].edit # None
        <5>1. h[i].edit \in Edits
          BY <1>1, <1>2 DEF Sound, Staged
        <5> QED BY <5>1 DEF Edits, None
      <4>2. ~Busy(j)
        BY <1>2, <1>6, <3>2, <4>1 DEF Apart, Busy
      <4>3. h[j] = Idle
        BY <4>2 DEF Busy, Base, Sound, Staged
      <4>4. h'[j] = h[j]
        BY <3>2, StepKeeps
      <4> QED BY <4>3, <4>4, IdleCarries
    <3> QED BY <3>1, <3>2
  <2> QED BY <2>3, <2>4 DEF SoloInv
<1> QED BY <1>5, <1>6

\* ... the steps of the changes of keys that write the vault, ...
LEMMA SoloDiskSteps ==
  ASSUME Base, Apart, SoloInv, NEW i \in Handlers, Step(i), Create(i) \/ SetAll(i) \/ Remove(i)
  PROVE  SoloInv'
<1>1. h[i] \in Handler /\ Sound(h[i], Len(heap)) /\ SoloCarried(i) /\ SoloStored
      /\ h \in [Handlers -> Handler] /\ Len(heap) \in Nat
  BY DEF Base, SoloInv, Stores, MemoryTypes
<1>2. UNCHANGED <<memory, shared>> /\ HeapGrows
  BY StepKeeps, HeapSame DEF Create, SetAll, Remove
<1> USE DEF To, Go, At, Handler
<1>3. CASE Create(i)
  <2>1. h[i].op = "ensure" /\ h[i].at = "create"
    BY <1>1, <1>3, AtTells DEF Create
  <2>2. Solo' = Solo /\ Solo = {}
    BY <1>1, <1>2, <1>3, <2>1 DEF Create, Solo, SoloCarried
  <2>3. h'[i].op = "ensure" /\ h'[i].at = "created"
    BY <1>1, <1>3, <2>1 DEF Create
  <2>4. SoloCarried(i)' /\ SoloStored'
    BY <2>2, <2>3 DEF SoloCarried, SoloStored
  <2> QED BY <1>2, <2>2, <2>4, SoloGo
<1>4. CASE SetAll(i)
  <2>1. h[i].op \in Changes /\ h[i].at = "set all"
    BY <1>1, <1>4, AtTells DEF SetAll, Resealing
  <2>2. Solo' = Solo /\ vault' = h[i].blob /\ meta'.protection # "none"
    BY <1>2, <1>4 DEF SetAll, Solo
  <2>3. h'[i].op = h[i].op /\ h'[i].at = "resealed" /\ h'[i].obj = h[i].obj
    BY <1>1, <1>4 DEF SetAll
  <2>4. SoloCarried(i)'
    BY <1>1, <1>2, <2>1, <2>2, <2>3 DEF SoloCarried, Changes
  <2>5. SoloStored'
    BY <1>1, <1>2, <2>1, <2>2 DEF SoloCarried, SoloStored
  <2> QED BY <1>2, <2>2, <2>4, <2>5, SoloGo
<1>5. CASE Remove(i)
  <2>1. h[i].op = "reset"
    BY <1>1, <1>5, AtTells DEF Remove, ResetAts
  <2>2. Solo' = {}
    BY <1>5 DEF Remove, Solo
  <2>3. h'[i].op = h[i].op /\ h'[i].at = "remove session"
    BY <1>1, <1>5 DEF Remove
  <2>4. SoloCarried(i)' /\ SoloStored'
    BY <2>1, <2>2, <2>3 DEF SoloCarried, SoloStored
  <2> QED BY <1>2, <2>2, <2>4, SoloGo
<1> QED BY <1>3, <1>4, <1>5

\* ... and the start of an operation.
LEMMA SoloStart ==
  ASSUME Base, Apart, SoloInv, NEW i \in Handlers, Start(i)
  PROVE  SoloInv'
<1>1. /\ ~Busy(i) /\ \A j \in Handlers \ {i} : h'[j] = h[j]
      /\ h'[i] \in Handler /\ h'[i].op # "none"
  BY StartCounts
<1>2. PICK edit \in Edits \cup {None} : Count(i, h'[i].op, edit) /\ h'[i].edit = edit
  BY StartCounts
<1>3. shared \subseteq shared' /\ UNCHANGED <<meta, vault, acked>>
  BY <1>2 DEF Count, Start
<1>4. Solo' \subseteq Solo
  BY <1>3 DEF Solo
<1>5. ASSUME NEW j \in Handlers \ {i}, h[j].op = "write" PROVE h[j].edit \in shared'
  <2>1. h[j].edit \in Edits
    BY <1>5 DEF Base, Sound, Staged
  <2>2. h[j].edit # None
    BY <2>1 DEF Edits, None
  <2>3. Busy(j)
    BY <1>5 DEF Busy
  <2> QED BY <1>2, <2>2, <2>3 DEF Count
<1>6. h \in [Handlers -> Handler] /\ SoloStored /\ Len(heap) \in Nat /\ heap \in Seq(SUBSET Edits)
      /\ cached \in 0..Len(heap)
  BY DEF Base, SoloInv, Stores, MemoryTypes
<1>7. HeapGrows /\ SoloStored' /\ SoloCarried(i)'
  <2>1. CASE StartWrite(i) /\ cached # None
    <3> DEFINE e == ops + 1
    <3>1. /\ heap' = [heap EXCEPT ![cached] = @ \cup {e}] /\ cached' = cached
          /\ h'[i] = [Idle EXCEPT !.op = "write", !.edit = e, !.obj = cached, !.at = "meta", !.ret = "seal"]
      BY <1>6, <2>1 DEF StartWrite, Edit, Go
    <3> HIDE DEF e
    <3>2. cached \in 1..Len(heap)
      BY <1>6, <2>1 DEF None
    <3>3. HeapGrows /\ heap[cached] \subseteq heap'[cached] /\ e \in heap'[cached]
      BY <1>6, <3>1, <3>2 DEF HeapGrows
    <3>4. h'[i].op = "write" /\ h'[i].edit = e /\ h'[i].obj = cached /\ h'[i].at = "meta"
      BY <3>1 DEF Idle
    <3>5. SoloStored'
      BY <1>3, <1>4, <1>6, <3>1, <3>3 DEF SoloStored
    <3>6. SoloCarried(i)'
      BY <1>4, <1>6, <2>1, <3>3, <3>4 DEF SoloCarried, SoloStored
    <3> QED BY <3>3, <3>5, <3>6
  <2>2. CASE StartWrite(i) /\ cached = None
    <3>1. heap' = heap /\ cached' = cached /\ h'[i].obj = None /\ h'[i].at = "meta"
          /\ h'[i].op = "write" /\ h'[i].ret = "load"
      BY <1>6, <2>2 DEF StartWrite, Go, Idle
    <3>2. SoloStored' /\ SoloCarried(i)'
      BY <1>3, <1>4, <1>6, <3>1 DEF SoloStored, SoloCarried
    <3> QED BY <3>1, <3>2, HeapSame
  <2>3. ASSUME NEW op \in Kinds, NEW at \in Ats, NEW ret \in Rets,
               op # "write", op = "ensure" => at = "is initialized",
               at \notin {"decrypt", "store", "remove tokens", "set all"},
               StartDrop(i, op, at) \/ StartOther(i, op, at, ret)
        PROVE  HeapGrows /\ SoloStored' /\ SoloCarried(i)'
    <3>1. heap' = heap /\ cached' \in {cached, None}
      BY <2>3 DEF StartDrop, StartOther
    <3>2. h'[i].op = op /\ h'[i].at = at /\ h'[i].obj = None
      <4>1. CASE StartDrop(i, op, at)
        <5>1. h'[i] = [Idle EXCEPT !.op = op, !.at = at]
          BY <1>6, <4>1 DEF StartDrop, Go
        <5> QED BY <5>1 DEF Idle
      <4>2. CASE StartOther(i, op, at, ret)
        <5>1. h'[i] = [Idle EXCEPT !.op = op, !.at = at, !.ret = ret]
          BY <1>6, <4>2 DEF StartOther, Go
        <5> QED BY <5>1 DEF Idle
      <4> QED BY <2>3, <4>1, <4>2
    <3>3. SoloStored' /\ SoloCarried(i)'
      BY <1>3, <1>4, <1>6, <2>3, <3>1, <3>2 DEF SoloStored, SoloCarried
    <3> QED BY <3>1, <3>3, HeapSame
  <2>4. CASE \/ StartDrop(i, "lock", "forget key") \/ StartDrop(i, "reset", "remove")
             \/ StartOther(i, "ensure", "is initialized", "idle")
             \/ StartOther(i, "unlock", "unlock meta", "idle")
             \/ StartOther(i, "to pass", "protection", "idle")
             \/ StartOther(i, "to device", "protection", "idle")
             \/ StartOther(i, "connect", "meta", "put tokens")
             \/ StartOther(i, "disconnect", "drop tokens", "idle")
             \/ StartOther(i, "mark", "meta", "read sync")
    <3>1. /\ {"forget key", "remove", "is initialized", "unlock meta", "protection", "meta", "drop tokens"}
               \subseteq Ats
          /\ {"idle", "put tokens", "read sync"} \subseteq Rets
          /\ {"lock", "reset", "ensure", "unlock", "to pass", "to device", "connect", "mark", "disconnect"}
               \subseteq Kinds
      BY DEF Ats, ResetAts, EnsureAts, Unlocking, ChangeAts, SyncAts, KeyAts, Rets, Kinds
    <3> QED BY <2>3, <2>4, <3>1
  <2> QED BY <2>1, <2>2, <2>4 DEF Start
<1>8. ASSUME NEW j \in Handlers \ {i} PROVE SoloCarried(j)'
  BY <1>1, <1>4, <1>5, <1>7, SoloOthers
<1> QED BY <1>7, <1>8 DEF SoloInv

\* Every step keeps the confirmed edits.
LEMMA SoloStep ==
  ASSUME Base, Apart, SoloInv, [Next]_vars
  PROVE  SoloInv'
<1>1. ASSUME NEW i \in Handlers, Step(i) PROVE SoloInv'
  BY <1>1, SoloRequireKey, SoloQuietSteps, SoloMemorySteps, SoloStore, SoloDiskSteps DEF Step
<1>2. CASE WorkerDies
  <2>1. /\ \A i \in Handlers : h'[i] = Idle
        /\ cached' = None /\ UNCHANGED <<meta, vault, acked, shared>>
    BY <1>2 DEF WorkerDies
  <2>2. SoloStored'
    BY <2>1 DEF SoloInv, SoloStored, Solo
  <2> QED BY <2>1, <2>2, IdleCarries DEF SoloInv
<1>3. CASE UNCHANGED vars
  <2>1. UNCHANGED <<meta, vault, memory, acked, shared, h>>
    BY <1>3 DEF vars
  <2> QED BY <2>1 DEF SoloInv, SoloStored, SoloCarried, Solo
<1> QED BY <1>1, <1>2, <1>3, SoloStart DEF Next

\* The confirmed edits are on disk, in the cache and in the handlers' hands in every state.
LEMMA SoloInvariance == Spec => []SoloInv
<1>1. Init => SoloInv
  BY DEF Init, SoloInv, SoloStored, SoloCarried, Solo, Idle
<1> QED BY <1>1, SoloStep, BaseInvariance, ApartInvariance, PTL DEF Spec

\* A confirmed edit whose write overlapped no other operation is on disk, whatever
\* overlaps, locks, changes of protection and deaths come after it (store.ts:136-150).
THEOREM SoloSurvives == Spec => []SoloEditsSurvive
<1>1. SoloInv => SoloEditsSurvive
  BY DEF SoloInv, SoloStored, Solo, SoloEditsSurvive
<1> QED BY <1>1, SoloInvariance, PTL
-----------------------------------------------------------------------------
(***************************************************************************)
(* The keys.  As long as one handler runs at a time, or no change of keys  *)
(* overlapped another operation or was cut short, what is on disk opens.   *)
(***************************************************************************)

Steady == Alone \/ ~rekeyed

SessionFits == meta.protection = "pass" => session \in {None, meta.key}

\* The changes of protection whose session is ahead of the disk.
Deriving(i) == h[i].op = "to pass" /\ h[i].at \in Resealing

KeysStored(derives, forgets) ==
  /\ Opens
  /\ meta.protection # "none" => KeyOnDisk # None
  /\ ~rekeyed => TokensOpen /\ (meta.protection = "none" => tokens = None)
  /\ ~rekeyed \/ cached # None => SessionFits \/ derives
  /\ Alone /\ meta.protection = "pass" /\ cached # None => session # None \/ forgets

\* Who wants the device key whatever the protection.
AnyDevice(i) == h[i].ret \in {"create", "forget session"}

Asking(i) ==
  /\ h[i].at = "session key" => meta.protection = "pass"
  /\ h[i].at \in {"meta", "session key"} => ~AnyDevice(i)
  /\ h[i].at = "device key" /\ ~AnyDevice(i) => meta.protection = "device"
  /\ h[i].at \in {"mint", "confirm"} => AnyDevice(i)
  /\ h[i].at = "mint" => meta.protection # "device"

\* The keys and blobs in hand are those of the disk; with a session left behind by
\* a death, at least what was decrypted or read back is.
InHand(i) ==
  /\ h[i].at \in {"seal", "put sync", "read tokens", "derive"} =>
       meta.protection # "none" /\ h[i].key = KeyOnDisk
  /\ h[i].at \in {"load", "decrypt", "put tokens", "read sync"} =>
       /\ meta.protection # "none"
       /\ ~rekeyed => h[i].key = KeyOnDisk
       /\ Alone /\ meta.protection = "pass" => session = h[i].key /\ session # None
  /\ h[i].at \in {"seal", "put sync", "read tokens", "derive"} /\ Alone /\ meta.protection = "pass" => session # None
  /\ h[i].at \in {"decrypt", "store"} => meta.protection # "none" /\ h[i].blob.key = KeyOnDisk
  /\ h[i].at \in {"verify", "remember"} => meta.protection = "pass" /\ h[i].key = meta.key

\* A change of keys holds the key that it writes with.
Rekeying(i) ==
  /\ h[i].op = "ensure" /\ h[i].at \notin {"is initialized", "created"} => meta.protection = "none"
  /\ h[i].at = "created" => meta.protection = "device"
  /\ h[i].at = "create" \/ h[i].at = "forget session" \/ ToDevice(i) =>
       h[i].key = deviceKey /\ h[i].key # None
  /\ h[i].op \in Changes /\ (h[i].ret = "forget session" \/ h[i].at \in {"forget session"} \cup Resealing) =>
       meta.protection # "none"
  /\ Deriving(i) => h[i].key = session /\ session # None
  /\ h[i].at \in {"remove tokens", "set all"} => h[i].blob.key = h[i].key
  /\ h[i].at = "set all" /\ h[i].had = None /\ ~rekeyed => tokens = None
  /\ h[i].at = "resealed" /\ meta.protection = "pass" => session # None
  /\ h[i].at \in {"remove session", "clear device key"} => meta.protection = "none"
  /\ h[i].op \in {"lock", "reset"} /\ Alone => cached = None

\* Whoever got past a check of the key relies on the session.
Relying(i) ==
  \/ h[i].at = "unlocked"
  \/ h[i].op \in Changes /\ h[i].at \notin {"protection", "unlock meta", "verify", "remember"}
  \/ h[i].op \in {"write", "connect", "mark"} /\ (h[i].at = "seal" \/ h[i].ret \in {"seal", "put sync"})

KeysHeld(i) ==
  Asking(i) /\ InHand(i) /\ Rekeying(i) /\ (Relying(i) /\ ~Deriving(i) => SessionFits)

Keys ==
  /\ KeysStored(\E i \in Handlers : Deriving(i), \E i \in Handlers : ToDevice(i))
  /\ \A i \in Handlers : KeysHeld(i)

KeysInv == Steady => Keys

\* An idle handler holds no key.
LEMMA KeysIdle ==
  ASSUME NEW j, h'[j] = Idle
  PROVE  KeysHeld(j)' /\ ~Deriving(j)' /\ ~ToDevice(j)'
<1>1. h'[j].op = "none" /\ h'[j].at = "idle" /\ h'[j].ret = "idle"
  BY DEF Idle
<1> QED
  BY <1>1 DEF KeysHeld, Asking, AnyDevice, InHand, Rekeying, Relying, Deriving, ToDevice, Changes, Resealing

\* While a change of keys runs, nothing else does.
LEMMA RekeysAlone ==
  ASSUME Apart, Steady, NEW i \in Handlers, NEW j \in Handlers, i # j, Busy(i), Busy(j)
  PROVE  ~Alone /\ ~rekeyed /\ ~Rekeys(h[i].op) /\ ~Rekeys(h[j].op)
<1>1. ~Alone /\ (rekeyed \/ ~Rekeys(h[i].op)) /\ (rekeyed \/ ~Rekeys(h[j].op))
  BY Zenon DEF Apart
<1> QED BY <1>1, Zenon DEF Steady

\* A change of protection whose session is ahead is a change of keys.
LEMMA ChangesRekey ==
  \A j : Deriving(j) \/ ToDevice(j) => Busy(j) /\ Rekeys(h[j].op)
BY DEF Deriving, ToDevice, Busy, Rekeys

\* What the handler that steps knows.
LEMMA KeysKnown ==
  ASSUME Base, Apart, Keys, Steady, NEW i \in Handlers, Step(i)
  PROVE  KeysStored(Deriving(i), ToDevice(i)) /\ KeysHeld(i)
<1>1. Busy(i)
  BY StepKeeps
<1>2. ASSUME NEW j \in Handlers, Deriving(j) \/ ToDevice(j) PROVE j = i
  BY <1>1, <1>2, RekeysAlone, ChangesRekey
<1>3. /\ (\E j \in Handlers : Deriving(j)) => Deriving(i)
      /\ (\E j \in Handlers : ToDevice(j)) => ToDevice(i)
  BY <1>2, Zenon
<1> QED BY <1>3, Zenon DEF Keys, KeysStored

\* The handlers that do not step hold on to their keys.
LEMMA KeysOthers ==
  ASSUME Base, Keys, ~rekeyed, NEW j \in Handlers, h'[j] = h[j], ~Rekeys(h[j].op),
         ~Alone', UNCHANGED <<meta, deviceKey, rekeyed>>, SessionFits'
  PROVE  KeysHeld(j)'
<1>1. KeysHeld(j) /\ h[j] \in Handler /\ Sound(h[j], Len(heap)) /\ Len(heap) \in Nat
  BY DEF Keys, Base, Stores, MemoryTypes
<1>2. ~rekeyed' /\ KeyOnDisk' = KeyOnDisk
  BY Zenon DEF KeyOnDisk
<1>3. Asking(j)'
  BY <1>1 DEF KeysHeld, Asking, AnyDevice
<1>4. InHand(j)'
  BY <1>1, <1>2 DEF KeysHeld, InHand
<1>5. h[j].op \notin {"ensure", "to pass", "to device", "reset"}
  BY DEF Rekeys
<1>6. h[j].at \notin {"created", "create", "forget session", "remove tokens", "set all", "resealed",
                      "remove session", "clear device key"}
  BY <1>1, <1>5, AtTells DEF Changes, Resealing, ResetAts
<1>7. Rekeying(j)'
  BY <1>5, <1>6 DEF Rekeying, ToDevice, Deriving, Changes
<1> QED BY <1>3, <1>4, <1>7 DEF KeysHeld

\* A step of handler i: what is left to show is the stores and the handler itself.
LEMMA KeysGo ==
  ASSUME Base, Apart, Keys, Steady, NEW i \in Handlers, Step(i),
         KeysStored(Deriving(i), ToDevice(i))',
         h'[i] = Idle \/ KeysHeld(i)',
         Rekeys(h[i].op) \/ (UNCHANGED <<meta, deviceKey>> /\ (SessionFits => SessionFits'))
  PROVE  Keys'
<1>1. Busy(i) /\ UNCHANGED <<rekeyed, overlaps>> /\ \A j \in Handlers \ {i} : h'[j] = h[j]
  BY StepKeeps
<1>2. ASSUME NEW j \in Handlers \ {i} PROVE KeysHeld(j)'
  <2>1. CASE ~Busy(j)
    <3>1. h'[j] = Idle
      BY <1>1, <2>1 DEF Base, Sound, Staged, Busy
    <3> QED BY <3>1, KeysIdle
  <2>2. CASE Busy(j)
    <3>1. ~Alone /\ ~rekeyed /\ ~Rekeys(h[i].op) /\ ~Rekeys(h[j].op)
      BY <1>1, <2>2, RekeysAlone
    <3>2. ~Deriving(i)
      BY <3>1, ChangesRekey
    <3>3. SessionFits
      BY <3>1, <3>2, KeysKnown, Zenon DEF KeysStored
    <3>4. ~Alone'
      BY <1>1, <3>1 DEF Alone
    <3>5. UNCHANGED <<meta, deviceKey, rekeyed>> /\ SessionFits' /\ h'[j] = h[j]
      BY <1>1, <3>1, <3>3, Zenon
    <3> QED BY <3>1, <3>4, <3>5, KeysOthers
  <2> QED BY <2>1, <2>2
<1>3. KeysHeld(i)'
  BY KeysIdle
<1>4. \A j \in Handlers : KeysHeld(j)'
  BY <1>2, <1>3
<1>5. KeysStored(\E j \in Handlers : Deriving(j), \E j \in Handlers : ToDevice(j))'
  BY Zenon DEF KeysStored
<1> QED BY <1>4, <1>5, Zenon DEF Keys

\* The stores after a step that leaves them alone.
LEMMA KeysKept ==
  ASSUME Base, Apart, Keys, Steady, NEW i \in Handlers, Step(i),
         UNCHANGED <<disk, session, cached>>,
         Deriving(i) => Deriving(i)', ToDevice(i) => ToDevice(i)'
  PROVE  /\ KeysStored(Deriving(i), ToDevice(i))'
         /\ KeyOnDisk' = KeyOnDisk /\ SessionFits' = SessionFits /\ (Alone' <=> Alone)
<1>1. UNCHANGED <<rekeyed, overlaps>>
  BY StepKeeps
<1>2. KeyOnDisk' = KeyOnDisk /\ SessionFits' = SessionFits /\ (Alone' <=> Alone)
  BY <1>1, Zenon DEF KeyOnDisk, SessionFits, Alone
<1>3. KeysStored(Deriving(i), ToDevice(i))
  BY KeysKnown
<1>4. (Opens' <=> Opens) /\ (TokensOpen' <=> TokensOpen)
  BY <1>2 DEF Opens, TokensOpen
<1> QED BY <1>1, <1>2, <1>3, <1>4, Zenon DEF KeysStored

\* requireKey hands out the key that is on disk.
LEMMA KeysRequireKey ==
  ASSUME Base, Apart, Keys, Steady, NEW i \in Handlers, Step(i),
         RequireMeta(i) \/ SessionKey(i) \/ DeviceKey(i) \/ ConfirmDeviceKey(i)
  PROVE  Keys'
<1>1. h \in [Handlers -> Handler] /\ h[i] \in Handler /\ Sound(h[i], Len(heap)) /\ Len(heap) \in Nat
  BY DEF Base, Stores, MemoryTypes
<1>2. h[i].at \in KeyAts /\ UNCHANGED <<disk, session, memory, ghosts>>
  BY DEF RequireMeta, SessionKey, DeviceKey, ConfirmDeviceKey, At, KeyAts
<1>3. KeysStored(Deriving(i), ToDevice(i)) /\ KeysHeld(i)
  BY KeysKnown
<1>4. ~Deriving(i) /\ ~ToDevice(i)
  BY <1>2 DEF Deriving, ToDevice, KeyAts, Resealing
<1>5. /\ KeysStored(Deriving(i), ToDevice(i))'
      /\ KeyOnDisk' = KeyOnDisk /\ SessionFits' = SessionFits /\ (Alone' <=> Alone)
  BY <1>2, <1>4, KeysKept
<1>6. (h'[i] = Idle \/ KeysHeld(i)') => Keys'
  BY <1>2, <1>5, KeysGo
<1>7. CASE Done(i)
  BY <1>1, <1>6, <1>7 DEF Done, Go
<1>8. meta.protection \in {"none", "device", "pass"}
  BY DEF Base, Stores, DiskTypes
<1>9. ASSUME NEW at \in {"device key", "session key", "mint"}, To(i, at),
             at = "session key" => meta.protection = "pass" /\ ~AnyDevice(i) /\ h[i].op # "ensure",
             at = "device key" => meta.protection = "device" \/ AnyDevice(i),
             at = "mint" => AnyDevice(i) /\ meta.protection # "device"
      PROVE Keys'
  <2>1. /\ h'[i].at = at /\ h'[i].op = h[i].op /\ h'[i].ret = h[i].ret /\ h'[i].key = h[i].key
    BY <1>1, <1>9 DEF To, Go, Handler
  <2>2. Asking(i)'
    BY <1>2, <1>3, <1>9, <2>1 DEF KeysHeld, Asking, AnyDevice
  <2>3. InHand(i)'
    BY <2>1 DEF InHand
  <2>4. Rekeying(i)'
    BY <1>1, <1>2, <1>3, <2>1 DEF KeysHeld, Rekeying, ToDevice, Deriving, Resealing, KeyAts, Sound, Staged, Changes, ResetAts
  <2>5. Relying(i)' => SessionFits'
    BY <1>2, <1>3, <1>4, <1>5, <2>1 DEF KeysHeld, Relying, KeyAts
  <2> QED BY <1>6, <2>2, <2>3, <2>4, <2>5 DEF KeysHeld
<1>10. ASSUME NEW k \in Nat, Go(i, [h[i] EXCEPT !.key = k, !.at = h[i].ret]), k # None,
              \/ k = deviceKey /\ (AnyDevice(i) \/ meta.protection = "device")
              \/ k = session /\ ~AnyDevice(i) /\ meta.protection = "pass"
       PROVE Keys'
  <2>1. /\ h'[i].at = h[i].ret /\ h'[i].op = h[i].op /\ h'[i].ret = h[i].ret /\ h'[i].key = k
    BY <1>1, <1>10 DEF Go, Handler
  <2>2. h[i].ret \in Rets /\ h[i].op # "none"
    BY <1>1, <1>2, AtTells DEF Handler, KeyAts
  <2>3. /\ h[i].ret = "seal" => h[i].op = "write"
        /\ h[i].ret = "create" => h[i].op = "ensure"
        /\ h[i].ret = "forget session" => h[i].op = "to device"
        /\ h[i].ret = "read tokens" => h[i].op \in Changes
        /\ h[i].ret \in {"put tokens", "read sync", "put sync"} => h[i].op \in {"connect", "mark"}
        /\ h[i].op = "ensure" => h[i].ret = "create"
    BY <1>1, <1>2, <2>2 DEF Sound, Staged, KeyAts, Handler, Kinds, Changes, Unlocking, ResetAts
  <2>4. meta.protection # "none" \/ AnyDevice(i)
    BY <1>10
  <2>5. ~AnyDevice(i) /\ SessionFits => k = KeyOnDisk
    BY <1>10 DEF SessionFits, KeyOnDisk
  <2>6. Relying(i) => SessionFits
    BY <1>3, <1>4 DEF KeysHeld
  <2>7. h[i].ret \in {"seal", "put sync", "read tokens"} => Relying(i)
    BY <1>2, <2>3 DEF Relying, KeyAts
  <2>8. ~rekeyed => SessionFits
    BY <1>3, <1>4, Zenon DEF KeysStored
  <2>9. Asking(i)'
    BY <2>1, <2>2 DEF Asking, Rets
  <2>10. InHand(i)'
    <3>1. h'[i].at \in {"seal", "put sync", "read tokens"} =>
            meta.protection # "none" /\ h'[i].key = KeyOnDisk
      BY <1>10, <2>1, <2>4, <2>5, <2>6, <2>7 DEF AnyDevice
    <3>2. h'[i].at \in {"load", "decrypt", "put tokens", "read sync"} =>
            /\ meta.protection # "none"
            /\ ~rekeyed => h'[i].key = KeyOnDisk
            /\ Alone /\ meta.protection = "pass" => session = h'[i].key /\ session # None
      BY <1>10, <2>1, <2>4, <2>5, <2>8 DEF AnyDevice
    <3>3. h'[i].at \in {"seal", "put sync", "read tokens"} /\ Alone /\ meta.protection = "pass" => session # None
      BY <1>10, <2>1 DEF AnyDevice
    <3> QED BY <1>2, <1>5, <2>1, <2>2, <3>1, <3>2, <3>3 DEF InHand, Rets
  <2>11. Rekeying(i)'
    BY <1>1, <1>2, <1>3, <1>10, <2>1, <2>2, <2>3
      DEF KeysHeld, Rekeying, ToDevice, Deriving, Resealing, KeyAts, Rets, Changes, AnyDevice, Sound, Staged, ResetAts
  <2>12. Relying(i)' => SessionFits'
    BY <1>2, <1>5, <2>1, <2>2, <2>3, <2>6 DEF Relying, KeyAts, Rets, Changes
  <2> QED BY <1>6, <2>9, <2>10, <2>11, <2>12 DEF KeysHeld
<1>11. CASE RequireMeta(i)
  <2>1. h[i].at = "meta" /\ ~AnyDevice(i)
    BY <1>3, <1>11 DEF RequireMeta, At, KeysHeld, Asking
  <2>2. h[i].op # "ensure"
    BY <1>1, <2>1 DEF Sound, Staged, EnsureAts
  <2> QED BY <1>7, <1>8, <1>9, <1>11, <2>1, <2>2 DEF RequireMeta
<1>12. CASE SessionKey(i)
  <2>1. meta.protection = "pass" /\ ~AnyDevice(i) /\ session \in Nat
    BY <1>3, <1>12 DEF SessionKey, At, KeysHeld, Asking, Base, Stores, DiskTypes
  <2> QED BY <1>7, <1>10, <1>12, <2>1 DEF SessionKey
<1>13. CASE DeviceKey(i)
  <2>1. ~AnyDevice(i) => meta.protection = "device"
    BY <1>3, <1>13 DEF DeviceKey, At, KeysHeld, Asking
  <2>2. meta.protection = "device" => deviceKey # None
    BY <1>3 DEF KeysStored, KeyOnDisk
  <2>3. deviceKey \in Nat
    BY DEF Base, Stores, DiskTypes
  <2>4. CASE deviceKey = None
    BY <1>9, <1>13, <2>1, <2>2, <2>4 DEF DeviceKey
  <2>5. CASE deviceKey # None
    <3>1. Go(i, [h[i] EXCEPT !.key = deviceKey, !.at = h[i].ret])
      BY <1>13, <2>5 DEF DeviceKey
    <3>2. AnyDevice(i) \/ meta.protection = "device"
      BY <2>1
    <3> QED BY <1>10, <2>3, <2>5, <3>1, <3>2
  <2> QED BY <2>4, <2>5
<1>14. CASE ConfirmDeviceKey(i)
  <2>1. AnyDevice(i) /\ deviceKey \in Nat
    BY <1>3, <1>14 DEF ConfirmDeviceKey, At, KeysHeld, Asking, Base, Stores, DiskTypes
  <2> QED BY <1>7, <1>10, <1>14, <2>1 DEF ConfirmDeviceKey
<1> QED BY <1>11, <1>12, <1>13, <1>14

\* Steps that read, and change nothing but what the handler holds.
LEMMA KeysReads ==
  ASSUME Base, Apart, Keys, Steady, NEW i \in Handlers, Step(i),
         LoadBlob(i) \/ ReadSync(i) \/ IsInitialized(i) \/ UnlockMeta(i) \/ Verify(i)
           \/ Protection(i) \/ ReadAll(i) \/ ReadTokens(i) \/ Reseal(i)
  PROVE  Keys'
<1>1. h \in [Handlers -> Handler] /\ h[i] \in Handler /\ Sound(h[i], Len(heap)) /\ Len(heap) \in Nat
  BY DEF Base, Stores, MemoryTypes
<1>2. UNCHANGED <<disk, session, memory, ghosts>>
  BY DEF LoadBlob, ReadSync, IsInitialized, UnlockMeta, Verify, Protection, ReadAll, ReadTokens, Reseal
<1>3. KeysStored(Deriving(i), ToDevice(i)) /\ KeysHeld(i)
  BY KeysKnown
<1>4. (Deriving(i) => Deriving(i)') /\ (ToDevice(i) => ToDevice(i)')
        /\ (h'[i] = Idle \/ KeysHeld(i)') => Keys'
  BY <1>2, KeysKept, KeysGo
<1>5. /\ Deriving(i) => Deriving(i)'
      /\ ToDevice(i) => ToDevice(i)'
  <2>1. CASE h[i].at \notin Resealing
    BY <2>1 DEF Deriving, ToDevice
  <2>2. CASE h[i].at \in Resealing
    <3>1. Reseal(i)
      BY <2>2 DEF Resealing, LoadBlob, ReadSync, IsInitialized, UnlockMeta, Verify, Protection,
                  ReadAll, ReadTokens, At
    <3>2. h'[i].op = h[i].op /\ h'[i].at \in Resealing
      BY <1>1, <3>1 DEF Reseal, Go, Handler, Resealing
    <3> QED BY <3>2 DEF Deriving, ToDevice
  <2> QED BY <2>1, <2>2
<1>6. /\ KeyOnDisk' = KeyOnDisk /\ SessionFits' = SessionFits /\ (Alone' <=> Alone)
  BY <1>2, <1>5, KeysKept
<1>7. KeysHeld(i)' => Keys'
  BY <1>4, <1>5
<1>8. CASE Done(i)
  BY <1>1, <1>4, <1>5, <1>8 DEF Done, Go
<1>9. meta.protection \in {"none", "device", "pass"}
  BY DEF Base, Stores, DiskTypes
<1>10. meta.protection # "none" => KeyOnDisk # None /\ vault.key = KeyOnDisk /\ sync = KeyOnDisk
  BY <1>3 DEF KeysStored, Opens
<1>11. CASE LoadBlob(i)
  <2>1. h[i].at = "load" /\ h[i].op \in {"write"} \cup Changes
    BY <1>1, <1>11, AtTells DEF LoadBlob, At
  <2>2. /\ h'[i].at = "decrypt" /\ h'[i].op = h[i].op /\ h'[i].ret = h[i].ret /\ h'[i].key = h[i].key
        /\ h'[i].blob = vault
    BY <1>1, <1>11 DEF LoadBlob, Go, Handler
  <2>3. Asking(i)'
    BY <2>2 DEF Asking
  <2>4. InHand(i)'
    BY <1>2, <1>3, <1>6, <1>10, <2>1, <2>2 DEF KeysHeld, InHand
  <2>5. Rekeying(i)'
    BY <1>2, <1>3, <2>1, <2>2 DEF KeysHeld, Rekeying, ToDevice, Deriving, Resealing, Changes
  <2>6. Relying(i)' /\ ~Deriving(i)' => SessionFits'
    BY <1>3, <1>6, <2>1, <2>2 DEF KeysHeld, Relying, Deriving, Resealing
  <2> QED BY <1>7, <2>3, <2>4, <2>5, <2>6 DEF KeysHeld
<1>12. CASE ReadSync(i) /\ ~Done(i)
  <2>1. h[i].at = "read sync" /\ h[i].op \in {"connect", "mark"}
    BY <1>1, <1>12, AtTells DEF ReadSync, At
  <2>2. /\ h'[i].at = "meta" /\ h'[i].op = h[i].op /\ h'[i].ret = "put sync"
        /\ sync \in {None, h[i].key}
    BY <1>1, <1>12 DEF ReadSync, Go, Handler
  <2>3. SessionFits
    <3>1. meta.protection # "none" /\ h[i].key = KeyOnDisk
      BY <1>3, <1>10, <2>1, <2>2 DEF KeysHeld, InHand
    <3>2. CASE Alone
      BY <1>3, <2>1, <3>1, <3>2 DEF KeysHeld, InHand, KeyOnDisk, SessionFits
    <3>3. CASE ~Alone
      BY <1>3, <2>1, <3>3, Zenon DEF Steady, KeysStored, Deriving, Resealing
    <3> QED BY <3>2, <3>3
  <2>4. Asking(i)'
    BY <2>2 DEF Asking, AnyDevice
  <2>5. InHand(i)'
    BY <2>2 DEF InHand
  <2>6. Rekeying(i)'
    BY <2>1, <2>2 DEF Rekeying, ToDevice, Deriving, Resealing, Changes
  <2> QED BY <1>6, <1>7, <2>3, <2>4, <2>5, <2>6 DEF KeysHeld
<1>13. CASE IsInitialized(i) /\ ~Done(i)
  <2>1. h[i].at = "is initialized" /\ h[i].op = "ensure" /\ meta.protection = "none"
    BY <1>1, <1>13, AtTells DEF IsInitialized, At
  <2>2. h'[i].at = "device key" /\ h'[i].op = "ensure" /\ h'[i].ret = "create"
    BY <1>1, <1>13, <2>1 DEF IsInitialized, Go, Handler
  <2>3. Asking(i)' /\ InHand(i)' /\ ~Relying(i)'
    BY <2>2 DEF Asking, AnyDevice, InHand, Relying, Changes
  <2>4. Rekeying(i)'
    BY <1>2, <2>1, <2>2 DEF Rekeying, ToDevice, Deriving, Resealing, Changes
  <2> QED BY <1>7, <2>3, <2>4 DEF KeysHeld
<1>14. CASE UnlockMeta(i) /\ ~Done(i)
  <2>1. h[i].at = "unlock meta" /\ h[i].op \in {"unlock"} \cup Changes /\ meta.protection = "pass"
    BY <1>1, <1>14, AtTells DEF UnlockMeta, At, Unlocking
  <2>2. h'[i].at = "verify" /\ h'[i].op = h[i].op /\ h'[i].ret = h[i].ret /\ h'[i].key = meta.key
    BY <1>1, <1>14 DEF UnlockMeta, Go, Handler
  <2>3. Asking(i)' /\ InHand(i)' /\ ~Relying(i)'
    BY <1>2, <2>1, <2>2 DEF Asking, InHand, Relying, Changes
  <2>4. Rekeying(i)'
    BY <1>2, <2>1, <2>2 DEF Rekeying, ToDevice, Deriving, Resealing, Changes
  <2> QED BY <1>7, <2>3, <2>4 DEF KeysHeld
<1>15. CASE Verify(i) /\ ~Done(i)
  <2>1. /\ h[i].at = "verify" /\ h[i].op \in {"unlock"} \cup Changes
        /\ meta.protection = "pass" /\ h[i].key = meta.key
    BY <1>1, <1>3, <1>15, AtTells DEF Verify, At, Unlocking, KeysHeld, InHand
  <2>2. h'[i].at = "remember" /\ h'[i].op = h[i].op /\ h'[i].ret = h[i].ret /\ h'[i].key = h[i].key
    BY <1>1, <1>15 DEF Verify, To, Go, Handler
  <2>3. Asking(i)' /\ InHand(i)' /\ ~Relying(i)'
    BY <1>2, <2>1, <2>2 DEF Asking, InHand, Relying, Changes
  <2>4. Rekeying(i)'
    BY <1>2, <2>1, <2>2 DEF Rekeying, ToDevice, Deriving, Resealing, Changes
  <2> QED BY <1>7, <2>3, <2>4 DEF KeysHeld
<1>16. CASE Protection(i) /\ ~Done(i)
  <2>1. h[i].at = "protection" /\ h[i].op \in Changes
    BY <1>1, <1>16, AtTells DEF Protection, At
  <2>2. /\ h'[i].op = h[i].op /\ h'[i].ret = h[i].ret
        /\ \/ h'[i].at = "read" /\ meta.protection = "device"
           \/ h'[i].at = "unlock meta" /\ meta.protection = "pass"
    <3>1. \/ meta.protection = "device" /\ To(i, "read")
          \/ meta.protection = "pass" /\ To(i, "unlock meta")
      BY <1>9, <1>16 DEF Protection
    <3> QED BY <1>1, <3>1 DEF To, Go, Handler
  <2>3. Asking(i)' /\ InHand(i)' /\ (Relying(i)' => SessionFits')
    BY <1>2, <2>1, <2>2 DEF Asking, InHand, Relying, SessionFits, Changes
  <2>4. Rekeying(i)'
    BY <1>2, <2>1, <2>2 DEF Rekeying, ToDevice, Deriving, Resealing, Changes
  <2> QED BY <1>7, <2>3, <2>4 DEF KeysHeld
<1>17. CASE ReadAll(i)
  <2>1. h[i].at = "read" /\ h[i].op \in Changes
    BY <1>1, <1>17, AtTells DEF ReadAll, At
  <2>2. h'[i].op = h[i].op /\ h'[i].ret \in {"read tokens", "load"} /\ h'[i].at = "meta"
    BY <1>1, <1>17 DEF ReadAll, Go, Handler
  <2>3. Asking(i)' /\ InHand(i)'
    BY <2>2 DEF Asking, AnyDevice, InHand
  <2>4. Rekeying(i)'
    BY <2>1, <2>2 DEF Rekeying, ToDevice, Deriving, Resealing, Changes
  <2>5. SessionFits
    BY <1>3, <2>1 DEF KeysHeld, Relying, Deriving, Resealing
  <2> QED BY <1>6, <1>7, <2>3, <2>4, <2>5 DEF KeysHeld
<1>18. CASE ReadTokens(i) /\ ~Done(i)
  <2>1. /\ h[i].at = "read tokens" /\ h[i].op \in Changes
        /\ meta.protection # "none" /\ h[i].key = KeyOnDisk
        /\ Alone /\ meta.protection = "pass" => session # None
    BY <1>1, <1>3, <1>18, AtTells DEF ReadTokens, At, KeysHeld, InHand
  <2>2. /\ h'[i].op = h[i].op /\ h'[i].ret = "forget session" /\ h'[i].key = h[i].key
        /\ h'[i].at \in {"derive", "device key"}
    <3> DEFINE at == IF h[i].op = "to pass" THEN "derive" ELSE "device key"
    <3>1. Go(i, [h[i] EXCEPT !.had = tokens, !.ret = "forget session", !.at = at])
      BY <1>18 DEF ReadTokens
    <3>2. at \in {"derive", "device key"}
      OBVIOUS
    <3> HIDE DEF at
    <3> QED BY <1>1, <3>1, <3>2 DEF Go, Handler
  <2>3. Asking(i)' /\ InHand(i)'
    BY <1>2, <1>6, <2>1, <2>2 DEF Asking, AnyDevice, InHand
  <2>4. Rekeying(i)'
    BY <1>2, <2>1, <2>2 DEF Rekeying, ToDevice, Deriving, Resealing, Changes
  <2>5. SessionFits
    BY <1>3, <2>1 DEF KeysHeld, Relying, Deriving, Resealing
  <2> QED BY <1>6, <1>7, <2>3, <2>4, <2>5 DEF KeysHeld
<1>19. CASE Reseal(i)
  <2>1. h[i].at = "reseal" /\ h[i].op \in Changes
    BY <1>1, <1>19, AtTells DEF Reseal, At, Resealing
  <2>2. /\ h'[i].op = h[i].op /\ h'[i].ret = h[i].ret /\ h'[i].key = h[i].key /\ h'[i].had = h[i].had
        /\ h'[i].blob.key = h[i].key
        /\ h'[i].at = "remove tokens" \/ (h'[i].at = "set all" /\ h[i].had # None)
    <3> DEFINE at == IF h[i].had = None THEN "remove tokens" ELSE "set all"
               blob == [key |-> h[i].key, contents |-> heap[h[i].obj]]
    <3>1. Go(i, [h[i] EXCEPT !.blob = blob, !.at = at])
      BY <1>19 DEF Reseal
    <3>2. blob.key = h[i].key /\ (at = "remove tokens" \/ (at = "set all" /\ h[i].had # None))
      OBVIOUS
    <3> HIDE DEF at, blob
    <3> QED BY <1>1, <3>1, <3>2 DEF Go, Handler
  <2>3. Asking(i)' /\ InHand(i)'
    BY <2>2 DEF Asking, InHand
  <2>4. Rekeying(i)'
    BY <1>2, <1>3, <2>1, <2>2 DEF KeysHeld, Rekeying, ToDevice, Deriving, Resealing, Changes
  <2>5. Relying(i) /\ (Deriving(i)' <=> Deriving(i))
    BY <2>1, <2>2 DEF Relying, Deriving, Resealing, Changes
  <2> QED BY <1>3, <1>6, <1>7, <2>3, <2>4, <2>5 DEF KeysHeld
<1> QED
  BY <1>8, <1>11, <1>12, <1>13, <1>14, <1>15, <1>16, <1>17, <1>18, <1>19
    DEF ReadSync, IsInitialized, UnlockMeta, Verify, Protection, ReadTokens

\* A device key is minted only where the protection is not the device's.
LEMMA KeysMint ==
  ASSUME Base, Apart, Keys, Steady, NEW i \in Handlers, Step(i), MintDeviceKey(i)
  PROVE  Keys'
<1>1. h \in [Handlers -> Handler] /\ h[i] \in Handler /\ Sound(h[i], Len(heap)) /\ Len(heap) \in Nat
  BY DEF Base, Stores, MemoryTypes
<1>2. KeysStored(Deriving(i), ToDevice(i)) /\ KeysHeld(i)
  BY KeysKnown
<1>3. UNCHANGED <<rekeyed, overlaps>> /\ (Alone' <=> Alone)
  <2>1. UNCHANGED <<rekeyed, overlaps>>
    BY StepKeeps
  <2> QED BY <2>1, Zenon DEF Alone
<1>4. meta.protection # "none" =>
        KeyOnDisk # None /\ verifier = KeyOnDisk /\ vault.key = KeyOnDisk /\ sync = KeyOnDisk
  BY <1>2 DEF KeysStored, Opens
<1>5. h[i].at = "mint" /\ AnyDevice(i) /\ meta.protection # "device"
  BY <1>2 DEF MintDeviceKey, At, KeysHeld, Asking
<1>6. h[i].op # "none"
  BY <1>1, <1>5, AtTells
<1>7. Rekeys(h[i].op)
  BY <1>1, <1>5, <1>6 DEF Sound, Staged, AnyDevice, Rekeys, Handler, Kinds, Changes, Unlocking, ResetAts
<1>8. UNCHANGED <<meta, verifier, tokens, sync, vault, session, memory>>
  BY DEF MintDeviceKey
<1>9. KeyOnDisk' = KeyOnDisk /\ SessionFits' = SessionFits
  BY <1>5, <1>8 DEF KeyOnDisk, SessionFits
<1>10. ~Deriving(i) /\ ~ToDevice(i)
  BY <1>5 DEF Deriving, ToDevice, Resealing
<1>11. (Opens' <=> Opens) /\ (TokensOpen' <=> TokensOpen)
  BY <1>8, <1>9 DEF Opens, TokensOpen
<1>12. KeysStored(Deriving(i), ToDevice(i))'
  BY <1>2, <1>3, <1>8, <1>9, <1>10, <1>11, Zenon DEF KeysStored
<1>13. /\ h'[i].at = "confirm" /\ h'[i].op = h[i].op /\ h'[i].ret = h[i].ret
  BY <1>1 DEF MintDeviceKey, To, Go, Handler
<1>14. Asking(i)' /\ InHand(i)'
  BY <1>5, <1>13 DEF Asking, AnyDevice, InHand
<1>15. Rekeying(i)'
  BY <1>1, <1>2, <1>5, <1>8, <1>13
    DEF KeysHeld, Rekeying, ToDevice, Deriving, Resealing, Changes, Sound, Staged, ResetAts
<1>16. Relying(i)' => SessionFits'
  BY <1>2, <1>5, <1>9, <1>10, <1>13 DEF KeysHeld, Relying
<1> QED BY <1>7, <1>12, <1>14, <1>15, <1>16, KeysGo DEF KeysHeld

\* Steps that change the cache: behind a lock only the contents that the session opened.
LEMMA KeysMemory ==
  ASSUME Base, Apart, Keys, Steady, NEW i \in Handlers, Step(i),
         Decrypt(i) \/ Seal(i) \/ Created(i) \/ Unlocked(i) \/ Resealed(i)
  PROVE  Keys'
<1>1. h \in [Handlers -> Handler] /\ h[i] \in Handler /\ Sound(h[i], Len(heap)) /\ Len(heap) \in Nat
  BY DEF Base, Stores, MemoryTypes
<1>2. KeysStored(Deriving(i), ToDevice(i)) /\ KeysHeld(i)
  BY KeysKnown
<1>3. UNCHANGED <<rekeyed, overlaps>> /\ (Alone' <=> Alone)
  <2>1. UNCHANGED <<rekeyed, overlaps>>
    BY StepKeeps
  <2> QED BY <2>1, Zenon DEF Alone
<1>4. meta.protection # "none" =>
        KeyOnDisk # None /\ verifier = KeyOnDisk /\ vault.key = KeyOnDisk /\ sync = KeyOnDisk
  BY <1>2 DEF KeysStored, Opens
<1>5. UNCHANGED <<disk, session>>
  BY DEF Decrypt, Seal, Created, Unlocked, Resealed
<1>6. KeyOnDisk' = KeyOnDisk /\ SessionFits' = SessionFits /\ (Opens' <=> Opens) /\ (TokensOpen' <=> TokensOpen)
  BY <1>5 DEF KeyOnDisk, SessionFits, Opens, TokensOpen
<1>7. ~Deriving(i) /\ ~ToDevice(i)
  BY DEF Decrypt, Seal, Created, Unlocked, Resealed, At, Deriving, ToDevice, Resealing
<1>8. ASSUME SessionFits,
             Alone /\ meta.protection = "pass" => session # None \/ cached' = None,
             h'[i] = Idle \/ (Asking(i)' /\ InHand(i)' /\ Rekeying(i)')
      PROVE  Keys'
  <2>1. KeysStored(Deriving(i), ToDevice(i))'
    BY <1>2, <1>3, <1>5, <1>6, <1>8, Zenon DEF KeysStored
  <2>2. h'[i] = Idle \/ KeysHeld(i)'
    BY <1>6, <1>8 DEF KeysHeld
  <2> QED BY <1>5, <1>6, <2>1, <2>2, KeysGo
<1>9. CASE Decrypt(i)
  <2>1. /\ h[i].at = "decrypt" /\ h[i].op \in {"write"} \cup Changes
        /\ meta.protection # "none" /\ h[i].blob.key = KeyOnDisk
    BY <1>1, <1>2, <1>9, AtTells DEF Decrypt, At, KeysHeld, InHand
  <2>2. CASE Done(i) /\ UNCHANGED memory
    BY <1>1, <1>5, <1>7, <2>2, KeysKept, KeysGo DEF Done, Go
  <2>3. CASE ~(h[i].blob # NoBlob /\ h[i].blob.key # h[i].key)
    <3>1. h[i].key = KeyOnDisk
      BY <1>4, <2>1, <2>3 DEF NoBlob
    <3>2. Alone /\ meta.protection = "pass" => session = h[i].key /\ session # None
      BY <1>2, <2>1 DEF KeysHeld, InHand
    <3>3. SessionFits
      <4>1. CASE Alone
        BY <3>1, <3>2, <4>1 DEF SessionFits, KeyOnDisk
      <4>2. CASE ~Alone
        BY <1>2, <1>7, <4>2, Zenon DEF Steady, KeysStored
      <4> QED BY <4>1, <4>2
    <3>4. /\ h'[i].op = h[i].op /\ h'[i].key = h[i].key
          /\ \/ h'[i].at = "meta" /\ h'[i].ret = "seal"
             \/ h'[i].at = "read tokens" /\ h'[i].ret = "idle"
      <4> DEFINE o == Len(heap) + 1
                 at == IF h[i].op = "write" THEN "meta" ELSE "read tokens"
                 ret == IF h[i].op = "write" THEN "seal" ELSE "idle"
      <4>1. Go(i, [h[i] EXCEPT !.obj = o, !.blob = NoBlob, !.at = at, !.ret = ret])
        BY <1>9, <2>3 DEF Decrypt
      <4>2. \/ at = "meta" /\ ret = "seal"
            \/ at = "read tokens" /\ ret = "idle"
        OBVIOUS
      <4> HIDE DEF o, at, ret
      <4> QED BY <1>1, <4>1, <4>2 DEF Go, Handler
    <3>5. Asking(i)' /\ InHand(i)'
      BY <1>3, <1>5, <1>6, <2>1, <3>1, <3>2, <3>4 DEF Asking, AnyDevice, InHand
    <3>6. Rekeying(i)'
      BY <2>1, <3>4 DEF Rekeying, ToDevice, Deriving, Resealing, Changes
    <3> QED BY <1>8, <3>2, <3>3, <3>5, <3>6
  <2> QED BY <1>9, <2>2, <2>3 DEF Decrypt
<1>10. CASE Seal(i)
  <2>1. /\ h[i].at = "seal" /\ h[i].op = "write"
        /\ meta.protection # "none" /\ h[i].key = KeyOnDisk
    BY <1>1, <1>2, <1>10, AtTells DEF Seal, At, KeysHeld, InHand
  <2>2. SessionFits /\ (Alone /\ meta.protection = "pass" => session # None)
    BY <1>2, <1>7, <2>1 DEF KeysHeld, InHand, Relying
  <2>3. h'[i].at = "store" /\ h'[i].op = h[i].op /\ h'[i].blob.key = h[i].key
    BY <1>1, <1>10 DEF Seal, Go, Handler
  <2>4. Asking(i)' /\ InHand(i)'
    BY <1>5, <1>6, <2>1, <2>3 DEF Asking, InHand
  <2>5. Rekeying(i)'
    BY <2>1, <2>3 DEF Rekeying, ToDevice, Deriving, Resealing, Changes
  <2> QED BY <1>8, <2>2, <2>4, <2>5
<1>11. CASE Created(i)
  <2>1. meta.protection = "device"
    BY <1>2, <1>11 DEF Created, At, KeysHeld, Rekeying
  <2>2. SessionFits /\ h'[i] = Idle
    BY <1>1, <1>11, <2>1 DEF SessionFits, Created, Done, Go
  <2> QED BY <1>8, <2>1, <2>2
<1>12. CASE Unlocked(i)
  <2>1. h[i].at = "unlocked" /\ cached' = None /\ SessionFits
    BY <1>2, <1>7, <1>12 DEF Unlocked, At, KeysHeld, Relying
  <2>2. CASE Done(i)
    BY <1>1, <1>8, <2>1, <2>2 DEF Done, Go
  <2>3. CASE To(i, "read") /\ h[i].op \in Changes
    <3>1. h'[i].at = "read" /\ h'[i].op = h[i].op /\ h'[i].ret = h[i].ret
      BY <1>1, <2>3 DEF To, Go, Handler
    <3>2. Asking(i)' /\ InHand(i)'
      BY <3>1 DEF Asking, InHand
    <3>3. Rekeying(i)'
      BY <1>2, <1>5, <2>3, <3>1 DEF KeysHeld, Rekeying, ToDevice, Deriving, Resealing, Changes
    <3> QED BY <1>8, <2>1, <3>2, <3>3
  <2>4. h[i].op \in {"unlock"} \cup Changes
    BY <1>1, <2>1, AtTells DEF Unlocking
  <2> QED BY <1>12, <2>2, <2>3, <2>4 DEF Unlocked
<1>13. CASE Resealed(i)
  <2>1. h[i].at = "resealed" /\ h[i].op \in Changes /\ h'[i] = Idle
    BY <1>1, <1>13, AtTells DEF Resealed, At, Done, Go
  <2>2. SessionFits /\ (meta.protection = "pass" => session # None)
    BY <1>2, <1>7, <2>1 DEF KeysHeld, Rekeying, Relying
  <2> QED BY <1>8, <2>1, <2>2
<1> QED BY <1>9, <1>10, <1>11, <1>12, <1>13

\* Steps that write one blob: with the key that is on disk.
LEMMA KeysBlobs ==
  ASSUME Base, Apart, Keys, Steady, NEW i \in Handlers, Step(i),
         Store(i) \/ PutTokens(i) \/ PutSync(i) \/ DropTokens(i)
  PROVE  Keys'
<1>1. h \in [Handlers -> Handler] /\ h[i] \in Handler /\ Sound(h[i], Len(heap)) /\ Len(heap) \in Nat
  BY DEF Base, Stores, MemoryTypes
<1>2. KeysStored(Deriving(i), ToDevice(i)) /\ KeysHeld(i)
  BY KeysKnown
<1>3. UNCHANGED <<rekeyed, overlaps>> /\ (Alone' <=> Alone)
  <2>1. UNCHANGED <<rekeyed, overlaps>>
    BY StepKeeps
  <2> QED BY <2>1, Zenon DEF Alone
<1>4. meta.protection # "none" =>
        KeyOnDisk # None /\ verifier = KeyOnDisk /\ vault.key = KeyOnDisk /\ sync = KeyOnDisk
  BY <1>2 DEF KeysStored, Opens
<1>5. UNCHANGED <<meta, deviceKey, session, cached>>
  BY DEF Store, PutTokens, PutSync, DropTokens
<1>6. KeyOnDisk' = KeyOnDisk /\ SessionFits' = SessionFits
  BY <1>5 DEF KeyOnDisk, SessionFits
<1>7. ~Deriving(i) /\ ~ToDevice(i)
  BY DEF Store, PutTokens, PutSync, DropTokens, At, Deriving, ToDevice, Resealing
<1>8. ASSUME Opens', ~rekeyed => TokensOpen' /\ (meta.protection = "none" => tokens' = None),
             h'[i] = Idle \/ KeysHeld(i)'
      PROVE  Keys'
  <2>1. KeysStored(Deriving(i), ToDevice(i))'
    BY <1>2, <1>3, <1>5, <1>6, <1>7, <1>8, Zenon DEF KeysStored
  <2> QED BY <1>5, <1>6, <1>8, <2>1, KeysGo
<1>9. Opens /\ (~rekeyed => TokensOpen /\ (meta.protection = "none" => tokens = None))
  BY <1>2, Zenon DEF KeysStored
<1>10. CASE Store(i)
  <2>1. vault'.key = KeyOnDisk /\ UNCHANGED <<tokens, verifier, sync>> /\ h'[i] = Idle
    BY <1>1, <1>2, <1>10 DEF Store, At, KeysHeld, InHand, Done, Go
  <2>2. Opens' /\ (TokensOpen' <=> TokensOpen)
    BY <1>5, <1>6, <1>9, <2>1 DEF Opens, TokensOpen
  <2> QED BY <1>8, <1>9, <2>1, <2>2, Zenon
<1>11. CASE PutTokens(i)
  <2>1. /\ h[i].at = "put tokens" /\ h[i].op \in {"connect", "mark"}
        /\ meta.protection # "none" /\ (~rekeyed => h[i].key = KeyOnDisk)
    BY <1>1, <1>2, <1>11, AtTells DEF PutTokens, At, KeysHeld, InHand
  <2>2. tokens' = h[i].key /\ UNCHANGED <<vault, verifier, sync>>
    BY <1>11 DEF PutTokens
  <2>3. Opens' /\ (~rekeyed => TokensOpen')
    BY <1>5, <1>6, <1>9, <2>1, <2>2 DEF Opens, TokensOpen
  <2>4. h'[i].at = "meta" /\ h'[i].op = h[i].op /\ h'[i].ret = "read sync"
    BY <1>1, <1>11 DEF PutTokens, Go, Handler
  <2>5. Asking(i)' /\ InHand(i)' /\ ~Relying(i)'
    BY <2>1, <2>4 DEF Asking, AnyDevice, InHand, Relying, Changes
  <2>6. Rekeying(i)'
    BY <2>1, <2>4 DEF Rekeying, ToDevice, Deriving, Resealing, Changes
  <2>7. KeysHeld(i)'
    BY <2>5, <2>6 DEF KeysHeld
  <2> QED BY <1>8, <2>1, <2>3, <2>7, Zenon
<1>12. CASE PutSync(i)
  <2>1. sync' = KeyOnDisk /\ UNCHANGED <<tokens, verifier, vault>> /\ h'[i] = Idle
    BY <1>1, <1>2, <1>12 DEF PutSync, At, KeysHeld, InHand, Done, Go
  <2>2. Opens' /\ (TokensOpen' <=> TokensOpen)
    BY <1>5, <1>6, <1>9, <2>1 DEF Opens, TokensOpen
  <2> QED BY <1>8, <1>9, <2>1, <2>2, Zenon
<1>13. CASE DropTokens(i)
  <2>1. tokens' = None /\ UNCHANGED <<sync, verifier, vault>> /\ h'[i] = Idle
    BY <1>1, <1>13 DEF DropTokens, Done, Go
  <2>2. Opens' /\ TokensOpen'
    BY <1>5, <1>6, <1>9, <2>1 DEF Opens, TokensOpen
  <2> QED BY <1>8, <2>1, <2>2
<1> QED BY <1>10, <1>11, <1>12, <1>13

\* Steps of the changes of keys that write to the disk.
LEMMA KeysRewrite ==
  ASSUME Base, Apart, Keys, Steady, NEW i \in Handlers, Step(i),
         Create(i) \/ RemoveTokens(i) \/ SetAll(i) \/ Remove(i) \/ ClearDeviceKey(i)
  PROVE  Keys'
<1>1. h \in [Handlers -> Handler] /\ h[i] \in Handler /\ Sound(h[i], Len(heap)) /\ Len(heap) \in Nat
  BY DEF Base, Stores, MemoryTypes
<1>2. KeysStored(Deriving(i), ToDevice(i)) /\ KeysHeld(i)
  BY KeysKnown
<1>3. UNCHANGED <<rekeyed, overlaps>> /\ (Alone' <=> Alone)
  <2>1. UNCHANGED <<rekeyed, overlaps>>
    BY StepKeeps
  <2> QED BY <2>1, Zenon DEF Alone
<1>4. meta.protection # "none" =>
        KeyOnDisk # None /\ verifier = KeyOnDisk /\ vault.key = KeyOnDisk /\ sync = KeyOnDisk
  BY <1>2 DEF KeysStored, Opens
<1>5. UNCHANGED <<session, cached>>
  BY DEF Create, RemoveTokens, SetAll, Remove, ClearDeviceKey
<1>6. Opens /\ (~rekeyed => TokensOpen /\ (meta.protection = "none" => tokens = None))
  BY <1>2, Zenon DEF KeysStored
<1>7. CASE Create(i)
  <2>1. /\ h[i].at = "create" /\ h[i].op = "ensure" /\ meta.protection = "none"
        /\ h[i].key = deviceKey /\ h[i].key # None
    BY <1>1, <1>2, <1>7, AtTells DEF Create, At, KeysHeld, Rekeying
  <2>2. /\ meta'.protection = "device" /\ verifier' = h[i].key /\ sync' = h[i].key
        /\ vault'.key = h[i].key /\ UNCHANGED <<tokens, deviceKey>>
    BY <1>7 DEF Create
  <2>3. KeyOnDisk' = h[i].key
    BY <2>1, <2>2 DEF KeyOnDisk
  <2>4. Opens' /\ SessionFits' /\ KeyOnDisk' # None /\ (~rekeyed => TokensOpen')
    BY <1>6, <2>1, <2>2, <2>3 DEF Opens, SessionFits, TokensOpen
  <2>5. KeysStored(Deriving(i), ToDevice(i))'
    BY <1>3, <2>2, <2>4, Zenon DEF KeysStored
  <2>6. h'[i].at = "created" /\ h'[i].op = "ensure"
    BY <1>1, <1>7, <2>1 DEF Create, To, Go, Handler
  <2>7. KeysHeld(i)'
    BY <2>2, <2>4, <2>6 DEF KeysHeld, Asking, InHand, Rekeying, ToDevice, Deriving, Resealing, Changes
  <2> QED BY <2>1, <2>5, <2>7, KeysGo DEF Rekeys
<1>8. CASE RemoveTokens(i)
  <2>1. h[i].at = "remove tokens" /\ h[i].op \in Changes
    BY <1>1, <1>8, AtTells DEF RemoveTokens, At, Resealing
  <2>2. tokens' = None /\ UNCHANGED <<meta, verifier, sync, vault, deviceKey>>
    BY <1>8 DEF RemoveTokens
  <2>3. /\ h'[i].at = "set all" /\ h'[i].op = h[i].op /\ h'[i].ret = h[i].ret
        /\ h'[i].key = h[i].key /\ h'[i].blob = h[i].blob
    BY <1>1, <1>8 DEF RemoveTokens, To, Go, Handler
  <2>4. KeyOnDisk' = KeyOnDisk /\ SessionFits' = SessionFits
    BY <1>5, <2>2 DEF KeyOnDisk, SessionFits
  <2>5. Opens' /\ TokensOpen'
    BY <1>6, <2>2, <2>4 DEF Opens, TokensOpen
  <2>6. (Deriving(i)' <=> Deriving(i)) /\ (ToDevice(i)' <=> ToDevice(i))
    BY <2>1, <2>3 DEF Deriving, ToDevice, Resealing
  <2>7. KeysStored(Deriving(i), ToDevice(i))'
    BY <1>2, <1>3, <1>5, <2>2, <2>4, <2>5, <2>6, Zenon DEF KeysStored
  <2>8. Asking(i)' /\ InHand(i)'
    BY <2>3 DEF Asking, InHand
  <2>9. Rekeying(i)'
    BY <1>2, <1>5, <2>1, <2>2, <2>3 DEF KeysHeld, Rekeying, ToDevice, Deriving, Resealing, Changes
  <2>10. Relying(i)' /\ ~Deriving(i)' => SessionFits'
    BY <1>2, <2>1, <2>4, <2>6 DEF KeysHeld, Relying, Changes
  <2> QED BY <2>1, <2>7, <2>8, <2>9, <2>10, KeysGo DEF Rekeys, Changes, KeysHeld
<1>9. CASE SetAll(i)
  <2>1. /\ h[i].at = "set all" /\ h[i].op \in Changes /\ h[i].blob.key = h[i].key
        /\ h[i].had = None /\ ~rekeyed => tokens = None
    BY <1>1, <1>2, <1>9, AtTells DEF SetAll, At, Resealing, KeysHeld, Rekeying
  <2>2. /\ verifier' = h[i].key /\ sync' = h[i].key /\ vault' = h[i].blob
        /\ tokens' = IF h[i].had # None THEN h[i].key ELSE tokens
        /\ UNCHANGED deviceKey
    BY <1>9 DEF SetAll
  <2>3. /\ h'[i].at = "resealed" /\ h'[i].op = h[i].op
    BY <1>1, <1>9 DEF SetAll, To, Go, Handler
  <2>4. /\ KeyOnDisk' = h[i].key /\ h[i].key # None /\ meta'.protection # "none"
        /\ meta'.protection = "pass" => session # None /\ session = meta'.key
    <3>1. CASE h[i].op = "to pass"
      <4>1. meta'.protection = "pass" /\ meta'.key = h[i].key
        BY <1>9, <3>1 DEF SetAll
      <4>2. h[i].key = session /\ session # None
        BY <1>2, <2>1, <3>1 DEF KeysHeld, Rekeying, Deriving, Resealing
      <4> QED BY <4>1, <4>2 DEF KeyOnDisk
    <3>2. CASE h[i].op = "to device"
      <4>1. meta'.protection = "device"
        BY <1>9, <3>2 DEF SetAll
      <4>2. h[i].key = deviceKey /\ h[i].key # None
        BY <1>2, <2>1, <3>2 DEF KeysHeld, Rekeying, ToDevice, Resealing
      <4> QED BY <2>2, <4>1, <4>2 DEF KeyOnDisk
    <3> QED BY <2>1, <3>1, <3>2 DEF Changes
  <2>5. Opens' /\ SessionFits'
    BY <1>5, <2>1, <2>2, <2>4 DEF Opens, SessionFits
  <2>6. ~rekeyed => TokensOpen'
    BY <2>1, <2>2, <2>4 DEF TokensOpen
  <2>7. KeysStored(Deriving(i), ToDevice(i))'
    BY <1>3, <1>5, <2>4, <2>5, <2>6, Zenon DEF KeysStored
  <2>8. Asking(i)' /\ InHand(i)'
    BY <2>3 DEF Asking, InHand
  <2>9. Rekeying(i)'
    BY <1>5, <2>1, <2>3, <2>4 DEF Rekeying, ToDevice, Deriving, Resealing, Changes
  <2> QED BY <2>1, <2>5, <2>7, <2>8, <2>9, KeysGo DEF Rekeys, Changes, KeysHeld
<1>10. CASE Remove(i)
  <2>1. h[i].at = "remove" /\ h[i].op = "reset"
    BY <1>1, <1>10, AtTells DEF Remove, At, ResetAts
  <2>2. meta'.protection = "none" /\ tokens' = None
    BY <1>10 DEF Remove
  <2>3. Opens' /\ SessionFits' /\ TokensOpen'
    BY <2>2 DEF Opens, SessionFits, TokensOpen
  <2>4. KeysStored(Deriving(i), ToDevice(i))'
    BY <2>2, <2>3, Zenon DEF KeysStored
  <2>5. h'[i].at = "remove session" /\ h'[i].op = "reset"
    BY <1>1, <1>10, <2>1 DEF Remove, To, Go, Handler
  <2>6. Asking(i)' /\ InHand(i)'
    BY <2>5 DEF Asking, InHand
  <2>7. Rekeying(i)'
    BY <1>2, <1>3, <1>5, <2>1, <2>2, <2>5 DEF KeysHeld, Rekeying, ToDevice, Deriving, Resealing, Changes
  <2> QED BY <2>1, <2>3, <2>4, <2>6, <2>7, KeysGo DEF Rekeys, KeysHeld
<1>11. CASE ClearDeviceKey(i)
  <2>1. h[i].at = "clear device key" /\ h[i].op = "reset" /\ meta.protection = "none"
    BY <1>1, <1>2, <1>11, AtTells DEF ClearDeviceKey, At, ResetAts, KeysHeld, Rekeying
  <2>2. UNCHANGED <<meta, verifier, tokens, sync, vault>> /\ h'[i] = Idle
    BY <1>1, <1>11 DEF ClearDeviceKey, Done, Go
  <2>3. Opens' /\ SessionFits' /\ TokensOpen'
    BY <2>1, <2>2 DEF Opens, SessionFits, TokensOpen
  <2>4. KeysStored(Deriving(i), ToDevice(i))'
    BY <1>3, <1>6, <2>1, <2>2, <2>3, Zenon DEF KeysStored
  <2> QED BY <2>1, <2>2, <2>4, KeysGo DEF Rekeys
<1> QED BY <1>7, <1>8, <1>9, <1>10, <1>11

\* Steps that change the session: to the key that is on disk, to none, or to the key
\* that a change of protection is about to write.
LEMMA KeysSession ==
  ASSUME Base, Apart, Keys, Steady, NEW i \in Handlers, Step(i),
         Remember(i) \/ ForgetKey(i) \/ Derive(i) \/ ForgetSession(i) \/ RemoveSession(i)
  PROVE  Keys'
<1>1. h \in [Handlers -> Handler] /\ h[i] \in Handler /\ Sound(h[i], Len(heap)) /\ Len(heap) \in Nat
  BY DEF Base, Stores, MemoryTypes
<1>2. KeysStored(Deriving(i), ToDevice(i)) /\ KeysHeld(i)
  BY KeysKnown
<1>3. UNCHANGED <<rekeyed, overlaps>> /\ (Alone' <=> Alone)
  <2>1. UNCHANGED <<rekeyed, overlaps>>
    BY StepKeeps
  <2> QED BY <2>1, Zenon DEF Alone
<1>4. meta.protection # "none" =>
        KeyOnDisk # None /\ verifier = KeyOnDisk /\ vault.key = KeyOnDisk /\ sync = KeyOnDisk
  BY <1>2 DEF KeysStored, Opens
<1>5. UNCHANGED <<disk, cached>>
  BY DEF Remember, ForgetKey, Derive, ForgetSession, RemoveSession
<1>6. KeyOnDisk' = KeyOnDisk /\ (Opens' <=> Opens) /\ (TokensOpen' <=> TokensOpen)
  BY <1>5 DEF KeyOnDisk, Opens, TokensOpen
<1>7. ASSUME SessionFits' \/ Deriving(i)',
             Alone /\ meta.protection = "pass" /\ cached # None => session' # None \/ ToDevice(i)',
             SessionFits' \/ Rekeys(h[i].op),
             h'[i] = Idle \/ KeysHeld(i)'
      PROVE  Keys'
  <2>1. KeysStored(Deriving(i), ToDevice(i))'
    BY <1>2, <1>3, <1>5, <1>6, <1>7, Zenon DEF KeysStored
  <2> QED BY <1>5, <1>7, <2>1, KeysGo
<1>8. CASE Remember(i)
  <2>1. /\ h[i].at = "remember" /\ h[i].op \in {"unlock"} \cup Changes
        /\ meta.protection = "pass" /\ h[i].key = meta.key
    BY <1>1, <1>2, <1>8, AtTells DEF Remember, At, Unlocking, KeysHeld, InHand
  <2>2. session' = meta.key /\ session' # None
    BY <1>4, <1>8, <2>1 DEF Remember, KeyOnDisk
  <2>3. SessionFits'
    BY <1>5, <2>2 DEF SessionFits
  <2>4. h'[i].at = "unlocked" /\ h'[i].op = h[i].op /\ h'[i].ret = h[i].ret
    BY <1>1, <1>8 DEF Remember, To, Go, Handler
  <2>5. Asking(i)' /\ InHand(i)'
    BY <2>4 DEF Asking, InHand
  <2>6. Rekeying(i)'
    BY <1>5, <2>1, <2>4 DEF Rekeying, ToDevice, Deriving, Resealing, Changes
  <2> QED BY <1>7, <2>2, <2>3, <2>5, <2>6 DEF KeysHeld
<1>9. CASE ForgetKey(i)
  <2>1. h[i].op = "lock" /\ session' = None /\ h'[i] = Idle
    BY <1>1, <1>9, AtTells DEF ForgetKey, At, Done, Go
  <2>2. SessionFits'
    BY <2>1 DEF SessionFits
  <2>3. Alone => cached = None
    BY <1>2, <2>1 DEF KeysHeld, Rekeying
  <2> QED BY <1>7, <2>1, <2>2, <2>3
<1>10. CASE Derive(i)
  <2>1. h[i].at = "derive" /\ h[i].op = "to pass" /\ meta.protection # "none"
    BY <1>1, <1>2, <1>10, AtTells DEF Derive, At, KeysHeld, InHand
  <2>2. keys \in Nat
    BY Zenon DEF Base, Stores, CountTypes
  <2>3. session' = keys + 1 /\ session' # None
    BY <1>10, <2>2 DEF Derive, None
  <2>4. /\ h'[i].at = "reseal" /\ h'[i].op = "to pass" /\ h'[i].key = session'
    BY <1>1, <1>10, <2>1 DEF Derive, Go, Handler
  <2>5. Deriving(i)'
    BY <2>4 DEF Deriving, Resealing
  <2>6. Asking(i)' /\ InHand(i)'
    BY <2>4 DEF Asking, InHand
  <2>7. Rekeying(i)'
    BY <1>5, <2>1, <2>3, <2>4 DEF Rekeying, ToDevice, Deriving, Resealing, Changes
  <2> QED BY <1>7, <2>1, <2>3, <2>5, <2>6, <2>7 DEF Rekeys, KeysHeld
<1>11. CASE ForgetSession(i)
  <2>1. /\ h[i].at = "forget session" /\ h[i].op = "to device" /\ meta.protection # "none"
        /\ h[i].key = deviceKey /\ h[i].key # None
    BY <1>1, <1>2, <1>11, AtTells DEF ForgetSession, At, KeysHeld, Rekeying, Changes
  <2>2. session' = None
    BY <1>11 DEF ForgetSession
  <2>3. SessionFits'
    BY <2>2 DEF SessionFits
  <2>4. h'[i].at = "reseal" /\ h'[i].op = "to device" /\ h'[i].key = h[i].key
    BY <1>1, <1>11, <2>1 DEF ForgetSession, To, Go, Handler
  <2>5. ToDevice(i)'
    BY <2>4 DEF ToDevice, Resealing
  <2>6. Asking(i)' /\ InHand(i)'
    BY <2>4 DEF Asking, InHand
  <2>7. Rekeying(i)'
    BY <1>5, <2>1, <2>4 DEF Rekeying, ToDevice, Deriving, Resealing, Changes
  <2> QED BY <1>7, <2>3, <2>5, <2>6, <2>7 DEF KeysHeld
<1>12. CASE RemoveSession(i)
  <2>1. h[i].at = "remove session" /\ h[i].op = "reset" /\ meta.protection = "none"
    BY <1>1, <1>2, <1>12, AtTells DEF RemoveSession, At, ResetAts, KeysHeld, Rekeying
  <2>2. SessionFits'
    BY <1>5, <2>1 DEF SessionFits
  <2>3. h'[i].at = "clear device key" /\ h'[i].op = "reset"
    BY <1>1, <1>12, <2>1 DEF RemoveSession, To, Go, Handler
  <2>4. Asking(i)' /\ InHand(i)'
    BY <2>3 DEF Asking, InHand
  <2>5. Rekeying(i)'
    BY <1>2, <1>3, <1>5, <2>1, <2>3 DEF KeysHeld, Rekeying, ToDevice, Deriving, Resealing, Changes
  <2> QED BY <1>7, <2>1, <2>2, <2>4, <2>5 DEF KeysHeld
<1> QED BY <1>8, <1>9, <1>10, <1>11, <1>12

\* What a start that leaves the keys steady knows: a change of keys overlaps nothing.
LEMMA KeysStarts ==
  ASSUME Base, Apart, NEW i \in Handlers, Start(i), Steady'
  PROVE  /\ Steady /\ (Alone' => Alone) /\ (~rekeyed' => ~rekeyed)
         /\ \A j \in Handlers \ {i} : Busy(j) => ~Rekeys(h[j].op)
<1>1. PICK edit \in Edits \cup {None} : Count(i, h'[i].op, edit)
  BY StartCounts
<1> DEFINE others == {j \in Handlers \ {i} : Busy(j)}
<1>2. overlaps \in Nat
  <2>1. overlaps \in 0..MaxOverlaps /\ MaxOverlaps \in Nat
    BY VaultAssumption, Zenon DEF Base, Stores, CountTypes
  <2> QED BY <2>1
<1>3. /\ overlaps' = overlaps + (IF others = {} THEN 0 ELSE 1)
      /\ rekeyed' = (rekeyed \/ (others # {} /\ (Rekeys(h'[i].op) \/ \E j \in others : Rekeys(h[j].op))))
  BY <1>1, Zenon DEF Count
<1>4. (Alone' => Alone) /\ (others # {} => ~Alone')
  BY <1>2, <1>3 DEF Alone
<1>5. ~rekeyed' => ~rekeyed
  BY <1>3, Zenon
<1>6. CASE others = {}
  BY <1>4, <1>5, <1>6, Zenon DEF Steady
<1>7. CASE others # {}
  <2>1. ~rekeyed'
    BY <1>4, <1>7, Zenon DEF Steady
  <2>2. \A j \in others : ~Rekeys(h[j].op)
    BY <1>3, <1>7, <2>1, Zenon
  <2> QED BY <1>4, <1>5, <2>1, <2>2, Zenon DEF Steady
<1> QED BY <1>6, <1>7

\* A start keeps the keys.
LEMMA KeysStart ==
  ASSUME Base, Apart, KeysInv, NEW i \in Handlers, Start(i)
  PROVE  KeysInv'
<1> SUFFICES ASSUME Steady' PROVE Keys'
  BY Zenon DEF KeysInv
<1>1. /\ Steady /\ (Alone' => Alone) /\ (~rekeyed' => ~rekeyed)
      /\ \A j \in Handlers \ {i} : Busy(j) => ~Rekeys(h[j].op)
  BY KeysStarts
<1>2. Keys
  BY <1>1, Zenon DEF KeysInv
<1>3. /\ ~Busy(i) /\ \A j \in Handlers \ {i} : h'[j] = h[j]
      /\ h \in [Handlers -> Handler] /\ UNCHANGED <<disk, session>>
  BY StartCounts DEF Base, Start
<1>4. \A j \in Handlers : ~Deriving(j) /\ ~ToDevice(j)
  BY <1>1, <1>3, ChangesRekey
<1>5. KeysStored(FALSE, FALSE) /\ \A j \in Handlers : KeysHeld(j)
  BY <1>2, <1>4, Zenon DEF Keys, KeysStored
<1>6. KeyOnDisk' = KeyOnDisk /\ SessionFits' = SessionFits /\ (Opens' <=> Opens) /\ (TokensOpen' <=> TokensOpen)
  BY <1>3 DEF KeyOnDisk, SessionFits, Opens, TokensOpen
<1>7. ASSUME NEW r \in [op: Kinds, at: Ats, ret: Rets], cached' \in {cached, None},
             h'[i].op = r.op, h'[i].at = r.at, h'[i].ret = r.ret,
             \/ r.op = "write" /\ r.at = "meta" /\ r.ret = "seal" /\ cached # None
             \/ r.op = "write" /\ r.at = "meta" /\ r.ret = "load"
             \/ r.op = "lock" /\ r.at = "forget key" /\ cached' = None
             \/ r.op = "reset" /\ r.at = "remove" /\ cached' = None
             \/ r.op = "ensure" /\ r.at = "is initialized"
             \/ r.op = "unlock" /\ r.at = "unlock meta"
             \/ r.op \in Changes /\ r.at = "protection" /\ r.ret = "idle"
             \/ r.op = "connect" /\ r.at = "meta" /\ r.ret = "put tokens"
             \/ r.op = "disconnect" /\ r.at = "drop tokens"
             \/ r.op = "mark" /\ r.at = "meta" /\ r.ret = "read sync"
      PROVE  Keys'
  <2>1. Asking(i)' /\ InHand(i)'
    BY <1>7 DEF Asking, AnyDevice, InHand, Changes
  <2>2. Rekeying(i)'
    BY <1>7 DEF Rekeying, ToDevice, Deriving, Resealing, Changes
  <2>3. Relying(i)' => SessionFits'
    <3>1. cached # None => SessionFits
      BY <1>5, Zenon DEF KeysStored
    <3> QED BY <1>6, <1>7, <3>1 DEF Relying, Changes
  <2>4. ASSUME NEW j \in Handlers \ {i} PROVE KeysHeld(j)'
    <3>1. KeysHeld(j) /\ h'[j] = h[j]
      BY <1>3, <1>5
    <3>2. Asking(j)'
      BY <1>3, <3>1 DEF KeysHeld, Asking, AnyDevice
    <3>3. InHand(j)'
      BY <1>1, <1>3, <1>6, <3>1 DEF KeysHeld, InHand
    <3>4. Rekeying(j)'
      BY <1>1, <1>3, <1>7, <3>1 DEF KeysHeld, Rekeying, ToDevice, Deriving
    <3>5. Relying(j)' /\ ~Deriving(j)' => SessionFits'
      BY <1>3, <1>6, <3>1 DEF KeysHeld, Relying, Deriving
    <3> QED BY <3>2, <3>3, <3>4, <3>5 DEF KeysHeld
  <2>5. \A j \in Handlers : KeysHeld(j)'
    BY <2>1, <2>2, <2>3, <2>4 DEF KeysHeld
  <2>6. cached' # None => cached # None
    BY <1>7
  <2>7. KeysStored(FALSE, FALSE)'
    BY <1>1, <1>3, <1>5, <1>6, <2>6, Zenon DEF KeysStored
  <2>8. KeysStored(\E j \in Handlers : Deriving(j), \E j \in Handlers : ToDevice(j))'
    BY <2>7, Zenon DEF KeysStored
  <2> QED BY <2>5, <2>8, Zenon DEF Keys
<1>8. CASE StartWrite(i)
  <2>1. /\ h'[i].op = "write" /\ h'[i].at = "meta" /\ cached' = cached
        /\ (h'[i].ret = "seal" /\ cached # None) \/ h'[i].ret = "load"
    <3> DEFINE e == ops + 1
    <3>1. CASE cached # None
      <4>1. /\ Go(i, [Idle EXCEPT !.op = "write", !.edit = e, !.obj = cached, !.at = "meta", !.ret = "seal"])
            /\ cached' = cached
        BY <1>8, <3>1 DEF StartWrite
      <4> HIDE DEF e
      <4> QED BY <1>3, <3>1, <4>1 DEF Go, Idle
    <3>2. CASE cached = None
      <4>1. /\ Go(i, [Idle EXCEPT !.op = "write", !.edit = e, !.at = "meta", !.ret = "load"])
            /\ cached' = cached
        BY <1>8, <3>2 DEF StartWrite
      <4> HIDE DEF e
      <4> QED BY <1>3, <4>1 DEF Go, Idle
    <3> QED BY <3>1, <3>2
  <2> DEFINE r == [op |-> "write", at |-> "meta", ret |-> h'[i].ret]
  <2>2. r \in [op: Kinds, at: Ats, ret: Rets] /\ r.op = "write" /\ r.at = "meta" /\ r.ret = h'[i].ret
    BY <2>1 DEF Kinds, Ats, Rets, WriteAts, KeyAts
  <2> HIDE DEF r
  <2> QED BY <1>7, <2>1, <2>2
<1>9. ASSUME NEW op \in Kinds, NEW at \in Ats, NEW ret \in Rets,
             \/ op \in {"lock", "reset"} /\ StartDrop(i, op, at) /\ ret = "idle"
             \/ op \notin {"lock", "reset"} /\ StartOther(i, op, at, ret),
             \/ op = "lock" /\ at = "forget key"
             \/ op = "reset" /\ at = "remove"
             \/ op = "ensure" /\ at = "is initialized"
             \/ op = "unlock" /\ at = "unlock meta"
             \/ op \in Changes /\ at = "protection" /\ ret = "idle"
             \/ op = "connect" /\ at = "meta" /\ ret = "put tokens"
             \/ op = "disconnect" /\ at = "drop tokens"
             \/ op = "mark" /\ at = "meta" /\ ret = "read sync"
      PROVE  Keys'
  <2>1. h'[i].op = op /\ h'[i].at = at /\ h'[i].ret = ret
    <3>1. CASE StartDrop(i, op, at) /\ ret = "idle"
      BY <1>3, <3>1 DEF StartDrop, Go, Idle
    <3>2. CASE StartOther(i, op, at, ret)
      BY <1>3, <3>2 DEF StartOther, Go, Idle
    <3> QED BY <1>9, <3>1, <3>2
  <2>2. cached' \in {cached, None} /\ (op \in {"lock", "reset"} => cached' = None)
    BY <1>9 DEF StartDrop, StartOther, Changes
  <2> DEFINE r == [op |-> op, at |-> at, ret |-> ret]
  <2>3. r \in [op: Kinds, at: Ats, ret: Rets] /\ r.op = op /\ r.at = at /\ r.ret = ret
    OBVIOUS
  <2> HIDE DEF r
  <2> QED BY <1>7, <1>9, <2>1, <2>2, <2>3
<1>10. /\ {"lock", "reset", "ensure", "unlock", "to pass", "to device", "connect", "disconnect", "mark"} \subseteq Kinds
       /\ {"forget key", "remove", "is initialized", "unlock meta", "protection", "meta", "drop tokens"} \subseteq Ats
       /\ {"idle", "put tokens", "read sync"} \subseteq Rets
  BY DEF Kinds, Ats, Rets, ResetAts, EnsureAts, WriteAts, KeyAts, ChangeAts, Unlocking
<1>11. CASE \/ StartDrop(i, "lock", "forget key") \/ StartDrop(i, "reset", "remove")
            \/ StartOther(i, "ensure", "is initialized", "idle")
            \/ StartOther(i, "unlock", "unlock meta", "idle")
            \/ StartOther(i, "to pass", "protection", "idle")
            \/ StartOther(i, "to device", "protection", "idle")
            \/ StartOther(i, "connect", "meta", "put tokens")
            \/ StartOther(i, "disconnect", "drop tokens", "idle")
            \/ StartOther(i, "mark", "meta", "read sync")
  BY <1>9, <1>10, <1>11 DEF Changes
<1> QED BY <1>8, <1>11 DEF Start

\* A death of the worker keeps the keys, unless it cuts a change of passphrase short.
LEMMA KeysDies ==
  ASSUME Base, KeysInv, WorkerDies
  PROVE  KeysInv'
<1> SUFFICES ASSUME Steady' PROVE Keys'
  BY Zenon DEF KeysInv
<1>1. /\ h' = [j \in Handlers |-> Idle] /\ cached' = None
      /\ session' \in {session, None} /\ UNCHANGED <<disk, overlaps>>
  BY DEF WorkerDies
<1>2. rekeyed' = (rekeyed \/ \E j \in Handlers : h[j].op = "to pass")
  BY Zenon DEF WorkerDies
<1>3. (Alone' <=> Alone) /\ (~rekeyed' => ~rekeyed)
  BY <1>1, <1>2, Zenon DEF Alone
<1>4. Keys
  BY <1>3, Zenon DEF KeysInv, Steady
<1>5. \A j \in Handlers : KeysHeld(j)'
  BY <1>1, KeysIdle
<1>6. /\ KeyOnDisk' = KeyOnDisk /\ (SessionFits => SessionFits')
      /\ (Opens' <=> Opens) /\ (TokensOpen' <=> TokensOpen)
  BY <1>1 DEF KeyOnDisk, SessionFits, Opens, TokensOpen
<1>7. ~rekeyed' => SessionFits
  <2>1. ~rekeyed' => \A j \in Handlers : ~Deriving(j)
    BY <1>2, Zenon DEF Deriving
  <2> QED BY <1>3, <1>4, <2>1, Zenon DEF Keys, KeysStored
<1>8. KeysStored(\E j \in Handlers : Deriving(j), \E j \in Handlers : ToDevice(j))'
  BY <1>1, <1>3, <1>4, <1>6, <1>7, Zenon DEF Keys, KeysStored
<1> QED BY <1>5, <1>8, Zenon DEF Keys

\* Every step keeps the keys.
LEMMA KeysStep ==
  ASSUME Base, Apart, KeysInv, [Next]_vars
  PROVE  KeysInv'
<1>1. ASSUME NEW i \in Handlers, Step(i) PROVE KeysInv'
  <2> SUFFICES ASSUME Steady' PROVE Keys'
    BY Zenon DEF KeysInv
  <2>1. UNCHANGED <<rekeyed, overlaps>>
    BY <1>1, StepKeeps
  <2>2. Steady /\ Keys
    BY <2>1, Zenon DEF KeysInv, Steady, Alone
  <2> QED BY <1>1, <2>2, KeysRequireKey, KeysReads, KeysMint, KeysMemory, KeysBlobs, KeysRewrite,
             KeysSession DEF Step
<1>2. CASE UNCHANGED vars
  <2>1. UNCHANGED <<disk, session, cached, h>> /\ (rekeyed' <=> rekeyed) /\ overlaps' = overlaps
    BY <1>2, Zenon DEF vars
  <2>2. /\ KeyOnDisk' = KeyOnDisk /\ SessionFits' = SessionFits /\ (Alone' <=> Alone)
        /\ (Opens' <=> Opens) /\ (TokensOpen' <=> TokensOpen) /\ (Steady' <=> Steady)
    BY <2>1, Zenon DEF KeyOnDisk, SessionFits, Alone, Opens, TokensOpen, Steady
  <2>3. ASSUME NEW j \in Handlers PROVE KeysHeld(j)' <=> KeysHeld(j)
    <3>1. (Asking(j)' <=> Asking(j)) /\ (Relying(j)' <=> Relying(j)) /\ (Deriving(j)' <=> Deriving(j))
      BY <2>1 DEF Asking, AnyDevice, Relying, Deriving
    <3>2. InHand(j)' <=> InHand(j)
      BY <2>1, <2>2 DEF InHand
    <3>3. Rekeying(j)' <=> Rekeying(j)
      <4>1. UNCHANGED <<meta, deviceKey, tokens, session, cached, h>>
        BY <2>1
      <4>2. (ToDevice(j)' <=> ToDevice(j)) /\ (Deriving(j)' <=> Deriving(j))
        BY <4>1 DEF ToDevice, Deriving
      <4> QED BY <2>1, <2>2, <4>1, <4>2, Zenon DEF Rekeying
    <3> QED BY <2>2, <3>1, <3>2, <3>3, Zenon DEF KeysHeld
  <2>4. Keys' <=> Keys
    BY <2>1, <2>2, <2>3, Zenon DEF Keys, KeysStored, Deriving, ToDevice
  <2> QED BY <2>2, <2>4, Zenon DEF KeysInv
<1> QED BY <1>1, <1>2, KeysStart, KeysDies DEF Next

\* The keys on disk, in the session and in the hands of the handlers fit together as
\* long as they are steady.
LEMMA KeysInvariance == Spec => []KeysInv
<1>1. Init => KeysInv
  <2> SUFFICES ASSUME Init PROVE Keys
    BY DEF KeysInv
  <2>1. /\ \A j \in Handlers : h[j].at = "idle" /\ h[j].op = "none" /\ h[j].ret = "idle"
        /\ meta.protection = "none" /\ cached = None /\ tokens = None
    BY DEF Init, Idle
  <2>2. \A j \in Handlers : KeysHeld(j)
    BY <2>1 DEF KeysHeld, Asking, AnyDevice, InHand, Rekeying, Relying, Deriving, ToDevice, Changes, Resealing
  <2>3. Opens /\ TokensOpen /\ SessionFits
    BY <2>1 DEF Opens, TokensOpen, SessionFits
  <2> QED BY <2>1, <2>2, <2>3 DEF Keys, KeysStored
<1> QED BY <1>1, KeysStep, BaseInvariance, ApartInvariance, PTL DEF Spec

\* What is on disk opens with the key that the meta data leads to: in every state when
\* one handler runs at a time, and else unless a change of keys overlapped another
\* operation or a death cut a change of passphrase short (store.ts:184-186, 232-237).
THEOREM VaultOpens == Spec => []DiskOpens
<1>1. Base /\ KeysInv => DiskOpens
  <2> SUFFICES ASSUME Base, KeysInv PROVE DiskOpens
    OBVIOUS
  <2>1. TypeOK
    BY BaseTypes
  <2>2. Alone => Opens
    BY Zenon DEF KeysInv, Steady, Keys, KeysStored
  <2>3. ~rekeyed => Opens /\ TokensOpen
    BY Zenon DEF KeysInv, Steady, Keys, KeysStored
  <2> QED BY <2>1, <2>2, <2>3, Zenon DEF DiskOpens
<1> QED BY <1>1, BaseInvariance, KeysInvariance, PTL

\* With one handler at a time, whatever came before: behind a lock the contents are out of
\* memory and nobody is about to use the key, but for a change to device mode that has
\* forgotten the session (store.ts:111-117, 150, 170-173).
THEOREM LockIsCold == Spec => []LockedIsCold
<1>1. KeysInv => LockedIsCold
  <2> SUFFICES ASSUME KeysInv, Alone, Locked, ~(\E i \in Handlers : ToDevice(i))
               PROVE  cached = None /\ \A i \in Handlers : h[i].at \notin Opening
    BY Zenon DEF LockedIsCold
  <2>1. cached = None
    BY Zenon DEF KeysInv, Steady, Keys, KeysStored, Locked
  <2>2. ASSUME NEW i \in Handlers PROVE h[i].at \notin Opening
    <3>1. InHand(i)
      BY Zenon DEF KeysInv, Steady, Keys, KeysHeld
    <3> QED BY <3>1 DEF InHand, Opening, Locked
  <2> QED BY <2>1, <2>2
<1> QED BY <1>1, KeysInvariance, PTL
================================================================================
