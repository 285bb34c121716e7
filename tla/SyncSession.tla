------------------------------ MODULE SyncSession ------------------------------
(***************************************************************************)
(* The session a sync runs in: runSync and storageClient of                *)
(* src/src/sync15/engine.ts with the token server and the storage client.  *)
(*                                                                         *)
(* The engine keeps an access token and a storage node in memory from one  *)
(* run to the next; accounts are disconnected and connected in the vault   *)
(* meanwhile, the servers revoke and reassign, the clock goes on and the   *)
(* worker dies.  Runs are coalesced, so there is one at most.  Each action *)
(* is what a run does between two awaits; `at' is the await it is in.      *)
(*                                                                         *)
(* What stands for what.  An access token and a node belong to an account; *)
(* `fresh' is what the client's clock says of their lifetime, `good'       *)
(* whether the server still takes them.  kSync and kid are the account     *)
(* they belong to: keys of one do not open the other's crypto/keys.  What  *)
(* a collection's pull and push do is in SyncEngine; here they succeed or  *)
(* fail.                                                                   *)
(***************************************************************************)
EXTENDS Integers

CONSTANTS
  Accounts, None,
  Engines,       \* how many collections a run syncs
  MaxSwitches,   \* bound: accounts connected
  MaxFaults,     \* bound: requests that fail, tokens revoked, nodes reassigned
  MaxBackoffs,   \* bound: answers that ask for a backoff
  MaxDeaths      \* bound: worker deaths

ASSUME SessionAssumption ==
  /\ None \notin Accounts /\ Engines \in Nat \ {0}
  /\ MaxSwitches \in Nat /\ MaxFaults \in Nat /\ MaxBackoffs \in Nat /\ MaxDeaths \in Nat

VARIABLES
  tokens,        \* the vault: whose tokens it holds
  granted,       \* the accounts server takes the refresh token among them
  leaving,       \* a disconnect waits for the accounts server
  \* The engine's memory.
  accessToken, node, configured,
  \* The run's: the await it is in, the account whose tokens it read, its storage
  \* client, whether that was told to back off, the account of its collection
  \* keys, the collections still to do, whether one failed.
  at, account, client, told, keys, todo, failed,
  \* History: account and keys of what was written, how often runs met 401 with one
  \* node, whether the last one did, and for whom it succeeded.
  written, refusals, refused, served,
  switches, faults, backoffs, deaths

vault == <<tokens, granted, leaving>>
memory == <<accessToken, node, configured>>
locals == <<account, client, keys, todo, failed>>
talk == <<told, backoffs>>
history == <<written, refusals, refused, served>>
bounds == <<switches, faults, deaths>>
vars == <<vault, memory, at, locals, talk, history, bounds>>

Credential(a, fresh, good) == [acct |-> a, fresh |-> fresh, good |-> good]
Nothing == Credential(None, FALSE, FALSE)

Init ==
  /\ tokens = None /\ granted = FALSE /\ leaving = FALSE
  /\ accessToken = Nothing /\ node = Nothing /\ configured = FALSE
  /\ at = "idle" /\ account = None /\ client = Nothing /\ keys = None /\ todo = 0 /\ failed = FALSE
  /\ told = FALSE /\ backoffs = 0
  /\ written = {} /\ refusals = 0 /\ refused = FALSE /\ served = None
  /\ switches = 0 /\ faults = 0 /\ deaths = 0

\* A request without answer, or an error of no interest here.
Fault == faults < MaxFaults /\ faults' = faults + 1 /\ UNCHANGED <<switches, deaths>>

-----------------------------------------------------------------------------
\* The beginning and the end of a run.

\* sync, when no run is under way to be joined.
Start ==
  /\ at = "idle" /\ at' = "tokens"
  /\ refused' = FALSE
  /\ UNCHANGED <<vault, memory, locals, talk, written, refusals, served, bounds>>

\* A run's locals are gone.
Forget == account' = None /\ client' = Nothing /\ keys' = None /\ todo' = 0 /\ failed' = FALSE

\* The run is over, for account `who' or in vain.
Ends(who, met401) ==
  /\ at' = "idle" /\ Forget
  /\ served' = who
  /\ refused' = met401 /\ refusals' = IF met401 THEN refusals + 1 ELSE refusals
  /\ UNCHANGED written

\* The catch clause: only StorageAuthError drops what is cached.
Fails == Ends(None, refused) /\ UNCHANGED memory

-----------------------------------------------------------------------------
\* storageClient: tokens, access token, node, and a new storage client.

\* A faulty variant: a token is asked for only when there is none.
NeedsToken_NoExpiry == accessToken.acct = None
NeedsToken == accessToken.acct = None \/ ~accessToken.fresh
NeedsNode == node.acct = None \/ ~node.fresh

ReadTokens ==
  /\ at = "tokens"
  /\ IF tokens = None
       THEN Fails /\ UNCHANGED told
       ELSE /\ at' = IF NeedsToken THEN "refresh" ELSE IF NeedsNode THEN "node" ELSE "info"
            /\ account' = tokens /\ client' = node /\ told' = FALSE
            /\ UNCHANGED <<keys, todo, failed, memory, history>>
  /\ UNCHANGED <<vault, backoffs, bounds>>

\* The refresh token is the one read before; another account's may be in the
\* vault by now.
GrantsTo(a) == tokens = a => granted
RefusesTo(a) == tokens = a => ~granted

\* A faulty variant: the node of the last token stays.
Refresh_KeepsNode ==
  /\ at = "refresh"
  /\ \/ /\ GrantsTo(account)
        /\ accessToken' = Credential(account, TRUE, TRUE)
        /\ at' = (IF NeedsNode THEN "node" ELSE "info") /\ client' = node
        /\ UNCHANGED <<node, configured, account, keys, todo, failed, history>>
     \/ RefusesTo(account) /\ Fails
  /\ UNCHANGED <<vault, talk, bounds>>

Refresh ==
  /\ at = "refresh"
  /\ \/ /\ GrantsTo(account)
        /\ accessToken' = Credential(account, TRUE, TRUE) /\ node' = Nothing
        /\ at' = "node"
        /\ UNCHANGED <<configured, locals, history>>
     \/ RefusesTo(account) /\ Fails
  /\ UNCHANGED <<vault, talk, bounds>>

\* The token server refuses a revoked token and one of another account than the
\* X-KeyID names; the engine keeps the token all the same.
FetchNode ==
  /\ at = "node"
  /\ IF accessToken.good /\ accessToken.acct = account
       THEN /\ node' = Credential(account, TRUE, TRUE) /\ client' = node'
            /\ at' = "info" /\ refusals' = 0
            /\ UNCHANGED <<accessToken, configured, account, keys, todo, failed, written, refused, served>>
       ELSE Fails
  /\ UNCHANGED <<vault, talk, bounds>>

-----------------------------------------------------------------------------
\* Requests to the storage server.

\* Any answer may ask for a backoff.
Hears ==
  \/ UNCHANGED talk
  \/ backoffs < MaxBackoffs /\ backoffs' = backoffs + 1 /\ told' = TRUE

\* request, which sends nothing during a backoff the client was told of.
Sends == ~told /\ Hears

\* The server turns down credentials of a node the account left.  Those whose
\* time is up it takes to the end of the run, for the engine replaces them five
\* minutes early (tokenserver.ts:93-95).
Accepted == client.good

\* infoCollections, then meta/global.
Info ==
  /\ at = "info" /\ Sends /\ Accepted
  /\ at' = "meta"
  /\ UNCHANGED <<vault, memory, locals, history, bounds>>

ReadMeta ==
  /\ at = "meta" /\ Sends /\ Accepted
  /\ at' = IF configured THEN "key tokens" ELSE "config"
  /\ UNCHANGED <<vault, memory, locals, history, bounds>>

\* info/configuration, asked for once; whatever goes wrong counts as no limits.
Configure ==
  /\ at = "config" /\ (Sends \/ (told /\ UNCHANGED talk))
  /\ configured' = TRUE /\ at' = "key tokens"
  /\ UNCHANGED <<vault, accessToken, node, locals, history, bounds>>

\* readCollectionKeys reads the tokens again.
KeyTokens ==
  /\ at = "key tokens"
  /\ IF tokens = None
       THEN Fails
       ELSE /\ at' = "keys" /\ keys' = tokens
            /\ UNCHANGED <<account, client, todo, failed, memory, history>>
  /\ UNCHANGED <<vault, talk, bounds>>

Collecting ==
  /\ at' = "collection" /\ todo' = Engines
  /\ UNCHANGED <<account, client, keys, failed, memory, history>>

\* A faulty variant: the bundle is used without its HMAC being checked.
ReadKeys_NoHmac ==
  /\ at = "keys" /\ Sends /\ Accepted /\ Collecting
  /\ UNCHANGED <<vault, bounds>>

ReadKeys ==
  /\ at = "keys" /\ Sends /\ Accepted
  /\ IF keys = client.acct THEN Collecting ELSE Fails
  /\ UNCHANGED <<vault, bounds>>

\* A faulty variant: the node outlives StorageAuthError.
AuthError_KeepsNode ==
  /\ at \in {"info", "meta", "keys"} /\ Sends /\ ~Accepted
  /\ Ends(None, TRUE)
  /\ UNCHANGED <<vault, memory, bounds>>

\* StorageAuthError outside a collection: the next run gets a token and a node.
AuthError ==
  /\ at \in {"info", "meta", "keys"} /\ Sends /\ ~Accepted
  /\ Ends(None, TRUE)
  /\ accessToken' = Nothing /\ node' = Nothing
  /\ UNCHANGED <<vault, configured, bounds>>

\* Another error, or a request that a backoff holds back.
RunFails ==
  /\ \/ at \in {"tokens", "refresh", "node", "key tokens", "save"} /\ Fault /\ UNCHANGED talk
     \/ at \in {"info", "meta", "keys"} /\ Sends /\ Fault
     \/ at \in {"info", "meta", "keys"} /\ told /\ UNCHANGED <<talk, bounds>>
  /\ Fails
  /\ UNCHANGED vault

-----------------------------------------------------------------------------
\* The collections, one after the other; a failed one does not stop the others.

Onwards == todo' = todo - 1 /\ at' = IF todo = 1 THEN "save" ELSE "collection"

SyncCollection ==
  /\ at = "collection" /\ Sends /\ Accepted
  /\ written' = written \cup {<<client.acct, keys>>}
  /\ Onwards
  /\ UNCHANGED <<vault, memory, account, client, keys, failed, refusals, refused, served, bounds>>

CollectionFails ==
  /\ at = "collection"
  /\ \/ Sends /\ ~Accepted /\ refused' = TRUE /\ UNCHANGED bounds
     \/ Sends /\ Fault /\ UNCHANGED refused
     \/ told /\ UNCHANGED <<talk, refused, bounds>>
  /\ failed' = TRUE /\ Onwards
  /\ UNCHANGED <<vault, memory, account, client, keys, written, refusals, served>>

Save ==
  /\ at = "save"
  /\ Ends(IF failed THEN None ELSE client.acct, refused)
  /\ UNCHANGED <<vault, memory, talk, bounds>>

-----------------------------------------------------------------------------
\* Around the runs.

\* writeTokens at the end of a sign-in.
Connect(a) ==
  /\ switches < MaxSwitches /\ switches' = switches + 1
  /\ tokens' = a /\ granted' = TRUE
  /\ UNCHANGED <<leaving, memory, at, locals, talk, history, faults, deaths>>

\* account/disconnect destroys the refresh token, then forgets the tokens,
\* whosever they are by then.
Disconnect ==
  /\ tokens # None /\ ~leaving /\ leaving' = TRUE
  /\ granted' \in {granted, FALSE}
  /\ UNCHANGED <<tokens, memory, at, locals, talk, history, bounds>>

Disconnected ==
  /\ leaving /\ leaving' = FALSE
  /\ tokens' = None
  /\ UNCHANGED <<granted, memory, at, locals, talk, history, bounds>>

\* The servers revoke the access token, or move the account to another node.
Revoke ==
  /\ Fault
  /\ accessToken' = Credential(accessToken.acct, accessToken.fresh, FALSE)
  /\ UNCHANGED <<vault, node, configured, at, locals, talk, history>>

Left(c, a) == IF c.acct = a THEN Credential(a, c.fresh, FALSE) ELSE c

Reassign(a) ==
  /\ Fault
  /\ node' = Left(node, a) /\ client' = Left(client, a)
  /\ UNCHANGED <<vault, accessToken, configured, at, account, keys, todo, failed, talk, history>>

\* Time goes by, for the access token, the node and a backoff.
TokenAges ==
  /\ accessToken.fresh
  /\ accessToken' = Credential(accessToken.acct, FALSE, accessToken.good)
  /\ UNCHANGED <<vault, node, configured, at, locals, talk, history, bounds>>

NodeAges ==
  /\ node.fresh
  /\ node' = Credential(node.acct, FALSE, node.good)
  /\ client' = Credential(client.acct, FALSE, client.good)
  /\ UNCHANGED <<vault, accessToken, configured, at, account, keys, todo, failed, talk, history, bounds>>

BackoffEnds ==
  /\ told /\ told' = FALSE
  /\ UNCHANGED <<vault, memory, at, locals, backoffs, history, bounds>>

WorkerDies ==
  /\ deaths < MaxDeaths /\ deaths' = deaths + 1
  /\ accessToken' = Nothing /\ node' = Nothing /\ configured' = FALSE
  /\ at' = "idle" /\ Forget
  /\ leaving' = FALSE /\ refusals' = 0 /\ served' = None
  /\ UNCHANGED <<tokens, granted, talk, written, refused, switches, faults>>

RunStep ==
  \/ Start \/ ReadTokens \/ Refresh \/ FetchNode \/ Info \/ ReadMeta \/ Configure \/ KeyTokens
  \/ ReadKeys \/ AuthError \/ RunFails \/ SyncCollection \/ CollectionFails \/ Save

Clock == TokenAges \/ NodeAges \/ BackoffEnds

Next ==
  \/ RunStep \/ Clock \/ Disconnect \/ Disconnected \/ Revoke \/ WorkerDies
  \/ \E a \in Accounts : Connect(a) \/ Reassign(a)

Spec == Init /\ [][Next]_vars

\* The periodic alarm starts runs for ever, what a run awaits settles, time passes.
FairSpec == Spec /\ WF_vars(RunStep) /\ WF_vars(TokenAges) /\ WF_vars(NodeAges) /\ WF_vars(BackoffEnds)

-----------------------------------------------------------------------------
\* Properties.

Maybe == Accounts \cup {None}
Credentials == [acct: Maybe, fresh: BOOLEAN, good: BOOLEAN]

\* The values of the variables.
TypeOK ==
  /\ tokens \in Maybe /\ granted \in BOOLEAN /\ leaving \in BOOLEAN
  /\ accessToken \in Credentials /\ node \in Credentials /\ configured \in BOOLEAN
  /\ at \in {"idle", "tokens", "refresh", "node", "info", "meta", "config", "key tokens", "keys",
             "collection", "save"}
  /\ account \in Maybe /\ client \in Credentials /\ keys \in Maybe
  /\ todo \in 0..Engines /\ failed \in BOOLEAN
  /\ told \in BOOLEAN /\ backoffs \in 0..MaxBackoffs
  /\ written \subseteq Maybe \X Maybe /\ refusals \in Nat /\ refused \in BOOLEAN /\ served \in Maybe
  /\ switches \in 0..MaxSwitches /\ faults \in 0..MaxFaults /\ deaths \in 0..MaxDeaths

\* The cached node is one of the cached access token's account, whatever account
\* is connected meanwhile (engine.ts:224).
NodeOfToken == node.acct \in {None, accessToken.acct}

\* What a run writes to an account is encrypted for that account, although the
\* run reads the tokens twice and caches span accounts.
RightKeys == \A w \in written : w[1] = w[2]

\* A node that answers 401 is used for one more run at most: a 401 within a
\* collection is swallowed, one before ends it (engine.ts:152-165, 180-184).
AuthErrorsEnd == refusals <= 2

\* An account that stays connected and authorised is synced again and again, whatever was
\* cached for another one or refused (engine.ts:209, 227).
Recovers == \A a \in Accounts : <>[](tokens = a /\ granted) => []<>(served = a)

================================================================================
