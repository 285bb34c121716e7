--------------------------- MODULE SyncSessionProofs ---------------------------
(***************************************************************************)
(* The session of a sync, for any accounts, number of collections and      *)
(* bounds: the cached node belongs to the cached token's account, what is  *)
(* written is encrypted for the account it goes to, and a node that        *)
(* answers 401 is soon replaced.                                           *)
(***************************************************************************)
EXTENDS SyncSession, TLAPS

Talking == {"info", "meta", "config", "key tokens", "keys", "collection", "save"}
Listed == Talking \ {"info"}              \* info/collections was answered
Before == {"tokens", "refresh", "node", "info", "meta", "config", "key tokens", "keys"}

\* The loop over the collections: one is left to do, and the keys were checked.
LoopInv ==
  /\ at = "collection" => todo > 0
  /\ at \in {"collection", "save"} => keys = client.acct

\* A run sets out for an account and talks to the cached node.
ClientInv ==
  /\ at \in {"refresh", "node"} => account # None
  /\ at \in Talking => client = node /\ node.acct # None

\* Only a node that went bad was refused, once in a run that had begun while it
\* was good and once in the run that drops it.
RefusedInv ==
  /\ at \in Before => ~refused
  /\ at \in {"collection", "save"} /\ refused => ~node.good
  /\ node.good => refusals = 0
  /\ at \in Listed => refusals = 0
  /\ node.acct # None => refusals <= 1
  /\ refusals <= 2

Inv == TypeOK /\ NodeOfToken /\ RightKeys /\ LoopInv /\ ClientInv /\ RefusedInv

USE DEF vault, memory, locals, talk, history, bounds

-----------------------------------------------------------------------------

\* What Credential makes has the parts it was given.
LEMMA CredentialType ==
  ASSUME NEW a \in Maybe, NEW f \in BOOLEAN, NEW g \in BOOLEAN
  PROVE  /\ Credential(a, f, g) \in Credentials
         /\ Credential(a, f, g).acct = a /\ Credential(a, f, g).good = g
BY DEF Credential, Credentials

\* Nothing is a credential of no account.
LEMMA NothingType == Nothing \in Credentials /\ Nothing.acct = None /\ ~Nothing.good
BY CredentialType DEF Nothing, Maybe

\* The worker starts with nothing cached and no run.
LEMMA InitInv == Init => Inv
<1> SUFFICES ASSUME Init PROVE Inv
  OBVIOUS
<1>1. FALSE \in BOOLEAN /\ None \in Maybe /\ {} \subseteq Maybe \X Maybe
  BY DEF Maybe
<1>2. 0 \in 0..MaxSwitches /\ 0 \in 0..MaxFaults /\ 0 \in 0..MaxDeaths /\ 0 \in 0..MaxBackoffs
      /\ 0 \in 0..Engines /\ 0 \in Nat
  BY SessionAssumption
<1>3. TypeOK
  BY <1>1, <1>2, NothingType, Zenon DEF Init, TypeOK
<1>4. NodeOfToken /\ RightKeys /\ LoopInv /\ ClientInv
  BY NothingType DEF Init, NodeOfToken, RightKeys, LoopInv, ClientInv, Talking
<1>5. RefusedInv
  BY NothingType DEF Init, RefusedInv, Before, Listed, Talking
<1> QED BY <1>3, <1>4, <1>5 DEF Inv

\* A run that ends leaves its locals empty.
LEMMA EndsInv ==
  ASSUME Inv, NEW who \in Maybe, NEW met401 \in BOOLEAN, Ends(who, met401),
         UNCHANGED <<tokens, granted, leaving, configured, switches, deaths>>,
         faults' \in 0..MaxFaults, backoffs' \in 0..MaxBackoffs,
         told' \in BOOLEAN,
         accessToken' \in Credentials, node' \in Credentials,
         node'.acct \in {None, accessToken'.acct},
         met401 => refusals <= 1 /\ ~node'.good /\ (node'.acct # None => refusals = 0),
         ~met401 => UNCHANGED node
  PROVE  Inv'
<1>1. /\ at' = "idle" /\ account' = None /\ client' = Nothing /\ keys' = None /\ todo' = 0
      /\ failed' = FALSE /\ served' = who /\ refused' = met401 /\ written' = written
      /\ refusals' = IF met401 THEN refusals + 1 ELSE refusals
  BY DEF Ends, Forget
<1>a. refusals \in Nat
  BY DEF Inv, TypeOK
<1>b. 0 \in 0..Engines
  BY SessionAssumption
<1>0. refusals \in Nat /\ 0 \in 0..Engines
  BY <1>a, <1>b
<1>2. refusals' \in Nat /\ 0 \in 0..Engines
  BY ONLY <1>0, <1>1
<1>3. FALSE \in BOOLEAN /\ None \in Maybe
  BY DEF Maybe
<1>4. TypeOK'
  BY <1>1, <1>2, <1>3, NothingType, Zenon DEF Inv, TypeOK
<1>5. NodeOfToken' /\ RightKeys' /\ LoopInv' /\ ClientInv'
  BY <1>1 DEF Inv, NodeOfToken, RightKeys, LoopInv, ClientInv, Talking
<1>6. RefusedInv'
  <2>1. CASE met401
    <3>1. refusals' = refusals + 1 /\ at' = "idle"
      BY <2>1, <1>1
    <3>2. refusals <= 1 /\ ~node'.good /\ (node'.acct # None => refusals = 0)
      BY <2>1
    <3> QED BY ONLY <3>1, <3>2, <1>0 DEF RefusedInv, Before, Listed, Talking
  <2>2. CASE ~met401
    BY <2>2, <1>1 DEF Inv, TypeOK, RefusedInv, Before, Listed, Talking
  <2> QED BY <2>1, <2>2
<1> QED BY <1>4, <1>5, <1>6 DEF Inv

\* A failure ends the run and leaves what is cached.
LEMMA FailsInv ==
  ASSUME Inv, Fails,
         UNCHANGED <<tokens, granted, leaving, switches, deaths>>,
         faults' \in 0..MaxFaults, backoffs' \in 0..MaxBackoffs,
         told' \in BOOLEAN,
         at \in Before \cup {"save"}
  PROVE  Inv'
<1>1. Ends(None, refused) /\ UNCHANGED memory
  BY DEF Fails
<1>2. None \in Maybe /\ refused \in BOOLEAN /\ accessToken \in Credentials /\ node \in Credentials
  BY DEF Inv, TypeOK, Maybe
<1>3. node.acct \in {None, accessToken.acct}
  BY DEF Inv, NodeOfToken
<1>4. refused => at = "save"
  BY DEF Inv, RefusedInv
<1>5. refused => refusals <= 1 /\ ~node.good /\ (node.acct # None => refusals = 0)
  BY <1>4 DEF Inv, RefusedInv, Listed, Talking
<1>6. /\ accessToken' \in Credentials /\ node' \in Credentials
      /\ node'.acct \in {None, accessToken'.acct}
      /\ refused => refusals <= 1 /\ ~node'.good /\ (node'.acct # None => refusals = 0)
      /\ UNCHANGED node /\ UNCHANGED configured
  BY <1>1, <1>2, <1>3, <1>5
<1> QED BY <1>1, <1>2, <1>6, EndsInv

\* A request changes what was heard of a backoff within its bound.
LEMMA SendsTypes ==
  ASSUME TypeOK, Sends
  PROVE  told' \in BOOLEAN /\ backoffs' \in 0..MaxBackoffs
<1>1. told' \in BOOLEAN
  BY Zenon DEF TypeOK, Sends, Hears
<1>2. backoffs \in 0..MaxBackoffs /\ (backoffs' = backoffs \/ (backoffs < MaxBackoffs /\ backoffs' = backoffs + 1))
  BY DEF TypeOK, Sends, Hears
<1>3. backoffs' \in 0..MaxBackoffs
  BY <1>2, SessionAssumption
<1> QED BY <1>1, <1>3

\* A fault is counted within its bound.
LEMMA FaultTypes ==
  ASSUME TypeOK, Fault
  PROVE  faults' \in 0..MaxFaults /\ UNCHANGED <<switches, deaths>>
<1>1. faults \in 0..MaxFaults
  BY DEF TypeOK
<1> QED BY <1>1, SessionAssumption DEF Fault

\* Steps that change neither what is cached, nor what is written or refused.
LEMMA QuietStep ==
  ASSUME Inv, TypeOK',
         UNCHANGED <<accessToken, node, written, refusals, refused>>,
         at' \in {"refresh", "node"} => account' # None,
         at' \in Talking =>
           client' = node /\ node.acct # None /\ (at' \in Listed => refusals = 0),
         at' \in Before => ~refused,
         at' = "collection" => todo' > 0,
         at' \in {"collection", "save"} => keys' = client'.acct /\ (refused => ~node.good)
  PROVE  Inv'
<1>1. NodeOfToken' /\ RightKeys'
  BY DEF Inv, NodeOfToken, RightKeys
<1>2. LoopInv' /\ ClientInv'
  BY DEF LoopInv, ClientInv
<1>3. RefusedInv'
  BY DEF Inv, RefusedInv, Listed
<1> QED BY <1>1, <1>2, <1>3 DEF Inv

\* A run starts with locals that are empty.
LEMMA StartInv == Inv /\ Start => Inv'
<1> SUFFICES ASSUME Inv, Start PROVE Inv'
  OBVIOUS
<1>1. TypeOK'
  BY Zenon DEF Inv, TypeOK, Start
<1>2. NodeOfToken' /\ RightKeys' /\ LoopInv' /\ ClientInv'
  BY DEF Inv, Start, NodeOfToken, RightKeys, LoopInv, ClientInv, Talking
<1>3. RefusedInv'
  BY DEF Inv, Start, RefusedInv, Before, Listed, Talking
<1> QED BY <1>1, <1>2, <1>3 DEF Inv

\* The run reads the tokens of the account connected now.
LEMMA ReadTokensInv == Inv /\ ReadTokens => Inv'
<1> SUFFICES ASSUME Inv, ReadTokens PROVE Inv'
  OBVIOUS
<1>t. faults \in 0..MaxFaults /\ backoffs \in 0..MaxBackoffs /\ told \in BOOLEAN
  BY DEF Inv, TypeOK
<1>1. CASE tokens = None
  BY <1>1, <1>t, FailsInv DEF ReadTokens, Before
<1>2. CASE tokens # None
  <2>1. /\ at' \in {"refresh", "node", "info"} /\ (at' = "info" => ~NeedsNode)
        /\ account' = tokens /\ client' = node /\ told' = FALSE
        /\ UNCHANGED <<vault, backoffs, bounds, keys, todo, failed, memory, history>>
    BY <1>2 DEF ReadTokens
  <2>2. TypeOK'
    BY <2>1, Zenon DEF Inv, TypeOK
  <2>3. at = "tokens" /\ ~refused
    BY DEF ReadTokens, Inv, RefusedInv, Before
  <2>4. at' \in Talking => client' = node /\ node.acct # None /\ at' \notin Listed
    BY <2>1 DEF NeedsNode, Talking, Listed
  <2>5. UNCHANGED <<accessToken, node, written, refusals, refused>> /\ account' # None
        /\ at' \notin {"collection", "save"}
    BY <1>2, <2>1
  <2> QED BY <2>2, <2>3, <2>4, <2>5, QuietStep
<1> QED BY <1>1, <1>2

\* A new access token drops the node of the one before.
LEMMA RefreshInv == Inv /\ Refresh => Inv'
<1> SUFFICES ASSUME Inv, Refresh PROVE Inv'
  OBVIOUS
<1>t. faults \in 0..MaxFaults /\ backoffs \in 0..MaxBackoffs /\ told \in BOOLEAN
      /\ account \in Maybe
  BY DEF Inv, TypeOK
<1>1. CASE Fails
  BY <1>1, <1>t, FailsInv DEF Refresh, Before
<1>2. ASSUME accessToken' = Credential(account, TRUE, TRUE), node' = Nothing, at' = "node",
             UNCHANGED <<configured, locals, history>>
      PROVE  Inv'
  <2>1. /\ accessToken' \in Credentials /\ at = "refresh"
        /\ UNCHANGED <<vault, talk, bounds>>
    BY <1>2, <1>t, CredentialType DEF Refresh
  <2>2. TypeOK'
    BY <1>2, <2>1, NothingType, Zenon DEF Inv, TypeOK
  <2>3. NodeOfToken' /\ RightKeys' /\ LoopInv' /\ ClientInv'
    BY <1>2, <2>1, NothingType DEF Inv, NodeOfToken, RightKeys, LoopInv, ClientInv, Talking
  <2>4. RefusedInv'
    BY <1>2, <2>1, NothingType DEF Inv, RefusedInv, Before, Listed, Talking
  <2> QED BY <2>2, <2>3, <2>4 DEF Inv
<1> QED BY <1>1, <1>2 DEF Refresh

\* A node is of the account of its access token, or there is none.
LEMMA FetchNodeInv == Inv /\ FetchNode => Inv'
<1> SUFFICES ASSUME Inv, FetchNode PROVE Inv'
  OBVIOUS
<1>t. faults \in 0..MaxFaults /\ backoffs \in 0..MaxBackoffs /\ told \in BOOLEAN
      /\ account \in Maybe
  BY DEF Inv, TypeOK
<1>1. CASE ~(accessToken.good /\ accessToken.acct = account)
  BY <1>1, <1>t, FailsInv DEF FetchNode, Before
<1>2. CASE accessToken.good /\ accessToken.acct = account
  <2>1. /\ node' \in Credentials /\ node'.acct = account /\ client' = node'
        /\ at' = "info" /\ at = "node" /\ refusals' = 0
        /\ UNCHANGED <<vault, talk, bounds, accessToken, configured, account, keys, todo, failed,
                       written, refused, served>>
    BY <1>2, <1>t, CredentialType DEF FetchNode
  <2>2. 0 \in Nat
    OBVIOUS
  <2>3. TypeOK'
    BY <2>1, <2>2, Zenon DEF Inv, TypeOK
  <2>4. accessToken.acct # None
    BY <1>2, <2>1 DEF Inv, ClientInv
  <2>5. NodeOfToken' /\ RightKeys' /\ LoopInv' /\ ClientInv'
    BY <1>2, <2>1, <2>4 DEF Inv, NodeOfToken, RightKeys, LoopInv, ClientInv, Talking
  <2>6. RefusedInv'
    BY <2>1 DEF Inv, RefusedInv, Before, Listed, Talking
  <2> QED BY <2>3, <2>5, <2>6 DEF Inv
<1> QED BY <1>1, <1>2

\* info/collections: the run goes on to meta/global.
LEMMA InfoInv == Inv /\ Info => Inv'
<1> SUFFICES ASSUME Inv, Info PROVE Inv'
  OBVIOUS
<1>1. /\ at = "info" /\ at' = "meta" /\ client.good
      /\ UNCHANGED <<vault, memory, locals, history, bounds>>
  BY DEF Info, Accepted
<1>2. TypeOK'
  BY <1>1, SendsTypes, Zenon DEF Info, Inv, TypeOK
<1>3. client = node /\ node.acct # None /\ refusals = 0 /\ ~refused
  BY <1>1 DEF Inv, ClientInv, RefusedInv, Talking, Before
<1> QED BY <1>1, <1>2, <1>3, QuietStep

\* meta/global: the run goes on to the configuration or to the keys.
LEMMA ReadMetaInv == Inv /\ ReadMeta => Inv'
<1> SUFFICES ASSUME Inv, ReadMeta PROVE Inv'
  OBVIOUS
<1>1. /\ at = "meta" /\ at' \in {"key tokens", "config"}
      /\ UNCHANGED <<vault, memory, locals, history, bounds>>
  BY DEF ReadMeta
<1>2. TypeOK'
  BY <1>1, SendsTypes, Zenon DEF ReadMeta, Inv, TypeOK
<1>3. client = node /\ node.acct # None /\ refusals = 0 /\ ~refused
  BY <1>1 DEF Inv, ClientInv, RefusedInv, Talking, Before, Listed
<1> QED BY <1>1, <1>2, <1>3, QuietStep

\* The configuration is asked for once in the worker's life.
LEMMA ConfigureInv == Inv /\ Configure => Inv'
<1> SUFFICES ASSUME Inv, Configure PROVE Inv'
  OBVIOUS
<1>1. /\ at = "config" /\ at' = "key tokens" /\ configured' = TRUE
      /\ UNCHANGED <<vault, accessToken, node, locals, history, bounds>>
  BY DEF Configure
<1>2. told' \in BOOLEAN /\ backoffs' \in 0..MaxBackoffs
  <2>1. CASE Sends
    BY <2>1, SendsTypes DEF Inv
  <2>2. CASE UNCHANGED talk
    BY <2>2, Zenon DEF Inv, TypeOK
  <2> QED BY <2>1, <2>2 DEF Configure
<1>3. TypeOK'
  BY <1>1, <1>2, Zenon DEF Inv, TypeOK
<1>4. client = node /\ node.acct # None /\ refusals = 0 /\ ~refused
  BY <1>1 DEF Inv, ClientInv, RefusedInv, Talking, Before, Listed
<1> QED BY <1>1, <1>3, <1>4, QuietStep

\* The keys are those of the account in the vault now, which may be another one.
LEMMA KeyTokensInv == Inv /\ KeyTokens => Inv'
<1> SUFFICES ASSUME Inv, KeyTokens PROVE Inv'
  OBVIOUS
<1>t. faults \in 0..MaxFaults /\ backoffs \in 0..MaxBackoffs /\ told \in BOOLEAN
  BY DEF Inv, TypeOK
<1>1. CASE tokens = None
  BY <1>1, <1>t, FailsInv DEF KeyTokens, Before
<1>2. CASE tokens # None
  <2>1. /\ at = "key tokens" /\ at' = "keys" /\ keys' = tokens
        /\ UNCHANGED <<vault, talk, bounds, account, client, todo, failed, memory, history>>
    BY <1>2 DEF KeyTokens
  <2>2. TypeOK'
    BY <2>1, Zenon DEF Inv, TypeOK
  <2>3. client = node /\ node.acct # None /\ refusals = 0 /\ ~refused
    BY <2>1 DEF Inv, ClientInv, RefusedInv, Talking, Before, Listed
  <2> QED BY <2>1, <2>2, <2>3, QuietStep
<1> QED BY <1>1, <1>2

\* crypto/keys opens only with the keys of the account it belongs to.
LEMMA ReadKeysInv == Inv /\ ReadKeys => Inv'
<1> SUFFICES ASSUME Inv, ReadKeys PROVE Inv'
  OBVIOUS
<1>s. told' \in BOOLEAN /\ backoffs' \in 0..MaxBackoffs
  BY SendsTypes DEF ReadKeys, Inv
<1>1. CASE keys # client.acct
  <2>1. faults' \in 0..MaxFaults
    BY DEF Inv, TypeOK, ReadKeys
  <2> QED BY <1>1, <2>1, <1>s, FailsInv DEF ReadKeys, Before
<1>2. CASE keys = client.acct
  <2>1. /\ at = "keys" /\ at' = "collection" /\ todo' = Engines
        /\ UNCHANGED <<vault, bounds, account, client, keys, failed, memory, history>>
    BY <1>2 DEF ReadKeys, Collecting
  <2>2. todo' \in 0..Engines /\ todo' > 0
    BY <2>1, SessionAssumption
  <2>3. TypeOK'
    BY <2>1, <2>2, <1>s, Zenon DEF Inv, TypeOK
  <2>4. client = node /\ node.acct # None /\ refusals = 0 /\ ~refused
    BY <2>1 DEF Inv, ClientInv, RefusedInv, Talking, Before, Listed
  <2> QED BY <1>2, <2>1, <2>2, <2>3, <2>4, QuietStep
<1> QED BY <1>1, <1>2

\* A 401 before the collections ends the run and drops the token and the node.
LEMMA AuthErrorInv == Inv /\ AuthError => Inv'
<1> SUFFICES ASSUME Inv, AuthError PROVE Inv'
  OBVIOUS
<1>s. told' \in BOOLEAN /\ backoffs' \in 0..MaxBackoffs
  BY SendsTypes DEF AuthError, Inv
<1>1. /\ at \in {"info", "meta", "keys"} /\ Ends(None, TRUE)
      /\ accessToken' = Nothing /\ node' = Nothing
      /\ UNCHANGED <<tokens, granted, leaving, configured, switches, deaths>> /\ faults' = faults
  BY DEF AuthError
<1>2. None \in Maybe /\ TRUE \in BOOLEAN /\ faults' \in 0..MaxFaults
  BY <1>1 DEF Inv, TypeOK, Maybe
<1>3. refusals <= 1
  BY <1>1 DEF Inv, RefusedInv, ClientInv, Talking
<1>4. /\ accessToken' \in Credentials /\ node' \in Credentials
      /\ node'.acct \in {None, accessToken'.acct} /\ node'.acct = None /\ ~node'.good
  BY <1>1, NothingType
<1> QED BY <1>s, <1>1, <1>2, <1>3, <1>4, EndsInv

\* Another failure of the run's own steps ends it and leaves what is cached.
LEMMA RunFailsInv == Inv /\ RunFails => Inv'
<1> SUFFICES ASSUME Inv, RunFails PROVE Inv'
  OBVIOUS
<1>1. /\ Fails /\ UNCHANGED <<tokens, granted, leaving>> /\ at \in Before \cup {"save"}
  BY DEF RunFails, Before
<1>2. faults' \in 0..MaxFaults /\ UNCHANGED <<switches, deaths>>
  <2>1. CASE Fault
    BY <2>1, FaultTypes DEF Inv
  <2>2. CASE UNCHANGED bounds
    BY <2>2 DEF Inv, TypeOK
  <2> QED BY <2>1, <2>2 DEF RunFails
<1>3. told' \in BOOLEAN /\ backoffs' \in 0..MaxBackoffs
  <2>1. CASE Sends
    BY <2>1, SendsTypes DEF Inv
  <2>2. CASE UNCHANGED talk
    BY <2>2, Zenon DEF Inv, TypeOK
  <2> QED BY <2>1, <2>2 DEF RunFails
<1> QED BY <1>1, <1>2, <1>3, FailsInv

\* The loop goes on, or ends when one collection was left.
LEMMA OnwardsTypes ==
  ASSUME Inv, at = "collection", Onwards
  PROVE  /\ at' \in {"collection", "save"} /\ todo' \in 0..Engines
         /\ at' = "collection" => todo' > 0
<1>1. todo \in 0..Engines /\ todo > 0
  BY DEF Inv, TypeOK, LoopInv
<1> QED BY <1>1, SessionAssumption DEF Onwards

\* A collection is synced with the client and the keys of the run.
LEMMA SyncCollectionInv == Inv /\ SyncCollection => Inv'
<1> SUFFICES ASSUME Inv, SyncCollection PROVE Inv'
  OBVIOUS
<1>1. /\ at = "collection" /\ Onwards /\ written' = written \cup {<<client.acct, keys>>}
      /\ UNCHANGED <<vault, memory, account, client, keys, failed, refusals, refused, served, bounds>>
  BY DEF SyncCollection
<1>2. at' \in {"collection", "save"} /\ todo' \in 0..Engines /\ (at' = "collection" => todo' > 0)
  BY <1>1, OnwardsTypes
<1>3. keys = client.acct /\ client.acct \in Maybe
  BY <1>1 DEF Inv, LoopInv, TypeOK, Credentials
<1>4. written' \subseteq Maybe \X Maybe
  BY <1>1, <1>3 DEF Inv, TypeOK
<1>5. told' \in BOOLEAN /\ backoffs' \in 0..MaxBackoffs
  BY SendsTypes DEF SyncCollection, Inv
<1>6. TypeOK'
  BY <1>1, <1>2, <1>4, <1>5, Zenon DEF Inv, TypeOK
<1>7. NodeOfToken' /\ LoopInv' /\ ClientInv'
  BY <1>1, <1>2, <1>3 DEF Inv, NodeOfToken, LoopInv, ClientInv, Talking
<1>8. RightKeys'
  BY <1>1, <1>3 DEF Inv, RightKeys
<1>9. RefusedInv'
  BY <1>1, <1>2 DEF Inv, RefusedInv, Before, Listed, Talking
<1> QED BY <1>6, <1>7, <1>8, <1>9 DEF Inv

\* A collection that fails is counted, and the loop goes on.
LEMMA CollectionFailsInv == Inv /\ CollectionFails => Inv'
<1> SUFFICES ASSUME Inv, CollectionFails PROVE Inv'
  OBVIOUS
<1>1. /\ at = "collection" /\ Onwards /\ failed' = TRUE
      /\ UNCHANGED <<vault, memory, account, client, keys, written, refusals, served>>
      /\ refused' = refused \/ (refused' = TRUE /\ ~client.good)
  BY DEF CollectionFails, Accepted
<1>2. at' \in {"collection", "save"} /\ todo' \in 0..Engines /\ (at' = "collection" => todo' > 0)
  BY <1>1, OnwardsTypes
<1>3. faults' \in 0..MaxFaults /\ UNCHANGED <<switches, deaths>>
  <2>1. CASE Fault
    BY <2>1, FaultTypes DEF Inv
  <2>2. CASE UNCHANGED bounds
    BY <2>2 DEF Inv, TypeOK
  <2> QED BY <2>1, <2>2 DEF CollectionFails
<1>4. told' \in BOOLEAN /\ backoffs' \in 0..MaxBackoffs
  <2>1. CASE Sends
    BY <2>1, SendsTypes DEF Inv
  <2>2. CASE UNCHANGED talk
    BY <2>2, Zenon DEF Inv, TypeOK
  <2> QED BY <2>1, <2>2 DEF CollectionFails
<1>5. TypeOK'
  BY <1>1, <1>2, <1>3, <1>4, Zenon DEF Inv, TypeOK
<1>6. NodeOfToken' /\ RightKeys' /\ LoopInv' /\ ClientInv'
  BY <1>1, <1>2 DEF Inv, NodeOfToken, RightKeys, LoopInv, ClientInv, Talking
<1>7. client = node /\ (refused => ~node.good) /\ refusals = 0
  BY <1>1 DEF Inv, RefusedInv, ClientInv, Listed, Talking
<1>8. refused' => ~node.good
  BY <1>1, <1>7
<1>9. refusals' = 0 /\ node' = node /\ at' \in {"collection", "save"}
  BY <1>1, <1>2, <1>7
<1>a. /\ node'.good => refusals' = 0
      /\ at' \in Listed => refusals' = 0
      /\ node'.acct # None => refusals' <= 1
      /\ refusals' <= 2
  BY ONLY <1>9
<1>b. /\ at' \in Before => ~refused'
      /\ at' \in {"collection", "save"} /\ refused' => ~node'.good
  BY <1>8, <1>9 DEF Before
<1>10. RefusedInv'
  BY <1>a, <1>b, Zenon DEF RefusedInv
<1> QED BY <1>5, <1>6, <1>10 DEF Inv

\* A run that reaches its end has served its account, unless a collection failed.
LEMMA SaveInv == Inv /\ Save => Inv'
<1> SUFFICES ASSUME Inv, Save PROVE Inv'
  OBVIOUS
<1> DEFINE who == IF failed THEN None ELSE client.acct
<1>1. at = "save" /\ Ends(who, refused) /\ UNCHANGED <<vault, memory, talk, bounds>>
  BY DEF Save
<1>2. who \in Maybe /\ refused \in BOOLEAN
  BY DEF Inv, TypeOK, Credentials, Maybe
<1>3. /\ faults' \in 0..MaxFaults /\ backoffs' \in 0..MaxBackoffs
      /\ accessToken' \in Credentials /\ node' \in Credentials
      /\ node'.acct \in {None, accessToken'.acct}
  BY <1>1 DEF Inv, TypeOK, NodeOfToken
<1>4. told' \in BOOLEAN
  BY <1>1, Zenon DEF Inv, TypeOK
<1>5. refusals = 0 /\ (refused => ~node'.good)
  BY <1>1 DEF Inv, RefusedInv, Listed, Talking
<1>6. refused => refusals <= 1 /\ ~node'.good /\ (node'.acct # None => refusals = 0)
  BY <1>5
<1>7. UNCHANGED <<tokens, granted, leaving, configured, switches, deaths>> /\ UNCHANGED node
  BY <1>1
<1> HIDE DEF who
<1> QED BY <1>1, <1>2, <1>3, <1>4, <1>6, <1>7, EndsInv

-----------------------------------------------------------------------------
\* Around the runs.

\* Steps that leave the run, and what it has cached, alone.
LEMMA OutsideStep ==
  ASSUME Inv, TypeOK', UNCHANGED <<memory, at, locals, history>>
  PROVE  Inv'
BY DEF Inv, NodeOfToken, RightKeys, LoopInv, ClientInv, RefusedInv

\* Connecting and disconnecting are of the vault: the cache stays what it was.
LEMMA VaultStepInv == Inv /\ (Disconnect \/ Disconnected \/ \E a \in Accounts : Connect(a)) => Inv'
<1>1. ASSUME Inv, NEW a \in Accounts, Connect(a) PROVE Inv'
  <2>1. switches \in 0..MaxSwitches
    BY <1>1 DEF Inv, TypeOK
  <2>2. switches' \in 0..MaxSwitches
    BY <1>1, <2>1, SessionAssumption DEF Connect
  <2>3. a \in Maybe
    BY DEF Maybe
  <2>4. TypeOK'
    BY <1>1, <2>2, <2>3, Zenon DEF Inv, TypeOK, Connect
  <2> QED BY <1>1, <2>4, OutsideStep DEF Connect
<1>2. ASSUME Inv, Disconnect PROVE Inv'
  <2>1. granted' \in BOOLEAN
    BY <1>2, Zenon DEF Inv, TypeOK, Disconnect
  <2>2. TypeOK'
    BY <1>2, <2>1, Zenon DEF Inv, TypeOK, Disconnect
  <2> QED BY <1>2, <2>2, OutsideStep DEF Disconnect
<1>3. ASSUME Inv, Disconnected PROVE Inv'
  <2>1. None \in Maybe
    BY DEF Maybe
  <2>2. TypeOK'
    BY <1>3, <2>1, Zenon DEF Inv, TypeOK, Disconnected
  <2> QED BY <1>3, <2>2, OutsideStep DEF Disconnected
<1> QED BY <1>1, <1>2, <1>3

\* Steps that change what a credential is worth, not whose it is.
LEMMA CredentialStep ==
  ASSUME Inv, TypeOK',
         UNCHANGED <<at, account, keys, todo, history>>,
         accessToken'.acct = accessToken.acct, node'.acct = node.acct,
         client'.acct = client.acct, client = node => client' = node', node'.good => node.good
  PROVE  Inv'
BY DEF Inv, NodeOfToken, RightKeys, LoopInv, ClientInv, RefusedInv

\* A revoked token is no longer good, and nothing else changes.
LEMMA RevokeInv == Inv /\ Revoke => Inv'
<1> SUFFICES ASSUME Inv, Revoke PROVE Inv'
  OBVIOUS
<1>1. accessToken.acct \in Maybe /\ accessToken.fresh \in BOOLEAN
  BY DEF Inv, TypeOK, Credentials
<1>2. accessToken' \in Credentials /\ accessToken'.acct = accessToken.acct
  BY <1>1, CredentialType DEF Revoke
<1>3. faults' \in 0..MaxFaults /\ UNCHANGED <<switches, deaths>>
  BY FaultTypes DEF Revoke, Inv
<1>4. TypeOK'
  BY <1>2, <1>3, Zenon DEF Inv, TypeOK, Revoke
<1> QED BY <1>2, <1>4, CredentialStep DEF Revoke

\* A credential of an account that moved is of that account, and no better than it was.
LEMMA LeftType ==
  ASSUME NEW c \in Credentials, NEW a \in Accounts
  PROVE  Left(c, a) \in Credentials /\ Left(c, a).acct = c.acct /\ (Left(c, a).good => c.good)
<1>1. a \in Maybe /\ c.fresh \in BOOLEAN
  BY DEF Maybe, Credentials
<1> QED BY <1>1, CredentialType DEF Left

\* The token server moves an account to another node: its old one is refused.
LEMMA ReassignInv == Inv /\ (\E a \in Accounts : Reassign(a)) => Inv'
<1> SUFFICES ASSUME Inv, NEW a \in Accounts, Reassign(a) PROVE Inv'
  OBVIOUS
<1>1. node \in Credentials /\ client \in Credentials
  BY DEF Inv, TypeOK
<1>2. node' = Left(node, a) /\ client' = Left(client, a)
  BY DEF Reassign
<1>3. faults' \in 0..MaxFaults /\ UNCHANGED <<switches, deaths>>
  BY FaultTypes DEF Reassign, Inv
<1>4. node' \in Credentials /\ client' \in Credentials /\ node'.acct = node.acct
      /\ client'.acct = client.acct /\ (node'.good => node.good)
  BY <1>1, <1>2, LeftType
<1>5. TypeOK'
  BY <1>3, <1>4, Zenon DEF Inv, TypeOK, Reassign
<1> QED BY <1>2, <1>4, <1>5, CredentialStep DEF Reassign

\* Time makes credentials stale and ends backoffs; the accounts stay.
LEMMA ClockInv == Inv /\ Clock => Inv'
<1>1. ASSUME Inv, TokenAges PROVE Inv'
  <2>1. accessToken.acct \in Maybe /\ accessToken.good \in BOOLEAN
    BY <1>1 DEF Inv, TypeOK, Credentials
  <2>2. accessToken' \in Credentials /\ accessToken'.acct = accessToken.acct
    BY <1>1, <2>1, CredentialType DEF TokenAges
  <2>3. TypeOK'
    BY <1>1, <2>2, Zenon DEF Inv, TypeOK, TokenAges
  <2> QED BY <1>1, <2>2, <2>3, CredentialStep DEF TokenAges
<1>2. ASSUME Inv, NodeAges PROVE Inv'
  <2>1. node.acct \in Maybe /\ node.good \in BOOLEAN /\ client.acct \in Maybe /\ client.good \in BOOLEAN
    BY <1>2 DEF Inv, TypeOK, Credentials
  <2>2. /\ node' \in Credentials /\ client' \in Credentials
        /\ node'.acct = node.acct /\ client'.acct = client.acct /\ node'.good = node.good
    BY <1>2, <2>1, CredentialType DEF NodeAges
  <2>3. TypeOK'
    BY <1>2, <2>2, Zenon DEF Inv, TypeOK, NodeAges
  <2>4. client = node => client' = node'
    BY <1>2 DEF NodeAges
  <2> QED BY <1>2, <2>2, <2>3, <2>4, CredentialStep DEF NodeAges
<1>3. ASSUME Inv, BackoffEnds PROVE Inv'
  <2>1. TypeOK'
    BY <1>3, Zenon DEF Inv, TypeOK, BackoffEnds
  <2> QED BY <1>3, <2>1, OutsideStep DEF BackoffEnds
<1> QED BY <1>1, <1>2, <1>3 DEF Clock

\* A new worker has nothing cached.
LEMMA WorkerDiesInv == Inv /\ WorkerDies => Inv'
<1> SUFFICES ASSUME Inv, WorkerDies PROVE Inv'
  OBVIOUS
<1>1. deaths \in 0..MaxDeaths
  BY DEF Inv, TypeOK
<1>2. deaths' \in 0..MaxDeaths /\ 0 \in 0..Engines /\ 0 \in Nat
  BY <1>1, SessionAssumption DEF WorkerDies
<1>3. None \in Maybe /\ FALSE \in BOOLEAN
  BY DEF Maybe
<1>4. TypeOK'
  BY <1>2, <1>3, NothingType, Zenon DEF Inv, TypeOK, WorkerDies, Forget
<1>5. NodeOfToken' /\ RightKeys' /\ LoopInv' /\ ClientInv'
  BY NothingType DEF WorkerDies, Forget, Inv, NodeOfToken, RightKeys, LoopInv, ClientInv, Talking
<1>6. RefusedInv'
  BY NothingType DEF WorkerDies, RefusedInv, Before, Listed, Talking
<1> QED BY <1>4, <1>5, <1>6 DEF Inv

-----------------------------------------------------------------------------

\* Every step keeps the invariant.
LEMMA StepInv == Inv /\ [Next]_vars => Inv'
<1> SUFFICES ASSUME Inv, [Next]_vars PROVE Inv'
  OBVIOUS
<1>1. CASE RunStep
  BY <1>1, StartInv, ReadTokensInv, RefreshInv, FetchNodeInv, InfoInv, ReadMetaInv, ConfigureInv,
     KeyTokensInv, ReadKeysInv, AuthErrorInv, RunFailsInv, SyncCollectionInv, CollectionFailsInv,
     SaveInv DEF RunStep
<1>2. CASE Clock \/ Revoke \/ WorkerDies \/ \E a \in Accounts : Reassign(a)
  BY <1>2, ClockInv, RevokeInv, WorkerDiesInv, ReassignInv
<1>3. CASE Disconnect \/ Disconnected \/ \E a \in Accounts : Connect(a)
  BY <1>3, VaultStepInv
<1>4. CASE UNCHANGED vars
  <2>1. TypeOK'
    BY <1>4, Zenon DEF Inv, TypeOK, vars
  <2> QED BY <1>4, <2>1, OutsideStep DEF vars
<1> QED BY <1>1, <1>2, <1>3, <1>4 DEF Next

\* The invariant holds in every state the program reaches.
LEMMA Invariance == Spec => []Inv
BY InitInv, StepInv, PTL DEF Spec

\* The values of the engine's variables, in every state of a session (engine.ts:108-124).
THEOREM WellTyped == Spec => []TypeOK
BY Invariance, PTL DEF Inv

\* The node kept in memory is one of the account whose token is, whatever
\* accounts come and go (engine.ts:224).
THEOREM NodeIsOfToken == Spec => []NodeOfToken
BY Invariance, PTL DEF Inv

\* What is written to an account is encrypted for it, though a run reads the
\* vault's tokens twice and what it cached spans accounts (engine.ts:264-271).
THEOREM KeysAreRight == Spec => []RightKeys
BY Invariance, PTL DEF Inv

\* A node that answers 401 serves two runs at most (engine.ts:152-165, 180-184).
THEOREM RefusalsAreFew == Spec => []AuthErrorsEnd
<1>1. Inv => AuthErrorsEnd
  BY DEF Inv, RefusedInv, AuthErrorsEnd
<1> QED BY <1>1, Invariance, PTL
================================================================================
