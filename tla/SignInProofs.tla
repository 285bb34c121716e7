----------------------------- MODULE SignInProofs -----------------------------
(***************************************************************************)
(* The hosted sign-in redeems a code at most once, whatever is reported,   *)
(* cancelled, begun again or cut short: SignIn implements CodeRedemption.  *)
(* A cancelled flow stays cancelled, and what a page is told is true.      *)
(***************************************************************************)
EXTENDS SignIn, TLAPS

\* A flow whose code was not presented yet.
Fresh(f) == f \in Flows /\ attempts[f] = 0

Handling == {"trail", "match", "claim", "exchange"}

Pages == {"none", "content", "success"}
Given == {"nothing", "code", "error"}
Flow == [flow: Nat, tab: Int, trail: Pages]
Navigation == [tab: Int, url: [page: {"content", "success"}, state: Nat, gives: Given]]
InHand == [at: {"idle", "trail", "match", "claim", "exchange", "save", "remove", "result"},
           p: Flow, page: Pages, gives: Given, state: Nat,
           status: {"none", "complete", "error"}]
Call == [op: {"none", "begin", "cancel", "closed"}, at: {"idle", "open", "remember", "remove", "result"},
         flow: Nat, tab: Int]

Types ==
  /\ attempts \in Seq(Nat)
  /\ pending \in Flow
  /\ pending # NoPending => pending.flow # NoFlow
  /\ queue \in Seq(Navigation)
  /\ nav \in InHand
  /\ caller \in [Callers -> Call]

\* Whoever may still redeem a flow holds an unspent one, and no two hold the
\* same: the stored flow, ...
PendingFresh == pending.flow # NoFlow => Fresh(pending.flow)

\* ... the navigation in hand, which past its claim is the only holder, ...
NavFresh ==
  /\ nav.p.flow \in Flows \cup {NoFlow}
  /\ nav.at \in Handling => Fresh(nav.p.flow)
  /\ nav.at = "exchange" => pending.flow # nav.p.flow
  /\ nav.at = "save" => nav.p.flow \in Flows /\ attempts[nav.p.flow] = 1

\* ... and the begins about to store theirs.
Storing(c) == At(c, "begin", "remember")
CallersFresh ==
  \A c \in Callers : Storing(c) =>
    /\ Fresh(caller[c].flow)
    /\ caller[c].flow # pending.flow /\ caller[c].flow # nav.p.flow
    /\ \A d \in Callers \ {c} : Storing(d) => caller[d].flow # caller[c].flow

Inv == Types /\ RedeemedOnce /\ PendingFresh /\ NavFresh /\ CallersFresh

-----------------------------------------------------------------------------

\* At the start nobody holds a flow.
LEMMA InitInv == Init => Inv
<1> SUFFICES ASSUME Init PROVE Inv
  OBVIOUS
<1>1. NoPending \in Flow /\ IdleNav \in InHand /\ IdleCaller \in Call
  BY DEF NoPending, IdleNav, IdleCaller, Running, Flow, InHand, Call, NoFlow, NoTab, Pages, Given
<1>2. Types
  BY <1>1 DEF Init, Types
<1>3. RedeemedOnce /\ PendingFresh
  BY DEF Init, RedeemedOnce, Flows, PendingFresh, NoPending
<1>4. NavFresh
  BY DEF Init, NavFresh, IdleNav, NoPending, Handling
<1>5. CallersFresh
  BY DEF Init, CallersFresh, Storing, At, IdleCaller, Running
<1> QED BY <1>2, <1>3, <1>4, <1>5 DEF Inv

\* A step of a caller that neither stores a flow nor is about to.
LEMMA CallerKeeps ==
  ASSUME Inv, UNCHANGED <<attempts, queue, nav>>, pending' \in {pending, NoPending},
         NEW c \in Callers, NEW r \in Call, r.at # "remember",
         caller' = [caller EXCEPT ![c] = r]
  PROVE  Inv'
<1>1. Types'
  BY DEF Inv, Types, NoPending, Flow, NoFlow, NoTab, Pages, Given
<1>2. pending'.flow \in {pending.flow, NoFlow}
  BY DEF NoPending
<1>3. RedeemedOnce' /\ PendingFresh'
  BY <1>2 DEF Inv, RedeemedOnce, PendingFresh, Fresh, Flows
<1>4. NavFresh'
  BY <1>2 DEF Inv, NavFresh, Fresh, Flows, PendingFresh, NoFlow, Handling, Types
<1>5. \A d \in Callers : Storing(d)' => d # c /\ Storing(d) /\ caller'[d] = caller[d]
  BY DEF Inv, Types, Storing, At
<1>6. \A d \in Callers : Storing(d) => caller[d].flow # NoFlow
  BY DEF Inv, CallersFresh, Fresh, Flows, Types, NoFlow
<1>7. CallersFresh'
  BY <1>2, <1>5, <1>6 DEF Inv, CallersFresh, Fresh, Flows
<1> QED BY <1>1, <1>3, <1>4, <1>7 DEF Inv

\* A step of the navigation in hand that presents no code.
LEMMA NavKeeps ==
  ASSUME Inv, UNCHANGED <<attempts, caller>>, queue' \in Seq(Navigation),
         pending' \in {pending, NoPending} \/ (pending' = nav.p /\ nav.at = "trail"),
         nav' \in InHand,
         nav'.p.flow \in {nav.p.flow, pending.flow, NoFlow},
         nav'.at \in Handling => \/ nav.at \in Handling /\ nav'.p.flow = nav.p.flow
                                 \/ pending # NoPending /\ nav'.p.flow = pending.flow,
         nav'.at = "exchange" => pending' = NoPending,
         nav'.at # "save"
  PROVE  Inv'
<1>0. /\ nav.at = "trail" => nav.p.flow \in Flows /\ Fresh(nav.p.flow)
      /\ Flows = 1..Len(attempts) /\ Flows' = Flows
  BY DEF Inv, NavFresh, Handling, Fresh, Types, Flows
<1>1. pending'.flow \in {pending.flow, NoFlow} \/ (nav.at = "trail" /\ pending'.flow = nav.p.flow)
  BY DEF NoPending
<1>2. Types'
  <2>1. pending' \in Flow
    BY DEF Inv, Types, InHand, NoPending, Flow, NoFlow, NoTab, Pages, Given
  <2>2. pending' # NoPending => pending'.flow # NoFlow
    BY <1>0, <1>1 DEF Inv, Types, NoFlow
  <2> QED BY <2>1, <2>2 DEF Inv, Types
<1>3. RedeemedOnce'
  BY DEF Inv, RedeemedOnce, Flows
<1>4. PendingFresh'
  BY <1>0, <1>1 DEF Inv, PendingFresh, Fresh
<1>5. NavFresh'
  <2>1. pending.flow \in Flows \cup {NoFlow}
    BY DEF Inv, PendingFresh, Fresh
  <2>2. nav'.p.flow \in Flows' \cup {NoFlow}
    BY <1>0, <2>1 DEF Inv, NavFresh
  <2>3. (nav.at \in Handling => Fresh(nav.p.flow))'
    <3>1. ASSUME nav.at \in Handling, nav'.p.flow = nav.p.flow
          PROVE  Fresh(nav.p.flow)'
      BY <1>0, <3>1 DEF Inv, NavFresh, Fresh
    <3>2. ASSUME pending # NoPending, nav'.p.flow = pending.flow
          PROVE  Fresh(nav.p.flow)'
      BY <1>0, <3>2 DEF Inv, PendingFresh, Fresh, Types
    <3> QED BY <3>1, <3>2
  <2>4. nav'.at = "exchange" => pending'.flow # nav'.p.flow
    <3>1. ASSUME nav'.at = "exchange" PROVE nav'.p.flow \in Flows
      BY <2>3, <1>0, <3>1 DEF Handling, Fresh
    <3>2. ASSUME nav'.at = "exchange" PROVE pending'.flow = 0
      BY <3>2 DEF NoPending, NoFlow
    <3> QED BY <3>1, <3>2, <1>0
  <2> QED BY ONLY <2>2, <2>3, <2>4, nav'.at # "save" DEF NavFresh
<1>6. \A d \in Callers : Storing(d)' <=> Storing(d)
  BY DEF Storing, At
<1>7. \A d \in Callers : Storing(d) => caller[d].flow # NoFlow
  BY <1>0 DEF Inv, CallersFresh, Fresh, NoFlow
<1>8. CallersFresh'
  BY <1>0, <1>1, <1>6, <1>7 DEF Inv, CallersFresh, Fresh
<1> QED BY <1>2, <1>3, <1>4, <1>5, <1>8 DEF Inv

\* The tab that begin opens is of a flow nobody has yet, and takes no code.
LEMMA OpenTabKeeps ==
  ASSUME Inv, NEW c \in Callers, OpenTab(c)
  PROVE  Inv'
<1> DEFINE f == Len(attempts) + 1
<1>1. /\ attempts' \in Seq(Nat) /\ Flows = 1..Len(attempts) /\ Flows' = Flows \cup {f} /\ f \notin Flows
      /\ f # NoFlow /\ attempts'[f] = 0 /\ \A g \in Flows : attempts'[g] = attempts[g]
  BY DEF OpenTab, Inv, Types, Flows, NoFlow
<1>2. PICK tab \in {f, NoTab} : caller' = [caller EXCEPT ![c] = Running("begin", "remember", f, tab)]
  BY DEF OpenTab, Go
<1>3. UNCHANGED <<pending, queue, nav>>
  BY DEF OpenTab, storage
<1>4. caller' \in [Callers -> Call] /\ caller'[c].flow = f /\ \A d \in Callers \ {c} : caller'[d] = caller[d]
  <2>1. Running("begin", "remember", f, tab) \in Call
    BY <1>1, <1>2 DEF Running, Call, NoTab, Inv, Types
  <2> QED BY <1>2, <2>1 DEF Running, Inv, Types
<1>5. Types'
  BY <1>1, <1>3, <1>4 DEF Inv, Types
<1>6. RedeemedOnce' /\ PendingFresh' /\ NavFresh'
  <2>1. RedeemedOnce'
    BY <1>1 DEF Inv, RedeemedOnce
  <2>2. PendingFresh'
    BY <1>1, <1>3 DEF Inv, PendingFresh, Fresh
  <2>3. NavFresh'
    BY <1>1, <1>3 DEF Inv, NavFresh, Fresh
  <2> QED BY <2>1, <2>2, <2>3
<1>7. pending.flow # f /\ nav.p.flow # f
  BY <1>1 DEF Inv, PendingFresh, NavFresh, Fresh
<1>8. \A d \in Callers \ {c} : Storing(d)' => Storing(d) /\ Fresh(caller[d].flow) /\ caller[d].flow # f
  BY <1>1, <1>4 DEF Inv, CallersFresh, Storing, At, Fresh
<1>9. CallersFresh'
  <2> SUFFICES ASSUME NEW d \in Callers, Storing(d)'
               PROVE  /\ Fresh(caller[d].flow)' /\ caller'[d].flow # pending.flow /\ caller'[d].flow # nav.p.flow
                      /\ \A e \in Callers \ {d} : Storing(e)' => caller'[e].flow # caller'[d].flow
    BY <1>3 DEF CallersFresh
  <2> HIDE DEF f
  <2>1. CASE d = c
    BY <1>1, <1>4, <1>7, <1>8, <2>1 DEF Fresh
  <2>2. CASE d # c
    <3>1. /\ Fresh(caller[d].flow) /\ caller[d].flow # f /\ Storing(d)
          /\ caller[d].flow # pending.flow /\ caller[d].flow # nav.p.flow
          /\ \A e \in Callers \ {d} : Storing(e) => caller[e].flow # caller[d].flow
      BY <1>8, <2>2 DEF Inv, CallersFresh
    <3>2. Fresh(caller[d].flow)'
      BY <1>1, <1>4, <2>2, <3>1 DEF Fresh
    <3> QED BY <1>4, <1>8, <2>2, <3>1, <3>2
  <2> QED BY <2>1, <2>2
<1> QED BY <1>5, <1>6, <1>9 DEF Inv

\* The flow that begin stores was its own: it changes hands.
LEMMA RememberKeeps ==
  ASSUME Inv, NEW c \in Callers, Remember(c)
  PROVE  Inv'
<1>1. /\ UNCHANGED <<attempts, queue, nav>> /\ Storing(c)
      /\ pending' = [flow |-> caller[c].flow, tab |-> caller[c].tab, trail |-> "none"]
      /\ caller' = [caller EXCEPT ![c] = IdleCaller]
  BY DEF Remember, Go, Storing
<1>2. Fresh(caller[c].flow) /\ caller[c].flow # nav.p.flow /\ caller[c].flow # NoFlow
  BY <1>1 DEF Inv, CallersFresh, Fresh, Flows, Types, NoFlow
<1>3. Types'
  BY <1>1, <1>2 DEF Inv, Types, Flow, Call, IdleCaller, Running, NoFlow, NoTab, Pages, Given
<1>4. RedeemedOnce' /\ PendingFresh' /\ NavFresh'
  BY <1>1, <1>2 DEF Inv, RedeemedOnce, PendingFresh, NavFresh, Fresh, Flows
<1>5. \A d \in Callers : Storing(d)' => d # c /\ Storing(d) /\ caller'[d] = caller[d]
  BY <1>1 DEF Inv, Types, Storing, At, IdleCaller, Running
<1>6. CallersFresh'
  BY <1>1, <1>5 DEF Inv, CallersFresh, Fresh, Flows
<1> QED BY <1>3, <1>4, <1>6 DEF Inv

\* The one step that presents a code: of the flow in hand, which nobody else holds.
LEMMA ExchangeKeeps ==
  ASSUME Inv, Exchange
  PROVE  Inv'
<1> DEFINE f == nav.p.flow
<1>1. /\ UNCHANGED <<pending, queue, caller>> /\ nav.at = "exchange"
      /\ attempts' = [attempts EXCEPT ![f] = attempts[f] + 1]
  BY DEF Exchange, storage
<1>2. f \in Flows /\ attempts[f] = 0 /\ pending.flow # f
  BY <1>1 DEF Inv, NavFresh, Fresh, Handling
<1>3. /\ attempts' \in Seq(Nat) /\ Flows' = Flows /\ attempts'[f] = 1
      /\ \A g \in Flows \ {f} : attempts'[g] = attempts[g]
  BY <1>1, <1>2 DEF Inv, Types, Flows
<1>4. nav' \in InHand /\ nav'.p = nav.p /\ nav'.at \in {"save", "remove"}
  BY DEF Exchange, NavTo, NavEnds, Inv, Types, InHand, Pages, Given
<1>5. Types'
  BY <1>1, <1>3, <1>4 DEF Inv, Types
<1>6. RedeemedOnce' /\ PendingFresh'
  BY <1>1, <1>2, <1>3 DEF Inv, RedeemedOnce, PendingFresh, Fresh
<1>7. NavFresh'
  BY <1>2, <1>3, <1>4 DEF NavFresh, Handling
<1>8. CallersFresh'
  BY <1>1, <1>2, <1>3, <1>4 DEF Inv, CallersFresh, Fresh, Storing, At
<1> QED BY <1>5, <1>6, <1>7, <1>8 DEF Inv

\* The steps of the navigation in hand.
LEMMA NavStepKeeps ==
  ASSUME Inv, NavStep
  PROVE  Inv'
<1>0. nav \in InHand /\ pending \in Flow /\ queue \in Seq(Navigation)
  BY DEF Inv, Types
<1> DEFINE Ended == /\ UNCHANGED <<attempts, caller, queue>>
                    /\ pending' \in {pending, NoPending}
                    /\ nav' = IdleNav \/ (nav' \in InHand /\ nav'.p = nav.p /\ nav'.at \in {"remove", "result"})
<1> IdleNav \in InHand /\ IdleNav.p.flow = NoFlow /\ IdleNav.at = "idle"
  BY DEF IdleNav, NoPending, InHand, Flow, NoFlow, NoTab, Pages, Given
<1> "save" \notin Handling /\ "idle" \notin Handling /\ "remove" \notin Handling /\ "result" \notin Handling
  BY DEF Handling
<1>1. ASSUME Ended PROVE Inv'
  BY <1>0, <1>1, NavKeeps
<1>2. CASE TakeNavigation
  <2>1. queue' \in Seq(Navigation) /\ Head(queue) \in Navigation
    BY <1>0, <1>2 DEF TakeNavigation
  <2>2. UNCHANGED <<attempts, pending, caller>>
    BY <1>2 DEF TakeNavigation, storage
  <2>3. \/ UNCHANGED nav
        \/ /\ pending # NoPending /\ nav' \in InHand
           /\ nav'.p.flow = pending.flow /\ nav'.at \in {"trail", "match"}
    <3> DEFINE n == Head(queue)
    <3>1. CASE UNCHANGED nav
      BY <3>1
    <3>2. CASE /\ pending # NoPending
               /\ nav' = [at |-> IF pending.trail # n.url.page THEN "trail" ELSE "match",
                          p |-> [pending EXCEPT !.trail = n.url.page],
                          page |-> n.url.page, gives |-> n.url.gives, state |-> n.url.state,
                          status |-> "none"]
      <4>1. n.url.page \in Pages /\ n.url.gives \in Given /\ n.url.state \in Nat
        BY <2>1 DEF Navigation, Pages, Given
      <4>2. [pending EXCEPT !.trail = n.url.page] \in Flow /\ [pending EXCEPT !.trail = n.url.page].flow = pending.flow
        BY <4>1, <1>0 DEF Flow, Pages, Given
      <4> HIDE DEF n
      <4> QED BY <3>2, <4>1, <4>2 DEF InHand, Pages, Given
    <3> QED BY <1>2, <3>1, <3>2, Zenon DEF TakeNavigation
  <2>4. CASE UNCHANGED nav
    BY <2>1, <2>2, <2>4 DEF Inv, Types, RedeemedOnce, PendingFresh, NavFresh, CallersFresh, Fresh, Flows, Storing, At
  <2>5. nav'.at = "exchange" => UNCHANGED nav
    BY <2>3
  <2> QED BY <1>0, <2>1, <2>2, <2>3, <2>4, NavKeeps
<1>3. CASE WriteTrail
  <2>1. /\ UNCHANGED <<attempts, caller, queue>> /\ nav.at = "trail" /\ pending' = nav.p
        /\ nav' \in InHand /\ nav'.p = nav.p /\ nav'.at = "match"
    BY <1>0, <1>3 DEF WriteTrail, NavTo, InHand, Pages, Given
  <2>2. /\ UNCHANGED <<attempts, caller>> /\ queue' \in Seq(Navigation)
        /\ pending' \in {pending, NoPending} \/ (pending' = nav.p /\ nav.at = "trail")
        /\ nav'.p.flow \in {nav.p.flow, pending.flow, NoFlow}
        /\ nav'.at \in Handling => \/ nav.at \in Handling /\ nav'.p.flow = nav.p.flow
                                   \/ pending # NoPending /\ nav'.p.flow = pending.flow
        /\ nav'.at = "exchange" => pending' = NoPending
        /\ nav'.at # "save"
    BY <1>0, <2>1 DEF Handling
  <2> QED BY <2>1, <2>2, NavKeeps
<1>4. CASE Matches
  <2>1. /\ UNCHANGED <<attempts, caller, queue, pending>> /\ nav.at = "match"
    BY <1>4 DEF Matches, storage
  <2>2. \/ nav' = IdleNav
        \/ nav' \in InHand /\ nav'.p = nav.p /\ nav'.at \in {"claim", "remove"}
    BY <1>0, <1>4 DEF Matches, NavTo, NavEnds, InHand, Pages, Given
  <2>3. CASE nav'.at = "claim" /\ nav' \in InHand /\ nav'.p = nav.p
    <3>2. /\ UNCHANGED <<attempts, caller>> /\ queue' \in Seq(Navigation)
          /\ pending' \in {pending, NoPending} \/ (pending' = nav.p /\ nav.at = "trail")
          /\ nav'.p.flow \in {nav.p.flow, pending.flow, NoFlow}
          /\ nav'.at \in Handling => \/ nav.at \in Handling /\ nav'.p.flow = nav.p.flow
                                     \/ pending # NoPending /\ nav'.p.flow = pending.flow
          /\ nav'.at = "exchange" => pending' = NoPending
          /\ nav'.at # "save"
      BY <1>0, <2>1, <2>3 DEF Handling
    <3> QED BY <2>3, <3>2, NavKeeps
  <2> QED BY <1>1, <2>1, <2>2, <2>3
<1>5. CASE Claim
  <2>1. /\ UNCHANGED <<attempts, caller, queue>> /\ nav.at = "claim" /\ pending' = NoPending
        /\ nav' \in InHand /\ nav'.p = nav.p /\ nav'.at = "exchange"
    BY <1>0, <1>5 DEF Claim, NavTo, InHand, Pages, Given
  <2>2. /\ UNCHANGED <<attempts, caller>> /\ queue' \in Seq(Navigation)
        /\ pending' \in {pending, NoPending} \/ (pending' = nav.p /\ nav.at = "trail")
        /\ nav'.p.flow \in {nav.p.flow, pending.flow, NoFlow}
        /\ nav'.at \in Handling => \/ nav.at \in Handling /\ nav'.p.flow = nav.p.flow
                                   \/ pending # NoPending /\ nav'.p.flow = pending.flow
        /\ nav'.at = "exchange" => pending' = NoPending
        /\ nav'.at # "save"
    BY <1>0, <2>1 DEF Handling
  <2> QED BY <2>1, <2>2, NavKeeps
<1>6. CASE Exchange
  BY <1>6, ExchangeKeeps
<1>7. CASE SaveAccount \/ NavRemoves \/ NavReports \/ NavFails
  <2>1. Ended
    BY <1>0, <1>7 DEF SaveAccount, NavRemoves, NavReports, NavFails, NavTo, NavEnds, InHand, storage, Pages, Given
  <2> QED BY <1>1, <2>1
<1> QED BY <1>2, <1>3, <1>4, <1>5, <1>6, <1>7 DEF NavStep

\* Every step keeps Inv, and is a step of CodeRedemption or none.
LEMMA StepInv ==
  ASSUME Inv, [Next]_vars
  PROVE  Inv'
<1>0. caller \in [Callers -> Call] /\ pending \in Flow
  BY DEF Inv, Types
<1>1. ASSUME NEW c \in Callers, \/ Begin(c) \/ StartCancel(c) \/ \E tab \in Flows : TabClosed(c, tab)
                                \/ RemovePending(c) \/ WriteResult(c)
      PROVE  Inv'
  <2>1. /\ UNCHANGED <<attempts, queue, nav>>
        /\ pending' \in {pending, NoPending}
    BY <1>1 DEF Begin, StartCancel, TabClosed, RemovePending, WriteResult, storage
  <2>2. \E r \in Call : r.at # "remember" /\ caller' = [caller EXCEPT ![c] = r]
    <3>1. CASE Begin(c)
      <4>1. Running("begin", "open", NoFlow, NoTab) \in Call
        BY DEF Running, Call, NoFlow, NoTab
      <4> QED BY <3>1, <4>1 DEF Begin, Go, Running
    <3>2. CASE StartCancel(c) \/ \E tab \in Flows : TabClosed(c, tab)
      <4>1. PICK op \in {"cancel", "closed"} :
              caller' = [caller EXCEPT ![c] = Running(op, "remove", pending.flow, NoTab)]
        BY <3>2 DEF StartCancel, TabClosed, Go
      <4>2. Running(op, "remove", pending.flow, NoTab) \in Call
        BY <1>0 DEF Running, Call, Flow, NoFlow, NoTab
      <4> QED BY <4>1, <4>2 DEF Running
    <3>3. CASE RemovePending(c)
      <4>1. [caller[c] EXCEPT !.at = "result"] \in Call /\ [caller[c] EXCEPT !.at = "result"].at = "result"
        BY <1>0 DEF Call
      <4> QED BY <3>3, <4>1 DEF RemovePending, Go
    <3>4. CASE WriteResult(c)
      <4>1. IdleCaller \in Call /\ IdleCaller.at = "idle"
        BY DEF IdleCaller, Running, Call, NoFlow, NoTab
      <4> QED BY <3>4, <4>1 DEF WriteResult, Go
    <3> QED BY <1>1, <3>1, <3>2, <3>3, <3>4
  <2> QED BY <2>1, <2>2, CallerKeeps
<1>2. ASSUME NEW tab \in Flows \cup {OtherTab}, NEW url \in Urls, Navigate(tab, url)
      PROVE  Inv'
  <2>1. url \in [page: {"content", "success"}, state: Nat, gives: Given] /\ tab \in Int
    BY DEF Inv, Types, Urls, OtherTab, Flows, NoFlow, Pages, Given
  <2>2. queue' \in Seq(Navigation) /\ UNCHANGED <<attempts, pending, nav, caller>>
    BY <1>2, <2>1 DEF Navigate, storage, Inv, Types, Navigation, Pages, Given
  <2> QED BY <2>2 DEF Inv, Types, RedeemedOnce, PendingFresh, NavFresh, CallersFresh, Fresh, Flows, Storing, At
<1>3. CASE Poll \/ UNCHANGED vars
  <2>1. UNCHANGED <<attempts, pending, queue, nav, caller>>
    BY <1>3 DEF Poll, vars, storage
  <2> QED BY <2>1 DEF Inv, Types, RedeemedOnce, PendingFresh, NavFresh, CallersFresh, Fresh, Flows, Storing, At
<1>4. CASE WorkerDies
  <2>1. /\ UNCHANGED attempts /\ queue' = <<>> /\ nav' = IdleNav
        /\ caller' = [c \in Callers |-> IdleCaller] /\ pending' \in {pending, NoPending}
    BY <1>4 DEF WorkerDies
  <2>2. IdleNav \in InHand /\ IdleCaller \in Call /\ NoPending \in Flow
    BY DEF IdleNav, IdleCaller, Running, InHand, Call, NoPending, Flow, NoFlow, NoTab, Pages, Given
  <2>3. Types'
    BY <2>1, <2>2 DEF Inv, Types
  <2>4. RedeemedOnce' /\ PendingFresh' /\ NavFresh' /\ CallersFresh'
    BY <2>1 DEF Inv, RedeemedOnce, PendingFresh, NavFresh, CallersFresh, Fresh, Flows, Storing, At,
       IdleNav, IdleCaller, Running, NoPending, Handling
  <2> QED BY <2>3, <2>4 DEF Inv
<1> QED
  BY <1>1, <1>2, <1>3, <1>4, OpenTabKeeps, RememberKeeps, NavStepKeeps DEF Next, CallerStep

\* Inv holds in every reachable state.
LEMMA InvAlways == Spec => []Inv
  BY InitInv, StepInv, PTL DEF Spec

\* A code is presented to the token server at most once, for any number of
\* flows, reports, callers, deaths and failures (signin.ts:211-220, 286-290).
THEOREM RedeemedOnceAlways == Spec => []RedeemedOnce
<1>1. Inv => RedeemedOnce
  BY DEF Inv
<1> QED BY <1>1, InvAlways, PTL

\* The sign-in implements CodeRedemption: codes are presented once, and only the
\* account of a presented code is saved.
THEOREM Implements == Spec => Redeems
<1>1. Init => Redemption!Init
  BY DEF Init, Redemption!Init, Redemption!NoAccount, NoFlow
<1>2. ASSUME Inv, [Next]_vars
      PROVE  [Redemption!Next]_<<attempts, account>>
  <2>1. ASSUME NEW c \in Callers, OpenTab(c)
        PROVE  Redemption!Mint
    BY <2>1 DEF OpenTab, Redemption!Mint, storage
  <2>2. ASSUME Exchange
        PROVE  Redemption!Present(nav.p.flow) /\ nav.p.flow \in DOMAIN attempts
    <3>1. nav.p.flow \in DOMAIN attempts /\ attempts[nav.p.flow] = 0
      BY <1>2, <2>2 DEF Exchange, Inv, NavFresh, Handling, Fresh, Flows
    <3>2. attempts' = [attempts EXCEPT ![nav.p.flow] = attempts[nav.p.flow] + 1] /\ UNCHANGED account
      BY <2>2 DEF Exchange, storage
    <3> QED BY <3>1, <3>2 DEF Redemption!Present
  <2>3. ASSUME SaveAccount
        PROVE  \/ Redemption!Save(nav.p.flow) /\ nav.p.flow \in DOMAIN attempts
               \/ UNCHANGED <<attempts, account>>
    BY <1>2, <2>3 DEF SaveAccount, Stores, Redemption!Save, Inv, NavFresh, Flows
  <2>4. ASSUME NEW c \in Callers, \/ Begin(c) \/ Remember(c) \/ StartCancel(c) \/ RemovePending(c)
                                  \/ WriteResult(c) \/ \E tab \in Flows : TabClosed(c, tab)
        PROVE  UNCHANGED <<attempts, account>>
    BY <2>4 DEF Begin, Remember, StartCancel, RemovePending, WriteResult, TabClosed, storage
  <2>5. ASSUME NEW tab, NEW url, Navigate(tab, url)
        PROVE  UNCHANGED <<attempts, account>>
    BY <2>5 DEF Navigate, storage
  <2>6. ASSUME \/ TakeNavigation \/ WriteTrail \/ Matches \/ Claim \/ NavRemoves \/ NavReports
               \/ NavFails \/ Poll \/ WorkerDies \/ UNCHANGED vars
        PROVE  UNCHANGED <<attempts, account>>
    BY <2>6 DEF TakeNavigation, WriteTrail, Matches, Claim, NavRemoves, NavReports, NavFails, Poll,
                WorkerDies, vars, storage
  <2> QED BY <1>2, <2>1, <2>2, <2>3, <2>4, <2>5, <2>6 DEF Next, CallerStep, NavStep, Redemption!Next
<1> QED BY <1>1, <1>2, InvAlways, PTL DEF Spec, Redeems, Redemption!Spec


-----------------------------------------------------------------------------
\* What is reported, and what is cancelled.

\* The rest of the types.
Bounds ==
  /\ result \in [flow: Nat, status: Statuses]
  /\ nav.at # "idle" => nav.p.flow \in Flows
  /\ \A c \in Callers : caller[c].at \in {"remember", "remove", "result"} => caller[c].flow \in Flows
  /\ cancelled \subseteq Flows /\ overlapped \subseteq cancelled
  /\ stored \subseteq Flows /\ account \in stored \cup {NoFlow}
  /\ events \in 0..MaxEvents /\ deaths \in 0..MaxDeaths /\ faults \in 0..MaxFaults

\* The vault takes the accounts of spent codes.
Spent == \A f \in stored : attempts[f] = 1

\* What is reported as complete, or about to be, is in the vault.
Told == SuccessIsStored /\ (nav.status = "complete" => nav.p.flow \in stored)

\* A cancelled flow is nobody's any more, and no begin is about to store it.
Dropped(f) == pending.flow # f /\ nav.p.flow # f /\ attempts[f] = 0

Final ==
  /\ \A f \in cancelled \ overlapped : Dropped(f)
  /\ \A c \in Callers : Storing(c) =>
       /\ caller[c].flow \notin cancelled
       /\ \A d \in Callers : caller[d].at = "remove" => caller[d].flow # caller[c].flow

\* The page waits for a flow that was stored.  Once the account of that is in the vault
\* there is a result, or one will come; and a page that was told that nothing runs waits
\* for a flow that is nobody's.
Waiting ==
  /\ ui.flow \in Flows \cup {NoFlow} /\ (ui.says # "away" => ui.flow \in Flows)
  /\ \A c \in Callers : Storing(c) => caller[c].flow # ui.flow

Settled ==
  faults = 0 /\ deaths = 0 =>
    /\ account = ui.flow /\ ui.flow \in Flows => result # NoResult \/ Unsettled
    /\ ui.says = "no longer running" =>
         pending.flow # ui.flow /\ nav.p.flow # ui.flow /\ account # ui.flow

More == Bounds /\ Spent /\ Told /\ Final /\ Waiting /\ Settled

\* What Inv says of the flows that somebody holds.
LEMMA InvFacts ==
  ASSUME Inv
  PROVE  /\ attempts \in Seq(Nat) /\ Len(attempts) \in Nat /\ Flows = 1..Len(attempts) /\ NoFlow \notin Flows
         /\ pending \in Flow /\ nav \in InHand /\ caller \in [Callers -> Call]
         /\ pending.flow \in Flows \cup {NoFlow} /\ (pending # NoPending => pending.flow \in Flows)
         /\ pending.flow \in Flows => attempts[pending.flow] = 0
         /\ nav.at \in Handling => nav.p.flow \in Flows /\ attempts[nav.p.flow] = 0
         /\ nav.at = "save" => nav.p.flow \in Flows /\ attempts[nav.p.flow] = 1
         /\ \A c \in Callers : Storing(c) =>
              /\ caller[c].flow \in Flows /\ attempts[caller[c].flow] = 0 /\ caller[c].flow # pending.flow
              /\ \A d \in Callers \ {c} : Storing(d) => caller[d].flow # caller[c].flow
<1>1. attempts \in Seq(Nat) /\ pending \in Flow /\ nav \in InHand /\ caller \in [Callers -> Call]
      /\ (pending # NoPending => pending.flow # NoFlow)
  BY DEF Inv, Types
<1>2. Len(attempts) \in Nat /\ Flows = 1..Len(attempts) /\ NoFlow \notin Flows
  BY <1>1 DEF Flows, NoFlow
<1>3. pending.flow # NoFlow => pending.flow \in Flows /\ attempts[pending.flow] = 0
  BY DEF Inv, PendingFresh, Fresh
<1>4. /\ nav.at \in Handling => nav.p.flow \in Flows /\ attempts[nav.p.flow] = 0
      /\ nav.at = "save" => nav.p.flow \in Flows /\ attempts[nav.p.flow] = 1
  BY DEF Inv, NavFresh, Fresh
<1>5. \A c \in Callers : Storing(c) =>
        /\ caller[c].flow \in Flows /\ attempts[caller[c].flow] = 0 /\ caller[c].flow # pending.flow
        /\ \A d \in Callers \ {c} : Storing(d) => caller[d].flow # caller[c].flow
  BY DEF Inv, CallersFresh, Fresh
<1> QED BY <1>1, <1>2, <1>3, <1>4, <1>5

\* What a step of a caller makes of the callers.
LEMMA GoFacts ==
  ASSUME caller \in [Callers -> Call], NEW c \in Callers, NEW r, Go(c, r)
  PROVE  caller'[c] = r /\ \A d \in Callers \ {c} : caller'[d] = caller[d]
BY DEF Go

\* At the start nothing is reported, cancelled or stored.
LEMMA InitMore == Init => More
<1> SUFFICES ASSUME Init PROVE More
  OBVIOUS
<1>1. Bounds
  BY SignInAssumption DEF Init, Bounds, NoResult, NoFlow, Statuses, IdleNav, IdleCaller, Running
<1>2. Spent /\ Told /\ Final /\ Waiting
  BY DEF Init, Spent, Told, SuccessIsStored, NoResult, IdleNav, Final, Waiting, Storing, At, IdleCaller, Running
<1>3. Settled
  BY DEF Init, Settled, Flows, NoFlow
<1> QED BY <1>1, <1>2, <1>3 DEF More

\* begin forgets the last result.
LEMMA BeginMore ==
  ASSUME Inv, More, NEW c \in Callers, Begin(c)
  PROVE  More'
<1> DEFINE r == Running("begin", "open", NoFlow, NoTab)
<1>1. /\ r.op = "begin" /\ r.at = "open"
      /\ result' = NoResult /\ Go(c, r)
      /\ UNCHANGED <<pending, account, attempts, queue, nav, ui, cancelled, overlapped, stored,
                     events, deaths, faults>>
  BY DEF Begin, Running, history, counts
<1> HIDE DEF r
<1>2. caller'[c] = r /\ \A d \in Callers \ {c} : caller'[d] = caller[d]
  BY <1>1, InvFacts, GoFacts
<1>3. /\ \A d \in Callers : Storing(d)' => Storing(d) /\ caller'[d] = caller[d]
      /\ \A d \in Callers : caller'[d].at \in {"remember", "remove", "result"} => caller'[d] = caller[d]
  BY <1>1, <1>2 DEF Storing, At
<1>4. Bounds'
  BY <1>1, <1>3 DEF More, Bounds, NoResult, NoFlow, Statuses, Flows
<1>5. Spent' /\ Told' /\ Waiting'
  BY <1>1, <1>3 DEF More, Spent, Told, SuccessIsStored, NoResult, Waiting, Flows
<1>6. Final'
  BY <1>1, <1>3 DEF More, Final, Dropped
<1>7. Settled'
  BY <1>1, <1>2 DEF More, Settled, Unsettled
<1> QED BY <1>4, <1>5, <1>6, <1>7 DEF More

\* The tab opened is of a new flow.
LEMMA OpenTabMore ==
  ASSUME Inv, More, NEW c \in Callers, OpenTab(c)
  PROVE  More'
<1> DEFINE f == Len(attempts) + 1
<1>1. /\ attempts' = Append(attempts, 0)
      /\ UNCHANGED <<pending, result, account, queue, nav, ui, cancelled, overlapped, stored,
                     events, deaths, faults>>
  BY DEF OpenTab, storage, history, counts
<1>2. PICK tab \in {f, NoTab} : Go(c, Running("begin", "remember", f, tab))
  BY DEF OpenTab
<1> DEFINE r == Running("begin", "remember", f, tab)
<1>3. r.op = "begin" /\ r.at = "remember" /\ r.flow = f
  BY DEF Running
<1> HIDE DEF r
<1>4. caller'[c] = r /\ \A d \in Callers \ {c} : caller'[d] = caller[d]
  BY <1>2, InvFacts, GoFacts DEF r
<1>5. /\ Flows' = Flows \cup {f} /\ f \notin Flows /\ f # NoFlow /\ attempts'[f] = 0
      /\ \A g \in Flows : attempts'[g] = attempts[g]
  BY <1>1, InvFacts DEF Flows, NoFlow
<1> HIDE DEF f
<1>6. /\ \A d \in Callers \ {c} : Storing(d)' => Storing(d) /\ caller'[d] = caller[d]
      /\ \A d \in Callers : caller'[d].at \in {"remove", "result"} => caller'[d] = caller[d]
  BY <1>3, <1>4 DEF Storing, At
<1>7. Bounds'
  BY <1>1, <1>3, <1>4, <1>5, <1>6 DEF More, Bounds
<1>8. Spent' /\ Told'
  BY <1>1, <1>5 DEF More, Spent, Told, SuccessIsStored, Bounds
<1>9. Final'
  <2>1. \A g \in cancelled \ overlapped : attempts'[g] = attempts[g]
    BY <1>5 DEF More, Bounds
  <2>2. \A d \in Callers : caller'[d].at = "remove" => caller'[d].flow # f
    BY <1>5, <1>6 DEF More, Bounds
  <2>3. f \notin cancelled
    BY <1>5 DEF More, Bounds
  <2>4. \A g \in cancelled' \ overlapped' : Dropped(g)'
    BY <1>1, <2>1 DEF More, Final, Dropped
  <2>5. ASSUME NEW d \in Callers, Storing(d)'
        PROVE  /\ caller'[d].flow \notin cancelled
               /\ \A e \in Callers : caller'[e].at = "remove" => caller'[e].flow # caller'[d].flow
    <3>1. CASE d = c
      BY <1>3, <1>4, <2>2, <2>3, <3>1
    <3>2. CASE d # c
      BY <1>6, <2>5, <3>2 DEF More, Final
    <3> QED BY <3>1, <3>2
  <2> QED BY <1>1, <2>4, <2>5 DEF Final
<1>10. Waiting'
  BY <1>1, <1>3, <1>4, <1>5, <1>6 DEF More, Waiting
<1>11. Settled'
  BY <1>1, <1>3, <1>4 DEF More, Settled, Unsettled
<1> QED BY <1>7, <1>8, <1>9, <1>10, <1>11 DEF More

\* The flow that is remembered is nobody's yet, and the page waits for it.
LEMMA RememberMore ==
  ASSUME Inv, More, NEW c \in Callers, Remember(c)
  PROVE  More'
<1> DEFINE f == caller[c].flow
<1>1. /\ Storing(c) /\ Go(c, IdleCaller) /\ pending'.flow = f /\ ui'.flow = f /\ ui'.says = "waiting"
      /\ UNCHANGED <<attempts, result, account, queue, nav, cancelled, overlapped, stored,
                     events, deaths, faults>>
  BY DEF Remember, Storing, history, counts
<1>2. caller'[c] = IdleCaller /\ \A d \in Callers \ {c} : caller'[d] = caller[d]
  BY <1>1, InvFacts, GoFacts
<1>3. /\ \A d \in Callers : Storing(d)' => d # c /\ Storing(d) /\ caller'[d] = caller[d]
      /\ \A d \in Callers : caller'[d].at \in {"remember", "remove", "result"} => caller'[d] = caller[d]
  BY <1>2 DEF Storing, At, IdleCaller, Running
<1>4. f \in Flows /\ attempts[f] = 0 /\ \A d \in Callers \ {c} : Storing(d) => caller[d].flow # f
  BY <1>1, InvFacts
<1>5. f \notin cancelled
  BY <1>1 DEF More, Final
<1>6. Bounds' /\ Spent' /\ Told'
  BY <1>1, <1>3 DEF More, Bounds, Spent, Told, SuccessIsStored, Flows
<1>7. Final'
  BY <1>1, <1>3, <1>5 DEF More, Final, Dropped
<1>8. Waiting'
  BY <1>1, <1>3, <1>4 DEF More, Waiting, Flows
<1>9. account # f
  BY <1>4, InvFacts DEF More, Bounds, Spent
<1>10. Settled'
  BY <1>1, <1>9 DEF Settled
<1> QED BY <1>6, <1>7, <1>8, <1>10 DEF More

\* A cancel, or a closed tab, takes the flow that is pending.
LEMMA CancelMore ==
  ASSUME Inv, More, NEW c \in Callers, StartCancel(c) \/ \E tab \in Flows : TabClosed(c, tab)
  PROVE  More'
<1>1. PICK op \in {"cancel", "closed"} : Go(c, Running(op, "remove", pending.flow, NoTab))
  BY DEF StartCancel, TabClosed
<1> DEFINE r == Running(op, "remove", pending.flow, NoTab)
<1>2. r.op # "begin" /\ r.at = "remove" /\ r.flow = pending.flow
  BY DEF Running
<1> HIDE DEF r
<1>3. /\ caller[c].op = "none" /\ pending # NoPending /\ Event
      /\ UNCHANGED <<pending, result, account, attempts, queue, nav, ui, cancelled, overlapped, stored,
                     deaths, faults>>
  BY DEF StartCancel, TabClosed, Idle, storage, history, counts
<1>4. caller'[c] = r /\ \A d \in Callers \ {c} : caller'[d] = caller[d]
  BY <1>1, InvFacts, GoFacts DEF r
<1>5. /\ \A d \in Callers : Storing(d)' => Storing(d) /\ caller'[d] = caller[d]
      /\ \A d \in Callers \ {c} : caller'[d] = caller[d]
  BY <1>2, <1>4 DEF Storing, At
<1>6. pending.flow \in Flows /\ \A d \in Callers : Storing(d) => caller[d].flow # pending.flow
  BY <1>3, InvFacts
<1>7. events' \in 0..MaxEvents
  BY <1>3, SignInAssumption DEF Event, More, Bounds
<1>8. Bounds'
  BY <1>2, <1>3, <1>4, <1>6, <1>7 DEF More, Bounds, Flows
<1>9. Spent' /\ Told' /\ Waiting'
  BY <1>3, <1>5 DEF More, Spent, Told, SuccessIsStored, Waiting, Flows
<1>10. Final'
  BY <1>2, <1>3, <1>4, <1>5, <1>6 DEF More, Final, Dropped
<1>11. Settled'
  <2>1. Unsettled => Unsettled'
    BY <1>3, <1>4, <1>5 DEF Unsettled
  <2> QED BY <1>3, <2>1 DEF More, Settled, Flows
<1> QED BY <1>8, <1>9, <1>10, <1>11 DEF More

\* finish removes whatever is pending; the flow it took is nobody's unless its redirect
\* was in hand, or spent.
LEMMA RemovePendingMore ==
  ASSUME Inv, More, NEW c \in Callers, RemovePending(c)
  PROVE  More'
<1> DEFINE f == caller[c].flow
           r == [caller[c] EXCEPT !.at = "result"]
<1>1. /\ caller[c].at = "remove" /\ pending' = NoPending /\ Go(c, r)
      /\ cancelled' = cancelled \cup {f}
      /\ overlapped' = overlapped \cup {g \in {f} : nav.p.flow = g \/ attempts[g] > 0}
      /\ UNCHANGED <<result, account, attempts, queue, nav, ui, stored, events, deaths, faults>>
  BY DEF RemovePending, counts
<1>2. r.op = caller[c].op /\ r.at = "result" /\ r.flow = f
  BY InvFacts DEF Call
<1> HIDE DEF r
<1>3. caller'[c] = r /\ \A d \in Callers \ {c} : caller'[d] = caller[d]
  BY <1>1, InvFacts, GoFacts
<1>4. /\ \A d \in Callers : Storing(d)' => Storing(d) /\ caller'[d] = caller[d]
      /\ \A d \in Callers : caller'[d].at = "remove" => caller'[d] = caller[d]
  BY <1>2, <1>3 DEF Storing, At
<1>5. f \in Flows /\ attempts[f] \in Nat
  BY <1>1, InvFacts DEF More, Bounds
<1>6. Bounds'
  BY <1>1, <1>2, <1>3, <1>5 DEF More, Bounds, Flows
<1>7. Spent' /\ Told' /\ Waiting'
  BY <1>1, <1>4 DEF More, Spent, Told, SuccessIsStored, Waiting, Flows
<1>8. Final'
  <2>1. ASSUME NEW g \in cancelled' \ overlapped' PROVE Dropped(g)'
    <3>1. pending'.flow = NoFlow /\ g # NoFlow
      BY <1>1, <1>5, InvFacts DEF NoPending, More, Bounds
    <3>2. nav.p.flow # g /\ attempts[g] = 0
      BY <1>1, <1>5 DEF More, Final, Dropped
    <3> QED BY <1>1, <3>1, <3>2 DEF Dropped
  <2>2. ASSUME NEW d \in Callers, Storing(d)'
        PROVE  /\ caller'[d].flow \notin cancelled'
               /\ \A e \in Callers : caller'[e].at = "remove" => caller'[e].flow # caller'[d].flow
    BY <1>1, <1>4, <2>2 DEF More, Final
  <2> QED BY <2>1, <2>2 DEF Final
<1>9. Settled'
  <2>1. Unsettled => Unsettled'
    BY <1>1, <1>2, <1>3 DEF Unsettled
  <2>2. pending'.flow = NoFlow
    BY <1>1 DEF NoPending
  <2>3. ui.says = "no longer running" => ui.flow # NoFlow
    BY InvFacts DEF More, Waiting
  <2> QED BY <1>1, <2>1, <2>2, <2>3 DEF More, Settled, Flows
<1> QED BY <1>6, <1>7, <1>8, <1>9 DEF More

\* What finish writes is of a flow, and no success.
LEMMA WriteResultMore ==
  ASSUME Inv, More, NEW c \in Callers, WriteResult(c)
  PROVE  More'
<1>1. /\ caller[c].at = "result" /\ Go(c, IdleCaller)
      /\ result' = [flow |-> caller[c].flow, status |-> "cancelled"]
      /\ UNCHANGED <<pending, account, attempts, queue, nav, ui, cancelled, overlapped, stored,
                     events, deaths, faults>>
  BY DEF WriteResult, history, counts
<1>2. caller'[c] = IdleCaller /\ \A d \in Callers \ {c} : caller'[d] = caller[d]
  BY <1>1, InvFacts, GoFacts
<1>3. /\ \A d \in Callers : Storing(d)' => Storing(d) /\ caller'[d] = caller[d]
      /\ \A d \in Callers : caller'[d].at \in {"remember", "remove", "result"} => caller'[d] = caller[d]
  BY <1>2 DEF Storing, At, IdleCaller, Running
<1>4. caller[c].flow \in Flows /\ caller[c].flow \in Nat
  BY <1>1, InvFacts DEF More, Bounds
<1>5. Bounds'
  BY <1>1, <1>3, <1>4 DEF More, Bounds, Statuses, Flows
<1>6. Spent' /\ Told' /\ Waiting'
  BY <1>1, <1>3 DEF More, Spent, Told, SuccessIsStored, Waiting, Flows
<1>7. Final'
  BY <1>1, <1>3 DEF More, Final, Dropped
<1>8. Settled'
  BY <1>1, <1>4, InvFacts DEF More, Settled, NoResult
<1> QED BY <1>5, <1>6, <1>7, <1>8 DEF More

\* A navigation that is taken in hand is of the pending flow.
LEMMA TakeNavigationMore ==
  ASSUME Inv, More, TakeNavigation
  PROVE  More'
<1>1. /\ nav.p.flow = NoFlow
      /\ UNCHANGED <<pending, result, account, attempts, caller, ui, cancelled, overlapped, stored,
                     events, deaths, faults>>
  BY DEF TakeNavigation, IdleNav, NoPending, storage, history, counts
<1>2. \/ nav' = nav
      \/ pending # NoPending /\ nav'.p.flow = pending.flow /\ nav'.status = "none"
  <2> DEFINE n == Head(queue)
  <2>1. CASE pending # NoPending /\ Concerns(n, pending)
    <3>1. nav' = [at |-> IF pending.trail # n.url.page THEN "trail" ELSE "match",
                  p |-> [pending EXCEPT !.trail = n.url.page],
                  page |-> n.url.page, gives |-> n.url.gives, state |-> n.url.state,
                  status |-> "none"]
      BY <2>1, Zenon DEF TakeNavigation
    <3>2. [pending EXCEPT !.trail = n.url.page].flow = pending.flow
      BY InvFacts DEF Flow
    <3> QED BY <2>1, <3>1, <3>2
  <2>2. CASE ~(pending # NoPending /\ Concerns(n, pending))
    BY <2>2, Zenon DEF TakeNavigation
  <2> QED BY <2>1, <2>2
<1>3. nav'.p.flow \in {NoFlow, pending.flow} /\ (nav' = nav \/ nav'.p.flow \in Flows)
  BY <1>1, <1>2, InvFacts
<1>4. Bounds' /\ Spent' /\ Waiting'
  BY <1>1, <1>2, <1>3 DEF More, Bounds, Spent, Waiting, Storing, At, Flows
<1>5. Told'
  BY <1>1, <1>2 DEF More, Told, SuccessIsStored
<1>6. Final'
  <2>1. \A f \in cancelled : f # NoFlow
    BY InvFacts DEF More, Bounds
  <2> QED BY <1>1, <1>3, <2>1 DEF More, Final, Dropped, Storing, At
<1>7. Settled'
  <2>1. Unsettled => Unsettled' \/ ui.flow = NoFlow
    BY <1>1 DEF Unsettled
  <2>2. ui.says = "no longer running" => ui.flow # NoFlow
    BY InvFacts DEF More, Waiting
  <2> QED BY <1>1, <1>3, <2>1, <2>2, InvFacts DEF More, Settled, Flows
<1> QED BY <1>4, <1>5, <1>6, <1>7 DEF More

\* A step of the navigation in hand that reports and saves nothing: it goes on with its
\* flow, or ends.
LEMMA NavMore ==
  ASSUME Inv, More, UNCHANGED <<result, account, caller, ui, cancelled, overlapped, stored, events, deaths>>,
         faults' \in 0..MaxFaults, faults' = 0 => faults = 0,
         attempts' \in Seq(Nat), Flows' = Flows, \A f \in Flows : f = nav.p.flow \/ attempts'[f] = attempts[f],
         attempts' = attempts \/ nav.at = "exchange", attempts' = attempts \/ attempts'[nav.p.flow] = 1,
         pending' \in {pending, NoPending} \/ pending' = nav.p,
         nav'.p.flow = nav.p.flow \/ (nav'.p.flow = NoFlow /\ nav'.at = "idle"),
         nav'.status = "complete" => nav.status = "complete" /\ nav'.p.flow = nav.p.flow,
         nav.at # "idle",
         nav'.p.flow = nav.p.flow \/ nav.at \in Handling \/ faults' # 0
  PROVE  More'
<1>1. nav.p.flow \in Flows /\ nav.p.flow # NoFlow
  BY InvFacts DEF More, Bounds
<1>2. pending'.flow \in {pending.flow, NoFlow, nav.p.flow}
  BY DEF NoPending
<1>3. Bounds'
  BY <1>1 DEF More, Bounds
<1>4. Spent'
  BY DEF More, Spent, Bounds
<1>5. Told'
  BY DEF More, Told, SuccessIsStored
<1>6. Waiting'
  BY DEF More, Waiting, Storing, At
<1>7. Final'
  <2>1. ASSUME NEW f \in cancelled \ overlapped PROVE Dropped(f)'
    <3>1. f \in Flows /\ f # NoFlow /\ Dropped(f)
      BY InvFacts DEF More, Bounds, Final
    <3> QED BY <1>2, <3>1 DEF Dropped
  <2> QED BY <2>1 DEF More, Final, Storing, At
<1>8. Settled'
  <2> SUFFICES ASSUME faults' = 0, deaths = 0
               PROVE  /\ account = ui.flow /\ ui.flow \in Flows => result # NoResult \/ Unsettled'
                      /\ ui.says = "no longer running" =>
                           pending'.flow # ui.flow /\ nav'.p.flow # ui.flow /\ account # ui.flow
    BY DEF Settled
  <2>1. /\ account = ui.flow /\ ui.flow \in Flows => result # NoResult \/ Unsettled
        /\ ui.says = "no longer running" =>
             pending.flow # ui.flow /\ nav.p.flow # ui.flow /\ account # ui.flow /\ ui.flow # NoFlow
    BY InvFacts DEF More, Settled, Waiting
  <2>2. nav'.p.flow # nav.p.flow => attempts[nav.p.flow] = 0
    BY InvFacts
  <2>3. account \in Flows => attempts[account] = 1
    BY InvFacts DEF More, Bounds, Spent
  <2>4. account = ui.flow /\ ui.flow \in Flows => result # NoResult \/ Unsettled'
    <3> SUFFICES ASSUME account = ui.flow, ui.flow \in Flows, result = NoResult PROVE Unsettled'
      OBVIOUS
    <3>1. Unsettled
      BY <2>1
    <3>2. CASE \E c \in Callers : caller[c].op = "begin"
      BY <3>2 DEF Unsettled
    <3>3. CASE nav.p.flow = ui.flow
      <4>1. nav'.p.flow = nav.p.flow
        BY <1>1, <2>2, <2>3, <3>3
      <4> QED BY <3>3, <4>1 DEF Unsettled
    <3> QED BY <3>1, <3>2, <3>3 DEF Unsettled
  <2> QED BY <1>2, <2>1, <2>4
<1> QED BY <1>3, <1>4, <1>5, <1>6, <1>7, <1>8 DEF More

\* The vault takes an account of a spent code, or refuses it.
LEMMA SaveAccountMore ==
  ASSUME Inv, More, SaveAccount
  PROVE  More'
<1> DEFINE f == nav.p.flow
<1>1. /\ nav.at = "save" /\ nav'.p = nav.p /\ nav'.at = "remove"
      /\ \/ account' = f /\ stored' = stored \cup {f} /\ nav'.status = "complete"
         \/ UNCHANGED <<account, stored>> /\ nav'.status = "error"
      /\ UNCHANGED <<pending, result, attempts, caller, ui, cancelled, overlapped, events, deaths, faults>>
  BY InvFacts DEF SaveAccount, Stores, NavEnds, InHand, counts
<1>2. f \in Flows /\ attempts[f] = 1
  BY <1>1, InvFacts
<1>3. Bounds' /\ Spent'
  BY <1>1, <1>2 DEF More, Bounds, Spent, Flows
<1>4. Told'
  BY <1>1 DEF More, Told, SuccessIsStored
<1>5. Final' /\ Waiting'
  BY <1>1 DEF More, Final, Dropped, Waiting, Storing, At, Flows
<1>6. Settled'
  BY <1>1, <1>2 DEF More, Settled, Unsettled, Flows
<1> QED BY <1>3, <1>4, <1>5, <1>6 DEF More

\* What became of the navigation is the result.
LEMMA NavReportsMore ==
  ASSUME Inv, More, NavReports
  PROVE  More'
<1> DEFINE f == nav.p.flow
<1>1. /\ nav.at = "result" /\ nav' = IdleNav /\ result' = [flow |-> f, status |-> nav.status]
      /\ UNCHANGED <<pending, account, attempts, caller, ui, cancelled, overlapped, stored, events, deaths, faults>>
  BY DEF NavReports, history, counts
<1>2. f \in Flows /\ f \in Nat /\ nav.status \in Statuses /\ f # NoFlow
  BY <1>1, InvFacts DEF More, Bounds, InHand, Statuses
<1>3. nav'.p.flow = NoFlow /\ nav'.at = "idle" /\ nav'.status = "none"
  BY <1>1 DEF IdleNav, NoPending
<1>4. Bounds'
  BY <1>1, <1>2, <1>3 DEF More, Bounds, Flows
<1>5. Spent' /\ Told'
  BY <1>1, <1>3 DEF More, Spent, Told, SuccessIsStored
<1>6. Final' /\ Waiting'
  <2>1. \A g \in cancelled : g # NoFlow
    BY InvFacts DEF More, Bounds
  <2> QED BY <1>1, <1>3, <2>1 DEF More, Final, Dropped, Waiting, Storing, At, Flows
<1>7. Settled'
  <2>1. ui.says = "no longer running" => ui.flow # NoFlow
    BY InvFacts DEF More, Waiting
  <2> QED BY <1>1, <1>2, <1>3, <2>1 DEF More, Settled, NoResult
<1> QED BY <1>4, <1>5, <1>6, <1>7 DEF More

\* The steps of the navigation in hand.
LEMMA NavStepMore ==
  ASSUME Inv, Inv', More, NavStep
  PROVE  More'
<1>0. nav \in InHand /\ attempts \in Seq(Nat) /\ faults \in 0..MaxFaults
  BY InvFacts DEF More, Bounds
<1>1. CASE WriteTrail \/ Matches \/ Claim \/ NavRemoves \/ NavFails
  <2>1. /\ UNCHANGED <<attempts, result, account, caller, ui, cancelled, overlapped, stored, events, deaths>>
        /\ pending' \in {pending, NoPending} \/ pending' = nav.p
    BY <1>1 DEF WriteTrail, Matches, Claim, NavRemoves, NavFails, storage, history, counts
  <2>2. faults' \in 0..MaxFaults /\ (faults' = 0 => faults = 0) /\ (faults' = faults \/ NavFails)
    <3>1. CASE NavFails
      BY <1>0, <3>1, SignInAssumption DEF NavFails
    <3>2. CASE WriteTrail \/ Matches \/ Claim \/ NavRemoves
      BY <1>0, <3>2 DEF WriteTrail, Matches, Claim, NavRemoves, counts
    <3> QED BY <1>1, <3>1, <3>2
  <2>3. /\ nav'.p.flow = nav.p.flow \/ (nav'.p.flow = NoFlow /\ nav'.at = "idle")
        /\ nav'.status = "complete" => nav.status = "complete" /\ nav'.p.flow = nav.p.flow
        /\ nav.at # "idle"
    <3>1. IdleNav.p.flow = NoFlow /\ IdleNav.at = "idle" /\ IdleNav.status = "none"
      BY DEF IdleNav, NoPending
    <3>2. nav.at # "idle"
      BY <1>1 DEF WriteTrail, Matches, Claim, NavRemoves, NavFails
    <3>3. \/ nav' = IdleNav
          \/ \E at : nav' = [nav EXCEPT !.at = at]
          \/ nav' = [nav EXCEPT !.at = "remove", !.status = "error"]
      BY <1>1 DEF WriteTrail, Matches, Claim, NavRemoves, NavFails, NavTo, NavEnds
    <3> QED BY <1>0, <3>1, <3>2, <3>3 DEF InHand
  <2>4. nav'.p.flow = nav.p.flow \/ nav.at \in Handling \/ faults' # 0
    <3>1. CASE NavFails
      BY <1>0, <3>1 DEF NavFails
    <3>2. CASE WriteTrail \/ Matches \/ Claim
      BY <3>2 DEF WriteTrail, Matches, Claim, Handling
    <3>3. CASE NavRemoves
      BY <1>0, <3>3 DEF NavRemoves, NavTo, InHand
    <3> QED BY <1>1, <3>1, <3>2, <3>3
  <2> QED BY <1>0, <2>1, <2>2, <2>3, <2>4, NavMore DEF Flows
<1>2. CASE Exchange
  <2>1. /\ nav.at = "exchange" /\ attempts' = [attempts EXCEPT ![nav.p.flow] = @ + 1]
        /\ UNCHANGED <<pending, result, account, caller, ui, cancelled, overlapped, stored, events, deaths, faults>>
    BY <1>2 DEF Exchange, storage, history, counts
  <2>2. nav.p.flow \in 1..Len(attempts) /\ attempts[nav.p.flow] = 0
    BY <2>1, InvFacts DEF Handling
  <2>3. /\ attempts' \in Seq(Nat) /\ Flows' = Flows /\ attempts'[nav.p.flow] = 1
        /\ \A f \in Flows : f = nav.p.flow \/ attempts'[f] = attempts[f]
    BY <1>0, <2>1, <2>2 DEF Flows
  <2>4. nav'.p.flow = nav.p.flow /\ (nav'.status = "complete" => nav.status = "complete")
    BY <1>0, <1>2 DEF Exchange, NavTo, NavEnds, InHand
  <2> QED BY <1>0, <2>1, <2>3, <2>4, NavMore
<1> QED BY <1>1, <1>2, TakeNavigationMore, SaveAccountMore, NavReportsMore DEF NavStep

\* A page is told that nothing runs when its flow is nobody's.
LEMMA PollMore ==
  ASSUME Inv, More, Poll
  PROVE  More'
<1>1. /\ ui.says = "waiting" /\ ui'.flow = ui.flow
      /\ ui'.says = "no longer running" => result = NoResult /\ pending = NoPending /\ ~Unsettled
      /\ UNCHANGED <<pending, result, account, attempts, nav, caller, cancelled, overlapped, stored,
                     events, deaths, faults>>
  <2> DEFINE says == IF result # NoResult THEN "result"
                     ELSE IF pending # NoPending THEN "waiting"
                     ELSE IF Unsettled THEN "not known yet" ELSE "no longer running"
  <2>1. ui.says = "waiting" /\ ui' = [ui EXCEPT !.says = says]
        /\ UNCHANGED <<pending, result, account, attempts, nav, caller, cancelled, overlapped, stored,
                       events, deaths, faults>>
    BY DEF Poll, storage, history, counts
  <2>2. says = "no longer running" => result = NoResult /\ pending = NoPending /\ ~Unsettled
    BY Zenon
  <2> HIDE DEF says
  <2>3. ui'.flow = ui.flow /\ ui'.says = says
    BY <2>1 DEF More, Waiting
  <2> QED BY <2>1, <2>2, <2>3
<1>2. Bounds' /\ Spent' /\ Told' /\ Final'
  BY <1>1 DEF More, Bounds, Spent, Told, SuccessIsStored, Final, Dropped, Storing, At, Flows
<1>3. Waiting'
  BY <1>1 DEF More, Waiting, Storing, At, Flows
<1>4. Settled'
  <2>1. pending = NoPending => pending.flow = NoFlow
    BY DEF NoPending
  <2>2. ui.flow \in Flows /\ ui.flow # NoFlow
    BY <1>1, InvFacts DEF More, Waiting
  <2> QED BY <1>1, <2>1, <2>2 DEF More, Settled, Unsettled, Flows
<1> QED BY <1>2, <1>3, <1>4 DEF More

\* A worker that died holds nothing.
LEMMA WorkerDiesMore ==
  ASSUME Inv, More, WorkerDies
  PROVE  More'
<1>1. /\ deaths < MaxDeaths /\ deaths' = deaths + 1 /\ nav' = IdleNav
      /\ caller' = [c \in Callers |-> IdleCaller]
      /\ \/ UNCHANGED <<pending, ui>>
         \/ pending' = NoPending /\ ui'.flow = NoFlow /\ ui'.says = "away"
      /\ UNCHANGED <<result, account, attempts, cancelled, overlapped, stored, events, faults>>
  BY DEF WorkerDies, history
<1>2. /\ nav'.at = "idle" /\ nav'.p.flow = NoFlow /\ nav'.status = "none"
      /\ pending'.flow \in {pending.flow, NoFlow}
      /\ \A c \in Callers : ~Storing(c)' /\ caller'[c].at = "idle"
  BY <1>1 DEF IdleNav, NoPending, IdleCaller, Running, Storing, At
<1>3. Bounds'
  BY <1>1, <1>2, SignInAssumption DEF More, Bounds, Flows
<1>4. Spent' /\ Told'
  BY <1>1, <1>2 DEF More, Spent, Told, SuccessIsStored
<1>5. Final'
  <2>1. \A f \in cancelled : f # NoFlow
    BY InvFacts DEF More, Bounds
  <2> QED BY <1>1, <1>2, <2>1 DEF More, Final, Dropped
<1>6. Waiting'
  BY <1>1, <1>2 DEF More, Waiting, Flows
<1>7. Settled'
  <2>1. deaths \in Nat
    BY SignInAssumption DEF More, Bounds
  <2>2. deaths' # 0
    BY <1>1, <2>1
  <2> QED BY <2>2 DEF Settled
<1> QED BY <1>3, <1>4, <1>5, <1>6, <1>7 DEF More

\* A navigation that is reported waits in the queue.
LEMMA NavigateMore ==
  ASSUME Inv, More, NEW tab, NEW url, Navigate(tab, url)
  PROVE  More'
<1>1. /\ Event
      /\ UNCHANGED <<pending, result, account, attempts, nav, caller, ui, cancelled, overlapped, stored,
                     deaths, faults>>
  BY DEF Navigate, storage, history, counts
<1>2. events' \in 0..MaxEvents
  BY <1>1, SignInAssumption DEF Event, More, Bounds
<1> QED BY <1>1, <1>2 DEF More, Bounds, Spent, Told, SuccessIsStored, Final, Dropped, Waiting, Settled,
      Unsettled, Storing, At, Flows

\* Every step keeps the invariant of cancels and reports.
LEMMA StepMore ==
  ASSUME Inv, Inv', More, [Next]_vars
  PROVE  More'
<1>1. CASE UNCHANGED vars
  BY <1>1 DEF vars, storage, history, counts, More, Bounds, Spent, Told, SuccessIsStored, Final, Dropped,
     Waiting, Settled, Unsettled, Storing, At, Flows
<1>2. CASE Next
  BY <1>2, BeginMore, OpenTabMore, RememberMore, CancelMore, RemovePendingMore, WriteResultMore,
     NavStepMore, PollMore, WorkerDiesMore, NavigateMore DEF Next, CallerStep
<1> QED BY <1>1, <1>2

\* Both invariants hold in every reachable state.
LEMMA MoreAlways == Spec => [](Inv /\ More)
  BY InitInv, StepInv, InitMore, StepMore, PTL DEF Spec

\* A cancelled flow is not taken up again and connects no account, unless one of its
\* navigations was in hand when it was removed or its code was spent, for any number of
\* handlers that cancel, begin and close tabs at once.
THEOREM CancelsAreFinal == Spec => []CancelIsFinal
<1>1. Inv /\ More => CancelIsFinal
  <2> SUFFICES ASSUME Inv, More, NEW f \in cancelled \ overlapped
               PROVE  pending.flow # f /\ account # f /\ attempts[f] = 0
    BY DEF CancelIsFinal
  <2>1. pending.flow # f /\ attempts[f] = 0 /\ f # NoFlow
    BY InvFacts DEF More, Final, Dropped, Bounds
  <2>2. account # f
    BY <2>1 DEF More, Bounds, Spent
  <2> QED BY <2>1, <2>2
<1> QED BY <1>1, MoreAlways, PTL

\* What is reported as complete is in the vault, and a page that is told that nothing
\* runs any more is told so of a sign-in that came to nothing.
THEOREM ReportsAreAlwaysTrue == Spec => []ReportsAreTrue
<1>1. Inv /\ More => TypeOK
  <2> SUFFICES ASSUME Inv, More PROVE TypeOK
    OBVIOUS
  <2>1. pending \in Pending /\ pending.flow \in Flows \cup {NoFlow} /\ attempts \in Seq(Nat)
    BY InvFacts DEF Flow, Pages, Pending
  <2>2. nav.at \in {"idle", "trail", "match", "claim", "exchange", "save", "remove", "result"}
        /\ nav.p \in Pending /\ nav.status \in Statuses
    BY InvFacts DEF InHand, Flow, Pages, Pending, Statuses
  <2>3. queue \in Seq([tab: Int, url: [page: {"content", "success"}, state: Nat,
                                      gives: {"nothing", "code", "error"}]])
    BY DEF Inv, Types, Navigation, Given, Pages
  <2> QED BY <2>1, <2>2, <2>3 DEF More, Bounds, TypeOK
<1>2. Inv /\ More => SuccessIsStored
  BY DEF More, Told
<1>3. Inv /\ More => PollTellsOutcome
  BY DEF More, Settled, PollTellsOutcome
<1> QED BY <1>1, <1>2, <1>3, MoreAlways, PTL DEF ReportsAreTrue

===============================================================================
