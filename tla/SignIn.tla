-------------------------------- MODULE SignIn --------------------------------
(***************************************************************************)
(* The hosted sign-in of src/src/background/signin.ts.                     *)
(*                                                                         *)
(* A flow opens a tab on Mozilla's page and waits, in session storage, for *)
(* a navigation to the success page.  Three listeners report navigations;  *)
(* the worker handles them one at a time, from a queue.  begin, cancel and *)
(* onTabClosed are not queued: they run between any two awaits of a        *)
(* navigation and of each other.  The worker dies and comes back.          *)
(*                                                                         *)
(* What stands for what.  A flow, its state parameter, its tab and its     *)
(* code are one number.  A URL is the page, the flow whose state it        *)
(* carries and what it gives: a code, an error or nothing.  The trail of   *)
(* visited pages is its last page.                                         *)
(***************************************************************************)
EXTENDS Integers, Sequences, FiniteSets

CONSTANTS
  Callers,       \* handlers of messages and tab events running at once
  MaxFlows,      \* bound: sign-ins begun
  MaxEvents,     \* bound: navigations reported, cancels, tabs closed
  MaxDeaths,     \* bound: worker deaths and browser restarts
  MaxFaults      \* bound: storage calls that fail

ASSUME SignInAssumption ==
  MaxFlows \in Nat /\ MaxEvents \in Nat /\ MaxDeaths \in Nat /\ MaxFaults \in Nat

VARIABLES
  pending,       \* session storage: firesync.signin.pending
  result,        \* local storage: firesync.signin.result
  account,       \* the flow whose account the vault holds
  attempts,      \* the token server: how often a flow's code was presented
  queue, nav,    \* the worker: navigations to handle, and the one in hand
  caller,        \* the worker: the other handlers
  ui,            \* the page that waits for the sign-in
  cancelled,     \* history: flows a cancel or a closed tab removed
  overlapped,    \* history: those whose redirect was in hand then
  stored,        \* history: flows whose account the vault took
  events, deaths, faults

storage == <<pending, result, account>>
counts == <<deaths, faults>>
history == <<cancelled, overlapped, stored>>
vars == <<storage, attempts, queue, nav, caller, ui, history, events, counts>>

NoFlow == 0
NoTab == -1
OtherTab == 0
Flows == DOMAIN attempts

NoPending == [flow |-> NoFlow, tab |-> NoTab, trail |-> "none"]
NoResult == [flow |-> NoFlow, status |-> "none"]
IdleNav == [at |-> "idle", p |-> NoPending, page |-> "none", gives |-> "nothing", state |-> NoFlow,
            status |-> "none"]
Running(op, at, flow, tab) == [op |-> op, at |-> at, flow |-> flow, tab |-> tab]
IdleCaller == Running("none", "idle", NoFlow, NoTab)

Init ==
  /\ pending = NoPending /\ result = NoResult /\ account = NoFlow
  /\ attempts = <<>>
  /\ queue = <<>> /\ nav = IdleNav
  /\ caller = [c \in Callers |-> IdleCaller]
  /\ ui = [flow |-> NoFlow, says |-> "away"]
  /\ cancelled = {} /\ overlapped = {} /\ stored = {}
  /\ events = 0 /\ deaths = 0 /\ faults = 0

-----------------------------------------------------------------------------
\* begin: forget the last result, open the tab, then remember the flow.

Go(c, r) == caller' = [caller EXCEPT ![c] = r]
Idle(c) == caller[c].op = "none"
At(c, op, at) == caller[c].op = op /\ caller[c].at = at

Begin(c) ==
  /\ Idle(c) /\ Len(attempts) + Cardinality({d \in Callers : At(d, "begin", "open")}) < MaxFlows
  /\ result' = NoResult
  /\ Go(c, Running("begin", "open", NoFlow, NoTab))
  /\ UNCHANGED <<pending, account, attempts, queue, nav, ui, history, events, counts>>

OpenTab(c) ==
  /\ At(c, "begin", "open")
  /\ attempts' = Append(attempts, 0)
  /\ \E tab \in {Len(attempts) + 1, NoTab} :
       Go(c, Running("begin", "remember", Len(attempts) + 1, tab))
  /\ UNCHANGED <<storage, queue, nav, ui, history, events, counts>>

Remember(c) ==
  /\ At(c, "begin", "remember")
  /\ pending' = [flow |-> caller[c].flow, tab |-> caller[c].tab, trail |-> "none"]
  /\ Go(c, IdleCaller)
  /\ ui' = [flow |-> caller[c].flow, says |-> "waiting"]
  /\ UNCHANGED <<result, account, attempts, queue, nav, history, events, counts>>

-----------------------------------------------------------------------------
\* cancel and onTabClosed, which end in finish.

Event == events < MaxEvents /\ events' = events + 1

StartCancel(c) ==
  /\ Idle(c) /\ Event
  /\ pending # NoPending
  /\ Go(c, Running("cancel", "remove", pending.flow, NoTab))
  /\ UNCHANGED <<storage, attempts, queue, nav, ui, history, counts>>

TabClosed(c, tab) ==
  /\ Idle(c) /\ Event
  /\ pending # NoPending /\ pending.tab = tab
  /\ Go(c, Running("closed", "remove", pending.flow, NoTab))
  /\ UNCHANGED <<storage, attempts, queue, nav, ui, history, counts>>

\* A faulty variant: the result is written, the flow stays.
RemovePending_Not(c) ==
  /\ caller[c].at = "remove"
  /\ Go(c, [caller[c] EXCEPT !.at = "result"])
  /\ cancelled' = cancelled \cup {caller[c].flow}
  /\ overlapped' = overlapped \cup
       {f \in {caller[c].flow} : nav.p.flow = f \/ attempts[f] > 0}
  /\ UNCHANGED <<storage, attempts, queue, nav, ui, stored, events, counts>>

\* The first half of finish.
RemovePending(c) ==
  /\ caller[c].at = "remove"
  /\ pending' = NoPending
  /\ Go(c, [caller[c] EXCEPT !.at = "result"])
  /\ cancelled' = cancelled \cup {caller[c].flow}
  /\ overlapped' = overlapped \cup
       {f \in {caller[c].flow} : nav.p.flow = f \/ attempts[f] > 0}
  /\ UNCHANGED <<result, account, attempts, queue, nav, ui, stored, events, counts>>

\* The second half.
WriteResult(c) ==
  /\ caller[c].at = "result"
  /\ result' = [flow |-> caller[c].flow, status |-> "cancelled"]
  /\ Go(c, IdleCaller)
  /\ UNCHANGED <<pending, account, attempts, queue, nav, ui, history, events, counts>>

-----------------------------------------------------------------------------
\* Navigations.

\* Pages the browser can show: Mozilla's sign-in pages, which carry the state,
\* and the success page with a code or an error, also that of another sign-in.
Urls ==
  [page: {"content"}, state: Flows, gives: {"nothing"}] \cup
  [page: {"success"}, state: Flows, gives: {"code", "error"}] \cup
  [page: {"success"}, state: {NoFlow}, gives: {"code"}]

\* A listener or the relay reports a navigation.
Navigate(tab, url) ==
  /\ Event
  /\ queue' = Append(queue, [tab |-> tab, url |-> url])
  /\ UNCHANGED <<storage, attempts, nav, caller, ui, history, counts>>

\* A faulty variant: only the flow's own tab counts.
Concerns_TabOnly(n, p) == p.tab = NoTab \/ n.tab = p.tab

\* Is the navigation one of the flow p?  The state is proof enough in any tab.
Concerns(n, p) == p.tab = NoTab \/ n.tab = p.tab \/ n.url.state = p.flow

\* handleNavigation up to the trail.
TakeNavigation ==
  /\ nav = IdleNav /\ queue # <<>>
  /\ queue' = Tail(queue)
  /\ LET n == Head(queue) IN
     IF pending # NoPending /\ Concerns(n, pending)
       THEN nav' = [at |-> IF pending.trail # n.url.page THEN "trail" ELSE "match",
                    p |-> [pending EXCEPT !.trail = n.url.page],
                    page |-> n.url.page, gives |-> n.url.gives, state |-> n.url.state,
                    status |-> "none"]
       ELSE UNCHANGED nav
  /\ UNCHANGED <<storage, attempts, caller, ui, history, events, counts>>

NavTo(at) == nav' = [nav EXCEPT !.at = at]
NavEnds(status) == nav' = [nav EXCEPT !.at = "remove", !.status = status]

\* The trail is written back with the whole flow, as it was read.
WriteTrail ==
  /\ nav.at = "trail"
  /\ pending' = nav.p
  /\ NavTo("match")
  /\ UNCHANGED <<result, account, attempts, queue, caller, ui, history, events, counts>>

\* matches: an error or another flow's state on the success page throws.  A page
\* that does not match ends a flow that is older than SIGNIN_MAX_AGE_MS.
Matches ==
  /\ nav.at = "match"
  /\ IF nav.page = "success"
       THEN IF nav.gives = "code" /\ nav.state = nav.p.flow THEN NavTo("claim") ELSE NavEnds("error")
       ELSE nav' = IdleNav \/ NavEnds("error")
  /\ UNCHANGED <<storage, attempts, queue, caller, ui, history, events, counts>>

\* A faulty variant: the flow is removed by finish only.
Claim_AtTheEnd ==
  /\ nav.at = "claim"
  /\ NavTo("exchange")
  /\ UNCHANGED <<storage, attempts, queue, caller, ui, history, events, counts>>

Claim ==
  /\ nav.at = "claim"
  /\ pending' = NoPending
  /\ NavTo("exchange")
  /\ UNCHANGED <<result, account, attempts, queue, caller, ui, history, events, counts>>

\* The token server takes a code once.  Its answer may be lost or have no key.
Exchange ==
  /\ nav.at = "exchange"
  /\ attempts' = [attempts EXCEPT ![nav.p.flow] = @ + 1]
  /\ \/ attempts[nav.p.flow] = 0 /\ NavTo("save")
     \/ NavEnds("error")
  /\ UNCHANGED <<storage, queue, caller, ui, history, events, counts>>

Stores(f) == account' = f /\ stored' = stored \cup {f}

\* A faulty variant: a vault that refuses the tokens goes unnoticed.
SaveAccount_Unchecked ==
  /\ nav.at = "save" /\ NavEnds("complete")
  /\ Stores(nav.p.flow) \/ UNCHANGED <<account, stored>>
  /\ UNCHANGED <<pending, result, attempts, queue, caller, ui, cancelled, overlapped, events, counts>>

\* The vault takes the tokens, or throws: it may be locked.
SaveAccount ==
  /\ nav.at = "save"
  /\ \/ Stores(nav.p.flow) /\ NavEnds("complete")
     \/ NavEnds("error") /\ UNCHANGED <<account, stored>>
  /\ UNCHANGED <<pending, result, attempts, queue, caller, ui, cancelled, overlapped, events, counts>>

\* finish, as above.
NavRemoves ==
  /\ nav.at = "remove"
  /\ pending' = NoPending
  /\ NavTo("result")
  /\ UNCHANGED <<result, account, attempts, queue, caller, ui, history, events, counts>>

\* A faulty variant: only what failed is reported.
NavReports_Failures ==
  /\ nav.at = "result"
  /\ result' = IF nav.status = "complete" THEN result ELSE [flow |-> nav.p.flow, status |-> nav.status]
  /\ nav' = IdleNav
  /\ UNCHANGED <<pending, account, attempts, queue, caller, ui, history, events, counts>>

NavReports ==
  /\ nav.at = "result"
  /\ result' = [flow |-> nav.p.flow, status |-> nav.status]
  /\ nav' = IdleNav
  /\ UNCHANGED <<pending, account, attempts, queue, caller, ui, history, events, counts>>

\* A faulty variant: the rejected link is never replaced in the chain.
NavFails_Stalls ==
  /\ nav.at \in {"trail", "claim", "remove", "result"}
  /\ faults < MaxFaults /\ faults' = faults + 1
  /\ nav' = [nav EXCEPT !.at = "rejected"]
  /\ UNCHANGED <<storage, attempts, queue, caller, ui, history, events, deaths>>

\* A storage call rejects.  Reporting a success that way becomes an error to
\* report; else the navigation ends there and the next one is handled.
NavFails ==
  /\ nav.at \in {"trail", "claim", "remove", "result"}
  /\ faults < MaxFaults /\ faults' = faults + 1
  /\ IF nav.status = "complete" THEN NavEnds("error") ELSE nav' = IdleNav
  /\ UNCHANGED <<storage, attempts, queue, caller, ui, history, events, deaths>>

-----------------------------------------------------------------------------
\* waitForSignIn, and the end of the worker.

\* A navigation of the flow is in hand, or the result is forgotten for another one.
Unsettled == nav.p.flow = ui.flow \/ \E c \in Callers : caller[c].op = "begin"

\* The page says of either that the sign-in is no longer running.
Poll ==
  /\ ui.says = "waiting"
  /\ ui' = [ui EXCEPT !.says = IF result # NoResult THEN "result"
                               ELSE IF pending # NoPending THEN "waiting"
                               ELSE IF Unsettled THEN "not known yet" ELSE "no longer running"]
  /\ UNCHANGED <<storage, attempts, queue, nav, caller, history, events, counts>>

\* Session storage survives the worker, not the browser.
WorkerDies ==
  /\ deaths < MaxDeaths /\ deaths' = deaths + 1
  /\ queue' = <<>> /\ nav' = IdleNav /\ caller' = [c \in Callers |-> IdleCaller]
  /\ \/ UNCHANGED <<pending, ui>>
     \/ pending' = NoPending /\ ui' = [flow |-> NoFlow, says |-> "away"]
  /\ UNCHANGED <<result, account, attempts, history, events, faults>>

CallerStep(c) == OpenTab(c) \/ Remember(c) \/ RemovePending(c) \/ WriteResult(c)

NavStep ==
  \/ TakeNavigation \/ WriteTrail \/ Matches \/ Claim \/ Exchange \/ SaveAccount
  \/ NavRemoves \/ NavReports \/ NavFails

Next ==
  \/ \E c \in Callers : \/ Begin(c) \/ StartCancel(c) \/ CallerStep(c)
                        \/ \E tab \in Flows : TabClosed(c, tab)
  \/ \E tab \in Flows \cup {OtherTab}, url \in Urls : Navigate(tab, url)
  \/ NavStep \/ Poll \/ WorkerDies

Spec == Init /\ [][Next]_vars

\* The promises of a navigation settle.
FairSpec == Spec /\ WF_vars(NavStep)

-----------------------------------------------------------------------------
\* Properties.

Pending == [flow: Nat, tab: Int, trail: {"none", "content", "success"}]
Statuses == {"none", "complete", "error", "cancelled"}

\* The values of the variables; whatever is pending, in hand or saved is a flow
\* that was begun.
TypeOK ==
  /\ pending \in Pending /\ pending.flow \in Flows \cup {NoFlow}
  /\ result \in [flow: Nat, status: Statuses]
  /\ attempts \in Seq(Nat)
  /\ queue \in Seq([tab: Int, url: [page: {"content", "success"}, state: Nat,
                                    gives: {"nothing", "code", "error"}]])
  /\ nav.at \in {"idle", "trail", "match", "claim", "exchange", "save", "remove", "result"}
  /\ nav.p \in Pending /\ nav.status \in Statuses
  /\ nav.at # "idle" => nav.p.flow \in Flows
  /\ \A c \in Callers : caller[c].at \in {"remember", "remove", "result"} => caller[c].flow \in Flows
  /\ cancelled \subseteq Flows /\ overlapped \subseteq cancelled
  /\ stored \subseteq Flows /\ account \in stored \cup {NoFlow}
  /\ events \in 0..MaxEvents /\ deaths \in 0..MaxDeaths /\ faults \in 0..MaxFaults

\* A code is presented to the token server once, however often its redirect is
\* reported and wherever the worker dies (signin.ts:211-220, 286-290).
RedeemedOnce == \A f \in Flows : attempts[f] <= 1

\* The sign-in redeems codes as CodeRedemption says.
Redemption == INSTANCE CodeRedemption WITH presented <- attempts, saved <- account
Redeems == Redemption!Spec

\* A sign-in reported as complete put its account into the vault, where it is
\* unless another one's came after it.
SuccessIsStored == result.status = "complete" => result.flow \in stored

\* A cancelled flow is not taken up again and connects no account, unless one of
\* its navigations was in hand when it was removed or its code was spent.
CancelIsFinal ==
  \A f \in cancelled \ overlapped : pending.flow # f /\ account # f /\ attempts[f] = 0

\* One navigation that fails does not hold up those after it (signin.ts:226-227).
NavigationsAreHandled == []<>(queue = <<>> /\ nav = IdleNav)

\* A redirect with the code of the pending flow is not passed over, in whatever
\* tab it is seen: the flow ends, unless storage fails or the worker dies with the
\* redirect in its queue (signin.ts:237-240).  The first flow stands for any: another
\* may begin behind it.
AnyFlow == 1

RedirectIsTaken ==
  (pending.flow = AnyFlow /\ \E k \in DOMAIN queue :
     queue[k].url = [page |-> "success", state |-> AnyFlow, gives |-> "code"])
    ~> (pending.flow # AnyFlow \/ faults > 0 \/ deaths > 0)

\* CHANGELOG.md:183: the pages "poll for the result".  One told that the sign-in is
\* no longer running was told the truth, unless it asked between the claim of the
\* redirect and the result, storage failed or the worker died before the result.
PollTellsOutcome == ui.says = "no longer running" /\ faults = 0 /\ deaths = 0 => account # ui.flow

\* What the coordinator stores and tells its pages of a sign-in is what became of it
\* (signin.ts:189-200, 292-311).
ReportsAreTrue == TypeOK /\ SuccessIsStored /\ PollTellsOutcome

===============================================================================
