---------------------------- MODULE ConnectSession ----------------------------
(***************************************************************************)
(* Signing in with a Mozilla password: the step machine of                 *)
(* src/src/fxa/connect.ts, the requests of fxa/client.ts it makes, the     *)
(* router's handlers around it, and the setup page that drives it.         *)
(*                                                                         *)
(* A handler is one message of the page.  It runs from await to await, and *)
(* each await of a request is two steps: the auth server serves it, and    *)
(* the handler goes on with the answer.  A request or its answer may be    *)
(* lost.  Nothing keeps the page from sending a second message while the   *)
(* first is served, so two handlers may work on the same session.          *)
(*                                                                         *)
(* What stands for what.  A sign-in object is its index in "objects", a    *)
(* session of the server its index in "sessions"; an object's two tokens   *)
(* are that index, or 0.  Keys, grants and profiles are the account they   *)
(* are of.  Hawk headers, clock offsets and key derivation are left out.   *)
(***************************************************************************)
EXTENDS Integers, Sequences, FiniteSets

CONSTANTS
  Calls,         \* handlers under way at once
  Accounts,      \* the accounts the user has
  MaxAsks,       \* bound: messages the page sends
  MaxFaults      \* bound: requests and answers lost, the page closed, the vault locked

ASSUME ConnectAssumption == MaxAsks \in Nat /\ MaxFaults \in Nat

VARIABLES
  objects,       \* the ConnectSessions made so far
  current,       \* router.ts: connectSession, or 0
  call,          \* the handlers under way
  sessions,      \* the auth server: its sessions
  open, saved,   \* the vault: is it unlocked, and the account in it
  page,          \* what the page shows, and the server's session it asks a code for
  overlap,       \* history: a sign-in was begun while another handler ran
  asks, faults

vars == <<objects, current, call, sessions, open, saved, page, overlap, asks, faults>>

None == "none"
Idle == [kind |-> "idle", object |-> 0, at |-> None, answer |-> None, token |-> 0, keys |-> None]
NoAccount == [uid |-> None, email |-> None, kSync |-> None, refreshToken |-> None, from |-> 0]
NoPage == [shows |-> "account", asker |-> 0]
Second == {"totp-2fa", "email-2fa"}    \* what a new session may still want

Init ==
  /\ objects = <<>> /\ current = 0 /\ sessions = <<>>
  /\ call = [c \in Calls |-> Idle]
  /\ open = TRUE /\ saved = NoAccount
  /\ page = NoPage
  /\ overlap = FALSE /\ asks = 0 /\ faults = 0

-----------------------------------------------------------------------------
\* The page.

Asks == asks < MaxAsks /\ asks' = asks + 1
Put(c, w) == call' = [call EXCEPT ![c] = w]
Shows(step) == page' = [page EXCEPT !.shows = step]
ShowsError(c) == Put(c, Idle) /\ UNCHANGED page

NewObject(email) == [email |-> email, uid |-> None, token |-> 0, keyFetch |-> 0]

\* A faulty variant: a sign-in begun again goes on with the object there is.
Connect_Reuses(c, email) ==
  /\ Asks /\ call[c] = Idle /\ page.shows # "done"
  /\ objects' = IF current = 0 THEN Append(objects, NewObject(email))
                ELSE [objects EXCEPT ![current].email = email]
  /\ current' = (IF current = 0 THEN Len(objects') ELSE current)
  /\ \E at \in {"login"} \cup (IF page.shows = "account" THEN {} ELSE {"login with a code"}) :
       Put(c, [Idle EXCEPT !.kind = "connect", !.object = current', !.at = at])
  /\ overlap' = (overlap \/ \E d \in Calls : call[d] # Idle)
  /\ UNCHANGED <<sessions, open, saved, page, faults>>

\* account/connect, with the code typed so far if there is a place to type one.
Connect(c, email) ==
  /\ Asks /\ call[c] = Idle /\ page.shows # "done"
  /\ objects' = Append(objects, NewObject(email)) /\ current' = Len(objects')
  /\ \E at \in {"login"} \cup (IF page.shows = "account" THEN {} ELSE {"login with a code"}) :
       Put(c, [Idle EXCEPT !.kind = "connect", !.object = current', !.at = at])
  /\ overlap' = (overlap \/ \E d \in Calls : call[d] # Idle)
  /\ UNCHANGED <<sessions, open, saved, page, faults>>

\* account/submitTotp or submitEmailCode, by the label of the field, and
\* account/resendEmailCode: refused at once without a sign-in that has a session.
Submit(c) ==
  /\ Asks /\ call[c] = Idle
  /\ \E kind \in CASE page.shows = "needs-totp" -> {"totp"}
                   [] page.shows = "needs-email-code" -> {"email", "resend"}
                   [] page.shows = "needs-unblock-code" -> {"email"}
                   [] OTHER -> {} :
       IF current = 0 \/ objects[current].token = 0 THEN UNCHANGED call
       ELSE Put(c, [Idle EXCEPT !.kind = kind, !.object = current, !.at = kind,
                                !.token = objects[current].token])
  /\ UNCHANGED <<objects, current, sessions, open, saved, page, overlap, faults>>

-----------------------------------------------------------------------------
\* The auth server, and the network.

IsLogin(w) == w.at \in {"login", "login with a code"}

Login(w, verified, second) ==
  Append(sessions, [acct |-> objects[w.object].email, verified |-> verified, second |-> second,
                    keys |-> TRUE, alive |-> TRUE, grants |-> 0])

\* What the server may make of a request: its answer, and its sessions after it.  A
\* token is good while its session is alive, a key fetch token once, and both for
\* keys and grants only when the session is verified.
Replies(w) ==
  LET s == w.token
      Has(t) == t # 0 /\ sessions[t].alive
      Good(t) == Has(t) /\ sessions[t].verified
      Reply(answer, then) == [answer |-> answer, then |-> then]
      Refusal == Reply("refused", sessions)
      When(ok, then) == {IF ok THEN Reply("ok", then) ELSE Refusal}
  IN CASE IsLogin(w) ->
            {Refusal, Reply("ok", Login(w, TRUE, None))}
              \cup {Reply("ok", Login(w, FALSE, second)) : second \in Second}
              \cup (IF w.at = "login" THEN {Reply("blocked", sessions)} ELSE {})
       [] w.at \in {"totp", "email"} ->
            {Refusal} \cup (IF w.at = "totp" THEN {Reply("no success", sessions)} ELSE {})
              \cup When(Has(s), [sessions EXCEPT ![s].verified = TRUE])
       [] w.at = "keys" ->
            LET k == objects[w.object].keyFetch IN
            When(Good(k) /\ sessions[k].keys, [sessions EXCEPT ![k].keys = FALSE])
       [] w.at = "token" -> When(Good(s), [sessions EXCEPT ![s].grants = @ + 1])
       [] w.at = "destroy" -> When(Has(s), [sessions EXCEPT ![s].alive = FALSE])
       [] w.at = "scope" -> When(Good(s), sessions)
       [] OTHER -> When(TRUE, sessions)

Awaits(c) == call[c].at \notin {None, "write"} /\ call[c].answer = None

\* The answer to a login names the session it made.
Serve(c) ==
  /\ Awaits(c)
  /\ \E reply \in Replies(call[c]) :
       /\ Put(c, [call[c] EXCEPT !.answer = reply.answer,
                                !.token = IF Len(reply.then) > Len(sessions) THEN Len(reply.then) ELSE @])
       /\ sessions' = reply.then
  /\ UNCHANGED <<objects, current, open, saved, page, overlap, asks, faults>>

Fault == faults < MaxFaults /\ faults' = faults + 1

Lose(c) ==
  /\ Awaits(c) /\ Fault
  /\ Put(c, [call[c] EXCEPT !.answer = "lost"])
  /\ sessions' \in {sessions} \cup {reply.then : reply \in Replies(call[c])}
  /\ UNCHANGED <<objects, current, open, saved, page, overlap, asks>>

\* The auto-lock, or the user.
LockVault ==
  /\ open /\ Fault /\ open' = FALSE
  /\ UNCHANGED <<objects, current, call, sessions, saved, page, overlap, asks>>

\* The page's port keeps the worker; with the page closed it may go, and what the
\* sign-in knows with it.  The page opened again shows whether an account is there.
PageClosed ==
  /\ Fault
  /\ current' = 0 /\ call' = [c \in Calls |-> Idle]
  /\ page' = [NoPage EXCEPT !.shows = IF saved = NoAccount THEN "account" ELSE "done"]
  /\ UNCHANGED <<objects, sessions, open, saved, overlap, asks>>

-----------------------------------------------------------------------------
\* ConnectSession.

Said(c, answer) == call[c].answer = answer
Threw(answer) == answer \in {"refused", "lost", "no success"}
Goes(c, at) == Put(c, [call[c] EXCEPT !.at = at, !.answer = None])

\* finish, up to its first await.
Finish(c, object) ==
  IF object.token # 0 /\ object.keyFetch # 0
    THEN Put(c, [call[c] EXCEPT !.at = "keys", !.answer = None, !.token = object.token]) /\ UNCHANGED page
    ELSE ShowsError(c)

\* A faulty variant: only a sign-in that needs nothing more is kept.
LoggedIn_Clears(c) ==
  /\ IsLogin(call[c]) /\ Said(c, "ok")
  /\ LET s == call[c].token
         object == [objects[call[c].object] EXCEPT !.uid = sessions[s].acct, !.token = s, !.keyFetch = s] IN
     /\ objects' = [objects EXCEPT ![call[c].object] = object]
     /\ IF sessions[s].verified THEN Finish(c, object) /\ UNCHANGED current
        ELSE /\ page' = [shows |-> IF sessions[s].second = "totp-2fa" THEN "needs-totp" ELSE "needs-email-code",
                         asker |-> s]
             /\ Put(c, Idle) /\ current' = 0
  /\ UNCHANGED <<sessions, open, saved, overlap, asks, faults>>

\* begin, after signIn.
LoggedIn(c) ==
  /\ IsLogin(call[c]) /\ Said(c, "ok")
  /\ LET s == call[c].token
         object == [objects[call[c].object] EXCEPT !.uid = sessions[s].acct, !.token = s, !.keyFetch = s] IN
     /\ objects' = [objects EXCEPT ![call[c].object] = object]
     /\ IF sessions[s].verified THEN Finish(c, object)
        ELSE /\ page' = [shows |-> IF sessions[s].second = "totp-2fa" THEN "needs-totp" ELSE "needs-email-code",
                         asker |-> s]
             /\ Put(c, Idle)
  /\ UNCHANGED <<current, sessions, open, saved, overlap, asks, faults>>

\* begin, refused for want of an unblock code: one is sent for, and the page told,
\* whatever came of it.
Blocked(c) ==
  /\ \/ /\ Said(c, "blocked") /\ Goes(c, "send unblock code") /\ UNCHANGED page
     \/ /\ call[c].at = "send unblock code" /\ call[c].answer # None
        /\ Put(c, Idle) /\ page' = [shows |-> "needs-unblock-code", asker |-> 0]
  /\ UNCHANGED <<objects, current, sessions, open, saved, overlap, asks, faults>>

\* A faulty variant: the answer to a TOTP code is not looked into.
Verified_Unasked(c) ==
  /\ call[c].at \in {"totp", "email"} /\ call[c].answer \in {"ok", "no success"}
  /\ Finish(c, objects[call[c].object])
  /\ UNCHANGED <<objects, current, sessions, open, saved, overlap, asks, faults>>

\* submitTotp and submitEmailCode, once the code was accepted.
Verified(c) ==
  /\ call[c].at \in {"totp", "email"} /\ Said(c, "ok")
  /\ Finish(c, objects[call[c].object])
  /\ UNCHANGED <<objects, current, sessions, open, saved, overlap, asks, faults>>

\* finish after accountKeys: the key fetch token is forgotten.
KeysFetched(c) ==
  /\ call[c].at = "keys" /\ Said(c, "ok")
  /\ LET o == call[c].object IN
     /\ Put(c, [call[c] EXCEPT !.at = "scope", !.answer = None, !.keys = sessions[call[c].token].acct])
     /\ objects' = [objects EXCEPT ![o].keyFetch = 0]
  /\ UNCHANGED <<current, sessions, open, saved, page, overlap, asks, faults>>

\* A faulty variant: a token request that seems lost is sent again.
GoesOn_Retries(c) ==
  /\ \/ call[c].at = "scope" /\ Said(c, "ok") /\ Goes(c, "token")
     \/ call[c].at = "token" /\ Said(c, "ok") /\ Goes(c, "device")
     \/ call[c].at = "token" /\ Said(c, "lost") /\ Goes(c, "token")
     \/ call[c].at = "device" /\ call[c].answer # None /\ Goes(c, "destroy")
  /\ UNCHANGED <<objects, current, sessions, open, saved, page, overlap, asks, faults>>

\* A faulty variant: the session is left alone.
GoesOn_KeepsSession(c) ==
  /\ \/ call[c].at = "scope" /\ Said(c, "ok") /\ Goes(c, "token")
     \/ call[c].at = "token" /\ Said(c, "ok") /\ Goes(c, "device")
     \/ call[c].at = "device" /\ call[c].answer # None /\ Goes(c, "write")
  /\ UNCHANGED <<objects, current, sessions, open, saved, page, overlap, asks, faults>>

\* finish, on its way: the last two requests may fail.
GoesOn(c) ==
  /\ \/ call[c].at = "scope" /\ Said(c, "ok") /\ Goes(c, "token")
     \/ call[c].at = "token" /\ Said(c, "ok") /\ Goes(c, "device")
     \/ call[c].at = "device" /\ call[c].answer # None /\ Goes(c, "destroy")
  /\ UNCHANGED <<objects, current, sessions, open, saved, page, overlap, asks, faults>>

\* finish after destroySession.
Destroyed(c) ==
  /\ call[c].at = "destroy" /\ call[c].answer # None
  /\ objects' = [objects EXCEPT ![call[c].object].token = 0]
  /\ Goes(c, "write")
  /\ UNCHANGED <<current, sessions, open, saved, page, overlap, asks, faults>>

\* A faulty variant: a sign-in that failed cleans up after itself.
Throws_Destroys(c) ==
  /\ call[c].at \notin {"send unblock code", "device", "destroy"} /\ Threw(call[c].answer)
  /\ ShowsError(c)
  /\ sessions' = IF call[c].token = 0 THEN sessions ELSE [sessions EXCEPT ![call[c].token].alive = FALSE]
  /\ UNCHANGED <<objects, current, open, saved, overlap, asks, faults>>

\* What an await threw is what the handler throws, and the page shows.
Throws(c) ==
  /\ call[c].at \notin {"send unblock code", "device", "destroy"} /\ Threw(call[c].answer)
  /\ ShowsError(c)
  /\ UNCHANGED <<objects, current, sessions, open, saved, overlap, asks, faults>>

Resent(c) ==
  /\ call[c].at = "resend" /\ Said(c, "ok")
  /\ Put(c, Idle)
  /\ UNCHANGED <<objects, current, sessions, open, saved, page, overlap, asks, faults>>

Tokens(c) ==
  LET object == objects[call[c].object] IN
  [uid |-> object.uid, email |-> object.email, kSync |-> call[c].keys,
   refreshToken |-> sessions[call[c].token].acct, from |-> call[c].token]

\* A faulty variant: the page is told before the account is written.
Written_ToldFirst(c) ==
  /\ call[c].at = "write"
  /\ saved' = IF open THEN Tokens(c) ELSE saved
  /\ current' = 0 /\ Put(c, Idle) /\ Shows("done")
  /\ UNCHANGED <<objects, sessions, open, overlap, asks, faults>>

\* finishConnect on a completed step; a locked vault throws.
Written(c) ==
  /\ call[c].at = "write"
  /\ IF open THEN saved' = Tokens(c) /\ current' = 0 /\ Put(c, Idle) /\ Shows("done")
     ELSE ShowsError(c) /\ UNCHANGED <<saved, current>>
  /\ UNCHANGED <<objects, sessions, open, overlap, asks, faults>>

-----------------------------------------------------------------------------
Runs(c) ==
  \/ Serve(c) \/ LoggedIn(c) \/ Blocked(c) \/ Verified(c) \/ KeysFetched(c) \/ GoesOn(c)
  \/ Destroyed(c) \/ Throws(c) \/ Resent(c) \/ Written(c)

Next ==
  \/ \E c \in Calls : Submit(c) \/ Lose(c) \/ Runs(c) \/ \E email \in Accounts : Connect(c, email)
  \/ LockVault \/ PageClosed

Spec == Init /\ [][Next]_vars

-----------------------------------------------------------------------------
\* Properties.

\* The values of the variables; what the objects and handlers point at exists, and an
\* object has no key fetch token without its session token.
TypeOK ==
  /\ \A o \in DOMAIN objects :
       /\ objects[o].email \in Accounts /\ objects[o].uid \in Accounts \cup {None}
       /\ objects[o].token \in 0..Len(sessions) /\ objects[o].keyFetch \in {0, objects[o].token}
  /\ current \in 0..Len(objects) /\ page.asker \in 0..Len(sessions)
  /\ \A c \in Calls : call[c].object \in 0..Len(objects) /\ call[c].token \in 0..Len(sessions)
  /\ \A s \in DOMAIN sessions : sessions[s].acct \in Accounts /\ sessions[s].grants \in 0..2
  /\ {open, overlap} \subseteq BOOLEAN /\ asks \in 0..MaxAsks /\ faults \in 0..MaxFaults
  /\ page.shows \in {"account", "needs-totp", "needs-email-code", "needs-unblock-code", "done"}

\* What is saved is of one account throughout, whichever sign-ins overlapped
\* (connect.ts:155-164).
SavedIsOne ==
  saved # NoAccount => Cardinality({saved.uid, saved.email, saved.kSync, saved.refreshToken}) = 1

\* The single-use key fetch token is not presented before the session is verified
\* (connect.ts:7-9).
KeysAfterVerified ==
  \A c \in Calls : call[c].at = "keys" /\ objects[call[c].object].keyFetch # 0 =>
    sessions[objects[call[c].object].keyFetch].verified

\* A code sent twice, or again after a failure half-way, does not make the server
\* issue a second refresh token that nobody would ever revoke (connect.ts:119-130).
OneGrant == \A s \in DOMAIN sessions : sessions[s].grants <= 1

\* A session that gave an account its tokens is no longer alive, or something was
\* lost (connect.ts:148-149).
SessionThrownAway == saved # NoAccount /\ faults = 0 => ~sessions[saved.from].alive

\* A sign-in whose code was accepted has led to an account when nothing runs any more,
\* however often the code was sent (connect.ts:90-102).
VerifiedIsSaved ==
  (\A c \in Calls : call[c] = Idle) /\ faults = 0 /\ ~overlap /\ page.asker # 0
    => (sessions[page.asker].verified => page.shows = "done")

\* The code the page asks for goes to the sign-in that asked for it, unless sign-ins
\* overlapped or what the worker knew is gone (router.ts:160-168, 353).
CodeReachesAsker ==
  page.asker # 0 /\ page.shows # "done" /\ ~overlap /\ faults = 0
  /\ (\A c \in Calls : call[c] = Idle)
    => current # 0 /\ objects[current].token \in {0, page.asker}

\* The page is told that the sign-in is complete when there is an account
\* (router.ts:351-354).
CompleteIsSaved == page.shows = "done" => saved # NoAccount

\* The page that asks for codes gets through to the sign-in that wants them, and is
\* told of the end when there is one (router.ts:147-168, 351-354).
PageGetsThrough == VerifiedIsSaved /\ CodeReachesAsker /\ CompleteIsSaved

\* A session is used in order: verified before its keys are fetched, destroyed when
\* the account has its tokens (connect.ts:7-9, 148-149).
SessionInOrder == TypeOK /\ KeysAfterVerified /\ SessionThrownAway

=============================================================================
