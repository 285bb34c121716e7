----------------------------- MODULE ConnectProofs -----------------------------
(***************************************************************************)
(* Signing in with a password, for any handlers, accounts, messages and    *)
(* faults: what is saved is of one account, a session gives one grant and  *)
(* is thrown away, and the page gets through to its sign-in.               *)
(***************************************************************************)
EXTENDS ConnectSession, FiniteSetTheorems, TLAPS

\* What the variables and their parts hold.
Logins == {"login", "login with a code"}
Finishes == {"keys", "scope", "token", "device", "destroy", "write"}
Verifies == {"totp", "email"}
Begins == Logins \cup {"send unblock code"}
Later == Verifies \cup Finishes \cup {"resend"}

Object == [email: Accounts, uid: Accounts \cup {None}, token: Nat, keyFetch: Nat]
Session == [acct: Accounts, verified: BOOLEAN, second: Second \cup {None}, keys: BOOLEAN,
            alive: BOOLEAN, grants: Nat]
Call == [kind: {"idle", "connect", "totp", "email", "resend"}, object: Nat,
         at: Begins \cup Later \cup {None},
         answer: {None, "ok", "blocked", "refused", "no success", "lost"},
         token: Nat, keys: Accounts \cup {None}]
Page == [shows: {"account", "needs-totp", "needs-email-code", "needs-unblock-code", "done"}, asker: Nat]
Account == [uid: Accounts \cup {None}, email: Accounts \cup {None}, kSync: Accounts \cup {None},
            refreshToken: Accounts \cup {None}, from: Nat]

\* The values of the variables.
Types ==
  /\ objects \in Seq(Object) /\ sessions \in Seq(Session)
  /\ call \in [Calls -> Call] /\ page \in Page /\ saved \in Account
  /\ current \in 0..Len(objects) /\ page.asker \in 0..Len(sessions) /\ saved.from \in 0..Len(sessions)
  /\ open \in BOOLEAN /\ overlap \in BOOLEAN /\ asks \in 0..MaxAsks /\ faults \in 0..MaxFaults

\* A handler is idle or works on an object; past the login it has a session.
Staged(w) ==
  /\ w.at = None => w = Idle
  /\ w.at # None => w.object \in 1..Len(objects)
  /\ (w.at \in Logins /\ w.answer = "ok") \/ w.at \in Later => w.token \in 1..Len(sessions)
  /\ (w.at \in Logins /\ w.answer # "ok") \/ w.at = "send unblock code" => w.token = 0
  /\ w.answer = "blocked" => w.at = "login"
  /\ w.answer = "no success" => w.at = "totp"
  /\ w.at = "write" => w.answer = None

\* The objects point at sessions of their account.
Pointing(o) ==
  /\ o.token \in 0..Len(sessions) /\ o.keyFetch \in {0, o.token}
  /\ o.token # 0 => o.uid = o.email /\ o.email = sessions[o.token].acct

\* Types, stages and pointers.
Base ==
  /\ Types
  /\ \A c \in Calls : Staged(call[c])
  /\ \A o \in DOMAIN objects : Pointing(objects[o])

\* The handler that was given the keys of a session.
Won(w) ==
  \/ w.at = "keys" /\ w.answer = "ok"
  \/ w.at \in {"scope", "token"} /\ w.answer \in {None, "ok"}
  \/ w.at \in {"device", "destroy", "write"}

\* It has no grant yet; the session lives.
Ungranted(w) == w.at \in {"keys", "scope"} \/ (w.at = "token" /\ w.answer = None)
\* It has asked for the end of the session.
Gone(w) == w.at = "write" \/ (w.at = "destroy" /\ w.answer # None)

\* A login has its object to itself, and then the session that it made.
Alone(c) ==
  call[c].at \in Begins =>
    /\ objects[call[c].object].token = 0
    /\ \A d \in Calls \ {c} : call[d].object # call[c].object
    /\ call[c].at \in Logins /\ call[c].answer = "ok" =>
         /\ sessions[call[c].token].acct = objects[call[c].object].email
         /\ sessions[call[c].token].keys
         /\ \A o \in DOMAIN objects : objects[o].token # call[c].token
         /\ \A d \in Calls \ {c} : call[d].token # call[c].token
         /\ page.asker # call[c].token

\* Past it, it works on the session of its object.
Working(w) ==
  w.at \in Later =>
    /\ objects[w.object].token \in {0, w.token}
    /\ objects[w.object].uid = objects[w.object].email
    /\ objects[w.object].email = sessions[w.token].acct
    /\ w.at \in Finishes \/ (w.at \in Verifies /\ w.answer = "ok") => sessions[w.token].verified
    /\ w.at \in Finishes \ {"keys"} =>
         w.keys = sessions[w.token].acct /\ objects[w.object].keyFetch = 0

\* One handler wins the keys of a session, and gets its only grant.
Winning(c) ==
  Won(call[c]) =>
    /\ ~sessions[call[c].token].keys
    /\ \A d \in Calls \ {c} : Won(call[d]) => call[d].token # call[c].token
    /\ Ungranted(call[c]) => sessions[call[c].token].grants = 0
    /\ ~Gone(call[c]) => sessions[call[c].token].alive
    /\ Gone(call[c]) /\ faults = 0 => ~sessions[call[c].token].alive

\* A session grants once, and only after it gave its keys.
Granting(s) == s.grants <= 1 /\ (s.keys => s.grants = 0 /\ s.alive)

\* What is lost, and a vault that is locked, are counted as faults.
Faulty == (\A c \in Calls : call[c].answer = "lost" => faults # 0) /\ (~open => faults # 0)

\* What is saved is of one account, whose session is dead unless something was lost.
Saving ==
  saved # NoAccount =>
    /\ saved.from \in 1..Len(sessions)
    /\ saved.uid = saved.email /\ saved.email = saved.kSync /\ saved.kSync = saved.refreshToken
    /\ faults = 0 => ~sessions[saved.from].alive

\* What keeps the sign-ins apart.
Safe ==
  /\ \A c \in Calls : Alone(c) /\ Working(call[c]) /\ Winning(c)
  /\ \A s \in DOMAIN sessions : Granting(sessions[s])
  /\ Faulty /\ Saving

\* Without faults, and with one sign-in after the other, the page gets through.
Calm == faults = 0 /\ ~overlap

\* A handler that leads to the end, if nothing is lost.
Finishing(w) ==
  \/ w.at \in Verifies /\ w.answer = "ok"
  \/ w.at = "keys" /\ w.answer = None
  \/ Won(w)

\* A sign-in that begins runs alone; ...
Beginning(c) ==
  call[c].at \in Begins => page.shows # "done" /\ \A d \in Calls \ {c} : call[d].at = None

\* ... the handlers work on the current object and its session, ...
OnCurrent(c) ==
  call[c].at # None =>
    /\ current # 0 /\ call[c].object = current
    /\ \A d \in Calls : call[c].at \in Later /\ call[d].at \in Later => call[c].token = call[d].token

\* ... which has not given its keys yet, unless one of them has won those; ...
KeysThere ==
  current # 0 =>
    /\ \A c \in Calls : call[c].at \in Later => objects[current].token = call[c].token
    /\ objects[current].token # 0 =>
         objects[current].keyFetch = objects[current].token /\ sessions[objects[current].token].keys

\* ... and the sign-in that the page asks a code for is the current one, and one of
\* them finishes it once a code was accepted.
Asker ==
  page.asker # 0 =>
    /\ current # 0
    /\ sessions[page.asker].verified \/ objects[current].token \notin {0, page.asker} =>
         \E c \in Calls : Finishing(call[c])

\* So the sign-in goes on.
Going ==
  /\ \A c \in Calls : OnCurrent(c)
  /\ (\E c \in Calls : Won(call[c])) \/ KeysThere
  /\ Asker

\* While it is calm, the page gets through.
Through == Calm => (\A c \in Calls : Beginning(c)) /\ (page.shows # "done" => Going)


-----------------------------------------------------------------------------
\* Replacing and appending an element of a sequence.
LEMMA SeqExcept ==
  ASSUME NEW S, NEW s \in Seq(S), NEW i \in 1..Len(s), NEW v \in S
  PROVE  /\ [s EXCEPT ![i] = v] \in Seq(S) /\ Len([s EXCEPT ![i] = v]) = Len(s)
         /\ [s EXCEPT ![i] = v][i] = v
         /\ \A j \in 1..Len(s) : j # i => [s EXCEPT ![i] = v][j] = s[j]
OBVIOUS

\* An element appended comes after those that were there.
LEMMA SeqAppend ==
  ASSUME NEW S, NEW s \in Seq(S), NEW v \in S
  PROVE  /\ Append(s, v) \in Seq(S) /\ Len(Append(s, v)) = Len(s) + 1
         /\ Append(s, v)[Len(s) + 1] = v /\ \A j \in 1..Len(s) : Append(s, v)[j] = s[j]
OBVIOUS

\* What a step of handler c makes of the handlers.
LEMMA PutFacts ==
  ASSUME call \in [Calls -> Call], NEW c \in Calls, NEW w \in Call, Put(c, w)
  PROVE  /\ call' \in [Calls -> Call]
         /\ call'[c] = w /\ \A d \in Calls \ {c} : call'[d] = call[d]
BY DEF Put

\* A handler that does not run is at nothing and holds nothing.
LEMMA IdleCall ==
  /\ Idle \in Call /\ Idle.at = None /\ Idle.answer = None /\ Idle.token = 0 /\ Idle.object = 0
BY DEF Idle, Call, None

\* What the server makes of a login, of a code, and of the requests of finish.
LEMMA LoginReplies ==
  ASSUME Types, NEW w \in Call, w.at \in Logins, w.object \in DOMAIN objects, NEW reply \in Replies(w)
  PROVE  \/ /\ reply.then = sessions
            /\ reply.answer = "refused" \/ (reply.answer = "blocked" /\ w.at = "login")
         \/ /\ reply.answer = "ok"
            /\ \E s \in Session : /\ s.acct = objects[w.object].email /\ s.keys /\ s.alive /\ s.grants = 0
                                  /\ reply.then = Append(sessions, s)
<1> DEFINE S(verified, second) == [acct |-> objects[w.object].email, verified |-> verified,
             second |-> second, keys |-> TRUE, alive |-> TRUE, grants |-> 0]
           R(verified, second) == [answer |-> "ok", then |-> Append(sessions, S(verified, second))]
<1>1. IsLogin(w) /\ w.at \notin {"totp", "email", "keys", "token", "destroy", "scope"}
  BY DEF IsLogin, Logins
<1>2. \A verified, second : Login(w, verified, second) = Append(sessions, S(verified, second))
  BY DEF Login
<1>3. Replies(w) =
        {[answer |-> "refused", then |-> sessions], [answer |-> "ok", then |-> Login(w, TRUE, None)]}
          \cup {[answer |-> "ok", then |-> Login(w, FALSE, second)] : second \in Second}
          \cup (IF w.at = "login" THEN {[answer |-> "blocked", then |-> sessions]} ELSE {})
  BY <1>1 DEF Replies
<1>4. \/ reply = [answer |-> "refused", then |-> sessions]
      \/ reply = [answer |-> "blocked", then |-> sessions] /\ w.at = "login"
      \/ reply = [answer |-> "ok", then |-> Login(w, TRUE, None)]
      \/ \E second \in Second : reply = [answer |-> "ok", then |-> Login(w, FALSE, second)]
  <2> DEFINE refused == [answer |-> "refused", then |-> sessions]
             blocked == [answer |-> "blocked", then |-> sessions]
             ok(verified, second) == [answer |-> "ok", then |-> Login(w, verified, second)]
  <2>1. reply \in {refused, ok(TRUE, None)} \cup {ok(FALSE, second) : second \in Second}
                    \cup (IF w.at = "login" THEN {blocked} ELSE {})
    BY <1>3
  <2> HIDE DEF refused, blocked, ok
  <2>2. \/ reply = refused \/ reply = ok(TRUE, None) \/ (reply = blocked /\ w.at = "login")
        \/ \E second \in Second : reply = ok(FALSE, second)
    BY <2>1
  <2> QED BY <2>2 DEF refused, blocked, ok
<1>5. objects[w.object].email \in Accounts
  <2>1. objects[w.object] \in Object
    BY DEF Types
  <2> QED BY <2>1 DEF Object
<1>6. ASSUME NEW verified \in BOOLEAN, NEW second \in Second \cup {None},
             reply = [answer |-> "ok", then |-> Login(w, verified, second)]
      PROVE  reply.answer = "ok" /\
             \E s \in Session : /\ s.acct = objects[w.object].email /\ s.keys /\ s.alive /\ s.grants = 0
                                /\ reply.then = Append(sessions, s)
  <2>1. S(verified, second) \in Session
    BY <1>5, Zenon DEF Session
  <2>2. /\ S(verified, second).acct = objects[w.object].email
        /\ S(verified, second).keys /\ S(verified, second).alive /\ S(verified, second).grants = 0
    OBVIOUS
  <2>3. reply.answer = "ok" /\ reply.then = Append(sessions, S(verified, second))
    BY <1>2, <1>6
  <2> HIDE DEF S
  <2> QED BY <2>1, <2>2, <2>3
<1>7. CASE reply = [answer |-> "refused", then |-> sessions]
  BY <1>7
<1>8. CASE reply = [answer |-> "blocked", then |-> sessions] /\ w.at = "login"
  BY <1>8
<1> QED BY <1>4, <1>6, <1>7, <1>8, Zenon

\* A code is refused, answered without success, or verifies its session.
LEMMA CodeReplies ==
  ASSUME Types, NEW w \in Call, w.at \in Verifies, w.token \in 1..Len(sessions), NEW reply \in Replies(w)
  PROVE  \/ /\ reply.then = sessions
            /\ reply.answer = "refused" \/ (reply.answer = "no success" /\ w.at = "totp")
         \/ reply.answer = "ok" /\ reply.then = [sessions EXCEPT ![w.token].verified = TRUE]
<1> DEFINE Has == w.token # 0 /\ sessions[w.token].alive
           Refusal == [answer |-> "refused", then |-> sessions]
           NoSuccess == [answer |-> "no success", then |-> sessions]
           verified == [sessions EXCEPT ![w.token].verified = TRUE]
           Ok == [answer |-> "ok", then |-> verified]
<1>1. ~IsLogin(w) /\ w.at \in {"totp", "email"}
  BY DEF IsLogin, Verifies
<1>2. Replies(w) = {Refusal} \cup (IF w.at = "totp" THEN {NoSuccess} ELSE {})
                     \cup {IF Has THEN Ok ELSE Refusal}
  BY <1>1, Zenon DEF Replies
<1>3. reply = Refusal \/ reply = Ok \/ (reply = NoSuccess /\ w.at = "totp")
  <2>1. CASE w.at = "totp"
    <3>1. reply \in {Refusal} \cup {NoSuccess} \cup {IF Has THEN Ok ELSE Refusal}
      BY <1>2, <2>1
    <3> HIDE DEF Has, Refusal, NoSuccess, Ok
    <3> QED BY <2>1, <3>1, Zenon
  <2>2. CASE w.at # "totp"
    <3>1. reply \in {Refusal} \cup {} \cup {IF Has THEN Ok ELSE Refusal}
      BY <1>2, <2>2
    <3> HIDE DEF Has, Refusal, NoSuccess, Ok
    <3> QED BY <3>1, Zenon
  <2> QED BY <2>1, <2>2
<1>4. reply # Ok \/ (reply.answer = "ok" /\ reply.then = verified)
  <2> HIDE DEF verified
  <2> QED OBVIOUS
<1>5. reply # Refusal \/ (reply.then = sessions /\ reply.answer = "refused")
  OBVIOUS
<1>6. reply # NoSuccess \/ (reply.then = sessions /\ reply.answer = "no success")
  <2> SUFFICES ASSUME reply = NoSuccess PROVE reply.then = sessions /\ reply.answer = "no success"
    BY Zenon
  <2> QED OBVIOUS
<1> HIDE DEF Refusal, NoSuccess, Ok
<1> QED BY <1>3, <1>4, <1>5, <1>6, Zenon

\* Keys are given once, to a good key fetch token, and then never again.
LEMMA KeysReplies ==
  ASSUME Types, NEW w \in Call, w.at = "keys", w.object \in DOMAIN objects, NEW reply \in Replies(w)
  PROVE  LET k == objects[w.object].keyFetch
             Good == k # 0 /\ sessions[k].alive /\ sessions[k].verified /\ sessions[k].keys
         IN \/ reply.then = sessions /\ reply.answer = "refused" /\ ~Good
            \/ reply.answer = "ok" /\ Good /\ reply.then = [sessions EXCEPT ![k].keys = FALSE]
BY DEF Replies, IsLogin

\* A grant needs a good session and counts; a session destroyed is dead, or was.
LEMMA OtherReplies ==
  ASSUME Types, NEW w \in Call, w.token \in 1..Len(sessions), NEW reply \in Replies(w)
  PROVE  LET s == w.token
             Good == sessions[s].alive /\ sessions[s].verified
         IN /\ w.at = "scope" =>
                 reply.then = sessions /\ reply.answer = (IF Good THEN "ok" ELSE "refused")
            /\ w.at = "token" =>
                 \/ reply.then = sessions /\ reply.answer = "refused" /\ ~Good
                 \/ reply.answer = "ok" /\ Good /\ reply.then = [sessions EXCEPT ![s].grants = @ + 1]
            /\ w.at = "destroy" =>
                 \/ reply.then = sessions /\ reply.answer = "refused" /\ ~sessions[s].alive
                 \/ reply.answer = "ok" /\ reply.then = [sessions EXCEPT ![s].alive = FALSE]
<1> DEFINE Has == w.token # 0 /\ sessions[w.token].alive
           Good == Has /\ sessions[w.token].verified
           Refusal == [answer |-> "refused", then |-> sessions]
           Ok(then) == [answer |-> "ok", then |-> then]
<1>1. w.token # 0
  BY DEF Types
<1>2. CASE w.at = "scope"
  <2>1. Replies(w) = {IF Good THEN Ok(sessions) ELSE Refusal}
    BY <1>2 DEF Replies, IsLogin
  <2> QED BY <1>1, <1>2, <2>1
<1>3. CASE w.at = "token"
  <2>1. Replies(w) = {IF Good THEN Ok([sessions EXCEPT ![w.token].grants = @ + 1]) ELSE Refusal}
    BY <1>3 DEF Replies, IsLogin
  <2> QED BY <1>1, <1>3, <2>1
<1>4. CASE w.at = "destroy"
  <2>1. Replies(w) = {IF Has THEN Ok([sessions EXCEPT ![w.token].alive = FALSE]) ELSE Refusal}
    BY <1>4 DEF Replies, IsLogin
  <2> QED BY <1>1, <1>4, <2>1
<1> QED BY <1>2, <1>3, <1>4

\* The other requests are answered, and change no session.
LEMMA PlainReplies ==
  ASSUME Types, NEW w \in Call, w.at \in {"send unblock code", "resend", "device"}, NEW reply \in Replies(w)
  PROVE  reply.then = sessions /\ reply.answer = "ok"
<1>1. ~IsLogin(w) /\ w.at \notin {"totp", "email", "keys", "token", "destroy", "scope"}
  BY DEF IsLogin
<1>2. Replies(w) = {IF TRUE THEN [answer |-> "ok", then |-> sessions]
                    ELSE [answer |-> "refused", then |-> sessions]}
  BY <1>1, Zenon DEF Replies
<1>3. reply = [answer |-> "ok", then |-> sessions]
  BY <1>2, Zenon
<1> QED BY <1>3

\* What a request leaves of a session.
LEMMA SessionExcept ==
  ASSUME NEW r \in Session
  PROVE  /\ LET q == [r EXCEPT !.verified = TRUE] IN
              /\ q \in Session /\ q.acct = r.acct /\ q.verified
              /\ (q.keys <=> r.keys) /\ (q.alive <=> r.alive) /\ q.grants = r.grants
         /\ LET q == [r EXCEPT !.keys = FALSE] IN
              /\ q \in Session /\ q.acct = r.acct /\ ~q.keys
              /\ (q.verified <=> r.verified) /\ (q.alive <=> r.alive) /\ q.grants = r.grants
         /\ LET q == [r EXCEPT !.alive = FALSE] IN
              /\ q \in Session /\ q.acct = r.acct /\ ~q.alive
              /\ (q.verified <=> r.verified) /\ (q.keys <=> r.keys) /\ q.grants = r.grants
         /\ LET q == [r EXCEPT !.grants = r.grants + 1] IN
              /\ q \in Session /\ q.acct = r.acct /\ q.grants = r.grants + 1
              /\ (q.verified <=> r.verified) /\ (q.keys <=> r.keys) /\ (q.alive <=> r.alive)
<1>1. LET q == [r EXCEPT !.verified = TRUE] IN
      /\ q \in Session /\ q.acct = r.acct /\ q.verified
      /\ (q.keys <=> r.keys) /\ (q.alive <=> r.alive) /\ q.grants = r.grants
  BY DEF Session
<1>2. LET q == [r EXCEPT !.keys = FALSE] IN
      /\ q \in Session /\ q.acct = r.acct /\ ~q.keys
      /\ (q.verified <=> r.verified) /\ (q.alive <=> r.alive) /\ q.grants = r.grants
  BY DEF Session
<1>3. LET q == [r EXCEPT !.alive = FALSE] IN
      /\ q \in Session /\ q.acct = r.acct /\ ~q.alive
      /\ (q.verified <=> r.verified) /\ (q.keys <=> r.keys) /\ q.grants = r.grants
  BY DEF Session
<1>4. LET q == [r EXCEPT !.grants = r.grants + 1] IN
      /\ q \in Session /\ q.acct = r.acct /\ q.grants = r.grants + 1
      /\ (q.verified <=> r.verified) /\ (q.keys <=> r.keys) /\ (q.alive <=> r.alive)
  BY DEF Session
<1> QED BY <1>1, <1>2, <1>3, <1>4, Zenon

\* Session t is replaced by q.
Becomes(t, q) ==
  /\ sessions' \in Seq(Session) /\ Len(sessions') = Len(sessions) /\ sessions'[t] = q
  /\ \A s \in 1..Len(sessions) : s # t => sessions'[s] = sessions[s]

\* What a request of finish, or a code that is accepted, leaves of the sessions.
LEMMA SessionsExcept ==
  ASSUME Types, NEW t \in 1..Len(sessions)
  PROVE  /\ sessions' = [sessions EXCEPT ![t].verified = TRUE] =>
              \E q \in Session : /\ Becomes(t, q) /\ q.acct = sessions[t].acct /\ q.verified
                                 /\ (q.keys <=> sessions[t].keys) /\ (q.alive <=> sessions[t].alive)
                                 /\ q.grants = sessions[t].grants
         /\ sessions' = [sessions EXCEPT ![t].keys = FALSE] =>
              \E q \in Session : /\ Becomes(t, q) /\ q.acct = sessions[t].acct /\ ~q.keys
                                 /\ (q.verified <=> sessions[t].verified) /\ (q.alive <=> sessions[t].alive)
                                 /\ q.grants = sessions[t].grants
         /\ sessions' = [sessions EXCEPT ![t].alive = FALSE] =>
              \E q \in Session : /\ Becomes(t, q) /\ q.acct = sessions[t].acct /\ ~q.alive
                                 /\ (q.verified <=> sessions[t].verified) /\ (q.keys <=> sessions[t].keys)
                                 /\ q.grants = sessions[t].grants
         /\ sessions' = [sessions EXCEPT ![t].grants = @ + 1] =>
              \E q \in Session : /\ Becomes(t, q) /\ q.acct = sessions[t].acct
                                 /\ q.grants = sessions[t].grants + 1
                                 /\ (q.verified <=> sessions[t].verified) /\ (q.keys <=> sessions[t].keys)
                                 /\ (q.alive <=> sessions[t].alive)
<1> DEFINE r == sessions[t]
           v == [r EXCEPT !.verified = TRUE]
           k == [r EXCEPT !.keys = FALSE]
           a == [r EXCEPT !.alive = FALSE]
           g == [r EXCEPT !.grants = r.grants + 1]
<1>1. r \in Session /\ sessions \in Seq(Session)
  BY DEF Types
<1>2. /\ [sessions EXCEPT ![t].verified = TRUE] = [sessions EXCEPT ![t] = v]
      /\ [sessions EXCEPT ![t].keys = FALSE] = [sessions EXCEPT ![t] = k]
      /\ [sessions EXCEPT ![t].alive = FALSE] = [sessions EXCEPT ![t] = a]
      /\ [sessions EXCEPT ![t].grants = @ + 1] = [sessions EXCEPT ![t] = g]
  OBVIOUS
<1> HIDE DEF r
<1>3. /\ v \in Session /\ v.acct = r.acct /\ v.verified
      /\ (v.keys <=> r.keys) /\ (v.alive <=> r.alive) /\ v.grants = r.grants
  BY <1>1, SessionExcept
<1>4. /\ k \in Session /\ k.acct = r.acct /\ ~k.keys
      /\ (k.verified <=> r.verified) /\ (k.alive <=> r.alive) /\ k.grants = r.grants
  BY <1>1, SessionExcept
<1>5. /\ a \in Session /\ a.acct = r.acct /\ ~a.alive
      /\ (a.verified <=> r.verified) /\ (a.keys <=> r.keys) /\ a.grants = r.grants
  BY <1>1, SessionExcept
<1>6. /\ g \in Session /\ g.acct = r.acct /\ g.grants = r.grants + 1
      /\ (g.verified <=> r.verified) /\ (g.keys <=> r.keys) /\ (g.alive <=> r.alive)
  BY <1>1, SessionExcept
<1> HIDE DEF v, k, a, g
<1>7. ASSUME NEW q \in Session, sessions' = [sessions EXCEPT ![t] = q] PROVE Becomes(t, q)
  BY <1>1, <1>7, SeqExcept DEF Becomes
<1>8. ASSUME sessions' = [sessions EXCEPT ![t].verified = TRUE]
      PROVE  \E q \in Session : /\ Becomes(t, q) /\ q.acct = sessions[t].acct /\ q.verified
                                /\ (q.keys <=> sessions[t].keys) /\ (q.alive <=> sessions[t].alive)
                                /\ q.grants = sessions[t].grants
  BY <1>2, <1>3, <1>7, <1>8, Zenon DEF r
<1>9. ASSUME sessions' = [sessions EXCEPT ![t].keys = FALSE]
      PROVE  \E q \in Session : /\ Becomes(t, q) /\ q.acct = sessions[t].acct /\ ~q.keys
                                /\ (q.verified <=> sessions[t].verified) /\ (q.alive <=> sessions[t].alive)
                                /\ q.grants = sessions[t].grants
  BY <1>2, <1>4, <1>7, <1>9, Zenon DEF r
<1>10. ASSUME sessions' = [sessions EXCEPT ![t].alive = FALSE]
       PROVE  \E q \in Session : /\ Becomes(t, q) /\ q.acct = sessions[t].acct /\ ~q.alive
                                 /\ (q.verified <=> sessions[t].verified) /\ (q.keys <=> sessions[t].keys)
                                 /\ q.grants = sessions[t].grants
  BY <1>2, <1>5, <1>7, <1>10, Zenon DEF r
<1>11. ASSUME sessions' = [sessions EXCEPT ![t].grants = @ + 1]
       PROVE  \E q \in Session : /\ Becomes(t, q) /\ q.acct = sessions[t].acct
                                 /\ q.grants = sessions[t].grants + 1
                                 /\ (q.verified <=> sessions[t].verified) /\ (q.keys <=> sessions[t].keys)
                                 /\ (q.alive <=> sessions[t].alive)
  BY <1>2, <1>6, <1>7, <1>11, Zenon DEF r
<1> QED BY <1>8, <1>9, <1>10, <1>11, Zenon

\* What a request of handler w may do to the sessions, ...
SessionsGo(w) ==
  /\ sessions' \in Seq(Session) /\ Len(sessions) <= Len(sessions')
  /\ \A s \in 1..Len(sessions) :
       /\ sessions'[s].acct = sessions[s].acct
       /\ sessions[s].verified => sessions'[s].verified
       /\ sessions'[s].verified => sessions[s].verified \/ (w.at \in Verifies /\ s = w.token)
       /\ sessions'[s].keys => sessions[s].keys
       /\ sessions[s].keys => sessions'[s].keys \/ (w.at = "keys" /\ s = objects[w.object].keyFetch)
       /\ sessions'[s].alive => sessions[s].alive
       /\ sessions[s].alive => sessions'[s].alive \/ (w.at = "destroy" /\ s = w.token)
       /\ \/ sessions'[s].grants = sessions[s].grants
          \/ w.at = "token" /\ s = w.token /\ sessions'[s].grants = sessions[s].grants + 1
  /\ Len(sessions') # Len(sessions) =>
       /\ w.at \in Logins /\ Len(sessions') = Len(sessions) + 1
       /\ sessions'[Len(sessions')].acct = objects[w.object].email
       /\ sessions'[Len(sessions')].keys /\ sessions'[Len(sessions')].alive
       /\ sessions'[Len(sessions')].grants = 0

\* ... and what its answer says of them.
Answers(w, answer) ==
  /\ answer \in {"ok", "refused", "blocked", "no success"}
  /\ answer = "blocked" => w.at = "login"
  /\ answer = "no success" => w.at = "totp"
  /\ answer # "ok" => sessions' = sessions
  /\ w.at \in Logins => (answer = "ok" <=> Len(sessions') = Len(sessions) + 1)
  /\ w.at \in Verifies /\ answer = "ok" => sessions'[w.token].verified
  /\ w.at = "keys" =>
       LET k == objects[w.object].keyFetch
           Good == k # 0 /\ sessions[k].alive /\ sessions[k].verified /\ sessions[k].keys
       IN IF Good THEN answer = "ok" /\ ~sessions'[k].keys ELSE answer = "refused"
  /\ w.at \in {"scope", "token"} /\ sessions[w.token].alive /\ sessions[w.token].verified => answer = "ok"
  /\ w.at = "destroy" => ~sessions'[w.token].alive
  /\ w.at \in {"send unblock code", "resend", "device"} => answer = "ok"

\* Every request of handler c that the server serves does so.
LEMMA Serves ==
  ASSUME Base, NEW c \in Calls, Awaits(c), NEW reply \in Replies(call[c]), sessions' = reply.then
  PROVE  SessionsGo(call[c]) /\ Answers(call[c], reply.answer)
<1> DEFINE w == call[c]
<1>1. w \in Call /\ Staged(w) /\ Types /\ w.at # None
  BY DEF Base, Types, Awaits
<1>2. /\ w.object \in 1..Len(objects) /\ w.object \in DOMAIN objects
      /\ objects \in Seq(Object) /\ sessions \in Seq(Session) /\ Len(sessions) \in Nat
  <2>1. w.object \in 1..Len(objects)
    BY <1>1, Zenon DEF Staged
  <2>2. objects \in Seq(Object) /\ sessions \in Seq(Session)
    BY <1>1, Zenon DEF Types
  <2> QED BY <2>1, <2>2
<1>3. Pointing(objects[w.object])
  BY <1>2 DEF Base
<1>4. reply \in Replies(w)
  OBVIOUS
<1> HIDE DEF w
<1>5. sessions' = sessions => SessionsGo(w)
  <2> SUFFICES ASSUME sessions' = sessions PROVE SessionsGo(w)
    OBVIOUS
  <2>1. Len(sessions) <= Len(sessions') /\ Len(sessions') = Len(sessions)
    BY <1>2
  <2> QED BY <1>2, <2>1, Zenon DEF SessionsGo
<1>6. CASE w.at \in Logins
  <2>1. CASE sessions' = sessions /\ (reply.answer = "refused" \/ (reply.answer = "blocked" /\ w.at = "login"))
    <3>1. Len(sessions') # Len(sessions) + 1
      BY <1>2, <2>1
    <3>2. w.at \notin Verifies \cup {"keys", "scope", "token", "destroy", "send unblock code", "resend", "device"}
      BY <1>6 DEF Logins, Verifies
    <3>3. Answers(w, reply.answer)
      BY <2>1, <3>1, <3>2, Zenon DEF Answers
    <3> QED BY <1>5, <2>1, <3>3 DEF w
  <2>2. ASSUME NEW s \in Session, s.acct = objects[w.object].email, s.keys, s.alive, s.grants = 0,
               sessions' = Append(sessions, s), reply.answer = "ok"
        PROVE  SessionsGo(w) /\ Answers(w, reply.answer)
    <3>1. /\ sessions' \in Seq(Session) /\ Len(sessions') = Len(sessions) + 1
          /\ sessions'[Len(sessions')] = s /\ \A u \in 1..Len(sessions) : sessions'[u] = sessions[u]
      BY <1>2, <2>2, SeqAppend
    <3>2. SessionsGo(w)
      BY <1>2, <1>6, <2>2, <3>1 DEF SessionsGo
    <3>3. Answers(w, reply.answer)
      BY <1>6, <2>2, <3>1 DEF Answers, Logins, Verifies
    <3> QED BY <3>2, <3>3
  <2> QED BY <1>1, <1>2, <1>4, <1>6, <2>1, <2>2, LoginReplies DEF w
<1>7. CASE w.at \in Verifies
  <2>1. w.token \in 1..Len(sessions)
    BY <1>1, <1>7 DEF Staged, Later
  <2>2. CASE sessions' = sessions /\ (reply.answer = "refused" \/ (reply.answer = "no success" /\ w.at = "totp"))
    <3>1. Answers(w, reply.answer)
      BY <1>7, <2>2 DEF Answers, Logins, Verifies
    <3> QED BY <1>5, <2>2, <3>1 DEF w
  <2>3. CASE reply.answer = "ok" /\ sessions' = [sessions EXCEPT ![w.token].verified = TRUE]
    <3>1. PICK q \in Session : /\ Becomes(w.token, q) /\ q.acct = sessions[w.token].acct /\ q.verified
                               /\ (q.keys <=> sessions[w.token].keys)
                               /\ (q.alive <=> sessions[w.token].alive) /\ q.grants = sessions[w.token].grants
      BY <1>1, <2>1, <2>3, SessionsExcept, Zenon
    <3>2. SessionsGo(w)
      BY <1>2, <1>7, <2>1, <3>1 DEF SessionsGo, Becomes
    <3>3. Answers(w, reply.answer)
      BY <1>7, <2>3, <3>1 DEF Answers, Logins, Verifies, Becomes
    <3> QED BY <3>2, <3>3 DEF w
  <2> QED BY <1>1, <1>4, <1>7, <2>1, <2>2, <2>3, CodeReplies
<1>8. CASE w.at = "keys"
  <2> DEFINE k == objects[w.object].keyFetch
             Good == k # 0 /\ sessions[k].alive /\ sessions[k].verified /\ sessions[k].keys
  <2>1. CASE sessions' = sessions /\ reply.answer = "refused" /\ ~Good
    <3>1. Answers(w, reply.answer)
      BY <1>8, <2>1 DEF Answers, Logins, Verifies
    <3> QED BY <1>5, <2>1, <3>1 DEF w
  <2>2. CASE reply.answer = "ok" /\ Good /\ sessions' = [sessions EXCEPT ![k].keys = FALSE]
    <3>1. k \in 1..Len(sessions)
      BY <1>2, <1>3, <2>2 DEF Pointing
    <3>2. PICK q \in Session : /\ Becomes(k, q) /\ q.acct = sessions[k].acct /\ ~q.keys
                               /\ (q.verified <=> sessions[k].verified)
                               /\ (q.alive <=> sessions[k].alive) /\ q.grants = sessions[k].grants
      BY <1>1, <2>2, <3>1, SessionsExcept, Zenon
    <3>3. SessionsGo(w)
      BY <1>2, <1>8, <3>1, <3>2 DEF SessionsGo, Becomes
    <3>4. Answers(w, reply.answer)
      BY <1>8, <2>2, <3>2 DEF Answers, Logins, Verifies, Becomes
    <3> QED BY <3>3, <3>4 DEF w
  <2> QED BY <1>1, <1>2, <1>4, <1>8, <2>1, <2>2, KeysReplies
<1>9. CASE w.at \in {"scope", "token", "destroy"}
  <2>1. w.token \in 1..Len(sessions)
    BY <1>1, <1>9 DEF Staged, Later, Finishes
  <2> DEFINE Good == sessions[w.token].alive /\ sessions[w.token].verified
  <2>2. /\ w.at = "scope" => sessions' = sessions /\ reply.answer = (IF Good THEN "ok" ELSE "refused")
        /\ w.at = "token" =>
             \/ sessions' = sessions /\ reply.answer = "refused" /\ ~Good
             \/ reply.answer = "ok" /\ Good /\ sessions' = [sessions EXCEPT ![w.token].grants = @ + 1]
        /\ w.at = "destroy" =>
             \/ sessions' = sessions /\ reply.answer = "refused" /\ ~sessions[w.token].alive
             \/ reply.answer = "ok" /\ sessions' = [sessions EXCEPT ![w.token].alive = FALSE]
    BY <1>1, <1>4, <2>1, OtherReplies
  <2>3. CASE /\ sessions' = sessions
             /\ \/ w.at = "scope" /\ reply.answer = (IF Good THEN "ok" ELSE "refused")
                \/ w.at = "token" /\ reply.answer = "refused" /\ ~Good
                \/ w.at = "destroy" /\ reply.answer = "refused" /\ ~sessions[w.token].alive
    <3>1. w.at \notin Logins \cup Verifies \cup {"keys", "send unblock code", "resend", "device"}
      BY <1>9 DEF Logins, Verifies
    <3>2. /\ reply.answer \in {"ok", "refused"}
          /\ w.at \in {"scope", "token"} /\ Good => reply.answer = "ok"
          /\ w.at = "destroy" => ~sessions[w.token].alive
      BY <2>3
    <3>3. Answers(w, reply.answer)
      BY <2>3, <3>1, <3>2 DEF Answers
    <3> QED BY <1>5, <2>3, <3>3 DEF w
  <2>4. CASE w.at = "token" /\ reply.answer = "ok" /\ sessions' = [sessions EXCEPT ![w.token].grants = @ + 1]
    <3>1. PICK q \in Session : /\ Becomes(w.token, q) /\ q.acct = sessions[w.token].acct
                               /\ q.grants = sessions[w.token].grants + 1
                               /\ (q.verified <=> sessions[w.token].verified)
                               /\ (q.keys <=> sessions[w.token].keys) /\ (q.alive <=> sessions[w.token].alive)
      BY <1>1, <2>1, <2>4, SessionsExcept, Zenon
    <3>2. SessionsGo(w)
      BY <1>2, <2>1, <2>4, <3>1 DEF SessionsGo, Becomes
    <3>3. Answers(w, reply.answer)
      BY <2>4 DEF Answers, Logins, Verifies
    <3> QED BY <3>2, <3>3 DEF w
  <2>5. CASE w.at = "destroy" /\ reply.answer = "ok" /\ sessions' = [sessions EXCEPT ![w.token].alive = FALSE]
    <3>1. PICK q \in Session : /\ Becomes(w.token, q) /\ q.acct = sessions[w.token].acct /\ ~q.alive
                               /\ (q.verified <=> sessions[w.token].verified)
                               /\ (q.keys <=> sessions[w.token].keys) /\ q.grants = sessions[w.token].grants
      BY <1>1, <2>1, <2>5, SessionsExcept, Zenon
    <3>2. SessionsGo(w)
      BY <1>2, <2>1, <2>5, <3>1 DEF SessionsGo, Becomes
    <3>3. Answers(w, reply.answer)
      BY <2>5, <3>1 DEF Answers, Logins, Verifies, Becomes
    <3> QED BY <3>2, <3>3 DEF w
  <2> QED BY <1>9, <2>2, <2>3, <2>4, <2>5, Zenon
<1>10. CASE w.at \in {"send unblock code", "resend", "device"}
  <2>1. sessions' = sessions /\ reply.answer = "ok"
    BY <1>1, <1>4, <1>10, PlainReplies
  <2>2. Answers(w, reply.answer)
    BY <1>10, <2>1 DEF Answers, Logins, Verifies
  <2> QED BY <1>5, <2>1, <2>2 DEF w
<1>11. w.at # "write"
  BY DEF Awaits, w
<1> QED
  BY <1>1, <1>6, <1>7, <1>8, <1>9, <1>10, <1>11 DEF w, Call, Begins, Later, Finishes, Verifies

-----------------------------------------------------------------------------
\* A request of handler c is served or lost: what it makes of its answer.
Reached(c) ==
  /\ call[c].at \notin {None, "write"} /\ call[c].answer = None
  /\ call' \in [Calls -> Call] /\ \A d \in Calls \ {c} : call'[d] = call[d]
  /\ call'[c].kind = call[c].kind /\ call'[c].object = call[c].object
  /\ call'[c].at = call[c].at /\ call'[c].keys = call[c].keys
  /\ SessionsGo(call[c])
  /\ UNCHANGED <<objects, current, open, saved, page, overlap, asks>> /\ faults' \in 0..MaxFaults
  /\ \/ call'[c].answer = "lost" /\ call'[c].token = call[c].token /\ faults' # 0
     \/ /\ Answers(call[c], call'[c].answer) /\ faults' = faults
        /\ call'[c].token = IF Len(sessions') = Len(sessions) THEN call[c].token ELSE Len(sessions')

\* A request that is served reaches its handler, ...
LEMMA ServeReaches ==
  ASSUME Base, NEW c \in Calls, Serve(c)
  PROVE  Reached(c)
<1>1. PICK reply \in Replies(call[c]) :
        /\ Put(c, [call[c] EXCEPT !.answer = reply.answer,
                                 !.token = IF Len(reply.then) > Len(sessions) THEN Len(reply.then) ELSE @])
        /\ sessions' = reply.then
  BY DEF Serve
<1>2. Awaits(c) /\ UNCHANGED <<objects, current, open, saved, page, overlap, asks, faults>>
  BY DEF Serve
<1>3. SessionsGo(call[c]) /\ Answers(call[c], reply.answer)
  BY <1>1, <1>2, Serves
<1> DEFINE token == IF Len(sessions') = Len(sessions) THEN call[c].token ELSE Len(sessions')
           w == [call[c] EXCEPT !.answer = reply.answer, !.token = token]
<1>4. /\ sessions' \in Seq(Session) /\ Len(sessions) <= Len(sessions')
      /\ sessions \in Seq(Session) /\ Len(sessions) \in Nat /\ Len(sessions') \in Nat
      /\ call[c] \in Call /\ call \in [Calls -> Call] /\ faults \in 0..MaxFaults
  <2>1. Types /\ sessions' \in Seq(Session) /\ Len(sessions) <= Len(sessions')
    BY <1>3, Zenon DEF Base, SessionsGo
  <2> QED BY <2>1 DEF Types
<1>5. Put(c, w)
  <2>1. (IF Len(reply.then) > Len(sessions) THEN Len(reply.then) ELSE call[c].token) = token
    BY <1>1, <1>4
  <2> HIDE DEF token
  <2> QED BY <1>1, <2>1
<1>6. token \in Nat
  BY <1>4 DEF Call
<1>7. reply.answer \in {"ok", "refused", "blocked", "no success"}
  BY <1>3, Zenon DEF Answers
<1> HIDE DEF token
<1>8. w \in Call /\ w.kind = call[c].kind /\ w.object = call[c].object /\ w.at = call[c].at
      /\ w.keys = call[c].keys /\ w.answer = reply.answer /\ w.token = token
  BY <1>4, <1>6, <1>7 DEF Call
<1> HIDE DEF w
<1>9. call' \in [Calls -> Call] /\ call'[c] = w /\ \A d \in Calls \ {c} : call'[d] = call[d]
  BY <1>4, <1>5, <1>8, PutFacts
<1>10. call[c].at \notin {None, "write"} /\ call[c].answer = None
  BY <1>2 DEF Awaits
<1> QED BY <1>2, <1>3, <1>4, <1>8, <1>9, <1>10, Zenon DEF Reached, token

\* ... and so does one that is lost.
LEMMA LoseReaches ==
  ASSUME Base, NEW c \in Calls, Lose(c)
  PROVE  Reached(c)
<1> DEFINE w == [call[c] EXCEPT !.answer = "lost"]
<1>1. /\ Awaits(c) /\ Fault /\ Put(c, w)
      /\ sessions' \in {sessions} \cup {reply.then : reply \in Replies(call[c])}
      /\ UNCHANGED <<objects, current, open, saved, page, overlap, asks>>
  BY DEF Lose
<1>2. Types
  BY DEF Base
<1>3. SessionsGo(call[c])
  <2>1. CASE sessions' = sessions
    <3>1. sessions \in Seq(Session) /\ Len(sessions) <= Len(sessions') /\ Len(sessions') = Len(sessions)
      BY <1>2, <2>1 DEF Types
    <3> QED BY <2>1, <3>1, Zenon DEF SessionsGo
  <2>2. ASSUME NEW reply \in Replies(call[c]), sessions' = reply.then PROVE SessionsGo(call[c])
    BY <1>1, <2>2, Serves
  <2> QED BY <1>1, <2>1, <2>2, Zenon
<1>4. /\ w \in Call /\ w.kind = call[c].kind /\ w.object = call[c].object /\ w.at = call[c].at
      /\ w.keys = call[c].keys /\ w.token = call[c].token /\ w.answer = "lost"
  <2>1. call[c] \in Call
    BY <1>2 DEF Types
  <2> QED BY <2>1 DEF Call
<1> HIDE DEF w
<1>5. call' \in [Calls -> Call] /\ call'[c] = w /\ \A d \in Calls \ {c} : call'[d] = call[d]
  BY <1>1, <1>2, <1>4, PutFacts DEF Types
<1>6. faults' \in 0..MaxFaults /\ faults' # 0
  BY <1>1, <1>2, ConnectAssumption DEF Fault, Types
<1>7. call[c].at \notin {None, "write"} /\ call[c].answer = None
  BY <1>1 DEF Awaits
<1> QED BY <1>1, <1>3, <1>4, <1>5, <1>6, <1>7, Zenon DEF Reached

-----------------------------------------------------------------------------
\* What the other actions do, handler c first.
Turns(c) ==
  /\ call' \in [Calls -> Call] /\ \A d \in Calls \ {c} : call'[d] = call[d]
  /\ UNCHANGED <<sessions, open, faults>>

\* Handler c goes on with its object to its next request.
Stays(c, at) ==
  /\ call'[c].object = call[c].object /\ call'[c].at = at
  /\ call'[c].answer = None

\* What most turns leave alone.
Same == UNCHANGED <<objects, current, saved, overlap, asks>>

\* A sign-in begun: a new object, which is the current one.
Connected(c) ==
  /\ Turns(c) /\ UNCHANGED <<saved, page>>
  /\ call[c] = Idle /\ page.shows # "done"
  /\ call'[c].object = Len(objects) + 1 /\ call'[c].at \in Logins
  /\ call'[c].answer = None /\ call'[c].token = 0
  /\ objects' \in Seq(Object) /\ Len(objects') = Len(objects) + 1
  /\ \A o \in 1..Len(objects) : objects'[o] = objects[o]
  /\ objects'[Len(objects) + 1].token = 0 /\ objects'[Len(objects) + 1].keyFetch = 0
  /\ current' = Len(objects) + 1 /\ asks' \in 0..MaxAsks
  /\ overlap' \in BOOLEAN /\ (overlap' <=> overlap \/ \E d \in Calls : call[d] # Idle)

\* A code sent for the current object, or refused at once.
Submitted(c) ==
  /\ Turns(c) /\ UNCHANGED <<objects, current, saved, page, overlap>> /\ asks' \in 0..MaxAsks
  /\ \/ call' = call
     \/ /\ call[c] = Idle /\ current # 0 /\ objects[current].token # 0
        /\ page.shows \in {"needs-totp", "needs-email-code", "needs-unblock-code"}
        /\ call'[c].object = current /\ call'[c].at \in Verifies \cup {"resend"}
        /\ call'[c].answer = None /\ call'[c].token = objects[current].token

\* An unblock code sent for, or the page told of it.
SentCode(c) ==
  /\ Turns(c) /\ Same
  /\ \/ /\ call[c].answer = "blocked" /\ Stays(c, "send unblock code")
        /\ call'[c].token = call[c].token /\ page' = page
     \/ /\ call[c].at = "send unblock code" /\ call'[c] = Idle
        /\ page' \in Page /\ page'.shows # "done" /\ page'.asker = 0

\* A login that succeeded: its object has its session.
HasLoggedIn(c) ==
  LET o == call[c].object
      s == call[c].token IN
  /\ Turns(c) /\ UNCHANGED <<current, saved, overlap, asks>>
  /\ call[c].at \in Logins /\ call[c].answer = "ok"
  /\ objects' \in Seq(Object) /\ Len(objects') = Len(objects)
  /\ \A p \in 1..Len(objects) : p # o => objects'[p] = objects[p]
  /\ objects'[o].email = objects[o].email /\ objects'[o].uid = sessions[s].acct
  /\ objects'[o].token = s /\ objects'[o].keyFetch = s
  /\ \/ /\ sessions[s].verified /\ Stays(c, "keys") /\ call'[c].token = s /\ page' = page
     \/ /\ ~sessions[s].verified /\ call'[c] = Idle
        /\ page' \in Page /\ page'.shows # "done" /\ page'.asker = s

\* A code that was accepted.
HasVerified(c) ==
  /\ Turns(c) /\ Same /\ page' = page
  /\ call[c].at \in Verifies /\ call[c].answer = "ok"
  /\ LET object == objects[call[c].object] IN
     \/ /\ object.token # 0 /\ object.keyFetch # 0 /\ Stays(c, "keys")
        /\ call'[c].token = object.token
     \/ (object.token = 0 \/ object.keyFetch = 0) /\ call'[c] = Idle

\* An object forgets one of its tokens.
Forgets(c, token, keyFetch) ==
  LET o == call[c].object IN
  /\ Turns(c) /\ UNCHANGED <<current, saved, page, overlap, asks>>
  /\ objects' \in Seq(Object) /\ Len(objects') = Len(objects)
  /\ \A p \in 1..Len(objects) : p # o => objects'[p] = objects[p]
  /\ objects'[o].email = objects[o].email /\ objects'[o].uid = objects[o].uid
  /\ objects'[o].token = token /\ objects'[o].keyFetch = keyFetch
  /\ call'[c].token = call[c].token

\* The keys are there.
HasKeys(c) ==
  /\ call[c].at = "keys" /\ call[c].answer = "ok"
  /\ Forgets(c, objects[call[c].object].token, 0) /\ Stays(c, "scope")
  /\ call'[c].keys = sessions[call[c].token].acct

\* The scope and the token, the token and the device, the device and the end.
WentOn(c) ==
  /\ Turns(c) /\ Same /\ page' = page
  /\ call'[c].token = call[c].token /\ call'[c].keys = call[c].keys
  /\ \/ call[c].at = "scope" /\ call[c].answer = "ok" /\ Stays(c, "token")
     \/ call[c].at = "token" /\ call[c].answer = "ok" /\ Stays(c, "device")
     \/ call[c].at = "device" /\ call[c].answer # None /\ Stays(c, "destroy")

\* The session is destroyed, as far as the handler knows.
HasDestroyed(c) ==
  /\ call[c].at = "destroy" /\ call[c].answer # None
  /\ Forgets(c, 0, objects[call[c].object].keyFetch) /\ Stays(c, "write")
  /\ call'[c].keys = call[c].keys

\* A handler ends with an error, or after it sent a code again.
Ended(c) ==
  /\ Turns(c) /\ Same /\ page' = page /\ call'[c] = Idle
  /\ \/ /\ call[c].at \notin {"send unblock code", "device", "destroy"}
        /\ call[c].answer \in {"refused", "lost", "no success"}
     \/ call[c].at = "resend" /\ call[c].answer = "ok"
     \/ call[c].at = "write" /\ ~open

\* The account is saved and the page told.
HasWritten(c) ==
  /\ Turns(c) /\ UNCHANGED <<objects, overlap, asks>>
  /\ call[c].at = "write" /\ call'[c] = Idle
  /\ saved' = Tokens(c) /\ current' = 0
  /\ page' \in Page /\ page'.shows = "done" /\ page'.asker = page.asker

\* A sign-in that is begun has a new object, the current one, without tokens.
LEMMA ConnectDoes ==
  ASSUME Base, NEW c \in Calls, NEW email \in Accounts, Connect(c, email)
  PROVE  Connected(c)
<1> DEFINE n == Len(objects) + 1
           w(at) == [Idle EXCEPT !.kind = "connect", !.object = n, !.at = at]
           object == NewObject(email)
<1>1. Types
  BY DEF Base
<1>2. object \in Object /\ object.token = 0 /\ object.keyFetch = 0
  BY DEF NewObject, Object
<1>3. objects' = Append(objects, object) /\ current' = Len(objects')
  BY DEF Connect
<1> HIDE DEF object
<1>4. /\ objects' \in Seq(Object) /\ Len(objects') = Len(objects) + 1 /\ n \in Nat
      /\ objects'[Len(objects) + 1] = object /\ \A o \in 1..Len(objects) : objects'[o] = objects[o]
  BY <1>1, <1>2, <1>3, SeqAppend DEF Types
<1>5. PICK login \in Logins : Put(c, w(login))
  BY <1>3, <1>4 DEF Connect, Logins
<1> HIDE DEF n
<1>6. /\ w(login) \in Call /\ w(login).object = n
      /\ w(login).at = login /\ w(login).answer = None /\ w(login).token = 0
  <2>1. login \in Begins \cup Later \cup {None} /\ n \in Nat
    BY <1>4 DEF Begins
  <2> QED BY <2>1, <1>4, IdleCall DEF Idle, Call
<1> HIDE DEF w
<1>7. call' \in [Calls -> Call] /\ call'[c] = w(login) /\ \A d \in Calls \ {c} : call'[d] = call[d]
  BY <1>1, <1>5, <1>6, PutFacts DEF Types
<1>8. /\ overlap' = (overlap \/ \E d \in Calls : call[d] # Idle) /\ Asks
      /\ call[c] = Idle /\ page.shows # "done" /\ UNCHANGED <<sessions, open, saved, page, faults>>
  BY DEF Connect
<1>9. overlap' \in BOOLEAN /\ (overlap' <=> overlap \/ \E d \in Calls : call[d] # Idle)
  BY <1>1, <1>8, Zenon DEF Types
<1>10. asks' \in 0..MaxAsks
  BY <1>1, <1>8, ConnectAssumption DEF Asks, Types
<1> QED BY <1>2, <1>3, <1>4, <1>6, <1>7, <1>8, <1>9, <1>10, Zenon DEF Connected, Turns, n

\* A code is sent with the token of the current object, or refused at once.
LEMMA SubmitDoes ==
  ASSUME Base, NEW c \in Calls, Submit(c)
  PROVE  Submitted(c)
<1> DEFINE w(kind) == [Idle EXCEPT !.kind = kind, !.object = current, !.at = kind,
                                   !.token = objects[current].token]
<1>1. Types /\ call \in [Calls -> Call]
  BY DEF Base, Types
<1>2. /\ Asks /\ call[c] = Idle
      /\ UNCHANGED <<objects, current, sessions, open, saved, page, overlap, faults>>
  BY DEF Submit
<1>3. asks' \in 0..MaxAsks
  BY <1>1, <1>2, ConnectAssumption DEF Asks, Types
<1>4. PICK kind \in CASE page.shows = "needs-totp" -> {"totp"}
                      [] page.shows = "needs-email-code" -> {"email", "resend"}
                      [] page.shows = "needs-unblock-code" -> {"email"}
                      [] OTHER -> {} :
         IF current = 0 \/ objects[current].token = 0 THEN UNCHANGED call ELSE Put(c, w(kind))
  BY DEF Submit
<1>5. /\ page.shows \in {"needs-totp", "needs-email-code", "needs-unblock-code"}
      /\ kind \in {"totp", "email", "resend"}
  BY <1>4
<1>6. CASE call' = call
  BY <1>1, <1>2, <1>3, <1>6, Zenon DEF Submitted, Turns
<1>7. CASE current # 0 /\ objects[current].token # 0 /\ Put(c, w(kind))
  <2>1. objects[current] \in Object
    BY <1>1, <1>7 DEF Types
  <2>2. current \in Nat /\ objects[current].token \in Nat
    BY <1>1, <2>1 DEF Types, Object
  <2>3. /\ w(kind) \in Call /\ w(kind).object = current /\ w(kind).at = kind
        /\ w(kind).answer = None /\ w(kind).token = objects[current].token
    BY <1>5, <2>2, IdleCall DEF Idle, Call, Later, Verifies
  <2> HIDE DEF w
  <2>4. call' \in [Calls -> Call] /\ call'[c] = w(kind) /\ \A d \in Calls \ {c} : call'[d] = call[d]
    BY <1>1, <1>7, <2>3, PutFacts
  <2> QED BY <1>2, <1>3, <1>5, <1>7, <2>3, <2>4 DEF Submitted, Turns, Verifies
<1> QED BY <1>4, <1>6, <1>7

\* After a login the object has the session, and the handler finishes or asks a code.
LEMMA LoggedInDoes ==
  ASSUME Base, NEW c \in Calls, LoggedIn(c)
  PROVE  HasLoggedIn(c)
<1> DEFINE s == call[c].token
           o == call[c].object
           object == [objects[o] EXCEPT !.uid = sessions[s].acct, !.token = s, !.keyFetch = s]
           w == [call[c] EXCEPT !.at = "keys", !.answer = None, !.token = s]
           shown == [shows |-> IF sessions[s].second = "totp-2fa" THEN "needs-totp" ELSE "needs-email-code",
                     asker |-> s]
<1>1. /\ Types /\ Staged(call[c]) /\ call[c] \in Call /\ call \in [Calls -> Call]
      /\ call[c].at \in Logins /\ call[c].answer = "ok"
  BY DEF Base, Types, LoggedIn, IsLogin, Logins, Said
<1>2. s \in 1..Len(sessions) /\ o \in 1..Len(objects) /\ s # 0 /\ s \in Nat
  <2>1. call[c].at # None
    BY <1>1 DEF Logins, None
  <2>2. s \in 1..Len(sessions) /\ o \in 1..Len(objects)
    BY <1>1, <2>1, Zenon DEF Staged
  <2> QED BY <1>1, <2>2 DEF Types
<1>3. objects[o] \in Object /\ sessions[s] \in Session
  BY <1>1, <1>2 DEF Types
<1>4. /\ object \in Object /\ object.email = objects[o].email /\ object.uid = sessions[s].acct
      /\ object.token = s /\ object.keyFetch = s
  BY <1>2, <1>3 DEF Object, Session
<1>5. /\ objects' = [objects EXCEPT ![o] = object]
      /\ IF sessions[s].verified THEN Finish(c, object) ELSE page' = shown /\ Put(c, Idle)
      /\ UNCHANGED <<current, sessions, open, saved, overlap, asks, faults>>
  BY DEF LoggedIn
<1> HIDE DEF object
<1>6. /\ objects' \in Seq(Object) /\ Len(objects') = Len(objects) /\ objects'[o] = object
      /\ \A p \in 1..Len(objects) : p # o => objects'[p] = objects[p]
  BY <1>1, <1>2, <1>4, <1>5, SeqExcept DEF Types
<1>7. CASE sessions[s].verified
  <2>1. Put(c, w) /\ page' = page
    BY <1>2, <1>4, <1>5, <1>7 DEF Finish
  <2>2. w \in Call /\ w.object = o /\ w.at = "keys" /\ w.answer = None /\ w.token = s
    BY <1>1, <1>2 DEF Call, Later, Finishes
  <2> HIDE DEF w
  <2>3. call' \in [Calls -> Call] /\ call'[c] = w /\ \A d \in Calls \ {c} : call'[d] = call[d]
    BY <1>1, <2>1, <2>2, PutFacts
  <2> QED BY <1>1, <1>4, <1>5, <1>6, <1>7, <2>1, <2>2, <2>3, Zenon DEF HasLoggedIn, Turns, Stays
<1>8. CASE ~sessions[s].verified
  <2>1. page' = shown /\ Put(c, Idle)
    BY <1>5, <1>8
  <2>2. shown \in Page /\ shown.shows # "done" /\ shown.asker = s
    BY <1>2 DEF Page
  <2> HIDE DEF shown
  <2>3. call' \in [Calls -> Call] /\ call'[c] = Idle /\ \A d \in Calls \ {c} : call'[d] = call[d]
    BY <1>1, <2>1, IdleCall, PutFacts
  <2> QED BY <1>1, <1>4, <1>5, <1>6, <1>8, <2>1, <2>2, <2>3, Zenon DEF HasLoggedIn, Turns, Stays
<1> QED BY <1>7, <1>8

\* Handler c goes on to its next request, or ends.
LEMMA GoesFacts ==
  ASSUME call \in [Calls -> Call], NEW c \in Calls, NEW at \in Begins \cup Later, Goes(c, at)
  PROVE  /\ call' \in [Calls -> Call] /\ Stays(c, at)
         /\ call'[c].token = call[c].token /\ call'[c].keys = call[c].keys
         /\ \A d \in Calls \ {c} : call'[d] = call[d]
<1> DEFINE w == [call[c] EXCEPT !.at = at, !.answer = None]
<1>1. /\ w \in Call /\ w.at = at /\ w.answer = None
      /\ w.object = call[c].object /\ w.token = call[c].token /\ w.keys = call[c].keys
  BY DEF Call
<1>2. Put(c, w)
  BY DEF Goes
<1> HIDE DEF w
<1> QED BY <1>1, <1>2, PutFacts DEF Stays

\* A login that is blocked sends for a code, and then the page asks for that.
LEMMA BlockedDoes ==
  ASSUME Base, NEW c \in Calls, Blocked(c)
  PROVE  SentCode(c)
<1>1. call \in [Calls -> Call] /\ UNCHANGED <<objects, current, sessions, open, saved, overlap, asks, faults>>
  BY DEF Base, Types, Blocked
<1>2. CASE Said(c, "blocked") /\ Goes(c, "send unblock code") /\ UNCHANGED page
  <2>1. /\ call' \in [Calls -> Call] /\ Stays(c, "send unblock code")
        /\ call'[c].token = call[c].token /\ \A d \in Calls \ {c} : call'[d] = call[d]
    BY <1>1, <1>2, GoesFacts DEF Begins
  <2> QED BY <1>1, <1>2, <2>1, Zenon DEF SentCode, Turns, Same, Said
<1>3. CASE /\ call[c].at = "send unblock code" /\ call[c].answer # None
           /\ Put(c, Idle) /\ page' = [shows |-> "needs-unblock-code", asker |-> 0]
  <2>1. call' \in [Calls -> Call] /\ call'[c] = Idle /\ \A d \in Calls \ {c} : call'[d] = call[d]
    BY <1>1, <1>3, IdleCall, PutFacts
  <2>2. page' \in Page /\ page'.shows # "done" /\ page'.asker = 0
    BY <1>3 DEF Page
  <2> QED BY <1>1, <1>3, <2>1, <2>2, Zenon DEF SentCode, Turns, Same
<1> QED BY <1>2, <1>3 DEF Blocked

\* A code that was accepted goes on to the keys, if the object still has its tokens.
LEMMA VerifiedDoes ==
  ASSUME Base, NEW c \in Calls, Verified(c)
  PROVE  HasVerified(c)
<1> DEFINE object == objects[call[c].object]
           w == [call[c] EXCEPT !.at = "keys", !.answer = None, !.token = object.token]
<1>1. /\ call \in [Calls -> Call] /\ call[c] \in Call /\ Types /\ Staged(call[c])
      /\ call[c].at \in Verifies /\ call[c].answer = "ok" /\ Finish(c, object)
      /\ UNCHANGED <<objects, current, sessions, open, saved, overlap, asks, faults>>
  BY DEF Base, Types, Verified, Verifies, Said
<1>2. CASE object.token # 0 /\ object.keyFetch # 0
  <2>1. Put(c, w) /\ page' = page
    BY <1>1, <1>2 DEF Finish
  <2>2. call[c].object \in 1..Len(objects)
    BY <1>1 DEF Staged, Verifies, None
  <2>3. object \in Object
    BY <1>1, <2>2 DEF Types
  <2>4. object.token \in Nat
    BY <2>3 DEF Object
  <2> HIDE DEF object
  <2>5. w \in Call /\ w.object = call[c].object /\ w.at = "keys" /\ w.answer = None /\ w.token = object.token
    BY <1>1, <2>4 DEF Call, Later, Finishes
  <2> HIDE DEF w
  <2>6. call' \in [Calls -> Call] /\ call'[c] = w /\ \A d \in Calls \ {c} : call'[d] = call[d]
    BY <1>1, <2>1, <2>5, PutFacts
  <2> QED BY <1>1, <1>2, <2>1, <2>5, <2>6, Zenon DEF HasVerified, Turns, Same, Stays, object
<1>3. CASE object.token = 0 \/ object.keyFetch = 0
  <2>1. Put(c, Idle) /\ page' = page
    BY <1>1, <1>3 DEF Finish, ShowsError
  <2>2. call' \in [Calls -> Call] /\ call'[c] = Idle /\ \A d \in Calls \ {c} : call'[d] = call[d]
    BY <1>1, <2>1, IdleCall, PutFacts
  <2> QED BY <1>1, <1>3, <2>1, <2>2, Zenon DEF HasVerified, Turns, Same
<1> QED BY <1>2, <1>3

\* finish goes on from the scope to the token, the device and the end of the session.
LEMMA GoesOnDoes ==
  ASSUME Base, NEW c \in Calls, GoesOn(c)
  PROVE  WentOn(c)
<1>1. /\ call \in [Calls -> Call]
      /\ UNCHANGED <<objects, current, sessions, open, saved, page, overlap, asks, faults>>
  BY DEF Base, Types, GoesOn
<1>2. ASSUME NEW at \in {"token", "device", "destroy"}, Goes(c, at)
      PROVE  /\ call' \in [Calls -> Call] /\ Stays(c, at)
             /\ call'[c].token = call[c].token /\ call'[c].keys = call[c].keys
             /\ \A d \in Calls \ {c} : call'[d] = call[d]
  BY <1>1, <1>2, GoesFacts DEF Later, Finishes
<1>3. \/ call[c].at = "scope" /\ call[c].answer = "ok" /\ Goes(c, "token")
      \/ call[c].at = "token" /\ call[c].answer = "ok" /\ Goes(c, "device")
      \/ call[c].at = "device" /\ call[c].answer # None /\ Goes(c, "destroy")
  BY DEF GoesOn, Said
<1> QED BY <1>1, <1>2, <1>3 DEF WentOn, Turns, Same

\* With the keys the object forgets its key fetch token, ...
LEMMA KeysFetchedDoes ==
  ASSUME Base, NEW c \in Calls, KeysFetched(c)
  PROVE  HasKeys(c)
<1> DEFINE o == call[c].object
           acct == sessions[call[c].token].acct
           w == [call[c] EXCEPT !.at = "scope", !.answer = None, !.keys = acct]
<1>1. /\ Types /\ Staged(call[c]) /\ call[c] \in Call /\ call \in [Calls -> Call]
      /\ call[c].at = "keys" /\ call[c].answer = "ok" /\ Put(c, w)
      /\ objects' = [objects EXCEPT ![o].keyFetch = 0]
      /\ UNCHANGED <<current, sessions, open, saved, page, overlap, asks, faults>>
  BY DEF Base, Types, KeysFetched, Said
<1>2. o \in 1..Len(objects) /\ call[c].token \in 1..Len(sessions)
  BY <1>1 DEF Staged, Later, Finishes, None
<1>3. acct \in Accounts
  <2>1. sessions[call[c].token] \in Session
    BY <1>1, <1>2 DEF Types
  <2> QED BY <2>1 DEF Session
<1>4. objects[o] \in Object
  BY <1>1, <1>2 DEF Types
<1>5. /\ objects' \in Seq(Object) /\ Len(objects') = Len(objects)
      /\ \A p \in 1..Len(objects) : p # o => objects'[p] = objects[p]
      /\ objects'[o].email = objects[o].email /\ objects'[o].uid = objects[o].uid
      /\ objects'[o].token = objects[o].token /\ objects'[o].keyFetch = 0
  <2> DEFINE object == [objects[o] EXCEPT !.keyFetch = 0]
  <2>1. /\ object \in Object /\ object.email = objects[o].email /\ object.uid = objects[o].uid
        /\ object.token = objects[o].token /\ object.keyFetch = 0
    BY <1>4 DEF Object
  <2>2. objects' = [objects EXCEPT ![o] = object] /\ objects \in Seq(Object)
    BY <1>1 DEF Types
  <2> HIDE DEF object
  <2> QED BY <1>2, <2>1, <2>2, SeqExcept
<1> HIDE DEF acct
<1>6. /\ w \in Call /\ w.object = o /\ w.at = "scope" /\ w.answer = None
      /\ w.token = call[c].token /\ w.keys = acct
  BY <1>1, <1>3 DEF Call, Later, Finishes
<1> HIDE DEF w
<1>7. call' \in [Calls -> Call] /\ call'[c] = w /\ \A d \in Calls \ {c} : call'[d] = call[d]
  BY <1>1, <1>6, PutFacts
<1> QED BY <1>1, <1>5, <1>6, <1>7, Zenon DEF HasKeys, Forgets, Stays, Turns, acct

\* ... and with the session destroyed its session token.
LEMMA DestroyedDoes ==
  ASSUME Base, NEW c \in Calls, Destroyed(c)
  PROVE  HasDestroyed(c)
<1> DEFINE o == call[c].object
<1>1. /\ Types /\ Staged(call[c]) /\ call \in [Calls -> Call]
      /\ call[c].at = "destroy" /\ call[c].answer # None /\ Goes(c, "write")
      /\ objects' = [objects EXCEPT ![o].token = 0]
      /\ UNCHANGED <<current, sessions, open, saved, page, overlap, asks, faults>>
  BY DEF Base, Types, Destroyed
<1>2. o \in 1..Len(objects)
  BY <1>1 DEF Staged, None
<1>3. objects[o] \in Object
  BY <1>1, <1>2 DEF Types
<1>4. /\ objects' \in Seq(Object) /\ Len(objects') = Len(objects)
      /\ \A p \in 1..Len(objects) : p # o => objects'[p] = objects[p]
      /\ objects'[o].email = objects[o].email /\ objects'[o].uid = objects[o].uid
      /\ objects'[o].token = 0 /\ objects'[o].keyFetch = objects[o].keyFetch
  <2> DEFINE object == [objects[o] EXCEPT !.token = 0]
  <2>1. /\ object \in Object /\ object.email = objects[o].email /\ object.uid = objects[o].uid
        /\ object.token = 0 /\ object.keyFetch = objects[o].keyFetch
    BY <1>3 DEF Object
  <2>2. objects' = [objects EXCEPT ![o] = object] /\ objects \in Seq(Object)
    BY <1>1 DEF Types
  <2> HIDE DEF object
  <2> QED BY <1>2, <2>1, <2>2, SeqExcept
<1>5. /\ call' \in [Calls -> Call] /\ Stays(c, "write") /\ call'[c].token = call[c].token
      /\ call'[c].keys = call[c].keys /\ \A d \in Calls \ {c} : call'[d] = call[d]
  BY <1>1, GoesFacts DEF Later, Finishes
<1> QED BY <1>1, <1>4, <1>5, Zenon DEF HasDestroyed, Forgets, Turns

\* Idle again.
LEMMA IdleFacts ==
  ASSUME Base, NEW c \in Calls, Put(c, Idle)
  PROVE  call' \in [Calls -> Call] /\ call'[c] = Idle /\ \A d \in Calls \ {c} : call'[d] = call[d]
BY IdleCall, PutFacts DEF Base, Types

\* A handler that throws, has sent a code again, or finds the vault locked, ends.
LEMMA EndDoes ==
  ASSUME Base, NEW c \in Calls, Throws(c) \/ Resent(c) \/ (Written(c) /\ ~open)
  PROVE  Ended(c)
<1>1. CASE Throws(c)
  <2>1. /\ Put(c, Idle) /\ call[c].answer \in {"refused", "lost", "no success"}
        /\ call[c].at \notin {"send unblock code", "device", "destroy"}
        /\ UNCHANGED <<objects, current, sessions, open, saved, page, overlap, asks, faults>>
    BY <1>1 DEF Throws, ShowsError, Threw
  <2> QED BY <2>1, IdleFacts, Zenon DEF Ended, Turns, Same
<1>2. CASE Resent(c)
  <2>1. /\ Put(c, Idle) /\ call[c].at = "resend" /\ call[c].answer = "ok"
        /\ UNCHANGED <<objects, current, sessions, open, saved, page, overlap, asks, faults>>
    BY <1>2 DEF Resent, Said
  <2> QED BY <2>1, IdleFacts, Zenon DEF Ended, Turns, Same
<1>3. CASE Written(c) /\ ~open
  <2>1. /\ Put(c, Idle) /\ call[c].at = "write"
        /\ UNCHANGED <<objects, current, sessions, open, saved, page, overlap, asks, faults>>
    BY <1>3 DEF Written, ShowsError
  <2> QED BY <1>3, <2>1, IdleFacts, Zenon DEF Ended, Turns, Same
<1> QED BY <1>1, <1>2, <1>3

\* With the vault open the account is saved, and the page told.
LEMMA WrittenDoes ==
  ASSUME Base, NEW c \in Calls, Written(c), open
  PROVE  HasWritten(c)
<1>1. /\ call[c].at = "write" /\ saved' = Tokens(c) /\ current' = 0 /\ Put(c, Idle)
      /\ page' = [page EXCEPT !.shows = "done"]
      /\ UNCHANGED <<objects, sessions, open, overlap, asks, faults>>
  BY DEF Written, Shows
<1>2. page' \in Page /\ page'.shows = "done" /\ page'.asker = page.asker
  <2>1. page \in Page
    BY DEF Base, Types
  <2> QED BY <1>1, <2>1 DEF Page
<1> QED BY <1>1, <1>2, IdleFacts, Zenon DEF HasWritten, Turns

\* What any step does.
Steps ==
  \/ \E c \in Calls :
       \/ Reached(c) \/ Connected(c) \/ Submitted(c) \/ SentCode(c) \/ HasLoggedIn(c) \/ HasVerified(c)
       \/ HasKeys(c) \/ WentOn(c) \/ HasDestroyed(c) \/ Ended(c) \/ HasWritten(c)
  \/ LockVault \/ PageClosed

\* Every action of Next has its effect among Steps.
LEMMA NextSteps ==
  ASSUME Base, Next
  PROVE  Steps
<1>1. ASSUME NEW c \in Calls, Submit(c) \/ Lose(c) \/ Runs(c) \/ \E email \in Accounts : Connect(c, email)
      PROVE  Steps
  <2>1. Submit(c) => Submitted(c)
    BY SubmitDoes
  <2>2. Lose(c) \/ Serve(c) => Reached(c)
    BY LoseReaches, ServeReaches
  <2>3. (\E email \in Accounts : Connect(c, email)) => Connected(c)
    BY ConnectDoes
  <2>4. LoggedIn(c) => HasLoggedIn(c)
    BY LoggedInDoes
  <2>5. Blocked(c) => SentCode(c)
    BY BlockedDoes
  <2>6. Verified(c) => HasVerified(c)
    BY VerifiedDoes
  <2>7. KeysFetched(c) => HasKeys(c)
    BY KeysFetchedDoes
  <2>8. GoesOn(c) => WentOn(c)
    BY GoesOnDoes
  <2>9. Destroyed(c) => HasDestroyed(c)
    BY DestroyedDoes
  <2>10. Throws(c) \/ Resent(c) => Ended(c)
    BY EndDoes
  <2>11. Written(c) => Ended(c) \/ HasWritten(c)
    BY EndDoes, WrittenDoes
  <2> QED BY <1>1, <2>1, <2>2, <2>3, <2>4, <2>5, <2>6, <2>7, <2>8, <2>9, <2>10, <2>11, Zenon DEF Runs, Steps
<1> QED BY <1>1, Zenon DEF Next, Steps

-----------------------------------------------------------------------------
\* Base: the types, the stages of the handlers, and what the objects point at.
LEMMA InitBase ==
  ASSUME Init
  PROVE  Base
<1>1. Types
  <2>1. call \in [Calls -> Call]
    BY IdleCall DEF Init
  <2>2. page \in Page /\ page.asker = 0 /\ saved \in Account /\ saved.from = 0
    BY DEF Init, NoPage, NoAccount, Page, Account
  <2>3. objects \in Seq(Object) /\ sessions \in Seq(Session) /\ Len(objects) = 0 /\ Len(sessions) = 0
        /\ current = 0
    BY DEF Init
  <2>4. open \in BOOLEAN /\ overlap \in BOOLEAN
    BY DEF Init
  <2>5. asks \in 0..MaxAsks /\ faults \in 0..MaxFaults
    BY ConnectAssumption DEF Init
  <2>6. current \in 0..Len(objects) /\ page.asker \in 0..Len(sessions) /\ saved.from \in 0..Len(sessions)
    BY <2>2, <2>3
  <2> QED BY <2>1, <2>2, <2>3, <2>4, <2>5, <2>6, Zenon DEF Types
<1>2. ASSUME NEW c \in Calls PROVE Staged(call[c])
  <2>1. call[c] = Idle
    BY DEF Init
  <2> QED BY <2>1, IdleCall DEF Staged, Logins, Later, Verifies, Finishes, None
<1>3. DOMAIN objects = {}
  BY DEF Init
<1> QED BY <1>1, <1>2, <1>3, Zenon DEF Base

\* An idle handler is at no stage.
LEMMA IdleStaged ==
  ASSUME NEW c \in Calls, call'[c] = Idle
  PROVE  Staged(call[c])'
BY IdleCall DEF Staged, Logins, Later, Verifies, Finishes, None

\* What is not moved stays as it was.
LEMMA StagedGo ==
  ASSUME Base, NEW d \in Calls, call'[d] = call[d],
         objects' \in Seq(Object), sessions' \in Seq(Session),
         Len(objects) <= Len(objects'), Len(sessions) <= Len(sessions')
  PROVE  Staged(call[d])'
<1> DEFINE w == call[d]
<1>1. /\ Staged(w) /\ Len(objects) \in Nat /\ Len(sessions) \in Nat
      /\ Len(objects') \in Nat /\ Len(sessions') \in Nat
  BY DEF Base, Types
<1>2. call'[d] = w
  OBVIOUS
<1> HIDE DEF w
<1>3. 1..Len(objects) \subseteq 1..Len(objects') /\ 1..Len(sessions) \subseteq 1..Len(sessions')
  BY <1>1
<1> QED BY <1>1, <1>2, <1>3, Zenon DEF Staged

\* An object points as well at sessions that kept their accounts.
LEMMA PointingGo ==
  ASSUME Base, NEW o \in 1..Len(objects), objects'[o] = objects[o],
         sessions' \in Seq(Session), Len(sessions) <= Len(sessions'),
         \A s \in 1..Len(sessions) : sessions'[s].acct = sessions[s].acct
  PROVE  Pointing(objects[o])'
<1>1. Types /\ Pointing(objects[o])
  BY DEF Base, Types
<1>2. Len(sessions) \in Nat /\ Len(sessions') \in Nat
  BY <1>1 DEF Types
<1> QED BY <1>1, <1>2 DEF Pointing

\* What a turn of a handler leaves to be shown of Base.
LEMMA BaseTurns ==
  ASSUME Base, NEW c \in Calls, Turns(c), Staged(call[c])',
         objects' \in Seq(Object), Len(objects) <= Len(objects'),
         \A o \in 1..Len(objects') : Pointing(objects[o])',
         current' \in 0..Len(objects'), saved' \in Account, saved'.from \in 0..Len(sessions),
         page' \in Page, page'.asker \in 0..Len(sessions),
         overlap' \in BOOLEAN, asks' \in 0..MaxAsks
  PROVE  Base'
<1>1. Types'
  BY DEF Base, Types, Turns
<1>2. ASSUME NEW d \in Calls \ {c} PROVE Staged(call[d])'
  <2>1. call'[d] = call[d] /\ sessions' = sessions /\ sessions \in Seq(Session)
    BY Zenon DEF Turns, Base, Types
  <2>2. Len(sessions) <= Len(sessions')
    BY <2>1
  <2> QED BY <2>1, <2>2, StagedGo
<1>3. DOMAIN objects' = 1..Len(objects')
  OBVIOUS
<1> QED BY <1>1, <1>2, <1>3, Zenon DEF Base

\* One that leaves the objects alone.
LEMMA BaseSame ==
  ASSUME Base, NEW c \in Calls, Turns(c), Staged(call[c])', UNCHANGED <<objects, saved, overlap>>,
         asks' \in 0..MaxAsks, current' \in 0..Len(objects), page' \in Page, page'.asker \in 0..Len(sessions)
  PROVE  Base'
<1>1. Types /\ sessions' = sessions
  BY DEF Base, Turns
<1>2. /\ objects' \in Seq(Object) /\ Len(objects) <= Len(objects') /\ Len(objects') = Len(objects)
      /\ saved' \in Account /\ saved'.from \in 0..Len(sessions) /\ overlap' \in BOOLEAN
      /\ Len(sessions) <= Len(sessions') /\ sessions' \in Seq(Session)
  BY <1>1 DEF Types
<1>3. ASSUME NEW o \in 1..Len(objects') PROVE Pointing(objects[o])'
  BY <1>1, <1>2, PointingGo
<1> QED BY <1>2, <1>3, BaseTurns

\* Base is kept by a request that is served or lost, ...
LEMMA ReachedBase ==
  ASSUME Base, NEW c \in Calls, Reached(c)
  PROVE  Base'
<1> DEFINE w == call[c]
           v == call'[c]
<1>1. /\ Types /\ Staged(w) /\ w.at # None /\ w.at # "write" /\ w.answer = None
      /\ UNCHANGED <<objects, current, open, saved, page, overlap, asks>>
  BY DEF Base, Reached
<1>2. /\ call' \in [Calls -> Call] /\ \A d \in Calls \ {c} : call'[d] = call[d]
      /\ v.object = w.object /\ v.at = w.at /\ faults' \in 0..MaxFaults
  BY DEF Reached
<1>3. /\ sessions' \in Seq(Session) /\ Len(sessions) <= Len(sessions')
      /\ Len(sessions) \in Nat /\ Len(sessions') \in Nat /\ Len(objects') = Len(objects)
      /\ Len(sessions') # Len(sessions) => w.at \in Logins
      /\ \A s \in 1..Len(sessions) : sessions'[s].acct = sessions[s].acct
  <2>1. /\ sessions' \in Seq(Session) /\ Len(sessions) <= Len(sessions')
        /\ Len(sessions') # Len(sessions) => w.at \in Logins
        /\ \A s \in 1..Len(sessions) : sessions'[s].acct = sessions[s].acct
    BY Zenon DEF Reached, SessionsGo
  <2> QED BY <1>1, <2>1 DEF Types
<1>4. \/ v.answer = "lost" /\ v.token = w.token
      \/ /\ v.answer \in {"ok", "refused", "blocked", "no success"}
         /\ v.answer = "blocked" => w.at = "login"
         /\ v.answer = "no success" => w.at = "totp"
         /\ w.at \in Logins => (v.answer = "ok" <=> Len(sessions') = Len(sessions) + 1)
         /\ v.token = IF Len(sessions') = Len(sessions) THEN w.token ELSE Len(sessions')
  BY Zenon DEF Reached, Answers
<1>5. Len(sessions') # Len(sessions) => Len(sessions') = Len(sessions) + 1
  BY Zenon DEF Reached, SessionsGo
<1>6. w.object \in 1..Len(objects)
  BY <1>1, Zenon DEF Staged
<1>7. w.at \in Later => w.token \in 1..Len(sessions) /\ w.at \notin Logins
  <2>1. w.at \in Later => w.token \in 1..Len(sessions)
    BY <1>1, Zenon DEF Staged
  <2> QED BY <2>1 DEF Later, Logins, Verifies, Finishes
<1>8. w.at \in Logins \/ w.at = "send unblock code" => w.token = 0
  BY <1>1 DEF Staged, None
<1> HIDE DEF w, v
<1>9. v.answer = "blocked" => v.at = "login"
  BY <1>2, <1>4
<1>10. v.answer = "no success" => v.at = "totp"
  BY <1>2, <1>4
<1>11. v.at \in Later => v.token \in 1..Len(sessions')
  BY <1>2, <1>3, <1>4, <1>7
<1>12. v.at \in Logins /\ v.answer = "ok" => v.token \in 1..Len(sessions')
  <2> SUFFICES ASSUME v.at \in Logins, v.answer = "ok" PROVE v.token \in 1..Len(sessions')
    OBVIOUS
  <2>1. Len(sessions') = Len(sessions) + 1 /\ v.token = Len(sessions')
    BY <1>2, <1>3, <1>4
  <2> QED BY <1>3, <2>1
<1>13. (v.at \in Logins /\ v.answer # "ok") \/ v.at = "send unblock code" => v.token = 0
  <2>1. CASE v.at = "send unblock code"
    BY <1>2, <1>3, <1>4, <1>8, <2>1 DEF Logins
  <2>2. CASE v.at \in Logins /\ v.answer # "ok"
    BY <1>2, <1>3, <1>4, <1>5, <1>8, <2>2
  <2> QED BY <2>1, <2>2
<1>14. v.object \in 1..Len(objects') /\ v.at # None /\ v.at # "write"
  BY <1>1, <1>2, <1>3, <1>6
<1>15. Staged(call[c])'
  BY <1>9, <1>10, <1>11, <1>12, <1>13, <1>14, Zenon DEF Staged, v
<1>16. ASSUME NEW d \in Calls PROVE Staged(call[d])'
  <2>1. objects' \in Seq(Object) /\ Len(objects) <= Len(objects')
    BY <1>1, <1>3 DEF Types
  <2> QED BY <1>2, <1>3, <1>15, <2>1, StagedGo
<1>17. ASSUME NEW o \in DOMAIN objects' PROVE Pointing(objects[o])'
  <2>1. o \in 1..Len(objects) /\ objects'[o] = objects[o]
    BY <1>1 DEF Types
  <2> QED BY <1>3, <2>1, PointingGo
<1>18. Types'
  BY <1>1, <1>2, <1>3 DEF Types
<1> QED BY <1>16, <1>17, <1>18, Zenon DEF Base

\* ... by a sign-in that is begun, ...
LEMMA ConnectedBase ==
  ASSUME Base, NEW c \in Calls, Connected(c)
  PROVE  Base'
<1> DEFINE n == Len(objects) + 1
           v == call'[c]
<1>1. /\ Turns(c) /\ sessions' = sessions /\ UNCHANGED <<saved, page>>
      /\ v.object = n /\ v.at \in Logins /\ v.answer = None /\ v.token = 0
      /\ objects' \in Seq(Object) /\ Len(objects') = n
      /\ \A o \in 1..Len(objects) : objects'[o] = objects[o]
      /\ objects'[n].token = 0 /\ objects'[n].keyFetch = 0 /\ current' = n
      /\ asks' \in 0..MaxAsks /\ overlap' \in BOOLEAN
  BY DEF Connected, Turns
<1>2. /\ sessions \in Seq(Session) /\ Len(sessions) \in Nat /\ Len(objects) \in Nat
      /\ saved \in Account /\ saved.from \in 0..Len(sessions)
      /\ page \in Page /\ page.asker \in 0..Len(sessions)
  BY DEF Base, Types
<1>3. n \in 1..Len(objects') /\ Len(objects) <= Len(objects') /\ n \in 0..Len(objects')
  BY <1>1, <1>2
<1> HIDE DEF v
<1>4. /\ v.at \notin Later /\ v.at # None /\ v.at # "send unblock code"
      /\ v.answer # "ok" /\ v.answer # "blocked" /\ v.answer # "no success" /\ v.at # "write"
  BY <1>1 DEF Logins, Later, Verifies, Finishes, None
<1>5. Staged(call[c])'
  BY <1>1, <1>3, <1>4, Zenon DEF Staged, v
<1>6. ASSUME NEW o \in 1..Len(objects') PROVE Pointing(objects[o])'
  <2>1. CASE o = n
    BY <1>1, <1>2, <2>1 DEF Pointing
  <2>2. CASE o # n
    <3>1. o \in 1..Len(objects)
      BY <1>1, <1>2, <2>2
    <3>2. Len(sessions) <= Len(sessions')
      BY <1>1, <1>2
    <3> QED BY <1>1, <1>2, <3>1, <3>2, PointingGo
  <2> QED BY <2>1, <2>2
<1> QED BY <1>1, <1>2, <1>3, <1>5, <1>6, BaseTurns

\* ... by a code that is sent, ...
LEMMA SubmittedBase ==
  ASSUME Base, NEW c \in Calls, Submitted(c)
  PROVE  Base'
<1> DEFINE v == call'[c]
<1>1. Types /\ Turns(c) /\ UNCHANGED <<objects, current, sessions, saved, page, overlap>> /\ asks' \in 0..MaxAsks
  BY DEF Base, Submitted, Turns
<1>2. Staged(call[c])'
  <2>1. CASE call' = call
    <3>1. Staged(call[c])
      BY DEF Base
    <3> QED BY <1>1, <2>1, <3>1, Zenon DEF Staged
  <2>2. CASE /\ current # 0 /\ objects[current].token # 0
             /\ v.object = current /\ v.at \in Verifies \cup {"resend"}
             /\ v.answer = None /\ v.token = objects[current].token
    <3>1. current \in 1..Len(objects)
      BY <1>1, <2>2 DEF Types
    <3>2. Pointing(objects[current])
      BY <1>1, <3>1 DEF Base, Types
    <3>3. objects[current].token \in 1..Len(sessions)
      BY <1>1, <2>2, <3>2 DEF Pointing, Types
    <3> HIDE DEF v
    <3>4. /\ v.at \notin Logins /\ v.at # None /\ v.at # "send unblock code" /\ v.at # "write"
          /\ v.answer # "blocked" /\ v.answer # "no success"
      BY <2>2 DEF Logins, Verifies, None
    <3>5. v.object \in 1..Len(objects') /\ v.token \in 1..Len(sessions')
      BY <1>1, <2>2, <3>1, <3>3, Zenon
    <3>6. v.answer = None
      BY <2>2
    <3> QED BY <3>4, <3>5, <3>6, Zenon DEF Staged, v
  <2> QED BY <2>1, <2>2 DEF Submitted
<1> QED BY <1>1, <1>2, BaseSame DEF Types

\* ... by an unblock code that is sent for, ...
LEMMA SentCodeBase ==
  ASSUME Base, NEW c \in Calls, SentCode(c)
  PROVE  Base'
<1> DEFINE v == call'[c]
<1>1. Types /\ Staged(call[c]) /\ Turns(c) /\ UNCHANGED <<objects, current, sessions, saved, overlap, asks>>
  BY DEF Base, SentCode, Turns, Same
<1>2. Staged(call[c])' /\ page' \in Page /\ page'.asker \in 0..Len(sessions)
  <2>1. CASE /\ call[c].answer = "blocked" /\ Stays(c, "send unblock code")
             /\ v.token = call[c].token /\ page' = page
    <3>1. call[c].at = "login" /\ call[c].object \in 1..Len(objects) /\ call[c].token = 0
      BY <1>1, <2>1 DEF Staged, Logins, None
    <3>2. v.at = "send unblock code" /\ v.answer = None /\ v.object \in 1..Len(objects') /\ v.token = 0
      BY <1>1, <2>1, <3>1 DEF Stays
    <3> HIDE DEF v
    <3>3. /\ v.at \notin Logins \cup Later /\ v.at # None /\ v.at # "write"
          /\ v.answer # "blocked" /\ v.answer # "no success"
      BY <3>2 DEF Logins, Later, Finishes, Verifies, None
    <3>4. Staged(call[c])'
      BY <3>2, <3>3, Zenon DEF Staged, v
    <3> QED BY <1>1, <2>1, <3>4 DEF Types
  <2>2. CASE call'[c] = Idle /\ page' \in Page /\ page'.asker = 0
    <3>1. 0 \in 0..Len(sessions)
      BY <1>1 DEF Types
    <3> QED BY <2>2, <3>1, IdleStaged
  <2> QED BY <2>1, <2>2 DEF SentCode
<1> QED BY <1>1, <1>2, BaseSame DEF Types

\* A handler that goes on in finish.
LEMMA FinishStaged ==
  ASSUME NEW c \in Calls, call'[c].at \in Finishes, call'[c].answer = None,
         call'[c].object \in 1..Len(objects'), call'[c].token \in 1..Len(sessions')
  PROVE  Staged(call[c])'
<1> DEFINE v == call'[c]
<1> HIDE DEF v
<1>1. /\ v.at \notin Logins /\ v.at # None /\ v.at # "send unblock code"
      /\ v.answer = None /\ v.answer # "blocked" /\ v.answer # "no success"
  BY DEF Logins, Finishes, None, v
<1> QED BY <1>1, Zenon DEF Staged, v

\* ... by a code that was accepted, ...
LEMMA HasVerifiedBase ==
  ASSUME Base, NEW c \in Calls, HasVerified(c)
  PROVE  Base'
<1> DEFINE o == call[c].object
<1>1. /\ Types /\ Staged(call[c]) /\ Turns(c)
      /\ UNCHANGED <<objects, current, sessions, saved, page, overlap, asks>> /\ call[c].at \in Verifies
  BY DEF Base, HasVerified, Turns, Same
<1>2. Staged(call[c])'
  <2>1. CASE objects[o].token # 0 /\ Stays(c, "keys") /\ call'[c].token = objects[o].token
    <3>1. o \in 1..Len(objects)
      BY <1>1 DEF Staged, Verifies, None
    <3>2. Pointing(objects[o])
      BY <1>1, <3>1 DEF Base, Types
    <3>3. objects[o].token \in 1..Len(sessions)
      BY <1>1, <2>1, <3>2 DEF Pointing, Types
    <3>4. call'[c].at \in Finishes
      BY <2>1 DEF Stays, Finishes
    <3> QED BY <1>1, <2>1, <3>1, <3>3, <3>4, FinishStaged DEF Stays
  <2>2. CASE call'[c] = Idle
    BY <2>2, IdleStaged
  <2> QED BY <2>1, <2>2 DEF HasVerified
<1> QED BY <1>1, <1>2, BaseSame DEF Types

\* ... by a handler that goes on or ends, ...
LEMMA WentOnBase ==
  ASSUME Base, NEW c \in Calls, WentOn(c) \/ Ended(c)
  PROVE  Base'
<1>1. /\ Types /\ Staged(call[c]) /\ Turns(c)
      /\ UNCHANGED <<objects, current, sessions, saved, page, overlap, asks>>
  BY DEF Base, WentOn, Ended, Turns, Same
<1>2. Staged(call[c])'
  <2>1. CASE Ended(c)
    BY <2>1, IdleStaged DEF Ended
  <2>2. CASE WentOn(c)
    <3>1. call[c].at \in Finishes /\ call[c].at # None
      BY <2>2 DEF WentOn, Finishes, None
    <3>2. call[c].object \in 1..Len(objects) /\ call[c].token \in 1..Len(sessions)
      BY <1>1, <3>1, Zenon DEF Staged, Later
    <3>3. /\ call'[c].at \in Finishes /\ call'[c].answer = None
          /\ call'[c].object = call[c].object /\ call'[c].token = call[c].token
      BY <2>2 DEF WentOn, Stays, Finishes
    <3> QED BY <1>1, <3>2, <3>3, FinishStaged
  <2> QED BY <2>1, <2>2
<1> QED BY <1>1, <1>2, BaseSame DEF Types

\* ... by an object that forgets a token, ...
LEMMA ForgetsBase ==
  ASSUME Base, NEW c \in Calls,
         HasKeys(c) \/ (HasDestroyed(c) /\ objects[call[c].object].keyFetch = 0)
  PROVE  Base'
<1> DEFINE o == call[c].object
<1>1. /\ Types /\ Staged(call[c]) /\ Turns(c) /\ UNCHANGED <<current, sessions, saved, page, overlap, asks>>
      /\ call[c].at \in Finishes
  BY DEF Base, HasKeys, HasDestroyed, Forgets, Turns, Finishes
<1>2. o \in 1..Len(objects) /\ call[c].token \in 1..Len(sessions)
  BY <1>1 DEF Staged, Later, Finishes, None
<1>3. /\ objects' \in Seq(Object) /\ Len(objects') = Len(objects)
      /\ \A p \in 1..Len(objects) : p # o => objects'[p] = objects[p]
      /\ objects'[o].email = objects[o].email /\ objects'[o].uid = objects[o].uid
      /\ call'[c].token = call[c].token
      /\ \/ objects'[o].token = objects[o].token /\ objects'[o].keyFetch = 0
         \/ objects'[o].token = 0 /\ objects'[o].keyFetch = 0
  BY DEF HasKeys, HasDestroyed, Forgets
<1>4. call'[c].at \in Finishes /\ call'[c].answer = None /\ call'[c].object = o
  BY DEF HasKeys, HasDestroyed, Stays, Finishes
<1>5. Staged(call[c])'
  BY <1>1, <1>2, <1>3, <1>4, FinishStaged
<1>6. ASSUME NEW p \in 1..Len(objects') PROVE Pointing(objects[p])'
  <2>1. CASE p = o
    <3>1. Pointing(objects[o])
      BY <1>1, <1>2 DEF Base, Types
    <3>2. Len(sessions') = Len(sessions) /\ Len(sessions) \in Nat /\ sessions' = sessions
      BY <1>1 DEF Types
    <3> QED BY <1>3, <2>1, <3>1, <3>2 DEF Pointing
  <2>2. CASE p # o
    <3>1. sessions' \in Seq(Session) /\ Len(sessions) <= Len(sessions') /\ sessions' = sessions
      BY <1>1 DEF Types
    <3> QED BY <1>3, <2>2, <3>1, PointingGo
  <2> QED BY <2>1, <2>2
<1>7. Len(objects) <= Len(objects') /\ current' \in 0..Len(objects')
  BY <1>1, <1>3 DEF Types
<1> QED BY <1>1, <1>3, <1>5, <1>6, <1>7, BaseTurns DEF Types

\* ... by a login that succeeded, ...
LEMMA HasLoggedInBase ==
  ASSUME Base, NEW c \in Calls, HasLoggedIn(c), sessions[call[c].token].acct = objects[call[c].object].email
  PROVE  Base'
<1> DEFINE o == call[c].object
           s == call[c].token
<1>1. /\ Types /\ Staged(call[c]) /\ Turns(c) /\ UNCHANGED <<current, sessions, saved, overlap, asks>>
      /\ call[c].at \in Logins /\ call[c].answer = "ok"
  BY DEF Base, HasLoggedIn, Turns
<1>2. o \in 1..Len(objects) /\ s \in 1..Len(sessions)
  BY <1>1 DEF Staged, Logins, None
<1>3. /\ objects' \in Seq(Object) /\ Len(objects') = Len(objects)
      /\ \A p \in 1..Len(objects) : p # o => objects'[p] = objects[p]
      /\ objects'[o].email = objects[o].email /\ objects'[o].uid = sessions[s].acct
      /\ objects'[o].token = s /\ objects'[o].keyFetch = s
  BY DEF HasLoggedIn
<1>4. Staged(call[c])' /\ page' \in Page /\ page'.asker \in 0..Len(sessions)
  <2>1. CASE Stays(c, "keys") /\ call'[c].token = s /\ page' = page
    <3>1. call'[c].at \in Finishes /\ call'[c].answer = None /\ call'[c].object = o
      BY <2>1 DEF Stays, Finishes
    <3>2. Staged(call[c])'
      BY <1>1, <1>2, <1>3, <2>1, <3>1, FinishStaged
    <3> QED BY <1>1, <2>1, <3>2 DEF Types
  <2>2. CASE call'[c] = Idle /\ page' \in Page /\ page'.asker = s
    <3>1. s \in 0..Len(sessions)
      BY <1>2
    <3> QED BY <2>2, <3>1, IdleStaged
  <2> QED BY <2>1, <2>2 DEF HasLoggedIn
<1>5. ASSUME NEW p \in 1..Len(objects') PROVE Pointing(objects[p])'
  <2>1. CASE p = o
    <3>1. /\ objects'[p].uid = objects'[p].email /\ objects'[p].email = sessions'[s].acct
          /\ objects'[p].token = s /\ objects'[p].keyFetch = s /\ s \in 0..Len(sessions')
      BY <1>1, <1>2, <1>3, <2>1
    <3> QED BY <3>1, Zenon DEF Pointing
  <2>2. CASE p # o
    <3>1. sessions' \in Seq(Session) /\ Len(sessions) <= Len(sessions') /\ sessions' = sessions
      BY <1>1 DEF Types
    <3> QED BY <1>3, <2>2, <3>1, PointingGo
  <2> QED BY <2>1, <2>2
<1>6. Len(objects) <= Len(objects') /\ current' \in 0..Len(objects')
  BY <1>1, <1>3 DEF Types
<1> QED BY <1>1, <1>3, <1>4, <1>5, <1>6, BaseTurns DEF Types

\* ... by an account that is saved, ...
LEMMA HasWrittenBase ==
  ASSUME Base, NEW c \in Calls, HasWritten(c)
  PROVE  Base'
<1> DEFINE o == call[c].object
           s == call[c].token
<1>1. /\ Types /\ Staged(call[c]) /\ Turns(c) /\ UNCHANGED <<objects, sessions, overlap, asks>>
      /\ call[c].at = "write" /\ call'[c] = Idle /\ saved' = Tokens(c) /\ current' = 0
      /\ page' \in Page /\ page'.asker = page.asker
  BY DEF Base, HasWritten, Turns
<1>2. o \in 1..Len(objects) /\ s \in 1..Len(sessions)
  BY <1>1 DEF Staged, Later, Finishes, None
<1>3. objects[o] \in Object /\ sessions[s] \in Session /\ call[c] \in Call
  BY <1>1, <1>2 DEF Types
<1>4. saved' \in Account /\ saved'.from = s
  <2>1. /\ objects[o].uid \in Accounts \cup {None} /\ objects[o].email \in Accounts \cup {None}
        /\ call[c].keys \in Accounts \cup {None} /\ sessions[s].acct \in Accounts \cup {None} /\ s \in Nat
    BY <1>3 DEF Object, Session, Call
  <2> QED BY <1>1, <2>1 DEF Tokens, Account
<1>5. Staged(call[c])'
  BY <1>1, IdleStaged
<1>6. ASSUME NEW p \in 1..Len(objects') PROVE Pointing(objects[p])'
  <2>1. sessions' \in Seq(Session) /\ Len(sessions) <= Len(sessions') /\ sessions' = sessions
    BY <1>1 DEF Types
  <2> QED BY <1>1, <2>1, PointingGo
<1>7. /\ objects' \in Seq(Object) /\ Len(objects) <= Len(objects') /\ current' \in 0..Len(objects')
      /\ saved'.from \in 0..Len(sessions)
  BY <1>1, <1>2, <1>4 DEF Types
<1> QED BY <1>1, <1>4, <1>5, <1>6, <1>7, BaseTurns DEF Types

\* ... and by the vault locked or the page closed.
LEMMA FaultBase ==
  ASSUME Base, LockVault \/ PageClosed
  PROVE  Base'
<1>1. Types /\ Fault /\ UNCHANGED <<objects, sessions, saved, overlap, asks>>
  BY DEF Base, LockVault, PageClosed
<1>2. faults' \in 0..MaxFaults
  BY <1>1, ConnectAssumption DEF Fault, Types
<1>3. /\ open' \in BOOLEAN /\ current' \in 0..Len(objects) /\ page' \in Page
      /\ page'.asker \in 0..Len(sessions) /\ call' \in [Calls -> Call]
      /\ \A c \in Calls : call'[c] = call[c] \/ call'[c] = Idle
  <2>1. CASE LockVault
    BY <1>1, <2>1 DEF LockVault, Types
  <2>2. CASE PageClosed
    <3> DEFINE shown == [NoPage EXCEPT !.shows = IF saved = NoAccount THEN "account" ELSE "done"]
    <3>1. shown \in Page /\ shown.asker = 0
      BY DEF NoPage, Page
    <3>2. page' = shown /\ current' = 0 /\ call' = [c \in Calls |-> Idle] /\ open' = open
      BY <2>2 DEF PageClosed
    <3> HIDE DEF shown
    <3>3. call' \in [Calls -> Call] /\ \A c \in Calls : call'[c] = Idle
      BY <3>2, IdleCall
    <3> QED BY <1>1, <3>1, <3>2, <3>3 DEF Types
  <2> QED BY <2>1, <2>2
<1>4. Types'
  BY <1>1, <1>2, <1>3 DEF Types
<1>5. /\ objects' \in Seq(Object) /\ sessions' \in Seq(Session)
      /\ Len(objects) <= Len(objects') /\ Len(sessions) <= Len(sessions')
      /\ DOMAIN objects' = 1..Len(objects)
  BY <1>1 DEF Types
<1>6. ASSUME NEW c \in Calls PROVE Staged(call[c])'
  BY <1>3, <1>5, IdleStaged, StagedGo
<1>7. ASSUME NEW o \in 1..Len(objects) PROVE Pointing(objects[o])'
  BY <1>1, <1>5, PointingGo
<1> QED BY <1>4, <1>5, <1>6, <1>7, Zenon DEF Base

-----------------------------------------------------------------------------
\* Safe: a login alone, a handler on its object's session, one winner per session.
LEMMA InitSafe ==
  ASSUME Init
  PROVE  Safe
<1>1. ASSUME NEW c \in Calls PROVE Alone(c) /\ Working(call[c]) /\ Winning(c) /\ call[c].answer # "lost"
  <2>1. call[c] = Idle
    BY DEF Init
  <2> QED
    BY <2>1, IdleCall DEF Alone, Working, Winning, Won, Begins, Later, Logins, Verifies, Finishes, None
<1>2. DOMAIN sessions = {} /\ faults = 0 /\ open /\ saved = NoAccount
  BY DEF Init
<1> QED BY <1>1, <1>2, Zenon DEF Safe, Faulty, Saving

\* A handler has a session that there is, or none.
LEMMA TokenThere ==
  ASSUME Base, NEW c \in Calls
  PROVE  /\ call[c].token \in 0..Len(sessions) /\ call[c].object \in 0..Len(objects)
         /\ call[c].at \in Begins \cup Later => call[c].object \in 1..Len(objects)
         /\ (call[c].at \in Logins /\ call[c].answer = "ok") \/ call[c].at \in Later =>
              call[c].token \in 1..Len(sessions)
<1> DEFINE w == call[c]
<1>1. Types /\ Staged(w) /\ w \in Call
  BY DEF Base, Types
<1>2. Len(sessions) \in Nat /\ Len(objects) \in Nat
  BY <1>1 DEF Types
<1>3. w.at \in Begins \cup Later \cup {None} /\ None \notin Begins \cup Later
  BY <1>1 DEF Call, Begins, Later, Logins, Verifies, Finishes, None
<1> HIDE DEF w
<1>4. w.at = None => w.token = 0 /\ w.object = 0 /\ w.at \notin Begins \cup Later \cup Logins
  <2>1. w.at = None => w = Idle
    BY <1>1, Zenon DEF Staged
  <2> QED BY <1>3, <2>1, IdleCall DEF Begins
<1>5. /\ w.at # None => w.object \in 1..Len(objects)
      /\ (w.at \in Logins /\ w.answer = "ok") \/ w.at \in Later => w.token \in 1..Len(sessions)
      /\ (w.at \in Logins /\ w.answer # "ok") \/ w.at = "send unblock code" => w.token = 0
  BY <1>1, Zenon DEF Staged
<1>6. w.token \in 0..Len(sessions) /\ w.object \in 0..Len(objects)
  <2>1. w.token = 0 \/ w.token \in 1..Len(sessions)
    BY <1>3, <1>4, <1>5 DEF Begins
  <2>2. w.object = 0 \/ w.object \in 1..Len(objects)
    BY <1>4, <1>5
  <2> QED BY <1>2, <2>1, <2>2
<1>7. w.at \in Begins \cup Later => w.object \in 1..Len(objects)
  BY <1>3, <1>5
<1> QED BY <1>5, <1>6, <1>7, Zenon DEF w

\* What the objects point at.
LEMMA ObjectThere ==
  ASSUME Base, NEW o \in 1..Len(objects)
  PROVE  /\ objects[o].token \in 0..Len(sessions) /\ objects[o].keyFetch \in {0, objects[o].token}
         /\ objects[o].token # 0 => objects[o].uid = objects[o].email
                                    /\ objects[o].email = sessions[objects[o].token].acct
BY DEF Base, Types, Pointing

\* The handler that is about to be granted, or to be let go, has won its session.
LEMMA WonAt ==
  ASSUME NEW w, w.at \in Finishes \ {"keys"}, w.answer = None
  PROVE  Won(w) /\ (w.at = "token" => Ungranted(w)) /\ ~(w.at = "destroy" /\ Gone(w))
BY DEF Won, Ungranted, Gone, Finishes

\* A request that is served, or lost, keeps Safe; the handler itself and the others.
LEMMA ReachedFacts ==
  ASSUME Base, NEW c \in Calls, Reached(c)
  PROVE  /\ Len(sessions) \in Nat /\ Len(sessions') \in Nat /\ Len(sessions) <= Len(sessions')
         /\ call'[c].object = call[c].object /\ call'[c].at = call[c].at /\ call'[c].keys = call[c].keys
         /\ \A d \in Calls \ {c} : call'[d] = call[d]
         /\ Len(sessions') # Len(sessions) =>
              /\ call[c].at \in Logins /\ Len(sessions') = Len(sessions) + 1
              /\ sessions'[Len(sessions')].acct = objects[call[c].object].email
              /\ sessions'[Len(sessions')].keys /\ sessions'[Len(sessions')].alive
              /\ sessions'[Len(sessions')].grants = 0
         /\ call'[c].answer = "lost" \/ Answers(call[c], call'[c].answer)
         /\ call[c].at \in Logins /\ call'[c].answer = "ok" =>
              Len(sessions') = Len(sessions) + 1 /\ call'[c].token = Len(sessions')
         /\ call[c].at \notin Logins => call'[c].token = call[c].token
         /\ call'[c].answer = "lost" \/ call'[c].answer \in {"ok", "refused", "blocked", "no success"}
         /\ UNCHANGED <<objects, current, open, saved, page, overlap, asks>>
         /\ faults' = 0 => faults = 0 /\ call'[c].answer # "lost"
<1> DEFINE w == call[c]
           v == call'[c]
<1>1. /\ v.object = w.object /\ v.at = w.at /\ v.keys = w.keys
      /\ \A d \in Calls \ {c} : call'[d] = call[d]
      /\ UNCHANGED <<objects, current, open, saved, page, overlap, asks>>
  BY DEF Reached
<1>2. /\ sessions \in Seq(Session) /\ sessions' \in Seq(Session) /\ Len(sessions) <= Len(sessions')
      /\ Len(sessions') # Len(sessions) =>
           /\ w.at \in Logins /\ Len(sessions') = Len(sessions) + 1
           /\ sessions'[Len(sessions')].acct = objects[w.object].email
           /\ sessions'[Len(sessions')].keys /\ sessions'[Len(sessions')].alive
           /\ sessions'[Len(sessions')].grants = 0
  BY Zenon DEF Reached, SessionsGo, Base, Types
<1>3. Len(sessions) \in Nat /\ Len(sessions') \in Nat
  BY <1>2
<1>4. \/ v.answer = "lost" /\ v.token = w.token /\ faults' # 0
      \/ /\ Answers(w, v.answer) /\ faults' = faults
         /\ v.token = IF Len(sessions') = Len(sessions) THEN w.token ELSE Len(sessions')
  BY DEF Reached
<1>5. Answers(w, v.answer) =>
        /\ v.answer \in {"ok", "refused", "blocked", "no success"}
        /\ w.at \in Logins => (v.answer = "ok" <=> Len(sessions') = Len(sessions) + 1)
  BY Zenon DEF Answers
<1> HIDE DEF w, v
<1>6. w.at \in Logins /\ v.answer = "ok" => Len(sessions') = Len(sessions) + 1 /\ v.token = Len(sessions')
  BY <1>3, <1>4, <1>5
<1>7. w.at \notin Logins => v.token = w.token
  BY <1>2, <1>4
<1>8. v.answer = "lost" \/ v.answer \in {"ok", "refused", "blocked", "no success"}
  BY <1>4, <1>5
<1>9. faults' = 0 => faults = 0 /\ v.answer # "lost"
  BY <1>4, <1>5
<1>10. v.answer = "lost" \/ Answers(w, v.answer)
  BY <1>4
<1> QED BY <1>1, <1>2, <1>3, <1>6, <1>7, <1>8, <1>9, <1>10, Zenon DEF w, v

\* What stays true of the sessions.
LEMMA SessionsKept ==
  ASSUME Base, NEW c \in Calls, Reached(c), NEW s \in 1..Len(sessions)
  PROVE  /\ s \in 1..Len(sessions') /\ sessions'[s].acct = sessions[s].acct
         /\ sessions[s].verified => sessions'[s].verified
         /\ sessions'[s].verified => sessions[s].verified \/ (call[c].at \in Verifies /\ s = call[c].token)
         /\ sessions'[s].keys => sessions[s].keys
         /\ sessions[s].keys => sessions'[s].keys
                               \/ (call[c].at = "keys" /\ s = objects[call[c].object].keyFetch)
         /\ sessions'[s].alive => sessions[s].alive
         /\ sessions[s].alive => sessions'[s].alive \/ (call[c].at = "destroy" /\ s = call[c].token)
         /\ \/ sessions'[s].grants = sessions[s].grants
            \/ call[c].at = "token" /\ s = call[c].token /\ sessions'[s].grants = sessions[s].grants + 1
<1>1. Len(sessions) \in Nat /\ Len(sessions') \in Nat /\ Len(sessions) <= Len(sessions')
  BY ReachedFacts
<1>2. s \in 1..Len(sessions')
  BY <1>1
<1> QED BY <1>2, Zenon DEF Reached, SessionsGo

\* A login keeps its object and its session to itself when a request is served.
LEMMA ReachedAlone ==
  ASSUME Base, Safe, NEW c \in Calls, Reached(c), NEW d \in Calls
  PROVE  Alone(d)'
<1> SUFFICES ASSUME call'[d].at \in Begins PROVE Alone(d)'
  BY DEF Alone
<1> DEFINE w == call[d]
           v == call'[d]
           o == call[d].object
<1>1. v.object = w.object /\ v.at = w.at /\ objects' = objects /\ page' = page
  BY ReachedFacts
<1>2. \A e \in Calls : call'[e].object = call[e].object
  BY ReachedFacts
<1>3. objects[o].token = 0 /\ \A e \in Calls \ {d} : call[e].object # o
  BY <1>1, Zenon DEF Safe, Alone
<1>4. ASSUME v.at \in Logins, v.answer = "ok"
      PROVE  /\ sessions'[v.token].acct = objects[o].email /\ sessions'[v.token].keys
             /\ \A p \in DOMAIN objects : objects[p].token # v.token
             /\ \A e \in Calls \ {d} : call'[e].token # v.token
             /\ page.asker # v.token
  <2>1. Len(sessions) \in Nat /\ Len(sessions') \in Nat /\ Len(sessions) <= Len(sessions')
    BY ReachedFacts
  <2>2. DOMAIN objects = 1..Len(objects) /\ page.asker \in 0..Len(sessions)
    BY DEF Base, Types
  <2>3. CASE d = c
    <3>1. /\ Len(sessions') = Len(sessions) + 1 /\ v.token = Len(sessions')
          /\ sessions'[v.token].acct = objects[o].email /\ sessions'[v.token].keys
      <4>1. Len(sessions') = Len(sessions) + 1 /\ v.token = Len(sessions')
        BY <1>1, <1>4, <2>3, ReachedFacts, Zenon
      <4>2. Len(sessions') # Len(sessions)
        BY <2>1, <4>1
      <4>3. /\ sessions'[Len(sessions')].acct = objects[call[c].object].email
            /\ sessions'[Len(sessions')].keys
        BY <4>2, ReachedFacts, Zenon
      <4> QED BY <2>3, <4>1, <4>3, Zenon
    <3>2. ASSUME NEW p \in DOMAIN objects PROVE objects[p].token # v.token
      BY <2>1, <2>2, <3>1, ObjectThere
    <3>3. ASSUME NEW e \in Calls \ {d} PROVE call'[e].token # v.token
      <4>1. call'[e].token = call[e].token /\ call[e].token \in 0..Len(sessions)
        BY <2>3, ReachedFacts, TokenThere
      <4> QED BY <2>1, <3>1, <4>1
    <3>4. page.asker # v.token
      BY <2>1, <2>2, <3>1
    <3> QED BY <3>1, <3>2, <3>3, <3>4
  <2>4. CASE d # c
    <3>1. v = w
      BY <2>4, ReachedFacts
    <3>2. /\ sessions[w.token].acct = objects[o].email /\ sessions[w.token].keys
          /\ \A p \in DOMAIN objects : objects[p].token # w.token
          /\ \A e \in Calls \ {d} : call[e].token # w.token
          /\ page.asker # w.token
      BY <1>1, <1>4, <3>1, Zenon DEF Safe, Alone
    <3>3. w.token \in 1..Len(sessions)
      BY <1>4, <3>1, TokenThere
    <3>4. call[c].object \in 1..Len(objects)
      <4>1. call[c].at # None
        BY DEF Reached
      <4> QED BY <4>1, Zenon DEF Base, Staged
    <3>5. objects[call[c].object].keyFetch # w.token
      <4>1. objects[call[c].object].keyFetch \in {0, objects[call[c].object].token}
        BY <3>4, ObjectThere
      <4> QED BY <2>2, <3>2, <3>3, <3>4, <4>1
    <3>6. sessions'[w.token].acct = sessions[w.token].acct /\ sessions'[w.token].keys
      BY <3>2, <3>3, <3>5, SessionsKept, Zenon
    <3>7. ASSUME NEW e \in Calls \ {d} PROVE call'[e].token # w.token
      <4>1. call'[e].token = call[e].token \/ call'[e].token = Len(sessions) + 1
        BY <2>1 DEF Reached, SessionsGo
      <4> QED BY <2>1, <3>2, <3>3, <4>1
    <3> QED BY <3>1, <3>2, <3>6, <3>7
  <2> QED BY <2>3, <2>4
<1> HIDE DEF w, v
<1> QED BY <1>1, <1>2, <1>3, <1>4, Zenon DEF Alone, v, w

\* The handlers past it still work on the session of their object.
LEMMA ReachedWorking ==
  ASSUME Base, Safe, NEW c \in Calls, Reached(c), NEW d \in Calls
  PROVE  Working(call[d])'
<1> SUFFICES ASSUME call'[d].at \in Later PROVE Working(call[d])'
  BY DEF Working
<1> DEFINE w == call[d]
           v == call'[d]
           o == call[d].object
           s == call[d].token
<1>1. v.object = o /\ v.at = w.at /\ v.keys = w.keys /\ objects' = objects /\ w.at \in Later
  BY ReachedFacts
<1>2. v.token = s /\ s \in 1..Len(sessions)
  <2>1. w.at \notin Logins
    BY <1>1 DEF Later, Logins, Verifies, Finishes
  <2> QED BY <1>1, <2>1, ReachedFacts, TokenThere
<1>3. /\ objects[o].token \in {0, s} /\ objects[o].uid = objects[o].email
      /\ objects[o].email = sessions[s].acct
      /\ w.at \in Finishes \/ (w.at \in Verifies /\ w.answer = "ok") => sessions[s].verified
      /\ w.at \in Finishes \ {"keys"} => w.keys = sessions[s].acct /\ objects[o].keyFetch = 0
  BY <1>1, Zenon DEF Safe, Working
<1>4. sessions'[s].acct = sessions[s].acct /\ (sessions[s].verified => sessions'[s].verified)
  BY <1>2, SessionsKept, Zenon
<1>5. v.at \in Finishes \/ (v.at \in Verifies /\ v.answer = "ok") => sessions'[s].verified
  <2>1. CASE v.at \in Finishes
    BY <1>1, <1>3, <1>4, <2>1, Zenon
  <2>2. CASE v.at \in Verifies /\ v.answer = "ok" /\ d = c
    <3>1. Answers(w, v.answer)
      BY <2>2, ReachedFacts
    <3> QED BY <1>1, <2>2, <3>1, Zenon DEF Answers
  <2>3. CASE v.at \in Verifies /\ v.answer = "ok" /\ d # c
    <3>1. v = w
      BY <2>3, ReachedFacts
    <3> QED BY <1>3, <1>4, <2>3, <3>1, Zenon
  <2> QED BY <2>1, <2>2, <2>3
<1> HIDE DEF w, v
<1> QED BY <1>1, <1>2, <1>3, <1>4, <1>5, Zenon DEF Working, v

\* A handler that wins a session by this step is the one that fetched its keys.
LEMMA ReachedWon ==
  ASSUME Base, Safe, NEW c \in Calls, Reached(c), NEW d \in Calls, Won(call[d])'
  PROVE  /\ call'[d].token = call[d].token /\ call[d].token \in 1..Len(sessions)
         /\ \/ Won(call[d])
            \/ /\ d = c /\ call[c].at = "keys" /\ call'[c].answer = "ok"
               /\ objects[call[c].object].keyFetch = call[c].token
               /\ sessions[call[c].token].keys /\ sessions[call[c].token].alive
               /\ ~sessions'[call[c].token].keys
<1> DEFINE w == call[d]
           v == call'[d]
<1>1. v.at = w.at /\ (d # c => v = w)
  BY ReachedFacts
<1>2. w.at \in Finishes /\ w.at \in Later /\ w.at \notin Logins
  BY <1>1 DEF Won, Finishes, Later, Logins
<1>3. v.token = w.token /\ w.token \in 1..Len(sessions)
  BY <1>1, <1>2, ReachedFacts, TokenThere
<1>4. CASE d # c \/ w.at # "keys"
  <2>1. w.answer = v.answer \/ w.answer = None
    BY <1>1 DEF Reached
  <2> QED BY <1>1, <1>3, <1>4, <2>1 DEF Won
<1>5. CASE d = c /\ w.at = "keys"
  <2> DEFINE k == objects[w.object].keyFetch
  <2>1. v.answer = "ok"
    BY <1>1, <1>5 DEF Won
  <2>2. Answers(w, v.answer)
    BY <1>5, <2>1, ReachedFacts
  <2>3. k # 0 /\ sessions[k].alive /\ sessions[k].keys /\ ~sessions'[k].keys
    BY <1>5, <2>1, <2>2 DEF Answers, Logins, Verifies
  <2>4. objects[w.object].token \in {0, w.token}
    BY <1>2, Zenon DEF Safe, Working
  <2>5. w.object \in 1..Len(objects)
    BY <1>2, TokenThere
  <2>6. k = w.token
    BY <2>3, <2>4, <2>5, ObjectThere
  <2> QED BY <1>3, <1>5, <2>1, <2>3, <2>6
<1> QED BY <1>4, <1>5

\* Still one handler has the keys of a session, and one grant comes of it.
LEMMA ReachedWinning ==
  ASSUME Base, Safe, NEW c \in Calls, Reached(c), NEW d \in Calls
  PROVE  Winning(d)'
<1> SUFFICES ASSUME Won(call[d])' PROVE Winning(d)'
  BY DEF Winning
<1> DEFINE w == call[d]
           v == call'[d]
           s == call[d].token
<1>1. v.token = s /\ s \in 1..Len(sessions) /\ v.at = w.at
  BY ReachedWon, ReachedFacts
<1>2. Won(w) => /\ ~sessions[s].keys
                /\ \A e \in Calls \ {d} : Won(call[e]) => call[e].token # s
                /\ Ungranted(w) => sessions[s].grants = 0
                /\ ~Gone(w) => sessions[s].alive
                /\ Gone(w) /\ faults = 0 => ~sessions[s].alive
  BY Zenon DEF Safe, Winning
<1>3. sessions[s].keys => sessions[s].grants = 0 /\ sessions[s].alive
  <2>1. s \in DOMAIN sessions
    BY <1>1 DEF Base, Types
  <2> QED BY <2>1, Zenon DEF Safe, Granting
<1>4. ~sessions'[s].keys
  BY <1>1, <1>2, ReachedWon, SessionsKept, Zenon
<1>5. ASSUME NEW e \in Calls \ {d}, Won(call[e])' PROVE call'[e].token # s
  <2>1. call'[e].token = call[e].token /\ (Won(call[e]) \/ (e = c /\ sessions[call[e].token].keys))
    BY <1>5, ReachedWon, Zenon
  <2>2. Won(w) \/ (d = c /\ sessions[s].keys)
    BY ReachedWon, Zenon
  <2>3. Won(call[e]) => ~sessions[call[e].token].keys
    BY Zenon DEF Safe, Winning
  <2> QED BY <1>2, <2>1, <2>2, <2>3
<1>6. Ungranted(v) => sessions'[s].grants = 0
  <2> SUFFICES ASSUME Ungranted(v) PROVE sessions'[s].grants = 0
    OBVIOUS
  <2>1. sessions[s].grants = 0
    <3>1. CASE Won(w)
      <4>1. Ungranted(w)
        <5>1. w.answer = v.answer \/ w.answer = None
          BY ReachedFacts DEF Reached
        <5> QED BY <1>1, <5>1 DEF Ungranted
      <4> QED BY <1>2, <3>1, <4>1
    <3>2. CASE sessions[s].keys
      BY <1>3, <3>2
    <3> QED BY <3>1, <3>2, ReachedWon, Zenon
  <2>2. ~(call[c].at = "token" /\ s = call[c].token)
    <3> SUFFICES ASSUME call[c].at = "token", s = call[c].token PROVE FALSE
      OBVIOUS
    <3>1. call[c].answer = None /\ Won(call[c])
      <4>1. call[c].answer = None
        BY DEF Reached
      <4> QED BY <4>1, WonAt DEF Won
    <3>2. CASE d = c
      <4>1. v.at = "token" /\ v.answer = None
        BY <1>1, <3>2 DEF Ungranted
      <4>2. v.answer # None
        BY <3>2, ReachedFacts DEF None
      <4> QED BY <4>1, <4>2
    <3>3. CASE d # c
      <4>1. Won(w) \/ sessions[s].keys
        BY ReachedWon, Zenon
      <4>2. ~sessions[s].keys
        BY <3>1, Zenon DEF Safe, Winning
      <4> QED BY <1>2, <3>1, <3>3, <4>1, <4>2
    <3> QED BY <3>2, <3>3
  <2> QED BY <1>1, <2>1, <2>2, SessionsKept, Zenon
<1>7. ~Gone(v) => sessions'[s].alive
  <2> SUFFICES ASSUME ~Gone(v) PROVE sessions'[s].alive
    OBVIOUS
  <2>1. sessions[s].alive
    <3>1. CASE Won(w)
      <4>1. ~Gone(w)
        <5>1. w.answer = v.answer \/ (w.answer = None /\ v.answer # None)
          BY ReachedFacts DEF Reached, None
        <5> QED BY <1>1, <5>1 DEF Gone
      <4> QED BY <1>2, <3>1, <4>1
    <3>2. CASE sessions[s].keys
      BY <1>3, <3>2
    <3> QED BY <3>1, <3>2, ReachedWon, Zenon
  <2>2. ~(call[c].at = "destroy" /\ s = call[c].token)
    <3> SUFFICES ASSUME call[c].at = "destroy", s = call[c].token PROVE FALSE
      OBVIOUS
    <3>1. Won(call[c])
      BY DEF Won
    <3>2. CASE d = c
      <4>1. v.at = "destroy" /\ v.answer = None
        BY <1>1, <2>1, <3>2 DEF Gone
      <4>2. v.answer # None
        BY <3>2, ReachedFacts DEF None
      <4> QED BY <4>1, <4>2
    <3>3. CASE d # c
      <4>1. Won(w) \/ sessions[s].keys
        BY ReachedWon, Zenon
      <4>2. ~sessions[s].keys
        BY <3>1, Zenon DEF Safe, Winning
      <4> QED BY <1>2, <3>1, <3>3, <4>1, <4>2
    <3> QED BY <3>2, <3>3
  <2> QED BY <1>1, <2>1, <2>2, SessionsKept, Zenon
<1>8. Gone(v) /\ faults' = 0 => ~sessions'[s].alive
  <2> SUFFICES ASSUME Gone(v), faults' = 0 PROVE ~sessions'[s].alive
    OBVIOUS
  <2>1. faults = 0 /\ call'[c].answer # "lost" /\ (d # c => v = w)
    BY ReachedFacts
  <2>2. CASE Gone(w)
    <3>1. Won(w)
      BY <2>2 DEF Gone, Won
    <3>2. ~sessions[s].alive
      BY <1>2, <2>1, <2>2, <3>1
    <3> QED BY <1>1, <3>2, SessionsKept, Zenon
  <2>3. CASE ~Gone(w)
    <3>1. d = c /\ w.at = "destroy"
      <4>1. d = c
        BY <2>1, <2>3
      <4> QED BY <1>1, <2>3, <4>1 DEF Gone
    <3>2. Answers(w, v.answer)
      BY <2>1, <3>1, ReachedFacts
    <3> QED BY <3>1, <3>2, Zenon DEF Answers
  <2> QED BY <2>2, <2>3
<1> HIDE DEF w, v
<1> QED BY <1>1, <1>4, <1>5, <1>6, <1>7, <1>8, Zenon DEF Winning, v

\* Safe is kept by a request that is served or lost.
LEMMA ReachedSafe ==
  ASSUME Base, Safe, NEW c \in Calls, Reached(c)
  PROVE  Safe'
<1>1. ASSUME NEW s \in DOMAIN sessions' PROVE Granting(sessions[s])'
  <2>1. Len(sessions) \in Nat /\ Len(sessions') \in Nat /\ Len(sessions) <= Len(sessions') /\ s \in 1..Len(sessions')
    <3>1. sessions' \in Seq(Session)
      BY DEF Reached, SessionsGo
    <3>2. Len(sessions) \in Nat /\ Len(sessions') \in Nat /\ Len(sessions) <= Len(sessions')
      BY ReachedFacts
    <3> QED BY <3>1, <3>2
  <2>2. CASE s \in 1..Len(sessions)
    <3>1. s \in DOMAIN sessions /\ sessions[s] \in Session
      BY <2>2 DEF Base, Types
    <3>2. sessions[s].grants <= 1 /\ (sessions[s].keys => sessions[s].grants = 0 /\ sessions[s].alive)
      BY <3>1, Zenon DEF Safe, Granting
    <3>3. /\ sessions'[s].keys => sessions[s].keys
          /\ sessions[s].alive => sessions'[s].alive \/ (call[c].at = "destroy" /\ s = call[c].token)
          /\ \/ sessions'[s].grants = sessions[s].grants
             \/ call[c].at = "token" /\ s = call[c].token /\ sessions'[s].grants = sessions[s].grants + 1
      BY <2>2, SessionsKept, Zenon
    <3>4. call[c].at \in {"token", "destroy"} => ~sessions[call[c].token].keys
      <4>1. call[c].answer = None
        BY DEF Reached
      <4>2. call[c].at \in {"token", "destroy"} => Won(call[c])
        BY <4>1 DEF Won
      <4> QED BY <4>2, Zenon DEF Safe, Winning
    <3>5. call[c].at = "token" => sessions[call[c].token].grants = 0
      <4>1. call[c].answer = None
        BY DEF Reached
      <4>2. call[c].at = "token" => Won(call[c]) /\ Ungranted(call[c])
        BY <4>1 DEF Won, Ungranted
      <4> QED BY <4>2, Zenon DEF Safe, Winning
    <3>6. sessions'[s].grants <= 1
      BY <3>2, <3>3, <3>5
    <3>7. sessions'[s].keys => sessions'[s].grants = 0 /\ sessions'[s].alive
      <4> SUFFICES ASSUME sessions'[s].keys PROVE sessions'[s].grants = 0 /\ sessions'[s].alive
        OBVIOUS
      <4>1. sessions[s].keys /\ sessions[s].grants = 0 /\ sessions[s].alive
        BY <3>2, <3>3, Zenon
      <4>2. ~(call[c].at = "destroy" /\ s = call[c].token) /\ ~(call[c].at = "token" /\ s = call[c].token)
        BY <3>4, <4>1
      <4> QED BY <3>3, <4>1, <4>2, Zenon
    <3> QED BY <3>6, <3>7 DEF Granting
  <2>3. CASE s \notin 1..Len(sessions)
    <3>1. s = Len(sessions') /\ Len(sessions') # Len(sessions)
      <4>1. Len(sessions') = Len(sessions) \/ Len(sessions') = Len(sessions) + 1
        BY ReachedFacts
      <4> QED BY <2>1, <2>3, <4>1
    <3>2. sessions'[s].grants = 0 /\ sessions'[s].alive
      BY <3>1, ReachedFacts, Zenon
    <3>3. sessions'[s].grants <= 1
      BY <3>2
    <3> QED BY <3>2, <3>3, Zenon DEF Granting
  <2> QED BY <2>2, <2>3
<1>2. Faulty'
  <2>1. /\ UNCHANGED open /\ (faults' = 0 => faults = 0 /\ call'[c].answer # "lost")
        /\ \A d \in Calls \ {c} : call'[d] = call[d]
    BY ReachedFacts
  <2>2. Faulty
    BY DEF Safe
  <2> QED BY <2>1, <2>2, Zenon DEF Faulty
<1>3. Saving'
  <2>1. saved' = saved /\ (faults' = 0 => faults = 0)
    BY ReachedFacts
  <2>2. Saving
    BY DEF Safe
  <2>3. ASSUME saved # NoAccount
        PROVE  saved.from \in 1..Len(sessions') /\ (faults' = 0 => ~sessions'[saved.from].alive)
    <3>1. saved.from \in 1..Len(sessions) /\ (faults = 0 => ~sessions[saved.from].alive)
      BY <2>2, <2>3 DEF Saving
    <3> QED BY <2>1, <3>1, SessionsKept, Zenon
  <2> QED BY <2>1, <2>2, <2>3, Zenon DEF Saving
<1> QED BY <1>1, <1>2, <1>3, ReachedAlone, ReachedWorking, ReachedWinning, Zenon DEF Safe

\* What a login that has its object to itself is sure of.
LEMMA AloneFacts ==
  ASSUME Base, Safe, NEW d \in Calls, call[d].at \in Begins
  PROVE  /\ objects[call[d].object].token = 0 /\ call[d].object \in 1..Len(objects)
         /\ \A e \in Calls \ {d} : call[e].object # call[d].object
         /\ call[d].at \in Logins /\ call[d].answer = "ok" =>
              /\ call[d].token \in 1..Len(sessions)
              /\ \A o \in 1..Len(objects) : objects[o].token # call[d].token
              /\ \A e \in Calls \ {d} : call[e].token # call[d].token
              /\ page.asker # call[d].token
<1>1. Alone(d)
  BY DEF Safe
<1>2. DOMAIN objects = 1..Len(objects)
  BY DEF Base, Types
<1>3. /\ call[d].object \in 1..Len(objects)
      /\ call[d].at \in Logins /\ call[d].answer = "ok" => call[d].token \in 1..Len(sessions)
  BY TokenThere
<1> QED BY <1>1, <1>2, <1>3, Zenon DEF Alone

\* Handler c wins nothing by this step, ...
WinsNothing(c) ==
  Won(call[c])' => /\ Won(call[c]) /\ call'[c].token = call[c].token
                   /\ (Ungranted(call[c])' => Ungranted(call[c])) /\ (Gone(call[c])' <=> Gone(call[c]))

\* ... leaves the other logins alone, ...
Spares(c) ==
  \A d \in Calls \ {c} : call[d].at \in Begins =>
    /\ objects'[call[d].object].token = 0 /\ call'[c].object # call[d].object
    /\ call[d].at \in Logins /\ call[d].answer = "ok" =>
         /\ \A o \in DOMAIN objects' : objects'[o].token # call[d].token
         /\ call'[c].token # call[d].token /\ page'.asker # call[d].token

\* ... and takes from the objects of the others no more than their tokens.
Leaves(c) ==
  /\ \A o \in DOMAIN objects : objects'[o].email = objects[o].email
  /\ \A d \in Calls \ {c} : call[d].at \in Later =>
       /\ objects'[call[d].object].token \in {0, objects[call[d].object].token}
       /\ objects'[call[d].object].uid = objects[call[d].object].uid
       /\ objects'[call[d].object].keyFetch \in {0, objects[call[d].object].keyFetch}

\* Such a step keeps Safe, when it keeps the handler's own part.
LEMMA SafeTurns ==
  ASSUME Base, Safe, NEW c \in Calls, Turns(c), Alone(c)', Working(call[c])', call'[c].answer # "lost",
         Saving', WinsNothing(c), Spares(c), Leaves(c)
  PROVE  Safe'
<1>1. /\ sessions' = sessions /\ open' = open /\ faults' = faults
      /\ \A d \in Calls \ {c} : call'[d] = call[d]
  BY DEF Turns
<1>2. ASSUME NEW d \in Calls \ {c} PROVE Alone(d)'
  <2> SUFFICES ASSUME call[d].at \in Begins PROVE Alone(d)'
    BY <1>1 DEF Alone
  <2>1. Alone(d)
    BY DEF Safe
  <2>2. call[d].object \in 1..Len(objects) /\ objects \in Seq(Object)
    BY TokenThere DEF Base, Types
  <2>3. objects'[call[d].object].email = objects[call[d].object].email
    BY <2>2 DEF Leaves
  <2>4. ASSUME NEW e \in Calls \ {d}
        PROVE  /\ call'[e].object # call[d].object
               /\ call[d].at \in Logins /\ call[d].answer = "ok" => call'[e].token # call[d].token
    <3>1. CASE e = c
      BY <3>1, Zenon DEF Spares
    <3>2. CASE e # c
      <4>1. call'[e] = call[e]
        BY <1>1, <3>2
      <4> QED BY <2>1, <4>1, Zenon DEF Alone
    <3> QED BY <3>1, <3>2
  <2>5. call'[d] = call[d]
    BY <1>1
  <2>6. /\ objects'[call[d].object].token = 0
        /\ call[d].at \in Logins /\ call[d].answer = "ok" =>
             /\ sessions[call[d].token].acct = objects[call[d].object].email /\ sessions[call[d].token].keys
             /\ \A o \in DOMAIN objects' : objects'[o].token # call[d].token
             /\ page'.asker # call[d].token
    BY <2>1, Zenon DEF Alone, Spares
  <2> QED BY <1>1, <2>3, <2>4, <2>5, <2>6, Zenon DEF Alone
<1>3. ASSUME NEW d \in Calls \ {c} PROVE Working(call[d])'
  <2> SUFFICES ASSUME call[d].at \in Later PROVE Working(call[d])'
    BY <1>1 DEF Working
  <2> DEFINE o == call[d].object
             s == call[d].token
  <2>1. Working(call[d])
    BY DEF Safe
  <2>2. o \in 1..Len(objects) /\ objects \in Seq(Object)
    BY TokenThere DEF Base, Types
  <2>3. objects'[o].email = objects[o].email
    BY <2>2 DEF Leaves
  <2>4. objects[o].token \in {0, s} /\ (call[d].at \in Finishes \ {"keys"} => objects[o].keyFetch = 0)
    BY <2>1, Zenon DEF Working
  <2>5. objects'[o].token \in {0, s} /\ (call[d].at \in Finishes \ {"keys"} => objects'[o].keyFetch = 0)
    BY <2>4 DEF Leaves
  <2>6. call'[d] = call[d] /\ objects'[o].uid = objects[o].uid
    BY <1>1 DEF Leaves
  <2>7. /\ objects[o].uid = objects[o].email /\ objects[o].email = sessions[s].acct
        /\ call[d].at \in Finishes \/ (call[d].at \in Verifies /\ call[d].answer = "ok") => sessions[s].verified
        /\ call[d].at \in Finishes \ {"keys"} => call[d].keys = sessions[s].acct
    BY <2>1, Zenon DEF Working
  <2>8. objects'[o].uid = objects'[o].email /\ objects'[o].email = sessions'[s].acct
    BY <1>1, <2>3, <2>6, <2>7
  <2> QED BY <1>1, <2>5, <2>6, <2>7, <2>8, Zenon DEF Working
<1>4. ASSUME NEW d \in Calls PROVE Winning(d)'
  <2> SUFFICES ASSUME Won(call[d])' PROVE Winning(d)'
    BY DEF Winning
  <2>1. ASSUME NEW e \in Calls, Won(call[e])' PROVE Won(call[e]) /\ call'[e].token = call[e].token
    <3>1. CASE e = c
      BY <2>1, <3>1, Zenon DEF WinsNothing
    <3>2. CASE e # c
      BY <1>1, <2>1, <3>2, Zenon DEF Won
    <3> QED BY <3>1, <3>2
  <2>2. Winning(d)
    BY DEF Safe
  <2>3. (Ungranted(call[d])' => Ungranted(call[d])) /\ (Gone(call[d])' <=> Gone(call[d]))
    <3>1. CASE d = c
      BY <3>1, Zenon DEF WinsNothing
    <3>2. CASE d # c
      BY <1>1, <3>2, Zenon DEF Ungranted, Gone
    <3> QED BY <3>1, <3>2
  <2> DEFINE s == call[d].token
  <2>4. Won(call[d]) /\ call'[d].token = s
    BY <2>1
  <2>5. ASSUME NEW e \in Calls \ {d}, Won(call[e])' PROVE call'[e].token # s
    BY <2>1, <2>2, <2>4, <2>5, Zenon DEF Winning
  <2>6. /\ ~sessions'[s].keys /\ (Ungranted(call[d])' => sessions'[s].grants = 0)
        /\ (~Gone(call[d])' => sessions'[s].alive)
        /\ (Gone(call[d])' /\ faults' = 0 => ~sessions'[s].alive)
    BY <1>1, <2>2, <2>3, <2>4, Zenon DEF Winning
  <2> HIDE DEF s
  <2> QED BY <2>4, <2>5, <2>6, Zenon DEF Winning
<1>5. Faulty'
  BY <1>1, Zenon DEF Safe, Faulty
<1>6. ASSUME NEW s \in DOMAIN sessions' PROVE Granting(sessions[s])'
  BY <1>1, Zenon DEF Safe, Granting
<1> QED BY <1>2, <1>3, <1>4, <1>5, <1>6, Zenon DEF Safe

\* What is saved stays of one account, and its session dead.
LEMMA SavingSame ==
  ASSUME Safe, UNCHANGED <<sessions, saved, faults>>
  PROVE  Saving'
BY Zenon DEF Safe, Saving

\* An idle handler has nothing to keep.
LEMMA IdleSafe ==
  ASSUME NEW c \in Calls, call'[c] = Idle
  PROVE  /\ Alone(c)' /\ Working(call[c])' /\ ~Won(call[c])' /\ WinsNothing(c) /\ call'[c].answer # "lost"
         /\ call'[c].object = 0 /\ call'[c].token = 0
BY IdleCall DEF Alone, Working, WinsNothing, Won, Begins, Later, Logins, Verifies, Finishes, None

\* A step that leaves the objects alone, too.
LEMMA SparesSame ==
  ASSUME Base, Safe, NEW c \in Calls, UNCHANGED objects,
         call'[c].object \in {0, call[c].object} \/ objects[call'[c].object].token # 0,
         call'[c].token \in {0, call[c].token} \/ \E o \in 1..Len(objects) : call'[c].token = objects[o].token,
         page'.asker \in {0, page.asker}
  PROVE  Spares(c) /\ Leaves(c)
<1>1. ASSUME NEW d \in Calls \ {c}, call[d].at \in Begins
      PROVE  /\ objects'[call[d].object].token = 0 /\ call'[c].object # call[d].object
             /\ call[d].at \in Logins /\ call[d].answer = "ok" =>
                  /\ \A o \in DOMAIN objects' : objects'[o].token # call[d].token
                  /\ call'[c].token # call[d].token /\ page'.asker # call[d].token
  <2>1. /\ objects[call[d].object].token = 0 /\ call[d].object # 0
        /\ call[c].object # call[d].object
        /\ call[d].at \in Logins /\ call[d].answer = "ok" =>
             /\ call[d].token # 0 /\ call[c].token # call[d].token /\ page.asker # call[d].token
             /\ \A o \in 1..Len(objects) : objects[o].token # call[d].token
    <3>1. /\ objects[call[d].object].token = 0 /\ call[d].object \in 1..Len(objects)
          /\ call[c].object # call[d].object
          /\ call[d].at \in Logins /\ call[d].answer = "ok" =>
               /\ call[d].token \in 1..Len(sessions)
               /\ call[c].token # call[d].token /\ page.asker # call[d].token
               /\ \A o \in 1..Len(objects) : objects[o].token # call[d].token
      BY <1>1, AloneFacts, Zenon
    <3> QED BY <3>1
  <2>2. DOMAIN objects = 1..Len(objects)
    BY DEF Base, Types
  <2> QED BY <2>1, <2>2
<1> QED BY <1>1 DEF Spares, Leaves

\* A turn that leaves the objects alone keeps Safe when it keeps its own part.
LEMMA SafeSame ==
  ASSUME Base, Safe, NEW c \in Calls, Turns(c), UNCHANGED <<objects, saved>>,
         Alone(c)', Working(call[c])', call'[c].answer # "lost", WinsNothing(c),
         call'[c].object \in {0, call[c].object} \/ objects[call'[c].object].token # 0,
         call'[c].token \in {0, call[c].token} \/ \E o \in 1..Len(objects) : call'[c].token = objects[o].token,
         page'.asker \in {0, page.asker}
  PROVE  Safe'
<1>1. Saving'
  BY SavingSame DEF Turns
<1>2. Spares(c) /\ Leaves(c)
  BY SparesSame
<1> QED BY <1>1, <1>2, SafeTurns

\* Safe is kept by a code that is sent, ...
LEMMA SubmittedSafe ==
  ASSUME Base, Safe, NEW c \in Calls, Submitted(c)
  PROVE  Safe'
<1>1. Turns(c) /\ UNCHANGED <<objects, current, saved, page, overlap>> /\ page'.asker = page.asker
  BY DEF Submitted
<1>2. CASE call' = call
  <2>1. sessions' = sessions /\ open' = open /\ faults' = faults /\ page' = page
    BY <1>1 DEF Turns, Submitted
  <2>2. \A d \in Calls : Alone(d)' /\ Working(call[d])' /\ Winning(d)'
    BY <1>1, <1>2, <2>1 DEF Safe, Alone, Working, Winning, Won, Ungranted, Gone
  <2>3. (\A s \in DOMAIN sessions' : Granting(sessions[s])') /\ Faulty'
    BY <1>1, <1>2, <2>1 DEF Safe, Granting, Faulty
  <2> QED BY <1>1, <2>1, <2>2, <2>3, SavingSame, Zenon DEF Safe
<1>3. CASE /\ current # 0 /\ objects[current].token # 0
           /\ call'[c].object = current /\ call'[c].at \in Verifies \cup {"resend"}
           /\ call'[c].answer = None /\ call'[c].token = objects[current].token
  <2> DEFINE v == call'[c]
  <2>1. current \in 1..Len(objects)
    BY <1>3 DEF Base, Types
  <2>2. /\ v.at \notin Begins /\ v.at \notin Finishes /\ v.answer # "lost" /\ v.answer # "ok"
    BY <1>3 DEF Begins, Logins, Verifies, Finishes, None
  <2>3. Alone(c)' /\ WinsNothing(c)
    BY <2>2 DEF Alone, WinsNothing, Won, Finishes
  <2>4. Working(call[c])'
    <3>1. objects[current].uid = objects[current].email
          /\ objects[current].email = sessions[objects[current].token].acct
      BY <1>3, <2>1, ObjectThere
    <3>2. sessions' = sessions /\ objects' = objects
      BY <1>1 DEF Turns
    <3>3. /\ objects'[v.object].token \in {0, v.token} /\ objects'[v.object].uid = objects'[v.object].email
          /\ objects'[v.object].email = sessions'[v.token].acct
      BY <1>3, <3>1, <3>2
    <3> HIDE DEF v
    <3> QED BY <2>2, <3>3, Zenon DEF Working, v
  <2> QED BY <1>1, <1>3, <2>1, <2>2, <2>3, <2>4, SafeSame
<1> QED BY <1>2, <1>3 DEF Submitted

\* ... by an unblock code that is sent for, ...
LEMMA SentCodeSafe ==
  ASSUME Base, Safe, NEW c \in Calls, SentCode(c)
  PROVE  Safe'
<1>1. Turns(c) /\ Same /\ sessions' = sessions /\ objects' = objects
  BY DEF SentCode, Turns, Same
<1>2. CASE /\ call[c].answer = "blocked" /\ Stays(c, "send unblock code")
           /\ call'[c].token = call[c].token /\ page' = page
  <2> DEFINE v == call'[c]
  <2>1. call[c].at = "login"
    <3>1. Staged(call[c])
      BY DEF Base
    <3> QED BY <1>2, <3>1 DEF Staged
  <2>2. v.at = "send unblock code" /\ v.answer = None /\ v.object = call[c].object
    BY <1>2 DEF Stays
  <2>3. v.answer # "lost" /\ v.at \notin Logins /\ v.at \notin Later
    BY <2>2 DEF Logins, Later, Verifies, Finishes, None
  <2>4. Working(call[c])' /\ WinsNothing(c)
    BY <2>2, <2>3 DEF Working, WinsNothing, Won
  <2>5. Alone(c)'
    <3>1. /\ objects[call[c].object].token = 0
          /\ \A e \in Calls \ {c} : call[e].object # call[c].object
      BY <2>1, AloneFacts DEF Begins, Logins
    <3>2. \A e \in Calls \ {c} : call'[e].object # v.object
      BY <1>1, <2>2, <3>1, Zenon DEF Turns
    <3> QED BY <1>1, <2>2, <2>3, <3>1, <3>2, Zenon DEF Alone
  <2> QED BY <1>1, <1>2, <2>2, <2>3, <2>4, <2>5, SafeSame DEF Same
<1>3. CASE call'[c] = Idle /\ page'.asker = 0
  BY <1>1, <1>3, IdleSafe, SafeSame DEF Same
<1> QED BY <1>2, <1>3 DEF SentCode

\* ... by a code that was accepted, ...
LEMMA HasVerifiedSafe ==
  ASSUME Base, Safe, NEW c \in Calls, HasVerified(c)
  PROVE  Safe'
<1> DEFINE o == call[c].object
           v == call'[c]
<1>1. /\ Turns(c) /\ Same /\ sessions' = sessions /\ objects' = objects /\ page' = page
      /\ call[c].at \in Verifies /\ call[c].answer = "ok"
  BY DEF HasVerified, Turns, Same
<1>2. CASE /\ objects[o].token # 0 /\ objects[o].keyFetch # 0 /\ Stays(c, "keys")
           /\ v.token = objects[o].token
  <2>1. v.at = "keys" /\ v.answer = None /\ v.object = o
    BY <1>2 DEF Stays
  <2>2. /\ objects[o].token \in {0, call[c].token} /\ objects[o].uid = objects[o].email
        /\ objects[o].email = sessions[call[c].token].acct /\ sessions[call[c].token].verified
    BY <1>1, Zenon DEF Safe, Working, Later
  <2>3. v.token = call[c].token
    BY <1>2, <2>2
  <2>4. v.answer # "lost" /\ v.at \notin Begins /\ v.answer # "ok" /\ v.at \in Finishes
    BY <2>1 DEF Begins, Logins, Finishes, None
  <2>5. Alone(c)' /\ WinsNothing(c)
    BY <2>1, <2>4 DEF Alone, WinsNothing, Won
  <2>6. Working(call[c])'
    <3> HIDE DEF v
    <3> QED BY <1>1, <2>1, <2>2, <2>3, Zenon DEF Working, v
  <2>7. page'.asker = page.asker
    BY <1>1
  <2> QED BY <1>1, <2>1, <2>3, <2>4, <2>5, <2>6, <2>7, SafeSame DEF Same
<1>3. CASE v = Idle
  BY <1>1, <1>3, IdleSafe, SafeSame DEF Same
<1> QED BY <1>2, <1>3 DEF HasVerified

\* ... by a handler that ends, ...
LEMMA EndedSafe ==
  ASSUME Base, Safe, NEW c \in Calls, Ended(c)
  PROVE  Safe'
<1>1. Turns(c) /\ UNCHANGED <<objects, saved, page>> /\ call'[c] = Idle
  BY DEF Ended, Same
<1> QED BY <1>1, IdleSafe, SafeSame

\* ... and by one that goes on.
LEMMA WentOnSafe ==
  ASSUME Base, Safe, NEW c \in Calls, WentOn(c)
  PROVE  Safe'
<1> DEFINE w == call[c]
           v == call'[c]
<1>1. /\ Turns(c) /\ UNCHANGED <<objects, saved, page>> /\ sessions' = sessions
      /\ v.token = w.token /\ v.keys = w.keys /\ v.object = w.object /\ v.answer = None
      /\ w.at \in Finishes \ {"keys"} /\ v.at \in Finishes \ {"keys"}
  BY DEF WentOn, Same, Stays, Turns, Finishes
<1>2. v.at \notin Begins /\ v.answer # "lost" /\ v.answer # "ok" /\ w.at \in Later
  BY <1>1 DEF Begins, Logins, Finishes, Later, None
<1>3. Alone(c)'
  BY <1>2 DEF Alone
<1>4. Working(call[c])'
  <2>1. Working(w)
    BY DEF Safe
  <2> HIDE DEF w, v
  <2>2. /\ objects[w.object].token \in {0, w.token} /\ objects[w.object].uid = objects[w.object].email
        /\ objects[w.object].email = sessions[w.token].acct /\ sessions[w.token].verified
        /\ w.keys = sessions[w.token].acct /\ objects[w.object].keyFetch = 0
    BY <1>1, <1>2, <2>1, Zenon DEF Working
  <2> QED BY <1>1, <2>2, Zenon DEF Working, v
<1>5. WinsNothing(c)
  BY <1>1 DEF WinsNothing, WentOn, Stays, Won, Ungranted, Gone
<1> QED BY <1>1, <1>2, <1>3, <1>4, <1>5, SafeSame

\* A sign-in that is begun has its new object to itself.
LEMMA ConnectedSafe ==
  ASSUME Base, Safe, NEW c \in Calls, Connected(c)
  PROVE  Safe'
<1> DEFINE n == Len(objects) + 1
           v == call'[c]
<1>1. /\ Turns(c) /\ UNCHANGED <<saved, page, sessions, faults>>
      /\ v.object = n /\ v.at \in Logins /\ v.answer = None /\ v.token = 0
      /\ Len(objects') = n /\ objects' \in Seq(Object)
      /\ \A o \in 1..Len(objects) : objects'[o] = objects[o]
      /\ objects'[n].token = 0
      /\ \A d \in Calls \ {c} : call'[d] = call[d]
  BY DEF Connected, Turns
<1>2. Len(objects) \in Nat /\ DOMAIN objects' = 1..n /\ DOMAIN objects = 1..Len(objects)
  BY <1>1 DEF Base, Types
<1>3. /\ v.at \notin Later /\ v.at # None /\ v.answer # "ok" /\ v.answer # "lost"
      /\ v.at \notin Finishes
  BY <1>1 DEF Logins, Later, Verifies, Finishes, None
<1>4. Alone(c)'
  <2>1. ASSUME NEW e \in Calls \ {c} PROVE call'[e].object # v.object
    <3>1. call'[e] = call[e] /\ call[e].object \in 0..Len(objects)
      BY <1>1, TokenThere
    <3> QED BY <1>1, <1>2, <3>1
  <2> QED BY <1>1, <1>3, <2>1, Zenon DEF Alone
<1>5. Working(call[c])' /\ WinsNothing(c)
  BY <1>3 DEF Working, WinsNothing, Won, Finishes
<1>6. Spares(c)
  <2> SUFFICES ASSUME NEW d \in Calls \ {c}, call[d].at \in Begins
               PROVE  /\ objects'[call[d].object].token = 0 /\ call'[c].object # call[d].object
                      /\ call[d].at \in Logins /\ call[d].answer = "ok" =>
                           /\ \A o \in DOMAIN objects' : objects'[o].token # call[d].token
                           /\ call'[c].token # call[d].token /\ page'.asker # call[d].token
    BY Zenon DEF Spares
  <2>1. objects[call[d].object].token = 0 /\ call[d].object \in 1..Len(objects)
    BY AloneFacts
  <2>2. objects'[call[d].object].token = 0 /\ call'[c].object # call[d].object
    BY <1>1, <1>2, <2>1
  <2>3. ASSUME call[d].at \in Logins, call[d].answer = "ok"
        PROVE  /\ \A o \in DOMAIN objects' : objects'[o].token # call[d].token
               /\ call'[c].token # call[d].token /\ page'.asker # call[d].token
    <3>1. /\ call[d].token \in 1..Len(sessions) /\ page.asker # call[d].token
          /\ \A o \in 1..Len(objects) : objects[o].token # call[d].token
      BY <2>3, AloneFacts, Zenon
    <3>2. call[d].token # 0
      BY <3>1
    <3>3. ASSUME NEW o \in 1..n PROVE objects'[o].token # call[d].token
      <4>1. o = n \/ o \in 1..Len(objects)
        BY <1>2
      <4> QED BY <1>1, <3>1, <3>2, <4>1
    <3> QED BY <1>1, <1>2, <3>1, <3>2, <3>3
  <2> QED BY <2>2, <2>3, Zenon
<1>7. Leaves(c)
  <2>1. ASSUME NEW d \in Calls \ {c}, call[d].at \in Later PROVE call[d].object \in 1..Len(objects)
    BY <2>1, TokenThere
  <2> QED BY <1>1, <1>2, <2>1 DEF Leaves
<1>8. Saving'
  BY <1>1, SavingSame
<1> QED BY <1>1, <1>3, <1>4, <1>5, <1>6, <1>7, <1>8, SafeTurns

\* A login that succeeded gives its object a session nobody else has.
LEMMA HasLoggedInSafe ==
  ASSUME Base, Safe, NEW c \in Calls, HasLoggedIn(c)
  PROVE  Safe'
<1> DEFINE o == call[c].object
           s == call[c].token
           v == call'[c]
<1>1. /\ Turns(c) /\ UNCHANGED <<sessions, saved, faults>>
      /\ call[c].at \in Logins /\ call[c].answer = "ok" /\ call[c].at \in Begins
      /\ objects' \in Seq(Object) /\ Len(objects') = Len(objects)
      /\ \A p \in 1..Len(objects) : p # o => objects'[p] = objects[p]
      /\ objects'[o].email = objects[o].email /\ objects'[o].uid = sessions[s].acct
      /\ objects'[o].token = s /\ objects'[o].keyFetch = s
      /\ v = Idle \/ (v.at = "keys" /\ v.answer = None /\ v.object = o /\ v.token = s /\ sessions[s].verified)
      /\ page'.asker \in {page.asker, s}
  BY DEF HasLoggedIn, Turns, Stays, Begins
<1>2. DOMAIN objects' = 1..Len(objects) /\ DOMAIN objects = 1..Len(objects)
  BY <1>1 DEF Base, Types
<1>3. /\ o \in 1..Len(objects) /\ s \in 1..Len(sessions)
      /\ \A e \in Calls \ {c} : call[e].object # o
  BY <1>1, AloneFacts, Zenon
<1>4. sessions[s].acct = objects[o].email
  BY <1>1, Zenon DEF Safe, Alone
<1>5. Alone(c)' /\ Working(call[c])' /\ v.answer # "lost" /\ WinsNothing(c)
  <2>1. CASE v = Idle
    BY <2>1, IdleSafe
  <2>2. CASE v.at = "keys" /\ v.answer = None /\ v.object = o /\ v.token = s /\ sessions[s].verified
    <3>1. v.at \notin Begins /\ v.answer # "lost" /\ v.answer # "ok"
      BY <2>2 DEF Begins, Logins, None
    <3>2. Alone(c)' /\ WinsNothing(c)
      BY <2>2, <3>1 DEF Alone, WinsNothing, Won
    <3>3. Working(call[c])'
      <4>1. objects'[v.object].token \in {0, v.token} /\ objects'[v.object].uid = objects'[v.object].email
            /\ objects'[v.object].email = sessions'[v.token].acct /\ sessions'[v.token].verified
        BY <1>1, <1>4, <2>2
      <4>2. v.at = "keys"
        BY <2>2
      <4> HIDE DEF v
      <4> QED BY <4>1, <4>2, Zenon DEF Working, v
    <3> QED BY <3>1, <3>2, <3>3
  <2> QED BY <1>1, <2>1, <2>2
<1>6. Spares(c)
  <2> SUFFICES ASSUME NEW d \in Calls \ {c}, call[d].at \in Begins
               PROVE  /\ objects'[call[d].object].token = 0 /\ call'[c].object # call[d].object
                      /\ call[d].at \in Logins /\ call[d].answer = "ok" =>
                           /\ \A p \in DOMAIN objects' : objects'[p].token # call[d].token
                           /\ call'[c].token # call[d].token /\ page'.asker # call[d].token
    BY Zenon DEF Spares
  <2>1. /\ objects[call[d].object].token = 0 /\ call[d].object \in 1..Len(objects) /\ o # call[d].object
    BY AloneFacts, Zenon
  <2>2. v.object \in {0, o} /\ v.token \in {0, s}
    BY <1>1, IdleCall
  <2>3. objects'[call[d].object].token = 0 /\ call'[c].object # call[d].object
    BY <1>1, <1>2, <2>1, <2>2
  <2>4. ASSUME call[d].at \in Logins, call[d].answer = "ok"
        PROVE  /\ \A p \in DOMAIN objects' : objects'[p].token # call[d].token
               /\ call'[c].token # call[d].token /\ page'.asker # call[d].token
    <3>1. /\ call[d].token \in 1..Len(sessions) /\ page.asker # call[d].token /\ s # call[d].token
          /\ \A p \in 1..Len(objects) : objects[p].token # call[d].token
      BY <2>4, AloneFacts, Zenon
    <3>2. call[d].token # 0
      BY <3>1
    <3>3. ASSUME NEW p \in 1..Len(objects) PROVE objects'[p].token # call[d].token
      BY <1>1, <3>1
    <3> QED BY <1>1, <1>2, <2>2, <3>1, <3>2, <3>3
  <2> QED BY <2>3, <2>4, Zenon
<1>7. Leaves(c)
  <2>1. ASSUME NEW d \in Calls \ {c}, call[d].at \in Later PROVE call[d].object \in 1..Len(objects) /\ call[d].object # o
    BY <1>3, <2>1, TokenThere
  <2> QED BY <1>1, <1>2, <2>1 DEF Leaves
<1>8. Saving'
  BY <1>1, SavingSame
<1> QED BY <1>1, <1>5, <1>6, <1>7, <1>8, SafeTurns

\* An object that forgets a token keeps Safe.
LEMMA ForgetsSafe ==
  ASSUME Base, Safe, NEW c \in Calls, HasKeys(c) \/ HasDestroyed(c)
  PROVE  Safe'
<1> DEFINE o == call[c].object
           s == call[c].token
           w == call[c]
           v == call'[c]
<1>1. /\ Turns(c) /\ UNCHANGED <<sessions, saved, page, faults>> /\ w.at \in Later
      /\ objects' \in Seq(Object) /\ Len(objects') = Len(objects)
      /\ \A p \in 1..Len(objects) : p # o => objects'[p] = objects[p]
      /\ objects'[o].email = objects[o].email /\ objects'[o].uid = objects[o].uid
      /\ v.object = o /\ v.token = s /\ v.answer = None
      /\ objects'[o].token \in {0, objects[o].token} /\ objects'[o].keyFetch \in {0, objects[o].keyFetch}
      /\ v.at \in {"scope", "write"}
  BY DEF HasKeys, HasDestroyed, Forgets, Turns, Stays, Later, Finishes
<1>2. DOMAIN objects' = 1..Len(objects) /\ DOMAIN objects = 1..Len(objects)
  BY <1>1 DEF Base, Types
<1>3. o \in 1..Len(objects) /\ s \in 1..Len(sessions)
  BY <1>1, TokenThere
<1>4. v.at \notin Begins /\ v.answer # "lost" /\ v.answer # "ok"
  BY <1>1 DEF Begins, Logins, None
<1>5. WinsNothing(c)
  BY <1>1 DEF HasKeys, HasDestroyed, Stays, WinsNothing, Won, Ungranted, Gone
<1>6. Working(call[c])'
  <2>1. Working(w) /\ w.at \in Finishes
    BY DEF Safe, HasKeys, HasDestroyed, Finishes
  <2>2. /\ objects[o].token \in {0, s} /\ objects[o].uid = objects[o].email
        /\ objects[o].email = sessions[s].acct /\ sessions[s].verified
    BY <1>1, <2>1, Zenon DEF Working
  <2>3. v.keys = sessions[s].acct /\ objects'[o].keyFetch = 0
    <3>1. CASE HasKeys(c)
      BY <3>1 DEF HasKeys, Forgets
    <3>2. CASE HasDestroyed(c)
      <4>1. v.keys = w.keys /\ objects'[o].keyFetch = objects[o].keyFetch /\ w.at \in Finishes \ {"keys"}
        BY <3>2 DEF HasDestroyed, Forgets, Finishes
      <4>2. w.keys = sessions[s].acct /\ objects[o].keyFetch = 0
        BY <1>1, <2>1, <4>1, Zenon DEF Working
      <4> QED BY <4>1, <4>2
    <3> QED BY <3>1, <3>2
  <2>4. /\ objects'[v.object].token \in {0, v.token} /\ objects'[v.object].uid = objects'[v.object].email
        /\ objects'[v.object].email = sessions'[v.token].acct /\ sessions'[v.token].verified
        /\ v.keys = sessions'[v.token].acct /\ objects'[v.object].keyFetch = 0
    BY <1>1, <2>2, <2>3
  <2> HIDE DEF v
  <2> QED BY <2>4, Zenon DEF Working, v
<1>7. Alone(c)'
  BY <1>4 DEF Alone
<1>8. Spares(c)
  <2> SUFFICES ASSUME NEW d \in Calls \ {c}, call[d].at \in Begins
               PROVE  /\ objects'[call[d].object].token = 0 /\ call'[c].object # call[d].object
                      /\ call[d].at \in Logins /\ call[d].answer = "ok" =>
                           /\ \A p \in DOMAIN objects' : objects'[p].token # call[d].token
                           /\ call'[c].token # call[d].token /\ page'.asker # call[d].token
    BY Zenon DEF Spares
  <2>1. /\ objects[call[d].object].token = 0 /\ call[d].object \in 1..Len(objects) /\ o # call[d].object
    BY AloneFacts, Zenon
  <2>2. objects'[call[d].object].token = 0 /\ call'[c].object # call[d].object
    BY <1>1, <1>2, <2>1
  <2>3. ASSUME call[d].at \in Logins, call[d].answer = "ok"
        PROVE  /\ \A p \in DOMAIN objects' : objects'[p].token # call[d].token
               /\ call'[c].token # call[d].token /\ page'.asker # call[d].token
    <3>1. /\ call[d].token \in 1..Len(sessions) /\ page.asker # call[d].token /\ s # call[d].token
          /\ \A p \in 1..Len(objects) : objects[p].token # call[d].token
      BY <2>3, AloneFacts, Zenon
    <3>2. call[d].token # 0
      BY <3>1
    <3>3. ASSUME NEW p \in 1..Len(objects) PROVE objects'[p].token # call[d].token
      BY <1>1, <1>3, <3>1, <3>2
    <3> QED BY <1>1, <1>2, <3>1, <3>3
  <2> QED BY <2>2, <2>3, Zenon
<1>9. Leaves(c)
  <2>1. ASSUME NEW d \in Calls \ {c}, call[d].at \in Later PROVE call[d].object \in 1..Len(objects)
    BY <2>1, TokenThere
  <2> QED BY <1>1, <1>2, <2>1 DEF Leaves
<1>10. Saving'
  BY <1>1, SavingSame
<1> QED BY <1>1, <1>4, <1>5, <1>6, <1>7, <1>8, <1>9, <1>10, SafeTurns

\* What is saved is of the account of the session, which is dead unless something was lost.
LEMMA HasWrittenSafe ==
  ASSUME Base, Safe, NEW c \in Calls, HasWritten(c)
  PROVE  Safe'
<1> DEFINE o == call[c].object
           s == call[c].token
<1>1. /\ Turns(c) /\ UNCHANGED <<objects, sessions, faults>> /\ call'[c] = Idle
      /\ call[c].at = "write" /\ call[c].at \in Later /\ call[c].at \in Finishes \ {"keys"}
      /\ saved' = Tokens(c) /\ page'.asker = page.asker
  BY DEF HasWritten, Turns, Later, Finishes
<1>2. Saving'
  <2>1. s \in 1..Len(sessions)
    BY <1>1, TokenThere
  <2>2. /\ objects[o].uid = objects[o].email /\ objects[o].email = sessions[s].acct
        /\ call[c].keys = sessions[s].acct
    BY <1>1, Zenon DEF Safe, Working
  <2>3. faults = 0 => ~sessions[s].alive
    <3>1. Won(call[c]) /\ Gone(call[c])
      BY <1>1 DEF Won, Gone
    <3> QED BY <3>1, Zenon DEF Safe, Winning
  <2>4. /\ saved'.uid = objects[o].uid /\ saved'.email = objects[o].email /\ saved'.kSync = call[c].keys
        /\ saved'.refreshToken = sessions[s].acct /\ saved'.from = s
    BY <1>1 DEF Tokens
  <2>5. /\ saved'.uid = saved'.email /\ saved'.email = saved'.kSync /\ saved'.kSync = saved'.refreshToken
        /\ saved'.from \in 1..Len(sessions')
    BY <1>1, <2>1, <2>2, <2>4
  <2> QED BY <1>1, <2>3, <2>4, <2>5, Zenon DEF Saving
<1>3. /\ Alone(c)' /\ Working(call[c])' /\ WinsNothing(c) /\ call'[c].answer # "lost"
      /\ call'[c].object = 0 /\ call'[c].token = 0
  BY <1>1, IdleSafe
<1>4. Spares(c) /\ Leaves(c)
  BY <1>1, <1>3, SparesSame
<1> QED BY <1>1, <1>2, <1>3, <1>4, SafeTurns

\* The vault locked, or the page closed, keeps Safe.
LEMMA FaultSafe ==
  ASSUME Base, Safe, LockVault \/ PageClosed
  PROVE  Safe'
<1>1. Fault /\ UNCHANGED <<objects, sessions, saved>>
  BY DEF LockVault, PageClosed
<1>2. faults' # 0
  BY <1>1 DEF Fault, Base, Types
<1>3. Saving' /\ Faulty' /\ \A s \in DOMAIN sessions' : Granting(sessions[s])'
  BY <1>1, <1>2, Zenon DEF Safe, Saving, Faulty, Granting
<1>4. ASSUME NEW d \in Calls PROVE Alone(d)' /\ Working(call[d])' /\ Winning(d)'
  <2>1. CASE LockVault
    <3>1. call' = call /\ page' = page
      BY <2>1 DEF LockVault
    <3>2. Alone(d) /\ Working(call[d]) /\ Winning(d)
      BY DEF Safe
    <3> QED BY <1>1, <1>2, <3>1, <3>2, Zenon DEF Alone, Working, Winning, Won, Ungranted, Gone
  <2>2. CASE PageClosed
    <3>1. call'[d] = Idle
      BY <2>2 DEF PageClosed
    <3> QED BY <3>1, IdleSafe DEF Winning
  <2> QED BY <2>1, <2>2
<1> QED BY <1>3, <1>4, Zenon DEF Safe

\* Base and Safe are inductive together.
LEMMA StepSafe ==
  ASSUME Base, Safe, [Next]_vars
  PROVE  Base' /\ Safe'
<1>1. CASE UNCHANGED vars
  <2>1. UNCHANGED <<objects, current, call, sessions, open, saved, page, overlap, asks, faults>>
    BY <1>1 DEF vars
  <2>2. Base'
    BY <2>1 DEF Base, Types, Staged, Pointing
  <2>3. Safe'
    <3>1. \A d \in Calls : Alone(d)' /\ Working(call[d])' /\ Winning(d)'
      BY <2>1 DEF Safe, Alone, Working, Winning, Won, Ungranted, Gone
    <3>2. (\A s \in DOMAIN sessions' : Granting(sessions[s])') /\ Faulty' /\ Saving'
      BY <2>1 DEF Safe, Granting, Faulty, Saving
    <3> QED BY <3>1, <3>2, Zenon DEF Safe
  <2> QED BY <2>2, <2>3
<1>2. ASSUME NEW c \in Calls, Reached(c) PROVE Base' /\ Safe'
  BY <1>2, ReachedBase, ReachedSafe
<1>3. ASSUME NEW c \in Calls, Connected(c) PROVE Base' /\ Safe'
  BY <1>3, ConnectedBase, ConnectedSafe
<1>4. ASSUME NEW c \in Calls, Submitted(c) PROVE Base' /\ Safe'
  BY <1>4, SubmittedBase, SubmittedSafe
<1>5. ASSUME NEW c \in Calls, SentCode(c) PROVE Base' /\ Safe'
  BY <1>5, SentCodeBase, SentCodeSafe
<1>6. ASSUME NEW c \in Calls, HasLoggedIn(c) PROVE Base' /\ Safe'
  <2>1. sessions[call[c].token].acct = objects[call[c].object].email
    BY <1>6, Zenon DEF Safe, Alone, HasLoggedIn, Begins
  <2> QED BY <1>6, <2>1, HasLoggedInBase, HasLoggedInSafe
<1>7. ASSUME NEW c \in Calls, HasVerified(c) PROVE Base' /\ Safe'
  BY <1>7, HasVerifiedBase, HasVerifiedSafe
<1>8. ASSUME NEW c \in Calls, HasKeys(c) \/ HasDestroyed(c) PROVE Base' /\ Safe'
  <2>1. HasDestroyed(c) => objects[call[c].object].keyFetch = 0
    <3> SUFFICES ASSUME HasDestroyed(c) PROVE objects[call[c].object].keyFetch = 0
      OBVIOUS
    <3>1. call[c].at \in Later /\ call[c].at \in Finishes \ {"keys"}
      BY DEF HasDestroyed, Later, Finishes
    <3> QED BY <3>1, Zenon DEF Safe, Working
  <2> QED BY <1>8, <2>1, ForgetsBase, ForgetsSafe
<1>9. ASSUME NEW c \in Calls, WentOn(c) PROVE Base' /\ Safe'
  BY <1>9, WentOnBase, WentOnSafe
<1>10. ASSUME NEW c \in Calls, Ended(c) PROVE Base' /\ Safe'
  BY <1>10, WentOnBase, EndedSafe
<1>11. ASSUME NEW c \in Calls, HasWritten(c) PROVE Base' /\ Safe'
  BY <1>11, HasWrittenBase, HasWrittenSafe
<1>12. CASE LockVault \/ PageClosed
  BY <1>12, FaultBase, FaultSafe
<1>13. CASE Next
  <2>1. Steps
    BY <1>13, NextSteps
  <2> QED BY <2>1, <1>2, <1>3, <1>4, <1>5, <1>6, <1>7, <1>8, <1>9, <1>10, <1>11, <1>12, Zenon DEF Steps
<1> QED BY <1>1, <1>13

-----------------------------------------------------------------------------
\* Through: without faults, one sign-in after the other, the page gets through.
LEMMA InitThrough ==
  ASSUME Init
  PROVE  Through
<1>1. ASSUME NEW c \in Calls PROVE call[c].at = None /\ call[c].at \notin Begins
  BY IdleCall DEF Init, Begins, Logins, None
<1>2. current = 0 /\ page.asker = 0
  BY DEF Init, NoPage
<1> QED BY <1>1, <1>2, Zenon DEF Through, Going, Beginning, OnCurrent, KeysThere, Asker

\* A handler that won is past its login and on the way to the end.
LEMMA WonIsLater ==
  ASSUME NEW w, Won(w)
  PROVE  w.at \in Later /\ w.at \in Finishes /\ w.at # None /\ Finishing(w)
BY DEF Won, Later, Finishes, None, Finishing

\* A handler that has not ended works on the current object, and on its session.
LEMMA OnIt ==
  ASSUME Base, Safe, Going, NEW c \in Calls, call[c].at # None
  PROVE  /\ current \in 1..Len(objects) /\ call[c].object = current /\ current # 0
         /\ objects[current].keyFetch \in {0, objects[current].token}
         /\ call[c].at \in Later => objects[current].token \in {0, call[c].token}
<1>1. current # 0 /\ call[c].object = current
  BY Zenon DEF Going, OnCurrent
<1>2. current \in 1..Len(objects)
  BY <1>1 DEF Base, Types
<1>3. call[c].at \in Later => objects[call[c].object].token \in {0, call[c].token}
  BY Zenon DEF Safe, Working
<1> QED BY <1>1, <1>2, <1>3, ObjectThere

\* While a handler begins, no other runs.
LEMMA BeginsAlone ==
  ASSUME Through, Calm, NEW c \in Calls, call[c].at \in Begins
  PROVE  page.shows # "done" /\ Going /\ \A d \in Calls \ {c} : call[d].at = None
BY Zenon DEF Through, Beginning

\* A turn keeps the sign-in that begins alone.
LEMMA BeginningTurns ==
  ASSUME Through, Calm, NEW c \in Calls, \A d \in Calls \ {c} : call'[d] = call[d], call[c].at # None,
         call'[c].at \in Begins => call[c].at \in Begins,
         page'.shows # "done" \/ (page.shows = "done" /\ page' = page) \/ call[c].at \notin Begins
  PROVE  \A d \in Calls : Beginning(d)'
<1> SUFFICES ASSUME NEW d \in Calls, call'[d].at \in Begins
             PROVE  page'.shows # "done" /\ \A e \in Calls \ {d} : call'[e].at = None
  BY DEF Beginning
<1>1. CASE d = c
  BY <1>1, BeginsAlone
<1>2. CASE d # c
  BY <1>2, BeginsAlone
<1> QED BY <1>1, <1>2

\* Handler c stays with the current object and its session, and with the keys and the
\* code that were accepted.
KeepsOn(c) ==
  /\ call'[c].at # None => current # 0 /\ call'[c].object = current
  /\ call'[c].at \in Later =>
       /\ \A d \in Calls \ {c} : call[d].at \in Later => call[d].token = call'[c].token
       /\ KeysThere => objects[current].token = call'[c].token
  /\ Won(call[c]) => Won(call[c])'
  /\ Finishing(call[c]) => \E d \in Calls : Finishing(call[d])'

\* A turn that keeps to the current object and its session keeps Going.
LEMMA GoingSame ==
  ASSUME Going, NEW c \in Calls, Turns(c), KeepsOn(c), UNCHANGED <<objects, current>>,
         page'.asker \in {0, page.asker}
  PROVE  Going'
<1>1. sessions' = sessions /\ \A d \in Calls \ {c} : call'[d] = call[d]
  BY DEF Turns
<1>2. ASSUME NEW d \in Calls PROVE OnCurrent(d)'
  <2> SUFFICES ASSUME call'[d].at # None
               PROVE  /\ current # 0 /\ call'[d].object = current
                      /\ \A e \in Calls : call'[d].at \in Later /\ call'[e].at \in Later =>
                           call'[d].token = call'[e].token
    BY DEF OnCurrent
  <2>1. current # 0 /\ call'[d].object = current
    BY <1>1, Zenon DEF KeepsOn, Going, OnCurrent
  <2>2. ASSUME NEW e \in Calls, call'[d].at \in Later, call'[e].at \in Later
        PROVE  call'[d].token = call'[e].token
    <3>1. CASE d = c /\ e = c
      BY <3>1
    <3>2. CASE d = c /\ e # c
      BY <1>1, <2>2, <3>2 DEF KeepsOn
    <3>3. CASE d # c /\ e = c
      BY <1>1, <2>2, <3>3 DEF KeepsOn
    <3>4. CASE d # c /\ e # c
      BY <1>1, <2>2, <3>4, Zenon DEF Going, OnCurrent
    <3> QED BY <3>1, <3>2, <3>3, <3>4
  <2> QED BY <2>1, <2>2
<1>3. ASSUME NEW d \in Calls, Won(call[d]) PROVE Won(call[d])'
  BY <1>1, <1>3, Zenon DEF KeepsOn, Won
<1>4. ASSUME KeysThere PROVE KeysThere'
  BY <1>1, <1>4, Zenon DEF KeepsOn, KeysThere
<1>5. ASSUME NEW d \in Calls, Finishing(call[d]) PROVE \E e \in Calls : Finishing(call[e])'
  <2>1. CASE d = c
    BY <1>5, <2>1, Zenon DEF KeepsOn
  <2>2. CASE d # c
    <3>1. call'[d] = call[d]
      BY <1>1, <2>2
    <3>2. Finishing(call[d])'
      BY <1>5, <3>1, Zenon DEF Finishing, Won
    <3> QED BY <3>2
  <2> QED BY <2>1, <2>2
<1>6. Asker'
  BY <1>1, <1>5, Zenon DEF Asker, Going
<1> QED BY <1>2, <1>3, <1>4, <1>6, Zenon DEF Going

\* What a step leaves to be shown of Through.
LEMMA ThroughTurns ==
  ASSUME Base, Safe, Through, NEW c \in Calls, Turns(c), call[c].at # None, UNCHANGED overlap,
         call'[c].at \in Begins => call[c].at \in Begins,
         page'.shows # "done" \/ (page.shows = "done" /\ page' = page) \/ call[c].at \notin Begins,
         page'.shows = "done" \/ page.shows # "done" \/ call[c].at \in Begins,
         Calm /\ Going /\ page'.shows # "done" => Going'
  PROVE  Through'
<1> SUFFICES ASSUME Calm' PROVE (\A d \in Calls : Beginning(d)') /\ (page'.shows # "done" => Going')
  BY DEF Through
<1>1. Calm /\ \A d \in Calls \ {c} : call'[d] = call[d]
  BY DEF Turns, Calm
<1>2. \A d \in Calls : Beginning(d)'
  BY <1>1, BeginningTurns
<1>3. ASSUME page'.shows # "done" PROVE Going'
  <2>1. page.shows # "done"
    BY <1>1, <1>3, BeginsAlone
  <2> QED BY <1>1, <1>3, <2>1 DEF Through
<1> QED BY <1>2, <1>3

\* One that leaves the objects alone.
LEMMA ThroughSame ==
  ASSUME Base, Safe, Through, NEW c \in Calls, Turns(c), call[c].at # None,
         UNCHANGED <<objects, current, page, overlap>>,
         call'[c].at \in Begins => call[c].at \in Begins,
         Calm /\ Going => KeepsOn(c)
  PROVE  Through'
<1>1. Calm /\ Going => Going'
  BY GoingSame
<1>2. page.shows = "done" \/ page.shows # "done"
  OBVIOUS
<1> QED BY <1>1, <1>2, ThroughTurns

\* Through is kept by a code that is sent, ...
LEMMA SubmittedThrough ==
  ASSUME Base, Safe, Through, NEW c \in Calls, Submitted(c)
  PROVE  Through'
<1>1. /\ Turns(c) /\ UNCHANGED <<objects, current, page, overlap, sessions, faults>>
      /\ \A d \in Calls \ {c} : call'[d] = call[d]
  BY DEF Submitted, Turns
<1>2. CASE call' = call
  <2>1. UNCHANGED <<objects, current, call, sessions, page, overlap, faults>>
    BY <1>1, <1>2
  <2> QED BY <2>1 DEF Through, Calm, Going, Beginning, OnCurrent, KeysThere, Asker, Finishing, Won
<1>3. CASE /\ call[c] = Idle /\ current # 0 /\ objects[current].token # 0
           /\ page.shows \in {"needs-totp", "needs-email-code", "needs-unblock-code"}
           /\ call'[c].object = current /\ call'[c].at \in Verifies \cup {"resend"}
           /\ call'[c].answer = None /\ call'[c].token = objects[current].token
  <2> SUFFICES ASSUME Calm' PROVE (\A d \in Calls : Beginning(d)') /\ Going'
    BY DEF Through
  <2>1. Calm /\ page.shows # "done" /\ Going
    BY <1>1, <1>3 DEF Calm, Through
  <2>2. call[c].at = None /\ call'[c].at \notin Begins
    BY <1>3, IdleCall DEF Verifies, Begins, Logins
  <2>3. ASSUME NEW d \in Calls PROVE call'[d].at \notin Begins
    <3> SUFFICES ASSUME call'[d].at \in Begins PROVE FALSE
      OBVIOUS
    <3>1. call[d].at \in Begins /\ call[d].at # None
      <4>1. call'[d] = call[d]
        BY <1>1, <2>2
      <4> QED BY <4>1 DEF Begins, Logins, None
    <3>2. objects[call[d].object].token = 0
      BY <3>1, AloneFacts
    <3>3. call[d].object = current
      BY <2>1, <3>1, OnIt
    <3> QED BY <1>3, <3>2, <3>3
  <2>4. ASSUME NEW d \in Calls, call[d].at \in Later PROVE call[d].token = objects[current].token
    <3>1. call[d].at # None
      BY <2>4 DEF Later, Verifies, Finishes, None
    <3>2. objects[current].token \in {0, call[d].token}
      BY <2>1, <2>4, <3>1, OnIt
    <3> QED BY <1>3, <3>2
  <2>5. ~Won(call[c]) /\ ~Finishing(call[c])
    BY <2>2 DEF Won, Finishing, Verifies, None
  <2>6. KeepsOn(c)
    BY <1>3, <2>4, <2>5 DEF KeepsOn
  <2> QED BY <1>1, <2>1, <2>3, <2>6, GoingSame DEF Beginning
<1> QED BY <1>2, <1>3 DEF Submitted

\* ... by a code that was accepted: it goes for the keys, or another has won them; ...
LEMMA HasVerifiedThrough ==
  ASSUME Base, Safe, Through, NEW c \in Calls, HasVerified(c)
  PROVE  Through'
<1> DEFINE o == call[c].object
           v == call'[c]
<1>1. /\ Turns(c) /\ UNCHANGED <<objects, current, page, overlap>>
      /\ call[c].at \in Verifies /\ call[c].answer = "ok"
      /\ \A d \in Calls \ {c} : call'[d] = call[d]
  BY DEF HasVerified, Same, Turns
<1>2. call[c].at # None /\ call[c].at \in Later /\ ~Won(call[c])
  BY <1>1 DEF Verifies, Later, Won, None
<1>3. CASE /\ objects[o].token # 0 /\ objects[o].keyFetch # 0 /\ Stays(c, "keys") /\ v.token = objects[o].token
  <2>1. v.at = "keys" /\ v.answer = None /\ v.object = o /\ v.at \notin Begins
    BY <1>3 DEF Stays, Begins, Logins
  <2>2. Finishing(call[c])'
    BY <2>1 DEF Finishing
  <2>3. ASSUME Calm, Going PROVE KeepsOn(c)
    <3>1. o = current /\ current # 0 /\ objects[current].token \in {0, call[c].token}
      BY <1>2, <2>3, OnIt
    <3>2. v.token = call[c].token
      BY <1>3, <3>1
    <3>3. \A d \in Calls : call[d].at \in Later => call[d].token = call[c].token
      BY <1>2, <2>3, Zenon DEF Going, OnCurrent
    <3> QED BY <1>2, <1>3, <2>1, <2>2, <3>1, <3>2, <3>3 DEF KeepsOn
  <2> QED BY <1>1, <1>2, <2>1, <2>3, ThroughSame
<1>4. CASE (objects[o].token = 0 \/ objects[o].keyFetch = 0) /\ v = Idle
  <2>1. v.at = None /\ v.at \notin Begins /\ v.at \notin Later
    BY <1>4, IdleCall DEF Begins, Logins, Later, Verifies, Finishes, None
  <2>2. ASSUME Calm, Going PROVE KeepsOn(c)
    <3>1. o = current /\ current # 0 /\ call[c].token # 0
      <4>1. call[c].token \in 1..Len(sessions)
        BY <1>2, TokenThere
      <4> QED BY <1>2, <2>2, <4>1, OnIt
    <3>2. ~KeysThere
      BY <1>2, <1>4, <3>1 DEF KeysThere
    <3>3. PICK d \in Calls : Won(call[d])
      BY <2>2, <3>2 DEF Going
    <3>4. call'[d] = call[d]
      BY <1>1, <1>2, <3>3
    <3>5. Finishing(call[d])'
      BY <3>3, <3>4, Zenon DEF Finishing, Won
    <3> QED BY <1>2, <2>1, <3>5 DEF KeepsOn
  <2> QED BY <1>1, <1>2, <2>1, <2>2, ThroughSame
<1> QED BY <1>3, <1>4 DEF HasVerified

\* ... by a handler that goes on, ...
LEMMA WentOnThrough ==
  ASSUME Base, Safe, Through, NEW c \in Calls, WentOn(c)
  PROVE  Through'
<1> DEFINE w == call[c]
           v == call'[c]
<1>1. /\ Turns(c) /\ UNCHANGED <<objects, current, page, overlap>>
      /\ v.object = w.object /\ v.token = w.token
      /\ w.at # None /\ w.at \in Later /\ v.at \notin Begins
  BY DEF WentOn, Same, Stays, Later, Finishes, Begins, Logins, None
<1>2. Won(call[c])'
  BY DEF WentOn, Stays, Won
<1>3. Finishing(call[c])'
  BY <1>2, Zenon DEF Finishing
<1>4. ASSUME Calm, Going PROVE KeepsOn(c)
  <2>1. w.object = current /\ current # 0
    BY <1>1, <1>4, OnIt
  <2>2. \A d \in Calls : call[d].at \in Later => call[d].token = w.token
    BY <1>1, <1>4, Zenon DEF Going, OnCurrent
  <2>3. KeysThere => objects[current].token = w.token
    BY <1>1, <2>1, Zenon DEF KeysThere
  <2> QED BY <1>1, <1>2, <1>3, <2>1, <2>2, <2>3 DEF KeepsOn
<1> QED BY <1>1, <1>4, ThroughSame

\* ... by one that ends, which was not about to finish, ...
LEMMA EndedThrough ==
  ASSUME Base, Safe, Through, NEW c \in Calls, Ended(c)
  PROVE  Through'
<1>1. /\ Turns(c) /\ UNCHANGED <<objects, current, page, overlap>> /\ call'[c] = Idle
      /\ \A d \in Calls \ {c} : call'[d] = call[d]
  BY DEF Ended, Same, Turns
<1>2. call'[c].at \notin Begins /\ call'[c].at \notin Later /\ call'[c].at = None
  BY <1>1, IdleCall DEF Begins, Logins, Later, Verifies, Finishes, None
<1>3. call[c].at # None
  <2>1. Staged(call[c])
    BY DEF Base
  <2> QED BY <2>1, IdleCall DEF Ended, Staged, None
<1>4. ASSUME Calm PROVE ~Finishing(call[c])
  <2>1. open
    BY <1>4, Zenon DEF Safe, Faulty, Calm
  <2>2. Staged(call[c])
    BY DEF Base
  <2> QED BY <2>1, <2>2 DEF Ended, Finishing, Won, Staged, Verifies, None
<1>5. Calm /\ Going => KeepsOn(c)
  BY <1>2, <1>4 DEF KeepsOn, Finishing
<1> QED BY <1>1, <1>2, <1>3, <1>5, ThroughSame

\* ... by an unblock code that is sent for, ...
LEMMA SentCodeThrough ==
  ASSUME Base, Safe, Through, NEW c \in Calls, SentCode(c)
  PROVE  Through'
<1>1. /\ Turns(c) /\ UNCHANGED <<objects, current, overlap>>
  BY DEF SentCode, Same
<1>2. Staged(call[c])
  BY DEF Base
<1>3. CASE /\ call[c].answer = "blocked" /\ Stays(c, "send unblock code")
           /\ call'[c].token = call[c].token /\ page' = page
  <2>1. call[c].at = "login" /\ call[c].at # None /\ call[c].at \in Begins
    BY <1>2, <1>3 DEF Staged, Begins, Logins, None
  <2>2. call'[c].object = call[c].object /\ call'[c].at \notin Later
    BY <1>3 DEF Stays, Later, Verifies, Finishes
  <2>3. ~Won(call[c]) /\ ~Finishing(call[c])
    BY <2>1 DEF Won, Finishing, Verifies
  <2>4. Calm /\ Going => KeepsOn(c)
    BY <2>1, <2>2, <2>3, OnIt DEF KeepsOn
  <2> QED BY <1>1, <1>3, <2>1, <2>4, ThroughSame
<1>4. CASE /\ call[c].at = "send unblock code" /\ call'[c] = Idle
           /\ page' \in Page /\ page'.shows # "done" /\ page'.asker = 0
  <2>1. call[c].at # None /\ call[c].at \in Begins /\ ~Won(call[c]) /\ ~Finishing(call[c])
    BY <1>4 DEF Begins, None, Won, Finishing, Verifies
  <2>2. call'[c].at \notin Begins /\ call'[c].at \notin Later /\ call'[c].at = None
    BY <1>4, IdleCall DEF Begins, Logins, Later, Verifies, Finishes, None
  <2>3. KeepsOn(c)
    BY <2>1, <2>2 DEF KeepsOn
  <2>4. Calm /\ Going => Going'
    BY <1>1, <1>4, <2>3, GoingSame
  <2> QED BY <1>1, <1>4, <2>1, <2>2, <2>4, ThroughTurns
<1> QED BY <1>3, <1>4 DEF SentCode

\* ... by a login that succeeded: its session is the current one; ...
LEMMA HasLoggedInThrough ==
  ASSUME Base, Safe, Through, NEW c \in Calls, HasLoggedIn(c)
  PROVE  Through'
<1> DEFINE o == call[c].object
           s == call[c].token
           v == call'[c]
<1>1. /\ Turns(c) /\ UNCHANGED <<current, overlap, sessions>>
      /\ call[c].at \in Begins /\ call[c].at \in Logins /\ call[c].answer = "ok" /\ call[c].at # None
      /\ objects'[o].token = s /\ objects'[o].keyFetch = s
      /\ \A d \in Calls \ {c} : call'[d] = call[d]
  BY DEF HasLoggedIn, Turns, Begins, Logins, None
<1>2. \/ /\ sessions[s].verified /\ v.at = "keys" /\ v.answer = None /\ v.object = o
         /\ v.token = s /\ page' = page
      \/ ~sessions[s].verified /\ v = Idle /\ page'.shows # "done" /\ page'.asker = s
  BY DEF HasLoggedIn, Stays
<1>3. v.at \notin Begins
  BY <1>2, IdleCall DEF Begins, Logins, None
<1>4. ASSUME Calm, Going PROVE Going'
  <2>1. \A d \in Calls \ {c} : call'[d].at = None
    BY <1>1, <1>4, BeginsAlone
  <2>2. o = current /\ current # 0
    BY <1>1, <1>4, OnIt
  <2>3. sessions[s].keys
    BY <1>1, Zenon DEF Safe, Alone
  <2>4. v.at = None \/ (v.at = "keys" /\ v.object = o /\ v.token = s)
    BY <1>2, IdleCall
  <2>5. None \notin Later
    BY DEF Later, Verifies, Finishes, None
  <2>6. ASSUME NEW d \in Calls PROVE OnCurrent(d)'
    <3>1. CASE d = c
      <4>1. \A e \in Calls \ {c} : call'[e].at \notin Later
        BY <2>1, <2>5
      <4> QED BY <1>1, <2>2, <2>4, <3>1, <4>1 DEF OnCurrent
    <3>2. CASE d # c
      BY <2>1, <3>2 DEF OnCurrent
    <3> QED BY <3>1, <3>2
  <2>7. KeysThere'
    <3>1. \A d \in Calls : call'[d].at \in Later => call'[d].token = s
      BY <2>1, <2>4, <2>5
    <3>2. objects'[current].token = s /\ objects'[current].keyFetch = s /\ sessions'[s].keys
      BY <1>1, <2>2, <2>3
    <3> QED BY <1>1, <3>1, <3>2, Zenon DEF KeysThere
  <2>8. Asker'
    <3>1. CASE sessions[s].verified /\ v.at = "keys" /\ v.answer = None /\ page' = page
      <4>1. Finishing(call[c])'
        BY <3>1 DEF Finishing
      <4> QED BY <1>1, <2>2, <4>1, Zenon DEF Asker
    <3>2. CASE ~sessions[s].verified /\ page'.asker = s
      <4>1. ~sessions'[page'.asker].verified /\ objects'[current'].token \in {0, page'.asker} /\ current' # 0
        BY <1>1, <2>2, <3>2
      <4> QED BY <4>1, Zenon DEF Asker
    <3> QED BY <1>2, <3>1, <3>2
  <2> QED BY <2>6, <2>7, <2>8, Zenon DEF Going
<1>5. page'.shows # "done" \/ (page.shows = "done" /\ page' = page)
  BY <1>2
<1> QED BY <1>1, <1>3, <1>4, <1>5, ThroughTurns

\* ... by a sign-in that is begun while no handler runs, ...
LEMMA ConnectedThrough ==
  ASSUME Base, Safe, Through, NEW c \in Calls, Connected(c)
  PROVE  Through'
<1> DEFINE n == Len(objects) + 1
           v == call'[c]
<1>1. /\ UNCHANGED <<page, sessions, faults>> /\ call[c] = Idle /\ page.shows # "done"
      /\ v.object = n /\ v.at \in Logins /\ v.answer = None /\ v.token = 0
      /\ objects'[n].token = 0 /\ current' = n
      /\ \A d \in Calls \ {c} : call'[d] = call[d]
      /\ overlap' <=> overlap \/ \E d \in Calls : call[d] # Idle
  BY DEF Connected, Turns
<1> SUFFICES ASSUME Calm' PROVE (\A d \in Calls : Beginning(d)') /\ Going'
  BY DEF Through
<1>2. Calm /\ Going /\ \A d \in Calls : call[d].at = None
  <2>1. Calm /\ \A d \in Calls : call[d] = Idle
    BY <1>1, Zenon DEF Calm
  <2> QED BY <1>1, <2>1, IdleCall DEF Through
<1>3. \A d \in Calls \ {c} : call'[d].at = None
  BY <1>1, <1>2
<1>4. None \notin Begins \cup Later /\ v.at \notin Later
  BY <1>1 DEF Begins, Logins, Later, Verifies, Finishes, None
<1>5. n # 0
  BY DEF Base, Types
<1>6. ASSUME NEW d \in Calls PROVE Beginning(d)'
  <2>1. CASE d = c
    BY <1>1, <1>3, <2>1 DEF Beginning
  <2>2. CASE d # c
    BY <1>3, <1>4, <2>2 DEF Beginning
  <2> QED BY <2>1, <2>2
<1>7. \A d \in Calls : call'[d].at \notin Later
  BY <1>3, <1>4
<1>8. ASSUME NEW d \in Calls PROVE OnCurrent(d)'
  <2>1. CASE d = c
    BY <1>1, <1>5, <1>7, <2>1 DEF OnCurrent
  <2>2. CASE d # c
    BY <1>3, <2>2 DEF OnCurrent
  <2> QED BY <2>1, <2>2
<1>9. KeysThere'
  BY <1>1, <1>7 DEF KeysThere
<1>10. Asker'
  <2>1. \A d \in Calls : ~Finishing(call[d])
    BY <1>2 DEF Finishing, Won, Verifies, None
  <2>2. page.asker # 0 => ~sessions[page.asker].verified
    BY <1>2, <2>1, Zenon DEF Going, Asker
  <2> QED BY <1>1, <1>5, <2>2 DEF Asker
<1> QED BY <1>6, <1>8, <1>9, <1>10, Zenon DEF Going

\* ... by the handler that won, when its object forgets a token, ...
LEMMA ForgetsThrough ==
  ASSUME Base, Safe, Through, NEW c \in Calls, HasKeys(c) \/ HasDestroyed(c)
  PROVE  Through'
<1> DEFINE w == call[c]
           v == call'[c]
<1>1. /\ Turns(c) /\ UNCHANGED <<current, page, overlap, sessions>>
      /\ v.object = w.object /\ v.token = w.token
      /\ w.at # None /\ w.at \in Later /\ v.at \notin Begins /\ v.at \in Later
      /\ \A d \in Calls \ {c} : call'[d] = call[d]
  BY DEF HasKeys, HasDestroyed, Forgets, Turns, Stays, Later, Finishes, Begins, Logins, None
<1>2. Won(call[c])' /\ Finishing(call[c])'
  BY DEF HasKeys, HasDestroyed, Stays, Won, Finishing
<1>3. ASSUME Calm, Going PROVE Going'
  <2>1. w.object = current /\ current # 0
    BY <1>1, <1>3, OnIt
  <2>2. \A d \in Calls : call[d].at \in Later => call[d].token = w.token
    BY <1>1, <1>3, Zenon DEF Going, OnCurrent
  <2>3. \A d \in Calls : call'[d].at \in Later => call'[d].token = w.token
    BY <1>1, <2>2
  <2>4. \A d \in Calls : call'[d].at # None => call'[d].object = current
    BY <1>1, <1>3, <2>1, Zenon DEF Going, OnCurrent
  <2>5. ASSUME NEW d \in Calls PROVE OnCurrent(d)'
    BY <1>1, <2>1, <2>3, <2>4 DEF OnCurrent
  <2>6. Asker'
    BY <1>1, <1>2, <2>1, Zenon DEF Asker
  <2> QED BY <1>2, <2>5, <2>6, Zenon DEF Going
<1>4. page.shows = "done" \/ page.shows # "done"
  OBVIOUS
<1> QED BY <1>1, <1>3, <1>4, ThroughTurns

\* ... and by the end, when the page shows it.
LEMMA HasWrittenThrough ==
  ASSUME Base, Safe, Through, NEW c \in Calls, HasWritten(c)
  PROVE  Through'
<1>1. Turns(c) /\ overlap' = overlap /\ call[c].at = "write" /\ call'[c] = Idle /\ page'.shows = "done"
  BY DEF HasWritten
<1>2. call[c].at # None /\ call[c].at \notin Begins /\ call'[c].at \notin Begins
  BY <1>1, IdleCall DEF Begins, Logins, None
<1> QED BY <1>1, <1>2, ThroughTurns

\* A handler that won the keys of a session goes on to the end while nothing is lost.
LEMMA ReachedWins ==
  ASSUME Base, Safe, NEW c \in Calls, Reached(c), call'[c].answer # "lost", NEW d \in Calls, Won(call[d])
  PROVE  Won(call[d])'
<1> DEFINE w == call[c]
           v == call'[c]
<1>1. CASE d # c
  <2>1. call'[d] = call[d]
    BY <1>1, ReachedFacts
  <2> QED BY <2>1, Zenon DEF Won
<1>2. CASE d = c
  <2>1. v.at = w.at /\ Answers(w, v.answer) /\ w.answer = None /\ w.at # "write"
    BY ReachedFacts DEF Reached
  <2>2. CASE w.at \in {"scope", "token"}
    <3>1. sessions[w.token].alive
      <4>1. ~Gone(w)
        BY <2>2 DEF Gone
      <4> QED BY <1>2, <4>1, Zenon DEF Safe, Winning
    <3>2. sessions[w.token].verified
      <4>1. w.at \in Later /\ w.at \in Finishes
        BY <2>2 DEF Later, Finishes
      <4> QED BY <4>1, Zenon DEF Safe, Working
    <3>3. v.answer = "ok"
      BY <2>1, <2>2, <3>1, <3>2, Zenon DEF Answers
    <3> QED BY <1>2, <2>1, <2>2, <3>3 DEF Won
  <2>3. CASE w.at \notin {"scope", "token"}
    <3>1. w.at \in {"device", "destroy"}
      BY <1>2, <2>1, <2>3 DEF Won, None
    <3> QED BY <1>2, <2>1, <3>1 DEF Won
  <2> QED BY <2>2, <2>3
<1> QED BY <1>1, <1>2

\* The keys of the current session are there, or are won by this step.
LEMMA ReachedKeys ==
  ASSUME Base, Safe, Going, NEW c \in Calls, Reached(c), call'[c].answer # "lost", KeysThere
  PROVE  IF call[c].at = "keys" THEN Won(call[c])' ELSE KeysThere'
<1> DEFINE w == call[c]
           v == call'[c]
<1>1. /\ v.at = w.at /\ Answers(w, v.answer) /\ w.at # None
      /\ objects' = objects /\ current' = current
  BY ReachedFacts DEF Reached
<1>2. CASE w.at = "keys"
  <2> DEFINE s == w.token
  <2>1. w.at \in Later /\ w.at \in Finishes /\ w.at \notin Logins /\ w.at \notin Verifies
    BY <1>2 DEF Later, Finishes, Logins, Verifies
  <2>2. w.object = current /\ current # 0
    BY <1>1, OnIt
  <2>3. s \in 1..Len(sessions) /\ s # 0 /\ s \in DOMAIN sessions
    <3>1. s \in 1..Len(sessions)
      BY <2>1, TokenThere
    <3>2. sessions \in Seq(Session)
      BY DEF Base, Types
    <3> QED BY <3>1, <3>2
  <2>4. objects[w.object].keyFetch = s /\ sessions[s].keys
    BY <2>1, <2>2, <2>3, Zenon DEF KeysThere
  <2>5. sessions[s].alive /\ sessions[s].verified
    BY <2>1, <2>3, <2>4, Zenon DEF Safe, Granting, Working
  <2>6. v.answer = "ok"
    BY <1>1, <1>2, <2>3, <2>4, <2>5, Zenon DEF Answers
  <2> QED BY <1>1, <1>2, <2>6 DEF Won
<1>3. CASE w.at # "keys"
  <2> SUFFICES ASSUME current # 0
               PROVE  /\ \A d \in Calls : call'[d].at \in Later => objects[current].token = call'[d].token
                      /\ objects[current].token # 0 =>
                           /\ objects[current].keyFetch = objects[current].token
                           /\ sessions'[objects[current].token].keys
    BY <1>1, <1>3 DEF KeysThere
  <2>1. ASSUME NEW d \in Calls, call'[d].at \in Later PROVE objects[current].token = call'[d].token
    <3>1. call[d].at = call'[d].at /\ call'[d].at \notin Logins
      BY <2>1, ReachedFacts DEF Later, Logins, Verifies, Finishes
    <3>2. call'[d].token = call[d].token
      BY <3>1, ReachedFacts
    <3> QED BY <2>1, <3>1, <3>2 DEF KeysThere
  <2>2. ASSUME objects[current].token # 0
        PROVE  objects[current].keyFetch = objects[current].token /\ sessions'[objects[current].token].keys
    <3>1. /\ objects[current].keyFetch = objects[current].token
          /\ sessions[objects[current].token].keys
      BY <2>2 DEF KeysThere
    <3>2. current \in 1..Len(objects)
      BY DEF Base, Types
    <3>3. objects[current].token \in 1..Len(sessions)
      <4>1. objects[current].token \in 0..Len(sessions)
        BY <3>2, ObjectThere
      <4>2. Len(sessions) \in Nat
        BY ReachedFacts
      <4> QED BY <2>2, <4>1, <4>2
    <3> QED BY <1>3, <3>1, <3>3, SessionsKept, Zenon
  <2> QED BY <2>1, <2>2
<1> QED BY <1>2, <1>3

\* Whoever was to finish the sign-in that the page asks a code for still is.
LEMMA ReachedAsker ==
  ASSUME Base, Safe, Going, NEW c \in Calls, Reached(c), call'[c].answer # "lost"
  PROVE  Asker'
<1> SUFFICES ASSUME page.asker # 0
             PROVE  /\ current # 0
                    /\ sessions'[page.asker].verified \/ objects[current].token \notin {0, page.asker} =>
                         \E d \in Calls : Finishing(call[d])'
  <2>1. page' = page /\ current' = current /\ objects' = objects
    BY ReachedFacts
  <2> QED BY <2>1, Zenon DEF Asker
<1>1. current # 0 /\ page.asker \in 1..Len(sessions)
  BY DEF Going, Asker, Base, Types
<1>2. ASSUME sessions[page.asker].verified \/ objects[current].token \notin {0, page.asker}
      PROVE  \E d \in Calls : Finishing(call[d])'
  <2>1. PICK d \in Calls : Finishing(call[d])
    BY <1>2 DEF Going, Asker
  <2>2. CASE d # c
    <3>1. call'[d] = call[d]
      BY <2>2, ReachedFacts
    <3>2. Finishing(call[d])'
      BY <2>1, <3>1, Zenon DEF Finishing, Won
    <3> QED BY <3>2
  <2>3. CASE \E e \in Calls : Won(call[e])
    <3>1. PICK e \in Calls : Won(call[e])
      BY <2>3
    <3>2. Won(call[e])'
      BY <3>1, ReachedWins
    <3>3. Finishing(call[e])'
      BY <3>2, Zenon DEF Finishing
    <3> QED BY <3>3
  <2>4. CASE d = c /\ KeysThere /\ ~\E e \in Calls : Won(call[e])
    <3>1. call[c].at = "keys"
      BY <2>1, <2>4 DEF Finishing, Reached, None
    <3>2. Won(call[c])'
      BY <2>4, <3>1, ReachedKeys
    <3>3. Finishing(call[c])'
      BY <3>2, Zenon DEF Finishing
    <3> QED BY <3>3
  <2> QED BY <2>2, <2>3, <2>4 DEF Going
<1>3. ASSUME ~sessions[page.asker].verified, sessions'[page.asker].verified
      PROVE  \E d \in Calls : Finishing(call[d])'
  <2>1. call[c].at \in Verifies
    BY <1>1, <1>3, SessionsKept, Zenon
  <2>2. call'[c].at \in Verifies /\ Answers(call[c], call'[c].answer)
    BY <2>1, ReachedFacts
  <2>3. sessions' # sessions
    BY <1>3
  <2>4. call'[c].answer = "ok"
    BY <2>2, <2>3, Zenon DEF Answers
  <2>5. Finishing(call[c])'
    BY <2>2, <2>4, Zenon DEF Finishing
  <2> QED BY <2>5
<1> QED BY <1>1, <1>2, <1>3

\* A request that is served keeps the page on its way.
LEMMA ReachedThrough ==
  ASSUME Base, Safe, Through, NEW c \in Calls, Reached(c)
  PROVE  Through'
<1> SUFFICES ASSUME Calm' PROVE (\A d \in Calls : Beginning(d)') /\ (page'.shows # "done" => Going')
  BY DEF Through
<1>1. /\ Calm /\ call'[c].answer # "lost" /\ objects' = objects /\ current' = current /\ page' = page
      /\ \A d \in Calls : call'[d].at = call[d].at /\ call'[d].object = call[d].object
  BY ReachedFacts DEF Calm
<1>2. ASSUME NEW d \in Calls PROVE Beginning(d)'
  BY <1>1 DEF Beginning, Through
<1>3. ASSUME page.shows # "done" PROVE Going'
  <2>1. Going
    BY <1>1, <1>3 DEF Through
  <2>2. ASSUME NEW d \in Calls, call'[d].at \in Later PROVE call'[d].token = call[d].token
    <3>1. call'[d].at \notin Logins
      BY <2>2 DEF Later, Logins, Verifies, Finishes
    <3> QED BY <1>1, <3>1, ReachedFacts
  <2>3. ASSUME NEW d \in Calls PROVE OnCurrent(d)'
    <3>1. OnCurrent(d)
      BY <2>1 DEF Going
    <3> QED BY <1>1, <2>2, <3>1, Zenon DEF OnCurrent
  <2>4. (\E d \in Calls : Won(call[d])') \/ KeysThere'
    <3>1. CASE KeysThere
      BY <1>1, <2>1, <3>1, ReachedKeys
    <3>2. CASE \E d \in Calls : Won(call[d])
      BY <1>1, <3>2, ReachedWins
    <3> QED BY <2>1, <3>1, <3>2 DEF Going
  <2>5. Asker'
    BY <1>1, <2>1, ReachedAsker
  <2> QED BY <2>3, <2>4, <2>5, Zenon DEF Going
<1> QED BY <1>1, <1>2, <1>3

\* A page that shows the end has an account; no other step shows it.
LEMMA CompleteSame ==
  ASSUME CompleteIsSaved, saved' = saved, page' = page \/ page'.shows # "done"
  PROVE  CompleteIsSaved'
BY DEF CompleteIsSaved

\* The page is told of the end with an account saved, ...
LEMMA WrittenComplete ==
  ASSUME Base, NEW c \in Calls, HasWritten(c)
  PROVE  CompleteIsSaved'
<1>1. saved' = Tokens(c) /\ call[c].at \in Later
  BY DEF HasWritten, Later, Finishes
<1>2. call[c].token \in 1..Len(sessions) /\ Len(sessions) \in Nat
  BY <1>1, TokenThere DEF Base, Types
<1>3. saved'.from # 0
  BY <1>1, <1>2 DEF Tokens
<1> QED BY <1>3 DEF CompleteIsSaved, NoAccount

\* ... and a page that is opened again looks whether there is one.
LEMMA FaultComplete ==
  ASSUME CompleteIsSaved, LockVault \/ PageClosed
  PROVE  CompleteIsSaved'
<1>1. CASE LockVault
  BY <1>1 DEF LockVault, CompleteIsSaved
<1>2. CASE PageClosed
  <2>1. saved' = saved /\ page' = [NoPage EXCEPT !.shows = IF saved = NoAccount THEN "account" ELSE "done"]
    BY <1>2 DEF PageClosed
  <2>2. page'.shows = "done" => saved # NoAccount
    BY <2>1 DEF NoPage
  <2> QED BY <2>1, <2>2 DEF CompleteIsSaved
<1> QED BY <1>1, <1>2

\* Through and CompleteIsSaved are inductive, with Base and Safe.
LEMMA StepThrough ==
  ASSUME Base, Safe, Through, CompleteIsSaved, [Next]_vars
  PROVE  Through' /\ CompleteIsSaved'
<1>1. CASE UNCHANGED vars
  <2>1. UNCHANGED <<objects, current, call, sessions, open, saved, page, overlap, asks, faults>>
    BY <1>1 DEF vars
  <2>2. Through'
    BY <2>1 DEF Through, Calm, Going, Beginning, OnCurrent, KeysThere, Asker, Finishing, Won
  <2> QED BY <2>1, <2>2 DEF CompleteIsSaved
<1>2. ASSUME NEW c \in Calls, Reached(c) PROVE Through' /\ CompleteIsSaved'
  BY <1>2, ReachedThrough, CompleteSame DEF Reached
<1>3. ASSUME NEW c \in Calls, Connected(c) PROVE Through' /\ CompleteIsSaved'
  BY <1>3, ConnectedThrough, CompleteSame DEF Connected
<1>4. ASSUME NEW c \in Calls, Submitted(c) PROVE Through' /\ CompleteIsSaved'
  BY <1>4, SubmittedThrough, CompleteSame DEF Submitted
<1>5. ASSUME NEW c \in Calls, SentCode(c) PROVE Through' /\ CompleteIsSaved'
  BY <1>5, SentCodeThrough, CompleteSame DEF SentCode, Same
<1>6. ASSUME NEW c \in Calls, HasLoggedIn(c) PROVE Through' /\ CompleteIsSaved'
  BY <1>6, HasLoggedInThrough, CompleteSame DEF HasLoggedIn
<1>7. ASSUME NEW c \in Calls, HasVerified(c) PROVE Through' /\ CompleteIsSaved'
  BY <1>7, HasVerifiedThrough, CompleteSame DEF HasVerified, Same
<1>8. ASSUME NEW c \in Calls, HasKeys(c) \/ HasDestroyed(c) PROVE Through' /\ CompleteIsSaved'
  BY <1>8, ForgetsThrough, CompleteSame DEF HasKeys, HasDestroyed, Forgets
<1>9. ASSUME NEW c \in Calls, WentOn(c) PROVE Through' /\ CompleteIsSaved'
  BY <1>9, WentOnThrough, CompleteSame DEF WentOn, Same
<1>10. ASSUME NEW c \in Calls, Ended(c) PROVE Through' /\ CompleteIsSaved'
  BY <1>10, EndedThrough, CompleteSame DEF Ended, Same
<1>11. ASSUME NEW c \in Calls, HasWritten(c) PROVE Through' /\ CompleteIsSaved'
  BY <1>11, HasWrittenThrough, WrittenComplete
<1>12. CASE LockVault \/ PageClosed
  <2>1. faults' # 0
    BY <1>12 DEF LockVault, PageClosed, Fault, Base, Types
  <2>2. Through'
    BY <2>1 DEF Through, Calm
  <2> QED BY <1>12, <2>2, FaultComplete
<1>13. CASE Next
  <2>1. Steps
    BY <1>13, NextSteps
  <2> QED BY <2>1, <1>2, <1>3, <1>4, <1>5, <1>6, <1>7, <1>8, <1>9, <1>10, <1>11, <1>12, Zenon DEF Steps
<1> QED BY <1>1, <1>13

-----------------------------------------------------------------------------
\* The inductive invariant, in every reachable state.
THEOREM Invariance == Spec => [](Base /\ Safe /\ Through /\ CompleteIsSaved)
<1>1. Init => Base /\ Safe /\ Through /\ CompleteIsSaved
  <2>1. Init => CompleteIsSaved
    BY DEF Init, NoPage, CompleteIsSaved
  <2> QED BY <2>1, InitBase, InitSafe, InitThrough
<1>2. Base /\ Safe /\ Through /\ CompleteIsSaved /\ [Next]_vars
        => Base' /\ Safe' /\ Through' /\ CompleteIsSaved'
  BY StepSafe, StepThrough
<1> QED BY <1>1, <1>2, PTL DEF Spec

\* What is saved is of one account: its uid, address, keys and grant.
THEOREM AccountIsOne == Spec => []SavedIsOne
<1>1. Base /\ Safe => SavedIsOne
  <2> SUFFICES ASSUME Safe, saved # NoAccount
               PROVE  Cardinality({saved.uid, saved.email, saved.kSync, saved.refreshToken}) = 1
    BY DEF SavedIsOne
  <2>1. {saved.uid, saved.email, saved.kSync, saved.refreshToken} = {saved.uid}
    BY DEF Safe, Saving
  <2> QED BY <2>1, FS_Singleton
<1> QED BY <1>1, Invariance, PTL

\* No session of the server issues a second refresh token.
THEOREM GrantsAreSingle == Spec => []OneGrant
<1>1. Base /\ Safe => OneGrant
  BY Zenon DEF Safe, Granting, OneGrant
<1> QED BY <1>1, Invariance, PTL

\* A session is verified before its keys are fetched, and thrown away when the account
\* has its tokens; what the handlers and objects point at exists.
THEOREM SessionsAreInOrder == Spec => []SessionInOrder
<1>1. Base /\ Safe => TypeOK
  <2> SUFFICES ASSUME Base, Safe PROVE TypeOK
    OBVIOUS
  <2>1. ASSUME NEW o \in DOMAIN objects
        PROVE  /\ objects[o].email \in Accounts /\ objects[o].uid \in Accounts \cup {None}
               /\ objects[o].token \in 0..Len(sessions) /\ objects[o].keyFetch \in {0, objects[o].token}
    <3>1. objects[o] \in Object /\ o \in 1..Len(objects)
      BY DEF Base, Types
    <3> QED BY <3>1, ObjectThere DEF Object
  <2>2. ASSUME NEW c \in Calls PROVE call[c].object \in 0..Len(objects) /\ call[c].token \in 0..Len(sessions)
    BY TokenThere
  <2>3. ASSUME NEW s \in DOMAIN sessions PROVE sessions[s].acct \in Accounts /\ sessions[s].grants \in 0..2
    <3>1. sessions[s] \in Session
      BY DEF Base, Types
    <3>2. sessions[s].grants <= 1
      BY Zenon DEF Safe, Granting
    <3> QED BY <3>1, <3>2 DEF Session
  <2>4. /\ current \in 0..Len(objects) /\ page.asker \in 0..Len(sessions)
        /\ asks \in 0..MaxAsks /\ faults \in 0..MaxFaults
        /\ page.shows \in {"account", "needs-totp", "needs-email-code", "needs-unblock-code", "done"}
    BY DEF Base, Types, Page
  <2>5. {open, overlap} \subseteq BOOLEAN
    BY Zenon DEF Base, Types
  <2> QED BY <2>1, <2>2, <2>3, <2>4, <2>5, Zenon DEF TypeOK
<1>2. Base /\ Safe => KeysAfterVerified
  <2> SUFFICES ASSUME Base, Safe, NEW c \in Calls, call[c].at = "keys", objects[call[c].object].keyFetch # 0
               PROVE  sessions[objects[call[c].object].keyFetch].verified
    BY DEF KeysAfterVerified
  <2>1. call[c].at \in Later /\ call[c].at \in Finishes
    BY DEF Later, Finishes
  <2>2. objects[call[c].object].token \in {0, call[c].token} /\ sessions[call[c].token].verified
    BY <2>1, Zenon DEF Safe, Working
  <2>3. objects[call[c].object].keyFetch \in {0, objects[call[c].object].token}
    BY <2>1, TokenThere, ObjectThere
  <2> QED BY <2>2, <2>3
<1>3. Base /\ Safe => SessionThrownAway
  BY Zenon DEF Safe, Saving, SessionThrownAway
<1> QED BY <1>1, <1>2, <1>3, Invariance, PTL DEF SessionInOrder

\* While nothing is lost and no sign-ins overlap, a code that was accepted has led to
\* an account when nothing runs any more, and the code the page asks for goes to the
\* sign-in that asked; the page is never told of an end without an account.
THEOREM PageGoesThrough == Spec => []PageGetsThrough
<1>1. Base /\ Through => VerifiedIsSaved /\ CodeReachesAsker
  <2> SUFFICES ASSUME Base, Through, Calm, page.asker # 0, page.shows # "done",
                      \A c \in Calls : call[c] = Idle
               PROVE  /\ ~sessions[page.asker].verified
                      /\ current # 0 /\ objects[current].token \in {0, page.asker}
    BY Zenon DEF VerifiedIsSaved, CodeReachesAsker, Calm
  <2>1. Asker
    BY DEF Through, Going
  <2>2. ASSUME NEW c \in Calls PROVE ~Finishing(call[c])
    BY IdleCall DEF Finishing, Won, Verifies, None
  <2> QED BY <2>1, <2>2, Zenon DEF Asker
<1> QED BY <1>1, Invariance, PTL DEF PageGetsThrough
================================================================================
