-------------------------------- MODULE Bridge --------------------------------
(***************************************************************************)
(* The native messaging bridge: the client in the worker                   *)
(* (src/src/bridge/client.ts), the host process (src/bridge/host.mjs), and *)
(* Chrome's port between them, which starts the host and kills it.         *)
(*                                                                         *)
(* To the host a request is bytes, length first, that arrive in any        *)
(* pieces; it decodes what is whole and works on several requests at once, *)
(* each ending when it does.  To the client an answer is a message.        *)
(*                                                                         *)
(* What stands for what.  A request is its id and the bytes of its body; a *)
(* byte is the request it is of and its place in the frame.  What a method *)
(* does is left out but for how it ends.                                   *)
(***************************************************************************)
EXTENDS Integers, Sequences, FiniteSets

CONSTANTS
  Prefix,        \* bytes of the length before each body: 4 in the code
  MaxMessage,    \* the longest body the host takes: MAX_MESSAGE_BYTES
  Sizes,         \* the lengths of bodies there are
  MaxCalls,      \* bound: calls made
  MaxLosses      \* bound: ports closed and hosts gone

ASSUME BridgeAssumption ==
  Prefix \in Nat \ {0} /\ MaxMessage \in Nat /\ Sizes \subseteq Nat /\ MaxCalls \in Nat /\ MaxLosses \in Nat

VARIABLES
  open,          \* client: is there a port
  pending, timers, \* client: the calls that wait, and whose timer runs
  calls,         \* how each call has settled
  up,            \* is the host of the port alive
  pipe, buffer,  \* bytes on their way to the host, and in its decoder
  work,          \* the requests the host works on
  answers,       \* answers on their way to the client
  sent, decoded, \* history: the requests sent to this host, and those it decoded
  losses

client == <<open, pending, timers, calls>>
host == <<up, pipe, buffer, work, answers, sent, decoded>>
bridgeVars == <<client, host, losses>>

Waiting == [how |-> "waiting", id |-> 0]
Answer(id) == [how |-> "answer", id |-> id]
Failure(error) == [how |-> error, id |-> 0]
Errors == {"refused", "timeout", "unavailable", "closed"}
Frame(m) == [k \in 1..(Prefix + m.size) |-> [of |-> m, at |-> k]]

BridgeInit ==
  /\ open = FALSE /\ pending = {} /\ timers = {} /\ calls = <<>>
  /\ up = FALSE /\ pipe = <<>> /\ buffer = <<>> /\ work = {} /\ answers = <<>>
  /\ sent = <<>> /\ decoded = <<>> /\ losses = 0

-----------------------------------------------------------------------------
\* The client.

\* A promise that is settled stays as it is.
Settle(ids, how) ==
  calls' = [id \in DOMAIN calls |-> IF id \in ids /\ calls[id] = Waiting THEN how ELSE calls[id]]

\* call, over the port there is or a new one.  A port that cannot be opened refuses
\* the call before it has a number, which changes nothing.
Call(size) ==
  /\ Len(calls) < MaxCalls
  /\ LET id == Len(calls) + 1
         m == [id |-> id, size |-> size] IN
     /\ calls' = Append(calls, Waiting)
     /\ pending' = pending \cup {id} /\ timers' = timers \cup {id}
     /\ open' = TRUE
     /\ IF open
          THEN /\ pipe' = IF up THEN pipe \o Frame(m) ELSE pipe
               /\ sent' = IF up THEN Append(sent, m) ELSE sent
               /\ UNCHANGED <<up, buffer, work, answers, decoded>>
          ELSE /\ up' \in BOOLEAN    \* no host is installed, or it does not start
               /\ pipe' = (IF up' THEN Frame(m) ELSE <<>>) /\ sent' = (IF up' THEN <<m>> ELSE <<>>)
               /\ buffer' = <<>> /\ work' = {} /\ answers' = <<>> /\ decoded' = <<>>
  /\ UNCHANGED losses

\* postMessage throws.
CallFails ==
  /\ open /\ ~up /\ Len(calls) < MaxCalls
  /\ calls' = Append(calls, Failure("unavailable"))
  /\ UNCHANGED <<open, pending, timers, host, losses>>

\* A faulty variant: the answer goes to the call that waits longest.
OnMessage_First ==
  /\ open /\ answers # <<>> /\ answers' = Tail(answers)
  /\ LET message == Head(answers)
         id == CHOOSE i \in pending \cup {0} : pending # {} => i # 0 /\ \A j \in pending : i <= j IN
     IF pending = {} THEN UNCHANGED <<pending, timers, calls>>
     ELSE /\ pending' = pending \ {id} /\ timers' = timers \ {id}
          /\ Settle({id}, IF message.ok THEN Answer(message.id) ELSE Failure("refused"))
  /\ UNCHANGED <<open, up, pipe, buffer, work, sent, decoded, losses>>

\* An answer to a call that no longer waits is dropped.
OnMessage ==
  /\ open /\ answers # <<>> /\ answers' = Tail(answers)
  /\ LET message == Head(answers) IN
     IF message.id \notin pending THEN UNCHANGED <<pending, timers, calls>>
     ELSE /\ pending' = pending \ {message.id} /\ timers' = timers \ {message.id}
          /\ Settle({message.id}, IF message.ok THEN Answer(message.id) ELSE Failure("refused"))
  /\ UNCHANGED <<open, up, pipe, buffer, work, sent, decoded, losses>>

\* A faulty variant: the call is left in the table.
Timeout_Keeps(id) ==
  /\ id \in timers
  /\ timers' = timers \ {id}
  /\ Settle({id}, Failure("timeout"))
  /\ UNCHANGED <<open, pending, host, losses>>

Timeout(id) ==
  /\ id \in timers
  /\ timers' = timers \ {id} /\ pending' = pending \ {id}
  /\ Settle({id}, Failure("timeout"))
  /\ UNCHANGED <<open, host, losses>>

\* A faulty variant: the timers run on.
Teardown_KeepsTimers(error) ==
  /\ Settle(pending, Failure(error))
  /\ pending' = {} /\ UNCHANGED timers

Teardown(error) ==
  /\ Settle(pending, Failure(error))
  /\ pending' = {} /\ timers' = timers \ pending

\* The port tells that its host is gone, after what the host still said.
OnDisconnect ==
  /\ open /\ ~up /\ answers = <<>>
  /\ open' = FALSE
  /\ \E error \in {"unavailable", "closed"} : Teardown(error)
  /\ UNCHANGED <<host, losses>>

\* disconnect, which ends the host; of it the client hears nothing more.
Disconnect ==
  /\ open /\ losses < MaxLosses /\ losses' = losses + 1
  /\ open' = FALSE /\ Teardown("closed")
  /\ up' = FALSE
  /\ UNCHANGED <<pipe, buffer, work, answers, sent, decoded>>

-----------------------------------------------------------------------------
\* The host.

Whole(bytes) == Len(bytes) >= Prefix /\ Len(bytes) >= Prefix + bytes[1].of.size
Refused(bytes) == Len(bytes) >= Prefix /\ bytes[1].of.size > MaxMessage
After(bytes) == SubSeq(bytes, Prefix + bytes[1].of.size + 1, Len(bytes))

\* One turn of the decoder's loop: the first message, if it is whole and not refused.
Turn(d) ==
  IF Refused(d.rest) THEN [d EXCEPT !.ok = FALSE]
  ELSE IF ~Whole(d.rest) THEN d
  ELSE [d EXCEPT !.messages = Append(@, d.rest[1].of), !.rest = After(@)]

\* A faulty variant: one message for each chunk.
Push_One(bytes) == Turn([messages |-> <<>>, rest |-> bytes, ok |-> TRUE])

\* MessageDecoder.push on what is buffered: the whole messages, and the rest; not ok
\* when a length is refused.  Every turn but the last takes a byte or more.
Push(bytes) ==
  LET turns[k \in 0..Len(bytes)] ==
        IF k = 0 THEN [messages |-> <<>>, rest |-> bytes, ok |-> TRUE] ELSE Turn(turns[k - 1])
  IN turns[Len(bytes)]

\* main, on data: what was decoded before a refused length is lost with it.
Data(n) ==
  /\ up
  /\ LET pushed == Push(buffer \o SubSeq(pipe, 1, n)) IN
     /\ pipe' = SubSeq(pipe, n + 1, Len(pipe))
     /\ buffer' = pushed.rest
     /\ up' = pushed.ok
     /\ IF pushed.ok
          THEN /\ decoded' = decoded \o pushed.messages
               /\ work' = work \cup {pushed.messages[i].id : i \in DOMAIN pushed.messages}
               /\ UNCHANGED answers
          ELSE answers' = Append(answers, [id |-> 0, ok |-> FALSE]) /\ UNCHANGED <<decoded, work>>
  /\ UNCHANGED <<client, sent, losses>>

\* handle has ended, well or badly.
Handled(id) ==
  /\ up /\ id \in work
  /\ work' = work \ {id}
  /\ \E ok \in BOOLEAN : answers' = Append(answers, [id |-> id, ok |-> ok])
  /\ UNCHANGED <<client, up, pipe, buffer, sent, decoded, losses>>

HostDies ==
  /\ open /\ up /\ losses < MaxLosses /\ losses' = losses + 1
  /\ up' = FALSE
  /\ UNCHANGED <<client, pipe, buffer, work, answers, sent, decoded>>

-----------------------------------------------------------------------------
BridgeNext ==
  \/ \E size \in Sizes : Call(size)
  \/ CallFails \/ OnMessage \/ OnDisconnect \/ Disconnect \/ HostDies
  \/ \E id \in DOMAIN calls : Timeout(id) \/ Handled(id)
  \/ \E n \in DOMAIN pipe : Data(n)

BridgeSpec == BridgeInit /\ [][BridgeNext]_bridgeVars

-----------------------------------------------------------------------------
\* Properties.

Ids == 1..MaxCalls
Messages == [id: Ids, size: Sizes]

\* The values of the variables, and no answer of a host to what was not asked of it.
BridgeTypeOK ==
  /\ {open, up} \subseteq BOOLEAN /\ {pending, timers, work} \subseteq SUBSET DOMAIN calls
  /\ \A id \in DOMAIN calls :
       calls[id] \in {Waiting} \cup {Failure(error) : error \in Errors} \cup {Answer(i) : i \in Ids}
  /\ {sent, decoded} \subseteq Seq(Messages) /\ losses \in 0..MaxLosses
  /\ \A i \in DOMAIN answers : IF up THEN \E k \in DOMAIN decoded : decoded[k].id = answers[i].id
                             ELSE answers[i].id \in {0} \cup Ids

\* A timer runs for the calls that wait and no others, whichever of answer, timeout
\* and end of the port came first (client.ts:154-201).
TimersAreExact == timers = {id \in DOMAIN calls : calls[id] = Waiting}

Bytes(messages) ==
  LET all[n \in 0..Len(messages)] == IF n = 0 THEN <<>> ELSE all[n - 1] \o Frame(messages[n]) IN all[Len(messages)]

\* However the bytes come, the host decodes what was sent, in order and once, and
\* holds back no message that is whole (host.mjs:40-69); it answers what it decoded.
FramesAreExact ==
  BridgeTypeOK /\ (up => Bytes(sent) = Bytes(decoded) \o buffer \o pipe /\ ~Whole(buffer))

\* Every call waits in the client's table until it settles, once, with its own answer
\* or an error.
Results == {[id |-> id, result |-> calls[id]] : id \in {i \in DOMAIN calls : calls[i] # Waiting}}
Table == INSTANCE CallTable WITH
  Errors <- Errors, made <- Len(calls), waiting <- pending, results <- Results
SettlesOnce == Table!Spec

=============================================================================
