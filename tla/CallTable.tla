------------------------------ MODULE CallTable ------------------------------
(***************************************************************************)
(* What the bridge promises its callers: calls are numbered, a call waits  *)
(* until it settles, and it settles once, with the answer to that very     *)
(* call or with an error.                                                  *)
(***************************************************************************)
EXTENDS Integers

CONSTANT Errors    \* how a call may fail

VARIABLES
  made,         \* how many calls were made
  waiting,      \* those that wait
  results       \* what the others came to: [id, result]

Answer(id) == [how |-> "answer", id |-> id]
Failure(error) == [how |-> error, id |-> 0]

Init == made = 0 /\ waiting = {} /\ results = {}

Begin ==
  /\ made' = made + 1 /\ waiting' = waiting \cup {made'}
  /\ UNCHANGED results

\* A call that cannot be sent does not wait.
BeginInVain(error) ==
  /\ made' = made + 1 /\ results' = results \cup {[id |-> made', result |-> Failure(error)]}
  /\ UNCHANGED waiting

Settle(ids, result) ==
  /\ ids # {} /\ ids \subseteq waiting
  /\ waiting' = waiting \ ids
  /\ results' = results \cup {[id |-> id, result |-> result] : id \in ids}
  /\ UNCHANGED made

Next ==
  \/ Begin
  \/ \E id \in waiting : Settle({id}, Answer(id))
  \/ \E error \in Errors :
       \/ BeginInVain(error)
       \/ Settle(waiting, Failure(error))
       \/ \E id \in waiting : Settle({id}, Failure(error))

Spec == Init /\ [][Next]_<<made, waiting, results>>

=============================================================================
