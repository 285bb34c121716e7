---------------------------- MODULE CodeRedemption ----------------------------
(***************************************************************************)
(* What the hosted sign-in promises about authorization codes, which are   *)
(* single-use (signin.ts:211-220): each is presented to the token server   *)
(* at most once, and only an account whose code was presented gets saved.  *)
(***************************************************************************)
EXTENDS Integers, Sequences

VARIABLES
  presented,    \* how often each flow's code was presented
  saved         \* the flow whose account is saved, or 0

NoAccount == 0

Init == presented = <<>> /\ saved = NoAccount

Mint == presented' = Append(presented, 0) /\ UNCHANGED saved

Present(f) == /\ presented[f] = 0
              /\ presented' = [presented EXCEPT ![f] = 1]
              /\ UNCHANGED saved

Save(f) == /\ presented[f] = 1
           /\ saved' = f
           /\ UNCHANGED presented

Next == Mint \/ \E f \in DOMAIN presented : Present(f) \/ Save(f)

Spec == Init /\ [][Next]_<<presented, saved>>

===============================================================================
