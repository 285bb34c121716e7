------------------------------- MODULE Versions -------------------------------
(***************************************************************************)
(* Chrome extension versions (src/src/update/version.ts): one to four      *)
(* numbers, compared component by component.  A version is the sequence of *)
(* its components as parsed; what does not parse is any other sequence.    *)
(***************************************************************************)
EXTENDS Integers, Sequences

MaxComponent == 65535
MaxComponents == 4

isValidVersion(v) ==
  /\ Len(v) \in 1..MaxComponents
  /\ \A i \in 1..Len(v) : v[i] \in 0..MaxComponent

\* A missing component counts as zero.
Component(v, i) == IF i <= Len(v) THEN v[i] ELSE 0

\* a is below b at i, the first component in which they differ.
BelowAt(a, b, i) ==
  /\ Component(a, i) < Component(b, i)
  /\ \A j \in 1..(i - 1) : Component(a, j) = Component(b, j)

Below(a, b) == \E i \in 1..MaxComponents : BelowAt(a, b, i)

compareVersions(a, b) == IF Below(a, b) THEN -1 ELSE IF Below(b, a) THEN 1 ELSE 0

\* False, and never an error, when either is malformed.
isNewer(candidate, current) ==
  isValidVersion(candidate) /\ isValidVersion(current) /\ compareVersions(candidate, current) = 1

=============================================================================
