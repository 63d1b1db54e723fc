----------------------------- MODULE MockScopes -----------------------------
(***************************************************************************)
(* What the mock registry promises a test that obeys the rules of use:     *)
(* nested scopes of mocks, in which a call is answered by the mock of the  *)
(* innermost scope that has one, and in which a scope that ends has taken  *)
(* its own mocks with it and no others (src/global.go:48-59, 90-134).      *)
(* Nothing is said of entries, branches and saved bytes: MockLifecycle     *)
(* implements this with them.                                              *)
(***************************************************************************)
EXTENDS Naturals, Sequences

CONSTANTS Keys, Mockers, Orig, NoMocker

VARIABLES
  scopes,  \* the stack of scopes, each a partial map from functions to mocks
  answer   \* what a call of each function is answered by

vars == <<scopes, answer>>

NoMocks == [k \in Keys |-> NoMocker]
Last == Len(scopes)

\* The answer follows the scopes in every step.
InnermostOf(s, k) ==
  LET Levels == {i \in 1..Len(s) : s[i][k] # NoMocker}
  IN IF Levels = {} THEN Orig
     ELSE s[CHOOSE i \in Levels : \A j \in Levels : j <= i][k]
Answered == answer' = [k \in Keys |-> InnermostOf(scopes', k)]

Init == scopes = <<NoMocks>> /\ answer = [k \in Keys |-> Orig]

Mock(k, m) ==
  /\ scopes[Last][k] = NoMocker
  /\ \A i \in 1..Last, l \in Keys : scopes[i][l] # m
  /\ scopes' = [scopes EXCEPT ![Last] = [@ EXCEPT ![k] = m]]
  /\ Answered

Unmock(k) ==
  /\ scopes[Last][k] # NoMocker
  /\ scopes' = [scopes EXCEPT ![Last] = [@ EXCEPT ![k] = NoMocker]]
  /\ Answered

Enter == scopes' = Append(scopes, NoMocks) /\ Answered

Leave ==
  /\ Last > 1
  /\ scopes[Last] = NoMocks
  /\ scopes' = SubSeq(scopes, 1, Last - 1)
  /\ Answered

Next ==
  \/ \E k \in Keys, m \in Mockers : Mock(k, m)
  \/ \E k \in Keys : Unmock(k)
  \/ Enter \/ Leave

Spec == Init /\ [][Next]_vars
=============================================================================
