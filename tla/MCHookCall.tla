----------------------------- MODULE MCHookCall -----------------------------
(***************************************************************************)
(* HookCall for TLC.                                                       *)
(***************************************************************************)
EXTENDS HookCall

CONSTANT c1

\* A short branch over a stack check that passes, or over one that may find
\* the stack too small, and a test that releases while others call.
ShortMode == [short |-> TRUE, stops |-> TRUE, cut |-> FALSE, grows |-> FALSE,
              rebuilds |-> FALSE, joins |-> FALSE]
GrowingMode == [ShortMode EXCEPT !.grows = TRUE]
\* The same over the code of a function that checks no stack.
LeafMode == [ShortMode EXCEPT !.cut = TRUE]
\* The same without a stop of the world, and rebuilt while in effect.
UnstoppedMode == [LeafMode EXCEPT !.stops = FALSE, !.rebuilds = TRUE]
\* A legacy branch, with and without waiting for the goroutines.
LegacyMode == [LeafMode EXCEPT !.short = FALSE]
JoinedMode == [LegacyMode EXCEPT !.joins = TRUE, !.rebuilds = TRUE,
                                 !.grows = TRUE]

AllModes == {ShortMode, GrowingMode, LeafMode, UnstoppedMode, LegacyMode, JoinedMode}

\* Where the stack grows under a test that does not wait, one goroutine calls:
\* it meets the entry, the hook and the prefix again and again.
MCNext ==
  /\ Next
  /\ mode.grows /\ ~mode.joins => \A c \in Callers \ {c1} : calls'[c] = 0
MCSpec == Init /\ [][MCNext]_vars /\ Fairness
=============================================================================
