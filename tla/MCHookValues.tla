--------------------------- MODULE MCHookValues ---------------------------
(* What a mocked call takes in and what it gives back, one part at a time: *)
(* the arguments on their way through the hook, or a sequence of results   *)
(* that several goroutines share.  It does not matter which of the stacks  *)
(* the first call finds.                                                   *)
EXTENDS MCHookArgs, ReturnSequence

VARIABLE part

allVars == <<part, argsVars, vars>>

MCInit ==
  /\ part \in {"arguments", "results"}
  /\ ArgsInit /\ Init
  /\ stack = (CHOOSE s \in Stacks : TRUE)
  /\ part = "results" => setup = (CHOOSE s \in Setups : TRUE)

MCNext ==
  /\ \/ part = "arguments" /\ ArgsNext /\ UNCHANGED vars
     \/ part = "results" /\ Next /\ UNCHANGED argsVars
  /\ UNCHANGED part

MCSpec ==
  /\ MCInit /\ [][MCNext]_allVars
  /\ \A c \in Callers : WF_vars(GetNext(c)) /\ SF_vars(Lock(c))
===========================================================================
