--------------------------- MODULE MockLifecycle ---------------------------
(***************************************************************************)
(* The life of function mocks: Mocker.Patch, UnPatch and rePatch of        *)
(* src/mock.go, the registry of src/global.go, and what they do to the     *)
(* entry of the mocked function (src/internal/monkey/patch.go).            *)
(*                                                                         *)
(* Patching overwrites the entry of a function with a jump to the mocker's *)
(* hook and keeps what the entry held before: in Patch.original, to be     *)
(* written back, and relocated in front of the mocker's proxy, to be       *)
(* called as the "original".  Both copies are one variable here, original: *)
(* the two always stand for the same bytes.  Mocking a function that is    *)
(* mocked already (in an outer context, or through another instance of the *)
(* same generic shape) therefore builds a chain                            *)
(*        entry -> newest mocker -> ... -> oldest mocker -> Orig           *)
(* which exists only in these saved bytes: nothing in the code represents  *)
(* it, and UnPatch writes its own saved bytes back without looking.        *)
(*                                                                         *)
(* gMocker is a stack of maps, one per open PatchConvey/PatchRun plus the  *)
(* process-wide one at the bottom.  All of this runs on one test           *)
(* goroutine; what other goroutines see is the subject of HookCall.        *)
(*                                                                         *)
(* A hook is identified with its mocker (rebuilding replaces the one by    *)
(* the other), and the call counters are left to HookCall.                 *)
(***************************************************************************)
EXTENDS Naturals, Sequences, FiniteSets

CONSTANTS
  Mockers,    \* the *Mocker values the test builds, each at most once
  Keys,       \* mocked functions as key() tells them apart
  Addrs,      \* code addresses that get patched
  target,     \* the function each mocker mocks
  addr,       \* where RuntimeTargetValue finds its code; generic instances
              \* of one gcshape share it
  MaxDepth,   \* bound: length of gMocker, the bottom map included
  Rules,      \* the rules of use the test obeys, see below
  Orig,       \* the function's own code
  NoMocker    \* absence of a key in a map of gMocker

(***************************************************************************)
(* Rules of use.  The documentation asks two of a test:                    *)
(*   "lifo"    manual release in last-in-first-out order (README.md:226)   *)
(*   "once"    a function is mocked once per context (README.md:921)       *)
(* Two more are written nowhere.  They leave out uses with which the code  *)
(* does not keep what the documentation promises, each shown by a run:     *)
(*   "own"     a mocker is released or rebuilt in the context it belongs   *)
(*             to; a rebuild elsewhere changes the context (mock.go:411)   *)
(*   "manual"  a context whose mocks share an entry releases them by hand  *)
(*             before it ends; its own loop follows map order, which is    *)
(*             seldom last-in-first-out (global.go:84)                     *)
(***************************************************************************)
AllRules == {"lifo", "once", "own", "manual"}

ASSUME TargetAssumption == target \in [Mockers -> Keys]
ASSUME AddrAssumption == addr \in [Keys -> Addrs]
ASSUME ValueAssumption == Orig \notin Mockers /\ NoMocker \notin Mockers
ASSUME DepthAssumption == MaxDepth \in Nat \ {0}
ASSUME MockersAssumption == IsFiniteSet(Mockers)

VARIABLES
  handle,     \* "none": not built, "held": Build returned it to the test,
              \* "lost": Build panicked, so nobody has it
  isPatched,  \* Mocker.isPatched
  original,   \* what Patch.original and the proxy hold
  entry,      \* what the code at each address jumps to
  gMocker,    \* the stack of registries
  cleanup     \* the loop over the last map that is running, if any

vars == <<handle, isPatched, original, entry, gMocker, cleanup>>

NoCleanup == [why |-> "idle", todo |-> {}]
Maps == [Keys -> Mockers \cup {NoMocker}]
EmptyMap == [k \in Keys |-> NoMocker]
Depth == Len(gMocker)
Current == gMocker[Depth]
At(m) == addr[target[m]]

\* The mockers whose branch is somewhere in the chain of an address.
Live(a) == {m \in Mockers : isPatched[m] /\ At(m) = a}
\* Nothing was patched on top of m since m was.
TopMost(m) == \A n \in Live(At(m)) : original[n] # m
SharesEntry(map) ==
  \E k, l \in Keys : /\ k # l /\ addr[k] = addr[l]
                     /\ map[k] # NoMocker /\ map[l] # NoMocker

-----------------------------------------------------------------------------
(* What the handlers are made of.                                          *)

\* Mutants of the next definition: the bytes are saved after the branch was
\* written; the bytes of an earlier patch are kept.
SavesLate(m) ==
  /\ original' = [original EXCEPT ![m] = m]
  /\ entry' = [entry EXCEPT ![At(m)] = m]
  /\ isPatched' = [isPatched EXCEPT ![m] = TRUE]
KeepsSavedBytes(m) ==
  /\ original' = IF original[m] # Orig THEN original
                 ELSE [original EXCEPT ![m] = entry[At(m)]]
  /\ entry' = [entry EXCEPT ![At(m)] = m]
  /\ isPatched' = [isPatched EXCEPT ![m] = TRUE]

WriteBranch(m) ==
  /\ original' = [original EXCEPT ![m] = entry[At(m)]]
  /\ entry' = [entry EXCEPT ![At(m)] = m]
  /\ isPatched' = [isPatched EXCEPT ![m] = TRUE]

\* Mutant: the function's own code is written back, whatever was there.
WritesOwnCode(m) ==
  /\ entry' = [entry EXCEPT ![At(m)] = Orig]
  /\ isPatched' = [isPatched EXCEPT ![m] = FALSE]
  /\ UNCHANGED original

WriteBack(m) ==
  /\ entry' = [entry EXCEPT ![At(m)] = original[m]]
  /\ isPatched' = [isPatched EXCEPT ![m] = FALSE]
  /\ UNCHANGED original

\* addToGlobal panics when the key is there, and leaves the map as it was.
Remocks(m) == Current[target[m]] # NoMocker
addToGlobal(m) ==
  gMocker' = IF Remocks(m) THEN gMocker
             ELSE [gMocker EXCEPT ![Depth] = [@ EXCEPT ![target[m]] = m]]

\* Mutant: the key stays.
ForgetsToRemove(m) == UNCHANGED gMocker

\* By key, whoever is registered under it, and only in the last map.
removeFromGlobal(m) ==
  gMocker' = [gMocker EXCEPT ![Depth] = [@ EXCEPT ![target[m]] = NoMocker]]

\* The test goroutine is running test code, not a loop over the last map.
InTest == cleanup = NoCleanup

ObeysOnce(m) == "once" \in Rules => ~Remocks(m)
ObeysOwn(m) == "own" \in Rules => Current[target[m]] = m
ObeysLifo(m) == "lifo" \in Rules => TopMost(m)

-----------------------------------------------------------------------------
Init ==
  /\ handle = [m \in Mockers |-> "none"]
  /\ isPatched = [m \in Mockers |-> FALSE]
  /\ original = [m \in Mockers |-> Orig]
  /\ entry = [a \in Addrs |-> Orig]
  /\ gMocker = <<EmptyMap>>
  /\ cleanup = NoCleanup

\* MockBuilder.Build.  The entry is patched before the registry is asked: when
\* addToGlobal panics, the branch stays and the mocker is never returned.
Build(m) ==
  /\ InTest
  /\ handle[m] = "none"
  /\ ObeysOnce(m)
  /\ WriteBranch(m)
  /\ addToGlobal(m)
  /\ handle' = [handle EXCEPT ![m] = IF Remocks(m) THEN "lost" ELSE "held"]
  /\ UNCHANGED cleanup

\* Patch on a mocker that was released; on a patched one it returns at once.
Patch(m) ==
  /\ InTest
  /\ handle[m] = "held"
  /\ ~isPatched[m]
  /\ ObeysOnce(m)
  /\ WriteBranch(m)
  /\ addToGlobal(m)
  /\ UNCHANGED <<handle, cleanup>>

\* UnPatch, Release, and a rePatch whose do() panics before it patches again.
UnPatch(m) ==
  /\ InTest
  /\ handle[m] = "held"
  /\ isPatched[m]
  /\ ObeysOwn(m)
  /\ ObeysLifo(m)
  /\ WriteBack(m)
  /\ removeFromGlobal(m)
  /\ UNCHANGED <<handle, cleanup>>

\* rePatch of a patched mocker (To, Return, When, Origin, the goroutine
\* filters): UnPatch writes original[m] back and deletes the key, Patch saves
\* that same value and registers m in the last map, wherever m was before.
RePatch(m) ==
  /\ InTest
  /\ handle[m] = "held"
  /\ isPatched[m]
  /\ ObeysOwn(m)
  /\ ObeysLifo(m)
  /\ entry' = [entry EXCEPT ![At(m)] = m]
  /\ gMocker' = [gMocker EXCEPT ![Depth] = [@ EXCEPT ![target[m]] = m]]
  /\ UNCHANGED <<handle, isPatched, original, cleanup>>

\* PatchConvey and PatchRun, up to the call of the test's function.
EnterContext ==
  /\ InTest
  /\ Depth < MaxDepth
  /\ gMocker' = Append(gMocker, EmptyMap)
  /\ UNCHANGED <<handle, isPatched, original, entry, cleanup>>

StartLoop(why) ==
  /\ InTest
  /\ "manual" \in Rules => ~SharesEntry(Current)
  /\ cleanup' = [why |-> why, todo |-> {k \in Keys : Current[k] # NoMocker}]
  /\ UNCHANGED <<handle, isPatched, original, entry, gMocker>>

\* The deferred function of a context, reached by a return or by a panic.
LeaveContext == Depth > 1 /\ StartLoop("leave")

UnPatchAll == StartLoop("all")

\* One iteration of the range over the last map, whose order is random.  A
\* stale registration, whose mocker is not patched, makes UnPatch return at
\* once and stays in the map.
CleanupStep(k) ==
  /\ k \in cleanup.todo
  /\ cleanup' = [cleanup EXCEPT !.todo = @ \ {k}]
  /\ LET m == Current[k] IN
       IF isPatched[m]
         THEN WriteBack(m) /\ removeFromGlobal(m)
         ELSE UNCHANGED <<isPatched, original, entry, gMocker>>
  /\ UNCHANGED handle

\* Mutants: every loop takes a map off; the wrong end of the stack goes.
AlwaysPops ==
  /\ ~InTest
  /\ cleanup.todo = {}
  /\ cleanup' = NoCleanup
  /\ gMocker' = SubSeq(gMocker, 1, Depth - 1)
  /\ UNCHANGED <<handle, isPatched, original, entry>>
PopsBottom ==
  /\ ~InTest
  /\ cleanup.todo = {}
  /\ cleanup' = NoCleanup
  /\ gMocker' = IF cleanup.why = "leave" THEN Tail(gMocker) ELSE gMocker
  /\ UNCHANGED <<handle, isPatched, original, entry>>

CleanupEnd ==
  /\ ~InTest
  /\ cleanup.todo = {}
  /\ cleanup' = NoCleanup
  /\ gMocker' = IF cleanup.why = "leave"
                  THEN SubSeq(gMocker, 1, Depth - 1) ELSE gMocker
  /\ UNCHANGED <<handle, isPatched, original, entry>>

Next ==
  \/ \E m \in Mockers : Build(m) \/ Patch(m) \/ UnPatch(m) \/ RePatch(m)
  \/ EnterContext \/ LeaveContext \/ UnPatchAll \/ CleanupEnd
  \/ \E k \in Keys : CleanupStep(k)

Spec == Init /\ [][Next]_vars

-----------------------------------------------------------------------------
(* What a call of a mocked function reaches.                               *)

Patched == {m \in Mockers : isPatched[m]}

\* The n-th stop of a call that every mocker on the way passes on.
Hop(a) ==
  LET hop[n \in Nat] ==
        IF n = 0 THEN entry[a]
        ELSE IF hop[n-1] \in Mockers THEN original[hop[n-1]] ELSE Orig
  IN hop

\* A hook passes on the calls of other instances of its generic shape
\* (GenericInfo.Equal) and answers those of its own target.
Answers(f, k) == f \in Mockers => target[f] = k
Reached(k) ==
  LET Stops == {n \in 0..Cardinality(Patched) : Answers(Hop(addr[k])[n], k)}
  IN IF Stops = {} THEN "lost"
     ELSE Hop(addr[k])[CHOOSE n \in Stops : \A l \in Stops : n <= l]

-----------------------------------------------------------------------------
(* Types; the registry is never empty and never deeper than its bound.     *)

TypeOK ==
  /\ handle \in [Mockers -> {"none", "held", "lost"}]
  /\ isPatched \in [Mockers -> BOOLEAN]
  /\ original \in [Mockers -> Mockers \cup {Orig}]
  /\ entry \in [Addrs -> Mockers \cup {Orig}]
  /\ gMocker \in Seq(Maps) /\ Depth \in 1..MaxDepth
  /\ cleanup \in [why : {"idle", "leave", "all"}, todo : SUBSET Keys]

\* Every patched mocker is registered in exactly one map, under its own key,
\* and every registered mocker is patched: so that some context is going to
\* release it, and only one.  addToGlobal, removeFromGlobal and isPatched are
\* written at different moments and the maps are addressed by key alone.
RegisteredExactlyWhilePatched ==
  /\ \A i \in 1..Depth, k \in Keys :
       gMocker[i][k] # NoMocker =>
         target[gMocker[i][k]] = k /\ isPatched[gMocker[i][k]]
  /\ \A m \in Mockers : isPatched[m] =>
       \E i \in 1..Depth :
         \A j \in 1..Depth : gMocker[j][target[m]] = m <=> j = i

\* The saved bytes of an address form one chain: a call that every mocker on the
\* way passes on comes to the live mockers and to Orig and to nothing else.  A
\* mocker that it does not come to can never be called; a released one that it
\* comes to runs after its release; in a cycle it never comes to Orig.
Chained(a) ==
  {Hop(a)[n] : n \in 0..Cardinality(Patched)} = Live(a) \cup {Orig}
ChainIsSound == \A a \in Addrs : Chained(a)

\* A function with an entry of its own is itself again as soon as no context
\* holds a mock of it, whatever order the loops of the contexts followed.
FreeFunctionsAreOriginal ==
  \A k \in Keys :
    /\ \A l \in Keys : addr[l] = addr[k] => l = k
    /\ \A i \in 1..Depth : gMocker[i][k] = NoMocker
    => entry[addr[k]] = Orig

\* What is promised of all functions: once no context holds a mock, every
\* function is itself again.  "All mocks are automatically cleaned up here ...
\* Returns original value" (global.go:112-113).
NothingHeldNothingMocked ==
  (\A i \in 1..Depth, k \in Keys : gMocker[i][k] = NoMocker)
    => \A a \in Addrs : entry[a] = Orig

\* The order of the saved bytes agrees with the nesting of contexts, which is
\* why leaving the innermost one never takes a branch from under an outer one.
ChainFollowsNesting ==
  \A i, j \in 1..Depth, m, n \in Mockers :
    /\ isPatched[m] /\ isPatched[n]
    /\ gMocker[i][target[m]] = m /\ gMocker[j][target[n]] = n
    /\ original[n] = m
    => i <= j

\* What is promised of nested contexts: the loop over the last map releases no
\* mock that an enclosing context holds.  "Supports nested contexts, where each
\* level only cleans up its own mocks" (global.go:53).
CleanupSparesOuterMocks ==
  [][~InTest =>
       \A i \in 1..(Depth - 1), k \in Keys :
         LET m == gMocker[i][k]
         IN m # NoMocker /\ isPatched[m] => isPatched'[m]]_vars

-----------------------------------------------------------------------------
(* The nested scopes of mocks that the registry and the entries implement. *)

Scopes == INSTANCE MockScopes WITH
  scopes <- gMocker, answer <- [k \in Keys |-> Reached(k)]

\* A test that obeys the rules sees nested scopes of mocks and nothing else,
\* whatever order the loops over the maps take.
ImplementsScopes == Scopes!Spec
=============================================================================
