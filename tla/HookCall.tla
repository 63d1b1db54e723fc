------------------------------ MODULE HookCall ------------------------------
(***************************************************************************)
(* Calls of a mocked function on other goroutines, while the test          *)
(* goroutine patches, releases and rebuilds the one mocker of it.          *)
(*                                                                         *)
(* Patch number g writes a branch over the entry.  On the short path the   *)
(* branch leads through a relay in page g, on the legacy path straight to  *)
(* the hook; on both the displaced prefix of the function is in page g and *)
(* is called through mocker.proxy, which the hook reads at the moment it   *)
(* needs the original (src/mock.go:220-222).  Unpatch restores the entry   *)
(* and then unmaps page g (legacy) or retires it (short).                  *)
(*                                                                         *)
(* Page code belongs to no Go function, so the runtime cannot stop a       *)
(* goroutine there: a stop of the world waits until it has left.  A build  *)
(* with the tag mockey_disable_stw does not stop the world at all.         *)
(*                                                                         *)
(* The bytes that are written over hold more than one instruction, both    *)
(* the function's own and a legacy branch's, and the writer does not look  *)
(* for goroutines between them: one that stands there goes on in the       *)
(* middle of what has been written.                                        *)
(***************************************************************************)
EXTENDS Naturals, FiniteSets

CONSTANTS
  Callers,      \* goroutines that call the function
  Modes,        \* the functions, builds and tests to look at, see Mode
  MaxPatches,   \* bound: patches in the life of the mocker
  MaxCalls,     \* bound: calls per goroutine
  MaxFrames,    \* bound: hooks of one goroutine that are told apart
  MaxTimes      \* bound: where the model's two counters stay

Mode == [
  short : BOOLEAN,     \* the entry gets a short branch into a relay
  stops : BOOLEAN,     \* FALSE: built with mockey_disable_stw
  cut : BOOLEAN,       \* the runtime can stop a goroutine between two of the
                       \* instructions that are written over; FALSE where
                       \* they are a stack check, which it waits for
  grows : BOOLEAN,     \* a stack check is among them; it may find the stack
                       \* too small, or be told so to make the goroutine
                       \* yield
  rebuilds : BOOLEAN,  \* the test changes the mock while it is in effect
  joins : BOOLEAN]     \* the test waits for its goroutines before it does

ASSUME BoundsAssumption ==
  MaxPatches \in Nat /\ MaxCalls \in Nat /\ MaxFrames \in Nat \ {0}
  /\ MaxTimes \in Nat
ASSUME ModeAssumption ==
  Modes \subseteq Mode

VARIABLES
  mode,       \* fixed in the first state
  entry,      \* 0: the function's own code, g: branch of patch g
  torn,       \* the entry is half written
  page,       \* what became of the page of each patch
  proxy,      \* mocker.proxy.Elem(): 0 is nil, g the code in page g
  patches,    \* patches so far; the mocker's page is the last one
  tester,     \* where the test goroutine is
  rebuilding, \* the release under way is the first half of a rePatch
  world,      \* "running", "stopping" or "stopped"
  pc,         \* where each goroutine is in its call
  at,         \* the page it is in, or is on its way to; in the entry, what
              \* the entry was when it came
  frames,     \* how many hooks it is inside of
  calls,      \* calls it has made
  times, mockTimes

testerVars ==
  <<mode, entry, torn, page, proxy, patches, tester, rebuilding, world>>
callerVars == <<pc, at, frames, calls>>
counters == <<times, mockTimes>>
vars == <<testerVars, callerVars, counters>>

Patches == 1..MaxPatches
InPage == {"relay", "prefix"}
\* Code the runtime cannot stop a goroutine in.
Unstoppable == IF mode.cut THEN InPage ELSE InPage \cup {"entry"}
AllIdle == \A c \in Callers : pc[c] = "idle"

Init ==
  /\ mode \in Modes
  /\ entry = 0 /\ torn = FALSE
  /\ page = [g \in Patches |-> "none"]
  /\ proxy = 0 /\ patches = 0
  /\ tester = "unpatched" /\ rebuilding = FALSE /\ world = "running"
  /\ pc = [c \in Callers |-> "idle"]
  /\ at = [c \in Callers |-> 0]
  /\ frames = [c \in Callers |-> 0]
  /\ calls = [c \in Callers |-> 0]
  /\ times = 0 /\ mockTimes = 0

-----------------------------------------------------------------------------
(* The test goroutine.                                                     *)

\* PatchValue up to the write: a new page, and the proxy injected with it.
\* The hook can only be called once the entry is written.
Prepare ==
  /\ tester = "unpatched"
  /\ patches < MaxPatches
  /\ patches' = patches + 1
  /\ page' = [page EXCEPT ![patches + 1] = "mapped"]
  /\ proxy' = patches + 1
  /\ tester' = "toPatch" /\ rebuilding' = FALSE
  /\ UNCHANGED <<mode, entry, torn, world, callerVars, counters>>

\* UnPatch, or the first half of a rePatch.
StartRelease ==
  /\ tester = "patched"
  /\ mode.joins => AllIdle
  /\ tester' = "toRestore"
  /\ rebuilding' \in (IF mode.rebuilds THEN BOOLEAN ELSE {FALSE})
  /\ UNCHANGED <<mode, entry, torn, page, proxy, patches, world, callerVars,
                 counters>>

\* WriteWithSTW.  The goroutines stop one by one, each where it can; without
\* the stop the write is seen half done.
StopTheWorld ==
  /\ mode.stops
  /\ tester \in {"toPatch", "toRestore"} /\ world = "running"
  /\ world' = "stopping"
  /\ UNCHANGED <<mode, entry, torn, page, proxy, patches, tester, rebuilding,
                 callerVars, counters>>
\* Mutant: the stop waits for the end of the calls themselves.
WaitsForCalls ==
  /\ world = "stopping"
  /\ AllIdle
  /\ world' = "stopped"
  /\ UNCHANGED <<mode, entry, torn, page, proxy, patches, tester, rebuilding,
                 callerVars, counters>>

WorldStops ==
  /\ world = "stopping"
  /\ \A c \in Callers : pc[c] \notin Unstoppable
  /\ world' = "stopped"
  /\ UNCHANGED <<mode, entry, torn, page, proxy, patches, tester, rebuilding,
                 callerVars, counters>>
\* Mutant: the write does not wait for the stop.
WritesAtOnce ==
  /\ tester \in {"toPatch", "toRestore"} /\ ~torn
  /\ torn' = TRUE
  /\ UNCHANGED <<mode, entry, page, proxy, patches, tester, rebuilding, world,
                 callerVars, counters>>

BeginWrite ==
  /\ tester \in {"toPatch", "toRestore"} /\ ~torn
  /\ mode.stops => world = "stopped"
  /\ torn' = TRUE
  /\ UNCHANGED <<mode, entry, page, proxy, patches, tester, rebuilding, world,
                 callerVars, counters>>
\* Mutants: the world is not started again; the branch of the wrong page.
LeavesStopped ==
  /\ torn
  /\ torn' = FALSE
  /\ entry' = IF tester = "toPatch" THEN patches ELSE 0
  /\ tester' = IF tester = "toPatch" THEN "patched" ELSE "restored"
  /\ UNCHANGED <<mode, page, proxy, patches, rebuilding, world, callerVars,
                 counters>>
NextPage ==
  /\ torn
  /\ torn' = FALSE
  /\ entry' = IF tester = "toPatch" THEN patches + 1 ELSE 0
  /\ tester' = IF tester = "toPatch" THEN "patched" ELSE "restored"
  /\ world' = "running"
  /\ UNCHANGED <<mode, page, proxy, patches, rebuilding, callerVars,
                 counters>>

EndWrite ==
  /\ torn
  /\ torn' = FALSE
  /\ entry' = IF tester = "toPatch" THEN patches ELSE 0
  /\ tester' = IF tester = "toPatch" THEN "patched" ELSE "restored"
  /\ world' = "running"
  /\ UNCHANGED <<mode, page, proxy, patches, rebuilding, callerVars,
                 counters>>

\* Mutant: the page is unmapped on the short path, too.
AlwaysFrees ==
  /\ tester = "restored"
  /\ page' = [page EXCEPT ![patches] = "freed"]
  /\ tester' = "toResetTimes"
  /\ UNCHANGED <<mode, entry, torn, proxy, patches, rebuilding, world,
                 callerVars, counters>>

\* The end of Unpatch.
DisposePage ==
  /\ tester = "restored"
  /\ page' = [page EXCEPT ![patches] = IF mode.short THEN "retired"
                                                      ELSE "freed"]
  /\ tester' = "toResetTimes"
  /\ UNCHANGED <<mode, entry, torn, proxy, patches, rebuilding, world,
                 callerVars, counters>>

\* Mutants: one of the two counters is not reset.
KeepsTimes ==
  /\ tester = "toResetTimes"
  /\ tester' = "toResetMockTimes"
  /\ UNCHANGED <<mode, entry, torn, page, proxy, patches, rebuilding, world,
                 callerVars, counters>>
KeepsMockTimes ==
  /\ tester = "toResetMockTimes"
  /\ tester' = IF rebuilding THEN "toBuild" ELSE "unpatched"
  /\ UNCHANGED <<mode, entry, torn, page, proxy, patches, rebuilding, world,
                 callerVars, counters>>

\* The end of UnPatch, one atomic store after the other.
ResetTimes ==
  /\ tester = "toResetTimes"
  /\ times' = 0 /\ tester' = "toResetMockTimes"
  /\ UNCHANGED <<mode, entry, torn, page, proxy, patches, rebuilding, world,
                 callerVars, mockTimes>>
ResetMockTimes ==
  /\ tester = "toResetMockTimes"
  /\ mockTimes' = 0
  /\ tester' = IF rebuilding THEN "toBuild" ELSE "unpatched"
  /\ UNCHANGED <<mode, entry, torn, page, proxy, patches, rebuilding, world,
                 callerVars, times>>

\* build() in a rePatch: mocker.proxy points to a new, nil function.
Rebuild ==
  /\ tester = "toBuild"
  /\ proxy' = 0 /\ tester' = "unpatched"
  /\ UNCHANGED <<mode, entry, torn, page, patches, rebuilding, world,
                 callerVars, counters>>

TesterStep ==
  \/ Prepare \/ StartRelease \/ StopTheWorld \/ WorldStops \/ BeginWrite
  \/ EndWrite \/ DisposePage \/ ResetTimes \/ ResetMockTimes \/ Rebuild

-----------------------------------------------------------------------------
(* A calling goroutine.                                                    *)

Moves(c) ==
  world = "running" \/ (world = "stopping" /\ pc[c] \in Unstoppable)
Goes(c, from, to) == pc[c] = from /\ Moves(c) /\ pc' = [pc EXCEPT ![c] = to]
\* One more, and at the bound no more: a goroutine may come to the hook
\* without end.
More(n, bound) == IF n < bound THEN n + 1 ELSE n
EntersHook(c) == frames' = [frames EXCEPT ![c] = More(@, MaxFrames)]

\* The first instruction of the entry, whatever the entry holds at this
\* moment.  A short branch is one instruction; every other entry goes on.
Enter(c, from) ==
  /\ \/ torn /\ Goes(c, from, "overwritten") /\ UNCHANGED at
     \/ /\ ~torn /\ entry # 0 /\ mode.short
        /\ Goes(c, from, "relay") /\ at' = [at EXCEPT ![c] = entry]
     \/ /\ ~torn /\ (entry = 0 \/ ~mode.short)
        /\ Goes(c, from, "entry") /\ at' = [at EXCEPT ![c] = entry]
  /\ UNCHANGED <<frames, testerVars, counters>>

Call(c) ==
  /\ calls[c] < MaxCalls
  /\ mode.joins => tester \in {"unpatched", "toPatch", "patched"}
  /\ Enter(c, "idle")
  /\ calls' = [calls EXCEPT ![c] = @ + 1]

\* The rest of the entry, if it is still the one that was begun: the rest of
\* the function, or the jump that ends a legacy branch.
EntryEnds(c) ==
  /\ pc[c] = "entry"
  /\ \/ /\ torn \/ entry # at[c]
        /\ Goes(c, "entry", "overwritten") /\ UNCHANGED frames
     \/ /\ ~torn /\ entry = at[c] /\ entry = 0
        /\ Goes(c, "entry", "body") /\ UNCHANGED frames
     \/ /\ ~torn /\ entry = at[c] /\ entry # 0
        /\ Goes(c, "entry", "hook") /\ EntersHook(c)
  /\ UNCHANGED <<at, calls, testerVars, counters>>

Relay(c) ==
  /\ pc[c] = "relay"
  /\ \/ /\ page[at[c]] = "freed"
        /\ Goes(c, "relay", "fault") /\ UNCHANGED frames
     \/ /\ page[at[c]] # "freed"
        /\ Goes(c, "relay", "hook") /\ EntersHook(c)
  /\ UNCHANGED <<at, calls, testerVars, counters>>

\* mockerHook: access(), then the first condition that matches, or none.
Access(c) ==
  /\ Goes(c, "hook", "accessed")
  /\ times' = More(times, MaxTimes)
  /\ UNCHANGED <<at, frames, calls, testerVars, mockTimes>>
NoMatch(c) ==
  /\ Goes(c, "accessed", "toOrigin")
  /\ UNCHANGED <<at, frames, calls, testerVars, counters>>
Match(c) ==
  /\ Goes(c, "accessed", "mocking")
  /\ mockTimes' = More(mockTimes, MaxTimes)
  /\ UNCHANGED <<at, frames, calls, testerVars, times>>

\* The test's hook function answers, or calls the origin it was given.
Answer(c) ==
  /\ Goes(c, "mocking", "return")
  /\ UNCHANGED <<at, frames, calls, testerVars, counters>>
CallOrigin(c) ==
  /\ Goes(c, "mocking", "toOrigin")
  /\ UNCHANGED <<at, frames, calls, testerVars, counters>>

\* originExec: a call of whatever mocker.proxy holds by now.
CallProxy(c) ==
  /\ \/ /\ proxy = 0
        /\ Goes(c, "toOrigin", "fault") /\ UNCHANGED at
     \/ /\ proxy # 0
        /\ Goes(c, "toOrigin", "prefix") /\ at' = [at EXCEPT ![c] = proxy]
  /\ UNCHANGED <<frames, calls, testerVars, counters>>

\* The displaced prefix, then the branch to the rest of the function.
Prefix(c) ==
  /\ pc[c] = "prefix"
  /\ \/ /\ page[at[c]] = "freed" /\ Goes(c, "prefix", "fault")
     \/ /\ page[at[c]] # "freed" /\ Goes(c, "prefix", "body")
  /\ UNCHANGED <<at, frames, calls, testerVars, counters>>

\* A stack check leads to the function's own call of morestack, from a prefix,
\* too: Relocate makes the displaced branch lead there, on arm64 for a legacy
\* branch as well.  The runtime may stop the goroutine there, and then starts
\* the function again at its entry, where the hook is met once more.
GrowStack(c) ==
  /\ mode.grows
  /\ \/ /\ pc[c] = "prefix" /\ page[at[c]] # "freed"
        /\ Goes(c, "prefix", "growing")
     \/ ~torn /\ entry = 0 /\ at[c] = 0 /\ Goes(c, "entry", "growing")
  /\ UNCHANGED <<at, frames, calls, testerVars, counters>>
StartAgain(c) == Enter(c, "growing") /\ UNCHANGED calls

BodyEnds(c) ==
  /\ Goes(c, "body", IF frames[c] = 0 THEN "idle" ELSE "return")
  /\ UNCHANGED <<at, frames, calls, testerVars, counters>>

\* A hook ends; below it there may be a hook that waited for its original.
HookReturns(c) ==
  /\ Goes(c, "return", IF frames[c] = 1 THEN "idle" ELSE "return")
  /\ frames' = [frames EXCEPT ![c] = @ - 1]
  /\ UNCHANGED <<at, calls, testerVars, counters>>

\* From the entry to the return of one call.
CallStep(c) ==
  \/ EntryEnds(c) \/ Relay(c) \/ Access(c) \/ NoMatch(c) \/ Match(c)
  \/ Answer(c) \/ CallOrigin(c) \/ CallProxy(c) \/ Prefix(c) \/ GrowStack(c)
  \/ StartAgain(c) \/ BodyEnds(c) \/ HookReturns(c)

Next == TesterStep \/ \E c \in Callers : Call(c) \/ CallStep(c)

\* A goroutine in a call is scheduled again and again; so is a test goroutine
\* that has started to write.  When the test patches or releases, and whether
\* a goroutine calls at all, is up to them.  morestack makes the stack larger
\* each time and a request to yield is served once, so a stack check that is
\* met again and again passes in the end.
Writing == StopTheWorld \/ WorldStops \/ BeginWrite \/ EndWrite
Fairness ==
  /\ WF_vars(Writing)
  /\ \A c \in Callers :
       WF_vars(CallStep(c)) /\ SF_vars(EntryEnds(c)) /\ SF_vars(Prefix(c))

Spec == Init /\ [][Next]_vars

-----------------------------------------------------------------------------
TypeOK ==
  /\ mode \in Modes
  /\ entry \in 0..MaxPatches /\ torn \in BOOLEAN
  /\ page \in [Patches -> {"none", "mapped", "retired", "freed"}]
  /\ proxy \in 0..MaxPatches /\ patches \in 0..MaxPatches
  /\ tester \in {"unpatched", "toPatch", "patched", "toRestore", "restored",
                 "toResetTimes", "toResetMockTimes", "toBuild"}
  /\ rebuilding \in BOOLEAN
  /\ world \in {"running", "stopping", "stopped"}
  /\ pc \in [Callers -> {"idle", "entry", "relay", "hook", "accessed",
                         "mocking", "toOrigin", "prefix", "growing", "body",
                         "return", "fault", "overwritten"}]
  /\ at \in [Callers -> 0..MaxPatches]
  /\ frames \in [Callers -> 0..MaxFrames]
  /\ calls \in [Callers -> 0..MaxCalls]
  /\ times \in 0..MaxTimes /\ mockTimes \in 0..MaxTimes

\* No goroutine executes a page that Unpatch has unmapped, or is about to:
\* not from a relay it had already jumped to, and not from a hook that was
\* running when the mock was released and calls the original only now.  A
\* legacy branch leaves that to a test that waits for its goroutines.
NoUnmappedCode ==
  mode.short \/ mode.joins =>
    \A c \in Callers :
      pc[c] \in InPage => page[at[c]] \in {"mapped", "retired"}

\* The use under which the code can answer every call: the world is stopped
\* for the writes, and the test waits for its goroutines, or mocks by a short
\* branch and does not change the mock while it is in effect.
AnswerableUse ==
  mode.stops /\ (mode.joins \/ (mode.short /\ ~mode.rebuilds))

\* Every call is answered, by the hook or by the function ("If 'Foo' is
\* executed before this, the mock succeeds, otherwise it fails",
\* README.md:795), even when it overlaps a patch or a release.  The one call
\* that is not stood between two instructions that were written over, where
\* the runtime could stop it (src/internal/monkey/mem/write.go:33, which
\* moves no goroutine away).
CallsAreAnswered ==
  AnswerableUse =>
    \A c \in Callers :
      pc[c] # "fault" /\ (pc[c] = "overwritten" => mode.cut)

\* The mock cannot have worked more often than the function was called
\* (README.md:719: MockTimes and Times track the number of times mock worked
\* and Foo is called), while a test that waits for its goroutines looks at the
\* counters.
MockedAtMostCalled ==
  mode.joins /\ tester \in {"unpatched", "patched"} => mockTimes <= times

\* After a release the counters are zero ("Reset to 0 when releasing",
\* README.md:733), for a test that waits for its goroutines; without that a
\* hook that is still running counts afterwards.
ReleaseResetsCounters ==
  mode.joins /\ tester = "unpatched" => times = 0 /\ mockTimes = 0

\* A call comes to its end, whatever the test does in the meantime and however
\* often a stack check sends it through the hook again, unless it was written
\* over.
CallsReturn ==
  \A c \in Callers :
    AnswerableUse /\ pc[c] # "idle" ~> pc[c] \in {"idle", "overwritten"}

\* Stopping the world for a write does not wait for ever for goroutines that
\* keep calling the function: the entry gets written.
WritesFinish ==
  tester \in {"toPatch", "toRestore"} ~> tester \in {"patched", "restored"}
=============================================================================
