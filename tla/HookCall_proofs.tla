-------------------------- MODULE HookCall_proofs --------------------------
(***************************************************************************)
(* Theorems about HookCall for any number of goroutines, patches and calls *)
(* and any set of modes.                                                   *)
(***************************************************************************)
EXTENDS HookCall, FiniteSetTheorems, TLAPS

(***************************************************************************)
(* The invariant.  It says what each place of the test goroutine means for *)
(* the entry, the proxy and the pages, and where that leaves the callers.  *)
(***************************************************************************)
InEffect == {"toPatch", "patched", "toRestore", "restored"}
\* Where a joining test has waited for its goroutines.
Releasing ==
  {"toRestore", "restored", "toResetTimes", "toResetMockTimes", "toBuild"}
\* Where a caller may be that has met no mock.
Quiet == {"idle", "entry", "growing", "body", "fault", "overwritten"}
\* Where it may be before it meets one, or after it.
Passing == {"entry", "growing", "body"}
\* Where a caller is inside of a hook.
InHook == {"hook", "accessed", "mocking", "toOrigin", "prefix", "return"}

EntryInv ==
  /\ entry # 0 => tester \in {"patched", "toRestore"} /\ entry = patches
  /\ torn => /\ tester \in {"toPatch", "toRestore"}
             /\ mode.stops => world = "stopped"

PageInv ==
  /\ tester # "unpatched" => patches # 0
  /\ tester \in InEffect => proxy = patches /\ page[patches] = "mapped"
  /\ mode.short =>
       \A g \in Patches : g <= patches => page[g] \in {"mapped", "retired"}
  /\ proxy <= patches
  /\ ~mode.rebuilds =>
       ~rebuilding /\ tester # "toBuild" /\ proxy = patches

\* Where a caller may be in place p, with page or entry g, inside of n hooks.
MayBe(p, g, n) ==
  /\ p \in InPage => g \in Patches /\ g <= patches
  /\ p = "entry" => g <= patches
  /\ p = "idle" => n = 0
  /\ p \in InHook => n # 0
  /\ patches = 0 => p \in Quiet /\ n = 0
  /\ mode.joins =>
       /\ tester \in Releasing => p = "idle"
       /\ tester \in {"unpatched", "toPatch"} =>
            /\ p \in Quiet
            /\ p \in Passing => n = 0
            /\ p = "entry" => g = 0
       /\ p \in InPage => g = patches

CallerInv ==
  \A c \in Callers : MayBe(pc[c], at[c], frames[c])

CounterInv ==
  mode.joins =>
    /\ tester \in {"toResetMockTimes", "toBuild", "unpatched"} => times = 0
    /\ tester \in {"toBuild", "unpatched"} => mockTimes = 0

CallInv == TypeOK /\ EntryInv /\ PageInv /\ CallerInv /\ CounterInv

Places == {"idle", "entry", "relay", "hook", "accessed", "mocking", "toOrigin",
           "prefix", "growing", "body", "return", "fault", "overwritten"}

LEMMA ModeFields ==
  ASSUME TypeOK
  PROVE  /\ mode.short \in BOOLEAN /\ mode.stops \in BOOLEAN
         /\ mode.cut \in BOOLEAN /\ mode.grows \in BOOLEAN
         /\ mode.rebuilds \in BOOLEAN /\ mode.joins \in BOOLEAN
BY ModeAssumption DEF TypeOK, Mode

-----------------------------------------------------------------------------
(* The steps of the test goroutine.                                        *)

TesterPlaces ==
  {"unpatched", "toPatch", "patched", "toRestore", "restored", "toResetTimes",
   "toResetMockTimes", "toBuild"}

LEMMA TesterTypes ==
  ASSUME TypeOK, UNCHANGED <<mode, page, callerVars>>,
         entry' \in 0..MaxPatches, torn' \in BOOLEAN,
         proxy' \in 0..MaxPatches, patches' \in 0..MaxPatches,
         tester' \in TesterPlaces, rebuilding' \in BOOLEAN,
         world' \in {"running", "stopping", "stopped"},
         times' \in 0..MaxTimes, mockTimes' \in 0..MaxTimes
  PROVE  TypeOK'
BY DEF TypeOK, callerVars, TesterPlaces

LEMMA PrepareKeeps ==
  ASSUME CallInv, Prepare PROVE CallInv'
<1>. USE BoundsAssumption, ModeFields DEF CallInv, Prepare, callerVars, counters
<1>1. patches' \in Patches /\ patches' \notin 1..patches /\ patches \in Nat
  BY DEF TypeOK, Patches
<1>2. TypeOK'
  <2>1. page' \in [Patches -> {"none", "mapped", "retired", "freed"}]
    BY <1>1 DEF TypeOK
  <2>2. patches' \in 0..MaxPatches /\ proxy' \in 0..MaxPatches
    BY <1>1 DEF Patches
  <2>3. UNCHANGED <<mode, entry, torn, world, pc, at, frames, calls, times, mockTimes>>
    OBVIOUS
  <2>. HIDE DEF Prepare
  <2>4. tester' = "toPatch" /\ rebuilding' = FALSE
    BY DEF Prepare
  <2>. QED BY <2>1, <2>2, <2>3, <2>4 DEF TypeOK
<1>3. EntryInv'
  BY DEF EntryInv
<1>4. PageInv'
  <2>1. page'[patches'] = "mapped"
    BY <1>1 DEF TypeOK
  <2>2. \A g \in Patches : g <= patches' => g = patches' \/ g <= patches
    BY <1>1 DEF Patches
  <2>3. \A g \in Patches : g # patches' => page'[g] = page[g]
    BY DEF TypeOK
  <2>. QED BY <1>1, <2>1, <2>2, <2>3 DEF PageInv, InEffect, TypeOK
<1>5. CallerInv'
  BY <1>1 DEF CallerInv, MayBe, TypeOK, Releasing, Quiet, InPage, InHook
<1>6. CounterInv'
  BY DEF CounterInv
<1>. QED BY <1>2, <1>3, <1>4, <1>5, <1>6

LEMMA StartReleaseKeeps ==
  ASSUME CallInv, StartRelease PROVE CallInv'
<1>. USE ModeFields DEF CallInv, StartRelease, callerVars, counters
<1>1. TypeOK'
  BY DEF TypeOK
<1>2. EntryInv'
  BY DEF EntryInv
<1>3. PageInv'
  BY DEF PageInv, InEffect
<1>4. CallerInv'
  BY DEF CallerInv, MayBe, AllIdle, Releasing
<1>5. CounterInv'
  BY DEF CounterInv
<1>. QED BY <1>1, <1>2, <1>3, <1>4, <1>5

LEMMA WriteKeeps ==
  ASSUME CallInv, StopTheWorld \/ WorldStops \/ BeginWrite \/ EndWrite
  PROVE  CallInv'
<1>. USE ModeFields DEF CallInv, callerVars, counters
<1>1. TypeOK'
  <2>1. CASE EndWrite
    <3>0. patches \in 0..MaxPatches /\ 0 \in 0..MaxPatches
      BY BoundsAssumption DEF TypeOK
    <3>1. entry' \in 0..MaxPatches /\ tester' \in {"patched", "restored"}
      BY ONLY <2>1, <3>0 DEF EndWrite
    <3>2. world' = "running" /\ torn' = FALSE
          /\ UNCHANGED <<mode, page, callerVars, proxy, patches, rebuilding,
                         times, mockTimes>>
      BY <2>1 DEF EndWrite
    <3>3. /\ proxy' \in 0..MaxPatches /\ patches' \in 0..MaxPatches
          /\ rebuilding' \in BOOLEAN /\ times' \in 0..MaxTimes /\ mockTimes' \in 0..MaxTimes
      BY <3>2 DEF TypeOK
    <3>4. torn' \in BOOLEAN /\ tester' \in TesterPlaces
      BY <3>1, <3>2 DEF TesterPlaces
    <3>. QED BY ONLY CallInv, <3>1, <3>2, <3>3, <3>4, TesterTypes DEF CallInv
  <2>2. CASE StopTheWorld
    BY <2>2 DEF TypeOK, StopTheWorld
  <2>3. CASE WorldStops
    BY <2>3 DEF TypeOK, WorldStops
  <2>4. CASE BeginWrite
    BY <2>4 DEF TypeOK, BeginWrite
  <2>. QED BY <2>1, <2>2, <2>3, <2>4
<1>2. EntryInv'
  BY DEF EntryInv, TypeOK, StopTheWorld, WorldStops, BeginWrite, EndWrite
<1>3. PageInv'
  BY DEF PageInv, InEffect, EntryInv, StopTheWorld, WorldStops, BeginWrite,
         EndWrite
<1>4. CallerInv'
  <2>1. CASE EndWrite
    BY <2>1 DEF CallerInv, MayBe, EntryInv, EndWrite, Releasing, Quiet, InPage
  <2>2. CASE StopTheWorld \/ WorldStops \/ BeginWrite
    BY <2>2 DEF CallerInv, MayBe, StopTheWorld, WorldStops, BeginWrite
  <2>. QED BY <2>1, <2>2
<1>5. CounterInv'
  BY DEF CounterInv, EntryInv, StopTheWorld, WorldStops, BeginWrite, EndWrite
<1>. QED BY <1>1, <1>2, <1>3, <1>4, <1>5

\* The page that is disposed of is the last one; a short branch keeps it.
LEMMA DisposePageKeeps ==
  ASSUME CallInv, DisposePage PROVE CallInv'
<1>. USE ModeFields DEF CallInv, DisposePage, callerVars, counters
<1>1. TypeOK'
  BY DEF TypeOK
<1>2. EntryInv'
  BY DEF EntryInv
<1>3. PageInv'
  <2>1. ASSUME mode.short, NEW g \in Patches, g <= patches
        PROVE  page'[g] \in {"mapped", "retired"}
    BY <2>1 DEF PageInv, TypeOK
  <2>. QED BY <2>1 DEF PageInv, InEffect
<1>4. CallerInv'
  BY DEF CallerInv, MayBe, Releasing
<1>5. CounterInv'
  BY DEF CounterInv
<1>. QED BY <1>1, <1>2, <1>3, <1>4, <1>5

LEMMA ResetKeeps ==
  ASSUME CallInv, ResetTimes \/ ResetMockTimes \/ Rebuild PROVE CallInv'
<1>. USE ModeFields DEF CallInv, callerVars, counters
<1>1. TypeOK'
  <2>1. CASE ResetTimes
    BY <2>1, BoundsAssumption DEF TypeOK, ResetTimes
  <2>2. CASE ResetMockTimes
    BY <2>2, BoundsAssumption DEF TypeOK, ResetMockTimes
  <2>3. CASE Rebuild
    <3>1. /\ proxy' = 0 /\ tester' = "unpatched"
          /\ UNCHANGED <<mode, page, callerVars, entry, torn, patches,
                         rebuilding, world, times, mockTimes>>
      BY <2>3 DEF Rebuild
    <3>2. /\ entry' \in 0..MaxPatches /\ torn' \in BOOLEAN
          /\ proxy' \in 0..MaxPatches /\ patches' \in 0..MaxPatches
          /\ rebuilding' \in BOOLEAN /\ times' \in 0..MaxTimes /\ mockTimes' \in 0..MaxTimes
          /\ world' \in {"running", "stopping", "stopped"}
      BY <3>1, BoundsAssumption DEF TypeOK
    <3>. QED BY ONLY CallInv, <3>1, <3>2, TesterTypes DEF CallInv, TesterPlaces
  <2>. QED BY <2>1, <2>2, <2>3
<1>2. EntryInv'
  BY DEF EntryInv, ResetTimes, ResetMockTimes, Rebuild
<1>3. PageInv'
  BY DEF PageInv, InEffect, TypeOK, ResetTimes, ResetMockTimes, Rebuild
<1>4. CallerInv'
  BY DEF CallerInv, MayBe, Releasing, Quiet, InPage, ResetTimes, ResetMockTimes,
         Rebuild
<1>5. CounterInv'
  BY DEF CounterInv, ResetTimes, ResetMockTimes, Rebuild
<1>. QED BY <1>1, <1>2, <1>3, <1>4, <1>5

LEMMA TesterKeeps ==
  ASSUME CallInv, TesterStep PROVE CallInv'
BY PrepareKeeps, StartReleaseKeeps, WriteKeeps, DisposePageKeeps, ResetKeeps
DEF TesterStep

-----------------------------------------------------------------------------
(* The steps of a caller.                                                  *)

LEMMA CallerMoves ==
  ASSUME CallInv, NEW c \in Callers, UNCHANGED testerVars,
         NEW p \in Places, pc' = [pc EXCEPT ![c] = p],
         NEW g \in 0..MaxPatches, at' = [at EXCEPT ![c] = g],
         NEW n \in 0..MaxFrames, frames' = [frames EXCEPT ![c] = n],
         MayBe(p, g, n),
         calls' \in [Callers -> 0..MaxCalls],
         times' \in 0..MaxTimes, mockTimes' \in 0..MaxTimes
  PROVE  TypeOK' /\ EntryInv' /\ PageInv' /\ CallerInv'
<1>. USE DEF CallInv, testerVars
<1>1. TypeOK'
  BY DEF TypeOK, Places
<1>2. EntryInv' /\ PageInv'
  BY DEF EntryInv, PageInv
<1>3. ASSUME NEW d \in Callers
      PROVE  MayBe(pc[d], at[d], frames[d])'
  <2>1. MayBe(pc'[d], at'[d], frames'[d])
    <3>1. CASE d = c
      BY <3>1 DEF TypeOK
    <3>2. CASE d # c
      <4>1. pc'[d] = pc[d] /\ at'[d] = at[d] /\ frames'[d] = frames[d]
        BY <3>2 DEF TypeOK
      <4>. QED BY <4>1 DEF CallerInv
    <3>. QED BY <3>1, <3>2
  <2>. QED BY <2>1 DEF MayBe
<1>. QED BY <1>1, <1>2, <1>3 DEF CallerInv

\* A step that counts nothing.
LEMMA CallerGoes ==
  ASSUME CallInv, NEW c \in Callers, UNCHANGED <<testerVars, counters>>,
         NEW p \in Places, pc' = [pc EXCEPT ![c] = p],
         NEW g \in 0..MaxPatches, at' = [at EXCEPT ![c] = g],
         NEW n \in 0..MaxFrames, frames' = [frames EXCEPT ![c] = n],
         MayBe(p, g, n),
         calls' \in [Callers -> 0..MaxCalls]
  PROVE  CallInv'
<1>1. times' \in 0..MaxTimes /\ mockTimes' \in 0..MaxTimes
  BY DEF CallInv, TypeOK, counters
<1>2. TypeOK' /\ EntryInv' /\ PageInv' /\ CallerInv'
  BY <1>1, CallerMoves
<1>3. CounterInv'
  BY DEF CallInv, CounterInv, testerVars, counters
<1>. QED BY <1>2, <1>3 DEF CallInv

\* What a caller keeps if a step does not touch it.
LEMMA Stays ==
  ASSUME CallInv, NEW c \in Callers
  PROVE  /\ pc[c] \in Places /\ pc \in [Callers -> Places]
         /\ at[c] \in 0..MaxPatches /\ at = [at EXCEPT ![c] = at[c]]
         /\ frames[c] \in 0..MaxFrames
         /\ frames = [frames EXCEPT ![c] = frames[c]]
         /\ calls \in [Callers -> 0..MaxCalls]
         /\ MayBe(pc[c], at[c], frames[c])
BY DEF CallInv, TypeOK, CallerInv, Places

LEMMA OneMore ==
  ASSUME NEW bound \in Nat, NEW n \in 0..bound
  PROVE  /\ More(n, bound) \in 0..bound
         /\ bound # 0 => More(n, bound) # 0
         /\ n < bound => More(n, bound) = n + 1
         /\ n = bound => More(n, bound) = n
BY DEF More

\* The entry leads to a mock only where the last patch is in effect.
LEMMA EntryLeads ==
  ASSUME CallInv
  PROVE  /\ entry \in 0..MaxPatches /\ entry <= patches
         /\ entry # 0 => /\ tester \in {"patched", "toRestore"}
                         /\ entry = patches /\ entry \in Patches
BY BoundsAssumption DEF CallInv, TypeOK, EntryInv, Patches

LEMMA EnterKeeps ==
  ASSUME CallInv, NEW c \in Callers, NEW from \in {"idle", "growing"},
         Enter(c, from), mode.joins => tester \notin Releasing,
         calls' \in [Callers -> 0..MaxCalls]
  PROVE  CallInv'
<1>1. pc[c] = from /\ UNCHANGED <<testerVars, counters>>
      /\ frames' = [frames EXCEPT ![c] = frames[c]]
  BY Stays DEF Enter, Goes
<1>2. CASE torn /\ Goes(c, from, "overwritten") /\ UNCHANGED at
  <2>1. MayBe("overwritten", at[c], frames[c])
    BY <1>1, Stays DEF MayBe, Quiet, Passing, InPage, InHook
  <2>2. pc' = [pc EXCEPT ![c] = "overwritten"] /\ at' = [at EXCEPT ![c] = at[c]]
    BY <1>2, Stays DEF Goes
  <2>3. "overwritten" \in Places
    BY DEF Places
  <2>. QED BY <1>1, <2>1, <2>2, <2>3, Stays, CallerGoes
<1>3. CASE /\ entry # 0 /\ Goes(c, from, "relay")
           /\ at' = [at EXCEPT ![c] = entry]
  <2>1. MayBe("relay", entry, frames[c])
    BY <1>1, <1>3, Stays, EntryLeads
    DEF MayBe, Quiet, Passing, InPage, InHook, Releasing, Patches
  <2>2. pc' = [pc EXCEPT ![c] = "relay"] /\ "relay" \in Places
    BY <1>3 DEF Goes, Places
  <2>. QED BY <1>1, <1>3, <2>1, <2>2, Stays, EntryLeads, CallerGoes
<1>4. CASE Goes(c, from, "entry") /\ at' = [at EXCEPT ![c] = entry]
  <2>1. MayBe("entry", entry, frames[c])
    BY <1>1, Stays, EntryLeads
    DEF MayBe, Quiet, Passing, InPage, InHook, Releasing, Patches
  <2>2. pc' = [pc EXCEPT ![c] = "entry"] /\ "entry" \in Places
    BY <1>4 DEF Goes, Places
  <2>. QED BY <1>1, <1>4, <2>1, <2>2, Stays, EntryLeads, CallerGoes
<1>. QED BY <1>2, <1>3, <1>4 DEF Enter

LEMMA CallKeeps ==
  ASSUME CallInv, NEW c \in Callers, Call(c) PROVE CallInv'
<1>1. calls' \in [Callers -> 0..MaxCalls]
  BY BoundsAssumption DEF CallInv, TypeOK, Call
<1>2. mode.joins => tester \notin Releasing
  BY DEF Call, Releasing
<1>. QED BY <1>1, <1>2, EnterKeeps DEF Call

LEMMA StartAgainKeeps ==
  ASSUME CallInv, NEW c \in Callers, StartAgain(c) PROVE CallInv'
<1>1. pc[c] = "growing"
  BY DEF StartAgain, Enter, Goes
<1>2. mode.joins => tester \notin Releasing
  BY <1>1, Stays DEF MayBe
<1>. QED BY <1>2, Stays, EnterKeeps DEF StartAgain

\* A caller that has met a mock, and where the test then is if it joins.
LEMMA MetAMock ==
  ASSUME CallInv, NEW c \in Callers,
         \/ pc[c] \notin Quiet
         \/ pc[c] \in Passing /\ frames[c] # 0
  PROVE  /\ patches \in Patches
         /\ mode.joins => /\ tester = "patched" /\ proxy = patches
                          /\ page[patches] = "mapped"
<1>1. patches # 0
  BY Stays DEF MayBe
<1>2. mode.joins => tester = "patched"
  BY Stays DEF CallInv, MayBe, TypeOK, Releasing, Quiet, Passing
<1>. QED BY <1>1, <1>2 DEF CallInv, PageInv, InEffect, TypeOK, Patches

LEMMA EntryEndsKeeps ==
  ASSUME CallInv, NEW c \in Callers, EntryEnds(c) PROVE CallInv'
<1>1. /\ pc[c] = "entry" /\ UNCHANGED <<at, calls, testerVars, counters>>
      /\ MayBe("entry", at[c], frames[c])
  BY Stays DEF EntryEnds
<1>2. ASSUME NEW p \in {"overwritten", "body"}, Goes(c, "entry", p),
             UNCHANGED frames
      PROVE  CallInv'
  <2>1. MayBe(p, at[c], frames[c]) /\ p \in Places
    BY <1>1 DEF MayBe, Quiet, Passing, InPage, InHook, Places, Releasing
  <2>2. pc' = [pc EXCEPT ![c] = p]
    BY <1>2 DEF Goes
  <2>. QED BY <1>1, <1>2, <2>1, <2>2, Stays, CallerGoes
<1>3. CASE entry # 0 /\ Goes(c, "entry", "hook") /\ EntersHook(c)
  <2>. DEFINE n == More(frames[c], MaxFrames)
  <2>1. n \in 0..MaxFrames /\ n # 0
    BY Stays, OneMore, BoundsAssumption
  <2>2. pc' = [pc EXCEPT ![c] = "hook"] /\ frames' = [frames EXCEPT ![c] = n]
        /\ "hook" \in Places
    BY <1>3 DEF Goes, EntersHook, Places
  <2>. HIDE DEF n
  <2>3. MayBe("hook", at[c], n)
    BY <1>1, <1>3, <2>1, EntryLeads
    DEF MayBe, InPage, InHook, Releasing, Patches
  <2>. QED BY <1>1, <2>1, <2>2, <2>3, Stays, CallerGoes
<1>. QED BY <1>2, <1>3 DEF EntryEnds

\* The steps inside a hook and after it: none but the read of the proxy goes
\* to a page.
Inside(c) ==
  Access(c) \/ NoMatch(c) \/ Match(c) \/ Answer(c) \/ CallOrigin(c)

LEMMA InsideKeeps ==
  ASSUME CallInv, NEW c \in Callers, Inside(c) PROVE CallInv'
<1>. USE DEF Inside, Access, NoMatch, Match, Answer, CallOrigin, Goes
<1>1. PICK p \in InHook \ InPage : pc' = [pc EXCEPT ![c] = p]
  BY DEF InHook, InPage
<1>2. pc[c] \in InHook /\ pc[c] \notin Quiet
  BY DEF Quiet, InHook
<1>3. mode.joins => tester = "patched"
  BY ONLY CallInv, c \in Callers, <1>2, MetAMock
<1>4. patches # 0 /\ frames[c] # 0
  BY <1>2, MetAMock, Stays DEF Patches, MayBe
<1>5. MayBe(p, at[c], frames[c]) /\ p \in Places
  BY <1>1, <1>3, <1>4 DEF MayBe, InHook, Places, Releasing
<1>6. UNCHANGED <<at, frames, calls, testerVars>>
  BY DEF counters
<1>7. times' \in 0..MaxTimes /\ mockTimes' \in 0..MaxTimes
  BY OneMore, BoundsAssumption DEF CallInv, TypeOK, counters
<1>8. TypeOK' /\ EntryInv' /\ PageInv' /\ CallerInv'
  BY <1>1, <1>5, <1>6, <1>7, Stays, CallerMoves
<1>9. CounterInv'
  BY <1>3, <1>6, ModeFields DEF CallInv, CounterInv, testerVars
<1>. QED BY <1>8, <1>9 DEF CallInv

LEMMA HookReturnsKeeps ==
  ASSUME CallInv, NEW c \in Callers, HookReturns(c) PROVE CallInv'
<1>. USE DEF HookReturns, Goes
<1>. DEFINE n == frames[c] - 1
            p == IF frames[c] = 1 THEN "idle" ELSE "return"
<1>1. /\ pc[c] = "return" /\ pc' = [pc EXCEPT ![c] = p]
      /\ frames' = [frames EXCEPT ![c] = n]
      /\ UNCHANGED <<at, calls, testerVars, counters>>
  OBVIOUS
<1>2. n \in 0..MaxFrames /\ (p = "idle" <=> n = 0) /\ p \in {"idle", "return"}
  BY <1>1, Stays, BoundsAssumption DEF MayBe, InHook
<1>3. patches # 0 /\ (mode.joins => tester = "patched")
  BY <1>1, MetAMock DEF Quiet, Patches
<1>. HIDE DEF p, n
<1>4. MayBe(p, at[c], n) /\ p \in Places
  BY <1>2, <1>3 DEF MayBe, Places, InHook, InPage, Releasing
<1>5. /\ at[c] \in 0..MaxPatches /\ at' = [at EXCEPT ![c] = at[c]]
      /\ calls' \in [Callers -> 0..MaxCalls]
  BY <1>1, Stays
<1>. HIDE DEF HookReturns, Goes
<1>. QED BY <1>1, <1>2, <1>4, <1>5, CallerGoes

LEMMA RelayKeeps ==
  ASSUME CallInv, NEW c \in Callers, Relay(c) PROVE CallInv'
<1>. USE DEF Relay, Goes
<1>1. /\ pc[c] = "relay" /\ UNCHANGED <<at, calls, testerVars, counters>>
  OBVIOUS
<1>2. patches \in Patches /\ (mode.joins => tester = "patched")
  BY ONLY CallInv, c \in Callers, <1>1, MetAMock DEF Quiet
<1>3. More(frames[c], MaxFrames) \in 0..MaxFrames
      /\ More(frames[c], MaxFrames) # 0
  BY Stays, OneMore, BoundsAssumption
<1>4. PICK p \in {"fault", "hook"} : \E m \in 0..MaxFrames :
        /\ pc' = [pc EXCEPT ![c] = p] /\ frames' = [frames EXCEPT ![c] = m]
        /\ p = "hook" => m # 0
  BY <1>3, Stays DEF EntersHook
<1>5. PICK n \in 0..MaxFrames :
        /\ pc' = [pc EXCEPT ![c] = p] /\ frames' = [frames EXCEPT ![c] = n]
        /\ p = "hook" => n # 0
  BY <1>4
<1>6. MayBe(p, at[c], n) /\ p \in Places
  BY <1>2, <1>5 DEF MayBe, Places, InPage, InHook, Releasing, Patches
<1>7. /\ at[c] \in 0..MaxPatches /\ at' = [at EXCEPT ![c] = at[c]]
      /\ calls' \in [Callers -> 0..MaxCalls]
  BY <1>1, Stays
<1>. HIDE DEF Relay, Goes
<1>. QED BY <1>1, <1>5, <1>6, <1>7, CallerGoes

\* The proxy leads to the page of the last patch, or of an earlier one whose
\* page a short branch has left mapped.
LEMMA CallProxyKeeps ==
  ASSUME CallInv, NEW c \in Callers, CallProxy(c) PROVE CallInv'
<1>. USE DEF CallProxy, Goes
<1>1. pc[c] = "toOrigin" /\ UNCHANGED <<frames, calls, testerVars, counters>>
  OBVIOUS
<1>2. /\ patches \in Patches /\ frames[c] # 0
      /\ mode.joins => tester = "patched" /\ proxy = patches
  BY <1>1, MetAMock, Stays DEF Quiet, MayBe, InHook
<1>3. proxy \in 0..MaxPatches /\ proxy <= patches
  BY DEF CallInv, PageInv, TypeOK
<1>4. PICK p \in {"fault", "prefix"} : \E h \in 0..MaxPatches :
        /\ pc' = [pc EXCEPT ![c] = p] /\ at' = [at EXCEPT ![c] = h]
        /\ p = "prefix" => h = proxy /\ proxy # 0
  BY <1>3, Stays
<1>5. PICK g \in 0..MaxPatches :
        /\ pc' = [pc EXCEPT ![c] = p] /\ at' = [at EXCEPT ![c] = g]
        /\ p = "prefix" => g = proxy /\ proxy # 0
  BY <1>4
<1>6. MayBe(p, g, frames[c]) /\ p \in Places
  BY <1>2, <1>3, <1>5 DEF MayBe, Places, InPage, InHook, Releasing, Patches
<1>7. /\ frames[c] \in 0..MaxFrames
      /\ frames' = [frames EXCEPT ![c] = frames[c]]
      /\ calls' \in [Callers -> 0..MaxCalls]
  BY <1>1, Stays
<1>. HIDE DEF CallProxy, Goes
<1>. QED BY <1>1, <1>5, <1>6, <1>7, CallerGoes

LEMMA BodyKeeps ==
  ASSUME CallInv, NEW c \in Callers, Prefix(c) \/ GrowStack(c) \/ BodyEnds(c)
  PROVE  CallInv'
<1>. USE DEF Prefix, GrowStack, BodyEnds, Goes
<1>1. UNCHANGED <<at, frames, calls, testerVars, counters>>
  OBVIOUS
<1>2. PICK p \in {"fault", "growing", "body", "idle", "return"} :
        /\ pc' = [pc EXCEPT ![c] = p]
        /\ p \in {"fault", "body"} => pc[c] = "prefix"
        /\ p = "growing" => pc[c] \in {"prefix", "entry"}
        /\ p = "idle" => pc[c] = "body" /\ frames[c] = 0
        /\ p = "return" => pc[c] = "body" /\ frames[c] # 0
  OBVIOUS
<1>3. p \in {"fault", "body", "return"} =>
        patches \in Patches /\ (mode.joins => tester = "patched")
  BY ONLY CallInv, c \in Callers, <1>2, MetAMock DEF Quiet, Passing
<1>. HIDE DEF Prefix, GrowStack, BodyEnds, Goes
<1>4. MayBe(p, at[c], frames[c]) /\ p \in Places
  BY <1>2, <1>3, Stays
  DEF MayBe, Places, InPage, InHook, Quiet, Passing, Releasing, Patches
<1>. QED BY <1>1, <1>2, <1>4, Stays, CallerGoes

-----------------------------------------------------------------------------
(* The theorems.                                                           *)

LEMMA CallInvHolds == Spec => []CallInv
<1>1. Init => CallInv
  <2>. SUFFICES ASSUME Init PROVE CallInv
    OBVIOUS
  <2>. USE DEF Init
  <2>1. TypeOK
    <3>1. frames \in [Callers -> 0..MaxFrames] /\ calls \in [Callers -> 0..MaxCalls]
      BY BoundsAssumption
    <3>2. /\ entry \in 0..MaxPatches /\ proxy \in 0..MaxPatches
          /\ patches \in 0..MaxPatches
          /\ times \in 0..MaxTimes /\ mockTimes \in 0..MaxTimes
          /\ at \in [Callers -> 0..MaxPatches]
      BY BoundsAssumption
    <3>. QED BY <3>1, <3>2 DEF TypeOK
  <2>2. EntryInv /\ PageInv /\ CounterInv
    BY DEF EntryInv, PageInv, CounterInv, InEffect, Patches
  <2>3. CallerInv
    BY DEF CallerInv, MayBe, InPage, InHook, Quiet, Passing, Releasing
  <2>. QED BY <2>1, <2>2, <2>3 DEF CallInv
<1>2. CallInv /\ [Next]_vars => CallInv'
  <2>. SUFFICES ASSUME CallInv, [Next]_vars PROVE CallInv'
    OBVIOUS
  <2>1. CASE TesterStep
    BY <2>1, TesterKeeps
  <2>2. ASSUME NEW c \in Callers, Call(c) \/ CallStep(c) PROVE CallInv'
    BY <2>2, CallKeeps, StartAgainKeeps, EntryEndsKeeps, InsideKeeps,
       HookReturnsKeeps, RelayKeeps, CallProxyKeeps, BodyKeeps
    DEF CallStep, Inside
  <2>3. CASE UNCHANGED vars
    BY <2>3 DEF vars, testerVars, callerVars, counters, CallInv, TypeOK,
       EntryInv, PageInv, CallerInv, MayBe, CounterInv
  <2>. QED BY <2>1, <2>2, <2>3 DEF Next
<1>. QED BY <1>1, <1>2, PTL DEF Spec

\* The types of every variable (src/mock.go:415-429).
THEOREM CallTypesHold == Spec => []TypeOK
<1>1. CallInv => TypeOK
  BY DEF CallInv
<1>. QED BY <1>1, CallInvHolds, PTL

\* When the function gets a short branch or the test waits for its goroutines,
\* no goroutine ever executes a page that Unpatch has unmapped
\* (src/internal/monkey/patch.go:76-98): whether or not the world is stopped,
\* and however often the mock is released, built and changed.
THEOREM PagesOutliveCalls == Spec => []NoUnmappedCode
<1>1. CallInv => NoUnmappedCode
  <2>. SUFFICES ASSUME CallInv, NEW c \in Callers, pc[c] \in InPage,
                       mode.short \/ mode.joins
                PROVE  page[at[c]] \in {"mapped", "retired"}
    BY DEF NoUnmappedCode
  <2>1. at[c] \in Patches /\ at[c] <= patches /\ (mode.joins => at[c] = patches)
    BY Stays DEF MayBe
  <2>2. CASE mode.short
    BY <2>1, <2>2 DEF CallInv, PageInv
  <2>3. CASE mode.joins
    <3>1. page[patches] = "mapped"
      BY <2>3, MetAMock DEF InPage, Quiet
    <3>. QED BY <2>1, <2>3, <3>1
  <2>. QED BY <2>2, <2>3
<1>. QED BY <1>1, CallInvHolds, PTL

-----------------------------------------------------------------------------
(* What becomes of a call.                                                 *)

\* Where the runtime stops nobody in the entry, a write finds nobody there.
Undivided ==
  mode.stops /\ ~mode.cut =>
    \A c \in Callers : pc[c] = "entry" => at[c] = entry /\ world # "stopped"
AnswerInv == Undivided /\ CallsAreAnswered

\* A caller that is not lost by its step.
LEMMA OneIsAnswered ==
  ASSUME CallInv, AnswerInv, NEW c \in Callers, UNCHANGED testerVars,
         NEW p \in Places, pc' = [pc EXCEPT ![c] = p],
         AnswerableUse => p # "fault" /\ (p = "overwritten" => mode.cut),
         mode.stops /\ ~mode.cut /\ p = "entry" => world # "stopped",
         NEW g, at' = [at EXCEPT ![c] = g], p = "entry" => g = entry
  PROVE  AnswerInv'
<1>1. pc \in [Callers -> Places] /\ at \in [Callers -> 0..MaxPatches]
  BY Stays DEF CallInv, TypeOK
<1>2. UNCHANGED <<mode, entry, world>>
  BY DEF testerVars
<1>3. Undivided'
  BY <1>1, <1>2 DEF AnswerInv, Undivided
<1>4. CallsAreAnswered'
  BY <1>1, <1>2 DEF AnswerInv, CallsAreAnswered, AnswerableUse
<1>. QED BY <1>3, <1>4 DEF AnswerInv

\* Nobody executes an entry that is half written, while the world is stopped.
LEMMA NobodyMoves ==
  ASSUME CallInv, mode.stops, NEW c \in Callers, Moves(c)
  PROVE  ~torn /\ world # "stopped"
BY DEF CallInv, EntryInv, Moves

LEMMA TesterLosesNobody ==
  ASSUME CallInv, AnswerInv, TesterStep PROVE AnswerInv'
<1>1. UNCHANGED <<mode, pc, at>>
  BY DEF TesterStep, callerVars, Prepare, StartRelease, StopTheWorld,
     WorldStops, BeginWrite, EndWrite, DisposePage, ResetTimes,
     ResetMockTimes, Rebuild
<1>2. CallsAreAnswered'
  BY <1>1 DEF AnswerInv, CallsAreAnswered, AnswerableUse
<1>3. Undivided'
  <2>1. CASE WorldStops
    BY <1>1, <2>1 DEF WorldStops, AnswerInv, Undivided, Unstoppable, InPage
  <2>2. CASE EndWrite
    BY <1>1, <2>2, ModeFields
    DEF EndWrite, AnswerInv, Undivided, CallInv, EntryInv
  <2>3. CASE ~WorldStops /\ ~EndWrite
    <3>1. entry' = entry /\ (world' = world \/ world' # "stopped")
      BY <2>3 DEF TesterStep, Prepare, StartRelease, StopTheWorld,
         BeginWrite, DisposePage, ResetTimes, ResetMockTimes, Rebuild
    <3>. QED BY <1>1, <3>1 DEF AnswerInv, Undivided
  <2>. QED BY <2>1, <2>2, <2>3
<1>. QED BY <1>2, <1>3 DEF AnswerInv

LEMMA EnterLosesNobody ==
  ASSUME CallInv, AnswerInv, NEW c \in Callers,
         NEW from \in {"idle", "growing"}, Enter(c, from)
  PROVE  AnswerInv'
<1>1. Moves(c) /\ UNCHANGED testerVars
  BY DEF Enter, Goes
<1>2. mode.stops => ~torn /\ world # "stopped"
  BY <1>1, NobodyMoves
<1>3. CASE torn /\ Goes(c, from, "overwritten") /\ UNCHANGED at
  <2>1. /\ pc' = [pc EXCEPT ![c] = "overwritten"]
        /\ at' = [at EXCEPT ![c] = at[c]] /\ "overwritten" \in Places
        /\ ~AnswerableUse
    BY <1>2, <1>3, Stays DEF Goes, Places, AnswerableUse
  <2>. QED BY <1>1, <2>1, OneIsAnswered
<1>4. ASSUME NEW p \in {"relay", "entry"}, Goes(c, from, p),
             at' = [at EXCEPT ![c] = entry]
      PROVE  AnswerInv'
  <2>1. pc' = [pc EXCEPT ![c] = p] /\ p \in Places
    BY <1>4 DEF Goes, Places
  <2>. QED BY <1>1, <1>2, <1>4, <2>1, OneIsAnswered
<1>. QED BY <1>3, <1>4 DEF Enter

LEMMA EntryLosesNobody ==
  ASSUME CallInv, AnswerInv, NEW c \in Callers, EntryEnds(c)
  PROVE  AnswerInv'
<1>1. /\ pc[c] = "entry" /\ Moves(c) /\ UNCHANGED <<testerVars, at>>
      /\ at' = [at EXCEPT ![c] = at[c]]
  BY Stays DEF EntryEnds, Goes
<1>2. PICK p \in {"overwritten", "body", "hook"} :
        /\ pc' = [pc EXCEPT ![c] = p]
        /\ p = "overwritten" => torn \/ entry # at[c]
  BY DEF EntryEnds, Goes
<1>3. AnswerableUse /\ p = "overwritten" => mode.cut
  BY <1>1, <1>2, NobodyMoves, ModeFields
  DEF AnswerInv, Undivided, AnswerableUse, CallInv
<1>4. p \in Places
  BY DEF Places
<1>. QED BY <1>1, <1>2, <1>3, <1>4, OneIsAnswered

\* The page a caller is in is there, and the proxy leads to one.
LEMMA PagesLoseNobody ==
  ASSUME CallInv, AnswerInv, NEW c \in Callers,
         Relay(c) \/ Prefix(c) \/ CallProxy(c)
  PROVE  AnswerInv'
<1>1. UNCHANGED testerVars
  BY DEF Relay, Prefix, CallProxy
<1>2. AnswerableUse /\ pc[c] \in InPage => page[at[c]] # "freed"
  <2>. SUFFICES ASSUME AnswerableUse, pc[c] \in InPage
                PROVE  page[at[c]] # "freed"
    OBVIOUS
  <2>1. at[c] \in Patches /\ at[c] <= patches /\ (mode.joins => at[c] = patches)
    BY Stays DEF MayBe
  <2>2. mode.joins => page[patches] = "mapped"
    BY MetAMock DEF InPage, Quiet
  <2>. QED BY <2>1, <2>2 DEF AnswerableUse, CallInv, PageInv
<1>3. AnswerableUse /\ pc[c] = "toOrigin" => proxy # 0
  <2>. SUFFICES ASSUME AnswerableUse, pc[c] = "toOrigin" PROVE proxy # 0
    OBVIOUS
  <2>1. patches \in Patches /\ (mode.joins => proxy = patches)
    BY MetAMock DEF Quiet
  <2>2. proxy = patches
    BY <2>1 DEF AnswerableUse, CallInv, PageInv
  <2>. QED BY <2>1, <2>2 DEF Patches
<1>4. PICK p \in {"fault", "hook", "body", "prefix"} :
        pc' = [pc EXCEPT ![c] = p] /\ (AnswerableUse => p # "fault")
  BY <1>2, <1>3 DEF Relay, Prefix, CallProxy, Goes, InPage
<1>5. PICK g : at' = [at EXCEPT ![c] = g]
  BY Stays DEF Relay, Prefix, CallProxy
<1>6. p \in Places
  BY DEF Places
<1>. QED BY <1>1, <1>4, <1>5, <1>6, OneIsAnswered

LEMMA OthersLoseNobody ==
  ASSUME CallInv, AnswerInv, NEW c \in Callers,
         Inside(c) \/ HookReturns(c) \/ BodyEnds(c) \/ GrowStack(c)
  PROVE  AnswerInv'
<1>1. UNCHANGED <<testerVars, at>> /\ at' = [at EXCEPT ![c] = at[c]]
  BY Stays DEF Inside, Access, NoMatch, Match, Answer, CallOrigin, HookReturns,
     BodyEnds, GrowStack
<1>2. PICK p \in Places \ {"fault", "overwritten", "entry"} :
        pc' = [pc EXCEPT ![c] = p]
  BY DEF Inside, Access, NoMatch, Match, Answer, CallOrigin, HookReturns,
     BodyEnds, GrowStack, Goes, Places
<1>. QED BY <1>1, <1>2, OneIsAnswered

\* With the world stopped for the writes, a call never ends in an unmapped page
\* or a nil proxy, provided that the test either waits for its goroutines or
\* mocks by a short branch that it never changes while it is in effect; and it
\* is written over only where the runtime can stop a goroutine between two of
\* the instructions that are written over: over a stack check alone, never
\* (src/mock.go:208-321, src/internal/monkey/patch.go,
\* src/internal/monkey/mem/write.go:30-50).
THEOREM NoCallIsLost == Spec => []CallsAreAnswered
<1>1. Init => AnswerInv
  BY DEF Init, AnswerInv, Undivided, CallsAreAnswered
<1>2. CallInv /\ AnswerInv /\ [Next]_vars => AnswerInv'
  <2>. SUFFICES ASSUME CallInv, AnswerInv, [Next]_vars PROVE AnswerInv'
    OBVIOUS
  <2>1. ASSUME NEW c \in Callers, Call(c) \/ CallStep(c) PROVE AnswerInv'
    BY <2>1, EnterLosesNobody, EntryLosesNobody, PagesLoseNobody,
       OthersLoseNobody DEF Call, StartAgain, CallStep, Inside
  <2>2. CASE UNCHANGED vars
    BY <2>2 DEF vars, testerVars, callerVars, AnswerInv, Undivided,
       CallsAreAnswered, AnswerableUse
  <2>. QED BY <2>1, <2>2, TesterLosesNobody DEF Next
<1>3. AnswerInv => CallsAreAnswered
  BY DEF AnswerInv
<1>. QED BY <1>1, <1>2, <1>3, CallInvHolds, PTL DEF Spec

\* The counters read zero after every release, for a test that waits for its
\* goroutines (src/mock.go:345-351, the stores of UnPatch).
THEOREM CountersAreReset == Spec => []ReleaseResetsCounters
<1>1. CallInv => ReleaseResetsCounters
  BY DEF CallInv, CounterInv, ReleaseResetsCounters
<1>. QED BY <1>1, CallInvHolds, PTL

-----------------------------------------------------------------------------
(* The counters.                                                           *)

\* The callers that have been counted, and whose mock may still be.
Counted == {c \in Callers : pc[c] = "accessed"}
CountInv ==
  /\ IsFiniteSet(Counted)
  /\ mode.joins /\ tester # "toResetMockTimes" =>
       times = MaxTimes \/ mockTimes + Cardinality(Counted) <= times

LEMMA CountKept ==
  ASSUME CountInv, UNCHANGED <<mode, counters>>, Counted' = Counted,
         tester' = tester \/ tester # "toResetMockTimes"
  PROVE  CountInv'
BY DEF CountInv, counters

\* A caller between two places where it is not counted, or counted already.
LEMMA CountedMoves ==
  ASSUME TypeOK, NEW c \in Callers, NEW p, pc' = [pc EXCEPT ![c] = p]
  PROVE  Counted' = IF p = "accessed" THEN Counted \cup {c} ELSE Counted \ {c}
BY DEF TypeOK, Counted

LEMMA AccessCounts ==
  ASSUME CallInv, CountInv, NEW c \in Callers, Access(c) PROVE CountInv'
<1>1. Counted' = Counted \cup {c} /\ c \notin Counted
  BY CountedMoves DEF Access, Goes, CallInv, Counted
<1>2. /\ IsFiniteSet(Counted') /\ Cardinality(Counted) \in Nat
      /\ Cardinality(Counted') = Cardinality(Counted) + 1
  BY <1>1, FS_AddElement, FS_CardinalityType DEF CountInv
<1>3. /\ times' = More(times, MaxTimes) /\ UNCHANGED <<mode, tester, mockTimes>>
      /\ times \in 0..MaxTimes /\ mockTimes \in 0..MaxTimes
  BY DEF Access, testerVars, CallInv, TypeOK
<1>4. times' = MaxTimes \/ (times' = times + 1 /\ times # MaxTimes)
  BY <1>3, OneMore, BoundsAssumption
<1>. HIDE DEF Counted
<1>. QED BY <1>2, <1>3, <1>4 DEF CountInv

LEMMA MatchCounts ==
  ASSUME CallInv, CountInv, NEW c \in Callers, Match(c) \/ NoMatch(c) PROVE CountInv'
<1>1. Counted' = Counted \ {c} /\ c \in Counted
  BY CountedMoves DEF Match, NoMatch, Goes, CallInv, Counted
<1>2. /\ IsFiniteSet(Counted') /\ Cardinality(Counted) \in Nat
      /\ Cardinality(Counted') = Cardinality(Counted) - 1
  BY <1>1, FS_RemoveElement, FS_CardinalityType DEF CountInv
<1>3. /\ mockTimes' \in {mockTimes, mockTimes + 1} /\ UNCHANGED <<mode, tester, times>>
      /\ times \in 0..MaxTimes /\ mockTimes \in 0..MaxTimes
  BY OneMore, BoundsAssumption DEF Match, NoMatch, testerVars, counters, CallInv, TypeOK
<1>. HIDE DEF Counted
<1>. QED BY <1>2, <1>3 DEF CountInv

LEMMA TesterCounts ==
  ASSUME CallInv, CountInv, TesterStep PROVE CountInv'
<1>1. CASE ResetTimes
  <2>1. Counted' = Counted /\ tester' = "toResetMockTimes"
    BY <1>1 DEF ResetTimes, callerVars, Counted
  <2>. HIDE DEF Counted
  <2>. QED BY <2>1 DEF CountInv
<1>2. CASE ResetMockTimes
  <2>1. Counted' = Counted /\ mockTimes' = 0 /\ UNCHANGED <<mode, times>> /\ times \in 0..MaxTimes
    BY <1>2 DEF ResetMockTimes, callerVars, Counted, CallInv, TypeOK
  <2>2. mode.joins => Counted = {}
    BY <1>2 DEF ResetMockTimes, Counted, CallInv, CallerInv, MayBe, Releasing
  <2>3. Cardinality({}) = 0
    BY FS_EmptySet
  <2>. HIDE DEF Counted
  <2>. QED BY <2>1, <2>2, <2>3 DEF CountInv
<1>3. CASE ~(ResetTimes \/ ResetMockTimes)
  <2>1. /\ UNCHANGED <<mode, counters, pc>>
        /\ tester' = tester \/ tester # "toResetMockTimes"
    BY <1>3 DEF TesterStep, CallInv, EntryInv, callerVars, counters, Prepare, StartRelease, StopTheWorld,
       WorldStops, BeginWrite, EndWrite, DisposePage, Rebuild
  <2>2. Counted' = Counted
    BY <2>1 DEF Counted
  <2>. QED BY <2>1, <2>2, CountKept
<1>. QED BY <1>1, <1>2, <1>3

LEMMA CallerCounts ==
  ASSUME CallInv, CountInv, NEW c \in Callers, Call(c) \/ CallStep(c) PROVE CountInv'
<1>1. CASE Access(c)
  BY <1>1, AccessCounts
<1>2. CASE Match(c) \/ NoMatch(c)
  BY <1>2, MatchCounts
<1>3. CASE ~(Access(c) \/ Match(c) \/ NoMatch(c))
  <2>1. /\ UNCHANGED <<mode, tester, counters>> /\ pc[c] # "accessed"
        /\ \E p \in Places \ {"accessed"} : pc' = [pc EXCEPT ![c] = p]
    <3>1. CASE Call(c) \/ StartAgain(c) \/ EntryEnds(c) \/ GrowStack(c)
      BY <3>1 DEF Call, StartAgain, EntryEnds, GrowStack, Enter, Goes, Places,
         testerVars
    <3>2. CASE Relay(c) \/ Answer(c) \/ CallOrigin(c) \/ CallProxy(c)
      BY <3>2 DEF Relay, Answer, CallOrigin, CallProxy, Goes, Places, testerVars
    <3>3. CASE Prefix(c) \/ BodyEnds(c) \/ HookReturns(c)
      BY <3>3 DEF Prefix, BodyEnds, HookReturns, Goes, Places, testerVars
    <3>. QED BY <1>3, <3>1, <3>2, <3>3 DEF CallStep
  <2>2. Counted' = Counted
    BY <2>1, CountedMoves DEF CallInv, Counted
  <2>. QED BY <2>1, <2>2, CountKept
<1>. QED BY <1>1, <1>2, <1>3

\* While a test that waits for its goroutines looks at the counters, the mock
\* has worked at most as often as the function was called: a caller is counted
\* by Times before it is by MockTimes (src/mock.go:254, src/mock.go:292, README.md:719).
THEOREM MocksAreCalls == Spec => []MockedAtMostCalled
<1>1. Init => CountInv
  <2>. SUFFICES ASSUME Init PROVE CountInv
    OBVIOUS
  <2>1. Counted = {} /\ times = 0 /\ mockTimes = 0
    BY DEF Init, Counted
  <2>2. IsFiniteSet({}) /\ Cardinality({}) = 0
    BY FS_EmptySet
  <2>. QED BY <2>1, <2>2 DEF CountInv
<1>2. CallInv /\ CountInv /\ [Next]_vars => CountInv'
  <2>. SUFFICES ASSUME CallInv, CountInv, [Next]_vars PROVE CountInv'
    OBVIOUS
  <2>1. CASE UNCHANGED vars
    <3>1. UNCHANGED <<mode, tester, counters, pc>>
      BY <2>1 DEF vars, testerVars, callerVars
    <3>. QED BY <3>1, CountKept DEF Counted
  <2>. QED BY <2>1, TesterCounts, CallerCounts DEF Next
<1>3. CallInv /\ CountInv => MockedAtMostCalled
  <2>1. CallInv /\ CountInv =>
          /\ Cardinality(Counted) \in Nat
          /\ times \in 0..MaxTimes /\ mockTimes \in 0..MaxTimes
    BY FS_CardinalityType DEF CountInv, CallInv, TypeOK
  <2>. QED BY <2>1 DEF CountInv, MockedAtMostCalled
<1>. QED BY <1>1, <1>2, <1>3, CallInvHolds, PTL DEF Spec
=============================================================================
