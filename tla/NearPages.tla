----------------------------- MODULE NearPages -----------------------------
(* The search for a page near a function: allocateNear of every platform   *)
(* for the five-byte branch of amd64, and allocatePageWithin behind the    *)
(* trampoline pool of darwin/arm64.  Every attempt to map a page is a step *)
(* of its own, and the rest of the process maps and unmaps pages between   *)
(* them.  Distances are scaled down.                                       *)
EXTENDS TrampolinePool, SequencesExt

CONSTANTS
  Space,          \* addresses run from 0 to Space - 1
  SearchStep,     \* the 64 KiB step of linux, the granularity of windows
  HintOffsets,    \* the distances tried where the kernel only takes hints
  Occupied,       \* the layouts of the process: sets of pages
  MaxNoise,       \* how often the rest of the process maps or unmaps a page
  MaxSearches

ASSUME NearAssumption == Occupied \subseteq SUBSET Bases

ShortBranch == 5

(* The step of linux and the reach of the branch are whole pages, and a    *)
(* page is not smaller than the branch (4 KiB, 64 KiB and 2 GiB).          *)
ASSUME GridAssumption ==
  /\ Space \in Nat /\ SearchStep \in Nat \ {0} /\ PageBytes >= ShortBranch
  /\ SearchStep % PageBytes = 0 /\ Reach % PageBytes = 0

VARIABLES
  platform,   \* "linux", "hints", "windows" or "darwin"
  kernel,     \* what MAP_FIXED_NOREPLACE does: "works", "invalid" or "ignored"
  others,     \* the pages the rest of the process has mapped
  mine,       \* the pages mockey has mapped
  given,      \* those of patches in effect: [page, target]
  retired,    \* the pages of released short-branch patches
  search,     \* the search under way
  noise, searches

vars == <<poolVars, platform, kernel, others, mine, given, retired, search, noise, searches>>

PageOf(a) == PageBytes * (a \div PageBytes)
Free == {b \in Bases : b \notin others \cup mine}

Rel32Reachable(from, to) == IF to >= from THEN to - from <= Reach - 1 ELSE from - to <= Reach
BothEnds(target, page) ==
  /\ Rel32Reachable(target + ShortBranch, page)
  /\ Rel32Reachable(target + ShortBranch, page + PageBytes - 1)

(* The hints for a sequence of distances: above the target, then below it. *)
nearHint(target, offset, above) ==
  IF above
  THEN IF target + offset < Space THEN <<PageOf(target + offset)>> ELSE << >>
  ELSE IF offset > target THEN << >> ELSE <<PageOf(target - offset)>>
Hints(target, offsets) ==
  FlattenSeq([k \in 1 .. 2 * Len(offsets) |->
    nearHint(target, offsets[(k + 1) \div 2], k % 2 = 1)])

\* Mutant: the search ends a step before the reach does.
EndsEarly == [k \in 1 .. (Reach - 2 - PageBytes) \div SearchStep - 1 |-> k * SearchStep]

LinuxOffsets == [k \in 1 .. (Reach - 2 - PageBytes) \div SearchStep |-> k * SearchStep]
LinuxHints(target) == Hints(target, LinuxOffsets)
nearHintWindows(target) ==
  LET hints == Hints(target, HintOffsets)
  IN  [k \in DOMAIN hints |-> SearchStep * (hints[k] \div SearchStep)]

Idle == [mode |-> "idle"]
Search(mode, target, todo) ==
  [mode |-> mode, target |-> target, todo |-> todo, tried |-> {}]

Init ==
  /\ PoolInit
  /\ platform \in {"linux", "hints", "windows", "darwin"}
  /\ kernel \in (IF platform = "linux" THEN {"works", "invalid", "ignored"} ELSE {"works"})
  /\ others \in Occupied
  /\ mine = {} /\ given = {} /\ retired = {}
  /\ search = Idle /\ noise = 0 /\ searches = 0

Started == searches' = searches + 1 /\ searches < MaxSearches

AllocatePageNear(target) ==
  /\ search = Idle /\ Started
  /\ \/ platform = "linux" /\ search' = Search("linux", target, LinuxHints(target))
     \/ platform = "hints" /\ search' = Search("hints", target, Hints(target, HintOffsets))
     \/ platform = "windows" /\ search' = Search("windows", target, nearHintWindows(target))
  /\ UNCHANGED <<poolVars, platform, kernel, others, mine, given, retired, noise>>

Hint == Head(search.todo)
Trying(mode) == search.mode = mode /\ search.todo # << >>
NextHint ==
  search' = [mode |-> search.mode, target |-> search.target,
             todo |-> Tail(search.todo), tried |-> search.tried \cup {Hint}]
OnlyHints == search' = Search("hints", search.target, Hints(search.target, HintOffsets))
Keeps(page) ==
  /\ mine' = mine \cup {page}
  /\ given' = given \cup {[page |-> page, target |-> search.target]}
  /\ search' = Idle
GivesBack == UNCHANGED <<mine, given>>
\* Mutant: a page out of reach stays mapped.
LeaksPage(reachable, page) ==
  IF reachable THEN Keeps(page)
  ELSE NextHint /\ mine' = mine \cup {page} /\ UNCHANGED given

KeepIf(reachable, page) == IF reachable THEN Keeps(page) ELSE NextHint /\ GivesBack
Rest == <<poolVars, platform, kernel, others, retired, noise, searches>>

(* allocateNearLinux: only a kernel that places the page at the hint is    *)
(* searched with; any other is left to the hints.  An attempt may fail,    *)
(* also where the page is free, and the loop goes on.                      *)
TakeAt(page) ==
  KeepIf(Rel32Reachable(search.target + ShortBranch, page + PageBytes - 1), page)
Placed == IF Hint \in Free THEN {Hint} ELSE Free   \* by a kernel that takes hints
Fails == NextHint /\ GivesBack
TryFixed ==
  /\ Trying("linux")
  /\ \/ Fails
     \/ kernel = "invalid" /\ OnlyHints /\ GivesBack
     \/ /\ kernel = "ignored"
        /\ \E page \in Placed :
             IF page # Hint THEN OnlyHints /\ GivesBack ELSE TakeAt(page)
     \/ kernel = "works" /\ Hint \in Free /\ TakeAt(Hint)
  /\ UNCHANGED Rest

(* Mutant: only the beginning of the page has to be in reach. *)
ChecksOneEnd ==
  /\ Trying("hints")
  /\ \E page \in Placed : KeepIf(Rel32Reachable(search.target + ShortBranch, page), page)
  /\ UNCHANGED Rest

(* allocateNearWithHints: a page elsewhere is kept when both its ends are  *)
(* in reach, and unmapped otherwise.                                       *)
TryHint ==
  /\ Trying("hints")
  /\ Fails \/ \E page \in Placed : KeepIf(BothEnds(search.target, page), page)
  /\ UNCHANGED Rest

(* VirtualAlloc places the page at the address it is given, or fails.      *)
(* free on windows only decommits a page: nobody gets its addresses again. *)
Freed(pages) == others' = IF platform = "windows" THEN others \cup pages ELSE others
TryVirtualAlloc ==
  /\ Trying("windows")
  /\ \/ Fails /\ UNCHANGED others
     \/ /\ Hint \in Free
        /\ IF BothEnds(search.target, Hint) THEN Keeps(Hint) /\ UNCHANGED others
           ELSE Fails /\ Freed({Hint})
  /\ UNCHANGED <<poolVars, platform, kernel, retired, noise, searches>>

(* No page: the caller falls back to the long branch. *)
NotFound ==
  /\ search.mode \in {"linux", "hints", "windows"} /\ search.todo = << >>
  /\ search' = Idle
  /\ UNCHANGED <<mine, given>> /\ UNCHANGED Rest

(* tryShortBranch gives a page back when the rest of the patch fails; the  *)
(* page of a patch that took effect stays mapped when it is released.      *)
ReleasePage ==
  /\ search = Idle
  /\ \E g \in given : /\ given' = given \ {g}
                       /\ mine' = mine \ {g.page}
                       /\ Freed({g.page})
  /\ UNCHANGED <<poolVars, platform, kernel, retired, search, noise, searches>>
Unpatch ==
  /\ search = Idle
  /\ \E g \in given : /\ given' = given \ {g}
                       /\ retired' = retired \cup {g.page}
  /\ UNCHANGED <<poolVars, platform, kernel, others, mine, search, noise, searches>>
----------------------------------------------------------------------------
(* darwin/arm64: the regions above the target, then the pages below it. *)
Lo == IF search.target > Reach THEN search.target - Reach ELSE 0
Hi == search.target + Reach
Taken == others \cup mine
Min2(a, b) == IF a < b THEN a ELSE b

AllocTrampoline(target) ==
  /\ search = Idle /\ platform = "darwin" /\ Started /\ Len(slots) < MaxSlots
  /\ IF MustMap(target)
     THEN search' = [mode |-> "up", target |-> target, at |-> target] /\ UNCHANGED poolVars
     ELSE Reuse(target) /\ UNCHANGED search
  /\ UNCHANGED <<platform, kernel, others, mine, given, retired, noise>>

DownFrom == PageOf(search.target - PageBytes)
Up(at) == [mode |-> "up", target |-> search.target, at |-> at]
Below(at) == [mode |-> "down", target |-> search.target, at |-> at]
Down == Below(DownFrom)
HoleEnd ==
  LET above == {b \in Taken : b > search.at}
  IN  IF above = {} THEN Hi
      ELSE Min2(Hi, CHOOSE b \in above : \A c \in above : b <= c)

WalkRegion ==
  /\ search.mode = "up"
  /\ LET end == PageOf(search.at) + PageBytes
     IN  search' =
           IF PageOf(search.at) \in Taken THEN (IF end > Hi THEN Down ELSE Up(end))
           ELSE IF search.at >= HoleEnd THEN Down
           ELSE IF HoleEnd - search.at >= PageBytes
                THEN [mode |-> "hole", target |-> search.target, at |-> search.at, end |-> HoleEnd]
                ELSE Up(HoleEnd)
  /\ UNCHANGED <<mine, given>> /\ UNCHANGED Rest

AddArena(page, cursor) ==
  /\ arenas' = Append(arenas, [base |-> page, cursor |-> cursor])
  /\ slots' = Append(slots, [at |-> page, target |-> search.target])
  /\ UNCHANGED lost
Lose(page) == lost' = lost \cup {page} /\ UNCHANGED <<arenas, slots>>

(* Mutant: the slot handed out with a fresh page is not counted. *)
StartsAtZero(page) ==
  /\ mine' = mine \cup {page} /\ search' = Idle
  /\ AddArena(page, 0)

(* A page is mapped.  allocatePageWithin checks its address once more, and *)
(* mProtectRX may fail; the page is then neither unmapped nor kept.        *)
Found(page) ==
  /\ mine' = mine \cup {page} /\ search' = Idle
  /\ \/ page >= Lo /\ page < Hi /\ AddArena(page, TrampolineSize)
     \/ Lose(page)
Settled == <<platform, kernel, others, given, retired, noise, searches>>

ClaimHole ==
  /\ search.mode = "hole"
  /\ \/ search.at \in Free /\ Found(search.at)
     \/ search' = Up(search.end) /\ UNCHANGED <<mine, poolVars>>
  /\ UNCHANGED Settled

(* Mutant: an occupied page below the target is tried again. *)
TriesAgain ==
  /\ search.mode = "down"
  /\ IF search.at >= Lo /\ search.at > 0
     THEN IF search.at \in Free THEN Found(search.at) ELSE UNCHANGED <<search, mine, poolVars>>
     ELSE search' = Idle /\ UNCHANGED <<mine, poolVars>>
  /\ UNCHANGED Settled

ProbeBelow ==
  /\ search.mode = "down"
  /\ IF search.at >= Lo /\ search.at > 0
     THEN \/ search.at \in Free /\ Found(search.at)
          \/ search' = Below(search.at - PageBytes) /\ UNCHANGED <<mine, poolVars>>
     ELSE search' = Idle /\ UNCHANGED <<mine, poolVars>>
  /\ UNCHANGED Settled
----------------------------------------------------------------------------
(* The rest of the process. *)
Noise ==
  /\ noise < MaxNoise /\ noise' = noise + 1
  /\ \/ \E b \in Free : others' = others \cup {b}
     \/ \E b \in others : (\A t \in Targets : b # PageOf(t)) /\ others' = others \ {b}
  /\ UNCHANGED <<poolVars, platform, kernel, mine, given, retired, search, searches>>

Next ==
  \/ \E t \in Targets : AllocatePageNear(t) \/ AllocTrampoline(t)
  \/ TryFixed \/ TryHint \/ TryVirtualAlloc \/ NotFound
  \/ ReleasePage \/ Unpatch
  \/ WalkRegion \/ ClaimHole \/ ProbeBelow
  \/ Noise

(* Every search is a loop of the caller's goroutine. *)
Steps == TryFixed \/ TryHint \/ TryVirtualAlloc \/ NotFound \/ WalkRegion \/ ClaimHole \/ ProbeBelow
Spec == Init /\ [][Next]_vars /\ WF_vars(Steps)
----------------------------------------------------------------------------
(* Pages are pages, and a search is for a target. *)
TypeOK ==
  /\ PoolTypeOK
  /\ others \cup mine \cup retired \subseteq Bases
  /\ search = Idle \/ search.target \in Targets

(* Every page mockey has mapped is in use by a patch, retired, shared by   *)
(* the pool or lost by it: no failed attempt of a search leaves one behind *)
(* but one that is mapped for the pool of darwin/arm64 and cannot be made  *)
(* executable, which the code forgets (tramp_pool_darwin_arm64.go:78-80).  *)
(* A retired page is never unmapped or handed out again (patch.go:79-91),  *)
(* nor is a lost one, and none overlaps a page of the rest of the process, *)
(* also when that mapped it between the search and the attempt.            *)
PagesAreAccountedFor ==
  LET shared == {arenas[i].base : i \in DOMAIN arenas}
  IN  /\ TypeOK
      /\ mine \cap others = {}
      /\ mine = {g.page : g \in given} \cup retired \cup shared \cup lost
      /\ \A g \in given : g.page \notin retired
      /\ \A g, h \in given : g.page = h.page => g = h
      /\ lost \cap shared = {} /\ (lost # {} => platform = "darwin")

(* A page given to a patch is in reach of the branch at both ends, though  *)
(* linux looks at one of them only (page_alloc.go:71).                     *)
GivenPagesAreNear == \A g \in given : BothEnds(g.target, g.page)

(* A search on linux gives up only after an attempt at every step within   *)
(* the reach, above and below (page_alloc.go:51-77).                       *)
GivesUpLast ==
  search.mode = "linux" /\ search.todo = << >> =>
    \A a \in 0 .. Space - 1 :
      LET d == IF a > search.target THEN a - search.target ELSE search.target - a
      IN  d % SearchStep = 0 /\ d > 0 /\ d + PageBytes < Reach - 1 => PageOf(a) \in search.tried

(* Every search ends, with a page or without, whatever is mapped meanwhile. *)
SearchEnds == (search # Idle) ~> (search = Idle)

(* The pool gets its pages from searches during which anything may happen: *)
(* when a page is found at last, it is one that the pool has not and can   *)
(* use for the target, and it still needs one.                             *)
P == INSTANCE TrampolinePool
ImplementsPool == P!PoolSpec
============================================================================
