# Specifications of mockey

mockey replaces Go functions while a test runs: it overwrites the entry of a
function with a jump to a hook, and keeps enough of the old entry to call the
original and to take the jump away again. This directory holds TLA+
specifications of the parts of it that have a state worth reasoning about, TLC
configurations that check them, and TLAPS proofs.

Paths below are relative to the repository.

## The system

| part | state | operations |
|---|---|---|
| mock registry and contexts (`global.go`) | `gMocker`, a stack of maps from a target's address to its mock: one per open `PatchConvey`/`PatchRun`, and one for the process at the bottom | `addToGlobal`, `removeFromGlobal`, `PatchConvey`, `PatchRun`, `UnPatchAll` |
| function mocker (`mock.go`) | `isPatched`, the patch, the proxy, the hook, two counters, the builder | `Build`, `Patch`, `UnPatch`, `Release`, `rePatch` (`To`, `Return`, `When`, `Origin`, goroutine filters); the hook itself |
| conditions (`mock_condition.go`) | the list of `when`/`hook` pairs of a builder | `When`, `To`, `Return` and their forced forms |
| return sequences (`mock_sequence.go`) | values with repetition counts, two indices, a lock | `Sequence`, `Then`, `Times`, `GetNext` |
| variable mocker (`mock_var.go`) | the variable's first value, the mock value, `isPatched` | `To`, `Patch`, `UnPatch` |
| patch engine (`internal/monkey/patch*.go`) | the entry bytes, the saved bytes, the page of the displaced prefix, the retired relays | `PatchValue`, `PatchValueShort`, `Unpatch`, `tryShortBranch` |
| code writer (`internal/monkey/mem`, `stw`, `sysmon`) | the world: running, stopping, stopped | `WriteWithSTW` |
| instructions (`internal/monkey/inst`) | none: decoding, the cut, padding, relocation | `Disassemble`, `Relocate`, `PadEntry`, `GetGenericAddr` |
| code pages (`internal/monkey/common`) | mapped pages, the trampoline pool | `AllocatePage`, `AllocatePageNear`, `AllocTrampoline`, `ReleasePage` |
| stack guard (`internal/tool/stack.go`) | the stack that the arguments of a hook were captured on | `NewStackGuard`, `Fix`, `Release` |
| target analysis (`internal/fn`) | the target's type, its shape function and its dictionary | `NewAnalyzer`, the adapters, `GenericInfo.Equal` |
| method lookup (`utils.go`) | none | `GetMethod`, `GetNestedMethod` |
| interface mocks (`exp/iface`) | one mocker per implementation | `Mock...Build` |
| the rest (`internal/unsafereflect`, `linkname`, `internal/tool`) | none | reflection on the runtime's own layouts, assertions, logging |

How they meet: a *test goroutine* builds, changes and releases mocks. Building
goes from the mocker to the patch engine (which decodes the live entry, takes a
page, fills it with the displaced prefix, injects it into the mocker's proxy,
and has the writer replace the entry with the world stopped) and then to the
registry. A context releases what its map holds when it ends. *Other
goroutines* call the mocked function at any time: they run the entry, perhaps a
relay in a page, the hook (counters, goroutine filter, conditions), and
perhaps, through the proxy, the displaced prefix and the rest of the function.

What is hard in it:

* Nothing represents which mock lies on which. Mocking a mocked function saves
  the bytes of the other mock's jump, and a release writes its own saved bytes
  back without looking; the registry is a stack of maps addressed by key alone.
* Patch, registry, `isPatched` and the counters change one after the other, and
  some of the steps in between can panic.
* Calls on other goroutines overlap every step of a patch, release or rebuild.
  They may be in code that belongs to no Go function, where the runtime cannot
  stop them, and they read the proxy late.
* The code reads back what it has written: later mocks decode the live entry.

## Modules

Modules in the order of the dependencies; a `_proofs` module holds the theorems
about its namesake, an `MC` module gives the constants of a run their values.

| module | what it models |
|---|---|
| `MockScopes` | what the documentation promises of mocks: nested scopes. Abstract, refined by `MockLifecycle` |
| `MockLifecycle`, `MockLifecycle_proofs` | mocker, registry and entries on the test goroutine: every sequence of builds, patches, releases, rebuilds and contexts |
| `MockClients`, `MockClients_proofs`, `MCMockClients` | mocks of variables and of interfaces in the same registry; refines `MockLifecycle` |
| `HookCall`, `HookCall_proofs`, `MCHookCall` | one mocker and the goroutines that call the function, step by step, with the stop of the world and the life of the pages |
| `CodeWrite`, `CodeWrite_proofs`, `MCCodeWrite` | `WriteWithSTW`: the stop, the system monitor, the page-wise loop; shows what `HookCall` assumes of a write |
| `Adapters` | how arguments of a call become those of a hook and back, for both Go versions |
| `HookArgs`, `MCHookArgs`, `HookValues_proofs`, `MCHookValues` | the arguments of a call on their way through the hook, while the stack moves |
| `ReturnSequence`, `HookValues_proofs`, `MCHookValues` | a sequence of results shared by goroutines |
| `MethodLookup`, `Targets_proofs`, `MCTargets` | `GetMethod` and `GetNestedMethod` against the selector rule of Go |
| `CodeBytes` | memory as cells that belong to instructions; writing, copying and decoding |
| `Amd64`, `Arm64` | `Disassemble`, `PadEntry`, the branches and `Relocate` of the two machines |
| `EntryCut`, `EntryInvariant`, `EntryCut_proofs`, `MCEntryCut` | `PatchValue` and `Unpatch` on the bytes of a function, and a processor that runs them; `EntryInvariant` holds the inductive invariant and the simulation relation of the proofs |
| `GenericCode` | `GetGenericAddr`: the shared body and the dictionary in a wrapper's code |
| `GenericTarget`, `Targets_proofs`, `MCTargets` | mocks of instances that share a body, with the analyzer's fallback |
| `TrampolinePool` | the slots that `AllocTrampoline` hands out. Abstract, refined by `NearPages` |
| `NearPages`, `NearPages_proofs`, `MCNearPages` | the search for a page near a function on every platform; the proofs are of the pool, too |

Definitions that begin with "Mutant" in the comment above them are wrong
variants of the definition that follows. Nothing uses them; each shows a
property to fail when the code had that mistake (see `PROJECT.json`).

### MockLifecycle

`gMocker`, `isPatched` and the maps are the variables of the code.
`original[m]` stands for both copies of the displaced bytes (`Patch.original`
and the trampoline behind the proxy), which always hold the same instructions;
`entry[a]` is who the code at an address jumps to. A mocker and its hook are
one value, since a rebuilt hook takes the place of the old one everywhere.

| code | action |
|---|---|
| `MockBuilder.Build` | `Build(m)`; a refused re-mock leaves `handle[m] = "lost"` |
| `Mocker.Patch` after a release | `Patch(m)` |
| `Mocker.UnPatch`, `Release` | `UnPatch(m)` |
| `To`, `Return`, `When`, `Origin`, filters on a patched mocker | `RePatch(m)` |
| `PatchConvey`, `PatchRun`: before the function | `EnterContext` |
| their deferred function; `UnPatchAll` | `LeaveContext` or `UnPatchAll`, one `CleanupStep(k)` per key in any order, `CleanupEnd` |

`target` says which function a mocker mocks and `addr` where the code of a
function is; two keys with one address are two instances of a generic shape,
whose hook passes on the calls of the others (`Reached`).

A rule of use is a guard that can be switched off: `Rules` is the set of those
that the test obeys. The documentation asks for two:

* `lifo`: manual releases in last-in-first-out order (README.md:226)
* `once`: a function is mocked once per context (README.md:921)

Two more are written nowhere. They leave out uses with which the code breaks
what the documentation promises, and a run and a finding show each of them:

* `own`: a mock is released or changed in the context it belongs to. One that
  is released in an inner context stays registered in the outer one and blocks
  the next (`global.go:45`), and one that is changed in an inner context moves
  there and is released with it (`mock.go:411`), although "each level only cleans
  up its own mocks" (`global.go:53`, README.md:300): `rebuilt_inside`
* `manual`: a context with two mocks of one shape releases them by hand. Its own
  loop follows the order of a map, which is random (`global.go:84`), and the
  older one last brings the newer one's branch back, although "all mocks are
  automatically cleaned up" (`global.go:112`): `release_in_map_order`

Without `once`, a test that recovers from the panic about a re-mock goes on with
the refused mock in effect (`mock.go:332` patches before it registers).

Properties: the registry and `isPatched` agree and every patched mock is in
exactly one map (`RegisteredExactlyWhilePatched`); from the entry of an address
the saved bytes lead through exactly the mocks in effect to the function's own
code (`ChainIsSound`: what `Hop` meets on its way, so that a cycle beside the
way does not count), in the order of the contexts (`ChainFollowsNesting`); a
function with an entry of its own is itself again when no context holds a mock
of it, also without `manual` (`FreeFunctionsAreOriginal`); and the whole
implements nested scopes (`ImplementsScopes`, the refinement of `MockScopes`
under `scopes <- gMocker` and `answer` as what a call reaches). What is promised
beyond that and does not hold: `NothingHeldNothingMocked`, of functions that
share their entry, too, and `CleanupSparesOuterMocks`.

### MockClients

The other two kinds of mocks in the registry. A variable stands where a function
has its entry: `MockValue` saves the value, `To` and `Patch` (`PatchVar`) set
it, `UnPatch` (`UnPatchVar`) resets it. An interface mock is a group of function
mocks: `BuildGroup`, `PatchGroup` and `UnPatchGroup` begin a loop over the
functions that `FindImplementTargets` returns, one step per function in
the order of the program's table (a set of places, the least one `First`);
`BuildRefused` and a refused registration in `BuildMember` or `PatchMember` are
the panics that end a loop half way. `Lifecycle` takes in the actions of
`MockLifecycle` between two loops.

The whole refines `MockLifecycle` (`ImplementsLifecycle`): a variable's mock is
not seen before `To`. This needs one more rule, `fresh`: the variable still has
the value that `MockValue` saw when `To` sets it. `MockValue(&v).To(x)` in one
go, as in every test, obeys it; a variable that is set between the two is reset
to what it was long before (`mock_var.go:48`). `GroupsStayTogether` says that
between two operations an interface is mocked in all the functions found or in
none, and that one context holds what a panic left behind.

### HookCall

One mocker, one function. The tester's steps are those between which another
goroutine can see a difference: the page and the proxy (`Prepare`), the stop of
the world, the two halves of the write, the disposal of the page, the two
stores that reset the counters, and the rebuilding of the proxy. A caller's
steps are the first instruction of the entry (`Enter`) and the rest of it
(`EntryEnds`), the relay, the hook up to the counters, the choice of a
condition, the read of the proxy, the displaced prefix, and the body. A stack
check among the displaced instructions may send the goroutine to `morestack`,
from the entry and from the prefix, on the legacy path as well (`GrowStack`),
and then back to the entry, whatever that holds by then (`StartAgain`). The
variable `mode` is chosen once, from the set `Modes`, and says which program
runs: with a short or a legacy branch, in a build that stops the world or with
`mockey_disable_stw`, over a stack check or over other code, and under a test
that rebuilds its mock or waits for its goroutines before it releases.

The runtime is external: it is assumed to stop a goroutine in the code of any
Go function and in no other code, and to let it run until it gets there. It
does not stop one within a stack check; between any other two instructions it
may (`mode.cut`). `pc = "fault"` is a jump to an unmapped page or a call of a
nil function, and ends the process. `pc = "overwritten"` is a goroutine that was
between two instructions of the entry when they were written over, or that read
a half-written one; what it does then the model does not say.

`AnswerableUse` names the use under which the code has an answer to every
call; outside of it two things happen: a test that releases a legacy branch
under a running hook makes the hook call the original in an unmapped page, and
one that rebuilds a mock under a running hook makes it call a nil function
(`rePatch` calls `build`, which points `mocker.proxy` to a new function, and
`Patch` fills it later, `mock.go:407-413`). Within it one case is left: nothing
in `WriteWithSTW` looks at where goroutines were stopped
(`mem/write.go:30-50`), so that a goroutine stopped between two displaced
instructions goes on in the middle of what has been written. `CallsAreAnswered`
excepts it where the runtime can stop a goroutine there, and claims that it does not
happen over a stack check. When the stack grows in the displaced prefix, the
origin begins again at the patched entry and runs through the mock once more
(`relocate_amd64.go:33`), although `mock.go:94` says that it is not mocked;
`CallsReturn` has that case, any number of times: the counters and the nested
hooks of the model stay at their bounds (`More`).

### CodeWrite

`WriteWithSTW` of several goroutines (`Writers`), the goroutines that run the
code, and the system monitor. A write stops the world (`StopTheWorld`), takes
the monitor's lock (`SuspendSysmon`), and for each page in turn makes it
writable, copies byte after byte, and makes it executable again (`Loop`,
`MakeWritable`, `Copy`, `MakeExecutable`). The kernel may refuse either change
of the page: before anything is written (`Refused`), or when it has been, and
then the page stays writable and is in `left` (`StaysWritable`). Both end in the
same panic, and the deferred resume lets the monitor and then the world go
(`ResumeSysmon`, `StartTheWorld`). Where the library does not know the offset
of the monitor's lock (`lockKnown`), nothing is suspended. A goroutine in a
system call is not stopped and comes back through the runtime's code.

`NobodyFaults` rests on what the code leaves to its users and says in
`CodeAssumption`: no function is mocked on a page with the parts of the runtime
that `write` itself needs; it excepts the pages in `left`, and the monitor where
its lock is not known. `EntriesAreWhole` is what `HookCall` takes for
granted. `Coherent`, `Flushes` and `Debug` are constants: the run has darwin's
flush of the instruction cache. linux/arm64 has neither coherence nor a flush,
and the property fails for it; with `MOCKEY_DEBUG` the writer prints with the
world stopped, waits for a lock that a stopped goroutine may hold, and
`WorldGoesOn` fails.

### Adapters and HookArgs

`Adapters` has `InputAdapter` and `ReversedInputAdapter` of
`analyzer_1_20.go` and `analyzer_below_1_20.go` as positions: where every
argument of a hook comes from, and where every argument of the original.
`HookArgs` follows one goroutine: `EnterHook`, `AskWhen` and `WhenReturns` for
each condition in turn, `NoWhen`, `PassThrough` for calls of other goroutines
and instances, `CallOrigin` and `OriginReturns`, `HookReturns`. The stack moves
in user code and whenever the hook makes room (`ReserveStack`), and
`StackGuard` rewrites the words that point into it (`walkMem` by the types'
layouts). Calls nest in hooks and in originals. `GoType` gives every type its
kind, its size and its parts; `PointerWords` is where Go puts the pointers of a
value, and `mayHoldPointer` and `walkMem` are how the code looks for them.

The stack can move wherever a function is entered, also between two things that
one action does. Each of these actions therefore says at which stacks it does
them: `EnterHook` copies the arguments at the stack the call was made on and
takes the guard's bound at the one `NewStackGuard` finds, which the prologue of
the hook may have changed; `Use` and `CallOrigin` fix at one stack and make the
reflect call at another. A call or a use where the two differ has `strayed`.
`used` is the reflect call being made, and nothing in all other states.

`ArgumentsAreCurrent` speaks of the calls that have not strayed. The code knows
of the others: a move between reflect's copy and `NewStackGuard` is not seen
(`stack.go:68-70`), and the room that `ReserveStack` makes keeps the stack from
growing between `Fix` and the callee's frame but not from being moved
otherwise (`stack.go:56-60`).

`ArgumentsAreCurrent` and `OriginGetsTheCall` except another case: the getter of
Origin's further arguments is one variable of the mocker (`mock.go:273`), so
that after a nested call the outer hook's origin gets the receiver and the
dictionary of the nested one.

### ReturnSequence

`GetNext` line by line under its lock. `served` records what was read in which
order.

### MethodLookup

Here nothing runs side by side: the initial states are all the ways to embed
`MaxStructs` structs in each other and to declare one name in them, and the two actions
are the two lookups. `getMethod` and `getNestedMethod` are recursive functions
over the structs as the code recurses over values; `Denoted` is Go's rule,
defined on the paths through embedded fields. `OfValue` and `OfPointer` are the
method sets that package `reflect` lists, with wrappers for what is promoted.

Of two embedded structs that declare the method at different depths the first
one is found, not the one that Go's selector denotes (`utils.go:100`); the
properties are stated of one declaration and of chains. Along a chain the
comment at `utils.go:83-92` promises the outermost method. `ChainIsResolved`
says that this is so for exported names, and that an unexported name is looked
up to the innermost method instead: whether the struct itself declares it is
asked of the methods that reflection lists (`utils.go:114-122`), and those are
exported.

### CodeBytes, Amd64, Arm64 and EntryCut

A byte of memory knows its instruction and its place in it, so that the tail of
an instruction whose head was overwritten does not decode. Instructions are told
apart by what relocation does with them; an operand is a displacement or the
name of an effect. `Amd64` and `Arm64` have the cut (`Disassemble`), the padding,
the branches and the longer forms that `Relocate` gives to PC-relative
instructions.

`EntryCut` has one action per way that `PatchValue` takes: `PatchLegacy`,
`PatchShortBranch`, `PatchFallback` (amd64), `PatchArm64`, `PatchNear`
(functions of darwin/arm64 that are too short), `PatchUnsafe`; and `Unpatch`. A
processor then runs the target through its entry (`CallTarget`), or a proxy in
step with the unpatched function (`CallProxy`, `Step`, `StepReference`,
`StepBoth`), so that a displacement that is off shows as a different effect.
Proxies are run that were relocated and not copied as they are (`MockUnsafe` and
the fallback copy without relocation), and of functions that do not branch from
behind the cut into it: no way of patching looks at the rest of the body.

`TargetAssumption` says what the code relies on and cannot see: that
there are at least `MaxCut` bytes of code at the target, the 26 bytes
of `patch.go:168`, padding and the next function included.
`PageAssumption` says that a page has room for one displaced instruction and the
way back, `AddressAssumption` that the hooks' function values are addresses. Pages
and trampolines are memory that was not in use (`Free`), as mmap and
`AllocTrampoline` hand them out.
`Fits` has the two assertions in front of the copies (`patch.go:174`).

### GenericCode and GenericTarget

`GetGenericAddr` of both machines reads a wrapper: the one call that is not one
of the runtime's extra calls is the shared body, the last address loaded before
it the dictionary. `GenericTarget` has the analyzer (`Analyze`), its fallback
that patches the body, calls the wrapper with zero values and unpatches
(`FallbackPatch`, `FallbackCall`, `FallbackUnpatch`), mocks of several instances
on one body, and the hooks, which compare dictionaries (`Equal`) and pass calls
of other instances on (`Hook`).

Dictionaries are taken for equal when their first words are (`generic.go:72`),
that is, when the first type arguments are. What the code can tell apart are
therefore kinds of instances, and `NewestOfItsKin` is stated of these. Instances
that differ in a later type argument only are of one kin and answer for each
other, although README.md:202 promises to mock instances "with the same gcshape
but different actual types": the run `generic_promise` shows
`NewestOfItsInstance` to fail with two of them.

### TrampolinePool and NearPages

`TrampolinePool` hands out slots of shared pages: `Reuse` from the first page
with room in reach, `Fresh` from a new page found anywhere. `NearPages` finds
the pages, one attempt of a search per step, with the rest of the process
mapping and unmapping in between (`Noise`): at fixed steps on linux
(`TryFixed`), with three answers a kernel may give to `MAP_FIXED_NOREPLACE`, by
hints where the kernel takes only these (`TryHint`), by `VirtualAlloc`, and by
walking the regions above and the pages below on darwin (`WalkRegion`,
`ClaimHole`, `ProbeBelow`). An attempt may fail although the page is free, and the loop goes on
(`Fails`). `ReleasePage` and `Unpatch` end the life of a page
or retire it. A page that was mapped for the pool and cannot be made executable
is neither unmapped nor kept (`tramp_pool_darwin_arm64.go:78-80`); both modules
count it as `lost`. `ImplementsPool` shows the search on darwin to be a way to get
the pool its pages: the pool takes a page only when it needs one, that it does
not have, in reach of the target, while `Found` of the search asks for the
reach alone, so that the other two follow from how a search begins and what
happens meanwhile. `SlotsAreInReach` names one exception: a page that begins
exactly at the reach below the target is accepted by the search and refused by
the branch, so that the patch panics (`patch_short_darwin_arm64.go:75`).

`GridAssumption` (steps and reach are multiples of a page, and a page is
longer than a branch) is what the constants of the code obey, and what lets
linux look at one end of a page only: the other end is in reach because the
reach ends at the end of a page.

## What is checked

Each configuration is a run of `PROJECT.json`. The five runs that expect a
violation show where the code and what is said of it disagree; `findings` there
quotes both.

| run | configuration | result |
|---|---|---|
| `documented_use` | `MockClients.cfg` | all rules obeyed: the registry agrees, the saved bytes form one chain per entry, and scopes are nested, of functions, variables and interfaces; groups stay together |
| `release_in_map_order` | `MapOrder.cfg` | violated without `manual`: a context that ends leaves a function mocked that shares its entry with another |
| `rebuilt_inside` | `RebuiltInside.cfg` | violated without `own`: a mock of an outer context that was changed in an inner one is released with it |
| `calls_across_releases` | `HookCall.cfg` | short branches: every call is answered and ends and every write comes about, but for calls that were stopped between two displaced instructions; no unmapped code is run, even without a stop of the world and with rebuilds; legacy branches under a test that waits for its goroutines: no call is lost and the counters are right |
| `code_writer` | `CodeWrite.cfg` | nobody runs a page that is being written, entries are seen whole, the world goes on after every write, also after a refused one |
| `hook_values` | `HookValues.cfg` | no reflect call gets a pointer into a stack that was left, and hooks, conditions and originals get the right arguments in their own order; the values of a sequence come in order and as often as asked for, whoever takes them, and a call that waits for the lock gets one |
| `released_arguments` | `ReleasedArguments.cfg` | violated: when the stack moved while the hook ran, the deferred function relocates the results first, and the arguments keep pointers into the stack that was left |
| `empty_sequence` | `EmptySequence.cfg` | violated: the panic about an empty sequence keeps the lock |
| `targets` | `Targets.cfg` | a single declaration is found, along a chain of embedded structs the outermost one if its name is exported, and `GetNestedMethod` finds what is shadowed; the analysis of a generic function finds body and dictionary or calls for it and cleans up, and the newest mock of the called instance's kin answers |
| `generic_promise` | `GenericPromise.cfg` | violated: of two instances with the same first type argument one answers for the other |
| `entry_cut` | `EntryCut.cfg` | a call reaches the newest hook, a relocated prefix has the effects it had in place, the patched entry decodes, and the releases restore it |
| `near_pages` | `NearPages.cfg` | every search ends, keeps only pages in reach and gives the others back, except those the pool loses; slots never overlap |

`documented_use` looks at three small programs, `hook_values` and `targets` at two
parts each that have no state in common: a variable that is fixed from the start
(`program` or `part`) says which, and the others stand still.

A hook that is still running when its mocker is released counts after the reset
of the counters. The documentation does not say that it may not, so
`ReleaseResetsCounters` and `MockedAtMostCalled` are stated of tests that wait.
`CallsAreAnswered` and `CallsReturn` are stated of `AnswerableUse`, which
includes that the build stops the world; without that a goroutine may decode a
half-written entry.

Bounds and why they are enough:

* `MockLifecycle`: the program "functions" has four mockers, two instances `f`,
  `g` of a shape at one address, `f` with two mockers, and a function `f2` of
  its own; three maps (process, outer and inner context). So a chain of three, a
  mock of one function in two contexts, a mixed order of instances in one
  context, and a mock that is patched, released and patched again elsewhere all
  occur; the proofs below do not depend on the size.
* `MockClients`: the program "variables" has one variable with a mock in two
  contexts, and a function; "interfaces" has two groups over the same methods,
  of which the first meets a function that cannot be patched, a function mock of
  one of the methods, for the re-mock in the middle of a group, and one mock of
  a variable.
* `HookCall`: two callers, so that one can be in every place while the other
  counts or makes the stop wait; two patches, so that a caller meets the page
  and the proxy of an earlier patch; one call each, since a call that has ended
  leaves nothing but the counters behind. A call may meet the hook any number
  of times; where it does so because the stack grows, under a test that does
  not wait, one goroutine calls. Two nested hooks are told apart (`MaxFrames`),
  more of them count as two, and the counters stay at one (`MaxTimes`), which
  is enough to be different from zero and, for a waiting test, for one of them
  to be ahead.
* `CodeWrite`: three pages of four bytes, two writers, one of whose entries
  crosses a page boundary onto the page of the other's and of the monitor; six
  writes, so that both patch, release and meet a refused page.
* `HookArgs`: two places of the stack, the old and the new one: a guard that is
  behind is wrong by one move as by many, and a stack may come back to where it
  was. Two calls and three frames, which is a call nested in a hook and one
  in an original; six mocks: methods, generic functions and generic methods,
  with hooks and origins of the forms the adapters tell apart, on both Go
  versions, and parameters of the layouts a walk tells apart, an array in a
  struct being the deepest.
* `ReturnSequence`: three goroutines, up to three values with one or two
  repetitions and six answers, more than a round of every shorter sequence.
* `MethodLookup`: three structs with all ways to embed and to declare, enough
  for a struct with two embedded ones, one of them in the other, and for a chain.
* `EntryCut`: every function that begins with any two of ten (amd64) or nine
  (arm64) instructions that relocation treats differently, with three rests on
  amd64 (one branches back, one is padding) and one on arm64, followed by as
  much padding as `TargetAssumption` needs, and with branches that stay in the
  prefix, leave it or come back into it; two patches on top of each other. A
  cut that needs more bytes goes on into the rest.
* `GenericTarget`: three instances with one, one and three dictionaries, one of
  them not resident, two instances of one kin, with wrappers that make extra
  calls, load other addresses and compute the dictionary; four builds and three calls, on both machines.
* `NearPages`: 16 pages, a reach of six, two functions, four layouts of the
  process (holes above, below, at the ends of the reach, nowhere), one map or
  unmap by another thread, three searches, and as many slots.

Deadlock is not checked: lookups and bounded tests come to an end, a call that
faults stops its goroutine, and counterparts may all be waiting then; the
liveness properties say what must not be waited for.

Fairness. `HookCall`: weak fairness for each goroutine that is in a call, since
the Go scheduler runs every runnable goroutine, and for a test goroutine that
has begun to write, for the same reason. Strong fairness for getting past a
stack check, in the entry and in a prefix: `morestack` makes the stack larger
each time, and a request to yield is served once, so that a check that is met
again and again passes in the end. No fairness for calls or for the
test's decisions. `ReturnSequence`: weak fairness for the steps of a goroutine
in `GetNext`, strong fairness for taking the lock: `sync.Mutex` goes into
starvation mode and hands itself to the longest waiter. `CodeWrite`: weak
fairness for the steps of a writer that has stopped the world, strong fairness
for taking the monitor's lock, and weak fairness for the monitor to let it go:
the monitor sleeps between two rounds and frees the lock again and again. A
system call may last for ever. `NearPages`: weak fairness for the steps of a
search, a loop of the caller's goroutine that waits for nobody.

## What is proved

`MockLifecycle_proofs` proves, for every set of mockers, functions and
addresses, every assignment of targets and every depth, of a finite number of
mockers:

| theorem | assumes | proves |
|---|---|---|
| `TypesHold` | `once`, `own` | `[]TypeOK` |
| `RegistryAgrees` | `once`, `own` | `[]RegisteredExactlyWhilePatched` |
| `FreeFunctionsComeBack` | `lifo`, `once`, `own` | `[]FreeFunctionsAreOriginal` |
| `ChainsHold`, `ChainsAreSound` | all rules | `[](ChainIsSound /\ ChainFollowsNesting)` |
| `ScopesAreNested` | all rules | `ImplementsScopes`, the refinement of `MockScopes` |

The first two rest on `RegistryInv`: types, the agreement itself, and that a
loop over the last map has still to visit exactly the keys that are in it. The
agreement alone is not inductive, because a step of the loop looks up a key it
remembered when it began. The order of release plays no part, which is why
these need two rules only.

The others rest on `EntryInv`, which adds the chain and its order to
`RegistryInv`, of every address that no loop releases in the wrong order
(`Apart`: the rule `manual` is obeyed, or one function only has its entry there),
and that under `manual` the map a loop runs over has no two mocks at one
address. A release is sound only when the mock is the top of its chain. By hand
that is the rule `lifo`; in a loop it follows from the order of the chain:
whatever lies on a mock of the innermost context belongs to the innermost
context itself (`LoopTakesTheTop`), and there nothing else shares its address.
Pushing and popping keep chain and order (`PushOnChain`, `PopFromChain`,
`PushFollowsNesting`, `PopFollowsNesting`). A function comes back because an
entry that is not the function's own code points at a patched mock, which some
context holds.

For the refinement the chain is a sequence `c` of the mocks in effect that
begins at the entry. The way of a call through it has at most as many hops as
there are mockers (`HopAlongChain`), and the first that answers is the one
the innermost context holds (`ReachedIsInnermost`), since the chain is ordered
like the contexts. Every action is then a step of `MockScopes` or a stutter.

`MockClients_proofs` proves, for every set of variables, interfaces, functions
and places in the table:

| theorem | assumes | proves |
|---|---|---|
| `ClientTypesHold` | `once`, `own`, `fresh` | `[]CTypeOK` |
| `ClientsImplementLifecycle` | `fresh` | `ImplementsLifecycle`, the refinement of `MockLifecycle` |
| `ClientScopesAreNested` | all rules | `MockScopes` of functions, variables and interfaces |
| `ClientRegistryAgrees` | all rules | `[]RegisteredExactlyWhilePatched` of them |
| `GroupsAreTogether` | all rules | `[]GroupsStayTogether` |

The refinement rests on `ClientInv`: which mockers a variable or a group has
given a handle, and that a loop over a group is under way only between two
operations of the lifecycle and for members that the rules let the test change
(`LoopIsAllowed`). The next two apply the theorems of
`MockLifecycle_proofs` to it: what is proved of functions holds of variables
and interfaces. `TogetherInv` adds that every group is held by one context, and how far its
loop has come: which members are in effect and which are not yet, or no more.

`HookCall_proofs` proves, for any number of goroutines, patches, calls and
nested hooks:

| theorem | assumes of every mode | proves |
|---|---|---|
| `CallTypesHold` | nothing | `[]TypeOK` |
| `PagesOutliveCalls` | a short branch, or a test that waits for its goroutines | `[]NoUnmappedCode` |
| `NoCallIsLost` | when the world is stopped: a test that waits, or a short branch that is not rebuilt (`AnswerableUse`) | `[]CallsAreAnswered` |
| `CountersAreReset` | nothing | `[]ReleaseResetsCounters` |
| `MocksAreCalls` | nothing | `[]MockedAtMostCalled` |

All rest on `CallInv`. `NoUnmappedCode` alone is not inductive: a goroutine
gets to a page by the entry or by the proxy, possibly long after either was
read. `CallInv` therefore says what every place of the test goroutine means for
entry, proxy and pages (`EntryInv`, `PageInv`), that a goroutine outside of
calls of the mock is in no hook, and where a waiting test leaves its goroutines
(`CallerInv`). The steps of a goroutine are proved through one lemma,
`CallerMoves`, which says where it may go.

`MocksAreCalls` needs `CountInv` besides: the mocked calls and the goroutines
that were counted and have not chosen a condition yet (`Counted`) are together
no more than the calls.

`NoCallIsLost` needs `Undivided` besides: a goroutine between two displaced
instructions that the runtime stops nobody in has found the entry that is still
there, and no write is under way. It holds because such a goroutine keeps the world
from stopping; where the runtime can stop it (`mode.cut`) nothing does, and
`CallsAreAnswered` makes its exception. The assumption of the theorem is needed:
the uses it leaves out are the two described under `HookCall` above.

`CodeWrite_proofs` proves, for every number of pages and their size, every
layout of entries and any number of goroutines:

| theorem | assumes | proves |
|---|---|---|
| `NobodyEverFaults` | nothing beyond `CodeAssumption` | `[]NobodyFaults` |
| `EntriesStayWhole` | `Coherent \/ Flushes` | `[]EntriesAreWhole` |

`WriteInv` says that a writer past the stop is the one that has stopped the
world, that it holds the monitor's lock until the resume, that the piece under
way stays in one page and in the entry, and that at most this page is open;
`NobodyFaults` alone says nothing of how a page came to be open, or that one
that is not executable is under way or in `left`. `WholeInv` adds
what was written so far and that stale bytes lie in the page under way. The
lemmas on `PageOf` give the arithmetic of pages.

`HookValues_proofs` proves of `HookArgs`, for all types, targets, hooks and
origins that the adapters accept, places of the stack and nested calls:

| theorem | assumes | proves |
|---|---|---|
| `ArgumentsStayCurrent` | nothing | `[]ArgumentsAreCurrent` |
| `HooksSeeCalls` | `HooksTakeAll` | `[]HookSeesTheCall` |
| `OriginsGetCalls` | `HooksTakeAll` | `[]OriginGetsTheCall` |

`ArgumentsAreCurrent` speaks of the reflect call being made, and is not inductive.
`ArgsInv` adds what the guards know (`FramesInv`): as long as the hook of a call
that has not strayed runs, the pointers in its arguments lead to the heap or
into the stack its guard remembers, however far behind that is; a guard takes
note of another stack only together with the arguments, except at the end, when `guard.Fix(out)` does and
no hook of the call runs any more, each call having one. `CallsInv` says that
every argument keeps its type, its place and its numbers. For that, `walkMem`
must reach the pointers of a value and nothing else, whatever its type:
`WalkReachesPointers`, by induction over how deep types are nested
(`NestingAssumption`: no type contains itself), with the arithmetic of array
elements in `WordOfElement` and `ElementOfWord`. The adapters are shown right
once and for all (`AdapterFits`): each of their five ways takes every argument
from a place of its type, and the way back undoes it (`PlacesFit`).

`HooksTakeAll` says that hooks and origins leave out no ordinary parameter. The
comment in `nonGenericAnalyzer` (`analyzer_1_20.go:198`) speaks of methods
only, but for a plain function the code as well accepts a hook without
its first parameter, on both Go versions; such a hook does not see that
argument, and an origin of that form gets the call's own. TLC evaluates the
hypothesis on the mocks of the run.

Of `ReturnSequence` it proves, for every sequence of values with repetitions
and any number of goroutines:

| theorem | proves |
|---|---|
| `OneCallerInside` | at most one goroutine is between `Lock` and `Unlock` |
| `ValuesInOrder` | `[]ServedInOrder` |

`SequenceInv` ties the two indices to the length of `served`: with `s[v]` the
answers of a round before value `v`, what was served is a number of rounds and
`s[curV] + curT` places of the next one. `s` is a recursive function, which the
proof uses through its equation.

`NearPages_proofs` proves, for every page size, step, reach, set of functions,
layout of the process and change of it:

| theorem | proves |
|---|---|
| `SlotsStaySafe` | `PoolSpec => []SlotsAreSafe`, of `TrampolinePool` |
| `NearIsSafe` | the inductive invariants of the search and the pool together |
| `SearchImplementsPool` | `ImplementsPool`, a refinement |
| `PagesStayAccountedFor` | `[]PagesAreAccountedFor`, on every platform |
| `PagesAreInReach` | `[]GivenPagesAreNear`, on every platform |

Slots are disjoint because every slot lies in a page of the pool, in front of
its cursor, and pages do not overlap (`PoolInv`). `PagesAreAccountedFor` is not
inductive without `NearInv`: that a page has one owner among the patches, the
retired pages, the pool and the lost ones, and that a search behind the pool
began while there was a slot left to hand out and no page of the pool to take
it from, which nothing but that search changes. The refinement needs both: a
page that is found is none that the pool has, because it was free, and one
that the pool still needs.

`EntryCut_proofs` proves, for every function, every way of patching and any
number of patches on top of each other:

| theorem | proves |
|---|---|
| `TypeAlways` | `[]TypeOK` |
| `ReleasesRestore` | `[]UnpatchRestores` |
| `PatchedEntryDecodes` | `[]EntryDecodes` |
| `CallsReachTheHook` | `[]CallReachesHook` |
| `RelocatedAmd64`, `RelocatedArm64` | what `Relocate` returns, of any code from and to any address |
| `ProxiesRunTheTarget` | `[]ProxyRunsTheTarget`, of `OrdinaryFunctions` |

The first four rest on `Inv`, which says that there are *layers* `h[1] .. h[n + 1]`: the
first is the function, the last is what is mapped, and `h[k]` is what patch `k`
was put over, which its saved bytes bring back in front of its cut. A patch
restores the function only because the layer below it is what a release leaves;
saved bytes alone say nothing of the bytes behind a cut that is less deep than
an older one. Every layer decodes (`Whole`) up to the deepest of the cuts below
it, and no instruction is longer than the architecture allows. `PushKeeps` adds
a layer: the new entry is padded up to a cut that ends where an instruction of
the old one does (`Amd64Cuts`, `Arm64Cuts`, `PadFillsCut`), so that the rest of
the old entry still decodes behind it (`WholeBehind`). `UnpatchKeeps` takes one
away. Every layer above the first leads to its hook (`LeadsTo`): the branch into
it is in the entry, or a short branch to a place where it is and which no page
of a newer patch contains, so that a release does not unmap it.

`CallsReachTheHook` adds `OnItsWay`: a call is at a short branch in the entry or
at an instruction of the branch into the newest hook, and the scratch register
holds the part of the function value that the instructions in front of it have
loaded (`Loaded`; `DigitsAddUp` is the arithmetic of MOVZ and MOVK).
`HasDecodes` says that what is read where an instruction was written is that
instruction.

The two of relocation are of the operators, whatever the state. On amd64 the relocated
block has an instruction for every one that was displaced, with the absolute
target it had, or, for a branch into the block, the copy of the instruction it
goes to (`CopyOf`). On arm64 an instruction becomes a sequence: `PiecesOf` says
that the sequences stand one behind the other, which target each of them was
built for, and that one that aims into the block was built for the place of
the sequence of the instruction there.

`ProxiesRunTheTarget` is a simulation. Beside `Inv` the invariant has `Static`:
what is mapped is the function's or came from mmap or `AllocTrampoline`, and as
long as a patch is in effect its page holds the displaced prefix, relocated
piece by piece (`Relocation`), and the branch behind it back to the function
(`Kept`; no release of a newer patch unmaps it). `Beside` says of a proxy that
runs that, after the silent steps the function still has to make (`Reaches`),
the two processors agree (`Agrees`): they are at an instruction and its copy, or
at the same place outside of the prefix; or the copy is on a way that has no
effect (`Going`), in the middle of the sequence that arm64 makes of a call or an
address (`Calling`, `Loading`); or both are in the branch into the hook of an
older patch (`Hooking`), when the function that was patched was itself mocked.
`Good` says what makes the copy a copy, instruction by instruction.
`CopySimulates` proves that from there the copy makes no step that the block
does not make, in all these cases; `CalledIsGood` that every call of a
proxy starts in one, by the two theorems of relocation for the first patch and,
for a later one, from what is in the entry then (the branch of the patch before,
or a short one). The theorem is for `OrdinaryFunctions`, which TLC evaluates
for those of the run:

* nothing that mmap or `AllocTrampoline` returns begins right behind the function
  or is where one of its branches goes: what is there was in use already;
* no call and no address within the first `MaxCut` bytes, which may be displaced,
  is that of this prefix. Relocation takes such a call for a branch within the
  block and sends it to the copy, so that a function that calls itself there
  goes on in the original instead of at its entry: TLC shows the property to
  fail for such a function;
* on arm64 addresses fit the four digits that a MOVZ and three MOVKs load; and
  the instructions are those a compiler emits, not the branches of mockey.

Of the proxies themselves the theorem is for those that `CallProxy` runs: relocated and
not copied as they are, of functions that do not branch from behind the cut into
it. Nothing in the code ensures the latter two, and without either of them TLC
shows the property to fail.

`Targets_proofs` proves of `GenericTarget`, for any number of instances, builds
and calls:

| theorem | assumes | proves |
|---|---|---|
| `MocksAloneStay` | nothing | `[]OnlyMocksStay` |
| `AnalysisStaysRight` | `WrappersAreCompiled` | `[]AnalysisIsRight` |
| `NewestAnswers` | `WrappersAreCompiled`, `DictionariesAreCompiled` | `[]NewestOfItsKin` |

`BuildInv` says that the analyzer's patch is the newest one while it exists, so
that its release takes away its own and nothing else; `KnownInv` adds that a mock,
built or being built, knows the body and a dictionary of its instance, and
`HookInv` that a call has passed on mocks of other instances only. The
hypotheses are what the code relies on and cannot check. `WrappersAreCompiled`
says how the compiler makes a wrapper: up to its first return it calls the
shared body once, and otherwise only functions that `isGenericProxyCallExtra`
knows; calls and loads are encoded as the machine takes them (a displacement
modulo its width, a page and a rest); and if it loads addresses before that
call, the last one is a dictionary of its instance. `DictionariesAreCompiled` says
that a dictionary belongs to one instance, and that the dictionaries of one
begin with the same word. Different instances may begin with the same word, too,
as two of the run do. TLC evaluates both on the instance of the run. Between the
hypothesis and the invariant lies the search itself (`AnalysisOfCompiled`): the
loads it considers are exactly those before the call, on either machine
(`LoadsBefore`), and what it computes from an encoded operand is the address
again (`Signed`, `PageAndRest`).

Of `MethodLookup` it proves, for any number of structs, whichever way they embed
each other and declare the name, and whether the name is exported or not:

| theorem | assumes | proves |
|---|---|---|
| `OneIsFoundAlways` | nothing | `[]OneDeclarationIsFound` |
| `ChainIsResolvedAlways` | nothing | `[]ChainIsResolved` |
| `NestedIsFoundAlways` | nothing | `[]NestedIsEmbedded` |

The states say little here (`LookupInv` is the properties and the types); what
there is to show is what the recursive functions compute. Ways split at their
first field (`WaysSplit`), so that a claim about a struct follows from the same
claim about the structs embedded in it (`InductionDown`; a struct embeds such of
a higher number only). `OneIsFound` says of every struct that `getMethod` finds
nothing where no way leads to a declaration, and the declaration where one way
does; without the former, a hit in a wrong embedded struct could hide the right
one. `ChainIsFound` carries along that there is one nearest declaration or none
at all, and it is the step that needs exported names: a struct's own unexported
method does not win against an embedded one. For these `ChainEndsIn` is its
counterpart, and comes to the innermost declaration. `NestedIsFound` needs that a struct
without a method on any way lists none (`NoMethodListed`).

Induction. The library's induction theorems cannot be used with the installed
provers. Facts about all numbers up to a bound are proved by the least
counterexample: `InductionUpTo` is induction over a set of numbers, from the
well-foundedness of `<`. A recursive function on numbers that calls itself one
step below is used through its equation (`OffsetsAreSums`). One on types calls
itself on the parts of a type, one on structs on those embedded in it:
`PartsDefine` builds it up from the types without parts, or the structs without
embedded ones. `Disassemble` and
`Instructions` jump by the length of an instruction; that such a function
exists is shown first (`JumpsDefine`, `ListsDefine`), as the one set of pairs
that follows its own jumps. None of these is an assumption.

Every invariant of a passing run but `GivesUpLast` is proved, some from the
hypotheses named above. `GivesUpLast` is model-checked only, and so is liveness
(`CallsReturn`, `WritesFinish`, `WorldGoesOn`, `SearchEnds`, `ValuesComeRound`),
which the provers cannot show under fairness.

## Not modelled, and the plan

Parts of modelled components that are left out:

* the builder's bookkeeping of complete and forced conditions, the goroutine
  filter, and the checks of the fluent calls (`mock_condition.go`,
  `mock_option.go`);
* the loops of `When`, `To` and `Return` and the sums of `Times` in
  `exp/iface`; `Then` and `Times` of a sequence while it is in use;
* the names that tell methods and generics apart (`name_analyzer_1_20.go`), the
  lookup's options and `GetPrivateMethod`;
* the writer of windows, which makes pages writable and executable and leaves
  them so, and the 100 microseconds that `SuspendSysmon` waits;
* the limit of 4096 regions in darwin's search, whose query and claim of a page
  below are one step;
* two tests that run in parallel: nothing orders what they do to `gMocker`.

Left out for good: instruction encodings and the memory layouts of the Go
runtime (`internal/unsafereflect`, `linkname`, the assembly stubs), which are
facts about other programs; logging, messages of assertions, and the check of
the compiler flags, which keep no state; `convey.Convey` itself.

Next, in this order:

1. the bookkeeping of conditions and the goroutine filter, as a module beside
   `HookArgs`;
2. `HookCall`'s write as a refinement of `CodeWrite`'s, instead of an
   assumption that matches its properties;
3. the writer of windows and the loops of interface conditions.
