----------------------------- MODULE CodeWrite -----------------------------
(* mem.WriteWithSTW: the world is stopped and the system monitor held, the *)
(* code is written page by page with every page writable and not           *)
(* executable meanwhile, and everything goes on afterwards, also when a    *)
(* write is refused.  HookCall takes what is shown here for granted: that  *)
(* a goroutine sees an entry before or after a write, never in between.    *)
EXTENDS Integers, FiniteSets

CONSTANTS
  Writers,      \* goroutines that patch and release one function each
  Goroutines,   \* goroutines that run the code under test
  None,
  PageSize, Last,     \* addresses are 0 .. Last
  Target, Length,     \* of each writer: its function's entry and cut
  SysmonPages,        \* where the system monitor works, holding its lock
  RuntimePages,       \* memmove, the locks, the return from a system call
  Coherent,           \* the processor fetches what was stored last
  Flushes,            \* write() invalidates the instruction cache
  Debug,              \* MOCKEY_DEBUG is set
  Printers,           \* goroutines that print
  MaxWrites

Addresses == 0 .. Last
PageOf(a) == PageSize * (a \div PageSize)
Pages == {PageOf(a) : a \in Addresses}
Entry(w) == Target[w] .. Target[w] + Length[w] - 1

(* What the code leaves to its users: no function is mocked that shares a  *)
(* page with the parts of the runtime that write() itself needs.  The 4096 *)
(* bytes of NOPs around write() keep its own code out of every such page.  *)
ASSUME CodeAssumption ==
  /\ PageSize \in Nat \ {0} /\ Last \in Nat
  /\ {None, "sysmon"} \cap (Writers \cup Goroutines) = {} /\ None # "sysmon"
  /\ Target \in [Writers -> Nat] /\ Length \in [Writers -> Nat]
  /\ SysmonPages \subseteq Pages /\ RuntimePages \subseteq Pages
  /\ \A w \in Writers : /\ Length[w] > 0 /\ Entry(w) \subseteq Addresses
                        /\ \A a \in Entry(w) : PageOf(a) \notin RuntimePages
  /\ \A v, w \in Writers : v # w => Entry(v) \cap Entry(w) = {}

VARIABLES
  memory,   \* [Addresses -> "own" or "branch"]
  stale,    \* addresses of which a processor may still fetch the old bytes
  prot,     \* [Pages -> "rx" or "rw"]
  world,    \* the writer that has stopped the world, or None
  monitor,  \* who holds sched.sysmonlock: a writer, "sysmon" or None
  stdout,   \* the goroutine that holds the lock of the standard output
  gor,      \* goroutines: "runs", "stopped", "syscall" or "returns"
  at,       \* the step each writer is at
  data,     \* [Writers -> the bytes it writes]
  left,     \* pages that were not made executable again
  lockKnown,  \* the library knows where sched.sysmonlock is
  begin, copied, chunk, writes

sync == <<world, monitor, stdout, gor>>
code == <<memory, stale, prot, left>>
loop == <<begin, copied, chunk>>
job == <<data, writes, lockKnown>>
vars == <<sync, code, loop, at, job>>

Init ==
  /\ memory = [a \in Addresses |-> "own"] /\ stale = {}
  /\ prot = [p \in Pages |-> "rx"] /\ left = {}
  /\ world = None /\ monitor = None /\ stdout = None
  /\ gor = [g \in Goroutines |-> "runs"]
  /\ at = [w \in Writers |-> "test"]
  /\ data = [w \in Writers |-> "own"]
  /\ begin = Target /\ copied = [w \in Writers |-> 0] /\ chunk = [w \in Writers |-> 0]
  /\ writes = 0 /\ lockKnown \in BOOLEAN

Goes(w, from, to) == at[w] = from /\ at' = [at EXCEPT ![w] = to]

(* PatchValue writes a branch, Unpatch the function's own code. *)
WriteWithSTW(w) ==
  /\ world = None /\ writes < MaxWrites /\ writes' = writes + 1
  /\ Goes(w, "test", "stop")
  /\ data' = [data EXCEPT ![w] = IF @ = "own" THEN "branch" ELSE "own"]
  /\ begin' = [begin EXCEPT ![w] = Target[w]]
  /\ UNCHANGED <<sync, code, copied, chunk, lockKnown>>

(* The runtime stops one goroutine after the other; those in a system call *)
(* need not be stopped, they cannot come back.                             *)
StopTheWorld(w) ==
  /\ world = None /\ world' = w
  /\ gor' = [g \in Goroutines |-> IF gor[g] = "runs" THEN "stopped" ELSE gor[g]]
  /\ Goes(w, "stop", "suspend")
  /\ UNCHANGED <<code, loop, monitor, stdout, job>>

\* Mutant: builds that skip the system monitor.
NoSuspend(w) ==
  /\ Goes(w, "suspend", "loop")
  /\ UNCHANGED <<code, loop, sync, job>>

\* Where the lock is not known nothing is suspended, nor resumed.
SuspendSysmon(w) ==
  /\ Goes(w, "suspend", "loop")
  /\ \/ lockKnown /\ monitor = None /\ monitor' = w
     \/ ~lockKnown /\ UNCHANGED monitor
  /\ UNCHANGED <<code, loop, world, stdout, gor, job>>

End(w) == Target[w] + Length[w]
Crosses(w) == PageOf(begin[w]) < PageOf(End(w))

(* Write prints before and after write(), which takes the lock of the      *)
(* standard output: nobody who holds it can let it go meanwhile.           *)
Prints == Debug => stdout = None

ChunkSize(w) ==
  IF Crosses(w) THEN PageOf(begin[w]) + PageSize - begin[w] ELSE End(w) - begin[w]
Loop(w) ==
  /\ at[w] = "loop" /\ begin[w] < End(w) /\ Prints
  /\ at' = [at EXCEPT ![w] = "protect"]
  /\ chunk' = [chunk EXCEPT ![w] = ChunkSize(w)]
  /\ copied' = [copied EXCEPT ![w] = 0]
  /\ UNCHANGED <<code, sync, begin, job>>
LoopEnds(w) ==
  /\ begin[w] >= End(w) /\ Goes(w, "loop", "resume")
  /\ UNCHANGED <<code, sync, loop, job>>

MakeWritable(w) ==
  /\ Goes(w, "protect", "copy") /\ Prints
  /\ prot' = [prot EXCEPT ![PageOf(begin[w])] = "rw"]
  /\ UNCHANGED <<memory, stale, left, sync, loop, job>>

\* Mutant: the assertion leaves everything as it stands.
LeavesStopped(w) ==
  /\ Goes(w, "protect", "failed") /\ Prints
  /\ UNCHANGED <<code, sync, loop, job>>

(* The page is refused: the assertion panics, and the deferred resume runs *)
(* before anybody sees the panic.                                          *)
Refused(w) ==
  /\ Goes(w, "protect", "panics") /\ Prints
  /\ UNCHANGED <<code, sync, loop, job>>

(* memmove, byte after byte. *)
Copy(w) ==
  /\ at[w] = "copy" /\ copied[w] < chunk[w]
  /\ LET a == begin[w] + copied[w]
     IN  /\ memory' = [memory EXCEPT ![a] = data[w]]
         /\ stale' = IF Coherent THEN stale ELSE stale \cup {a}
  /\ copied' = [copied EXCEPT ![w] = @ + 1]
  /\ UNCHANGED <<prot, left, sync, begin, chunk, at, job>>

\* Mutant: the loop flushes from the entry's page on, whatever was written.
FlushesTarget(w) == IF Flushes THEN stale \ {a \in Addresses : PageOf(a) = PageOf(Target[w])} ELSE stale

Flushed(w) == IF Flushes THEN stale \ {a \in Addresses : PageOf(a) = PageOf(begin[w])} ELSE stale
MakeExecutable(w) ==
  /\ copied[w] = chunk[w]
  /\ Goes(w, "copy", IF Crosses(w) THEN "loop" ELSE "resume")
  /\ stale' = Flushed(w)
  /\ prot' = [prot EXCEPT ![PageOf(begin[w])] = "rx"]
  /\ left' = left \ {PageOf(begin[w])}
  /\ begin' = [begin EXCEPT ![w] = @ + chunk[w]]
  /\ UNCHANGED <<memory, sync, copied, chunk, job>>

(* The page is written and flushed and stays as it is: the kernel refuses  *)
(* to make it executable, and the same assertion panics.                   *)
StaysWritable(w) ==
  /\ copied[w] = chunk[w] /\ Goes(w, "copy", "panics")
  /\ stale' = Flushed(w)
  /\ left' = left \cup {PageOf(begin[w])}
  /\ UNCHANGED <<memory, prot, sync, loop, job>>

ResumeSysmon(w) ==
  /\ \/ Goes(w, "resume", "start") /\ Prints
     \/ Goes(w, "panics", "unwinds")
  /\ monitor' = IF lockKnown THEN None ELSE monitor
  /\ UNCHANGED <<code, loop, world, stdout, gor, job>>
StartTheWorld(w) ==
  /\ \/ Goes(w, "start", "test") \/ Goes(w, "unwinds", "failed")
  /\ world' = None
  /\ gor' = [g \in Goroutines |-> IF gor[g] = "stopped" THEN "runs" ELSE gor[g]]
  /\ UNCHANGED <<code, loop, monitor, stdout, job>>

(* The system monitor: one round of its work. *)
SysmonWorks ==
  /\ monitor = None /\ monitor' = "sysmon"
  /\ UNCHANGED <<code, loop, world, stdout, gor, at, job>>
SysmonSleeps ==
  /\ monitor = "sysmon" /\ monitor' = None
  /\ UNCHANGED <<code, loop, world, stdout, gor, at, job>>

(* A goroutine blocks in a system call, perhaps to print, and comes back:  *)
(* it runs the runtime's code and waits there while the world is stopped.  *)
Syscall(g) ==
  /\ gor[g] = "runs" /\ gor' = [gor EXCEPT ![g] = "syscall"]
  /\ \/ g \in Printers /\ stdout = None /\ stdout' = g
     \/ g \notin Printers /\ UNCHANGED stdout
  /\ UNCHANGED <<code, loop, world, monitor, at, job>>
SyscallEnds(g) ==
  /\ gor[g] = "syscall" /\ gor' = [gor EXCEPT ![g] = "returns"]
  /\ UNCHANGED <<code, loop, world, monitor, stdout, at, job>>
Returns(g) ==
  /\ gor[g] = "returns" /\ world = None
  /\ gor' = [gor EXCEPT ![g] = "runs"]
  /\ stdout' = IF stdout = g THEN None ELSE stdout
  /\ UNCHANGED <<code, loop, world, monitor, at, job>>

Inside(w) ==
  \/ SuspendSysmon(w) \/ Loop(w) \/ LoopEnds(w) \/ MakeWritable(w) \/ Refused(w)
  \/ Copy(w) \/ MakeExecutable(w) \/ StaysWritable(w) \/ ResumeSysmon(w) \/ StartTheWorld(w)
Next ==
  \/ \E w \in Writers : WriteWithSTW(w) \/ StopTheWorld(w) \/ Inside(w)
  \/ SysmonWorks \/ SysmonSleeps
  \/ \E g \in Goroutines : Syscall(g) \/ SyscallEnds(g) \/ Returns(g)

(* A writer that is not waiting goes on, the system monitor finishes its   *)
(* round and sleeps between two of them, so that its lock is free again    *)
(* and again; a system call of a goroutine may last for ever.              *)
Fairness ==
  /\ \A w \in Writers : SF_vars(SuspendSysmon(w)) /\ WF_vars(Inside(w))
  /\ WF_vars(SysmonSleeps)
Spec == Init /\ [][Next]_vars /\ Fairness

-----------------------------------------------------------------------------
Runs == {g \in Goroutines : gor[g] = "runs"}
            \cup {w \in Writers : at[w] \in {"test", "failed"} /\ world = None}
Fetched ==
  (IF Runs # {} THEN Pages ELSE {})
    \cup (IF monitor = "sysmon" /\ lockKnown THEN SysmonPages ELSE {})
    \cup (IF \E g \in Goroutines : gor[g] = "returns" THEN RuntimePages ELSE {})
    \cup (IF world # None THEN RuntimePages ELSE {})

(* Nobody faults: neither a goroutine, nor the system monitor, which no    *)
(* stop of the world stops, nor a thread that comes back from a system     *)
(* call, nor the writer itself runs code on a page that is not executable, *)
(* and nothing is written to a page that is not writable.  Two cases the   *)
(* code gives up: a page that the kernel would not make executable again   *)
(* stays as it is (write.go:42, :47), and the system monitor is on its own *)
(* where its lock is not known (suspend.go:28-31).                         *)
NobodyFaults ==
  /\ \A p \in Fetched \ left : prot[p] = "rx"
  /\ \A w \in Writers :
       at[w] = "copy" /\ copied[w] < chunk[w] => prot[PageOf(begin[w] + copied[w])] = "rw"

(* Whoever runs finds every entry as the last write left it, whole and in  *)
(* the instruction cache too, and the rest of the code as it was; only a   *)
(* write that was refused may have written the pages before and the last.  *)
EntriesAreWhole ==
  Runs # {} =>
    /\ \A w \in Writers : at[w] = "test" => \A a \in Entry(w) : memory[a] = data[w]
    /\ \A a \in Addresses : (\A w \in Writers : a \notin Entry(w)) => memory[a] = "own"
    /\ stale = {}

(* The world goes on after every write, also after one that panics before  *)
(* or after it has written a page: the system monitor is let go before and *)
(* the deferred resume misses nothing; only the page that the kernel would *)
(* not make executable again stays as it is.                               *)
WorldGoesOn ==
  \A w \in Writers :
    world = w ~> world = None /\ monitor # w /\ \A p \in Pages \ left : prot[p] = "rx"
=============================================================================
