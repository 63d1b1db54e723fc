----------------------------- MODULE EntryCut -----------------------------
(* PatchValue on the bytes of one function: which entry sequence it picks, *)
(* where it cuts the entry, what it puts into the proxy's page, and what   *)
(* Unpatch leaves.  A processor then runs the target through its entry, or *)
(* the proxy step by step beside the unpatched function, so that a wrong   *)
(* cut or displacement shows as a different effect.  Patches are released  *)
(* last in, first out here; MockLifecycle has the other orders.            *)
EXTENDS CodeBytes

CONSTANTS
  Functions,   \* the targets: [arch |-> ..., code |-> a sequence of instructions],
               \* the padding and the code behind them included
  Entry,       \* the address of the target
  Pages,       \* the addresses of the pages mmap returns, one per patch
  NearPages,   \* those it returns near the target
  Slots,       \* the trampolines of darwin
  Reach, PageBytes, PageReach, ShortReach   \* see Amd64 and Arm64

ASSUME CutAssumption ==
  /\ Entry \in Nat
  /\ {Reach, PageBytes, PageReach, ShortReach} \subseteq Nat \ {0}
  /\ \A s \in {Pages, NearPages, Slots} : s \in Seq(Nat) /\ Len(s) = Len(Pages)

VARIABLES
  target,   \* the function, a member of Functions
  mem,      \* the code that is mapped
  patches,  \* the patches in effect, oldest first
  made,     \* how many were made
  run       \* the processor: what it runs, and its registers

vars == <<target, mem, patches, made, run>>

X == INSTANCE Amd64
R == INSTANCE Arm64

amd64 == target.arch = "amd64"
MaxPatches == Len(Pages)

(* The longest cut: the longest branch and the end of an instruction that  *)
(* begins in its last byte.  So much code there is at every target.        *)
MaxCut == 12 + 15 - 1
ASSUME TargetAssumption ==
  \A f \in Functions :
    /\ f.arch \in {"amd64", "arm64", "darwin"}
    /\ f.code \in Seq([op : STRING, arg : Int, x : Nat,
                        len : IF f.arch = "amd64" THEN 1 .. 15 ELSE {4}])
    /\ Size(f.code) >= MaxCut

(* A page holds one displaced instruction and the way back. *)
ASSUME PageAssumption == R!LongBranch <= PageBytes

(* mmap returns memory that is not in use, and so does AllocTrampoline.     *)
Free(m, a, n) == (a .. a + n - 1) \cap DOMAIN m = {}

LongBranch == IF amd64 THEN X!LongBranch ELSE R!LongBranch
BranchTo(to) == IF amd64 THEN X!BranchTo(to) ELSE R!BranchTo(to)
BranchInto(to) == IF amd64 THEN X!BranchInto(to) ELSE R!BranchInto(to)
PadEntry(code, n) == IF amd64 THEN X!PadEntry(code, n) ELSE R!PadEntry(code, n)
Cut(required, checkLen) ==
  IF amd64 THEN X!Disassemble(mem, Entry, required, checkLen)
  ELSE R!Disassemble(mem, Entry, required, checkLen)
Displaced(n) == Instructions(mem, Entry, n)
Relocated(n, page) ==
  IF amd64 THEN X!Relocate(Displaced(n), Entry, page) ELSE R!Relocate(Displaced(n), Entry, page)

(* The function value of the n-th hook, and the places of the n-th patch. *)
HookAddr(n) == 256 + n
ASSUME AddressAssumption == HookAddr(MaxPatches) < R!Addresses
Next1 == made + 1
Page == Pages[Next1]

(* PatchValue reads so much of the target, and asserts that the cut is not  *)
(* longer and that the proxy fits its page.                                *)
bufSize == 64
Fits(cut, prefix) ==
  cut <= bufSize /\ Size(prefix) + Size(BranchTo(Entry + cut)) <= PageBytes

(* Mutant: only the bytes of the branch are saved, not its padding. *)
SavesTooLittle(how, cut, page, prefix, entry, behind) ==
  LET proxy == prefix \o BranchTo(Entry + cut) \o behind
  IN  /\ Fits(cut, prefix) /\ Free(mem, page, PageBytes)
      /\ mem' = Write(Fill(mem, proxy, page, PageBytes), PadEntry(entry, cut), Entry)
      /\ patches' = Append(patches, [how |-> how, cut |-> cut, page |-> page,
                                     hook |-> HookAddr(Next1),
                                     saved |-> Copy(mem, Entry, Size(entry))])
      /\ made' = Next1
      /\ UNCHANGED <<target, run>>

(* The entry is saved, the proxy gets the displaced prefix and a jump      *)
(* behind the cut, and the entry the branch, padded to the cut.            *)
Install(how, cut, page, prefix, entry, behind) ==
  LET proxy == prefix \o BranchTo(Entry + cut) \o behind
  IN  /\ Fits(cut, prefix) /\ Free(mem, page, PageBytes)
      /\ mem' = Write(Fill(mem, proxy, page, PageBytes), PadEntry(entry, cut), Entry)
      /\ patches' = Append(patches, [how |-> how, cut |-> cut, page |-> page,
                                     hook |-> HookAddr(Next1),
                                     saved |-> Copy(mem, Entry, cut)])
      /\ made' = Next1
      /\ UNCHANGED <<target, run>>

Ready == made < MaxPatches /\ run.kind = "none"

TooShort == /\ target.arch = "darwin"
            /\ R!TooShortToPatch(mem, Entry, R!LongBranch)

(* MockUnsafe: a prefix that cannot be relocated is copied as it is. *)
PatchUnsafe ==
  /\ Ready
  /\ LET cut == Cut(LongBranch, FALSE)
         moved == Relocated(cut, Page)
     IN  /\ cut # 0
         /\ Install(IF moved.ok THEN "unsafe" ELSE "verbatim", cut, Page, moved.code,
                    BranchInto(HookAddr(Next1)), <<>>)

PatchArm64 ==
  /\ Ready /\ ~amd64 /\ ~TooShort
  /\ LET cut == Cut(LongBranch, TRUE)
         moved == Relocated(cut, Page)
     IN  /\ cut # 0
         /\ moved.ok
         /\ Install("legacy", cut, Page, moved.code, BranchInto(HookAddr(Next1)), <<>>)

(* amd64: the twelve-byte sequence, when the prefix may move as it is. *)
LegacyFits ==
  LET cut == Cut(LongBranch, TRUE) IN cut # 0 /\ ~X!HasPCRelative(Displaced(cut))

PatchLegacy ==
  /\ Ready /\ amd64 /\ LegacyFits
  /\ LET cut == Cut(LongBranch, TRUE)
     IN  Install("legacy", cut, Page, Displaced(cut), BranchInto(HookAddr(Next1)), <<>>)

(* tryShortBranch: the page holds the relocated prefix, the way back, and, *)
(* aligned behind them, the relay that loads the hook.                     *)
Align16(n) == 16 * ((n + 15) \div 16)

ShortBranch ==
  LET cut == Cut(X!ShortBranchSize, TRUE)
      page == NearPages[Next1]
      moved == Relocated(cut, page)
      used == Size(moved.code) + X!LongBranch
      relay == Align16(used)
      hook == BranchInto(HookAddr(Next1))
      entry == X!BranchIntoShort(Entry, page + relay)
  IN  IF cut # 0 /\ moved.ok /\ relay + Size(hook) <= PageBytes /\ entry # <<>>
      THEN [ok |-> TRUE, cut |-> cut, page |-> page, prefix |-> moved.code, entry |-> entry,
            behind |-> [k \in 1 .. relay - used |-> I("int3", 1, 0, 0)]
                       \o hook]
      ELSE [ok |-> FALSE]

PatchShortBranch ==
  /\ Ready /\ amd64 /\ ~LegacyFits
  /\ ShortBranch.ok
  /\ Install("short", ShortBranch.cut, ShortBranch.page, ShortBranch.prefix,
             ShortBranch.entry, ShortBranch.behind)

(* No page near the target, or no short branch: the twelve bytes again,    *)
(* with the prefix as it is.                                               *)
PatchFallback ==
  /\ Ready /\ amd64 /\ ~LegacyFits
  /\ LET cut == Cut(LongBranch, TRUE)
     IN  /\ cut # 0
         /\ Install("verbatim", cut, Page, Displaced(cut), BranchInto(HookAddr(Next1)), <<>>)

(* PatchValueShort: one instruction to a trampoline that holds the branch. *)
PatchNear ==
  /\ Ready /\ TooShort
  /\ LET slot == Slots[Next1]
         stub == R!ShortBranchTo(Entry, slot)
         first == R!RelocateFirstInst(Decode(mem, Entry), Entry, Page)
         proxy == first.code \o BranchTo(Entry + R!ShortBranchLen)
         trampoline == Write(mem, BranchInto(HookAddr(Next1)), slot)
     IN  /\ stub # <<>>
         /\ first.ok
         /\ Free(mem, slot, R!LongBranch) /\ Free(trampoline, Page, PageBytes)
         /\ mem' = Write(Fill(trampoline, proxy, Page, PageBytes), stub, Entry)
         /\ patches' = Append(patches, [how |-> "near", cut |-> R!ShortBranchLen, page |-> Page,
                                        hook |-> HookAddr(Next1),
                                        saved |-> Copy(mem, Entry, R!ShortBranchLen)])
         /\ made' = Next1
         /\ UNCHANGED <<target, run>>

(* The newest patch is released; the page of a short branch stays mapped.  *)
Restored(m, p) == [b \in DOMAIN m |-> IF b \in DOMAIN p.saved THEN p.saved[b] ELSE m[b]]
Unpatch ==
  /\ patches # <<>> /\ run.kind = "none"
  /\ LET p == patches[Len(patches)]
         gone == IF p.how = "short" THEN {} ELSE p.page .. p.page + PageBytes - 1
     IN  mem' = [b \in DOMAIN mem \ gone |-> Restored(mem, p)[b]]
  /\ patches' = SubSeq(patches, 1, Len(patches) - 1)
  /\ UNCHANGED <<target, made, run>>

---------------------------------------------------------------------------
(* The processor: pc, the scratch register (RDX, x26) and another one.     *)
At(m, cpu) == Decode(m, cpu.pc)

Silent(i) == \/ i.op \in {"nop", "set", "mov", "jmpset", "ldrset", "jmp8", "jmp32", "b"}
             \/ i.op = "movd" /\ i.x < 3

WithDigit(old, k, digit) == IF k = 0 THEN digit ELSE old + digit * R!Weight[k + 1]

(* Where a PC-relative instruction points when it runs at pc. *)
Points(i, pc) == IF amd64 THEN pc + i.len + i.arg ELSE R!Target(i, pc)

Tests == {"jcc8", "jcc32", "loop"} \cup R!Conditional

(* What the program can tell an instruction by. *)
Effect(i, cpu) ==
  CASE i.op = "plain" -> <<"do", i.arg>>
    [] i.op \in {"lea", "adr", "adrp", "ldrlit"} -> <<"address", Points(i, cpu.pc)>>
    [] i.op = "movd" -> <<"address", WithDigit(cpu.d, i.x, i.arg)>>
    [] i.op \in {"call32", "bl"} -> <<"call", Points(i, cpu.pc)>>
    [] i.op = "callset" -> <<"call", cpu.s>>
    [] i.op \in Tests -> <<"test", 0>>
    [] i.op = "hookset" -> <<"hook", cpu.s>>
    [] i.op = "ret" -> <<"return", 0>>
    [] OTHER -> <<"crash", 0>>

Ends == {"return", "hook", "crash"}

(* One instruction; c is the truth of the condition a branch tests. *)
After(i, cpu, c) ==
  CASE i.op \in {"jmp8", "jmp32", "b"} -> [cpu EXCEPT !.pc = Points(i, @)]
    [] i.op \in Tests /\ c # (i.x = 1) -> [cpu EXCEPT !.pc = Points(i, @)]
    [] i.op = "jmpset" -> [cpu EXCEPT !.pc = cpu.s]
    [] i.op = "set" -> [cpu EXCEPT !.pc = @ + i.len, !.s = i.arg]
    [] i.op = "mov" -> [cpu EXCEPT !.pc = @ + i.len, !.s = WithDigit(@, i.x, i.arg)]
    [] i.op = "movd" -> [cpu EXCEPT !.pc = @ + i.len, !.d = WithDigit(@, i.x, i.arg)]
    [] OTHER -> [cpu EXCEPT !.pc = @ + i.len]

Reset(pc) == [pc |-> pc, s |-> 0, d |-> 0]
Idle == [kind |-> "none", of |-> 0, cpu |-> Reset(0), ref |-> Reset(0)]

(* The code as it was before patch k and those above it. *)
Before(k) ==
  LET down[j \in 1 .. Len(patches) + 1] ==
        IF j > Len(patches) THEN mem ELSE Restored(down[j + 1], patches[j])
  IN  down[k]

(* The function has no branch from behind the cut into it: neither way of  *)
(* patching looks at the rest of the body.                                 *)
StartsAt(i) == Entry + Offsets(Lengths(target.code))[i]
BodyStaysOut(k) ==
  \A i \in DOMAIN target.code :
    /\ StartsAt(i) >= Entry + patches[k].cut
    /\ target.code[i].op \in X!Control \cup R!Branches
    => Points(target.code[i], StartsAt(i)) \notin Entry .. Entry + patches[k].cut - 1

(* The prefix was relocated, and no later patch cuts deeper. *)
Relocates(k) == /\ patches[k].how # "verbatim"
                /\ \A j \in k + 1 .. Len(patches) : patches[j].cut <= patches[k].cut

CallTarget ==
  /\ run.kind = "none" /\ patches # <<>>
  /\ run' = [Idle EXCEPT !.kind = "target", !.cpu = Reset(Entry)]
  /\ UNCHANGED <<target, mem, patches, made>>

CallProxy(k) ==
  /\ run.kind = "none"
  /\ Relocates(k) /\ BodyStaysOut(k)
  /\ run' = [kind |-> "proxy", of |-> k, cpu |-> Reset(patches[k].page), ref |-> Reset(Entry)]
  /\ UNCHANGED <<target, mem, patches, made>>

Here == At(mem, run.cpu)
There == At(Before(run.of), run.ref)

Step ==
  /\ run.kind # "none" /\ Silent(Here)
  /\ run' = [run EXCEPT !.cpu = After(Here, @, FALSE)]
  /\ UNCHANGED <<target, mem, patches, made>>

StepReference ==
  /\ run.kind = "proxy" /\ ~Silent(Here) /\ Silent(There)
  /\ run' = [run EXCEPT !.ref = After(There, @, FALSE)]
  /\ UNCHANGED <<target, mem, patches, made>>

Agree == run.kind = "proxy" /\ ~Silent(Here) /\ ~Silent(There)

StepBoth ==
  /\ Agree /\ Effect(Here, run.cpu) = Effect(There, run.ref)
  /\ Effect(Here, run.cpu)[1] \notin Ends
  /\ \E c \in BOOLEAN :
       run' = [run EXCEPT !.cpu = After(Here, @, c), !.ref = After(There, @, c)]
  /\ UNCHANGED <<target, mem, patches, made>>

Init ==
  /\ target \in Functions
  /\ mem = Bytes(target.code, Entry)
  /\ patches = <<>>
  /\ made = 0
  /\ run = Idle

Next ==
  \/ PatchUnsafe \/ PatchArm64 \/ PatchLegacy \/ PatchShortBranch \/ PatchFallback
  \/ PatchNear \/ Unpatch
  \/ CallTarget \/ (\E k \in DOMAIN patches : CallProxy(k))
  \/ Step \/ StepReference \/ StepBoth

Spec == Init /\ [][Next]_vars

---------------------------------------------------------------------------
(* Patches and the processor's registers have their types. *)
TypeOK ==
  /\ target.arch \in {"amd64", "arm64", "darwin"}
  /\ made \in Len(patches) .. MaxPatches
  /\ \A k \in DOMAIN patches :
       patches[k].how \in {"unsafe", "verbatim", "legacy", "short", "near"}
  /\ run.kind \in {"none", "target", "proxy"}

(* A proxy has the effects of the function it stands for, instruction by   *)
(* instruction: PatchValue "stores the target function in the proxy".      *)
ProxyRunsTheTarget == Agree => Effect(Here, run.cpu) = Effect(There, run.ref)

(* A call of the patched target reaches the newest hook, through the       *)
(* branch, the relay or the trampoline, and does nothing before.           *)
CallReachesHook ==
  run.kind = "target" /\ ~Silent(Here) =>
    Effect(Here, run.cpu) = <<"hook", patches[Len(patches)].hook>>

(* The entry is a sequence of whole instructions while it is patched, up   *)
(* to the deepest cut: the next PatchValue decodes it (PadEntry).          *)
EntryDecodes ==
  TypeOK /\ \A k \in DOMAIN patches :
    (\A j \in DOMAIN patches : patches[j].cut <= patches[k].cut)
      => Bad \notin Range(Displaced(patches[k].cut))

(* When every patch is released the function is what it was, although its  *)
(* displaced instructions were rewritten for their copies.                 *)
UnpatchRestores ==
  patches = <<>> => Copy(mem, Entry, Size(target.code)) = Bytes(target.code, Entry)

===========================================================================
