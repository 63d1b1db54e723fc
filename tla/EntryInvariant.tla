--------------------------- MODULE EntryInvariant ---------------------------
(***************************************************************************)
(* What the proofs about EntryCut know of its states: the inductive        *)
(* invariant of the patches of a target (Inv), what the pages of their     *)
(* proxies hold (Static), and how far a proxy is beside the function that  *)
(* it stands for (Beside).                                                 *)
(***************************************************************************)
EXTENDS EntryCut

-----------------------------------------------------------------------------
(* Code, and where its bytes are.                                          *)

At0(code) == Offsets(Lengths(code))
IsSequence(s) == s \in Seq({s[i] : i \in DOMAIN s})
IsCode(code) == /\ IsSequence(code)
                /\ \A i \in DOMAIN code : code[i].len \in Nat \ {0}
Lens == IF amd64 THEN 1 .. 15 ELSE {4}

(* Instructions that can be put at an entry and decoded there.             *)
Sound(code) == IsCode(code) /\ \A i \in DOMAIN code : code[i] # Bad /\ code[i].len \in Lens

(* The values that four digits hold.                                       *)
Word == 0 .. R!Addresses - 1
LongCut == IF amd64 THEN 12 ELSE 24

(* A branch of mockey that is displaced is displaced as a whole.           *)
ShortCut == IF amd64 THEN 5 ELSE 4
Zone == Entry .. Entry + Size(target.code) - 1
OwnPage(p) == p.page .. p.page + PageBytes - 1
InEntry(e, code) ==
  \A b \in DOMAIN Bytes(code, Entry) : b \in Zone /\ e[b] = Bytes(code, Entry)[b]
Holds(m, code, r) ==
  \A b \in DOMAIN Bytes(code, r) : b \in DOMAIN m /\ b \notin Zone /\ m[b] = Bytes(code, r)[b]

(* The bytes of code are at r.                                             *)
Has(m, code, r) == \A b \in DOMAIN Bytes(code, r) : b \in DOMAIN m /\ m[b] = Bytes(code, r)[b]
Runs(m, code, a) == \A i \in DOMAIN code : Decode(m, a + At0(code)[i]) = code[i]

(* Every instruction of every piece is at its place in the whole.          *)
PlacedIn(w, piece, at) ==
  \A k \in DOMAIN piece :
    \E q \in DOMAIN w : w[q] = piece[k] /\ At0(w)[q] = at + At0(piece)[k]

(* The n bytes at a decode, one instruction behind the other: B holds the  *)
(* places where they begin, and the end of the last one.                   *)
Marks(m, a, n, B) ==
  /\ B \subseteq a .. a + n
  /\ a \in B /\ a + n \in B
  /\ \A b \in B : b < a + n => Decode(m, b) # Bad /\ b + Decode(m, b).len \in B
Whole(m, a, n) == \E B : Marks(m, a, n, B)

-----------------------------------------------------------------------------
(* The patches that are in effect, one over the other, and the invariant of *)
(* the theorems about the bytes of the target.                             *)

hows == {"unsafe", "verbatim", "legacy", "short", "near"}

(* A patch has saved what is in front of its cut.                          *)
PatchOK(p) ==
  /\ p.how \in hows /\ p.hook \in Word
  /\ p.cut \in Nat /\ p.cut <= Size(target.code)
  /\ \A b \in OwnPage(p) : b \notin Zone
  /\ DOMAIN p.saved = Entry .. Entry + p.cut - 1

(* Of the first n patches, j cuts deepest.                                 *)
Deepest(ps, j, n) == j \in 1 .. n /\ \A i \in 1 .. n : ps[i].cut <= ps[j].cut

(* The code under patch k: it has the lengths of the architecture, and is  *)
(* a sequence of instructions up to the deepest cut of the patches before. *)
LayerOK(m, k, ps) ==
  /\ Zone \subseteq DOMAIN m
  /\ \A b \in Zone : m[b].inst.len \in Lens
  /\ \A j \in 1 .. k - 1 : Deepest(ps, j, k - 1) => Whole(m, Entry, ps[j].cut)

(* A short branch goes to r, where the branch into the hook is.            *)
Jump(r) == IF amd64 THEN I("jmp32", 5, r - (Entry + 5), 0) ELSE I("b", 4, r - Entry, 0)
Leads(e, m, hook) ==
  \/ InEntry(e, BranchInto(hook))
  \/ \E r \in Int : InEntry(e, <<Jump(r)>>) /\ Holds(m, BranchInto(hook), r)

(* The same of patch k, whose relay or trampoline is in no page that is    *)
(* unmapped before its own.                                                *)
Stays(ps, k, r) ==
  \A j \in k + 1 .. Len(ps) :
    \A b \in DOMAIN Bytes(BranchInto(ps[k].hook), r) : b \notin OwnPage(ps[j])
LeadsTo(e, m, ps, k) ==
  \/ InEntry(e, BranchInto(ps[k].hook))
  \/ \E r \in Int : /\ InEntry(e, <<Jump(r)>>) /\ Holds(m, BranchInto(ps[k].hook), r)
                    /\ Stays(ps, k, r)

(* h[k] is the code patch k was put over, h[1] the function, the last one  *)
(* what is mapped now; what is put over it leads to the patch's hook.      *)
Layers(h, m, ps) ==
  /\ \A b \in Zone : h[1][b] = Bytes(target.code, Entry)[b]
  /\ \A b \in Zone : h[Len(ps) + 1][b] = m[b]
  /\ \A k \in 1 .. Len(ps) : \A b \in Zone :
       h[k][b] = IF b < Entry + ps[k].cut THEN ps[k].saved[b] ELSE h[k + 1][b]
  /\ \A k \in 1 .. Len(ps) + 1 : LayerOK(h[k], k, ps)
  /\ \A k \in 1 .. Len(ps) : LeadsTo(h[k + 1], m, ps, k)
Shape ==
  /\ target \in Functions
  /\ IsSequence(patches)
  /\ made \in Nat /\ Len(patches) <= made /\ made <= MaxPatches
  /\ Zone \subseteq DOMAIN mem
  /\ \A k \in 1 .. Len(patches) : PatchOK(patches[k])
  /\ DOMAIN run = {"kind", "of", "cpu", "ref"} /\ run.kind \in {"none", "target", "proxy"}
Inv == Shape /\ \E h : Layers(h, mem, patches)

-----------------------------------------------------------------------------
(* A call that is on its way to the hook.                                  *)

(* What the scratch register holds before instruction i of it.             *)
Loaded(v, i) ==
  IF i = 1 THEN 0
  ELSE IF amd64 \/ i > 4 THEN v
  ELSE v % (IF i = 2 THEN 16 ELSE IF i = 3 THEN 256 ELSE 4096)

(* A call is at the entry, in front of a short branch, or at an            *)
(* instruction of the branch into the newest hook.                         *)
Newest == patches[Len(patches)].hook
AtBranch(cpu, r, i) ==
  cpu = [pc |-> r + At0(BranchInto(Newest))[i], s |-> Loaded(Newest, i), d |-> 0]
AtEntry(cpu, r) == cpu = Reset(Entry) /\ Has(mem, <<Jump(r)>>, Entry)
Underway(cpu, r) ==
  /\ Has(mem, BranchInto(Newest), r)
  /\ AtEntry(cpu, r) \/ \E i \in DOMAIN BranchInto(Newest) : AtBranch(cpu, r, i)
OnItsWay ==
  run.kind = "target" => Newest \in Word /\ \E r \in Int : Underway(run.cpu, r)

-----------------------------------------------------------------------------
(* What the functions are.                                                 *)

(* What the functions are that the theorem is about.  Nothing that mmap or *)
(* AllocTrampoline returns is right behind them or where they branch to,   *)
(* and the instructions that mockey may displace do not use the address of *)
(* their own prefix, which relocation would change to that of the copy.    *)
Mapped ==
  UNION ({Pages[n] .. Pages[n] + PageBytes - 1 : n \in 1 .. Len(Pages)}
         \cup {NearPages[n] .. NearPages[n] + PageBytes - 1 : n \in 1 .. Len(Pages)}
         \cup {Slots[n] .. Slots[n] + 23 : n \in 1 .. Len(Pages)})
Branching == {"jmp8", "jmp32", "jcc8", "jcc32", "loop", "b", "cb", "tb", "bcond"}
Ordinary(f) ==
  LET start(i) == Entry + Offsets(Lengths(f.code))[i]
      aim(i) == IF f.arch = "amd64" THEN start(i) + f.code[i].len + f.code[i].arg
                ELSE R!Target(f.code[i], start(i))
      end == Entry + Size(f.code)
  IN  /\ end \notin Mapped
      /\ f.arch # "amd64" => Mapped \cup {end} \subseteq 0 .. R!Addresses - 1
      /\ \A i \in DOMAIN f.code :
           LET o == f.code[i]
           IN  /\ o.op \in {"plain", "ret", "nop", "int3"} \cup
                    IF f.arch = "amd64"
                    THEN {"lea", "call32", "jmp8", "jmp32", "jcc8", "jcc32", "loop"}
                    ELSE {"adr", "adrp", "ldrlit", "bl", "b", "cb", "tb", "bcond"}
               /\ o.x \in {0, 1}
               /\ o.op \in Branching => aim(i) \notin Mapped
               /\ o.op \in {"adr", "adrp", "bl", "b", "cb", "tb", "bcond"} =>
                    aim(i) \in 0 .. R!Addresses - 1
               /\ o.op \in {"adr", "adrp", "bl", "call32"} /\ start(i) < Entry + MaxCut =>
                    aim(i) \notin Entry .. Entry + MaxCut - 1
OrdinaryFunctions == \A f \in Functions : Ordinary(f)

-----------------------------------------------------------------------------
(* What a proxy consists of.                                               *)

(* What is known of a proxy that can be called.  code is the displaced     *)
(* prefix, moved its copy, at the offset of each instruction's copy; a     *)
(* branch into the prefix follows it.                                      *)
Placebound == IF amd64 THEN X!PCRelative ELSE R!Branches \cup {"adr", "adrp", "ldrlit"}
Settles(p, code, at, aim, t) ==
  IF aim \in Entry .. Entry + p.cut - 1
  THEN \E j \in DOMAIN code : aim = Entry + At0(code)[j] /\ t = p.page + at[j]
  ELSE t = aim
Piece(p, code, at, i, piece) ==
  LET o == code[i]
      to == p.page + at[i]
      aim == Points(o, Entry + At0(code)[i])
  IN  \/ o.op \notin Placebound /\ piece = <<o>>
      \/ /\ amd64 /\ o.op \in X!Control \ {"loop"}
         /\ \E e : /\ piece = <<e>> /\ e.op = X!Wide(o).op /\ e.x = o.x
                   /\ Settles(p, code, at, aim, Points(e, to))
      \/ amd64 /\ o.op = "lea" /\ \E e : piece = <<e>> /\ e.op = "lea" /\ Points(e, to) = aim
      \/ /\ ~amd64 /\ o.op \in R!Branches \cup {"adr", "adrp"}
         /\ \E t : Settles(p, code, at, aim, t) /\ piece = R!RelocateInst(o, t)
      \/ ~amd64 /\ o.op = "adrp" /\ \E e : piece = <<e>> /\ e.op = "adrp" /\ Points(e, to) = aim
Relocation(p, code, moved, at) ==
  /\ IsCode(code) /\ IsCode(moved) /\ p.page \in Int
  /\ Size(code) = p.cut /\ p.cut \in ShortCut .. MaxCut
  /\ code[1].op \in {"set", "mov"} => LongCut <= p.cut
  /\ at[1] = 0 /\ at[Len(code) + 1] = Size(moved)
  /\ \A i \in DOMAIN code :
       /\ at[i] \in Nat
       /\ \E piece : /\ IsCode(piece) /\ PlacedIn(moved, piece, at[i])
                     /\ at[i + 1] = at[i] + Size(piece)
                     /\ Piece(p, code, at, i, piece)
Proxy(p, moved) == moved \o BranchTo(Entry + p.cut)
Kept(m, ps, k) ==
  ps[k].how # "verbatim" =>
    \E code, moved, at :
      /\ Relocation(ps[k], code, moved, at)
      /\ Has(ps[k].saved, code, Entry)
      /\ Holds(m, Proxy(ps[k], moved), ps[k].page)
      /\ \A j \in k + 1 .. Len(ps) :
           \A b \in DOMAIN Bytes(Proxy(ps[k], moved), ps[k].page) : b \notin OwnPage(ps[j])
IsCell(c) == c = [inst |-> c.inst, at |-> c.at] /\ c.inst.arg \in Int
Static(m, ps) ==
  /\ DOMAIN m \subseteq Zone \cup Mapped
  /\ \A b \in Zone : IsCell(m[b])
  /\ \A k \in 1 .. Len(ps) : \A b \in DOMAIN ps[k].saved : IsCell(ps[k].saved[b])
  /\ \A k \in 1 .. Len(ps) : Kept(m, ps, k)

-----------------------------------------------------------------------------
(* A block of instructions and its copy.                                   *)

IsCpu(c) == c = [pc |-> c.pc, s |-> c.s, d |-> c.d]
Moved(c, to) == [pc |-> to, s |-> c.s, d |-> c.d]
Jumping == {"jmp8", "jmp32", "b"}
Compiled == {"plain", "ret", "nop", "int3", "lea", "adr", "adrp", "ldrlit", "call32", "bl"}
            \cup Jumping \cup Tests

(* A block that was copied.  g has the memory with the copy (new) and the  *)
(* one with the block (old), the block's instructions (code), where the    *)
(* copy is (page) and the copy of each instruction in it (at), of which    *)
(* instructions this is known (live), and the addresses behind the block   *)
(* where both memories hold the same (out).                                *)
From(g, j) == Entry + At0(g.code)[j]
To(g, j) == g.page + g.at[j]
Behind(g) == Entry + Size(g.code)

(* What the copy does at t is what the block does at u.                    *)
Lands(g, t, u) ==
  \/ \E j \in g.live : t = To(g, j) /\ u = From(g, j)
  \/ t = u /\ t \in g.out
  \/ \E v : /\ Runs(g.new, BranchInto(v), t) /\ Runs(g.old, BranchInto(v), u)
            /\ t \in Int /\ u \in Int /\ (amd64 \/ v \in Word)
LinkTo(v) == R!AbsoluteBranch(v, TRUE)
JumpTo(v) == R!AbsoluteBranch(v, FALSE)
Reachable(v) == v \in Int /\ (amd64 \/ v \in Word)

(* The instructions that are made of the j-th one.                         *)
Copies(g, j, piece) ==
  LET o == g.code[j]
      aim == Points(o, From(g, j))
  IN  \/ o.op \in {"plain", "ret", "nop", "int3"} /\ piece = <<o>>
      \/ \E e : /\ piece = <<e>> /\ o.op \in {"jmp8", "jmp32"} /\ e.op = "jmp32"
                /\ Lands(g, Points(e, To(g, j)), aim)
      \/ \E e : /\ piece = <<e>> /\ o.op \in {"jcc8", "jcc32"} /\ e.op = "jcc32" /\ e.x = o.x
                /\ Lands(g, Points(e, To(g, j)), aim)
      \/ \E e : /\ piece = <<e>> /\ o.op \in {"lea", "call32", "adrp"} /\ e.op = o.op
                /\ Points(e, To(g, j)) = aim
      \/ /\ ~amd64 /\ o.op = "b"
         /\ \E t \in Word : Lands(g, t, aim) /\ piece = JumpTo(t)
      \/ ~amd64 /\ o.op = "bl" /\ aim \in Word /\ piece = LinkTo(aim)
      \/ /\ ~amd64 /\ o.op \in R!Conditional /\ o.x \in {0, 1}
         /\ \E t \in Word : Lands(g, t, aim) /\ piece = R!ConditionalBranch(o, t)
      \/ ~amd64 /\ o.op \in {"adr", "adrp"} /\ aim \in Word /\ piece = R!MoveAddress("movd", aim)

(* Behind its instruction comes the next one, or the way back.             *)
Follows(g, n) ==
  \/ n \in g.live
  \/ /\ From(g, n) = Behind(g) /\ Behind(g) \in g.out /\ Reachable(Behind(g))
     /\ Runs(g.new, BranchTo(Behind(g)), To(g, n))
Copied(g, j) ==
  /\ Decode(g.old, From(g, j)) = g.code[j] /\ g.code[j].op \in Compiled
  /\ From(g, j) \in Int /\ From(g, j + 1) \in Int /\ To(g, j) \in Int
  /\ From(g, j + 1) = From(g, j) + g.code[j].len
  /\ \E piece : /\ IsCode(piece) /\ Runs(g.new, piece, To(g, j)) /\ Copies(g, j, piece)
                /\ To(g, j + 1) = To(g, j) + Size(piece)
  /\ g.code[j].op \notin Jumping => Follows(g, j + 1)
Same(g, pc) ==
  LET i == Decode(g.old, pc)
  IN  /\ Decode(g.new, pc) = i /\ pc \in Int
      /\ \/ i = Bad
         \/ /\ i.op \in Compiled
            /\ i.op \notin Jumping => pc + i.len \in g.out
            /\ i.op \in Jumping \cup Tests => Points(i, pc) \in g.out
Good(g) ==
  /\ \A j \in g.live : Copied(g, j)
  /\ \A pc \in g.out : Same(g, pc)

-----------------------------------------------------------------------------
(* The processor in the copy and the one in the block.                     *)

(* How far the processor is: where both are, on a way that has no effect   *)
(* to where the other one is, in the middle of the sequence for a call or  *)
(* an address, or in the branch into a hook.                               *)
Held(s, v, i) == i > 1 => s = Loaded(v, i)
Going(g, cpu, ref) ==
  \E a \in Int : \E t : \E i \in DOMAIN BranchTo(t) :
    /\ Runs(g.new, BranchTo(t), a) /\ Reachable(t)
    /\ cpu.pc = a + At0(BranchTo(t))[i] /\ Held(cpu.s, t, i)
    /\ Lands(g, t, ref.pc)
Calling(g, cpu, ref) ==
  \E j \in g.live, i \in 1 .. 5 :
    LET aim == Points(g.code[j], From(g, j))
        piece == LinkTo(aim)
    IN  /\ ~amd64 /\ g.code[j].op = "bl" /\ ref.pc = From(g, j) /\ aim \in Word
        /\ Runs(g.new, piece, To(g, j)) /\ To(g, j + 1) = To(g, j) + Size(piece)
        /\ cpu.pc = To(g, j) + At0(piece)[i] /\ Held(cpu.s, aim, i)
Loading(g, cpu, ref) ==
  \E j \in g.live, i \in 1 .. 4 :
    LET aim == Points(g.code[j], From(g, j))
        piece == R!MoveAddress("movd", aim)
    IN  /\ ~amd64 /\ g.code[j].op \in {"adr", "adrp"} /\ ref.pc = From(g, j) /\ aim \in Word
        /\ Runs(g.new, piece, To(g, j)) /\ To(g, j + 1) = To(g, j) + Size(piece)
        /\ cpu.pc = To(g, j) + At0(piece)[i] /\ Held(cpu.d, aim, i)
Hooking(g, cpu, ref) ==
  \E a \in Int, b \in Int : \E v : \E i \in DOMAIN BranchInto(v) :
    /\ Runs(g.new, BranchInto(v), a) /\ Runs(g.old, BranchInto(v), b)
    /\ amd64 \/ v \in Word
    /\ cpu.pc = a + At0(BranchInto(v))[i] /\ ref.pc = b + At0(BranchInto(v))[i]
    /\ Held(cpu.s, v, i) /\ Held(ref.s, v, i)
Agrees(g, cpu, ref) ==
  /\ IsCpu(cpu) /\ IsCpu(ref)
  /\ \/ Lands(g, cpu.pc, ref.pc)
     \/ Going(g, cpu, ref) \/ Calling(g, cpu, ref) \/ Loading(g, cpu, ref) \/ Hooking(g, cpu, ref)

(* What silent steps reach: b is in every set that a is in and that they   *)
(* do not leave.                                                           *)
Next2(w, x) == After(Decode(w, x.pc), x, FALSE)
Closed(w, S) == \A x \in S : Silent(Decode(w, x.pc)) => Next2(w, x) \in S
Reaches(w, a, b) == \A S : a \in S /\ Closed(w, S) => b \in S

(* The proxy and the function beside it agree, once the function has made  *)
(* the silent steps that the proxy made.                                   *)
Behaves(g, cpu, ref) == \E later : Reaches(g.old, ref, later) /\ Agrees(g, cpu, later)
InStep(g) == /\ g.new = mem /\ g.old = Before(run.of) /\ Good(g)
             /\ Behaves(g, run.cpu, run.ref)
Beside == run.kind = "proxy" => \E g : InStep(g)

=============================================================================
