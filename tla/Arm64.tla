------------------------------ MODULE Arm64 ------------------------------
(* The part of package inst that is built for arm64.  Every instruction is *)
(* four bytes long; a relocated PC-relative one becomes a sequence that    *)
(* builds the absolute address in a register.  The four 16-bit parts of an *)
(* address are its four digits to base 16 here, and PageBytes and the      *)
(* reaches are scaled down with it.                                        *)
EXTENDS CodeBytes

CONSTANTS PageBytes, PageReach, ShortReach

LongBranch == 24
ShortBranchLen == 4
PageOf(a) == PageBytes * (a \div PageBytes)

A(op, arg, x) == I(op, 4, arg, x)

(* MOVZ and three MOVKs; op is "mov" for x26, "movd" for another register. *)
Weight == <<1, 16, 256, 4096>>
Addresses == 65536
MoveAddress(op, v) == [k \in 1 .. 4 |-> A(op, (v \div Weight[k]) % 16, k - 1)]

x26MOV(v) == MoveAddress("mov", v)

AbsoluteBranch(to, link) ==
  Append(x26MOV(to), A(IF link THEN "callset" ELSE "jmpset", 0, 0))

BranchTo(to) == AbsoluteBranch(to, FALSE)
BranchInto(to) == x26MOV(to) \o <<A("ldrset", 0, 0), A("hookset", 0, 0)>>

PadEntry(code, width) ==
  IF Size(code) >= width THEN code
  ELSE code \o [k \in 1 .. (width - Size(code)) \div 4 |-> Nop(4)]

Disassemble(mem, a, required, checkLen) ==
  LET walk[p \in 0 .. required + 3] ==
        IF p >= required THEN p
        ELSE IF checkLen /\ (Decode(mem, a + p) = Bad \/ Decode(mem, a + p).op = "ret") THEN 0
        ELSE walk[p + 4]
  IN  walk[0]

Conditional == {"cb", "tb", "bcond"}
Branches == Conditional \cup {"b", "bl"}

(* Where a PC-relative instruction at address a points. *)
Target(i, a) == IF i.op = "adrp" THEN PageOf(a) + i.arg * PageBytes ELSE a + i.arg

(* arm64RelocatedSize, in instructions; 0 for what is refused. *)
RelocatedSize(i) ==
  CASE i.op \in {"adr", "adrp"} -> 4
    [] i.op \in {"b", "bl"} -> 5
    [] i.op \in Conditional -> 6
    [] i.op \in {"ldrlit", "bad"} -> 0
    [] OTHER -> 1

(* Mutant: the inverted condition lands on the last instruction of it. *)
SkipsTooLittle(i, to) ==
  <<A(i.op, 5 * 4, 1 - i.x)>> \o AbsoluteBranch(to, FALSE)

(* The inverted condition steps over the absolute branch. *)
ConditionalBranch(i, to) ==
  <<A(i.op, 6 * 4, 1 - i.x)>> \o AbsoluteBranch(to, FALSE)

RelocateInst(i, to) ==
  CASE i.op = "adr" -> MoveAddress("movd", to)
    [] i.op = "adrp" -> MoveAddress("movd", PageOf(to))
    [] i.op = "b" -> AbsoluteBranch(to, FALSE)
    [] i.op = "bl" -> AbsoluteBranch(to, TRUE)
    [] i.op \in Conditional -> ConditionalBranch(i, to)
    [] OTHER -> <<i>>

(* A target inside the displaced block, at old and size bytes long, follows *)
(* the block to its copy.                                                   *)
mapArm64Target(to, old, new, size, oldAt, newAt) ==
  IF to \in old .. old + size - 1
  THEN new + newAt[CHOOSE j \in DOMAIN newAt : old + oldAt[j] = to]
  ELSE to

Relocate(code, old, new) ==
  LET oldAt == Offsets(Lengths(code))
      newAt == Offsets([i \in DOMAIN code |-> 4 * RelocatedSize(code[i])])
      to(i) == Target(code[i], old + oldAt[i])
      mapped(i) == mapArm64Target(to(i), old, new, Size(code), oldAt, newAt)
      upTo[n \in 0 .. Len(code)] ==
        IF n = 0 THEN <<>> ELSE upTo[n - 1] \o RelocateInst(code[n], mapped(n))
      whole(i) == code[i].op \in Branches \cup {"adr", "adrp"} =>
                    (to(i) - old) % 4 = 0 \/ to(i) \notin old .. old + Size(code) - 1
  IN  IF \A i \in DOMAIN code : RelocatedSize(code[i]) # 0 /\ whole(i)
      THEN [ok |-> TRUE, code |-> upTo[Len(code)]]
      ELSE [ok |-> FALSE, code |-> code]

(* What the near-trampoline strategy of darwin asks of a target: a RET     *)
(* among the first instructions, all of them decodable.                    *)
TooShortToPatch(mem, a, required) ==
  \E p \in 0 .. required - 4 :
    /\ p % 4 = 0
    /\ Decode(mem, a + p).op = "ret"
    /\ \A q \in 0 .. p - 4 : q % 4 = 0 => Decode(mem, a + q) # Bad

ShortBranchTo(from, to) ==
  LET d == to - from
  IN  IF d % 4 = 0 /\ d \in -ShortReach + 1 .. ShortReach - 1 THEN <<A("b", d, 0)>> ELSE <<>>

(* The single displaced instruction of that strategy: ADRP is rewritten    *)
(* within its reach, the other PC-relative ones are refused.               *)
RelocatableFirstInst(i) == i # Bad /\ i.op \notin Branches \cup {"adr", "adrp", "ldrlit"}
RelocateFirstInst(i, from, to) ==
  LET pages == (Target(i, from) - PageOf(to)) \div PageBytes
  IN  IF i.op = "adrp"
      THEN [ok |-> pages \in -PageReach .. PageReach - 1, code |-> <<A("adrp", pages, 0)>>]
      ELSE [ok |-> RelocatableFirstInst(i), code |-> <<i>>]
==========================================================================
