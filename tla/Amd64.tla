------------------------------ MODULE Amd64 ------------------------------
(* The part of package inst that is built for amd64: the branches mockey   *)
(* writes, the cut through a function's entry and the relocation of the    *)
(* instructions the cut displaces.  Sizes in bytes are those of the code;  *)
(* Reach is the reach of a 32-bit displacement, scaled down.               *)
EXTENDS CodeBytes

CONSTANT Reach

LongBranch == 12
ShortBranchSize == 5

(* MOVABS RDX, to; JMP RDX, and the same through the function value. *)
rdxMOV(val) == I("set", 10, val, 0)
BranchTo(to) == <<rdxMOV(to), I("jmpset", 2, 0, 0)>>
BranchInto(to) == <<rdxMOV(to), I("hookset", 2, 0, 0)>>

InReach(d) == d \in -Reach .. Reach - 1

(* Mutant: the displacement is counted from the branch's first byte. *)
CountsFromStart(from, to) ==
  IF InReach(to - from) THEN <<I("jmp32", ShortBranchSize, to - from, 0)>> ELSE <<>>

BranchIntoShort(from, to) ==
  LET d == to - (from + ShortBranchSize)
  IN  IF InReach(d) THEN <<I("jmp32", ShortBranchSize, d, 0)>> ELSE <<>>

(* Mutant: the tail of the last displaced instruction is left behind. *)
LeavesTail(code, width) == code

PadEntry(code, width) ==
  IF Size(code) >= width THEN code
  ELSE code \o [k \in 1 .. width - Size(code) |-> Nop(1)]

Rel8 == {"jmp8", "jcc8", "loop"}
Control == Rel8 \cup {"jmp32", "jcc32", "call32"}
PCRelative == Control \cup {"lea"}

(* The cut: whole instructions until `required` bytes are covered.  Behind *)
(* a RET only the linker's padding may be covered, unless checkLen is off. *)
(* 0 stands for a refusal.                                                 *)
Disassemble(mem, a, required, checkLen) ==
  LET tail[p \in 0 .. required + 15] ==
        LET i == Decode(mem, a + p)
        IN  IF p >= required THEN p
            ELSE IF (checkLen /\ i.op # "int3") \/ i = Bad THEN 0
            ELSE tail[p + i.len]
      walk[p \in 0 .. required + 15] ==
        LET i == Decode(mem, a + p)
        IN  IF p >= required THEN p
            ELSE IF i = Bad THEN 0
            ELSE IF i.op = "ret" THEN tail[p + i.len]
            ELSE walk[p + i.len]
  IN  walk[0]

HasPCRelative(code) == \E i \in DOMAIN code : code[i] = Bad \/ code[i].op \in PCRelative

(* A rel8 branch is widened to rel32 when it moves. *)
Wide(i) ==
  CASE i.op = "jmp8" -> I("jmp32", 5, i.arg, i.x)
    [] i.op = "jcc8" -> I("jcc32", i.len + 4, i.arg, i.x)
    [] OTHER -> i

Displace(i, arg) == I(i.op, i.len, arg, i.x)

(* Relocate: instruction i of the block at old, rewritten for the copy at  *)
(* new.  A branch into the block follows the block, everything else keeps  *)
(* its absolute target.  A block it cannot rewrite is refused.             *)
Relocate(code, old, new) ==
  LET oldAt == Offsets(Lengths(code))
      newAt == Offsets([i \in DOMAIN code |-> Wide(code[i]).len])
      target == [i \in DOMAIN code |-> old + oldAt[i + 1] + code[i].arg]
      inside == {i \in DOMAIN code : /\ code[i].op \in Control
                                     /\ target[i] \in old .. old + Size(code) - 1}
      starts(i) == {j \in DOMAIN code : old + oldAt[j] = target[i]}
      moved == [i \in DOMAIN code |->
                 IF i \in inside
                 THEN new + newAt[CHOOSE j \in starts(i) : TRUE]
                 ELSE target[i]]
      displacement == [i \in DOMAIN code |-> moved[i] - (new + newAt[i + 1])]
      relative == {i \in DOMAIN code : code[i].op \in PCRelative}
  IN  IF /\ \A i \in DOMAIN code : code[i] # Bad /\ code[i].op # "loop"
         /\ \A i \in inside : starts(i) # {}
         /\ \A i \in relative : InReach(displacement[i])
      THEN [ok |-> TRUE,
            code |-> [i \in DOMAIN code |->
                       IF i \in relative
                       THEN Displace(Wide(code[i]), displacement[i])
                       ELSE code[i]]]
      ELSE [ok |-> FALSE, code |-> code]
==========================================================================
