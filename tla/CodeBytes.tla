---------------------------- MODULE CodeBytes ----------------------------
(* Machine code as mockey reads and writes it.  Memory maps an address to  *)
(* a cell: which instruction the byte belongs to and its place in it.  An  *)
(* instruction can be decoded at an address only when all of its bytes are *)
(* there, so that the tail of an instruction whose head was overwritten    *)
(* does not decode.                                                        *)
EXTENDS Integers, Sequences, Functions

(* An instruction: its operation, length, operand (a displacement, an      *)
(* immediate, or the name of an effect) and a modifier.                    *)
I(op, len, arg, x) == [op |-> op, len |-> len, arg |-> arg, x |-> x]
Bad == I("bad", 1, 0, 0)
Nop(len) == I("nop", len, 0, 0)

(* The offset of every instruction of a sequence, and of its end. *)
Offsets(lens) ==
  LET at[i \in 1 .. Len(lens) + 1] == IF i = 1 THEN 0 ELSE at[i - 1] + lens[i - 1]
  IN  at
Lengths(code) == [i \in DOMAIN code |-> code[i].len]
Size(code) == Offsets(Lengths(code))[Len(code) + 1]

(* The bytes of code placed at address a. *)
Bytes(code, a) ==
  LET at == Offsets(Lengths(code))
  IN  [b \in a .. a + Size(code) - 1 |->
        LET i == CHOOSE j \in DOMAIN code : b - a \in at[j] .. at[j] + code[j].len - 1
        IN  [inst |-> code[i], at |-> b - a - at[i]]]

Overlay(new, old) ==
  [b \in DOMAIN new \cup DOMAIN old |-> IF b \in DOMAIN new THEN new[b] ELSE old[b]]
Write(mem, code, a) == Overlay(Bytes(code, a), mem)

(* Code copied into a page of n bytes at a: what does not fit is left out. *)
Fill(mem, code, a, n) ==
  Overlay(Restrict(Bytes(code, a), (a .. a + n - 1) \cap DOMAIN Bytes(code, a)), mem)

Copy(mem, a, n) == [b \in a .. a + n - 1 |-> mem[b]]

Decode(mem, a) ==
  IF /\ a \in DOMAIN mem
     /\ mem[a].at = 0
     /\ \A k \in 1 .. mem[a].inst.len - 1 :
          a + k \in DOMAIN mem /\ mem[a + k] = [inst |-> mem[a].inst, at |-> k]
  THEN mem[a].inst
  ELSE Bad

(* The instructions of the n bytes at a; the last one is Bad when it does  *)
(* not end there.                                                          *)
Instructions(mem, a, n) ==
  LET from[b \in a .. a + n] ==
        IF b = a + n THEN <<>>
        ELSE LET i == Decode(mem, b)
             IN  IF b + i.len > a + n THEN <<Bad>> ELSE <<i>> \o from[b + i.len]
  IN  from[a]
==========================================================================
