---------------------------- MODULE GenericCode ----------------------------
(* GetGenericAddr: where the wrapper of a generic instance jumps to, and   *)
(* which dictionary it passes, read from the wrapper's instructions.       *)
(* A wrapper is a sequence of instructions placed at an address.  On amd64 *)
(* x tells whether a LEA is relative to RIP; on arm64 it is the register   *)
(* of an ADRP, and of an ADD its registers and its shift.                  *)
EXTENDS CodeBytes, SequencesExt

CONSTANTS DuffFunctions,   \* duffcopy and duffzero: [addr, code]
          RaceFunctions,   \* the addresses of the functions -race inserts calls of
          DispRange,    \* 2^32, scaled down: what a displacement is taken modulo
          PageBytes     \* 4096, scaled down

ASSUME ModuloAssumption == DispRange \in Nat \ {0} /\ PageBytes \in Nat \ {0}

NotFound == 0
Failed == [ok |-> FALSE]

(* A wrapper is a record of code and its address; these are the places of  *)
(* the instructions that are looked at, up to the first RET.               *)
Scanned(w) == {i \in DOMAIN w.code : \A h \in 1 .. i - 1 : w.code[h].op # "ret"}
At(w, i) == w.addr + Offsets(Lengths(w.code))[i]

\* Mutant: a displacement is taken for a positive number.
Unsigned32(d) == d

(* duffcopy and duffzero are entered in the middle. *)
calcFnAddrRange(f) == f.addr .. At(f, CHOOSE i \in Scanned(f) : f.code[i].op = "ret")
ExtraCalls == RaceFunctions \cup UNION {calcFnAddrRange(f) : f \in DuffFunctions}
isGenericProxyCallExtra(addr) == addr \in ExtraCalls

Signed32(d) == IF 2 * d >= DispRange THEN d - DispRange ELSE d

calcJumpAddr(arch, w, i) ==
  At(w, i) + w.code[i].arg + (IF arch = "amd64" THEN w.code[i].len ELSE 0)

(* The calls that are not extra calls. *)
JumpInsts(arch, w) ==
  {i \in Scanned(w) : /\ w.code[i].op \in {"call", "bl"}
                      /\ ~isGenericProxyCallExtra(calcJumpAddr(arch, w, i))}

(* The instructions that may load a dictionary before the jump: a LEA from *)
(* RIP, or an ADRP with an ADD right behind it.                            *)
LeaMatches(w, i, jump) == w.code[i].x = "rip" /\ At(w, i) + w.code[i].len <= At(w, jump)
AdrpMatches(w, i, jump) ==
  i < Len(w.code) /\ w.code[i + 1].op = "add" /\ At(w, i) + 4 < At(w, jump)
InfoInsts(arch, w, jump) ==
  {i \in Scanned(w) :
    \/ arch = "amd64" /\ w.code[i].op = "lea" /\ LeaMatches(w, i, jump)
    \/ arch = "arm64" /\ w.code[i].op = "adrp" /\ AdrpMatches(w, i, jump)}

calcGenericInfoAddr(arch, w, i) ==
  IF arch = "amd64"
  THEN [ok |-> TRUE, info |-> At(w, i) + w.code[i].len + Signed32(w.code[i].arg)]
  ELSE LET add == w.code[i + 1]
       IN  [ok |-> add.x = <<w.code[i].x, w.code[i].x, 0>>,
            info |-> PageBytes * (At(w, i) \div PageBytes) + w.code[i].arg + add.arg]

(* The one call that is no extra call, and the last load before it. *)
GetGenericAddr(arch, w) ==
  LET jumps == JumpInsts(arch, w)
      jump == CHOOSE i \in jumps : TRUE
      infos == InfoInsts(arch, w, jump)
      found == IF infos = {} THEN [ok |-> TRUE, info |-> NotFound]
               ELSE calcGenericInfoAddr(arch, w, Max(infos))
  IN  IF Cardinality(jumps) = 1 /\ found.ok
      THEN [ok |-> TRUE, jump |-> calcJumpAddr(arch, w, jump), info |-> found.info]
      ELSE Failed
============================================================================
