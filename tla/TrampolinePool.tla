-------------------------- MODULE TrampolinePool --------------------------
(* AllocTrampoline: slots near a target, carved out of shared pages.  The  *)
(* pool's mutex makes a call one step.  Slots are never given back.  Where *)
(* a fresh page comes from is left open here; NearPages searches for it.   *)
EXTENDS Integers, Sequences

CONSTANTS
  Targets,          \* the addresses of short functions
  Bases,            \* the pages that can be mapped
  PageBytes, TrampolineSize,
  Reach,            \* how far a B instruction reaches
  MaxSlots

ASSUME PoolAssumption ==
  /\ Targets \subseteq Int /\ Bases \subseteq Int
  /\ PageBytes \in Nat /\ TrampolineSize \in Nat \ {0} /\ TrampolineSize <= PageBytes
  /\ Reach \in Nat /\ MaxSlots \in Nat
  /\ \A b, c \in Bases : b < c => b + PageBytes <= c

VARIABLES
  arenas,   \* the shared pages: [base, cursor], oldest first
  slots,    \* the slots handed out: [at, target]
  lost      \* pages that were mapped and did not get into the pool

poolVars == <<arenas, slots, lost>>

PoolInit == arenas = << >> /\ slots = << >> /\ lost = {}

inReach(target, addr) == addr - target > -Reach /\ addr - target < Reach

Usable(a, target) ==
  /\ a.cursor + TrampolineSize <= PageBytes
  /\ inReach(target, a.base + a.cursor)
  /\ inReach(target, a.base + a.cursor + TrampolineSize)

(* Mutant: the cursor stays where it is. *)
ReusesSlot(target) ==
  \E i \in DOMAIN arenas :
    /\ Usable(arenas[i], target)
    /\ slots' = Append(slots, [at |-> arenas[i].base + arenas[i].cursor, target |-> target])
    /\ UNCHANGED <<arenas, lost>>

(* The first page with room that is in reach. *)
Reuse(target) ==
  \E i \in DOMAIN arenas :
    /\ Usable(arenas[i], target)
    /\ \A j \in 1 .. i - 1 : ~Usable(arenas[j], target)
    /\ slots' = Append(slots, [at |-> arenas[i].base + arenas[i].cursor, target |-> target])
    /\ arenas' = [arenas EXCEPT ![i].cursor = @ + TrampolineSize]
    /\ UNCHANGED lost

MustMap(target) == \A i \in DOMAIN arenas : ~Usable(arenas[i], target)

(* A fresh page, whose first slot is handed out.  A page that cannot be    *)
(* made executable is in nobody's hands any more: the patch panics.        *)
Fresh(target, base) ==
  /\ MustMap(target)
  /\ base \notin lost /\ \A i \in DOMAIN arenas : arenas[i].base # base
  /\ \/ /\ base >= target - Reach /\ base < target + Reach
        /\ arenas' = Append(arenas, [base |-> base, cursor |-> TrampolineSize])
        /\ slots' = Append(slots, [at |-> base, target |-> target])
        /\ UNCHANGED lost
     \/ lost' = lost \cup {base} /\ UNCHANGED <<arenas, slots>>

PoolNext ==
  \E target \in Targets :
    /\ Len(slots) < MaxSlots
    /\ Reuse(target) \/ \E base \in Bases : Fresh(target, base)

PoolSpec == PoolInit /\ [][PoolNext]_poolVars
---------------------------------------------------------------------------
Arena == [base : Bases, cursor : Nat]
Slot == [at : Int, target : Targets]

PoolTypeOK == arenas \in Seq(Arena) /\ slots \in Seq(Slot) /\ lost \subseteq Bases

(* No two slots share a byte, although each is live code that a later      *)
(* write of another slot must not touch (tramp_pool_darwin_arm64.go:46-50).*)
SlotsAreDisjoint ==
  \A i, j \in DOMAIN slots :
    i # j => \/ slots[i].at + TrampolineSize <= slots[j].at
             \/ slots[j].at + TrampolineSize <= slots[i].at

(* The branch at the target reaches its slot; only a page that begins      *)
(* exactly Reach below a target fails that, and the patch then panics      *)
(* (patch_short_darwin_arm64.go:75-76).                                    *)
SlotsAreInReach ==
  \A i \in DOMAIN slots :
    inReach(slots[i].target, slots[i].at) \/ slots[i].at = slots[i].target - Reach

(* The stub a patch of a short function writes is its own and is reached. *)
SlotsAreSafe == SlotsAreDisjoint /\ SlotsAreInReach
===========================================================================
