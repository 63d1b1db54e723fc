-------------------------- MODULE NearPages_proofs --------------------------
(***************************************************************************)
(* Proofs about the pages near functions, in three parts.                  *)
(*  1. The trampoline pool: slots share no byte and are in reach of their  *)
(*     targets, whatever the pages, the targets and the sizes.  The        *)
(*     invariant adds that pages are distinct and that every slot lies in  *)
(*     the used part of one of them.                                       *)
(*  2. The search loses no page and takes none that is in use, and behind  *)
(*     the pool it is one way to get the pool its pages: what part 1 shows *)
(*     of the pool holds of the search.                                    *)
(*  3. Every page that a search gives to a patch is in reach at both ends. *)
(***************************************************************************)
EXTENDS NearPages, WellFoundedInduction, TLAPS

-----------------------------------------------------------------------------
(* Lemmas about sequences: induction over an interval, the forms in which  *)
(* sequences are changed, and FlattenSeq, which is a recursive function    *)
(* and is reasoned about by its equation.                                  *)

LEMMA InductionUpTo ==
  ASSUME NEW S, NEW N \in Nat, 1 \in S,
         \A n \in 1..N : n \in S /\ n + 1 \in 1..N => n + 1 \in S
  PROVE  1..N \subseteq S
<1>. DEFINE T == {n \in 1..N : n \notin S}
<1>. SUFFICES ASSUME T # {} PROVE FALSE
  OBVIOUS
<1>1. PICK x \in T : \A y \in T : ~(<<y, x>> \in OpToRel(<, Nat))
  <2>1. T \subseteq Nat
    OBVIOUS
  <2>. HIDE DEF OpToRel, T
  <2>. QED BY <2>1, NatLessThanWellFounded, WFMin, Zenon
<1>2. \A y \in T : ~(y < x)
  <2>. SUFFICES ASSUME NEW y \in T, y < x PROVE FALSE
    OBVIOUS
  <2>1. y \in Nat /\ x \in Nat
    OBVIOUS
  <2>2. <<y, x>> \in OpToRel(<, Nat)
    BY <2>1 DEF OpToRel
  <2>. QED BY <1>1, <2>2
<1>3. x # 1 /\ x - 1 \in 1..N /\ x - 1 \notin T
  BY <1>2
<1>. QED BY <1>3

-----------------------------------------------------------------------------
(* Elements of sequences, and sequences that grow or change at one place.  *)

LEMMA Element ==
  ASSUME NEW S, NEW s \in Seq(S), NEW i \in DOMAIN s
  PROVE  s[i] \in S
  OBVIOUS

LEMMA Appended ==
  ASSUME NEW S, NEW s \in Seq(S), NEW e \in S
  PROVE  /\ Append(s, e) \in Seq(S)
         /\ DOMAIN Append(s, e) = DOMAIN s \cup {Len(s) + 1}
         /\ Len(s) + 1 \notin DOMAIN s
         /\ \A i \in DOMAIN s : Append(s, e)[i] = s[i]
         /\ Append(s, e)[Len(s) + 1] = e
  OBVIOUS

LEMMA Changed ==
  ASSUME NEW S, NEW s \in Seq(S), NEW i \in DOMAIN s, NEW e \in S
  PROVE  /\ [s EXCEPT ![i] = e] \in Seq(S)
         /\ DOMAIN [s EXCEPT ![i] = e] = DOMAIN s
         /\ [s EXCEPT ![i] = e][i] = e
         /\ \A j \in DOMAIN s \ {i} : [s EXCEPT ![i] = e][j] = s[j]
  OBVIOUS

-----------------------------------------------------------------------------
LEMMA RangeOfJoin ==
  ASSUME NEW T, NEW u \in Seq(T), NEW v \in Seq(T)
  PROVE  Range(u \o v) = Range(u) \cup Range(v)
<1>. DEFINE w == u \o v
<1>1. /\ DOMAIN w = 1..(Len(u) + Len(v)) /\ DOMAIN u = 1..Len(u) /\ DOMAIN v = 1..Len(v)
      /\ Len(u) \in Nat /\ Len(v) \in Nat
      /\ \A i \in 1..(Len(u) + Len(v)) : w[i] = IF i <= Len(u) THEN u[i] ELSE v[i - Len(u)]
  OBVIOUS
<1>. HIDE DEF w
<1>2. ASSUME NEW i \in DOMAIN w PROVE w[i] \in Range(u) \cup Range(v)
  <2>1. CASE i <= Len(u)
    BY <1>1, <2>1 DEF Range
  <2>2. CASE i > Len(u)
    <3>1. i - Len(u) \in DOMAIN v /\ w[i] = v[i - Len(u)]
      BY <1>1, <2>2
    <3>. QED BY <3>1 DEF Range
  <2>. QED BY <1>1, <2>1, <2>2
<1>3. ASSUME NEW i \in DOMAIN u PROVE u[i] \in Range(w)
  <2>1. i \in DOMAIN w /\ w[i] = u[i]
    BY <1>1
  <2>. QED BY <2>1 DEF Range
<1>4. ASSUME NEW i \in DOMAIN v PROVE v[i] \in Range(w)
  <2>1. i + Len(u) \in DOMAIN w /\ w[i + Len(u)] = v[i]
    BY <1>1
  <2>. QED BY <2>1 DEF Range
<1>5. Range(w) \subseteq Range(u) \cup Range(v)
  BY <1>2 DEF Range
<1>6. Range(u) \cup Range(v) \subseteq Range(w)
  BY <1>3, <1>4 DEF Range
<1>. QED BY <1>5, <1>6 DEF w

(* FlattenSeq puts one sequence behind the other.                          *)
Joined(b, n, f) ==
  [i \in 1..n |-> IF i = 1 THEN b[i] ELSE f[i - 1] \o b[i]]
LEMMA FlattenJoins ==
  ASSUME NEW T, NEW b \in Seq(Seq(T)), Len(b) > 0
  PROVE  \E f \in [1..Len(b) -> Seq(T)] :
           f = Joined(b, Len(b), f) /\ FlattenSeq(b) = f[Len(b)]
<1>. DEFINE N == Len(b)
            S == {n \in 1..N : \E f \in [1..n -> Seq(T)] : f = Joined(b, n, f)}
<1>1. 1 \in S
  <2>. DEFINE f == [i \in 1..1 |-> b[1]]
  <2>1. f \in [1..1 -> Seq(T)] /\ f = Joined(b, 1, f) /\ 1 \in 1..N
    BY DEF Joined
  <2>. QED BY <2>1
<1>2. ASSUME NEW n \in 1..N, n \in S, n + 1 \in 1..N
      PROVE  n + 1 \in S
  <2>1. PICK f \in [1..n -> Seq(T)] : f = Joined(b, n, f)
    BY <1>2
  <2>. DEFINE g == [i \in 1..(n + 1) |-> IF i = n + 1 THEN f[n] \o b[n + 1] ELSE f[i]]
  <2>2. g \in [1..(n + 1) -> Seq(T)]
    <3>1. f[n] \in Seq(T) /\ b[n + 1] \in Seq(T)
      BY <1>2
    <3>2. f[n] \o b[n + 1] \in Seq(T)
      BY <3>1
    <3>. QED BY <3>2
  <2>3. ASSUME NEW i \in 1..(n + 1)
        PROVE  g[i] = IF i = 1 THEN b[i] ELSE g[i - 1] \o b[i]
    <3>1. CASE i = n + 1
      <4>1. i # 1 /\ i - 1 = n /\ i - 1 \in 1..(n + 1) /\ i - 1 # n + 1
        BY <3>1
      <4>2. g[i] = f[n] \o b[n + 1] /\ g[i - 1] = f[n]
        BY <3>1, <4>1
      <4>. QED BY <3>1, <4>1, <4>2
    <3>2. CASE i # n + 1
      <4>1. i \in 1..n /\ g[i] = f[i]
        BY <3>2
      <4>2. f[i] = IF i = 1 THEN b[i] ELSE f[i - 1] \o b[i]
        BY <2>1, <4>1 DEF Joined
      <4>3. i # 1 => g[i - 1] = f[i - 1]
        BY <3>2, <4>1
      <4>. QED BY <4>1, <4>2, <4>3
    <3>. QED BY <3>1, <3>2
  <2>4. g = Joined(b, n + 1, g)
    BY <2>3 DEF Joined
  <2>. HIDE DEF g
  <2>. QED BY <1>2, <2>2, <2>4
<1>3. N \in S
  <2>1. N \in Nat /\ N \in 1..N
    OBVIOUS
  <2>2. 1..N \subseteq S
    <3>. HIDE DEF S
    <3>. QED BY <1>1, <1>2, <2>1, InductionUpTo
  <2>. QED BY <2>1, <2>2
<1>4. PICK f \in [1..N -> Seq(T)] : f = Joined(b, N, f)
  BY <1>3
<1>. DEFINE h == CHOOSE g : g = Joined(b, N, g)
<1>5. FlattenSeq(b) = h[N]
  BY DEF FlattenSeq, Joined
<1>6. h = Joined(b, N, h)
  <2>. HIDE DEF N
  <2>. QED BY <1>4, Zenon
<1>. DEFINE E == {n \in 1..N : h[n] = f[n]}
<1>7. \A n \in 1..N : h[n] = f[n]
  <2>. HIDE DEF h
  <2>1. \A i \in 1..N : h[i] = IF i = 1 THEN b[i] ELSE h[i - 1] \o b[i]
    BY <1>6 DEF Joined
  <2>2. \A i \in 1..N : f[i] = IF i = 1 THEN b[i] ELSE f[i - 1] \o b[i]
    BY <1>4 DEF Joined
  <2>3. N \in Nat /\ 1 \in E
    <3>1. N \in Nat /\ 1 \in 1..N
      OBVIOUS
    <3>. QED BY <2>1, <2>2, <3>1
  <2>4. \A n \in 1..N : n \in E /\ n + 1 \in 1..N => n + 1 \in E
    <3>. SUFFICES ASSUME NEW n \in 1..N, h[n] = f[n], n + 1 \in 1..N
                  PROVE  h[n + 1] = f[n + 1]
      OBVIOUS
    <3>1. n + 1 # 1 /\ (n + 1) - 1 = n
      OBVIOUS
    <3>. HIDE DEF N
    <3>2. h[n + 1] = h[n] \o b[n + 1] /\ f[n + 1] = f[n] \o b[n + 1]
      BY <2>1, <2>2, <3>1
    <3>. QED BY <3>2
  <2>5. 1..N \subseteq E
    <3>. HIDE DEF E
    <3>. QED BY <2>3, <2>4, InductionUpTo
  <2>. QED BY <2>5
<1>8. FlattenSeq(b) = f[N]
  <2>1. N \in 1..N
    OBVIOUS
  <2>. HIDE DEF h, N
  <2>. QED BY <1>5, <1>7, <2>1
<1>. QED BY <1>4, <1>8

(* An element of one of the sequences is an element of the whole.          *)
LEMMA FlattenMembers ==
  ASSUME NEW T, NEW b \in Seq(Seq(T)), Len(b) > 0
  PROVE  /\ FlattenSeq(b) \in Seq(T)
         /\ Range(FlattenSeq(b)) = UNION {Range(b[k]) : k \in 1..Len(b)}
<1>. DEFINE N == Len(b)
<1>1. N \in Nat /\ N \in 1..N /\ 1 \in 1..N /\ \A k \in 1..N : b[k] \in Seq(T)
  OBVIOUS
<1>2. PICK f \in [1..N -> Seq(T)] : f = Joined(b, N, f) /\ FlattenSeq(b) = f[N]
  BY FlattenJoins
<1>3. \A i \in 1..N : f[i] = IF i = 1 THEN b[i] ELSE f[i - 1] \o b[i]
  BY <1>2 DEF Joined
<1>. DEFINE S == {n \in 1..N : Range(f[n]) = UNION {Range(b[k]) : k \in 1..n}}
<1>. HIDE DEF N
<1>4. 1 \in S
  <2>1. f[1] = b[1]
    BY <1>1, <1>3, Zenon
  <2>2. 1..1 = {1}
    OBVIOUS
  <2>3. UNION {Range(b[k]) : k \in {1}} = Range(b[1])
    OBVIOUS
  <2>4. UNION {Range(b[k]) : k \in 1..1} = Range(b[1])
    BY <2>2, <2>3, Zenon
  <2>. QED BY <1>1, <2>1, <2>4
<1>5. ASSUME NEW n \in 1..N, n \in S, n + 1 \in 1..N
      PROVE  n + 1 \in S
  <2>1. f[n + 1] = f[n] \o b[n + 1] /\ f[n] \in Seq(T) /\ b[n + 1] \in Seq(T)
    <3>1. n + 1 # 1 /\ (n + 1) - 1 = n
      BY <1>1
    <3>. QED BY <1>1, <1>2, <1>3, <1>5, <3>1
  <2>2. Range(f[n + 1]) = Range(f[n]) \cup Range(b[n + 1])
    BY <2>1, RangeOfJoin
  <2>3. 1..(n + 1) = (1..n) \cup {n + 1}
    BY <1>1
  <2>. QED BY <1>5, <2>2, <2>3
<1>6. N \in S
  <2>1. 1..N \subseteq S
    <3>. HIDE DEF S
    <3>. QED BY <1>1, <1>4, <1>5, InductionUpTo
  <2>. QED BY <1>1, <2>1
<1>. QED BY <1>1, <1>2, <1>6 DEF N

-----------------------------------------------------------------------------
(* Part 1: the trampoline pool.                                            *)

ArenasOK ==
  /\ \A i \in DOMAIN arenas : arenas[i].cursor <= PageBytes
  /\ \A i, j \in DOMAIN arenas : i # j => arenas[i].base # arenas[j].base

Within(at, a) == at >= a.base /\ at + TrampolineSize <= a.base + a.cursor
SlotsInArenas == \A k \in DOMAIN slots : \E i \in DOMAIN arenas : Within(slots[k].at, arenas[i])

PoolInv == PoolTypeOK /\ ArenasOK /\ SlotsInArenas /\ SlotsAreDisjoint /\ SlotsAreInReach

LEMMA Advanced ==
  ASSUME NEW a \in Arena, NEW c \in Nat
  PROVE  /\ [a EXCEPT !.cursor = c] \in Arena
         /\ [a EXCEPT !.cursor = c].base = a.base
         /\ [a EXCEPT !.cursor = c].cursor = c
  BY DEF Arena

(* The components of a page and of a slot are numbers. *)
LEMMA Types ==
  ASSUME PoolTypeOK
  PROVE  /\ \A i \in DOMAIN arenas : /\ arenas[i].base \in Bases /\ arenas[i].base \in Int
                                   /\ arenas[i].cursor \in Nat /\ arenas[i] \in Arena
         /\ \A k \in DOMAIN slots : slots[k].at \in Int /\ slots[k].target \in Targets
<1>1. \A i \in DOMAIN arenas : arenas[i] \in Arena
  BY Element DEF PoolTypeOK
<1>2. \A k \in DOMAIN slots : slots[k] \in Slot
  BY Element DEF PoolTypeOK
<1> QED BY <1>1, <1>2, PoolAssumption DEF Arena, Slot

(* The empty pool. *)
LEMMA InitInv == PoolInit => PoolInv
  BY DEF PoolInit, PoolInv, PoolTypeOK, ArenasOK, SlotsInArenas, SlotsAreDisjoint, SlotsAreInReach

(* A slot at the cursor of a page lies behind the slots of that page, and  *)
(* apart from those of the others.                                         *)
LEMMA AtCursor ==
  ASSUME PoolInv, NEW i \in DOMAIN arenas,
         arenas[i].cursor + TrampolineSize <= PageBytes, NEW k \in DOMAIN slots
  PROVE  \/ slots[k].at + TrampolineSize <= arenas[i].base + arenas[i].cursor
         \/ arenas[i].base + arenas[i].cursor + TrampolineSize <= slots[k].at
<1>1. PICK j \in DOMAIN arenas : Within(slots[k].at, arenas[j])
  BY DEF PoolInv, SlotsInArenas
<1>2. /\ arenas[i].base \in Bases /\ arenas[j].base \in Bases
      /\ arenas[i].base \in Int /\ arenas[j].base \in Int
      /\ arenas[i].cursor \in Nat /\ arenas[j].cursor \in Nat /\ slots[k].at \in Int
  BY Types DEF PoolInv
<1>3. CASE i = j
  BY <1>1, <1>3 DEF Within
<1>4. CASE i # j
  <2>1. arenas[i].base # arenas[j].base /\ arenas[j].cursor <= PageBytes
    BY <1>4 DEF PoolInv, ArenasOK
  <2> QED BY <1>1, <1>2, <2>1, PoolAssumption DEF Within
<1> QED BY <1>3, <1>4

(* A slot added apart from the others, in reach, keeps two properties. *)
LEMMA Handed ==
  ASSUME PoolInv, NEW target \in Targets, NEW at \in Int,
         slots' = Append(slots, [at |-> at, target |-> target]),
         inReach(target, at) \/ at = target - Reach,
         \A k \in DOMAIN slots : \/ slots[k].at + TrampolineSize <= at
                                \/ at + TrampolineSize <= slots[k].at
  PROVE  /\ slots' \in Seq(Slot)
         /\ DOMAIN slots' = DOMAIN slots \cup {Len(slots) + 1}
         /\ \A k \in DOMAIN slots : slots'[k] = slots[k]
         /\ slots'[Len(slots) + 1].at = at
         /\ SlotsAreDisjoint' /\ SlotsAreInReach'
<1> DEFINE slot == [at |-> at, target |-> target]
<1>1. slots \in Seq(Slot) /\ slot \in Slot
  BY DEF PoolInv, PoolTypeOK, Slot
<1>2. /\ slots' \in Seq(Slot)
      /\ DOMAIN slots' = DOMAIN slots \cup {Len(slots) + 1}
      /\ Len(slots) + 1 \notin DOMAIN slots
      /\ \A k \in DOMAIN slots : slots'[k] = slots[k]
      /\ slots'[Len(slots) + 1] = slot
  <2> HIDE DEF slot
  <2> QED BY <1>1, Appended DEF slot
<1>3. slots'[Len(slots) + 1].at = at /\ slots'[Len(slots) + 1].target = target
  BY <1>2
<1>4. SlotsAreDisjoint'
  BY <1>2, <1>3 DEF PoolInv, SlotsAreDisjoint
<1>5. SlotsAreInReach'
  BY <1>2, <1>3 DEF PoolInv, SlotsAreInReach, inReach
<1> QED BY <1>2, <1>3, <1>4, <1>5

(* Handing out the next slot of a page. *)
LEMMA ReuseInv ==
  ASSUME PoolInv, NEW target \in Targets, Reuse(target)
  PROVE  PoolInv'
<1>1. PICK i \in DOMAIN arenas :
        /\ Usable(arenas[i], target)
        /\ slots' = Append(slots, [at |-> arenas[i].base + arenas[i].cursor, target |-> target])
        /\ arenas' = [arenas EXCEPT ![i].cursor = @ + TrampolineSize]
  BY DEF Reuse
<1> DEFINE new == arenas[i].base + arenas[i].cursor
           page == [arenas[i] EXCEPT !.cursor = @ + TrampolineSize]
<1>2. /\ arenas[i].base \in Int /\ arenas[i].cursor \in Nat /\ new \in Int
      /\ arenas[i] \in Arena /\ arenas \in Seq(Arena)
  BY Types DEF PoolInv, PoolTypeOK
<1>3. /\ page \in Arena /\ page.base = arenas[i].base
      /\ page.cursor = arenas[i].cursor + TrampolineSize
  <2>1. arenas[i].cursor + TrampolineSize \in Nat
    BY <1>2, PoolAssumption
  <2> QED BY <1>2, <2>1, Advanced
<1>4. /\ arenas' \in Seq(Arena) /\ DOMAIN arenas' = DOMAIN arenas
      /\ arenas'[i] = page
      /\ \A j \in DOMAIN arenas \ {i} : arenas'[j] = arenas[j]
  <2>1. arenas' = [arenas EXCEPT ![i] = page]
    BY <1>1
  <2> HIDE DEF page
  <2> QED BY <2>1, <1>2, <1>3, Changed
<1>5. \A k \in DOMAIN slots : slots[k].at + TrampolineSize <= new \/ new + TrampolineSize <= slots[k].at
  BY <1>1, AtCursor DEF Usable
<1>6. /\ slots' \in Seq(Slot) /\ DOMAIN slots' = DOMAIN slots \cup {Len(slots) + 1}
      /\ \A k \in DOMAIN slots : slots'[k] = slots[k]
      /\ slots'[Len(slots) + 1].at = new
      /\ SlotsAreDisjoint' /\ SlotsAreInReach'
  <2>1. inReach(target, new)
    BY <1>1 DEF Usable
  <2> HIDE DEF new
  <2> QED BY <1>1, <1>2, <1>5, <2>1, Handed DEF new
<1>7. ArenasOK'
  <2>1. \A j \in DOMAIN arenas : arenas'[j].base = arenas[j].base
    BY <1>3, <1>4
  <2>2. \A j \in DOMAIN arenas : arenas'[j].cursor <= PageBytes
    BY <1>1, <1>3, <1>4 DEF PoolInv, ArenasOK, Usable
  <2> QED BY <2>1, <2>2, <1>4 DEF PoolInv, ArenasOK
<1>8. SlotsInArenas'
  <2>1. ASSUME NEW k \in DOMAIN slots
        PROVE  \E j \in DOMAIN arenas' : Within(slots'[k].at, arenas'[j])
    <3>1. PICK j \in DOMAIN arenas : Within(slots[k].at, arenas[j])
      BY DEF PoolInv, SlotsInArenas
    <3>2. slots[k].at \in Int /\ arenas[j].base \in Int /\ arenas[j].cursor \in Nat
      BY Types DEF PoolInv
    <3>3. CASE j = i
      <4>1. arenas'[i].base = arenas[i].base /\ arenas'[i].cursor = arenas[i].cursor + TrampolineSize
        BY <1>3, <1>4
      <4>2. slots'[k].at = slots[k].at /\ i \in DOMAIN arenas'
        BY <1>4, <1>6
      <4>3. Within(slots'[k].at, arenas'[i])
        BY <3>1, <3>2, <3>3, <4>1, <4>2, PoolAssumption DEF Within
      <4> QED BY <4>2, <4>3
    <3>4. CASE j # i
      BY <3>1, <3>4, <1>4, <1>6 DEF Within
    <3> QED BY <3>3, <3>4
  <2>2. Within(new, arenas'[i])
    BY <1>2, <1>3, <1>4, PoolAssumption DEF Within
  <2> QED BY <2>1, <2>2, <1>4, <1>6 DEF SlotsInArenas
<1>9. lost' = lost
  BY DEF Reuse
<1> QED BY <1>4, <1>6, <1>7, <1>8, <1>9 DEF PoolInv, PoolTypeOK

(* Mapping a page and handing out its first slot. *)
Added(target, base) ==
  /\ \A i \in DOMAIN arenas : arenas[i].base # base
  /\ base >= target - Reach /\ base < target + Reach
  /\ arenas' = Append(arenas, [base |-> base, cursor |-> TrampolineSize])
  /\ slots' = Append(slots, [at |-> base, target |-> target])
  /\ lost' = lost
LEMMA AddedInv ==
  ASSUME PoolInv, NEW target \in Targets, NEW base \in Bases, Added(target, base)
  PROVE  PoolInv'
<1> DEFINE page == [base |-> base, cursor |-> TrampolineSize]
<1>1. /\ arenas' = Append(arenas, page)
      /\ slots' = Append(slots, [at |-> base, target |-> target])
      /\ \A i \in DOMAIN arenas : arenas[i].base # base
      /\ base >= target - Reach /\ base < target + Reach /\ lost' = lost
  BY DEF Added
<1>2. /\ arenas \in Seq(Arena) /\ page \in Arena
      /\ base \in Int /\ target \in Int
  BY PoolAssumption DEF PoolInv, PoolTypeOK, Arena
<1>3. /\ arenas' \in Seq(Arena) /\ DOMAIN arenas' = DOMAIN arenas \cup {Len(arenas) + 1}
      /\ Len(arenas) + 1 \notin DOMAIN arenas
      /\ \A i \in DOMAIN arenas : arenas'[i] = arenas[i]
      /\ arenas'[Len(arenas) + 1] = page
  <2> HIDE DEF page
  <2> QED BY <1>1, <1>2, Appended
<1>4. ASSUME NEW k \in DOMAIN slots
      PROVE  slots[k].at + TrampolineSize <= base \/ base + TrampolineSize <= slots[k].at
  <2>1. PICK j \in DOMAIN arenas : Within(slots[k].at, arenas[j])
    BY DEF PoolInv, SlotsInArenas
  <2>2. /\ arenas[j].base \in Bases /\ arenas[j].base \in Int
        /\ arenas[j].cursor \in Nat /\ slots[k].at \in Int
    BY Types DEF PoolInv
  <2>3. arenas[j].base # base /\ arenas[j].cursor <= PageBytes
    BY <1>1 DEF PoolInv, ArenasOK
  <2> QED BY <2>1, <2>2, <2>3, <1>2, PoolAssumption, SMTT(20) DEF Within
<1>5. /\ slots' \in Seq(Slot) /\ DOMAIN slots' = DOMAIN slots \cup {Len(slots) + 1}
      /\ \A k \in DOMAIN slots : slots'[k] = slots[k]
      /\ slots'[Len(slots) + 1].at = base
      /\ SlotsAreDisjoint' /\ SlotsAreInReach'
  <2>1. inReach(target, base) \/ base = target - Reach
    BY <1>1, <1>2, PoolAssumption DEF inReach
  <2> QED BY <1>1, <1>2, <1>4, <2>1, Handed
<1>6. ArenasOK'
  BY <1>1, <1>3, PoolAssumption DEF PoolInv, ArenasOK
<1>7. SlotsInArenas'
  <2>1. Within(base, page)
    BY <1>2, PoolAssumption DEF Within
  <2> QED BY <2>1, <1>3, <1>5 DEF PoolInv, SlotsInArenas
<1> QED BY <1>1, <1>3, <1>5, <1>6, <1>7 DEF PoolInv, PoolTypeOK

LEMMA FreshInv ==
  ASSUME PoolInv, NEW target \in Targets, NEW base \in Bases, Fresh(target, base)
  PROVE  PoolInv'
<1>1. CASE Added(target, base)
  BY <1>1, AddedInv
<1>2. CASE lost' = lost \cup {base} /\ UNCHANGED <<arenas, slots>>
  BY <1>2 DEF PoolInv, PoolTypeOK, ArenasOK, SlotsInArenas, Within, SlotsAreDisjoint, SlotsAreInReach
<1> QED BY <1>1, <1>2 DEF Fresh, Added

(* The pool never hands out a byte twice, and every slot is in reach. *)
THEOREM PoolIsSafe == PoolSpec => []PoolInv
<1>1. PoolInv /\ [PoolNext]_poolVars => PoolInv'
  <2>1. CASE PoolNext
    BY <2>1, ReuseInv, FreshInv DEF PoolNext
  <2>2. ASSUME PoolInv, UNCHANGED poolVars PROVE PoolInv'
    BY <2>2 DEF poolVars, PoolInv, PoolTypeOK, ArenasOK, SlotsInArenas, SlotsAreDisjoint, SlotsAreInReach
  <2> QED BY <2>1, <2>2
<1> QED BY InitInv, <1>1, PTL DEF PoolSpec

(* Slots share no byte and are in reach of their target's branch, in the   *)
(* pool and in every specification that implements it.                     *)
THEOREM SlotsStaySafe == PoolSpec => []SlotsAreSafe
<1>1. PoolInv => SlotsAreSafe
  BY DEF PoolInv, SlotsAreSafe
<1> QED BY <1>1, PoolIsSafe, PTL

-----------------------------------------------------------------------------
(* Part 2: the owners of the pages.                                        *)

GivenPages == {g.page : g \in given}
Shared == {arenas[i].base : i \in DOMAIN arenas}

(* Of a search only its mode and its target matter here. *)
FarModes == {"linux", "hints", "windows"}
NearModes == {"up", "hole", "down"}
SearchOK ==
  \/ search = Idle
  \/ /\ search.mode \in FarModes \cup NearModes
     /\ search.target \in Targets
     /\ search.mode \in NearModes =>
          platform = "darwin" /\ Len(slots) < MaxSlots /\ MustMap(search.target)

(* A page has one owner: the rest of the process, a patch in effect, the   *)
(* list of retired pages, or the pool, which may lose it.                  *)
OneOwner ==
  /\ others \cup mine \cup retired \subseteq Bases
  /\ mine \cap others = {}
  /\ mine = GivenPages \cup retired \cup Shared \cup lost
  /\ GivenPages \cap (retired \cup Shared \cup lost) = {}
  /\ retired \cap (Shared \cup lost) = {}
  /\ Shared \cap lost = {} /\ (lost # {} => platform = "darwin")
  /\ \A g, h \in given : g.page = h.page => g = h

Owned == <<arenas, lost, platform, others, mine, given, retired>>

NearInv == SearchOK /\ OneOwner

LEMMA IdleMode == Idle.mode = "idle"
BY DEF Idle

(* The initial state. *)
LEMMA NearInit == Init => NearInv
<1> SUFFICES ASSUME Init PROVE NearInv
  OBVIOUS
<1>1. others \subseteq Bases
  BY NearAssumption DEF Init
<1>2. Shared = {} /\ GivenPages = {}
  BY DEF Init, PoolInit, Shared, GivenPages
<1> QED BY <1>1, <1>2 DEF Init, PoolInit, NearInv, SearchOK, OneOwner

(* Nothing owned changes. *)
LEMMA SameOwners ==
  ASSUME OneOwner, UNCHANGED Owned
  PROVE  OneOwner'
BY DEF OneOwner, Owned, GivenPages, Shared

(* A free page is given to a patch. *)
LEMMA KeepsOne ==
  ASSUME OneOwner, NEW page \in Free, Keeps(page), UNCHANGED <<arenas, lost, platform, others, retired>>
  PROVE  NearInv'
<1>1. page \in Bases /\ page \notin others /\ page \notin mine
  BY DEF Free
<1>2. /\ mine' = mine \cup {page} /\ search' = Idle
      /\ given' = given \cup {[page |-> page, target |-> search.target]}
  BY DEF Keeps
<1>3. GivenPages' = GivenPages \cup {page} /\ Shared' = Shared
  <2> DEFINE g == [page |-> page, target |-> search.target]
  <2>1. given' = given \cup {g} /\ g.page = page
    BY <1>2
  <2>2. GivenPages' = GivenPages \cup {page}
    <3> HIDE DEF g
    <3> QED BY <2>1 DEF GivenPages
  <2>3. Shared' = Shared
    BY DEF Shared
  <2> QED BY <2>2, <2>3
<1>4. \A g \in given : g.page # page
  BY <1>1 DEF OneOwner, GivenPages
<1>5. \A g, h \in given' : g.page = h.page => g = h
  BY <1>2, <1>4 DEF OneOwner
<1>6. OneOwner'
  <2> HIDE DEF GivenPages, Shared
  <2> QED BY <1>1, <1>2, <1>3, <1>5 DEF OneOwner
<1> QED BY <1>2, <1>6, IdleMode DEF NearInv, SearchOK

(* The next hint, or the hints instead of linux's search, keep the target. *)
LEMMA SearchGoesOn ==
  ASSUME NearInv, search.mode \in FarModes, NextHint \/ OnlyHints
  PROVE  SearchOK'
<1>1. search.target \in Targets
  BY IdleMode DEF NearInv, SearchOK, FarModes
<1>2. CASE NextHint
  <2>1. search'.mode \in FarModes /\ search'.target \in Targets
    BY <1>1, <1>2 DEF NextHint
  <2> QED BY <2>1 DEF SearchOK, FarModes, NearModes
<1>3. CASE OnlyHints
  <2>1. search'.mode = "hints" /\ search'.target \in Targets
    BY <1>1, <1>3 DEF OnlyHints, Search
  <2> QED BY <2>1 DEF SearchOK, FarModes, NearModes
<1> QED BY <1>2, <1>3

(* An attempt keeps the page it got, or goes on without it. *)
LEMMA Attempt ==
  ASSUME NearInv, search.mode \in FarModes, NEW page \in Free, NEW reachable,
         KeepIf(reachable, page), UNCHANGED <<arenas, lost, platform, others, retired>>
  PROVE  NearInv'
<1>1. CASE reachable
  BY <1>1, KeepsOne DEF KeepIf, NearInv
<1>2. CASE ~reachable
  <2>1. NextHint /\ UNCHANGED Owned
    BY <1>2 DEF KeepIf, GivesBack, Fails, Owned
  <2> QED BY <2>1, SearchGoesOn, SameOwners DEF NearInv
<1> QED BY <1>1, <1>2

LEMMA PlacedIsFree == Placed \subseteq Free
BY DEF Placed

(* A patch that is undone at once gives its page back; one that took       *)
(* effect leaves it to the retired pages.                                  *)
LEMMA ReleaseInv ==
  ASSUME NearInv, ReleasePage
  PROVE  NearInv'
<1>1. PICK g \in given : /\ given' = given \ {g}
                         /\ mine' = mine \ {g.page}
                         /\ Freed({g.page})
  BY DEF ReleasePage
<1>2. search' = search /\ slots' = slots /\ arenas' = arenas /\ retired' = retired
      /\ lost' = lost /\ platform' = platform
  BY DEF ReleasePage, poolVars
<1>3. GivenPages' = GivenPages \ {g.page} /\ Shared' = Shared
  BY <1>1, <1>2 DEF GivenPages, Shared, NearInv, OneOwner
<1>4. g.page \in GivenPages
  BY DEF GivenPages
<1>5. others' \subseteq others \cup {g.page} /\ g.page \in Bases
  BY <1>1, <1>4 DEF Freed, NearInv, OneOwner
<1>6. \A h, k \in given' : h.page = k.page => h = k
  BY <1>1 DEF NearInv, OneOwner
<1>7. OneOwner'
  <2> HIDE DEF GivenPages, Shared
  <2> QED BY <1>1, <1>2, <1>3, <1>4, <1>5, <1>6 DEF NearInv, OneOwner
<1> QED BY <1>2, <1>7 DEF NearInv, SearchOK, MustMap

LEMMA UnpatchInv ==
  ASSUME NearInv, Unpatch
  PROVE  NearInv'
<1>1. PICK g \in given : given' = given \ {g} /\ retired' = retired \cup {g.page}
  BY DEF Unpatch
<1>2. search' = search /\ slots' = slots /\ arenas' = arenas /\ mine' = mine /\ others' = others
      /\ lost' = lost /\ platform' = platform
  BY DEF Unpatch, poolVars
<1>3. GivenPages' = GivenPages \ {g.page} /\ Shared' = Shared
  BY <1>1, <1>2 DEF GivenPages, Shared, NearInv, OneOwner
<1>4. g.page \in GivenPages
  BY DEF GivenPages
<1>5. \A h, k \in given' : h.page = k.page => h = k
  BY <1>1 DEF NearInv, OneOwner
<1>6. OneOwner'
  <2> HIDE DEF GivenPages, Shared
  <2> QED BY <1>1, <1>2, <1>3, <1>4, <1>5 DEF NearInv, OneOwner
<1> QED BY <1>2, <1>6 DEF NearInv, SearchOK, MustMap

(* A page of the pool keeps its place when a slot of it is handed out. *)
LEMMA ReuseKeepsPages ==
  ASSUME NEW t, Reuse(t)
  PROVE  /\ DOMAIN arenas' = DOMAIN arenas
         /\ \A i \in DOMAIN arenas : arenas'[i].base = arenas[i].base
BY DEF Reuse

(* A fresh page of the pool, and one that is lost to it. *)
LEMMA FoundInv ==
  ASSUME NearInv, PoolInv, search.mode \in NearModes, NEW page \in Free, Found(page),
         UNCHANGED <<platform, others, given, retired>>
  PROVE  NearInv'
<1>1. page \in Bases /\ page \notin others /\ page \notin mine
  BY DEF Free
<1>2. mine' = mine \cup {page} /\ search' = Idle
  BY DEF Found
<1>3. GivenPages' = GivenPages
  BY DEF GivenPages
<1>4. platform = "darwin"
  BY IdleMode DEF NearInv, SearchOK, NearModes
<1>5. \/ Shared' = Shared \cup {page} /\ lost' = lost
      \/ Shared' = Shared /\ lost' = lost \cup {page}
  <2>1. CASE AddArena(page, TrampolineSize)
    <3> DEFINE a == [base |-> page, cursor |-> TrampolineSize]
    <3>1. a \in Arena /\ a.base = page /\ arenas \in Seq(Arena)
      BY <1>1, PoolAssumption DEF Arena, PoolInv, PoolTypeOK
    <3>2. arenas' = Append(arenas, a)
      BY <2>1 DEF AddArena
    <3>3. /\ DOMAIN arenas' = DOMAIN arenas \cup {Len(arenas) + 1}
          /\ \A i \in DOMAIN arenas : arenas'[i] = arenas[i]
          /\ arenas'[Len(arenas) + 1] = a
      <4> HIDE DEF a
      <4> QED BY <3>1, <3>2, Appended
    <3> HIDE DEF a
    <3> QED BY <2>1, <3>1, <3>3 DEF Shared, AddArena
  <2>2. CASE Lose(page)
    BY <2>2 DEF Lose, Shared
  <2> QED BY <2>1, <2>2 DEF Found
<1>6. OneOwner'
  <2> HIDE DEF GivenPages, Shared
  <2> QED BY <1>1, <1>2, <1>3, <1>4, <1>5 DEF NearInv, OneOwner
<1> QED BY <1>2, <1>6 DEF NearInv, SearchOK

(* A search for the pool goes on: the pool stays as it is, and needs a page *)
(* for the target as before.                                               *)
LEMMA StaysNear ==
  ASSUME NearInv, search.mode \in NearModes,
         search'.mode \in NearModes, search'.target = search.target,
         UNCHANGED <<Owned, slots>>
  PROVE  NearInv'
<1>1. /\ search.target \in Targets /\ platform = "darwin"
      /\ Len(slots) < MaxSlots /\ MustMap(search.target)
  BY IdleMode DEF NearInv, SearchOK, NearModes
<1>2. arenas' = arenas /\ slots' = slots /\ platform' = platform
  BY DEF Owned
<1>3. MustMap(search.target)'
  BY <1>1, <1>2 DEF MustMap, Usable, inReach
<1> QED BY <1>1, <1>2, <1>3, SameOwners DEF NearInv, SearchOK

(* An attempt that fails leaves the pages as they are. *)
LEMMA FailsInv ==
  ASSUME NearInv, search.mode \in FarModes, (NextHint \/ OnlyHints) /\ GivesBack,
         UNCHANGED <<arenas, lost, platform, others, retired>>
  PROVE  NearInv'
<1>1. UNCHANGED Owned
  BY DEF GivesBack, Owned
<1> QED BY <1>1, SearchGoesOn, SameOwners DEF NearInv

(* Every step of the search and of the rest of the process. *)
LEMMA NearStep ==
  ASSUME NearInv, PoolInv, Next
  PROVE  NearInv'
<1>1. ASSUME NEW t \in Targets, AllocatePageNear(t) PROVE NearInv'
  <2>1. search'.mode \in FarModes /\ search'.target = t /\ UNCHANGED Owned
    BY <1>1 DEF AllocatePageNear, Search, FarModes, Owned, poolVars
  <2> QED BY <2>1, SameOwners DEF NearInv, SearchOK, FarModes, NearModes
<1>2. ASSUME NEW t \in Targets, AllocTrampoline(t) PROVE NearInv'
  <2>1. CASE MustMap(t)
    <3>1. /\ search' = [mode |-> "up", target |-> t, at |-> t]
          /\ platform = "darwin" /\ Len(slots) < MaxSlots /\ UNCHANGED <<Owned, slots>>
      BY <1>2, <2>1 DEF AllocTrampoline, Owned, poolVars
    <3>2. arenas' = arenas /\ platform' = platform /\ search'.target = t
      BY <3>1 DEF Owned
    <3>3. MustMap(search.target)'
      BY <2>1, <3>2 DEF MustMap, Usable, inReach
    <3>4. SearchOK'
      BY <3>1, <3>2, <3>3 DEF SearchOK, NearModes
    <3> QED BY <3>1, <3>4, SameOwners DEF NearInv
  <2>2. CASE ~MustMap(t)
    <3>1. Reuse(t) /\ search' = search /\ search = Idle
          /\ UNCHANGED <<platform, others, mine, given, retired>>
      BY <1>2, <2>2 DEF AllocTrampoline
    <3>2. Shared' = Shared
      BY <3>1, ReuseKeepsPages DEF Shared
    <3>3. GivenPages' = GivenPages /\ lost' = lost
      BY <3>1 DEF GivenPages, Reuse
    <3> HIDE DEF GivenPages, Shared
    <3> QED BY <3>1, <3>2, <3>3 DEF NearInv, SearchOK, OneOwner
  <2> QED BY <2>1, <2>2
<1>3. CASE TryFixed
  <2>1. search.mode \in FarModes /\ UNCHANGED <<arenas, lost, platform, others, retired>>
    BY <1>3 DEF TryFixed, Trying, FarModes, Rest, poolVars
  <2>2. CASE (NextHint \/ OnlyHints) /\ GivesBack
    BY <2>1, <2>2, FailsInv
  <2>3. ASSUME NEW page \in Free, TakeAt(page) PROVE NearInv'
    BY <2>1, <2>3, Attempt DEF TakeAt
  <2> QED BY <1>3, <2>2, <2>3, PlacedIsFree DEF TryFixed, Fails
<1>4. CASE TryHint
  <2>1. search.mode \in FarModes /\ UNCHANGED <<arenas, lost, platform, others, retired>>
    BY <1>4 DEF TryHint, Trying, FarModes, Rest, poolVars
  <2>2. CASE Fails
    BY <2>1, <2>2, FailsInv DEF Fails
  <2>3. ASSUME NEW page \in Free, KeepIf(BothEnds(search.target, page), page)
        PROVE  NearInv'
    BY <2>1, <2>3, Attempt
  <2> QED BY <1>4, <2>2, <2>3, PlacedIsFree DEF TryHint
<1>5. CASE TryVirtualAlloc
  <2>1. search.mode \in FarModes /\ UNCHANGED <<arenas, lost, platform, retired>>
    BY <1>5 DEF TryVirtualAlloc, Trying, FarModes, poolVars
  <2>2. CASE Fails /\ UNCHANGED others
    BY <2>1, <2>2, FailsInv DEF Fails
  <2>3. CASE Hint \in Free /\ Keeps(Hint) /\ UNCHANGED others
    BY <2>1, <2>3, KeepsOne DEF NearInv
  <2>4. CASE Hint \in Free /\ Fails /\ Freed({Hint})
    <3>1. NextHint /\ GivesBack /\ others' \subseteq others \cup Free
      BY <2>4 DEF Fails, Freed
    <3>2. UNCHANGED <<arenas, lost, platform, mine, given, retired>> /\ Free \subseteq Bases \ mine
      BY <2>1, <3>1 DEF GivesBack, Free
    <3>3. OneOwner'
      BY <3>1, <3>2 DEF NearInv, OneOwner, GivenPages, Shared
    <3> QED BY <2>1, <3>1, <3>3, SearchGoesOn DEF NearInv
  <2> QED BY <1>5, <2>2, <2>3, <2>4 DEF TryVirtualAlloc
<1>6. CASE NotFound
  BY <1>6, SameOwners DEF NotFound, NearInv, SearchOK, Owned, Rest, poolVars
<1>7. CASE ReleasePage
  BY <1>7, ReleaseInv
<1>8. CASE Unpatch
  BY <1>8, UnpatchInv
<1>9. CASE WalkRegion
  <2>1. /\ search'.mode \in NearModes /\ search'.target = search.target
        /\ search.mode = "up" /\ UNCHANGED <<Owned, slots>>
    BY <1>9 DEF WalkRegion, Up, Down, Below, NearModes, Owned, Rest, poolVars
  <2> QED BY <2>1, StaysNear DEF NearModes
<1>10. CASE ClaimHole
  <2>1. search.mode \in NearModes /\ UNCHANGED <<platform, others, given, retired>>
    BY <1>10 DEF ClaimHole, Settled, NearModes
  <2>2. CASE search.at \in Free /\ Found(search.at)
    BY <2>1, <2>2, FoundInv
  <2>3. CASE search' = Up(search.end) /\ UNCHANGED <<mine, poolVars>>
    <3>1. /\ search'.mode \in NearModes /\ search'.target = search.target
          /\ UNCHANGED <<Owned, slots>>
      BY <2>1, <2>3 DEF Up, poolVars, Owned, NearModes
    <3> QED BY <2>1, <3>1, StaysNear
  <2> QED BY <1>10, <2>2, <2>3 DEF ClaimHole
<1>11. CASE ProbeBelow
  <2>1. search.mode \in NearModes /\ UNCHANGED <<platform, others, given, retired>>
    BY <1>11 DEF ProbeBelow, Settled, NearModes
  <2>2. CASE search.at \in Free /\ Found(search.at)
    BY <2>1, <2>2, FoundInv
  <2>3. CASE search' = Below(search.at - PageBytes) /\ UNCHANGED <<mine, poolVars>>
    <3>1. /\ search'.mode \in NearModes /\ search'.target = search.target
          /\ UNCHANGED <<Owned, slots>>
      BY <2>1, <2>3 DEF Below, poolVars, Owned, NearModes
    <3> QED BY <2>1, <3>1, StaysNear
  <2>4. CASE search' = Idle /\ UNCHANGED <<mine, poolVars>>
    <3>1. UNCHANGED Owned
      BY <2>1, <2>4 DEF Owned, poolVars
    <3> QED BY <2>4, <3>1, SameOwners DEF NearInv, SearchOK
  <2> QED BY <1>11, <2>2, <2>3, <2>4 DEF ProbeBelow
<1>12. CASE Noise
  <2>1. /\ UNCHANGED <<arenas, slots, lost, platform, mine, given, retired, search>>
        /\ others' \subseteq others \cup Free
    BY <1>12 DEF Noise, poolVars
  <2>2. Free \subseteq Bases \ mine
    BY DEF Free
  <2>3. SearchOK'
    BY <2>1 DEF NearInv, SearchOK, MustMap, Usable, inReach
  <2>4. OneOwner'
    BY <2>1, <2>2 DEF NearInv, OneOwner, GivenPages, Shared
  <2> QED BY <2>3, <2>4 DEF NearInv
<1> QED BY <1>1, <1>2, <1>3, <1>4, <1>5, <1>6, <1>7, <1>8, <1>9, <1>10, <1>11, <1>12 DEF Next

LEMMA NearStutter ==
  ASSUME NearInv, UNCHANGED vars
  PROVE  NearInv'
<1>1. SearchOK'
  BY DEF vars, poolVars, NearInv, SearchOK, MustMap, Usable, inReach
<1>2. OneOwner'
  BY DEF vars, poolVars, NearInv, OneOwner, GivenPages, Shared
<1> QED BY <1>1, <1>2 DEF NearInv

(* A page that is found is one that the pool can use and has not got: the  *)
(* pages it has, and those it lost, are mockey's and not free.             *)
LEMMA FoundIsFresh ==
  ASSUME NearInv, NEW page \in Free, search.mode \in NearModes, Found(page)
  PROVE  Fresh(search.target, page)
<1>1. MustMap(search.target) /\ search.target \in Targets
  BY IdleMode DEF NearInv, SearchOK, NearModes
<1>2. page \notin lost /\ \A i \in DOMAIN arenas : arenas[i].base # page
  BY DEF Free, NearInv, OneOwner, Shared
<1>3. page >= Lo => page >= search.target - Reach
  <2>1. page \in Int /\ search.target \in Int /\ Reach \in Nat
    BY <1>1, PoolAssumption DEF Free
  <2> QED BY <2>1 DEF Lo
<1> QED BY <1>1, <1>2, <1>3 DEF Found, Fresh, AddArena, Lose, Hi

(* Every step of the search is a step of the pool or leaves it alone. *)
LEMMA PoolStep ==
  ASSUME NearInv, [Next]_vars
  PROVE  [PoolNext]_poolVars
<1>2. ASSUME NEW t \in Targets, AllocTrampoline(t) PROVE [PoolNext]_poolVars
  BY <1>2 DEF AllocTrampoline, PoolNext, poolVars
<1>3. ASSUME NEW page \in Free, search.mode \in NearModes, Found(page) PROVE [PoolNext]_poolVars
  <2>1. Fresh(search.target, page) /\ page \in Bases
    BY <1>3, FoundIsFresh DEF Free
  <2>2. search.target \in Targets /\ Len(slots) < MaxSlots
    BY <1>3, IdleMode DEF NearInv, SearchOK, NearModes
  <2> QED BY <2>1, <2>2 DEF PoolNext
<1>4. CASE ClaimHole
  BY <1>3, <1>4 DEF ClaimHole, NearModes
<1>5. CASE ProbeBelow
  BY <1>3, <1>5 DEF ProbeBelow, NearModes
<1>6. CASE WalkRegion \/ NotFound \/ TryFixed \/ TryHint
  BY <1>6 DEF WalkRegion, NotFound, TryFixed, TryHint, Rest, poolVars
<1>7. CASE TryVirtualAlloc \/ ReleasePage \/ Unpatch \/ Noise
  BY <1>7 DEF TryVirtualAlloc, ReleasePage, Unpatch, Noise, poolVars
<1>8. ASSUME NEW t \in Targets, AllocatePageNear(t) PROVE [PoolNext]_poolVars
  BY <1>8 DEF AllocatePageNear, poolVars
<1>9. CASE UNCHANGED vars
  BY <1>9 DEF vars, poolVars
<1> QED BY <1>2, <1>4, <1>5, <1>6, <1>7, <1>8, <1>9 DEF Next

LEMMA PoolKept ==
  ASSUME PoolInv, [PoolNext]_poolVars
  PROVE  PoolInv'
<1>1. CASE PoolNext
  BY <1>1, ReuseInv, FreshInv DEF PoolNext
<1>2. CASE UNCHANGED poolVars
  BY <1>2 DEF poolVars, PoolInv, PoolTypeOK, ArenasOK, SlotsInArenas, SlotsAreDisjoint, SlotsAreInReach
<1> QED BY <1>1, <1>2

(* The pool's invariant and the owners of the pages, together. *)
THEOREM NearIsSafe == Spec => [](NearInv /\ PoolInv)
<1>1. Init => NearInv /\ PoolInv
  BY NearInit, InitInv DEF Init
<1>2. NearInv /\ PoolInv /\ [Next]_vars => (NearInv /\ PoolInv)'
  BY NearStep, NearStutter, PoolStep, PoolKept
<1> QED BY <1>1, <1>2, PTL DEF Spec

(* The search behind AllocTrampoline is one way to get the pool its pages. *)
THEOREM SearchImplementsPool == Spec => ImplementsPool
<1>1. Init => P!PoolInit
  BY DEF Init, PoolInit, P!PoolInit
<1>2. NearInv /\ [Next]_vars => [P!PoolNext]_(P!poolVars)
  BY PoolStep DEF PoolNext, poolVars, Reuse, Fresh, MustMap, Usable, inReach,
       P!PoolNext, P!poolVars, P!Reuse, P!Fresh, P!MustMap, P!Usable, P!inReach
<1> QED BY <1>1, <1>2, NearIsSafe, PTL DEF Spec, ImplementsPool, P!PoolSpec

(* No page is lost or taken from the rest of the process. *)
THEOREM PagesStayAccountedFor == Spec => []PagesAreAccountedFor
<1>1. NearInv /\ PoolInv => PagesAreAccountedFor
  <2> SUFFICES ASSUME NearInv, PoolInv PROVE PagesAreAccountedFor
    OBVIOUS
  <2>1. PoolTypeOK /\ (search = Idle \/ search.target \in Targets)
    BY DEF NearInv, SearchOK, PoolInv
  <2>2. TypeOK
    BY <2>1 DEF TypeOK, NearInv, OneOwner
  <2> QED BY <2>2 DEF PagesAreAccountedFor, NearInv, OneOwner, GivenPages, Shared
<1> QED BY <1>1, NearIsSafe, PTL
-----------------------------------------------------------------------------
(* Part 3: the distances that are tried.                                   *)

(* The pages hinted at for a set of distances. *)
HintSet(t, ds) ==
  {PageOf(t + d) : d \in {e \in ds : t + e < Space}} \cup
  {PageOf(t - d) : d \in {e \in ds : e <= t}}

LEMMA PageOfType ==
  ASSUME NEW a \in Int
  PROVE  PageOf(a) \in Int /\ PageOf(a) <= a /\ a < PageOf(a) + PageBytes
<1>1. PageBytes \in Nat \ {0}
  BY PoolAssumption
<1>2. ASSUME NEW Bytes \in Nat \ {0}
      PROVE  Bytes * (a \div Bytes) \in Int /\ Bytes * (a \div Bytes) <= a /\ a < Bytes * (a \div Bytes) + Bytes
  <2>. DEFINE q == a \div Bytes
              r == a % Bytes
  <2>1. q \in Int /\ r \in 0..(Bytes - 1) /\ a = Bytes * q + r
    BY Z3
  <2>. HIDE DEF q, r
  <2>2. Bytes * q \in Int
    BY <2>1
  <2>3. \A m \in Int : a = m + r => m <= a /\ a < m + Bytes
    BY <2>1
  <2>. QED BY <2>1, <2>2, <2>3 DEF q
<1>. QED BY <1>1, <1>2 DEF PageOf

(* Hints tries every distance above the target and below it.               *)
LEMMA HintMembers ==
  ASSUME NEW t \in Int, NEW offsets \in Seq(Int)
  PROVE  /\ Hints(t, offsets) \in Seq(Int)
         /\ Range(Hints(t, offsets)) = HintSet(t, Range(offsets))
<1>. DEFINE n == Len(offsets)
            Above(d) == IF t + d < Space THEN <<PageOf(t + d)>> ELSE << >>
            Below1(d) == IF d > t THEN << >> ELSE <<PageOf(t - d)>>
            b == [k \in 1 .. 2 * n |-> nearHint(t, offsets[(k + 1) \div 2], k % 2 = 1)]
<1>1. n \in Nat /\ DOMAIN offsets = 1..n /\ \A i \in 1..n : offsets[i] \in Int
  OBVIOUS
<1>2. ASSUME NEW k \in 1 .. 2 * n
      PROVE  /\ (k + 1) \div 2 \in 1..n
             /\ b[k] = IF k % 2 = 1 THEN Above(offsets[(k + 1) \div 2])
                                    ELSE Below1(offsets[(k + 1) \div 2])
  <2>1. (k + 1) \div 2 \in 1..n
    BY <1>1
  <2>. QED BY <2>1 DEF nearHint
<1>3. ASSUME NEW i \in 1..n
      PROVE  /\ 2 * i - 1 \in 1 .. 2 * n /\ b[2 * i - 1] = Above(offsets[i])
             /\ 2 * i \in 1 .. 2 * n /\ b[2 * i] = Below1(offsets[i])
  <2>1. /\ 2 * i - 1 \in 1 .. 2 * n /\ 2 * i \in 1 .. 2 * n
        /\ ((2 * i - 1) + 1) \div 2 = i /\ (2 * i - 1) % 2 = 1
        /\ (2 * i + 1) \div 2 = i /\ (2 * i) % 2 = 0
    BY <1>1
  <2>. HIDE DEF b, Above, Below1
  <2>. QED BY <1>2, <2>1
<1>4. ASSUME NEW d \in Int
      PROVE  /\ Above(d) \in Seq(Int) /\ Below1(d) \in Seq(Int)
             /\ \A x : x \in Range(Above(d)) <=> t + d < Space /\ x = PageOf(t + d)
             /\ \A x : x \in Range(Below1(d)) <=> d <= t /\ x = PageOf(t - d)
  <2>1. PageOf(t + d) \in Int /\ PageOf(t - d) \in Int
    BY PageOfType
  <2>2. \A x : Range(<<x>>) = {x} /\ Range(<< >>) = {}
    BY DEF Range
  <2>3. \A x \in Int : <<x>> \in Seq(Int) /\ << >> \in Seq(Int)
    OBVIOUS
  <2>4. d > t <=> ~(d <= t)
    OBVIOUS
  <2>. HIDE DEF PageOf
  <2>. QED BY <2>1, <2>2, <2>3, <2>4
<1>5. Hints(t, offsets) = FlattenSeq(b)
  BY DEF Hints
<1>. HIDE DEF Above, Below1
<1>6. b \in Seq(Seq(Int)) /\ Len(b) = 2 * n
  <2>1. ASSUME NEW k \in 1 .. 2 * n PROVE b[k] \in Seq(Int)
    <3>. DEFINE i == (k + 1) \div 2
    <3>1. i \in 1..n /\ (b[k] = Above(offsets[i]) \/ b[k] = Below1(offsets[i]))
      BY <1>2
    <3>. HIDE DEF b, i, n
    <3>2. offsets[i] \in Int
      BY <1>1, <3>1
    <3>. QED BY <1>4, <3>1, <3>2
  <2>2. 2 * n \in Nat /\ b = [k \in 1 .. 2 * n |-> b[k]]
    BY <1>1
  <2>. HIDE DEF b
  <2>. QED BY <2>1, <2>2
<1>. HIDE DEF b
<1>7. CASE n = 0
  <2>1. Len(b) = 0 /\ FlattenSeq(b) = b /\ b = << >>
    BY <1>6, <1>7 DEF FlattenSeq
  <2>2. Range(offsets) = {} /\ Range(<< >>) = {}
    BY <1>1, <1>7 DEF Range
  <2>3. HintSet(t, {}) = {}
    BY DEF HintSet
  <2>4. << >> \in Seq(Int)
    OBVIOUS
  <2>. HIDE DEF n
  <2>5. Hints(t, offsets) = << >>
    BY <1>5, <2>1
  <2>. QED BY <2>2, <2>3, <2>4, <2>5
<1>8. CASE n # 0
  <2>1. Len(b) > 0
    BY <1>1, <1>6, <1>8
  <2>2. /\ FlattenSeq(b) \in Seq(Int)
        /\ Range(FlattenSeq(b)) = UNION {Range(b[k]) : k \in 1..Len(b)}
    BY <1>6, <2>1, FlattenMembers, Zenon
  <2>3. ASSUME NEW k \in 1 .. 2 * n, NEW x \in Range(b[k])
        PROVE  x \in HintSet(t, Range(offsets))
    <3>1. PICK d \in Range(offsets) \cap Int : b[k] = Above(d) \/ b[k] = Below1(d)
      BY <1>1, <1>2 DEF Range
    <3>2. \/ t + d < Space /\ x = PageOf(t + d)
          \/ d <= t /\ x = PageOf(t - d)
      BY <1>4, <2>3, <3>1
    <3>. QED BY <3>1, <3>2 DEF HintSet
  <2>4. ASSUME NEW d \in Range(offsets)
        PROVE  \E k, l \in 1 .. 2 * n : b[k] = Above(d) /\ b[l] = Below1(d)
    BY <1>1, <1>3 DEF Range
  <2>5. Range(offsets) \subseteq Int
    BY <1>1 DEF Range
  <2>6. ASSUME NEW x \in HintSet(t, Range(offsets))
        PROVE  \E k \in 1 .. 2 * n : x \in Range(b[k])
    <3>1. PICK d \in Range(offsets) : \/ t + d < Space /\ x = PageOf(t + d)
                                      \/ d <= t /\ x = PageOf(t - d)
      BY DEF HintSet
    <3>2. x \in Range(Above(d)) \/ x \in Range(Below1(d))
      <4>1. d \in Int
        BY <2>5
      <4>. HIDE DEF n
      <4>. QED BY <1>4, <3>1, <4>1
    <3>. QED BY <2>4, <3>2
  <2>. HIDE DEF n
  <2>. QED BY <1>5, <1>6, <2>2, <2>3, <2>6
<1>. QED BY <1>7, <1>8

(* The distances of linux are the multiples of the step that leave room    *)
(* for a page within the reach.                                            *)
LinuxSteps == (Reach - 2 - PageBytes) \div SearchStep
Distances == {d \in Nat : d > 0 /\ d % SearchStep = 0 /\ d + PageBytes < Reach - 1}

LEMMA Multiples ==
  ASSUME NEW S \in Nat \ {0}, NEW M \in Int
  PROVE  {k * S : k \in 1 .. (M \div S)} = {d \in Nat : d > 0 /\ d % S = 0 /\ d <= M}
<1>. DEFINE q == M \div S
            r == M % S
<1>1. q \in Int /\ r \in 0..(S - 1) /\ M = S * q + r
  BY Z3
<1>2. ASSUME NEW k \in 1..q
      PROVE  k * S \in Nat /\ k * S > 0 /\ (k * S) % S = 0 /\ k * S <= M
  <2>. HIDE DEF q, r
  <2>1. k \in Nat \ {0} /\ q - k \in Nat
    BY <1>1
  <2>2. \A a, b \in Nat : a * b \in Nat
    BY Z3
  <2>3. k * S \in Nat /\ k * S > 0
    <3>1. k * S \in Nat
      BY <2>1, <2>2
    <3>2. (k - 1) * S \in Nat /\ k * S = (k - 1) * S + S
      BY <2>1, Z3
    <3>. QED BY <3>1, <3>2
  <2>4. (k * S) % S = 0
    BY <2>1, Z3
  <2>5. k * S <= M
    <3>1. (q - k) * S \in Nat
      BY <2>1, <2>2
    <3>2. S * q = (q - k) * S + k * S
      BY <1>1, <2>1, Z3
    <3>3. S * q \in Int
      BY <1>1, Z3
    <3>4. \A m \in Int : M = m + r => m <= M
      BY <1>1
    <3>. QED BY <1>1, <2>3, <3>1, <3>2, <3>3, <3>4
  <2>. QED BY <2>3, <2>4, <2>5
<1>3. ASSUME NEW d \in Nat, d > 0, d % S = 0, d <= M
      PROVE  \E k \in 1..q : d = k * S
  <2>. DEFINE k == d \div S
  <2>1. k \in Int /\ d = S * k
    BY <1>3, Z3
  <2>. HIDE DEF q, r, k
  <2>2. k > 0
    BY <1>3, <2>1, Z3
  <2>3. k <= q
    <3>. SUFFICES ASSUME k >= q + 1 PROVE FALSE
      BY <1>1, <2>1
    <3>1. k - q - 1 \in Nat /\ (k - q - 1) * S \in Nat
      BY <1>1, <2>1, Z3
    <3>2. S * k = (k - q - 1) * S + S * q + S
      BY <1>1, <2>1, Z3
    <3>3. S * q \in Int
      BY <1>1, Z3
    <3>. QED BY <1>1, <1>3, <2>1, <3>1, <3>2, <3>3
  <2>4. d = k * S
    BY <2>1, Z3
  <2>. QED BY <1>1, <2>1, <2>2, <2>3, <2>4
<1>. HIDE DEF q, r
<1>4. {k * S : k \in 1..q} = {d \in Nat : d > 0 /\ d % S = 0 /\ d <= M}
  BY <1>2, <1>3
<1>. QED BY <1>4 DEF q

LEMMA LinuxMembers ==
  ASSUME NEW t \in Int
  PROVE  /\ LinuxHints(t) \in Seq(Int)
         /\ Range(LinuxHints(t)) = HintSet(t, Distances)
<1>1. Reach \in Nat /\ PageBytes \in Nat /\ SearchStep \in Nat \ {0} /\ Reach - 2 - PageBytes \in Int
  BY PoolAssumption, GridAssumption
<1>2. {k * SearchStep : k \in 1..LinuxSteps} = Distances
  <2>. DEFINE M == Reach - 2 - PageBytes
  <2>1. {k * SearchStep : k \in 1 .. (M \div SearchStep)}
          = {d \in Nat : d > 0 /\ d % SearchStep = 0 /\ d <= M}
    <3>. HIDE DEF M
    <3>. QED BY <1>1, Multiples DEF M
  <2>2. \A d \in Nat : d <= M <=> d + PageBytes < Reach - 1
    BY <1>1
  <2>. QED BY <2>1, <2>2 DEF Distances, LinuxSteps
<1>3. LinuxSteps \in Int /\ \A k \in 1..LinuxSteps : k * SearchStep \in Int
  <2>1. LinuxSteps \in Int
    BY <1>1, Z3 DEF LinuxSteps
  <2>2. \A k \in 1..LinuxSteps : k * SearchStep \in Distances
    BY <1>2
  <2>. QED BY <2>1, <2>2 DEF Distances
<1>4. LinuxOffsets = [k \in 1..LinuxSteps |-> k * SearchStep]
  BY DEF LinuxOffsets, LinuxSteps
<1>5. LinuxOffsets \in Seq(Int)
  <2>1. CASE LinuxSteps \in Nat
    BY <1>3, <1>4, <2>1
  <2>2. CASE LinuxSteps < 0
    <3>1. 1..LinuxSteps = 1..0
      BY <1>3, <2>2
    <3>2. LinuxOffsets = [k \in 1..0 |-> k * SearchStep]
      BY <1>4, <3>1
    <3>3. LinuxOffsets = << >>
      BY <3>2
    <3>. QED BY <3>3
  <2>. QED BY <1>3, <2>1, <2>2
<1>6. Range(LinuxOffsets) = Distances
  BY <1>2, <1>4 DEF Range
<1>. QED BY <1>5, <1>6, HintMembers DEF LinuxHints

(* The distances are whole pages, so a page of room is left at either end. *)
LEMMA WholePages ==
  ASSUME NEW Bytes \in Nat \ {0}, NEW a \in Nat, NEW b \in Nat, a % Bytes = 0, b % Bytes = 0
  PROVE  a < b => a + Bytes <= b
<1>. SUFFICES ASSUME a < b PROVE a + Bytes <= b
  OBVIOUS
<1>. DEFINE x == a \div Bytes
            y == b \div Bytes
<1>1. x \in Int /\ y \in Int /\ a = Bytes * x /\ b = Bytes * y
  BY Z3
<1>. HIDE DEF x, y
<1>2. y >= x + 1
  <2>. SUFFICES ASSUME x - y \in Nat PROVE FALSE
    BY <1>1
  <2>1. (x - y) * Bytes \in Nat /\ Bytes * x = (x - y) * Bytes + Bytes * y
    BY <1>1, Z3
  <2>. QED BY <1>1, <2>1
<1>3. y - x - 1 \in Nat
  BY <1>1, <1>2
<1>4. (y - x - 1) * Bytes \in Nat /\ Bytes * y = (y - x - 1) * Bytes + Bytes * x + Bytes
  BY <1>1, <1>3, Z3
<1>. QED BY <1>1, <1>4

LEMMA StepOfSteps ==
  ASSUME NEW Bytes \in Nat \ {0}, NEW S \in Nat \ {0}, NEW d \in Nat, S % Bytes = 0, d % S = 0
  PROVE  d % Bytes = 0
<1>1. PICK x \in Int : S = Bytes * x
  <2>1. S = Bytes * (S \div Bytes) /\ S \div Bytes \in Int
    BY Z3
  <2>. QED BY <2>1
<1>2. PICK y \in Int : d = S * y
  <2>1. d = S * (d \div S) /\ d \div S \in Int
    BY Z3
  <2>. QED BY <2>1
<1>3. PICK m \in Int : m = x * y /\ d = Bytes * m
  BY <1>1, <1>2, Z3
<1>. QED BY <1>3, Z3

LEMMA DistanceBounds ==
  ASSUME NEW d \in Distances
  PROVE  d \in Nat /\ d >= PageBytes /\ d + 2 * PageBytes <= Reach
<1>1. /\ Reach \in Nat /\ PageBytes \in Nat \ {0} /\ SearchStep \in Nat \ {0}
      /\ SearchStep % PageBytes = 0 /\ Reach % PageBytes = 0
  BY PoolAssumption, GridAssumption
<1>2. d \in Nat /\ d > 0 /\ d % SearchStep = 0 /\ d + PageBytes < Reach
  BY <1>1 DEF Distances
<1>3. d % PageBytes = 0 /\ 0 % PageBytes = 0
  <2>1. d % PageBytes = 0
    BY <1>1, <1>2, StepOfSteps
  <2>2. 0 % PageBytes = 0
    BY <1>1, Z3
  <2>. QED BY <2>1, <2>2
<1>4. 0 + PageBytes <= d
  BY <1>1, <1>2, <1>3, WholePages
<1>5. (d + PageBytes) % PageBytes = 0
  <2>1. PICK m \in Int : d = PageBytes * m
    <3>1. d = PageBytes * (d \div PageBytes) /\ d \div PageBytes \in Int
      BY <1>1, <1>2, <1>3, Z3
    <3>. QED BY <3>1
  <2>2. m + 1 \in Int /\ d + PageBytes = PageBytes * (m + 1)
    BY <1>1, <2>1, Z3
  <2>. QED BY <1>1, <2>2, Z3
<1>6. d + PageBytes \in Nat
  BY <1>1, <1>2
<1>7. (d + PageBytes) + PageBytes <= Reach
  BY <1>1, <1>2, <1>5, <1>6, WholePages
<1>. QED BY <1>1, <1>2, <1>4, <1>7

(* The page of a hint: linux need not look at its beginning.               *)
LEMMA HintsAreNear ==
  ASSUME NEW t \in Int, NEW page \in HintSet(t, Distances),
         Rel32Reachable(t + ShortBranch, page + PageBytes - 1)
  PROVE  BothEnds(t, page)
<1>1. PICK d \in Distances : page = PageOf(t + d) \/ page = PageOf(t - d)
  BY DEF HintSet
<1>2. d \in Nat /\ d >= PageBytes /\ d + 2 * PageBytes <= Reach
  BY DistanceBounds
<1>3. Reach \in Nat /\ PageBytes \in Nat /\ PageBytes >= 5
  BY PoolAssumption, GridAssumption DEF ShortBranch
<1>4. t + d \in Int /\ t - d \in Int
  BY <1>2
<1>5. Rel32Reachable(t + ShortBranch, page)
  <2>. HIDE DEF PageOf
  <2>1. CASE page = PageOf(t + d)
    <3>1. page \in Int /\ page <= t + d /\ t + d < page + PageBytes
      BY <1>4, <2>1, PageOfType
    <3>. QED BY <1>2, <1>3, <3>1 DEF Rel32Reachable, ShortBranch
  <2>2. CASE page = PageOf(t - d)
    <3>1. page \in Int /\ page <= t - d /\ t - d < page + PageBytes
      BY <1>4, <2>2, PageOfType
    <3>. QED BY <1>2, <1>3, <3>1 DEF Rel32Reachable, ShortBranch
  <2>. QED BY <1>1, <2>1, <2>2
<1>. QED BY <1>5 DEF BothEnds

(* What a search on linux still has to try are pages at the distances.     *)
LinuxOK ==
  search.mode = "linux" =>
    /\ search.todo \in Seq(Int)
    /\ Range(search.todo) \subseteq HintSet(search.target, Distances)
ReachInv == LinuxOK /\ GivenPagesAreNear

LEMMA HeadAndTail ==
  ASSUME NEW S, NEW s \in Seq(S), s # << >>
  PROVE  /\ Head(s) \in Range(s) /\ Tail(s) \in Seq(S)
         /\ Range(s) = {Head(s)} \cup Range(Tail(s))
<1>1. /\ Len(s) \in Nat \ {0} /\ DOMAIN s = 1..Len(s) /\ Head(s) = s[1] /\ Tail(s) \in Seq(S)
      /\ DOMAIN Tail(s) = 1..(Len(s) - 1)
      /\ \A i \in 1..(Len(s) - 1) : Tail(s)[i] = s[i + 1]
  OBVIOUS
<1>2. 1 \in DOMAIN s
  BY <1>1
<1>3. ASSUME NEW i \in DOMAIN s PROVE s[i] = Head(s) \/ s[i] \in Range(Tail(s))
  <2>1. CASE i = 1
    BY <1>1, <2>1
  <2>2. CASE i # 1
    <3>1. i - 1 \in 1..(Len(s) - 1) /\ Tail(s)[i - 1] = s[i]
      BY <1>1, <2>2
    <3>. QED BY <1>1, <3>1 DEF Range
  <2>. QED BY <2>1, <2>2
<1>4. ASSUME NEW i \in DOMAIN Tail(s) PROVE Tail(s)[i] \in Range(s)
  BY <1>1 DEF Range
<1>5. Head(s) \in Range(s)
  BY <1>1, <1>2 DEF Range
<1>. HIDE <1>1
<1>. QED BY <1>1, <1>3, <1>4, <1>5 DEF Range

LEMMA LinuxGoesOn ==
  ASSUME LinuxOK, NextHint, search.todo # << >>
  PROVE  LinuxOK'
<1>1. /\ search'.mode = search.mode /\ search'.target = search.target
      /\ search'.todo = Tail(search.todo)
  BY DEF NextHint, Hint
<1>. SUFFICES ASSUME search.mode = "linux" PROVE LinuxOK'
  BY <1>1 DEF LinuxOK
<1>2. /\ Tail(search.todo) \in Seq(Int)
      /\ Range(search.todo) = {Head(search.todo)} \cup Range(Tail(search.todo))
  BY HeadAndTail DEF LinuxOK
<1>3. HintSet(search'.target, Distances) = HintSet(search.target, Distances)
  BY <1>1
<1>4. Range(search'.todo) \subseteq HintSet(search'.target, Distances)
  BY <1>1, <1>2, <1>3 DEF LinuxOK
<1>5. HintSet(search.target, Distances)' = HintSet(search'.target, Distances)
  BY DEF HintSet, Distances, PageOf
<1>. QED BY <1>1, <1>2, <1>4, <1>5 DEF LinuxOK

LEMMA NotLinux ==
  ASSUME GivenPagesAreNear, UNCHANGED given \/ given' \subseteq given, search'.mode # "linux"
  PROVE  ReachInv'
BY DEF ReachInv, LinuxOK, GivenPagesAreNear, BothEnds, Rel32Reachable

(* An attempt gives the page to the patch only if both ends are in reach.  *)
LEMMA ReachAttempt ==
  ASSUME ReachInv, search.todo # << >>, NEW page, NEW reachable,
         KeepIf(reachable, page), reachable => BothEnds(search.target, page)
  PROVE  ReachInv'
<1>1. CASE reachable
  <2>1. /\ search' = Idle
        /\ given' = given \cup {[page |-> page, target |-> search.target]}
    BY <1>1 DEF KeepIf, Keeps
  <2>2. GivenPagesAreNear'
    BY <1>1, <2>1 DEF ReachInv, GivenPagesAreNear, BothEnds, Rel32Reachable
  <2>. QED BY <2>1, <2>2, IdleMode DEF ReachInv, LinuxOK
<1>2. CASE ~reachable
  <2>1. NextHint /\ given' = given
    BY <1>2 DEF KeepIf, GivesBack
  <2>. QED BY <2>1, LinuxGoesOn DEF ReachInv, GivenPagesAreNear, BothEnds, Rel32Reachable
<1>. QED BY <1>1, <1>2

LEMMA ReachStep ==
  ASSUME NearInv, ReachInv, [Next]_vars
  PROVE  ReachInv'
<1>. USE DEF ReachInv
<1>1. ASSUME NEW t \in Targets, AllocatePageNear(t) PROVE ReachInv'
  <2>1. given' = given
    BY <1>1 DEF AllocatePageNear
  <2>2. CASE search' = Search("linux", t, LinuxHints(t))
    <3>1. /\ search'.mode = "linux" /\ search'.target = t
          /\ search'.todo = LinuxHints(t)
      BY <2>2 DEF Search
    <3>2. t \in Int
      BY PoolAssumption
    <3>3. /\ LinuxHints(t) \in Seq(Int)
          /\ Range(LinuxHints(t)) = HintSet(t, Distances)
      BY <3>2, LinuxMembers
    <3>4. Range(search'.todo) \subseteq HintSet(search'.target, Distances)
      BY <3>1, <3>3
    <3>5. HintSet(search.target, Distances)' = HintSet(search'.target, Distances)
      BY DEF HintSet, Distances, PageOf
    <3>6. LinuxOK'
      BY <3>1, <3>3, <3>4, <3>5 DEF LinuxOK
    <3>. QED BY <2>1, <3>6 DEF GivenPagesAreNear, BothEnds, Rel32Reachable
  <2>3. CASE search'.mode \in {"hints", "windows"}
    BY <2>1, <2>3, NotLinux
  <2>. QED BY <1>1, <2>2, <2>3 DEF AllocatePageNear, Search
<1>2. CASE TryFixed
  <2>1. search.mode = "linux" /\ search.todo # << >> /\ search.target \in Int
    BY <1>2, IdleMode, PoolAssumption DEF TryFixed, Trying, NearInv, SearchOK
  <2>2. CASE OnlyHints /\ GivesBack
    <3>1. search'.mode = "hints" /\ given' = given
      BY <2>2 DEF OnlyHints, Search, GivesBack
    <3>. QED BY <3>1, NotLinux
  <2>3. CASE NextHint /\ GivesBack
    BY <2>1, <2>3, LinuxGoesOn DEF GivesBack, GivenPagesAreNear, BothEnds, Rel32Reachable
  <2>4. ASSUME TakeAt(Hint) PROVE ReachInv'
    <3>1. Hint \in HintSet(search.target, Distances)
      BY <2>1, HeadAndTail DEF Hint, LinuxOK
    <3>. DEFINE r == Rel32Reachable(search.target + ShortBranch, Hint + PageBytes - 1)
    <3>2. r => BothEnds(search.target, Hint)
      BY <2>1, <3>1, HintsAreNear
    <3>3. KeepIf(r, Hint)
      BY <2>4 DEF TakeAt
    <3>. HIDE DEF r
    <3>. QED BY <2>1, <3>2, <3>3, ReachAttempt
  <2>. QED BY <1>2, <2>2, <2>3, <2>4 DEF TryFixed, Fails
<1>3. CASE TryHint
  <2>1. search.todo # << >>
    BY <1>3 DEF TryHint, Trying
  <2>2. ASSUME NEW page, KeepIf(BothEnds(search.target, page), page) PROVE ReachInv'
    BY <2>1, <2>2, ReachAttempt
  <2>3. CASE Fails
    BY <2>1, <2>3, LinuxGoesOn DEF Fails, GivesBack, GivenPagesAreNear, BothEnds, Rel32Reachable
  <2>. QED BY <1>3, <2>2, <2>3 DEF TryHint
<1>4. CASE TryVirtualAlloc
  <2>1. search.mode = "windows" /\ search.todo # << >>
    BY <1>4 DEF TryVirtualAlloc, Trying
  <2>2. CASE Fails
    BY <2>1, <2>2, LinuxGoesOn DEF Fails, GivesBack, GivenPagesAreNear, BothEnds, Rel32Reachable
  <2>3. CASE BothEnds(search.target, Hint) /\ Keeps(Hint)
    <3>1. KeepIf(BothEnds(search.target, Hint), Hint)
      BY <2>3 DEF KeepIf
    <3>. QED BY <2>1, <3>1, ReachAttempt
  <2>. QED BY <1>4, <2>2, <2>3 DEF TryVirtualAlloc
<1>5. CASE NotFound \/ ReleasePage \/ Unpatch
  <2>1. given' \subseteq given /\ (search' = Idle \/ (search' = search /\ search = Idle))
    BY <1>5 DEF NotFound, ReleasePage, Unpatch
  <2>. QED BY <2>1, NotLinux, IdleMode
<1>6. ASSUME NEW t \in Targets, AllocTrampoline(t) PROVE ReachInv'
  <2>1. given' = given /\ (search'.mode = "up" \/ (search' = search /\ search = Idle))
    BY <1>6 DEF AllocTrampoline
  <2>. QED BY <2>1, NotLinux, IdleMode
<1>7. CASE WalkRegion
  <2>1. given' = given /\ search'.mode \in NearModes
    BY <1>7 DEF WalkRegion, Up, Down, Below, NearModes
  <2>. QED BY <2>1, NotLinux DEF NearModes
<1>8. CASE ClaimHole \/ ProbeBelow
  <2>1. given' = given /\ (search' = Idle \/ search'.mode \in NearModes)
    BY <1>8 DEF ClaimHole, ProbeBelow, Found, Up, Below, Settled, NearModes
  <2>. QED BY <2>1, NotLinux, IdleMode DEF NearModes
<1>9. CASE Noise \/ UNCHANGED vars
  <2>1. given' = given /\ search' = search
    BY <1>9 DEF Noise, vars
  <2>. QED BY <2>1 DEF LinuxOK, HintSet, Distances, PageOf, GivenPagesAreNear, BothEnds, Rel32Reachable
<1>. QED BY <1>1, <1>2, <1>3, <1>4, <1>5, <1>6, <1>7, <1>8, <1>9 DEF Next

LEMMA NearPagesInv == Spec => [](NearInv /\ PoolInv /\ ReachInv)
<1>1. Init => ReachInv
  BY IdleMode DEF Init, ReachInv, LinuxOK, GivenPagesAreNear
<1>2. NearInv /\ ReachInv /\ [Next]_vars => ReachInv'
  BY ReachStep
<1>. QED BY <1>1, <1>2, NearIsSafe, PTL DEF Spec

(* A page given to a patch is in reach of its branch at both ends, on      *)
(* every platform: on linux because the steps and the reach are whole      *)
(* pages, although only the end of the page is looked at.                  *)
THEOREM PagesAreInReach == Spec => []GivenPagesAreNear
BY NearPagesInv, PTL DEF ReachInv
=============================================================================
