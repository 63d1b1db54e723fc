-------------------------- MODULE EntryCut_proofs --------------------------
(***************************************************************************)
(* Proofs about EntryCut, for every function, every page and any number of *)
(* patches: the releases restore the bytes of the target, what is in its   *)
(* entry while it is patched decodes, a call of it reaches the last hook,  *)
(* and a proxy does what the function did before its patch.                *)
(***************************************************************************)
EXTENDS EntryInvariant, WellFoundedInduction, TLAPS

-----------------------------------------------------------------------------
(* Induction over an interval, of a set of numbers, and what it says of    *)
(* functions that are defined by recursion.                                *)
LEMMA InductionUpTo ==
  ASSUME NEW S, NEW N \in Nat, 1 \in S,
         \A n \in 1..N : n \in S /\ n + 1 \in 1..N => n + 1 \in S
  PROVE  1..N \subseteq S
<1>. DEFINE T == {n \in 1..N : n \notin S}
<1>. SUFFICES ASSUME T # {} PROVE FALSE
  OBVIOUS
<1>1. PICK x \in T : \A y \in T : ~(<<y, x>> \in OpToRel(<, Nat))
  <2>1. T \subseteq Nat
    OBVIOUS
  <2>. HIDE DEF OpToRel, T
  <2>. QED BY <2>1, NatLessThanWellFounded, WFMin, Zenon
<1>2. \A y \in T : ~(y < x)
  <2>. SUFFICES ASSUME NEW y \in T, y < x PROVE FALSE
    OBVIOUS
  <2>1. y \in Nat /\ x \in Nat
    OBVIOUS
  <2>2. <<y, x>> \in OpToRel(<, Nat)
    BY <2>1 DEF OpToRel
  <2>. QED BY <1>1, <2>2
<1>3. x # 1 /\ x - 1 \in 1..N /\ x - 1 \notin T
  BY <1>2
<1>. QED BY <1>3

(* A function that is defined by jumps to later places of its domain.      *)
Jumps(f, lo, hi, stop, val, next) ==
  f = [p \in lo .. hi |-> IF p \in stop THEN val[p] ELSE f[next[p]]]
(* Such a function exists.                                                 *)
LEMMA JumpsDefine ==
  ASSUME NEW lo \in Int, NEW hi \in Int, lo <= hi, NEW stop, NEW val, NEW next,
         \A p \in (lo .. hi) \ stop : next[p] \in p + 1 .. hi
  PROVE  \E f : Jumps(f, lo, hi, stop, val, next)
<1>. DEFINE M == hi - lo + 1
            S == {n \in 1 .. M : \E f : Jumps(f, hi + 1 - n, hi, stop, val, next)}
<1>1. M \in Nat /\ M \in 1 .. M /\ 1 \in 1 .. M
  OBVIOUS
<1>2. 1 \in S
  <2>. DEFINE f == [p \in hi .. hi |-> val[p]]
  <2>1. hi + 1 - 1 = hi /\ \A p \in hi .. hi : p \in lo .. hi /\ p + 1 .. hi = {}
    OBVIOUS
  <2>2. \A p \in hi .. hi : p \in stop
    <3>. SUFFICES ASSUME NEW p \in hi .. hi, p \notin stop PROVE FALSE
      OBVIOUS
    <3>1. p \in (lo .. hi) \ stop
      BY <2>1
    <3>2. next[p] \in p + 1 .. hi
      BY <3>1
    <3>. QED BY <2>1, <3>2
  <2>3. Jumps(f, hi, hi, stop, val, next)
    BY <2>2 DEF Jumps
  <2>. HIDE DEF f
  <2>. QED BY <1>1, <2>1, <2>3
<1>3. ASSUME NEW n \in 1 .. M, n \in S, n + 1 \in 1 .. M
      PROVE  n + 1 \in S
  <2>. DEFINE b == hi + 1 - n
              a == hi + 1 - (n + 1)
  <2>1. PICK f : Jumps(f, b, hi, stop, val, next)
    BY <1>3
  <2>2. /\ a \in lo .. hi /\ b = a + 1 /\ b \in Int /\ a \notin b .. hi
        /\ a .. hi = {a} \cup (b .. hi)
    <3>1. a \in Int /\ a <= hi /\ lo <= a /\ b = a + 1
      BY <1>1, <1>3
    <3>. HIDE DEF a, b
    <3>. QED BY <3>1
  <2>. HIDE DEF a, b, M
  <2>. DEFINE g == [p \in a .. hi |->
                     IF p = a THEN IF a \in stop THEN val[a] ELSE f[next[a]] ELSE f[p]]
  <2>3. ASSUME NEW p \in a .. hi
        PROVE  g[p] = IF p \in stop THEN val[p] ELSE g[next[p]]
    <3>1. p \in lo .. hi /\ p \in Int
      BY <2>2
    <3>2. p \notin stop => next[p] \in b .. hi /\ next[p] \in a .. hi /\ next[p] # a
      <4>. SUFFICES ASSUME p \notin stop
                    PROVE  next[p] \in b .. hi /\ next[p] \in a .. hi /\ next[p] # a
        OBVIOUS
      <4>1. next[p] \in p + 1 .. hi
        BY <3>1
      <4>. QED BY <2>2, <4>1
    <3>3. p \notin stop => g[next[p]] = f[next[p]]
      BY <3>2
    <3>4. CASE p = a
      BY <3>3, <3>4
    <3>5. CASE p # a
      <4>1. p \in b .. hi /\ g[p] = f[p]
        BY <2>2, <3>5
      <4>2. f[p] = IF p \in stop THEN val[p] ELSE f[next[p]]
        BY <2>1, <4>1 DEF Jumps
      <4>. QED BY <3>3, <4>1, <4>2
    <3>. QED BY <3>4, <3>5
  <2>4. Jumps(g, a, hi, stop, val, next)
    <3>1. g = [p \in a .. hi |-> g[p]]
      OBVIOUS
    <3>. HIDE DEF g
    <3>. QED BY <2>3, <3>1 DEF Jumps
  <2>. HIDE DEF g
  <2>. QED BY <1>3, <2>4 DEF a
<1>4. M \in S
  <2>1. 1 .. M \subseteq S
    <3>. HIDE DEF S, M
    <3>. QED BY <1>1, <1>2, <1>3, InductionUpTo
  <2>. QED BY <1>1, <2>1
<1>5. hi + 1 - M = lo
  OBVIOUS
<1>. HIDE DEF M
<1>. QED BY <1>4, <1>5

(* Whatever holds at the stops it comes to holds of its values.            *)
StaysIn(P, Q, lo, hi, stop, val, next) ==
  /\ P \subseteq lo .. hi
  /\ \A p \in P \cap stop : val[p] \in Q
  /\ \A p \in P \ stop : next[p] \in P /\ next[p] > p
(* Its values are those of the places where the jumps end.                 *)
LEMMA JumpsEndIn ==
  ASSUME NEW lo \in Int, NEW hi \in Int, NEW stop, NEW val, NEW next,
         NEW f, Jumps(f, lo, hi, stop, val, next),
         NEW P, NEW Q, StaysIn(P, Q, lo, hi, stop, val, next)
  PROVE  \A p \in P : f[p] \in Q
<1>0. /\ P \subseteq lo .. hi
      /\ \A p \in P \cap stop : val[p] \in Q
      /\ \A p \in P \ stop : next[p] \in P /\ next[p] > p
  BY DEF StaysIn
<1>. SUFFICES ASSUME NEW q \in P, f[q] \notin Q PROVE FALSE
  OBVIOUS
<1>. DEFINE M == hi - lo + 1
            S == {n \in 1 .. M : \A p \in P : p > hi - n => f[p] \in Q}
<1>1. M \in Nat /\ M \in 1 .. M /\ 1 \in 1 .. M /\ lo <= hi
  BY <1>0
<1>2. \A p \in P : p \in lo .. hi /\ f[p] = IF p \in stop THEN val[p] ELSE f[next[p]]
  BY <1>0 DEF Jumps
<1>3. 1 \in S
  <2>. SUFFICES ASSUME NEW p \in P, p > hi - 1 PROVE f[p] \in Q
    BY <1>1
  <2>1. p = hi
    BY <1>0, <1>2
  <2>2. p \in stop
    <3>. SUFFICES ASSUME p \notin stop PROVE FALSE
      OBVIOUS
    <3>1. next[p] \in P /\ next[p] > p
      BY <1>0
    <3>2. next[p] \in lo .. hi
      BY <1>0, <1>2, <3>1
    <3>. QED BY <2>1, <3>1, <3>2
  <2>. QED BY <1>0, <1>2, <2>2
<1>4. ASSUME NEW n \in 1 .. M, n \in S, n + 1 \in 1 .. M
      PROVE  n + 1 \in S
  <2>. SUFFICES ASSUME NEW p \in P, p > hi - (n + 1) PROVE f[p] \in Q
    BY <1>4
  <2>1. CASE p \in stop
    BY <1>0, <1>2, <2>1
  <2>2. CASE p \notin stop
    <3>1. next[p] \in P /\ next[p] > p /\ p \in Int /\ next[p] \in Int
      BY <1>0, <1>2, <2>2
    <3>2. next[p] > hi - n
      BY <1>1, <3>1
    <3>. QED BY <1>0, <1>2, <1>4, <2>2, <3>1, <3>2
  <2>. QED BY <2>1, <2>2
<1>5. M \in S
  <2>1. 1 .. M \subseteq S
    <3>. HIDE DEF S, M
    <3>. QED BY <1>1, <1>3, <1>4, InductionUpTo
  <2>. QED BY <1>1, <2>1
<1>6. q > hi - M
  BY <1>0, <1>2
<1>. HIDE DEF M
<1>. QED BY <1>5, <1>6

-----------------------------------------------------------------------------
(* The places of instructions in a sequence of them.                       *)

(* Each offset is the one before plus a length.                            *)
LEMMA OffsetsAreSums ==
  ASSUME NEW lens \in Seq(Nat)
  PROVE  /\ Offsets(lens) \in [1 .. Len(lens) + 1 -> Nat]
         /\ Offsets(lens)[1] = 0
         /\ \A i \in 1 .. Len(lens) : Offsets(lens)[i + 1] = Offsets(lens)[i] + lens[i]
         /\ \A j \in 1 .. Len(lens) + 1 : \A i \in 1 .. j : Offsets(lens)[i] <= Offsets(lens)[j]
<1>. DEFINE N == Len(lens) + 1
            Sums(n, g) == g = [i \in 1 .. n |-> IF i = 1 THEN 0 ELSE g[i - 1] + lens[i - 1]]
            S == {n \in 1 .. N : \E g \in [1 .. n -> Nat] : Sums(n, g)}
            s == Offsets(lens)
<1>1. /\ N \in Nat /\ N \in 1 .. N /\ 1 \in 1 .. N /\ Len(lens) \in Nat
      /\ \A i \in 1 .. Len(lens) : lens[i] \in Nat /\ i + 1 \in 1 .. N /\ i \in 1 .. N
      /\ \A i \in 1 .. N : i # 1 => i - 1 \in 1 .. Len(lens)
  OBVIOUS
<1>2. 1 \in S
  <2>. DEFINE g == [i \in 1 .. 1 |-> 0]
  <2>1. g \in [1 .. 1 -> Nat] /\ Sums(1, g)
    OBVIOUS
  <2>. QED BY <1>1, <2>1
<1>3. ASSUME NEW n \in 1 .. N, n \in S, n + 1 \in 1 .. N
      PROVE  n + 1 \in S
  <2>1. PICK g \in [1 .. n -> Nat] : Sums(n, g)
    BY <1>3
  <2>2. n \in Nat /\ lens[n] \in Nat /\ g[n] \in Nat
    <3>1. n \in 1 .. Len(lens) /\ n \in 1 .. n
      BY <1>1, <1>3
    <3>. QED BY <1>1, <3>1
  <2>. DEFINE h == [i \in 1 .. (n + 1) |-> IF i = n + 1 THEN g[n] + lens[n] ELSE g[i]]
  <2>3. h \in [1 .. (n + 1) -> Nat]
    <3>1. \A i \in 1 .. (n + 1) : i = n + 1 \/ i \in 1 .. n
      BY <2>2
    <3>. QED BY <2>2, <3>1
  <2>4. ASSUME NEW i \in 1 .. (n + 1)
        PROVE  h[i] = IF i = 1 THEN 0 ELSE h[i - 1] + lens[i - 1]
    <3>1. CASE i = n + 1
      <4>1. i # 1 /\ i - 1 = n /\ i - 1 \in 1 .. (n + 1) /\ i - 1 # n + 1
        BY <2>2, <3>1
      <4>. QED BY <3>1, <4>1
    <3>2. CASE i # n + 1
      <4>1. i \in 1 .. n /\ h[i] = g[i] /\ (i # 1 => h[i - 1] = g[i - 1])
        BY <2>2, <3>2
      <4>. HIDE DEF h
      <4>. QED BY <2>1, <4>1
    <3>. QED BY <3>1, <3>2
  <2>5. Sums(n + 1, h)
    BY <2>4
  <2>. HIDE DEF h
  <2>. QED BY <1>3, <2>3, <2>5
<1>4. PICK g \in [1 .. N -> Nat] : Sums(N, g)
  <2>1. 1 .. N \subseteq S
    <3>. HIDE DEF S, N
    <3>. QED BY <1>1, <1>2, <1>3, InductionUpTo
  <2>. QED BY <1>1, <2>1
<1>5. Sums(N, s)
  <2>1. s = CHOOSE f : Sums(N, f)
    BY DEF Offsets
  <2>. HIDE DEF Sums, s, N
  <2>. QED BY <1>4, <2>1, Zenon
<1>. HIDE DEF s
<1>6. /\ s = [i \in 1 .. N |-> s[i]] /\ s[1] = 0
      /\ \A i \in 1 .. N : i # 1 => s[i] = s[i - 1] + lens[i - 1]
  BY <1>1, <1>5
<1>7. \A i \in 1 .. Len(lens) : s[i + 1] = s[i] + lens[i] /\ lens[i] \in Nat
  <2>. SUFFICES ASSUME NEW i \in 1 .. Len(lens) PROVE s[i + 1] = s[i] + lens[i] /\ lens[i] \in Nat
    OBVIOUS
  <2>1. i + 1 \in 1 .. N /\ i + 1 # 1 /\ (i + 1) - 1 = i
    BY <1>1
  <2>. HIDE DEF N
  <2>. QED BY <1>1, <1>6, <2>1
<1>. HIDE DEF Sums
<1>. DEFINE P == {n \in 1 .. N : \A i \in 1 .. n : s[i] \in Nat /\ s[i] <= s[n]}
<1>8. 1 \in P
  <2>1. \A i \in 1 .. 1 : i = 1
    OBVIOUS
  <2>. QED BY <1>1, <1>6, <2>1
<1>9. ASSUME NEW n \in 1 .. N, n \in P, n + 1 \in 1 .. N
      PROVE  n + 1 \in P
  <2>1. n \in 1 .. Len(lens) /\ n \in 1 .. n
    BY <1>1, <1>9
  <2>2. s[n + 1] = s[n] + lens[n] /\ s[n] \in Nat /\ lens[n] \in Nat
    BY <1>7, <1>9, <2>1
  <2>3. ASSUME NEW i \in 1 .. (n + 1) PROVE s[i] \in Nat /\ s[i] <= s[n + 1]
    <3>1. i \in 1 .. n \/ i = n + 1
      BY <1>1
    <3>. QED BY <1>9, <2>2, <3>1, SMTT(30)
  <2>. QED BY <1>9, <2>3
<1>10. \A n \in 1 .. N : \A i \in 1 .. n : s[i] \in Nat /\ s[i] <= s[n]
  <2>1. 1 .. N \subseteq P
    <3>. HIDE DEF P, N
    <3>. QED BY <1>1, <1>8, <1>9, InductionUpTo
  <2>. QED BY <2>1
<1>11. s \in [1 .. N -> Nat]
  <2>1. \A i \in 1 .. N : s[i] \in Nat
    <3>1. \A i \in 1 .. N : i \in 1 .. N /\ i \in 1 .. i
      OBVIOUS
    <3>. HIDE DEF N
    <3>. QED BY <1>10, <3>1
  <2>. HIDE DEF N
  <2>. QED BY <1>6, <2>1
<1>. QED BY <1>6, <1>7, <1>10, <1>11 DEF s

-----------------------------------------------------------------------------
(* The bytes of a sequence of instructions.                                *)

(* The offsets of code begin at 0 and end at its size.                     *)
LEMMA CodeSize ==
  ASSUME NEW code, IsCode(code)
  PROVE  /\ Len(code) \in Nat /\ DOMAIN code = 1 .. Len(code) /\ Size(code) \in Nat
         /\ At0(code) \in [1 .. Len(code) + 1 -> Nat] /\ At0(code)[1] = 0
         /\ At0(code)[Len(code) + 1] = Size(code)
         /\ \A i \in 1 .. Len(code) : /\ code[i].len \in Nat \ {0}
                                      /\ At0(code)[i + 1] = At0(code)[i] + code[i].len
         /\ \A j \in 1 .. Len(code) + 1 : \A i \in 1 .. j : At0(code)[i] <= At0(code)[j]
         /\ Lengths(code) \in Seq(Nat) /\ Len(Lengths(code)) = Len(code)
<1>1. /\ Len(code) \in Nat /\ DOMAIN code = 1 .. Len(code)
      /\ \A i \in 1 .. Len(code) : code[i].len \in Nat \ {0}
  BY DEF IsCode, IsSequence
<1>2. /\ Lengths(code) \in Seq(Nat) /\ Len(Lengths(code)) = Len(code)
      /\ \A i \in 1 .. Len(code) : Lengths(code)[i] = code[i].len
  BY <1>1 DEF Lengths
<1>. DEFINE s == Offsets(Lengths(code))
<1>3. /\ s \in [1 .. Len(code) + 1 -> Nat] /\ s[1] = 0
      /\ \A i \in 1 .. Len(code) : s[i + 1] = s[i] + Lengths(code)[i]
      /\ \A j \in 1 .. Len(code) + 1 : \A i \in 1 .. j : s[i] <= s[j]
  BY <1>2, OffsetsAreSums
<1>. HIDE DEF s
<1>4. Size(code) = s[Len(code) + 1]
  BY DEF Size, s
<1>5. Size(code) \in Nat
  BY <1>1, <1>3, <1>4
<1>. QED BY <1>1, <1>2, <1>3, <1>4, <1>5 DEF At0, s

(* Every byte belongs to one instruction.                                  *)
LEMMA BytePlaces ==
  ASSUME NEW code, IsCode(code),
         NEW o \in 0 .. Size(code) - 1
  PROVE  \E j \in DOMAIN code : o \in At0(code)[j] .. At0(code)[j] + code[j].len - 1
<1>. DEFINE N == Len(code) + 1
            s == At0(code)
            S == {n \in 1 .. N : o < s[n] => \E j \in DOMAIN code : o \in s[j] .. s[j] + code[j].len - 1}
<1>1. /\ Len(code) \in Nat /\ DOMAIN code = 1 .. Len(code)
      /\ s \in [1 .. N -> Nat] /\ s[1] = 0 /\ s[N] = Size(code) /\ Size(code) \in Nat
      /\ \A i \in 1 .. Len(code) : code[i].len \in Nat \ {0} /\ s[i + 1] = s[i] + code[i].len
  BY CodeSize
<1>. HIDE DEF s
<1>2. N \in Nat /\ 1 \in 1 .. N /\ N \in 1 .. N /\ o \in Nat /\ o < Size(code)
  BY <1>1
<1>3. 1 \in S
  BY <1>1, <1>2
<1>4. ASSUME NEW n \in 1 .. N, n \in S, n + 1 \in 1 .. N
      PROVE  n + 1 \in S
  <2>1. n \in 1 .. Len(code) /\ n \in 1 .. N
    BY <1>1, <1>4
  <2>2. code[n].len \in Nat /\ s[n + 1] = s[n] + code[n].len /\ s[n] \in Nat
    BY <1>1, <2>1
  <2>3. CASE o < s[n]
    BY <1>4, <2>3
  <2>4. CASE ~(o < s[n])
    <3>1. o < s[n + 1] => o \in s[n] .. s[n] + code[n].len - 1
      BY <1>2, <2>2, <2>4
    <3>. QED BY <1>1, <1>4, <2>1, <3>1
  <2>. QED BY <2>3, <2>4
<1>5. N \in S
  <2>1. 1 .. N \subseteq S
    <3>. HIDE DEF S, N
    <3>. QED BY <1>2, <1>3, <1>4, InductionUpTo
  <2>. QED BY <1>2, <2>1
<1>. QED BY <1>1, <1>2, <1>5 DEF s

(* Byte k of instruction j is where Bytes says.                            *)
LEMMA BytesAt ==
  ASSUME NEW code, IsCode(code), NEW a \in Int,
         NEW j \in DOMAIN code, NEW k \in 0 .. code[j].len - 1
  PROVE  /\ a + At0(code)[j] + k \in DOMAIN Bytes(code, a)
         /\ Bytes(code, a)[a + At0(code)[j] + k] = [inst |-> code[j], at |-> k]
<1>. DEFINE s == At0(code)
            N == Len(code)
            b == a + s[j] + k
            End(i) == s[i] + code[i].len - 1
            In(i) == b - a \in s[i] .. End(i)
<1>1. /\ N \in Nat /\ DOMAIN code = 1 .. N /\ Size(code) \in Nat
      /\ s \in [1 .. N + 1 -> Nat] /\ s[N + 1] = Size(code)
      /\ \A i \in 1 .. N : code[i].len \in Nat \ {0} /\ s[i + 1] = s[i] + code[i].len
  BY CodeSize
<1>2. \A i \in 1 .. N + 1 : \A h \in 1 .. i : s[h] <= s[i]
  BY CodeSize
<1>3. Bytes(code, a) = [c \in a .. a + Size(code) - 1 |->
                          [inst |-> code[CHOOSE i \in DOMAIN code : c - a \in s[i] .. End(i)],
                           at |-> c - a - s[CHOOSE i \in DOMAIN code : c - a \in s[i] .. End(i)]]]
  BY DEF Bytes, At0
<1>. HIDE DEF s, N
<1>4. ASSUME NEW i \in DOMAIN code
      PROVE  /\ i \in 1 .. N /\ i + 1 \in 1 .. N + 1 /\ s[i] \in Nat /\ s[i + 1] \in Nat
             /\ End(i) = s[i + 1] - 1 /\ s[i + 1] <= Size(code)
  <2>0. i \in 1 .. N /\ N \in Nat
    BY <1>1
  <2>1. i \in 1 .. N /\ i \in 1 .. N + 1 /\ i + 1 \in 1 .. N + 1 /\ N + 1 \in 1 .. N + 1
    BY <2>0
  <2>2. s[i] \in Nat /\ s[i + 1] \in Nat /\ s[i + 1] <= s[N + 1]
    BY <1>1, <1>2, <2>1
  <2>3. code[i].len \in Nat /\ s[i + 1] = s[i] + code[i].len
    BY <1>1, <2>1
  <2>4. End(i) = s[i + 1] - 1
    BY <2>2, <2>3
  <2>. HIDE DEF End
  <2>. QED BY <1>1, <2>1, <2>2, <2>4
<1>. HIDE DEF End
<1>5. k \in Nat /\ s[j] + k <= End(j) /\ s[j] \in Nat
  <2>1. code[j].len \in Nat /\ j \in 1 .. N
    BY <1>1, <1>4
  <2>. QED BY <1>4, <2>1 DEF End
<1>6. b - a = s[j] + k /\ b \in a .. a + Size(code) - 1
  <2>1. s[j] + k < Size(code)
    BY <1>1, <1>4, <1>5
  <2>2. s[j] \in Nat /\ k \in Nat /\ Size(code) \in Nat
    BY <1>1, <1>5
  <2>. DEFINE x == s[j]
              n == Size(code)
  <2>. HIDE DEF x, n
  <2>3. (a + x + k) - a = x + k /\ a + x + k \in a .. a + n - 1
    BY <2>1, <2>2 DEF x, n
  <2>. QED BY <2>3 DEF x, n
<1>. HIDE DEF b
<1>7. In(j)
  BY <1>4, <1>5, <1>6
<1>8. ASSUME NEW i \in DOMAIN code, In(i) PROVE i = j
  <2>. DEFINE x == b - a
  <2>0. x \in Int /\ x \in s[i] .. End(i) /\ x \in s[j] .. End(j)
    BY <1>5, <1>6, <1>7, <1>8
  <2>01. /\ i \in 1 .. N /\ End(i) = s[i + 1] - 1 /\ s[i] \in Nat /\ s[i + 1] \in Nat
         /\ j \in 1 .. N /\ End(j) = s[j + 1] - 1 /\ s[j] \in Nat /\ s[j + 1] \in Nat
    BY <1>4
  <2>. HIDE DEF x
  <2>02. s[i] <= x /\ x < s[i + 1] /\ s[j] <= x /\ x < s[j + 1]
    BY <2>0, <2>01
  <2>1. /\ i \in 1 .. N /\ j \in 1 .. N /\ N \in Nat /\ x \in Int
        /\ s[i] <= x /\ x < s[i + 1] /\ s[j] <= x /\ x < s[j + 1]
        /\ s[i] \in Nat /\ s[j] \in Nat /\ s[i + 1] \in Nat /\ s[j + 1] \in Nat
    BY <1>1, <2>0, <2>01, <2>02
  <2>. HIDE DEF x
  <2>2. ~(i < j)
    <3>. SUFFICES ASSUME i < j PROVE FALSE
      OBVIOUS
    <3>1. j \in 1 .. N + 1 /\ i + 1 \in 1 .. j
      BY <2>1
    <3>2. s[i + 1] <= s[j]
      BY <1>2, <3>1
    <3>. QED BY <2>1, <3>2
  <2>3. ~(j < i)
    <3>. SUFFICES ASSUME j < i PROVE FALSE
      OBVIOUS
    <3>1. i \in 1 .. N + 1 /\ j + 1 \in 1 .. i
      BY <2>1
    <3>2. s[j + 1] <= s[i]
      BY <1>2, <3>1
    <3>. QED BY <2>1, <3>2
  <2>. QED BY <2>1, <2>2, <2>3
<1>9. (CHOOSE i \in DOMAIN code : In(i)) = j
  <2>. HIDE DEF In
  <2>. QED BY <1>7, <1>8, Zenon
<1>10. /\ Bytes(code, a)[b] = [inst |-> code[CHOOSE i \in DOMAIN code : In(i)],
                                at |-> b - a - s[CHOOSE i \in DOMAIN code : In(i)]]
       /\ b \in DOMAIN Bytes(code, a)
  BY <1>3, <1>6
<1>11. b - a - s[j] = k
  BY <1>5, <1>6
<1>. HIDE DEF In
<1>12. Bytes(code, a)[b] = [inst |-> code[j], at |-> k]
  BY <1>9, <1>10, <1>11
<1>. QED BY <1>10, <1>12 DEF b, s

(* The instruction of a byte is one of the sequence.                       *)
LEMMA BytesAreOfCode ==
  ASSUME NEW code, IsCode(code), NEW a \in Int
  PROVE  /\ Bytes(code, a) = [b \in a .. a + Size(code) - 1 |-> Bytes(code, a)[b]]
         /\ DOMAIN Bytes(code, a) = a .. a + Size(code) - 1
         /\ \A b \in a .. a + Size(code) - 1 : \E j \in DOMAIN code : Bytes(code, a)[b].inst = code[j]
<1>1. /\ Bytes(code, a) = [b \in a .. a + Size(code) - 1 |-> Bytes(code, a)[b]]
      /\ DOMAIN Bytes(code, a) = a .. a + Size(code) - 1
  BY DEF Bytes
<1>2. ASSUME NEW b \in a .. a + Size(code) - 1 PROVE \E j \in DOMAIN code : Bytes(code, a)[b].inst = code[j]
  <2>1. /\ Size(code) \in Nat /\ DOMAIN code = 1 .. Len(code) /\ Len(code) \in Nat
        /\ At0(code) \in [1 .. Len(code) + 1 -> Nat]
        /\ \A i \in DOMAIN code : code[i].len \in Nat
    BY CodeSize
  <2>2. b - a \in 0 .. Size(code) - 1
    BY <2>1
  <2>3. PICK j \in DOMAIN code : b - a \in At0(code)[j] .. At0(code)[j] + code[j].len - 1
    BY <2>2, BytePlaces
  <2>. DEFINE k == b - a - At0(code)[j]
  <2>4. k \in 0 .. code[j].len - 1 /\ b = a + At0(code)[j] + k
    <3>1. At0(code)[j] \in Nat /\ code[j].len \in Nat /\ b \in Int /\ b - a \in Int
      BY <2>1, <2>2
    <3>. QED BY <2>3, <3>1
  <2>. HIDE DEF k
  <2>5. Bytes(code, a)[b] = [inst |-> code[j], at |-> k]
    <3>1. /\ a + At0(code)[j] + k \in DOMAIN Bytes(code, a)
          /\ Bytes(code, a)[a + At0(code)[j] + k] = [inst |-> code[j], at |-> k]
      BY <2>4, BytesAt
    <3>. QED BY <2>4, <3>1
  <2>. QED BY <2>1, <2>5
<1>. QED BY <1>1, <1>2

(* The offsets are the only numbers that begin with zero and add up.       *)
LEMMA OnlyOffsets ==
  ASSUME NEW code, IsCode(code), NEW n \in 0 .. Len(code), NEW g,
         g[1] = 0, \A i \in 1 .. n : g[i + 1] = g[i] + code[i].len
  PROVE  \A i \in 1 .. n + 1 : g[i] = At0(code)[i]
<1>. DEFINE s == At0(code)
            S == {i \in 1 .. n + 1 : g[i] = s[i]}
<1>1. /\ Len(code) \in Nat /\ s[1] = 0 /\ n \in Nat
      /\ \A i \in 1 .. Len(code) : s[i + 1] = s[i] + code[i].len
  BY CodeSize
<1>. HIDE DEF s
<1>2. n + 1 \in Nat /\ 1 \in 1 .. n + 1 /\ 1 \in S
  BY <1>1
<1>3. ASSUME NEW i \in 1 .. n + 1, i \in S, i + 1 \in 1 .. n + 1
      PROVE  i + 1 \in S
  <2>1. i \in 1 .. n /\ i \in 1 .. Len(code)
    BY <1>1, <1>3
  <2>2. g[i + 1] = g[i] + code[i].len /\ s[i + 1] = s[i] + code[i].len /\ g[i] = s[i]
    BY <1>1, <1>3, <2>1
  <2>. QED BY <1>3, <2>2
<1>4. 1 .. n + 1 \subseteq S
  <2>. DEFINE m == n + 1
  <2>1. m \in Nat /\ 1 \in S /\ \A i \in 1 .. m : i \in S /\ i + 1 \in 1 .. m => i + 1 \in S
    BY <1>2, <1>3
  <2>. HIDE DEF m, S
  <2>2. 1 .. m \subseteq S
    BY <2>1, InductionUpTo
  <2>. QED BY <2>2 DEF m
<1>. QED BY <1>4 DEF s

(* Instructions of one length.                                             *)
LEMMA SizeOfSame ==
  ASSUME NEW code, IsCode(code), NEW l \in {1, 4, 5}, \A i \in DOMAIN code : code[i].len = l
  PROVE  Size(code) = l * Len(code)
<1>. DEFINE n == Len(code)
            g == [i \in 1 .. n + 1 |-> l * (i - 1)]
<1>1. n \in Nat /\ n \in 0 .. n /\ DOMAIN code = 1 .. n /\ At0(code)[n + 1] = Size(code)
  BY CodeSize
<1>. HIDE DEF n
<1>2. g[1] = 0 /\ g[n + 1] = l * n
  BY <1>1
<1>3. ASSUME NEW i \in 1 .. n PROVE g[i + 1] = g[i] + code[i].len
  <2>1. i \in Int /\ i \in 1 .. n + 1 /\ i + 1 \in 1 .. n + 1 /\ code[i].len = l
    BY <1>1
  <2>2. g[i] = l * (i - 1) /\ g[i + 1] = l * ((i + 1) - 1)
    BY <2>1
  <2>. HIDE DEF g
  <2>3. l = 1 \/ l = 4 \/ l = 5
    OBVIOUS
  <2>. QED BY <2>1, <2>2, <2>3
<1>. HIDE DEF g
<1>4. \A i \in 1 .. n + 1 : g[i] = At0(code)[i]
  BY <1>1, <1>2, <1>3, OnlyOffsets DEF n
<1>5. n + 1 \in 1 .. n + 1
  BY <1>1
<1>. QED BY <1>1, <1>2, <1>4, <1>5 DEF n

(* Two sequences, one behind the other.                                    *)
LEMMA JoinIsCode ==
  ASSUME NEW u, NEW v, IsCode(u), IsCode(v)
  PROVE  /\ IsCode(u \o v) /\ Len(u \o v) = Len(u) + Len(v)
         /\ \A i \in 1 .. Len(u) : (u \o v)[i] = u[i]
         /\ \A i \in 1 .. Len(v) : (u \o v)[Len(u) + i] = v[i]
         /\ \A i \in DOMAIN (u \o v) : i \in DOMAIN u \/ i - Len(u) \in DOMAIN v
<1>. DEFINE U == {u[i] : i \in DOMAIN u}
            V == {v[i] : i \in DOMAIN v}
            w == u \o v
            W == {w[i] : i \in DOMAIN w}
<1>1. u \in Seq(U \cup V) /\ v \in Seq(U \cup V)
  BY DEF IsCode, IsSequence
<1>2. /\ w \in Seq(U \cup V) /\ Len(w) = Len(u) + Len(v) /\ DOMAIN w = 1 .. Len(w)
      /\ Len(u) \in Nat /\ Len(v) \in Nat
      /\ DOMAIN u = 1 .. Len(u) /\ DOMAIN v = 1 .. Len(v)
      /\ \A i \in 1 .. Len(u) : w[i] = u[i]
      /\ \A i \in 1 .. Len(v) : w[Len(u) + i] = v[i]
  BY <1>1
<1>. HIDE DEF w
<1>3. ASSUME NEW i \in DOMAIN w
      PROVE  i \in DOMAIN u \/ (i - Len(u) \in DOMAIN v /\ i = Len(u) + (i - Len(u)))
  BY <1>2
<1>4. \A i \in DOMAIN w : w[i].len \in Nat \ {0}
  <2>. SUFFICES ASSUME NEW i \in DOMAIN w PROVE w[i].len \in Nat \ {0}
    OBVIOUS
  <2>1. CASE i \in DOMAIN u
    BY <1>2, <2>1 DEF IsCode
  <2>2. CASE i - Len(u) \in DOMAIN v /\ i = Len(u) + (i - Len(u))
    BY <1>2, <2>2 DEF IsCode
  <2>. QED BY <1>3, <2>1, <2>2
<1>5. w \in Seq(W)
  BY <1>2, SMTT(30)
<1>. QED BY <1>2, <1>3, <1>4, <1>5 DEF IsCode, IsSequence, w

(* Each instruction of both is one of either.                              *)
LEMMA JoinedFrom ==
  ASSUME NEW u, NEW v, IsCode(u), IsCode(v), NEW i \in DOMAIN (u \o v)
  PROVE  \/ \E j \in DOMAIN u : (u \o v)[i] = u[j]
         \/ \E j \in DOMAIN v : (u \o v)[i] = v[j]
<1>. DEFINE w == u \o v
<1>3. i \in DOMAIN w
  OBVIOUS
<1>0. /\ \A j \in DOMAIN w : (j \in DOMAIN u \/ j - Len(u) \in DOMAIN v)
      /\ \A j \in 1 .. Len(u) : w[j] = u[j]
      /\ \A j \in 1 .. Len(v) : w[Len(u) + j] = v[j]
      /\ IsCode(w)
  <2>1. \A j \in DOMAIN w : (j \in DOMAIN u \/ j - Len(u) \in DOMAIN v)
    BY JoinIsCode, Zenon
  <2>2. \A j \in 1 .. Len(u) : w[j] = u[j]
    BY JoinIsCode, Zenon
  <2>3. \A j \in 1 .. Len(v) : w[Len(u) + j] = v[j]
    BY JoinIsCode, SMT
  <2>4. IsCode(w)
    BY JoinIsCode, Zenon
  <2>. HIDE DEF w
  <2>. QED BY <2>1, <2>2, <2>3, <2>4
<1>. HIDE DEF w
<1>1. i \in DOMAIN u \/ i - Len(u) \in DOMAIN v
  BY <1>0, <1>3
<1>2. /\ DOMAIN u = 1 .. Len(u) /\ DOMAIN v = 1 .. Len(v) /\ Len(u) \in Nat
      /\ DOMAIN w = 1 .. Len(w)
  BY <1>0, CodeSize
<1>4. CASE i \in DOMAIN u
  BY <1>0, <1>2, <1>4 DEF w
<1>5. CASE i - Len(u) \in DOMAIN v
  <2>1. i = Len(u) + (i - Len(u))
    BY <1>2, <1>3
  <2>. QED BY <1>0, <1>2, <1>5, <2>1 DEF w
<1>. QED BY <1>1, <1>4, <1>5

(* The offsets of two codes, one behind the other.                         *)
LEMMA JoinOffsets ==
  ASSUME NEW u, NEW v, IsCode(u), IsCode(v)
  PROVE  /\ \A i \in 1 .. Len(u) + 1 : At0(u \o v)[i] = At0(u)[i]
         /\ \A i \in 1 .. Len(v) + 1 : At0(u \o v)[Len(u) + i] = Size(u) + At0(v)[i]
         /\ Size(u \o v) = Size(u) + Size(v)
<1>. DEFINE w == u \o v
            m == Len(u)
            n == Len(v)
            s == At0(w)
            r == At0(u)
            g == [i \in 1 .. n + 1 |-> s[m + i] - r[m + 1]]
<1>1. /\ IsCode(w) /\ Len(w) = m + n
      /\ \A i \in 1 .. m : w[i] = u[i]
      /\ \A i \in 1 .. n : w[m + i] = v[i]
  BY JoinIsCode
<1>2. m \in Nat /\ r[m + 1] = Size(u) /\ Size(u) \in Nat /\ m \in 0 .. m
  BY CodeSize
<1>3. n \in Nat /\ At0(v)[n + 1] = Size(v) /\ Size(v) \in Nat /\ n \in 0 .. n
  BY CodeSize
<1>. HIDE DEF w
<1>4. /\ s \in [1 .. m + n + 1 -> Nat] /\ s[1] = 0 /\ s[m + n + 1] = Size(w)
      /\ \A i \in 1 .. m + n : s[i + 1] = s[i] + w[i].len /\ w[i].len \in Nat
  <2>1. /\ s \in [1 .. Len(w) + 1 -> Nat] /\ s[1] = 0 /\ s[Len(w) + 1] = Size(w)
        /\ \A i \in 1 .. Len(w) : s[i + 1] = s[i] + w[i].len /\ w[i].len \in Nat
    BY <1>1, CodeSize
  <2>. HIDE DEF s, m, n
  <2>. QED BY <1>1, <2>1
<1>. HIDE DEF s, r, m, n
<1>5. \A i \in 1 .. m + 1 : s[i] = r[i]
  <2>1. ASSUME NEW i \in 1 .. m PROVE s[i + 1] = s[i] + u[i].len
    <3>1. i \in 1 .. m + n
      BY <1>2, <1>3
    <3>. QED BY <1>1, <1>4, <3>1
  <2>. QED BY <1>2, <1>4, <2>1, OnlyOffsets DEF m, r
<1>6. s[m + 1] = r[m + 1] /\ m + 1 \in 1 .. m + n + 1
  <2>1. m + 1 \in 1 .. m + 1 /\ m + 1 \in 1 .. m + n + 1
    BY <1>2, <1>3
  <2>. QED BY <1>5, <2>1
<1>7. \A i \in 1 .. n + 1 : g[i] = At0(v)[i]
  <2>1. g[1] = 0
    <3>1. s[m + 1] \in Nat /\ 1 \in 1 .. n + 1
      BY <1>3, <1>4, <1>6
    <3>. QED BY <1>6, <3>1
  <2>2. ASSUME NEW i \in 1 .. n PROVE g[i + 1] = g[i] + v[i].len
    <3>1. /\ i \in 1 .. n + 1 /\ i + 1 \in 1 .. n + 1 /\ m + i \in 1 .. m + n
          /\ m + i \in 1 .. m + n + 1 /\ m + (i + 1) = (m + i) + 1
      BY <1>2, <1>3
    <3>2. /\ s[m + i + 1] = s[m + i] + v[i].len /\ v[i].len \in Nat /\ s[m + i] \in Nat
          /\ r[m + 1] \in Nat
      BY <1>1, <1>2, <1>4, <3>1
    <3>3. g[i] = s[m + i] - r[m + 1] /\ g[i + 1] = s[m + i + 1] - r[m + 1]
      BY <3>1
    <3>. HIDE DEF g
    <3>. QED BY <3>2, <3>3
  <2>. HIDE DEF g
  <2>. QED BY <1>3, <2>1, <2>2, OnlyOffsets DEF n
<1>8. \A i \in 1 .. n + 1 : s[m + i] = Size(u) + At0(v)[i]
  <2>. SUFFICES ASSUME NEW i \in 1 .. n + 1 PROVE s[m + i] = Size(u) + At0(v)[i]
    OBVIOUS
  <2>1. m + i \in 1 .. m + n + 1
    BY <1>2, <1>3
  <2>2. g[i] = At0(v)[i] /\ g[i] = s[m + i] - Size(u) /\ s[m + i] \in Nat
    BY <1>2, <1>4, <1>7, <2>1
  <2>. HIDE DEF g
  <2>. QED BY <1>2, <2>2
<1>9. s[m + n + 1] = Size(u) + Size(v)
  <2>1. n + 1 \in 1 .. n + 1 /\ m + (n + 1) = m + n + 1
    BY <1>2, <1>3
  <2>. QED BY <1>3, <1>8, <2>1
<1>. QED BY <1>4, <1>5, <1>8, <1>9 DEF s, r, m, n, w

(* A byte of a sequence belongs to an instruction of it.                   *)
LEMMA ByteOf ==
  ASSUME NEW code, IsCode(code), NEW a \in Int, NEW b \in DOMAIN Bytes(code, a)
  PROVE  \E j \in DOMAIN code : \E k \in 0 .. code[j].len - 1 :
           b = a + At0(code)[j] + k /\ Bytes(code, a)[b] = [inst |-> code[j], at |-> k]
<1>1. b \in a .. a + Size(code) - 1
  BY BytesAreOfCode
<1>2. /\ Size(code) \in Nat /\ DOMAIN code = 1 .. Len(code) /\ Len(code) \in Nat
      /\ At0(code) \in [1 .. Len(code) + 1 -> Nat]
      /\ \A i \in DOMAIN code : code[i].len \in Nat
  BY CodeSize
<1>3. b - a \in 0 .. Size(code) - 1
  BY <1>1, <1>2
<1>4. PICK j \in DOMAIN code : b - a \in At0(code)[j] .. At0(code)[j] + code[j].len - 1
  BY <1>3, BytePlaces
<1>. DEFINE k == b - a - At0(code)[j]
<1>5. k \in 0 .. code[j].len - 1 /\ b = a + At0(code)[j] + k
  <2>1. At0(code)[j] \in Nat /\ code[j].len \in Nat /\ b \in Int
    BY <1>1, <1>2
  <2>. QED BY <1>4, <2>1
<1>. HIDE DEF k
<1>. QED BY <1>5, BytesAt

(* And their bytes.                                                        *)
LEMMA JoinBytes ==
  ASSUME NEW u, NEW v, IsCode(u), IsCode(v), NEW a \in Int
  PROVE  /\ \A b \in DOMAIN Bytes(u, a) :
              b \in DOMAIN Bytes(u \o v, a) /\ Bytes(u \o v, a)[b] = Bytes(u, a)[b]
         /\ \A b \in DOMAIN Bytes(v, a + Size(u)) :
              b \in DOMAIN Bytes(u \o v, a) /\ Bytes(u \o v, a)[b] = Bytes(v, a + Size(u))[b]
<1>. DEFINE w == u \o v
            m == Len(u)
<1>1. /\ IsCode(w) /\ Len(w) = m + Len(v)
      /\ \A i \in 1 .. m : w[i] = u[i]
      /\ \A i \in 1 .. Len(v) : w[m + i] = v[i]
  BY JoinIsCode
<1>2. /\ \A i \in 1 .. m + 1 : At0(w)[i] = At0(u)[i]
      /\ \A i \in 1 .. Len(v) + 1 : At0(w)[m + i] = Size(u) + At0(v)[i]
  BY JoinOffsets
<1>3. /\ m \in Nat /\ DOMAIN u = 1 .. m /\ Len(v) \in Nat /\ DOMAIN v = 1 .. Len(v)
      /\ At0(v) \in [1 .. Len(v) + 1 -> Nat] /\ Size(u) \in Nat
      /\ \A i \in DOMAIN v : v[i].len \in Nat
  BY CodeSize
<1>. HIDE DEF w
<1>4. DOMAIN w = 1 .. m + Len(v)
  BY <1>1, CodeSize
<1>. HIDE DEF m
<1>5. ASSUME NEW b \in DOMAIN Bytes(u, a)
      PROVE  b \in DOMAIN Bytes(w, a) /\ Bytes(w, a)[b] = Bytes(u, a)[b]
  <2>10. PICK j \in DOMAIN u : \E k \in 0 .. u[j].len - 1 :
           b = a + At0(u)[j] + k /\ Bytes(u, a)[b] = [inst |-> u[j], at |-> k]
    BY ByteOf
  <2>1. PICK k \in 0 .. u[j].len - 1 :
          b = a + At0(u)[j] + k /\ Bytes(u, a)[b] = [inst |-> u[j], at |-> k]
    BY <2>10
  <2>2. j \in DOMAIN w /\ w[j] = u[j] /\ At0(w)[j] = At0(u)[j]
    BY <1>1, <1>2, <1>3, <1>4
  <2>3. k \in 0 .. w[j].len - 1
    BY <2>2
  <2>4. /\ a + At0(w)[j] + k \in DOMAIN Bytes(w, a)
        /\ Bytes(w, a)[a + At0(w)[j] + k] = [inst |-> w[j], at |-> k]
    BY <1>1, <2>2, <2>3, BytesAt
  <2>. QED BY <2>1, <2>2, <2>4
<1>6. ASSUME NEW b \in DOMAIN Bytes(v, a + Size(u))
      PROVE  b \in DOMAIN Bytes(w, a) /\ Bytes(w, a)[b] = Bytes(v, a + Size(u))[b]
  <2>. DEFINE z == a + Size(u)
  <2>0. z \in Int
    BY <1>3
  <2>10. PICK j \in DOMAIN v : \E k \in 0 .. v[j].len - 1 :
           b = z + At0(v)[j] + k /\ Bytes(v, z)[b] = [inst |-> v[j], at |-> k]
    BY <2>0, ByteOf
  <2>1. PICK k \in 0 .. v[j].len - 1 :
          b = z + At0(v)[j] + k /\ Bytes(v, z)[b] = [inst |-> v[j], at |-> k]
    BY <2>10
  <2>2. m + j \in DOMAIN w /\ w[m + j] = v[j] /\ At0(w)[m + j] = Size(u) + At0(v)[j]
    BY <1>1, <1>2, <1>3, <1>4, SMTT(30)
  <2>3. k \in 0 .. w[m + j].len - 1
    BY <2>2
  <2>4. /\ a + At0(w)[m + j] + k \in DOMAIN Bytes(w, a)
        /\ Bytes(w, a)[a + At0(w)[m + j] + k] = [inst |-> w[m + j], at |-> k]
    <3>. DEFINE i == m + j
    <3>1. i \in DOMAIN w /\ k \in 0 .. w[i].len - 1
      BY <2>2, <2>3
    <3>. HIDE DEF i
    <3>2. /\ a + At0(w)[i] + k \in DOMAIN Bytes(w, a)
          /\ Bytes(w, a)[a + At0(w)[i] + k] = [inst |-> w[i], at |-> k]
      BY <1>1, <3>1, BytesAt
    <3>. QED BY <3>2 DEF i
  <2>5. a + At0(w)[m + j] + k = b
    <3>1. At0(v)[j] \in Nat /\ k \in Int
      BY <1>3
    <3>. QED BY <1>3, <2>1, <2>2, <3>1
  <2>. QED BY <2>1, <2>2, <2>4, <2>5
<1>. QED BY <1>5, <1>6 DEF w

-----------------------------------------------------------------------------
(* The branches that are written at an entry, and what pads them.          *)

(* What both architectures say of bytes is what CodeBytes says.            *)
LEMMA SameBytes ==
  /\ X!Bad = Bad /\ R!Bad = Bad
  /\ \A code : X!Size(code) = Size(code) /\ R!Size(code) = Size(code)
  /\ \A m, a : X!Decode(m, a) = Decode(m, a) /\ R!Decode(m, a) = Decode(m, a)
  /\ \A n : X!Nop(n) = Nop(n) /\ R!Nop(n) = Nop(n)
<1>1. X!Bad = Bad /\ R!Bad = Bad
  BY DEF X!Bad, R!Bad, Bad, X!I, R!I, I
<1>2. \A code : X!Size(code) = Size(code) /\ R!Size(code) = Size(code)
  BY DEF X!Size, R!Size, Size, X!Offsets, R!Offsets, Offsets, X!Lengths, R!Lengths, Lengths
<1>3. \A m, a : X!Decode(m, a) = Decode(m, a) /\ R!Decode(m, a) = Decode(m, a)
  BY <1>1 DEF X!Decode, R!Decode, Decode
<1>4. \A n : X!Nop(n) = Nop(n) /\ R!Nop(n) = Nop(n)
  BY DEF X!Nop, R!Nop, Nop, X!I, R!I, I
<1>. QED BY <1>1, <1>2, <1>3, <1>4

LEMMA InstFields ==
  ASSUME NEW op, NEW len, NEW arg, NEW x
  PROVE  /\ I(op, len, arg, x).len = len /\ I(op, len, arg, x).op = op
         /\ X!I(op, len, arg, x) = I(op, len, arg, x) /\ R!I(op, len, arg, x) = I(op, len, arg, x)
         /\ (op # "bad" => I(op, len, arg, x) # Bad)
BY DEF I, X!I, R!I, Bad

(* A sequence of instructions of four bytes, none of them bad.             *)
LEMMA Fours ==
  ASSUME NEW code, NEW n \in Nat \ {0}, IsSequence(code), Len(code) = n,
         \A i \in 1 .. n : code[i].len = 4 /\ code[i] # Bad
  PROVE  /\ IsCode(code) /\ Size(code) = 4 * n
         /\ \A i \in DOMAIN code : code[i] # Bad /\ code[i].len = 4
<1>1. IsCode(code) /\ \A i \in DOMAIN code : code[i].len = 4 /\ code[i] # Bad
  BY DEF IsCode, IsSequence
<1>. QED BY <1>1, SizeOfSame

(* The branch into the hook is decodable code of the long cut's size.      *)
LEMMA LongBranchIsSound ==
  ASSUME NEW to
  PROVE  Sound(BranchInto(to)) /\ Size(BranchInto(to)) = LongCut
<1>1. CASE amd64
  <2>. DEFINE u == <<X!rdxMOV(to)>>
              v == <<X!I("hookset", 2, 0, 0)>>
              e == <<X!rdxMOV(to), X!I("hookset", 2, 0, 0)>>
  <2>1. BranchInto(to) = e
    BY <1>1 DEF BranchInto, X!BranchInto
  <2>2. /\ e[1].len = 10 /\ e[2].len = 2 /\ e[1] # Bad /\ e[2] # Bad
        /\ Len(e) = 2 /\ DOMAIN e = 1 .. 2
    BY InstFields DEF X!rdxMOV
  <2>3. IsSequence(e)
    BY DEF IsSequence
  <2>. HIDE DEF e
  <2>4. \A i \in DOMAIN e : i = 1 \/ i = 2
    BY <2>2
  <2>5. IsCode(e)
    BY <2>2, <2>3, <2>4 DEF IsCode
  <2>6. Sound(e)
    BY <1>1, <2>2, <2>4, <2>5 DEF Sound, Lens
  <2>7. /\ At0(e)[1] = 0 /\ At0(e)[1 + 1] = At0(e)[1] + e[1].len
        /\ At0(e)[2 + 1] = At0(e)[2] + e[2].len /\ At0(e)[2 + 1] = Size(e)
    <3>1. 1 \in 1 .. Len(e) /\ 2 \in 1 .. Len(e)
      BY <2>2
    <3>. QED BY <2>2, <2>5, <3>1, CodeSize
  <2>8. Size(e) = 12
    BY <2>2, <2>7
  <2>. QED BY <1>1, <2>1, <2>6, <2>8 DEF LongCut
<1>2. CASE ~amd64
  <2>. DEFINE u == R!x26MOV(to)
              v == <<R!A("ldrset", 0, 0), R!A("hookset", 0, 0)>>
  <2>1. BranchInto(to) = u \o v
    BY <1>2 DEF BranchInto, R!BranchInto
  <2>2. IsSequence(u) /\ Len(u) = 4
    BY DEF IsSequence, R!x26MOV, R!MoveAddress
  <2>3. \A i \in 1 .. 4 : u[i].len = 4 /\ u[i] # Bad
    BY InstFields DEF R!x26MOV, R!MoveAddress, R!A
  <2>4. IsSequence(v) /\ Len(v) = 2
    BY DEF IsSequence
  <2>5. \A i \in 1 .. 2 : v[i].len = 4 /\ v[i] # Bad
    BY InstFields DEF R!A
  <2>. HIDE DEF u, v
  <2>60. IsCode(u) /\ Size(u) = 16 /\ \A i \in DOMAIN u : u[i] # Bad /\ u[i].len = 4
    <3>1. IsCode(u) /\ Size(u) = 4 * 4 /\ \A i \in DOMAIN u : u[i] # Bad /\ u[i].len = 4
      <4>1. 4 \in Nat \ {0}
        OBVIOUS
      <4>. QED BY <2>2, <2>3, <4>1, Fours, Zenon
    <3>. QED BY <3>1
  <2>61. IsCode(v) /\ Size(v) = 8 /\ \A i \in DOMAIN v : v[i] # Bad /\ v[i].len = 4
    <3>1. IsCode(v) /\ Size(v) = 4 * 2 /\ \A i \in DOMAIN v : v[i] # Bad /\ v[i].len = 4
      <4>1. 2 \in Nat \ {0}
        OBVIOUS
      <4>. QED BY <2>4, <2>5, <4>1, Fours, Zenon
    <3>. QED BY <3>1
  <2>7. IsCode(u \o v) /\ Size(u \o v) = 24
    BY <2>60, <2>61, JoinIsCode, JoinOffsets
  <2>8. \A i \in DOMAIN (u \o v) : (u \o v)[i] # Bad /\ (u \o v)[i].len = 4
    BY <2>60, <2>61, JoinedFrom
  <2>. QED BY <1>2, <2>1, <2>7, <2>8 DEF Sound, Lens, LongCut
<1>. QED BY <1>1, <1>2

LEMMA OneIsSound ==
  ASSUME NEW i, i.len \in Lens, i # Bad, i.len \in {1, 4, 5}
  PROVE  Sound(<<i>>) /\ Size(<<i>>) = i.len
<1>. DEFINE e == <<i>>
<1>1. IsSequence(e) /\ Len(e) = 1 /\ DOMAIN e = 1 .. 1 /\ e[1] = i
  BY DEF IsSequence
<1>. HIDE DEF e
<1>2. \A k \in DOMAIN e : e[k] = i
  BY <1>1
<1>3. i.len \in Nat \ {0}
  OBVIOUS
<1>4. IsCode(e)
  BY <1>1, <1>2, <1>3 DEF IsCode
<1>5. Size(e) = i.len * 1
  BY <1>1, <1>2, <1>4, SizeOfSame
<1>. QED BY <1>2, <1>3, <1>4, <1>5 DEF Sound, e

(* So is a short branch, when there is one.                                *)
LEMMA ShortBranchesAreSound ==
  ASSUME NEW from, NEW to
  PROVE  /\ amd64 /\ X!BranchIntoShort(from, to) # <<>> =>
              Sound(X!BranchIntoShort(from, to)) /\ Size(X!BranchIntoShort(from, to)) = 5
         /\ ~amd64 /\ R!ShortBranchTo(from, to) # <<>> =>
              Sound(R!ShortBranchTo(from, to)) /\ Size(R!ShortBranchTo(from, to)) = 4
<1>1. ASSUME amd64, X!BranchIntoShort(from, to) # <<>>
      PROVE  Sound(X!BranchIntoShort(from, to)) /\ Size(X!BranchIntoShort(from, to)) = 5
  <2>. DEFINE i == X!I("jmp32", 5, to - (from + 5), 0)
  <2>1. X!BranchIntoShort(from, to) = <<i>>
    BY <1>1 DEF X!BranchIntoShort, X!ShortBranchSize
  <2>2. i.len = 5 /\ i # Bad
    BY InstFields
  <2>. HIDE DEF i
  <2>3. i.len \in Lens
    BY <1>1, <2>2 DEF Lens
  <2>. QED BY <2>1, <2>2, <2>3, OneIsSound
<1>2. ASSUME ~amd64, R!ShortBranchTo(from, to) # <<>>
      PROVE  Sound(R!ShortBranchTo(from, to)) /\ Size(R!ShortBranchTo(from, to)) = 4
  <2>. DEFINE i == R!A("b", to - from, 0)
  <2>1. R!ShortBranchTo(from, to) = <<i>>
    BY <1>2 DEF R!ShortBranchTo
  <2>2. i.len = 4 /\ i # Bad
    BY InstFields DEF R!A
  <2>. HIDE DEF i
  <2>3. i.len \in Lens
    BY <1>2, <2>2 DEF Lens
  <2>. QED BY <2>1, <2>2, <2>3, OneIsSound
<1>. QED BY <1>1, <1>2

(* A sequence of n equal instructions of one byte.                         *)
LEMMA OnesAreCode ==
  ASSUME NEW i, i.len = 1, NEW n \in Nat
  PROVE  /\ IsCode([k \in 1 .. n |-> i]) /\ Size([k \in 1 .. n |-> i]) = n
         /\ \A k \in DOMAIN [l \in 1 .. n |-> i] : [l \in 1 .. n |-> i][k] = i
<1>. DEFINE e == [k \in 1 .. n |-> i]
<1>1. IsSequence(e) /\ Len(e) = n /\ DOMAIN e = 1 .. n /\ \A k \in 1 .. n : e[k] = i
  BY DEF IsSequence
<1>. HIDE DEF e
<1>2. \A k \in DOMAIN e : e[k].len = 1 /\ e[k].len \in Nat \ {0} /\ e[k] = i
  BY <1>1
<1>3. IsCode(e)
  BY <1>1, <1>2 DEF IsCode
<1>4. Size(e) = 1 * n
  BY <1>1, <1>2, <1>3, SizeOfSame
<1>5. Size(e) = n
  BY <1>4
<1>. QED BY <1>2, <1>3, <1>5 DEF e

(* So are the NOPs behind it.                                              *)
LEMMA NopsAreSound ==
  ASSUME amd64, NEW n \in Nat
  PROVE  /\ Sound([k \in 1 .. n |-> X!Nop(1)])
         /\ Size([k \in 1 .. n |-> X!Nop(1)]) = n
<1>. DEFINE e == [k \in 1 .. n |-> X!Nop(1)]
<1>1. X!Nop(1).len = 1 /\ X!Nop(1) # Bad
  BY InstFields DEF X!Nop
<1>2. IsCode(e) /\ Size(e) = n /\ \A k \in DOMAIN e : e[k] = X!Nop(1)
  BY <1>1, OnesAreCode
<1>. HIDE DEF e
<1>3. Lens = 1 .. 15
  BY DEF Lens
<1>. QED BY <1>1, <1>2, <1>3 DEF Sound, e

(* The padded entry is as long as the cut, and nothing in it is bad.       *)
LEMMA PadFillsCut ==
  ASSUME NEW e, Sound(e), NEW c \in Nat, Size(e) <= c, amd64 \/ Size(e) = c
  PROVE  Sound(PadEntry(e, c)) /\ Size(PadEntry(e, c)) = c
<1>1. Size(e) \in Nat /\ IsCode(e)
  BY CodeSize DEF Sound
<1>2. CASE Size(e) = c
  <2>1. PadEntry(e, c) = e
    BY <1>1, <1>2, SameBytes DEF PadEntry, X!PadEntry, R!PadEntry
  <2>. QED BY <1>2, <2>1
<1>3. CASE Size(e) # c
  <2>1. amd64 /\ ~(Size(e) >= c) /\ c - Size(e) \in Nat
    BY <1>1, <1>3
  <2>. DEFINE n == c - Size(e)
              v == [k \in 1 .. n |-> X!Nop(1)]
  <2>2. PadEntry(e, c) = e \o v
    BY <2>1, SameBytes DEF PadEntry, X!PadEntry
  <2>3. Sound(v) /\ Size(v) = n
    BY <2>1, NopsAreSound
  <2>4. n \in Nat /\ Size(e) + n = c
    BY <1>1, <2>1
  <2>. HIDE DEF v, n
  <2>5. Size(e \o v) = c /\ IsCode(e \o v)
    BY <1>1, <2>3, <2>4, JoinOffsets, JoinIsCode DEF Sound
  <2>6. \A i \in DOMAIN (e \o v) : (e \o v)[i] # Bad /\ (e \o v)[i].len \in Lens
    BY <2>3, JoinedFrom DEF Sound
  <2>. QED BY <2>2, <2>5, <2>6 DEF Sound
<1>. QED BY <1>2, <1>3

-----------------------------------------------------------------------------
(* Reading instructions back.                                              *)

(* Decode reads only the bytes of the instruction it returns.              *)
LEMMA DecodeReads ==
  ASSUME NEW m, NEW w, NEW b \in Int, NEW l \in Nat \ {0},
         Decode(m, b) # Bad, Decode(m, b).len = l,
         \A c \in b .. b + l - 1 : c \in DOMAIN w /\ (c \in DOMAIN m => w[c] = m[c])
  PROVE  Decode(w, b) = Decode(m, b)
<1>1. /\ b \in DOMAIN m /\ m[b].at = 0 /\ Decode(m, b) = m[b].inst
      /\ \A k \in 1 .. l - 1 :
           b + k \in DOMAIN m /\ m[b + k] = [inst |-> m[b].inst, at |-> k]
  BY DEF Decode
<1>2. b \in DOMAIN w /\ w[b] = m[b]
  <2>1. b \in b .. b + l - 1
    OBVIOUS
  <2>. QED BY <1>1, <2>1
<1>3. ASSUME NEW k \in 1 .. l - 1
      PROVE  b + k \in DOMAIN w /\ w[b + k] = [inst |-> w[b].inst, at |-> k]
  <2>1. b + k \in b .. b + l - 1
    OBVIOUS
  <2>. QED BY <1>1, <1>2, <2>1
<1>. QED BY <1>1, <1>2, <1>3 DEF Decode

(* Instructions that were put at a are decoded there.                      *)
LEMMA DecodeBytes ==
  ASSUME NEW code, IsCode(code), NEW a \in Int, NEW w, NEW j \in DOMAIN code,
         \A b \in a .. a + Size(code) - 1 : b \in DOMAIN w /\ w[b] = Bytes(code, a)[b]
  PROVE  Decode(w, a + At0(code)[j]) = code[j]
<1>. DEFINE l == code[j].len
            p == a + At0(code)[j]
<1>1. /\ j \in 1 .. Len(code) /\ l \in Nat \ {0} /\ At0(code)[j] \in Nat
      /\ DOMAIN Bytes(code, a) = a .. a + Size(code) - 1
  <2>1. /\ DOMAIN code = 1 .. Len(code) /\ Len(code) \in Nat
        /\ At0(code) \in [1 .. Len(code) + 1 -> Nat]
        /\ \A i \in 1 .. Len(code) : code[i].len \in Nat \ {0}
    BY CodeSize
  <2>. QED BY <2>1, BytesAreOfCode
<1>. HIDE DEF l
<1>2. ASSUME NEW k \in 0 .. l - 1
      PROVE  p + k \in DOMAIN w /\ w[p + k] = [inst |-> code[j], at |-> k]
  <2>1. p + k \in DOMAIN Bytes(code, a) /\ Bytes(code, a)[p + k] = [inst |-> code[j], at |-> k]
    BY BytesAt DEF l
  <2>. HIDE DEF p
  <2>. QED BY <1>1, <2>1
<1>3. p \in DOMAIN w /\ w[p] = [inst |-> code[j], at |-> 0]
  <2>1. 0 \in 0 .. l - 1 /\ p + 0 = p
    BY <1>1
  <2>. QED BY <1>2, <2>1
<1>. HIDE DEF p
<1>4. \A k \in 1 .. l - 1 : p + k \in DOMAIN w /\ w[p + k] = [inst |-> w[p].inst, at |-> k]
  <2>. SUFFICES ASSUME NEW k \in 1 .. l - 1
                PROVE  p + k \in DOMAIN w /\ w[p + k] = [inst |-> w[p].inst, at |-> k]
    OBVIOUS
  <2>1. k \in 0 .. l - 1
    BY <1>1
  <2>. QED BY <1>2, <1>3, <2>1
<1>5. Decode(w, p) = code[j]
  BY <1>3, <1>4 DEF Decode, l
<1>. QED BY <1>5 DEF p

-----------------------------------------------------------------------------
(* The cut.                                                                *)

(* Where the branch, or instructions that the linker put there, may end    *)
(* the cut: from n bytes on nothing is known of the code.                  *)
Cuts(req, n, B) == {0} \cup {q \in req .. req + 14 : q <= n => Entry + q \in B}

(* A cut of amd64 is 0 or a mark within 14 bytes behind req.               *)
LEMMA Amd64Cuts ==
  ASSUME NEW m, NEW req \in Nat \ {0}, NEW chk \in BOOLEAN, NEW n \in Nat, NEW B,
         Entry \in Nat, Marks(m, Entry, n, B),
         \A b \in Entry .. Entry + req - 1 : b \in DOMAIN m => m[b].inst.len \in 1 .. 15
  PROVE  X!Disassemble(m, Entry, req, chk) \in Cuts(req, n, B)
<1>. DEFINE hi == req + 15
            D(p) == X!Decode(m, Entry + p)
            IsTail(f) == f = [p \in 0 .. req + 15 |->
                             IF p >= req THEN p
                             ELSE IF (chk /\ D(p).op # "int3") \/ D(p) = X!Bad THEN 0
                             ELSE f[p + D(p).len]]
            tail == CHOOSE f : IsTail(f)
            IsWalk(f) == f = [p \in 0 .. req + 15 |->
                             IF p >= req THEN p
                             ELSE IF D(p) = X!Bad THEN 0
                             ELSE IF D(p).op = "ret" THEN tail[p + D(p).len]
                             ELSE f[p + D(p).len]]
            walk == CHOOSE f : IsWalk(f)
            next == [p \in 0 .. hi |-> p + D(p).len]
            stopT == {p \in 0 .. hi : p >= req \/ (chk /\ D(p).op # "int3") \/ D(p) = X!Bad}
            valT == [p \in 0 .. hi |-> IF p >= req THEN p ELSE 0]
            stopW == {p \in 0 .. hi : p >= req \/ D(p) = X!Bad \/ D(p).op = "ret"}
            valW == [p \in 0 .. hi |-> IF p >= req THEN p
                                       ELSE IF D(p) = X!Bad THEN 0 ELSE tail[next[p]]]
            P == {p \in 0 .. req + 14 : p <= n => Entry + p \in B}
            Q == Cuts(req, n, B)
<1>1. X!Disassemble(m, Entry, req, chk) = walk[0]
  BY DEF X!Disassemble
<1>. HIDE DEF IsTail, tail, IsWalk, walk, next, stopT, valT, stopW, valW, P, Q
<1>2. ASSUME NEW p \in 0 .. hi, p < req
      PROVE  D(p) # X!Bad => D(p).len \in 1 .. 15 /\ D(p) = Decode(m, Entry + p) /\ D(p) # Bad
  <2>1. D(p) = Decode(m, Entry + p) /\ X!Bad = Bad
    BY SameBytes
  <2>2. Entry + p \in Entry .. Entry + req - 1
    <3>. HIDE DEF D
    <3>1. p \in Int /\ 0 <= p /\ p <= req - 1 /\ req \in Int
      BY <1>2
    <3>. QED BY <3>1
  <2>3. Decode(m, Entry + p) # Bad =>
          Entry + p \in DOMAIN m /\ Decode(m, Entry + p) = m[Entry + p].inst
    BY DEF Decode
  <2>. HIDE DEF D
  <2>. QED BY <2>1, <2>2, <2>3
<1>3. hi \in Int /\ 0 <= hi /\ 0 \in Int
  OBVIOUS
<1>. HIDE DEF D
<1>4. \A p \in 0 .. hi : p < req /\ D(p) # X!Bad => next[p] \in p + 1 .. hi /\ next[p] <= req + 14
  <2>. SUFFICES ASSUME NEW p \in 0 .. hi, p < req, D(p) # X!Bad
                PROVE  next[p] \in p + 1 .. hi /\ next[p] <= req + 14
    OBVIOUS
  <2>1. D(p).len \in 1 .. 15 /\ next[p] = p + D(p).len
    BY <1>2 DEF next
  <2>. QED BY <2>1
<1>5. 0 \in P /\ P \subseteq 0 .. hi
  BY DEF Marks, P
<1>6. \A p \in P : p < req /\ D(p) # X!Bad => next[p] \in P /\ next[p] > p
  <2>. SUFFICES ASSUME NEW p \in P, p < req, D(p) # X!Bad PROVE next[p] \in P /\ next[p] > p
    OBVIOUS
  <2>1. p \in 0 .. hi /\ p \in Nat
    BY <1>5
  <2>2. /\ D(p).len \in 1 .. 15 /\ D(p) = Decode(m, Entry + p) /\ D(p) # Bad
        /\ next[p] = p + D(p).len
    BY <1>2, <2>1 DEF next
  <2>3. next[p] \in p + 1 .. hi /\ next[p] <= req + 14
    BY <1>4, <2>1
  <2>. DEFINE l == D(p).len
  <2>4. next[p] <= n => Entry + next[p] \in B
    <3>. SUFFICES ASSUME next[p] <= n PROVE Entry + next[p] \in B
      OBVIOUS
    <3>1. p < n /\ p <= n
      BY <2>1, <2>3
    <3>2. Entry + p \in B /\ Entry + p < Entry + n
      BY <2>1, <3>1 DEF P
    <3>3. (Entry + p) + l \in B
      BY <2>2, <3>2 DEF Marks
    <3>4. (Entry + p) + l = Entry + next[p]
      <4>1. l \in Nat /\ next[p] = p + l
        BY <2>2
      <4>. HIDE DEF l
      <4>. QED BY <2>1, <4>1
    <3>. QED BY <3>3, <3>4
  <2>. QED BY <2>1, <2>3, <2>4 DEF P
<1>7. \A p \in P : p >= req => p \in Q
  BY DEF Cuts, P, Q
<1>8. IsTail(tail)
  <2>1. PICK f : Jumps(f, 0, hi, stopT, valT, next)
    <3>1. \A p \in (0 .. hi) \ stopT : next[p] \in p + 1 .. hi
      BY <1>4 DEF stopT
    <3>. HIDE DEF hi
    <3>. QED BY <1>3, <3>1, JumpsDefine
  <2>2. IsTail(f)
    <3>1. f = [p \in 0 .. hi |-> IF p \in stopT THEN valT[p] ELSE f[next[p]]]
      BY <2>1 DEF Jumps
    <3>2. ASSUME NEW p \in 0 .. hi
          PROVE  (IF p \in stopT THEN valT[p] ELSE f[next[p]])
                 = (IF p >= req THEN p
                    ELSE IF (chk /\ D(p).op # "int3") \/ D(p) = X!Bad THEN 0
                    ELSE f[p + D(p).len])
      BY DEF stopT, valT, next
    <3>. QED BY <3>1, <3>2 DEF IsTail
  <2>. QED BY <2>2, Zenon DEF tail
<1>9. Jumps(tail, 0, hi, stopT, valT, next)
  <2>1. tail = [p \in 0 .. hi |-> IF p >= req THEN p
                    ELSE IF (chk /\ D(p).op # "int3") \/ D(p) = X!Bad THEN 0
                    ELSE tail[p + D(p).len]]
    BY <1>8 DEF IsTail
  <2>2. ASSUME NEW p \in 0 .. hi
        PROVE  (IF p \in stopT THEN valT[p] ELSE tail[next[p]])
               = (IF p >= req THEN p
                  ELSE IF (chk /\ D(p).op # "int3") \/ D(p) = X!Bad THEN 0
                  ELSE tail[p + D(p).len])
    BY DEF stopT, valT, next
  <2>. QED BY <2>1, <2>2 DEF Jumps
<1>10. \A p \in P : tail[p] \in Q
  <2>1. \A p \in P \cap stopT : valT[p] \in Q
    <3>. SUFFICES ASSUME NEW p \in P, p \in stopT PROVE valT[p] \in Q
      OBVIOUS
    <3>1. valT[p] = IF p >= req THEN p ELSE 0
      BY <1>5 DEF valT
    <3>. QED BY <1>7, <3>1 DEF Cuts, Q
  <2>2. \A p \in P \ stopT : next[p] \in P /\ next[p] > p
    <3>. SUFFICES ASSUME NEW p \in P, p \notin stopT PROVE next[p] \in P /\ next[p] > p
      OBVIOUS
    <3>1. p \in 0 .. hi
      BY <1>5
    <3>2. p < req /\ D(p) # X!Bad
      BY <3>1 DEF stopT
    <3>. QED BY <1>6, <3>2
  <2>. HIDE DEF hi
  <2>3. StaysIn(P, Q, 0, hi, stopT, valT, next)
    BY <1>5, <2>1, <2>2 DEF StaysIn
  <2>. QED BY <1>3, <1>9, <2>3, JumpsEndIn
<1>11. IsWalk(walk)
  <2>1. PICK f : Jumps(f, 0, hi, stopW, valW, next)
    <3>1. \A p \in (0 .. hi) \ stopW : next[p] \in p + 1 .. hi
      BY <1>4 DEF stopW
    <3>. HIDE DEF hi
    <3>. QED BY <1>3, <3>1, JumpsDefine
  <2>2. IsWalk(f)
    <3>1. f = [p \in 0 .. hi |-> IF p \in stopW THEN valW[p] ELSE f[next[p]]]
      BY <2>1 DEF Jumps
    <3>2. ASSUME NEW p \in 0 .. hi
          PROVE  (IF p \in stopW THEN valW[p] ELSE f[next[p]])
                 = (IF p >= req THEN p
                    ELSE IF D(p) = X!Bad THEN 0
                    ELSE IF D(p).op = "ret" THEN tail[p + D(p).len]
                    ELSE f[p + D(p).len])
      BY DEF stopW, valW, next
    <3>. QED BY <3>1, <3>2 DEF IsWalk
  <2>. QED BY <2>2, Zenon DEF walk
<1>12. Jumps(walk, 0, hi, stopW, valW, next)
  <2>1. walk = [p \in 0 .. hi |-> IF p >= req THEN p
                    ELSE IF D(p) = X!Bad THEN 0
                    ELSE IF D(p).op = "ret" THEN tail[p + D(p).len]
                    ELSE walk[p + D(p).len]]
    BY <1>11 DEF IsWalk
  <2>2. ASSUME NEW p \in 0 .. hi
        PROVE  (IF p \in stopW THEN valW[p] ELSE walk[next[p]])
               = (IF p >= req THEN p
                  ELSE IF D(p) = X!Bad THEN 0
                  ELSE IF D(p).op = "ret" THEN tail[p + D(p).len]
                  ELSE walk[p + D(p).len])
    BY DEF stopW, valW, next
  <2>. QED BY <2>1, <2>2 DEF Jumps
<1>13. \A p \in P : walk[p] \in Q
  <2>1. \A p \in P \cap stopW : valW[p] \in Q
    <3>. SUFFICES ASSUME NEW p \in P, p \in stopW PROVE valW[p] \in Q
      OBVIOUS
    <3>1. valW[p] = IF p >= req THEN p ELSE IF D(p) = X!Bad THEN 0 ELSE tail[next[p]]
      BY <1>5 DEF valW
    <3>2. ~(p >= req) /\ D(p) # X!Bad => next[p] \in P
      <4>1. p \in Int
        BY <1>5
      <4>. QED BY <1>6, <4>1
    <3>3. 0 \in Q
      BY DEF Cuts, Q
    <3>. QED BY <1>7, <1>10, <3>1, <3>2, <3>3
  <2>2. \A p \in P \ stopW : next[p] \in P /\ next[p] > p
    <3>. SUFFICES ASSUME NEW p \in P, p \notin stopW PROVE next[p] \in P /\ next[p] > p
      OBVIOUS
    <3>1. p \in 0 .. hi
      BY <1>5
    <3>2. p < req /\ D(p) # X!Bad
      BY <3>1 DEF stopW
    <3>. QED BY <1>6, <3>2
  <2>. HIDE DEF hi
  <2>3. StaysIn(P, Q, 0, hi, stopW, valW, next)
    BY <1>5, <2>1, <2>2 DEF StaysIn
  <2>. QED BY <1>3, <1>12, <2>3, JumpsEndIn
<1>. QED BY <1>1, <1>5, <1>13 DEF Q

(* A cut of arm64 is 0 or what is asked for.                               *)
LEMMA Arm64Cuts ==
  ASSUME NEW m, NEW chk \in BOOLEAN, NEW n \in Nat, NEW B,
         Entry \in Nat, Marks(m, Entry, n, B),
         \A b \in B : b < Entry + n => Decode(m, b).len = 4
  PROVE  /\ R!Disassemble(m, Entry, 24, chk) \in Cuts(24, n, B)
         /\ R!Disassemble(m, Entry, 24, chk) \in {0, 24}
<1>. DEFINE no(p) == chk /\ (R!Decode(m, Entry + p) = R!Bad \/ R!Decode(m, Entry + p).op = "ret")
            IsWalk(f) == f = [p \in 0 .. 24 + 3 |->
                               IF p >= 24 THEN p
                               ELSE IF chk /\ (R!Decode(m, Entry + p) = R!Bad
                                               \/ R!Decode(m, Entry + p).op = "ret") THEN 0
                               ELSE f[p + 4]]
            walk == CHOOSE f : IsWalk(f)
            next == [p \in 0 .. 27 |-> p + 4]
            stop == {p \in 0 .. 27 : p >= 24 \/ no(p)}
            val == [p \in 0 .. 27 |-> IF p >= 24 THEN p ELSE 0]
            P == {p \in {0, 4, 8, 12, 16, 20, 24} : p <= n => Entry + p \in B}
            Q == {q \in {0, 24} : q # 0 /\ q <= n => Entry + q \in B}
<1>1. R!Disassemble(m, Entry, 24, chk) = walk[0]
  BY DEF R!Disassemble
<1>. HIDE DEF IsWalk, walk, next, stop, val, P, Q
<1>2. \A p \in P \ stop : next[p] \in P /\ next[p] > p
  <2>. SUFFICES ASSUME NEW p \in P, p \notin stop PROVE next[p] \in P /\ next[p] > p
    OBVIOUS
  <2>1. p \in {0, 4, 8, 12, 16, 20, 24} /\ (p <= n => Entry + p \in B)
    BY DEF P
  <2>. HIDE DEF no
  <2>2. p < 24 /\ next[p] = p + 4
    BY <2>1 DEF stop, next
  <2>3. p + 4 \in {4, 8, 12, 16, 20, 24}
    BY <2>1, <2>2
  <2>4. p + 4 <= n => Entry + (p + 4) \in B
    <3>. SUFFICES ASSUME p + 4 <= n PROVE Entry + (p + 4) \in B
      OBVIOUS
    <3>1. p \in Nat /\ p <= n /\ Entry + p < Entry + n
      BY <2>1
    <3>2. Entry + p \in B /\ (Entry + p) + Decode(m, Entry + p).len \in B
      BY <2>1, <3>1 DEF Marks
    <3>3. Decode(m, Entry + p).len = 4
      BY <3>1, <3>2
    <3>4. (Entry + p) + 4 = Entry + (p + 4)
      BY <3>1
    <3>. QED BY <3>2, <3>3, <3>4
  <2>. QED BY <2>1, <2>2, <2>3, <2>4 DEF P
<1>3. \A p \in P \cap stop : val[p] \in Q
  <2>. SUFFICES ASSUME NEW p \in P PROVE val[p] \in Q
    OBVIOUS
  <2>1. p \in {0, 4, 8, 12, 16, 20, 24} /\ (p <= n => Entry + p \in B)
    BY DEF P
  <2>2. val[p] = IF p >= 24 THEN p ELSE 0
    BY <2>1 DEF val
  <2>. QED BY <2>1, <2>2 DEF Q
<1>4. 0 \in P /\ P \subseteq 0 .. 27
  BY DEF P, Marks
<1>5. IsWalk(walk)
  <2>1. PICK f : Jumps(f, 0, 27, stop, val, next)
    <3>1. \A p \in (0 .. 27) \ stop : next[p] \in p + 1 .. 27
      BY DEF stop, next
    <3>. DEFINE hi == 27
    <3>2. /\ 0 \in Int /\ hi \in Int /\ 0 <= hi
          /\ \A p \in (0 .. hi) \ stop : next[p] \in p + 1 .. hi
      BY <3>1
    <3>. HIDE DEF hi
    <3>3. \E f : Jumps(f, 0, hi, stop, val, next)
      BY <3>2, JumpsDefine
    <3>. QED BY <3>3 DEF hi
  <2>2. IsWalk(f)
    <3>1. f = [p \in 0 .. 27 |-> IF p \in stop THEN val[p] ELSE f[next[p]]]
      BY <2>1 DEF Jumps
    <3>2. ASSUME NEW p \in 0 .. 27
          PROVE  (IF p \in stop THEN val[p] ELSE f[next[p]])
                 = (IF p >= 24 THEN p ELSE IF no(p) THEN 0 ELSE f[p + 4])
      <4>. HIDE DEF no
      <4>. QED BY DEF stop, val, next
    <3>3. 24 + 3 = 27
      OBVIOUS
    <3>. QED BY <3>1, <3>2, <3>3 DEF IsWalk
  <2>. QED BY <2>2, Zenon DEF walk
<1>6. Jumps(walk, 0, 27, stop, val, next)
  <2>1. walk = [p \in 0 .. 27 |-> IF p >= 24 THEN p ELSE IF no(p) THEN 0 ELSE walk[p + 4]]
    <3>1. 24 + 3 = 27
      OBVIOUS
    <3>. QED BY <1>5, <3>1 DEF IsWalk
  <2>. HIDE DEF no
  <2>2. ASSUME NEW p \in 0 .. 27
        PROVE  (IF p \in stop THEN val[p] ELSE walk[next[p]])
               = (IF p >= 24 THEN p ELSE IF no(p) THEN 0 ELSE walk[p + 4])
    BY DEF stop, val, next
  <2>. QED BY <2>1, <2>2 DEF Jumps
<1>7. \A p \in P : walk[p] \in Q
  <2>. DEFINE hi == 27
  <2>1. StaysIn(P, Q, 0, hi, stop, val, next) /\ Jumps(walk, 0, hi, stop, val, next)
    BY <1>2, <1>3, <1>4, <1>6 DEF StaysIn
  <2>2. 0 \in Int /\ hi \in Int
    OBVIOUS
  <2>. HIDE DEF hi
  <2>. QED BY <2>1, <2>2, JumpsEndIn
<1>8. walk[0] \in Q
  BY <1>4, <1>7
<1>. QED BY <1>1, <1>8 DEF Q, Cuts

(* Instructions that were put at a begin and end where they should.        *)
LEMMA WholeOfCode ==
  ASSUME NEW code, Sound(code), NEW a \in Int, NEW w,
         \A b \in a .. a + Size(code) - 1 : b \in DOMAIN w /\ w[b] = Bytes(code, a)[b]
  PROVE  Whole(w, a, Size(code))
<1>. DEFINE s == At0(code)
            N == Len(code)
            B == {a + s[i] : i \in 1 .. N + 1}
<1>1. /\ IsCode(code) /\ N \in Nat /\ DOMAIN code = 1 .. N /\ Size(code) \in Nat
      /\ s \in [1 .. N + 1 -> Nat] /\ s[1] = 0 /\ s[N + 1] = Size(code)
      /\ \A i \in 1 .. N : code[i].len \in Nat \ {0} /\ s[i + 1] = s[i] + code[i].len
      /\ \A i \in 1 .. N + 1 : \A h \in 1 .. i : s[h] <= s[i]
  BY CodeSize DEF Sound
<1>2. \A i \in 1 .. N : Decode(w, a + s[i]) = code[i] /\ code[i] # Bad
  <2>1. \A i \in DOMAIN code : Decode(w, a + At0(code)[i]) = code[i]
    BY <1>1, DecodeBytes, ZenonT(30)
  <2>. QED BY <1>1, <2>1 DEF Sound
<1>. HIDE DEF s, N
<1>3. N + 1 \in 1 .. N + 1 /\ 1 \in 1 .. N + 1
  BY <1>1
<1>4. B \subseteq a .. a + Size(code)
  <2>. SUFFICES ASSUME NEW i \in 1 .. N + 1 PROVE a + s[i] \in a .. a + Size(code)
    OBVIOUS
  <2>1. s[i] \in Nat /\ s[i] <= s[N + 1]
    BY <1>1, <1>3
  <2>. QED BY <1>1, <2>1
<1>5. a \in B /\ a + Size(code) \in B
  <2>1. a = a + s[1] /\ a + Size(code) = a + s[N + 1]
    BY <1>1
  <2>. QED BY <1>3, <2>1
<1>6. ASSUME NEW b \in B, b < a + Size(code)
      PROVE  Decode(w, b) # Bad /\ b + Decode(w, b).len \in B
  <2>1. PICK i \in 1 .. N + 1 : b = a + s[i]
    OBVIOUS
  <2>2. i # N + 1
    BY <1>1, <1>6, <2>1
  <2>3. i \in 1 .. N /\ i + 1 \in 1 .. N + 1
    BY <1>1, <2>2
  <2>4. Decode(w, b) = code[i] /\ code[i] # Bad
    BY <1>2, <2>1, <2>3
  <2>5. b + code[i].len = a + s[i + 1]
    <3>1. s[i] \in Nat /\ code[i].len \in Nat /\ s[i + 1] = s[i] + code[i].len
      BY <1>1, <2>3
    <3>. QED BY <2>1, <3>1
  <2>. QED BY <2>3, <2>4, <2>5
<1>. HIDE DEF B
<1>. QED BY <1>4, <1>5, <1>6 DEF Marks, Whole

(* New instructions up to a place where an old one begins.                 *)
LEMMA WholeBehind ==
  ASSUME NEW m, NEW w, NEW a \in Int, NEW c \in Nat, NEW n \in Nat, c <= n,
         Whole(w, a, c), NEW B, Marks(m, a, n, B), a + c \in B,
         \A b \in B : b < a + n => Decode(m, b).len \in Nat \ {0},
         \A b \in a + c .. a + n - 1 : b \in DOMAIN w /\ (b \in DOMAIN m => w[b] = m[b])
  PROVE  Whole(w, a, n)
<1>1. PICK A : Marks(w, a, c, A)
  BY DEF Whole
<1>. DEFINE C == A \cup {b \in B : b >= a + c}
<1>2. /\ B \subseteq a .. a + n /\ a + n \in B
      /\ \A b \in B : b < a + n => Decode(m, b) # Bad /\ b + Decode(m, b).len \in B
  BY DEF Marks
<1>3. /\ A \subseteq a .. a + c /\ a \in A /\ a + c \in A
      /\ \A b \in A : b < a + c => Decode(w, b) # Bad /\ b + Decode(w, b).len \in A
  BY <1>1 DEF Marks
<1>4. C \subseteq a .. a + n /\ a \in C /\ a + n \in C
  <2>1. A \subseteq a .. a + n
    <3>. SUFFICES ASSUME NEW b \in A PROVE b \in a .. a + n
      OBVIOUS
    <3>1. b \in a .. a + c
      BY <1>3
    <3>. QED BY <3>1
  <2>2. a + n \in C
    BY <1>2
  <2>. QED BY <1>2, <1>3, <2>1, <2>2
<1>5. ASSUME NEW b \in C, b < a + n
      PROVE  Decode(w, b) # Bad /\ b + Decode(w, b).len \in C
  <2>0. b \in Int
    BY <1>4
  <2>1. CASE b < a + c
    <3>1. b \in A
      BY <2>0, <2>1
    <3>. QED BY <1>3, <2>1, <3>1
  <2>2. CASE ~(b < a + c)
    <3>1. b \in B /\ b >= a + c
      BY <1>3, <2>0, <2>2
    <3>. DEFINE l == Decode(m, b).len
    <3>2. Decode(m, b) # Bad /\ b + l \in B /\ l \in Nat \ {0}
      BY <1>2, <1>5, <3>1
    <3>3. b + l <= a + n /\ b + l >= a + c
      <4>1. b + l \in a .. a + n /\ l \in Nat
        BY <1>2, <3>2
      <4>. HIDE DEF l
      <4>. QED BY <2>0, <3>1, <4>1
    <3>4. \A x \in b .. b + l - 1 : x \in DOMAIN w /\ (x \in DOMAIN m => w[x] = m[x])
      <4>. SUFFICES ASSUME NEW x \in b .. b + l - 1
                    PROVE  x \in a + c .. a + n - 1
        OBVIOUS
      <4>1. l \in Nat
        BY <3>2
      <4>. HIDE DEF l
      <4>. QED BY <2>0, <3>1, <3>3, <4>1
    <3>5. Decode(w, b) = Decode(m, b)
      BY <2>0, <3>2, <3>4, DecodeReads
    <3>. QED BY <3>2, <3>3, <3>5
  <2>. QED BY <2>1, <2>2
<1>. HIDE DEF C
<1>. QED BY <1>4, <1>5 DEF Marks, Whole

-----------------------------------------------------------------------------
(* The invariant: the layers of patches over the function.                 *)

(* What the assumptions say of a target.                                   *)
LEMMA TargetIsCode ==
  ASSUME target \in Functions
  PROVE  /\ IsCode(target.code) /\ \A i \in DOMAIN target.code : target.code[i].len \in Lens
         /\ Size(target.code) \in Nat /\ Size(target.code) >= 26
         /\ Entry \in Nat /\ target.arch \in {"amd64", "arm64", "darwin"}
<1>. DEFINE L == IF target.arch = "amd64" THEN 1 .. 15 ELSE {4}
            T == [op : STRING, arg : Int, x : Nat, len : L]
            code == target.code
<1>1. /\ target.arch \in {"amd64", "arm64", "darwin"}
      /\ code \in Seq(T) /\ Size(code) >= MaxCut
  BY TargetAssumption
<1>2. L = Lens /\ L \subseteq Nat \ {0}
  BY DEF Lens, amd64
<1>3. \A t \in T : t.len \in L
  OBVIOUS
<1>. HIDE DEF L, T, code
<1>4. IsSequence(code) /\ \A i \in DOMAIN code : code[i] \in T
  BY <1>1 DEF IsSequence
<1>5. IsCode(code)
  BY <1>2, <1>3, <1>4 DEF IsCode
<1>6. Size(code) \in Nat
  BY <1>5, CodeSize
<1>7. MaxCut = 26
  BY DEF MaxCut
<1>. QED BY <1>1, <1>2, <1>3, <1>4, <1>5, <1>6, <1>7, CutAssumption DEF code

LEMMA EmptyIsWhole ==
  ASSUME NEW m, NEW a \in Int
  PROVE  Marks(m, a, 0, {a}) /\ Whole(m, a, 0)
<1>1. {a} \subseteq a .. a + 0 /\ a \in {a} /\ a + 0 \in {a} /\ \A b \in {a} : ~(b < a + 0)
  OBVIOUS
<1>2. Marks(m, a, 0, {a})
  BY <1>1 DEF Marks
<1>. QED BY <1>2 DEF Whole

(* The same bytes hold the same instructions.                              *)
LEMMA WholeSame ==
  ASSUME NEW m, NEW w, NEW a \in Int, NEW n \in Nat, Whole(m, a, n),
         \A b \in a .. a + n - 1 : b \in DOMAIN w /\ b \in DOMAIN m /\ w[b] = m[b],
         \A b \in a .. a + n - 1 : m[b].inst.len \in Nat \ {0}
  PROVE  Whole(w, a, n)
<1>1. PICK B : Marks(m, a, n, B)
  BY DEF Whole
<1>2. /\ B \subseteq a .. a + n /\ a \in B
      /\ \A b \in B : b < a + n => Decode(m, b) # Bad
  BY <1>1 DEF Marks
<1>3. ASSUME NEW b \in B, b < a + n PROVE Decode(m, b).len \in Nat \ {0}
  <2>1. b \in a .. a + n - 1
    BY <1>2, <1>3
  <2>2. Decode(m, b) = m[b].inst
    BY <1>2, <1>3 DEF Decode
  <2>. QED BY <2>1, <2>2
<1>4. 0 \in Nat /\ 0 <= n /\ a + 0 \in B /\ a + 0 = a
  BY <1>2
<1>5. \A b \in a + 0 .. a + n - 1 : b \in DOMAIN w /\ (b \in DOMAIN m => w[b] = m[b])
  BY <1>4
<1>. QED BY <1>1, <1>3, <1>4, <1>5, EmptyIsWhole, WholeBehind

(* The cut is behind the branch, within the target, and where an           *)
(* instruction begins.                                                     *)
CutOK(c) ==
  /\ c \in Nat /\ c <= Size(target.code)
  /\ \A n \in Nat : \A B : n <= Size(target.code) /\ Marks(mem, Entry, n, B) /\ c <= n
                           => Entry + c \in B

(* So the cut of a target is where an instruction begins.                  *)
LEMMA CutIsOK ==
  ASSUME target \in Functions, Zone \subseteq DOMAIN mem,
         \A b \in Zone : mem[b].inst.len \in Lens,
         NEW req, req = LongCut \/ (amd64 /\ req = 5), NEW chk \in BOOLEAN,
         Cut(req, chk) # 0
  PROVE  /\ CutOK(Cut(req, chk)) /\ req <= Cut(req, chk) /\ Cut(req, chk) <= MaxCut
         /\ amd64 \/ Cut(req, chk) = req
<1>. DEFINE c == Cut(req, chk)
            Z == Size(target.code)
<1>1. Z \in Nat /\ Z >= 26 /\ Entry \in Nat
  BY TargetIsCode
<1>. HIDE DEF Z
<1>2. Zone = Entry .. Entry + Z - 1
  BY DEF Zone, Z
<1>3. ASSUME amd64, NEW n \in Nat, NEW B, Marks(mem, Entry, n, B)
      PROVE  c \in Cuts(req, n, B) /\ req \in 5 .. 12
  <2>1. c = X!Disassemble(mem, Entry, req, chk)
    BY <1>3 DEF Cut
  <2>2. req \in 5 .. 12 /\ req \in Nat \ {0}
    BY <1>3 DEF LongCut
  <2>3. \A b \in Entry .. Entry + req - 1 : b \in DOMAIN mem => mem[b].inst.len \in 1 .. 15
    <3>. SUFFICES ASSUME NEW b \in Entry .. Entry + req - 1 PROVE b \in Zone /\ Lens = 1 .. 15
      OBVIOUS
    <3>. QED BY <1>1, <1>2, <1>3, <2>2 DEF Lens
  <2>. HIDE DEF c
  <2>. QED BY <1>1, <1>3, <2>1, <2>2, <2>3, Amd64Cuts
<1>4. ASSUME ~amd64, NEW n \in Nat, n <= Z, NEW B, Marks(mem, Entry, n, B)
      PROVE  c \in Cuts(req, n, B) /\ c \in {0, 24} /\ req = 24
  <2>1. req = 24 /\ c = R!Disassemble(mem, Entry, 24, chk)
    BY <1>4 DEF Cut, LongCut
  <2>2. ASSUME NEW b \in B, b < Entry + n PROVE Decode(mem, b).len = 4
    <3>1. b \in Entry .. Entry + n /\ Decode(mem, b) # Bad
      BY <1>4, <2>2 DEF Marks
    <3>2. b \in Zone
      BY <1>1, <1>2, <1>4, <2>2, <3>1
    <3>3. Decode(mem, b) = mem[b].inst
      BY <3>1 DEF Decode
    <3>. QED BY <1>4, <3>2, <3>3 DEF Lens
  <2>. HIDE DEF c
  <2>. QED BY <1>1, <1>4, <2>1, <2>2, Arm64Cuts
<1>5. Marks(mem, Entry, 0, {Entry}) /\ 0 \in Nat /\ 0 <= Z
  BY <1>1, EmptyIsWhole
<1>6. req \in Nat /\ c \in req .. 26 /\ (amd64 \/ c = req)
  <2>1. CASE amd64
    <3>1. c \in Cuts(req, 0, {Entry}) /\ req \in 5 .. 12
      BY <1>3, <1>5, <2>1
    <3>. HIDE DEF c
    <3>. QED BY <2>1, <3>1 DEF Cuts, c
  <2>2. CASE ~amd64
    <3>1. c \in {0, 24} /\ req = 24
      BY <1>4, <1>5, <2>2
    <3>. QED BY <3>1
  <2>. QED BY <2>1, <2>2
<1>7. ASSUME NEW n \in Nat, NEW B, n <= Z, Marks(mem, Entry, n, B), c <= n
      PROVE  Entry + c \in B
  <2>1. c \in Cuts(req, n, B)
    BY <1>3, <1>4, <1>7
  <2>. HIDE DEF c
  <2>. QED BY <1>6, <1>7, <2>1 DEF Cuts, c
<1>. HIDE DEF c
<1>8. c \in Nat /\ c <= Z /\ req <= c /\ c <= MaxCut
  BY <1>1, <1>6 DEF MaxCut
<1>. QED BY <1>6, <1>7, <1>8 DEF CutOK, c, Z

(* What is written over the target is the new entry, up to the cut.        *)
Entered(m, code, c) ==
  /\ Zone \subseteq DOMAIN m
  /\ \A b \in Zone : m[b] = IF b < Entry + c THEN Bytes(code, Entry)[b] ELSE mem[b]

(* Memory that is not in use is not the target's.                          *)
LEMMA FreeIsAway ==
  ASSUME NEW m, Zone \subseteq DOMAIN m, NEW a, NEW n, Free(m, a, n)
  PROVE  \A b \in a .. a + n - 1 : b \notin Zone /\ b \notin DOMAIN m
BY DEF Free

(* What is put elsewhere leaves the target as it was.                      *)
LEMMA WriteElsewhere ==
  ASSUME Zone \subseteq DOMAIN mem, NEW new, \A b \in DOMAIN new : b \notin Zone
  PROVE  /\ Zone \subseteq DOMAIN Overlay(new, mem)
         /\ \A b \in Zone : Overlay(new, mem)[b] = mem[b]
BY DEF Overlay

LEMMA FillDomain ==
  ASSUME NEW m, NEW code, NEW a, NEW n
  PROVE  \E new : /\ Fill(m, code, a, n) = Overlay(new, m)
                  /\ DOMAIN new \subseteq a .. a + n - 1
<1>. DEFINE new == Restrict(Bytes(code, a), (a .. a + n - 1) \cap DOMAIN Bytes(code, a))
<1>1. DOMAIN new = (a .. a + n - 1) \cap DOMAIN Bytes(code, a)
  BY DEF Restrict
<1>2. Fill(m, code, a, n) = Overlay(new, m)
  BY DEF Fill
<1>. HIDE DEF new
<1>. QED BY <1>1, <1>2

(* What is written at an entry is there, and nothing else changes.         *)
LEMMA WriteEntry ==
  ASSUME target \in Functions, NEW m, Zone \subseteq DOMAIN m, \A b \in Zone : m[b] = mem[b],
         NEW code, Sound(code)
  PROVE  Entered(Write(m, code, Entry), code, Size(code))
<1>1. Size(code) \in Nat /\ Entry \in Nat /\ DOMAIN Bytes(code, Entry) = Entry .. Entry + Size(code) - 1
  BY TargetIsCode, CodeSize, BytesAreOfCode DEF Sound
<1>2. \A b \in Zone : b \in DOMAIN Bytes(code, Entry) <=> b < Entry + Size(code)
  <2>. DEFINE y == Size(code)
  <2>. HIDE DEF y
  <2>1. y \in Nat /\ DOMAIN Bytes(code, Entry) = Entry .. Entry + y - 1
    BY <1>1 DEF y
  <2>2. \A b \in Zone : b \in Int /\ Entry <= b
    BY <1>1, TargetIsCode DEF Zone
  <2>3. \A b \in Zone : b \in DOMAIN Bytes(code, Entry) <=> b < Entry + y
    BY <1>1, <2>1, <2>2
  <2>. QED BY <2>3 DEF y
<1>3. Write(m, code, Entry) = Overlay(Bytes(code, Entry), m)
  BY DEF Write
<1>. DEFINE new == Bytes(code, Entry)
            w == Write(m, code, Entry)
<1>. HIDE DEF new
<1>4. w = [b \in DOMAIN new \cup DOMAIN m |-> IF b \in DOMAIN new THEN new[b] ELSE m[b]]
  BY <1>3 DEF Overlay, new
<1>. HIDE DEF w
<1>5. \A b \in Zone : b \in DOMAIN new <=> b < Entry + Size(code)
  BY <1>2 DEF new
<1>6. Zone \subseteq DOMAIN w
  BY <1>4
<1>7. \A b \in Zone : w[b] = IF b < Entry + Size(code) THEN new[b] ELSE mem[b]
  BY <1>4, <1>5
<1>. QED BY <1>6, <1>7 DEF Entered, new, w

(* The code under the new patch, and the new entry.                        *)
LEMMA EntryIsLayer ==
  ASSUME Shape, NEW g, NEW code, Sound(code), CutOK(Size(code)),
         \A b \in Zone : g[b] = mem[b], LayerOK(g, Len(patches) + 1, patches),
         NEW w, DOMAIN w = Zone, NEW m, Entered(m, code, Size(code)), \A b \in Zone : w[b] = m[b]
  PROVE  /\ \A b \in Zone : w[b].inst.len \in Lens
         /\ Whole(w, Entry, Size(code))
         /\ \A j \in 1 .. Len(patches) :
              Deepest(patches, j, Len(patches)) /\ Size(code) <= patches[j].cut
                => Whole(w, Entry, patches[j].cut)
<1>. DEFINE c == Size(code)
            Z == Size(target.code)
<1>1. /\ target \in Functions /\ Zone \subseteq DOMAIN mem
      /\ \A k \in 1 .. Len(patches) : PatchOK(patches[k]) /\ Len(patches) \in Nat
  BY DEF Shape, IsSequence
<1>2. Z \in Nat /\ Entry \in Nat /\ c \in Nat /\ c <= Z
  BY <1>1, TargetIsCode DEF CutOK
<1>3. IsCode(code) /\ DOMAIN Bytes(code, Entry) = Entry .. Entry + c - 1
  BY <1>2, BytesAreOfCode DEF Sound
<1>4. /\ \A b \in Zone : mem[b].inst.len \in Lens
      /\ Zone \subseteq DOMAIN g
      /\ \A l \in Lens : l \in Nat \ {0}
  BY DEF LayerOK, Lens
<1>5. \A b \in Zone : w[b] = IF b < Entry + c THEN Bytes(code, Entry)[b] ELSE mem[b]
  BY DEF Entered
<1>. HIDE DEF Z, c
<1>6. Zone = Entry .. Entry + Z - 1
  BY DEF Zone, Z
<1>7. \A b \in Entry .. Entry + c - 1 : b \in Zone /\ b < Entry + c /\ w[b] = Bytes(code, Entry)[b]
  <2>. SUFFICES ASSUME NEW b \in Entry .. Entry + c - 1 PROVE b \in Zone /\ b < Entry + c
    BY <1>5
  <2>. QED BY <1>2, <1>6
<1>8. ASSUME NEW b \in Zone PROVE w[b].inst.len \in Lens
  <2>1. CASE b < Entry + c
    <3>1. b \in Entry .. Entry + c - 1
      BY <1>2, <1>6, <2>1
    <3>2. \E j \in DOMAIN code : Bytes(code, Entry)[b].inst = code[j]
      BY <1>2, <1>3, <3>1, BytesAreOfCode DEF c
    <3>. QED BY <1>7, <3>1, <3>2 DEF Sound
  <2>2. CASE ~(b < Entry + c)
    BY <1>4, <1>5, <2>2
  <2>. QED BY <2>1, <2>2
<1>9. Whole(w, Entry, c)
  <2>1. \A b \in Entry .. Entry + Size(code) - 1 : b \in DOMAIN w /\ w[b] = Bytes(code, Entry)[b]
    BY <1>7 DEF c
  <2>2. Entry \in Int
    BY <1>2
  <2>. QED BY <2>1, <2>2, WholeOfCode DEF c
<1>10. ASSUME NEW j \in 1 .. Len(patches), Deepest(patches, j, Len(patches)), c <= patches[j].cut
       PROVE  Whole(w, Entry, patches[j].cut)
  <2>. DEFINE n == patches[j].cut
  <2>1. n \in Nat /\ n <= Z
    BY <1>1 DEF PatchOK, Z
  <2>2. Whole(g, Entry, n)
    <3>1. Len(patches) \in Nat
      BY <1>1
    <3>2. (Len(patches) + 1) - 1 = Len(patches)
      BY <3>1
    <3>. QED BY <1>10, <3>2 DEF LayerOK
  <2>. HIDE DEF n
  <2>3. \A b \in Entry .. Entry + n - 1 : b \in Zone
    BY <1>2, <1>6, <2>1
  <2>4. Whole(mem, Entry, n)
    <3>1. \A b \in Entry .. Entry + n - 1 : b \in DOMAIN mem /\ b \in DOMAIN g /\ mem[b] = g[b]
      BY <1>1, <1>4, <2>3
    <3>2. \A b \in Entry .. Entry + n - 1 : g[b].inst.len \in Nat \ {0}
      BY <1>4, <2>3
    <3>3. Entry \in Int
      BY <1>2
    <3>. QED BY <2>1, <2>2, <3>1, <3>2, <3>3, WholeSame
  <2>5. PICK B : Marks(mem, Entry, n, B)
    BY <2>4 DEF Whole
  <2>6. Entry + c \in B
    <3>1. c <= n
      BY <1>10 DEF n
    <3>. QED BY <2>1, <2>5, <3>1 DEF CutOK, c, Z
  <2>7. ASSUME NEW b \in B, b < Entry + n PROVE Decode(mem, b).len \in Nat \ {0}
    <3>1. b \in Entry .. Entry + n /\ Decode(mem, b) # Bad
      BY <2>5, <2>7 DEF Marks
    <3>2. b \in Entry .. Entry + n - 1
      BY <1>2, <2>1, <2>7, <3>1
    <3>3. Decode(mem, b) = mem[b].inst
      BY <3>1 DEF Decode
    <3>. QED BY <1>4, <2>3, <3>2, <3>3
  <2>8. \A b \in Entry + c .. Entry + n - 1 :
          b \in DOMAIN w /\ (b \in DOMAIN mem => w[b] = mem[b])
    <3>. SUFFICES ASSUME NEW b \in Entry + c .. Entry + n - 1
                  PROVE  b \in Zone /\ ~(b < Entry + c)
      BY <1>5
    <3>1. b \in Entry .. Entry + n - 1 /\ ~(b < Entry + c)
      BY <1>2, <2>1
    <3>. QED BY <2>3, <3>1
  <2>9. Entry \in Int /\ c <= n
    BY <1>2, <1>10 DEF n
  <2>10. Whole(w, Entry, n)
    BY <1>2, <1>9, <2>1, <2>5, <2>6, <2>7, <2>8, <2>9, WholeBehind
  <2>. QED BY <2>10 DEF n
<1>. QED BY <1>8, <1>9, <1>10 DEF c

(* What is written depends on the architecture, which does not change.     *)
LEMMA LeadsStays ==
  ASSUME target' = target
  PROVE  \A e, m, ps, k : LeadsTo(e, m, ps, k)' <=> LeadsTo(e, m, ps, k)
<1>1. amd64' = amd64 /\ Zone' = Zone
  BY DEF amd64, Zone
<1>2. \A to : BranchInto(to)' = BranchInto(to)
  BY <1>1 DEF BranchInto
<1>3. \A r : Jump(r)' = Jump(r)
  BY <1>1 DEF Jump
<1>4. \A e, code : InEntry(e, code)' <=> InEntry(e, code)
  BY <1>1 DEF InEntry
<1>5. \A m, code, r : Holds(m, code, r)' <=> Holds(m, code, r)
  BY <1>1 DEF Holds
<1>6. \A ps, k, r : Stays(ps, k, r)' <=> Stays(ps, k, r)
  BY <1>2 DEF Stays, OwnPage
<1>. SUFFICES ASSUME NEW e, NEW m, NEW ps, NEW k
              PROVE  LeadsTo(e, m, ps, k)' <=> LeadsTo(e, m, ps, k)
  OBVIOUS
<1>7. LeadsTo(e, m, ps, k)' <=>
        \/ InEntry(e, BranchInto(ps[k].hook))'
        \/ \E r \in Int : /\ InEntry(e, <<Jump(r)>>)' /\ Holds(m, BranchInto(ps[k].hook), r)'
                          /\ Stays(ps, k, r)'
  BY DEF LeadsTo
<1>. QED BY <1>2, <1>3, <1>4, <1>5, <1>6, <1>7 DEF LeadsTo

LEMMA OneMore ==
  ASSUME NEW s, IsSequence(s), NEW e
  PROVE  /\ Len(Append(s, e)) = Len(s) + 1 /\ Append(s, e)[Len(s) + 1] = e
         /\ IsSequence(Append(s, e))
         /\ \A k \in 1 .. Len(s) : Append(s, e)[k] = s[k]
<1>. DEFINE T == {s[i] : i \in DOMAIN s} \cup {e}
            t == Append(s, e)
<1>1. s \in Seq(T) /\ e \in T
  BY DEF IsSequence
<1>. HIDE DEF T
<1>2. /\ t \in Seq(T) /\ Len(t) = Len(s) + 1 /\ t[Len(s) + 1] = e
      /\ \A k \in 1 .. Len(s) : t[k] = s[k]
  BY <1>1
<1>. HIDE DEF t
<1>3. t \in Seq({t[i] : i \in DOMAIN t})
  BY <1>2
<1>. QED BY <1>2, <1>3 DEF IsSequence, t

(* A patch puts a layer over the entry.                                    *)
LEMMA PushKeeps ==
  ASSUME Inv, NEW p, PatchOK(p), CutOK(p.cut), \A b \in DOMAIN p.saved : p.saved[b] = mem[b],
         NEW code, Sound(code), Size(code) = p.cut, Entered(mem', code, p.cut),
         \A b \in DOMAIN mem : b \notin Zone => b \in DOMAIN mem' /\ mem'[b] = mem[b],
         \A b \in OwnPage(p) : b \notin DOMAIN mem, Leads(mem', mem', p.hook),
         made < MaxPatches, made' = made + 1, patches' = Append(patches, p),
         target' = target, run' = run
  PROVE  Inv'
<1>. DEFINE n == Len(patches)
<1>1. PICK h : Layers(h, mem, patches)
  BY DEF Inv
<1>2. Shape /\ n \in Nat /\ target \in Functions
  BY DEF Inv, Shape, IsSequence
<1>3. /\ Len(patches') = n + 1 /\ patches'[n + 1] = p /\ IsSequence(patches')
      /\ \A k \in 1 .. n : patches'[k] = patches[k]
  <2>1. IsSequence(patches)
    BY <1>2 DEF Shape
  <2>. QED BY <2>1, OneMore
<1>4. Zone' = Zone /\ Lens' = Lens
  BY DEF Zone, Lens, amd64
<1>5. Entry \in Nat /\ \A b \in Zone : b \in Int /\ Entry <= b
  BY <1>2, TargetIsCode DEF Zone
<1>6. Shape'
  <2>1. target' \in Functions /\ Zone' \subseteq DOMAIN mem'
    BY <1>2, <1>4 DEF Entered
  <2>2. made' \in Nat /\ Len(patches') <= made' /\ made' <= MaxPatches'
    <3>1. MaxPatches' = MaxPatches /\ MaxPatches \in Nat
      BY CutAssumption DEF MaxPatches
    <3>. QED BY <1>2, <1>3, <3>1 DEF Shape
  <2>3. \A k \in 1 .. Len(patches') : PatchOK(patches'[k])
    <3>. SUFFICES ASSUME NEW k \in 1 .. n + 1 PROVE PatchOK(patches'[k])
      BY <1>3
    <3>1. k \in 1 .. n \/ k = n + 1
      BY <1>2
    <3>. QED BY <1>2, <1>3, <3>1 DEF Shape
  <2>4. DOMAIN run' = {"kind", "of", "cpu", "ref"} /\ run'.kind \in {"none", "target", "proxy"}
    BY <1>2 DEF Shape
  <2>5. (\A k \in 1 .. Len(patches) : PatchOK(patches[k]))'
    BY <2>3 DEF PatchOK, OwnPage, Zone
  <2>. QED BY <1>3, <2>1, <2>2, <2>4, <2>5 DEF Shape
<1>. DEFINE w == [b \in Zone |-> mem'[b]]
            f == [k \in 1 .. n + 2 |-> IF k = n + 2 THEN w ELSE h[k]]
<1>7. /\ f[n + 2] = w /\ DOMAIN w = Zone /\ \A b \in Zone : w[b] = mem'[b]
      /\ \A k \in 1 .. n + 1 : f[k] = h[k]
      /\ 1 \in 1 .. n + 1 /\ n + 1 \in 1 .. n + 1
  BY <1>2
<1>. HIDE DEF w, f
<1>8. \A b \in Zone : h[n + 1][b] = mem[b]
  BY <1>1 DEF Layers
<1>9. \A k \in 1 .. n + 1 : \A j \in 1 .. k - 1 :
        /\ Deepest(patches', j, k - 1) <=> Deepest(patches, j, k - 1)
        /\ patches'[j] = patches[j]
  <2>. SUFFICES ASSUME NEW k \in 1 .. n + 1, NEW j \in 1 .. k - 1
                PROVE  (Deepest(patches', j, k - 1) <=> Deepest(patches, j, k - 1)) /\ patches'[j] = patches[j]
    OBVIOUS
  <2>1. \A i \in 1 .. k - 1 : i \in 1 .. n
    BY <1>2
  <2>2. \A i \in 1 .. k - 1 : patches'[i] = patches[i]
    BY <1>3, <2>1
  <2>. QED BY <2>2 DEF Deepest
<1>10. \A k \in 1 .. n + 1 : LayerOK(f[k], k, patches')
  <2>. SUFFICES ASSUME NEW k \in 1 .. n + 1 PROVE LayerOK(f[k], k, patches')
    OBVIOUS
  <2>1. LayerOK(h[k], k, patches)
    BY <1>1 DEF Layers
  <2>2. \A j \in 1 .. k - 1 : Deepest(patches', j, k - 1) => Whole(h[k], Entry, patches'[j].cut)
    BY <1>9, <2>1 DEF LayerOK
  <2>3. Zone \subseteq DOMAIN h[k] /\ \A b \in Zone : h[k][b].inst.len \in Lens
    BY <1>4, <2>1 DEF LayerOK
  <2>. QED BY <1>7, <2>2, <2>3 DEF LayerOK
<1>11. LayerOK(w, n + 2, patches')
  <2>1. LayerOK(h[n + 1], n + 1, patches)
    BY <1>1, <1>7 DEF Layers
  <2>2. /\ \A b \in Zone : w[b].inst.len \in Lens
        /\ Whole(w, Entry, p.cut)
        /\ \A j \in 1 .. n : Deepest(patches, j, n) /\ p.cut <= patches[j].cut
                             => Whole(w, Entry, patches[j].cut)
    BY <1>2, <1>7, <1>8, <2>1, EntryIsLayer
  <2>3. ASSUME NEW j \in 1 .. n + 1, Deepest(patches', j, n + 1)
        PROVE  Whole(w, Entry, patches'[j].cut)
    <3>1. CASE j = n + 1
      BY <1>3, <2>2, <3>1
    <3>2. CASE j # n + 1
      <4>1. j \in 1 .. n /\ patches'[j] = patches[j]
        BY <1>2, <1>3, <3>2
      <4>2. \A i \in 1 .. n + 1 : patches'[i].cut <= patches'[j].cut
        BY <2>3 DEF Deepest
      <4>3. p.cut <= patches[j].cut
        BY <1>3, <1>7, <4>1, <4>2
      <4>4. \A i \in 1 .. n : patches[i].cut <= patches[j].cut
        <5>1. \A i \in 1 .. n : i \in 1 .. n + 1
          BY <1>2
        <5>. QED BY <1>3, <4>1, <4>2, <5>1
      <4>. QED BY <2>2, <4>1, <4>3, <4>4 DEF Deepest
    <3>. QED BY <3>1, <3>2
  <2>4. (n + 2) - 1 = n + 1
    BY <1>2
  <2>5. \A j \in 1 .. (n + 2) - 1 : Deepest(patches', j, (n + 2) - 1) => Whole(w, Entry, patches'[j].cut)
    BY <2>3, <2>4
  <2>6. Zone \subseteq DOMAIN w /\ \A b \in Zone : w[b].inst.len \in Lens
    BY <1>4, <1>7, <2>2
  <2>. QED BY <2>5, <2>6 DEF LayerOK
<1>12. ASSUME NEW k \in 1 .. n + 1, NEW b \in Zone
       PROVE  f[k][b] = IF b < Entry + patches'[k].cut THEN patches'[k].saved[b] ELSE f[k + 1][b]
  <2>1. CASE k = n + 1
    <3>1. b < Entry + p.cut => b \in DOMAIN p.saved
      <4>1. p.cut \in Nat /\ DOMAIN p.saved = Entry .. Entry + p.cut - 1
        BY DEF PatchOK
      <4>. QED BY <1>5, <4>1
    <3>2. f[k + 1] = w /\ f[k] = h[n + 1] /\ patches'[k] = p
      <4>1. k + 1 = n + 2
        BY <1>2, <2>1
      <4>. QED BY <1>3, <1>7, <2>1, <4>1
    <3>3. ~(b < Entry + p.cut) => w[b] = mem[b]
      BY <1>7 DEF Entered
    <3>4. h[n + 1][b] = mem[b]
      BY <1>8
    <3>. QED BY <3>1, <3>2, <3>3, <3>4
  <2>2. CASE k # n + 1
    <3>1. k \in 1 .. n /\ k + 1 \in 1 .. n + 1
      BY <1>2, <2>2
    <3>2. h[k][b] = IF b < Entry + patches[k].cut THEN patches[k].saved[b] ELSE h[k + 1][b]
      BY <1>1, <3>1 DEF Layers
    <3>. QED BY <1>3, <1>7, <3>1, <3>2
  <2>. QED BY <2>1, <2>2
<1>13. Layers(f, mem', patches')
  <2>1. Len(patches') + 1 = n + 2
    BY <1>2, <1>3
  <2>2. \A b \in Zone : f[1][b] = Bytes(target.code, Entry)[b]
    BY <1>1, <1>4, <1>7 DEF Layers
  <2>3. \A b \in Zone : f[Len(patches') + 1][b] = mem'[b]
    BY <1>4, <1>7, <2>1
  <2>4. \A k \in 1 .. Len(patches') : \A b \in Zone :
          f[k][b] = IF b < Entry + patches'[k].cut THEN patches'[k].saved[b] ELSE f[k + 1][b]
    BY <1>3, <1>4, <1>12
  <2>5. \A k \in 1 .. Len(patches') + 1 : LayerOK(f[k], k, patches')
    <3>. SUFFICES ASSUME NEW k \in 1 .. n + 2 PROVE LayerOK(f[k], k, patches')
      BY <2>1
    <3>1. CASE k = n + 2
      BY <1>7, <1>11, <3>1
    <3>2. CASE k # n + 2
      <4>1. k \in 1 .. n + 1
        BY <1>2, <3>2
      <4>. QED BY <1>10, <4>1
    <3>. QED BY <3>1, <3>2
  <2>6. \A k \in 1 .. Len(patches') : LeadsTo(f[k + 1], mem', patches', k)
    <3>. SUFFICES ASSUME NEW k \in 1 .. n + 1 PROVE LeadsTo(f[k + 1], mem', patches', k)
      BY <1>3
    <3>1. CASE k = n + 1
      <4>1. k + 1 = n + 2 /\ f[k + 1] = w /\ patches'[k] = p /\ k + 1 .. Len(patches') = {}
        BY <1>2, <1>3, <1>7, <3>1
      <4>2. \A code2 : InEntry(mem', code2) => InEntry(w, code2)
        BY <1>7 DEF InEntry
      <4>3. \A r : Stays(patches', k, r)
        BY <4>1 DEF Stays
      <4>. QED BY <4>1, <4>2, <4>3 DEF Leads, LeadsTo
    <3>2. CASE k # n + 1
      <4>1. k \in 1 .. n /\ k + 1 \in 1 .. n + 1
        BY <1>2, <3>2
      <4>2. LeadsTo(h[k + 1], mem, patches, k) /\ f[k + 1] = h[k + 1] /\ patches'[k] = patches[k]
        BY <1>1, <1>3, <1>7, <4>1 DEF Layers
      <4>3. ASSUME NEW r \in Int, Holds(mem, BranchInto(patches[k].hook), r), Stays(patches, k, r)
            PROVE  Holds(mem', BranchInto(patches[k].hook), r) /\ Stays(patches', k, r)
        <5>1. Holds(mem', BranchInto(patches[k].hook), r)
          BY <4>3 DEF Holds
        <5>2. ASSUME NEW j \in k + 1 .. n + 1, NEW b \in DOMAIN Bytes(BranchInto(patches[k].hook), r)
              PROVE  b \notin OwnPage(patches'[j])
          <6>1. CASE j = n + 1
            BY <1>3, <4>3, <6>1 DEF Holds
          <6>2. CASE j # n + 1
            <7>1. j \in k + 1 .. n /\ j \in 1 .. n
              BY <1>2, <6>2
            <7>. QED BY <1>3, <4>3, <7>1 DEF Stays
          <6>. QED BY <6>1, <6>2
        <5>. QED BY <1>3, <4>2, <5>1, <5>2 DEF Stays
      <4>. QED BY <4>2, <4>3 DEF LeadsTo
    <3>. QED BY <3>1, <3>2
  <2>. QED BY <2>2, <2>3, <2>4, <2>5, <2>6 DEF Layers
<1>14. (\E g : Layers(g, mem, patches))'
  BY <1>4, <1>13, LeadsStays, ZenonT(30) DEF Layers, LayerOK
<1>. QED BY <1>6, <1>14 DEF Inv

LEMMA InvHolds ==
  ASSUME Inv
  PROVE  /\ target \in Functions /\ Zone \subseteq DOMAIN mem
         /\ \A b \in Zone : mem[b].inst.len \in Lens
         /\ Len(patches) \in Nat /\ DOMAIN patches = 1 .. Len(patches)
         /\ made < MaxPatches => made + 1 \in DOMAIN Pages
<1>1. PICK h : Layers(h, mem, patches)
  BY DEF Inv
<1>2. Shape /\ Len(patches) \in Nat /\ DOMAIN patches = 1 .. Len(patches)
  BY DEF Inv, Shape, IsSequence
<1>3. LayerOK(h[Len(patches) + 1], Len(patches) + 1, patches)
  <2>1. Len(patches) + 1 \in 1 .. Len(patches) + 1
    BY <1>2
  <2>. QED BY <1>1, <2>1 DEF Layers
<1>4. \A b \in Zone : mem[b].inst.len \in Lens
  BY <1>1, <1>3 DEF Layers, LayerOK
<1>5. made < MaxPatches => made + 1 \in DOMAIN Pages
  <2>1. Pages \in Seq(Nat) /\ made \in Nat
    BY <1>2, CutAssumption DEF Shape
  <2>. QED BY <2>1 DEF MaxPatches
<1>. QED BY <1>2, <1>4, <1>5 DEF Shape

(* The address of a hook fits a word.                                      *)
LEMMA HookIsAddress ==
  ASSUME Inv, Ready
  PROVE  HookAddr(Next1) \in Word
<1>1. made \in Nat /\ made < MaxPatches /\ MaxPatches \in Nat
  BY CutAssumption DEF Inv, Shape, Ready, MaxPatches
<1>2. HookAddr(MaxPatches) < R!Addresses /\ R!Addresses \in Nat
  BY AddressAssumption DEF R!Addresses
<1>. QED BY <1>1, <1>2 DEF HookAddr, Next1, Word

(* The branch is in the entry, in front of its padding.                    *)
LEMMA EntryHolds ==
  ASSUME target \in Functions, NEW m, NEW e, Sound(e), NEW c \in Nat,
         Size(e) <= c, amd64 \/ Size(e) = c, c <= Size(target.code),
         Entered(m, PadEntry(e, c), c)
  PROVE  InEntry(m, e)
<1>. DEFINE w == PadEntry(e, c)
            z == Size(e)
            Z == Size(target.code)
<1>1. /\ z \in Nat /\ IsCode(e) /\ Z \in Nat /\ Entry \in Nat
      /\ DOMAIN Bytes(e, Entry) = Entry .. Entry + z - 1
  BY TargetIsCode, CodeSize, BytesAreOfCode DEF Sound
<1>2. \A b \in DOMAIN Bytes(e, Entry) : Bytes(w, Entry)[b] = Bytes(e, Entry)[b]
  <2>1. CASE z = c
    <3>1. w = e
      BY <1>1, <2>1, SameBytes DEF PadEntry, X!PadEntry, R!PadEntry
    <3>. QED BY <3>1
  <2>2. CASE z # c
    <3>1. amd64 /\ ~(z >= c) /\ c - z \in Nat
      BY <1>1, <2>2
    <3>. DEFINE v == [k \in 1 .. c - z |-> X!Nop(1)]
    <3>2. w = e \o v
      BY <3>1, SameBytes DEF PadEntry, X!PadEntry
    <3>3. IsCode(v)
      BY <3>1, NopsAreSound DEF Sound
    <3>. HIDE DEF v, w, z
    <3>4. Entry \in Int
      BY <1>1
    <3>. QED BY <1>1, <3>2, <3>3, <3>4, JoinBytes
  <2>. QED BY <2>1, <2>2
<1>. HIDE DEF w, z, Z
<1>3. ASSUME NEW b \in DOMAIN Bytes(e, Entry) PROVE b \in Zone /\ b < Entry + c
  <2>1. z <= c /\ c <= Z /\ Zone = Entry .. Entry + Z - 1
    BY DEF z, Z, Zone
  <2>. QED BY <1>1, <2>1
<1>. QED BY <1>2, <1>3 DEF InEntry, Entered, w

(* The rest of the memory stays when the entry is written.                 *)
LEMMA EntryIsInZone ==
  ASSUME target \in Functions, NEW m, NEW code, Sound(code), Size(code) <= Size(target.code)
  PROVE  \A b \in DOMAIN m : b \notin Zone =>
           b \in DOMAIN Write(m, code, Entry) /\ Write(m, code, Entry)[b] = m[b]
<1>1. \A b \in DOMAIN Bytes(code, Entry) : b \in Zone
  <2>. DEFINE z == Size(code)
              Z == Size(target.code)
  <2>1. /\ z \in Nat /\ Z \in Nat /\ Entry \in Nat /\ z <= Z
        /\ DOMAIN Bytes(code, Entry) = Entry .. Entry + z - 1
    BY TargetIsCode, CodeSize, BytesAreOfCode DEF Sound
  <2>2. Zone = Entry .. Entry + Z - 1
    BY DEF Zone
  <2>. HIDE DEF z, Z
  <2>. QED BY <2>1, <2>2
<1>. QED BY <1>1 DEF Write, Overlay

(* What fits the page is there, and nothing else changes.                  *)
LEMMA FillHolds ==
  ASSUME NEW m, NEW code, NEW a, NEW n
  PROVE  /\ \A b \in a .. a + n - 1 : b \in DOMAIN Bytes(code, a) =>
              b \in DOMAIN Fill(m, code, a, n) /\ Fill(m, code, a, n)[b] = Bytes(code, a)[b]
         /\ \A b \in DOMAIN m : b \notin a .. a + n - 1 =>
              b \in DOMAIN Fill(m, code, a, n) /\ Fill(m, code, a, n)[b] = m[b]
BY DEF Fill, Overlay, Restrict

(* The branch at the entry goes to the hook, or to a place in the page     *)
(* that does.                                                              *)
GoesTo(hook, entry, proxy, page) ==
  \/ entry = BranchInto(hook)
  \/ \E r \in Int :
       /\ entry = <<Jump(r)>>
       /\ \A b \in DOMAIN Bytes(BranchInto(hook), r) :
            /\ b \in page .. page + PageBytes - 1 /\ b \in DOMAIN Bytes(proxy, page)
            /\ Bytes(proxy, page)[b] = Bytes(BranchInto(hook), r)[b]

(* What the patches have in common.                                        *)
LEMMA InstallKeeps ==
  ASSUME Inv, Ready, NEW how \in hows, NEW cut, NEW page, NEW prefix, NEW entry, NEW behind,
         CutOK(cut), Sound(entry), Size(entry) <= cut, amd64 \/ Size(entry) = cut,
         GoesTo(HookAddr(Next1), entry, prefix \o BranchTo(Entry + cut) \o behind, page),
         Install(how, cut, page, prefix, entry, behind)
  PROVE  Inv'
<1>. DEFINE p == [how |-> how, cut |-> cut, page |-> page, hook |-> HookAddr(Next1),
                  saved |-> Copy(mem, Entry, cut)]
            code == PadEntry(entry, cut)
            proxy == prefix \o BranchTo(Entry + cut) \o behind
            m == Fill(mem, proxy, page, PageBytes)
<1>1. /\ mem' = Write(m, code, Entry) /\ patches' = Append(patches, p) /\ made' = made + 1
      /\ target' = target /\ run' = run
  BY DEF Install, Next1
<1>2. /\ target \in Functions /\ Zone \subseteq DOMAIN mem
      /\ made < MaxPatches /\ made + 1 \in DOMAIN Pages
  BY InvHolds DEF Ready
<1>3. cut \in Nat /\ cut <= Size(target.code)
  BY DEF CutOK
<1>4. Sound(code) /\ Size(code) = cut
  BY <1>3, PadFillsCut
<1>5. /\ p.how = how /\ p.cut = cut /\ p.page = page /\ DOMAIN p.saved = Entry .. Entry + cut - 1
      /\ p.hook = HookAddr(Next1)
      /\ \A b \in DOMAIN p.saved : p.saved[b] = mem[b]
  BY DEF Copy
<1>7. \A b \in page .. page + PageBytes - 1 : b \notin Zone /\ b \notin DOMAIN mem
  BY <1>2, FreeIsAway DEF Install
<1>6. PatchOK(p) /\ \A b \in OwnPage(p) : b \notin DOMAIN mem
  BY <1>2, <1>3, <1>5, <1>7, HookIsAddress DEF PatchOK, OwnPage
<1>12. GoesTo(p.hook, entry, proxy, page)
  BY <1>5
<1>. HIDE DEF p, code, m, proxy
<1>8. Zone \subseteq DOMAIN m /\ \A b \in Zone : m[b] = mem[b]
  <2>1. PICK new : m = Overlay(new, mem) /\ DOMAIN new \subseteq page .. page + PageBytes - 1
    BY FillDomain DEF m
  <2>2. \A b \in DOMAIN new : b \notin Zone
    BY <1>7, <2>1
  <2>. QED BY <1>2, <2>1, <2>2, WriteElsewhere
<1>9. Entered(mem', code, cut)
  BY <1>1, <1>2, <1>4, <1>8, WriteEntry
<1>10. \A b \in DOMAIN m : b \notin Zone => b \in DOMAIN mem' /\ mem'[b] = m[b]
  BY <1>1, <1>2, <1>3, <1>4, EntryIsInZone
<1>11. \A b \in DOMAIN mem : b \notin Zone => b \in DOMAIN mem' /\ mem'[b] = mem[b]
  <2>1. \A b \in DOMAIN mem : b \in DOMAIN m /\ m[b] = mem[b]
    BY <1>7, FillHolds DEF m
  <2>. QED BY <1>10, <2>1
<1>13. Leads(mem', mem', p.hook)
  <2>1. InEntry(mem', entry)
    BY <1>2, <1>3, <1>9, EntryHolds DEF code
  <2>2. CASE entry = BranchInto(p.hook)
    BY <2>1, <2>2 DEF Leads
  <2>3. ASSUME NEW r \in Int, entry = <<Jump(r)>>,
               \A b \in DOMAIN Bytes(BranchInto(p.hook), r) :
                 /\ b \in page .. page + PageBytes - 1 /\ b \in DOMAIN Bytes(proxy, page)
                 /\ Bytes(proxy, page)[b] = Bytes(BranchInto(p.hook), r)[b]
        PROVE  Leads(mem', mem', p.hook)
    <3>1. ASSUME NEW b \in DOMAIN Bytes(BranchInto(p.hook), r)
          PROVE  b \in DOMAIN mem' /\ b \notin Zone /\ mem'[b] = Bytes(BranchInto(p.hook), r)[b]
      <4>1. b \in DOMAIN m /\ m[b] = Bytes(BranchInto(p.hook), r)[b] /\ b \notin Zone
        BY <1>7, <2>3, FillHolds DEF m
      <4>. QED BY <1>10, <4>1
    <3>2. Holds(mem', BranchInto(p.hook), r)
      BY <3>1 DEF Holds
    <3>. QED BY <2>1, <2>3, <3>2 DEF Leads
  <2>. QED BY <1>12, <2>2, <2>3 DEF GoesTo
<1>. QED BY <1>1, <1>2, <1>4, <1>5, <1>6, <1>9, <1>11, <1>13, PushKeeps

(* The cut of the long branch, on either architecture.                     *)
LEMMA LongCutIsOK ==
  ASSUME Inv, NEW chk \in BOOLEAN, Cut(LongBranch, chk) # 0, NEW to
  PROVE  /\ CutOK(Cut(LongBranch, chk)) /\ Sound(BranchInto(to))
         /\ Size(BranchInto(to)) <= Cut(LongBranch, chk)
         /\ amd64 \/ Size(BranchInto(to)) = Cut(LongBranch, chk)
<1>1. LongBranch = LongCut
  BY DEF LongBranch, LongCut, X!LongBranch, R!LongBranch
<1>2. CutOK(Cut(LongBranch, chk)) /\ LongCut <= Cut(LongBranch, chk)
      /\ (amd64 \/ Cut(LongBranch, chk) = LongCut)
  BY <1>1, InvHolds, CutIsOK
<1>. QED BY <1>2, LongBranchIsSound

(* Each of them.                                                           *)
LEMMA UnsafeKeeps == ASSUME Inv, PatchUnsafe PROVE Inv'
<1>. DEFINE cut == Cut(LongBranch, FALSE)
            moved == Relocated(cut, Page)
            how == IF moved.ok THEN "unsafe" ELSE "verbatim"
            entry == BranchInto(HookAddr(Next1))
<1>1. /\ Ready /\ cut # 0
      /\ Install(how, cut, Page, moved.code, entry, <<>>)
  BY DEF PatchUnsafe
<1>2. CutOK(cut) /\ Sound(entry) /\ Size(entry) <= cut /\ (amd64 \/ Size(entry) = cut)
  BY <1>1, LongCutIsOK
<1>3. how \in hows
  BY DEF hows
<1>4. \A proxy : GoesTo(HookAddr(Next1), entry, proxy, Page)
  BY DEF GoesTo
<1>. HIDE DEF cut, how, entry, moved
<1>. QED BY <1>1, <1>2, <1>3, <1>4, InstallKeeps

LEMMA Arm64Keeps == ASSUME Inv, PatchArm64 PROVE Inv'
<1>. DEFINE cut == Cut(LongBranch, TRUE)
            moved == Relocated(cut, Page)
            entry == BranchInto(HookAddr(Next1))
<1>1. Ready /\ cut # 0 /\ Install("legacy", cut, Page, moved.code, entry, <<>>)
  BY DEF PatchArm64
<1>2. CutOK(cut) /\ Sound(entry) /\ Size(entry) <= cut /\ (amd64 \/ Size(entry) = cut)
  BY <1>1, LongCutIsOK
<1>3. "legacy" \in hows
  BY DEF hows
<1>4. \A proxy : GoesTo(HookAddr(Next1), entry, proxy, Page)
  BY DEF GoesTo
<1>. HIDE DEF cut, entry, moved
<1>. QED BY <1>1, <1>2, <1>3, <1>4, InstallKeeps

LEMMA LegacyKeeps == ASSUME Inv, PatchLegacy PROVE Inv'
<1>. DEFINE cut == Cut(LongBranch, TRUE)
            entry == BranchInto(HookAddr(Next1))
<1>1. Ready /\ cut # 0 /\ Install("legacy", cut, Page, Displaced(cut), entry, <<>>)
  BY DEF PatchLegacy, LegacyFits
<1>2. CutOK(cut) /\ Sound(entry) /\ Size(entry) <= cut /\ (amd64 \/ Size(entry) = cut)
  BY <1>1, LongCutIsOK
<1>3. "legacy" \in hows
  BY DEF hows
<1>4. \A proxy : GoesTo(HookAddr(Next1), entry, proxy, Page)
  BY DEF GoesTo
<1>. HIDE DEF cut, entry
<1>. QED BY <1>1, <1>2, <1>3, <1>4, InstallKeeps

LEMMA FallbackKeeps == ASSUME Inv, PatchFallback PROVE Inv'
<1>. DEFINE cut == Cut(LongBranch, TRUE)
            entry == BranchInto(HookAddr(Next1))
<1>1. Ready /\ cut # 0 /\ Install("verbatim", cut, Page, Displaced(cut), entry, <<>>)
  BY DEF PatchFallback
<1>2. CutOK(cut) /\ Sound(entry) /\ Size(entry) <= cut /\ (amd64 \/ Size(entry) = cut)
  BY <1>1, LongCutIsOK
<1>3. "verbatim" \in hows
  BY DEF hows
<1>4. \A proxy : GoesTo(HookAddr(Next1), entry, proxy, Page)
  BY DEF GoesTo
<1>. HIDE DEF cut, entry
<1>. QED BY <1>1, <1>2, <1>3, <1>4, InstallKeeps

(* One instruction is cut where instructions are of one length.            *)
LEMMA NearCutIsOK ==
  ASSUME Inv, ~amd64
  PROVE  CutOK(4)
<1>. DEFINE Z == Size(target.code)
<1>1. /\ Z \in Nat /\ Z >= 26 /\ Entry \in Nat
      /\ \A b \in Zone : mem[b].inst.len = 4
  BY InvHolds, TargetIsCode DEF Lens
<1>. HIDE DEF Z
<1>2. ASSUME NEW n \in Nat, NEW B, Marks(mem, Entry, n, B), 4 <= n PROVE Entry + 4 \in B
  <2>1. Entry < Entry + n /\ Entry \in Zone
    BY <1>1, <1>2 DEF Zone, Z
  <2>2. Decode(mem, Entry) # Bad /\ Entry + Decode(mem, Entry).len \in B
    BY <1>2, <2>1 DEF Marks
  <2>3. Decode(mem, Entry) = mem[Entry].inst
    BY <2>2 DEF Decode
  <2>. QED BY <1>1, <2>1, <2>2, <2>3
<1>3. 4 \in Nat /\ 4 <= Z
  BY <1>1
<1>. QED BY <1>2, <1>3 DEF CutOK, Z

LEMMA NearKeeps == ASSUME Inv, PatchNear PROVE Inv'
<1>. DEFINE slot == Slots[Next1]
            code == R!ShortBranchTo(Entry, slot)
            hook == BranchInto(HookAddr(Next1))
            proxy == R!RelocateFirstInst(Decode(mem, Entry), Entry, Page).code
                     \o BranchTo(Entry + R!ShortBranchLen)
            m1 == Write(mem, hook, slot)
            m2 == Fill(m1, proxy, Page, PageBytes)
            p == [how |-> "near", cut |-> R!ShortBranchLen, page |-> Page,
                  hook |-> HookAddr(Next1), saved |-> Copy(mem, Entry, R!ShortBranchLen)]
<1>1. /\ Ready /\ TooShort /\ code # <<>>
      /\ Free(mem, slot, 24) /\ Free(m1, Page, PageBytes)
      /\ mem' = Write(m2, code, Entry) /\ patches' = Append(patches, p) /\ made' = made + 1
      /\ target' = target /\ run' = run
  BY DEF PatchNear, Next1, R!LongBranch
<1>2. /\ target \in Functions /\ Zone \subseteq DOMAIN mem /\ made < MaxPatches
      /\ made + 1 \in DOMAIN Pages /\ ~amd64
  BY <1>1, InvHolds DEF Ready, TooShort, amd64
<1>3. CutOK(4) /\ Sound(code) /\ Size(code) = 4 /\ code = <<Jump(slot)>>
  <2>1. code = <<Jump(slot)>>
    BY <1>1, <1>2, InstFields DEF R!ShortBranchTo, R!A, Jump
  <2>. QED BY <1>1, <1>2, <2>1, NearCutIsOK, ShortBranchesAreSound
<1>4. /\ p.how = "near" /\ p.cut = 4 /\ p.page = Page /\ BranchInto(p.hook) = hook
      /\ DOMAIN p.saved = Entry .. Entry + 4 - 1 /\ \A b \in DOMAIN p.saved : p.saved[b] = mem[b]
  BY DEF Copy, R!ShortBranchLen
<1>6. slot \in Int
  <2>1. Slots \in Seq(Nat) /\ Len(Slots) = Len(Pages) /\ Pages \in Seq(Nat)
    BY CutAssumption
  <2>. QED BY <1>2, <2>1 DEF Next1
<1>7. IsCode(hook) /\ DOMAIN Bytes(hook, slot) = slot .. slot + 24 - 1
  <2>1. Sound(hook) /\ Size(hook) = 24
    BY <1>2, LongBranchIsSound DEF LongCut
  <2>. HIDE DEF hook, slot
  <2>. QED BY <1>6, <2>1, BytesAreOfCode DEF Sound
<1>. HIDE DEF p, code, m2, proxy, hook, slot
<1>8. \A b \in DOMAIN Bytes(hook, slot) : b \notin Zone /\ b \notin DOMAIN mem
  BY <1>1, <1>2, <1>7, FreeIsAway
<1>9. /\ \A b \in DOMAIN mem : b \in DOMAIN m1 /\ m1[b] = mem[b]
      /\ \A b \in DOMAIN Bytes(hook, slot) : b \in DOMAIN m1 /\ m1[b] = Bytes(hook, slot)[b]
  BY <1>8 DEF Write, Overlay
<1>. HIDE DEF m1
<1>10. \A b \in Page .. Page + PageBytes - 1 : b \notin Zone /\ b \notin DOMAIN m1
  <2>1. Zone \subseteq DOMAIN m1
    BY <1>2, <1>9
  <2>. QED BY <1>1, <2>1, FreeIsAway
<1>11. \A b \in DOMAIN m1 : b \in DOMAIN m2 /\ m2[b] = m1[b]
  BY <1>10, FillHolds DEF m2
<1>5. PatchOK(p) /\ \A b \in OwnPage(p) : b \notin DOMAIN mem
  <2>1. OwnPage(p) = Page .. Page + PageBytes - 1
    BY <1>4 DEF OwnPage
  <2>2. p.hook \in Word
    BY <1>1, HookIsAddress DEF p
  <2>. QED BY <1>3, <1>4, <1>9, <1>10, <2>1, <2>2 DEF PatchOK, CutOK, hows
<1>12. Zone \subseteq DOMAIN m2 /\ \A b \in Zone : m2[b] = mem[b]
  BY <1>2, <1>9, <1>11
<1>13. Entered(mem', code, 4)
  BY <1>1, <1>2, <1>3, <1>12, WriteEntry
<1>14. \A b \in DOMAIN m2 : b \notin Zone => b \in DOMAIN mem' /\ mem'[b] = m2[b]
  BY <1>1, <1>2, <1>3, EntryIsInZone DEF CutOK
<1>15. \A b \in DOMAIN mem : b \notin Zone => b \in DOMAIN mem' /\ mem'[b] = mem[b]
  BY <1>9, <1>11, <1>14
<1>16. Leads(mem', mem', p.hook)
  <2>1. PadEntry(code, 4) = code
    BY <1>2, <1>3, SameBytes DEF PadEntry, R!PadEntry
  <2>2. InEntry(mem', code)
    BY <1>2, <1>3, <1>13, <2>1, EntryHolds DEF CutOK
  <2>3. Holds(mem', hook, slot)
    BY <1>8, <1>9, <1>11, <1>14 DEF Holds
  <2>. QED BY <1>3, <1>4, <1>6, <2>2, <2>3 DEF Leads
<1>. QED BY <1>1, <1>2, <1>3, <1>4, <1>5, <1>13, <1>15, <1>16, PushKeeps

-----------------------------------------------------------------------------
(* The instructions in front of a cut.                                     *)

(* A function that collects a sequence by such jumps.                      *)
Lists(f, lo, hi, stop, val, pre, next) ==
  f = [p \in lo .. hi |-> IF p \in stop THEN val[p] ELSE pre[p] \o f[next[p]]]
LEMMA ListsDefine ==
  ASSUME NEW lo \in Int, NEW hi \in Int, lo <= hi, NEW stop, NEW val, NEW pre, NEW next,
         \A p \in (lo .. hi) \ stop : next[p] \in p + 1 .. hi
  PROVE  \E f : Lists(f, lo, hi, stop, val, pre, next)
<1>. DEFINE M == hi - lo + 1
            S == {n \in 1 .. M : \E f : Lists(f, hi + 1 - n, hi, stop, val, pre, next)}
<1>1. M \in Nat /\ M \in 1 .. M /\ 1 \in 1 .. M
  OBVIOUS
<1>2. 1 \in S
  <2>. DEFINE f == [p \in hi .. hi |-> val[p]]
  <2>1. hi + 1 - 1 = hi /\ \A p \in hi .. hi : p \in lo .. hi /\ p + 1 .. hi = {}
    OBVIOUS
  <2>2. \A p \in hi .. hi : p \in stop
    <3>. SUFFICES ASSUME NEW p \in hi .. hi, p \notin stop PROVE FALSE
      OBVIOUS
    <3>1. p \in (lo .. hi) \ stop
      BY <2>1
    <3>2. next[p] \in p + 1 .. hi
      BY <3>1
    <3>. QED BY <2>1, <3>2
  <2>3. Lists(f, hi, hi, stop, val, pre, next)
    BY <2>2 DEF Lists
  <2>. HIDE DEF f
  <2>. QED BY <1>1, <2>1, <2>3
<1>3. ASSUME NEW n \in 1 .. M, n \in S, n + 1 \in 1 .. M
      PROVE  n + 1 \in S
  <2>. DEFINE b == hi + 1 - n
              a == hi + 1 - (n + 1)
  <2>1. PICK f : Lists(f, b, hi, stop, val, pre, next)
    BY <1>3
  <2>2. /\ a \in lo .. hi /\ b = a + 1 /\ b \in Int /\ a \notin b .. hi
        /\ a .. hi = {a} \cup (b .. hi)
    <3>1. a \in Int /\ a <= hi /\ lo <= a /\ b = a + 1
      BY <1>1, <1>3
    <3>. HIDE DEF a, b
    <3>. QED BY <3>1
  <2>. HIDE DEF a, b, M
  <2>. DEFINE g == [p \in a .. hi |->
                     IF p = a THEN IF a \in stop THEN val[a] ELSE pre[a] \o f[next[a]] ELSE f[p]]
  <2>3. ASSUME NEW p \in a .. hi
        PROVE  g[p] = IF p \in stop THEN val[p] ELSE pre[p] \o g[next[p]]
    <3>1. p \in lo .. hi /\ p \in Int
      BY <2>2
    <3>2. p \notin stop => next[p] \in b .. hi /\ next[p] \in a .. hi /\ next[p] # a
      <4>. SUFFICES ASSUME p \notin stop
                    PROVE  next[p] \in b .. hi /\ next[p] \in a .. hi /\ next[p] # a
        OBVIOUS
      <4>1. next[p] \in p + 1 .. hi
        BY <3>1
      <4>. QED BY <2>2, <4>1
    <3>3. p \notin stop => g[next[p]] = f[next[p]]
      BY <3>2
    <3>4. CASE p = a
      BY <3>3, <3>4
    <3>5. CASE p # a
      <4>1. p \in b .. hi /\ g[p] = f[p]
        BY <2>2, <3>5
      <4>2. f[p] = IF p \in stop THEN val[p] ELSE pre[p] \o f[next[p]]
        BY <2>1, <4>1 DEF Lists
      <4>. QED BY <3>3, <4>1, <4>2
    <3>. QED BY <3>4, <3>5
  <2>4. Lists(g, a, hi, stop, val, pre, next)
    <3>1. g = [p \in a .. hi |-> g[p]]
      OBVIOUS
    <3>. HIDE DEF g
    <3>. QED BY <2>3, <3>1 DEF Lists
  <2>. HIDE DEF g
  <2>. QED BY <1>3, <2>4 DEF a
<1>4. M \in S
  <2>1. 1 .. M \subseteq S
    <3>. HIDE DEF S, M
    <3>. QED BY <1>1, <1>2, <1>3, InductionUpTo
  <2>. QED BY <1>1, <2>1
<1>5. hi + 1 - M = lo
  OBVIOUS
<1>. HIDE DEF M
<1>. QED BY <1>4, <1>5

(* The sequence consists of what is at the places jumped over.             *)
LEMMA ListsConsistOf ==
  ASSUME NEW lo \in Int, NEW hi \in Int, NEW stop, NEW val, NEW pre, NEW next,
         NEW f, Lists(f, lo, hi, stop, val, pre, next),
         NEW P, NEW Q, StaysIn(P, Seq(Q), lo, hi, stop, val, next),
         \A p \in P \ stop : pre[p] \in Seq(Q)
  PROVE  \A p \in P : f[p] \in Seq(Q)
<1>. DEFINE M == hi - lo + 1
            S == {n \in 1 .. M : \A p \in P : p > hi - n => f[p] \in Seq(Q)}
<1>0. /\ P \subseteq lo .. hi
      /\ \A p \in P \cap stop : val[p] \in Seq(Q)
      /\ \A p \in P \ stop : next[p] \in P /\ next[p] > p
  BY DEF StaysIn
<1>. SUFFICES ASSUME NEW q \in P, f[q] \notin Seq(Q) PROVE FALSE
  OBVIOUS
<1>1. M \in Nat /\ M \in 1 .. M /\ 1 \in 1 .. M /\ lo <= hi
  BY <1>0
<1>2. \A p \in P : p \in lo .. hi /\ f[p] = IF p \in stop THEN val[p] ELSE pre[p] \o f[next[p]]
  BY <1>0 DEF Lists
<1>3. 1 \in S
  <2>. SUFFICES ASSUME NEW p \in P, p > hi - 1 PROVE f[p] \in Seq(Q)
    BY <1>1
  <2>1. p = hi
    BY <1>2
  <2>2. p \in stop
    <3>. SUFFICES ASSUME p \notin stop PROVE FALSE
      OBVIOUS
    <3>1. next[p] \in P /\ next[p] > p
      BY <1>0
    <3>2. next[p] \in lo .. hi
      BY <1>2, <3>1
    <3>. QED BY <2>1, <3>1, <3>2
  <2>. QED BY <1>0, <1>2, <2>2
<1>4. ASSUME NEW n \in 1 .. M, n \in S, n + 1 \in 1 .. M
      PROVE  n + 1 \in S
  <2>. SUFFICES ASSUME NEW p \in P, p > hi - (n + 1) PROVE f[p] \in Seq(Q)
    BY <1>4
  <2>1. CASE p \in stop
    BY <1>0, <1>2, <2>1
  <2>2. CASE p \notin stop
    <3>0. next[p] \in P /\ next[p] > p
      BY <1>0, <2>2
    <3>1. next[p] \in P /\ next[p] > p /\ p \in Int /\ next[p] \in Int
      BY <1>2, <3>0
    <3>2. next[p] > hi - n
      BY <1>1, <3>1
    <3>3. f[next[p]] \in Seq(Q) /\ pre[p] \in Seq(Q)
      BY <1>4, <2>2, <3>1, <3>2
    <3>4. f[p] = pre[p] \o f[next[p]]
      BY <1>2, <2>2
    <3>. DEFINE u == pre[p]
                v == f[next[p]]
    <3>. HIDE DEF u, v
    <3>5. u \in Seq(Q) /\ v \in Seq(Q) /\ f[p] = u \o v
      BY <3>3, <3>4 DEF u, v
    <3>. QED BY <3>5
  <2>. QED BY <2>1, <2>2
<1>5. M \in S
  <2>1. 1 .. M \subseteq S
    <3>. HIDE DEF S, M
    <3>. QED BY <1>1, <1>3, <1>4, InductionUpTo
  <2>. QED BY <1>1, <2>1
<1>6. q > hi - M
  BY <1>2
<1>. HIDE DEF M
<1>. QED BY <1>5, <1>6

(* Displaced instructions are those that begin at the marks.               *)
LEMMA InstructionsIn ==
  ASSUME NEW m, NEW a \in Int, NEW n \in Nat, NEW P, NEW Q, P \subseteq a .. a + n, a \in P,
         \A b \in a .. a + n - 1 : m[b].inst.len \in Nat \ {0},
         \A b \in P : b # a + n =>
           IF b + Decode(m, b).len > a + n THEN Bad \in Q
           ELSE Decode(m, b) \in Q /\ b + Decode(m, b).len \in P
  PROVE  Instructions(m, a, n) \in Seq(Q)
<1>. DEFINE hi == a + n
            IsFrom(f) == f = [b \in a .. a + n |->
                IF b = a + n THEN <<>>
                ELSE IF b + Decode(m, b).len > a + n THEN <<Bad>>
                ELSE <<Decode(m, b)>> \o f[b + Decode(m, b).len]]
            from == CHOOSE f : IsFrom(f)
            stop == {b \in a .. hi : b = hi \/ b + Decode(m, b).len > hi}
            val == [b \in a .. hi |-> IF b = hi THEN <<>> ELSE <<Bad>>]
            pre == [b \in a .. hi |-> <<Decode(m, b)>>]
            next == [b \in a .. hi |-> b + Decode(m, b).len]
<1>1. Instructions(m, a, n) = from[a]
  BY DEF Instructions
<1>2. hi \in Int /\ a <= hi /\ P \subseteq a .. hi
  OBVIOUS
<1>3. ASSUME NEW b \in a .. hi, b # hi PROVE Decode(m, b).len \in Nat \ {0}
  <2>1. CASE Decode(m, b) = Bad
    <3>1. Bad.len = 1
      BY DEF Bad, I
    <3>. QED BY <2>1, <3>1
  <2>2. CASE Decode(m, b) # Bad
    <3>1. Decode(m, b) = m[b].inst
      BY <2>2 DEF Decode
    <3>2. b \in a .. a + n - 1
      BY <1>3
    <3>. QED BY <3>1, <3>2
  <2>. QED BY <2>1, <2>2
<1>4. \A b \in P : b # hi =>
        IF b + Decode(m, b).len > hi THEN Bad \in Q
        ELSE Decode(m, b) \in Q /\ b + Decode(m, b).len \in P
  OBVIOUS
<1>. HIDE DEF IsFrom, from, stop, val, pre, next
<1>5. \A b \in (a .. hi) \ stop : next[b] \in b + 1 .. hi
  <2>. SUFFICES ASSUME NEW b \in a .. hi, b \notin stop PROVE next[b] \in b + 1 .. hi
    OBVIOUS
  <2>1. b # hi /\ ~(b + Decode(m, b).len > hi) /\ next[b] = b + Decode(m, b).len
    BY DEF stop, next
  <2>2. Decode(m, b).len \in Nat \ {0}
    BY <1>3, <2>1
  <2>. QED BY <1>2, <2>1, <2>2
<1>6. IsFrom(from)
  <2>1. PICK f : Lists(f, a, hi, stop, val, pre, next)
    <3>. HIDE DEF hi
    <3>. QED BY <1>2, <1>5, ListsDefine
  <2>2. IsFrom(f)
    <3>1. f = [b \in a .. hi |-> IF b \in stop THEN val[b] ELSE pre[b] \o f[next[b]]]
      BY <2>1 DEF Lists
    <3>2. ASSUME NEW b \in a .. hi
          PROVE  (IF b \in stop THEN val[b] ELSE pre[b] \o f[next[b]])
                 = (IF b = hi THEN <<>>
                    ELSE IF b + Decode(m, b).len > hi THEN <<Bad>>
                    ELSE <<Decode(m, b)>> \o f[b + Decode(m, b).len])
      <4>. HIDE DEF hi
      <4>. QED BY DEF stop, val, pre, next
    <3>. QED BY <3>1, <3>2 DEF IsFrom
  <2>. QED BY <2>2, Zenon DEF from
<1>7. Lists(from, a, hi, stop, val, pre, next)
  <2>1. from = [b \in a .. hi |-> IF b = hi THEN <<>>
                    ELSE IF b + Decode(m, b).len > hi THEN <<Bad>>
                    ELSE <<Decode(m, b)>> \o from[b + Decode(m, b).len]]
    BY <1>6 DEF IsFrom
  <2>. HIDE DEF hi
  <2>2. ASSUME NEW b \in a .. hi
        PROVE  (IF b \in stop THEN val[b] ELSE pre[b] \o from[next[b]])
               = (IF b = hi THEN <<>>
                  ELSE IF b + Decode(m, b).len > hi THEN <<Bad>>
                  ELSE <<Decode(m, b)>> \o from[b + Decode(m, b).len])
    BY DEF stop, val, pre, next
  <2>. QED BY <2>1, <2>2 DEF Lists
<1>. HIDE DEF hi
<1>8. StaysIn(P, Seq(Q), a, hi, stop, val, next)
  <2>1. ASSUME NEW b \in P, b \notin stop
        PROVE  next[b] \in P /\ next[b] > b
    <3>1. b \in a .. hi /\ b # hi /\ ~(b + Decode(m, b).len > hi)
      BY <1>2, <2>1 DEF stop
    <3>2. Decode(m, b).len \in Nat \ {0} /\ b + Decode(m, b).len \in P
      BY <1>3, <1>4, <3>1
    <3>3. next[b] = b + Decode(m, b).len
      BY <3>1 DEF next
    <3>. QED BY <3>1, <3>2, <3>3
  <2>2. ASSUME NEW b \in P, b \in stop PROVE val[b] \in Seq(Q)
    <3>1. b \in a .. hi
      BY <1>2
    <3>2. CASE b = hi
      BY <3>1, <3>2 DEF val
    <3>3. CASE b # hi
      <4>1. Bad \in Q
        BY <1>4, <2>2, <3>1, <3>3 DEF stop
      <4>2. val[b] = <<Bad>>
        BY <3>1, <3>3 DEF val
      <4>. QED BY <4>1, <4>2
    <3>. QED BY <3>2, <3>3
  <2>. QED BY <1>2, <2>1, <2>2 DEF StaysIn
<1>9. \A b \in P \ stop : pre[b] \in Seq(Q)
  <2>. SUFFICES ASSUME NEW b \in P, b \notin stop PROVE pre[b] \in Seq(Q)
    OBVIOUS
  <2>1. b \in a .. hi /\ b # hi /\ ~(b + Decode(m, b).len > hi)
    BY <1>2 DEF stop
  <2>2. pre[b] = <<Decode(m, b)>> /\ Decode(m, b) \in Q
    BY <1>4, <2>1 DEF pre
  <2>. QED BY <2>2
<1>10. \A b \in P : from[b] \in Seq(Q)
  BY <1>2, <1>7, <1>8, <1>9, ListsConsistOf
<1>. QED BY <1>1, <1>10

(* Where the bytes decode, the instructions do.                            *)
LEMMA InstructionsAreGood ==
  ASSUME NEW m, NEW a \in Int, NEW n \in Nat, NEW B, Marks(m, a, n, B),
         \A b \in a .. a + n - 1 : m[b].inst.len \in Nat \ {0}
  PROVE  Bad \notin Range(Instructions(m, a, n))
<1>. DEFINE Q == {Decode(m, b) : b \in B \ {a + n}}
<1>1. B \subseteq a .. a + n /\ a \in B
  BY DEF Marks
<1>2. ASSUME NEW b \in B, b # a + n
      PROVE  /\ Decode(m, b) # Bad /\ Decode(m, b) \in Q
             /\ b + Decode(m, b).len \in B /\ ~(b + Decode(m, b).len > a + n)
  <2>1. b \in a .. a + n /\ b < a + n
    BY <1>1, <1>2
  <2>2. Decode(m, b) # Bad /\ b + Decode(m, b).len \in B
    BY <2>1 DEF Marks
  <2>3. b + Decode(m, b).len \in a .. a + n
    BY <1>1, <2>2
  <2>. QED BY <1>2, <2>2, <2>3
<1>3. Bad \notin Q
  BY <1>2
<1>. HIDE DEF Q
<1>4. Instructions(m, a, n) \in Seq(Q)
  BY <1>1, <1>2, InstructionsIn
<1>. DEFINE s == Instructions(m, a, n)
<1>. HIDE DEF s
<1>5. \A i \in DOMAIN s : s[i] \in Q
  BY <1>4 DEF s
<1>. QED BY <1>3, <1>5 DEF Range, s

(* What is read at the entry has lengths, whether it decodes or not.       *)
LEMMA DisplacedIsCode ==
  ASSUME Inv, NEW n \in Nat, n <= Size(target.code)
  PROVE  IsCode(Displaced(n))
<1>. DEFINE P == Entry .. Entry + n
            Q == {Decode(mem, b) : b \in Entry .. Entry + n - 1} \cup {Bad}
            Z == Size(target.code)
<1>1. Entry \in Nat /\ Z \in Nat /\ \A b \in Zone : mem[b].inst.len \in Lens
  BY InvHolds, TargetIsCode
<1>2. \A b \in Entry .. Entry + n - 1 : b \in Zone
  <2>1. Zone = Entry .. Entry + Z - 1 /\ n <= Z
    BY DEF Zone
  <2>. HIDE DEF Z
  <2>. QED BY <1>1, <2>1
<1>. HIDE DEF Z
<1>3. \A b \in Entry .. Entry + n - 1 : mem[b].inst.len \in Nat \ {0}
  <2>1. \A l \in Lens : l \in Nat \ {0}
    BY DEF Lens
  <2>. QED BY <1>1, <1>2, <2>1
<1>4. \A b \in Entry .. Entry + n - 1 : Decode(mem, b).len \in Nat \ {0}
  <2>1. Bad.len = 1
    BY DEF Bad, I
  <2>. QED BY <1>3, <2>1 DEF Decode
<1>5. \A q \in Q : q.len \in Nat \ {0}
  <2>1. Bad.len \in Nat \ {0}
    BY DEF Bad, I
  <2>. QED BY <1>4, <2>1
<1>6. Entry \in P /\ Bad \in Q
  BY <1>1
<1>7. ASSUME NEW b \in P, b # Entry + n, ~(b + Decode(mem, b).len > Entry + n)
      PROVE  Decode(mem, b) \in Q /\ b + Decode(mem, b).len \in P
  <2>1. b \in Entry .. Entry + n - 1
    BY <1>1, <1>7
  <2>. QED BY <1>1, <1>4, <1>7, <2>1
<1>8. P \subseteq Entry .. Entry + n /\ Entry \in Int
  BY <1>1
<1>. HIDE DEF P, Q
<1>9. Instructions(mem, Entry, n) \in Seq(Q)
  BY <1>3, <1>6, <1>7, <1>8, InstructionsIn
<1>. DEFINE s == Displaced(n)
<1>10. s \in Seq(Q)
  BY <1>9 DEF Displaced
<1>. HIDE DEF s
<1>11. IsSequence(s) /\ \A i \in DOMAIN s : s[i] \in Q
  BY <1>10 DEF IsSequence
<1>. QED BY <1>5, <1>11 DEF IsCode, s

-----------------------------------------------------------------------------
(* A short branch goes to the relay behind the relocated prefix.           *)

LEMMA MovedIsCode ==
  ASSUME NEW code, IsCode(code), NEW old, NEW new
  PROVE  IsCode(X!Relocate(code, old, new).code)
<1>. DEFINE c == X!Relocate(code, old, new).code
<1>1. \/ c = code
      \/ /\ c = [i \in DOMAIN code |-> c[i]]
         /\ \A i \in DOMAIN code : c[i].len = code[i].len \/ c[i].len = X!Wide(code[i]).len
  BY DEF X!Relocate, X!Displace, X!I
<1>. HIDE DEF c
<1>2. /\ Len(code) \in Nat /\ DOMAIN code = 1 .. Len(code)
      /\ \A i \in DOMAIN code : code[i].len \in Nat \ {0}
  BY CodeSize
<1>3. \A i \in DOMAIN code : X!Wide(code[i]).len \in Nat \ {0}
  BY <1>2 DEF X!Wide, X!I
<1>4. ASSUME c = [i \in DOMAIN code |-> c[i]],
             \A i \in DOMAIN code : c[i].len = code[i].len \/ c[i].len = X!Wide(code[i]).len
      PROVE  IsCode(c)
  <2>1. DOMAIN c = 1 .. Len(code) /\ \A i \in DOMAIN c : c[i].len \in Nat \ {0}
    BY <1>2, <1>3, <1>4
  <2>2. IsSequence(c)
    <3>1. c \in [1 .. Len(code) -> {c[i] : i \in DOMAIN c}]
      BY <1>2, <1>4, <2>1
    <3>. QED BY <1>2, <3>1 DEF IsSequence
  <2>. QED BY <2>1, <2>2 DEF IsCode
<1>. QED BY <1>1, <1>4 DEF c

LEMMA BranchBackIsCode ==
  ASSUME amd64, NEW to
  PROVE  IsCode(BranchTo(to)) /\ Size(BranchTo(to)) = 12
<1>. DEFINE e == <<X!rdxMOV(to), X!I("jmpset", 2, 0, 0)>>
<1>1. BranchTo(to) = e
  BY DEF BranchTo, X!BranchTo
<1>2. e[1].len = 10 /\ e[2].len = 2 /\ Len(e) = 2 /\ DOMAIN e = 1 .. 2
  BY InstFields DEF X!rdxMOV
<1>3. IsSequence(e)
  BY DEF IsSequence
<1>. HIDE DEF e
<1>4. IsCode(e)
  BY <1>2, <1>3 DEF IsCode
<1>5. /\ At0(e)[1] = 0 /\ At0(e)[1 + 1] = At0(e)[1] + e[1].len
      /\ At0(e)[2 + 1] = At0(e)[2] + e[2].len /\ At0(e)[2 + 1] = Size(e)
  <2>1. 1 \in 1 .. Len(e) /\ 2 \in 1 .. Len(e)
    BY <1>2
  <2>. QED BY <1>2, <1>4, <2>1, CodeSize
<1>. QED BY <1>1, <1>2, <1>4, <1>5

(* PatchValueShort writes the relay before the jump to it.                 *)
LEMMA ShortKeeps == ASSUME Inv, PatchShortBranch PROVE Inv'
<1>. DEFINE cut == Cut(X!ShortBranchSize, TRUE)
            page == NearPages[Next1]
            moved == Relocated(cut, page)
            prefix == moved.code
            back == BranchTo(Entry + cut)
            used == Size(prefix) + 12
            relay == Align16(used)
            hook == BranchInto(HookAddr(Next1))
            entry == X!BranchIntoShort(Entry, page + relay)
            gap == [k \in 1 .. relay - used |-> I("int3", 1, 0, 0)]
<1>1. /\ Ready /\ amd64
      /\ cut # 0 /\ entry # <<>> /\ relay + Size(hook) <= PageBytes
      /\ Install("short", cut, page, prefix, entry, gap \o hook)
  BY DEF PatchShortBranch, ShortBranch, X!LongBranch
<1>2. target \in Functions /\ made < MaxPatches /\ made + 1 \in DOMAIN Pages
  BY <1>1, InvHolds DEF Ready
<1>3. CutOK(cut) /\ 5 <= cut
  <2>1. X!ShortBranchSize = 5
    BY DEF X!ShortBranchSize
  <2>. QED BY <1>1, <2>1, InvHolds, CutIsOK
<1>4. Sound(entry) /\ Size(entry) = 5 /\ entry = <<Jump(page + relay)>>
  <2>. DEFINE to == page + relay
  <2>. HIDE DEF to
  <2>1. X!BranchIntoShort(Entry, to) # <<>> => X!BranchIntoShort(Entry, to) = <<Jump(to)>>
    BY <1>1 DEF X!BranchIntoShort, X!ShortBranchSize, Jump, X!I, I
  <2>. QED BY <1>1, <2>1, ShortBranchesAreSound DEF to
<1>5. IsCode(prefix) /\ Size(prefix) \in Nat
  <2>1. moved = X!Relocate(Displaced(cut), Entry, page)
    BY <1>1 DEF Relocated
  <2>2. IsCode(Displaced(cut))
    BY <1>3, DisplacedIsCode DEF CutOK
  <2>3. IsCode(prefix)
    BY <2>1, <2>2, MovedIsCode
  <2>. QED BY <2>3, CodeSize
<1>6. IsCode(back) /\ Size(back) = 12
  BY <1>1, BranchBackIsCode
<1>7. used \in Nat /\ relay \in Nat /\ used <= relay
  <2>. HIDE DEF prefix
  <2>1. used \in Nat
    BY <1>5
  <2>. HIDE DEF used
  <2>. QED BY <2>1 DEF Align16
<1>8. IsCode(gap) /\ Size(gap) = relay - used
  <2>. HIDE DEF used, relay
  <2>1. I("int3", 1, 0, 0).len = 1 /\ relay - used \in Nat
    BY <1>7 DEF I
  <2>. QED BY <2>1, OnesAreCode
<1>9. IsCode(hook) /\ Size(hook) = 12
  BY <1>1, LongBranchIsSound DEF LongCut, Sound
<1>10. page \in Int /\ PageBytes \in Nat
  <2>1. NearPages \in Seq(Nat) /\ Len(NearPages) = Len(Pages) /\ Pages \in Seq(Nat)
    BY CutAssumption
  <2>. QED BY <1>2, <2>1, CutAssumption, SMTT(30) DEF Next1
<1>. DEFINE pre == prefix \o back
            behind == gap \o hook
            r == page + relay
<1>11. IsCode(pre) /\ Size(pre) = used /\ IsCode(behind)
  <2>. HIDE DEF prefix, back, gap, hook
  <2>. QED BY <1>5, <1>6, <1>8, <1>9, JoinIsCode, JoinOffsets
<1>. HIDE DEF cut, page, moved, prefix, back, relay, hook, entry, gap
<1>12. r \in Int /\ r = page + used + (relay - used) /\ page + used \in Int
  BY <1>7, <1>10
<1>13. DOMAIN Bytes(hook, r) = r .. r + 12 - 1
  BY <1>9, <1>12, BytesAreOfCode
<1>14. \A b \in DOMAIN Bytes(hook, r) : b \in page .. page + PageBytes - 1
  BY <1>1, <1>7, <1>9, <1>10, <1>13
<1>. HIDE DEF used, r, pre, behind
<1>15. \A b \in DOMAIN Bytes(hook, r) :
         b \in DOMAIN Bytes(pre \o behind, page) /\ Bytes(pre \o behind, page)[b] = Bytes(hook, r)[b]
  <2>1. \A b \in DOMAIN Bytes(hook, (page + used) + Size(gap)) :
          /\ b \in DOMAIN Bytes(gap \o hook, page + used)
          /\ Bytes(gap \o hook, page + used)[b] = Bytes(hook, (page + used) + Size(gap))[b]
    BY <1>8, <1>9, <1>12, JoinBytes
  <2>2. \A b \in DOMAIN Bytes(behind, page + Size(pre)) :
          /\ b \in DOMAIN Bytes(pre \o behind, page)
          /\ Bytes(pre \o behind, page)[b] = Bytes(behind, page + Size(pre))[b]
    BY <1>10, <1>11, JoinBytes
  <2>. QED BY <1>8, <1>11, <1>12, <2>1, <2>2 DEF behind
<1>16. GoesTo(HookAddr(Next1), entry, prefix \o back \o behind, page)
  BY <1>4, <1>12, <1>14, <1>15 DEF GoesTo, hook, pre, r
<1>17. Install("short", cut, page, prefix, entry, behind)
  BY <1>1 DEF behind
<1>18. "short" \in hows
  BY DEF hows
<1>. QED BY <1>1, <1>3, <1>4, <1>16, <1>17, <1>18, InstallKeeps DEF back

-----------------------------------------------------------------------------
(* The invariant holds.                                                    *)

(* A release takes the newest layer off.                                   *)
LEMMA UnpatchKeeps == ASSUME Inv, Unpatch PROVE Inv'
<1>. DEFINE n == Len(patches)
            p == patches[Len(patches)]
            gone == IF p.how = "short" THEN {} ELSE p.page .. p.page + PageBytes - 1
<1>1. /\ patches # <<>>
      /\ mem' = [b \in DOMAIN mem \ gone |-> Restored(mem, p)[b]]
      /\ patches' = SubSeq(patches, 1, n - 1)
      /\ target' = target /\ made' = made /\ run' = run
  BY DEF Unpatch
<1>2. PICK h : Layers(h, mem, patches)
  BY DEF Inv
<1>3. Shape /\ n \in Nat /\ DOMAIN patches = 1 .. n
  BY InvHolds DEF Inv
<1>4. n # 0
  BY <1>1, <1>3 DEF Shape, IsSequence
<1>5. n \in 1 .. n /\ n + 1 \in 1 .. n + 1 /\ \A k \in 1 .. (n - 1) : k \in 1 .. n
  BY <1>3, <1>4
<1>6. /\ Len(patches') = n - 1 /\ IsSequence(patches')
      /\ \A k \in 1 .. (n - 1) : patches'[k] = patches[k]
  <2>1. patches \in Seq({patches[i] : i \in DOMAIN patches})
    BY <1>3 DEF Shape, IsSequence
  <2>. DEFINE T == {patches[i] : i \in DOMAIN patches}
              s == SubSeq(patches, 1, n - 1)
  <2>2. /\ s \in Seq(T) /\ Len(s) = n - 1
        /\ \A k \in 1 .. (n - 1) : s[k] = patches[k]
    <3>. HIDE DEF T
    <3>. QED BY <1>3, <1>4, <2>1 DEF T
  <2>3. s \in Seq({s[i] : i \in DOMAIN s})
    <3>. HIDE DEF s, T
    <3>. QED BY <2>2
  <2>. HIDE DEF s
  <2>. QED BY <1>1, <2>2, <2>3 DEF IsSequence, s
<1>7. PatchOK(p)
  BY <1>3, <1>5 DEF Shape
<1>8. \A b \in Zone : b \notin gone /\ b \in DOMAIN mem /\ b \in Int /\ Entry <= b
  <2>2. \A b \in gone : b \notin Zone
    BY <1>7 DEF PatchOK, OwnPage
  <2>3. Entry \in Nat /\ Size(target.code) \in Nat
    BY <1>3, TargetIsCode DEF Shape
  <2>4. \A b \in Zone : b \in Int /\ Entry <= b
    BY <2>3 DEF Zone
  <2>. QED BY <1>3, <2>2, <2>4 DEF Shape
<1>. HIDE DEF gone
<1>9. ASSUME NEW b \in Zone PROVE b \in DOMAIN mem' /\ mem'[b] = h[n][b]
  <2>1. b \in DOMAIN mem' /\ mem'[b] = IF b \in DOMAIN p.saved THEN p.saved[b] ELSE mem[b]
    BY <1>1, <1>8 DEF Restored
  <2>2. b \in DOMAIN p.saved <=> b < Entry + p.cut
    <3>1. p.cut \in Nat /\ DOMAIN p.saved = Entry .. Entry + p.cut - 1 /\ Entry \in Nat
      BY <1>3, <1>7, TargetIsCode DEF PatchOK, Shape
    <3>. HIDE DEF p
    <3>. QED BY <1>8, <3>1
  <2>3. h[n][b] = IF b < Entry + p.cut THEN p.saved[b] ELSE h[n + 1][b]
    BY <1>2, <1>5 DEF Layers
  <2>4. h[n + 1][b] = mem[b]
    BY <1>2 DEF Layers
  <2>. HIDE DEF p
  <2>. QED BY <2>1, <2>2, <2>3, <2>4
<1>10. Zone' = Zone /\ Lens' = Lens
  BY <1>1 DEF Zone, Lens, amd64
<1>11. Shape'
  <2>1. target' \in Functions /\ Zone' \subseteq DOMAIN mem'
    BY <1>1, <1>3, <1>9, <1>10 DEF Shape
  <2>2. made' \in Nat /\ Len(patches') <= made' /\ made' <= MaxPatches'
    BY <1>1, <1>3, <1>6 DEF Shape, MaxPatches
  <2>3. (\A k \in 1 .. Len(patches) : PatchOK(patches[k]))'
    <3>1. \A k \in 1 .. Len(patches') : PatchOK(patches'[k])
      BY <1>3, <1>5, <1>6 DEF Shape
    <3>. QED BY <1>1, <3>1 DEF PatchOK, OwnPage, Zone
  <2>4. DOMAIN run' = {"kind", "of", "cpu", "ref"} /\ run'.kind \in {"none", "target", "proxy"}
    BY <1>1, <1>3 DEF Shape
  <2>. QED BY <1>6, <2>1, <2>2, <2>3, <2>4 DEF Shape
<1>12. Layers(h, mem', patches')
  <2>1. Len(patches') + 1 = n
    BY <1>3, <1>6
  <2>2. \A k \in 1 .. (n - 1) : \A b \in Zone :
          h[k][b] = IF b < Entry + patches'[k].cut THEN patches'[k].saved[b] ELSE h[k + 1][b]
    BY <1>2, <1>5, <1>6 DEF Layers
  <2>3. ASSUME NEW k \in 1 .. n PROVE LayerOK(h[k], k, patches')
    <3>1. LayerOK(h[k], k, patches)
      <4>1. k \in 1 .. n + 1
        BY <1>3
      <4>. QED BY <1>2, <4>1 DEF Layers
    <3>2. \A j \in 1 .. k - 1 : patches'[j] = patches[j]
      <4>1. \A j \in 1 .. k - 1 : j \in 1 .. (n - 1)
        BY <1>3
      <4>. QED BY <1>6, <4>1
    <3>3. \A j \in 1 .. k - 1 : Deepest(patches', j, k - 1) <=> Deepest(patches, j, k - 1)
      BY <3>2 DEF Deepest
    <3>. QED BY <3>1, <3>2, <3>3 DEF LayerOK
  <2>4. \A b \in Zone : h[1][b] = Bytes(target.code, Entry)[b]
    BY <1>2 DEF Layers
  <2>5. ASSUME NEW k \in 1 .. (n - 1) PROVE LeadsTo(h[k + 1], mem', patches', k)
    <3>1. LeadsTo(h[k + 1], mem, patches, k) /\ patches'[k] = patches[k]
      BY <1>2, <1>5, <1>6 DEF Layers
    <3>2. ASSUME NEW r \in Int, Holds(mem, BranchInto(patches[k].hook), r), Stays(patches, k, r)
          PROVE  Holds(mem', BranchInto(patches[k].hook), r) /\ Stays(patches', k, r)
      <4>1. n \in k + 1 .. n
        BY <1>3
      <4>2. \A b \in DOMAIN Bytes(BranchInto(patches[k].hook), r) : b \notin OwnPage(p)
        BY <3>2, <4>1 DEF Stays
      <4>3. \A b \in DOMAIN mem : b \notin Zone /\ b \notin OwnPage(p) =>
                                 b \in DOMAIN mem' /\ mem'[b] = mem[b]
        <5>1. \A b \in gone : b \in OwnPage(p)
          BY DEF gone, OwnPage
        <5>2. \A b \in DOMAIN p.saved : b \in Zone
          <6>. DEFINE c == p.cut
                      Z == Size(target.code)
          <6>1. c \in Nat /\ Z \in Nat /\ c <= Z /\ DOMAIN p.saved = Entry .. Entry + c - 1 /\ Entry \in Nat
            BY <1>3, <1>7, TargetIsCode DEF PatchOK, Shape
          <6>. HIDE DEF c, Z
          <6>2. \A b \in Entry .. Entry + c - 1 : b \in Entry .. Entry + Z - 1
            BY <6>1
          <6>. QED BY <6>1, <6>2 DEF Zone, Z
        <5>. HIDE DEF p
        <5>3. ASSUME NEW b \in DOMAIN mem, b \notin Zone, b \notin OwnPage(p)
              PROVE  b \in DOMAIN mem' /\ mem'[b] = mem[b]
          <6>1. b \in DOMAIN mem \ gone /\ b \notin DOMAIN p.saved
            BY <5>1, <5>2, <5>3
          <6>. QED BY <1>1, <6>1 DEF Restored
        <5>. QED BY <5>3
      <4>. HIDE DEF p
      <4>4. Holds(mem', BranchInto(patches[k].hook), r)
        BY <3>2, <4>2, <4>3 DEF Holds
      <4>5. Stays(patches', k, r)
        <5>1. \A j \in k + 1 .. (n - 1) : j \in k + 1 .. n /\ patches'[j] = patches[j]
          <6>1. \A j \in k + 1 .. (n - 1) : j \in k + 1 .. n /\ j \in 1 .. (n - 1)
            BY <1>3
          <6>. QED BY <1>6, <6>1
        <5>. QED BY <1>6, <3>1, <3>2, <5>1 DEF Stays
      <4>. QED BY <4>4, <4>5
    <3>. QED BY <3>1, <3>2 DEF LeadsTo
  <2>. QED BY <1>6, <1>9, <2>1, <2>2, <2>3, <2>4, <2>5 DEF Layers
<1>13. (\E g : Layers(g, mem, patches))'
  BY <1>1, <1>10, <1>12, LeadsStays, ZenonT(30) DEF Layers, LayerOK
<1>. QED BY <1>11, <1>13 DEF Inv

LEMMA InitIsGood == Init => Inv
<1>. SUFFICES ASSUME Init PROVE Inv
  OBVIOUS
<1>1. /\ target \in Functions /\ mem = Bytes(target.code, Entry) /\ patches = <<>>
      /\ made = 0 /\ run = Idle
  BY DEF Init
<1>2. /\ IsCode(target.code) /\ \A i \in DOMAIN target.code : target.code[i].len \in Lens
      /\ Entry \in Nat
  BY <1>1, TargetIsCode
<1>3. /\ DOMAIN mem = Zone
      /\ \A b \in Zone : \E j \in DOMAIN target.code : mem[b].inst = target.code[j]
  <2>1. Entry \in Int
    BY <1>2
  <2>. QED BY <1>1, <1>2, <2>1, BytesAreOfCode DEF Zone
<1>4. Len(patches) = 0 /\ IsSequence(patches)
  BY <1>1 DEF IsSequence
<1>5. Shape
  <2>1. run = [kind |-> "none", of |-> 0, cpu |-> Reset(0), ref |-> Reset(0)]
    BY <1>1 DEF Idle
  <2>2. DOMAIN run = {"kind", "of", "cpu", "ref"} /\ run.kind = "none"
    BY <2>1
  <2>3. MaxPatches \in Nat
    BY CutAssumption DEF MaxPatches
  <2>. QED BY <1>1, <1>3, <1>4, <2>2, <2>3 DEF Shape
<1>6. LayerOK(mem, 1, patches)
  <2>1. 1 .. 1 - 1 = {}
    OBVIOUS
  <2>2. \A b \in Zone : mem[b].inst.len \in Lens
    BY <1>2, <1>3
  <2>. QED BY <1>3, <2>1, <2>2 DEF LayerOK
<1>. DEFINE h == [k \in {1} |-> mem]
<1>7. h[1] = mem
  OBVIOUS
<1>. HIDE DEF h
<1>8. Layers(h, mem, patches)
  <2>1. Len(patches) + 1 = 1 /\ 1 .. Len(patches) = {} /\ \A k \in 1 .. 1 : k = 1
    BY <1>4
  <2>. QED BY <1>1, <1>6, <1>7, <2>1 DEF Layers
<1>. QED BY <1>5, <1>8 DEF Inv

(* A step that is not of the engine leaves all but the processor.          *)
LEMMA RunKeeps ==
  ASSUME Inv, UNCHANGED <<target, mem, patches, made>>,
         DOMAIN run' = {"kind", "of", "cpu", "ref"}, run'.kind \in {"none", "target", "proxy"}
  PROVE  Inv'
<1>1. PICK h : Layers(h, mem, patches)
  BY DEF Inv
<1>2. target' = target /\ mem' = mem /\ patches' = patches /\ made' = made
  OBVIOUS
<1>3. Zone' = Zone /\ Lens' = Lens /\ MaxPatches' = MaxPatches
  BY <1>2 DEF Zone, Lens, amd64, MaxPatches
<1>4. (\E g : Layers(g, mem, patches))'
  <2>1. Bytes(target.code, Entry)' = Bytes(target.code, Entry) /\ Len(patches)' = Len(patches)
    BY <1>2
  <2>2. \A m, k : LayerOK(m, k, patches)' <=> LayerOK(m, k, patches)
    BY <1>2, <1>3 DEF LayerOK
  <2>3. \A e, k : LeadsTo(e, mem, patches, k)' <=> LeadsTo(e, mem, patches, k)
    BY <1>2, LeadsStays
  <2>4. Layers(h, mem, patches)'
    BY <1>1, <1>2, <1>3, <2>1, <2>2, <2>3 DEF Layers
  <2>. QED BY <2>4
<1>5. (\A k \in 1 .. Len(patches) : PatchOK(patches[k]))'
  BY <1>2 DEF Inv, Shape, PatchOK, OwnPage, Zone
<1>. QED BY <1>2, <1>3, <1>4, <1>5 DEF Inv, Shape

LEMMA StepKeepsInv == Inv /\ [Next]_vars => Inv'
<1>. SUFFICES ASSUME Inv, [Next]_vars PROVE Inv'
  OBVIOUS
<1>0. DOMAIN run = {"kind", "of", "cpu", "ref"} /\ run.kind \in {"none", "target", "proxy"}
  BY DEF Inv, Shape
<1>1. CASE PatchUnsafe
  BY <1>1, UnsafeKeeps
<1>2. CASE PatchArm64
  BY <1>2, Arm64Keeps
<1>3. CASE PatchLegacy
  BY <1>3, LegacyKeeps
<1>4. CASE PatchShortBranch
  BY <1>4, ShortKeeps
<1>5. CASE PatchFallback
  BY <1>5, FallbackKeeps
<1>6. CASE PatchNear
  BY <1>6, NearKeeps
<1>7. CASE Unpatch
  BY <1>7, UnpatchKeeps
<1>8. CASE CallTarget
  <2>1. run' = [Idle EXCEPT !.kind = "target", !.cpu = Reset(Entry)]
        /\ UNCHANGED <<target, mem, patches, made>>
    BY <1>8 DEF CallTarget
  <2>2. DOMAIN run' = {"kind", "of", "cpu", "ref"} /\ run'.kind = "target"
    BY <2>1 DEF Idle
  <2>. QED BY <2>1, <2>2, RunKeeps
<1>9. ASSUME NEW k \in DOMAIN patches, CallProxy(k) PROVE Inv'
  <2>1. run' = [kind |-> "proxy", of |-> k, cpu |-> Reset(patches[k].page), ref |-> Reset(Entry)]
        /\ UNCHANGED <<target, mem, patches, made>>
    BY <1>9 DEF CallProxy
  <2>2. DOMAIN run' = {"kind", "of", "cpu", "ref"} /\ run'.kind = "proxy"
    BY <2>1
  <2>. QED BY <2>1, <2>2, RunKeeps
<1>10. CASE Step
  <2>1. run' = [run EXCEPT !.cpu = After(Here, @, FALSE)] /\ UNCHANGED <<target, mem, patches, made>>
    BY <1>10 DEF Step
  <2>2. DOMAIN run' = {"kind", "of", "cpu", "ref"} /\ run'.kind = run.kind
    BY <1>0, <2>1
  <2>. QED BY <1>0, <2>1, <2>2, RunKeeps
<1>11. CASE StepReference
  <2>1. run' = [run EXCEPT !.ref = After(There, @, FALSE)] /\ UNCHANGED <<target, mem, patches, made>>
    BY <1>11 DEF StepReference
  <2>2. DOMAIN run' = {"kind", "of", "cpu", "ref"} /\ run'.kind = run.kind
    BY <1>0, <2>1
  <2>. QED BY <1>0, <2>1, <2>2, RunKeeps
<1>12. CASE StepBoth
  <2>1. PICK c \in BOOLEAN :
          run' = [run EXCEPT !.cpu = After(Here, @, c), !.ref = After(There, @, c)]
    BY <1>12 DEF StepBoth
  <2>2. DOMAIN run' = {"kind", "of", "cpu", "ref"} /\ run'.kind = run.kind
    BY <1>0, <2>1
  <2>3. UNCHANGED <<target, mem, patches, made>>
    BY <1>12 DEF StepBoth
  <2>. QED BY <1>0, <2>2, <2>3, RunKeeps
<1>13. CASE UNCHANGED vars
  <2>1. run' = run /\ UNCHANGED <<target, mem, patches, made>>
    BY <1>13 DEF vars
  <2>. QED BY <1>0, <2>1, RunKeeps
<1>. QED BY <1>1, <1>2, <1>3, <1>4, <1>5, <1>6, <1>7, <1>8, <1>9, <1>10, <1>11, <1>12, <1>13 DEF Next

LEMMA InvAlways == Spec => []Inv
BY InitIsGood, StepKeepsInv, PTL DEF Spec

-----------------------------------------------------------------------------
(* Types, as a theorem of the specification.                               *)
THEOREM TypeAlways == Spec => []TypeOK
<1>1. Inv => TypeOK
  <2>. SUFFICES ASSUME Inv PROVE TypeOK
    OBVIOUS
  <2>1. Shape /\ Len(patches) \in Nat /\ DOMAIN patches = 1 .. Len(patches)
    BY InvHolds DEF Inv
  <2>2. target.arch \in {"amd64", "arm64", "darwin"} /\ MaxPatches \in Nat
    BY <2>1, TargetIsCode, CutAssumption DEF Shape, MaxPatches
  <2>. QED BY <2>1, <2>2 DEF TypeOK, Shape, PatchOK, hows
<1>. QED BY <1>1, InvAlways, PTL

(* When every patch is released the bytes of the target are what they were *)
(* before the first: each release puts back what its patch saved of the    *)
(* patched code below it (patch.go, Unpatch).                              *)
THEOREM ReleasesRestore == Spec => []UnpatchRestores
<1>1. Inv => UnpatchRestores
  <2>. SUFFICES ASSUME Inv, patches = <<>>
                PROVE  Copy(mem, Entry, Size(target.code)) = Bytes(target.code, Entry)
    BY DEF UnpatchRestores
  <2>1. PICK h : Layers(h, mem, patches)
    BY DEF Inv
  <2>2. Len(patches) + 1 = 1
    OBVIOUS
  <2>3. \A b \in Zone : mem[b] = Bytes(target.code, Entry)[b]
    BY <2>1, <2>2 DEF Layers
  <2>4. Copy(mem, Entry, Size(target.code)) = [b \in Zone |-> mem[b]]
    BY DEF Copy, Zone
  <2>5. Bytes(target.code, Entry) = [b \in Zone |-> Bytes(target.code, Entry)[b]]
    <3>1. IsCode(target.code) /\ Entry \in Int
      BY InvHolds, TargetIsCode
    <3>. QED BY <3>1, BytesAreOfCode DEF Zone
  <2>. QED BY <2>3, <2>4, <2>5
<1>. QED BY <1>1, InvAlways, PTL

(* While it is patched the entry is a sequence of whole instructions up to *)
(* the deepest cut, so that the next PatchValue can decode it: a cut ends  *)
(* where an instruction begins and the branch is padded to the cut.        *)
THEOREM PatchedEntryDecodes == Spec => []EntryDecodes
<1>1. Inv /\ TypeOK => EntryDecodes
  <2>. SUFFICES ASSUME Inv, TypeOK, NEW k \in DOMAIN patches,
                       \A j \in DOMAIN patches : patches[j].cut <= patches[k].cut
                PROVE  Bad \notin Range(Displaced(patches[k].cut))
    BY DEF EntryDecodes
  <2>. DEFINE c == patches[k].cut
              n == Len(patches)
  <2>1. PICK h : Layers(h, mem, patches)
    BY DEF Inv
  <2>2. n \in Nat /\ DOMAIN patches = 1 .. n /\ k \in 1 .. (n + 1) - 1 /\ (n + 1) - 1 = n
    BY InvHolds
  <2>3. LayerOK(h[n + 1], n + 1, patches) /\ \A b \in Zone : h[n + 1][b] = mem[b]
    <3>1. n + 1 \in 1 .. n + 1
      BY <2>2
    <3>. QED BY <2>1, <3>1 DEF Layers
  <2>4. Deepest(patches, k, n)
    BY <2>2 DEF Deepest
  <2>5. /\ Whole(h[n + 1], Entry, c) /\ Zone \subseteq DOMAIN h[n + 1]
        /\ \A b \in Zone : h[n + 1][b].inst.len \in Lens
    BY <2>2, <2>3, <2>4 DEF LayerOK
  <2>6. c \in Nat /\ c <= Size(target.code) /\ Zone \subseteq DOMAIN mem
    BY <2>2 DEF Inv, Shape, PatchOK
  <2>. HIDE DEF c, n
  <2>7. Entry \in Nat /\ \A b \in Entry .. Entry + c - 1 : b \in Zone
    <3>1. Entry \in Nat /\ Size(target.code) \in Nat
      BY InvHolds, TargetIsCode
    <3>. QED BY <2>6, <3>1 DEF Zone
  <2>8. \A l \in Lens : l \in Nat \ {0}
    BY DEF Lens
  <2>9. Whole(mem, Entry, c)
    <3>1. \A b \in Entry .. Entry + c - 1 :
            b \in DOMAIN mem /\ b \in DOMAIN h[n + 1] /\ mem[b] = h[n + 1][b]
      BY <2>3, <2>5, <2>6, <2>7
    <3>2. \A b \in Entry .. Entry + c - 1 : h[n + 1][b].inst.len \in Nat \ {0}
      BY <2>5, <2>7, <2>8
    <3>3. Entry \in Int
      BY <2>7
    <3>. DEFINE g == h[n + 1]
    <3>. HIDE DEF g
    <3>. QED BY <2>5, <2>6, <3>1, <3>2, <3>3, WholeSame DEF g
  <2>10. PICK B : Marks(mem, Entry, c, B)
    BY <2>9 DEF Whole
  <2>11. \A b \in Entry .. Entry + c - 1 : mem[b].inst.len \in Nat \ {0}
    BY <2>3, <2>5, <2>7, <2>8
  <2>12. Entry \in Int
    BY <2>7
  <2>13. Bad \notin Range(Instructions(mem, Entry, c))
    BY <2>6, <2>10, <2>11, <2>12, InstructionsAreGood
  <2>. QED BY <2>13 DEF Displaced, c
<1>. QED BY <1>1, InvAlways, TypeAlways, PTL

-----------------------------------------------------------------------------
(* The way of a call to the hook.                                          *)

LEMMA Joined ==
  ASSUME NEW T, NEW u \in Seq(T), NEW w \in Seq(T)
  PROVE  /\ u \o w \in Seq(T) /\ Len(u \o w) = Len(u) + Len(w)
         /\ \A i \in 1 .. Len(u) : (u \o w)[i] = u[i]
         /\ \A i \in 1 .. Len(w) : (u \o w)[Len(u) + i] = w[i]
OBVIOUS

(* The instructions of the branch.                                         *)
LEMMA BranchCode ==
  ASSUME NEW v, NEW c, c = BranchInto(v)
  PROVE  /\ IsCode(c)
         /\ amd64 => /\ DOMAIN c = 1 .. 2 /\ c[1].op = "set" /\ c[1].arg = v
                     /\ c[2].op = "hookset"
         /\ ~amd64 => /\ DOMAIN c = 1 .. 6 /\ c[5].op = "ldrset" /\ c[6].op = "hookset"
                      /\ \A k \in 1 .. 4 : /\ c[k].op = "mov" /\ c[k].x = k - 1
                                           /\ c[k].arg = (v \div R!Weight[k]) % 16
<1>1. IsCode(c)
  BY LongBranchIsSound DEF Sound
<1>2. ASSUME amd64
      PROVE  DOMAIN c = 1 .. 2 /\ c[1].op = "set" /\ c[1].arg = v /\ c[2].op = "hookset"
  <2>1. c = <<X!rdxMOV(v), X!I("hookset", 2, 0, 0)>>
    BY <1>2 DEF BranchInto, X!BranchInto
  <2>. QED BY <2>1 DEF X!rdxMOV, X!I
<1>3. ASSUME ~amd64
      PROVE  /\ DOMAIN c = 1 .. 6 /\ c[5].op = "ldrset" /\ c[6].op = "hookset"
             /\ \A k \in 1 .. 4 : /\ c[k].op = "mov" /\ c[k].x = k - 1
                                  /\ c[k].arg = (v \div R!Weight[k]) % 16
  <2>. DEFINE u == R!x26MOV(v)
              w == <<R!A("ldrset", 0, 0), R!A("hookset", 0, 0)>>
  <2>1. c = u \o w
    BY <1>3 DEF BranchInto, R!BranchInto
  <2>2. /\ IsSequence(u) /\ Len(u) = 4
        /\ \A k \in 1 .. 4 : /\ u[k].op = "mov" /\ u[k].x = k - 1
                             /\ u[k].arg = (v \div R!Weight[k]) % 16
    BY DEF IsSequence, R!x26MOV, R!MoveAddress, R!A, R!I
  <2>3. IsSequence(w) /\ Len(w) = 2 /\ w[1].op = "ldrset" /\ w[2].op = "hookset"
    BY DEF IsSequence, R!A, R!I
  <2>. HIDE DEF u, w
  <2>. DEFINE T == {u[i] : i \in DOMAIN u} \cup {w[i] : i \in DOMAIN w}
  <2>4. u \in Seq(T) /\ w \in Seq(T)
    BY <2>2, <2>3 DEF IsSequence
  <2>. HIDE DEF T
  <2>5. /\ DOMAIN c = 1 .. 6 /\ c[5] = w[1] /\ c[6] = w[2]
        /\ \A k \in 1 .. 4 : c[k] = u[k]
    <3>1. /\ u \o w \in Seq(T) /\ Len(u \o w) = Len(u) + Len(w)
          /\ \A i \in 1 .. Len(u) : (u \o w)[i] = u[i]
          /\ \A i \in 1 .. Len(w) : (u \o w)[Len(u) + i] = w[i]
      BY <2>4, Joined
    <3>. HIDE DEF T
    <3>2. \A k \in 1 .. 4 : c[k] = u[k]
      BY <2>1, <2>2, <3>1
    <3>3. c[4 + 1] = w[1] /\ c[4 + 2] = w[2]
      BY <2>1, <2>2, <2>3, <3>1
    <3>4. c \in Seq(T) /\ Len(c) = 6
      BY <2>1, <2>2, <2>3, <3>1
    <3>5. DOMAIN c = 1 .. 6
      BY <3>4
    <3>6. 4 + 1 = 5 /\ 4 + 2 = 6
      OBVIOUS
    <3>. QED BY <3>2, <3>3, <3>5, <3>6
  <2>. QED BY <2>2, <2>3, <2>5
<1>. QED BY <1>1, <1>2, <1>3

(* The values of Loaded at the ends of the branch.                         *)
LEMMA LoadedAtTheEnds ==
  ASSUME NEW v
  PROVE  /\ Loaded(v, 1) = 0
         /\ amd64 => Loaded(v, 2) = v
         /\ ~amd64 => Loaded(v, 5) = v /\ Loaded(v, 6) = v
<1>1. Loaded(v, 1) = 0
  BY SMT DEF Loaded
<1>2. amd64 => Loaded(v, 2) = v
  BY SMT DEF Loaded
<1>3. ~amd64 => Loaded(v, 5) = v /\ Loaded(v, 6) = v
  BY SMT DEF Loaded
<1>. QED BY <1>1, <1>2, <1>3

(* A MOVZ and three MOVKs of the digits of v load v.                       *)
LEMMA DigitsAddUp ==
  ASSUME ~amd64, NEW v \in Word, NEW k \in 1 .. 4
  PROVE  WithDigit(Loaded(v, k), k - 1, (v \div R!Weight[k]) % 16) = Loaded(v, k + 1)
<1>1. R!Weight = <<1, 16, 256, 4096>>
  BY DEF R!Weight
<1>6. v \in Nat /\ v < 65536
  BY SMTT(30) DEF Word, R!Addresses
<1>2. CASE k = 1
  BY <1>1, <1>2, <1>6, SMT DEF WithDigit, Loaded
<1>3. CASE k = 2
  BY <1>1, <1>3, <1>6, SMT DEF WithDigit, Loaded
<1>4. CASE k = 3
  BY <1>1, <1>4, <1>6, SMT DEF WithDigit, Loaded
<1>5. CASE k = 4
  <2>. DEFINE q == v \div 4096
  <2>1. q \in 0 .. 15 /\ v = (v % 4096) + q * 4096
    BY <1>6, SMT
  <2>2. q % 16 = q
    <3>. HIDE DEF q
    <3>. QED BY <2>1, SMT
  <2>3. R!Weight[k] = 4096 /\ k # 1 /\ k - 1 # 0 /\ k + 1 > 4 /\ k + 1 # 1 /\ R!Weight[(k - 1) + 1] = 4096
    BY <1>1, <1>5, SMT
  <2>4. Loaded(v, k) = v % 4096 /\ Loaded(v, k + 1) = v
    BY <1>5, SMT DEF Loaded
  <2>. QED BY <2>1, <2>2, <2>3, <2>4, SMT DEF WithDigit
<1>. QED BY <1>2, <1>3, <1>4, <1>5

(* What the processor does with the instructions of the branches.          *)
LEMMA SetSteps ==
  ASSUME NEW i, i.op = "set", NEW pc, NEW s, NEW cpu, cpu = [pc |-> pc, s |-> s, d |-> 0]
  PROVE  Silent(i) /\ After(i, cpu, FALSE) = [pc |-> pc + i.len, s |-> i.arg, d |-> 0]
BY DEF Silent, After, Tests, R!Conditional

LEMMA MovSteps ==
  ASSUME NEW i, i.op = "mov", NEW pc, NEW s, NEW cpu, cpu = [pc |-> pc, s |-> s, d |-> 0]
  PROVE  /\ Silent(i)
         /\ After(i, cpu, FALSE) = [pc |-> pc + i.len, s |-> WithDigit(s, i.x, i.arg), d |-> 0]
BY DEF Silent, After, Tests, R!Conditional

LEMMA LoadSteps ==
  ASSUME NEW i, i.op = "ldrset", NEW pc, NEW s, NEW cpu, cpu = [pc |-> pc, s |-> s, d |-> 0]
  PROVE  Silent(i) /\ After(i, cpu, FALSE) = [pc |-> pc + i.len, s |-> s, d |-> 0]
BY DEF Silent, After, Tests, R!Conditional

LEMMA JumpSteps ==
  ASSUME NEW i, i.op = "jmp32" \/ i.op = "b", NEW pc, NEW s,
         NEW cpu, cpu = [pc |-> pc, s |-> s, d |-> 0]
  PROVE  Silent(i) /\ After(i, cpu, FALSE) = [pc |-> Points(i, pc), s |-> s, d |-> 0]
BY DEF Silent, After, Tests, R!Conditional

LEMMA HookSteps ==
  ASSUME NEW i, i.op = "hookset", NEW pc, NEW s, NEW cpu, cpu = [pc |-> pc, s |-> s, d |-> 0]
  PROVE  ~Silent(i) /\ Effect(i, cpu) = <<"hook", s>>
BY DEF Silent, Effect, Tests, R!Conditional

(* Code that is in memory decodes.                                         *)
LEMMA HasDecodes ==
  ASSUME NEW code, IsCode(code), NEW r \in Int, Has(mem, code, r), NEW i \in DOMAIN code
  PROVE  Decode(mem, r + At0(code)[i]) = code[i]
<1>1. DOMAIN Bytes(code, r) = r .. r + Size(code) - 1
  BY BytesAreOfCode
<1>2. \A b \in r .. r + Size(code) - 1 : b \in DOMAIN mem /\ mem[b] = Bytes(code, r)[b]
  BY <1>1 DEF Has
<1>. QED BY <1>2, DecodeBytes

(* Of a step that only moves the processor.                                *)
LEMMA WayStays ==
  ASSUME target' = target, mem' = mem, patches' = patches, Newest \in Word,
         \E r \in Int : Underway(run'.cpu, r)
  PROVE  OnItsWay'
<1>1. amd64' = amd64 /\ Newest' = Newest
  BY DEF amd64, Newest
<1>2. \A to : BranchInto(to)' = BranchInto(to)
  BY <1>1 DEF BranchInto
<1>3. \A r : Jump(r)' = Jump(r)
  BY <1>1 DEF Jump
<1>4. \A v, i : Loaded(v, i)' = Loaded(v, i)
  BY <1>1 DEF Loaded
<1>5. \A m, code, r : Has(m, code, r)' <=> Has(m, code, r)
  BY DEF Has
<1>6. \A cpu, r : AtEntry(cpu, r)' <=> AtEntry(cpu, r)
  BY <1>3, <1>5 DEF AtEntry
<1>7. \A cpu, r, i : AtBranch(cpu, r, i)' <=> AtBranch(cpu, r, i)
  BY <1>1, <1>2, <1>4 DEF AtBranch
<1>8. \A cpu, r : Underway(cpu, r) => Underway(cpu, r)'
  BY <1>1, <1>2, <1>5, <1>6, <1>7 DEF Underway
<1>. QED BY <1>1, <1>8 DEF OnItsWay

(* A call that begins is on its way.                                       *)
LEMMA CallIsOnItsWay ==
  ASSUME Inv, CallTarget
  PROVE  OnItsWay'
<1>. DEFINE n == Len(patches)
            c == BranchInto(Newest)
<1>1. /\ patches # <<>> /\ mem' = mem /\ patches' = patches /\ target' = target
      /\ run'.cpu = Reset(Entry)
  <2>1. run' = [Idle EXCEPT !.kind = "target", !.cpu = Reset(Entry)]
    BY DEF CallTarget
  <2>2. run'.cpu = Reset(Entry)
    BY <2>1 DEF Idle
  <2>. QED BY <2>2 DEF CallTarget
<1>2. Shape /\ n \in Nat /\ target \in Functions
  BY InvHolds DEF Inv
<1>3. n \in 1 .. n /\ n + 1 \in 1 .. n + 1
  BY <1>1, <1>2 DEF Shape, IsSequence
<1>4. Newest \in Word
  BY <1>2, <1>3 DEF Shape, PatchOK, Newest
<1>5. PICK h : Layers(h, mem, patches)
  BY DEF Inv
<1>6. LeadsTo(h[n + 1], mem, patches, n) /\ \A b \in Zone : h[n + 1][b] = mem[b]
  BY <1>3, <1>5 DEF Layers
<1>7. \A code : InEntry(h[n + 1], code) => Has(mem, code, Entry)
  BY <1>2, <1>6 DEF InEntry, Has, Shape
<1>8. Entry \in Int
  BY <1>2, TargetIsCode
<1>9. /\ IsCode(c) /\ 1 \in DOMAIN c
      /\ At0(c)[1] = 0
  <2>1. IsCode(c) /\ 1 \in DOMAIN c
    BY BranchCode
  <2>. HIDE DEF c
  <2>. QED BY <2>1, CodeSize
<1>10. CASE InEntry(h[n + 1], c)
  <2>1. Has(mem, c, Entry)
    BY <1>7, <1>10
  <2>2. AtBranch(run'.cpu, Entry, 1)
    BY <1>1, <1>8, <1>9 DEF AtBranch, Reset, Loaded
  <2>3. Underway(run'.cpu, Entry)
    BY <1>9, <2>1, <2>2 DEF Underway
  <2>. QED BY <1>1, <1>4, <1>8, <2>3, WayStays
<1>11. ASSUME NEW r \in Int, InEntry(h[n + 1], <<Jump(r)>>), Holds(mem, c, r)
       PROVE  OnItsWay'
  <2>1. Underway(run'.cpu, r)
    BY <1>1, <1>7, <1>11 DEF Has, Holds, AtEntry, Underway
  <2>. QED BY <1>1, <1>4, <2>1, WayStays
<1>12. \/ InEntry(h[n + 1], c)
       \/ \E r \in Int : InEntry(h[n + 1], <<Jump(r)>>) /\ Holds(mem, c, r)
  BY <1>6 DEF LeadsTo, Newest
<1>. QED BY <1>10, <1>11, <1>12

(* A step of it leads on.                                                  *)
LEMMA StepIsOnItsWay ==
  ASSUME Inv, OnItsWay, Step, run.kind = "target"
  PROVE  OnItsWay'
<1>. DEFINE v == Newest
            c == BranchInto(Newest)
<1>1. /\ mem' = mem /\ patches' = patches /\ target' = target
      /\ Silent(Here) /\ run'.cpu = After(Here, run.cpu, FALSE)
      /\ Here = Decode(mem, run.cpu.pc)
  BY DEF Step, Here, At, Inv, Shape
<1>2. v \in Word
  BY DEF OnItsWay
<1>3. PICK r \in Int : /\ Has(mem, c, r)
                       /\ AtEntry(run.cpu, r) \/ \E i \in DOMAIN c : AtBranch(run.cpu, r, i)
  BY DEF OnItsWay, Underway
<1>4. IsCode(c) /\ c = BranchInto(v)
  BY BranchCode
<1>5. /\ At0(c)[1] = 0 /\ Len(c) \in Nat /\ DOMAIN c = 1 .. Len(c)
      /\ \A i \in 1 .. Len(c) : /\ At0(c)[i] \in Nat /\ c[i].len \in Nat
                                /\ At0(c)[i + 1] = At0(c)[i] + c[i].len
  <2>. HIDE DEF c
  <2>1. /\ At0(c) \in [1 .. Len(c) + 1 -> Nat] /\ At0(c)[1] = 0
        /\ Len(c) \in Nat /\ DOMAIN c = 1 .. Len(c)
        /\ \A i \in 1 .. Len(c) : /\ c[i].len \in Nat
                                  /\ At0(c)[i + 1] = At0(c)[i] + c[i].len
    BY <1>4, CodeSize
  <2>2. \A i \in 1 .. Len(c) : i \in 1 .. Len(c) + 1
    BY <2>1
  <2>. QED BY <2>1, <2>2
<1>6. ASSUME AtEntry(run.cpu, r) PROVE AtBranch(run'.cpu, r, 1) /\ 1 \in DOMAIN c
  <2>. DEFINE j == Jump(r)
  <2>1. j.len \in Lens /\ j # Bad /\ j.len \in {1, 4, 5} /\ j.op \in {"jmp32", "b"}
    BY DEF Jump, I, Bad, Lens
  <2>2. IsCode(<<j>>) /\ 1 \in DOMAIN <<j>> /\ <<j>>[1] = j
    <3>. HIDE DEF j
    <3>. QED BY <2>1, OneIsSound DEF Sound
  <2>3. Entry \in Int /\ Has(mem, <<j>>, Entry) /\ run.cpu = [pc |-> Entry, s |-> 0, d |-> 0]
    BY <1>6, InvHolds, TargetIsCode DEF AtEntry, Reset
  <2>4. Decode(mem, Entry) = j
    <3>. DEFINE u == <<j>>
    <3>1. IsCode(u) /\ 1 \in DOMAIN u /\ u[1] = j /\ Has(mem, u, Entry)
      BY <2>2, <2>3
    <3>. HIDE DEF u, j
    <3>2. Decode(mem, Entry + At0(u)[1]) = j
      BY <2>3, <3>1, HasDecodes
    <3>3. At0(u)[1] = 0
      BY <3>1, CodeSize
    <3>. QED BY <2>3, <3>2, <3>3
  <2>5. Points(j, Entry) = r
    BY <2>3 DEF Jump, I, Points, R!Target
  <2>. HIDE DEF j
  <2>6. run'.cpu = [pc |-> r, s |-> 0, d |-> 0]
    <3>1. Here = j
      BY <1>1, <2>3, <2>4
    <3>2. After(j, run.cpu, FALSE) = [pc |-> Points(j, Entry), s |-> 0, d |-> 0]
      <4>1. j.op = "jmp32" \/ j.op = "b"
        BY <2>1
      <4>. QED BY <2>3, <4>1, JumpSteps
    <3>. QED BY <1>1, <2>5, <3>1, <3>2
  <2>7. 1 \in DOMAIN c
    BY BranchCode
  <2>. HIDE DEF c
  <2>. QED BY <1>5, <2>6, <2>7 DEF AtBranch, Loaded, c
<1>7. ASSUME NEW i \in DOMAIN c, AtBranch(run.cpu, r, i)
      PROVE  i + 1 \in DOMAIN c /\ AtBranch(run'.cpu, r, i + 1)
  <2>. DEFINE pc == r + At0(c)[i]
              s == Loaded(v, i)
  <2>1. run.cpu = [pc |-> pc, s |-> s, d |-> 0]
    BY <1>7 DEF AtBranch
  <2>2. Here = c[i]
    <3>1. run.cpu.pc = pc
      BY <2>1
    <3>. HIDE DEF c
    <3>. QED BY <1>1, <1>3, <1>4, <3>1, HasDecodes
  <2>3. /\ i \in 1 .. Len(c) /\ pc \in Int /\ pc + c[i].len = r + At0(c)[i + 1]
    <3>. HIDE DEF c
    <3>. QED BY <1>5
  <2>4. ASSUME NEW t, After(c[i], run.cpu, FALSE) = [pc |-> pc + c[i].len, s |-> t, d |-> 0],
               t = Loaded(v, i + 1)
        PROVE  AtBranch(run'.cpu, r, i + 1)
    BY <1>1, <2>2, <2>3, <2>4 DEF AtBranch
  <2>5. c[i].op # "hookset"
    <3>. HIDE DEF c, pc, s
    <3>. QED BY <1>1, <2>1, <2>2, HookSteps
  <2>6. CASE amd64
    <3>1. i = 1 /\ c[i].op = "set" /\ c[i].arg = v /\ i + 1 \in DOMAIN c
      <4>1. DOMAIN c = 1 .. 2 /\ c[1].op = "set" /\ c[1].arg = v /\ c[2].op = "hookset"
        BY <2>6, BranchCode
      <4>. HIDE DEF c
      <4>. QED BY <2>5, <4>1
    <3>2. After(c[i], run.cpu, FALSE) = [pc |-> pc + c[i].len, s |-> v, d |-> 0]
      <4>. HIDE DEF c, pc, s
      <4>1. c[i].arg = v /\ c[i].op = "set"
        BY <3>1
      <4>2. After(c[i], run.cpu, FALSE) = [pc |-> pc + c[i].len, s |-> c[i].arg, d |-> 0]
        BY <2>1, <4>1, SetSteps
      <4>. QED BY <4>1, <4>2
    <3>3. v = Loaded(v, i + 1)
      <4>1. i + 1 = 2
        BY <3>1
      <4>. HIDE DEF c, v
      <4>. QED BY <2>6, <4>1, LoadedAtTheEnds
    <3>. QED BY <2>4, <3>1, <3>2, <3>3
  <2>7. CASE ~amd64
    <3>1. /\ DOMAIN c = 1 .. 6 /\ c[5].op = "ldrset" /\ c[6].op = "hookset"
          /\ \A k \in 1 .. 4 : /\ c[k].op = "mov" /\ c[k].x = k - 1
                               /\ c[k].arg = (v \div R!Weight[k]) % 16
      BY <2>7, BranchCode
    <3>2. (i \in 1 .. 4 \/ i = 5) /\ i + 1 \in DOMAIN c
      <4>. HIDE DEF c
      <4>. QED BY <2>5, <3>1
    <3>3. CASE i \in 1 .. 4
      <4>1. /\ c[i].op = "mov"
            /\ WithDigit(s, c[i].x, c[i].arg) = Loaded(v, i + 1)
        <5>. HIDE DEF c, v
        <5>1. c[i].op = "mov" /\ c[i].x = i - 1 /\ c[i].arg = (v \div R!Weight[i]) % 16
          BY <3>1, <3>3
        <5>2. WithDigit(Loaded(v, i), i - 1, (v \div R!Weight[i]) % 16) = Loaded(v, i + 1)
          BY <1>2, <2>7, <3>3, DigitsAddUp
        <5>. QED BY <5>1, <5>2
      <4>2. After(c[i], run.cpu, FALSE) = [pc |-> pc + c[i].len, s |-> Loaded(v, i + 1), d |-> 0]
        <5>. HIDE DEF c, pc, s
        <5>1. After(c[i], run.cpu, FALSE)
                = [pc |-> pc + c[i].len, s |-> WithDigit(s, c[i].x, c[i].arg), d |-> 0]
          BY <2>1, <4>1, MovSteps
        <5>. QED BY <4>1, <5>1
      <4>. QED BY <2>4, <3>2, <4>2
    <3>4. CASE i = 5
      <4>1. c[i].op = "ldrset" /\ s = Loaded(v, i + 1)
        <5>. HIDE DEF c, v
        <5>1. i + 1 = 6
          BY <3>4
        <5>. QED BY <2>7, <3>1, <3>4, <5>1, LoadedAtTheEnds
      <4>2. After(c[i], run.cpu, FALSE) = [pc |-> pc + c[i].len, s |-> s, d |-> 0]
        <5>. HIDE DEF c, pc, s
        <5>. QED BY <2>1, <4>1, LoadSteps
      <4>. QED BY <2>4, <3>2, <4>1, <4>2
    <3>. QED BY <3>2, <3>3, <3>4
  <2>. QED BY <2>6, <2>7
<1>8. Underway(run'.cpu, r)
  BY <1>3, <1>6, <1>7 DEF Underway
<1>. QED BY <1>1, <1>2, <1>3, <1>8, WayStays

LEMMA StepKeepsWay == Inv /\ OnItsWay /\ [Next]_vars => OnItsWay'
<1>. SUFFICES ASSUME Inv, OnItsWay, [Next]_vars PROVE OnItsWay'
  OBVIOUS
<1>1. ASSUME run' = run, run.kind = "none" PROVE OnItsWay'
  BY <1>1 DEF OnItsWay
<1>2. CASE PatchUnsafe
  BY <1>1, <1>2 DEF PatchUnsafe, Ready, Install
<1>3. CASE PatchArm64
  BY <1>1, <1>3 DEF PatchArm64, Ready, Install
<1>4. CASE PatchLegacy
  BY <1>1, <1>4 DEF PatchLegacy, Ready, Install
<1>5. CASE PatchShortBranch
  BY <1>1, <1>5 DEF PatchShortBranch, Ready, Install
<1>6. CASE PatchFallback
  BY <1>1, <1>6 DEF PatchFallback, Ready, Install
<1>7. CASE PatchNear
  BY <1>1, <1>7 DEF PatchNear, Ready
<1>8. CASE Unpatch
  BY <1>1, <1>8 DEF Unpatch
<1>9. CASE CallTarget
  BY <1>9, CallIsOnItsWay
<1>10. ASSUME NEW k \in DOMAIN patches, CallProxy(k) PROVE OnItsWay'
  <2>1. run'.kind = "proxy"
    BY <1>10 DEF CallProxy
  <2>. QED BY <2>1 DEF OnItsWay
<1>11. CASE Step
  <2>1. CASE run.kind = "target"
    BY <1>11, <2>1, StepIsOnItsWay
  <2>2. CASE run.kind # "target"
    <3>1. run'.kind # "target"
      BY <1>11, <2>2 DEF Step, Inv, Shape
    <3>. QED BY <3>1 DEF OnItsWay
  <2>. QED BY <2>1, <2>2
<1>12. CASE StepReference
  <2>1. run'.kind = "proxy"
    BY <1>12 DEF StepReference, Inv, Shape
  <2>. QED BY <2>1 DEF OnItsWay
<1>13. CASE StepBoth
  <2>1. run'.kind = "proxy"
    BY <1>13 DEF StepBoth, Agree, Inv, Shape
  <2>. QED BY <2>1 DEF OnItsWay
<1>14. CASE UNCHANGED vars
  <2>1. target' = target /\ mem' = mem /\ patches' = patches /\ run' = run
    BY <1>14 DEF vars
  <2>2. run.kind # "target" => OnItsWay'
    BY <2>1 DEF OnItsWay
  <2>3. run.kind = "target" => OnItsWay'
    BY <2>1, WayStays DEF OnItsWay
  <2>. QED BY <2>2, <2>3
<1>. QED BY <1>1, <1>2, <1>3, <1>4, <1>5, <1>6, <1>7, <1>8, <1>9, <1>10, <1>11, <1>12, <1>13,
            <1>14 DEF Next

(* A call of the patched target executes nothing but the branch until it   *)
(* is in the newest hook, with the hook's function value in the register:  *)
(* what is in the entry is the branch, or a short one to a relay or a      *)
(* trampoline that holds it and that no release of another patch unmaps    *)
(* (patch.go, PatchValue, PatchValueShort and Unpatch).                    *)
THEOREM CallsReachTheHook == Spec => []CallReachesHook
<1>1. Inv /\ OnItsWay => CallReachesHook
  <2>. SUFFICES ASSUME Inv, OnItsWay, run.kind = "target", ~Silent(Here)
                PROVE  Effect(Here, run.cpu) = <<"hook", Newest>>
    BY DEF CallReachesHook, Newest
  <2>. DEFINE c == BranchInto(Newest)
  <2>1. Here = Decode(mem, run.cpu.pc)
    BY DEF Here, At
  <2>2. PICK r \in Int : /\ Has(mem, c, r)
                         /\ AtEntry(run.cpu, r) \/ \E i \in DOMAIN c : AtBranch(run.cpu, r, i)
    BY DEF OnItsWay, Underway
  <2>3. IsCode(c)
    BY BranchCode
  <2>4. ~AtEntry(run.cpu, r)
    <3>. SUFFICES ASSUME AtEntry(run.cpu, r) PROVE Silent(Here)
      OBVIOUS
    <3>. DEFINE j == Jump(r)
                u == <<j>>
    <3>1. j.len \in Lens /\ j # Bad /\ j.len \in {1, 4, 5} /\ j.op \in {"jmp32", "b"}
      BY DEF Jump, I, Bad, Lens
    <3>2. Entry \in Int /\ Has(mem, u, Entry) /\ run.cpu = [pc |-> Entry, s |-> 0, d |-> 0]
      BY InvHolds, TargetIsCode DEF AtEntry, Reset
    <3>. HIDE DEF j
    <3>3. IsCode(u) /\ 1 \in DOMAIN u /\ u[1] = j
      BY <3>1, OneIsSound DEF Sound
    <3>. HIDE DEF u
    <3>4. Decode(mem, Entry + At0(u)[1]) = j /\ At0(u)[1] = 0
      BY <3>2, <3>3, HasDecodes, CodeSize
    <3>5. Here = j
      BY <2>1, <3>2, <3>4
    <3>6. j.op = "jmp32" \/ j.op = "b"
      BY <3>1
    <3>7. Silent(j)
      BY <3>2, <3>6, JumpSteps
    <3>. QED BY <3>5, <3>7
  <2>5. PICK i \in DOMAIN c : AtBranch(run.cpu, r, i)
    BY <2>2, <2>4
  <2>. DEFINE pc == r + At0(c)[i]
              s == Loaded(Newest, i)
  <2>6. run.cpu = [pc |-> pc, s |-> s, d |-> 0]
    BY <2>5 DEF AtBranch
  <2>7. Here = c[i]
    <3>1. run.cpu.pc = pc
      BY <2>6
    <3>. HIDE DEF c
    <3>. QED BY <2>1, <2>2, <2>3, <3>1, HasDecodes
  <2>8. /\ c[i].op \in {"set", "mov", "ldrset", "hookset"}
        /\ c[i].op = "hookset" => s = Newest
    <3>1. CASE amd64
      <4>1. DOMAIN c = 1 .. 2 /\ c[1].op = "set" /\ c[2].op = "hookset"
        BY <3>1, BranchCode
      <4>. HIDE DEF c
      <4>2. i = 1 \/ i = 2
        BY <4>1
      <4>. QED BY <3>1, <4>1, <4>2, LoadedAtTheEnds
    <3>2. CASE ~amd64
      <4>1. /\ DOMAIN c = 1 .. 6 /\ c[5].op = "ldrset" /\ c[6].op = "hookset"
            /\ \A k \in 1 .. 4 : c[k].op = "mov"
        BY <3>2, BranchCode
      <4>. HIDE DEF c
      <4>2. i \in 1 .. 4 \/ i = 5 \/ i = 6
        BY <4>1
      <4>3. s = Newest \/ i \in 1 .. 5
        BY <3>2, <4>2, LoadedAtTheEnds
      <4>4. i \in 1 .. 4 => c[i].op = "mov"
        BY <4>1
      <4>. QED BY <4>1, <4>2, <4>3, <4>4
    <3>. QED BY <3>1, <3>2
  <2>. HIDE DEF c, pc, s
  <2>9. c[i].op = "hookset"
    <3>1. c[i].op # "hookset" => Silent(c[i])
      BY <2>6, <2>8, SetSteps, MovSteps, LoadSteps
    <3>. QED BY <2>7, <3>1
  <2>10. Effect(c[i], run.cpu) = <<"hook", s>>
    BY <2>6, <2>9, HookSteps
  <2>. QED BY <2>7, <2>8, <2>9, <2>10
<1>2. Init => OnItsWay
  <2>. SUFFICES ASSUME Init PROVE run.kind # "target"
    BY DEF OnItsWay
  <2>1. run = [kind |-> "none", of |-> 0, cpu |-> Reset(0), ref |-> Reset(0)]
    BY DEF Init, Idle
  <2>. QED BY <2>1
<1>3. Spec => [](Inv /\ OnItsWay)
  BY <1>2, InitIsGood, StepKeepsInv, StepKeepsWay, PTL DEF Spec
<1>. QED BY <1>1, <1>3, PTL

-----------------------------------------------------------------------------
(* Relocation.                                                             *)

LEMMA SameOffsets ==
  /\ \A lens : X!Offsets(lens) = Offsets(lens) /\ R!Offsets(lens) = Offsets(lens)
  /\ \A code : X!Lengths(code) = Lengths(code) /\ R!Lengths(code) = Lengths(code)
BY DEF X!Offsets, R!Offsets, Offsets, X!Lengths, R!Lengths, Lengths

LEMMA DisplaceFields ==
  ASSUME NEW i, NEW arg
  PROVE  LET e == X!Displace(i, arg)
         IN  e.op = i.op /\ e.len = i.len /\ e.arg = arg /\ e.x = i.x
BY DEF X!Displace, X!I

(* Code at old and a copy of it at new, instruction by instruction: one    *)
(* that is not relative to its address is copied as it is; every other one *)
(* has the absolute target it had, but for a branch into the block, which  *)
(* goes to the copy of the instruction it went to.                         *)
CopyOf(code, old, moved, new, i) ==
  LET from(j) == old + At0(code)[j]
      to(j) == new + At0(moved)[j]
      aim == Points(code[i], from(i))
  IN  IF code[i].op \notin X!PCRelative THEN moved[i] = code[i]
      ELSE /\ moved[i].op = X!Wide(code[i]).op /\ moved[i].x = code[i].x
           /\ X!InReach(moved[i].arg)
           /\ IF code[i].op \in X!Control /\ aim \in old .. old + Size(code) - 1
              THEN \E j \in DOMAIN code : aim = from(j) /\ Points(moved[i], to(i)) = to(j)
              ELSE Points(moved[i], to(i)) = aim

(* Relocate of amd64 makes such a copy (relocate_amd64.go:47-125).         *)
THEOREM RelocatedAmd64 ==
  ASSUME amd64, NEW code, IsCode(code), \A i \in DOMAIN code : code[i].arg \in Int,
         NEW old \in Int, NEW new \in Int, X!Relocate(code, old, new).ok
  PROVE  LET moved == X!Relocate(code, old, new).code
         IN  /\ IsCode(moved) /\ DOMAIN moved = DOMAIN code
             /\ \A i \in DOMAIN code : CopyOf(code, old, moved, new, i)
<1>. DEFINE r == X!Relocate(code, old, new)
            moved == r.code
            N == Len(code)
            oldAt == X!Offsets(X!Lengths(code))
            wide == [i \in DOMAIN code |-> X!Wide(code[i]).len]
            newAt == X!Offsets(wide)
            aims == [i \in DOMAIN code |-> old + oldAt[i + 1] + code[i].arg]
            inside == {i \in DOMAIN code : /\ code[i].op \in X!Control
                                           /\ aims[i] \in old .. old + X!Size(code) - 1}
            starts(i) == {j \in DOMAIN code : old + oldAt[j] = aims[i]}
            goes == [i \in DOMAIN code |->
                       IF i \in inside
                       THEN new + newAt[CHOOSE j \in starts(i) : TRUE]
                       ELSE aims[i]]
            d == [i \in DOMAIN code |-> goes[i] - (new + newAt[i + 1])]
            relative == {i \in DOMAIN code : code[i].op \in X!PCRelative}
<1>0. oldAt = At0(code) /\ newAt = Offsets(wide) /\ X!Size(code) = Size(code)
  BY SameOffsets, SameBytes DEF At0
<1>1. /\ DOMAIN code = 1 .. N /\ N \in Nat /\ oldAt \in [1 .. N + 1 -> Nat]
      /\ \A i \in 1 .. N : code[i].len \in Nat \ {0} /\ oldAt[i + 1] = oldAt[i] + code[i].len
  BY <1>0, CodeSize
<1>2. /\ \A i \in DOMAIN code : X!Wide(code[i]).len \in Nat \ {0}
      /\ \A i \in DOMAIN code : i \notin relative => X!Wide(code[i]) = code[i]
      /\ \A i \in DOMAIN code : X!Wide(code[i]).x = code[i].x
  <2>. SUFFICES ASSUME NEW i \in DOMAIN code
                PROVE  /\ X!Wide(code[i]).len \in Nat \ {0}
                       /\ code[i].op \notin X!PCRelative => X!Wide(code[i]) = code[i]
                       /\ X!Wide(code[i]).x = code[i].x
    OBVIOUS
  <2>1. code[i].len \in Nat \ {0} /\ code[i].len + 4 \in Nat \ {0}
    BY <1>1
  <2>. QED BY <2>1 DEF X!Wide, X!I, X!PCRelative, X!Control, X!Rel8
<1>3. /\ r.ok => /\ \A i \in DOMAIN code : code[i].op # "loop"
                 /\ \A i \in inside : starts(i) # {}
                 /\ \A i \in relative : X!InReach(d[i])
      /\ r.ok => moved = [i \in DOMAIN code |->
                            IF i \in relative THEN X!Displace(X!Wide(code[i]), d[i]) ELSE code[i]]
  <2>. HIDE DEF r
  <2>1. r = IF /\ \A i \in DOMAIN code : code[i] # X!Bad /\ code[i].op # "loop"
               /\ \A i \in inside : starts(i) # {}
               /\ \A i \in relative : X!InReach(d[i])
            THEN [ok |-> TRUE,
                  code |-> [i \in DOMAIN code |->
                     IF i \in relative THEN X!Displace(X!Wide(code[i]), d[i]) ELSE code[i]]]
            ELSE [ok |-> FALSE, code |-> code]
    BY DEF r, X!Relocate
  <2>. HIDE DEF inside, starts, relative, d
  <2>. QED BY <2>1
<1>4. r.ok
  OBVIOUS
<1>. HIDE DEF r
<1>5. /\ DOMAIN moved = DOMAIN code
      /\ \A i \in DOMAIN code : i \notin relative => moved[i] = code[i]
      /\ \A i \in relative : moved[i] = X!Displace(X!Wide(code[i]), d[i])
  <2>. HIDE DEF relative, d
  <2>1. relative \subseteq DOMAIN code
    BY DEF relative
  <2>. QED BY <1>3, <1>4, <2>1
<1>6. IsCode(moved)
  BY MovedIsCode DEF r
<1>7. /\ At0(moved) = newAt
      /\ newAt \in [1 .. N + 1 -> Nat]
      /\ \A i \in DOMAIN code : newAt[i + 1] = newAt[i] + moved[i].len
  <2>1. \A i \in DOMAIN code : moved[i].len = wide[i]
    <3>. SUFFICES ASSUME NEW i \in DOMAIN code PROVE moved[i].len = X!Wide(code[i]).len
      OBVIOUS
    <3>. HIDE DEF d, relative
    <3>1. X!Displace(X!Wide(code[i]), d[i]).len = X!Wide(code[i]).len
      BY DEF X!Displace, X!I
    <3>. QED BY <1>2, <1>5, <3>1
  <2>2. Lengths(moved) = wide
    BY <1>5, <2>1 DEF Lengths
  <2>3. Len(moved) = N
    BY <1>1, <1>5, <1>6, CodeSize
  <2>4. At0(moved) = newAt
    BY <1>0, <2>2 DEF At0
  <2>. HIDE DEF newAt
  <2>5. /\ At0(moved) \in [1 .. N + 1 -> Nat]
        /\ \A i \in 1 .. N : At0(moved)[i + 1] = At0(moved)[i] + moved[i].len
    BY <1>6, <2>3, CodeSize
  <2>. QED BY <1>1, <2>4, <2>5
<1>8. \A i \in DOMAIN code : Points(code[i], old + At0(code)[i]) = aims[i]
  <2>. SUFFICES ASSUME NEW i \in DOMAIN code
                PROVE  old + oldAt[i] + code[i].len + code[i].arg = old + oldAt[i + 1] + code[i].arg
    BY <1>0 DEF Points
  <2>1. /\ oldAt[i] \in Nat /\ code[i].len \in Nat /\ code[i].arg \in Int
        /\ oldAt[i + 1] = oldAt[i] + code[i].len
    BY <1>1
  <2>. HIDE DEF oldAt
  <2>. QED BY <2>1
<1>10. \A i \in DOMAIN code :
        /\ goes[i] \in Int
        /\ IF i \in inside
           THEN \E j \in DOMAIN code : aims[i] = old + oldAt[j] /\ goes[i] = new + newAt[j]
           ELSE goes[i] = aims[i]
  <2>. SUFFICES ASSUME NEW i \in DOMAIN code
                PROVE  /\ goes[i] \in Int
                       /\ IF i \in inside
                          THEN \E j \in DOMAIN code :
                                 aims[i] = old + oldAt[j] /\ goes[i] = new + newAt[j]
                          ELSE goes[i] = aims[i]
    OBVIOUS
  <2>1. CASE i \in inside
    <3>1. PICK j \in starts(i) : j = CHOOSE k \in starts(i) : TRUE
      BY <1>3, <1>4, <2>1
    <3>2. goes[i] = new + newAt[j]
      BY <2>1, <3>1
    <3>3. j \in DOMAIN code /\ aims[i] = old + oldAt[j]
      BY <3>1
    <3>4. newAt[j] \in Nat
      <4>1. j \in 1 .. N + 1
        BY <1>1, <3>3
      <4>. HIDE DEF newAt
      <4>. QED BY <1>7, <4>1
    <3>. HIDE DEF goes, newAt, aims, oldAt
    <3>. QED BY <2>1, <3>2, <3>3, <3>4
  <2>2. CASE i \notin inside
    <3>1. goes[i] = aims[i] /\ aims[i] = old + oldAt[i + 1] + code[i].arg
      BY <2>2
    <3>2. oldAt[i + 1] \in Nat /\ code[i].arg \in Int
      <4>1. i + 1 \in 1 .. N + 1
        BY <1>1
      <4>. HIDE DEF oldAt
      <4>. QED BY <1>1, <4>1
    <3>. HIDE DEF goes, aims, oldAt, inside
    <3>. QED BY <2>2, <3>1, <3>2
  <2>. QED BY <2>1, <2>2
<1>9. ASSUME NEW i \in DOMAIN code, i \in relative
      PROVE  /\ moved[i].op = X!Wide(code[i]).op /\ moved[i].x = code[i].x
             /\ X!InReach(moved[i].arg)
             /\ Points(moved[i], new + newAt[i]) = goes[i]
  <2>1. /\ moved[i].op = X!Wide(code[i]).op /\ moved[i].x = X!Wide(code[i]).x
        /\ moved[i].arg = d[i]
    <3>. DEFINE w == X!Wide(code[i])
    <3>1. moved[i] = X!Displace(w, d[i])
      BY <1>5, <1>9
    <3>. HIDE DEF d, w, relative
    <3>2. moved[i].op = w.op /\ moved[i].x = w.x /\ moved[i].arg = d[i]
      BY <3>1, DisplaceFields
    <3>. QED BY <3>2 DEF w
  <2>2. X!InReach(d[i])
    BY <1>3, <1>4, <1>9
  <2>3. d[i] \in Int
    <3>. HIDE DEF d
    <3>. QED BY <2>2 DEF X!InReach
  <2>4. /\ newAt[i] \in Nat /\ newAt[i + 1] = newAt[i] + moved[i].len /\ moved[i].len \in Nat
        /\ newAt[i + 1] \in Nat
    <3>1. moved[i].len \in Nat /\ newAt[i + 1] = newAt[i] + moved[i].len
      BY <1>5, <1>6, <1>7 DEF IsCode
    <3>. HIDE DEF newAt
    <3>2. i \in 1 .. N + 1 /\ i + 1 \in 1 .. N + 1
      BY <1>1
    <3>. QED BY <1>7, <3>1, <3>2
  <2>5. goes[i] \in Int
    BY <1>9, <1>10
  <2>6. Points(moved[i], new + newAt[i]) = new + newAt[i] + moved[i].len + moved[i].arg
    BY DEF Points
  <2>7. d[i] = goes[i] - (new + newAt[i + 1])
    OBVIOUS
  <2>. HIDE DEF d, goes, newAt
  <2>8. new + newAt[i] + moved[i].len + moved[i].arg = goes[i]
    BY <2>1, <2>4, <2>5, <2>7
  <2>9. X!Wide(code[i]).x = code[i].x
    BY <1>2
  <2>. QED BY <2>1, <2>2, <2>6, <2>8, <2>9
<1>11. ASSUME NEW i \in DOMAIN code
       PROVE  CopyOf(code, old, moved, new, i)
  <2>1. i \in relative <=> code[i].op \in X!PCRelative
    OBVIOUS
  <2>2. i \in inside <=> /\ code[i].op \in X!Control
                         /\ Points(code[i], old + At0(code)[i]) \in old .. old + Size(code) - 1
    BY <1>0, <1>8
  <2>3. At0(code) = oldAt /\ At0(moved) = newAt
    BY <1>0, <1>7
  <2>. HIDE DEF relative, inside, aims, goes, newAt, oldAt, d
  <2>. QED BY <1>5, <1>8, <1>9, <1>10, <2>1, <2>2, <2>3 DEF CopyOf
<1>12. DOMAIN moved = DOMAIN code
  BY <1>5
<1>13. \A i \in DOMAIN code : CopyOf(code, old, moved, new, i)
  BY <1>11
<1>14. moved = X!Relocate(code, old, new).code
  BY DEF r
<1>. HIDE DEF moved
<1>. QED BY <1>6, <1>12, <1>13, <1>14

-----------------------------------------------------------------------------
(* The pieces that arm64 makes of instructions, one behind the other.      *)

LEMMA EmptyIsCode == IsCode(<<>>) /\ Size(<<>>) = 0 /\ Len(<<>>) = 0
<1>1. IsCode(<<>>) /\ Len(<<>>) = 0
  BY DEF IsCode, IsSequence
<1>. DEFINE e == <<>>
<1>2. IsCode(e) /\ Len(e) = 0
  BY <1>1
<1>. HIDE DEF e
<1>3. At0(e)[1] = 0 /\ At0(e)[0 + 1] = Size(e)
  BY <1>2, CodeSize
<1>. QED BY <1>1, <1>3 DEF e

Joins(f, N, piece) == f = [n \in 0 .. N |-> IF n = 0 THEN <<>> ELSE f[n - 1] \o piece[n]]
(* Such a function exists.                                                 *)
LEMMA JoinsDefine ==
  ASSUME NEW N \in Nat, NEW piece
  PROVE  \E f : Joins(f, N, piece)
<1>. DEFINE M == N + 1
            S == {n \in 1 .. M : \E f : Joins(f, n - 1, piece)}
<1>1. M \in Nat /\ M \in 1 .. M /\ 1 \in 1 .. M
  OBVIOUS
<1>2. 1 \in S
  <2>. DEFINE f == [n \in 0 .. 0 |-> <<>>]
  <2>1. Joins(f, 1 - 1, piece)
    BY DEF Joins
  <2>. HIDE DEF f
  <2>. QED BY <1>1, <2>1
<1>3. ASSUME NEW n \in 1 .. M, n \in S, n + 1 \in 1 .. M
      PROVE  n + 1 \in S
  <2>1. PICK f : Joins(f, n - 1, piece)
    BY <1>3
  <2>. DEFINE g == [k \in 0 .. n |-> IF k = n THEN f[n - 1] \o piece[n] ELSE f[k]]
  <2>2. ASSUME NEW k \in 0 .. n
        PROVE  g[k] = IF k = 0 THEN <<>> ELSE g[k - 1] \o piece[k]
    <3>1. CASE k = n
      <4>1. k # 0 /\ k - 1 \in 0 .. n /\ k - 1 # n
        BY <1>3, <3>1
      <4>. QED BY <3>1, <4>1
    <3>2. CASE k # n
      <4>1. k \in 0 .. n - 1 /\ (k # 0 => k - 1 \in 0 .. n /\ k - 1 # n)
        BY <1>3, <3>2
      <4>2. f[k] = IF k = 0 THEN <<>> ELSE f[k - 1] \o piece[k]
        BY <2>1, <4>1 DEF Joins
      <4>. QED BY <3>2, <4>1, <4>2
    <3>. QED BY <3>1, <3>2
  <2>3. g = [k \in 0 .. n |-> g[k]]
    OBVIOUS
  <2>. HIDE DEF g
  <2>4. Joins(g, n, piece)
    BY <2>2, <2>3 DEF Joins
  <2>5. (n + 1) - 1 = n
    BY <1>3
  <2>. QED BY <1>3, <2>4, <2>5
<1>4. M \in S
  <2>1. 1 .. M \subseteq S
    <3>. HIDE DEF S, M
    <3>. QED BY <1>1, <1>2, <1>3, InductionUpTo
  <2>. QED BY <1>1, <2>1
<1>5. M - 1 = N
  OBVIOUS
<1>. HIDE DEF M
<1>. QED BY <1>4, <1>5

(* And it places every piece.                                              *)
LEMMA JoinsPlace ==
  ASSUME NEW N \in Nat, NEW piece, \A i \in 1 .. N : IsCode(piece[i]),
         NEW f, Joins(f, N, piece), NEW at, at[1] = 0,
         \A i \in 1 .. N : at[i + 1] = at[i] + Size(piece[i])
  PROVE  /\ IsCode(f[N]) /\ Size(f[N]) = at[N + 1]
         /\ \A i \in 1 .. N : PlacedIn(f[N], piece[i], at[i])
<1>. DEFINE M == N + 1
            Fine(n) == /\ IsCode(f[n]) /\ Size(f[n]) = at[n + 1]
                       /\ \A i \in 1 .. n : PlacedIn(f[n], piece[i], at[i])
            S == {n \in 1 .. M : Fine(n - 1)}
<1>1. M \in Nat /\ M \in 1 .. M /\ 1 \in 1 .. M
  OBVIOUS
<1>2. 1 \in S
  <2>1. f[0] = <<>>
    BY DEF Joins
  <2>2. 1 - 1 = 0 /\ 0 + 1 = 1 /\ 1 .. 0 = {}
    OBVIOUS
  <2>. QED BY <1>1, <2>1, <2>2, EmptyIsCode
<1>3. ASSUME NEW n \in 1 .. M, n \in S, n + 1 \in 1 .. M
      PROVE  n + 1 \in S
  <2>. DEFINE u == f[n - 1]
              v == piece[n]
              w == f[n]
  <2>1. /\ IsCode(u) /\ Size(u) = at[n]
        /\ \A i \in 1 .. n - 1 : PlacedIn(u, piece[i], at[i])
    <3>1. n - 1 + 1 = n
      BY <1>3
    <3>2. Fine(n - 1)
      BY <1>3
    <3>. QED BY <3>1, <3>2
  <2>2. n \in 1 .. N /\ IsCode(v) /\ at[n + 1] = at[n] + Size(v)
    BY <1>3
  <2>3. w = u \o v
    <3>1. n \in 0 .. N /\ n # 0
      BY <2>2
    <3>. QED BY <3>1 DEF Joins
  <2>4. /\ IsCode(w) /\ Len(w) = Len(u) + Len(v)
        /\ \A i \in 1 .. Len(u) : w[i] = u[i]
        /\ \A i \in 1 .. Len(v) : w[Len(u) + i] = v[i]
        /\ \A i \in 1 .. Len(u) + 1 : At0(w)[i] = At0(u)[i]
        /\ \A i \in 1 .. Len(v) + 1 : At0(w)[Len(u) + i] = Size(u) + At0(v)[i]
        /\ Size(w) = Size(u) + Size(v)
    <3>. HIDE DEF u, v, w
    <3>. QED BY <2>1, <2>2, <2>3, JoinIsCode, JoinOffsets
  <2>5. /\ DOMAIN u = 1 .. Len(u) /\ Len(u) \in Nat /\ DOMAIN v = 1 .. Len(v) /\ Len(v) \in Nat
        /\ DOMAIN w = 1 .. Len(w)
    BY <2>1, <2>2, <2>4, CodeSize
  <2>. HIDE DEF u, v, w
  <2>6. ASSUME NEW i \in 1 .. n PROVE PlacedIn(w, piece[i], at[i])
    <3>1. CASE i \in 1 .. n - 1
      <4>. SUFFICES ASSUME NEW k \in DOMAIN piece[i]
                    PROVE  \E q \in DOMAIN w : /\ w[q] = piece[i][k]
                                               /\ At0(w)[q] = at[i] + At0(piece[i])[k]
        BY DEF PlacedIn
      <4>1. PICK q \in DOMAIN u : u[q] = piece[i][k] /\ At0(u)[q] = at[i] + At0(piece[i])[k]
        BY <2>1, <3>1 DEF PlacedIn
      <4>2. q \in 1 .. Len(u) /\ q \in 1 .. Len(u) + 1 /\ q \in DOMAIN w
        BY <2>4, <2>5
      <4>. QED BY <2>4, <4>1, <4>2
    <3>2. CASE i = n
      <4>. SUFFICES ASSUME NEW k \in DOMAIN v
                    PROVE  \E q \in DOMAIN w : w[q] = v[k] /\ At0(w)[q] = at[n] + At0(v)[k]
        BY <3>2 DEF PlacedIn, v
      <4>1. k \in 1 .. Len(v) /\ k \in 1 .. Len(v) + 1 /\ Len(u) + k \in DOMAIN w
        BY <2>4, <2>5
      <4>. QED BY <2>1, <2>4, <4>1
    <3>3. i \in 1 .. n - 1 \/ i = n
      BY <2>2
    <3>. QED BY <3>1, <3>2, <3>3
  <2>7. Fine(n)
    BY <2>1, <2>2, <2>4, <2>6 DEF w
  <2>8. (n + 1) - 1 = n
    BY <1>3
  <2>. HIDE DEF Fine
  <2>. QED BY <1>3, <2>7, <2>8
<1>4. M \in S
  <2>1. 1 .. M \subseteq S
    <3>. HIDE DEF S, M
    <3>. QED BY <1>1, <1>2, <1>3, InductionUpTo
  <2>. QED BY <1>1, <2>1
<1>5. M - 1 = N
  OBVIOUS
<1>6. Fine(N)
  <2>. HIDE DEF M, Fine
  <2>. QED BY <1>4, <1>5
<1>. QED BY <1>6

(* A relocated instruction is a sequence of whole ones, of the size that   *)
(* arm64RelocatedSize announces.                                           *)
LEMMA MoveIsCode ==
  ASSUME NEW op, op # "bad", NEW v
  PROVE  LET m == R!MoveAddress(op, v)
         IN  IsCode(m) /\ Len(m) = 4 /\ Size(m) = 4 * 4 /\ \A k \in DOMAIN m : m[k].len = 4
<1>. DEFINE m == R!MoveAddress(op, v)
<1>1. IsSequence(m) /\ Len(m) = 4
  BY DEF IsSequence, R!MoveAddress
<1>2. \A k \in 1 .. 4 : m[k].len = 4 /\ m[k] # Bad
  BY InstFields DEF R!MoveAddress, R!A
<1>. HIDE DEF m
<1>3. 4 \in Nat \ {0}
  OBVIOUS
<1>4. IsCode(m) /\ Size(m) = 4 * 4 /\ \A k \in DOMAIN m : m[k] # Bad /\ m[k].len = 4
  BY <1>1, <1>2, <1>3, Fours, Zenon
<1>. QED BY <1>1, <1>4 DEF m

(* What arm64 compiles branches and addresses to.                          *)
LEMMA AbsoluteIsCode ==
  ASSUME NEW to, NEW link
  PROVE  LET b == R!AbsoluteBranch(to, link)
         IN  IsCode(b) /\ Len(b) = 5 /\ Size(b) = 4 * 5 /\ \A k \in DOMAIN b : b[k].len = 4
<1>. DEFINE u == R!x26MOV(to)
            e == R!A(IF link THEN "callset" ELSE "jmpset", 0, 0)
            b == Append(u, e)
<1>1. b = R!AbsoluteBranch(to, link)
  BY DEF R!AbsoluteBranch
<1>2. e.len = 4 /\ e # Bad
  <2>. DEFINE op == IF link THEN "callset" ELSE "jmpset"
  <2>1. op # "bad"
    OBVIOUS
  <2>. HIDE DEF op
  <2>. QED BY <2>1, InstFields DEF R!A
<1>3. IsSequence(u) /\ Len(u) = 4
  BY DEF IsSequence, R!x26MOV, R!MoveAddress
<1>4. \A k \in 1 .. 4 : u[k].len = 4 /\ u[k] # Bad
  BY InstFields DEF R!x26MOV, R!MoveAddress, R!A
<1>. HIDE DEF u, e
<1>5. Len(b) = Len(u) + 1 /\ b[Len(u) + 1] = e /\ IsSequence(b) /\ \A k \in 1 .. Len(u) : b[k] = u[k]
  BY <1>3, OneMore
<1>. HIDE DEF b
<1>6. Len(b) = 5 /\ b[5] = e /\ \A k \in 1 .. 4 : b[k] = u[k]
  BY <1>3, <1>5
<1>7. \A k \in 1 .. 5 : b[k].len = 4 /\ b[k] # Bad
  <2>1. \A k \in 1 .. 5 : k \in 1 .. 4 \/ k = 5
    OBVIOUS
  <2>. QED BY <1>2, <1>4, <1>6, <2>1
<1>8. IsCode(b) /\ Size(b) = 4 * 5 /\ \A k \in DOMAIN b : b[k] # Bad /\ b[k].len = 4
  <2>1. 5 \in Nat \ {0}
    OBVIOUS
  <2>. QED BY <1>5, <1>6, <1>7, <2>1, Fours, Zenon
<1>. QED BY <1>1, <1>6, <1>8

LEMMA OneIsCode ==
  ASSUME NEW i, i.len \in Nat \ {0}
  PROVE  IsCode(<<i>>) /\ Len(<<i>>) = 1 /\ DOMAIN <<i>> = 1 .. 1 /\ <<i>>[1] = i /\ Size(<<i>>) = i.len
<1>. DEFINE e == <<i>>
<1>1. IsSequence(e) /\ Len(e) = 1 /\ DOMAIN e = 1 .. 1 /\ e[1] = i
  BY DEF IsSequence
<1>. HIDE DEF e
<1>2. IsCode(e)
  BY <1>1 DEF IsCode
<1>3. At0(e)[1] = 0 /\ At0(e)[1 + 1] = At0(e)[1] + e[1].len /\ At0(e)[1 + 1] = Size(e)
  <2>1. 1 \in 1 .. Len(e)
    BY <1>1
  <2>. QED BY <1>1, <1>2, <2>1, CodeSize
<1>4. Size(e) = i.len
  BY <1>1, <1>3
<1>. QED BY <1>1, <1>2, <1>4 DEF e

(* What is made of an instruction, by its kind.                            *)
LEMMA PieceOf ==
  ASSUME NEW i, NEW to
  PROVE  /\ i.op = "adr" => /\ R!RelocatedSize(i) = 4
                            /\ R!RelocateInst(i, to) = R!MoveAddress("movd", to)
         /\ i.op = "adrp" => /\ R!RelocatedSize(i) = 4
                             /\ R!RelocateInst(i, to) = R!MoveAddress("movd", R!PageOf(to))
         /\ i.op = "b" => /\ R!RelocatedSize(i) = 5
                          /\ R!RelocateInst(i, to) = R!AbsoluteBranch(to, FALSE)
         /\ i.op = "bl" => /\ R!RelocatedSize(i) = 5
                           /\ R!RelocateInst(i, to) = R!AbsoluteBranch(to, TRUE)
         /\ i.op \in R!Conditional => /\ R!RelocatedSize(i) = 6
                                      /\ R!RelocateInst(i, to) = R!ConditionalBranch(i, to)
         /\ i.op \notin R!Conditional \cup {"adr", "adrp", "b", "bl"} =>
              /\ R!RelocatedSize(i) = IF i.op \in {"ldrlit", "bad"} THEN 0 ELSE 1
              /\ R!RelocateInst(i, to) = <<i>>
<1>1. CASE i.op = "adr"
  BY <1>1 DEF R!RelocatedSize, R!RelocateInst, R!Conditional
<1>2. CASE i.op = "adrp"
  BY <1>2 DEF R!RelocatedSize, R!RelocateInst, R!Conditional
<1>3. CASE i.op = "b"
  BY <1>3 DEF R!RelocatedSize, R!RelocateInst, R!Conditional
<1>4. CASE i.op = "bl"
  BY <1>4 DEF R!RelocatedSize, R!RelocateInst, R!Conditional
<1>5. CASE i.op \in R!Conditional
  BY <1>5 DEF R!RelocatedSize, R!RelocateInst, R!Conditional
<1>6. CASE i.op \notin R!Conditional \cup {"adr", "adrp", "b", "bl"}
  BY <1>6 DEF R!RelocatedSize, R!RelocateInst, R!Conditional
<1>. QED BY <1>1, <1>2, <1>3, <1>4, <1>5, <1>6

(* So is every piece, and as long as RelocatedSize says.                   *)
LEMMA PieceIsCode ==
  ASSUME NEW i, i.len = 4, R!RelocatedSize(i) # 0, NEW to
  PROVE  LET p == R!RelocateInst(i, to)
         IN  /\ IsCode(p) /\ Len(p) = R!RelocatedSize(i) /\ Size(p) = 4 * R!RelocatedSize(i)
             /\ \A k \in DOMAIN p : p[k].len = 4
             /\ R!RelocatedSize(i) \in Nat
<1>. DEFINE Fine(e, l) == IsCode(e) /\ Len(e) = l /\ Size(e) = 4 * l /\ \A k \in DOMAIN e : e[k].len = 4
            p == R!RelocateInst(i, to)
            n == R!RelocatedSize(i)
<1>1. \A v : Fine(R!MoveAddress("movd", v), 4)
  <2>1. "movd" # "bad"
    OBVIOUS
  <2>. QED BY <2>1, MoveIsCode, Zenon
<1>2. \A link : Fine(R!AbsoluteBranch(to, link), 5)
  BY AbsoluteIsCode, Zenon
<1>3. Fine(R!ConditionalBranch(i, to), 6)
  <2>. DEFINE e == R!A(i.op, 6 * 4, 1 - i.x)
              u == <<e>>
              v == R!AbsoluteBranch(to, FALSE)
  <2>1. R!ConditionalBranch(i, to) = u \o v
    BY DEF R!ConditionalBranch
  <2>2. e.len = 4
    BY InstFields DEF R!A
  <2>. HIDE DEF e
  <2>3. IsCode(u) /\ Len(u) = 1 /\ DOMAIN u = 1 .. 1 /\ u[1] = e /\ Size(u) = 4
    BY <2>2, OneIsCode
  <2>. HIDE DEF u
  <2>4. Fine(v, 5)
    BY <1>2
  <2>. HIDE DEF v
  <2>5. IsCode(u \o v) /\ Len(u \o v) = Len(u) + Len(v) /\ Size(u \o v) = Size(u) + Size(v)
    BY <2>3, <2>4, JoinIsCode, JoinOffsets, ZenonT(30)
  <2>6. \A k \in DOMAIN (u \o v) : (u \o v)[k].len = 4
    BY <2>2, <2>3, <2>4, JoinedFrom
  <2>. QED BY <2>1, <2>3, <2>4, <2>5, <2>6
<1>4. Fine(<<i>>, 1)
  <2>. DEFINE u == <<i>>
  <2>1. i.len \in Nat \ {0}
    OBVIOUS
  <2>2. IsCode(u) /\ Len(u) = 1 /\ DOMAIN u = 1 .. 1 /\ u[1] = i /\ Size(u) = 4
    BY <2>1, OneIsCode
  <2>. HIDE DEF u
  <2>3. Fine(u, 1)
    BY <2>2
  <2>. QED BY <2>3 DEF u
<1>. HIDE DEF Fine
<1>5. Fine(p, n) /\ n \in {1, 4, 5, 6}
  <2>1. CASE i.op = "adr" \/ i.op = "adrp"
    BY <1>1, <2>1, PieceOf
  <2>2. CASE i.op = "b" \/ i.op = "bl"
    BY <1>2, <2>2, PieceOf
  <2>3. CASE i.op \in R!Conditional
    BY <1>3, <2>3, PieceOf
  <2>4. CASE i.op \notin R!Conditional \cup {"adr", "adrp", "b", "bl"}
    BY <1>4, <2>4, PieceOf
  <2>. QED BY <2>1, <2>2, <2>3, <2>4
<1>. HIDE DEF p, n
<1>6. n \in Nat
  BY <1>5
<1>. QED BY <1>5, <1>6 DEF Fine, p, n

LEMMA FourthOf ==
  ASSUME NEW a \in Int, NEW old \in Int, NEW N \in Nat,
         a \in old .. old + 4 * N - 1, (a - old) % 4 = 0
  PROVE  \E j \in 1 .. N : a = old + 4 * (j - 1)
<1>. DEFINE o == a - old
            q == o \div 4
<1>1. o \in Int /\ o >= 0 /\ o < 4 * N /\ o % 4 = 0 /\ a = old + o
  OBVIOUS
<1>. HIDE DEF o
<1>2. q \in Int /\ o = 4 * q
  BY <1>1
<1>. HIDE DEF q
<1>3. q + 1 \in 1 .. N /\ a = old + 4 * ((q + 1) - 1)
  BY <1>1, <1>2
<1>. QED BY <1>3

LEMMA FoursOffsets ==
  ASSUME NEW code, IsCode(code), \A i \in DOMAIN code : code[i].len = 4
  PROVE  \A k \in 1 .. Len(code) + 1 : At0(code)[k] = 4 * (k - 1)
<1>. DEFINE N == Len(code)
            g == [k \in 1 .. N + 1 |-> 4 * (k - 1)]
<1>1. N \in Nat /\ N \in 0 .. N /\ DOMAIN code = 1 .. N
  BY CodeSize
<1>. HIDE DEF N
<1>2. g[1] = 0
  BY <1>1
<1>3. ASSUME NEW k \in 1 .. N PROVE g[k + 1] = g[k] + code[k].len
  <2>1. code[k].len = 4 /\ k \in 1 .. N + 1 /\ k + 1 \in 1 .. N + 1
    BY <1>1
  <2>2. g[k] = 4 * (k - 1) /\ g[k + 1] = 4 * k
    BY <2>1
  <2>. QED BY <2>1, <2>2
<1>4. \A k \in 1 .. N + 1 : g[k] = At0(code)[k]
  <2>. HIDE DEF g
  <2>. QED BY <1>1, <1>2, <1>3, OnlyOffsets DEF N
<1>. QED BY <1>4 DEF N

(* The pieces of code at old are one behind the other in the copy at new,  *)
(* at[i] is the place of the i-th one.  What is made of an instruction     *)
(* that is relative to its address has the absolute target it had, or, if  *)
(* that is in the block, the copy of the instruction there.                *)
Aim(code, old, i) == R!Target(code[i], old + At0(code)[i])
PiecesOf(code, old, moved, new, at, to) ==
  /\ at[1] = 0 /\ at[Len(code) + 1] = Size(moved)
  /\ \A i \in DOMAIN code :
       /\ at[i] \in Nat
       /\ code[i].op \notin {"ldrlit", "bad"}
       /\ at[i + 1] = at[i] + 4 * R!RelocatedSize(code[i])
       /\ PlacedIn(moved, R!RelocateInst(code[i], to[i]), at[i])
       /\ code[i].op \in R!Branches \cup {"adr", "adrp"} =>
            IF Aim(code, old, i) \in old .. old + Size(code) - 1
            THEN \E j \in DOMAIN code : /\ Aim(code, old, i) = old + At0(code)[j]
                                        /\ to[i] = new + at[j]
            ELSE to[i] = Aim(code, old, i)

(* Relocate of arm64 makes such a copy (relocate_arm64.go:42-248).         *)
THEOREM RelocatedArm64 ==
  ASSUME NEW code, IsCode(code), \A i \in DOMAIN code : code[i].len = 4 /\ code[i].arg \in Int,
         NEW old \in Int, NEW new \in Int, R!Relocate(code, old, new).ok
  PROVE  LET moved == R!Relocate(code, old, new).code
         IN  IsCode(moved) /\ \E at, to : PiecesOf(code, old, moved, new, at, to)
<1>. DEFINE r == R!Relocate(code, old, new)
            N == Len(code)
            oldAt == R!Offsets(R!Lengths(code))
            sizes == [i \in DOMAIN code |-> 4 * R!RelocatedSize(code[i])]
            newAt == R!Offsets(sizes)
            aim(i) == R!Target(code[i], old + oldAt[i])
            to(i) == R!mapArm64Target(aim(i), old, new, R!Size(code), oldAt, newAt)
            piece == [i \in 1 .. N |-> R!RelocateInst(code[i], to(i))]
            IsUpTo(f) == f = [n \in 0 .. Len(code) |->
                            IF n = 0 THEN <<>> ELSE f[n - 1] \o R!RelocateInst(code[n], to(n))]
            upTo == CHOOSE f : IsUpTo(f)
            whole(i) == code[i].op \in R!Branches \cup {"adr", "adrp"} =>
                          (aim(i) - old) % 4 = 0 \/ aim(i) \notin old .. old + R!Size(code) - 1
<1>0. oldAt = At0(code) /\ newAt = Offsets(sizes) /\ R!Size(code) = Size(code)
  BY SameOffsets, SameBytes DEF At0
<1>1. /\ DOMAIN code = 1 .. N /\ N \in Nat /\ oldAt \in [1 .. N + 1 -> Nat] /\ oldAt[1] = 0
      /\ \A i \in 1 .. N : oldAt[i + 1] = oldAt[i] + code[i].len
      /\ oldAt[N + 1] = Size(code)
  BY <1>0, CodeSize
<1>2. r = IF \A i \in DOMAIN code : R!RelocatedSize(code[i]) # 0 /\ whole(i)
          THEN [ok |-> TRUE, code |-> upTo[Len(code)]]
          ELSE [ok |-> FALSE, code |-> code]
  BY DEF r, R!Relocate
<1>3. /\ \A i \in DOMAIN code : R!RelocatedSize(code[i]) # 0 /\ whole(i)
      /\ r.code = upTo[N]
  <2>1. r.ok
    OBVIOUS
  <2>. HIDE DEF r, upTo, whole
  <2>. QED BY <1>2, <2>1
<1>4. \A i \in 1 .. N : /\ IsCode(piece[i]) /\ Size(piece[i]) = 4 * R!RelocatedSize(code[i])
                       /\ R!RelocatedSize(code[i]) \in Nat
  <2>. SUFFICES ASSUME NEW i \in 1 .. N
                PROVE  /\ IsCode(R!RelocateInst(code[i], to(i)))
                       /\ Size(R!RelocateInst(code[i], to(i))) = 4 * R!RelocatedSize(code[i])
                       /\ R!RelocatedSize(code[i]) \in Nat
    OBVIOUS
  <2>1. code[i].len = 4 /\ R!RelocatedSize(code[i]) # 0
    BY <1>1, <1>3
  <2>. HIDE DEF to
  <2>. QED BY <2>1, PieceIsCode
<1>5. Joins(upTo, N, piece)
  <2>. HIDE DEF to
  <2>1. PICK f : Joins(f, N, piece)
    BY <1>1, JoinsDefine
  <2>2. IsUpTo(f)
    <3>1. \A n \in 0 .. N : n # 0 => piece[n] = R!RelocateInst(code[n], to(n))
      BY <1>1
    <3>. HIDE DEF piece
    <3>. QED BY <2>1, <3>1 DEF Joins
  <2>3. IsUpTo(upTo)
    BY <2>2, Zenon
  <2>4. \A n \in 0 .. N : n # 0 => piece[n] = R!RelocateInst(code[n], to(n))
    BY <1>1
  <2>. HIDE DEF piece, upTo
  <2>. QED BY <2>3, <2>4 DEF Joins
<1>6. /\ newAt[1] = 0 /\ newAt \in [1 .. N + 1 -> Nat]
      /\ \A i \in 1 .. N : newAt[i + 1] = newAt[i] + 4 * R!RelocatedSize(code[i])
  <2>1. sizes \in Seq(Nat) /\ Len(sizes) = N
    <3>1. sizes \in [1 .. N -> Nat]
      <4>1. \A i \in 1 .. N : 4 * R!RelocatedSize(code[i]) \in Nat
        <5>. HIDE DEF piece
        <5>. QED BY <1>4
      <4>. QED BY <1>1, <4>1
    <3>. HIDE DEF sizes
    <3>. QED BY <1>1, <3>1, SMTT(30)
  <2>2. \A i \in 1 .. N : sizes[i] = 4 * R!RelocatedSize(code[i])
    BY <1>1
  <2>. HIDE DEF sizes, newAt
  <2>. QED BY <1>0, <2>1, <2>2, OffsetsAreSums
<1>7. /\ IsCode(upTo[N]) /\ Size(upTo[N]) = newAt[N + 1]
      /\ \A i \in 1 .. N : PlacedIn(upTo[N], piece[i], newAt[i])
  <2>1. \A i \in 1 .. N : newAt[i + 1] = newAt[i] + Size(piece[i])
    <3>. HIDE DEF newAt, piece
    <3>. QED BY <1>4, <1>6
  <2>2. \A i \in 1 .. N : IsCode(piece[i])
    BY <1>4
  <2>3. newAt[1] = 0
    BY <1>6
  <2>. HIDE DEF newAt, piece, upTo
  <2>. QED BY <1>1, <1>5, <2>1, <2>2, <2>3, JoinsPlace
<1>8. ASSUME NEW i \in 1 .. N, code[i].op \in R!Branches \cup {"adr", "adrp"}
      PROVE  IF aim(i) \in old .. old + Size(code) - 1
             THEN \E j \in 1 .. N : aim(i) = old + oldAt[j] /\ to(i) = new + newAt[j]
             ELSE to(i) = aim(i)
  <2>1. CASE aim(i) \notin old .. old + Size(code) - 1
    BY <1>0, <2>1 DEF R!mapArm64Target
  <2>2. CASE aim(i) \in old .. old + Size(code) - 1
    <3>1. (aim(i) - old) % 4 = 0
      BY <1>0, <1>1, <1>3, <1>8, <2>2
    <3>2. \E j \in 1 .. N : old + oldAt[j] = aim(i)
      <4>1. \A k \in 1 .. N + 1 : oldAt[k] = 4 * (k - 1)
        BY <1>0, FoursOffsets
      <4>2. Size(code) = 4 * N
        BY SizeOfSame
      <4>. HIDE DEF aim, oldAt
      <4>3. aim(i) \in old .. old + 4 * N - 1
        BY <2>2, <4>2
      <4>4. PICK j \in 1 .. N : aim(i) = old + 4 * (j - 1)
        <5>1. N \in Nat /\ aim(i) \in Int
          BY <1>1, <4>3
        <5>. HIDE DEF N
        <5>. QED BY <3>1, <4>3, <5>1, FourthOf, Zenon
      <4>5. j \in 1 .. N + 1
        BY <1>1
      <4>. QED BY <4>1, <4>4, <4>5
    <3>3. DOMAIN newAt = 1 .. N + 1
      <4>. HIDE DEF newAt
      <4>. QED BY <1>6
    <3>4. PICK j \in DOMAIN newAt : /\ j = CHOOSE k \in DOMAIN newAt : old + oldAt[k] = aim(i)
                                   /\ old + oldAt[j] = aim(i)
      <4>. HIDE DEF newAt, oldAt, aim
      <4>1. \E k \in DOMAIN newAt : old + oldAt[k] = aim(i)
        BY <1>1, <3>2, <3>3, SMTT(30)
      <4>. QED BY <4>1
    <3>5. to(i) = new + newAt[j]
      BY <1>0, <2>2, <3>4 DEF R!mapArm64Target
    <3>6. j \in 1 .. N
      <4>1. j \in 1 .. N + 1
        BY <3>3, <3>4
      <4>. HIDE DEF newAt
      <4>2. oldAt[j] # oldAt[N + 1]
        <5>. HIDE DEF oldAt, aim
        <5>1. oldAt[j] \in Nat /\ oldAt[N + 1] \in Nat
          BY <1>1, <4>1
        <5>. QED BY <1>1, <2>2, <3>4, <5>1
      <4>. HIDE DEF oldAt, N
      <4>3. j # N + 1 /\ N \in Nat
        BY <1>1, <4>2
      <4>. QED BY <4>1, <4>3
    <3>. HIDE DEF to, newAt, oldAt, aim
    <3>. QED BY <2>2, <3>4, <3>5, <3>6
  <2>. QED BY <2>1, <2>2
<1>9. \A i \in 1 .. N : code[i].op \notin {"ldrlit", "bad"}
  <2>. SUFFICES ASSUME NEW i \in 1 .. N PROVE code[i].op \notin {"ldrlit", "bad"}
    OBVIOUS
  <2>1. R!RelocatedSize(code[i]) # 0
    BY <1>1, <1>3
  <2>. QED BY <2>1 DEF R!RelocatedSize, R!Conditional
<1>. DEFINE goes == [i \in 1 .. N |-> to(i)]
<1>10. PiecesOf(code, old, upTo[N], new, newAt, goes)
  <2>1. \A i \in 1 .. N : piece[i] = R!RelocateInst(code[i], goes[i]) /\ goes[i] = to(i)
    OBVIOUS
  <2>2. \A i \in 1 .. N : Aim(code, old, i) = aim(i)
    BY <1>0 DEF Aim
  <2>. HIDE DEF goes, piece, to, aim, newAt, upTo
  <2>3. newAt[N + 1] = Size(upTo[N])
    BY <1>7
  <2>4. ASSUME NEW i \in 1 .. N
        PROVE  /\ newAt[i] \in Nat /\ code[i].op \notin {"ldrlit", "bad"}
               /\ newAt[i + 1] = newAt[i] + 4 * R!RelocatedSize(code[i])
               /\ PlacedIn(upTo[N], R!RelocateInst(code[i], goes[i]), newAt[i])
    <3>1. piece[i] = R!RelocateInst(code[i], goes[i])
      BY <2>1
    <3>. QED BY <1>6, <1>7, <1>9, <3>1, SMTT(30)
  <2>5. ASSUME NEW i \in 1 .. N, code[i].op \in R!Branches \cup {"adr", "adrp"}
        PROVE  IF Aim(code, old, i) \in old .. old + Size(code) - 1
               THEN \E j \in 1 .. N : /\ Aim(code, old, i) = old + At0(code)[j]
                                      /\ goes[i] = new + newAt[j]
               ELSE goes[i] = Aim(code, old, i)
    <3>1. Aim(code, old, i) = aim(i) /\ goes[i] = to(i) /\ oldAt = At0(code)
      BY <1>0, <2>1, <2>2
    <3>. HIDE DEF oldAt
    <3>. QED BY <1>8, <2>5, <3>1
  <2>. HIDE DEF oldAt
  <2>. QED BY <1>1, <1>6, <2>3, <2>4, <2>5 DEF PiecesOf
<1>11. R!Relocate(code, old, new).code = upTo[N]
  BY <1>3
<1>. HIDE DEF upTo, goes, newAt
<1>. QED BY <1>7, <1>10, <1>11

-----------------------------------------------------------------------------
(* The processor: what an instruction does to pc and to the registers.     *)

(* What compiled instructions do to the processor.                         *)
LEMMA CompiledSteps ==
  ASSUME NEW i, i.op \in Compiled, NEW cpu, IsCpu(cpu), NEW c
  PROVE  /\ Silent(i) <=> i.op \in Jumping \cup {"nop"}
         /\ IsCpu(After(i, cpu, c))
         /\ i.op \in Jumping => After(i, cpu, c) = Moved(cpu, Points(i, cpu.pc))
         /\ i.op \in Tests =>
              After(i, cpu, c) = IF c # (i.x = 1) THEN Moved(cpu, Points(i, cpu.pc))
                                 ELSE Moved(cpu, cpu.pc + i.len)
         /\ i.op \notin Jumping \cup Tests => After(i, cpu, c) = Moved(cpu, cpu.pc + i.len)
<1>. DEFINE p == cpu.pc
            s == cpu.s
            d == cpu.d
<1>1. cpu = [pc |-> p, s |-> s, d |-> d]
  BY DEF IsCpu
<1>. HIDE DEF p, s, d
<1>2. CASE i.op \in Jumping
  BY <1>1, <1>2 DEF Silent, After, Tests, R!Conditional, Jumping, Moved, IsCpu
<1>3. CASE i.op \in Tests
  BY <1>1, <1>3 DEF Silent, After, Tests, R!Conditional, Jumping, Moved, IsCpu
<1>4. CASE i.op \notin Jumping \cup Tests
  BY <1>1, <1>4 DEF Silent, After, Tests, R!Conditional, Jumping, Moved, IsCpu, Compiled
<1>. QED BY <1>2, <1>3, <1>4

(* Compiled code does not look at the registers of mockey's branches.      *)
LEMMA CompiledEffects ==
  ASSUME NEW i, i.op \in Compiled, NEW cpu, NEW ref
  PROVE  /\ cpu.pc = ref.pc => Effect(i, cpu) = Effect(i, ref)
         /\ i.op \in {"plain", "ret", "nop", "int3"} => Effect(i, cpu) = Effect(i, ref)
         /\ i.op \in Tests => Effect(i, cpu) = <<"test", 0>>
         /\ i.op = "ret" => Effect(i, cpu) = <<"return", 0>>
         /\ i.op = "int3" => Effect(i, cpu) = <<"crash", 0>>
         /\ i.op \in {"lea", "adr", "adrp", "ldrlit"} =>
              Effect(i, cpu) = <<"address", Points(i, cpu.pc)>>
         /\ i.op \in {"call32", "bl"} => Effect(i, cpu) = <<"call", Points(i, cpu.pc)>>
<1>1. CASE i.op = "plain"
  BY <1>1 DEF Effect, Tests, R!Conditional
<1>2. CASE i.op \in {"lea", "adr", "adrp", "ldrlit"}
  BY <1>2 DEF Effect, Tests, R!Conditional
<1>3. CASE i.op \in {"call32", "bl"}
  BY <1>3 DEF Effect, Tests, R!Conditional
<1>4. CASE i.op \in Tests
  BY <1>4 DEF Effect, Tests, R!Conditional
<1>5. CASE i.op \in {"ret", "nop", "int3"} \cup Jumping
  BY <1>5 DEF Effect, Tests, R!Conditional, Jumping
<1>. QED BY <1>1, <1>2, <1>3, <1>4, <1>5 DEF Compiled

(* The same of the instructions of which mockey builds its branches.       *)
LEMMA OwnSteps ==
  ASSUME NEW i, NEW cpu, IsCpu(cpu), NEW c
  PROVE  /\ i.op = "set" => /\ Silent(i)
                            /\ After(i, cpu, c) = [pc |-> cpu.pc + i.len, s |-> i.arg, d |-> cpu.d]
         /\ i.op = "mov" => /\ Silent(i)
                            /\ After(i, cpu, c) = [pc |-> cpu.pc + i.len, d |-> cpu.d,
                                                   s |-> WithDigit(cpu.s, i.x, i.arg)]
         /\ i.op = "movd" => /\ Silent(i) <=> i.x < 3
                             /\ Effect(i, cpu) = <<"address", WithDigit(cpu.d, i.x, i.arg)>>
                             /\ After(i, cpu, c) = [pc |-> cpu.pc + i.len, s |-> cpu.s,
                                                    d |-> WithDigit(cpu.d, i.x, i.arg)]
         /\ i.op = "ldrset" => Silent(i) /\ After(i, cpu, c) = Moved(cpu, cpu.pc + i.len)
         /\ i.op = "jmpset" => Silent(i) /\ After(i, cpu, c) = Moved(cpu, cpu.s)
         /\ i.op = "callset" => /\ ~Silent(i) /\ Effect(i, cpu) = <<"call", cpu.s>>
                                /\ After(i, cpu, c) = Moved(cpu, cpu.pc + i.len)
         /\ i.op = "hookset" => ~Silent(i) /\ Effect(i, cpu) = <<"hook", cpu.s>>
<1>. DEFINE p == cpu.pc
            s == cpu.s
            d == cpu.d
<1>1. cpu = [pc |-> p, s |-> s, d |-> d]
  BY DEF IsCpu
<1>. HIDE DEF p, s, d
<1>2. CASE i.op \in {"set", "mov"}
  BY <1>1, <1>2 DEF Silent, After, Tests, R!Conditional, Moved
<1>3. CASE i.op = "movd"
  BY <1>1, <1>3 DEF Silent, After, Effect, Tests, R!Conditional, Moved
<1>4. CASE i.op \in {"ldrset", "jmpset"}
  BY <1>1, <1>4 DEF Silent, After, Tests, R!Conditional, Moved
<1>5. CASE i.op \in {"callset", "hookset"}
  BY <1>1, <1>5 DEF Silent, After, Effect, Tests, R!Conditional, Moved
<1>. QED BY <1>2, <1>3, <1>4, <1>5

LEMMA FifthOfFive ==
  ASSUME NEW s, IsSequence(s), Len(s) = 4, NEW e
  PROVE  Append(s, e)[5] = e /\ \A k \in 1 .. 4 : Append(s, e)[k] = s[k]
<1>. DEFINE c == Append(s, e)
            n == Len(s)
<1>1. c[Len(s) + 1] = e
  BY OneMore
<1>2. \A k \in 1 .. Len(s) : c[k] = s[k]
  BY OneMore
<1>3. n = 4
  OBVIOUS
<1>. HIDE DEF c, n
<1>4. c[n + 1] = e /\ \A k \in 1 .. n : c[k] = s[k]
  BY <1>1, <1>2 DEF n
<1>5. c[5] = e /\ \A k \in 1 .. 4 : c[k] = s[k]
  BY <1>3, <1>4
<1>. QED BY <1>5 DEF c

(* The code of the branches that do not go to a hook.                      *)
LEMMA AbsoluteCode ==
  ASSUME NEW v, NEW link \in BOOLEAN, NEW c, c = R!AbsoluteBranch(v, link)
  PROVE  /\ IsCode(c) /\ DOMAIN c = 1 .. 5 /\ Len(c) = 5 /\ Size(c) = 20
         /\ \A k \in 1 .. 4 : c[k].op = "mov" /\ c[k].x = k - 1 /\ c[k].arg = (v \div R!Weight[k]) % 16
         /\ c[5].op = IF link THEN "callset" ELSE "jmpset"
         /\ \A k \in 1 .. 5 : c[k].len = 4
         /\ \A k \in 1 .. 6 : At0(c)[k] = 4 * (k - 1)
<1>. DEFINE u == R!x26MOV(v)
            e == R!A(IF link THEN "callset" ELSE "jmpset", 0, 0)
<1>1. c = Append(u, e)
  BY DEF R!AbsoluteBranch
<1>2. \A k \in 1 .. 4 : /\ u[k].op = "mov" /\ u[k].x = k - 1
                        /\ u[k].arg = (v \div R!Weight[k]) % 16
  BY DEF R!x26MOV, R!MoveAddress, R!A, R!I
<1>0. IsSequence(u) /\ Len(u) = 4
  BY DEF IsSequence, R!x26MOV, R!MoveAddress
<1>3. e.op = IF link THEN "callset" ELSE "jmpset"
  BY DEF R!A, R!I
<1>. HIDE DEF u, e
<1>4. c[5] = e /\ \A k \in 1 .. 4 : c[k] = u[k]
  <2>1. IsSequence(u)
    BY <1>0
  <2>2. Len(u) = 4
    BY <1>0
  <2>3. Append(u, e)[5] = e /\ \A k \in 1 .. 4 : Append(u, e)[k] = u[k]
    BY <2>1, <2>2, FifthOfFive
  <2>. QED BY <1>1, <2>3, Zenon
<1>5. IsCode(c) /\ Len(c) = 5 /\ Size(c) = 4 * 5 /\ \A k \in DOMAIN c : c[k].len = 4
  BY AbsoluteIsCode
<1>6. DOMAIN c = 1 .. 5
  BY <1>5, CodeSize
<1>7. \A k \in 1 .. Len(c) + 1 : At0(c)[k] = 4 * (k - 1)
  BY <1>5, FoursOffsets
<1>. QED BY <1>2, <1>3, <1>4, <1>5, <1>6, <1>7

(* The sequences that mockey compiles, instruction by instruction.         *)
LEMMA MoveCode ==
  ASSUME NEW v, NEW c, c = R!MoveAddress("movd", v)
  PROVE  /\ IsCode(c) /\ DOMAIN c = 1 .. 4 /\ Len(c) = 4 /\ Size(c) = 16
         /\ \A k \in 1 .. 4 : c[k].op = "movd" /\ c[k].x = k - 1 /\ c[k].arg = (v \div R!Weight[k]) % 16
         /\ \A k \in 1 .. 4 : c[k].len = 4
         /\ \A k \in 1 .. 5 : At0(c)[k] = 4 * (k - 1)
<1>1. \A k \in 1 .. 4 : c[k].op = "movd" /\ c[k].x = k - 1 /\ c[k].arg = (v \div R!Weight[k]) % 16
  BY DEF R!MoveAddress, R!A, R!I
<1>2. IsCode(c) /\ Len(c) = 4 /\ Size(c) = 4 * 4 /\ \A k \in DOMAIN c : c[k].len = 4
  <2>1. "movd" # "bad"
    OBVIOUS
  <2>. QED BY <2>1, MoveIsCode, Zenon
<1>3. DOMAIN c = 1 .. 4
  BY <1>2, CodeSize
<1>4. \A k \in 1 .. Len(c) + 1 : At0(c)[k] = 4 * (k - 1)
  BY <1>2, FoursOffsets
<1>. QED BY <1>1, <1>2, <1>3, <1>4

LEMMA BackCode ==
  ASSUME NEW v, NEW c, c = BranchTo(v)
  PROVE  /\ IsCode(c)
         /\ amd64 => /\ DOMAIN c = 1 .. 2 /\ c[1].op = "set" /\ c[1].arg = v /\ c[1].len = 10
                     /\ c[2].op = "jmpset" /\ At0(c)[1] = 0 /\ At0(c)[2] = 10
         /\ ~amd64 => c = R!AbsoluteBranch(v, FALSE)
<1>1. ~amd64 => c = R!AbsoluteBranch(v, FALSE)
  BY DEF BranchTo, R!BranchTo
<1>2. IsCode(c)
  <2>1. CASE amd64
    BY <2>1, BranchBackIsCode, Zenon
  <2>2. CASE ~amd64
    BY <2>2, <1>1, AbsoluteIsCode, Zenon
  <2>. QED BY <2>1, <2>2
<1>3. ASSUME amd64
      PROVE  /\ DOMAIN c = 1 .. 2 /\ c[1].op = "set" /\ c[1].arg = v /\ c[1].len = 10
             /\ c[2].op = "jmpset" /\ At0(c)[1] = 0 /\ At0(c)[2] = 10
  <2>1. c = <<X!rdxMOV(v), X!I("jmpset", 2, 0, 0)>>
    BY <1>3 DEF BranchTo, X!BranchTo
  <2>2. DOMAIN c = 1 .. 2 /\ c[1].op = "set" /\ c[1].arg = v /\ c[1].len = 10 /\ c[2].op = "jmpset"
    BY <2>1 DEF X!rdxMOV, X!I
  <2>3. At0(c)[1] = 0 /\ At0(c)[1 + 1] = At0(c)[1] + c[1].len
    BY <1>2, <2>2, CodeSize
  <2>. QED BY <2>2, <2>3
<1>. QED BY <1>1, <1>2, <1>3

(* The places of the branch into a hook.                                   *)
LEMMA HookCode ==
  ASSUME NEW v, NEW c, c = BranchInto(v)
  PROVE  /\ IsCode(c) /\ 1 \in DOMAIN c
         /\ \A i \in DOMAIN c : At0(c)[i] \in Nat /\ At0(c)[i + 1] = At0(c)[i] + c[i].len
         /\ At0(c)[1] = 0
<1>1. IsCode(c) /\ 1 \in DOMAIN c
  BY BranchCode
<1>2. DOMAIN c = 1 .. Len(c) /\ Len(c) \in Nat /\ At0(c) \in [1 .. Len(c) + 1 -> Nat]
  BY <1>1, CodeSize
<1>3. At0(c)[1] = 0 /\ \A i \in 1 .. Len(c) : At0(c)[i + 1] = At0(c)[i] + c[i].len
  BY <1>1, CodeSize
<1>. QED BY <1>1, <1>2, <1>3

-----------------------------------------------------------------------------
(* The copy simulates the block.                                           *)

(* What the copy does next the block does too, if not yet.                 *)
Simulates(g, cpu, ref) ==
  LET e == Decode(g.new, cpu.pc)
      o == Decode(g.old, ref.pc)
  IN  IF Silent(e)
      THEN \/ Agrees(g, After(e, cpu, FALSE), ref)
           \/ Silent(o) /\ Agrees(g, After(e, cpu, FALSE), After(o, ref, FALSE))
      ELSE /\ ~Silent(o) /\ Effect(e, cpu) = Effect(o, ref)
           /\ Effect(e, cpu)[1] \notin Ends =>
                \A c \in BOOLEAN : Agrees(g, After(e, cpu, c), After(o, ref, c))

LEMMA MovedIs ==
  ASSUME NEW c, NEW to
  PROVE  Moved(c, to).pc = to /\ Moved(c, to).s = c.s /\ Moved(c, to).d = c.d /\ IsCpu(Moved(c, to))
BY DEF Moved, IsCpu

LEMMA OneInstruction ==
  ASSUME NEW e, IsCode(<<e>>), NEW m, NEW a \in Int, Runs(m, <<e>>, a)
  PROVE  Decode(m, a) = e /\ Size(<<e>>) = e.len /\ e.len \in Nat \ {0}
<1>. DEFINE c == <<e>>
<1>1. Len(c) = 1 /\ c[1] = e
  OBVIOUS
<1>. HIDE DEF c
<1>2. /\ DOMAIN c = 1 .. 1 /\ At0(c)[1] = 0 /\ Size(c) = At0(c)[1 + 1]
      /\ c[1].len \in Nat \ {0} /\ At0(c)[1 + 1] = At0(c)[1] + c[1].len
  <2>1. IsCode(c)
    BY DEF c
  <2>2. DOMAIN c = 1 .. Len(c) /\ At0(c)[1] = 0 /\ At0(c)[Len(c) + 1] = Size(c)
    BY <2>1, CodeSize
  <2>3. \A i \in 1 .. Len(c) : c[i].len \in Nat \ {0} /\ At0(c)[i + 1] = At0(c)[i] + c[i].len
    BY <2>1, CodeSize
  <2>. QED BY <1>1, <2>2, <2>3
<1>3. Decode(m, a + At0(c)[1]) = c[1]
  BY <1>2 DEF Runs, c
<1>. QED BY <1>1, <1>2, <1>3 DEF c

LEMMA ShortPieces ==
  ASSUME NEW v
  PROVE  /\ IsCode(BranchTo(v)) /\ 1 \in DOMAIN BranchTo(v) /\ At0(BranchTo(v))[1] = 0
         /\ \A i \in DOMAIN BranchTo(v) :
              /\ At0(BranchTo(v))[i] \in Nat /\ BranchTo(v)[i].len \in Nat
              /\ At0(BranchTo(v))[i + 1] = At0(BranchTo(v))[i] + BranchTo(v)[i].len
<1>. DEFINE c == BranchTo(v)
<1>1. IsCode(c) /\ 1 \in DOMAIN c
  <2>1. CASE amd64
    BY <2>1, BackCode
  <2>2. CASE ~amd64
    <3>1. IsCode(c) /\ c = R!AbsoluteBranch(v, FALSE)
      BY <2>2, BackCode
    <3>2. FALSE \in BOOLEAN
      OBVIOUS
    <3>3. DOMAIN R!AbsoluteBranch(v, FALSE) = 1 .. 5
      BY <3>2, AbsoluteCode
    <3>4. DOMAIN c = 1 .. 5
      BY <3>1, <3>3, Zenon
    <3>5. 1 \in 1 .. 5
      OBVIOUS
    <3>. QED BY <3>1, <3>4, <3>5, Zenon
  <2>. QED BY <2>1, <2>2
<1>. HIDE DEF c
<1>2. DOMAIN c = 1 .. Len(c) /\ Len(c) \in Nat /\ At0(c) \in [1 .. Len(c) + 1 -> Nat]
  BY <1>1, CodeSize
<1>3. At0(c)[1] = 0 /\ \A i \in 1 .. Len(c) : c[i].len \in Nat \ {0} /\ At0(c)[i + 1] = At0(c)[i] + c[i].len
  BY <1>1, CodeSize
<1>. QED BY <1>1, <1>2, <1>3 DEF c

(* Behind a copied instruction both go on at the same place.               *)
LEMMA FollowsAgrees ==
  ASSUME NEW g, NEW n, Follows(g, n), To(g, n) \in Int,
         NEW c, NEW r, IsCpu(c), IsCpu(r), c.pc = To(g, n), r.pc = From(g, n)
  PROVE  Agrees(g, c, r)
<1>1. CASE n \in g.live
  BY <1>1 DEF Agrees, Lands
<1>2. CASE n \notin g.live
  <2>. DEFINE t == Behind(g)
  <2>1. From(g, n) = t /\ t \in g.out /\ Reachable(t) /\ Runs(g.new, BranchTo(t), To(g, n))
    BY <1>2 DEF Follows
  <2>2. Lands(g, t, r.pc)
    BY <2>1 DEF Lands
  <2>3. Held(c.s, t, 1)
    BY DEF Held
  <2>4. 1 \in DOMAIN BranchTo(t) /\ c.pc = To(g, n) + At0(BranchTo(t))[1]
    BY ShortPieces
  <2>. HIDE DEF t
  <2>5. Going(g, c, r)
    BY <2>1, <2>2, <2>3, <2>4 DEF Going
  <2>. QED BY <2>5 DEF Agrees
<1>. QED BY <1>1, <1>2

(* One more digit of the address is loaded.                                *)
LEMMA HeldNext ==
  ASSUME ~amd64, NEW v \in Word, NEW k \in 1 .. 4, NEW s, Held(s, v, k)
  PROVE  WithDigit(s, k - 1, (v \div R!Weight[k]) % 16) = Loaded(v, k + 1)
<1>. DEFINE digit == (v \div R!Weight[k]) % 16
<1>1. WithDigit(Loaded(v, k), k - 1, digit) = Loaded(v, k + 1)
  BY DigitsAddUp
<1>. HIDE DEF digit
<1>2. ASSUME k = 1 PROVE WithDigit(s, k - 1, digit) = Loaded(v, k + 1)
  BY <1>1, <1>2 DEF WithDigit
<1>3. ASSUME k > 1 PROVE WithDigit(s, k - 1, digit) = Loaded(v, k + 1)
  BY <1>1, <1>3 DEF Held
<1>. QED BY <1>1, <1>2, <1>3 DEF digit

LEMMA AbsoluteBack ==
  ASSUME NEW v
  PROVE  LET c == R!AbsoluteBranch(v, FALSE)
         IN  /\ DOMAIN c = 1 .. 5 /\ Size(c) = 20
             /\ \A k \in 1 .. 4 : c[k].op = "mov" /\ c[k].x = k - 1 /\ c[k].arg = (v \div R!Weight[k]) % 16
             /\ c[5].op = "jmpset"
             /\ \A k \in 1 .. 5 : c[k].len = 4
             /\ \A k \in 1 .. 6 : At0(c)[k] = 4 * (k - 1)
<1>1. PICK link \in BOOLEAN : link = FALSE
  OBVIOUS
<1>. DEFINE c == R!AbsoluteBranch(v, FALSE)
<1>2. c = R!AbsoluteBranch(v, link)
  BY <1>1
<1>. HIDE DEF c
<1>3. /\ DOMAIN c = 1 .. 5 /\ Size(c) = 20
      /\ \A k \in 1 .. 5 : c[k].len = 4
      /\ \A k \in 1 .. 6 : At0(c)[k] = 4 * (k - 1)
  BY <1>2, AbsoluteCode
<1>4. \A k \in 1 .. 4 : c[k].op = "mov" /\ c[k].x = k - 1 /\ c[k].arg = (v \div R!Weight[k]) % 16
  BY <1>2, AbsoluteCode
<1>5. c[5].op = "jmpset"
  <2>1. c[5].op = IF link THEN "callset" ELSE "jmpset"
    BY <1>2, AbsoluteCode
  <2>. QED BY <1>1, <2>1
<1>. QED BY <1>3, <1>4, <1>5 DEF c

LEMMA AbsoluteLink ==
  ASSUME NEW v
  PROVE  LET c == R!AbsoluteBranch(v, TRUE)
         IN  /\ DOMAIN c = 1 .. 5 /\ Size(c) = 20
             /\ \A k \in 1 .. 4 : c[k].op = "mov" /\ c[k].x = k - 1 /\ c[k].arg = (v \div R!Weight[k]) % 16
             /\ c[5].op = "callset"
             /\ \A k \in 1 .. 5 : c[k].len = 4
             /\ \A k \in 1 .. 6 : At0(c)[k] = 4 * (k - 1)
<1>1. PICK link \in BOOLEAN : link = TRUE
  OBVIOUS
<1>. DEFINE c == R!AbsoluteBranch(v, TRUE)
<1>2. c = R!AbsoluteBranch(v, link)
  BY <1>1
<1>. HIDE DEF c
<1>3. /\ DOMAIN c = 1 .. 5 /\ Size(c) = 20
      /\ \A k \in 1 .. 5 : c[k].len = 4
      /\ \A k \in 1 .. 6 : At0(c)[k] = 4 * (k - 1)
  BY <1>2, AbsoluteCode
<1>4. \A k \in 1 .. 4 : c[k].op = "mov" /\ c[k].x = k - 1 /\ c[k].arg = (v \div R!Weight[k]) % 16
  BY <1>2, AbsoluteCode
<1>5. c[5].op = "callset"
  <2>1. c[5].op = IF link THEN "callset" ELSE "jmpset"
    BY <1>2, AbsoluteCode
  <2>. QED BY <1>1, <2>1
<1>. QED BY <1>3, <1>4, <1>5 DEF c

LEMMA JumpsToSet ==
  ASSUME NEW i, i.op = "jmpset", NEW cpu, IsCpu(cpu), NEW c
  PROVE  Silent(i) /\ After(i, cpu, c) = Moved(cpu, cpu.s)
BY OwnSteps

(* On the way to t, the copy alone goes on.                                *)
LEMMA GoingStep ==
  ASSUME NEW g, NEW cpu, IsCpu(cpu), NEW ref, IsCpu(ref), Going(g, cpu, ref)
  PROVE  LET e == Decode(g.new, cpu.pc)
         IN  Silent(e) /\ Agrees(g, After(e, cpu, FALSE), ref)
<1>0. PICK a \in Int : \E t : \E i \in DOMAIN BranchTo(t) :
         /\ Runs(g.new, BranchTo(t), a) /\ Reachable(t)
         /\ cpu.pc = a + At0(BranchTo(t))[i] /\ Held(cpu.s, t, i)
         /\ Lands(g, t, ref.pc)
  BY DEF Going
<1>1. PICK t : \E i \in DOMAIN BranchTo(t) :
         /\ Runs(g.new, BranchTo(t), a) /\ Reachable(t)
         /\ cpu.pc = a + At0(BranchTo(t))[i] /\ Held(cpu.s, t, i)
         /\ Lands(g, t, ref.pc)
  BY <1>0
<1>. DEFINE c == BranchTo(t)
            e == Decode(g.new, cpu.pc)
            after == After(e, cpu, FALSE)
<1>2. PICK i \in DOMAIN c : cpu.pc = a + At0(c)[i] /\ Held(cpu.s, t, i)
  BY <1>1
<1>3. Runs(g.new, c, a) /\ Reachable(t) /\ Lands(g, t, ref.pc)
  BY <1>1
<1>4. e = c[i]
  BY <1>2, <1>3 DEF Runs
<1>5. At0(c)[i] \in Nat /\ c[i].len \in Nat /\ At0(c)[i + 1] = At0(c)[i] + c[i].len
  BY ShortPieces
<1>6. cpu.pc + e.len = a + At0(c)[i + 1]
  BY <1>2, <1>4, <1>5
<1>7. ASSUME NEW s, Held(s, t, i + 1), i + 1 \in DOMAIN c, IsCpu(after),
             after.pc = cpu.pc + e.len, after.s = s
      PROVE  Agrees(g, after, ref)
  <2>. HIDE DEF c, after, e
  <2>1. after.pc = a + At0(c)[i + 1] /\ Held(after.s, t, i + 1)
    BY <1>6, <1>7
  <2>2. Going(g, after, ref)
    BY <1>3, <1>7, <2>1 DEF Going, c
  <2>. QED BY <1>7, <2>2 DEF Agrees
<1>8. ASSUME e.op = "jmpset", cpu.s = t
      PROVE  Silent(e) /\ Agrees(g, after, ref)
  <2>. HIDE DEF e
  <2>0. e.op = "jmpset"
    BY <1>8
  <2>1. Silent(e) /\ after = Moved(cpu, cpu.s)
    BY <2>0, JumpsToSet, Zenon
  <2>. HIDE DEF after
  <2>2. after.pc = t /\ IsCpu(after)
    BY <1>8, <2>1, MovedIs
  <2>. QED BY <1>3, <2>1, <2>2 DEF Agrees
<1>9. CASE amd64
  <2>1. DOMAIN c = 1 .. 2 /\ c[1].op = "set" /\ c[1].arg = t /\ c[2].op = "jmpset"
    BY <1>9, BackCode
  <2>. HIDE DEF c, e
  <2>2. ASSUME i = 1 PROVE Silent(e) /\ Agrees(g, after, ref)
    <3>1. e.op = "set" /\ e.arg = t
      BY <1>4, <2>1, <2>2
    <3>2. Silent(e) /\ after = [pc |-> cpu.pc + e.len, s |-> t, d |-> cpu.d]
      BY <3>1, OwnSteps
    <3>. HIDE DEF after
    <3>3. after.pc = cpu.pc + e.len /\ after.s = t /\ IsCpu(after)
      BY <3>2 DEF IsCpu
    <3>4. Held(t, t, i + 1) /\ i + 1 \in DOMAIN c
      BY <1>9, <2>1, <2>2, LoadedAtTheEnds DEF Held
    <3>. QED BY <1>7, <3>2, <3>3, <3>4
  <2>3. ASSUME i = 2 PROVE Silent(e) /\ Agrees(g, after, ref)
    <3>1. cpu.s = t
      BY <1>2, <1>9, <2>3, LoadedAtTheEnds DEF Held
    <3>2. e.op = "jmpset"
      BY <1>4, <2>1, <2>3
    <3>. QED BY <1>8, <3>1, <3>2
  <2>4. i = 1 \/ i = 2
    BY <2>1
  <2>. QED BY <2>2, <2>3, <2>4 DEF e
<1>10. CASE ~amd64
  <2>1. /\ DOMAIN c = 1 .. 5 /\ c[5].op = "jmpset"
        /\ \A k \in 1 .. 4 : c[k].op = "mov" /\ c[k].x = k - 1 /\ c[k].arg = (t \div R!Weight[k]) % 16
    <3>1. c = R!AbsoluteBranch(t, FALSE)
      BY <1>10, BackCode
    <3>. HIDE DEF c
    <3>. QED BY <3>1, AbsoluteBack
  <2>2. t \in Word
    BY <1>3, <1>10 DEF Reachable
  <2>. HIDE DEF c, e
  <2>3. ASSUME i \in 1 .. 4 PROVE Silent(e) /\ Agrees(g, after, ref)
    <3>. DEFINE s == WithDigit(cpu.s, e.x, e.arg)
    <3>1. e.op = "mov" /\ e.x = i - 1 /\ e.arg = (t \div R!Weight[i]) % 16
      BY <1>4, <2>1, <2>3
    <3>2. Silent(e) /\ after = [pc |-> cpu.pc + e.len, d |-> cpu.d, s |-> s]
      BY <3>1, OwnSteps
    <3>3. s = Loaded(t, i + 1)
      BY <1>2, <1>10, <2>2, <2>3, <3>1, HeldNext
    <3>. HIDE DEF after, s
    <3>4. after.pc = cpu.pc + e.len /\ after.s = s /\ IsCpu(after)
      BY <3>2 DEF IsCpu
    <3>5. Held(s, t, i + 1) /\ i + 1 \in DOMAIN c
      BY <2>1, <2>3, <3>3 DEF Held
    <3>. QED BY <1>7, <3>2, <3>4, <3>5
  <2>4. ASSUME i = 5 PROVE Silent(e) /\ Agrees(g, after, ref)
    <3>1. cpu.s = t
      BY <1>2, <1>10, <2>4, LoadedAtTheEnds DEF Held
    <3>2. e.op = "jmpset"
      BY <1>4, <2>1, <2>4
    <3>. QED BY <1>8, <3>1, <3>2
  <2>5. i \in 1 .. 4 \/ i = 5
    BY <2>1
  <2>. QED BY <2>3, <2>4, <2>5 DEF e
<1>. QED BY <1>9, <1>10

(* What is known of an instruction that was copied, and of what is behind. *)
LEMMA CopiedFacts ==
  ASSUME NEW g, Good(g), NEW j \in g.live
  PROVE  /\ Decode(g.old, From(g, j)) = g.code[j] /\ g.code[j].op \in Compiled
         /\ From(g, j) \in Int /\ To(g, j) \in Int
         /\ From(g, j + 1) = From(g, j) + g.code[j].len
         /\ g.code[j].op \notin Jumping => Follows(g, j + 1)
BY DEF Good, Copied

(* The loads of the two registers.                                         *)
LEMMA SetsIt ==
  ASSUME NEW i, i.op = "set", NEW cpu, IsCpu(cpu), NEW c
  PROVE  Silent(i) /\ After(i, cpu, c) = [pc |-> cpu.pc + i.len, s |-> i.arg, d |-> cpu.d]
BY OwnSteps

LEMMA LoadsIt ==
  ASSUME NEW i, i.op = "movd", NEW cpu, IsCpu(cpu)
  PROVE  /\ i.x < 3 <=> Silent(i)
         /\ Effect(i, cpu) = <<"address", WithDigit(cpu.d, i.x, i.arg)>>
<1>1. Silent(i) <=> i.x < 3
  BY OwnSteps
<1>2. Effect(i, cpu) = <<"address", WithDigit(cpu.d, i.x, i.arg)>>
  BY OwnSteps
<1>. QED BY <1>1, <1>2

(* In the sequence for a call the copy alone goes on, to its last one.     *)
LEMMA CallingStep ==
  ASSUME NEW g, Good(g), NEW cpu, IsCpu(cpu), NEW ref, IsCpu(ref), Calling(g, cpu, ref)
  PROVE  Simulates(g, cpu, ref)
<1>1. PICK j \in g.live, i \in 1 .. 5 :
        LET aim == Points(g.code[j], From(g, j))
            piece == LinkTo(aim)
        IN  /\ ~amd64 /\ g.code[j].op = "bl" /\ ref.pc = From(g, j) /\ aim \in Word
            /\ Runs(g.new, piece, To(g, j)) /\ To(g, j + 1) = To(g, j) + Size(piece)
            /\ cpu.pc = To(g, j) + At0(piece)[i] /\ Held(cpu.s, aim, i)
  BY DEF Calling
<1>. DEFINE aim == Points(g.code[j], From(g, j))
            c == LinkTo(aim)
            e == Decode(g.new, cpu.pc)
            o == Decode(g.old, ref.pc)
<1>2. /\ ~amd64 /\ g.code[j].op = "bl" /\ ref.pc = From(g, j) /\ aim \in Word
      /\ Runs(g.new, c, To(g, j)) /\ To(g, j + 1) = To(g, j) + Size(c)
      /\ cpu.pc = To(g, j) + At0(c)[i] /\ Held(cpu.s, aim, i)
  BY <1>1
<1>. HIDE DEF aim
<1>3. /\ DOMAIN c = 1 .. 5 /\ Size(c) = 20
      /\ \A k \in 1 .. 4 : c[k].op = "mov" /\ c[k].x = k - 1 /\ c[k].arg = (aim \div R!Weight[k]) % 16
      /\ \A k \in 1 .. 5 : c[k].len = 4
      /\ \A k \in 1 .. 6 : At0(c)[k] = 4 * (k - 1)
  BY AbsoluteLink DEF LinkTo
<1>20. c[5].op = "callset"
  BY AbsoluteLink DEF LinkTo
<1>. HIDE DEF c
<1>4. /\ o = g.code[j] /\ From(g, j) \in Int /\ To(g, j) \in Int
      /\ From(g, j + 1) = From(g, j) + g.code[j].len
      /\ g.code[j].op \in Compiled /\ g.code[j].op \notin Jumping => Follows(g, j + 1)
  BY <1>2, CopiedFacts DEF Jumping
<1>5. e = c[i]
  BY <1>2, <1>3 DEF Runs
<1>6. e.len = 4 /\ cpu.pc = To(g, j) + 4 * (i - 1) /\ cpu.pc \in Int
  BY <1>2, <1>3, <1>4, <1>5
<1>7. o.op \in Compiled /\ o.op \notin Jumping /\ o.op \notin Tests /\ ~Silent(o)
  <2>1. o.op \in Compiled /\ o.op \notin Jumping /\ o.op \notin Tests /\ o.op # "nop"
    BY <1>2, <1>4 DEF Jumping, Tests, R!Conditional, Compiled
  <2>. HIDE DEF o
  <2>. QED BY <2>1, CompiledSteps
<1>8. Effect(o, ref) = <<"call", aim>>
  <2>1. Effect(o, ref) = <<"call", Points(o, ref.pc)>>
    <3>1. o.op \in {"call32", "bl"} /\ o.op \in Compiled
      BY <1>2, <1>4, <1>7
    <3>. HIDE DEF o
    <3>. QED BY <3>1, CompiledEffects
  <2>. QED BY <1>2, <1>4, <2>1 DEF aim
<1>9. CASE i \in 1 .. 4
  <2>. DEFINE v == WithDigit(cpu.s, e.x, e.arg)
              after == After(e, cpu, FALSE)
  <2>1. e.op = "mov" /\ e.x = i - 1 /\ e.arg = (aim \div R!Weight[i]) % 16
    BY <1>3, <1>5, <1>9
  <2>. HIDE DEF e
  <2>2. Silent(e) /\ after = [pc |-> cpu.pc + e.len, d |-> cpu.d, s |-> v]
    <3>1. Silent(e)
      BY <2>1, OwnSteps
    <3>2. after = [pc |-> cpu.pc + e.len, d |-> cpu.d, s |-> v]
      BY <2>1, OwnSteps
    <3>. QED BY <3>1, <3>2
  <2>3. v = Loaded(aim, i + 1)
    BY <1>2, <1>9, <2>1, HeldNext
  <2>. HIDE DEF after, v, o
  <2>4. after.pc = cpu.pc + e.len /\ after.s = v /\ IsCpu(after)
    BY <2>2 DEF IsCpu
  <2>5. after.pc = To(g, j) + At0(c)[i + 1] /\ i + 1 \in 1 .. 5 /\ Held(after.s, aim, i + 1)
    BY <1>3, <1>4, <1>6, <1>9, <2>3, <2>4 DEF Held
  <2>6. Calling(g, after, ref)
    BY <1>2, <2>5 DEF Calling, c, aim
  <2>7. Agrees(g, after, ref)
    BY <2>4, <2>6 DEF Agrees
  <2>. QED BY <2>2, <2>7 DEF Simulates, e, after
<1>10. CASE i = 5
  <2>1. e.op = "callset" /\ cpu.s = aim
    BY <1>2, <1>5, <1>10, <1>20, LoadedAtTheEnds DEF Held
  <2>2. ~Silent(e) /\ Effect(e, cpu) = <<"call", aim>>
    <3>. HIDE DEF e
    <3>. QED BY <2>1, OwnSteps
  <2>3. ASSUME NEW b \in BOOLEAN PROVE Agrees(g, After(e, cpu, b), After(o, ref, b))
    <3>. HIDE DEF e, o
    <3>1. After(e, cpu, b) = Moved(cpu, cpu.pc + e.len)
      BY <2>1, OwnSteps
    <3>2. After(o, ref, b) = Moved(ref, ref.pc + o.len)
      BY <1>7, CompiledSteps
    <3>3. /\ IsCpu(After(e, cpu, b)) /\ After(e, cpu, b).pc = To(g, j + 1)
          /\ IsCpu(After(o, ref, b)) /\ After(o, ref, b).pc = From(g, j + 1)
      <4>1. cpu.pc + e.len = To(g, j + 1)
        BY <1>2, <1>3, <1>4, <1>6, <1>10
      <4>2. ref.pc + o.len = From(g, j + 1)
        BY <1>2, <1>4
      <4>3. IsCpu(After(e, cpu, b)) /\ After(e, cpu, b).pc = cpu.pc + e.len
        BY <3>1, MovedIs DEF IsCpu
      <4>4. IsCpu(After(o, ref, b)) /\ After(o, ref, b).pc = ref.pc + o.len
        BY <3>2, MovedIs
      <4>. QED BY <4>1, <4>2, <4>3, <4>4
    <3>4. Follows(g, j + 1) /\ To(g, j + 1) \in Int
      BY <1>2, <1>3, <1>4, <1>7 DEF o
    <3>. QED BY <3>3, <3>4, FollowsAgrees
  <2>. HIDE DEF e, o
  <2>. QED BY <1>7, <1>8, <2>2, <2>3 DEF Simulates, e, o
<1>. QED BY <1>9, <1>10

(* And in the one for an address.                                          *)
LEMMA LoadingStep ==
  ASSUME NEW g, Good(g), NEW cpu, IsCpu(cpu), NEW ref, IsCpu(ref), Loading(g, cpu, ref)
  PROVE  Simulates(g, cpu, ref)
<1>1. PICK j \in g.live, i \in 1 .. 4 :
        LET aim == Points(g.code[j], From(g, j))
            piece == R!MoveAddress("movd", aim)
        IN  /\ ~amd64 /\ g.code[j].op \in {"adr", "adrp"} /\ ref.pc = From(g, j) /\ aim \in Word
            /\ Runs(g.new, piece, To(g, j)) /\ To(g, j + 1) = To(g, j) + Size(piece)
            /\ cpu.pc = To(g, j) + At0(piece)[i] /\ Held(cpu.d, aim, i)
  BY DEF Loading
<1>. DEFINE aim == Points(g.code[j], From(g, j))
            c == R!MoveAddress("movd", aim)
            e == Decode(g.new, cpu.pc)
            o == Decode(g.old, ref.pc)
<1>2. /\ ~amd64 /\ g.code[j].op \in {"adr", "adrp"} /\ ref.pc = From(g, j) /\ aim \in Word
      /\ Runs(g.new, c, To(g, j)) /\ To(g, j + 1) = To(g, j) + Size(c)
      /\ cpu.pc = To(g, j) + At0(c)[i] /\ Held(cpu.d, aim, i)
  BY <1>1
<1>. HIDE DEF aim
<1>3. /\ DOMAIN c = 1 .. 4 /\ Size(c) = 16
      /\ \A k \in 1 .. 4 : c[k].op = "movd" /\ c[k].x = k - 1 /\ c[k].arg = (aim \div R!Weight[k]) % 16
      /\ \A k \in 1 .. 4 : c[k].len = 4
      /\ \A k \in 1 .. 5 : At0(c)[k] = 4 * (k - 1)
  BY MoveCode
<1>. HIDE DEF c
<1>4. /\ o = g.code[j] /\ From(g, j) \in Int /\ To(g, j) \in Int
      /\ From(g, j + 1) = From(g, j) + g.code[j].len
      /\ g.code[j].op \in Compiled /\ g.code[j].op \notin Jumping => Follows(g, j + 1)
  BY <1>2, CopiedFacts DEF Jumping
<1>5. e = c[i]
  BY <1>2, <1>3 DEF Runs
<1>6. e.len = 4 /\ cpu.pc = To(g, j) + 4 * (i - 1) /\ cpu.pc \in Int
  BY <1>2, <1>3, <1>4, <1>5
<1>7. o.op \in Compiled /\ o.op \notin Jumping /\ o.op \notin Tests /\ ~Silent(o)
  <2>1. o.op \in Compiled /\ o.op \notin Jumping /\ o.op \notin Tests /\ o.op # "nop"
    BY <1>2, <1>4 DEF Jumping, Tests, R!Conditional, Compiled
  <2>. HIDE DEF o
  <2>. QED BY <2>1, CompiledSteps
<1>8. Effect(o, ref) = <<"address", aim>>
  <2>1. Effect(o, ref) = <<"address", Points(o, ref.pc)>>
    <3>1. o.op \in {"lea", "adr", "adrp", "ldrlit"} /\ o.op \in Compiled
      BY <1>2, <1>4, <1>7
    <3>. HIDE DEF o
    <3>. QED BY <3>1, CompiledEffects
  <2>. QED BY <1>2, <1>4, <2>1 DEF aim
<1>9. CASE i \in 1 .. 3
  <2>. DEFINE v == WithDigit(cpu.d, e.x, e.arg)
              after == After(e, cpu, FALSE)
  <2>1. e.op = "movd" /\ e.x = i - 1 /\ e.arg = (aim \div R!Weight[i]) % 16
    BY <1>3, <1>5, <1>9
  <2>. HIDE DEF e
  <2>2. Silent(e) /\ after = [pc |-> cpu.pc + e.len, s |-> cpu.s, d |-> v]
    <3>1. Silent(e)
      <4>1. e.x < 3 <=> Silent(e)
        BY <2>1, LoadsIt, Zenon
      <4>. QED BY <1>9, <2>1, <4>1
    <3>2. after = [pc |-> cpu.pc + e.len, s |-> cpu.s, d |-> v]
      BY <2>1, OwnSteps
    <3>. QED BY <3>1, <3>2
  <2>3. v = Loaded(aim, i + 1)
    BY <1>2, <1>9, <2>1, HeldNext
  <2>. HIDE DEF after, v, o
  <2>4. after.pc = cpu.pc + e.len /\ after.d = v /\ IsCpu(after)
    BY <2>2 DEF IsCpu
  <2>5. after.pc = To(g, j) + At0(c)[i + 1] /\ i + 1 \in 1 .. 4 /\ Held(after.d, aim, i + 1)
    BY <1>3, <1>4, <1>6, <1>9, <2>3, <2>4 DEF Held
  <2>6. Loading(g, after, ref)
    BY <1>2, <2>5 DEF Loading, c, aim
  <2>7. Agrees(g, after, ref)
    BY <2>4, <2>6 DEF Agrees
  <2>. QED BY <2>2, <2>7 DEF Simulates, e, after
<1>10. CASE i = 4
  <2>1. e.op = "movd" /\ e.x = 3 /\ e.arg = (aim \div R!Weight[i]) % 16
    BY <1>3, <1>5, <1>10
  <2>0. WithDigit(cpu.d, e.x, e.arg) = aim
    <3>1. WithDigit(cpu.d, e.x, e.arg) = Loaded(aim, 5)
      BY <1>2, <1>10, <2>1, HeldNext
    <3>. QED BY <1>2, <3>1, LoadedAtTheEnds
  <2>2. ~Silent(e) /\ Effect(e, cpu) = <<"address", aim>>
    <3>. HIDE DEF e
    <3>1. (e.x < 3 <=> Silent(e)) /\ Effect(e, cpu) = <<"address", WithDigit(cpu.d, e.x, e.arg)>>
      BY <2>1, LoadsIt, Zenon
    <3>. QED BY <2>0, <2>1, <3>1
  <2>3. ASSUME NEW b \in BOOLEAN PROVE Agrees(g, After(e, cpu, b), After(o, ref, b))
    <3>. HIDE DEF e, o
    <3>1. After(e, cpu, b) = [pc |-> cpu.pc + e.len, s |-> cpu.s, d |-> aim]
      BY <2>0, <2>1, OwnSteps
    <3>2. After(o, ref, b) = Moved(ref, ref.pc + o.len)
      BY <1>7, CompiledSteps
    <3>3. /\ IsCpu(After(e, cpu, b)) /\ After(e, cpu, b).pc = To(g, j + 1)
          /\ IsCpu(After(o, ref, b)) /\ After(o, ref, b).pc = From(g, j + 1)
      <4>1. cpu.pc + e.len = To(g, j + 1)
        BY <1>2, <1>3, <1>4, <1>6, <1>10
      <4>2. ref.pc + o.len = From(g, j + 1)
        BY <1>2, <1>4
      <4>3. IsCpu(After(e, cpu, b)) /\ After(e, cpu, b).pc = cpu.pc + e.len
        BY <3>1, MovedIs DEF IsCpu
      <4>4. IsCpu(After(o, ref, b)) /\ After(o, ref, b).pc = ref.pc + o.len
        BY <3>2, MovedIs
      <4>. QED BY <4>1, <4>2, <4>3, <4>4
    <3>4. Follows(g, j + 1) /\ To(g, j + 1) \in Int
      BY <1>2, <1>3, <1>4, <1>7 DEF o
    <3>. QED BY <3>3, <3>4, FollowsAgrees
  <2>. HIDE DEF e, o
  <2>. QED BY <1>7, <1>8, <2>2, <2>3 DEF Simulates, e, o
<1>. QED BY <1>9, <1>10

(* In the branch into the hook of another patch both go on.                *)
LEMMA HookingStep ==
  ASSUME NEW g, NEW cpu, IsCpu(cpu), NEW ref, IsCpu(ref), Hooking(g, cpu, ref)
  PROVE  Simulates(g, cpu, ref)
<1>0. PICK a \in Int, b \in Int : \E v : \E i \in DOMAIN BranchInto(v) :
        /\ Runs(g.new, BranchInto(v), a) /\ Runs(g.old, BranchInto(v), b)
        /\ amd64 \/ v \in Word
        /\ cpu.pc = a + At0(BranchInto(v))[i] /\ ref.pc = b + At0(BranchInto(v))[i]
        /\ Held(cpu.s, v, i) /\ Held(ref.s, v, i)
  BY DEF Hooking
<1>1. PICK v : \E i \in DOMAIN BranchInto(v) :
        /\ Runs(g.new, BranchInto(v), a) /\ Runs(g.old, BranchInto(v), b)
        /\ amd64 \/ v \in Word
        /\ cpu.pc = a + At0(BranchInto(v))[i] /\ ref.pc = b + At0(BranchInto(v))[i]
        /\ Held(cpu.s, v, i) /\ Held(ref.s, v, i)
  BY <1>0
<1>. DEFINE c == BranchInto(v)
            e == Decode(g.new, cpu.pc)
            o == Decode(g.old, ref.pc)
<1>2. PICK i \in DOMAIN c : /\ cpu.pc = a + At0(c)[i] /\ ref.pc = b + At0(c)[i]
                            /\ Held(cpu.s, v, i) /\ Held(ref.s, v, i)
  BY <1>1
<1>3. Runs(g.new, c, a) /\ Runs(g.old, c, b) /\ (amd64 \/ v \in Word)
  BY <1>1
<1>4. e = c[i] /\ o = c[i]
  BY <1>2, <1>3 DEF Runs
<1>5. At0(c)[i] \in Nat /\ c[i].len \in Nat /\ At0(c)[i + 1] = At0(c)[i] + c[i].len
  <2>1. IsCode(c)
    BY HookCode
  <2>. HIDE DEF c
  <2>2. DOMAIN c = 1 .. Len(c) /\ Len(c) \in Nat /\ At0(c) \in [1 .. Len(c) + 1 -> Nat]
    BY <2>1, CodeSize
  <2>3. c[i].len \in Nat \ {0} /\ At0(c)[i + 1] = At0(c)[i] + c[i].len
    BY <2>1, <2>2, CodeSize
  <2>. QED BY <2>2, <2>3
<1>6. cpu.pc + e.len = a + At0(c)[i + 1] /\ ref.pc + o.len = b + At0(c)[i + 1]
  BY <1>2, <1>4, <1>5
<1>. DEFINE ce == After(e, cpu, FALSE)
            co == After(o, ref, FALSE)
<1>7. ASSUME Silent(e), NEW s, NEW t, Held(s, v, i + 1), Held(t, v, i + 1), i + 1 \in DOMAIN c,
             IsCpu(ce), ce.pc = cpu.pc + e.len, ce.s = s,
             IsCpu(co), co.pc = ref.pc + o.len, co.s = t
      PROVE  Simulates(g, cpu, ref)
  <2>. HIDE DEF c, ce, co, e, o
  <2>1. Hooking(g, ce, co)
    <3>1. /\ ce.pc = a + At0(c)[i + 1] /\ co.pc = b + At0(c)[i + 1]
          /\ Held(ce.s, v, i + 1) /\ Held(co.s, v, i + 1)
      BY <1>6, <1>7
    <3>. QED BY <1>3, <1>7, <3>1 DEF Hooking, c
  <2>2. Agrees(g, ce, co)
    BY <1>7, <2>1 DEF Agrees
  <2>3. Silent(o)
    BY <1>4, <1>7
  <2>. QED BY <1>7, <2>2, <2>3 DEF Simulates, e, o, ce, co
<1>8. ASSUME e.op = "hookset", cpu.s = v, ref.s = v
      PROVE  Simulates(g, cpu, ref)
  <2>1. o.op = "hookset"
    BY <1>4, <1>8
  <2>. HIDE DEF e, o
  <2>2. ~Silent(e) /\ Effect(e, cpu) = <<"hook", v>>
    BY <1>8, OwnSteps
  <2>3. ~Silent(o) /\ Effect(o, ref) = <<"hook", v>>
    BY <1>8, <2>1, OwnSteps
  <2>4. Effect(e, cpu)[1] \in Ends
    BY <2>2 DEF Ends
  <2>. QED BY <2>2, <2>3, <2>4 DEF Simulates, e, o
<1>9. CASE amd64
  <2>1. DOMAIN c = 1 .. 2 /\ c[1].op = "set" /\ c[1].arg = v /\ c[2].op = "hookset"
    BY <1>9, BranchCode
  <2>. HIDE DEF c, e, o
  <2>2. ASSUME i = 1 PROVE Simulates(g, cpu, ref)
    <3>1. e.op = "set" /\ e.arg = v /\ o.op = "set" /\ o.arg = v
      BY <1>4, <2>1, <2>2
    <3>2. Silent(e) /\ ce = [pc |-> cpu.pc + e.len, s |-> v, d |-> cpu.d]
      <4>1. Silent(e) /\ ce = [pc |-> cpu.pc + e.len, s |-> e.arg, d |-> cpu.d]
        BY <3>1, SetsIt, Zenon
      <4>. HIDE DEF ce
      <4>. QED BY <3>1, <4>1
    <3>3. co = [pc |-> ref.pc + o.len, s |-> v, d |-> ref.d]
      <4>1. co = [pc |-> ref.pc + o.len, s |-> o.arg, d |-> ref.d]
        BY <3>1, SetsIt, Zenon
      <4>. HIDE DEF co
      <4>. QED BY <3>1, <4>1
    <3>. HIDE DEF ce, co
    <3>4. /\ ce.pc = cpu.pc + e.len /\ ce.s = v /\ IsCpu(ce)
          /\ co.pc = ref.pc + o.len /\ co.s = v /\ IsCpu(co)
      BY <3>2, <3>3 DEF IsCpu
    <3>5. Held(v, v, i + 1) /\ i + 1 \in DOMAIN c
      BY <1>9, <2>1, <2>2, LoadedAtTheEnds DEF Held
    <3>. QED BY <1>7, <3>2, <3>4, <3>5
  <2>3. ASSUME i = 2 PROVE Simulates(g, cpu, ref)
    <3>1. cpu.s = v /\ ref.s = v
      BY <1>2, <1>9, <2>3, LoadedAtTheEnds DEF Held
    <3>2. e.op = "hookset"
      BY <1>4, <2>1, <2>3
    <3>. QED BY <1>8, <3>1, <3>2
  <2>4. i = 1 \/ i = 2
    BY <2>1
  <2>. QED BY <2>2, <2>3, <2>4
<1>10. CASE ~amd64
  <2>1. /\ DOMAIN c = 1 .. 6 /\ c[5].op = "ldrset" /\ c[6].op = "hookset"
        /\ \A k \in 1 .. 4 : c[k].op = "mov" /\ c[k].x = k - 1 /\ c[k].arg = (v \div R!Weight[k]) % 16
    BY <1>10, BranchCode
  <2>2. v \in Word
    BY <1>3, <1>10
  <2>. HIDE DEF c, e, o
  <2>3. ASSUME i \in 1 .. 4 PROVE Simulates(g, cpu, ref)
    <3>. DEFINE s == WithDigit(cpu.s, e.x, e.arg)
                t == WithDigit(ref.s, o.x, o.arg)
    <3>1. e.op = "mov" /\ e.x = i - 1 /\ e.arg = (v \div R!Weight[i]) % 16 /\ o = e
      BY <1>4, <2>1, <2>3
    <3>2. Silent(e) /\ ce = [pc |-> cpu.pc + e.len, d |-> cpu.d, s |-> s]
      BY <3>1, OwnSteps
    <3>3. co = [pc |-> ref.pc + o.len, d |-> ref.d, s |-> t]
      BY <3>1, OwnSteps
    <3>4. s = Loaded(v, i + 1)
      BY <1>2, <1>10, <2>2, <2>3, <3>1, HeldNext
    <3>5. t = Loaded(v, i + 1)
      BY <1>2, <1>10, <2>2, <2>3, <3>1, HeldNext
    <3>. HIDE DEF ce, co, s, t
    <3>6. /\ ce.pc = cpu.pc + e.len /\ ce.s = s /\ IsCpu(ce)
          /\ co.pc = ref.pc + o.len /\ co.s = t /\ IsCpu(co)
      BY <3>2, <3>3 DEF IsCpu
    <3>7. Held(s, v, i + 1) /\ Held(t, v, i + 1) /\ i + 1 \in DOMAIN c
      BY <2>1, <2>3, <3>4, <3>5 DEF Held
    <3>. QED BY <1>7, <3>2, <3>6, <3>7
  <2>4. ASSUME i = 5 PROVE Simulates(g, cpu, ref)
    <3>1. e.op = "ldrset" /\ o.op = "ldrset"
      BY <1>4, <2>1, <2>4
    <3>2. Silent(e) /\ ce = Moved(cpu, cpu.pc + e.len)
      BY <3>1, OwnSteps
    <3>3. co = Moved(ref, ref.pc + o.len)
      BY <3>1, OwnSteps
    <3>. HIDE DEF ce, co
    <3>4. /\ ce.pc = cpu.pc + e.len /\ ce.s = cpu.s /\ IsCpu(ce)
          /\ co.pc = ref.pc + o.len /\ co.s = ref.s /\ IsCpu(co)
      BY <3>2, <3>3, MovedIs
    <3>5. Held(cpu.s, v, i + 1) /\ Held(ref.s, v, i + 1) /\ i + 1 \in DOMAIN c
      BY <1>2, <1>10, <2>1, <2>4, LoadedAtTheEnds DEF Held
    <3>. QED BY <1>7, <3>2, <3>4, <3>5
  <2>5. ASSUME i = 6 PROVE Simulates(g, cpu, ref)
    <3>1. cpu.s = v /\ ref.s = v
      BY <1>2, <1>10, <2>5, LoadedAtTheEnds DEF Held
    <3>2. e.op = "hookset"
      BY <1>4, <2>1, <2>5
    <3>. QED BY <1>8, <3>1, <3>2
  <2>6. i \in 1 .. 4 \/ i = 5 \/ i = 6
    BY <2>1
  <2>. QED BY <2>3, <2>4, <2>5, <2>6
<1>. QED BY <1>9, <1>10

(* Behind the block both memories hold the same, and stay behind it.       *)
LEMMA OutStep ==
  ASSUME NEW g, Good(g), NEW cpu, IsCpu(cpu), NEW ref, IsCpu(ref),
         cpu.pc = ref.pc, cpu.pc \in g.out
  PROVE  Simulates(g, cpu, ref)
<1>. DEFINE e == Decode(g.new, cpu.pc)
            o == Decode(g.old, ref.pc)
            pc == ref.pc
<1>1. /\ e = o
      /\ \/ o = Bad
         \/ /\ o.op \in Compiled
            /\ o.op \notin Jumping => pc + o.len \in g.out
            /\ o.op \in Jumping \cup Tests => Points(o, pc) \in g.out
  BY DEF Good, Same
<1>. HIDE DEF e, o
<1>2. CASE o = Bad
  <2>1. o.op = "bad"
    BY <1>2 DEF Bad, I
  <2>2. ~Silent(o) /\ Effect(o, cpu) = <<"crash", 0>> /\ Effect(o, ref) = <<"crash", 0>>
    BY <2>1 DEF Silent, Effect, Tests, R!Conditional
  <2>3. Effect(o, cpu)[1] \in Ends
    BY <2>2 DEF Ends
  <2>. QED BY <1>1, <2>2, <2>3 DEF Simulates, e, o
<1>3. CASE o # Bad
  <2>1. /\ o.op \in Compiled
        /\ o.op \notin Jumping => pc + o.len \in g.out
        /\ o.op \in Jumping \cup Tests => Points(o, pc) \in g.out
    BY <1>1, <1>3
  <2>2. Effect(o, cpu) = Effect(o, ref)
    BY <2>1, CompiledEffects
  <2>3. ASSUME NEW c PROVE Agrees(g, After(o, cpu, c), After(o, ref, c))
    <3>. DEFINE a == After(o, cpu, c)
                b == After(o, ref, c)
    <3>. HIDE DEF a, b
    <3>1. ASSUME NEW to \in g.out, a = Moved(cpu, to), b = Moved(ref, to)
          PROVE  Agrees(g, a, b)
      <4>1. a.pc = to /\ b.pc = to /\ IsCpu(a) /\ IsCpu(b)
        BY <3>1, MovedIs
      <4>. QED BY <4>1 DEF Agrees, Lands
    <3>2. CASE o.op \in Jumping
      <4>1. a = Moved(cpu, Points(o, pc)) /\ b = Moved(ref, Points(o, pc))
        BY <2>1, <3>2, CompiledSteps DEF a, b
      <4>. QED BY <2>1, <3>1, <3>2, <4>1 DEF a, b
    <3>3. CASE o.op \in Tests
      <4>1. o.op \notin Jumping
        BY <3>3 DEF Jumping, Tests, R!Conditional
      <4>2. CASE c # (o.x = 1)
        <5>1. a = Moved(cpu, Points(o, pc)) /\ b = Moved(ref, Points(o, pc))
          BY <2>1, <3>3, <4>2, CompiledSteps DEF a, b
        <5>. QED BY <2>1, <3>1, <3>3, <5>1 DEF a, b
      <4>3. CASE ~(c # (o.x = 1))
        <5>1. a = Moved(cpu, pc + o.len) /\ b = Moved(ref, pc + o.len)
          BY <2>1, <3>3, <4>3, CompiledSteps DEF a, b
        <5>. QED BY <2>1, <3>1, <4>1, <5>1 DEF a, b
      <4>. QED BY <4>2, <4>3
    <3>4. CASE o.op \notin Jumping \cup Tests
      <4>1. a = Moved(cpu, pc + o.len) /\ b = Moved(ref, pc + o.len)
        BY <2>1, <3>4, CompiledSteps DEF a, b
      <4>. QED BY <2>1, <3>1, <3>4, <4>1 DEF a, b
    <3>. QED BY <3>2, <3>3, <3>4
  <2>4. CASE Silent(o)
    <3>1. Agrees(g, After(o, cpu, FALSE), After(o, ref, FALSE))
      BY <2>3
    <3>. QED BY <1>1, <2>4, <3>1 DEF Simulates, e, o
  <2>5. CASE ~Silent(o)
    BY <1>1, <2>2, <2>3, <2>5 DEF Simulates, e, o
  <2>. QED BY <2>4, <2>5
<1>. QED BY <1>2, <1>3

(* The inverted condition, and the branch behind it.                       *)
LEMMA ConditionalCode ==
  ASSUME NEW i, i.op \in R!Conditional, NEW t, NEW m, NEW a \in Int,
         IsCode(R!ConditionalBranch(i, t)), Runs(m, R!ConditionalBranch(i, t), a)
  PROVE  /\ Decode(m, a) = R!A(i.op, 6 * 4, 1 - i.x)
         /\ Runs(m, R!AbsoluteBranch(t, FALSE), a + 4)
         /\ Size(R!ConditionalBranch(i, t)) = 24
<1>. DEFINE h == R!A(i.op, 6 * 4, 1 - i.x)
            u == <<h>>
            v == R!AbsoluteBranch(t, FALSE)
            c == R!ConditionalBranch(i, t)
<1>1. c = u \o v
  BY DEF R!ConditionalBranch
<1>2. h.len = 4
  BY DEF R!A, R!I
<1>. HIDE DEF h
<1>3. IsCode(u) /\ Len(u) = 1 /\ u[1] = h /\ Size(u) = 4
  BY <1>2, OneIsCode
<1>4. /\ DOMAIN v = 1 .. 5 /\ Size(v) = 20
  BY AbsoluteBack
<1>5. IsCode(v) /\ Len(v) = 5
  BY AbsoluteIsCode
<1>. HIDE DEF u, v, c
<1>7. /\ IsCode(u \o v) /\ Len(u \o v) = Len(u) + Len(v)
      /\ \A k \in 1 .. Len(u) : (u \o v)[k] = u[k]
      /\ \A k \in 1 .. Len(v) : (u \o v)[Len(u) + k] = v[k]
  <2>1. IsCode(u) /\ IsCode(v)
    BY <1>3, <1>5
  <2>. QED BY <2>1, JoinIsCode
<1>8. /\ \A k \in 1 .. Len(u) + 1 : At0(u \o v)[k] = At0(u)[k]
      /\ \A k \in 1 .. Len(v) + 1 : At0(u \o v)[Len(u) + k] = Size(u) + At0(v)[k]
      /\ Size(u \o v) = Size(u) + Size(v)
  <2>1. IsCode(u) /\ IsCode(v)
    BY <1>3, <1>5
  <2>. QED BY <2>1, JoinOffsets
<1>9. DOMAIN (u \o v) = 1 .. Len(u \o v)
  BY <1>7, CodeSize
<1>10. /\ DOMAIN c = 1 .. 6 /\ c[1] = h /\ \A k \in 1 .. 5 : c[1 + k] = v[k]
       /\ At0(c)[1] = At0(u)[1] /\ \A k \in 1 .. 6 : At0(c)[1 + k] = 4 + At0(v)[k]
       /\ Size(c) = 24
  BY <1>1, <1>3, <1>4, <1>5, <1>7, <1>8, <1>9
<1>11. At0(u)[1] = 0
  BY <1>3, CodeSize
<1>12. \A k \in 1 .. 6 : At0(v)[k] \in Int
  <2>1. At0(v) \in [1 .. Len(v) + 1 -> Nat]
    BY <1>5, CodeSize
  <2>. QED BY <1>5, <2>1
<1>13. \A k \in 1 .. 6 : Decode(m, a + At0(c)[k]) = c[k]
  BY <1>10 DEF Runs, c
<1>14. Decode(m, a) = h
  BY <1>10, <1>11, <1>13
<1>15. \A k \in 1 .. 5 : Decode(m, (a + 4) + At0(v)[k]) = v[k]
  <2>. TAKE k \in 1 .. 5
  <2>1. 1 + k \in 1 .. 6 /\ a + At0(c)[1 + k] = (a + 4) + At0(v)[k]
    BY <1>10, <1>12
  <2>. QED BY <1>10, <1>13, <2>1
<1>. QED BY <1>4, <1>10, <1>14, <1>15 DEF Runs, h, v, c

LEMMA BackIsAbsolute ==
  ASSUME ~amd64, NEW t
  PROVE  BranchTo(t) = R!AbsoluteBranch(t, FALSE)
BY DEF BranchTo, R!BranchTo

LEMMA WordIsReachable == \A t \in Word : Reachable(t)
<1>1. \A t \in Word : t \in Int
  BY SMTT(30) DEF Word, R!Addresses
<1>. QED BY <1>1 DEF Reachable

(* The beginning of a way.                                                 *)
LEMMA GoingStarts ==
  ASSUME NEW g, NEW t, Reachable(t), NEW a \in Int, Runs(g.new, BranchTo(t), a),
         NEW cpu, cpu.pc = a, NEW ref, Lands(g, t, ref.pc)
  PROVE  Going(g, cpu, ref)
<1>1. 1 \in DOMAIN BranchTo(t) /\ At0(BranchTo(t))[1] = 0
  BY ShortPieces
<1>2. cpu.pc = a + At0(BranchTo(t))[1] /\ Held(cpu.s, t, 1)
  BY <1>1 DEF Held
<1>. QED BY <1>1, <1>2 DEF Going

(* What the copy of an instruction does is what the instruction does.      *)
LEMMA CopyStep ==
  ASSUME NEW g, Good(g), NEW cpu, IsCpu(cpu), NEW ref, IsCpu(ref),
         NEW j \in g.live, cpu.pc = To(g, j), ref.pc = From(g, j)
  PROVE  Simulates(g, cpu, ref)
<1>. DEFINE e == Decode(g.new, cpu.pc)
            o == Decode(g.old, ref.pc)
            aim == Points(o, ref.pc)
<1>1. PICK piece : /\ IsCode(piece) /\ Runs(g.new, piece, To(g, j)) /\ Copies(g, j, piece)
                   /\ To(g, j + 1) = To(g, j) + Size(piece)
  BY DEF Good, Copied
<1>2. /\ o = g.code[j] /\ o.op \in Compiled
      /\ From(g, j) \in Int /\ To(g, j) \in Int
      /\ From(g, j + 1) = From(g, j) + o.len
      /\ o.op \notin Jumping => Follows(g, j + 1)
  BY CopiedFacts
<1>. HIDE DEF e, o, aim
<1>3. aim = Points(g.code[j], From(g, j))
  BY <1>2 DEF aim
<1>4. To(g, j + 1) \in Int
  <2>1. Size(piece) \in Nat
    BY <1>1, CodeSize
  <2>. QED BY <1>1, <1>2, <2>1
<1>5. ASSUME NEW a, NEW b, IsCpu(a), IsCpu(b), o.op \notin Jumping,
             a.pc = To(g, j + 1), b.pc = From(g, j + 1)
      PROVE  Agrees(g, a, b)
  BY <1>2, <1>4, <1>5, FollowsAgrees
<1>6. ASSUME NEW i, piece = <<i>>
      PROVE  e = i /\ To(g, j + 1) = cpu.pc + i.len
  <2>1. IsCode(<<i>>) /\ Runs(g.new, <<i>>, To(g, j))
    BY <1>1, <1>6
  <2>2. Decode(g.new, To(g, j)) = i /\ Size(<<i>>) = i.len
    BY <1>2, <2>1, OneInstruction
  <2>. QED BY <1>1, <1>6, <2>2 DEF e
<1>. DEFINE ce(c) == After(e, cpu, c)
            co(c) == After(o, ref, c)
<1>7. ASSUME ~Silent(e), ~Silent(o), Effect(e, cpu) = Effect(o, ref),
             \A c \in BOOLEAN : Agrees(g, ce(c), co(c))
      PROVE  Simulates(g, cpu, ref)
  BY <1>7 DEF Simulates, e, o
<1>. DEFINE ne == After(e, cpu, FALSE)
            no == After(o, ref, FALSE)
<1>8. ASSUME Silent(e), Silent(o), Agrees(g, ne, no)
      PROVE  Simulates(g, cpu, ref)
  BY <1>8 DEF Simulates, e, o
<1>9. ASSUME NEW i, piece = <<i>>, i.op \in Compiled, i.op \notin Jumping \cup Tests,
             o.op \notin Jumping \cup Tests, i.op = "nop" <=> o.op = "nop",
             Effect(i, cpu) = Effect(o, ref)
      PROVE  Simulates(g, cpu, ref)
  <2>1. e = i /\ To(g, j + 1) = cpu.pc + i.len
    BY <1>6, <1>9
  <2>2. \A c : Agrees(g, ce(c), co(c))
    <3>. TAKE c
    <3>1. ce(c) = Moved(cpu, cpu.pc + e.len)
      BY <1>9, <2>1, CompiledSteps
    <3>2. co(c) = Moved(ref, ref.pc + o.len)
      BY <1>2, <1>9, CompiledSteps
    <3>. HIDE DEF ce, co
    <3>3. IsCpu(ce(c)) /\ ce(c).pc = To(g, j + 1)
      BY <2>1, <3>1, MovedIs
    <3>4. IsCpu(co(c)) /\ co(c).pc = From(g, j + 1)
      BY <1>2, <3>2, MovedIs
    <3>. QED BY <1>5, <1>9, <3>3, <3>4
  <2>6. Agrees(g, ne, no)
    BY <2>2
  <2>. HIDE DEF ce, co, ne, no
  <2>3. Silent(e) <=> i.op = "nop"
    BY <1>9, <2>1, CompiledSteps
  <2>4. Silent(o) <=> o.op = "nop"
    BY <1>2, <1>9, CompiledSteps
  <2>5. Effect(e, cpu) = Effect(o, ref)
    BY <1>9, <2>1
  <2>. QED BY <1>7, <1>8, <1>9, <2>2, <2>3, <2>4, <2>5, <2>6
(* An instruction that is not relative to its address. *)
<1>10. CASE o.op \in {"plain", "ret", "nop", "int3"} /\ piece = <<o>>
  <2>1. Effect(o, cpu) = Effect(o, ref)
    BY <1>2, <1>10, CompiledEffects
  <2>2. o.op \notin Jumping \cup Tests
    BY <1>10 DEF Jumping, Tests, R!Conditional
  <2>. QED BY <1>2, <1>9, <1>10, <2>1, <2>2
(* An address or a call that is rewritten. *)
<1>11. CASE \E i : /\ piece = <<i>> /\ o.op \in {"lea", "call32", "adrp"} /\ i.op = o.op
                   /\ Points(i, To(g, j)) = aim
  <2>1. PICK i : /\ piece = <<i>> /\ o.op \in {"lea", "call32", "adrp"} /\ i.op = o.op
                 /\ Points(i, To(g, j)) = aim
    BY <1>11
  <2>2. i.op \in Compiled /\ i.op \notin Jumping \cup Tests /\ i.op # "nop"
    BY <1>2, <2>1 DEF Jumping, Tests, R!Conditional
  <2>3. Points(i, cpu.pc) = Points(o, ref.pc)
    BY <2>1 DEF aim
  <2>4. CASE o.op = "call32"
    <3>1. Effect(i, cpu) = <<"call", Points(i, cpu.pc)>>
      BY <2>1, <2>2, <2>4, CompiledEffects
    <3>2. Effect(o, ref) = <<"call", Points(o, ref.pc)>>
      BY <1>2, <2>4, CompiledEffects
    <3>. QED BY <1>9, <2>1, <2>2, <2>3, <3>1, <3>2
  <2>5. CASE o.op \in {"lea", "adrp"}
    <3>1. Effect(i, cpu) = <<"address", Points(i, cpu.pc)>>
      BY <2>1, <2>2, <2>5, CompiledEffects
    <3>2. Effect(o, ref) = <<"address", Points(o, ref.pc)>>
      BY <1>2, <2>5, CompiledEffects
    <3>. QED BY <1>9, <2>1, <2>2, <2>3, <3>1, <3>2
  <2>. QED BY <2>1, <2>4, <2>5
(* A jump of amd64. *)
<1>12. CASE \E i : /\ piece = <<i>> /\ o.op \in {"jmp8", "jmp32"} /\ i.op = "jmp32"
                   /\ Lands(g, Points(i, To(g, j)), aim)
  <2>1. PICK i : /\ piece = <<i>> /\ o.op \in {"jmp8", "jmp32"} /\ i.op = "jmp32"
                 /\ Lands(g, Points(i, To(g, j)), aim)
    BY <1>12
  <2>2. e = i
    BY <1>6, <2>1
  <2>3. e.op \in Jumping /\ o.op \in Jumping /\ e.op \in Compiled
    BY <2>1, <2>2 DEF Jumping, Compiled
  <2>4. Silent(e) /\ ne = Moved(cpu, Points(e, cpu.pc))
    BY <2>3, CompiledSteps, ZenonT(30)
  <2>5. Silent(o) /\ no = Moved(ref, aim)
    BY <1>2, <2>3, CompiledSteps, ZenonT(30) DEF aim
  <2>. HIDE DEF ce, co, ne, no
  <2>6. /\ IsCpu(ne) /\ ne.pc = Points(i, To(g, j))
        /\ IsCpu(no) /\ no.pc = aim
    BY <2>2, <2>4, <2>5, MovedIs
  <2>7. Agrees(g, ne, no)
    BY <2>1, <2>6 DEF Agrees
  <2>. QED BY <1>8, <2>4, <2>5, <2>7
(* A condition of amd64. *)
<1>13. CASE \E i : /\ piece = <<i>> /\ o.op \in {"jcc8", "jcc32"} /\ i.op = "jcc32" /\ i.x = o.x
                   /\ Lands(g, Points(i, To(g, j)), aim)
  <2>1. PICK i : /\ piece = <<i>> /\ o.op \in {"jcc8", "jcc32"} /\ i.op = "jcc32" /\ i.x = o.x
                 /\ Lands(g, Points(i, To(g, j)), aim)
    BY <1>13
  <2>2. e = i /\ To(g, j + 1) = cpu.pc + e.len
    BY <1>6, <2>1
  <2>3. e.op \in Tests /\ o.op \in Tests /\ e.op \in Compiled /\ o.op \notin Jumping /\ e.op \notin Jumping
    BY <2>1, <2>2 DEF Jumping, Compiled, Tests
  <2>4. ~Silent(e) /\ ~Silent(o)
    <3>1. e.op # "nop" /\ o.op # "nop"
      BY <2>1, <2>2
    <3>. QED BY <1>2, <2>3, <3>1, CompiledSteps
  <2>5. Effect(e, cpu) = Effect(o, ref)
    <3>1. Effect(e, cpu) = <<"test", 0>>
      BY <2>3, CompiledEffects
    <3>2. Effect(o, ref) = <<"test", 0>>
      BY <1>2, <2>3, CompiledEffects
    <3>. QED BY <3>1, <3>2
  <2>6. \A c \in BOOLEAN : Agrees(g, ce(c), co(c))
    <3>. TAKE c \in BOOLEAN
    <3>1. CASE c # (o.x = 1)
      <4>1. ce(c) = Moved(cpu, Points(e, cpu.pc))
        BY <2>1, <2>2, <2>3, <3>1, CompiledSteps
      <4>2. co(c) = Moved(ref, aim)
        BY <1>2, <2>3, <3>1, CompiledSteps DEF aim
      <4>. HIDE DEF ce, co
      <4>3. /\ IsCpu(ce(c)) /\ ce(c).pc = Points(i, To(g, j))
            /\ IsCpu(co(c)) /\ co(c).pc = aim
        BY <2>2, <4>1, <4>2, MovedIs
      <4>. QED BY <2>1, <4>3 DEF Agrees
    <3>2. CASE ~(c # (o.x = 1))
      <4>1. ce(c) = Moved(cpu, cpu.pc + e.len)
        BY <2>1, <2>2, <2>3, <3>2, CompiledSteps
      <4>2. co(c) = Moved(ref, ref.pc + o.len)
        BY <1>2, <2>3, <3>2, CompiledSteps
      <4>. HIDE DEF ce, co
      <4>3. /\ IsCpu(ce(c)) /\ ce(c).pc = To(g, j + 1)
            /\ IsCpu(co(c)) /\ co(c).pc = From(g, j + 1)
        BY <1>2, <2>2, <4>1, <4>2, MovedIs
      <4>. QED BY <1>5, <2>3, <4>3
    <3>. QED BY <3>1, <3>2
  <2>. HIDE DEF ce, co, ne, no
  <2>. QED BY <1>7, <2>4, <2>5, <2>6
(* A branch of arm64 is a way to its target. *)
<1>14. CASE /\ ~amd64 /\ o.op = "b"
            /\ \E t \in Word : Lands(g, t, aim) /\ piece = JumpTo(t)
  <2>1. PICK t \in Word : Lands(g, t, aim) /\ piece = JumpTo(t)
    BY <1>14
  <2>2. piece = BranchTo(t) /\ Reachable(t)
    BY <1>14, <2>1, BackIsAbsolute, WordIsReachable DEF JumpTo
  <2>3. Silent(o) /\ no = Moved(ref, aim)
    <3>1. o.op \in Jumping
      BY <1>14 DEF Jumping
    <3>. QED BY <1>2, <3>1, CompiledSteps, ZenonT(30) DEF aim
  <2>. HIDE DEF ce, co, ne, no
  <2>4. IsCpu(no) /\ no.pc = aim
    BY <2>3, MovedIs
  <2>5. Going(g, cpu, no)
    BY <1>1, <1>2, <2>1, <2>2, <2>4, GoingStarts
  <2>6. Silent(e) /\ Agrees(g, ne, no)
    BY <2>4, <2>5, GoingStep DEF ne, e
  <2>. QED BY <1>8, <2>3, <2>6
(* A call and an address of it. *)
<1>15. CASE ~amd64 /\ o.op = "bl" /\ aim \in Word /\ piece = LinkTo(aim)
  <2>1. cpu.pc = To(g, j) + At0(LinkTo(aim))[1]
    <3>. DEFINE c == LinkTo(aim)
    <3>1. \A k \in 1 .. 6 : At0(c)[k] = 4 * (k - 1)
      BY AbsoluteLink DEF LinkTo
    <3>. HIDE DEF c
    <3>2. cpu.pc = To(g, j) + At0(c)[1]
      BY <1>2, <3>1
    <3>. QED BY <3>2 DEF c
  <2>2. Held(cpu.s, aim, 1) /\ 1 \in 1 .. 5
    BY DEF Held
  <2>3. Calling(g, cpu, ref)
    BY <1>1, <1>2, <1>3, <1>15, <2>1, <2>2 DEF Calling
  <2>. QED BY <2>3, CallingStep
<1>16. CASE ~amd64 /\ o.op \in {"adr", "adrp"} /\ aim \in Word /\ piece = R!MoveAddress("movd", aim)
  <2>1. cpu.pc = To(g, j) + At0(R!MoveAddress("movd", aim))[1]
    BY <1>2, MoveCode
  <2>2. Held(cpu.d, aim, 1) /\ 1 \in 1 .. 4
    BY DEF Held
  <2>3. Loading(g, cpu, ref)
    BY <1>1, <1>2, <1>3, <1>16, <2>1, <2>2 DEF Loading
  <2>. QED BY <2>3, LoadingStep
(* A condition of it is inverted, and steps over the branch. *)
<1>17. CASE /\ ~amd64 /\ o.op \in R!Conditional /\ o.x \in {0, 1}
            /\ \E t \in Word : Lands(g, t, aim) /\ piece = R!ConditionalBranch(o, t)
  <2>1. PICK t \in Word : Lands(g, t, aim) /\ piece = R!ConditionalBranch(o, t)
    BY <1>17
  <2>2. /\ e = R!A(o.op, 6 * 4, 1 - o.x) /\ Size(piece) = 24
        /\ Runs(g.new, R!AbsoluteBranch(t, FALSE), To(g, j) + 4)
    BY <1>1, <1>2, <1>17, <2>1, ConditionalCode, ZenonT(30) DEF e
  <2>3. Runs(g.new, BranchTo(t), To(g, j) + 4) /\ Reachable(t)
    BY <1>17, <2>2, BackIsAbsolute, WordIsReachable
  <2>4. e.op = o.op /\ e.len = 4 /\ e.arg = 24 /\ e.x = 1 - o.x
    BY <2>2 DEF R!A, R!I
  <2>5. o.op \in Tests /\ o.op \notin Jumping /\ o.op # "nop"
    BY <1>17 DEF Tests, R!Conditional, Jumping
  <2>6. ~Silent(e) /\ ~Silent(o)
    BY <1>2, <2>4, <2>5, CompiledSteps
  <2>7. Effect(e, cpu) = Effect(o, ref)
    <3>1. Effect(e, cpu) = <<"test", 0>>
      BY <1>2, <2>4, <2>5, CompiledEffects
    <3>2. Effect(o, ref) = <<"test", 0>>
      BY <1>2, <2>5, CompiledEffects
    <3>. QED BY <3>1, <3>2
  <2>8. Points(e, cpu.pc) = To(g, j + 1)
    <3>1. o.op # "adrp"
      BY <1>17 DEF R!Conditional
    <3>2. Points(e, cpu.pc) = cpu.pc + 24
      BY <1>17, <2>4, <3>1 DEF Points, R!Target
    <3>. QED BY <1>1, <2>2, <3>2
  <2>9. \A c \in BOOLEAN : Agrees(g, ce(c), co(c))
    <3>. TAKE c \in BOOLEAN
    <3>1. CASE c # (o.x = 1)
      <4>1. ce(c) = Moved(cpu, cpu.pc + e.len)
        <5>1. ~(c # (e.x = 1))
          BY <1>17, <2>4, <3>1
        <5>. QED BY <1>2, <2>4, <2>5, <5>1, CompiledSteps
      <4>2. co(c) = Moved(ref, aim)
        BY <1>2, <2>5, <3>1, CompiledSteps DEF aim
      <4>. HIDE DEF ce, co
      <4>3. /\ IsCpu(ce(c)) /\ ce(c).pc = To(g, j) + 4
            /\ IsCpu(co(c)) /\ co(c).pc = aim
        BY <2>4, <4>1, <4>2, MovedIs
      <4>4. Going(g, ce(c), co(c))
        BY <1>2, <2>1, <2>3, <4>3, GoingStarts
      <4>. QED BY <4>3, <4>4 DEF Agrees
    <3>2. CASE ~(c # (o.x = 1))
      <4>1. ce(c) = Moved(cpu, Points(e, cpu.pc))
        <5>1. c # (e.x = 1)
          BY <1>17, <2>4, <3>2
        <5>. QED BY <1>2, <2>4, <2>5, <5>1, CompiledSteps
      <4>2. co(c) = Moved(ref, ref.pc + o.len)
        BY <1>2, <2>5, <3>2, CompiledSteps
      <4>. HIDE DEF ce, co
      <4>3. /\ IsCpu(ce(c)) /\ ce(c).pc = To(g, j + 1)
            /\ IsCpu(co(c)) /\ co(c).pc = From(g, j + 1)
        BY <1>2, <2>8, <4>1, <4>2, MovedIs
      <4>. QED BY <1>5, <2>5, <4>3
    <3>. QED BY <3>1, <3>2
  <2>. HIDE DEF ce, co, ne, no
  <2>. QED BY <1>7, <2>6, <2>7, <2>9
<1>. HIDE DEF ce, co, ne, no
<1>18. \/ o.op \in {"plain", "ret", "nop", "int3"} /\ piece = <<o>>
       \/ \E i : /\ piece = <<i>> /\ o.op \in {"jmp8", "jmp32"} /\ i.op = "jmp32"
                 /\ Lands(g, Points(i, To(g, j)), aim)
       \/ \E i : /\ piece = <<i>> /\ o.op \in {"jcc8", "jcc32"} /\ i.op = "jcc32" /\ i.x = o.x
                 /\ Lands(g, Points(i, To(g, j)), aim)
       \/ \E i : /\ piece = <<i>> /\ o.op \in {"lea", "call32", "adrp"} /\ i.op = o.op
                 /\ Points(i, To(g, j)) = aim
       \/ /\ ~amd64 /\ o.op = "b"
          /\ \E t \in Word : Lands(g, t, aim) /\ piece = JumpTo(t)
       \/ ~amd64 /\ o.op = "bl" /\ aim \in Word /\ piece = LinkTo(aim)
       \/ /\ ~amd64 /\ o.op \in R!Conditional /\ o.x \in {0, 1}
          /\ \E t \in Word : Lands(g, t, aim) /\ piece = R!ConditionalBranch(o, t)
       \/ ~amd64 /\ o.op \in {"adr", "adrp"} /\ aim \in Word /\ piece = R!MoveAddress("movd", aim)
  <2>1. Copies(g, j, piece)
    BY <1>1
  <2>. QED BY <1>2, <1>3, <2>1 DEF Copies
<1>. QED BY <1>10, <1>11, <1>12, <1>13, <1>14, <1>15, <1>16, <1>17, <1>18

(* The simulation: from where they agree the copy does what the block does *)
(* and they agree again.                                                   *)
LEMMA CopySimulates ==
  ASSUME NEW g, Good(g), NEW cpu, NEW ref, Agrees(g, cpu, ref)
  PROVE  Simulates(g, cpu, ref)
<1>1. IsCpu(cpu) /\ IsCpu(ref)
  BY DEF Agrees
<1>2. CASE \E j \in g.live : cpu.pc = To(g, j) /\ ref.pc = From(g, j)
  BY <1>1, <1>2, CopyStep
<1>3. CASE cpu.pc = ref.pc /\ cpu.pc \in g.out
  BY <1>1, <1>3, OutStep
<1>4. CASE \E v : /\ Runs(g.new, BranchInto(v), cpu.pc) /\ Runs(g.old, BranchInto(v), ref.pc)
                  /\ cpu.pc \in Int /\ ref.pc \in Int /\ (amd64 \/ v \in Word)
  <2>1. PICK v : /\ Runs(g.new, BranchInto(v), cpu.pc) /\ Runs(g.old, BranchInto(v), ref.pc)
                 /\ cpu.pc \in Int /\ ref.pc \in Int /\ (amd64 \/ v \in Word)
    BY <1>4
  <2>2. 1 \in DOMAIN BranchInto(v) /\ At0(BranchInto(v))[1] = 0
    BY HookCode
  <2>3. /\ cpu.pc = cpu.pc + At0(BranchInto(v))[1] /\ ref.pc = ref.pc + At0(BranchInto(v))[1]
        /\ Held(cpu.s, v, 1) /\ Held(ref.s, v, 1)
    BY <2>1, <2>2 DEF Held
  <2>4. Hooking(g, cpu, ref)
    BY <2>1, <2>2, <2>3 DEF Hooking
  <2>. QED BY <1>1, <2>4, HookingStep
<1>5. CASE Going(g, cpu, ref)
  BY <1>1, <1>5, GoingStep DEF Simulates
<1>6. CASE Calling(g, cpu, ref)
  BY <1>1, <1>6, CallingStep
<1>7. CASE Loading(g, cpu, ref)
  BY <1>1, <1>7, LoadingStep
<1>8. CASE Hooking(g, cpu, ref)
  BY <1>1, <1>8, HookingStep
<1>. QED BY <1>2, <1>3, <1>4, <1>5, <1>6, <1>7, <1>8 DEF Agrees, Lands

(* Where both are depends on the code and on the architecture only.        *)
LEMMA AgreesStays ==
  ASSUME target' = target
  PROVE  /\ \A g : Good(g)' <=> Good(g)
         /\ \A g, cpu, ref : Agrees(g, cpu, ref)' <=> Agrees(g, cpu, ref)
<1>1. amd64' = amd64
  BY DEF amd64
<1>2. \A to : BranchInto(to)' = BranchInto(to)
  BY <1>1 DEF BranchInto
<1>3. \A to : BranchTo(to)' = BranchTo(to)
  BY <1>1 DEF BranchTo
<1>4. \A v, i : Loaded(v, i)' = Loaded(v, i)
  BY <1>1 DEF Loaded
<1>5. \A i, pc : Points(i, pc)' = Points(i, pc)
  BY <1>1 DEF Points
<1>6. \A v : Reachable(v)' <=> Reachable(v)
  BY <1>1 DEF Reachable
<1>7. \A g, j : From(g, j)' = From(g, j) /\ To(g, j)' = To(g, j)
  BY DEF From, To
<1>8. \A g : Behind(g)' = Behind(g)
  BY DEF Behind
<1>9. \A m, code, a : Runs(m, code, a)' <=> Runs(m, code, a)
  BY DEF Runs
<1>10. \A g, t, u : Lands(g, t, u)' <=> Lands(g, t, u)
  BY <1>1, <1>2, <1>7, <1>9 DEF Lands
<1>11. \A s, v, i : Held(s, v, i)' <=> Held(s, v, i)
  BY <1>4 DEF Held
<1>12. \A g, j, piece : Copies(g, j, piece)' <=> Copies(g, j, piece)
  BY <1>1, <1>5, <1>7, <1>10 DEF Copies
<1>13. \A g, n : Follows(g, n)' <=> Follows(g, n)
  BY <1>3, <1>6, <1>7, <1>8, <1>9 DEF Follows
<1>14. \A g, j : Copied(g, j)' <=> Copied(g, j)
  BY <1>7, <1>9, <1>12, <1>13 DEF Copied
<1>15. \A g, pc : Same(g, pc)' <=> Same(g, pc)
  BY <1>5 DEF Same
<1>16. \A g : Good(g)' <=> Good(g)
  BY <1>14, <1>15 DEF Good
<1>17. \A g, cpu, ref : Going(g, cpu, ref)' <=> Going(g, cpu, ref)
  BY <1>3, <1>6, <1>9, <1>10, <1>11 DEF Going
<1>18. \A g, cpu, ref : Calling(g, cpu, ref)' <=> Calling(g, cpu, ref)
  BY <1>1, <1>5, <1>7, <1>9, <1>11 DEF Calling
<1>19. \A g, cpu, ref : Loading(g, cpu, ref)' <=> Loading(g, cpu, ref)
  BY <1>1, <1>5, <1>7, <1>9, <1>11 DEF Loading
<1>20. \A g, cpu, ref : Hooking(g, cpu, ref)' <=> Hooking(g, cpu, ref)
  BY <1>1, <1>2, <1>9, <1>11 DEF Hooking
<1>21. \A g, cpu, ref : Agrees(g, cpu, ref)' <=> Agrees(g, cpu, ref)
  BY <1>10, <1>17, <1>18, <1>19, <1>20 DEF Agrees, IsCpu
<1>. QED BY <1>16, <1>21

-----------------------------------------------------------------------------
(* The proxy beside the function.                                          *)

(* Silent steps: none, one more, and one less.                             *)
LEMMA ReachesItself == \A w, a : Reaches(w, a, a)
BY DEF Reaches

LEMMA ReachesOn ==
  ASSUME NEW w, NEW a, NEW b, Reaches(w, a, b), Silent(Decode(w, b.pc))
  PROVE  Reaches(w, a, Next2(w, b))
BY DEF Reaches, Closed

LEMMA ReachesLater ==
  ASSUME NEW w, NEW a, NEW b, Reaches(w, a, b),
         Silent(Decode(w, a.pc)), ~Silent(Decode(w, b.pc))
  PROVE  Reaches(w, Next2(w, a), b)
<1>. SUFFICES ASSUME NEW S, Next2(w, a) \in S, Closed(w, S) PROVE b \in S
  BY DEF Reaches
<1>. DEFINE T == S \cup {a}
<1>1. Closed(w, T)
  BY DEF Closed
<1>2. b \in T
  BY <1>1 DEF Reaches
<1>3. b # a
  OBVIOUS
<1>. QED BY <1>2, <1>3

LEMMA ReachesNothing ==
  ASSUME NEW w, NEW a, NEW b, Reaches(w, a, b), ~Silent(Decode(w, a.pc))
  PROVE  a = b
<1>. DEFINE S == {a}
<1>1. a \in S /\ Closed(w, S)
  BY DEF Closed
<1>2. b \in S
  BY <1>1 DEF Reaches
<1>. QED BY <1>2

-----------------------------------------------------------------------------
(* What the invariant says of the processors.                              *)
LEMMA BesideShows ==
  ASSUME Beside
  PROVE  ProxyRunsTheTarget
<1>. SUFFICES ASSUME Agree PROVE Effect(Here, run.cpu) = Effect(There, run.ref)
  BY DEF ProxyRunsTheTarget
<1>1. run.kind = "proxy" /\ ~Silent(Here) /\ ~Silent(There)
  BY DEF Agree
<1>2. PICK g : InStep(g)
  BY <1>1 DEF Beside
<1>3. Here = Decode(g.new, run.cpu.pc) /\ There = Decode(g.old, run.ref.pc)
  BY <1>2 DEF InStep, Here, There, At
<1>4. Good(g) /\ Agrees(g, run.cpu, run.ref)
  BY <1>1, <1>2, <1>3, ReachesNothing DEF InStep, Behaves
<1>5. Simulates(g, run.cpu, run.ref)
  BY <1>4, CopySimulates
<1>. QED BY <1>1, <1>3, <1>5 DEF Simulates

LEMMA BesideStays ==
  ASSUME target' = target, mem' = mem, patches' = patches, NEW k, run'.of = k,
         NEW g, g.new = mem, g.old = Before(k), Good(g), NEW c, run'.cpu = c, NEW r, run'.ref = r,
         NEW ref, Reaches(g.old, r, ref), Agrees(g, c, ref)
  PROVE  Beside'
<1>1. Agrees(g, c, ref)'
  BY AgreesStays
<1>2. Good(g)'
  BY AgreesStays
<1>3. Before(k)' = Before(k)
  BY DEF Before, Restored
<1>4. amd64' = amd64
  BY DEF amd64
<1>5. \A i, u, b : After(i, u, b)' = After(i, u, b)
  BY <1>4 DEF After, Points
<1>6. \A w, a, b : Reaches(w, a, b)' <=> Reaches(w, a, b)
  BY <1>5 DEF Reaches, Closed, Next2, Silent
<1>7. Behaves(g, c, r)'
  BY <1>1, <1>6 DEF Behaves
<1>8. InStep(g)'
  BY <1>2, <1>3, <1>7 DEF InStep
<1>. QED BY <1>8 DEF Beside

(* A step of the proxy, of the function, or of both.                       *)
LEMMA StepBeside ==
  ASSUME Inv, Beside, Step \/ StepReference \/ StepBoth, run.kind = "proxy"
  PROVE  Beside'
<1>0. DOMAIN run = {"kind", "of", "cpu", "ref"}
  BY DEF Inv, Shape
<1>1. PICK g : InStep(g)
  BY DEF Beside
<1>2. PICK ref : Reaches(g.old, run.ref, ref) /\ Agrees(g, run.cpu, ref)
  BY <1>1 DEF InStep, Behaves
<1>3. g.new = mem /\ g.old = Before(run.of) /\ Good(g)
  BY <1>1 DEF InStep
<1>. DEFINE e == Decode(g.new, run.cpu.pc)
            o == Decode(g.old, ref.pc)
<1>4. Here = e /\ There = Decode(g.old, run.ref.pc)
  BY <1>3 DEF Here, There, At
<1>5. Simulates(g, run.cpu, ref)
  BY <1>2, <1>3, CopySimulates
<1>6. target' = target /\ mem' = mem /\ patches' = patches
  BY DEF Step, StepReference, StepBoth
<1>7. CASE Step
  <2>1. Silent(e)
    BY <1>4, <1>7 DEF Step
  <2>2. run' = [run EXCEPT !.cpu = After(Here, @, FALSE)]
    BY <1>7 DEF Step
  <2>3. run'.of = run.of /\ run'.ref = run.ref /\ run'.cpu = After(e, run.cpu, FALSE)
    BY <1>0, <1>4, <2>2
  <2>4. CASE Agrees(g, After(e, run.cpu, FALSE), ref)
    BY <1>2, <1>3, <1>6, <2>3, <2>4, BesideStays
  <2>5. CASE Silent(o) /\ Agrees(g, After(e, run.cpu, FALSE), After(o, ref, FALSE))
    <3>1. Reaches(g.old, run.ref, Next2(g.old, ref))
      BY <1>2, <2>5, ReachesOn
    <3>2. Next2(g.old, ref) = After(o, ref, FALSE)
      BY DEF Next2
    <3>. QED BY <1>3, <1>6, <2>3, <2>5, <3>1, <3>2, BesideStays
  <2>. QED BY <1>5, <2>1, <2>4, <2>5 DEF Simulates
<1>8. CASE StepReference
  <2>1. ~Silent(e) /\ Silent(There)
    BY <1>4, <1>8 DEF StepReference
  <2>2. run' = [run EXCEPT !.ref = After(There, @, FALSE)]
    BY <1>8 DEF StepReference
  <2>3. run'.of = run.of /\ run'.cpu = run.cpu /\ run'.ref = After(There, run.ref, FALSE)
    BY <1>0, <2>2
  <2>4. ~Silent(o)
    BY <1>5, <2>1 DEF Simulates
  <2>5. Reaches(g.old, Next2(g.old, run.ref), ref)
    BY <1>2, <1>4, <2>1, <2>4, ReachesLater
  <2>6. Next2(g.old, run.ref) = run'.ref
    BY <1>4, <2>3 DEF Next2
  <2>. QED BY <1>2, <1>3, <1>6, <2>3, <2>5, <2>6, BesideStays
<1>9. CASE StepBoth
  <2>1. ~Silent(e) /\ ~Silent(There) /\ Effect(e, run.cpu)[1] \notin Ends
    BY <1>4, <1>9 DEF StepBoth, Agree
  <2>2. PICK c \in BOOLEAN :
          run' = [run EXCEPT !.cpu = After(Here, @, c), !.ref = After(There, @, c)]
    BY <1>9 DEF StepBoth
  <2>3. /\ run'.of = run.of /\ run'.cpu = After(Here, run.cpu, c)
        /\ run'.ref = After(There, run.ref, c)
    BY <1>0, <2>2
  <2>4. ref = run.ref
    BY <1>2, <1>4, <2>1, ReachesNothing
  <2>5. Agrees(g, After(e, run.cpu, c), After(o, ref, c))
    BY <1>5, <2>1 DEF Simulates
  <2>6. Agrees(g, run'.cpu, run'.ref)
    BY <1>4, <2>3, <2>4, <2>5
  <2>7. Reaches(g.old, run'.ref, run'.ref)
    BY ReachesItself
  <2>. QED BY <1>3, <1>6, <2>3, <2>6, <2>7, BesideStays
<1>. QED BY <1>7, <1>8, <1>9

-----------------------------------------------------------------------------
(* The code before a patch is its layer of the entry.                      *)
LEMMA BeforeIs ==
  ASSUME Shape, NEW h, Layers(h, mem, patches), NEW k \in 1 .. Len(patches) + 1
  PROVE  /\ DOMAIN Before(k) = DOMAIN mem
         /\ \A b \in DOMAIN mem : Before(k)[b] = IF b \in Zone THEN h[k][b] ELSE mem[b]
<1>. DEFINE N == Len(patches)
            layer(j) == [b \in DOMAIN mem |-> IF b \in Zone THEN h[j][b] ELSE mem[b]]
            IsDown(f) == f = [j \in 1 .. Len(patches) + 1 |->
                               IF j > Len(patches) THEN mem ELSE Restored(f[j + 1], patches[j])]
            down == CHOOSE f : IsDown(f)
            w == [j \in 1 .. N + 1 |-> IF j > N THEN mem ELSE layer(j)]
            S == {n \in 1 .. N + 1 : \A j \in 1 .. N + 1 : j > N + 1 - n => down[j] = w[j]}
<1>1. Before(k) = down[k]
  BY DEF Before
<1>2. N \in Nat /\ IsSequence(patches) /\ Zone \subseteq DOMAIN mem
  BY DEF Shape, IsSequence
<1>3. \A b \in Zone : h[N + 1][b] = mem[b]
  BY DEF Layers
<1>4. ASSUME NEW j \in 1 .. N
      PROVE  Restored(layer(j + 1), patches[j]) = layer(j)
  <2>. DEFINE p == patches[j]
  <2>1. PatchOK(p)
    BY DEF Shape
  <2>2. \A b \in Zone : h[j][b] = IF b < Entry + p.cut THEN p.saved[b] ELSE h[j + 1][b]
    BY DEF Layers
  <2>3. target \in Functions /\ Entry \in Nat /\ Size(target.code) \in Nat
    BY TargetIsCode DEF Shape
  <2>4. /\ DOMAIN p.saved = Entry .. Entry + p.cut - 1 /\ p.cut \in Nat
        /\ p.cut <= Size(target.code)
    BY <2>1 DEF PatchOK
  <2>. HIDE DEF p
  <2>. DEFINE Z == Size(target.code)
  <2>5. Zone = Entry .. Entry + Z - 1
    BY DEF Zone
  <2>. HIDE DEF Z
  <2>6. \A b \in DOMAIN mem : b \in DOMAIN p.saved <=> b \in Zone /\ b < Entry + p.cut
    <3>1. Z \in Nat /\ p.cut <= Z
      BY <2>3, <2>4 DEF Z
    <3>. QED BY <2>3, <2>4, <2>5, <3>1
  <2>7. \A b \in DOMAIN mem : (IF b \in DOMAIN p.saved THEN p.saved[b] ELSE layer(j + 1)[b])
                              = (IF b \in Zone THEN h[j][b] ELSE mem[b])
    BY <2>2, <2>6
  <2>8. DOMAIN layer(j + 1) = DOMAIN mem
    OBVIOUS
  <2>. HIDE DEF layer
  <2>9. Restored(layer(j + 1), p) = [b \in DOMAIN mem |-> IF b \in Zone THEN h[j][b] ELSE mem[b]]
    BY <2>7, <2>8 DEF Restored
  <2>. QED BY <2>9 DEF p, layer
<1>5. \A b \in DOMAIN mem : mem[b] = IF b \in Zone THEN h[N + 1][b] ELSE mem[b]
  BY <1>3
<1>. HIDE DEF IsDown, down, w, layer, S
<1>6. \A j \in 1 .. N : w[j] = Restored(w[j + 1], patches[j])
  <2>. SUFFICES ASSUME NEW j \in 1 .. N PROVE w[j] = Restored(w[j + 1], patches[j])
    OBVIOUS
  <2>1. w[j] = layer(j) /\ j + 1 \in 1 .. N + 1
    BY <1>2 DEF w
  <2>2. CASE j = N
    <3>1. w[j + 1] = mem
      BY <1>2, <2>1, <2>2 DEF w
    <3>2. Restored(mem, patches[j]) = Restored(layer(j + 1), patches[j])
      <4>1. DOMAIN layer(j + 1) = DOMAIN mem
        BY DEF layer
      <4>2. \A b \in DOMAIN mem : layer(j + 1)[b] = mem[b]
        BY <1>5, <2>2 DEF layer
      <4>. QED BY <4>1, <4>2 DEF Restored
    <3>. QED BY <1>4, <2>1, <3>1, <3>2
  <2>3. CASE j # N
    <3>1. w[j + 1] = layer(j + 1)
      BY <1>2, <2>1, <2>3 DEF w
    <3>. QED BY <1>4, <2>1, <3>1
  <2>. QED BY <2>2, <2>3
<1>7. IsDown(w)
  <2>1. w[N + 1] = mem
    BY <1>2 DEF w
  <2>2. \A j \in 1 .. N + 1 : w[j] = IF j > N THEN mem ELSE Restored(w[j + 1], patches[j])
    <3>. SUFFICES ASSUME NEW j \in 1 .. N + 1
                  PROVE  w[j] = IF j > N THEN mem ELSE Restored(w[j + 1], patches[j])
      OBVIOUS
    <3>1. CASE j > N
      <4>1. j = N + 1
        BY <1>2, <3>1
      <4>. QED BY <2>1, <3>1, <4>1
    <3>2. CASE ~(j > N)
      <4>1. j \in 1 .. N
        BY <1>2, <3>2
      <4>. QED BY <1>6, <3>2, <4>1
    <3>. QED BY <3>1, <3>2
  <2>3. w = [j \in 1 .. N + 1 |-> w[j]]
    BY DEF w
  <2>. QED BY <2>2, <2>3 DEF IsDown
<1>8. IsDown(down)
  BY <1>7, Zenon DEF down
<1>9. \A j \in 1 .. N + 1 : down[j] = IF j > N THEN mem ELSE Restored(down[j + 1], patches[j])
  BY <1>8 DEF IsDown
<1>10. 1 \in S
  <2>. SUFFICES ASSUME NEW j \in 1 .. N + 1, j > N + 1 - 1 PROVE down[j] = w[j]
    BY <1>2 DEF S
  <2>1. j > N
    BY <1>2
  <2>. QED BY <1>9, <2>1 DEF w
<1>11. ASSUME NEW n \in 1 .. N + 1, n \in S, n + 1 \in 1 .. N + 1
       PROVE  n + 1 \in S
  <2>. SUFFICES ASSUME NEW j \in 1 .. N + 1, j > N + 1 - (n + 1) PROVE down[j] = w[j]
    BY <1>11 DEF S
  <2>1. CASE j > N
    BY <1>9, <2>1 DEF w
  <2>2. CASE ~(j > N)
    <3>1. j \in 1 .. N /\ j + 1 \in 1 .. N + 1 /\ j + 1 > N + 1 - n
      BY <1>2, <2>2
    <3>2. down[j + 1] = w[j + 1]
      BY <1>11, <3>1 DEF S
    <3>. QED BY <1>6, <1>9, <2>2, <3>1, <3>2
  <2>. QED BY <2>1, <2>2
<1>12. 1 .. N + 1 \subseteq S
  <2>1. N + 1 \in Nat
    BY <1>2
  <2>. HIDE DEF N
  <2>. QED BY <1>10, <1>11, <2>1, InductionUpTo
<1>13. down[k] = w[k]
  <2>1. N + 1 \in 1 .. N + 1 /\ k > N + 1 - (N + 1) /\ k \in 1 .. N + 1
    BY <1>2
  <2>. QED BY <1>12, <2>1 DEF S
<1>14. CASE k > N
  <2>1. Before(k) = mem /\ k = N + 1
    BY <1>1, <1>2, <1>13, <1>14 DEF w
  <2>. QED BY <1>5, <2>1
<1>15. CASE ~(k > N)
  <2>1. Before(k) = layer(k)
    BY <1>1, <1>13, <1>15 DEF w
  <2>. QED BY <2>1 DEF layer
<1>. QED BY <1>14, <1>15

(* Behind the cuts the layers are the memory.                              *)
LEMMA LayersBehind ==
  ASSUME Shape, NEW h, Layers(h, mem, patches), NEW k \in 1 .. Len(patches) + 1, NEW c \in Nat,
         \A j \in k .. Len(patches) : patches[j].cut <= c
  PROVE  \A b \in Zone : b >= Entry + c => h[k][b] = mem[b]
<1>. DEFINE N == Len(patches)
            S == {n \in 1 .. N + 1 : \A j \in k .. N + 1 : j > N + 1 - n =>
                    \A b \in Zone : b >= Entry + c => h[j][b] = mem[b]}
<1>1. N \in Nat
  BY DEF Shape, IsSequence
<1>2. \A b \in Zone : h[N + 1][b] = mem[b]
  BY DEF Layers
<1>3. Entry \in Nat /\ \A b \in Zone : b \in Int
  BY TargetIsCode DEF Shape, Zone
<1>4. 1 \in S
  <2>. SUFFICES ASSUME NEW j \in k .. N + 1, j > N + 1 - 1
                PROVE  \A b \in Zone : b >= Entry + c => h[j][b] = mem[b]
    BY <1>1
  <2>1. j = N + 1
    BY <1>1
  <2>. QED BY <1>2, <2>1
<1>5. ASSUME NEW n \in 1 .. N + 1, n \in S, n + 1 \in 1 .. N + 1
      PROVE  n + 1 \in S
  <2>. SUFFICES ASSUME NEW j \in k .. N + 1, j > N + 1 - (n + 1), NEW b \in Zone, b >= Entry + c
                PROVE  h[j][b] = mem[b]
    BY <1>5
  <2>1. CASE j > N + 1 - n
    BY <1>5, <2>1
  <2>2. CASE ~(j > N + 1 - n)
    <3>1. j \in 1 .. N /\ j \in k .. N /\ j + 1 \in k .. N + 1 /\ j + 1 > N + 1 - n
      BY <1>1, <2>2
    <3>2. h[j + 1][b] = mem[b]
      BY <1>5, <3>1
    <3>3. h[j][b] = IF b < Entry + patches[j].cut THEN patches[j].saved[b] ELSE h[j + 1][b]
      BY <3>1 DEF Layers
    <3>4. patches[j].cut <= c /\ patches[j].cut \in Nat
      BY <3>1 DEF Shape, PatchOK
    <3>5. ~(b < Entry + patches[j].cut)
      BY <1>3, <3>4
    <3>. QED BY <3>2, <3>3, <3>5
  <2>. QED BY <2>1, <2>2
<1>6. 1 .. N + 1 \subseteq S
  <2>1. N + 1 \in Nat
    BY <1>1
  <2>. HIDE DEF N, S
  <2>. QED BY <1>4, <1>5, <2>1, InductionUpTo
<1>7. N + 1 \in 1 .. N + 1 /\ k \in k .. N + 1 /\ k > N + 1 - (N + 1)
  BY <1>1
<1>. QED BY <1>6, <1>7

-----------------------------------------------------------------------------
(* Code in memory.                                                         *)
LEMMA HasJoin ==
  ASSUME NEW m, NEW u, NEW v, IsCode(u), IsCode(v), NEW a \in Int
  PROVE  Has(m, u \o v, a) <=> Has(m, u, a) /\ Has(m, v, a + Size(u))
<1>. DEFINE s == Size(u)
            t == Size(v)
<1>1. s \in Nat /\ t \in Nat /\ IsCode(u \o v) /\ Size(u \o v) = s + t
  BY CodeSize, JoinIsCode, JoinOffsets
<1>2. /\ DOMAIN Bytes(u, a) = a .. a + s - 1
      /\ DOMAIN Bytes(v, a + s) = (a + s) .. (a + s) + t - 1
      /\ DOMAIN Bytes(u \o v, a) = a .. a + (s + t) - 1
  <2>1. a + s \in Int
    BY <1>1
  <2>. HIDE DEF s, t
  <2>2. DOMAIN Bytes(u, a) = a .. a + Size(u) - 1
    BY BytesAreOfCode
  <2>3. DOMAIN Bytes(v, a + s) = (a + s) .. (a + s) + Size(v) - 1
    BY <2>1, BytesAreOfCode
  <2>4. DOMAIN Bytes(u \o v, a) = a .. a + Size(u \o v) - 1
    BY <1>1, BytesAreOfCode
  <2>. QED BY <1>1, <2>2, <2>3, <2>4 DEF s, t
<1>3. /\ \A b \in DOMAIN Bytes(u, a) :
           b \in DOMAIN Bytes(u \o v, a) /\ Bytes(u \o v, a)[b] = Bytes(u, a)[b]
      /\ \A b \in DOMAIN Bytes(v, a + s) :
           b \in DOMAIN Bytes(u \o v, a) /\ Bytes(u \o v, a)[b] = Bytes(v, a + s)[b]
  BY JoinBytes
<1>. HIDE DEF s, t
<1>4. \A b \in DOMAIN Bytes(u \o v, a) : b \in DOMAIN Bytes(u, a) \/ b \in DOMAIN Bytes(v, a + s)
  BY <1>1, <1>2
<1>5. Has(m, u \o v, a) <=> Has(m, u, a) /\ Has(m, v, a + s)
  BY <1>3, <1>4 DEF Has
<1>. QED BY <1>5 DEF s

LEMMA IsASequence ==
  ASSUME NEW T, NEW b \in Seq(T)
  PROVE  IsSequence(b) /\ DOMAIN b = 1 .. Len(b)
BY DEF IsSequence

LEMMA JoinedSequences ==
  ASSUME NEW u, NEW w, IsSequence(u), IsSequence(w)
  PROVE  /\ IsSequence(u \o w) /\ Len(u \o w) = Len(u) + Len(w)
         /\ DOMAIN (u \o w) = 1 .. Len(u \o w)
         /\ \A i \in 1 .. Len(u) : (u \o w)[i] = u[i]
         /\ \A i \in 1 .. Len(w) : (u \o w)[Len(u) + i] = w[i]
<1>. DEFINE T == {u[i] : i \in DOMAIN u} \cup {w[i] : i \in DOMAIN w}
<1>1. u \in Seq(T) /\ w \in Seq(T)
  BY DEF IsSequence
<1>. HIDE DEF T
<1>. DEFINE b == u \o w
<1>2. /\ b \in Seq(T) /\ Len(b) = Len(u) + Len(w)
      /\ \A i \in 1 .. Len(u) : b[i] = u[i]
      /\ \A i \in 1 .. Len(w) : b[Len(u) + i] = w[i]
  BY <1>1, Joined
<1>. HIDE DEF b
<1>3. IsSequence(b) /\ DOMAIN b = 1 .. Len(b)
  BY <1>2, IsASequence
<1>. QED BY <1>2, <1>3 DEF b

(* An instruction that decodes is in memory.                               *)
LEMMA HasOne ==
  ASSUME NEW m, NEW a \in Int, NEW i, i # Bad, i.len \in Nat \ {0}, Decode(m, a) = i,
         m[a] = [inst |-> m[a].inst, at |-> m[a].at]
  PROVE  Has(m, <<i>>, a)
<1>. DEFINE c == <<i>>
<1>1. IsCode(c) /\ DOMAIN c = 1 .. 1 /\ c[1] = i /\ Size(c) = i.len
  BY OneIsCode
<1>2. /\ a \in DOMAIN m /\ m[a].at = 0 /\ m[a].inst = i
      /\ \A k \in 1 .. i.len - 1 : a + k \in DOMAIN m /\ m[a + k] = [inst |-> i, at |-> k]
  BY DEF Decode
<1>. HIDE DEF c
<1>3. At0(c)[1] = 0
  BY <1>1, CodeSize
<1>. SUFFICES ASSUME NEW b \in DOMAIN Bytes(c, a) PROVE b \in DOMAIN m /\ m[b] = Bytes(c, a)[b]
  BY DEF Has, c
<1>4. PICK j \in DOMAIN c : \E k \in 0 .. c[j].len - 1 :
        b = a + At0(c)[j] + k /\ Bytes(c, a)[b] = [inst |-> c[j], at |-> k]
  BY <1>1, ByteOf
<1>5. j = 1
  BY <1>1
<1>6. PICK k \in 0 .. i.len - 1 : b = a + k /\ Bytes(c, a)[b] = [inst |-> i, at |-> k]
  BY <1>1, <1>3, <1>4, <1>5
<1>7. CASE k = 0
  BY <1>2, <1>6, <1>7
<1>8. CASE k # 0
  BY <1>2, <1>6, <1>8
<1>. QED BY <1>7, <1>8

(* The instructions of n bytes as a list: the next one begins where one    *)
(* ends.                                                                   *)
LEMMA InstructionsList ==
  ASSUME NEW m, NEW a \in Int, NEW n \in Nat,
         \A b \in a .. a + n - 1 : m[b].inst.len \in Nat \ {0}
  PROVE  \E from : /\ Instructions(m, a, n) = from[a]
                   /\ \A b \in a .. a + n :
                        from[b] = IF b = a + n THEN <<>>
                                  ELSE IF b + Decode(m, b).len > a + n THEN <<Bad>>
                                  ELSE <<Decode(m, b)>> \o from[b + Decode(m, b).len]
<1>. DEFINE hi == a + n
            IsFrom(f) == f = [b \in a .. a + n |->
                IF b = a + n THEN <<>>
                ELSE IF b + Decode(m, b).len > a + n THEN <<Bad>>
                ELSE <<Decode(m, b)>> \o f[b + Decode(m, b).len]]
            from == CHOOSE f : IsFrom(f)
            stop == {b \in a .. hi : b = hi \/ b + Decode(m, b).len > hi}
            val == [b \in a .. hi |-> IF b = hi THEN <<>> ELSE <<Bad>>]
            pre == [b \in a .. hi |-> <<Decode(m, b)>>]
            next == [b \in a .. hi |-> b + Decode(m, b).len]
<1>1. Instructions(m, a, n) = from[a]
  BY DEF Instructions
<1>2. hi \in Int /\ a <= hi
  OBVIOUS
<1>3. ASSUME NEW b \in a .. hi, b # hi PROVE Decode(m, b).len \in Nat \ {0}
  <2>1. CASE Decode(m, b) = Bad
    <3>1. Bad.len = 1
      BY DEF Bad, I
    <3>. QED BY <2>1, <3>1
  <2>2. CASE Decode(m, b) # Bad
    <3>1. Decode(m, b) = m[b].inst
      BY <2>2 DEF Decode
    <3>2. b \in a .. a + n - 1
      BY <1>3
    <3>. QED BY <3>1, <3>2
  <2>. QED BY <2>1, <2>2
<1>. HIDE DEF IsFrom, from, stop, val, pre, next
<1>5. \A b \in (a .. hi) \ stop : next[b] \in b + 1 .. hi
  <2>. SUFFICES ASSUME NEW b \in a .. hi, b \notin stop PROVE next[b] \in b + 1 .. hi
    OBVIOUS
  <2>1. b # hi /\ ~(b + Decode(m, b).len > hi) /\ next[b] = b + Decode(m, b).len
    BY DEF stop, next
  <2>2. Decode(m, b).len \in Nat \ {0}
    BY <1>3, <2>1
  <2>. QED BY <1>2, <2>1, <2>2
<1>6. IsFrom(from)
  <2>1. PICK f : Lists(f, a, hi, stop, val, pre, next)
    <3>. HIDE DEF hi
    <3>. QED BY <1>2, <1>5, ListsDefine
  <2>2. IsFrom(f)
    <3>1. f = [b \in a .. hi |-> IF b \in stop THEN val[b] ELSE pre[b] \o f[next[b]]]
      BY <2>1 DEF Lists
    <3>2. ASSUME NEW b \in a .. hi
          PROVE  (IF b \in stop THEN val[b] ELSE pre[b] \o f[next[b]])
                 = (IF b = hi THEN <<>>
                    ELSE IF b + Decode(m, b).len > hi THEN <<Bad>>
                    ELSE <<Decode(m, b)>> \o f[b + Decode(m, b).len])
      <4>. HIDE DEF hi
      <4>. QED BY DEF stop, val, pre, next
    <3>. QED BY <3>1, <3>2 DEF IsFrom
  <2>. QED BY <2>2, Zenon DEF from
<1>7. \A b \in a .. a + n :
        from[b] = IF b = a + n THEN <<>>
                  ELSE IF b + Decode(m, b).len > a + n THEN <<Bad>>
                  ELSE <<Decode(m, b)>> \o from[b + Decode(m, b).len]
  BY <1>6 DEF IsFrom
<1>. QED BY <1>1, <1>7

(* Where all of them decode, they are what the bytes hold.                 *)
LEMMA InstructionsHave ==
  ASSUME NEW m, NEW a \in Int, NEW n \in Nat,
         \A b \in a .. a + n - 1 : m[b].inst.len \in Nat \ {0},
         \A b \in a .. a + n - 1 : m[b] = [inst |-> m[b].inst, at |-> m[b].at],
         NEW code, code = Instructions(m, a, n), \A i \in DOMAIN code : code[i] # Bad
  PROVE  IsCode(code) /\ Size(code) = n /\ Has(m, code, a)
<1>1. PICK from : /\ code = from[a]
                  /\ \A b \in a .. a + n :
                       from[b] = IF b = a + n THEN <<>>
                                 ELSE IF b + Decode(m, b).len > a + n THEN <<Bad>>
                                 ELSE <<Decode(m, b)>> \o from[b + Decode(m, b).len]
  BY InstructionsList
<1>. DEFINE hi == a + n
            Fine(s) == \A i \in DOMAIN s : s[i] # Bad
            P(b) == IsSequence(from[b]) /\
                    (Fine(from[b]) =>
                     IsCode(from[b]) /\ Size(from[b]) = hi - b /\ Has(m, from[b], b))
            S == {k \in 1 .. n + 1 : \A b \in a .. hi : b > hi - k => P(b)}
<1>2. P(hi)
  <2>1. from[hi] = <<>> /\ hi - hi = 0 /\ hi \in Int
    <3>1. hi \in a .. a + n /\ hi = a + n /\ hi - hi = 0 /\ hi \in Int
      OBVIOUS
    <3>. HIDE DEF hi
    <3>2. from[hi] = IF hi = a + n THEN <<>>
                     ELSE IF hi + Decode(m, hi).len > a + n THEN <<Bad>>
                     ELSE <<Decode(m, hi)>> \o from[hi + Decode(m, hi).len]
      BY <1>1, <3>1, Zenon
    <3>. QED BY <3>1, <3>2
  <2>2. DOMAIN Bytes(<<>>, hi) = {}
    <3>1. IsCode(<<>>) /\ Size(<<>>) = 0
      BY EmptyIsCode
    <3>2. DOMAIN Bytes(<<>>, hi) = hi .. hi + Size(<<>>) - 1
      BY <2>1, <3>1, BytesAreOfCode
    <3>. QED BY <2>1, <3>1, <3>2
  <2>3. IsCode(<<>>) /\ Size(<<>>) = 0 /\ IsSequence(<<>>)
    BY EmptyIsCode DEF IsCode
  <2>4. Has(m, <<>>, hi)
    BY <2>2 DEF Has
  <2>. QED BY <2>1, <2>3, <2>4
<1>3. ASSUME NEW b \in a .. hi - 1, NEW l \in Nat \ {0}, l = Decode(m, b).len,
             b + l <= hi => P(b + l)
      PROVE  P(b)
  <2>. DEFINE i == Decode(m, b)
  <2>1. from[b] = IF b + l > hi THEN <<Bad>> ELSE <<i>> \o from[b + l]
    BY <1>1, <1>3
  <2>2. CASE b + l > hi
    <3>1. from[b] = <<Bad>>
      BY <2>1, <2>2
    <3>2. ~Fine(<<Bad>>) /\ IsSequence(<<Bad>>)
      BY DEF IsSequence
    <3>. QED BY <3>1, <3>2
  <2>3. CASE b + l <= hi
    <3>. DEFINE s == from[b + l]
                one == <<i>>
                both == one \o s
    <3>1. from[b] = both /\ P(b + l)
      BY <1>3, <2>1, <2>3
    <3>2. IsCode(one) /\ Len(one) = 1 /\ one[1] = i /\ Size(one) = l /\ DOMAIN one = 1 .. 1
      BY <1>3, OneIsCode
    <3>. HIDE DEF one, s, both
    <3>3. IsSequence(s) /\ IsSequence(one)
      BY <3>1, <3>2 DEF IsCode, s
    <3>4. IsSequence(both)
      BY <3>3, JoinedSequences DEF both
    <3>5. ASSUME Fine(both)
          PROVE  IsCode(both) /\ Size(both) = hi - b /\ Has(m, both, b)
      <4>1. Len(one) \in Nat /\ Len(s) \in Nat
        BY <3>3 DEF IsSequence
      <4>2. /\ Len(both) = 1 + Len(s) /\ both[1] = i
            /\ \A k \in 1 .. Len(s) : both[1 + k] = s[k]
            /\ DOMAIN both = 1 .. 1 + Len(s) /\ DOMAIN s = 1 .. Len(s)
        <5>1. /\ Len(both) = Len(one) + Len(s) /\ DOMAIN both = 1 .. Len(both)
              /\ \A k \in 1 .. Len(one) : both[k] = one[k]
              /\ \A k \in 1 .. Len(s) : both[Len(one) + k] = s[k]
          BY <3>3, JoinedSequences DEF both
        <5>2. 1 \in 1 .. Len(one) /\ DOMAIN s = 1 .. Len(s)
          BY <3>2, <3>3 DEF IsSequence
        <5>. QED BY <3>2, <5>1, <5>2
      <4>3. i # Bad
        BY <3>5, <4>1, <4>2
      <4>4. Fine(s)
        BY <3>5, <4>1, <4>2
      <4>5. IsCode(s) /\ Size(s) = hi - (b + l) /\ Has(m, s, b + l)
        BY <3>1, <4>4 DEF s
      <4>6. Has(m, one, b)
        <5>1. b \in a .. a + n - 1 /\ b \in Int
          OBVIOUS
        <5>2. m[b] = [inst |-> m[b].inst, at |-> m[b].at]
          BY <5>1
        <5>. QED BY <1>3, <4>3, <5>1, <5>2, HasOne DEF one
      <4>7. Has(m, both, b)
        BY <3>2, <4>5, <4>6, HasJoin DEF both
      <4>8. IsCode(both) /\ Size(both) = Size(one) + Size(s)
        BY <3>2, <4>5, JoinIsCode, JoinOffsets DEF both
      <4>. QED BY <3>2, <4>5, <4>7, <4>8
    <3>. QED BY <3>1, <3>4, <3>5
  <2>. QED BY <2>2, <2>3
<1>. HIDE DEF P, hi
<1>4. hi \in Int /\ a <= hi /\ hi = a + n
  BY DEF hi
<1>5. \A b \in a .. hi - 1 : Decode(m, b).len \in Nat \ {0}
  <2>1. Bad.len = 1
    BY DEF Bad, I
  <2>2. \A b \in a .. hi - 1 : m[b].inst.len \in Nat \ {0}
    BY <1>4
  <2>. QED BY <2>1, <2>2 DEF Decode
<1>6. 1 \in S
  <2>1. \A b \in a .. hi : b > hi - 1 => b = hi
    BY <1>4
  <2>2. 1 \in 1 .. n + 1
    OBVIOUS
  <2>. QED BY <1>2, <2>1, <2>2
<1>7. ASSUME NEW k \in 1 .. n + 1, k \in S, k + 1 \in 1 .. n + 1
      PROVE  k + 1 \in S
  <2>. SUFFICES ASSUME NEW b \in a .. hi, b > hi - (k + 1) PROVE P(b)
    BY <1>7
  <2>1. CASE b = hi
    BY <1>2, <2>1
  <2>2. CASE b # hi
    <3>1. b \in a .. hi - 1
      BY <1>4, <2>2
    <3>2. PICK l \in Nat \ {0} : l = Decode(m, b).len
      BY <1>5, <3>1
    <3>3. ASSUME b + l <= hi PROVE P(b + l)
      <4>1. b + l \in a .. hi /\ b + l > hi - k
        BY <1>4, <3>1, <3>3
      <4>. QED BY <1>7, <4>1
    <3>. QED BY <1>3, <3>1, <3>2, <3>3
  <2>. QED BY <2>1, <2>2
<1>8. n + 1 \in S
  <2>1. n + 1 \in Nat /\ n + 1 \in 1 .. n + 1
    OBVIOUS
  <2>2. 1 .. n + 1 \subseteq S
    <3>. HIDE DEF S
    <3>. QED BY <1>6, <1>7, <2>1, InductionUpTo
  <2>. QED BY <2>1, <2>2
<1>9. P(a)
  <2>1. a \in a .. hi /\ a > hi - (n + 1)
    BY <1>4
  <2>. QED BY <1>8, <2>1
<1>10. Fine(from[a])
  BY <1>1
<1>11. IsCode(from[a]) /\ Size(from[a]) = hi - a /\ Has(m, from[a], a)
  BY <1>9, <1>10 DEF P
<1>. QED BY <1>1, <1>4, <1>11

(* Two codes that begin with the same bytes begin with the same            *)
(* instructions.                                                           *)
LEMMA SameStart ==
  ASSUME NEW w, NEW code, IsCode(w), IsCode(code), NEW a \in Int, Size(w) <= Size(code),
         \A b \in DOMAIN Bytes(w, a) : Bytes(w, a)[b] = Bytes(code, a)[b]
  PROVE  /\ \A i \in DOMAIN w : i \in DOMAIN code /\ code[i] = w[i]
         /\ \A i \in 1 .. Len(w) + 1 : At0(code)[i] = At0(w)[i]
<1>. DEFINE n == Len(w)
            c == Len(code)
            S == {i \in 1 .. n + 1 : i \in 1 .. c + 1 /\ At0(code)[i] = At0(w)[i]}
<1>1. /\ n \in Nat /\ DOMAIN w = 1 .. n /\ At0(w) \in [1 .. n + 1 -> Nat] /\ At0(w)[1] = 0
      /\ At0(w)[n + 1] = Size(w)
      /\ \A i \in 1 .. n : w[i].len \in Nat \ {0} /\ At0(w)[i + 1] = At0(w)[i] + w[i].len
      /\ \A j \in 1 .. n + 1 : \A i \in 1 .. j : At0(w)[i] <= At0(w)[j]
  BY CodeSize
<1>2. /\ c \in Nat /\ DOMAIN code = 1 .. c /\ At0(code) \in [1 .. c + 1 -> Nat] /\ At0(code)[1] = 0
      /\ At0(code)[c + 1] = Size(code)
      /\ \A i \in 1 .. c : At0(code)[i + 1] = At0(code)[i] + code[i].len
      /\ \A i \in 1 .. c : code[i].len \in Nat \ {0}
  BY CodeSize
<1>. HIDE DEF n, c
<1>3. ASSUME NEW i \in 1 .. n, i \in S
      PROVE  i \in 1 .. c /\ code[i] = w[i]
  <2>1. At0(w)[i + 1] <= At0(w)[n + 1] /\ At0(w)[i] < At0(w)[i + 1]
    <3>1. n + 1 \in 1 .. n + 1 /\ i + 1 \in 1 .. n + 1 /\ i \in 1 .. n + 1
      BY <1>1
    <3>2. At0(w)[i + 1] <= At0(w)[n + 1]
      BY <1>1, <3>1
    <3>3. At0(w)[i] \in Nat /\ w[i].len \in Nat \ {0} /\ At0(w)[i + 1] = At0(w)[i] + w[i].len
      BY <1>1, <3>1
    <3>. QED BY <3>2, <3>3
  <2>2. At0(code)[i] = At0(w)[i] /\ i \in 1 .. c + 1 /\ At0(w)[i] \in Nat
    BY <1>1, <1>3
  <2>3. i # c + 1
    <3>1. Size(w) \in Nat /\ Size(code) \in Nat
      BY CodeSize
    <3>2. At0(w)[i] < Size(w)
      BY <1>1, <2>1, <2>2
    <3>. QED BY <1>2, <2>2, <3>1, <3>2
  <2>4. i \in 1 .. c
    <3>1. c \in Nat /\ i \in 1 .. c + 1 /\ i # c + 1
      BY <1>2, <2>2, <2>3
    <3>. QED BY <3>1
  <2>. DEFINE b == a + At0(w)[i] + 0
  <2>5. 0 \in 0 .. w[i].len - 1 /\ 0 \in 0 .. code[i].len - 1 /\ i \in DOMAIN w /\ i \in DOMAIN code
    <3>1. w[i].len \in Nat \ {0} /\ code[i].len \in Nat \ {0} /\ i \in DOMAIN w /\ i \in DOMAIN code
      BY <1>1, <1>2, <2>4
    <3>. QED BY <3>1
  <2>6. b \in DOMAIN Bytes(w, a) /\ Bytes(w, a)[b] = [inst |-> w[i], at |-> 0]
    BY <2>5, BytesAt
  <2>7. Bytes(code, a)[a + At0(code)[i] + 0] = [inst |-> code[i], at |-> 0]
    BY <2>5, BytesAt
  <2>8. [inst |-> w[i], at |-> 0] = [inst |-> code[i], at |-> 0]
    BY <2>2, <2>6, <2>7
  <2>9. [inst |-> w[i], at |-> 0].inst = [inst |-> code[i], at |-> 0].inst
    BY <2>8
  <2>. QED BY <2>4, <2>9
<1>4. 1 \in S
  BY <1>1, <1>2
<1>5. ASSUME NEW i \in 1 .. n + 1, i \in S, i + 1 \in 1 .. n + 1
      PROVE  i + 1 \in S
  <2>1. i \in 1 .. n
    BY <1>1, <1>5
  <2>2. i \in 1 .. c /\ code[i] = w[i] /\ At0(code)[i] = At0(w)[i]
    BY <1>3, <1>5, <2>1
  <2>3. At0(code)[i + 1] = At0(w)[i + 1]
    BY <1>1, <1>2, <2>1, <2>2
  <2>4. i + 1 \in 1 .. c + 1
    BY <1>2, <2>2
  <2>. QED BY <1>5, <2>3, <2>4
<1>6. 1 .. n + 1 \subseteq S
  <2>1. n + 1 \in Nat
    BY <1>1
  <2>. HIDE DEF S
  <2>. QED BY <1>4, <1>5, <2>1, InductionUpTo
<1>7. \A i \in DOMAIN w : i \in DOMAIN code /\ code[i] = w[i]
  <2>. SUFFICES ASSUME NEW i \in 1 .. n PROVE i \in 1 .. c /\ code[i] = w[i]
    BY <1>1, <1>2
  <2>1. i \in 1 .. n + 1
    BY <1>1
  <2>2. i \in S
    BY <1>6, <2>1
  <2>. QED BY <1>3, <2>2
<1>8. \A i \in 1 .. n + 1 : At0(code)[i] = At0(w)[i]
  BY <1>6
<1>. QED BY <1>7, <1>8 DEF n

(* Pieces of code that is in memory run.                                   *)
LEMMA PlacedRuns ==
  ASSUME NEW m, NEW w, IsCode(w), NEW a \in Int, Has(m, w, a), NEW piece, IsCode(piece),
         NEW at \in Nat, PlacedIn(w, piece, at)
  PROVE  Runs(m, piece, a + at)
<1>. SUFFICES ASSUME NEW k \in DOMAIN piece PROVE Decode(m, (a + at) + At0(piece)[k]) = piece[k]
  BY DEF Runs
<1>1. PICK q \in DOMAIN w : w[q] = piece[k] /\ At0(w)[q] = at + At0(piece)[k]
  BY DEF PlacedIn
<1>2. \A b \in a .. a + Size(w) - 1 : b \in DOMAIN m /\ m[b] = Bytes(w, a)[b]
  BY BytesAreOfCode DEF Has
<1>3. Decode(m, a + At0(w)[q]) = w[q]
  BY <1>2, DecodeBytes
<1>4. At0(piece)[k] \in Nat
  <2>1. Len(piece) \in Nat /\ DOMAIN piece = 1 .. Len(piece) /\ At0(piece) \in [1 .. Len(piece) + 1 -> Nat]
    BY CodeSize
  <2>. QED BY <2>1
<1>5. a + At0(w)[q] = (a + at) + At0(piece)[k]
  BY <1>1, <1>4
<1>. QED BY <1>1, <1>3, <1>5

LEMMA HasRuns ==
  ASSUME NEW m, NEW w, IsCode(w), NEW a \in Int, Has(m, w, a)
  PROVE  Runs(m, w, a)
<1>1. \A b \in a .. a + Size(w) - 1 : b \in DOMAIN m /\ m[b] = Bytes(w, a)[b]
  BY BytesAreOfCode DEF Has
<1>. QED BY <1>1, DecodeBytes DEF Runs

-----------------------------------------------------------------------------

LEMMA BytesAreCells ==
  ASSUME NEW code, IsCode(code), NEW a \in Int, \A i \in DOMAIN code : code[i].arg \in Int
  PROVE  \A b \in DOMAIN Bytes(code, a) : IsCell(Bytes(code, a)[b])
<1>. SUFFICES ASSUME NEW b \in DOMAIN Bytes(code, a) PROVE IsCell(Bytes(code, a)[b])
  OBVIOUS
<1>1. PICK j \in DOMAIN code : \E k \in 0 .. code[j].len - 1 :
        b = a + At0(code)[j] + k /\ Bytes(code, a)[b] = [inst |-> code[j], at |-> k]
  BY ByteOf
<1>. QED BY <1>1 DEF IsCell

-----------------------------------------------------------------------------
(* The long branch is cut where it ends.                                   *)
LEMMA Amd64Walks ==
  ASSUME NEW m, NEW req \in Nat \ {0}, NEW chk \in BOOLEAN, Entry \in Nat,
         \A b \in Entry .. Entry + req - 1 : b \in DOMAIN m => m[b].inst.len \in 1 .. 15
  PROVE  \E walk :
           /\ X!Disassemble(m, Entry, req, chk) = walk[0]
           /\ \A p \in req .. req + 15 : walk[p] = p
           /\ \A p \in 0 .. req - 1 :
                LET i == Decode(m, Entry + p)
                IN  i # Bad /\ i.op # "ret" => walk[p] = walk[p + i.len]
<1>. DEFINE hi == req + 15
            D(p) == X!Decode(m, Entry + p)
            IsTail(f) == f = [p \in 0 .. req + 15 |->
                             IF p >= req THEN p
                             ELSE IF (chk /\ D(p).op # "int3") \/ D(p) = X!Bad THEN 0
                             ELSE f[p + D(p).len]]
            tail == CHOOSE f : IsTail(f)
            IsWalk(f) == f = [p \in 0 .. req + 15 |->
                             IF p >= req THEN p
                             ELSE IF D(p) = X!Bad THEN 0
                             ELSE IF D(p).op = "ret" THEN tail[p + D(p).len]
                             ELSE f[p + D(p).len]]
            walk == CHOOSE f : IsWalk(f)
            next == [p \in 0 .. hi |-> p + D(p).len]
            stopW == {p \in 0 .. hi : p >= req \/ D(p) = X!Bad \/ D(p).op = "ret"}
            valW == [p \in 0 .. hi |-> IF p >= req THEN p
                                       ELSE IF D(p) = X!Bad THEN 0 ELSE tail[next[p]]]
<1>1. X!Disassemble(m, Entry, req, chk) = walk[0]
  BY DEF X!Disassemble
<1>. HIDE DEF IsTail, tail, IsWalk, walk, next, stopW, valW
<1>2. ASSUME NEW p \in 0 .. hi, p < req
      PROVE  D(p) # X!Bad => D(p).len \in 1 .. 15
  <2>1. D(p) = Decode(m, Entry + p) /\ X!Bad = Bad
    BY SameBytes
  <2>2. Entry + p \in Entry .. Entry + req - 1
    <3>. HIDE DEF D
    <3>1. p \in Int /\ 0 <= p /\ p <= req - 1 /\ req \in Int
      BY <1>2
    <3>. QED BY <3>1
  <2>3. Decode(m, Entry + p) # Bad =>
          Entry + p \in DOMAIN m /\ Decode(m, Entry + p) = m[Entry + p].inst
    BY DEF Decode
  <2>. HIDE DEF D
  <2>. QED BY <2>1, <2>2, <2>3
<1>3. hi \in Int /\ 0 <= hi /\ 0 \in Int
  OBVIOUS
<1>. HIDE DEF D
<1>4. \A p \in (0 .. hi) \ stopW : next[p] \in p + 1 .. hi
  <2>. SUFFICES ASSUME NEW p \in 0 .. hi, p \notin stopW PROVE next[p] \in p + 1 .. hi
    OBVIOUS
  <2>1. p < req /\ D(p) # X!Bad
    BY DEF stopW
  <2>2. D(p).len \in 1 .. 15 /\ next[p] = p + D(p).len
    BY <1>2, <2>1 DEF next
  <2>. QED BY <2>1, <2>2
<1>5. IsWalk(walk)
  <2>1. PICK f : Jumps(f, 0, hi, stopW, valW, next)
    <3>. HIDE DEF hi
    <3>. QED BY <1>3, <1>4, JumpsDefine
  <2>2. IsWalk(f)
    <3>1. f = [p \in 0 .. hi |-> IF p \in stopW THEN valW[p] ELSE f[next[p]]]
      BY <2>1 DEF Jumps
    <3>2. ASSUME NEW p \in 0 .. hi
          PROVE  (IF p \in stopW THEN valW[p] ELSE f[next[p]])
                 = (IF p >= req THEN p
                    ELSE IF D(p) = X!Bad THEN 0
                    ELSE IF D(p).op = "ret" THEN tail[p + D(p).len]
                    ELSE f[p + D(p).len])
      BY DEF stopW, valW, next
    <3>. QED BY <3>1, <3>2 DEF IsWalk
  <2>. QED BY <2>2, Zenon DEF walk
<1>6. \A p \in 0 .. req + 15 :
        walk[p] = IF p >= req THEN p
                  ELSE IF D(p) = X!Bad THEN 0
                  ELSE IF D(p).op = "ret" THEN tail[p + D(p).len]
                  ELSE walk[p + D(p).len]
  BY <1>5 DEF IsWalk
<1>7. \A p : D(p) = Decode(m, Entry + p) /\ X!Bad = Bad
  BY SameBytes DEF D
<1>8. \A p \in req .. req + 15 : walk[p] = p
  BY <1>6
<1>9. ASSUME NEW p \in 0 .. req - 1, Decode(m, Entry + p) # Bad, Decode(m, Entry + p).op # "ret"
      PROVE  walk[p] = walk[p + Decode(m, Entry + p).len]
  <2>1. p \in 0 .. req + 15 /\ ~(p >= req)
    OBVIOUS
  <2>2. D(p) = Decode(m, Entry + p) /\ D(p) # X!Bad
    BY <1>7, <1>9
  <2>. QED BY <1>6, <1>9, <2>1, <2>2
<1>. QED BY <1>1, <1>8, <1>9

(* So the twelve bytes fit on an entry that has them.                      *)
LEMMA BranchIsFit ==
  ASSUME Inv, amd64, NEW v, NEW w, w = BranchInto(v), Has(mem, w, Entry)
  PROVE  LegacyFits
<1>1. Entry \in Nat /\ target \in Functions /\ Size(target.code) \in Nat /\ Size(target.code) >= 26
  BY InvHolds, TargetIsCode
<1>2. \A b \in Zone : mem[b].inst.len \in 1 .. 15
  BY InvHolds DEF Lens
<1>3. \A b \in Entry .. Entry + 12 - 1 : b \in Zone
  BY <1>1 DEF Zone
<1>4. /\ IsCode(w) /\ DOMAIN w = 1 .. 2 /\ w[1].op = "set" /\ w[2].op = "hookset"
      /\ w[1].len = 10 /\ w[2].len = 2
  <2>1. w = <<X!rdxMOV(v), X!I("hookset", 2, 0, 0)>>
    BY DEF BranchInto, X!BranchInto
  <2>2. w[1].len = 10 /\ w[2].len = 2
    BY <2>1 DEF X!rdxMOV, X!I
  <2>. HIDE DEF BranchInto
  <2>. QED BY <2>2, BranchCode
<1>5. At0(w)[1] = 0 /\ At0(w)[2] = 10
  <2>1. At0(w)[1] = 0 /\ At0(w)[1 + 1] = At0(w)[1] + w[1].len
    BY <1>4, HookCode
  <2>. QED BY <1>4, <2>1
<1>6. Decode(mem, Entry) = w[1] /\ Decode(mem, Entry + 10) = w[2]
  <2>0. Runs(mem, w, Entry)
    BY <1>1, <1>4, HasRuns
  <2>1. \A i \in DOMAIN w : Decode(mem, Entry + At0(w)[i]) = w[i]
    BY <2>0 DEF Runs
  <2>2. Decode(mem, Entry + At0(w)[1]) = w[1] /\ Decode(mem, Entry + At0(w)[2]) = w[2]
    BY <1>4, <2>1
  <2>. QED BY <1>1, <1>5, <2>2
<1>7. w[1] # Bad /\ w[2] # Bad
  BY <1>4 DEF Bad, I
<1>8. ASSUME NEW req \in Nat \ {0}, req = 12, NEW chk \in BOOLEAN
      PROVE  X!Disassemble(mem, Entry, req, chk) = 12
  <2>1. \A b \in Entry .. Entry + req - 1 : b \in DOMAIN mem => mem[b].inst.len \in 1 .. 15
    BY <1>2, <1>3, <1>8
  <2>2. PICK walk :
           /\ X!Disassemble(mem, Entry, req, chk) = walk[0]
           /\ \A p \in req .. req + 15 : walk[p] = p
           /\ \A p \in 0 .. req - 1 :
                LET i == Decode(mem, Entry + p)
                IN  i # Bad /\ i.op # "ret" => walk[p] = walk[p + i.len]
    BY <1>1, <2>1, Amd64Walks, Zenon
  <2>3. walk[0] = walk[0 + w[1].len]
    <3>1. 0 \in 0 .. req - 1 /\ Entry + 0 = Entry
      BY <1>1, <1>8
    <3>. QED BY <1>4, <1>6, <1>7, <2>2, <3>1
  <2>4. walk[10] = walk[10 + w[2].len]
    <3>1. 10 \in 0 .. req - 1
      BY <1>8
    <3>. QED BY <1>4, <1>6, <1>7, <2>2, <3>1
  <2>5. walk[12] = 12
    <3>1. 12 \in req .. req + 15
      BY <1>8
    <3>. QED BY <2>2, <3>1
  <2>. QED BY <1>4, <2>2, <2>3, <2>4, <2>5
<1>. DEFINE c == Cut(LongBranch, TRUE)
<1>11. c = 12
  <2>1. LongBranch = 12 /\ 12 \in Nat \ {0}
    BY DEF LongBranch, X!LongBranch
  <2>2. PICK req \in Nat \ {0} : req = 12 /\ req = LongBranch
    BY <2>1
  <2>3. c = X!Disassemble(mem, Entry, req, TRUE)
    BY <2>2, Zenon DEF Cut
  <2>4. TRUE \in BOOLEAN
    OBVIOUS
  <2>5. X!Disassemble(mem, Entry, req, TRUE) = 12
    BY <1>8, <2>2, <2>4, Zenon
  <2>. QED BY <2>3, <2>5, Zenon
<1>9. Instructions(mem, Entry, 12) \in Seq({w[1], w[2]})
  <2>. DEFINE P == {Entry, Entry + 10, Entry + 12}
              Q == {w[1], w[2]}
  <2>1. P \subseteq Entry .. Entry + 12 /\ Entry \in P /\ Entry \in Int
    BY <1>1
  <2>2. \A b \in Entry .. Entry + 12 - 1 : mem[b].inst.len \in Nat \ {0}
    BY <1>2, <1>3
  <2>3. \A b \in P : b # Entry + 12 =>
           /\ ~(b + Decode(mem, b).len > Entry + 12)
           /\ Decode(mem, b) \in Q /\ b + Decode(mem, b).len \in P
    BY <1>1, <1>4, <1>6
  <2>. HIDE DEF P, Q
  <2>4. Instructions(mem, Entry, 12) \in Seq(Q)
    BY <2>1, <2>2, <2>3, InstructionsIn
  <2>. QED BY <2>4 DEF Q
<1>10. ~X!HasPCRelative(Displaced(12))
  <2>. DEFINE s == Displaced(12)
  <2>1. s \in Seq({w[1], w[2]})
    BY <1>9 DEF Displaced
  <2>. HIDE DEF s
  <2>2. \A i \in DOMAIN s : s[i] \in {w[1], w[2]}
    BY <2>1
  <2>3. X!Bad = Bad
    BY SameBytes
  <2>. SUFFICES ~X!HasPCRelative(s)
    BY DEF s
  <2>. QED BY <1>4, <1>7, <2>2, <2>3 DEF X!HasPCRelative, X!PCRelative, X!Control, X!Rel8
<1>12. c # 0
  <2>. HIDE DEF c
  <2>. QED BY <1>11
<1>. QED BY <1>10, <1>11, <1>12, Zenon DEF LegacyFits

-----------------------------------------------------------------------------
(* Each way of patching relocates the prefix.                              *)
LEMMA PlacesItself ==
  ASSUME NEW w, IsCode(w), NEW i \in DOMAIN w
  PROVE  /\ IsCode(<<w[i]>>) /\ PlacedIn(w, <<w[i]>>, At0(w)[i]) /\ At0(w)[i] \in Nat
         /\ At0(w)[i + 1] = At0(w)[i] + Size(<<w[i]>>)
<1>1. /\ DOMAIN w = 1 .. Len(w) /\ Len(w) \in Nat /\ At0(w) \in [1 .. Len(w) + 1 -> Nat]
      /\ w[i].len \in Nat \ {0} /\ At0(w)[i + 1] = At0(w)[i] + w[i].len
  BY CodeSize
<1>2. At0(w)[i] \in Nat
  BY <1>1
<1>. DEFINE c == <<w[i]>>
<1>3. IsCode(c) /\ DOMAIN c = 1 .. 1 /\ c[1] = w[i] /\ Size(c) = w[i].len
  BY <1>1, OneIsCode
<1>. HIDE DEF c
<1>4. At0(c)[1] = 0
  BY <1>3, CodeSize
<1>5. PlacedIn(w, c, At0(w)[i])
  BY <1>2, <1>3, <1>4 DEF PlacedIn
<1>. QED BY <1>1, <1>2, <1>3, <1>5 DEF c

(* What all of them have in common.                                        *)
Prefix(p, code) ==
  /\ IsCode(code) /\ p.page \in Int /\ Size(code) = p.cut /\ p.cut \in ShortCut .. MaxCut
  /\ code[1].op \in {"set", "mov"} => LongCut <= p.cut

(* The prefix and its copy, of each architecture.                          *)
LEMMA RelocationOfAmd64 ==
  ASSUME amd64, NEW p, NEW code, Prefix(p, code), \A i \in DOMAIN code : code[i].arg \in Int,
         Entry \in Int, X!Relocate(code, Entry, p.page).ok,
         NEW moved, moved = X!Relocate(code, Entry, p.page).code
  PROVE  Relocation(p, code, moved, At0(moved))
<1>1. IsCode(code) /\ p.page \in Int /\ Size(code) = p.cut
  BY DEF Prefix
<1>2. /\ IsCode(moved) /\ DOMAIN moved = DOMAIN code
      /\ \A i \in DOMAIN code : CopyOf(code, Entry, moved, p.page, i)
  BY <1>1, RelocatedAmd64
<1>3. \A i \in DOMAIN code : code[i].op # "loop"
  <2>. DEFINE r == X!Relocate(code, Entry, p.page)
  <2>1. ~(\A i \in DOMAIN code : code[i] # X!Bad /\ code[i].op # "loop") => r.ok = FALSE
    BY DEF X!Relocate
  <2>. HIDE DEF r
  <2>2. r.ok
    BY DEF r
  <2>. QED BY <2>1, <2>2
<1>4. /\ Len(moved) = Len(code) /\ At0(moved)[1] = 0 /\ At0(moved)[Len(moved) + 1] = Size(moved)
  BY <1>1, <1>2, CodeSize
<1>5. ASSUME NEW i \in DOMAIN code
      PROVE  Piece(p, code, At0(moved), i, <<moved[i]>>)
  <2>. DEFINE o == code[i]
              e == moved[i]
              aim == Points(o, Entry + At0(code)[i])
              got == Points(e, p.page + At0(moved)[i])
  <2>1. IF o.op \notin X!PCRelative THEN e = o
        ELSE /\ e.op = X!Wide(o).op /\ e.x = o.x
             /\ IF o.op \in X!Control /\ aim \in Entry .. Entry + Size(code) - 1
                THEN \E j \in DOMAIN code : /\ aim = Entry + At0(code)[j]
                                            /\ got = p.page + At0(moved)[j]
                ELSE got = aim
    BY <1>2, Zenon DEF CopyOf
  <2>2. o.op # "loop"
    BY <1>3
  <2>. HIDE DEF o, e, aim, got
  <2>3. CASE o.op \notin X!PCRelative
    <3>1. e = o /\ o.op \notin Placebound
      BY <2>1, <2>3 DEF Placebound
    <3>. QED BY <3>1 DEF Piece, o, e
  <2>4. CASE o.op \in X!Control
    <3>1. o.op \in X!PCRelative /\ o.op \in X!Control \ {"loop"}
      BY <2>2, <2>4 DEF X!PCRelative
    <3>2. e.op = X!Wide(o).op /\ e.x = o.x
      BY <2>1, <3>1
    <3>3. Settles(p, code, At0(moved), aim, got)
      BY <1>1, <2>1, <2>4, <3>1 DEF Settles
    <3>. QED BY <3>1, <3>2, <3>3 DEF Piece, o, e, aim, got
  <2>5. CASE o.op = "lea"
    <3>1. o.op \in X!PCRelative /\ o.op \notin X!Control
      BY <2>5 DEF X!PCRelative, X!Control, X!Rel8
    <3>2. e.op = X!Wide(o).op /\ got = aim
      BY <2>1, <3>1
    <3>3. X!Wide(o).op = "lea"
      BY <2>5 DEF X!Wide
    <3>. QED BY <2>5, <3>2, <3>3 DEF Piece, o, e, aim, got
  <2>. QED BY <2>3, <2>4, <2>5 DEF X!PCRelative
<1>6. ASSUME NEW i \in DOMAIN code
      PROVE  /\ At0(moved)[i] \in Nat
             /\ \E piece : /\ IsCode(piece) /\ PlacedIn(moved, piece, At0(moved)[i])
                           /\ At0(moved)[i + 1] = At0(moved)[i] + Size(piece)
                           /\ Piece(p, code, At0(moved), i, piece)
  <2>1. i \in DOMAIN moved
    BY <1>2
  <2>2. /\ IsCode(<<moved[i]>>) /\ PlacedIn(moved, <<moved[i]>>, At0(moved)[i])
        /\ At0(moved)[i] \in Nat /\ At0(moved)[i + 1] = At0(moved)[i] + Size(<<moved[i]>>)
    BY <1>2, <2>1, PlacesItself
  <2>. QED BY <1>5, <2>2
<1>7. p.cut \in ShortCut .. MaxCut /\ (code[1].op \in {"set", "mov"} => LongCut <= p.cut)
  BY DEF Prefix
<1>. QED BY <1>1, <1>2, <1>4, <1>6, <1>7 DEF Relocation

LEMMA RelocationOfArm64 ==
  ASSUME ~amd64, NEW p, NEW code, Prefix(p, code),
         \A i \in DOMAIN code : code[i].arg \in Int /\ code[i].len = 4,
         Entry \in Int, R!Relocate(code, Entry, p.page).ok,
         NEW moved, moved = R!Relocate(code, Entry, p.page).code
  PROVE  \E at : Relocation(p, code, moved, at)
<1>1. IsCode(code) /\ p.page \in Int /\ Size(code) = p.cut
  BY DEF Prefix
<1>2. IsCode(moved) /\ \E at, to : PiecesOf(code, Entry, moved, p.page, at, to)
  BY <1>1, RelocatedArm64
<1>3. PICK at, to : PiecesOf(code, Entry, moved, p.page, at, to)
  BY <1>2
<1>4. at[1] = 0 /\ at[Len(code) + 1] = Size(moved)
  BY <1>3 DEF PiecesOf
<1>5. ASSUME NEW i \in DOMAIN code
      PROVE  /\ at[i] \in Nat
             /\ \E piece : /\ IsCode(piece) /\ PlacedIn(moved, piece, at[i])
                           /\ at[i + 1] = at[i] + Size(piece)
                           /\ Piece(p, code, at, i, piece)
  <2>. DEFINE o == code[i]
              t == to[i]
              aim == Points(o, Entry + At0(code)[i])
              piece == R!RelocateInst(o, t)
  <2>1. /\ at[i] \in Nat /\ o.op \notin {"ldrlit", "bad"}
        /\ at[i + 1] = at[i] + 4 * R!RelocatedSize(o)
        /\ PlacedIn(moved, R!RelocateInst(o, t), at[i])
    BY <1>3 DEF PiecesOf
  <2>2. aim = Aim(code, Entry, i)
    BY DEF Points, Aim
  <2>3. o.op \in R!Branches \cup {"adr", "adrp"} =>
           IF aim \in Entry .. Entry + Size(code) - 1
           THEN \E j \in DOMAIN code : aim = Entry + At0(code)[j] /\ t = p.page + at[j]
           ELSE t = aim
    BY <1>3, <2>2 DEF PiecesOf
  <2>4. o.len = 4
    OBVIOUS
  <2>. HIDE DEF o, t, aim
  <2>5. R!RelocatedSize(o) # 0
    BY <2>1 DEF R!RelocatedSize, R!Conditional
  <2>6. IsCode(piece) /\ Size(piece) = 4 * R!RelocatedSize(o)
    BY <2>4, <2>5, PieceIsCode
  <2>7. Piece(p, code, at, i, piece)
    <3>1. CASE o.op \in R!Branches \cup {"adr", "adrp"}
      <4>1. Settles(p, code, at, aim, t)
        BY <1>1, <2>3, <3>1 DEF Settles
      <4>. HIDE DEF piece
      <4>. QED BY <3>1, <4>1 DEF Piece, o, aim, piece
    <3>2. CASE o.op \notin R!Branches \cup {"adr", "adrp"}
      <4>1. o.op \notin R!Conditional \cup {"adr", "adrp", "b", "bl"}
        BY <3>2 DEF R!Branches
      <4>2. piece = <<o>>
        BY <4>1, PieceOf
      <4>3. o.op \notin Placebound
        BY <2>1, <3>2 DEF Placebound
      <4>. HIDE DEF piece
      <4>. QED BY <4>2, <4>3 DEF Piece, o
    <3>. QED BY <3>1, <3>2
  <2>. HIDE DEF piece
  <2>. QED BY <2>1, <2>6, <2>7 DEF piece
<1>7. p.cut \in ShortCut .. MaxCut /\ (code[1].op \in {"set", "mov"} => LongCut <= p.cut)
  BY DEF Prefix
<1>8. Relocation(p, code, moved, at)
  BY <1>1, <1>2, <1>4, <1>5, <1>7 DEF Relocation
<1>. QED BY <1>8

LEMMA RelocationOfNone ==
  ASSUME NEW p, NEW code, Prefix(p, code), \A i \in DOMAIN code : code[i].op \notin Placebound
  PROVE  Relocation(p, code, code, At0(code))
<1>1. IsCode(code) /\ p.page \in Int /\ Size(code) = p.cut
  BY DEF Prefix
<1>2. At0(code)[1] = 0 /\ At0(code)[Len(code) + 1] = Size(code)
  BY <1>1, CodeSize
<1>3. \A i \in DOMAIN code : Piece(p, code, At0(code), i, <<code[i]>>)
  BY DEF Piece
<1>4. \A i \in DOMAIN code :
        /\ IsCode(<<code[i]>>) /\ PlacedIn(code, <<code[i]>>, At0(code)[i]) /\ At0(code)[i] \in Nat
        /\ At0(code)[i + 1] = At0(code)[i] + Size(<<code[i]>>)
  BY <1>1, PlacesItself
<1>5. \A i \in DOMAIN code :
        /\ At0(code)[i] \in Nat
        /\ \E piece : /\ IsCode(piece) /\ PlacedIn(code, piece, At0(code)[i])
                      /\ At0(code)[i + 1] = At0(code)[i] + Size(piece)
                      /\ Piece(p, code, At0(code), i, piece)
  BY <1>3, <1>4
<1>7. p.cut \in ShortCut .. MaxCut /\ (code[1].op \in {"set", "mov"} => LongCut <= p.cut)
  BY DEF Prefix
<1>. QED BY <1>1, <1>2, <1>5, <1>7 DEF Relocation

(* An ADRP that stays one, as it can where its page is near.               *)
LEMMA RelocationOfAdrp ==
  ASSUME ~amd64, NEW p, NEW o, o.op = "adrp", o.len = 4, Prefix(p, <<o>>),
         NEW e, e.op = "adrp", e.len = 4, Points(e, p.page) = Points(o, Entry), Entry \in Int
  PROVE  Relocation(p, <<o>>, <<e>>, At0(<<e>>))
<1>. DEFINE code == <<o>>
            moved == <<e>>
<1>1. IsCode(code) /\ p.page \in Int /\ Size(code) = p.cut
  BY DEF Prefix
<1>2. /\ IsCode(moved) /\ Len(moved) = 1 /\ moved[1] = e /\ DOMAIN moved = 1 .. 1
      /\ Len(code) = 1 /\ code[1] = o /\ DOMAIN code = 1 .. 1
  BY OneIsCode
<1>7. p.cut \in ShortCut .. MaxCut /\ (code[1].op \in {"set", "mov"} => LongCut <= p.cut)
  BY DEF Prefix
<1>8. moved = <<e>>
  OBVIOUS
<1>. HIDE DEF code, moved
<1>3. /\ At0(moved)[1] = 0 /\ At0(moved)[Len(moved) + 1] = Size(moved) /\ At0(code)[1] = 0
  BY <1>1, <1>2, CodeSize
<1>4. Piece(p, code, At0(moved), 1, moved)
  <2>1. Points(e, p.page + At0(moved)[1]) = Points(code[1], Entry + At0(code)[1])
    BY <1>1, <1>2, <1>3
  <2>. QED BY <1>2, <1>8, <2>1 DEF Piece
<1>5. /\ IsCode(moved) /\ PlacedIn(moved, moved, At0(moved)[1]) /\ At0(moved)[1] \in Nat
      /\ At0(moved)[1 + 1] = At0(moved)[1] + Size(moved)
  <2>1. <<moved[1]>> = moved /\ 1 \in DOMAIN moved
    BY <1>2, <1>8
  <2>. QED BY <1>2, <2>1, PlacesItself
<1>6. \A i \in DOMAIN code :
        /\ At0(moved)[i] \in Nat
        /\ \E piece : /\ IsCode(piece) /\ PlacedIn(moved, piece, At0(moved)[i])
                      /\ At0(moved)[i + 1] = At0(moved)[i] + Size(piece)
                      /\ Piece(p, code, At0(moved), i, piece)
  BY <1>2, <1>4, <1>5
<1>9. Relocation(p, code, moved, At0(moved))
  BY <1>1, <1>2, <1>3, <1>6, <1>7 DEF Relocation
<1>. QED BY <1>9 DEF code, moved

-----------------------------------------------------------------------------
(* A patch keeps what is known of the proxies, its own included.           *)
LEMMA StaticStays ==
  ASSUME target' = target
  PROVE \A m, ps : Static(m, ps)' <=> Static(m, ps)
<1>1. amd64' = amd64
  BY DEF amd64
<1>2. \A to : BranchTo(to)' = BranchTo(to)
  BY <1>1 DEF BranchTo
<1>3. \A i, pc : Points(i, pc)' = Points(i, pc)
  BY <1>1 DEF Points
<1>4. Zone' = Zone /\ Placebound' = Placebound /\ ShortCut' = ShortCut /\ LongCut' = LongCut
  BY <1>1 DEF Zone, Placebound, ShortCut, LongCut
<1>5. \A p, code, at, i, piece : Piece(p, code, at, i, piece)' <=> Piece(p, code, at, i, piece)
  BY <1>1, <1>3, <1>4 DEF Piece, Settles
<1>6. \A p, code, moved, at : Relocation(p, code, moved, at)' <=> Relocation(p, code, moved, at)
  BY <1>4, <1>5 DEF Relocation, MaxCut
<1>7. \A p, moved : Proxy(p, moved)' = Proxy(p, moved)
  BY <1>2 DEF Proxy
<1>8. \A m, code, r : Holds(m, code, r)' <=> Holds(m, code, r)
  BY <1>4 DEF Holds
<1>9. \A m, ps, k : Kept(m, ps, k)' <=> Kept(m, ps, k)
  BY <1>6, <1>7, <1>8 DEF Kept, OwnPage, Has
<1>. QED BY <1>4, <1>9 DEF Static, IsCell, Mapped

(* A patch keeps the proxies that are mapped elsewhere.                    *)
LEMMA PushStatic ==
  ASSUME Shape, Static(mem, patches), NEW p, patches' = Append(patches, p), target' = target,
         \A b \in DOMAIN mem : b \notin Zone => b \in DOMAIN mem' /\ mem'[b] = mem[b],
         \A b \in OwnPage(p) : b \notin DOMAIN mem,
         \A b \in DOMAIN p.saved : b \in Zone /\ p.saved[b] = mem[b],
         DOMAIN mem' \subseteq Zone \cup Mapped, \A b \in Zone : IsCell(mem'[b]),
         p.how # "verbatim" =>
           \E code, moved, at : /\ Relocation(p, code, moved, at) /\ Has(p.saved, code, Entry)
                                /\ Holds(mem', Proxy(p, moved), p.page)
  PROVE  Static(mem, patches)'
<1>. DEFINE n == Len(patches)
<1>1. IsSequence(patches) /\ n \in Nat
  BY DEF Shape, IsSequence
<1>2. /\ Len(patches') = n + 1 /\ patches'[n + 1] = p
      /\ \A k \in 1 .. n : patches'[k] = patches[k]
  BY <1>1, OneMore
<1>. HIDE DEF n
<1>3. ASSUME NEW k \in 1 .. n + 1
      PROVE  /\ \A b \in DOMAIN patches'[k].saved : IsCell(patches'[k].saved[b])
             /\ Kept(mem', patches', k)
  <2>1. CASE k = n + 1
    <3>1. patches'[k] = p /\ k + 1 .. Len(patches') = {}
      BY <1>1, <1>2, <2>1
    <3>2. \A b \in DOMAIN p.saved : IsCell(p.saved[b])
      BY DEF Static
    <3>3. Kept(mem', patches', k)
      BY <3>1 DEF Kept
    <3>. QED BY <3>1, <3>2, <3>3
  <2>2. CASE k # n + 1
    <3>1. k \in 1 .. n /\ patches'[k] = patches[k]
      BY <1>1, <1>2, <2>2
    <3>2. Kept(mem, patches, k) /\ \A b \in DOMAIN patches[k].saved : IsCell(patches[k].saved[b])
      BY <3>1 DEF Static, n
    <3>3. ASSUME NEW code, NEW moved, NEW at, Relocation(patches[k], code, moved, at),
                 Has(patches[k].saved, code, Entry),
                 Holds(mem, Proxy(patches[k], moved), patches[k].page),
                 \A j \in k + 1 .. Len(patches) :
                   \A b \in DOMAIN Bytes(Proxy(patches[k], moved), patches[k].page) :
                     b \notin OwnPage(patches[j])
          PROVE  /\ Holds(mem', Proxy(patches[k], moved), patches[k].page)
                 /\ \A j \in k + 1 .. n + 1 :
                      \A b \in DOMAIN Bytes(Proxy(patches[k], moved), patches[k].page) :
                        b \notin OwnPage(patches'[j])
      <4>. DEFINE B == Bytes(Proxy(patches[k], moved), patches[k].page)
      <4>1. \A b \in DOMAIN B : b \in DOMAIN mem /\ b \notin Zone /\ mem[b] = B[b]
        BY <3>3 DEF Holds
      <4>2. Holds(mem', Proxy(patches[k], moved), patches[k].page)
        BY <4>1 DEF Holds
      <4>3. ASSUME NEW j \in k + 1 .. n + 1, NEW b \in DOMAIN B
            PROVE  b \notin OwnPage(patches'[j])
        <5>1. CASE j = n + 1
          BY <1>2, <4>1, <5>1
        <5>2. CASE j # n + 1
          <6>1. j \in k + 1 .. n /\ j \in 1 .. n
            BY <1>1, <3>1, <5>2
          <6>2. b \notin OwnPage(patches[j])
            BY <3>3, <6>1 DEF n
          <6>. QED BY <1>2, <6>1, <6>2
        <5>. QED BY <5>1, <5>2
      <4>. QED BY <4>2, <4>3
    <3>4. Kept(mem', patches', k)
      BY <1>2, <3>1, <3>2, <3>3 DEF Kept
    <3>. QED BY <3>1, <3>2, <3>4
  <2>. QED BY <2>1, <2>2
<1>4. Static(mem', patches')
  BY <1>2, <1>3 DEF Static
<1>. QED BY <1>4, StaticStays

-----------------------------------------------------------------------------
(* What is read at the entry.                                              *)
LEMMA DisplacedIs ==
  ASSUME Inv, Static(mem, patches), NEW n \in Nat, n <= Size(target.code),
         NEW code, code = Displaced(n), \A i \in DOMAIN code : code[i] # Bad
  PROVE  /\ IsCode(code) /\ Size(code) = n /\ Has(mem, code, Entry)
         /\ \A i \in DOMAIN code : code[i].arg \in Int /\ code[i].len \in Lens
<1>. DEFINE Z == Size(target.code)
<1>1. Entry \in Nat /\ Z \in Nat /\ \A b \in Zone : mem[b].inst.len \in Lens
  BY InvHolds, TargetIsCode
<1>2. \A b \in Entry .. Entry + n - 1 : b \in Zone
  <2>1. Zone = Entry .. Entry + Z - 1 /\ n <= Z
    BY DEF Zone
  <2>. HIDE DEF Z
  <2>. QED BY <1>1, <2>1
<1>. HIDE DEF Z
<1>3. \A b \in Entry .. Entry + n - 1 : mem[b].inst.len \in Nat \ {0}
  <2>1. \A l \in Lens : l \in Nat \ {0}
    BY DEF Lens
  <2>. QED BY <1>1, <1>2, <2>1
<1>4. \A b \in Zone : mem[b] = [inst |-> mem[b].inst, at |-> mem[b].at] /\ mem[b].inst.arg \in Int
  BY DEF Static, IsCell
<1>5. \A b \in Entry .. Entry + n - 1 : mem[b] = [inst |-> mem[b].inst, at |-> mem[b].at]
  BY <1>2, <1>4
<1>6. code = Instructions(mem, Entry, n)
  BY DEF Displaced
<1>7. IsCode(code) /\ Size(code) = n /\ Has(mem, code, Entry)
  BY <1>1, <1>3, <1>5, <1>6, InstructionsHave
<1>8. ASSUME NEW i \in DOMAIN code
      PROVE  code[i].arg \in Int /\ code[i].len \in Lens
  <2>. DEFINE b == Entry + At0(code)[i]
  <2>1. Runs(mem, code, Entry)
    BY <1>1, <1>7, HasRuns
  <2>2. Decode(mem, b) = code[i]
    BY <2>1 DEF Runs
  <2>3. code[i] = mem[b].inst
    BY <2>2 DEF Decode
  <2>4. b \in Zone
    <3>1. Entry + At0(code)[i] + 0 \in DOMAIN Bytes(code, Entry)
      <4>1. code[i].len \in Nat \ {0}
        BY <1>7, CodeSize
      <4>2. 0 \in 0 .. code[i].len - 1
        BY <4>1
      <4>3. IsCode(code) /\ Entry \in Int
        BY <1>1, <1>7
      <4>. HIDE DEF b
      <4>. QED BY <4>2, <4>3, BytesAt
    <3>2. DOMAIN Bytes(code, Entry) = Entry .. Entry + Size(code) - 1
      BY <1>1, <1>7, BytesAreOfCode
    <3>4. b = Entry + At0(code)[i]
      OBVIOUS
    <3>. HIDE DEF b
    <3>3. b \in Int /\ Entry + At0(code)[i] + 0 = b
      <4>1. At0(code)[i] \in Nat
        <5>1. /\ DOMAIN code = 1 .. Len(code) /\ Len(code) \in Nat
              /\ At0(code) \in [1 .. Len(code) + 1 -> Nat]
          BY <1>7, CodeSize
        <5>. QED BY <5>1
      <4>. QED BY <1>1, <3>4, <4>1
    <3>. QED BY <1>2, <1>7, <3>1, <3>2, <3>3
  <2>. HIDE DEF b
  <2>. QED BY <1>1, <1>4, <2>3, <2>4
<1>. QED BY <1>7, <1>8

(* The first instruction of a prefix is the one at the entry.              *)
LEMMA FirstIs ==
  ASSUME NEW m, NEW code, IsCode(code), Has(m, code, Entry), 0 < Size(code), Entry \in Int
  PROVE  1 \in DOMAIN code /\ code[1] = Decode(m, Entry)
<1>1. /\ DOMAIN code = 1 .. Len(code) /\ Len(code) \in Nat /\ At0(code)[1] = 0
      /\ At0(code)[Len(code) + 1] = Size(code)
  BY CodeSize
<1>2. Len(code) # 0
  BY <1>1
<1>3. 1 \in DOMAIN code
  BY <1>1, <1>2
<1>4. Runs(m, code, Entry)
  BY HasRuns
<1>5. Decode(m, Entry + At0(code)[1]) = code[1]
  BY <1>3, <1>4 DEF Runs
<1>. QED BY <1>1, <1>3, <1>5

(* An entry that begins like a branch of mockey is one.                    *)
LEMMA EntryIs ==
  ASSUME Inv, OrdinaryFunctions, Decode(mem, Entry).op \in {"set", "mov"}
  PROVE  \E v : Has(mem, BranchInto(v), Entry)
<1>. DEFINE n == Len(patches)
<1>1. PICK h : Layers(h, mem, patches)
  BY DEF Inv
<1>2. /\ target \in Functions /\ Zone \subseteq DOMAIN mem /\ n \in Nat
      /\ Entry \in Nat /\ IsCode(target.code) /\ Size(target.code) \in Nat /\ Size(target.code) >= 26
  BY InvHolds, TargetIsCode
<1>3. \A b \in Zone : h[n + 1][b] = mem[b]
  BY <1>1 DEF Layers
<1>4. \A code : InEntry(h[n + 1], code) => Has(mem, code, Entry)
  BY <1>2, <1>3 DEF InEntry, Has
<1>5. CASE n = 0
  <2>1. n + 1 = 1
    BY <1>5
  <2>2. \A b \in Zone : mem[b] = Bytes(target.code, Entry)[b]
    BY <1>1, <1>3, <2>1 DEF Layers
  <2>3. DOMAIN Bytes(target.code, Entry) = Entry .. Entry + Size(target.code) - 1
    BY <1>2, BytesAreOfCode
  <2>4. Has(mem, target.code, Entry)
    BY <1>2, <2>2, <2>3 DEF Has, Zone
  <2>5. 1 \in DOMAIN target.code /\ target.code[1] = Decode(mem, Entry)
    BY <1>2, <2>4, FirstIs
  <2>6. target.code[1].op \notin {"set", "mov"}
    <3>1. Ordinary(target)
      BY <1>2 DEF OrdinaryFunctions
    <3>. QED BY <2>5, <3>1 DEF Ordinary
  <2>. QED BY <2>5, <2>6
<1>6. CASE n # 0
  <2>1. n \in 1 .. n
    BY <1>2, <1>6
  <2>2. LeadsTo(h[n + 1], mem, patches, n)
    BY <1>1, <2>1 DEF Layers
  <2>3. CASE InEntry(h[n + 1], BranchInto(patches[n].hook))
    BY <1>4, <2>3
  <2>4. ASSUME NEW r \in Int, InEntry(h[n + 1], <<Jump(r)>>) PROVE FALSE
    <3>. DEFINE j == Jump(r)
                w == <<j>>
    <3>1. j.len \in Nat \ {0} /\ j.op \notin {"set", "mov"}
      BY DEF Jump, I
    <3>2. IsCode(w) /\ w[1] = j /\ Size(w) = j.len
      BY <3>1, OneIsCode
    <3>3. Has(mem, w, Entry)
      BY <1>4, <2>4
    <3>. HIDE DEF j, w
    <3>4. w[1] = Decode(mem, Entry)
      BY <1>2, <3>1, <3>2, <3>3, FirstIs
    <3>. QED BY <3>1, <3>2, <3>4
  <2>. QED BY <2>2, <2>3, <2>4 DEF LeadsTo
<1>. QED BY <1>5, <1>6

LEMMA BranchIsLong ==
  ASSUME Inv, ~amd64, NEW v, Has(mem, BranchInto(v), Entry)
  PROVE  ~TooShort
<1>. DEFINE w == BranchInto(v)
<1>1. Entry \in Nat
  BY InvHolds, TargetIsCode
<1>2. /\ IsCode(w) /\ DOMAIN w = 1 .. 6 /\ w[5].op = "ldrset" /\ w[6].op = "hookset"
      /\ \A k \in 1 .. 4 : w[k].op = "mov"
  BY BranchCode
<1>3. \A k \in DOMAIN w : w[k].len = 4
  <2>1. Sound(w)
    BY LongBranchIsSound
  <2>. QED BY <2>1 DEF Sound, Lens
<1>4. \A k \in 1 .. Len(w) + 1 : At0(w)[k] = 4 * (k - 1)
  BY <1>2, <1>3, FoursOffsets
<1>5. Runs(mem, w, Entry)
  BY <1>1, <1>2, HasRuns
<1>. HIDE DEF w
<1>6. Len(w) = 6
  BY <1>2, CodeSize
<1>7. \A k \in 1 .. 6 : Decode(mem, Entry + 4 * (k - 1)).op # "ret"
  <2>. SUFFICES ASSUME NEW k \in 1 .. 6 PROVE Decode(mem, Entry + 4 * (k - 1)).op # "ret"
    OBVIOUS
  <2>1. Decode(mem, Entry + 4 * (k - 1)) = w[k]
    BY <1>2, <1>4, <1>5, <1>6 DEF Runs
  <2>2. w[k].op # "ret"
    BY <1>2
  <2>. QED BY <2>1, <2>2
<1>8. ASSUME NEW p \in 0 .. 24 - 4, p % 4 = 0 PROVE Decode(mem, Entry + p).op # "ret"
  <2>1. PICK k \in 1 .. 6 : p = 4 * (k - 1)
    <3>1. p \in {0, 4, 8, 12, 16, 20}
      BY <1>8
    <3>. QED BY <3>1
  <2>. QED BY <1>7, <2>1
<1>. QED BY <1>8, SameBytes DEF TooShort, R!TooShortToPatch, R!LongBranch

-----------------------------------------------------------------------------
(* Patching keeps what is known of the proxies.                            *)

(* The places of the next patch are mapped by mmap or AllocTrampoline.     *)
LEMMA PlacesAreMapped ==
  ASSUME Inv, Ready
  PROVE  /\ Page \in Int /\ NearPages[Next1] \in Int /\ Slots[Next1] \in Int
         /\ \A b \in Page .. Page + PageBytes - 1 : b \in Mapped
         /\ \A b \in NearPages[Next1] .. NearPages[Next1] + PageBytes - 1 : b \in Mapped
         /\ \A b \in Slots[Next1] .. Slots[Next1] + 23 : b \in Mapped
<1>1. Next1 \in DOMAIN Pages
  BY InvHolds DEF Ready, Next1
<1>2. /\ Pages \in Seq(Nat) /\ NearPages \in Seq(Nat) /\ Slots \in Seq(Nat)
      /\ Len(NearPages) = Len(Pages) /\ Len(Slots) = Len(Pages)
  BY CutAssumption
<1>3. Next1 \in 1 .. Len(Pages)
  BY <1>1, <1>2
<1>4. Pages[Next1] \in Nat /\ NearPages[Next1] \in Nat /\ Slots[Next1] \in Nat
  BY <1>2, <1>3
<1>. DEFINE S == {Pages[n] .. Pages[n] + PageBytes - 1 : n \in 1 .. Len(Pages)}
            T == {NearPages[n] .. NearPages[n] + PageBytes - 1 : n \in 1 .. Len(Pages)}
            U == {Slots[n] .. Slots[n] + 23 : n \in 1 .. Len(Pages)}
<1>5. /\ Pages[Next1] .. Pages[Next1] + PageBytes - 1 \in S
      /\ NearPages[Next1] .. NearPages[Next1] + PageBytes - 1 \in T
      /\ Slots[Next1] .. Slots[Next1] + 23 \in U
  BY <1>3
<1>6. Mapped = UNION (S \cup T \cup U)
  BY DEF Mapped
<1>. HIDE DEF S, T, U
<1>7. \A s \in S \cup T \cup U : \A b \in s : b \in Mapped
  BY <1>6
<1>8. \A b \in Pages[Next1] .. Pages[Next1] + PageBytes - 1 : b \in Mapped
  BY <1>5, <1>7, Zenon
<1>9. \A b \in NearPages[Next1] .. NearPages[Next1] + PageBytes - 1 : b \in Mapped
  BY <1>5, <1>7, Zenon
<1>10. \A b \in Slots[Next1] .. Slots[Next1] + 23 : b \in Mapped
  BY <1>5, <1>7, Zenon
<1>. QED BY <1>4, <1>8, <1>9, <1>10 DEF Page

(* The operands of what is written are numbers.                            *)
LEMMA PadArgs ==
  ASSUME NEW e, Sound(e), NEW c \in Nat, Size(e) <= c, amd64 \/ Size(e) = c,
         \A i \in DOMAIN e : e[i].arg \in Int
  PROVE  \A i \in DOMAIN PadEntry(e, c) : PadEntry(e, c)[i].arg \in Int
<1>. DEFINE w == PadEntry(e, c)
            z == Size(e)
<1>1. z \in Nat /\ IsCode(e)
  BY CodeSize DEF Sound
<1>2. CASE z = c
  <2>1. w = e
    BY <1>1, <1>2, SameBytes DEF PadEntry, X!PadEntry, R!PadEntry
  <2>. QED BY <2>1
<1>3. CASE z # c
  <2>1. amd64 /\ ~(z >= c) /\ c - z \in Nat
    BY <1>1, <1>3
  <2>. DEFINE v == [k \in 1 .. c - z |-> X!Nop(1)]
  <2>2. w = e \o v
    BY <2>1, SameBytes DEF PadEntry, X!PadEntry
  <2>3. IsCode(v)
    BY <2>1, NopsAreSound DEF Sound
  <2>4. \A k \in DOMAIN v : v[k].arg \in Int
    BY DEF X!Nop, X!I
  <2>. HIDE DEF v, w, z
  <2>5. \A i \in DOMAIN (e \o v) : (e \o v)[i].arg \in Int
    BY <1>1, <2>3, <2>4, JoinedFrom
  <2>. QED BY <2>2, <2>5 DEF w
<1>. QED BY <1>2, <1>3

(* What the patches have in common.                                        *)
LEMMA InstallStatic ==
  ASSUME Inv, Static(mem, patches), NEW how, NEW cut, NEW page, NEW prefix, NEW entry, NEW behind,
         CutOK(cut), Sound(entry), Size(entry) <= cut, amd64 \/ Size(entry) = cut,
         \A i \in DOMAIN entry : entry[i].arg \in Int,
         page \in Int, \A b \in page .. page + PageBytes - 1 : b \in Mapped,
         IsCode(prefix), IsCode(behind),
         how # "verbatim" =>
           \E code, at : /\ Has(mem, code, Entry)
                         /\ \A p : p.page = page /\ p.cut = cut => Relocation(p, code, prefix, at),
         Install(how, cut, page, prefix, entry, behind)
  PROVE  Static(mem, patches)'
<1>. DEFINE p == [how |-> how, cut |-> cut, page |-> page, hook |-> HookAddr(Next1),
                  saved |-> Copy(mem, Entry, cut)]
            code == PadEntry(entry, cut)
            back == BranchTo(Entry + cut)
            pre == prefix \o back
            proxy == pre \o behind
            m == Fill(mem, proxy, page, PageBytes)
            Z == Size(target.code)
<1>1. /\ mem' = Write(m, code, Entry) /\ patches' = Append(patches, p) /\ target' = target
      /\ Size(prefix) + Size(back) <= PageBytes
  BY DEF Install, Fits
<1>2. /\ target \in Functions /\ Zone \subseteq DOMAIN mem /\ Shape
      /\ Z \in Nat /\ Entry \in Nat /\ PageBytes \in Nat
  BY InvHolds, TargetIsCode, CutAssumption DEF Inv
<1>3. cut \in Nat /\ cut <= Z
  BY DEF CutOK
<1>4. Sound(code) /\ Size(code) = cut /\ \A i \in DOMAIN code : code[i].arg \in Int
  BY <1>3, PadFillsCut, PadArgs
<1>5. /\ p.how = how /\ p.cut = cut /\ p.page = page /\ DOMAIN p.saved = Entry .. Entry + cut - 1
      /\ \A b \in DOMAIN p.saved : p.saved[b] = mem[b]
      /\ Proxy(p, prefix) = pre
  BY DEF Copy, Proxy
<1>6. \A b \in page .. page + PageBytes - 1 : b \notin Zone /\ b \notin DOMAIN mem
  BY <1>2, FreeIsAway DEF Install
<1>7. \A b \in OwnPage(p) : b \notin DOMAIN mem
  BY <1>5, <1>6 DEF OwnPage
<1>8. IsCode(back) /\ IsCode(pre) /\ Size(pre) = Size(prefix) + Size(back)
  <2>1. IsCode(back)
    BY BackCode
  <2>. HIDE DEF back
  <2>. QED BY <2>1, JoinIsCode, JoinOffsets
<1>. HIDE DEF p, code, back, pre, proxy, m, Z
<1>9. \A b \in Entry .. Entry + cut - 1 : b \in Zone
  BY <1>2, <1>3 DEF Zone, Z
<1>10. Zone \subseteq DOMAIN m /\ (\A b \in Zone : m[b] = mem[b]) /\ DOMAIN m \subseteq Zone \cup Mapped
  <2>1. PICK new : m = Overlay(new, mem) /\ DOMAIN new \subseteq page .. page + PageBytes - 1
    BY FillDomain DEF m
  <2>2. \A b \in DOMAIN new : b \notin Zone /\ b \in Mapped
    BY <1>6, <2>1
  <2>3. DOMAIN m = DOMAIN new \cup DOMAIN mem
    BY <2>1 DEF Overlay
  <2>4. DOMAIN mem \subseteq Zone \cup Mapped
    BY DEF Static
  <2>. QED BY <1>2, <2>1, <2>2, <2>3, <2>4, WriteElsewhere
<1>11. Entered(mem', code, cut)
  BY <1>1, <1>2, <1>4, <1>10, WriteEntry
<1>12. \A b \in DOMAIN m : b \notin Zone => b \in DOMAIN mem' /\ mem'[b] = m[b]
  BY <1>1, <1>2, <1>3, <1>4, EntryIsInZone DEF Z
<1>13. \A b \in DOMAIN mem : b \notin Zone => b \in DOMAIN mem' /\ mem'[b] = mem[b]
  <2>1. \A b \in DOMAIN mem : b \in DOMAIN m /\ m[b] = mem[b]
    BY <1>6, FillHolds DEF m
  <2>. QED BY <1>12, <2>1
<1>14. DOMAIN Bytes(code, Entry) = Entry .. Entry + cut - 1
  <2>1. IsCode(code) /\ Entry \in Int
    BY <1>2, <1>4 DEF Sound
  <2>. QED BY <1>4, <2>1, BytesAreOfCode
<1>15. DOMAIN mem' \subseteq Zone \cup Mapped
  <2>1. DOMAIN mem' = DOMAIN Bytes(code, Entry) \cup DOMAIN m
    BY <1>1 DEF Write, Overlay
  <2>. QED BY <1>9, <1>10, <1>14, <2>1
<1>16. \A b \in Zone : IsCell(mem'[b])
  <2>1. \A b \in DOMAIN Bytes(code, Entry) : IsCell(Bytes(code, Entry)[b])
    <3>1. IsCode(code) /\ Entry \in Int
      BY <1>2, <1>4 DEF Sound
    <3>. QED BY <1>4, <3>1, BytesAreCells
  <2>2. \A b \in Zone : b \in Int /\ Entry <= b
    BY <1>2 DEF Zone
  <2>3. \A b \in Zone : b < Entry + cut => b \in DOMAIN Bytes(code, Entry)
    BY <1>2, <1>3, <1>14, <2>2
  <2>4. \A b \in Zone : IsCell(mem[b])
    BY DEF Static
  <2>. QED BY <1>11, <2>1, <2>3, <2>4 DEF Entered
<1>17. \A b \in DOMAIN p.saved : b \in Zone /\ p.saved[b] = mem[b]
  BY <1>5, <1>9
<1>18. Holds(mem', pre, page)
  <2>. DEFINE s == Size(pre)
  <2>1. s \in Nat /\ s <= PageBytes /\ DOMAIN Bytes(pre, page) = page .. page + s - 1
    BY <1>1, <1>8, CodeSize, BytesAreOfCode
  <2>. HIDE DEF s
  <2>2. \A b \in DOMAIN Bytes(pre, page) : b \in page .. page + PageBytes - 1
    BY <1>2, <2>1
  <2>3. \A b \in DOMAIN Bytes(pre, page) :
          b \in DOMAIN Bytes(proxy, page) /\ Bytes(proxy, page)[b] = Bytes(pre, page)[b]
    BY <1>8, JoinBytes DEF proxy
  <2>4. \A b \in DOMAIN Bytes(pre, page) : b \in DOMAIN m /\ m[b] = Bytes(pre, page)[b]
    BY <2>2, <2>3, FillHolds DEF m
  <2>. QED BY <1>6, <1>12, <2>2, <2>4 DEF Holds
<1>19. ASSUME p.how # "verbatim"
       PROVE  \E c, moved, at : /\ Relocation(p, c, moved, at) /\ Has(p.saved, c, Entry)
                                /\ Holds(mem', Proxy(p, moved), p.page)
  <2>1. PICK c, at : /\ Has(mem, c, Entry)
                     /\ \A q : q.page = page /\ q.cut = cut => Relocation(q, c, prefix, at)
    BY <1>5, <1>19
  <2>2. Relocation(p, c, prefix, at)
    BY <1>5, <2>1
  <2>3. DOMAIN Bytes(c, Entry) = DOMAIN p.saved
    <3>1. IsCode(c) /\ Size(c) = cut /\ Entry \in Int
      BY <1>2, <1>5, <2>2 DEF Relocation
    <3>. QED BY <1>5, <3>1, BytesAreOfCode
  <2>4. Has(p.saved, c, Entry)
    BY <1>5, <2>1, <2>3 DEF Has
  <2>. QED BY <1>5, <1>18, <2>2, <2>4
<1>20. p.how # "verbatim" =>
         \E c, moved, at : /\ Relocation(p, c, moved, at) /\ Has(p.saved, c, Entry)
                           /\ Holds(mem', Proxy(p, moved), p.page)
  BY <1>19
<1>. QED BY <1>1, <1>2, <1>7, <1>13, <1>15, <1>16, <1>17, <1>20, PushStatic

(* The operands of the branch into a hook are numbers.                     *)
LEMMA BranchArgs ==
  ASSUME NEW v \in Word, NEW c, c = BranchInto(v)
  PROVE  \A i \in DOMAIN c : c[i].arg \in Int
<1>1. v \in Nat
  BY SMTT(30) DEF Word, R!Addresses
<1>2. CASE amd64
  <2>1. c = <<X!rdxMOV(v), X!I("hookset", 2, 0, 0)>>
    BY <1>2 DEF BranchInto, X!BranchInto
  <2>2. DOMAIN c = 1 .. 2
    BY <1>2, BranchCode
  <2>3. c[1].arg = v /\ c[2].arg = 0
    BY <2>1 DEF X!rdxMOV, X!I
  <2>4. \A i \in 1 .. 2 : i = 1 \/ i = 2
    OBVIOUS
  <2>. QED BY <1>1, <2>2, <2>3, <2>4
<1>3. CASE ~amd64
  <2>. DEFINE u == R!x26MOV(v)
              w == <<R!A("ldrset", 0, 0), R!A("hookset", 0, 0)>>
  <2>1. c = u \o w
    BY <1>3 DEF BranchInto, R!BranchInto
  <2>2. IsSequence(u) /\ Len(u) = 4
    BY DEF IsSequence, R!x26MOV, R!MoveAddress
  <2>3. \A k \in 1 .. 4 : u[k].len = 4 /\ u[k] # Bad
    BY InstFields DEF R!x26MOV, R!MoveAddress, R!A
  <2>4. \A k \in 1 .. 4 : u[k].arg = (v \div R!Weight[k]) % 16
    BY DEF R!x26MOV, R!MoveAddress, R!A, R!I
  <2>5. \A k \in 1 .. 4 : (v \div R!Weight[k]) % 16 \in Int
    <3>1. \A k \in 1 .. 4 : R!Weight[k] \in Nat \ {0}
      BY DEF R!Weight
    <3>2. \A x \in Nat \ {0} : (v \div x) % 16 \in Int
      BY <1>1
    <3>. QED BY <3>1, <3>2
  <2>6. IsSequence(w) /\ Len(w) = 2
    BY DEF IsSequence
  <2>7. \A i \in 1 .. 2 : w[i].len = 4 /\ w[i] # Bad
    BY InstFields DEF R!A
  <2>8. w[1].arg = 0 /\ w[2].arg = 0
    BY DEF R!A, R!I
  <2>. HIDE DEF u, w
  <2>9. IsCode(u) /\ DOMAIN u = 1 .. 4
    <3>1. 4 \in Nat \ {0}
      OBVIOUS
    <3>2. IsCode(u)
      BY <2>2, <2>3, <3>1, Fours, Zenon
    <3>. QED BY <2>2, <3>2, CodeSize
  <2>10. IsCode(w) /\ DOMAIN w = 1 .. 2
    <3>1. 2 \in Nat \ {0}
      OBVIOUS
    <3>2. IsCode(w)
      BY <2>6, <2>7, <3>1, Fours, Zenon
    <3>. QED BY <2>6, <3>2, CodeSize
  <2>11. \A i \in DOMAIN u : u[i].arg \in Int
    BY <2>4, <2>5, <2>9
  <2>12. \A i \in DOMAIN w : w[i].arg \in Int
    <3>1. \A i \in 1 .. 2 : i = 1 \/ i = 2
      OBVIOUS
    <3>. QED BY <2>8, <2>10, <3>1
  <2>13. IsCode(u) /\ IsCode(w)
    BY <2>9, <2>10
  <2>14. ASSUME NEW i \in DOMAIN (u \o w) PROVE (u \o w)[i].arg \in Int
    <3>1. \/ \E j \in DOMAIN u : (u \o w)[i] = u[j]
          \/ \E j \in DOMAIN w : (u \o w)[i] = w[j]
      BY <2>13, JoinedFrom
    <3>. QED BY <2>11, <2>12, <3>1, Zenon
  <2>. QED BY <2>1, <2>14, Zenon
<1>. QED BY <1>2, <1>3

(* What is known of a copy depends on the patch's page and cut alone.      *)
LEMMA RelocationFits ==
  ASSUME NEW p, NEW q, p.page = q.page, p.cut = q.cut, NEW code, NEW moved, NEW at,
         Relocation(q, code, moved, at)
  PROVE  Relocation(p, code, moved, at)
<1>1. \A aim, t : Settles(p, code, at, aim, t) <=> Settles(q, code, at, aim, t)
  BY DEF Settles
<1>2. \A i, piece : Piece(p, code, at, i, piece) <=> Piece(q, code, at, i, piece)
  BY <1>1 DEF Piece
<1>. QED BY <1>2 DEF Relocation

(* The displaced prefix of a target.                                       *)
LEMMA PrefixIs ==
  ASSUME Inv, Static(mem, patches), NEW p, p.page \in Int, CutOK(p.cut), p.cut \in ShortCut .. MaxCut,
         NEW code, code = Displaced(p.cut), \A i \in DOMAIN code : code[i] # Bad,
         Decode(mem, Entry).op \in {"set", "mov"} => LongCut <= p.cut
  PROVE  /\ Prefix(p, code) /\ Has(mem, code, Entry) /\ 1 \in DOMAIN code
         /\ code[1] = Decode(mem, Entry)
         /\ \A i \in DOMAIN code : code[i].arg \in Int /\ code[i].len \in Lens
<1>1. p.cut \in Nat /\ p.cut <= Size(target.code) /\ 0 < p.cut
  BY DEF CutOK, ShortCut
<1>2. /\ IsCode(code) /\ Size(code) = p.cut /\ Has(mem, code, Entry)
      /\ \A i \in DOMAIN code : code[i].arg \in Int /\ code[i].len \in Lens
  BY <1>1, DisplacedIs
<1>3. Entry \in Int
  BY InvHolds, TargetIsCode
<1>4. 1 \in DOMAIN code /\ code[1] = Decode(mem, Entry)
  BY <1>1, <1>2, <1>3, FirstIs
<1>. QED BY <1>2, <1>4 DEF Prefix

(* The prefix relocated.                                                   *)
LEMMA RelocatedIs ==
  ASSUME Inv, Static(mem, patches), NEW cut, NEW page \in Int, CutOK(cut), cut \in ShortCut .. MaxCut,
         Decode(mem, Entry).op \in {"set", "mov"} => LongCut <= cut,
         Relocated(cut, page).ok
  PROVE  \E code, at : /\ Has(mem, code, Entry)
                       /\ \A p : p.page = page /\ p.cut = cut =>
                            Relocation(p, code, Relocated(cut, page).code, at)
<1>. DEFINE q == [page |-> page, cut |-> cut]
            code == Displaced(cut)
            moved == Relocated(cut, page).code
<1>1. q.page = page /\ q.cut = cut
  OBVIOUS
<1>2. Entry \in Int
  BY InvHolds, TargetIsCode
<1>3. \A i \in DOMAIN code : code[i] # Bad
  <2>1. CASE amd64
    <3>. DEFINE r == X!Relocate(code, Entry, page)
    <3>1. r.ok
      BY <2>1 DEF Relocated
    <3>2. ~(\A i \in DOMAIN code : code[i] # X!Bad /\ code[i].op # "loop") => r.ok = FALSE
      BY DEF X!Relocate
    <3>. HIDE DEF r, code
    <3>. QED BY <3>1, <3>2, SameBytes
  <2>2. CASE ~amd64
    <3>. DEFINE r == R!Relocate(code, Entry, page)
    <3>1. r.ok
      BY <2>2 DEF Relocated
    <3>2. ~(\A i \in DOMAIN code : R!RelocatedSize(code[i]) # 0) => r.ok = FALSE
      BY DEF R!Relocate
    <3>3. R!RelocatedSize(Bad) = 0
      BY DEF R!RelocatedSize, R!Conditional, Bad, I
    <3>. HIDE DEF r, code
    <3>. QED BY <3>1, <3>2, <3>3
  <2>. QED BY <2>1, <2>2
<1>. HIDE DEF q, code
<1>4. /\ Prefix(q, code) /\ Has(mem, code, Entry)
      /\ \A i \in DOMAIN code : code[i].arg \in Int /\ code[i].len \in Lens
  BY <1>1, <1>3, PrefixIs DEF code
<1>5. \E at : Relocation(q, code, moved, at)
  <2>1. CASE amd64
    <3>1. X!Relocate(code, Entry, q.page).ok /\ moved = X!Relocate(code, Entry, q.page).code
      BY <1>1, <2>1 DEF Relocated, code
    <3>. HIDE DEF moved
    <3>. QED BY <1>2, <1>4, <2>1, <3>1, RelocationOfAmd64
  <2>2. CASE ~amd64
    <3>1. R!Relocate(code, Entry, q.page).ok /\ moved = R!Relocate(code, Entry, q.page).code
      BY <1>1, <2>2 DEF Relocated, code
    <3>2. \A i \in DOMAIN code : code[i].arg \in Int /\ code[i].len = 4
      BY <1>4, <2>2 DEF Lens
    <3>. HIDE DEF moved
    <3>. QED BY <1>2, <1>4, <2>2, <3>1, <3>2, RelocationOfArm64
  <2>. QED BY <2>1, <2>2
<1>6. PICK at : Relocation(q, code, moved, at)
  BY <1>5
<1>. HIDE DEF moved
<1>7. \A p : p.page = page /\ p.cut = cut => Relocation(p, code, moved, at)
  BY <1>1, <1>6, RelocationFits
<1>. QED BY <1>4, <1>7 DEF moved

LEMMA RelocatedIsCode ==
  ASSUME Inv, Static(mem, patches), NEW cut, NEW page \in Int, CutOK(cut), cut \in ShortCut .. MaxCut,
         LongCut <= cut
  PROVE  IsCode(Relocated(cut, page).code)
<1>1. IsCode(Displaced(cut))
  BY DisplacedIsCode DEF CutOK
<1>2. CASE amd64
  BY <1>1, <1>2, MovedIsCode DEF Relocated
<1>3. CASE ~amd64 /\ ~Relocated(cut, page).ok
  <2>. DEFINE r == R!Relocate(Displaced(cut), Entry, page)
  <2>1. r.ok = FALSE \/ r.ok = TRUE
    BY DEF R!Relocate
  <2>2. r.ok = FALSE => r.code = Displaced(cut)
    BY DEF R!Relocate
  <2>3. Relocated(cut, page) = r
    BY <1>3 DEF Relocated
  <2>. HIDE DEF r
  <2>. QED BY <1>1, <1>3, <2>1, <2>2, <2>3
<1>4. CASE Relocated(cut, page).ok
  <2>1. PICK code, at : \A p : p.page = page /\ p.cut = cut =>
                            Relocation(p, code, Relocated(cut, page).code, at)
    BY <1>4, RelocatedIs
  <2>. DEFINE q == [page |-> page, cut |-> cut]
  <2>2. Relocation(q, code, Relocated(cut, page).code, at)
    BY <2>1
  <2>. QED BY <2>2 DEF Relocation
<1>. QED BY <1>2, <1>3, <1>4

LEMMA LongCutIs ==
  ASSUME Inv, NEW chk \in BOOLEAN, Cut(LongBranch, chk) # 0
  PROVE  /\ CutOK(Cut(LongBranch, chk)) /\ Cut(LongBranch, chk) \in ShortCut .. MaxCut
         /\ LongCut <= Cut(LongBranch, chk)
<1>. DEFINE c == Cut(LongBranch, chk)
<1>1. LongBranch = LongCut
  BY DEF LongBranch, LongCut, X!LongBranch, R!LongBranch
<1>2. CutOK(c) /\ LongCut <= c /\ c <= MaxCut
  BY <1>1, InvHolds, CutIsOK
<1>. HIDE DEF c
<1>3. c \in Nat
  BY <1>2 DEF CutOK
<1>4. c \in ShortCut .. MaxCut
  BY <1>2, <1>3 DEF ShortCut, LongCut, MaxCut
<1>. QED BY <1>2, <1>4 DEF c

LEMMA NothingIsCode == IsCode(<<>>)
BY DEF IsCode, IsSequence

LEMMA HookEntry ==
  ASSUME Inv, Ready
  PROVE  LET e == BranchInto(HookAddr(Next1))
         IN  Sound(e) /\ IsCode(e) /\ \A i \in DOMAIN e : e[i].arg \in Int
<1>1. HookAddr(Next1) \in Word
  BY HookIsAddress
<1>. QED BY <1>1, LongBranchIsSound, BranchArgs DEF Sound

(* With the long branch, and the prefix as it was relocated.               *)
LEMMA LongStatic ==
  ASSUME Inv, Ready, Static(mem, patches), NEW chk \in BOOLEAN, Cut(LongBranch, chk) # 0,
         NEW how, NEW prefix, IsCode(prefix),
         how # "verbatim" =>
           \E code, at : /\ Has(mem, code, Entry)
                         /\ \A p : p.page = Page /\ p.cut = Cut(LongBranch, chk) =>
                              Relocation(p, code, prefix, at),
         Install(how, Cut(LongBranch, chk), Page, prefix, BranchInto(HookAddr(Next1)), <<>>)
  PROVE  Static(mem, patches)'
<1>. DEFINE cut == Cut(LongBranch, chk)
            entry == BranchInto(HookAddr(Next1))
<1>1. /\ CutOK(cut) /\ Sound(entry) /\ Size(entry) <= cut /\ (amd64 \/ Size(entry) = cut)
      /\ \A i \in DOMAIN entry : entry[i].arg \in Int
  BY LongCutIsOK, HookEntry
<1>2. Page \in Int /\ \A b \in Page .. Page + PageBytes - 1 : b \in Mapped
  BY PlacesAreMapped
<1>3. IsCode(<<>>)
  BY NothingIsCode
<1>. HIDE DEF cut, entry
<1>. QED BY <1>1, <1>2, <1>3, InstallStatic DEF cut, entry

(* Each of them.                                                           *)
LEMMA UnsafeStatic ==
  ASSUME Inv, Static(mem, patches), PatchUnsafe
  PROVE  Static(mem, patches)'
<1>. DEFINE cut == Cut(LongBranch, FALSE)
            moved == Relocated(cut, Page)
            how == IF moved.ok THEN "unsafe" ELSE "verbatim"
            prefix == moved.code
<1>1. /\ Ready /\ cut # 0 /\ FALSE \in BOOLEAN
      /\ Install(how, cut, Page, prefix, BranchInto(HookAddr(Next1)), <<>>)
  BY DEF PatchUnsafe
<1>2. CutOK(cut) /\ cut \in ShortCut .. MaxCut /\ LongCut <= cut
  BY <1>1, LongCutIs
<1>3. Page \in Int
  BY <1>1, PlacesAreMapped
<1>4. IsCode(prefix)
  BY <1>2, <1>3, RelocatedIsCode
<1>5. ASSUME how # "verbatim"
      PROVE  \E code, at : /\ Has(mem, code, Entry)
                           /\ \A p : p.page = Page /\ p.cut = cut => Relocation(p, code, prefix, at)
  <2>1. moved.ok
    BY <1>5
  <2>. HIDE DEF cut
  <2>. QED BY <1>2, <1>3, <2>1, RelocatedIs
<1>. HIDE DEF moved, how, prefix
<1>. QED BY <1>1, <1>4, <1>5, LongStatic

LEMMA Arm64Static ==
  ASSUME Inv, Static(mem, patches), PatchArm64
  PROVE  Static(mem, patches)'
<1>. DEFINE cut == Cut(LongBranch, TRUE)
            moved == Relocated(cut, Page)
            prefix == moved.code
<1>1. /\ Ready /\ cut # 0 /\ TRUE \in BOOLEAN /\ moved.ok
      /\ Install("legacy", cut, Page, prefix, BranchInto(HookAddr(Next1)), <<>>)
  BY DEF PatchArm64
<1>2. CutOK(cut) /\ cut \in ShortCut .. MaxCut /\ LongCut <= cut
  BY <1>1, LongCutIs
<1>3. Page \in Int
  BY <1>1, PlacesAreMapped
<1>4. IsCode(prefix)
  BY <1>2, <1>3, RelocatedIsCode
<1>5. \E code, at : /\ Has(mem, code, Entry)
                    /\ \A p : p.page = Page /\ p.cut = cut => Relocation(p, code, prefix, at)
  <2>1. moved.ok
    BY <1>1
  <2>. HIDE DEF cut
  <2>. QED BY <1>2, <1>3, <2>1, RelocatedIs
<1>. HIDE DEF moved, prefix
<1>. QED BY <1>1, <1>4, <1>5, LongStatic

(* A prefix without a PC-relative instruction is its own relocation.       *)
LEMMA LegacyStatic ==
  ASSUME Inv, Static(mem, patches), PatchLegacy
  PROVE  Static(mem, patches)'
<1>. DEFINE cut == Cut(LongBranch, TRUE)
            code == Displaced(cut)
            q == [page |-> Page, cut |-> cut]
<1>1. /\ Ready /\ amd64 /\ cut # 0 /\ TRUE \in BOOLEAN /\ ~X!HasPCRelative(code)
      /\ Install("legacy", cut, Page, code, BranchInto(HookAddr(Next1)), <<>>)
  BY DEF PatchLegacy, LegacyFits
<1>2. CutOK(cut) /\ cut \in ShortCut .. MaxCut /\ LongCut <= cut
  BY <1>1, LongCutIs
<1>3. Page \in Int
  BY <1>1, PlacesAreMapped
<1>4. \A i \in DOMAIN code : code[i] # Bad /\ code[i].op \notin Placebound
  <2>. HIDE DEF code
  <2>. QED BY <1>1, SameBytes DEF X!HasPCRelative, Placebound
<1>5. q.page = Page /\ q.cut = cut
  OBVIOUS
<1>6. code = Displaced(q.cut)
  BY <1>5
<1>. HIDE DEF q, code, cut
<1>7. Prefix(q, code) /\ Has(mem, code, Entry)
  BY <1>2, <1>3, <1>4, <1>5, <1>6, PrefixIs
<1>8. Relocation(q, code, code, At0(code))
  BY <1>4, <1>7, RelocationOfNone
<1>9. \A p : p.page = Page /\ p.cut = cut => Relocation(p, code, code, At0(code))
  BY <1>5, <1>8, RelocationFits
<1>10. IsCode(code)
  BY <1>7 DEF Prefix
<1>. QED BY <1>1, <1>7, <1>9, <1>10, LongStatic DEF cut

LEMMA FallbackStatic ==
  ASSUME Inv, Static(mem, patches), PatchFallback
  PROVE  Static(mem, patches)'
<1>. DEFINE cut == Cut(LongBranch, TRUE)
            code == Displaced(cut)
<1>1. /\ Ready /\ amd64 /\ cut # 0 /\ TRUE \in BOOLEAN
      /\ Install("verbatim", cut, Page, code, BranchInto(HookAddr(Next1)), <<>>)
  BY DEF PatchFallback
<1>2. CutOK(cut)
  BY <1>1, LongCutIs
<1>3. IsCode(code)
  BY <1>2, DisplacedIsCode DEF CutOK
<1>. HIDE DEF code
<1>. QED BY <1>1, <1>3, LongStatic

(* A short branch is tried only where the long one does not fit: not over  *)
(* a branch of mockey, that would have to be displaced as a whole.         *)
LEMMA ShortStatic ==
  ASSUME Inv, OrdinaryFunctions, Static(mem, patches), PatchShortBranch
  PROVE  Static(mem, patches)'
<1>. DEFINE cut == Cut(X!ShortBranchSize, TRUE)
            page == NearPages[Next1]
            moved == Relocated(cut, page)
            prefix == moved.code
            relay == Align16(Size(prefix) + 12)
            hook == BranchInto(HookAddr(Next1))
            entry == X!BranchIntoShort(Entry, page + relay)
            gap == [k \in 1 .. relay - (Size(prefix) + 12) |-> I("int3", 1, 0, 0)]
<1>1. /\ Ready /\ amd64 /\ ~LegacyFits
      /\ cut # 0 /\ moved.ok /\ entry # <<>>
      /\ Install("short", cut, page, prefix, entry, gap \o hook)
  BY DEF PatchShortBranch, ShortBranch, X!LongBranch
<1>2. CutOK(cut) /\ 5 <= cut /\ cut <= MaxCut
  <2>1. X!ShortBranchSize = 5
    BY DEF X!ShortBranchSize
  <2>. QED BY <1>1, <2>1, InvHolds, CutIsOK
<1>3. page \in Int /\ \A b \in page .. page + PageBytes - 1 : b \in Mapped
  BY <1>1, PlacesAreMapped
<1>4. cut \in ShortCut .. MaxCut
  <2>. HIDE DEF cut
  <2>1. cut \in Nat /\ MaxCut \in Nat
    BY <1>2 DEF CutOK, MaxCut
  <2>. QED BY <1>1, <1>2, <2>1 DEF ShortCut
<1>5. Decode(mem, Entry).op \in {"set", "mov"} => LongCut <= cut
  <2>1. Decode(mem, Entry).op \notin {"set", "mov"}
    BY <1>1, EntryIs, BranchIsFit
  <2>. QED BY <2>1
<1>6. \E code, at : /\ Has(mem, code, Entry)
                    /\ \A p : p.page = page /\ p.cut = cut => Relocation(p, code, prefix, at)
  <2>. HIDE DEF cut, page
  <2>. QED BY <1>1, <1>2, <1>3, <1>4, <1>5, RelocatedIs
<1>7. IsCode(prefix) /\ Size(prefix) \in Nat
  <2>1. moved = X!Relocate(Displaced(cut), Entry, page)
    BY <1>1 DEF Relocated
  <2>2. IsCode(Displaced(cut))
    BY <1>2, DisplacedIsCode DEF CutOK
  <2>3. IsCode(prefix)
    BY <2>1, <2>2, MovedIsCode
  <2>. QED BY <2>3, CodeSize
<1>. HIDE DEF cut, page, moved, prefix
<1>8. relay \in Nat /\ relay - (Size(prefix) + 12) \in Nat
  <2>. DEFINE used == Size(prefix) + 12
  <2>1. used \in Nat
    BY <1>7
  <2>. HIDE DEF used
  <2>. QED BY <2>1 DEF Align16, used
<1>. HIDE DEF relay
<1>9. IsCode(gap)
  <2>1. I("int3", 1, 0, 0).len = 1
    BY DEF I
  <2>. QED BY <1>8, <2>1, OnesAreCode
<1>10. IsCode(hook)
  BY LongBranchIsSound DEF Sound
<1>. HIDE DEF gap, hook
<1>11. IsCode(gap \o hook)
  BY <1>9, <1>10, JoinIsCode
<1>12. Sound(entry) /\ Size(entry) = 5 /\ \A i \in DOMAIN entry : entry[i].arg \in Int
  <2>. DEFINE to == page + relay
              j == Jump(to)
  <2>1. to \in Int /\ Entry \in Int
    BY <1>3, <1>8, InvHolds, TargetIsCode
  <2>. HIDE DEF to
  <2>2. X!BranchIntoShort(Entry, to) # <<>> => X!BranchIntoShort(Entry, to) = <<j>>
    BY <1>1 DEF X!BranchIntoShort, X!ShortBranchSize, Jump, X!I, I
  <2>3. j.arg \in Int /\ j.len = 5
    BY <1>1, <2>1 DEF Jump, I
  <2>4. DOMAIN <<j>> = 1 .. 1 /\ <<j>>[1] = j
    OBVIOUS
  <2>. HIDE DEF j
  <2>5. Sound(entry) /\ Size(entry) = 5
    BY <1>1, ShortBranchesAreSound DEF to
  <2>6. entry = <<j>>
    BY <1>1, <2>2 DEF to
  <2>. QED BY <2>3, <2>4, <2>5, <2>6
<1>13. Size(entry) <= cut
  BY <1>2, <1>12
<1>. HIDE DEF entry
<1>. QED BY <1>1, <1>2, <1>3, <1>6, <1>7, <1>11, <1>12, <1>13, InstallStatic

LEMMA WholeQuotient ==
  ASSUME NEW p \in Nat \ {0}, NEW n \in Int
  PROVE  (p * n) \div p = n
OBVIOUS

(* An ADRP that is moved alone is one still.                               *)
LEMMA NearAdrp ==
  ASSUME ~amd64, NEW from \in Int, NEW to \in Int, NEW o, o.op = "adrp", o.arg \in Int,
         NEW e, e \in {R!RelocateFirstInst(o, from, to).code[i] : i \in {1}}
  PROVE  /\ R!RelocateFirstInst(o, from, to).code = <<e>> /\ e.op = "adrp" /\ e.len = 4
         /\ Points(e, to) = Points(o, from)
<1>. DEFINE P == PageBytes
            a == from \div P
            c == to \div P
            aim == P * a + o.arg * P
            n == (aim - P * c) \div P
<1>1. P \in Nat \ {0}
  BY CutAssumption
<1>2. R!Target(o, from) = aim /\ R!PageOf(to) = P * c
  BY DEF R!Target, R!PageOf
<1>3. R!RelocateFirstInst(o, from, to).code = <<R!A("adrp", n, 0)>>
  BY <1>2 DEF R!RelocateFirstInst
<1>4. <<R!A("adrp", n, 0)>>[1] = R!A("adrp", n, 0)
  OBVIOUS
<1>5. e = R!A("adrp", n, 0)
  BY <1>3, <1>4
<1>6. e.op = "adrp" /\ e.len = 4 /\ e.arg = n
  BY <1>5 DEF R!A, R!I
<1>7. a \in Int /\ c \in Int
  BY <1>1
<1>8. n = a + o.arg - c
  <2>. DEFINE k == a + o.arg - c
  <2>1. aim - P * c = P * k
    <3>. HIDE DEF P, a, c
    <3>. QED BY <1>1, <1>7
  <2>2. k \in Int
    <3>. HIDE DEF a, c
    <3>. QED BY <1>7
  <2>. HIDE DEF k, P, aim
  <2>. QED BY <1>1, <2>1, <2>2, WholeQuotient DEF k
<1>9. P * c + n * P = aim
  <2>. HIDE DEF n, P, a, c
  <2>. QED BY <1>1, <1>7, <1>8
<1>10. Points(e, to) = P * c + n * P
  BY <1>6 DEF Points, R!Target, R!PageOf
<1>11. Points(o, from) = aim
  BY <1>2 DEF Points
<1>. HIDE DEF aim, n, a, c, P
<1>. QED BY <1>3, <1>5, <1>6, <1>9, <1>10, <1>11

(* One instruction is displaced for a near trampoline.                     *)
LEMMA NearRelocates ==
  ASSUME Inv, OrdinaryFunctions, Static(mem, patches), ~amd64, TooShort, NEW page \in Int,
         R!RelocateFirstInst(Decode(mem, Entry), Entry, page).ok
  PROVE  \E code, moved, at :
           /\ moved = R!RelocateFirstInst(Decode(mem, Entry), Entry, page).code
           /\ IsCode(moved) /\ Size(moved) = 4 /\ Has(mem, code, Entry)
           /\ \A p : p.page = page /\ p.cut = 4 => Relocation(p, code, moved, at)
<1>. DEFINE o == Decode(mem, Entry)
            moved == R!RelocateFirstInst(o, Entry, page).code
            q == [page |-> page, cut |-> 4]
            code == <<o>>
<1>1. /\ Entry \in Nat /\ Entry \in Zone
      /\ Zone \subseteq DOMAIN mem /\ \A b \in Zone : mem[b].inst.len = 4
  <2>1. Entry \in Nat /\ Size(target.code) \in Nat /\ Size(target.code) >= 26
    BY InvHolds, TargetIsCode
  <2>2. Entry \in Zone
    BY <2>1 DEF Zone
  <2>. QED BY <2>1, <2>2, InvHolds DEF Lens
<1>2. o # Bad /\ (o.op = "adrp" \/ R!RelocatableFirstInst(o))
  <2>. DEFINE r == R!RelocateFirstInst(o, Entry, page)
  <2>. HIDE DEF o
  <2>1. CASE o.op = "adrp"
    BY <2>1 DEF Bad, I
  <2>2. CASE o.op # "adrp"
    <3>1. r = [ok |-> R!RelocatableFirstInst(o), code |-> <<o>>]
      BY <2>2 DEF R!RelocateFirstInst
    <3>2. r.ok
      BY DEF o
    <3>. HIDE DEF r
    <3>3. R!RelocatableFirstInst(o)
      BY <3>1, <3>2
    <3>. QED BY <3>3, SameBytes DEF R!RelocatableFirstInst
  <2>. QED BY <2>1, <2>2
<1>3. o = mem[Entry].inst
  BY <1>2 DEF Decode
<1>4. o.len = 4 /\ o.arg \in Int /\ mem[Entry] = [inst |-> mem[Entry].inst, at |-> mem[Entry].at]
  <2>1. IsCell(mem[Entry])
    BY <1>1 DEF Static
  <2>. HIDE DEF o
  <2>. QED BY <1>1, <1>3, <2>1 DEF IsCell
<1>5. o.op \notin {"set", "mov"}
  BY EntryIs, BranchIsLong
<1>6. q.page = page /\ q.cut = 4
  OBVIOUS
<1>7. Has(mem, code, Entry)
  <2>1. 4 \in Nat \ {0}
    OBVIOUS
  <2>2. Entry \in Int /\ o.len \in Nat \ {0}
    BY <1>1, <1>4, <2>1
  <2>. HIDE DEF o
  <2>3. Decode(mem, Entry) = o
    BY DEF o
  <2>. QED BY <1>2, <1>4, <2>2, <2>3, HasOne
<1>. HIDE DEF o, q
<1>8. IsCode(code) /\ Size(code) = 4 /\ code[1] = o /\ DOMAIN code = 1 .. 1
  <2>1. 4 \in Nat \ {0}
    OBVIOUS
  <2>2. o.len \in Nat \ {0} /\ o.len = 4
    BY <1>4, <2>1
  <2>. QED BY <2>2, OneIsCode
<1>9. Prefix(q, code)
  <2>1. 4 \in ShortCut .. MaxCut
    BY DEF ShortCut, MaxCut
  <2>. HIDE DEF code
  <2>. QED BY <1>5, <1>6, <1>8, <2>1 DEF Prefix
<1>10. CASE o.op = "adrp"
  <2>. DEFINE e == moved[1]
  <2>1. e \in {moved[i] : i \in {1}} /\ Entry \in Int
    BY <1>1
  <2>. HIDE DEF e
  <2>2. moved = <<e>> /\ e.op = "adrp" /\ e.len = 4 /\ Points(e, page) = Points(o, Entry)
    BY <1>4, <1>10, <2>1, NearAdrp
  <2>. HIDE DEF moved
  <2>3. Relocation(q, <<o>>, <<e>>, At0(<<e>>))
    BY <1>4, <1>6, <1>9, <1>10, <2>1, <2>2, RelocationOfAdrp
  <2>4. IsCode(moved) /\ Size(moved) = 4
    <3>1. 4 \in Nat \ {0}
      OBVIOUS
    <3>2. e.len \in Nat \ {0} /\ e.len = 4
      BY <2>2, <3>1
    <3>. QED BY <2>2, <3>2, OneIsCode
  <2>. DEFINE at == At0(<<e>>)
  <2>5. Relocation(q, code, moved, at)
    BY <2>2, <2>3
  <2>. HIDE DEF at, code
  <2>6. \A p : p.page = page /\ p.cut = 4 => Relocation(p, code, moved, at)
    BY <1>6, <2>5, RelocationFits
  <2>. QED BY <1>7, <2>4, <2>6 DEF moved, o
<1>11. CASE o.op # "adrp"
  <2>1. moved = code
    BY <1>11 DEF R!RelocateFirstInst
  <2>2. o.op \notin Placebound
    BY <1>2, <1>11 DEF R!RelocatableFirstInst, Placebound
  <2>. HIDE DEF code, moved
  <2>3. \A i \in DOMAIN code : code[i].op \notin Placebound
    BY <1>8, <2>2
  <2>4. Relocation(q, code, code, At0(code))
    BY <1>9, <2>3, RelocationOfNone
  <2>5. \A p : p.page = page /\ p.cut = 4 => Relocation(p, code, moved, At0(code))
    BY <1>6, <2>1, <2>4, RelocationFits
  <2>. QED BY <1>7, <1>8, <2>1, <2>5 DEF moved, o
<1>. QED BY <1>10, <1>11

(* The near branch displaces one instruction.                              *)
LEMMA NearStatic ==
  ASSUME Inv, OrdinaryFunctions, Static(mem, patches), PatchNear
  PROVE  Static(mem, patches)'
<1>. DEFINE slot == Slots[Next1]
            code == R!ShortBranchTo(Entry, slot)
            hook == BranchInto(HookAddr(Next1))
            moved == R!RelocateFirstInst(Decode(mem, Entry), Entry, Page).code
            proxy == moved \o BranchTo(Entry + R!ShortBranchLen)
            m1 == Write(mem, hook, slot)
            m2 == Fill(m1, proxy, Page, PageBytes)
            p == [how |-> "near", cut |-> R!ShortBranchLen, page |-> Page,
                  hook |-> HookAddr(Next1), saved |-> Copy(mem, Entry, R!ShortBranchLen)]
<1>1. /\ Ready /\ TooShort /\ code # <<>>
      /\ R!RelocateFirstInst(Decode(mem, Entry), Entry, Page).ok
      /\ Free(mem, slot, 24) /\ Free(m1, Page, PageBytes)
      /\ mem' = Write(m2, code, Entry) /\ patches' = Append(patches, p) /\ target' = target
  BY DEF PatchNear, R!LongBranch
<1>2. /\ target \in Functions /\ Zone \subseteq DOMAIN mem /\ Shape /\ ~amd64
      /\ Entry \in Nat /\ Size(target.code) \in Nat /\ Size(target.code) >= 26
  BY <1>1, InvHolds, TargetIsCode DEF TooShort, amd64, Inv
<1>3. CutOK(4) /\ Sound(code) /\ Size(code) = 4 /\ code = <<Jump(slot)>>
  <2>1. code = <<Jump(slot)>>
    BY <1>1, <1>2, InstFields DEF R!ShortBranchTo, R!A, Jump
  <2>. QED BY <1>1, <1>2, <2>1, NearCutIsOK, ShortBranchesAreSound
<1>4. /\ p.how = "near" /\ p.cut = 4 /\ p.page = Page
      /\ DOMAIN p.saved = Entry .. Entry + 4 - 1 /\ \A b \in DOMAIN p.saved : p.saved[b] = mem[b]
      /\ R!ShortBranchLen = 4
  BY DEF Copy, R!ShortBranchLen
<1>5. /\ Page \in Int /\ slot \in Int
      /\ \A b \in Page .. Page + PageBytes - 1 : b \in Mapped
      /\ \A b \in slot .. slot + 23 : b \in Mapped
  BY <1>1, PlacesAreMapped
<1>6. PICK c, at :
        /\ IsCode(moved) /\ Size(moved) = 4 /\ Has(mem, c, Entry)
        /\ \A q : q.page = Page /\ q.cut = 4 => Relocation(q, c, moved, at)
  <2>. HIDE DEF p, code, m2, proxy, hook, slot
  <2>. DEFINE here == Page
  <2>1. here \in Int /\ R!RelocateFirstInst(Decode(mem, Entry), Entry, here).ok
    BY <1>1, <1>5
  <2>. HIDE DEF here
  <2>2. \E c, m, at :
          /\ m = R!RelocateFirstInst(Decode(mem, Entry), Entry, here).code
          /\ IsCode(m) /\ Size(m) = 4 /\ Has(mem, c, Entry)
          /\ \A q : q.page = here /\ q.cut = 4 => Relocation(q, c, m, at)
    BY <1>1, <1>2, <2>1, NearRelocates, Zenon
  <2>3. moved = R!RelocateFirstInst(Decode(mem, Entry), Entry, here).code /\ here = Page
    BY DEF here
  <2>. HIDE DEF moved
  <2>. QED BY <2>2, <2>3
<1>7. IsCode(hook) /\ DOMAIN Bytes(hook, slot) = slot .. slot + 24 - 1
  <2>1. Sound(hook) /\ Size(hook) = 24
    BY <1>2, LongBranchIsSound DEF LongCut
  <2>. HIDE DEF hook, slot
  <2>. QED BY <1>5, <2>1, BytesAreOfCode DEF Sound
<1>8. IsCode(proxy) /\ DOMAIN Bytes(proxy, Page) = Page .. Page + 24 - 1 /\ Proxy(p, moved) = proxy
  <2>. DEFINE back == BranchTo(Entry + 4)
  <2>1. back = R!AbsoluteBranch(Entry + 4, FALSE) /\ IsCode(back)
    BY <1>2, BackCode
  <2>2. Size(back) = 20
    <3>1. FALSE \in BOOLEAN
      OBVIOUS
    <3>. HIDE DEF back
    <3>. QED BY <2>1, <3>1, AbsoluteCode
  <2>3. proxy = moved \o back /\ Proxy(p, moved) = moved \o back
    BY <1>4 DEF Proxy
  <2>. HIDE DEF moved, back, proxy
  <2>4. IsCode(proxy) /\ Size(proxy) = 24
    <3>1. IsCode(moved) /\ IsCode(back) /\ Size(moved) = 4
      BY <1>6, <2>1
    <3>2. IsCode(moved \o back)
      BY <3>1, JoinIsCode
    <3>3. Size(moved \o back) = Size(moved) + Size(back)
      BY <3>1, JoinOffsets
    <3>4. Size(proxy) = 4 + 20
      BY <2>2, <2>3, <3>1, <3>3, Zenon
    <3>5. IsCode(proxy)
      BY <2>3, <3>2, Zenon
    <3>. QED BY <3>4, <3>5
  <2>. QED BY <1>5, <2>3, <2>4, BytesAreOfCode
<1>. HIDE DEF p, code, m2, moved, proxy, hook, slot
<1>9. \A b \in DOMAIN Bytes(hook, slot) : b \notin Zone /\ b \notin DOMAIN mem
  BY <1>1, <1>2, <1>7, FreeIsAway
<1>10. /\ \A b \in DOMAIN mem : b \in DOMAIN m1 /\ m1[b] = mem[b]
       /\ DOMAIN m1 = DOMAIN Bytes(hook, slot) \cup DOMAIN mem
  BY <1>9 DEF Write, Overlay
<1>. HIDE DEF m1
<1>11. \A b \in Page .. Page + PageBytes - 1 : b \notin Zone /\ b \notin DOMAIN m1
  <2>1. Zone \subseteq DOMAIN m1
    BY <1>2, <1>10
  <2>. QED BY <1>1, <2>1, FreeIsAway
<1>12. \A b \in DOMAIN m1 : b \in DOMAIN m2 /\ m2[b] = m1[b]
  BY <1>11, FillHolds DEF m2
<1>13. Zone \subseteq DOMAIN m2 /\ \A b \in Zone : m2[b] = mem[b]
  BY <1>2, <1>10, <1>12
<1>14. Entered(mem', code, 4)
  BY <1>1, <1>2, <1>3, <1>13, WriteEntry
<1>15. \A b \in DOMAIN m2 : b \notin Zone => b \in DOMAIN mem' /\ mem'[b] = m2[b]
  BY <1>1, <1>2, <1>3, EntryIsInZone DEF CutOK
<1>16. \A b \in DOMAIN mem : b \notin Zone => b \in DOMAIN mem' /\ mem'[b] = mem[b]
  BY <1>10, <1>12, <1>15
<1>17. \A b \in OwnPage(p) : b \notin DOMAIN mem
  BY <1>4, <1>10, <1>11 DEF OwnPage
<1>18. DOMAIN Bytes(code, Entry) = Entry .. Entry + 4 - 1
  <2>1. IsCode(code) /\ Entry \in Int
    BY <1>2, <1>3 DEF Sound
  <2>. QED BY <1>3, <2>1, BytesAreOfCode
<1>19. \A b \in Entry .. Entry + 4 - 1 : b \in Zone
  BY <1>2 DEF Zone
<1>20. DOMAIN mem' \subseteq Zone \cup Mapped
  <2>1. DOMAIN mem' = DOMAIN Bytes(code, Entry) \cup DOMAIN m2
    BY <1>1 DEF Write, Overlay
  <2>2. PICK new : m2 = Overlay(new, m1) /\ DOMAIN new \subseteq Page .. Page + PageBytes - 1
    BY FillDomain DEF m2
  <2>3. DOMAIN m2 = DOMAIN new \cup DOMAIN m1
    BY <2>2 DEF Overlay
  <2>4. \A b \in DOMAIN Bytes(hook, slot) : b \in Mapped
    <3>1. \A b \in slot .. slot + 24 - 1 : b \in slot .. slot + 23
      BY <1>5
    <3>. QED BY <1>5, <1>7, <3>1
  <2>5. DOMAIN mem \subseteq Zone \cup Mapped
    BY DEF Static
  <2>. QED BY <1>5, <1>10, <1>18, <1>19, <2>1, <2>2, <2>3, <2>4, <2>5
<1>21. \A b \in Zone : IsCell(mem'[b])
  <2>1. \A b \in DOMAIN Bytes(code, Entry) : IsCell(Bytes(code, Entry)[b])
    <3>. DEFINE j == Jump(slot)
    <3>1. IsCode(code) /\ Entry \in Int
      BY <1>2, <1>3 DEF Sound
    <3>2. j.arg \in Int
      BY <1>2, <1>5 DEF Jump, I
    <3>3. DOMAIN <<j>> = 1 .. 1 /\ <<j>>[1] = j
      OBVIOUS
    <3>4. code = <<j>>
      BY <1>3
    <3>. HIDE DEF j
    <3>5. \A i \in DOMAIN code : code[i].arg \in Int
      BY <3>2, <3>3, <3>4
    <3>. QED BY <3>1, <3>5, BytesAreCells
  <2>2. \A b \in Zone : b \in Int /\ Entry <= b
    BY <1>2 DEF Zone
  <2>3. \A b \in Zone : b < Entry + 4 => b \in DOMAIN Bytes(code, Entry)
    BY <1>2, <1>18, <2>2
  <2>4. \A b \in Zone : IsCell(mem[b])
    BY DEF Static
  <2>. QED BY <1>14, <2>1, <2>3, <2>4 DEF Entered
<1>22. \A b \in DOMAIN p.saved : b \in Zone /\ p.saved[b] = mem[b]
  BY <1>4, <1>19
<1>23. Holds(mem', proxy, Page)
  <2>1. 24 <= PageBytes /\ PageBytes \in Nat
    BY PageAssumption, CutAssumption DEF R!LongBranch
  <2>2. \A b \in DOMAIN Bytes(proxy, Page) : b \in Page .. Page + PageBytes - 1
    BY <1>5, <1>8, <2>1
  <2>3. \A b \in DOMAIN Bytes(proxy, Page) : b \in DOMAIN m2 /\ m2[b] = Bytes(proxy, Page)[b]
    BY <2>2, FillHolds DEF m2
  <2>. QED BY <1>11, <1>15, <2>2, <2>3 DEF Holds
<1>24. Relocation(p, c, moved, at)
  BY <1>4, <1>6
<1>25. Has(p.saved, c, Entry)
  <2>1. IsCode(c) /\ Size(c) = 4 /\ Entry \in Int
    BY <1>2, <1>4, <1>24 DEF Relocation
  <2>2. DOMAIN Bytes(c, Entry) = DOMAIN p.saved
    BY <1>4, <2>1, BytesAreOfCode
  <2>. QED BY <1>4, <1>6, <2>2 DEF Has
<1>26. \E d, moved1, at1 : /\ Relocation(p, d, moved1, at1) /\ Has(p.saved, d, Entry)
                           /\ Holds(mem', Proxy(p, moved1), p.page)
  BY <1>4, <1>8, <1>23, <1>24, <1>25
<1>. QED BY <1>1, <1>2, <1>16, <1>17, <1>20, <1>21, <1>22, <1>26, PushStatic

(* A release keeps the proxies of the patches that are left: they are not  *)
(* in the page that is unmapped, nor in the entry.                         *)
LEMMA UnpatchStatic ==
  ASSUME Inv, Static(mem, patches), Unpatch
  PROVE  Static(mem, patches)'
<1>. DEFINE n == Len(patches)
            p == patches[Len(patches)]
            gone == IF p.how = "short" THEN {} ELSE p.page .. p.page + PageBytes - 1
<1>1. /\ patches # <<>>
      /\ mem' = [b \in DOMAIN mem \ gone |-> Restored(mem, p)[b]]
      /\ patches' = SubSeq(patches, 1, n - 1)
      /\ target' = target
  BY DEF Unpatch
<1>2. Shape /\ n \in Nat /\ DOMAIN patches = 1 .. n
  BY InvHolds DEF Inv
<1>3. n # 0
  BY <1>1, <1>2 DEF Shape, IsSequence
<1>4. n \in 1 .. n /\ \A k \in 1 .. (n - 1) : k \in 1 .. n /\ n \in k + 1 .. n
  BY <1>2, <1>3
<1>5. Len(patches') = n - 1 /\ \A k \in 1 .. (n - 1) : patches'[k] = patches[k]
  <2>1. patches \in Seq({patches[i] : i \in DOMAIN patches})
    BY <1>2 DEF Shape, IsSequence
  <2>. DEFINE T == {patches[i] : i \in DOMAIN patches}
              s == SubSeq(patches, 1, n - 1)
  <2>2. Len(s) = n - 1 /\ \A k \in 1 .. (n - 1) : s[k] = patches[k]
    <3>. HIDE DEF T
    <3>. QED BY <1>2, <1>3, <2>1 DEF T
  <2>. HIDE DEF s
  <2>. QED BY <1>1, <2>2 DEF s
<1>6. PatchOK(p)
  BY <1>2, <1>4 DEF Shape
<1>7. \A b \in gone : b \in OwnPage(p)
  BY DEF gone, OwnPage
<1>8. \A b \in OwnPage(p) : b \notin Zone
  BY <1>6 DEF PatchOK
<1>9. \A b \in DOMAIN p.saved : b \in Zone
  <2>. DEFINE c == p.cut
              Z == Size(target.code)
  <2>1. c \in Nat /\ Z \in Nat /\ c <= Z /\ DOMAIN p.saved = Entry .. Entry + c - 1 /\ Entry \in Nat
    BY <1>2, <1>6, TargetIsCode DEF PatchOK, Shape
  <2>. HIDE DEF c, Z
  <2>2. \A b \in Entry .. Entry + c - 1 : b \in Entry .. Entry + Z - 1
    BY <2>1
  <2>. QED BY <2>1, <2>2 DEF Zone, Z
<1>10. \A b \in DOMAIN p.saved : IsCell(p.saved[b])
  BY <1>4 DEF Static
<1>. HIDE DEF gone, p
<1>11. \A b \in DOMAIN mem : b \notin Zone /\ b \notin OwnPage(p) =>
          b \in DOMAIN mem' /\ mem'[b] = mem[b]
  BY <1>1, <1>7, <1>9 DEF Restored
<1>12. DOMAIN mem' \subseteq DOMAIN mem
  BY <1>1
<1>13. \A b \in Zone : IsCell(mem'[b])
  <2>. SUFFICES ASSUME NEW b \in Zone PROVE IsCell(mem'[b])
    OBVIOUS
  <2>1. b \in DOMAIN mem \ gone
    BY <1>2, <1>7, <1>8 DEF Shape
  <2>2. mem'[b] = IF b \in DOMAIN p.saved THEN p.saved[b] ELSE mem[b]
    BY <1>1, <2>1 DEF Restored
  <2>3. IsCell(mem[b])
    BY DEF Static
  <2>. QED BY <1>10, <2>2, <2>3
<1>14. ASSUME NEW k \in 1 .. (n - 1)
       PROVE  /\ \A b \in DOMAIN patches'[k].saved : IsCell(patches'[k].saved[b])
              /\ Kept(mem', patches', k)
  <2>1. patches'[k] = patches[k] /\ k \in 1 .. n /\ n \in k + 1 .. n
    BY <1>4, <1>5
  <2>2. Kept(mem, patches, k) /\ \A b \in DOMAIN patches[k].saved : IsCell(patches[k].saved[b])
    BY <2>1 DEF Static
  <2>3. ASSUME NEW moved, Holds(mem, Proxy(patches[k], moved), patches[k].page),
               \A j \in k + 1 .. n :
                 \A b \in DOMAIN Bytes(Proxy(patches[k], moved), patches[k].page) :
                   b \notin OwnPage(patches[j])
        PROVE  /\ Holds(mem', Proxy(patches[k], moved), patches[k].page)
               /\ \A j \in k + 1 .. (n - 1) :
                    \A b \in DOMAIN Bytes(Proxy(patches[k], moved), patches[k].page) :
                      b \notin OwnPage(patches'[j])
    <3>. DEFINE B == Bytes(Proxy(patches[k], moved), patches[k].page)
    <3>1. \A b \in DOMAIN B : b \notin OwnPage(p)
      BY <2>1, <2>3 DEF p
    <3>2. \A b \in DOMAIN B : b \in DOMAIN mem /\ b \notin Zone /\ mem[b] = B[b]
      BY <2>3 DEF Holds
    <3>3. Holds(mem', Proxy(patches[k], moved), patches[k].page)
      BY <1>11, <3>1, <3>2 DEF Holds
    <3>4. \A j \in k + 1 .. (n - 1) : j \in k + 1 .. n /\ j \in 1 .. (n - 1)
      BY <1>2
    <3>. HIDE DEF B
    <3>5. \A j \in k + 1 .. (n - 1) : \A b \in DOMAIN B : b \notin OwnPage(patches'[j])
      BY <1>5, <2>3, <3>4 DEF B
    <3>. QED BY <3>3, <3>5 DEF B
  <2>4. Kept(mem', patches', k)
    BY <1>5, <2>1, <2>2, <2>3 DEF Kept
  <2>. QED BY <2>1, <2>2, <2>4
<1>15. DOMAIN mem' \subseteq Zone \cup Mapped
  BY <1>12 DEF Static
<1>16. Static(mem', patches')
  BY <1>5, <1>13, <1>14, <1>15 DEF Static
<1>. QED BY <1>1, <1>16, StaticStays

(* What is known of the proxies is invariant.                              *)
LEMMA InitStatic == Init => Static(mem, patches)
<1>. SUFFICES ASSUME Init PROVE Static(mem, patches)
  OBVIOUS
<1>1. target \in Functions /\ mem = Bytes(target.code, Entry) /\ patches = <<>>
  BY DEF Init
<1>2. IsCode(target.code) /\ Entry \in Int
  BY <1>1, TargetIsCode
<1>3. \A i \in DOMAIN target.code : target.code[i].arg \in Int
  <2>1. target.code \in Seq([op : STRING, arg : Int, x : Nat,
                             len : IF target.arch = "amd64" THEN 1 .. 15 ELSE {4}])
    BY <1>1, TargetAssumption
  <2>. DEFINE T == [op : STRING, arg : Int, x : Nat,
                    len : IF target.arch = "amd64" THEN 1 .. 15 ELSE {4}]
  <2>2. \A t \in T : t.arg \in Int
    OBVIOUS
  <2>. HIDE DEF T
  <2>3. target.code \in Seq(T)
    BY <2>1 DEF T
  <2>. QED BY <2>2, <2>3
<1>4. \A b \in DOMAIN mem : IsCell(mem[b])
  BY <1>1, <1>2, <1>3, BytesAreCells
<1>5. DOMAIN mem = Zone
  BY <1>1, <1>2, BytesAreOfCode DEF Zone
<1>6. 1 .. Len(patches) = {}
  BY <1>1
<1>. QED BY <1>4, <1>5, <1>6 DEF Static

LEMMA StepStatic ==
  ASSUME Inv, OrdinaryFunctions, Static(mem, patches), [Next]_vars
  PROVE  Static(mem, patches)'
<1>1. CASE UNCHANGED <<target, mem, patches>>
  <2>1. Static(mem', patches') /\ target' = target
    BY <1>1
  <2>. QED BY <2>1, StaticStays
<1>2. CASE PatchUnsafe \/ PatchArm64 \/ PatchLegacy \/ PatchShortBranch \/ PatchFallback
             \/ PatchNear \/ Unpatch
  BY <1>2, UnsafeStatic, Arm64Static, LegacyStatic, ShortStatic, FallbackStatic, NearStatic,
     UnpatchStatic
<1>3. CASE CallTarget \/ (\E k \in DOMAIN patches : CallProxy(k))
             \/ Step \/ StepReference \/ StepBoth \/ UNCHANGED vars
  <2>1. UNCHANGED <<target, mem, patches>>
    BY <1>3 DEF CallTarget, CallProxy, Step, StepReference, StepBoth, vars
  <2>. QED BY <1>1, <2>1
<1>. QED BY <1>2, <1>3 DEF Next

-----------------------------------------------------------------------------
(* A proxy that is called: what is in memory of it, and what was at the    *)
(* entry before its patch.                                                 *)
Shown(k, code, moved, at) ==
  LET p == patches[k]
  IN  /\ Relocation(p, code, moved, at)
      /\ Has(Before(k), code, Entry)
      /\ Runs(mem, BranchTo(Entry + p.cut), p.page + Size(moved))
      /\ \A i \in DOMAIN code :
           \E piece : /\ IsCode(piece) /\ Runs(mem, piece, p.page + at[i])
                      /\ at[i + 1] = at[i] + Size(piece)
                      /\ Piece(p, code, at, i, piece)
                      /\ 1 \in DOMAIN piece => p.page + at[i] \in Mapped

(* It is in memory as long as its patch is in effect.                      *)
LEMMA ProxyIsShown ==
  ASSUME Inv, Static(mem, patches), NEW k \in 1 .. Len(patches), patches[k].how # "verbatim",
         NEW h, Layers(h, mem, patches)
  PROVE  \E code, moved, at : Shown(k, code, moved, at)
<1>. DEFINE p == patches[k]
            n == Len(patches)
<1>1. /\ Shape /\ Zone \subseteq DOMAIN mem /\ Entry \in Nat /\ n \in Nat
      /\ Size(target.code) \in Nat /\ PatchOK(p)
  BY InvHolds, TargetIsCode DEF Inv, Shape
<1>2. PICK code, moved, at : /\ Relocation(p, code, moved, at)
                             /\ Has(p.saved, code, Entry)
                             /\ Holds(mem, Proxy(p, moved), p.page)
  BY DEF Static, Kept
<1>3. p.cut \in Nat /\ p.cut <= Size(target.code) /\ DOMAIN p.saved = Entry .. Entry + p.cut - 1
  BY <1>1 DEF PatchOK
<1>. HIDE DEF p
<1>4. /\ IsCode(code) /\ IsCode(moved) /\ p.page \in Int /\ Size(code) = p.cut
      /\ at[Len(code) + 1] = Size(moved)
  BY <1>2 DEF Relocation
<1>5. \A b \in Entry .. Entry + p.cut - 1 : b \in Zone /\ b < Entry + p.cut
  BY <1>1, <1>3 DEF Zone
<1>6. DOMAIN Bytes(code, Entry) = Entry .. Entry + p.cut - 1
  BY <1>1, <1>4, BytesAreOfCode
<1>7. Has(Before(k), code, Entry)
  <2>1. k \in 1 .. n + 1
    BY <1>1
  <2>2. /\ DOMAIN Before(k) = DOMAIN mem
        /\ \A b \in DOMAIN mem : b \in Zone => Before(k)[b] = h[k][b]
    BY <1>1, <2>1, BeforeIs
  <2>3. \A b \in Zone : h[k][b] = IF b < Entry + p.cut THEN p.saved[b] ELSE h[k + 1][b]
    BY DEF Layers, p
  <2>4. \A b \in DOMAIN Bytes(code, Entry) : b \in DOMAIN mem /\ Before(k)[b] = p.saved[b]
    BY <1>1, <1>5, <1>6, <2>2, <2>3
  <2>. QED BY <1>2, <2>2, <2>4 DEF Has
<1>. DEFINE back == BranchTo(Entry + p.cut)
<1>8. IsCode(back)
  BY BackCode
<1>9. Has(mem, moved \o back, p.page) /\ \A b \in DOMAIN Bytes(moved \o back, p.page) : b \notin Zone
  BY <1>2 DEF Has, Holds, Proxy
<1>. HIDE DEF back
<1>10. Has(mem, moved, p.page) /\ Has(mem, back, p.page + Size(moved))
  BY <1>4, <1>8, <1>9, HasJoin
<1>11. Runs(mem, back, p.page + Size(moved))
  <2>1. Size(moved) \in Nat
    BY <1>4, CodeSize
  <2>. QED BY <1>4, <1>8, <1>10, <2>1, HasRuns
<1>12. \A b \in DOMAIN Bytes(moved, p.page) : b \in Mapped
  <2>1. \A b \in DOMAIN Bytes(moved, p.page) : b \in DOMAIN Bytes(moved \o back, p.page)
    BY <1>4, <1>8, JoinBytes
  <2>2. DOMAIN mem \subseteq Zone \cup Mapped
    BY DEF Static
  <2>. QED BY <1>9, <1>10, <2>1, <2>2 DEF Has
<1>13. ASSUME NEW i \in DOMAIN code
       PROVE  \E piece : /\ IsCode(piece) /\ Runs(mem, piece, p.page + at[i])
                         /\ at[i + 1] = at[i] + Size(piece)
                         /\ Piece(p, code, at, i, piece)
                         /\ 1 \in DOMAIN piece => p.page + at[i] \in Mapped
  <2>1. PICK piece : /\ at[i] \in Nat /\ IsCode(piece) /\ PlacedIn(moved, piece, at[i])
                     /\ at[i + 1] = at[i] + Size(piece)
                     /\ Piece(p, code, at, i, piece)
    BY <1>2 DEF Relocation
  <2>2. Runs(mem, piece, p.page + at[i])
    BY <1>4, <1>10, <2>1, PlacedRuns
  <2>3. ASSUME 1 \in DOMAIN piece PROVE p.page + at[i] \in Mapped
    <3>1. PICK q \in DOMAIN moved : At0(moved)[q] = at[i] + At0(piece)[1]
      BY <2>1, <2>3 DEF PlacedIn
    <3>2. At0(piece)[1] = 0 /\ moved[q].len \in Nat \ {0}
      BY <1>4, <2>1, CodeSize
    <3>3. 0 \in 0 .. moved[q].len - 1
      BY <3>2
    <3>4. p.page + At0(moved)[q] + 0 \in DOMAIN Bytes(moved, p.page)
      BY <1>4, <3>3, BytesAt
    <3>5. p.page + At0(moved)[q] + 0 = p.page + at[i]
      BY <1>4, <2>1, <3>1, <3>2
    <3>. QED BY <1>12, <3>4, <3>5
  <2>. QED BY <2>1, <2>2, <2>3
<1>14. Shown(k, code, moved, at)
  BY <1>2, <1>7, <1>11, <1>13 DEF Shown, p, back
<1>. QED BY <1>14

(* Behind the cut, and where nothing of mockey is mapped, both are the     *)
(* same.                                                                   *)
Outside(c) == {a \in Int : a \notin Entry .. Entry + c - 1 /\ (a \in DOMAIN mem => a \in Zone)}

(* There the function decodes as it did before the patch.                  *)
LEMMA OutsideIsSame ==
  ASSUME Inv, NEW k \in 1 .. Len(patches), NEW c \in Nat,
         \A j \in k .. Len(patches) : patches[j].cut <= c, NEW a \in Outside(c)
  PROVE  Decode(mem, a) = Decode(Before(k), a)
<1>. DEFINE n == Len(patches)
            old == Before(k)
<1>1. PICK h : Layers(h, mem, patches)
  BY DEF Inv
<1>2. /\ Shape /\ Zone \subseteq DOMAIN mem /\ Entry \in Nat /\ n \in Nat
      /\ Size(target.code) \in Nat /\ \A b \in Zone : mem[b].inst.len \in Lens
  BY InvHolds, TargetIsCode DEF Inv
<1>3. k \in 1 .. n + 1
  BY <1>2
<1>4. /\ DOMAIN old = DOMAIN mem
      /\ \A b \in DOMAIN mem : old[b] = IF b \in Zone THEN h[k][b] ELSE mem[b]
  BY <1>1, <1>2, <1>3, BeforeIs
<1>5. \A b \in Zone : b >= Entry + c => h[k][b] = mem[b]
  BY <1>1, <1>2, <1>3, LayersBehind
<1>. HIDE DEF n, old
<1>6. a \in Int /\ a \notin Entry .. Entry + c - 1 /\ (a \in DOMAIN mem => a \in Zone)
  BY DEF Outside
<1>7. CASE a \notin DOMAIN mem
  BY <1>4, <1>7 DEF Decode, old
<1>8. CASE a \in Zone
  <2>1. a >= Entry + c
    <3>1. Entry <= a
      BY <1>2, <1>8 DEF Zone
    <3>. QED BY <1>2, <1>6, <3>1
  <2>2. \A b \in DOMAIN mem : b \in Int /\ b >= a => old[b] = mem[b]
    <3>1. \A b \in Int : b >= a => b >= Entry + c
      BY <1>2, <1>6, <2>1
    <3>. QED BY <1>4, <1>5, <3>1
  <2>3. old[a] = mem[a] /\ a \in DOMAIN mem
    BY <1>2, <1>6, <1>8, <2>2
  <2>4. \A j \in 1 .. mem[a].inst.len - 1 : a + j \in Int /\ a + j >= a
    <3>1. mem[a].inst.len \in Lens
      BY <1>2, <1>8
    <3>. QED BY <1>6, <3>1 DEF Lens
  <2>5. \A j \in 1 .. mem[a].inst.len - 1 :
           a + j \in DOMAIN mem => old[a + j] = mem[a + j]
    BY <2>2, <2>4
  <2>. QED BY <1>4, <2>3, <2>5 DEF Decode, old
<1>. QED BY <1>6, <1>7, <1>8

-----------------------------------------------------------------------------
(* A call of a proxy begins the simulation.                                *)
OpsOf == {"plain", "ret", "nop", "int3"} \cup
         IF amd64 THEN {"lea", "call32", "jmp8", "jmp32", "jcc8", "jcc32", "loop"}
         ELSE {"adr", "adrp", "ldrlit", "bl", "b", "cb", "tb", "bcond"}
AimOf(i) == Points(target.code[i], StartsAt(i))
End == Entry + Size(target.code)

(* An ordinary function, in the terms of the processor.                    *)
LEMMA OrdinaryIs ==
  ASSUME target \in Functions, OrdinaryFunctions
  PROVE  /\ End \notin Mapped
         /\ ~amd64 => End \in Word /\ \A a \in Mapped : a \in Word
         /\ \A i \in DOMAIN target.code :
              /\ target.code[i].op \in OpsOf /\ target.code[i].x \in {0, 1}
              /\ target.code[i].op \in Branching => AimOf(i) \notin Mapped
              /\ target.code[i].op \in {"adr", "adrp", "bl", "b", "cb", "tb", "bcond"} =>
                   AimOf(i) \in Word
              /\ target.code[i].op \in {"adr", "adrp", "bl", "call32"}
                 /\ StartsAt(i) < Entry + MaxCut =>
                   AimOf(i) \notin Entry .. Entry + MaxCut - 1
<1>1. Ordinary(target)
  BY DEF OrdinaryFunctions
<1>. QED BY <1>1 DEF Ordinary, OpsOf, AimOf, StartsAt, Points, End, Word, amd64

LEMMA ArgsAreInt ==
  ASSUME target \in Functions
  PROVE  \A i \in DOMAIN target.code : target.code[i].arg \in Int
<1>. DEFINE L == IF target.arch = "amd64" THEN 1 .. 15 ELSE {4}
            T == [op : STRING, arg : Int, x : Nat, len : L]
            code == target.code
<1>1. code \in Seq(T)
  BY TargetAssumption
<1>2. \A t \in T : t.arg \in Int
  OBVIOUS
<1>. HIDE DEF L, T, code
<1>3. \A i \in DOMAIN code : code[i] \in T
  BY <1>1
<1>. QED BY <1>2, <1>3 DEF code

(* A place is no other one when it is counted in instructions or pages.    *)
LEMMA PointsIsInt ==
  ASSUME NEW o, o.arg \in Int, o.len \in Int, NEW a \in Int
  PROVE  /\ o.op # "adrp" => Points(o, a) \in Int
         /\ ~amd64 /\ o.op = "adrp" => R!PageOf(Points(o, a)) = Points(o, a)
<1>1. ASSUME o.op # "adrp" PROVE Points(o, a) \in Int
  BY <1>1 DEF Points, R!Target
<1>2. ASSUME ~amd64, o.op = "adrp" PROVE R!PageOf(Points(o, a)) = Points(o, a)
  <2>. DEFINE q == a \div PageBytes
              n == q + o.arg
              v == Points(o, a)
  <2>1. PageBytes \in Nat \ {0}
    BY CutAssumption
  <2>2. q \in Int
    BY <2>1
  <2>3. v = PageBytes * q + o.arg * PageBytes
    BY <1>2 DEF Points, R!Target, R!PageOf
  <2>. HIDE DEF q, v
  <2>4. n \in Int /\ v = PageBytes * n
    BY <2>1, <2>2, <2>3
  <2>. HIDE DEF n
  <2>5. v \div PageBytes = n
    BY <2>1, <2>4, WholeQuotient
  <2>6. R!PageOf(v) = v
    BY <2>4, <2>5 DEF R!PageOf
  <2>. QED BY <2>6 DEF v
<1>. QED BY <1>1, <1>2

(* No piece is empty.                                                      *)
LEMMA PieceIsSome ==
  ASSUME NEW p, NEW code, NEW at, NEW i \in DOMAIN code, ~amd64, code[i].len = 4,
         NEW piece, Piece(p, code, at, i, piece)
  PROVE  1 \in DOMAIN piece
<1>. DEFINE o == code[i]
<1>1. CASE \E e : piece = <<e>>
  BY <1>1
<1>2. CASE /\ o.op \in R!Branches \cup {"adr", "adrp"}
           /\ \E t : piece = R!RelocateInst(o, t)
  <2>. HIDE DEF o
  <2>1. PICK t : piece = R!RelocateInst(o, t)
    BY <1>2
  <2>2. R!RelocatedSize(o) # 0
    <3>1. R!RelocatedSize(o) \in {4, 5, 6}
      BY <1>2, PieceOf DEF R!Branches
    <3>. QED BY <3>1
  <2>3. IsCode(piece) /\ Len(piece) # 0
    BY <2>1, <2>2, PieceIsCode DEF o
  <2>. QED BY <2>3, CodeSize
<1>3. (\E e : piece = <<e>>) \/ (/\ o.op \in R!Branches \cup {"adr", "adrp"}
                                 /\ \E t : piece = R!RelocateInst(o, t))
  BY Zenon DEF Piece
<1>. QED BY <1>1, <1>2, <1>3

(* What relocation makes of an ordinary instruction copies it.             *)
LEMMA PieceCopies ==
  ASSUME NEW g, NEW p, g.page = p.page, NEW i \in DOMAIN g.code,
         NEW piece, Piece(p, g.code, g.at, i, piece),
         NEW o, o = g.code[i], NEW aim, aim = Points(o, From(g, i)),
         o.op \in OpsOf, o.x \in {0, 1}, o.arg \in Int, o.len \in Int, From(g, i) \in Int,
         o.op \in {"adr", "adrp", "bl", "call32"} => aim \notin Entry .. Entry + p.cut - 1,
         o.op \in {"adr", "adrp", "bl"} => aim \in Word,
         o.op \in Branching =>
           \A t : Settles(p, g.code, g.at, aim, t) => Lands(g, t, aim) /\ (amd64 \/ t \in Word)
  PROVE  Copies(g, i, piece)
<1>. DEFINE to == p.page + g.at[i]
            Settle(t) == Settles(p, g.code, g.at, aim, t)
<1>1. To(g, i) = to /\ Points(o, Entry + At0(g.code)[i]) = aim
  BY DEF To, From
<1>2. o.op \in {"adr", "adrp", "bl", "call32"} => \A t : Settle(t) => t = aim
  BY DEF Settles
<1>3. \/ o.op \notin Placebound /\ piece = <<o>>
      \/ /\ amd64 /\ o.op \in X!Control \ {"loop"}
         /\ \E e : piece = <<e>> /\ e.op = X!Wide(o).op /\ e.x = o.x /\ Settle(Points(e, to))
      \/ amd64 /\ o.op = "lea" /\ \E e : piece = <<e>> /\ e.op = "lea" /\ Points(e, to) = aim
      \/ /\ ~amd64 /\ o.op \in R!Branches \cup {"adr", "adrp"}
         /\ \E t : Settle(t) /\ piece = R!RelocateInst(o, t)
      \/ ~amd64 /\ o.op = "adrp" /\ \E e : piece = <<e>> /\ e.op = "adrp" /\ Points(e, to) = aim
  BY <1>1, Zenon DEF Piece
<1>. HIDE DEF Settle, to
<1>4. o.op \in Branching => \A t : Settle(t) => Lands(g, t, aim) /\ (amd64 \/ t \in Word)
  BY DEF Settle
<1>. DEFINE Plain == o.op \in {"plain", "ret", "nop", "int3"} /\ piece = <<o>>
            Jmp == \E e : /\ piece = <<e>> /\ o.op \in {"jmp8", "jmp32"} /\ e.op = "jmp32"
                          /\ Lands(g, Points(e, to), aim)
            Jcc == \E e : /\ piece = <<e>> /\ o.op \in {"jcc8", "jcc32"} /\ e.op = "jcc32"
                          /\ e.x = o.x /\ Lands(g, Points(e, to), aim)
            One == \E e : /\ piece = <<e>> /\ o.op \in {"lea", "call32", "adrp"} /\ e.op = o.op
                          /\ Points(e, to) = aim
            Way == /\ ~amd64 /\ o.op = "b"
                   /\ \E t \in Word : Lands(g, t, aim) /\ piece = JumpTo(t)
            Lnk == ~amd64 /\ o.op = "bl" /\ aim \in Word /\ piece = LinkTo(aim)
            Cnd == /\ ~amd64 /\ o.op \in R!Conditional /\ o.x \in {0, 1}
                   /\ \E t \in Word : Lands(g, t, aim) /\ piece = R!ConditionalBranch(o, t)
            Adr == /\ ~amd64 /\ o.op \in {"adr", "adrp"} /\ aim \in Word
                   /\ piece = R!MoveAddress("movd", aim)
<1>5. Plain \/ Jmp \/ Jcc \/ One \/ Way \/ Lnk \/ Cnd \/ Adr
  <2>1. CASE o.op \notin Placebound /\ piece = <<o>>
    <3>1. o.op \in {"plain", "ret", "nop", "int3"}
      BY <2>1 DEF OpsOf, Placebound, X!PCRelative, X!Control, X!Rel8, R!Branches, R!Conditional
    <3>. QED BY <2>1, <3>1, Zenon
  <2>2. CASE /\ amd64 /\ o.op \in X!Control \ {"loop"}
             /\ \E e : piece = <<e>> /\ e.op = X!Wide(o).op /\ e.x = o.x /\ Settle(Points(e, to))
    <3>1. PICK e : piece = <<e>> /\ e.op = X!Wide(o).op /\ e.x = o.x /\ Settle(Points(e, to))
      BY <2>2
    <3>2. CASE o.op \in {"jmp8", "jmp32"}
      <4>1. e.op = "jmp32"
        BY <3>1, <3>2 DEF X!Wide, X!I
      <4>2. Lands(g, Points(e, to), aim)
        BY <1>4, <3>1, <3>2 DEF Branching
      <4>3. Jmp
        BY <3>1, <3>2, <4>1, <4>2, Zenon
      <4>. QED BY <4>3
    <3>3. CASE o.op \in {"jcc8", "jcc32"}
      <4>1. e.op = "jcc32"
        BY <3>1, <3>3 DEF X!Wide, X!I
      <4>2. Lands(g, Points(e, to), aim)
        BY <1>4, <3>1, <3>3 DEF Branching
      <4>3. Jcc
        BY <3>1, <3>3, <4>1, <4>2, Zenon
      <4>. QED BY <4>3
    <3>4. CASE o.op = "call32"
      <4>1. e.op = o.op
        BY <3>1, <3>4 DEF X!Wide, X!I
      <4>2. Points(e, to) = aim
        BY <1>2, <3>1, <3>4
      <4>3. One
        BY <3>1, <3>4, <4>1, <4>2, Zenon
      <4>. QED BY <4>3
    <3>5. o.op \in {"jmp8", "jmp32", "jcc8", "jcc32", "call32"}
      BY <2>2 DEF X!Control, X!Rel8
    <3>. QED BY <3>2, <3>3, <3>4, <3>5
  <2>3. CASE amd64 /\ o.op = "lea" /\ \E e : piece = <<e>> /\ e.op = "lea" /\ Points(e, to) = aim
    <3>1. One
      BY <2>3, Zenon
    <3>. QED BY <3>1
  <2>4. CASE /\ ~amd64 /\ o.op \in R!Branches \cup {"adr", "adrp"}
             /\ \E t : Settle(t) /\ piece = R!RelocateInst(o, t)
    <3>1. PICK t : Settle(t) /\ piece = R!RelocateInst(o, t)
      BY <2>4
    <3>2. CASE o.op = "b"
      <4>1. Lands(g, t, aim) /\ t \in Word
        BY <1>4, <2>4, <3>1, <3>2 DEF Branching
      <4>2. piece = JumpTo(t)
        BY <3>1, <3>2, PieceOf DEF JumpTo
      <4>3. Way
        BY <2>4, <3>2, <4>1, <4>2, Zenon
      <4>. QED BY <4>3
    <3>3. CASE o.op = "bl"
      <4>1. t = aim /\ aim \in Word
        BY <1>2, <3>1, <3>3
      <4>2. piece = LinkTo(aim)
        BY <3>1, <3>3, <4>1, PieceOf DEF LinkTo
      <4>. QED BY <2>4, <3>3, <4>1, <4>2, Zenon
    <3>4. CASE o.op \in R!Conditional
      <4>1. Lands(g, t, aim) /\ t \in Word
        BY <1>4, <2>4, <3>1, <3>4 DEF Branching, R!Conditional
      <4>2. piece = R!ConditionalBranch(o, t)
        BY <3>1, <3>4, PieceOf
      <4>3. Cnd
        BY <2>4, <3>4, <4>1, <4>2, Zenon
      <4>. QED BY <4>3
    <3>5. CASE o.op \in {"adr", "adrp"}
      <4>1. t = aim /\ aim \in Word
        BY <1>2, <3>1, <3>5
      <4>2. o.op = "adrp" => R!PageOf(aim) = aim
        BY <2>4, PointsIsInt
      <4>3. piece = R!MoveAddress("movd", aim)
        BY <3>1, <3>5, <4>1, <4>2, PieceOf
      <4>. QED BY <2>4, <3>5, <4>1, <4>3, Zenon
    <3>6. o.op \in {"b", "bl", "adr", "adrp"} \cup R!Conditional
      BY <2>4 DEF R!Branches
    <3>. QED BY <3>2, <3>3, <3>4, <3>5, <3>6
  <2>5. CASE /\ ~amd64 /\ o.op = "adrp"
             /\ \E e : piece = <<e>> /\ e.op = "adrp" /\ Points(e, to) = aim
    <3>1. One
      BY <2>5, Zenon
    <3>. QED BY <3>1
  <2>. HIDE DEF Plain, Jmp, Jcc, One, Way, Lnk, Cnd, Adr
  <2>. QED BY <1>3, <2>1, <2>2, <2>3, <2>4, <2>5
<1>. QED BY <1>1, <1>5, Zenon DEF Copies

(* The ordinary instructions are compiled ones.                            *)
LEMMA OrdinaryOps ==
  ASSUME NEW op \in OpsOf
  PROVE  /\ op \in Compiled
         /\ op \in Jumping \cup Tests => op \in Branching
         /\ op \in Branching => op \in X!Control \cup R!Branches
BY DEF OpsOf, Compiled, Jumping, Tests, Branching, R!Conditional, R!Branches, X!Control, X!Rel8

(* Where an address that is nothing of mockey's is outside of the prefix.  *)
LEMMA IsOutside ==
  ASSUME Inv, Static(mem, patches), NEW c \in Nat, NEW a \in Int, a \notin Entry .. Entry + c - 1,
         a \in Zone \/ a \notin Mapped
  PROVE  a \in Outside(c)
BY DEF Outside, Static

(* So is the body behind the cut.                                          *)
LEMMA BehindIsOutside ==
  ASSUME Inv, OrdinaryFunctions, Static(mem, patches), NEW c \in Nat, NEW a \in Int,
         Entry + c <= a, a <= End
  PROVE  a \in Outside(c)
<1>1. Entry \in Nat /\ Size(target.code) \in Nat /\ target \in Functions
  BY InvHolds, TargetIsCode DEF Inv, Shape
<1>2. a \notin Entry .. Entry + c - 1
  BY <1>1
<1>3. CASE a = End
  BY <1>1, <1>2, <1>3, OrdinaryIs, IsOutside
<1>4. CASE a # End
  <2>1. a \in Zone
    BY <1>1, <1>4 DEF Zone, End
  <2>. QED BY <1>2, <2>1, IsOutside
<1>. QED BY <1>3, <1>4

(* An instruction that is decoded in the function is one of it.            *)
LEMMA FunctionDecodes ==
  ASSUME Inv, NEW m, \A b \in Zone : m[b] = Bytes(target.code, Entry)[b],
         NEW a \in Zone, Decode(m, a) # Bad
  PROVE  \E j \in DOMAIN target.code : /\ a = StartsAt(j) /\ Decode(m, a) = target.code[j]
                                       /\ a + target.code[j].len = Entry + At0(target.code)[j + 1]
                                       /\ a + target.code[j].len <= End
<1>. DEFINE T == target.code
<1>1. IsCode(T) /\ Entry \in Nat /\ Size(T) \in Nat
  BY InvHolds, TargetIsCode DEF Inv, Shape
<1>2. m[a].at = 0 /\ Decode(m, a) = m[a].inst
  BY DEF Decode
<1>3. a \in DOMAIN Bytes(T, Entry)
  BY <1>1, BytesAreOfCode DEF Zone
<1>4. PICK j \in DOMAIN T : \E k \in 0 .. T[j].len - 1 :
        a = Entry + At0(T)[j] + k /\ Bytes(T, Entry)[a] = [inst |-> T[j], at |-> k]
  BY <1>1, <1>3, ByteOf
<1>5. PICK k \in 0 .. T[j].len - 1 :
        a = Entry + At0(T)[j] + k /\ Bytes(T, Entry)[a] = [inst |-> T[j], at |-> k]
  BY <1>4
<1>6. k = 0 /\ Decode(m, a) = T[j]
  BY <1>2, <1>5
<1>. HIDE DEF T
<1>7. /\ DOMAIN T = 1 .. Len(T) /\ Len(T) \in Nat /\ T[j].len \in Nat
      /\ At0(T) \in [1 .. Len(T) + 1 -> Nat] /\ At0(T)[j + 1] = At0(T)[j] + T[j].len
      /\ At0(T)[Len(T) + 1] = Size(T)
      /\ \A n \in 1 .. Len(T) + 1 : \A i \in 1 .. n : At0(T)[i] <= At0(T)[n]
  BY <1>1, <1>4, CodeSize
<1>8. At0(T)[j] \in Nat /\ At0(T)[j + 1] \in Nat /\ At0(T)[j + 1] <= Size(T)
  <2>1. j \in 1 .. Len(T) + 1 /\ j + 1 \in 1 .. Len(T) + 1 /\ Len(T) + 1 \in 1 .. Len(T) + 1
    BY <1>7
  <2>2. j + 1 \in 1 .. Len(T) + 1
    BY <2>1
  <2>. QED BY <1>7, <2>1, <2>2
<1>9. a = Entry + At0(T)[j] /\ a + T[j].len = Entry + At0(T)[j + 1] /\ a + T[j].len <= End
  <2>1. At0(T)[j + 1] = At0(T)[j] + T[j].len /\ T[j].len \in Nat
    BY <1>7
  <2>2. a = Entry + At0(T)[j]
    BY <1>1, <1>5, <1>6, <1>8
  <2>3. End = Entry + Size(T)
    BY DEF End, T
  <2>. QED BY <1>1, <1>8, <2>1, <2>2, <2>3
<1>. QED BY <1>6, <1>9 DEF T, StartsAt, At0

(* Behind the prefix of the first patch everything is as it was and stays  *)
(* behind it.                                                              *)
LEMMA OutIsSame ==
  ASSUME Inv, OrdinaryFunctions, Static(mem, patches), 1 \in 1 .. Len(patches),
         NEW c, c = patches[1].cut, \A j \in 1 .. Len(patches) : patches[j].cut <= c,
         BodyStaysOut(1), NEW g, g.new = mem, g.old = Before(1), g.out = Outside(c),
         NEW pc \in Outside(c)
  PROVE  Same(g, pc)
<1>. DEFINE i == Decode(g.old, pc)
            T == target.code
<1>1. PICK h : Layers(h, mem, patches)
  BY DEF Inv
<1>2. /\ Shape /\ Zone \subseteq DOMAIN mem /\ Entry \in Nat /\ Len(patches) \in Nat
      /\ target \in Functions /\ Size(target.code) \in Nat /\ PatchOK(patches[1])
  BY InvHolds, TargetIsCode DEF Inv, Shape
<1>3. c \in Nat
  BY <1>2 DEF PatchOK
<1>4. pc \in Int /\ pc \notin Entry .. Entry + c - 1 /\ (pc \in DOMAIN mem => pc \in Zone)
  BY DEF Outside
<1>5. Decode(g.new, pc) = i
  BY <1>2, <1>3, OutsideIsSame
<1>6. ASSUME i # Bad
      PROVE  /\ i.op \in Compiled
             /\ i.op \notin Jumping => pc + i.len \in g.out
             /\ i.op \in Jumping \cup Tests => Points(i, pc) \in g.out
  <2>1. 1 \in 1 .. Len(patches) + 1
    BY <1>2
  <2>2. /\ DOMAIN Before(1) = DOMAIN mem
        /\ \A b \in DOMAIN mem : b \in Zone => Before(1)[b] = h[1][b]
    BY <1>1, <1>2, <2>1, BeforeIs
  <2>3. \A b \in Zone : Before(1)[b] = Bytes(T, Entry)[b]
    BY <1>1, <1>2, <2>2 DEF Layers
  <2>4. pc \in Zone
    BY <1>4, <1>6, <2>2 DEF Decode
  <2>5. PICK j \in DOMAIN T : /\ pc = StartsAt(j) /\ i = T[j]
                              /\ pc + T[j].len = Entry + At0(T)[j + 1]
                              /\ pc + T[j].len <= End
    BY <1>6, <2>3, <2>4, FunctionDecodes
  <2>6. T[j].op \in OpsOf /\ (T[j].op \in Branching => AimOf(j) \notin Mapped)
    BY <1>2, OrdinaryIs
  <2>7. T[j].len \in Nat /\ T[j].arg \in Int
    BY <1>2, TargetIsCode, ArgsAreInt DEF IsCode
  <2>8. Entry + c <= pc
    BY <1>2, <1>3, <1>4, <2>4 DEF Zone
  <2>. HIDE DEF T, i
  <2>9. pc + T[j].len \in g.out
    <3>1. pc + T[j].len \in Int /\ Entry + c <= pc + T[j].len
      BY <1>2, <1>3, <1>4, <2>7, <2>8, SMTT(30)
    <3>. QED BY <1>3, <2>5, <3>1, BehindIsOutside
  <2>10. ASSUME T[j].op \in Jumping \cup Tests PROVE Points(T[j], pc) \in g.out
    <3>1. T[j].op \in Branching /\ T[j].op \in X!Control \cup R!Branches
      BY <2>6, <2>10, OrdinaryOps
    <3>2. Points(T[j], pc) = AimOf(j)
      BY <2>5 DEF AimOf, T
    <3>3. AimOf(j) \notin Entry .. Entry + c - 1
      <4>1. StartsAt(j) >= Entry + patches[1].cut
        BY <1>2, <1>3, <1>4, <2>5, <2>8
      <4>. QED BY <3>1, <4>1 DEF BodyStaysOut, AimOf, T
    <3>4. T[j].op # "adrp"
      BY <3>1 DEF Branching
    <3>5. Points(T[j], pc) \in Int
      BY <1>4, <2>7, <3>4, PointsIsInt
    <3>. QED BY <1>3, <2>6, <3>1, <3>2, <3>3, <3>5, IsOutside
  <2>. QED BY <2>5, <2>6, <2>9, <2>10, OrdinaryOps
<1>. QED BY <1>4, <1>5, <1>6 DEF Same

(* The prefix of the first patch is the start of the function.             *)
LEMMA PrefixOfFunction ==
  ASSUME Inv, NEW h, Layers(h, mem, patches), 1 \in 1 .. Len(patches),
         NEW code, IsCode(code), Has(Before(1), code, Entry), Size(code) = patches[1].cut
  PROVE  /\ \A i \in DOMAIN code : i \in DOMAIN target.code /\ target.code[i] = code[i]
         /\ \A i \in 1 .. Len(code) + 1 : At0(target.code)[i] = At0(code)[i]
<1>. DEFINE T == target.code
            c == patches[1].cut
<1>1. /\ Shape /\ Zone \subseteq DOMAIN mem /\ Entry \in Nat /\ Len(patches) \in Nat
      /\ IsCode(T) /\ Size(T) \in Nat /\ PatchOK(patches[1])
  BY InvHolds, TargetIsCode DEF Inv, Shape
<1>2. c \in Nat /\ c <= Size(T)
  BY <1>1 DEF PatchOK
<1>3. 1 \in 1 .. Len(patches) + 1
  BY <1>1
<1>4. /\ DOMAIN Before(1) = DOMAIN mem
      /\ \A b \in DOMAIN mem : b \in Zone => Before(1)[b] = h[1][b]
  BY <1>1, <1>3, BeforeIs
<1>5. \A b \in Zone : Before(1)[b] = Bytes(T, Entry)[b]
  BY <1>1, <1>4 DEF Layers
<1>6. \A b \in DOMAIN Bytes(code, Entry) : b \in Zone
  <2>1. DOMAIN Bytes(code, Entry) = Entry .. Entry + c - 1
    BY <1>1, BytesAreOfCode
  <2>2. Zone = Entry .. Entry + Size(T) - 1
    BY DEF Zone
  <2>. HIDE DEF T, c
  <2>. QED BY <1>1, <1>2, <2>1, <2>2
<1>7. \A b \in DOMAIN Bytes(code, Entry) : Bytes(code, Entry)[b] = Bytes(T, Entry)[b]
  BY <1>5, <1>6 DEF Has
<1>. HIDE DEF T, c
<1>8. Size(code) <= Size(T) /\ Entry \in Int
  BY <1>1, <1>2 DEF c
<1>. QED BY <1>1, <1>7, <1>8, SameStart DEF T

(* The proxy of the first patch stands for the function.                   *)
LEMMA FirstIsGood ==
  ASSUME Inv, OrdinaryFunctions, Static(mem, patches), 1 \in 1 .. Len(patches),
         Relocates(1), BodyStaysOut(1)
  PROVE  \E g : /\ g.new = mem /\ g.old = Before(1) /\ Good(g)
                /\ Lands(g, patches[1].page, Entry)
<1>. DEFINE p == patches[1]
            c == p.cut
            T == target.code
<1>1. PICK h : Layers(h, mem, patches)
  BY DEF Inv
<1>2. /\ Shape /\ Zone \subseteq DOMAIN mem /\ Entry \in Nat /\ Len(patches) \in Nat
      /\ target \in Functions /\ IsCode(T) /\ Size(T) \in Nat /\ PatchOK(p)
      /\ \A i \in DOMAIN T : T[i].len \in Lens
  BY InvHolds, TargetIsCode DEF Inv, Shape
<1>3. p.how # "verbatim" /\ \A j \in 1 .. Len(patches) : patches[j].cut <= c
  <2>1. p.how # "verbatim" /\ \A j \in 2 .. Len(patches) : patches[j].cut <= c
    BY DEF Relocates
  <2>2. c \in Nat
    BY <1>2 DEF PatchOK
  <2>. QED BY <1>2, <2>1, <2>2
<1>4. PICK code, moved, at : Shown(1, code, moved, at)
  BY <1>1, <1>3, ProxyIsShown
<1>5. /\ IsCode(code) /\ IsCode(moved) /\ p.page \in Int /\ Size(code) = c /\ c \in ShortCut .. MaxCut
      /\ at[1] = 0 /\ at[Len(code) + 1] = Size(moved) /\ \A i \in DOMAIN code : at[i] \in Nat
      /\ Has(Before(1), code, Entry) /\ Runs(mem, BranchTo(Entry + c), p.page + Size(moved))
  BY <1>4, Zenon DEF Shown, Relocation
<1>6. /\ \A i \in DOMAIN code : i \in DOMAIN T /\ T[i] = code[i]
      /\ \A i \in 1 .. Len(code) + 1 : At0(T)[i] = At0(code)[i]
  BY <1>1, <1>5, PrefixOfFunction
<1>7. c \in Nat /\ 0 < c /\ c <= MaxCut /\ MaxCut \in Nat /\ c <= Size(T)
  <2>1. c <= Size(T)
    BY <1>2 DEF PatchOK
  <2>. QED BY <1>5, <2>1 DEF ShortCut, MaxCut
<1>. DEFINE g == [new |-> mem, old |-> Before(1), code |-> code, page |-> p.page, at |-> at,
                  live |-> DOMAIN code, out |-> Outside(c)]
<1>8. /\ g.new = mem /\ g.old = Before(1) /\ g.code = code /\ g.page = p.page /\ g.at = at
      /\ g.live = DOMAIN code /\ g.out = Outside(c)
  OBVIOUS
<1>9. \A j : From(g, j) = Entry + At0(code)[j] /\ To(g, j) = p.page + at[j]
  BY DEF From, To
<1>10. Behind(g) = Entry + c
  BY <1>5 DEF Behind
<1>. HIDE DEF g
<1>11. \A pc \in g.out : Same(g, pc)
  BY <1>3, <1>8, OutIsSame
<1>12. Entry + c \in Outside(c) /\ Reachable(Entry + c)
  <2>1. Entry + c \in Int /\ Entry + c <= End
    BY <1>2, <1>7 DEF End
  <2>2. Entry + c \in Outside(c)
    BY <1>2, <1>7, <2>1, BehindIsOutside
  <2>3. ~amd64 => Entry + c \in Word
    <3>1. ~amd64 => End \in Word
      BY <1>2, OrdinaryIs
    <3>. DEFINE v == Entry + c
    <3>2. v \in Int /\ v >= 0 /\ v <= End
      BY <1>2, <1>7, <2>1
    <3>3. End \in Int
      BY <1>2 DEF End
    <3>. HIDE DEF v
    <3>. DEFINE top == R!Addresses - 1
                e == End
    <3>4. top \in Int
      BY DEF R!Addresses
    <3>5. (~amd64 => e \in 0 .. top) /\ e \in Int /\ v <= e
      BY <3>1, <3>2, <3>3 DEF Word
    <3>. HIDE DEF top, e
    <3>6. ~amd64 => v \in 0 .. top
      BY <3>2, <3>4, <3>5
    <3>7. ~amd64 => v \in Word
      BY <3>6 DEF Word, top
    <3>. QED BY <3>7 DEF v
  <2>. QED BY <2>1, <2>2, <2>3 DEF Reachable
<1>. HIDE DEF p, c, T
<1>13. /\ DOMAIN code = 1 .. Len(code) /\ Len(code) \in Nat
       /\ At0(code) \in [1 .. Len(code) + 1 -> Nat] /\ At0(code)[1] = 0
       /\ At0(code)[Len(code) + 1] = c
       /\ \A i \in 1 .. Len(code) : /\ code[i].len \in Nat \ {0}
                                    /\ At0(code)[i + 1] = At0(code)[i] + code[i].len
       /\ \A j \in 1 .. Len(code) + 1 : \A i \in 1 .. j : At0(code)[i] <= At0(code)[j]
  BY <1>5, CodeSize
<1>14. ASSUME NEW j \in DOMAIN code
       PROVE  /\ j + 1 \in 1 .. Len(code) + 1 /\ At0(code)[j] \in Nat /\ At0(code)[j + 1] \in Nat
              /\ At0(code)[j + 1] = At0(code)[j] + code[j].len
              /\ At0(code)[j] < c
  <2>1. j \in 1 .. Len(code) + 1 /\ j + 1 \in 1 .. Len(code) + 1 /\ j \in 1 .. Len(code)
        /\ Len(code) + 1 \in 1 .. Len(code) + 1
    BY <1>13
  <2>2. At0(code)[j] \in Nat /\ At0(code)[j + 1] \in Nat
    BY <1>13, <2>1
  <2>3. At0(code)[j + 1] = At0(code)[j] + code[j].len /\ code[j].len \in Nat \ {0}
    BY <1>13, <2>1
  <2>4. At0(code)[j + 1] <= At0(code)[Len(code) + 1]
    BY <1>13, <2>1
  <2>. QED BY <1>7, <1>13, <2>1, <2>2, <2>3, <2>4
<1>15. ASSUME NEW j \in DOMAIN code
       PROVE  \E piece : /\ IsCode(piece) /\ Runs(mem, piece, p.page + at[j])
                         /\ at[j + 1] = at[j] + Size(piece)
                         /\ Piece(p, code, at, j, piece)
                         /\ 1 \in DOMAIN piece => p.page + at[j] \in Mapped
  BY <1>4, Zenon DEF Shown, p
<1>16. ASSUME NEW j \in DOMAIN code, ~amd64
       PROVE  p.page + at[j] \in Word
  <2>1. PICK piece : /\ Piece(p, code, at, j, piece)
                     /\ 1 \in DOMAIN piece => p.page + at[j] \in Mapped
    BY <1>15
  <2>2. code[j].len = 4
    BY <1>2, <1>6, <1>16 DEF Lens
  <2>3. 1 \in DOMAIN piece
    BY <1>16, <2>1, <2>2, PieceIsSome
  <2>4. \A a \in Mapped : a \in Word
    BY <1>2, <1>16, OrdinaryIs
  <2>. QED BY <2>1, <2>3, <2>4
<1>17. ASSUME NEW j \in DOMAIN code
       PROVE  Copied(g, j)
  <2>. DEFINE o == code[j]
              aim == Points(o, From(g, j))
  <2>1. /\ o.op \in OpsOf /\ o.x \in {0, 1} /\ o.arg \in Int /\ o.len \in Nat \ {0}
        /\ o.op \in Branching => AimOf(j) \notin Mapped
        /\ o.op \in {"adr", "adrp", "bl", "b", "cb", "tb", "bcond"} => AimOf(j) \in Word
        /\ o.op \in {"adr", "adrp", "bl", "call32"} /\ StartsAt(j) < Entry + MaxCut =>
             AimOf(j) \notin Entry .. Entry + MaxCut - 1
    <3>1. j \in DOMAIN T /\ o = T[j] /\ o.len \in Nat \ {0}
      BY <1>6, <1>13
    <3>2. o.arg \in Int
      BY <1>2, <3>1, ArgsAreInt DEF T
    <3>. HIDE DEF o
    <3>. QED BY <1>2, <3>1, <3>2, OrdinaryIs DEF T
  <2>2. StartsAt(j) = From(g, j) /\ AimOf(j) = aim
    <3>1. j \in 1 .. Len(code) + 1 /\ T[j] = o
      BY <1>6, <1>13
    <3>2. StartsAt(j) = From(g, j)
      BY <1>6, <1>9, <3>1 DEF StartsAt, At0, T
    <3>. QED BY <3>1, <3>2 DEF AimOf, T
  <2>3. From(g, j) \in Int /\ From(g, j + 1) \in Int /\ From(g, j + 1) = From(g, j) + o.len
        /\ From(g, j) < Entry + c
    <3>1. From(g, j) = Entry + At0(code)[j] /\ From(g, j + 1) = Entry + At0(code)[j + 1]
      BY <1>9
    <3>2. /\ At0(code)[j] \in Nat /\ At0(code)[j + 1] \in Nat /\ At0(code)[j] < c
          /\ At0(code)[j + 1] = At0(code)[j] + o.len /\ Entry \in Int
      BY <1>2, <1>14
    <3>. HIDE DEF o
    <3>. QED BY <1>7, <2>1, <3>1, <3>2, SMTT(30)
  <2>4. To(g, j) \in Int
    BY <1>5, <1>9 DEF p
  <2>5. Decode(g.old, From(g, j)) = o
    <3>1. Entry \in Int
      BY <1>2
    <3>2. Runs(Before(1), code, Entry)
      BY <1>5, <3>1, HasRuns
    <3>3. Decode(Before(1), Entry + At0(code)[j]) = code[j]
      BY <3>2, Zenon DEF Runs
    <3>. QED BY <1>8, <1>9, <3>3
  <2>. HIDE DEF aim, o
  <2>6. PICK piece : /\ IsCode(piece) /\ Runs(mem, piece, p.page + at[j])
                     /\ at[j + 1] = at[j] + Size(piece)
                     /\ Piece(p, code, at, j, piece)
    BY <1>15
  <2>7. ASSUME o.op \in Branching, NEW t, Settles(p, code, at, aim, t)
        PROVE  Lands(g, t, aim) /\ (amd64 \/ t \in Word)
    <3>1. CASE aim \in Entry .. Entry + p.cut - 1
      <4>1. PICK n \in DOMAIN code : aim = Entry + At0(code)[n] /\ t = p.page + at[n]
        BY <2>7, <3>1 DEF Settles
      <4>2. n \in g.live /\ t = To(g, n) /\ aim = From(g, n)
        BY <1>8, <1>9, <4>1
      <4>. QED BY <1>16, <4>1, <4>2 DEF Lands
    <3>2. CASE aim \notin Entry .. Entry + p.cut - 1
      <4>1. t = aim
        BY <2>7, <3>2 DEF Settles
      <4>2. aim \in Int
        <5>1. o.op # "adrp"
          BY <2>7 DEF Branching
        <5>. QED BY <2>1, <2>3, <5>1, PointsIsInt DEF aim
      <4>3. aim \in Outside(c)
        BY <1>7, <2>1, <2>2, <2>7, <3>2, <4>2, IsOutside DEF c
      <4>4. amd64 \/ aim \in Word
        BY <2>1, <2>2, <2>7 DEF Branching, OpsOf
      <4>. QED BY <1>8, <4>1, <4>3, <4>4 DEF Lands
    <3>. QED BY <3>1, <3>2
  <2>8. Copies(g, j, piece)
    <3>1. o = g.code[j] /\ j \in DOMAIN g.code /\ aim = Points(o, From(g, j)) /\ g.page = p.page
      BY <1>8 DEF o, aim
    <3>2. Piece(p, g.code, g.at, j, piece)
      BY <1>8, <2>6
    <3>3. o.op \in {"adr", "adrp", "bl", "call32"} => aim \notin Entry .. Entry + p.cut - 1
      <4>1. From(g, j) < Entry + MaxCut
        BY <1>2, <1>7, <2>3
      <4>2. \A a \in Entry .. Entry + p.cut - 1 : a \in Entry .. Entry + MaxCut - 1
        BY <1>2, <1>7 DEF c
      <4>. QED BY <2>1, <2>2, <4>1, <4>2
    <3>4. o.op \in {"adr", "adrp", "bl"} => aim \in Word
      BY <2>1, <2>2
    <3>5. o.op \in Branching =>
            \A t : Settles(p, g.code, g.at, aim, t) => Lands(g, t, aim) /\ (amd64 \/ t \in Word)
      BY <1>8, <2>7
    <3>6. o.len \in Int
      BY <2>1
    <3>. QED BY <2>1, <2>3, <3>1, <3>2, <3>3, <3>4, <3>5, <3>6, PieceCopies
  <2>9. To(g, j + 1) = To(g, j) + Size(piece)
    <3>1. Size(piece) \in Nat
      BY <2>6, CodeSize
    <3>. QED BY <1>5, <1>9, <2>6, <3>1 DEF p
  <2>10. Follows(g, j + 1)
    <3>1. CASE j = Len(code)
      <4>1. From(g, j + 1) = Behind(g)
        BY <1>9, <1>10, <1>13, <3>1 DEF c
      <4>2. Runs(g.new, BranchTo(Behind(g)), To(g, j + 1))
        BY <1>5, <1>8, <1>9, <1>10, <3>1 DEF p, c
      <4>. QED BY <1>8, <1>10, <1>12, <4>1, <4>2 DEF Follows, c
    <3>2. CASE j # Len(code)
      <4>1. j + 1 \in DOMAIN code
        BY <1>13, <3>2
      <4>. QED BY <1>8, <4>1 DEF Follows
    <3>. QED BY <3>1, <3>2
  <2>11. g.code[j] = o /\ o.op \in Compiled
    BY <1>8, <2>1, OrdinaryOps DEF o
  <2>12. Runs(g.new, piece, To(g, j))
    BY <1>8, <1>9, <2>6
  <2>. QED BY <2>3, <2>4, <2>5, <2>6, <2>8, <2>9, <2>10, <2>11, <2>12, Zenon DEF Copied
<1>18. Good(g)
  BY <1>8, <1>11, <1>17 DEF Good
<1>19. Lands(g, p.page, Entry)
  <2>1. 1 \in DOMAIN code
    <3>1. Len(code) # 0
      BY <1>7, <1>13
    <3>. QED BY <1>13, <3>1
  <2>2. p.page = To(g, 1) /\ Entry = From(g, 1)
    BY <1>2, <1>5, <1>9, <1>13, SMTT(30) DEF p
  <2>. QED BY <1>8, <2>1, <2>2 DEF Lands
<1>. QED BY <1>8, <1>18, <1>19 DEF p

(* A branch that mockey wrote, in the prefix of a later patch: it is moved *)
(* as it is.                                                               *)
LEMMA BranchMoves ==
  ASSUME NEW k, NEW code, NEW moved, NEW at, Shown(k, code, moved, at),
         NEW v, NEW w, w = BranchInto(v), \A i \in DOMAIN w : i \in DOMAIN code /\ code[i] = w[i]
  PROVE  Runs(mem, w, patches[k].page)
<1>. DEFINE p == patches[k]
            n == Len(w)
<1>1. /\ IsCode(w) /\ DOMAIN w = 1 .. n /\ n \in Nat
      /\ \A i \in 1 .. n : w[i].len \in Nat \ {0}
      /\ At0(w) \in [1 .. n + 1 -> Nat]
  <2>1. IsCode(w)
    BY BranchCode
  <2>. QED BY <2>1, CodeSize
<1>2. p.page \in Int /\ at[1] = 0 /\ \A i \in DOMAIN code : at[i] \in Nat
  BY Zenon DEF Shown, Relocation
<1>3. \A i \in DOMAIN w : w[i].op \notin Placebound /\ (amd64 => w[i].op # "lea")
  <2>1. amd64 => \A i \in DOMAIN w : w[i].op \in {"set", "hookset"}
    <3>1. amd64 => DOMAIN w = 1 .. 2 /\ w[1].op = "set" /\ w[2].op = "hookset"
      BY BranchCode
    <3>. HIDE DEF n
    <3>. QED BY <3>1
  <2>2. ~amd64 => \A i \in DOMAIN w : w[i].op \in {"mov", "ldrset", "hookset"}
    <3>1. ~amd64 => /\ DOMAIN w = 1 .. 6 /\ w[5].op = "ldrset" /\ w[6].op = "hookset"
                    /\ \A i \in 1 .. 4 : w[i].op = "mov"
      BY BranchCode
    <3>2. \A i \in 1 .. 6 : i = 5 \/ i = 6 \/ i \in 1 .. 4
      BY SMT
    <3>. HIDE DEF n
    <3>. QED BY <3>1, <3>2
  <2>. QED BY <2>1, <2>2 DEF Placebound, X!PCRelative, X!Control, X!Rel8, R!Branches, R!Conditional
<1>4. ASSUME NEW i \in DOMAIN w
      PROVE  /\ Decode(mem, p.page + at[i]) = w[i] /\ at[i + 1] = at[i] + w[i].len
             /\ at[i] \in Nat
  <2>1. i \in DOMAIN code /\ code[i] = w[i]
    OBVIOUS
  <2>2. PICK piece : /\ IsCode(piece) /\ Runs(mem, piece, p.page + at[i])
                     /\ at[i + 1] = at[i] + Size(piece)
                     /\ Piece(p, code, at, i, piece)
    BY <2>1, Zenon DEF Shown
  <2>3. piece = <<w[i]>>
    <3>1. code[i].op \notin Placebound
      BY <1>3, <2>1
    <3>2. /\ amd64 => code[i].op \notin X!Control \ {"loop"} /\ code[i].op # "lea"
          /\ ~amd64 => code[i].op \notin R!Branches \cup {"adr", "adrp"}
      BY <3>1 DEF Placebound, X!PCRelative
    <3>3. ~amd64 => code[i].op # "adrp"
      BY <3>2
    <3>4. piece = <<code[i]>>
      BY <2>2, <3>2, <3>3, Zenon DEF Piece
    <3>. QED BY <2>1, <3>4
  <2>. DEFINE e == w[i]
              a == p.page + at[i]
  <2>4. a \in Int /\ IsCode(<<e>>) /\ Runs(mem, <<e>>, a)
    BY <1>2, <2>1, <2>2, <2>3
  <2>. HIDE DEF e, a
  <2>5. Decode(mem, a) = e /\ Size(<<e>>) = e.len
    BY <2>4, OneInstruction
  <2>. QED BY <1>2, <2>1, <2>2, <2>3, <2>5 DEF e, a
<1>5. \A i \in 1 .. n + 1 : at[i] = At0(w)[i]
  <2>1. n \in 0 .. Len(w)
    BY <1>1
  <2>2. \A i \in 1 .. n : at[i + 1] = at[i] + w[i].len
    BY <1>1, <1>4
  <2>3. at[1] = 0 /\ IsCode(w)
    BY <1>1, <1>2
  <2>. HIDE DEF n
  <2>. QED BY <2>1, <2>2, <2>3, OnlyOffsets, Zenon
<1>6. \A i \in DOMAIN w : Decode(mem, p.page + At0(w)[i]) = w[i]
  <2>1. \A i \in DOMAIN w : i \in 1 .. n + 1
    BY <1>1
  <2>. QED BY <1>4, <1>5, <2>1
<1>. QED BY <1>6 DEF Runs

LEMMA HookIsWord ==
  ASSUME Inv, NEW k \in 1 .. Len(patches)
  PROVE  patches[k].hook \in Word
BY InvHolds DEF Inv, Shape, PatchOK

(* A later patch was put over the branch of the one before.                *)
LEMMA OverABranch ==
  ASSUME Inv, Static(mem, patches), NEW k \in 1 .. Len(patches), NEW h, Layers(h, mem, patches),
         NEW code, NEW moved, NEW at, Shown(k, code, moved, at),
         NEW v \in Word, InEntry(h[k], BranchInto(v))
  PROVE  /\ Runs(mem, BranchInto(v), patches[k].page) /\ patches[k].page \in Int
         /\ Runs(Before(k), BranchInto(v), Entry)
<1>. DEFINE w == BranchInto(v)
            p == patches[k]
            old == Before(k)
<1>1. /\ Shape /\ Zone \subseteq DOMAIN mem /\ Entry \in Nat /\ Len(patches) \in Nat
      /\ k \in 1 .. Len(patches) + 1
  BY InvHolds, TargetIsCode DEF Inv, Shape
<1>2. /\ IsCode(code) /\ Has(old, code, Entry) /\ p.page \in Int
      /\ Size(code) = p.cut /\ p.cut \in ShortCut .. MaxCut
      /\ code[1].op \in {"set", "mov"} => LongCut <= p.cut
  BY Zenon DEF Shown, Relocation
<1>3. Has(old, w, Entry)
  <2>1. /\ DOMAIN old = DOMAIN mem
        /\ \A b \in DOMAIN mem : b \in Zone => old[b] = h[k][b]
    BY <1>1, BeforeIs
  <2>. HIDE DEF w, old
  <2>2. \A b \in DOMAIN Bytes(w, Entry) : b \in Zone /\ h[k][b] = Bytes(w, Entry)[b]
    BY DEF InEntry, w
  <2>. QED BY <1>1, <2>1, <2>2 DEF Has
<1>4. IsCode(w) /\ 1 \in DOMAIN w /\ w[1].op \in {"set", "mov"} /\ Size(w) = LongCut
      /\ LongCut \in Nat \ {0} /\ 0 < LongCut
  <2>1. IsCode(w) /\ 1 \in DOMAIN w
    BY HookCode
  <2>2. w[1].op \in {"set", "mov"}
    <3>1. w = BranchInto(v)
      OBVIOUS
    <3>. HIDE DEF w
    <3>2. amd64 => w[1].op = "set"
      BY <3>1, BranchCode
    <3>3. ~amd64 => w[1].op = "mov"
      <4>1. ~amd64 => \A i \in 1 .. 4 : w[i].op = "mov"
        BY <3>1, BranchCode
      <4>. QED BY <4>1
    <3>. QED BY <3>2, <3>3
  <2>3. Size(w) = LongCut
    BY LongBranchIsSound
  <2>4. LongCut \in Nat \ {0} /\ 0 < LongCut
    BY DEF LongCut
  <2>. QED BY <2>1, <2>2, <2>3, <2>4
<1>. HIDE DEF w, p, old
<1>5. 1 \in DOMAIN code /\ code[1] = w[1]
  <2>1. 0 < Size(code) /\ 0 < Size(w) /\ Entry \in Int
    BY <1>1, <1>2, <1>4 DEF ShortCut
  <2>2. code[1] = Decode(old, Entry) /\ 1 \in DOMAIN code
    BY <1>2, <2>1, FirstIs
  <2>3. w[1] = Decode(old, Entry)
    BY <1>3, <1>4, <2>1, FirstIs
  <2>. QED BY <2>2, <2>3
<1>6. Size(w) <= Size(code)
  BY <1>2, <1>4, <1>5
<1>7. \A b \in DOMAIN Bytes(w, Entry) : Bytes(w, Entry)[b] = Bytes(code, Entry)[b]
  <2>0. Entry \in Int
    BY <1>1
  <2>3. DOMAIN Bytes(w, Entry) = Entry .. Entry + Size(w) - 1 /\ Size(w) \in Nat
    BY <1>4, <2>0, BytesAreOfCode, CodeSize
  <2>4. DOMAIN Bytes(code, Entry) = Entry .. Entry + Size(code) - 1 /\ Size(code) \in Nat
    BY <1>2, <2>0, BytesAreOfCode, CodeSize
  <2>1. /\ DOMAIN Bytes(w, Entry) = Entry .. Entry + Size(w) - 1
        /\ DOMAIN Bytes(code, Entry) = Entry .. Entry + Size(code) - 1
        /\ Size(w) \in Nat /\ Size(code) \in Nat
    BY <2>3, <2>4
  <2>2. \A b \in DOMAIN Bytes(w, Entry) : b \in DOMAIN Bytes(code, Entry)
    BY <1>1, <1>6, <2>1
  <2>. QED BY <1>2, <1>3, <2>2 DEF Has
<1>8. \A i \in DOMAIN w : i \in DOMAIN code /\ code[i] = w[i]
  BY <1>1, <1>2, <1>4, <1>6, <1>7, SameStart
<1>9. Runs(mem, w, p.page)
  BY <1>8, BranchMoves DEF w, p
<1>10. Runs(old, w, Entry)
  BY <1>1, <1>3, <1>4, HasRuns
<1>. QED BY <1>2, <1>9, <1>10 DEF w, p, old

(* The short branch, and where it goes.                                    *)
LEMMA JumpIs ==
  ASSUME NEW r \in Int, NEW o, o = Jump(r), Entry \in Int
  PROVE  /\ IsCode(<<o>>) /\ Points(o, Entry) = r /\ o.len \in Nat \ {0} /\ o \in {Jump(r)}
         /\ Size(<<o>>) = o.len /\ o.op \in Jumping
         /\ amd64 => o.op = "jmp32"
         /\ ~amd64 => o.op = "b"
<1>1. /\ amd64 => o.op = "jmp32" /\ o.len = 5 /\ o.arg = r - (Entry + 5)
      /\ ~amd64 => o.op = "b" /\ o.len = 4 /\ o.arg = r - Entry
  BY DEF Jump, I, X!I, R!I
<1>2. Points(o, Entry) = r
  BY <1>1 DEF Points, R!Target
<1>3. o.op \in Jumping
  BY <1>1 DEF Jumping
<1>4. o.len \in Nat \ {0}
  BY <1>1
<1>5. IsCode(<<o>>) /\ Size(<<o>>) = o.len
  BY <1>4, OnesAreCode, OneIsCode
<1>. QED BY <1>1, <1>2, <1>3, <1>4, <1>5

(* A later patch was put over the short branch of the one before, which    *)
(* goes to r; there, nothing has changed.                                  *)
LEMMA OverAJump ==
  ASSUME Inv, OrdinaryFunctions, Static(mem, patches), NEW k \in 1 .. Len(patches),
         NEW h, Layers(h, mem, patches),
         NEW code, NEW moved, NEW at, Shown(k, code, moved, at),
         NEW v \in Word, NEW r \in Int, InEntry(h[k], <<Jump(r)>>), Holds(mem, BranchInto(v), r)
  PROVE  \E g : /\ g.new = mem /\ g.old = Before(k) /\ Good(g)
                /\ Lands(g, patches[k].page, Entry)
<1>. DEFINE w == BranchInto(v)
            p == patches[k]
            old == Before(k)
            o == Jump(r)
<1>1. /\ Shape /\ Zone \subseteq DOMAIN mem /\ Entry \in Nat /\ Len(patches) \in Nat
      /\ k \in 1 .. Len(patches) + 1 /\ PatchOK(p) /\ target \in Functions
      /\ Size(target.code) \in Nat
  BY InvHolds, TargetIsCode DEF Inv, Shape
<1>2. /\ IsCode(code) /\ Has(old, code, Entry) /\ p.page \in Int
      /\ Size(code) = p.cut /\ p.cut \in ShortCut .. MaxCut
      /\ at[1] = 0 /\ \A i \in DOMAIN code : at[i] \in Nat
  BY Zenon DEF Shown, Relocation
<1>3. /\ DOMAIN old = DOMAIN mem
      /\ \A b \in DOMAIN mem : b \in Zone => old[b] = h[k][b]
      /\ \A b \in DOMAIN mem : b \notin Zone => old[b] = mem[b]
  BY <1>1, BeforeIs
<1>4. /\ IsCode(<<o>>) /\ Points(o, Entry) = r /\ o.len \in Nat \ {0} /\ o.op \in Jumping
      /\ Size(<<o>>) = o.len
      /\ amd64 => o.op = "jmp32"
      /\ ~amd64 => o.op = "b"
  BY <1>1, JumpIs
<1>5. IsCode(w) /\ 1 \in DOMAIN w
  BY HookCode
<1>. HIDE DEF o, w, old
<1>6. Has(old, <<o>>, Entry)
  <2>1. \A b \in DOMAIN Bytes(<<o>>, Entry) : b \in Zone /\ h[k][b] = Bytes(<<o>>, Entry)[b]
    BY DEF InEntry, o
  <2>. QED BY <1>1, <1>3, <2>1 DEF Has
<1>7. 1 \in DOMAIN code /\ code[1] = o
  <2>1. 0 < Size(code) /\ 0 < Size(<<o>>) /\ Entry \in Int
    BY <1>1, <1>2, <1>4 DEF ShortCut
  <2>2. code[1] = Decode(old, Entry) /\ 1 \in DOMAIN code
    BY <1>2, <2>1, FirstIs
  <2>. DEFINE one == <<o>>
  <2>3. one[1] = o
    OBVIOUS
  <2>. HIDE DEF one
  <2>4. one[1] = Decode(old, Entry)
    BY <1>4, <1>6, <2>1, FirstIs DEF one
  <2>. QED BY <2>2, <2>3, <2>4
<1>8. Has(mem, w, r) /\ \A b \in DOMAIN Bytes(w, r) : b \notin Zone
  BY DEF Has, Holds, w
<1>9. Runs(mem, w, r)
  BY <1>5, <1>8, HasRuns
<1>10. Runs(old, w, r)
  <2>1. Has(old, w, r)
    BY <1>3, <1>8 DEF Has
  <2>. QED BY <1>5, <2>1, HasRuns
<1>11. r \in DOMAIN mem /\ r \notin Zone
  <2>1. At0(w)[1] = 0 /\ w[1].len \in Nat \ {0}
    BY <1>5, CodeSize
  <2>2. 0 \in 0 .. w[1].len - 1
    BY <2>1
  <2>3. r + At0(w)[1] + 0 \in DOMAIN Bytes(w, r)
    BY <1>5, <2>2, BytesAt
  <2>4. r \in DOMAIN Bytes(w, r)
    BY <2>1, <2>3
  <2>. QED BY <1>8, <2>4 DEF Has
<1>12. amd64 \/ r \in Word
  <2>1. r \in Mapped
    BY <1>11 DEF Static
  <2>. QED BY <1>1, <2>1, OrdinaryIs
<1>13. r \notin Entry .. Entry + p.cut - 1
  <2>1. p.cut \in Nat /\ p.cut <= Size(target.code)
    BY <1>1 DEF PatchOK
  <2>. HIDE DEF p
  <2>. QED BY <1>1, <1>11, <2>1 DEF Zone
<1>. DEFINE g == [new |-> mem, old |-> old, code |-> code, page |-> p.page, at |-> at,
                  live |-> {1}, out |-> {}]
<1>14. /\ g.new = mem /\ g.old = old /\ g.code = code /\ g.page = p.page /\ g.at = at
       /\ g.live = {1} /\ g.out = {}
  OBVIOUS
<1>15. \A j : From(g, j) = Entry + At0(code)[j] /\ To(g, j) = p.page + at[j]
  BY DEF From, To
<1>. HIDE DEF g, p
<1>16. Lands(g, r, r)
  <2>1. Runs(g.new, BranchInto(v), r) /\ Runs(g.old, BranchInto(v), r)
    BY <1>9, <1>10, <1>14 DEF w
  <2>. QED BY <2>1 DEF Lands
<1>17. At0(code)[1] = 0 /\ At0(code)[1 + 1] = At0(code)[1] + code[1].len
  BY <1>2, <1>7, CodeSize
<1>18. /\ From(g, 1) = Entry /\ From(g, 1 + 1) = Entry + o.len /\ To(g, 1) = p.page
       /\ To(g, 1) \in Int /\ From(g, 1) \in Int /\ From(g, 1 + 1) \in Int
  <2>1. From(g, 1) = Entry + At0(code)[1] /\ From(g, 1 + 1) = Entry + At0(code)[1 + 1]
    BY <1>15, Zenon
  <2>2. To(g, 1) = p.page + at[1]
    BY <1>15, Zenon
  <2>3. At0(code)[1] = 0 /\ At0(code)[1 + 1] = o.len /\ o.len \in Nat /\ Entry \in Nat
    BY <1>1, <1>4, <1>7, <1>17
  <2>4. p.page \in Int /\ at[1] = 0
    BY <1>2 DEF p
  <2>5. Entry + At0(code)[1] = Entry /\ p.page + at[1] = p.page
    BY <2>3, <2>4
  <2>. QED BY <2>1, <2>2, <2>3, <2>4, <2>5
<1>19. Decode(g.old, From(g, 1)) = o
  <2>1. 0 < Size(code) /\ Entry \in Int
    BY <1>1, <1>2 DEF ShortCut
  <2>2. code[1] = Decode(old, Entry)
    BY <1>2, <2>1, FirstIs
  <2>. QED BY <1>7, <1>14, <1>18, <2>2
<1>20. PICK piece : /\ IsCode(piece) /\ Runs(mem, piece, p.page + at[1])
                    /\ at[1 + 1] = at[1] + Size(piece)
                    /\ Piece(p, code, at, 1, piece)
  BY <1>7, Zenon DEF Shown, p
<1>21. \A t : Settles(p, code, at, r, t) => t = r
  BY <1>13 DEF Settles
<1>22. Points(o, Entry + At0(code)[1]) = r
  BY <1>1, <1>4, <1>17
<1>23. Copies(g, 1, piece)
  <2>1. g.code[1] = o /\ Points(o, From(g, 1)) = r
    BY <1>4, <1>7, <1>14, <1>18
  <2>2. CASE amd64
    <3>1. o.op = "jmp32" /\ o.op \in Placebound /\ o.op # "lea"
      BY <1>4, <2>2 DEF Placebound, X!PCRelative, X!Control, X!Rel8
    <3>2. \E e : /\ piece = <<e>> /\ e.op = X!Wide(o).op
                 /\ Settles(p, code, at, r, Points(e, p.page + at[1]))
      BY <1>7, <1>20, <1>22, <2>2, <3>1, Zenon DEF Piece
    <3>3. PICK e : /\ piece = <<e>> /\ e.op = X!Wide(o).op
                   /\ Settles(p, code, at, r, Points(e, p.page + at[1]))
      BY <3>2
    <3>4. e.op = "jmp32"
      BY <3>1, <3>3 DEF X!Wide, X!I
    <3>5. Points(e, To(g, 1)) = r
      BY <1>15, <1>21, <3>3
    <3>6. Lands(g, Points(e, To(g, 1)), r)
      BY <1>16, <3>5
    <3>7. o.op \in {"jmp8", "jmp32"}
      BY <3>1
    <3>. QED BY <2>1, <3>3, <3>4, <3>6, <3>7, Zenon DEF Copies
  <2>3. CASE ~amd64
    <3>1. o.op = "b" /\ o.op \in Placebound /\ o.op # "adrp"
      BY <1>4, <2>3 DEF Placebound, R!Branches
    <3>2. \E t : Settles(p, code, at, r, t) /\ piece = R!RelocateInst(o, t)
      BY <1>7, <1>20, <1>22, <2>3, <3>1, Zenon DEF Piece
    <3>3. piece = R!RelocateInst(o, r)
      BY <1>21, <3>2
    <3>4. piece = JumpTo(r)
      BY <3>1, <3>3, PieceOf DEF JumpTo
    <3>5. r \in Word
      BY <1>12, <2>3
    <3>. QED BY <1>16, <2>1, <2>3, <3>1, <3>4, <3>5, Zenon DEF Copies
  <2>. QED BY <2>2, <2>3
<1>24. Copied(g, 1)
  <2>1. g.code[1] = o /\ o.op \in Compiled /\ o.op \in Jumping
    BY <1>4, <1>7, <1>14 DEF Compiled
  <2>2. From(g, 1 + 1) = From(g, 1) + o.len
    BY <1>18
  <2>3. Runs(g.new, piece, To(g, 1)) /\ To(g, 1 + 1) = To(g, 1) + Size(piece)
    <3>1. Size(piece) \in Nat
      BY <1>20, CodeSize
    <3>. QED BY <1>2, <1>14, <1>15, <1>20, <3>1 DEF p
  <2>. QED BY <1>18, <1>19, <1>20, <1>23, <2>1, <2>2, <2>3, Zenon DEF Copied
<1>25. Good(g)
  BY <1>14, <1>24 DEF Good
<1>26. Lands(g, p.page, Entry)
  BY <1>14, <1>18 DEF Lands
<1>. QED BY <1>14, <1>25, <1>26 DEF p, old

(* So does every other one for what its patch found at the entry.          *)
LEMMA CalledIsGood ==
  ASSUME Inv, OrdinaryFunctions, Static(mem, patches), NEW k \in 1 .. Len(patches),
         Relocates(k), BodyStaysOut(k)
  PROVE  \E g : /\ g.new = mem /\ g.old = Before(k) /\ Good(g)
                /\ Lands(g, patches[k].page, Entry)
<1>1. CASE k = 1
  BY <1>1, FirstIsGood
<1>2. CASE k # 1
  <2>1. PICK h : Layers(h, mem, patches)
    BY DEF Inv
  <2>2. Len(patches) \in Nat /\ k - 1 \in 1 .. Len(patches) /\ Entry \in Int
    BY <1>2, InvHolds, TargetIsCode DEF Inv, Shape
  <2>. DEFINE v == patches[k - 1].hook
  <2>3. v \in Word
    BY <2>2, HookIsWord
  <2>4. LeadsTo(h[k], mem, patches, k - 1)
    <3>1. LeadsTo(h[k - 1 + 1], mem, patches, k - 1)
      BY <2>1, <2>2 DEF Layers
    <3>2. k - 1 + 1 = k
      BY <2>2
    <3>. QED BY <3>1, <3>2
  <2>5. PICK code, moved, at : Shown(k, code, moved, at)
    <3>1. patches[k].how # "verbatim"
      BY DEF Relocates
    <3>. QED BY <2>1, <3>1, ProxyIsShown
  <2>6. CASE InEntry(h[k], BranchInto(v))
    <3>. DEFINE g == [new |-> mem, old |-> Before(k), live |-> {}, out |-> {}]
    <3>1. g.new = mem /\ g.old = Before(k) /\ g.live = {} /\ g.out = {}
      OBVIOUS
    <3>. HIDE DEF g, v
    <3>2. /\ Runs(mem, BranchInto(v), patches[k].page) /\ patches[k].page \in Int
          /\ Runs(Before(k), BranchInto(v), Entry)
      BY <2>1, <2>3, <2>5, <2>6, OverABranch
    <3>3. Good(g)
      BY <3>1 DEF Good
    <3>4. Lands(g, patches[k].page, Entry)
      BY <2>2, <2>3, <3>1, <3>2 DEF Lands
    <3>. QED BY <3>1, <3>3, <3>4
  <2>7. CASE \E r \in Int : InEntry(h[k], <<Jump(r)>>) /\ Holds(mem, BranchInto(v), r)
    <3>1. PICK r \in Int : InEntry(h[k], <<Jump(r)>>) /\ Holds(mem, BranchInto(v), r)
      BY <2>7
    <3>. HIDE DEF v
    <3>. QED BY <2>1, <2>3, <2>5, <3>1, OverAJump
  <2>. QED BY <2>4, <2>6, <2>7, Zenon DEF LeadsTo
<1>. QED BY <1>1, <1>2

(* A call of a proxy begins with both at the same instruction.             *)
LEMMA CallIsBeside ==
  ASSUME Inv, OrdinaryFunctions, Static(mem, patches), NEW k \in DOMAIN patches, CallProxy(k)
  PROVE  Beside'
<1>1. k \in 1 .. Len(patches)
  BY InvHolds DEF Inv, Shape, IsSequence
<1>2. Relocates(k) /\ BodyStaysOut(k)
  BY DEF CallProxy
<1>3. PICK g : /\ g.new = mem /\ g.old = Before(k) /\ Good(g)
               /\ Lands(g, patches[k].page, Entry)
  BY <1>1, <1>2, CalledIsGood
<1>. DEFINE c == Reset(patches[k].page)
            r == Reset(Entry)
<1>4. /\ target' = target /\ mem' = mem /\ patches' = patches
      /\ run' = [kind |-> "proxy", of |-> k, cpu |-> c, ref |-> r]
  BY DEF CallProxy
<1>5. c.pc = patches[k].page /\ r.pc = Entry /\ IsCpu(c) /\ IsCpu(r)
  BY DEF Reset, IsCpu
<1>. HIDE DEF c, r
<1>6. run'.of = k /\ run'.cpu = c /\ run'.ref = r
  BY <1>4
<1>7. Agrees(g, c, r)
  BY <1>3, <1>5 DEF Agrees
<1>8. Reaches(g.old, r, r)
  BY ReachesItself
<1>. QED BY <1>3, <1>4, <1>6, <1>7, <1>8, BesideStays

LEMMA StepKeepsBeside ==
  ASSUME Inv, OrdinaryFunctions, Static(mem, patches), Beside, [Next]_vars
  PROVE  Beside'
<1>1. ASSUME run'.kind # "proxy" PROVE Beside'
  BY <1>1 DEF Beside
<1>2. CASE PatchUnsafe \/ PatchArm64 \/ PatchLegacy \/ PatchShortBranch \/ PatchFallback
             \/ PatchNear \/ Unpatch
  <2>1. run' = run /\ run.kind = "none"
    BY <1>2 DEF PatchUnsafe, PatchArm64, PatchLegacy, PatchShortBranch, PatchFallback, PatchNear,
                Unpatch, Ready, Install
  <2>. QED BY <1>1, <2>1
<1>3. CASE CallTarget
  <2>1. run'.kind = "target"
    BY <1>3 DEF CallTarget, Idle
  <2>. QED BY <1>1, <2>1
<1>4. CASE \E k \in DOMAIN patches : CallProxy(k)
  BY <1>4, CallIsBeside
<1>5. CASE Step \/ StepReference \/ StepBoth
  <2>1. CASE run.kind = "proxy"
    BY <1>5, <2>1, StepBeside
  <2>2. CASE run.kind # "proxy"
    <3>1. run'.kind = run.kind
      BY <1>5, <2>2 DEF Step, StepReference, StepBoth, Agree, Inv, Shape
    <3>. QED BY <1>1, <2>2, <3>1
  <2>. QED BY <2>1, <2>2
<1>6. CASE UNCHANGED vars
  <2>1. target' = target /\ mem' = mem /\ patches' = patches /\ run' = run
    BY <1>6 DEF vars
  <2>2. CASE run.kind = "proxy"
    <3>1. PICK g : g.new = mem /\ g.old = Before(run.of) /\ Good(g) /\ Behaves(g, run.cpu, run.ref)
      BY <2>2 DEF Beside, InStep
    <3>2. PICK later : Reaches(g.old, run.ref, later) /\ Agrees(g, run.cpu, later)
      BY <3>1 DEF Behaves
    <3>. DEFINE k == run.of
                c == run.cpu
                r == run.ref
    <3>3. run'.of = k /\ run'.cpu = c /\ run'.ref = r
      BY <2>1
    <3>4. g.old = Before(k) /\ Reaches(g.old, r, later) /\ Agrees(g, c, later)
      BY <3>1, <3>2
    <3>5. PICK n : n = k
      OBVIOUS
    <3>6. PICK x : x = c
      OBVIOUS
    <3>7. PICK y : y = r
      OBVIOUS
    <3>8. run'.of = n /\ run'.cpu = x /\ run'.ref = y
      BY <3>3, <3>5, <3>6, <3>7
    <3>9. g.old = Before(n) /\ Reaches(g.old, y, later) /\ Agrees(g, x, later)
      BY <3>4, <3>5, <3>6, <3>7
    <3>. HIDE DEF k, c, r
    <3>. QED BY <2>1, <3>1, <3>8, <3>9, BesideStays
  <2>3. CASE run.kind # "proxy"
    BY <1>1, <2>1, <2>3
  <2>. QED BY <2>2, <2>3
<1>. QED BY <1>2, <1>3, <1>4, <1>5, <1>6 DEF Next

(* A call of a proxy has the effects of a call of the function before the  *)
(* patch: the copy of the prefix that relocate makes and the branch behind *)
(* it do at every step what the function does, however many patches are    *)
(* newer (patch.go, PatchValue, PatchValueShort and Unpatch, with          *)
(* relocate_amd64.go and relocate_arm64.go).  The functions are ordinary:  *)
(* what mockey maps is not right behind them or where they branch to, and  *)
(* no call or address within what may be displaced is that of this prefix, *)
(* for relocation would change it to that of the copy.                     *)
THEOREM ProxiesRunTheTarget ==
  ASSUME OrdinaryFunctions
  PROVE  Spec => []ProxyRunsTheTarget
<1>. DEFINE Together == Inv /\ Static(mem, patches) /\ Beside
<1>1. Init => Together
  <2>1. Init => Beside
    <3>. SUFFICES ASSUME Init PROVE run.kind # "proxy"
      BY DEF Beside
    <3>1. run = [kind |-> "none", of |-> 0, cpu |-> Reset(0), ref |-> Reset(0)]
      BY DEF Init, Idle
    <3>. QED BY <3>1
  <2>. QED BY <2>1, InitIsGood, InitStatic
<1>2. Together /\ [Next]_vars => Together'
  <2>. SUFFICES ASSUME Inv, Static(mem, patches), Beside, [Next]_vars PROVE Together'
    OBVIOUS
  <2>1. Inv'
    BY StepKeepsInv
  <2>2. Static(mem, patches)'
    BY StepStatic
  <2>3. Beside'
    BY StepKeepsBeside
  <2>. QED BY <2>1, <2>2, <2>3
<1>3. Together => ProxyRunsTheTarget
  BY BesideShows
<1>. HIDE DEF Together
<1>. QED BY <1>1, <1>2, <1>3, PTL DEF Spec
==============================================================================
