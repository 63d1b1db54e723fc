--------------------------- MODULE Targets_proofs ---------------------------
(* Which function is mocked.  First mocks of instances that share a body:  *)
(* the analysis of a wrapper is right, the analyzer leaves nothing of its  *)
(* own behind, and every call is answered by the newest mock of its own    *)
(* instance.  The first and the third need what the code relies on:        *)
(* wrappers are made as the compiler makes them, and first words of        *)
(* dictionaries tell the instances apart.  Then the lookup of methods:     *)
(* GetMethod and GetNestedMethod find the declaration that is meant, by    *)
(* induction over the structs from the innermost one out.                  *)
EXTENDS GenericTarget, MethodLookup, SequenceTheorems, FiniteSetTheorems, WellFoundedInduction, TLAPS

FoundIn(a, i) == GetGenericAddr(a, Wrappers[a][i])

(* What the analysis of the wrappers comes to. *)
AnalysisFindsDictionaries ==
  \A a \in Archs, i \in Instances :
    /\ FoundIn(a, i).ok /\ FoundIn(a, i).jump = Shape
    /\ FoundIn(a, i).info \in Dictionaries[i] \cup {NotFound}

(* The values that variables take. *)
Dicts == UNION {Dictionaries[i] : i \in Instances}
Infos == {FoundIn(a, i).info : a \in Archs, i \in Instances} \cup Dicts \cup {0}
Jumps == {FoundIn(a, i).jump : a \in Archs, i \in Instances}
Entry == [owner : {"mock", "analyzer"}, instance : Instances, info : Infos]
Steps == {"patch", "call", "unpatch", "done"}
Analyses == [instance : Instances, info : Infos, jump : Jumps, step : Steps]
Calls == [instance : Instances, dict : Dicts, at : Nat, answer : Nat]

(* The analyzer's patch is the newest one, and there only while the        *)
(* analyzer waits for its call and takes the patch away.                   *)
PatchedForAnalysis == analyzing.step \in {"call", "unpatch"}
AnalyzerIsNewest ==
  /\ \A n \in DOMAIN chain :
       chain[n].owner = "mock" \/ (n = Len(chain) /\ PatchedForAnalysis)
  /\ PatchedForAnalysis => chain # << >>

(* Nothing is called while a mock is built, and what is being built and    *)
(* not in the chain yet has been counted.                                  *)
Types ==
  /\ arch \in Archs
  /\ chain \in Seq(Entry)
  /\ analyzing = Idle \/ analyzing \in Analyses
  /\ call = NoCall \/ call \in Calls
  /\ built \in 0 .. MaxBuilds /\ started \in 0 .. MaxCalls
Counted ==
  /\ Len(chain) <= built
  /\ analyzing.step \in {"patch", "done"} => Len(chain) < built
  /\ call # NoCall => call.at <= Len(chain) /\ analyzing = Idle

BuildInv == Types /\ Counted /\ AnalyzerIsNewest

(* Every mock, built or being built, knows a dictionary of its instance,   *)
(* and a call has passed on the mocks of other kins only.                  *)
DictionariesKnown ==
  /\ \A n \in DOMAIN chain :
       chain[n].owner = "mock" => chain[n].info \in Dictionaries[chain[n].instance]
  /\ analyzing.step \in {"unpatch", "done"} =>
       analyzing.info \in Dictionaries[analyzing.instance]
PassedOn ==
  call # NoCall =>
    /\ call.dict \in Dictionaries[call.instance]
    /\ call.answer > 0 => call.answer = call.at /\ OfKin(call.at)
    /\ \A n \in DOMAIN chain : n > call.at => ~OfKin(n)

(* The body that was found stays known while a mock is built. *)
BodyKnown == analyzing # Idle => analyzing.jump = Shape

KnownInv == BuildInv /\ DictionariesKnown /\ BodyKnown
HookInv == KnownInv /\ PassedOn

-----------------------------------------------------------------------------
(* Induction over an interval, of a set of numbers.                        *)
LEMMA InductionUpTo ==
  ASSUME NEW S, NEW N \in Nat, 1 \in S,
         \A n \in 1..N : n \in S /\ n + 1 \in 1..N => n + 1 \in S
  PROVE  1..N \subseteq S
<1>. DEFINE T == {n \in 1..N : n \notin S}
<1>. SUFFICES ASSUME T # {} PROVE FALSE
  OBVIOUS
<1>1. PICK x \in T : \A y \in T : ~(<<y, x>> \in OpToRel(<, Nat))
  <2>1. T \subseteq Nat
    OBVIOUS
  <2>. HIDE DEF OpToRel, T
  <2>. QED BY <2>1, NatLessThanWellFounded, WFMin, Zenon
<1>2. \A y \in T : ~(y < x)
  <2>. SUFFICES ASSUME NEW y \in T, y < x PROVE FALSE
    OBVIOUS
  <2>1. y \in Nat /\ x \in Nat
    OBVIOUS
  <2>2. <<y, x>> \in OpToRel(<, Nat)
    BY <2>1 DEF OpToRel
  <2>. QED BY <1>1, <2>2
<1>3. x # 1 /\ x - 1 \in 1..N /\ x - 1 \notin T
  BY <1>2
<1>. QED BY <1>3

(* Each offset is the one before plus a length.                            *)
LEMMA OffsetsAreSums ==
  ASSUME NEW lens \in Seq(Nat)
  PROVE  /\ Offsets(lens) \in [1 .. Len(lens) + 1 -> Nat]
         /\ Offsets(lens)[1] = 0
         /\ \A i \in 1 .. Len(lens) : Offsets(lens)[i + 1] = Offsets(lens)[i] + lens[i]
         /\ \A j \in 1 .. Len(lens) + 1 : \A i \in 1 .. j : Offsets(lens)[i] <= Offsets(lens)[j]
<1>. DEFINE N == Len(lens) + 1
            Sums(n, g) == g = [i \in 1 .. n |-> IF i = 1 THEN 0 ELSE g[i - 1] + lens[i - 1]]
            S == {n \in 1 .. N : \E g \in [1 .. n -> Nat] : Sums(n, g)}
            s == Offsets(lens)
<1>1. /\ N \in Nat /\ N \in 1 .. N /\ 1 \in 1 .. N /\ Len(lens) \in Nat
      /\ \A i \in 1 .. Len(lens) : lens[i] \in Nat /\ i + 1 \in 1 .. N /\ i \in 1 .. N
      /\ \A i \in 1 .. N : i # 1 => i - 1 \in 1 .. Len(lens)
  OBVIOUS
<1>2. 1 \in S
  <2>. DEFINE g == [i \in 1 .. 1 |-> 0]
  <2>1. g \in [1 .. 1 -> Nat] /\ Sums(1, g)
    OBVIOUS
  <2>. QED BY <1>1, <2>1
<1>3. ASSUME NEW n \in 1 .. N, n \in S, n + 1 \in 1 .. N
      PROVE  n + 1 \in S
  <2>1. PICK g \in [1 .. n -> Nat] : Sums(n, g)
    BY <1>3
  <2>2. n \in Nat /\ lens[n] \in Nat /\ g[n] \in Nat
    <3>1. n \in 1 .. Len(lens) /\ n \in 1 .. n
      BY <1>1, <1>3
    <3>. QED BY <1>1, <3>1
  <2>. DEFINE h == [i \in 1 .. (n + 1) |-> IF i = n + 1 THEN g[n] + lens[n] ELSE g[i]]
  <2>3. h \in [1 .. (n + 1) -> Nat]
    <3>1. \A i \in 1 .. (n + 1) : i = n + 1 \/ i \in 1 .. n
      BY <2>2
    <3>. QED BY <2>2, <3>1
  <2>4. ASSUME NEW i \in 1 .. (n + 1)
        PROVE  h[i] = IF i = 1 THEN 0 ELSE h[i - 1] + lens[i - 1]
    <3>1. CASE i = n + 1
      <4>1. i # 1 /\ i - 1 = n /\ i - 1 \in 1 .. (n + 1) /\ i - 1 # n + 1
        BY <2>2, <3>1
      <4>. QED BY <3>1, <4>1
    <3>2. CASE i # n + 1
      <4>1. i \in 1 .. n /\ h[i] = g[i] /\ (i # 1 => h[i - 1] = g[i - 1])
        BY <2>2, <3>2
      <4>. HIDE DEF h
      <4>. QED BY <2>1, <4>1
    <3>. QED BY <3>1, <3>2
  <2>5. Sums(n + 1, h)
    BY <2>4
  <2>. HIDE DEF h
  <2>. QED BY <1>3, <2>3, <2>5
<1>4. PICK g \in [1 .. N -> Nat] : Sums(N, g)
  <2>1. 1 .. N \subseteq S
    <3>. HIDE DEF S, N
    <3>. QED BY <1>1, <1>2, <1>3, InductionUpTo
  <2>. QED BY <1>1, <2>1
<1>5. Sums(N, s)
  <2>1. s = CHOOSE f : Sums(N, f)
    BY DEF Offsets
  <2>. HIDE DEF Sums, s, N
  <2>. QED BY <1>4, <2>1, Zenon
<1>. HIDE DEF s
<1>6. /\ s = [i \in 1 .. N |-> s[i]] /\ s[1] = 0
      /\ \A i \in 1 .. N : i # 1 => s[i] = s[i - 1] + lens[i - 1]
  BY <1>1, <1>5
<1>7. \A i \in 1 .. Len(lens) : s[i + 1] = s[i] + lens[i] /\ lens[i] \in Nat
  <2>. SUFFICES ASSUME NEW i \in 1 .. Len(lens) PROVE s[i + 1] = s[i] + lens[i] /\ lens[i] \in Nat
    OBVIOUS
  <2>1. i + 1 \in 1 .. N /\ i + 1 # 1 /\ (i + 1) - 1 = i
    BY <1>1
  <2>. HIDE DEF N
  <2>. QED BY <1>1, <1>6, <2>1
<1>. HIDE DEF Sums
<1>. DEFINE P == {n \in 1 .. N : \A i \in 1 .. n : s[i] \in Nat /\ s[i] <= s[n]}
<1>8. 1 \in P
  <2>1. \A i \in 1 .. 1 : i = 1
    OBVIOUS
  <2>. QED BY <1>1, <1>6, <2>1
<1>9. ASSUME NEW n \in 1 .. N, n \in P, n + 1 \in 1 .. N
      PROVE  n + 1 \in P
  <2>1. n \in 1 .. Len(lens) /\ n \in 1 .. n
    BY <1>1, <1>9
  <2>2. s[n + 1] = s[n] + lens[n] /\ s[n] \in Nat /\ lens[n] \in Nat
    BY <1>7, <1>9, <2>1
  <2>3. ASSUME NEW i \in 1 .. (n + 1) PROVE s[i] \in Nat /\ s[i] <= s[n + 1]
    <3>1. i \in 1 .. n \/ i = n + 1
      BY <1>1
    <3>. QED BY <1>9, <2>2, <3>1, SMTT(30)
  <2>. QED BY <1>9, <2>3
<1>10. \A n \in 1 .. N : \A i \in 1 .. n : s[i] \in Nat /\ s[i] <= s[n]
  <2>1. 1 .. N \subseteq P
    <3>. HIDE DEF P, N
    <3>. QED BY <1>1, <1>8, <1>9, InductionUpTo
  <2>. QED BY <2>1
<1>11. s \in [1 .. N -> Nat]
  <2>1. \A i \in 1 .. N : s[i] \in Nat
    <3>1. \A i \in 1 .. N : i \in 1 .. N /\ i \in 1 .. i
      OBVIOUS
    <3>. HIDE DEF N
    <3>. QED BY <1>10, <3>1
  <2>. HIDE DEF N
  <2>. QED BY <1>6, <2>1
<1>. QED BY <1>6, <1>7, <1>10, <1>11 DEF s

(* The places of the instructions of a wrapper. *)
LEMMA Placed ==
  ASSUME NEW w, w.addr \in Nat, w.code \in Seq(Range(w.code)),
         Range(Lengths(w.code)) \subseteq Nat \ {0}
  PROVE  /\ Len(w.code) \in Nat /\ DOMAIN w.code = 1 .. Len(w.code)
         /\ \A i \in 1 .. Len(w.code) : /\ w.code[i].len \in Nat \ {0}
                                        /\ At(w, i + 1) = At(w, i) + w.code[i].len
         /\ \A i \in 1 .. Len(w.code) + 1 : At(w, i) \in Nat
         /\ \A j \in 1 .. Len(w.code) + 1 : \A i \in 1 .. j : At(w, i) <= At(w, j)
<1>. DEFINE N == Len(w.code)
            l == Lengths(w.code)
            s == Offsets(l)
<1>1. N \in Nat /\ DOMAIN w.code = 1 .. N
  OBVIOUS
<1>2. \A i \in 1 .. N : l[i] = w.code[i].len /\ l[i] \in Nat \ {0}
  <2>. SUFFICES ASSUME NEW i \in 1 .. N PROVE l[i] = w.code[i].len /\ l[i] \in Nat \ {0}
    OBVIOUS
  <2>1. DOMAIN l = 1 .. N /\ l[i] = w.code[i].len
    BY <1>1 DEF Lengths
  <2>2. l[i] \in Range(l)
    BY <2>1 DEF Range
  <2>. QED BY <2>1, <2>2
<1>3. l \in Seq(Nat) /\ Len(l) = N
  <2>1. l = [i \in 1 .. N |-> w.code[i].len]
    BY <1>1 DEF Lengths
  <2>2. \A i \in 1 .. N : w.code[i].len \in Nat
    BY <1>2
  <2>. HIDE DEF l, N
  <2>. QED BY <1>1, <2>1, <2>2
<1>4. /\ s \in [1 .. N + 1 -> Nat]
      /\ \A i \in 1 .. N : s[i + 1] = s[i] + l[i]
      /\ \A j \in 1 .. N + 1 : \A i \in 1 .. j : s[i] <= s[j]
  <2>. HIDE DEF l, N
  <2>. QED BY <1>3, OffsetsAreSums
<1>5. \A i : At(w, i) = w.addr + s[i]
  BY DEF At
<1>6. \A i \in 1 .. N + 1 : s[i] \in Nat
  <2>. HIDE DEF s, N
  <2>. QED BY <1>4
<1>. HIDE DEF s, l
<1>7. \A i \in 1 .. N : i \in 1 .. N + 1 /\ i + 1 \in 1 .. N + 1
  BY <1>1
<1>8. ASSUME NEW i \in 1 .. N
      PROVE  w.code[i].len \in Nat \ {0} /\ At(w, i + 1) = At(w, i) + w.code[i].len
  <2>1. i \in 1 .. N + 1 /\ i + 1 \in 1 .. N + 1
    BY <1>7
  <2>. HIDE DEF N
  <2>2. s[i] \in Nat /\ s[i + 1] = s[i] + l[i] /\ l[i] = w.code[i].len /\ l[i] \in Nat \ {0}
    BY <1>2, <1>4, <1>6, <2>1
  <2>3. At(w, i) = w.addr + s[i] /\ At(w, i + 1) = w.addr + s[i + 1]
    BY <1>5
  <2>. QED BY <2>2, <2>3
<1>9. ASSUME NEW j \in 1 .. N + 1, NEW i \in 1 .. j
      PROVE  At(w, i) <= At(w, j)
  <2>1. i \in 1 .. N + 1 /\ s[i] <= s[j]
    BY <1>1, <1>4
  <2>. HIDE DEF N
  <2>. QED BY <1>5, <1>6, <2>1
<1>10. \A i \in 1 .. N + 1 : At(w, i) \in Nat
  BY <1>5, <1>6
<1>. QED BY <1>1, <1>8, <1>9, <1>10

(* What a number keeps of its remainder. *)
LEMMA Signed ==
  ASSUME NEW x \in Int, -DispRange <= 2 * x, 2 * x < DispRange
  PROVE  Signed32(x % DispRange) = x
<1>. DEFINE n == DispRange
            q == x \div n
            r == x % n
<1>1. n \in Nat \ {0}
  BY ModuloAssumption
<1>2. q \in Int /\ r \in 0 .. (n - 1) /\ x = n * q + r
  <2>. HIDE DEF n
  <2>. QED BY <1>1, Z3
<1>. HIDE DEF q, r
<1>3. r = x \/ r = x + n
  <2>1. CASE q = 0
    BY <1>1, <1>2, <2>1
  <2>2. CASE q = -1
    BY <1>1, <1>2, <2>2
  <2>3. CASE q >= 1
    <3>1. n * q >= n
      BY <1>1, <1>2, <2>3
    <3>. QED BY <1>1, <1>2, <3>1
  <2>4. CASE q <= -2
    <3>1. n * q <= n * (-2)
      BY <1>1, <1>2, <2>4
    <3>. QED BY <1>1, <1>2, <3>1
  <2>. QED BY <1>2, <2>1, <2>2, <2>3, <2>4
<1>4. r \in Int /\ (2 * r >= n <=> r # x)
  BY <1>1, <1>2, <1>3
<1>5. Signed32(r) = IF 2 * r >= n THEN r - n ELSE r
  BY DEF Signed32
<1>6. Signed32(r) = x
  BY <1>1, <1>3, <1>4, <1>5
<1>. QED BY <1>6 DEF r

LEMMA PageAndRest ==
  ASSUME NEW d \in Nat, NEW k \in Nat, NEW y, y = d % PageBytes,
         NEW x, x = PageBytes * (d \div PageBytes) - PageBytes * (k \div PageBytes)
  PROVE  PageBytes * (k \div PageBytes) + x + y = d
<1>. DEFINE n == PageBytes
            q == d \div n
            a == n * (k \div n)
            m == n * q
<1>1. n \in Nat \ {0}
  BY ModuloAssumption
<1>2. q \in Int /\ y \in 0 .. (n - 1) /\ d = n * q + y
  <2>. HIDE DEF n
  <2>. QED BY <1>1, Z3 DEF n
<1>3. a \in Int
  <2>1. k \div n \in Int
    BY <1>1
  <2>. QED BY <1>1, <2>1
<1>4. m \in Int /\ d = m + y
  <2>. HIDE DEF q, n
  <2>. QED BY <1>1, <1>2
<1>5. x = m - a
  OBVIOUS
<1>. HIDE DEF m, a
<1>6. a + x + y = d
  <2>. HIDE DEF n
  <2>. QED BY <1>2, <1>3, <1>4, <1>5
<1>. QED BY <1>6, Zenon DEF a

(* A set of places has a last one. *)
LEMMA LastPlace ==
  ASSUME NEW N \in Nat, NEW S, S \subseteq 1 .. N, S # {}
  PROVE  Max(S) \in S /\ \A i \in S : i <= Max(S)
<1>. DEFINE P(n) == \A i \in S : i <= n
            T == {n \in 1 .. N : P(n) => \E m \in S : \A i \in S : i <= m}
<1>0. PICK s \in S : s \in 1 .. N
  OBVIOUS
<1>1. 1 \in T
  <2>1. 1 \in 1 .. N
    BY <1>0
  <2>2. ASSUME P(1) PROVE \E m \in S : \A i \in S : i <= m
    <3>1. \A i \in S : i = 1
      BY <2>2
    <3>. QED BY <1>0, <2>2, <3>1
  <2>. QED BY <2>1, <2>2
<1>2. ASSUME NEW n \in 1 .. N, n \in T, n + 1 \in 1 .. N
      PROVE  n + 1 \in T
  <2>. SUFFICES ASSUME P(n + 1) PROVE \E m \in S : \A i \in S : i <= m
    BY <1>2
  <2>1. CASE n + 1 \in S
    BY <2>1
  <2>2. CASE n + 1 \notin S
    <3>1. P(n)
      BY <2>2
    <3>. QED BY <1>2, <3>1
  <2>. QED BY <2>1, <2>2
<1>3. 1 .. N \subseteq T
  <2>. HIDE DEF T
  <2>. QED BY <1>1, <1>2, InductionUpTo
<1>4. N \in 1 .. N /\ P(N)
  BY <1>0
<1>5. \E m \in S : \A i \in S : i <= m
  BY <1>3, <1>4
<1>6. \E m \in S : \A i \in S : m >= i
  BY <1>5
<1>7. Max(S) \in S /\ \A i \in S : Max(S) >= i
  BY <1>6, Zenon DEF Max
<1>. QED BY <1>7

-----------------------------------------------------------------------------
(* The wrapper that the compiler makes is read right. *)

(* The analyzer computes the address a call goes to. *)
LEMMA JumpAddr ==
  ASSUME NEW a, NEW w, NEW i, NEW to \in Nat, CallsAddr(a, w, i, to),
         At(w, i) \in Nat, w.code[i].len \in Nat
  PROVE  calcJumpAddr(a, w, i) = to /\ a \in {"amd64", "arm64"} /\ w.code[i].op \in {"call", "bl"}
<1>1. CASE a = "amd64"
  <2>1. w.code[i].op = "call" /\ w.code[i].arg = to - (At(w, i) + w.code[i].len)
    BY <1>1 DEF CallsAddr
  <2>2. calcJumpAddr(a, w, i) = At(w, i) + w.code[i].arg + w.code[i].len
    BY <1>1 DEF calcJumpAddr
  <2>. QED BY <1>1, <2>1, <2>2
<1>2. CASE a = "arm64"
  <2>1. w.code[i].op = "bl" /\ w.code[i].arg = to - At(w, i)
    BY <1>2 DEF CallsAddr
  <2>2. calcJumpAddr(a, w, i) = At(w, i) + w.code[i].arg + 0
    BY <1>2 DEF calcJumpAddr
  <2>. QED BY <1>2, <2>1, <2>2
<1>. QED BY <1>1, <1>2 DEF CallsAddr

(* It computes the address that is loaded. *)
LEMMA InfoAddr ==
  ASSUME NEW a, NEW w, NEW i, NEW d \in Nat, LoadsAddr(a, w, i, d),
         At(w, i) \in Nat, w.code[i].len \in Nat
  PROVE  calcGenericInfoAddr(a, w, i) = [ok |-> TRUE, info |-> d]
<1>1. CASE a = "amd64"
  <2>. DEFINE disp == d - (At(w, i) + w.code[i].len)
  <2>1. -DispRange <= 2 * disp /\ 2 * disp < DispRange /\ w.code[i].arg = disp % DispRange
    BY <1>1 DEF LoadsAddr
  <2>2. disp \in Int
    OBVIOUS
  <2>3. Signed32(w.code[i].arg) = disp
    <3>. HIDE DEF disp
    <3>. QED BY <2>1, <2>2, Signed
  <2>4. At(w, i) + w.code[i].len + disp = d
    OBVIOUS
  <2>. QED BY <1>1, <2>3, <2>4 DEF calcGenericInfoAddr
<1>2. CASE a = "arm64"
  <2>. DEFINE add == w.code[i + 1]
              k == At(w, i)
  <2>1. /\ w.code[i].arg = PageBytes * (d \div PageBytes) - PageBytes * (k \div PageBytes)
        /\ add.arg = d % PageBytes /\ add.x = <<w.code[i].x, w.code[i].x, 0>>
    BY <1>2 DEF LoadsAddr
  <2>2. PageBytes * (k \div PageBytes) + w.code[i].arg + add.arg = d
    <3>. HIDE DEF k, add
    <3>1. k \in Nat
      BY DEF k
    <3>. QED BY <2>1, <3>1, PageAndRest
  <2>3. calcGenericInfoAddr(a, w, i) =
          [ok |-> add.x = <<w.code[i].x, w.code[i].x, 0>>,
           info |-> PageBytes * (k \div PageBytes) + w.code[i].arg + add.arg]
    BY <1>2 DEF calcGenericInfoAddr
  <2>. HIDE DEF k, add
  <2>. QED BY <2>1, <2>2, <2>3
<1>. QED BY <1>1, <1>2 DEF LoadsAddr

(* The loads it considers are those before the call. *)
LEMMA LoadsBefore ==
  ASSUME NEW a, NEW i, NEW w, WrapperIsCompiled(a, i, w),
         NEW b \in Scanned(w), w.code[b].op \in {"call", "bl"}
  PROVE  InfoInsts(a, w, b) = {j \in Loads(a, w) : j < b}
<1>1. /\ Len(w.code) \in Nat /\ DOMAIN w.code = 1 .. Len(w.code)
      /\ \A j \in 1 .. Len(w.code) : /\ w.code[j].len \in Nat \ {0}
                                     /\ At(w, j + 1) = At(w, j) + w.code[j].len
      /\ \A j \in 1 .. Len(w.code) + 1 : At(w, j) \in Nat
      /\ \A k \in 1 .. Len(w.code) + 1 : \A j \in 1 .. k : At(w, j) <= At(w, k)
  BY Placed DEF WrapperIsCompiled
<1>. DEFINE N == Len(w.code)
<1>2. b \in 1 .. N
  BY <1>1 DEF Scanned
<1>3. ASSUME NEW j \in 1 .. N
      PROVE  At(w, j) + w.code[j].len <= At(w, b) <=> j < b
  <2>. HIDE DEF N
  <2>0. N \in Nat
    BY <1>1 DEF N
  <2>1. /\ At(w, j + 1) = At(w, j) + w.code[j].len /\ w.code[j].len \in Nat \ {0}
        /\ At(w, j) \in Nat /\ At(w, b) \in Nat /\ At(w, j + 1) \in Nat
    BY <1>1, <1>2, <2>0 DEF N
  <2>2. ASSUME j < b PROVE At(w, j + 1) <= At(w, b)
    <3>1. b \in 1 .. N + 1 /\ j + 1 \in 1 .. b
      BY <1>2, <2>0, <2>2
    <3>. QED BY <1>1, <3>1 DEF N
  <2>3. ASSUME ~(j < b) PROVE At(w, b) <= At(w, j)
    <3>1. j \in 1 .. N + 1 /\ b \in 1 .. j
      BY <1>2, <2>0, <2>3
    <3>. QED BY <1>1, <3>1 DEF N
  <2>. QED BY <2>1, <2>2, <2>3
<1>4. ASSUME NEW j \in Scanned(w)
      PROVE  j \in InfoInsts(a, w, b) <=> j \in Loads(a, w) /\ j < b
  <2>1. j \in 1 .. N
    BY <1>1 DEF Scanned
  <2>2. CASE a = "amd64"
    <3>1. j \in InfoInsts(a, w, b) <=> w.code[j].op = "lea" /\ LeaMatches(w, j, b)
      BY <2>2 DEF InfoInsts
    <3>2. j \in Loads(a, w) <=> w.code[j].op = "lea" /\ w.code[j].x = "rip"
      BY <2>2 DEF Loads
    <3>. QED BY <1>3, <2>1, <3>1, <3>2 DEF LeaMatches
  <2>3. CASE a = "arm64"
    <3>1. j \in InfoInsts(a, w, b) <=> w.code[j].op = "adrp" /\ AdrpMatches(w, j, b)
      BY <2>3 DEF InfoInsts
    <3>2. j \in Loads(a, w) <=>
            w.code[j].op = "adrp" /\ j < N /\ w.code[j + 1].op = "add"
      BY <2>3 DEF Loads
    <3>3. w.code[j].len = 4
      BY <1>1, <2>1, <2>3 DEF WrapperIsCompiled
    <3>4. ASSUME w.code[j].op = "adrp", j < N, w.code[j + 1].op = "add"
          PROVE  At(w, j) + 4 < At(w, b) <=> j < b
      <4>1. j + 1 \in 1 .. N /\ j + 1 # b
        BY <1>1, <2>1, <3>4
      <4>. HIDE DEF N
      <4>2. /\ At(w, j + 1) = At(w, j) + 4 /\ w.code[j + 1].len \in Nat \ {0}
            /\ At(w, j) \in Nat /\ At(w, b) \in Nat /\ At(w, j + 1) \in Nat
        <5>1. \A k \in 1 .. N : k \in 1 .. N + 1
          BY <1>1 DEF N
        <5>2. j \in 1 .. N + 1 /\ b \in 1 .. N + 1 /\ j + 1 \in 1 .. N + 1
          BY <1>2, <2>1, <4>1, <5>1
        <5>3. At(w, j + 1) = At(w, j) + w.code[j].len /\ w.code[j + 1].len \in Nat \ {0}
          BY <1>1, <2>1, <4>1 DEF N
        <5>. QED BY <1>1, <3>3, <5>2, <5>3 DEF N
      <4>3. At(w, j) + 4 <= At(w, b) <=> j < b
        BY <1>3, <2>1, <3>3
      <4>4. At(w, j + 1) + w.code[j + 1].len <= At(w, b) <=> j + 1 < b
        BY <1>3, <4>1
      <4>5. j < b <=> j + 1 < b
        BY <1>2, <2>1, <4>1
      <4>. QED BY <4>2, <4>3, <4>4, <4>5
    <3>. QED BY <3>1, <3>2, <3>4 DEF AdrpMatches
  <2>4. CASE a \notin {"amd64", "arm64"}
    BY <2>4 DEF InfoInsts, Loads
  <2>. QED BY <2>2, <2>3, <2>4
<1>. QED BY <1>4, Zenon DEF InfoInsts, Loads

(* The analysis succeeds, with the body and a dictionary of the instance,  *)
(* or it finds no dictionary.                                              *)
LEMMA AnalysisOfCompiled == WrappersAreCompiled => AnalysisFindsDictionaries
<1>. SUFFICES ASSUME WrappersAreCompiled, NEW a \in Archs, NEW i \in Instances
              PROVE  /\ FoundIn(a, i).ok /\ FoundIn(a, i).jump = Shape
                     /\ FoundIn(a, i).info \in Dictionaries[i] \cup {NotFound}
  BY DEF AnalysisFindsDictionaries
<1>. DEFINE w == Wrappers[a][i]
<1>1. WrapperIsCompiled(a, i, w) /\ ExtraCalls \subseteq Nat /\ Shape \in Nat \ ExtraCalls
  BY DEF WrappersAreCompiled
<1>. HIDE DEF w
<1>2. PICK b \in Scanned(w) :
        /\ CallsAddr(a, w, b, Shape)
        /\ \A j \in Scanned(w) \ {b} :
             w.code[j].op \in {"call", "bl"} => \E to \in ExtraCalls : CallsAddr(a, w, j, to)
        /\ \A j \in Loads(a, w) :
             j < b /\ (\A l \in Loads(a, w) : l < b => l <= j) =>
               \E d \in Dictionaries[i] : LoadsAddr(a, w, j, d)
  BY <1>1 DEF WrapperIsCompiled
<1>3. /\ Len(w.code) \in Nat /\ Scanned(w) \subseteq 1 .. Len(w.code)
      /\ \A j \in Scanned(w) : w.code[j].len \in Nat /\ At(w, j) \in Nat
  <2>1. /\ Len(w.code) \in Nat /\ DOMAIN w.code = 1 .. Len(w.code)
        /\ \A j \in 1 .. Len(w.code) : w.code[j].len \in Nat \ {0}
        /\ \A j \in 1 .. Len(w.code) + 1 : At(w, j) \in Nat
    BY <1>1, Placed DEF WrapperIsCompiled
  <2>2. \A j \in 1 .. Len(w.code) : j \in 1 .. Len(w.code) + 1
    BY <2>1
  <2>. QED BY <2>1, <2>2 DEF Scanned
<1>4. calcJumpAddr(a, w, b) = Shape /\ w.code[b].op \in {"call", "bl"}
  BY <1>1, <1>2, <1>3, JumpAddr
<1>5. JumpInsts(a, w) = {b}
  <2>1. b \in JumpInsts(a, w)
    BY <1>1, <1>4 DEF JumpInsts, isGenericProxyCallExtra
  <2>2. ASSUME NEW j \in JumpInsts(a, w), j # b PROVE FALSE
    <3>1. /\ j \in Scanned(w) /\ w.code[j].op \in {"call", "bl"}
          /\ calcJumpAddr(a, w, j) \notin ExtraCalls
      BY DEF JumpInsts, isGenericProxyCallExtra
    <3>2. PICK to \in ExtraCalls : CallsAddr(a, w, j, to)
      BY <1>2, <2>2, <3>1
    <3>3. calcJumpAddr(a, w, j) = to
      BY <1>1, <1>3, <3>1, <3>2, JumpAddr
    <3>. QED BY <3>1, <3>3
  <2>. QED BY <2>1, <2>2
<1>6. Cardinality(JumpInsts(a, w)) = 1 /\ (CHOOSE j \in JumpInsts(a, w) : TRUE) = b
  <2>1. Cardinality({b}) = 1
    BY FS_Singleton
  <2>2. (CHOOSE j \in {b} : TRUE) = b
    OBVIOUS
  <2>. QED BY <1>5, <2>1, <2>2
<1>. DEFINE infos == InfoInsts(a, w, b)
            result == IF infos = {} THEN [ok |-> TRUE, info |-> NotFound]
                      ELSE calcGenericInfoAddr(a, w, Max(infos))
<1>7. infos = {j \in Loads(a, w) : j < b}
  BY <1>1, <1>4, LoadsBefore
<1>8. result.ok /\ result.info \in Dictionaries[i] \cup {NotFound}
  <2>. HIDE DEF infos
  <2>1. CASE infos = {}
    BY <2>1
  <2>2. CASE infos # {}
    <3>. DEFINE m == Max(infos)
    <3>1. infos \subseteq 1 .. Len(w.code)
      BY <1>3, <1>7 DEF Loads
    <3>2. m \in infos /\ \A l \in infos : l <= m
      BY <1>3, <2>2, <3>1, LastPlace
    <3>. HIDE DEF m
    <3>3. m \in Loads(a, w) /\ m < b /\ \A l \in Loads(a, w) : l < b => l <= m
      BY <1>7, <3>2
    <3>4. PICK d \in Dictionaries[i] : LoadsAddr(a, w, m, d)
      BY <1>2, <3>3
    <3>5. d \in Nat /\ m \in Scanned(w)
      BY <3>3, GenericAssumption DEF Loads
    <3>6. calcGenericInfoAddr(a, w, m) = [ok |-> TRUE, info |-> d]
      BY <1>3, <3>4, <3>5, InfoAddr
    <3>7. result = [ok |-> TRUE, info |-> d]
      BY <2>2, <3>6 DEF m
    <3>. QED BY <3>7
  <2>. QED BY <2>1, <2>2
<1>9. GetGenericAddr(a, w) = [ok |-> TRUE, jump |-> calcJumpAddr(a, w, b), info |-> result.info]
  <2>. DEFINE jump == CHOOSE j \in JumpInsts(a, w) : TRUE
              set == InfoInsts(a, w, jump)
              load == IF set = {} THEN [ok |-> TRUE, info |-> NotFound]
                      ELSE calcGenericInfoAddr(a, w, Max(set))
  <2>1. GetGenericAddr(a, w) =
          IF Cardinality(JumpInsts(a, w)) = 1 /\ load.ok
          THEN [ok |-> TRUE, jump |-> calcJumpAddr(a, w, jump), info |-> load.info]
          ELSE Failed
    BY Zenon DEF GetGenericAddr
  <2>2. jump = b
    BY <1>6
  <2>. HIDE DEF jump
  <2>3. load = result
    BY <2>2
  <2>. HIDE DEF load, result
  <2>. QED BY <1>6, <1>8, <2>1, <2>2, <2>3
<1>. HIDE DEF result
<1>. QED BY <1>4, <1>8, <1>9 DEF FoundIn, w

LEMMA NoSteps == Idle.step = "none" /\ NoCall.at = -1
BY DEF Idle, NoCall

LEMMA Appended ==
  ASSUME NEW S, NEW s \in Seq(S), NEW e \in S
  PROVE  /\ Append(s, e) \in Seq(S)
         /\ Len(Append(s, e)) = Len(s) + 1
         /\ DOMAIN Append(s, e) = DOMAIN s \cup {Len(s) + 1}
         /\ \A n \in DOMAIN s : Append(s, e)[n] = s[n] /\ n <= Len(s)
         /\ Append(s, e)[Len(s) + 1] = e
OBVIOUS

LEMMA Prefix ==
  ASSUME NEW S, NEW s \in Seq(S), NEW k \in Nat, k < Len(s), NEW t, t = SubSeq(s, 1, k)
  PROVE  t \in Seq(S) /\ Len(t) = k /\ \A n \in 1 .. k : t[n] = s[n]
<1>1. t \in Seq(S) /\ Len(t) = k
  OBVIOUS
<1>2. \A n \in 1 .. k : t[n] = s[n]
  OBVIOUS
<1> QED BY <1>1, <1>2

LEMMA Dropped ==
  ASSUME NEW S, NEW s \in Seq(S), s # << >>
  PROVE  /\ Front(s) \in Seq(S)
         /\ Len(Front(s)) = Len(s) - 1
         /\ DOMAIN Front(s) = DOMAIN s \ {Len(s)}
         /\ \A n \in DOMAIN Front(s) : Front(s)[n] = s[n]
<1> DEFINE k == Len(s) - 1
<1>1. k \in Nat /\ k < Len(s) /\ Len(s) = k + 1
  BY EmptySeq
<1>2. Front(s) = SubSeq(s, 1, k)
  BY DEF Front
<1> HIDE DEF k
<1>3. /\ Front(s) \in Seq(S) /\ Len(Front(s)) = k
      /\ \A n \in 1 .. k : Front(s)[n] = s[n]
  BY <1>1, <1>2, Prefix
<1>4. DOMAIN Front(s) = 1 .. k /\ DOMAIN s = 1 .. k + 1
  BY <1>1, <1>3
<1> QED BY <1>1, <1>3, <1>4

LEMMA BuildInit == Init => BuildInv
BY NoSteps, GenericAssumption
   DEF Init, BuildInv, Types, Counted, AnalyzerIsNewest, PatchedForAnalysis

(* A patch is added to the chain: the analyzer's, or that of a mock. *)
LEMMA FallbackPatchInv ==
  ASSUME BuildInv, FallbackPatch
  PROVE  BuildInv'
<1> DEFINE e == [owner |-> "analyzer", instance |-> analyzing.instance, info |-> 0]
<1>1. analyzing \in Analyses /\ call = NoCall
  BY NoSteps DEF FallbackPatch, BuildInv, Types, Counted
<1>2. e \in Entry /\ chain' = Append(chain, e)
  BY <1>1 DEF FallbackPatch, Entry, Analyses, Infos
<1>3. /\ chain' \in Seq(Entry) /\ Len(chain') = Len(chain) + 1
      /\ DOMAIN chain' = DOMAIN chain \cup {Len(chain) + 1}
      /\ \A n \in DOMAIN chain : chain'[n] = chain[n]
  <2> HIDE DEF e
  <2> QED BY <1>2, Appended DEF BuildInv, Types
<1>4. analyzing' \in Analyses /\ analyzing'.step = "call"
  BY <1>1 DEF FallbackPatch, Analyses, Steps
<1>5. Types'
  BY <1>3, <1>4 DEF FallbackPatch, BuildInv, Types
<1>6. Counted'
  BY <1>1, <1>3, <1>4 DEF FallbackPatch, BuildInv, Counted, Types
<1>7. AnalyzerIsNewest'
  <2>1. \A n \in DOMAIN chain : chain[n].owner = "mock"
    BY DEF FallbackPatch, BuildInv, AnalyzerIsNewest, PatchedForAnalysis
  <2> QED BY <1>3, <1>4, <2>1 DEF AnalyzerIsNewest, PatchedForAnalysis
<1> QED BY <1>5, <1>6, <1>7 DEF BuildInv

LEMMA PatchInv ==
  ASSUME BuildInv, Patch
  PROVE  BuildInv'
<1> DEFINE e == [owner |-> "mock", instance |-> analyzing.instance, info |-> analyzing.info]
<1>1. analyzing \in Analyses /\ call = NoCall
  BY NoSteps DEF Patch, BuildInv, Types, Counted
<1>2. e \in Entry /\ chain' = Append(chain, e) /\ e.owner = "mock"
  BY <1>1 DEF Patch, Entry, Analyses
<1>3. /\ chain' \in Seq(Entry) /\ Len(chain') = Len(chain) + 1
      /\ DOMAIN chain' = DOMAIN chain \cup {Len(chain) + 1}
      /\ \A n \in DOMAIN chain : chain'[n] = chain[n]
      /\ chain'[Len(chain) + 1].owner = "mock"
  <2> HIDE DEF e
  <2> QED BY <1>2, Appended DEF BuildInv, Types
<1>4. analyzing' = Idle /\ analyzing'.step = "none"
  BY NoSteps DEF Patch
<1>5. Types'
  BY <1>3, <1>4 DEF Patch, BuildInv, Types
<1>6. Counted'
  BY <1>1, <1>3, <1>4 DEF Patch, BuildInv, Counted, Types
<1>7. AnalyzerIsNewest'
  <2>1. \A n \in DOMAIN chain : chain[n].owner = "mock"
    BY DEF Patch, BuildInv, AnalyzerIsNewest, PatchedForAnalysis
  <2> QED BY <1>3, <1>4, <2>1 DEF AnalyzerIsNewest, PatchedForAnalysis
<1> QED BY <1>5, <1>6, <1>7 DEF BuildInv

(* The newest patch is taken away. *)
LEMMA TakenAway ==
  ASSUME BuildInv, FallbackUnpatch \/ UnPatch
  PROVE  BuildInv'
<1>1. chain # << >> /\ chain' = Front(chain) /\ UNCHANGED <<arch, built, call, started>>
  BY DEF FallbackUnpatch, UnPatch, BuildInv, AnalyzerIsNewest, PatchedForAnalysis
<1>2. /\ chain' \in Seq(Entry) /\ Len(chain') = Len(chain) - 1
      /\ DOMAIN chain' = DOMAIN chain \ {Len(chain)}
      /\ \A n \in DOMAIN chain' : chain'[n] = chain[n]
  BY <1>1, Dropped DEF BuildInv, Types
<1>3. call = NoCall
  BY NoSteps DEF FallbackUnpatch, UnPatch, BuildInv, Counted
<1>4. /\ analyzing' = Idle \/ analyzing' \in Analyses
      /\ analyzing'.step \in {"none", "done"}
  <2>1. CASE FallbackUnpatch
    <3>1. analyzing \in Analyses
      BY <2>1, NoSteps DEF FallbackUnpatch, BuildInv, Types
    <3> QED BY <2>1, <3>1 DEF FallbackUnpatch, Analyses, Steps
  <2>2. CASE UnPatch
    BY <2>2, NoSteps DEF UnPatch
  <2> QED BY <2>1, <2>2
<1>5. \A n \in DOMAIN chain' : chain'[n].owner = "mock"
  BY <1>2 DEF BuildInv, AnalyzerIsNewest
<1>6. Types'
  BY <1>1, <1>2, <1>4 DEF BuildInv, Types
<1>7. Counted'
  BY <1>1, <1>2, <1>3 DEF BuildInv, Counted, Types
<1>8. AnalyzerIsNewest'
  BY <1>4, <1>5 DEF AnalyzerIsNewest, PatchedForAnalysis
<1> QED BY <1>6, <1>7, <1>8 DEF BuildInv

LEMMA BuildStep ==
  ASSUME BuildInv, Next
  PROVE  BuildInv'
<1>1. ASSUME NEW i \in Instances, Analyze(i) PROVE BuildInv'
  <2>1. analyzing' \in Analyses /\ analyzing'.step \in {"patch", "done"}
    <3>1. Analysis(i).info \in Infos /\ Analysis(i).jump \in Jumps
      BY DEF Analysis, Wrapper, FoundIn, Infos, Jumps, BuildInv, Types
    <3> QED BY <1>1, <3>1 DEF Analyze, Analyses, Steps
  <2> QED BY <1>1, <2>1, NoSteps, GenericAssumption
       DEF Analyze, BuildInv, Types, Counted, AnalyzerIsNewest, PatchedForAnalysis
<1>2. CASE FallbackCall
  <2>1. analyzing \in Analyses
    BY <1>2, NoSteps DEF FallbackCall, BuildInv, Types
  <2>2. Wrapper[analyzing.instance].info \in Infos
    BY <2>1, GenericAssumption DEF Wrapper, Infos, Dicts, Analyses, BuildInv, Types
  <2>3. analyzing' \in Analyses /\ analyzing'.step = "unpatch"
    BY <1>2, <2>1, <2>2 DEF FallbackCall, Analyses, Steps
  <2> QED BY <1>2, <2>1, <2>3, NoSteps
       DEF FallbackCall, BuildInv, Types, Counted, AnalyzerIsNewest, PatchedForAnalysis
<1>3. ASSUME NEW i \in Instances, CallInstance(i) PROVE BuildInv'
  <2>1. call' \in Calls /\ call'.at = Len(chain)
    BY <1>3 DEF CallInstance, Calls, Dicts, BuildInv, Types
  <2> QED BY <1>3, <2>1, NoSteps, GenericAssumption
       DEF CallInstance, BuildInv, Types, Counted, AnalyzerIsNewest, PatchedForAnalysis
<1>4. CASE Hook
  <2>1. call \in Calls
    BY <1>4, NoSteps DEF Hook, BuildInv, Types
  <2>2. call' \in Calls /\ call'.at <= call.at
    BY <1>4, <2>1 DEF Hook, Calls
  <2>3. call # NoCall /\ call.at \in Nat /\ call'.at \in Nat
    BY <1>4, <2>1, <2>2, NoSteps DEF Hook, Calls
  <2> QED BY <1>4, <2>2, <2>3
       DEF Hook, BuildInv, Types, Counted, AnalyzerIsNewest, PatchedForAnalysis
<1>5. CASE Return
  BY <1>5 DEF Return, BuildInv, Types, Counted, AnalyzerIsNewest, PatchedForAnalysis
<1> QED BY <1>1, <1>2, <1>3, <1>4, <1>5, FallbackPatchInv, PatchInv, TakenAway DEF Next

LEMMA BuildStutter ==
  ASSUME BuildInv, UNCHANGED vars
  PROVE  BuildInv'
BY DEF vars, BuildInv, Types, Counted, AnalyzerIsNewest, PatchedForAnalysis

THEOREM BuildIsSafe == Spec => []BuildInv
<1>1. BuildInv /\ [Next]_vars => BuildInv'
  BY BuildStep, BuildStutter
<1> QED BY BuildInit, <1>1, PTL DEF Spec

(* The analyzer's patch is gone when the analyzer is done (analyzer.go:135-137). *)
THEOREM MocksAloneStay == Spec => []OnlyMocksStay
<1>1. BuildInv => OnlyMocksStay
  <2> SUFFICES ASSUME BuildInv PROVE OnlyMocksStay
    OBVIOUS
  <2>1. \A n \in DOMAIN chain : chain[n].instance \in Instances
    <3>1. \A n \in DOMAIN chain : chain[n] \in Entry
      BY DEF BuildInv, Types
    <3> QED BY <3>1 DEF Entry
  <2>2. call.at \in -1 .. Len(chain)
    BY NoSteps DEF BuildInv, Types, Counted, Calls
  <2>3. TypeOK
    BY <2>1, <2>2 DEF TypeOK, BuildInv, Types, Counted
  <2> QED BY <2>3 DEF OnlyMocksStay, BuildInv, AnalyzerIsNewest, PatchedForAnalysis
<1> QED BY <1>1, BuildIsSafe, PTL

(* A step of a build keeps what is known. *)
LEMMA KnownStep ==
  ASSUME WrappersAreCompiled, KnownInv, Next
  PROVE  KnownInv'
<1>1. BuildInv /\ BuildInv'
  BY BuildStep DEF KnownInv
<1>2. ASSUME NEW i \in Instances, Analyze(i) PROVE KnownInv'
  <2>1. /\ analyzing'.step = "done" => analyzing'.info \in Dictionaries[i]
        /\ analyzing'.jump = Shape
    <3>1. /\ FoundIn(arch, i).info \in Dictionaries[i] \cup {NotFound}
          /\ FoundIn(arch, i).jump = Shape
      BY <1>1, AnalysisOfCompiled DEF AnalysisFindsDictionaries, BuildInv, Types
    <3> QED BY <1>2, <3>1 DEF Analyze, Analysis, Wrapper, FoundIn
  <2>2. analyzing'.step \in {"patch", "done"} /\ analyzing'.instance = i
    BY <1>2 DEF Analyze
  <2>3. DictionariesKnown'
    BY <1>2, <2>1, <2>2 DEF Analyze, KnownInv, DictionariesKnown
  <2> QED BY <1>1, <2>1, <2>3 DEF KnownInv, BodyKnown
<1>3. CASE FallbackPatch
  <2> DEFINE e == [owner |-> "analyzer", instance |-> analyzing.instance, info |-> 0]
  <2>1. analyzing \in Analyses /\ call = NoCall
    BY <1>1, <1>3, NoSteps DEF FallbackPatch, BuildInv, Types, Counted
  <2>2. e \in Entry /\ e.owner # "mock" /\ chain' = Append(chain, e)
    BY <1>3, <2>1 DEF FallbackPatch, Entry, Analyses, Infos
  <2>3. /\ DOMAIN chain' = DOMAIN chain \cup {Len(chain) + 1}
        /\ \A n \in DOMAIN chain : chain'[n] = chain[n]
        /\ chain'[Len(chain) + 1].owner # "mock"
    <3> HIDE DEF e
    <3> QED BY <1>1, <2>2, Appended DEF BuildInv, Types
  <2>4. analyzing'.step = "call" /\ analyzing'.jump = analyzing.jump /\ analyzing # Idle
    BY <1>3, <2>1, NoSteps DEF FallbackPatch, Analyses
  <2>5. DictionariesKnown'
    BY <2>3, <2>4 DEF KnownInv, DictionariesKnown
  <2> QED BY <1>1, <2>4, <2>5 DEF KnownInv, BodyKnown
<1>4. CASE FallbackCall
  <2>1. analyzing \in Analyses /\ analyzing # Idle
    BY <1>1, <1>4, NoSteps DEF FallbackCall, BuildInv, Types
  <2>2. /\ analyzing'.info = Wrapper[analyzing.instance].info
        /\ analyzing'.instance = analyzing.instance
        /\ analyzing'.jump = analyzing.jump /\ chain' = chain
    BY <1>4, <2>1 DEF FallbackCall, Analyses
  <2>3. Wrapper[analyzing.instance].info \in Dictionaries[analyzing.instance]
    BY <1>1, <2>1, GenericAssumption DEF Wrapper, Analyses, BuildInv, Types
  <2> QED BY <1>1, <2>1, <2>2, <2>3 DEF KnownInv, DictionariesKnown, BodyKnown
<1>5. CASE FallbackUnpatch \/ UnPatch
  <2>1. chain # << >> /\ chain' = Front(chain)
    BY <1>1, <1>5
       DEF FallbackUnpatch, UnPatch, BuildInv, AnalyzerIsNewest, PatchedForAnalysis
  <2>2. /\ DOMAIN chain' \subseteq DOMAIN chain
        /\ \A n \in DOMAIN chain' : chain'[n] = chain[n]
    BY <1>1, <2>1, Dropped DEF BuildInv, Types
  <2>3. /\ analyzing'.step \in {"unpatch", "done"} =>
            /\ analyzing.step = "unpatch" /\ analyzing'.info = analyzing.info
            /\ analyzing'.instance = analyzing.instance
        /\ analyzing' # Idle => analyzing # Idle /\ analyzing'.jump = analyzing.jump
    <3>1. CASE FallbackUnpatch
      <4>1. analyzing \in Analyses /\ analyzing # Idle
        BY <1>1, <3>1, NoSteps DEF FallbackUnpatch, BuildInv, Types
      <4> QED BY <3>1, <4>1 DEF FallbackUnpatch, Analyses
    <3>2. CASE UnPatch
      BY <3>2, NoSteps DEF UnPatch
    <3> QED BY <1>5, <3>1, <3>2
  <2>4. DictionariesKnown'
    BY <2>2, <2>3 DEF KnownInv, DictionariesKnown
  <2> QED BY <1>1, <2>3, <2>4 DEF KnownInv, BodyKnown
<1>6. CASE Patch
  <2> DEFINE e == [owner |-> "mock", instance |-> analyzing.instance, info |-> analyzing.info]
  <2>1. analyzing \in Analyses
    BY <1>1, <1>6, NoSteps DEF Patch, BuildInv, Types
  <2>2. /\ e \in Entry /\ chain' = Append(chain, e)
        /\ e.info \in Dictionaries[e.instance]
    BY <1>6, <2>1 DEF Patch, Entry, Analyses, KnownInv, DictionariesKnown
  <2>3. /\ DOMAIN chain' = DOMAIN chain \cup {Len(chain) + 1}
        /\ \A n \in DOMAIN chain : chain'[n] = chain[n]
        /\ chain'[Len(chain) + 1] = e
    <3> HIDE DEF e
    <3> QED BY <1>1, <2>2, Appended DEF BuildInv, Types
  <2>4. analyzing' = Idle /\ analyzing'.step = "none"
    BY <1>6, NoSteps DEF Patch
  <2>5. DictionariesKnown'
    <3> HIDE DEF e
    <3> QED BY <2>2, <2>3, <2>4 DEF KnownInv, DictionariesKnown
  <2> QED BY <1>1, <2>4, <2>5 DEF KnownInv, BodyKnown
<1>7. ASSUME UNCHANGED <<chain, analyzing>> PROVE KnownInv'
  BY <1>1, <1>7 DEF KnownInv, DictionariesKnown, BodyKnown
<1>8. ASSUME NEW i \in Instances, CallInstance(i) PROVE KnownInv'
  BY <1>7, <1>8 DEF CallInstance
<1>9. CASE Hook \/ Return
  BY <1>7, <1>9 DEF Hook, Return
<1> QED BY <1>2, <1>3, <1>4, <1>5, <1>6, <1>8, <1>9 DEF Next

LEMMA KnownStutter ==
  ASSUME KnownInv, UNCHANGED vars
  PROVE  KnownInv'
BY BuildStutter DEF vars, KnownInv, DictionariesKnown, BodyKnown

LEMMA KnownInit == Init => KnownInv
BY BuildInit, NoSteps DEF Init, KnownInv, DictionariesKnown, BodyKnown

(* What the analysis of a wrapper ends with is the shared body and a       *)
(* dictionary of the wrapper's instance (disasm_amd64.go:188-217,          *)
(* disasm_arm64.go:130-159).                                               *)
THEOREM AnalysisStaysRight ==
  ASSUME WrappersAreCompiled
  PROVE  Spec => []AnalysisIsRight
<1>1. KnownInv /\ [Next]_vars => KnownInv'
  BY KnownStep, KnownStutter
<1>2. KnownInv => AnalysisIsRight
  BY NoSteps DEF AnalysisIsRight, KnownInv, DictionariesKnown, BodyKnown
<1> QED BY KnownInit, <1>1, <1>2, PTL DEF Spec

(* A hook answers exactly the calls of its own kin. *)
LEMMA EqualIsOfKin ==
  ASSUME DictionariesAreCompiled, HookInv, call # NoCall, call.at > 0, call.at \in DOMAIN chain
  PROVE  Equal(call.dict, chain[call.at].info) <=> OfKin(call.at)
<1> DEFINE mine == chain[call.at]
<1>1. call \in Calls /\ analyzing = Idle /\ mine \in Entry
  BY DEF HookInv, KnownInv, BuildInv, Types, Counted
<1>2. mine.owner = "mock"
  BY <1>1, NoSteps DEF HookInv, KnownInv, BuildInv, AnalyzerIsNewest, PatchedForAnalysis
<1>3. /\ call.instance \in Instances /\ mine.instance \in Instances
      /\ call.dict \in Dictionaries[call.instance] /\ mine.info \in Dictionaries[mine.instance]
  BY <1>1, <1>2 DEF HookInv, KnownInv, DictionariesKnown, PassedOn, Calls, Entry
<1>4. call.dict # 0 /\ mine.info # 0
  BY <1>3, GenericAssumption
<1>5. call.dict = mine.info => Akin(mine.instance, call.instance)
  BY <1>3 DEF DictionariesAreCompiled, Akin
<1>6. ASSUME call.dict \in Readable, mine.info \in Readable
      PROVE  FirstWord[call.dict] = FirstWord[mine.info] <=> Akin(mine.instance, call.instance)
  <2>1. FirstWord[call.dict] = FirstWord[mine.info] => Akin(mine.instance, call.instance)
    BY <1>3, <1>6 DEF Akin
  <2>2. \A d \in Dictionaries[call.instance] \cap Readable : FirstWord[d] = FirstWord[call.dict]
    BY <1>3, <1>6 DEF DictionariesAreCompiled
  <2>3. \A d \in Dictionaries[mine.instance] \cap Readable : FirstWord[d] = FirstWord[mine.info]
    BY <1>3, <1>6 DEF DictionariesAreCompiled
  <2>4. mine.instance = call.instance => FirstWord[call.dict] = FirstWord[mine.info]
    BY <1>3, <1>6, <2>3
  <2> HIDE DEF mine
  <2> QED BY <2>1, <2>2, <2>3, <2>4 DEF Akin
<1>7. OfKin(call.at) <=>
        /\ Akin(mine.instance, call.instance)
        /\ call.dict = mine.info \/ (call.dict \in Readable /\ mine.info \in Readable)
  BY <1>2 DEF OfKin, ReadsAlike
<1>8. Equal(call.dict, mine.info) <=>
        \/ call.dict = mine.info
        \/ /\ call.dict \in Readable /\ mine.info \in Readable
           /\ FirstWord[call.dict] = FirstWord[mine.info]
  BY <1>4 DEF Equal, derefUintptrSafe
<1> HIDE DEF mine
<1> QED BY <1>5, <1>6, <1>7, <1>8 DEF mine

(* A call passes on the mocks of other kins; nothing is called while  *)
(* the chain changes.                                                      *)
LEMMA HookStep ==
  ASSUME WrappersAreCompiled, DictionariesAreCompiled, HookInv, Next
  PROVE  HookInv'
<1>1. BuildInv /\ KnownInv'
  BY KnownStep DEF HookInv, KnownInv
<1>2. ASSUME call' = NoCall PROVE HookInv'
  BY <1>1, <1>2 DEF HookInv, PassedOn
<1>3. ASSUME NEW i \in Instances, Analyze(i) PROVE HookInv'
  BY <1>2, <1>3 DEF Analyze
<1>4. CASE FallbackPatch \/ FallbackCall \/ FallbackUnpatch \/ Patch \/ UnPatch
  <2>1. call = NoCall
    BY <1>1, <1>4, NoSteps
       DEF FallbackPatch, FallbackCall, FallbackUnpatch, Patch, UnPatch, BuildInv, Counted
  <2> QED BY <1>2, <1>4, <2>1
       DEF FallbackPatch, FallbackCall, FallbackUnpatch, Patch, UnPatch
<1>5. ASSUME NEW i \in Instances, CallInstance(i) PROVE HookInv'
  <2>1. /\ call'.instance = i /\ call'.dict \in Dictionaries[i]
        /\ call'.at = Len(chain) /\ call'.answer = 0
        /\ UNCHANGED <<chain, analyzing>>
    BY <1>5 DEF CallInstance
  <2>2. \A n \in DOMAIN chain : ~(n > Len(chain))
    BY <1>1 DEF BuildInv, Types
  <2>3. PassedOn'
    BY <2>1, <2>2 DEF PassedOn
  <2> QED BY <1>1, <2>3 DEF HookInv
<1>6. CASE Hook
  <2>1. call \in Calls /\ call # NoCall /\ UNCHANGED <<chain, analyzing>>
    BY <1>1, <1>6, NoSteps DEF Hook, BuildInv, Types
  <2>2. call.at \in DOMAIN chain /\ call.at > 0 /\ call.at \in Nat
    BY <1>1, <1>6, <2>1 DEF Hook, BuildInv, Types, Counted, Calls
  <2>3. Equal(call.dict, chain[call.at].info) <=> OfKin(call.at)
    BY <2>1, <2>2, EqualIsOfKin
  <2>4. call'.instance = call.instance /\ call'.dict = call.dict
    BY <1>6, <2>1 DEF Hook, Calls
  <2>5. \A n \in DOMAIN chain : OfKin(n)' <=> OfKin(n)
    BY <2>1, <2>4 DEF OfKin, ReadsAlike
  <2>6. CASE OfKin(call.at)
    <3>1. call'.answer = call.at /\ call'.at = call.at
      BY <1>6, <2>1, <2>3, <2>6 DEF Hook, Calls
    <3>2. PassedOn'
      BY <2>1, <2>2, <2>4, <2>6, <3>1 DEF HookInv, PassedOn, OfKin, ReadsAlike
    <3> QED BY <1>1, <3>2 DEF HookInv
  <2>7. CASE ~OfKin(call.at)
    <3>1. call'.answer = 0 /\ call'.at = call.at - 1
      BY <1>6, <2>1, <2>3, <2>7 DEF Hook, Calls
    <3>2. \A n \in DOMAIN chain : n > call.at - 1 => n = call.at \/ n > call.at
      BY <1>1, <2>2 DEF BuildInv, Types
    <3>3. PassedOn'
      BY <2>1, <2>4, <2>7, <3>1, <3>2 DEF HookInv, PassedOn, OfKin, ReadsAlike
    <3> QED BY <1>1, <3>3 DEF HookInv
  <2> QED BY <2>6, <2>7
<1>7. CASE Return
  BY <1>2, <1>7 DEF Return
<1> QED BY <1>3, <1>4, <1>5, <1>6, <1>7 DEF Next

(* A call that reaches the body has passed no mock of its kin, and an      *)
(* answered one was answered by the newest of them (generic.go:54-66).     *)
THEOREM NewestAnswers ==
  ASSUME WrappersAreCompiled, DictionariesAreCompiled
  PROVE  Spec => []NewestOfItsKin
<1>1. Init => HookInv
  BY KnownInit DEF Init, HookInv, PassedOn
<1>2. HookInv /\ [Next]_vars => HookInv'
  <2>1. ASSUME HookInv, UNCHANGED vars PROVE HookInv'
    BY <2>1, KnownStutter DEF vars, HookInv, PassedOn, OfKin, ReadsAlike
  <2> QED BY <2>1, HookStep
<1>3. HookInv => NewestOfItsKin
  <2> SUFFICES ASSUME HookInv PROVE NewestOfItsKin
    OBVIOUS
  <2>1. \A n \in DOMAIN chain : n \in Nat /\ n > 0
    BY DEF HookInv, KnownInv, BuildInv, Types
  <2>2. call.at = 0 => call # NoCall
    BY NoSteps
  <2>3. call # NoCall => call.at \in Nat
    BY DEF HookInv, KnownInv, BuildInv, Types, Calls
  <2>4. DOMAIN chain = 1 .. Len(chain) /\ Len(chain) \in Nat
    BY DEF HookInv, KnownInv, BuildInv, Types
  <2> QED BY <2>1, <2>2, <2>3, <2>4 DEF NewestOfItsKin, NewestOf, HookInv, PassedOn
<1> QED BY <1>1, <1>2, <1>3, PTL DEF Spec

-----------------------------------------------------------------------------
(* A function that is defined by its values on kids of lower depth exists. *)
Follows(f, D, kids, V) == \A t \in D : f[t] = V[t][[k \in kids[t] |-> f[k]]]
LEMMA PartsDefine ==
  ASSUME NEW D, NEW M \in Nat, NEW depth \in [D -> 0 .. M], NEW kids \in [D -> SUBSET D],
         \A t \in D : \A k \in kids[t] : depth[k] < depth[t],
         NEW R, NEW r \in R, NEW V,
         \A t \in D : \A g \in [kids[t] -> R] : V[t][g] \in R
  PROVE  \E f \in [D -> R] : Follows(f, D, kids, V)
<1>. DEFINE Up(n, f) == \A t \in D : depth[t] < n - 1 => f[t] = V[t][[k \in kids[t] |-> f[k]]]
            S == {n \in 1 .. M + 2 : \E f \in [D -> R] : Up(n, f)}
<1>1. 1 \in S
  <2>. DEFINE f == [t \in D |-> r]
  <2>1. f \in [D -> R] /\ Up(1, f)
    OBVIOUS
  <2>. QED BY <2>1
<1>2. ASSUME NEW n \in 1 .. M + 2, n \in S, n + 1 \in 1 .. M + 2
      PROVE  n + 1 \in S
  <2>1. PICK f \in [D -> R] : Up(n, f)
    BY <1>2
  <2>. DEFINE h == [t \in D |-> IF depth[t] = n - 1 THEN V[t][[k \in kids[t] |-> f[k]]] ELSE f[t]]
  <2>2. \A t \in D : [k \in kids[t] |-> f[k]] \in [kids[t] -> R]
    OBVIOUS
  <2>3. h \in [D -> R]
    BY <2>2
  <2>4. ASSUME NEW t \in D, depth[t] < (n + 1) - 1
        PROVE  h[t] = V[t][[k \in kids[t] |-> h[k]]]
    <3>1. \A k \in kids[t] : h[k] = f[k]
      BY <2>4
    <3>2. [k \in kids[t] |-> h[k]] = [k \in kids[t] |-> f[k]]
      BY <3>1
    <3>3. h[t] = V[t][[k \in kids[t] |-> f[k]]]
      <4>1. CASE depth[t] = n - 1
        BY <4>1
      <4>2. CASE depth[t] # n - 1
        <5>1. depth[t] < n - 1
          BY <2>4, <4>2
        <5>. QED BY <2>1, <4>2, <5>1
      <4>. QED BY <4>1, <4>2
    <3>. HIDE DEF h
    <3>. QED BY <3>2, <3>3
  <2>5. Up(n + 1, h)
    <3>. HIDE DEF h
    <3>. QED BY <2>4
  <2>. HIDE DEF Up, h
  <2>. QED BY <1>2, <2>3, <2>5
<1>3. 1 .. M + 2 \subseteq S
  <2>. HIDE DEF S
  <2>. QED BY <1>1, <1>2, InductionUpTo
<1>4. PICK f \in [D -> R] : Up(M + 2, f)
  <2>1. M + 2 \in 1 .. M + 2
    OBVIOUS
  <2>2. M + 2 \in S
    BY <1>3, <2>1
  <2>. QED BY <2>2
<1>5. \A t \in D : depth[t] < (M + 2) - 1
  OBVIOUS
<1>. QED BY <1>4, <1>5 DEF Follows

(* Induction over the structs, from the last one to the first.             *)
LEMMA InductionDown ==
  ASSUME NEW S, NEW M \in Nat,
         \A t \in 1 .. M : (\A u \in 1 .. M : u > t => u \in S) => t \in S
  PROVE  1 .. M \subseteq S
<1>. DEFINE Up == {n \in 1 .. M + 1 : \A u \in 1 .. M : u > M + 1 - n => u \in S}
<1>1. 1 \in Up
  OBVIOUS
<1>2. ASSUME NEW n \in 1 .. M + 1, n \in Up, n + 1 \in 1 .. M + 1
      PROVE  n + 1 \in Up
  <2>1. \A u \in 1 .. M : u > M + 1 - n => u \in S
    BY <1>2
  <2>2. M + 1 - n \in 1 .. M
    BY <1>2
  <2>3. M + 1 - n \in S
    BY <2>1, <2>2
  <2>4. \A u \in 1 .. M : u > M + 1 - (n + 1) => u = M + 1 - n \/ u > M + 1 - n
    BY <1>2
  <2>. QED BY <1>2, <2>1, <2>3, <2>4
<1>3. 1 .. M + 1 \subseteq Up
  <2>. HIDE DEF Up
  <2>. QED BY <1>1, <1>2, InductionUpTo
<1>4. M + 1 \in Up
  BY <1>3
<1>. QED BY <1>4

-----------------------------------------------------------------------------
(* The structs.                                                            *)

FieldSet == [type : Structs, how : Hows]
Struct ==
  /\ own \in [Structs -> Owns]
  /\ \A t \in Structs : embeds[t] \in Fields(t)
  /\ exported \in Exported
Inner == [t \in Structs |-> {embeds[t][i].type : i \in DOMAIN embeds[t]}]

LEMMA StructsAre ==
  MaxStructs \in Nat \ {0} /\ Structs = 1 .. MaxStructs /\ 1 \in Structs
BY LookupBounds DEF Structs

LEMMA FieldsAre ==
  ASSUME Struct, NEW t \in Structs
  PROVE  /\ embeds[t] \in Seq(FieldSet)
         /\ DOMAIN embeds[t] = 1 .. Len(embeds[t]) /\ Len(embeds[t]) \in Nat
         /\ \A i \in DOMAIN embeds[t] :
              /\ embeds[t][i] \in FieldSet /\ embeds[t][i].type \in Structs /\ embeds[t][i].type > t
              /\ embeds[t][i].type \in Inner[t]
         /\ \A i, j \in DOMAIN embeds[t] : embeds[t][i].type = embeds[t][j].type => i = j
<1>1. PICK n \in 0 .. MaxEmbedded : embeds[t] \in [1 .. n -> [type : (t + 1) .. MaxStructs, how : Hows]]
  BY DEF Struct, Fields
<1>2. \A i, j \in DOMAIN embeds[t] : embeds[t][i].type = embeds[t][j].type => i = j
  BY DEF Struct, Fields
<1>3. n \in Nat /\ DOMAIN embeds[t] = 1 .. n
  BY <1>1, LookupBounds
<1>4. \A i \in 1 .. n : embeds[t][i] \in [type : (t + 1) .. MaxStructs, how : Hows]
  BY <1>1
<1>5. \A i \in 1 .. n : embeds[t][i] \in FieldSet /\ embeds[t][i].type \in Structs /\ embeds[t][i].type > t
  BY <1>4, StructsAre DEF FieldSet
<1>6. embeds[t] \in Seq(FieldSet) /\ Len(embeds[t]) = n
  <2>1. embeds[t] \in [1 .. n -> FieldSet]
    BY <1>1, <1>5
  <2>. QED BY <1>3, <2>1
<1>. QED BY <1>2, <1>3, <1>5, <1>6 DEF Inner

(* Functions on the structs that are defined by their values on embedded   *)
(* structs exist.                                                          *)
LEMMA InnerDefine ==
  ASSUME Struct, NEW R, NEW r \in R, NEW V,
         \A t \in Structs : \A g \in [Inner[t] -> R] : V[t][g] \in R
  PROVE  \E f \in [Structs -> R] : Follows(f, Structs, Inner, V)
<1>. DEFINE depth == [t \in Structs |-> MaxStructs - t]
<1>1. depth \in [Structs -> 0 .. MaxStructs]
  BY StructsAre
<1>2. Inner \in [Structs -> SUBSET Structs] /\ \A t \in Structs : \A u \in Inner[t] : u > t
  <2>1. \A t \in Structs : \A u \in Inner[t] : u \in Structs /\ u > t
    BY FieldsAre DEF Inner
  <2>. QED BY <2>1 DEF Inner
<1>3. \A t \in Structs : \A u \in Inner[t] : depth[u] < depth[t]
  BY <1>2, StructsAre
<1>. HIDE DEF depth
<1>. QED BY <1>1, <1>2, <1>3, StructsAre, PartsDefine

-----------------------------------------------------------------------------
(* The ways through embedded structs.                                      *)

WaysIn(t, f) ==
  {<<>>} \cup UNION {{Cons(embeds[t][i], way) : way \in f[embeds[t][i].type]} : i \in DOMAIN embeds[t]}
IsWayIn(x, t, f) ==
  x = <<>> \/ \E i \in DOMAIN embeds[t] : \E way \in f[embeds[t][i].type] : x = Cons(embeds[t][i], way)
LEMMA WaysInAre ==
  \A t, f, x : x \in WaysIn(t, f) <=> IsWayIn(x, t, f)
<1>. SUFFICES ASSUME NEW t, NEW f, NEW x
              PROVE  x \in WaysIn(t, f) <=> IsWayIn(x, t, f)
  OBVIOUS
<1>. DEFINE From(i) == {Cons(embeds[t][i], way) : way \in f[embeds[t][i].type]}
<1>1. x \in WaysIn(t, f) <=> x = <<>> \/ \E i \in DOMAIN embeds[t] : x \in From(i)
  <2>1. WaysIn(t, f) = {<<>>} \cup UNION {From(i) : i \in DOMAIN embeds[t]}
    BY DEF WaysIn
  <2>. HIDE DEF From
  <2>. QED BY <2>1, Zenon
<1>2. \A i : x \in From(i) <=> \E way \in f[embeds[t][i].type] : x = Cons(embeds[t][i], way)
  BY Zenon
<1>. HIDE DEF From
<1>. QED BY <1>1, <1>2, Zenon DEF IsWayIn

LEMMA WaysAre ==
  ASSUME Struct
  PROVE  \A t \in Structs : Ways[t] = WaysIn(t, Ways)
<1>. DEFINE R == SUBSET Seq(FieldSet)
            V == [t \in Structs |-> [g \in [Inner[t] -> R] |-> WaysIn(t, g)]]
            Eq(f) == f = [t \in Structs |-> WaysIn(t, f)]
<1>1. \A t \in Structs : \A g \in [Inner[t] -> R] : V[t][g] = WaysIn(t, g)
  OBVIOUS
<1>2. ASSUME NEW t \in Structs, NEW g \in [Inner[t] -> R]
      PROVE  WaysIn(t, g) \in R
  <2>1. ASSUME NEW i \in DOMAIN embeds[t], NEW way \in g[embeds[t][i].type]
        PROVE  Cons(embeds[t][i], way) \in Seq(FieldSet)
    <3>1. embeds[t][i].type \in Inner[t] /\ embeds[t][i] \in FieldSet
      BY FieldsAre
    <3>2. way \in Seq(FieldSet)
      BY <3>1
    <3>. QED BY <3>1, <3>2 DEF Cons
  <2>2. <<>> \in Seq(FieldSet)
    OBVIOUS
  <2>3. \A x \in WaysIn(t, g) : x \in Seq(FieldSet)
    <3>. SUFFICES ASSUME NEW x \in WaysIn(t, g) PROVE x \in Seq(FieldSet)
      OBVIOUS
    <3>1. x = <<>> \/ \E i \in DOMAIN embeds[t] : \E way \in g[embeds[t][i].type] : x = Cons(embeds[t][i], way)
      BY WaysInAre DEF IsWayIn
    <3>2. CASE x = <<>>
      BY <2>2, <3>2
    <3>3. CASE \E i \in DOMAIN embeds[t] : \E way \in g[embeds[t][i].type] : x = Cons(embeds[t][i], way)
      BY <2>1, <3>3
    <3>. QED BY <3>1, <3>2, <3>3
  <2>. QED BY <2>3
<1>3. {} \in R
  OBVIOUS
<1>. HIDE DEF R, V
<1>4. PICK f \in [Structs -> R] : Follows(f, Structs, Inner, V)
  <2>1. \A t \in Structs : \A g \in [Inner[t] -> R] : V[t][g] \in R
    BY <1>1, <1>2
  <2>. QED BY <1>3, <2>1, InnerDefine
<1>5. ASSUME NEW t \in Structs
      PROVE  f[t] = WaysIn(t, f)
  <2>. DEFINE g == [u \in Inner[t] |-> f[u]]
  <2>1. g \in [Inner[t] -> R]
    BY FieldsAre DEF Inner
  <2>2. f[t] = WaysIn(t, g)
    BY <1>1, <1>4, <2>1 DEF Follows
  <2>3. \A i \in DOMAIN embeds[t] : g[embeds[t][i].type] = f[embeds[t][i].type]
    BY FieldsAre
  <2>. HIDE DEF g
  <2>4. WaysIn(t, g) = WaysIn(t, f)
    <3>1. ASSUME NEW x
          PROVE  x \in WaysIn(t, g) <=> x \in WaysIn(t, f)
      <4>1. IsWayIn(x, t, g) <=> IsWayIn(x, t, f)
        BY <2>3 DEF IsWayIn
      <4>. QED BY <4>1, WaysInAre
    <3>. QED BY <3>1
  <2>. QED BY <2>2, <2>4
<1>6. Eq(f)
  BY <1>5
<1>7. Ways = CHOOSE h : Eq(h)
  BY DEF Ways, WaysIn
<1>8. Eq(Ways)
  <2>. HIDE DEF Eq
  <2>. QED BY <1>6, <1>7
<1>. QED BY <1>8

(* A way that begins with the field f. *)
LEMMA LongerWay ==
  ASSUME NEW f \in FieldSet, NEW way \in Seq(FieldSet), NEW t
  PROVE  LET longer == Cons(f, way)
         IN  /\ longer \in Seq(FieldSet) /\ Len(longer) = Len(way) + 1 /\ longer # <<>>
             /\ longer[1] = f /\ \A i \in 1 .. Len(way) : longer[i + 1] = way[i]
             /\ End(t, longer) = End(f.type, way)
<1>. DEFINE longer == Cons(f, way)
<1>1. /\ longer \in Seq(FieldSet) /\ Len(longer) = Len(way) + 1 /\ Len(way) \in Nat
      /\ longer[1] = f /\ \A i \in 1 .. Len(way) : longer[i + 1] = way[i]
  BY DEF Cons
<1>. HIDE DEF longer
<1>2. longer # <<>>
  BY <1>1
<1>3. End(t, longer) = End(f.type, way)
  <2>1. CASE way = <<>>
    BY <1>1, <1>2, <2>1 DEF End
  <2>2. CASE way # <<>>
    <3>1. Len(way) \in 1 .. Len(way)
      BY <2>2
    <3>2. longer[Len(longer)] = way[Len(way)]
      BY <1>1, <3>1
    <3>. QED BY <1>2, <2>2, <3>2 DEF End
  <2>. QED BY <2>1, <2>2
<1>. QED BY <1>1, <1>2, <1>3 DEF longer

LEMMA LongerIsOne ==
  ASSUME NEW f \in FieldSet, NEW g \in FieldSet, NEW way \in Seq(FieldSet), NEW other \in Seq(FieldSet),
         Cons(f, way) = Cons(g, other)
  PROVE  f = g /\ way = other
<1>1. f = g
  BY LongerWay
<1>2. Len(way) = Len(other)
  <2>1. Len(way) + 1 = Len(other) + 1
    BY LongerWay
  <2>. QED BY <2>1
<1>3. \A i \in 1 .. Len(way) : way[i] = other[i]
  BY <1>2, LongerWay
<1>. QED BY <1>1, <1>2, <1>3

LEMMA WaysMade ==
  ASSUME Struct, NEW t \in Structs, NEW x
  PROVE  x \in Ways[t] <=>
           x = <<>> \/ \E i \in DOMAIN embeds[t] : \E way \in Ways[embeds[t][i].type] : x = Cons(embeds[t][i], way)
<1>1. Ways[t] = WaysIn(t, Ways)
  BY WaysAre
<1>2. x \in WaysIn(t, Ways) <=> IsWayIn(x, t, Ways)
  BY WaysInAre
<1>. QED BY <1>1, <1>2 DEF IsWayIn

(* Where ways lead. *)
LEMMA WaysLead ==
  ASSUME Struct
  PROVE  \A t \in Structs : \A way \in Ways[t] :
           /\ way \in Seq(FieldSet) /\ End(t, way) \in Structs
           /\ way # <<>> => End(t, way) > t
<1>. DEFINE S == {t \in Structs : \A way \in Ways[t] :
                    /\ way \in Seq(FieldSet) /\ End(t, way) \in Structs
                    /\ way # <<>> => End(t, way) > t}
<1>1. ASSUME NEW t \in Structs, \A u \in Structs : u > t => u \in S
      PROVE  t \in S
  <2>1. ASSUME NEW i \in DOMAIN embeds[t], NEW w \in Ways[embeds[t][i].type]
        PROVE  LET way == Cons(embeds[t][i], w)
               IN  way \in Seq(FieldSet) /\ End(t, way) \in Structs /\ End(t, way) > t
    <3>. DEFINE f == embeds[t][i]
    <3>1. f \in FieldSet /\ f.type \in Structs /\ f.type > t
      BY FieldsAre
    <3>2. w \in Seq(FieldSet) /\ End(f.type, w) \in Structs /\ (w # <<>> => End(f.type, w) > f.type)
      BY <1>1, <3>1
    <3>3. End(f.type, w) > t
      <4>1. w = <<>> => End(f.type, w) = f.type
        BY DEF End
      <4>. QED BY <3>1, <3>2, <4>1, StructsAre
    <3>. HIDE DEF f
    <3>4. Cons(f, w) \in Seq(FieldSet) /\ End(t, Cons(f, w)) = End(f.type, w)
      BY <3>1, <3>2, LongerWay
    <3>. QED BY <3>2, <3>3, <3>4 DEF f
  <2>2. End(t, <<>>) = t
    BY DEF End
  <2>3. \A way \in Ways[t] : way = <<>> \/ \E i \in DOMAIN embeds[t] :
          \E w \in Ways[embeds[t][i].type] : way = Cons(embeds[t][i], w)
    BY WaysMade
  <2>4. ASSUME NEW way \in Ways[t]
        PROVE  /\ way \in Seq(FieldSet) /\ End(t, way) \in Structs
               /\ way # <<>> => End(t, way) > t
    <3>1. CASE way = <<>>
      BY <2>2, <3>1
    <3>2. CASE \E i \in DOMAIN embeds[t] : \E w \in Ways[embeds[t][i].type] : way = Cons(embeds[t][i], w)
      BY <2>1, <3>2
    <3>. QED BY <2>3, <3>1, <3>2
  <2>. QED BY <2>4
<1>2. 1 .. MaxStructs \subseteq S
  <2>. HIDE DEF S
  <2>. QED BY <1>1, StructsAre, InductionDown
<1>. QED BY <1>2, StructsAre

(* Ways, one field at a time. *)
LEMMA WaysSplit ==
  ASSUME Struct, NEW t \in Structs
  PROVE  /\ <<>> \in Ways[t] /\ End(t, <<>>) = t
         /\ \A i \in DOMAIN embeds[t] : \A w \in Ways[embeds[t][i].type] :
              /\ Cons(embeds[t][i], w) \in Ways[t] /\ Cons(embeds[t][i], w) # <<>>
              /\ Len(Cons(embeds[t][i], w)) = Len(w) + 1
              /\ End(t, Cons(embeds[t][i], w)) = End(embeds[t][i].type, w)
         /\ \A way \in Ways[t] : way = <<>> \/ \E i \in DOMAIN embeds[t] :
              \E w \in Ways[embeds[t][i].type] : way = Cons(embeds[t][i], w)
         /\ \A i, j \in DOMAIN embeds[t] :
              \A w \in Ways[embeds[t][i].type], v \in Ways[embeds[t][j].type] :
                Cons(embeds[t][i], w) = Cons(embeds[t][j], v) => i = j /\ w = v
<1>1. End(t, <<>>) = t
  BY DEF End
<1>2. /\ <<>> \in Ways[t]
      /\ \A way \in Ways[t] : way = <<>> \/ \E i \in DOMAIN embeds[t] :
           \E w \in Ways[embeds[t][i].type] : way = Cons(embeds[t][i], w)
      /\ \A i \in DOMAIN embeds[t] : \A w \in Ways[embeds[t][i].type] : Cons(embeds[t][i], w) \in Ways[t]
  BY WaysMade
<1>3. ASSUME NEW i \in DOMAIN embeds[t], NEW w \in Ways[embeds[t][i].type]
      PROVE  /\ Cons(embeds[t][i], w) # <<>> /\ Len(Cons(embeds[t][i], w)) = Len(w) + 1
             /\ End(t, Cons(embeds[t][i], w)) = End(embeds[t][i].type, w)
  <2>1. embeds[t][i] \in FieldSet /\ w \in Seq(FieldSet)
    BY FieldsAre, WaysLead
  <2>. QED BY <2>1, LongerWay, Zenon
<1>4. ASSUME NEW i \in DOMAIN embeds[t], NEW j \in DOMAIN embeds[t],
             NEW w \in Ways[embeds[t][i].type], NEW v \in Ways[embeds[t][j].type],
             Cons(embeds[t][i], w) = Cons(embeds[t][j], v)
      PROVE  i = j /\ w = v
  <2>1. embeds[t][i] \in FieldSet /\ w \in Seq(FieldSet) /\ embeds[t][j] \in FieldSet /\ v \in Seq(FieldSet)
    BY FieldsAre, WaysLead
  <2>2. embeds[t][i] = embeds[t][j] /\ w = v
    BY <1>4, <2>1, LongerIsOne
  <2>. QED BY <2>2, FieldsAre
<1>. QED BY <1>1, <1>2, <1>3, <1>4

-----------------------------------------------------------------------------
(* The declarations that are nearest.                                      *)

LeadTo(t, kinds) == {way \in Ways[t] : own[End(t, way)] \in kinds}

LEMMA OnlyWay ==
  ASSUME Struct, NEW t \in Structs, NEW kinds, NEW way, LeadTo(t, kinds) = {way}
  PROVE  Shortest(t, kinds) = {way}
<1>1. way \in Ways[t]
  BY DEF LeadTo
<1>2. Len(way) \in Nat
  BY <1>1, WaysLead
<1>3. Shortest(t, kinds) = {w \in LeadTo(t, kinds) : \A other \in LeadTo(t, kinds) : Len(w) <= Len(other)}
  BY DEF Shortest, LeadTo
<1>. QED BY <1>2, <1>3

LEMMA NoWay ==
  ASSUME NEW t, NEW kinds, LeadTo(t, kinds) = {}
  PROVE  Shortest(t, kinds) = {}
BY DEF Shortest, LeadTo

(* A declaration of the struct itself is nearer than all others. *)
LEMMA OwnIsNearest ==
  ASSUME Struct, NEW t \in Structs, NEW kinds, own[t] \in kinds
  PROVE  Shortest(t, kinds) = {<<>>}
<1>1. <<>> \in LeadTo(t, kinds)
  BY WaysSplit DEF LeadTo
<1>2. \A way \in LeadTo(t, kinds) : Len(way) \in Nat /\ (Len(way) <= 0 => way = <<>>)
  <2>1. \A way \in Seq(FieldSet) : Len(way) \in Nat /\ (Len(way) <= 0 => way = <<>>)
    OBVIOUS
  <2>. QED BY <2>1, WaysLead DEF LeadTo
<1>3. Len(<<>>) = 0
  OBVIOUS
<1>4. Shortest(t, kinds) = {w \in LeadTo(t, kinds) : \A other \in LeadTo(t, kinds) : Len(w) <= Len(other)}
  BY DEF Shortest, LeadTo
<1>5. \A way \in LeadTo(t, kinds) :
        (\A other \in LeadTo(t, kinds) : Len(way) <= Len(other)) <=> way = <<>>
  BY <1>1, <1>2, <1>3
<1>. QED BY <1>1, <1>4, <1>5

LEMMA ShortestLeads ==
  ASSUME Struct, NEW t \in Structs, NEW kinds, NEW way \in Shortest(t, kinds)
  PROVE  way \in Ways[t] /\ End(t, way) \in Structs /\ own[End(t, way)] \in kinds
<1>1. way \in Ways[t] /\ own[End(t, way)] \in kinds
  BY DEF Shortest
<1>. QED BY <1>1, WaysLead

(* Which methods a struct and its pointer have.                            *)
AllKinds == {"value", "pointer", "field"}
MethodKinds == {"value", "pointer"}
Functions == {"own", "wrapper", "field"}

LEMMA Distinct ==
  ASSUME NEW t, NEW u
  PROVE  /\ MethodOf(t) \notin {Nothing, Panics, NotAsked, WrapperOf(u), FieldOf(u)}
         /\ FieldOf(t) \notin {Nothing, Panics, NotAsked, WrapperOf(u)}
         /\ WrapperOf(t) \notin {Nothing, Panics, NotAsked}
         /\ Nothing \notin {Panics, NotAsked} /\ Panics # NotAsked
         /\ MethodOf(t).what = "own" /\ FieldOf(t).what = "field" /\ Nothing.what = "nothing"
         /\ MethodOf(t) = MethodOf(u) => t = u
<1>1. /\ MethodOf(t).what = "own" /\ WrapperOf(t).what = "wrapper" /\ FieldOf(t).what = "field"
      /\ WrapperOf(u).what = "wrapper" /\ FieldOf(u).what = "field"
      /\ Nothing.what = "nothing" /\ Panics.what = "panic" /\ NotAsked.what = "not asked"
      /\ MethodOf(t).of = t /\ MethodOf(u).of = u
  BY DEF MethodOf, WrapperOf, FieldOf, Nothing, Panics, NotAsked
<1>2. MethodOf(t) # Nothing /\ MethodOf(t) # Panics /\ MethodOf(t) # NotAsked
      /\ MethodOf(t) # WrapperOf(u) /\ MethodOf(t) # FieldOf(u)
  BY <1>1
<1>3. FieldOf(t) # Nothing /\ FieldOf(t) # Panics /\ FieldOf(t) # NotAsked /\ FieldOf(t) # WrapperOf(u)
  BY <1>1
<1>4. WrapperOf(t) # Nothing /\ WrapperOf(t) # Panics /\ WrapperOf(t) # NotAsked
  BY <1>1
<1>5. Nothing # Panics /\ Nothing # NotAsked /\ Panics # NotAsked
  BY <1>1
<1>6. MethodOf(t) = MethodOf(u) => t = u
  BY <1>1
<1>. QED BY <1>1, <1>2, <1>3, <1>4, <1>5, <1>6, Zenon

Declares(t) == IF own[t] = "field" THEN FieldOf(t) ELSE MethodOf(t)

LEMMA DenotedAlone ==
  ASSUME NEW t, NEW way, Shortest(t, AllKinds) = {way}
  PROVE  Denoted(t) = Declares(End(t, way))
<1>1. (CHOOSE w \in {way} : TRUE) = way
  OBVIOUS
<1>2. Cardinality({way}) = 1
  BY FS_Singleton
<1>. QED BY <1>1, <1>2 DEF Denoted, Declares, AllKinds

LEMMA DenotedNothing ==
  ASSUME NEW t, Shortest(t, AllKinds) = {}
  PROVE  Denoted(t) = Nothing
BY FS_EmptySet DEF Denoted, AllKinds

(* The methods that are listed, by what the struct declares itself. *)
LEMMA Listed ==
  ASSUME Struct, NEW t \in Structs
  PROVE  /\ Denoted(t).what # "own" => OfValue(t) = Nothing /\ OfPointer(t) = Nothing
         /\ own[t] = "value" => OfValue(t) = MethodOf(t) /\ Denoted(t) = MethodOf(t)
         /\ own[t] = "pointer" => OfValue(t) = Nothing /\ OfPointer(t) = MethodOf(t) /\ Denoted(t) = MethodOf(t)
         /\ own[t] = "field" => OfValue(t) = Nothing /\ OfPointer(t) = Nothing /\ Denoted(t) = FieldOf(t)
         /\ OfValue(t) \in {Nothing, WrapperOf(t)} \/ (own[t] = "value" /\ OfValue(t) = MethodOf(t))
         /\ OfPointer(t) \in {Nothing, WrapperOf(t)} \/ (own[t] = "pointer" /\ OfPointer(t) = MethodOf(t))
<1>1. Denoted(t).what # "own" => OfValue(t) = Nothing /\ OfPointer(t) = Nothing
  BY DEF OfValue, OfPointer
<1>2. ASSUME own[t] \in AllKinds
      PROVE  Denoted(t) = Declares(t)
  <2>1. Shortest(t, AllKinds) = {<<>>} /\ End(t, <<>>) = t
    BY <1>2, OwnIsNearest, WaysSplit
  <2>. QED BY <2>1, DenotedAlone
<1>3. ASSUME own[t] \in MethodKinds
      PROVE  Denoted(t) = MethodOf(t) /\ Denoted(t).what = "own"
  BY <1>2, <1>3, Distinct DEF AllKinds, MethodKinds, Declares
<1>4. ASSUME own[t] = "value"
      PROVE  OfValue(t) = MethodOf(t)
  BY <1>3, <1>4 DEF OfValue, MethodKinds
<1>5. ASSUME own[t] = "pointer"
      PROVE  OfValue(t) = Nothing /\ OfPointer(t) = MethodOf(t)
  <2>1. Shortest(t, {"value", "pointer"}) = {<<>>} /\ End(t, <<>>) = t
    BY <1>5, OwnIsNearest, WaysSplit
  <2>2. (CHOOSE way \in Shortest(t, {"value", "pointer"}) : TRUE) = <<>>
    BY <2>1
  <2>3. DOMAIN <<>> = {}
    OBVIOUS
  <2>. QED BY <1>3, <1>5, <2>1, <2>2, <2>3 DEF OfValue, OfPointer, MethodKinds
<1>6. ASSUME own[t] = "field"
      PROVE  Denoted(t) = FieldOf(t) /\ Denoted(t).what # "own"
  BY <1>2, <1>6, Distinct DEF AllKinds, Declares
<1>7. OfValue(t) \in {Nothing, WrapperOf(t)} \/ (own[t] = "value" /\ OfValue(t) = MethodOf(t))
  BY DEF OfValue
<1>8. OfPointer(t) \in {Nothing, WrapperOf(t)} \/ (own[t] = "pointer" /\ OfPointer(t) = MethodOf(t))
  BY DEF OfPointer
<1>. QED BY <1>1, <1>3, <1>4, <1>5, <1>6, <1>7, <1>8 DEF MethodKinds

-----------------------------------------------------------------------------
(* The first candidate.                                                    *)

LEMMA FirstIs ==
  ASSUME NEW n \in Nat, NEW s, DOMAIN s = 1 .. n
  PROVE  /\ (\A i \in 1 .. n : s[i] = Nothing) => First(s) = Nothing
         /\ (\E i \in 1 .. n : s[i] # Nothing) =>
              \E i \in 1 .. n : First(s) = s[i] /\ s[i] # Nothing /\ \A j \in 1 .. n : j < i => s[j] = Nothing
<1>. DEFINE hits == {i \in 1 .. n : s[i] # Nothing}
<1>1. First(s) = IF hits = {} THEN Nothing ELSE s[CHOOSE i \in hits : \A j \in hits : i <= j]
  <2>. DEFINE all == {i \in DOMAIN s : s[i] # Nothing}
  <2>1. First(s) = IF all = {} THEN Nothing ELSE s[CHOOSE i \in all : \A j \in all : i <= j]
    BY Zenon DEF First
  <2>2. all = hits
    OBVIOUS
  <2>. HIDE DEF all, hits
  <2>. QED BY <2>1, <2>2, Zenon
<1>2. ASSUME NEW k \in 1 .. n, s[k] # Nothing
      PROVE  \E i \in hits : \A j \in hits : i <= j
  <2>. DEFINE Early == {m \in 1 .. n : (\A j \in 1 .. m : j \notin hits) \/ \E i \in hits : \A j \in hits : i <= j}
  <2>1. 1 \in 1 .. n
    BY <1>2
  <2>2. 1 \in Early
    <3>1. 1 \in hits => \A j \in hits : 1 <= j
      OBVIOUS
    <3>2. 1 .. 1 = {1}
      OBVIOUS
    <3>. QED BY <2>1, <3>1, <3>2, Zenon
  <2>3. ASSUME NEW m \in 1 .. n, m \in Early, m + 1 \in 1 .. n
        PROVE  m + 1 \in Early
    <3>1. CASE \E i \in hits : \A j \in hits : i <= j
      BY <2>3, <3>1
    <3>2. CASE \A j \in 1 .. m : j \notin hits
      <4>1. \A j \in 1 .. m + 1 : j \in 1 .. m \/ j = m + 1
        OBVIOUS
      <4>2. m + 1 \in hits => \A j \in hits : m + 1 <= j
        BY <3>2
      <4>. HIDE DEF hits
      <4>. QED BY <2>3, <3>2, <4>1, <4>2
    <3>. QED BY <2>3, <3>1, <3>2
  <2>4. 1 .. n \subseteq Early
    <3>. HIDE DEF Early
    <3>. QED BY <2>2, <2>3, InductionUpTo
  <2>5. k \in hits /\ k \in 1 .. k
    BY <1>2
  <2>. QED BY <2>4, <2>5, Zenon
<1>3. ASSUME NEW k \in 1 .. n, s[k] # Nothing
      PROVE  \E i \in 1 .. n : First(s) = s[i] /\ s[i] # Nothing /\ \A j \in 1 .. n : j < i => s[j] = Nothing
  <2>. DEFINE i == CHOOSE i \in hits : \A j \in hits : i <= j
  <2>1. i \in hits /\ \A j \in hits : i <= j
    <3>. HIDE DEF hits
    <3>. QED BY <1>2, <1>3, Zenon
  <2>2. First(s) = s[i]
    BY <1>1, <2>1, Zenon
  <2>. HIDE DEF i
  <2>. QED BY <2>1, <2>2
<1>4. (\A i \in 1 .. n : s[i] = Nothing) => First(s) = Nothing
  BY <1>1
<1>. QED BY <1>3, <1>4, Zenon

LEMMA FirstOfThree ==
  ASSUME NEW a, NEW b, NEW c
  PROVE  First(<<a, b, c>>) = IF a # Nothing THEN a ELSE IF b # Nothing THEN b ELSE c
<1>. DEFINE s == <<a, b, c>>
<1>1. DOMAIN s = 1 .. 3 /\ s[1] = a /\ s[2] = b /\ s[3] = c
  OBVIOUS
<1>2. 1 .. 3 = {1, 2, 3}
  OBVIOUS
<1>. HIDE DEF s
<1>3. CASE \A i \in 1 .. 3 : s[i] = Nothing
  <2>1. First(s) = Nothing
    BY <1>1, <1>3, FirstIs
  <2>. QED BY <1>1, <1>2, <1>3, <2>1 DEF s
<1>4. CASE \E i \in 1 .. 3 : s[i] # Nothing
  <2>1. PICK i \in 1 .. 3 : First(s) = s[i] /\ s[i] # Nothing /\ \A j \in 1 .. 3 : j < i => s[j] = Nothing
    BY <1>1, <1>4, FirstIs
  <2>. QED BY <1>1, <2>1 DEF s
<1>. QED BY <1>3, <1>4

LEMMA FirstOfFive ==
  ASSUME NEW a, NEW b, NEW c, NEW d, NEW e
  PROVE  First(<<a, b, c, d, e>>) =
           IF a # Nothing THEN a ELSE IF b # Nothing THEN b ELSE IF c # Nothing THEN c
           ELSE IF d # Nothing THEN d ELSE e
<1>. DEFINE s == <<a, b, c, d, e>>
<1>1. DOMAIN s = 1 .. 5 /\ s[1] = a /\ s[2] = b /\ s[3] = c /\ s[4] = d /\ s[5] = e
  OBVIOUS
<1>2. 1 .. 5 = {1, 2, 3, 4, 5}
  OBVIOUS
<1>. HIDE DEF s
<1>3. CASE \A i \in 1 .. 5 : s[i] = Nothing
  <2>1. First(s) = Nothing
    BY <1>1, <1>3, FirstIs
  <2>. QED BY <1>1, <1>2, <1>3, <2>1 DEF s
<1>4. CASE \E i \in 1 .. 5 : s[i] # Nothing
  <2>1. PICK i \in 1 .. 5 : First(s) = s[i] /\ s[i] # Nothing /\ \A j \in 1 .. 5 : j < i => s[j] = Nothing
    BY <1>1, <1>4, FirstIs
  <2>. QED BY <1>1, <2>1 DEF s
<1>. QED BY <1>3, <1>4

-----------------------------------------------------------------------------
(* The search of one struct.                                               *)

LEMMA FieldOnTheWay ==
  ASSUME Struct, NEW t \in Structs
  PROVE  /\ getFieldMethod(t) \in {Nothing, Panics} \cup FuncFields
         /\ LeadTo(t, {"field"}) = {} => getFieldMethod(t) = Nothing
         /\ own[t] = "field" => getFieldMethod(t) = FieldOf(t)
<1>. DEFINE near == Shortest(t, {"field"})
            way == CHOOSE way \in near : TRUE
<1>1. getFieldMethod(t) = IF Cardinality(near) # 1 THEN Nothing
                          ELSE IF \E i \in DOMAIN way : way[i].how = "nil" THEN Panics
                          ELSE FieldOf(End(t, way))
  BY Zenon DEF getFieldMethod
<1>2. near = {} => Cardinality(near) # 1
  BY FS_EmptySet
<1>3. near # {} => FieldOf(End(t, way)) \in FuncFields
  <2>. SUFFICES ASSUME near # {} PROVE FieldOf(End(t, way)) \in FuncFields
    OBVIOUS
  <2>1. way \in near
    BY Zenon
  <2>. HIDE DEF way
  <2>2. End(t, way) \in Structs /\ own[End(t, way)] = "field"
    BY <2>1, ShortestLeads
  <2>. QED BY <2>2 DEF FuncFields
<1>4. own[t] = "field" => near = {<<>>} /\ way = <<>> /\ End(t, <<>>) = t /\ Cardinality(near) = 1
  <2>. SUFFICES ASSUME own[t] = "field"
                PROVE  near = {<<>>} /\ way = <<>> /\ End(t, <<>>) = t /\ Cardinality(near) = 1
    OBVIOUS
  <2>1. near = {<<>>}
    BY OwnIsNearest
  <2>2. way = <<>>
    BY <2>1
  <2>3. Cardinality(near) = 1
    BY <2>1, FS_Singleton
  <2>. QED BY <2>1, <2>2, <2>3, WaysSplit
<1>5. LeadTo(t, {"field"}) = {} => near = {}
  BY NoWay
<1>6. DOMAIN <<>> = {}
  OBVIOUS
<1>. HIDE DEF near, way
<1>. QED BY <1>1, <1>2, <1>3, <1>4, <1>5, <1>6

LEMMA ResolveIs ==
  ASSUME Struct, NEW t \in Structs, NEW deferred
  PROVE  /\ deferred # Nothing /\ own[t] \notin MethodKinds => Resolve(t, deferred) = deferred
         /\ deferred # Nothing /\ own[t] \in MethodKinds /\ exported => Resolve(t, deferred) = MethodOf(t)
         /\ deferred # Nothing /\ ~exported => Resolve(t, deferred) = deferred
         /\ Resolve(t, Nothing) =
              IF exported
                THEN IF OfValue(t) # Nothing THEN OfValue(t)
                     ELSE IF getFieldMethod(t) # Nothing THEN getFieldMethod(t) ELSE OfPointer(t)
                ELSE IF getFieldMethod(t) # Nothing THEN getFieldMethod(t)
                     ELSE IF OfValue(t) # Nothing THEN OfValue(t) ELSE OfPointer(t)
<1>. DEFINE Declared(method) == IF method = MethodOf(t) THEN method ELSE Nothing
<1>1. deferred # Nothing => Resolve(t, deferred) =
        First(<<ByName(Declared(OfValue(t))), ByName(Declared(OfPointer(t))), deferred>>)
  BY Zenon DEF Resolve
<1>2. Resolve(t, Nothing) =
        First(<<ByName(OfValue(t)), getFieldMethod(t), Unexported(OfValue(t)), ByName(OfPointer(t)),
                Unexported(OfPointer(t))>>)
  BY Zenon DEF Resolve
<1>3. own[t] \notin MethodKinds => Declared(OfValue(t)) = Nothing /\ Declared(OfPointer(t)) = Nothing
  BY Listed, Distinct DEF MethodKinds
<1>4. own[t] \in MethodKinds => \/ Declared(OfValue(t)) = MethodOf(t)
                                \/ Declared(OfValue(t)) = Nothing /\ Declared(OfPointer(t)) = MethodOf(t)
  BY Listed DEF MethodKinds
<1>5. exported \in BOOLEAN
  BY LookupKinds DEF Struct
<1>6. MethodOf(t) # Nothing
  BY Distinct
<1>7. deferred # Nothing => Resolve(t, deferred) =
        IF ByName(Declared(OfValue(t))) # Nothing THEN ByName(Declared(OfValue(t)))
        ELSE IF ByName(Declared(OfPointer(t))) # Nothing THEN ByName(Declared(OfPointer(t))) ELSE deferred
  <2>. HIDE DEF Declared
  <2>. QED BY <1>1, FirstOfThree
<1>8. Resolve(t, Nothing) =
        IF exported
          THEN IF OfValue(t) # Nothing THEN OfValue(t)
               ELSE IF getFieldMethod(t) # Nothing THEN getFieldMethod(t) ELSE OfPointer(t)
          ELSE IF getFieldMethod(t) # Nothing THEN getFieldMethod(t)
               ELSE IF OfValue(t) # Nothing THEN OfValue(t) ELSE OfPointer(t)
  BY <1>2, <1>5, FirstOfFive DEF ByName, Unexported
<1>. HIDE DEF Declared
<1>. QED BY <1>3, <1>4, <1>5, <1>6, <1>7, <1>8 DEF ByName

-----------------------------------------------------------------------------
(* The searches, from the embedded fields up.                              *)

Results == {Nothing, Panics} \cup Methods \cup Promoted \cup FuncFields
NestedResults == {Nothing} \cup Methods \cup Promoted

Hits(t, f) ==
  [i \in DOMAIN embeds[t] |-> IF embeds[t][i].how = "nil" THEN ByName(OfPointer(embeds[t][i].type))
                              ELSE f[embeds[t][i].type]]
MethodIn(t, f) ==
  IF \E i \in DOMAIN Hits(t, f) : Hits(t, f)[i] = Panics THEN Panics ELSE Resolve(t, First(Hits(t, f)))
NestedHits(t, f) ==
  [i \in DOMAIN embeds[t] |-> IF embeds[t][i].how = "nil" THEN Nothing ELSE f[embeds[t][i].type]]
NestedIn(t, f) == NestedOf(t, First(NestedHits(t, f)))

LEMMA FirstIsOneOf ==
  ASSUME NEW n \in Nat, NEW S, Nothing \in S, NEW s \in [1 .. n -> S]
  PROVE  First(s) \in S
<1>1. DOMAIN s = 1 .. n /\ \A i \in 1 .. n : s[i] \in S
  OBVIOUS
<1>2. CASE \A i \in 1 .. n : s[i] = Nothing
  BY <1>1, <1>2, FirstIs
<1>3. CASE \E i \in 1 .. n : s[i] # Nothing
  <2>1. PICK i \in 1 .. n : First(s) = s[i]
    BY <1>1, <1>3, FirstIs
  <2>. QED BY <1>1, <2>1
<1>. QED BY <1>2, <1>3

LEMMA ListedAreResults ==
  ASSUME Struct, NEW t \in Structs
  PROVE  /\ OfValue(t) \in NestedResults /\ OfPointer(t) \in NestedResults
         /\ ByName(OfValue(t)) \in NestedResults /\ ByName(OfPointer(t)) \in NestedResults
<1>1. WrapperOf(t) \in Promoted
  BY DEF Promoted
<1>2. own[t] \in {"value", "pointer"} => MethodOf(t) \in Methods
  BY DEF Methods, IsMethod
<1>3. OfValue(t) \in NestedResults /\ OfPointer(t) \in NestedResults
  BY <1>1, <1>2, Listed DEF NestedResults
<1>4. Nothing \in NestedResults
  BY DEF NestedResults
<1>. QED BY <1>3, <1>4 DEF ByName

LEMMA ResolveYields ==
  ASSUME Struct, NEW t \in Structs, NEW deferred \in Results
  PROVE  Resolve(t, deferred) \in Results
<1>1. NestedResults \subseteq Results
  BY DEF NestedResults, Results
<1>2. getFieldMethod(t) \in Results
  BY FieldOnTheWay DEF Results
<1>3. own[t] \in MethodKinds => MethodOf(t) \in Results
  BY DEF Results, Methods, IsMethod, MethodKinds
<1>4. exported \in BOOLEAN
  BY LookupKinds DEF Struct
<1>5. CASE deferred = Nothing
  BY <1>1, <1>2, <1>5, ListedAreResults, ResolveIs
<1>6. CASE deferred # Nothing
  BY <1>3, <1>4, <1>6, ResolveIs
<1>. QED BY <1>5, <1>6

LEMMA HitsAre ==
  ASSUME Struct, NEW t \in Structs, NEW f
  PROVE  /\ Len(embeds[t]) \in Nat
         /\ DOMAIN Hits(t, f) = 1 .. Len(embeds[t]) /\ DOMAIN NestedHits(t, f) = 1 .. Len(embeds[t])
         /\ DOMAIN embeds[t] = 1 .. Len(embeds[t])
         /\ \A i \in DOMAIN embeds[t] :
              /\ Hits(t, f)[i] = IF embeds[t][i].how = "nil" THEN ByName(OfPointer(embeds[t][i].type))
                                 ELSE f[embeds[t][i].type]
              /\ NestedHits(t, f)[i] = IF embeds[t][i].how = "nil" THEN Nothing ELSE f[embeds[t][i].type]
BY FieldsAre DEF Hits, NestedHits

LEMMA InYields ==
  ASSUME Struct, NEW t \in Structs, NEW f
  PROVE  /\ (\A u \in Inner[t] : f[u] \in Results) => MethodIn(t, f) \in Results
         /\ (\A u \in Inner[t] : f[u] \in NestedResults) => NestedIn(t, f) \in NestedResults
<1>. DEFINE n == Len(embeds[t])
<1>1. \A i \in DOMAIN embeds[t] : embeds[t][i].type \in Structs /\ embeds[t][i].type \in Inner[t]
  BY FieldsAre
<1>2. NestedResults \subseteq Results /\ Nothing \in NestedResults /\ Panics \in Results
  BY DEF NestedResults, Results
<1>3. ASSUME \A u \in Inner[t] : f[u] \in Results
      PROVE  MethodIn(t, f) \in Results
  <2>1. \A i \in 1 .. n : Hits(t, f)[i] \in Results
    BY <1>1, <1>2, <1>3, HitsAre, ListedAreResults
  <2>2. Hits(t, f) \in [1 .. n -> Results]
    <3>1. Hits(t, f) = [i \in DOMAIN embeds[t] |-> Hits(t, f)[i]]
      BY DEF Hits
    <3>. QED BY <2>1, <3>1, HitsAre
  <2>3. First(Hits(t, f)) \in Results
    BY <1>2, <2>2, HitsAre, FirstIsOneOf
  <2>4. Resolve(t, First(Hits(t, f))) \in Results
    BY <2>3, ResolveYields
  <2>. QED BY <1>2, <2>4 DEF MethodIn
<1>4. ASSUME \A u \in Inner[t] : f[u] \in NestedResults
      PROVE  NestedIn(t, f) \in NestedResults
  <2>1. \A i \in 1 .. n : NestedHits(t, f)[i] \in NestedResults
    BY <1>1, <1>2, <1>4, HitsAre
  <2>2. NestedHits(t, f) \in [1 .. n -> NestedResults]
    <3>1. NestedHits(t, f) = [i \in DOMAIN embeds[t] |-> NestedHits(t, f)[i]]
      BY DEF NestedHits
    <3>. QED BY <2>1, <3>1, HitsAre
  <2>3. First(NestedHits(t, f)) \in NestedResults
    BY <1>2, <2>2, HitsAre, FirstIsOneOf
  <2>. DEFINE inner == First(NestedHits(t, f))
  <2>4. NestedIn(t, f) = IF inner # Nothing THEN inner
                         ELSE IF ByName(OfValue(t)) # Nothing THEN ByName(OfValue(t)) ELSE ByName(OfPointer(t))
    BY FirstOfThree DEF NestedIn, NestedOf
  <2>. HIDE DEF inner
  <2>. QED BY <2>3, <2>4, ListedAreResults DEF inner
<1>. QED BY <1>3, <1>4

LEMMA InFollows ==
  ASSUME Struct, NEW t \in Structs, NEW f, NEW g,
         \A u \in Inner[t] : f[u] = g[u]
  PROVE  MethodIn(t, f) = MethodIn(t, g) /\ NestedIn(t, f) = NestedIn(t, g)
<1>1. \A i \in DOMAIN embeds[t] : f[embeds[t][i].type] = g[embeds[t][i].type]
  BY FieldsAre
<1>2. Hits(t, f) = Hits(t, g)
  BY <1>1 DEF Hits
<1>3. NestedHits(t, f) = NestedHits(t, g)
  BY <1>1 DEF NestedHits
<1>. QED BY <1>2, <1>3 DEF MethodIn, NestedIn

LEMMA MethodsAre ==
  ASSUME Struct
  PROVE  \A t \in Structs : getMethod[t] \in Results /\ getMethod[t] = MethodIn(t, getMethod)
<1>. DEFINE R == Results
            V == [t \in Structs |-> [g \in [Inner[t] -> R] |-> MethodIn(t, g)]]
            Eq(f) == f = [t \in Structs |-> MethodIn(t, f)]
<1>1. \A t \in Structs : \A g \in [Inner[t] -> R] : V[t][g] = MethodIn(t, g)
  OBVIOUS
<1>2. \A t \in Structs : \A g \in [Inner[t] -> R] : MethodIn(t, g) \in R
  BY InYields
<1>3. Nothing \in R
  BY DEF Results
<1>. HIDE DEF R, V
<1>4. PICK f \in [Structs -> R] : Follows(f, Structs, Inner, V)
  <2>1. \A t \in Structs : \A g \in [Inner[t] -> R] : V[t][g] \in R
    BY <1>1, <1>2
  <2>. QED BY <1>3, <2>1, InnerDefine
<1>5. ASSUME NEW t \in Structs
      PROVE  f[t] = MethodIn(t, f)
  <2>. DEFINE g == [u \in Inner[t] |-> f[u]]
  <2>1. g \in [Inner[t] -> R] /\ \A u \in Inner[t] : g[u] = f[u]
    BY FieldsAre DEF Inner
  <2>2. f[t] = MethodIn(t, g)
    BY <1>1, <1>4, <2>1 DEF Follows
  <2>. HIDE DEF g
  <2>. QED BY <2>1, <2>2, InFollows
<1>6. Eq(f)
  BY <1>5
<1>7. getMethod = CHOOSE h : Eq(h)
  BY DEF getMethod, MethodIn, Hits
<1>8. Eq(getMethod)
  <2>. HIDE DEF Eq
  <2>. QED BY <1>6, <1>7
<1>9. \A t \in Structs : getMethod[t] = MethodIn(t, getMethod)
  BY <1>8
<1>10. \A t \in Structs : getMethod[t] \in R
  <2>. DEFINE S == {t \in Structs : getMethod[t] \in R}
  <2>1. ASSUME NEW t \in Structs, \A u \in Structs : u > t => u \in S
        PROVE  t \in S
    <3>1. \A u \in Inner[t] : getMethod[u] \in R
      BY <2>1, FieldsAre DEF Inner
    <3>2. MethodIn(t, getMethod) \in R
      BY <3>1, InYields DEF R
    <3>. QED BY <1>9, <3>2
  <2>2. 1 .. MaxStructs \subseteq S
    <3>. HIDE DEF S
    <3>. QED BY <2>1, StructsAre, InductionDown
  <2>. QED BY <2>2, StructsAre
<1>. QED BY <1>9, <1>10 DEF R

LEMMA NestedAre ==
  ASSUME Struct
  PROVE  \A t \in Structs : /\ getNestedMethod[t] \in NestedResults
                            /\ getNestedMethod[t] = NestedIn(t, getNestedMethod)
<1>. DEFINE R == NestedResults
            V == [t \in Structs |-> [g \in [Inner[t] -> R] |-> NestedIn(t, g)]]
            Eq(f) == f = [t \in Structs |-> NestedIn(t, f)]
<1>1. \A t \in Structs : \A g \in [Inner[t] -> R] : V[t][g] = NestedIn(t, g)
  OBVIOUS
<1>2. \A t \in Structs : \A g \in [Inner[t] -> R] : NestedIn(t, g) \in R
  BY InYields
<1>3. Nothing \in R
  BY DEF NestedResults
<1>. HIDE DEF R, V
<1>4. PICK f \in [Structs -> R] : Follows(f, Structs, Inner, V)
  <2>1. \A t \in Structs : \A g \in [Inner[t] -> R] : V[t][g] \in R
    BY <1>1, <1>2
  <2>. QED BY <1>3, <2>1, InnerDefine
<1>5. ASSUME NEW t \in Structs
      PROVE  f[t] = NestedIn(t, f)
  <2>. DEFINE g == [u \in Inner[t] |-> f[u]]
  <2>1. g \in [Inner[t] -> R] /\ \A u \in Inner[t] : g[u] = f[u]
    BY FieldsAre DEF Inner
  <2>2. f[t] = NestedIn(t, g)
    BY <1>1, <1>4, <2>1 DEF Follows
  <2>. HIDE DEF g
  <2>. QED BY <2>1, <2>2, InFollows
<1>6. Eq(f)
  BY <1>5
<1>7. getNestedMethod = CHOOSE h : Eq(h)
  BY DEF getNestedMethod, NestedIn, NestedHits
<1>8. Eq(getNestedMethod)
  <2>. HIDE DEF Eq
  <2>. QED BY <1>6, <1>7
<1>9. \A t \in Structs : getNestedMethod[t] = NestedIn(t, getNestedMethod)
  BY <1>8
<1>10. \A t \in Structs : getNestedMethod[t] \in R
  <2>. DEFINE S == {t \in Structs : getNestedMethod[t] \in R}
  <2>1. ASSUME NEW t \in Structs, \A u \in Structs : u > t => u \in S
        PROVE  t \in S
    <3>1. \A u \in Inner[t] : getNestedMethod[u] \in R
      BY <2>1, FieldsAre DEF Inner
    <3>2. NestedIn(t, getNestedMethod) \in R
      BY <3>1, InYields DEF R
    <3>. QED BY <1>9, <3>2
  <2>2. 1 .. MaxStructs \subseteq S
    <3>. HIDE DEF S
    <3>. QED BY <2>1, StructsAre, InductionDown
  <2>. QED BY <2>2, StructsAre
<1>. QED BY <1>9, <1>10 DEF R

-----------------------------------------------------------------------------
(* One way only leads to a declaration.                                    *)

LEMMA LeadFurther ==
  ASSUME Struct, NEW t \in Structs, NEW kinds
  PROVE  /\ <<>> \in LeadTo(t, kinds) <=> own[t] \in kinds
         /\ \A i \in DOMAIN embeds[t] : \A w \in LeadTo(embeds[t][i].type, kinds) :
              /\ Cons(embeds[t][i], w) \in LeadTo(t, kinds)
              /\ End(t, Cons(embeds[t][i], w)) = End(embeds[t][i].type, w)
         /\ \A way \in LeadTo(t, kinds) : way = <<>> \/ \E i \in DOMAIN embeds[t] :
              \E w \in LeadTo(embeds[t][i].type, kinds) : way = Cons(embeds[t][i], w)
<1>1. <<>> \in LeadTo(t, kinds) <=> own[t] \in kinds
  BY WaysSplit DEF LeadTo
<1>2. ASSUME NEW i \in DOMAIN embeds[t], NEW w \in LeadTo(embeds[t][i].type, kinds)
      PROVE  /\ Cons(embeds[t][i], w) \in LeadTo(t, kinds)
             /\ End(t, Cons(embeds[t][i], w)) = End(embeds[t][i].type, w)
  <2>1. w \in Ways[embeds[t][i].type] /\ own[End(embeds[t][i].type, w)] \in kinds
    BY DEF LeadTo
  <2>2. Cons(embeds[t][i], w) \in Ways[t] /\ End(t, Cons(embeds[t][i], w)) = End(embeds[t][i].type, w)
    BY <2>1, WaysSplit
  <2>. QED BY <2>1, <2>2 DEF LeadTo
<1>3. ASSUME NEW way \in LeadTo(t, kinds), way # <<>>
      PROVE  \E i \in DOMAIN embeds[t] : \E w \in LeadTo(embeds[t][i].type, kinds) : way = Cons(embeds[t][i], w)
  <2>1. way \in Ways[t] /\ own[End(t, way)] \in kinds
    BY DEF LeadTo
  <2>2. PICK i \in DOMAIN embeds[t] : \E w \in Ways[embeds[t][i].type] : way = Cons(embeds[t][i], w)
    <3>1. \A v \in Ways[t] : v = <<>> \/ \E i \in DOMAIN embeds[t] :
            \E w \in Ways[embeds[t][i].type] : v = Cons(embeds[t][i], w)
      BY WaysSplit
    <3>. QED BY <1>3, <2>1, <3>1, Zenon
  <2>3. PICK w \in Ways[embeds[t][i].type] : way = Cons(embeds[t][i], w)
    BY <2>2
  <2>4. End(t, way) = End(embeds[t][i].type, w)
    BY <2>3, WaysSplit
  <2>5. w \in LeadTo(embeds[t][i].type, kinds)
    BY <2>1, <2>4 DEF LeadTo
  <2>. QED BY <2>3, <2>5
<1>. QED BY <1>1, <1>2, <1>3

LEMMA LeadNowhere ==
  ASSUME Struct, NEW t \in Structs, NEW kinds, LeadTo(t, kinds) = {}
  PROVE  own[t] \notin kinds /\ \A i \in DOMAIN embeds[t] : LeadTo(embeds[t][i].type, kinds) = {}
BY LeadFurther

LeadsHere(t, kinds, way) ==
  /\ way = <<>> /\ own[t] \in kinds
  /\ \A i \in DOMAIN embeds[t] : LeadTo(embeds[t][i].type, kinds) = {}
LeadsOn(t, kinds, way) ==
  /\ own[t] \notin kinds
  /\ \E i \in DOMAIN embeds[t] : \E w :
       /\ LeadTo(embeds[t][i].type, kinds) = {w}
       /\ End(t, way) = End(embeds[t][i].type, w)
       /\ \A j \in DOMAIN embeds[t] : j # i => LeadTo(embeds[t][j].type, kinds) = {}
LEMMA LeadOnce ==
  ASSUME Struct, NEW t \in Structs, NEW kinds, NEW way, LeadTo(t, kinds) = {way}
  PROVE  LeadsHere(t, kinds, way) \/ LeadsOn(t, kinds, way)
<1>1. ASSUME NEW i \in DOMAIN embeds[t], NEW w \in LeadTo(embeds[t][i].type, kinds)
      PROVE  Cons(embeds[t][i], w) = way /\ w \in Ways[embeds[t][i].type] /\ way # <<>>
  <2>1. Cons(embeds[t][i], w) = way
    BY <1>1, LeadFurther
  <2>2. w \in Ways[embeds[t][i].type]
    BY DEF LeadTo
  <2>. QED BY <2>1, <2>2, WaysSplit
<1>2. CASE way = <<>>
  <2>1. own[t] \in kinds
    BY <1>2, LeadFurther
  <2>. QED BY <1>1, <1>2, <2>1 DEF LeadsHere
<1>3. CASE way # <<>>
  <2>1. own[t] \notin kinds
    BY <1>3, LeadFurther
  <2>2. PICK i \in DOMAIN embeds[t] : \E w \in LeadTo(embeds[t][i].type, kinds) : way = Cons(embeds[t][i], w)
    <3>1. \A v \in LeadTo(t, kinds) : v = <<>> \/ \E i \in DOMAIN embeds[t] :
            \E w \in LeadTo(embeds[t][i].type, kinds) : v = Cons(embeds[t][i], w)
      BY LeadFurther
    <3>. QED BY <1>3, <3>1, Zenon
  <2>3. PICK w \in LeadTo(embeds[t][i].type, kinds) : way = Cons(embeds[t][i], w)
    BY <2>2
  <2>4. \A j \in DOMAIN embeds[t] : \A v \in LeadTo(embeds[t][j].type, kinds) : j = i /\ v = w
    <3>1. ASSUME NEW j \in DOMAIN embeds[t], NEW v \in LeadTo(embeds[t][j].type, kinds)
          PROVE  j = i /\ v = w
      <4>1. Cons(embeds[t][j], v) = Cons(embeds[t][i], w)
        BY <1>1, <2>3
      <4>2. v \in Ways[embeds[t][j].type] /\ w \in Ways[embeds[t][i].type]
        BY <1>1
      <4>3. \A k, l \in DOMAIN embeds[t] :
              \A x \in Ways[embeds[t][k].type], y \in Ways[embeds[t][l].type] :
                Cons(embeds[t][k], x) = Cons(embeds[t][l], y) => k = l /\ x = y
        BY WaysSplit
      <4>4. \A x \in Ways[embeds[t][j].type], y \in Ways[embeds[t][i].type] :
              Cons(embeds[t][j], x) = Cons(embeds[t][i], y) => j = i /\ x = y
        BY <4>3, Zenon
      <4>. QED BY <4>1, <4>2, <4>4, Zenon
    <3>. QED BY <3>1
  <2>5. End(t, way) = End(embeds[t][i].type, w)
    <3>1. End(t, Cons(embeds[t][i], w)) = End(embeds[t][i].type, w)
      BY LeadFurther
    <3>. QED BY <2>3, <3>1, Zenon
  <2>6. LeadTo(embeds[t][i].type, kinds) = {w}
    <3>1. \A v \in LeadTo(embeds[t][i].type, kinds) : v = w
      BY <2>4, Zenon
    <3>. QED BY <3>1
  <2>7. \A j \in DOMAIN embeds[t] : j # i => LeadTo(embeds[t][j].type, kinds) = {}
    BY <2>4, Zenon
  <2>. QED BY <2>1, <2>5, <2>6, <2>7 DEF LeadsOn
<1>. QED BY <1>2, <1>3

(* No way to a declaration: nothing is listed and nothing is found. *)
LEMMA NothingListed ==
  ASSUME Struct, NEW t \in Structs, LeadTo(t, AllKinds) = {}
  PROVE  Denoted(t) = Nothing /\ Resolve(t, Nothing) = Nothing
<1>1. Denoted(t) = Nothing
  BY NoWay, DenotedNothing
<1>2. OfValue(t) = Nothing /\ OfPointer(t) = Nothing
  BY <1>1, Listed, Distinct
<1>3. getFieldMethod(t) = Nothing
  <2>1. LeadTo(t, {"field"}) = {}
    BY DEF LeadTo, AllKinds
  <2>. QED BY <2>1, FieldOnTheWay
<1>. QED BY <1>1, <1>2, <1>3, ResolveIs

(* The candidate of the embedded fields, when one of them has one. *)
LEMMA OneHit ==
  ASSUME Struct, NothingIsNil, NEW t \in Structs, NEW f,
         \A i \in DOMAIN embeds[t] : f[embeds[t][i].type] # Panics
  PROVE  /\ MethodIn(t, f) = Resolve(t, First(Hits(t, f)))
         /\ (\A i \in DOMAIN embeds[t] : f[embeds[t][i].type] = Nothing) => First(Hits(t, f)) = Nothing
         /\ \A i \in DOMAIN embeds[t] :
              /\ f[embeds[t][i].type] # Nothing
              /\ \A j \in DOMAIN embeds[t] : j # i => f[embeds[t][j].type] = Nothing
              => First(Hits(t, f)) = f[embeds[t][i].type]
<1>1. \A i \in DOMAIN embeds[t] : Hits(t, f)[i] = f[embeds[t][i].type]
  BY HitsAre DEF NothingIsNil
<1>2. MethodIn(t, f) = Resolve(t, First(Hits(t, f)))
  BY <1>1, HitsAre DEF MethodIn
<1>3. (\A i \in DOMAIN embeds[t] : f[embeds[t][i].type] = Nothing) => First(Hits(t, f)) = Nothing
  BY <1>1, HitsAre, FirstIs
<1>4. ASSUME NEW i \in DOMAIN embeds[t], f[embeds[t][i].type] # Nothing,
             \A j \in DOMAIN embeds[t] : j # i => f[embeds[t][j].type] = Nothing
      PROVE  First(Hits(t, f)) = f[embeds[t][i].type]
  <2>1. i \in 1 .. Len(embeds[t]) /\ Hits(t, f)[i] # Nothing
    BY <1>1, <1>4, HitsAre
  <2>2. PICK k \in 1 .. Len(embeds[t]) : First(Hits(t, f)) = Hits(t, f)[k] /\ Hits(t, f)[k] # Nothing
    BY <2>1, HitsAre, FirstIs
  <2>3. k = i
    BY <1>1, <1>4, <2>2, HitsAre
  <2>. QED BY <1>1, <2>2, <2>3
<1>. QED BY <1>2, <1>3, <1>4

LEMMA OwnDeclarationFirst ==
  ASSUME Struct, NEW t \in Structs, own[t] \in AllKinds, LeadTo(t, AllKinds) = {<<>>}
  PROVE  Resolve(t, Nothing) = Declares(t)
<1>1. CASE own[t] = "field"
  <2>1. OfValue(t) = Nothing /\ getFieldMethod(t) = FieldOf(t) /\ FieldOf(t) # Nothing
    BY <1>1, Listed, FieldOnTheWay, Distinct
  <2>. QED BY <1>1, <2>1, ResolveIs DEF Declares
<1>2. CASE own[t] \in MethodKinds
  <2>1. getFieldMethod(t) = Nothing
    <3>1. LeadTo(t, {"field"}) = {}
      <4>1. \A way \in LeadTo(t, {"field"}) : way \in LeadTo(t, AllKinds) /\ own[End(t, way)] = "field"
        BY DEF LeadTo, AllKinds
      <4>2. End(t, <<>>) = t
        BY DEF End
      <4>. QED BY <1>2, <4>1, <4>2 DEF MethodKinds
    <3>. QED BY <3>1, FieldOnTheWay
  <2>2. \/ OfValue(t) = MethodOf(t)
        \/ OfValue(t) = Nothing /\ OfPointer(t) = MethodOf(t)
    BY <1>2, Listed DEF MethodKinds
  <2>3. MethodOf(t) # Nothing /\ Declares(t) = MethodOf(t)
    BY <1>2, Distinct DEF Declares, MethodKinds
  <2>. QED BY <2>1, <2>2, <2>3, ResolveIs
<1>. QED BY <1>1, <1>2 DEF AllKinds, MethodKinds

LEMMA OneIsFound ==
  ASSUME Struct, NothingIsNil
  PROVE  \A t \in Structs :
           /\ LeadTo(t, AllKinds) = {} => getMethod[t] = Nothing
           /\ \A way : LeadTo(t, AllKinds) = {way} => getMethod[t] = Declares(End(t, way))
<1>. DEFINE S == {t \in Structs :
                    /\ LeadTo(t, AllKinds) = {} => getMethod[t] = Nothing
                    /\ \A way : LeadTo(t, AllKinds) = {way} => getMethod[t] = Declares(End(t, way))}
<1>1. ASSUME NEW t \in Structs, \A u \in Structs : u > t => u \in S
      PROVE  t \in S
  <2>1. \A i \in DOMAIN embeds[t] :
          /\ LeadTo(embeds[t][i].type, AllKinds) = {} => getMethod[embeds[t][i].type] = Nothing
          /\ \A w : LeadTo(embeds[t][i].type, AllKinds) = {w}
                      => getMethod[embeds[t][i].type] = Declares(End(embeds[t][i].type, w))
    BY <1>1, FieldsAre
  <2>2. \A u : Declares(u) # Nothing /\ Declares(u) # Panics
    BY Distinct DEF Declares
  <2>3. Nothing # Panics
    BY Distinct
  <2>4. getMethod[t] = MethodIn(t, getMethod)
    BY MethodsAre
  <2>5. ASSUME \A i \in DOMAIN embeds[t] : LeadTo(embeds[t][i].type, AllKinds) = {}
        PROVE  getMethod[t] = Resolve(t, Nothing)
    BY <2>1, <2>3, <2>4, <2>5, OneHit
  <2>6. ASSUME LeadTo(t, AllKinds) = {}
        PROVE  getMethod[t] = Nothing
    BY <2>5, <2>6, LeadNowhere, NothingListed
  <2>7. ASSUME NEW way, LeadTo(t, AllKinds) = {way}
        PROVE  getMethod[t] = Declares(End(t, way))
    <3>1. CASE LeadsHere(t, AllKinds, way)
      <4>1. End(t, way) = t
        BY <3>1 DEF End, LeadsHere
      <4>. QED BY <2>5, <2>7, <3>1, <4>1, OwnDeclarationFirst DEF LeadsHere
    <3>2. CASE LeadsOn(t, AllKinds, way)
      <4>. PICK i \in DOMAIN embeds[t] : \E w :
             /\ LeadTo(embeds[t][i].type, AllKinds) = {w}
             /\ End(t, way) = End(embeds[t][i].type, w)
             /\ \A j \in DOMAIN embeds[t] : j # i => LeadTo(embeds[t][j].type, AllKinds) = {}
        BY <3>2 DEF LeadsOn
      <4>1. PICK w :
              /\ LeadTo(embeds[t][i].type, AllKinds) = {w}
              /\ End(t, way) = End(embeds[t][i].type, w)
              /\ \A j \in DOMAIN embeds[t] : j # i => LeadTo(embeds[t][j].type, AllKinds) = {}
        OBVIOUS
      <4>2. getMethod[embeds[t][i].type] = Declares(End(t, way))
        BY <2>1, <4>1
      <4>3. \A j \in DOMAIN embeds[t] : j # i => getMethod[embeds[t][j].type] = Nothing
        BY <2>1, <4>1
      <4>4. \A j \in DOMAIN embeds[t] : getMethod[embeds[t][j].type] # Panics
        BY <2>2, <2>3, <4>2, <4>3
      <4>5. getMethod[t] = Resolve(t, First(Hits(t, getMethod)))
        BY <2>4, <4>4, OneHit
      <4>6. First(Hits(t, getMethod)) = Declares(End(t, way))
        BY <2>2, <4>2, <4>3, <4>4, OneHit
      <4>. QED BY <2>2, <3>2, <4>5, <4>6, ResolveIs DEF LeadsOn, AllKinds, MethodKinds
    <3>. QED BY <2>7, <3>1, <3>2, LeadOnce
  <2>. QED BY <2>6, <2>7
<1>2. 1 .. MaxStructs \subseteq S
  <2>. HIDE DEF S
  <2>. QED BY <1>1, StructsAre, InductionDown
<1>. QED BY <1>2, StructsAre

-----------------------------------------------------------------------------
(* Along a chain of embedded structs.                                      *)

LEMMA ShortestOnward ==
  ASSUME Struct, NEW t \in Structs, NEW kinds, own[t] \notin kinds, Len(embeds[t]) = 1,
         NEW w, Shortest(embeds[t][1].type, kinds) = {w}
  PROVE  /\ Shortest(t, kinds) = {Cons(embeds[t][1], w)}
         /\ End(t, Cons(embeds[t][1], w)) = End(embeds[t][1].type, w)
<1>. DEFINE f == embeds[t][1]
<1>1. DOMAIN embeds[t] = {1} /\ 1 \in DOMAIN embeds[t]
  BY FieldsAre
<1>2. f.type \in Structs
  BY <1>1, FieldsAre
<1>3. \A u : Shortest(u, kinds) =
        {v \in LeadTo(u, kinds) : \A other \in LeadTo(u, kinds) : Len(v) <= Len(other)}
  BY DEF Shortest, LeadTo
<1>4. \A v \in LeadTo(f.type, kinds) :
        /\ Len(v) \in Nat /\ Len(Cons(f, v)) = Len(v) + 1
        /\ Cons(f, v) \in LeadTo(t, kinds) /\ End(t, Cons(f, v)) = End(f.type, v)
  <2>1. \A v \in LeadTo(f.type, kinds) : v \in Ways[f.type]
    BY DEF LeadTo
  <2>2. \A v \in LeadTo(f.type, kinds) : Len(v) \in Nat
    BY <1>2, <2>1, WaysLead
  <2>3. \A v \in LeadTo(f.type, kinds) : Len(Cons(f, v)) = Len(v) + 1
    BY <1>1, <2>1, WaysSplit
  <2>4. \A v \in LeadTo(f.type, kinds) :
          Cons(f, v) \in LeadTo(t, kinds) /\ End(t, Cons(f, v)) = End(f.type, v)
    BY <1>1, LeadFurther
  <2>. QED BY <2>2, <2>3, <2>4, Zenon
<1>5. \A way \in LeadTo(t, kinds) : \E v \in LeadTo(f.type, kinds) : way = Cons(f, v)
  <2>1. \A way \in LeadTo(t, kinds) : way = <<>> \/ \E i \in DOMAIN embeds[t] :
          \E v \in LeadTo(embeds[t][i].type, kinds) : way = Cons(embeds[t][i], v)
    BY LeadFurther
  <2>2. <<>> \notin LeadTo(t, kinds)
    BY LeadFurther
  <2>. QED BY <1>1, <2>1, <2>2, Zenon
<1>6. w \in LeadTo(f.type, kinds) /\ \A other \in LeadTo(f.type, kinds) : Len(w) <= Len(other)
  BY <1>3
<1>7. \A v \in LeadTo(f.type, kinds) :
        (\A other \in LeadTo(f.type, kinds) : Len(v) <= Len(other)) => v = w
  BY <1>3
<1>. HIDE DEF f
<1>8. Cons(f, w) \in Shortest(t, kinds)
  <2>1. ASSUME NEW other \in LeadTo(t, kinds)
        PROVE  Len(Cons(f, w)) <= Len(other)
    <3>1. PICK v \in LeadTo(f.type, kinds) : other = Cons(f, v)
      BY <1>5
    <3>. QED BY <1>4, <1>6, <3>1
  <2>. QED BY <1>3, <1>4, <1>6, <2>1
<1>9. ASSUME NEW way \in Shortest(t, kinds)
      PROVE  way = Cons(f, w)
  <2>1. way \in LeadTo(t, kinds) /\ \A other \in LeadTo(t, kinds) : Len(way) <= Len(other)
    BY <1>3
  <2>2. PICK v \in LeadTo(f.type, kinds) : way = Cons(f, v)
    BY <1>5, <2>1
  <2>3. \A other \in LeadTo(f.type, kinds) : Len(v) <= Len(other)
    <3>1. ASSUME NEW other \in LeadTo(f.type, kinds)
          PROVE  Len(v) <= Len(other)
      <4>1. Len(way) <= Len(Cons(f, other))
        BY <1>4, <2>1
      <4>. QED BY <1>4, <2>2, <4>1
    <3>. QED BY <3>1
  <2>. QED BY <1>7, <2>2, <2>3
<1>. QED BY <1>4, <1>6, <1>8, <1>9 DEF f

LEMMA OwnMethodFirst ==
  ASSUME Struct, MethodsOnly, NEW t \in Structs, own[t] \in AllKinds, NEW deferred,
         exported \/ deferred = Nothing
  PROVE  Resolve(t, deferred) = MethodOf(t) /\ Declares(t) = MethodOf(t)
<1>1. own[t] \in MethodKinds /\ Declares(t) = MethodOf(t)
  BY DEF MethodsOnly, AllKinds, MethodKinds, Declares
<1>2. CASE deferred # Nothing
  BY <1>1, <1>2, ResolveIs
<1>3. CASE deferred = Nothing
  <2>1. LeadTo(t, {"field"}) = {}
    <3>1. \A way \in LeadTo(t, {"field"}) : End(t, way) \in Structs /\ own[End(t, way)] = "field"
      BY WaysLead DEF LeadTo
    <3>. QED BY <3>1 DEF MethodsOnly
  <2>2. getFieldMethod(t) = Nothing
    BY <2>1, FieldOnTheWay
  <2>3. \/ OfValue(t) = MethodOf(t)
        \/ OfValue(t) = Nothing /\ OfPointer(t) = MethodOf(t)
    BY <1>1, Listed DEF MethodKinds
  <2>4. MethodOf(t) # Nothing
    BY Distinct
  <2>. QED BY <1>1, <1>3, <2>2, <2>3, <2>4, ResolveIs
<1>. QED BY <1>2, <1>3

LEMMA ChainEmbedsOne ==
  ASSUME Struct, Chain, NEW t \in Structs, DOMAIN embeds[t] # {}
  PROVE  Len(embeds[t]) = 1 /\ DOMAIN embeds[t] = {1} /\ 1 \in DOMAIN embeds[t]
<1>1. Len(embeds[t]) \in Nat /\ DOMAIN embeds[t] = 1 .. Len(embeds[t]) /\ Len(embeds[t]) <= 1
  BY FieldsAre DEF Chain
<1>2. Len(embeds[t]) # 0
  BY <1>1
<1>3. Len(embeds[t]) = 1
  <2>1. \A n \in Nat : n <= 1 /\ n # 0 => n = 1
    OBVIOUS
  <2>. QED BY <1>1, <1>2, <2>1, Zenon
<1>4. 1 .. 1 = {1}
  OBVIOUS
<1>. QED BY <1>1, <1>3, <1>4

LEMMA ChainIsFound ==
  ASSUME Struct, NothingIsNil, MethodsOnly, Chain, exported
  PROVE  \A t \in Structs :
           \/ LeadTo(t, AllKinds) = {} /\ getMethod[t] = Nothing
           \/ \E way : Shortest(t, AllKinds) = {way} /\ getMethod[t] = Declares(End(t, way))
<1>. DEFINE S == {t \in Structs :
                    \/ LeadTo(t, AllKinds) = {} /\ getMethod[t] = Nothing
                    \/ \E way : Shortest(t, AllKinds) = {way} /\ getMethod[t] = Declares(End(t, way))}
<1>1. \A u : Declares(u) # Nothing /\ Declares(u) # Panics
  BY Distinct DEF Declares
<1>2. Nothing # Panics
  BY Distinct
<1>3. ASSUME NEW t \in Structs, \A u \in Structs : u > t => u \in S
      PROVE  t \in S
  <2>1. \A i \in DOMAIN embeds[t] : embeds[t][i].type \in S
    BY <1>3, FieldsAre
  <2>2. \A i \in DOMAIN embeds[t] : getMethod[embeds[t][i].type] # Panics
    BY <1>1, <1>2, <2>1
  <2>3. getMethod[t] = Resolve(t, First(Hits(t, getMethod)))
    BY <2>2, MethodsAre, OneHit
  <2>4. CASE own[t] \in AllKinds
    <3>1. Shortest(t, AllKinds) = {<<>>} /\ End(t, <<>>) = t
      BY <2>4, OwnIsNearest, WaysSplit
    <3>2. getMethod[t] = Declares(t)
      BY <2>3, <2>4, OwnMethodFirst
    <3>. QED BY <3>1, <3>2
  <2>5. CASE own[t] \notin AllKinds /\ \A i \in DOMAIN embeds[t] : LeadTo(embeds[t][i].type, AllKinds) = {}
    <3>1. LeadTo(t, AllKinds) = {}
      BY <2>5, LeadFurther
    <3>2. \A i \in DOMAIN embeds[t] : getMethod[embeds[t][i].type] = Nothing
      <4>1. \A i \in DOMAIN embeds[t] : Shortest(embeds[t][i].type, AllKinds) = {}
        BY <2>5, NoWay
      <4>. QED BY <2>1, <4>1
    <3>3. First(Hits(t, getMethod)) = Nothing
      BY <2>2, <3>2, OneHit
    <3>4. getMethod[t] = Nothing
      BY <2>3, <3>1, <3>3, NothingListed
    <3>. QED BY <3>1, <3>4
  <2>6. CASE own[t] \notin AllKinds /\ \E i \in DOMAIN embeds[t] : LeadTo(embeds[t][i].type, AllKinds) # {}
    <3>1. Len(embeds[t]) = 1 /\ DOMAIN embeds[t] = {1} /\ 1 \in DOMAIN embeds[t]
      BY <2>6, ChainEmbedsOne
    <3>2. LeadTo(embeds[t][1].type, AllKinds) # {}
      BY <2>6, <3>1
    <3>3. PICK w : /\ Shortest(embeds[t][1].type, AllKinds) = {w}
                   /\ getMethod[embeds[t][1].type] = Declares(End(embeds[t][1].type, w))
      BY <2>1, <3>1, <3>2
    <3>4. /\ Shortest(t, AllKinds) = {Cons(embeds[t][1], w)}
          /\ End(t, Cons(embeds[t][1], w)) = End(embeds[t][1].type, w)
      BY <2>6, <3>1, <3>3, ShortestOnward
    <3>5. First(Hits(t, getMethod)) = Declares(End(embeds[t][1].type, w))
      BY <1>1, <2>2, <3>1, <3>3, OneHit
    <3>6. getMethod[t] = Declares(End(embeds[t][1].type, w))
      BY <1>1, <2>3, <2>6, <3>5, ResolveIs DEF AllKinds, MethodKinds
    <3>. QED BY <3>4, <3>6
  <2>. QED BY <2>4, <2>5, <2>6
<1>4. 1 .. MaxStructs \subseteq S
  <2>. HIDE DEF S
  <2>. QED BY <1>3, StructsAre, InductionDown
<1>. QED BY <1>4, StructsAre

(* The longest ways, for unexported names. *)
Longest(t, kinds) ==
  {way \in LeadTo(t, kinds) : \A other \in LeadTo(t, kinds) : Len(other) <= Len(way)}

LEMMA LongestOnward ==
  ASSUME Struct, NEW t \in Structs, NEW kinds, Len(embeds[t]) = 1,
         NEW w, Longest(embeds[t][1].type, kinds) = {w}
  PROVE  /\ Longest(t, kinds) = {Cons(embeds[t][1], w)}
         /\ End(t, Cons(embeds[t][1], w)) = End(embeds[t][1].type, w)
<1>. DEFINE f == embeds[t][1]
<1>1. DOMAIN embeds[t] = {1} /\ 1 \in DOMAIN embeds[t] /\ f.type \in Structs
  BY FieldsAre
<1>2. \A v \in LeadTo(f.type, kinds) :
        /\ Len(v) \in Nat /\ Len(Cons(f, v)) = Len(v) + 1
        /\ Cons(f, v) \in LeadTo(t, kinds) /\ End(t, Cons(f, v)) = End(f.type, v)
  <2>1. \A v \in LeadTo(f.type, kinds) : v \in Ways[f.type]
    BY DEF LeadTo
  <2>2. \A v \in LeadTo(f.type, kinds) : Len(v) \in Nat
    BY <1>1, <2>1, WaysLead
  <2>3. \A v \in LeadTo(f.type, kinds) : Len(Cons(f, v)) = Len(v) + 1
    BY <1>1, <2>1, WaysSplit
  <2>4. \A v \in LeadTo(f.type, kinds) :
          Cons(f, v) \in LeadTo(t, kinds) /\ End(t, Cons(f, v)) = End(f.type, v)
    BY <1>1, LeadFurther
  <2>. QED BY <2>2, <2>3, <2>4, Zenon
<1>3. \A way \in LeadTo(t, kinds) : way = <<>> \/ \E v \in LeadTo(f.type, kinds) : way = Cons(f, v)
  <2>1. \A way \in LeadTo(t, kinds) : way = <<>> \/ \E i \in DOMAIN embeds[t] :
          \E v \in LeadTo(embeds[t][i].type, kinds) : way = Cons(embeds[t][i], v)
    BY LeadFurther
  <2>. QED BY <1>1, <2>1, Zenon
<1>4. w \in LeadTo(f.type, kinds) /\ \A other \in LeadTo(f.type, kinds) : Len(other) <= Len(w)
  BY DEF Longest
<1>5. \A v \in LeadTo(f.type, kinds) :
        (\A other \in LeadTo(f.type, kinds) : Len(other) <= Len(v)) => v = w
  BY DEF Longest
<1>. HIDE DEF f
<1>6. Cons(f, w) \in Longest(t, kinds)
  <2>1. ASSUME NEW other \in LeadTo(t, kinds)
        PROVE  Len(other) <= Len(Cons(f, w))
    <3>1. CASE other = <<>>
      <4>1. Len(<<>>) = 0
        OBVIOUS
      <4>. QED BY <1>2, <1>4, <3>1, <4>1
    <3>2. CASE \E v \in LeadTo(f.type, kinds) : other = Cons(f, v)
      BY <1>2, <1>4, <3>2
    <3>. QED BY <1>3, <3>1, <3>2
  <2>. QED BY <1>2, <1>4, <2>1 DEF Longest
<1>7. ASSUME NEW way \in Longest(t, kinds)
      PROVE  way = Cons(f, w)
  <2>1. way \in LeadTo(t, kinds) /\ \A other \in LeadTo(t, kinds) : Len(other) <= Len(way)
    BY DEF Longest
  <2>2. way # <<>>
    <3>1. Len(Cons(f, w)) <= Len(way) /\ Len(Cons(f, w)) = Len(w) + 1 /\ Len(w) \in Nat
      BY <1>2, <1>4, <2>1
    <3>2. Len(<<>>) = 0
      OBVIOUS
    <3>. QED BY <3>1, <3>2
  <2>3. PICK v \in LeadTo(f.type, kinds) : way = Cons(f, v)
    BY <1>3, <2>1, <2>2
  <2>4. ASSUME NEW other \in LeadTo(f.type, kinds)
        PROVE  Len(other) <= Len(v)
    <3>1. Len(Cons(f, other)) <= Len(way)
      BY <1>2, <2>1
    <3>. QED BY <1>2, <2>3, <3>1
  <2>. QED BY <1>5, <2>3, <2>4
<1>. QED BY <1>2, <1>4, <1>6, <1>7 DEF f

LEMMA ChainEndsIn ==
  ASSUME Struct, NothingIsNil, MethodsOnly, Chain, ~exported
  PROVE  \A t \in Structs :
           \/ LeadTo(t, AllKinds) = {} /\ getMethod[t] = Nothing
           \/ \E way : Longest(t, AllKinds) = {way} /\ getMethod[t] = Declares(End(t, way))
<1>. DEFINE S == {t \in Structs :
                    \/ LeadTo(t, AllKinds) = {} /\ getMethod[t] = Nothing
                    \/ \E way : Longest(t, AllKinds) = {way} /\ getMethod[t] = Declares(End(t, way))}
<1>1. \A u : Declares(u) # Nothing /\ Declares(u) # Panics
  BY Distinct DEF Declares
<1>2. Nothing # Panics
  BY Distinct
<1>3. ASSUME NEW t \in Structs, \A u \in Structs : u > t => u \in S
      PROVE  t \in S
  <2>1. \A i \in DOMAIN embeds[t] : embeds[t][i].type \in S
    BY <1>3, FieldsAre
  <2>2. \A i \in DOMAIN embeds[t] : getMethod[embeds[t][i].type] # Panics
    BY <1>1, <1>2, <2>1
  <2>3. getMethod[t] = Resolve(t, First(Hits(t, getMethod)))
    BY <2>2, MethodsAre, OneHit
  <2>4. CASE \A i \in DOMAIN embeds[t] : LeadTo(embeds[t][i].type, AllKinds) = {}
    <3>1. \A i \in DOMAIN embeds[t] : getMethod[embeds[t][i].type] = Nothing
      BY <2>1, <2>4 DEF Longest
    <3>2. getMethod[t] = Resolve(t, Nothing)
      BY <2>2, <2>3, <3>1, OneHit
    <3>3. CASE own[t] \in AllKinds
      <4>1. LeadTo(t, AllKinds) = {<<>>}
        <5>1. <<>> \in LeadTo(t, AllKinds)
          BY <3>3, LeadFurther
        <5>2. \A way \in LeadTo(t, AllKinds) : way = <<>>
          <6>1. \A way \in LeadTo(t, AllKinds) : way = <<>> \/ \E i \in DOMAIN embeds[t] :
                  \E w \in LeadTo(embeds[t][i].type, AllKinds) : way = Cons(embeds[t][i], w)
            BY LeadFurther
          <6>. QED BY <2>4, <6>1, Zenon
        <5>. QED BY <5>1, <5>2, Zenon
      <4>2. Longest(t, AllKinds) = {<<>>} /\ End(t, <<>>) = t
        BY <4>1, WaysSplit DEF Longest
      <4>3. getMethod[t] = Declares(t)
        BY <3>2, <3>3, OwnMethodFirst
      <4>. QED BY <4>2, <4>3
    <3>4. CASE own[t] \notin AllKinds
      <4>1. LeadTo(t, AllKinds) = {}
        BY <2>4, <3>4, LeadFurther
      <4>. QED BY <3>2, <4>1, NothingListed
    <3>. QED BY <3>3, <3>4
  <2>5. CASE \E i \in DOMAIN embeds[t] : LeadTo(embeds[t][i].type, AllKinds) # {}
    <3>1. Len(embeds[t]) = 1 /\ DOMAIN embeds[t] = {1} /\ 1 \in DOMAIN embeds[t]
      BY <2>5, ChainEmbedsOne
    <3>2. LeadTo(embeds[t][1].type, AllKinds) # {}
      BY <2>5, <3>1
    <3>3. PICK w : /\ Longest(embeds[t][1].type, AllKinds) = {w}
                   /\ getMethod[embeds[t][1].type] = Declares(End(embeds[t][1].type, w))
      BY <2>1, <3>1, <3>2
    <3>4. /\ Longest(t, AllKinds) = {Cons(embeds[t][1], w)}
          /\ End(t, Cons(embeds[t][1], w)) = End(embeds[t][1].type, w)
      BY <3>1, <3>3, LongestOnward
    <3>5. First(Hits(t, getMethod)) = Declares(End(embeds[t][1].type, w))
      BY <1>1, <2>2, <3>1, <3>3, OneHit
    <3>6. getMethod[t] = Declares(End(embeds[t][1].type, w))
      BY <1>1, <2>3, <3>5, ResolveIs
    <3>. QED BY <3>4, <3>6
  <2>. QED BY <2>4, <2>5
<1>4. 1 .. MaxStructs \subseteq S
  <2>. HIDE DEF S
  <2>. QED BY <1>3, StructsAre, InductionDown
<1>. QED BY <1>4, StructsAre

-----------------------------------------------------------------------------
(* The search for nested methods.                                          *)

LEMMA NoMethodListed ==
  ASSUME Struct, NEW t \in Structs, LeadTo(t, MethodKinds) = {}
  PROVE  OfValue(t) = Nothing /\ OfPointer(t) = Nothing
<1>. DEFINE near == Shortest(t, AllKinds)
            way == CHOOSE way \in near : TRUE
<1>1. Denoted(t) = IF Cardinality(near) # 1 THEN Nothing
                   ELSE IF own[End(t, way)] = "field" THEN FieldOf(End(t, way)) ELSE MethodOf(End(t, way))
  BY Zenon DEF Denoted, AllKinds
<1>2. near = {} => Cardinality(near) # 1
  BY FS_EmptySet
<1>3. near # {} => own[End(t, way)] = "field"
  <2>. SUFFICES ASSUME near # {} PROVE own[End(t, way)] = "field"
    OBVIOUS
  <2>1. way \in near
    BY Zenon
  <2>. HIDE DEF way
  <2>2. way \in Ways[t] /\ own[End(t, way)] \in AllKinds
    BY <2>1, ShortestLeads
  <2>. QED BY <2>2 DEF LeadTo, AllKinds, MethodKinds
<1>4. Denoted(t).what # "own"
  <2>1. \A u : FieldOf(u).what = "field" /\ Nothing.what = "nothing"
    BY Distinct
  <2>. HIDE DEF near, way
  <2>. QED BY <1>1, <1>2, <1>3, <2>1
<1>. QED BY <1>4, Listed

LEMMA NestedHit ==
  ASSUME Struct, NEW t \in Structs, NEW f, NEW i \in DOMAIN embeds[t], NestedHits(t, f)[i] # Nothing
  PROVE  \E j \in DOMAIN embeds[t] :
           First(NestedHits(t, f)) = NestedHits(t, f)[j] /\ NestedHits(t, f)[j] # Nothing
<1>. DEFINE n == Len(embeds[t])
            s == NestedHits(t, f)
<1>1. n \in Nat /\ DOMAIN s = 1 .. n /\ DOMAIN embeds[t] = 1 .. n
  BY HitsAre
<1>. HIDE DEF n, s
<1>2. \E j \in 1 .. n : s[j] # Nothing
  BY <1>1 DEF s
<1>3. \E j \in 1 .. n : First(s) = s[j] /\ s[j] # Nothing
  BY <1>1, <1>2, FirstIs
<1>. QED BY <1>1, <1>3 DEF s

LEMMA NestedIsFound ==
  ASSUME Struct, NothingIsNil, exported
  PROVE  \A t \in Structs :
           /\ LeadTo(t, MethodKinds) = {} => getNestedMethod[t] = Nothing
           /\ LeadTo(t, MethodKinds) # {} =>
                \E s \in Structs : s >= t /\ IsMethod(s) /\ getNestedMethod[t] = MethodOf(s)
           /\ (\E i \in DOMAIN embeds[t] : LeadTo(embeds[t][i].type, MethodKinds) # {}) =>
                \E s \in Structs : s > t /\ IsMethod(s) /\ getNestedMethod[t] = MethodOf(s)
<1>. DEFINE Found(t, least) == \E s \in Structs : s >= least /\ IsMethod(s) /\ getNestedMethod[t] = MethodOf(s)
            S == {t \in Structs :
                    /\ LeadTo(t, MethodKinds) = {} => getNestedMethod[t] = Nothing
                    /\ LeadTo(t, MethodKinds) # {} => Found(t, t)
                    /\ (\E i \in DOMAIN embeds[t] : LeadTo(embeds[t][i].type, MethodKinds) # {})
                         => Found(t, t + 1)}
<1>1. ASSUME NEW t \in Structs, \A u \in Structs : u > t => u \in S
      PROVE  t \in S
  <2>. DEFINE inner == First(NestedHits(t, getNestedMethod))
  <2>1. \A i \in DOMAIN embeds[t] :
          /\ embeds[t][i].type \in Structs /\ embeds[t][i].type > t /\ embeds[t][i].type \in S
          /\ NestedHits(t, getNestedMethod)[i] = getNestedMethod[embeds[t][i].type]
    <3>1. \A i \in DOMAIN embeds[t] : embeds[t][i].type \in Structs /\ embeds[t][i].type > t
      BY FieldsAre
    <3>2. \A i \in DOMAIN embeds[t] : NestedHits(t, getNestedMethod)[i] = getNestedMethod[embeds[t][i].type]
      BY HitsAre DEF NothingIsNil
    <3>. HIDE DEF S
    <3>. QED BY <1>1, <3>1, <3>2
  <2>2. getNestedMethod[t] = IF inner # Nothing THEN inner
                             ELSE IF OfValue(t) # Nothing THEN OfValue(t) ELSE OfPointer(t)
    <3>1. getNestedMethod[t] = First(<<inner, OfValue(t), OfPointer(t)>>)
      BY NestedAre DEF NestedIn, NestedOf, ByName
    <3>. QED BY <3>1, FirstOfThree
  <2>3. \A s : MethodOf(s) # Nothing
    BY Distinct
  <2>4. ASSUME \A i \in DOMAIN embeds[t] : LeadTo(embeds[t][i].type, MethodKinds) = {}
        PROVE  inner = Nothing
    <3>1. \A i \in 1 .. Len(embeds[t]) : NestedHits(t, getNestedMethod)[i] = Nothing
      BY <2>1, <2>4, HitsAre
    <3>. QED BY <3>1, HitsAre, FirstIs
  <2>5. ASSUME NEW i \in DOMAIN embeds[t], LeadTo(embeds[t][i].type, MethodKinds) # {}
        PROVE  Found(t, t + 1)
    <3>1. Found(embeds[t][i].type, embeds[t][i].type)
      BY <2>1, <2>5
    <3>2. NestedHits(t, getNestedMethod)[i] # Nothing
      <4>1. getNestedMethod[embeds[t][i].type] # Nothing
        BY <2>3, <3>1, Zenon
      <4>. QED BY <2>1, <4>1, Zenon
    <3>3. PICK j \in DOMAIN embeds[t] :
            inner = NestedHits(t, getNestedMethod)[j] /\ NestedHits(t, getNestedMethod)[j] # Nothing
      BY <3>2, NestedHit, Zenon
    <3>4. j \in DOMAIN embeds[t] /\ inner = getNestedMethod[embeds[t][j].type] /\ inner # Nothing
      BY <2>1, <3>3, Zenon
    <3>5. Found(embeds[t][j].type, embeds[t][j].type)
      BY <2>1, <3>4
    <3>6. PICK s \in Structs : s >= embeds[t][j].type /\ IsMethod(s) /\ inner = MethodOf(s)
      BY <3>4, <3>5
    <3>7. s >= t + 1
      BY <2>1, <3>4, <3>6, StructsAre
    <3>. QED BY <2>2, <3>4, <3>6, <3>7
  <2>6. ASSUME LeadTo(t, MethodKinds) = {}
        PROVE  getNestedMethod[t] = Nothing
    <3>1. inner = Nothing
      BY <2>4, <2>6, LeadNowhere
    <3>. QED BY <2>2, <2>6, <3>1, NoMethodListed
  <2>7. ASSUME LeadTo(t, MethodKinds) # {}
        PROVE  Found(t, t)
    <3>1. CASE \E i \in DOMAIN embeds[t] : LeadTo(embeds[t][i].type, MethodKinds) # {}
      <4>1. PICK s \in Structs : s >= t + 1 /\ IsMethod(s) /\ getNestedMethod[t] = MethodOf(s)
        BY <2>5, <3>1
      <4>2. s >= t
        BY <4>1, StructsAre
      <4>. QED BY <4>1, <4>2
    <3>2. CASE \A i \in DOMAIN embeds[t] : LeadTo(embeds[t][i].type, MethodKinds) = {}
      <4>1. inner = Nothing
        BY <2>4, <3>2
      <4>2. own[t] \in MethodKinds
        BY <2>7, <3>2, LeadFurther
      <4>3. \/ OfValue(t) = MethodOf(t)
            \/ OfValue(t) = Nothing /\ OfPointer(t) = MethodOf(t)
        BY <4>2, Listed DEF MethodKinds
      <4>4. getNestedMethod[t] = MethodOf(t)
        BY <2>2, <2>3, <4>1, <4>3
      <4>5. t >= t /\ IsMethod(t)
        BY <4>2, StructsAre DEF IsMethod, MethodKinds
      <4>. QED BY <4>4, <4>5
    <3>. QED BY <3>1, <3>2
  <2>. HIDE DEF Found
  <2>. QED BY <2>5, <2>6, <2>7
<1>2. 1 .. MaxStructs \subseteq S
  <2>. HIDE DEF S
  <2>. QED BY <1>1, StructsAre, InductionDown
<1>3. \A t \in Structs : Found(t, t + 1) =>
        \E s \in Structs : s > t /\ IsMethod(s) /\ getNestedMethod[t] = MethodOf(s)
  BY StructsAre
<1>. QED BY <1>2, <1>3, StructsAre

-----------------------------------------------------------------------------
(* The states that the lookups begin in.                                   *)

LEMMA EmbeddingsAre ==
  \A e \in EmbeddingsUpTo[MaxStructs] : \A t \in Structs : e[t] \in Fields(t)
<1>. DEFINE D == 0 .. MaxStructs
            All == UNION {Fields(n) : n \in D}
            R == SUBSET Seq(All)
            kids == [n \in D |-> IF n = 0 THEN {} ELSE {n - 1}]
            depth == [n \in D |-> n]
            More(s, n) == {Append(types, fields) : types \in s, fields \in Fields(n)}
            In(n, g) == IF n = 0 THEN {<<>>} ELSE More(g[n - 1], n)
            V == [n \in D |-> [g \in [kids[n] -> R] |-> In(n, g)]]
            Eq(f) == f = [n \in D |-> In(n, f)]
<1>1. MaxStructs \in Nat /\ \A n \in D : n # 0 => n - 1 \in D /\ n - 1 < n
  BY StructsAre
<1>2. \A s, n, e : e \in More(s, n) <=> \E types \in s : \E fields \in Fields(n) : e = Append(types, fields)
  OBVIOUS
<1>3. ASSUME NEW n \in D, NEW s \in R
      PROVE  More(s, n) \in R
  <2>1. ASSUME NEW types \in s, NEW fields \in Fields(n)
        PROVE  Append(types, fields) \in Seq(All)
    <3>1. types \in Seq(All) /\ fields \in All
      OBVIOUS
    <3>. HIDE DEF All
    <3>. QED BY <3>1
  <2>. HIDE DEF More, All
  <2>2. \A e \in More(s, n) : e \in Seq(All)
    BY <1>2, <2>1
  <2>. QED BY <2>2
<1>4. {<<>>} \in R /\ {} \in R
  <2>. HIDE DEF All
  <2>. QED OBVIOUS
<1>. HIDE DEF More, R, All
<1>5. \A n \in D : \A g \in [kids[n] -> R] : V[n][g] = In(n, g) /\ In(n, g) \in R
  <2>1. ASSUME NEW n \in D, NEW g \in [kids[n] -> R]
        PROVE  V[n][g] = In(n, g) /\ In(n, g) \in R
    <3>1. V[n][g] = In(n, g)
      OBVIOUS
    <3>2. CASE n = 0
      BY <1>4, <3>1, <3>2
    <3>3. CASE n # 0
      BY <1>1, <1>3, <3>1, <3>3
    <3>. QED BY <3>2, <3>3
  <2>. QED BY <2>1
<1>6. depth \in [D -> 0 .. MaxStructs] /\ kids \in [D -> SUBSET D]
      /\ \A n \in D : \A k \in kids[n] : depth[k] < depth[n]
  BY <1>1
<1>7. PICK f \in [D -> R] : Follows(f, D, kids, V)
  <2>1. \A n \in D : \A g \in [kids[n] -> R] : V[n][g] \in R
    BY <1>5
  <2>. HIDE DEF V, kids, depth, D
  <2>. QED BY <1>1, <1>4, <1>6, <2>1, PartsDefine
<1>8. ASSUME NEW n \in D
      PROVE  f[n] = In(n, f)
  <2>. DEFINE g == [k \in kids[n] |-> f[k]]
  <2>1. g \in [kids[n] -> R]
    BY <1>6
  <2>2. f[n] = In(n, g)
    <3>1. f[n] = V[n][g]
      BY <1>7 DEF Follows
    <3>. HIDE DEF V, In, g
    <3>. QED BY <1>5, <2>1, <3>1
  <2>3. n # 0 => g[n - 1] = f[n - 1]
    OBVIOUS
  <2>. HIDE DEF g
  <2>. QED BY <2>2, <2>3
<1>9. EmbeddingsUpTo = CHOOSE h : Eq(h)
  BY DEF EmbeddingsUpTo, More
<1>10. Eq(EmbeddingsUpTo)
  <2>1. Eq(f)
    BY <1>8
  <2>. HIDE DEF Eq
  <2>. QED BY <1>9, <2>1
<1>11. /\ EmbeddingsUpTo[0] = {<<>>}
       /\ \A n \in D : n # 0 => EmbeddingsUpTo[n] = More(EmbeddingsUpTo[n - 1], n)
  <2>1. \A n \in D : EmbeddingsUpTo[n] = In(n, EmbeddingsUpTo)
    BY <1>10
  <2>2. 0 \in D
    BY <1>1
  <2>. HIDE DEF D
  <2>. QED BY <2>1, <2>2
<1>. DEFINE Good(e, n) == e \in Seq(All) /\ Len(e) = n /\ \A t \in 1 .. n : e[t] \in Fields(t)
            S == {m \in 1 .. MaxStructs + 1 : \A e \in EmbeddingsUpTo[m - 1] : Good(e, m - 1)}
<1>12. 1 \in S
  <2>1. Good(<<>>, 0)
    OBVIOUS
  <2>2. 1 \in 1 .. MaxStructs + 1 /\ 1 - 1 = 0
    BY <1>1
  <2>. HIDE DEF Good
  <2>. QED BY <1>11, <2>1, <2>2
<1>13. ASSUME NEW m \in 1 .. MaxStructs + 1, m \in S, m + 1 \in 1 .. MaxStructs + 1
       PROVE  m + 1 \in S
  <2>1. m \in D /\ m # 0 /\ m \in Nat /\ (m + 1) - 1 = m
    BY <1>1, <1>13
  <2>2. ASSUME NEW e \in EmbeddingsUpTo[m]
        PROVE  Good(e, m)
    <3>1. PICK types \in EmbeddingsUpTo[m - 1], fields \in Fields(m) : e = Append(types, fields)
      BY <1>2, <1>11, <2>1
    <3>2. types \in Seq(All) /\ Len(types) = m - 1 /\ \A t \in 1 .. m - 1 : types[t] \in Fields(t)
      BY <1>13
    <3>3. fields \in All
      BY <2>1 DEF All
    <3>4. /\ e \in Seq(All) /\ Len(e) = m /\ e[m] = fields
          /\ \A t \in 1 .. m - 1 : e[t] = types[t]
      BY <2>1, <3>1, <3>2, <3>3
    <3>5. \A t \in 1 .. m : t = m \/ t \in 1 .. m - 1
      BY <2>1
    <3>. QED BY <3>2, <3>4, <3>5
  <2>. HIDE DEF Good
  <2>. QED BY <1>13, <2>1, <2>2
<1>14. 1 .. MaxStructs + 1 \subseteq S
  <2>. HIDE DEF S
  <2>. QED BY <1>1, <1>12, <1>13, InductionUpTo
<1>15. MaxStructs + 1 \in S /\ (MaxStructs + 1) - 1 = MaxStructs
  BY <1>1, <1>14
<1>. QED BY <1>15, StructsAre

-----------------------------------------------------------------------------
(* The lookups.                                                            *)

FoundRight ==
  /\ found \in {NotAsked} \cup Results
  /\ found # NotAsked /\ NothingIsNil /\ (\E way \in Ways[1] : Declaring = {way}) => found = Denoted(1)
  /\ ChainIsResolved
NestedRight ==
  /\ nested \in {NotAsked} \cup NestedResults
  /\ NestedIsEmbedded
LookupInv == Struct /\ FoundRight /\ NestedRight

LEMMA DeclaringLead ==
  ASSUME Struct
  PROVE  Declaring = LeadTo(1, AllKinds)
<1>1. \A way \in Ways[1] : End(1, way) \in Structs
  BY WaysLead, StructsAre
<1>2. \A t \in Structs : own[t] # "none" <=> own[t] \in AllKinds
  BY LookupKinds DEF Struct, AllKinds
<1>. QED BY <1>1, <1>2 DEF Declaring, LeadTo

LEMMA FindsRight ==
  ASSUME Struct
  PROVE  /\ getMethod[1] \in Results
         /\ NothingIsNil /\ (\E way \in Ways[1] : Declaring = {way}) => getMethod[1] = Denoted(1)
         /\ NothingIsNil /\ MethodsOnly /\ Chain
              => getMethod[1] = IF exported THEN Denoted(1) ELSE Innermost
<1>1. getMethod[1] \in Results
  BY MethodsAre, StructsAre
<1>2. ASSUME NothingIsNil, NEW way \in Ways[1], Declaring = {way}
      PROVE  getMethod[1] = Denoted(1)
  <2>1. LeadTo(1, AllKinds) = {way}
    BY <1>2, DeclaringLead
  <2>2. Shortest(1, AllKinds) = {way}
    <3>1. \A t \in Structs : LeadTo(t, AllKinds) = {way} => Shortest(t, AllKinds) = {way}
      BY OnlyWay
    <3>. QED BY <2>1, <3>1, StructsAre
  <2>3. Denoted(1) = Declares(End(1, way))
    BY <2>2, DenotedAlone
  <2>. QED BY <1>2, <2>1, <2>3, StructsAre, OneIsFound
<1>3. ASSUME NothingIsNil, MethodsOnly, Chain, exported
      PROVE  getMethod[1] = Denoted(1)
  <2>1. CASE LeadTo(1, AllKinds) = {} /\ getMethod[1] = Nothing
    BY <2>1, StructsAre, NothingListed
  <2>2. CASE \E way : Shortest(1, AllKinds) = {way} /\ getMethod[1] = Declares(End(1, way))
    BY <2>2, DenotedAlone
  <2>. QED BY <1>3, <2>1, <2>2, StructsAre, ChainIsFound
<1>4. ASSUME NothingIsNil, MethodsOnly, Chain, ~exported
      PROVE  getMethod[1] = Innermost
  <2>1. Declaring = LeadTo(1, AllKinds)
    BY DeclaringLead
  <2>2. CASE LeadTo(1, AllKinds) = {} /\ getMethod[1] = Nothing
    BY <2>1, <2>2 DEF Innermost
  <2>3. CASE \E way : Longest(1, AllKinds) = {way} /\ getMethod[1] = Declares(End(1, way))
    <3>1. PICK way : Longest(1, AllKinds) = {way} /\ getMethod[1] = Declares(End(1, way))
      BY <2>3
    <3>2. way \in Declaring /\ \A other \in Declaring : Len(other) <= Len(way)
      BY <2>1, <3>1 DEF Longest
    <3>3. \A v \in Declaring : (\A other \in Declaring : Len(other) <= Len(v)) => v = way
      BY <2>1, <3>1 DEF Longest
    <3>4. (CHOOSE v \in Declaring : \A other \in Declaring : Len(other) <= Len(v)) = way
      BY <3>2, <3>3, Zenon
    <3>5. Declaring # {}
      BY <3>2
    <3>6. End(1, way) \in Structs
      BY <3>2, WaysLead, StructsAre DEF Declaring
    <3>7. Declares(End(1, way)) = MethodOf(End(1, way))
      BY <1>4, <3>6 DEF MethodsOnly, Declares
    <3>. QED BY <3>1, <3>4, <3>5, <3>7 DEF Innermost
  <2>. QED BY <1>4, <2>2, <2>3, StructsAre, ChainEndsIn
<1>. QED BY <1>1, <1>2, <1>3, <1>4

LEMMA FindsNested ==
  ASSUME Struct
  PROVE  /\ getNestedMethod[1] \in NestedResults
         /\ NothingIsNil /\ exported /\ (\E way \in Ways[1] \ {<<>>} : IsMethod(End(1, way)))
              => getNestedMethod[1] \in Methods \ {MethodOf(1)}
<1>1. getNestedMethod[1] \in NestedResults
  BY NestedAre, StructsAre
<1>2. ASSUME NothingIsNil, exported, NEW way \in Ways[1] \ {<<>>}, IsMethod(End(1, way))
      PROVE  getNestedMethod[1] \in Methods \ {MethodOf(1)}
  <2>1. way \in LeadTo(1, MethodKinds)
    BY <1>2 DEF LeadTo, IsMethod, MethodKinds
  <2>2. \E i \in DOMAIN embeds[1] : LeadTo(embeds[1][i].type, MethodKinds) # {}
    <3>1. \A v \in LeadTo(1, MethodKinds) : v = <<>> \/ \E i \in DOMAIN embeds[1] :
            \E w \in LeadTo(embeds[1][i].type, MethodKinds) : v = Cons(embeds[1][i], w)
      BY StructsAre, LeadFurther
    <3>. QED BY <2>1, <3>1
  <2>3. PICK s \in Structs : s > 1 /\ IsMethod(s) /\ getNestedMethod[1] = MethodOf(s)
    BY <1>2, <2>2, StructsAre, NestedIsFound
  <2>4. MethodOf(s) # MethodOf(1)
    BY <2>3, StructsAre, Distinct
  <2>. QED BY <2>3, <2>4 DEF Methods
<1>. QED BY <1>1, <1>2

(* What the properties speak about depends on the structs only. *)
LEMMA StructsStay ==
  ASSUME own' = own, embeds' = embeds, exported' = exported
  PROVE  /\ Struct <=> Struct'
         /\ Results' = Results /\ NestedResults' = NestedResults /\ Methods' = Methods
         /\ Denoted(1)' = Denoted(1) /\ Declaring' = Declaring /\ Ways' = Ways
         /\ Innermost' = Innermost
         /\ NothingIsNil <=> NothingIsNil'
         /\ MethodsOnly <=> MethodsOnly'
         /\ Chain <=> Chain'
         /\ \A t : IsMethod(t) <=> IsMethod(t)'
<1>1. Ways' = Ways
  BY DEF Ways
<1>2. Denoted(1)' = Denoted(1) /\ Declaring' = Declaring
  BY <1>1 DEF Denoted, Shortest, Declaring
<1>3. Methods' = Methods
  BY DEF Methods, IsMethod
<1>4. Results' = Results /\ NestedResults' = NestedResults
  BY <1>3 DEF Results, NestedResults, Promoted, FuncFields
<1>5. Innermost' = Innermost
  BY <1>2 DEF Innermost, End
<1>. QED BY <1>1, <1>2, <1>3, <1>4, <1>5 DEF Struct, NothingIsNil, MethodsOnly, Chain, IsMethod

LEMMA LookupStep == LookupInv /\ [LookupNext]_lookupVars => LookupInv'
<1>. SUFFICES ASSUME LookupInv, [LookupNext]_lookupVars PROVE LookupInv'
  OBVIOUS
<1>1. own' = own /\ embeds' = embeds /\ exported' = exported
  BY DEF LookupNext, GetMethod, GetNestedMethod, lookupVars
<1>2. Struct /\ Struct'
  BY <1>1, StructsStay DEF LookupInv
<1>3. \/ found' = found
      \/ found' = getMethod[1]
  BY DEF LookupNext, GetMethod, GetNestedMethod, lookupVars
<1>4. \/ nested' = nested
      \/ nested' = getNestedMethod[1]
  BY DEF LookupNext, GetMethod, GetNestedMethod, lookupVars
<1>5. FoundRight'
  <2>1. /\ found' \in {NotAsked} \cup Results
        /\ found' # NotAsked /\ NothingIsNil /\ (\E way \in Ways[1] : Declaring = {way}) => found' = Denoted(1)
        /\ found' # NotAsked /\ NothingIsNil /\ MethodsOnly /\ Chain
             => found' = IF exported THEN Denoted(1) ELSE Innermost
    <3>1. CASE found' = found
      BY <3>1 DEF LookupInv, FoundRight, ChainIsResolved
    <3>2. CASE found' = getMethod[1]
      BY <1>2, <3>2, FindsRight
    <3>. QED BY <1>3, <3>1, <3>2
  <2>2. ChainIsResolved'
    BY <1>1, <2>1, StructsStay DEF ChainIsResolved
  <2>. QED BY <1>1, <2>1, <2>2, StructsStay DEF FoundRight
<1>6. NestedRight'
  <2>1. /\ nested' \in {NotAsked} \cup NestedResults
        /\ nested' # NotAsked /\ NothingIsNil /\ exported
           /\ (\E way \in Ways[1] \ {<<>>} : IsMethod(End(1, way)))
             => nested' \in Methods \ {MethodOf(1)}
    <3>1. CASE nested' = nested
      BY <3>1 DEF LookupInv, NestedRight, NestedIsEmbedded
    <3>2. CASE nested' = getNestedMethod[1]
      BY <1>2, <3>2, FindsNested
    <3>. QED BY <1>4, <3>1, <3>2
  <2>. QED BY <1>1, <2>1, StructsStay DEF NestedRight, NestedIsEmbedded
<1>. QED BY <1>2, <1>5, <1>6 DEF LookupInv

LEMMA LookupStarts == LookupInit => LookupInv
<1>. SUFFICES ASSUME LookupInit PROVE LookupInv
  OBVIOUS
<1>1. Struct
  BY EmbeddingsAre DEF LookupInit, Struct
<1>. QED BY <1>1 DEF LookupInit, LookupInv, FoundRight, ChainIsResolved, NestedRight, NestedIsEmbedded

LEMMA LookupInvAlways == LookupSpec => []LookupInv
BY LookupStarts, LookupStep, PTL DEF LookupSpec

(* When one way only leads to a declaration of M, GetMethod finds it, and  *)
(* never a wrapper of it.                                                  *)
THEOREM OneIsFoundAlways == LookupSpec => []OneDeclarationIsFound
<1>1. LookupInv => OneDeclarationIsFound
  BY DEF LookupInv, Struct, FoundRight, NestedRight, Results, NestedResults, LookupTypeOK, OneDeclarationIsFound
<1>. QED BY <1>1, LookupInvAlways, PTL

(* Along a chain of embedded structs an exported name is looked up to the  *)
(* outermost method, and an unexported one to the innermost.               *)
THEOREM ChainIsResolvedAlways == LookupSpec => []ChainIsResolved
<1>1. LookupInv => ChainIsResolved
  BY DEF LookupInv, FoundRight
<1>. QED BY <1>1, LookupInvAlways, PTL

(* A declared method of an embedded struct is found by GetNestedMethod,    *)
(* whenever there is one.                                                  *)
THEOREM NestedIsFoundAlways == LookupSpec => []NestedIsEmbedded
<1>1. LookupInv => NestedIsEmbedded
  BY DEF LookupInv, NestedRight
<1>. QED BY <1>1, LookupInvAlways, PTL
=============================================================================
