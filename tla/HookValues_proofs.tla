-------------------------- MODULE HookValues_proofs --------------------------
(***************************************************************************)
(* Proofs about the values a mocked call takes in and gives back.          *)
(*                                                                         *)
(* Part 1, HookArgs: for all types, hooks and depths of nested calls, no   *)
(* reflect call is made with a pointer into a stack that was left, but for *)
(* moves that no guard follows, and hooks and originals get the arguments  *)
(* they should, in their order.                                            *)
(*                                                                         *)
(* Part 2, ReturnSequence: for any number of callers and every sequence of *)
(* values, one caller at a time is in GetNext, and the values come in the  *)
(* order of the sequence, as often as it says, round by round.             *)
(***************************************************************************)
EXTENDS HookArgs, ReturnSequence, Integers, WellFoundedInduction, TLAPS

(* Induction over an interval, of a set of numbers.                        *)
LEMMA InductionUpTo ==
  ASSUME NEW S, NEW N \in Nat, 1 \in S,
         \A n \in 1..N : n \in S /\ n + 1 \in 1..N => n + 1 \in S
  PROVE  1..N \subseteq S
<1>. DEFINE T == {n \in 1..N : n \notin S}
<1>. SUFFICES ASSUME T # {} PROVE FALSE
  OBVIOUS
<1>1. PICK x \in T : \A y \in T : ~(<<y, x>> \in OpToRel(<, Nat))
  <2>1. T \subseteq Nat
    OBVIOUS
  <2>. HIDE DEF OpToRel, T
  <2>. QED BY <2>1, NatLessThanWellFounded, WFMin, Zenon
<1>2. \A y \in T : ~(y < x)
  <2>. SUFFICES ASSUME NEW y \in T, y < x PROVE FALSE
    OBVIOUS
  <2>1. y \in Nat /\ x \in Nat
    OBVIOUS
  <2>2. <<y, x>> \in OpToRel(<, Nat)
    BY <2>1 DEF OpToRel
  <2>. QED BY <1>1, <2>2
<1>3. x # 1 /\ x - 1 \in 1..N /\ x - 1 \notin T
  BY <1>2
<1>. QED BY <1>3

-----------------------------------------------------------------------------
(* A function on types that is defined by its values on the parts of a     *)
(* type exists: it is built up from the types without parts.               *)
Follows(f, D, kids, V) == \A t \in D : f[t] = V[t][[k \in kids[t] |-> f[k]]]
LEMMA PartsDefine ==
  ASSUME NEW D, NEW M \in Nat, NEW depth \in [D -> 0 .. M], NEW kids \in [D -> SUBSET D],
         \A t \in D : \A k \in kids[t] : depth[k] < depth[t],
         NEW R, NEW r \in R, NEW V,
         \A t \in D : \A g \in [kids[t] -> R] : V[t][g] \in R
  PROVE  \E f \in [D -> R] : Follows(f, D, kids, V)
<1>. DEFINE Up(n, f) == \A t \in D : depth[t] < n - 1 => f[t] = V[t][[k \in kids[t] |-> f[k]]]
            S == {n \in 1 .. M + 2 : \E f \in [D -> R] : Up(n, f)}
<1>1. 1 \in S
  <2>. DEFINE f == [t \in D |-> r]
  <2>1. f \in [D -> R] /\ Up(1, f)
    OBVIOUS
  <2>. QED BY <2>1
<1>2. ASSUME NEW n \in 1 .. M + 2, n \in S, n + 1 \in 1 .. M + 2
      PROVE  n + 1 \in S
  <2>1. PICK f \in [D -> R] : Up(n, f)
    BY <1>2
  <2>. DEFINE h == [t \in D |-> IF depth[t] = n - 1 THEN V[t][[k \in kids[t] |-> f[k]]] ELSE f[t]]
  <2>2. \A t \in D : [k \in kids[t] |-> f[k]] \in [kids[t] -> R]
    OBVIOUS
  <2>3. h \in [D -> R]
    BY <2>2
  <2>4. ASSUME NEW t \in D, depth[t] < (n + 1) - 1
        PROVE  h[t] = V[t][[k \in kids[t] |-> h[k]]]
    <3>1. \A k \in kids[t] : h[k] = f[k]
      BY <2>4
    <3>2. [k \in kids[t] |-> h[k]] = [k \in kids[t] |-> f[k]]
      BY <3>1
    <3>3. h[t] = V[t][[k \in kids[t] |-> f[k]]]
      <4>1. CASE depth[t] = n - 1
        BY <4>1
      <4>2. CASE depth[t] # n - 1
        <5>1. depth[t] < n - 1
          BY <2>4, <4>2
        <5>. QED BY <2>1, <4>2, <5>1
      <4>. QED BY <4>1, <4>2
    <3>. HIDE DEF h
    <3>. QED BY <3>2, <3>3
  <2>5. Up(n + 1, h)
    <3>. HIDE DEF h
    <3>. QED BY <2>4
  <2>. HIDE DEF Up, h
  <2>. QED BY <1>2, <2>3, <2>5
<1>3. 1 .. M + 2 \subseteq S
  <2>. HIDE DEF S
  <2>. QED BY <1>1, <1>2, InductionUpTo
<1>4. PICK f \in [D -> R] : Up(M + 2, f)
  <2>1. M + 2 \in 1 .. M + 2
    OBVIOUS
  <2>2. M + 2 \in S
    BY <1>3, <2>1
  <2>. QED BY <2>2
<1>5. \A t \in D : depth[t] < (M + 2) - 1
  OBVIOUS
<1>. QED BY <1>4, <1>5 DEF Follows

-----------------------------------------------------------------------------
(* Part 1, HookArgs: the words of a value.                                 *)

Types == DOMAIN GoType
PartsOf == [t \in Types |-> Parts(GoType[t])]

(* The parts of a type are types, and it has a size. *)
LEMMA PartsAreTypes ==
  /\ PartsOf \in [Types -> SUBSET Types]
  /\ \A t \in Types :
       LET g == GoType[t]
       IN  /\ g.size \in Nat
           /\ g.kind = "array" => g.elem \in PartsOf[t]
           /\ g.kind = "struct" => \A i \in DOMAIN g.fields : g.fields[i].type \in PartsOf[t]
BY GoTypeAssumption DEF PartsOf, Parts, Types

(* The three functions on types satisfy their equations: PointersIn,       *)
(* MayHold and Walk are what defines them, given their values on the parts.*)
PointersIn(t, f) ==
  LET g == GoType[t]
  IN  {w \in 0 .. g.size - 1 :
        \/ g.kind \in {"pointer", "string", "slice"} /\ w = 0
        \/ g.kind = "interface" /\ w = 1
        \/ g.kind = "array" /\ w % GoType[g.elem].size \in f[g.elem]
        \/ g.kind = "struct" /\ \E i \in DOMAIN g.fields :
             w - g.fields[i].at \in f[g.fields[i].type]}
LEMMA PointerWordsAre ==
  PointerWords \in [Types -> SUBSET Nat] /\ \A t \in Types : PointerWords[t] = PointersIn(t, PointerWords)
<1>. DEFINE V == [t \in Types |-> [g \in [PartsOf[t] -> SUBSET Nat] |-> PointersIn(t, g)]]
            Eq(f) == f = [t \in Types |-> PointersIn(t, f)]
<1>1. PICK depth \in [Types -> 0 .. MaxNesting] : \A t \in Types : \A p \in PartsOf[t] : depth[p] < depth[t]
  BY NestingAssumption DEF Types, PartsOf
<1>2. \A t \in Types : \A g : PointersIn(t, g) \in SUBSET Nat
  BY PartsAreTypes DEF PointersIn
<1>3. \A t \in Types : \A g \in [PartsOf[t] -> SUBSET Nat] : V[t][g] = PointersIn(t, g)
  OBVIOUS
<1>. HIDE DEF V
<1>4. PICK f \in [Types -> SUBSET Nat] : Follows(f, Types, PartsOf, V)
  <2>1. \A t \in Types : \A g \in [PartsOf[t] -> SUBSET Nat] : V[t][g] \in SUBSET Nat
    BY <1>2, <1>3
  <2>2. {} \in SUBSET Nat
    OBVIOUS
  <2>. QED BY <1>1, <2>1, <2>2, PartsAreTypes, NestingAssumption, PartsDefine
<1>5. ASSUME NEW t \in Types
      PROVE  f[t] = PointersIn(t, f)
  <2>. DEFINE g == [k \in PartsOf[t] |-> f[k]]
  <2>1. g \in [PartsOf[t] -> SUBSET Nat]
    BY PartsAreTypes
  <2>2. f[t] = PointersIn(t, g)
    BY <1>3, <1>4, <2>1 DEF Follows
  <2>3. \A k \in PartsOf[t] : g[k] = f[k]
    OBVIOUS
  <2>. HIDE DEF g
  <2>4. PointersIn(t, g) = PointersIn(t, f)
    BY <2>3, PartsAreTypes DEF PointersIn
  <2>. QED BY <2>2, <2>4
<1>6. Eq(f)
  BY <1>5
<1>7. PointerWords = CHOOSE h : Eq(h)
  BY DEF PointerWords, PointersIn, Types
<1>8. Eq(PointerWords)
  <2>. HIDE DEF Eq
  <2>. QED BY <1>6, <1>7
<1>. QED BY <1>2, <1>8

(* mayHoldPointer. *)
MayHold(t, f) ==
  LET g == GoType[t]
  IN  \/ g.kind \in {"pointer", "string", "slice", "interface"}
      \/ g.kind = "array" /\ g.len > 0 /\ f[g.elem]
      \/ g.kind = "struct" /\ \E i \in DOMAIN g.fields : f[g.fields[i].type]
LEMMA MayHoldPointerIs ==
  \A t \in Types : mayHoldPointer[t] = MayHold(t, mayHoldPointer)
<1>. DEFINE V == [t \in Types |-> [g \in [PartsOf[t] -> BOOLEAN] |-> MayHold(t, g)]]
            Eq(f) == f = [t \in Types |-> MayHold(t, f)]
<1>1. PICK depth \in [Types -> 0 .. MaxNesting] : \A t \in Types : \A p \in PartsOf[t] : depth[p] < depth[t]
  BY NestingAssumption DEF Types, PartsOf
<1>2. \A t \in Types : \A g : MayHold(t, g) \in BOOLEAN
  BY DEF MayHold
<1>3. \A t \in Types : \A g \in [PartsOf[t] -> BOOLEAN] : V[t][g] = MayHold(t, g)
  OBVIOUS
<1>. HIDE DEF V
<1>4. PICK f \in [Types -> BOOLEAN] : Follows(f, Types, PartsOf, V)
  <2>1. \A t \in Types : \A g \in [PartsOf[t] -> BOOLEAN] : V[t][g] \in BOOLEAN
    BY <1>2, <1>3
  <2>2. TRUE \in BOOLEAN
    OBVIOUS
  <2>. QED BY <1>1, <2>1, <2>2, PartsAreTypes, NestingAssumption, PartsDefine
<1>5. ASSUME NEW t \in Types
      PROVE  f[t] = MayHold(t, f)
  <2>. DEFINE g == [k \in PartsOf[t] |-> f[k]]
  <2>1. g \in [PartsOf[t] -> BOOLEAN]
    BY PartsAreTypes
  <2>2. f[t] = MayHold(t, g)
    BY <1>3, <1>4, <2>1 DEF Follows
  <2>3. \A k \in PartsOf[t] : g[k] = f[k]
    OBVIOUS
  <2>. HIDE DEF g
  <2>4. MayHold(t, g) = MayHold(t, f)
    BY <2>3, PartsAreTypes DEF MayHold
  <2>. QED BY <2>2, <2>4
<1>6. Eq(f)
  BY <1>5
<1>7. mayHoldPointer = CHOOSE h : Eq(h)
  BY DEF mayHoldPointer, MayHold, Types
<1>8. Eq(mayHoldPointer)
  <2>. HIDE DEF Eq
  <2>. QED BY <1>6, <1>7
<1>. QED BY <1>8

(* walkMem. *)
Walk(t, f) ==
  LET g == GoType[t]
  IN  IF g.kind \in {"pointer", "string", "slice"} THEN {0}
      ELSE IF g.kind = "interface" THEN {1}
      ELSE IF g.kind = "array" /\ mayHoldPointer[g.elem] THEN
        {i * GoType[g.elem].size + w : i \in 0 .. g.len - 1, w \in f[g.elem]}
      ELSE IF g.kind = "struct" THEN
        UNION {{g.fields[i].at + w : w \in f[g.fields[i].type]} : i \in DOMAIN g.fields}
      ELSE {}
Elements(g, ws) == {i * GoType[g.elem].size + w : i \in 0 .. g.len - 1, w \in ws}
Field(g, i, ws) == {g.fields[i].at + w : w \in ws}
(* What walkMem does with each kind. *)
LEMMA WalkKinds ==
  ASSUME NEW t \in Types, NEW f
  PROVE  LET g == GoType[t]
         IN  /\ g.kind \in {"pointer", "string", "slice"} => Walk(t, f) = {0}
             /\ g.kind = "interface" => Walk(t, f) = {1}
             /\ g.kind = "array" =>
                  Walk(t, f) = IF mayHoldPointer[g.elem] THEN Elements(g, f[g.elem]) ELSE {}
             /\ g.kind = "struct" =>
                  Walk(t, f) = UNION {Field(g, i, f[g.fields[i].type]) : i \in DOMAIN g.fields}
             /\ g.kind \notin {"pointer", "string", "slice", "interface", "array", "struct"} =>
                  Walk(t, f) = {}
<1>. DEFINE g == GoType[t]
<1>1. g.kind \in {"pointer", "string", "slice"} => Walk(t, f) = {0}
  BY DEF Walk
<1>2. g.kind = "interface" => Walk(t, f) = {1}
  BY DEF Walk
<1>3. g.kind = "array" =>
        Walk(t, f) = IF mayHoldPointer[g.elem] THEN Elements(g, f[g.elem]) ELSE {}
  BY DEF Walk, Elements
<1>4. g.kind = "struct" =>
        Walk(t, f) = UNION {Field(g, i, f[g.fields[i].type]) : i \in DOMAIN g.fields}
  BY DEF Walk, Field
<1>5. g.kind \notin {"pointer", "string", "slice", "interface", "array", "struct"} =>
        Walk(t, f) = {}
  BY DEF Walk
<1>. QED BY <1>1, <1>2, <1>3, <1>4, <1>5, Zenon

(* It is defined too. *)
LEMMA WalkMemIs ==
  \A t \in Types : walkMem[t] = Walk(t, walkMem)
<1>. DEFINE V == [t \in Types |-> [g \in [PartsOf[t] -> SUBSET Int] |-> Walk(t, g)]]
            Eq(f) == f = [t \in Types |-> Walk(t, f)]
<1>1. PICK depth \in [Types -> 0 .. MaxNesting] : \A t \in Types : \A p \in PartsOf[t] : depth[p] < depth[t]
  BY NestingAssumption DEF Types, PartsOf
<1>2. \A t \in Types : \A g \in [PartsOf[t] -> SUBSET Int] : Walk(t, g) \in SUBSET Int
  BY PartsAreTypes, GoTypeAssumption DEF Walk, Types
<1>3. \A t \in Types : \A g \in [PartsOf[t] -> SUBSET Int] : V[t][g] = Walk(t, g)
  OBVIOUS
<1>. HIDE DEF V
<1>4. PICK f \in [Types -> SUBSET Int] : Follows(f, Types, PartsOf, V)
  <2>1. \A t \in Types : \A g \in [PartsOf[t] -> SUBSET Int] : V[t][g] \in SUBSET Int
    BY <1>2, <1>3
  <2>2. {} \in SUBSET Int
    OBVIOUS
  <2>. QED BY <1>1, <2>1, <2>2, PartsAreTypes, NestingAssumption, PartsDefine
<1>5. ASSUME NEW t \in Types
      PROVE  f[t] = Walk(t, f)
  <2>. DEFINE g == [k \in PartsOf[t] |-> f[k]]
  <2>1. g \in [PartsOf[t] -> SUBSET Int]
    BY PartsAreTypes
  <2>2. f[t] = Walk(t, g)
    BY <1>3, <1>4, <2>1 DEF Follows
  <2>3. \A k \in PartsOf[t] : g[k] = f[k]
    OBVIOUS
  <2>. HIDE DEF g
  <2>4. Walk(t, g) = Walk(t, f)
    <3>. DEFINE type == GoType[t]
    <3>1. CASE type.kind = "array"
      <4>1. g[type.elem] = f[type.elem]
        BY <2>3, <3>1, PartsAreTypes
      <4>2. \A h : Walk(t, h) = IF mayHoldPointer[type.elem] THEN Elements(type, h[type.elem]) ELSE {}
        BY <3>1, WalkKinds
      <4>. HIDE DEF type
      <4>. QED BY <4>1, <4>2, Zenon
    <3>2. CASE type.kind = "struct"
      <4>1. \A i \in DOMAIN type.fields : g[type.fields[i].type] = f[type.fields[i].type]
        BY <2>3, <3>2, PartsAreTypes
      <4>2. {Field(type, i, g[type.fields[i].type]) : i \in DOMAIN type.fields}
              = {Field(type, i, f[type.fields[i].type]) : i \in DOMAIN type.fields}
        BY <4>1
      <4>. QED BY <3>2, <4>2, WalkKinds
    <3>3. CASE type.kind \notin {"array", "struct"}
      BY <3>3, WalkKinds
    <3>. QED BY <3>1, <3>2, <3>3
  <2>. QED BY <2>2, <2>4
<1>6. Eq(f)
  BY <1>5
<1>7. walkMem = CHOOSE h : Eq(h)
  BY DEF walkMem, Walk, Types
<1>8. Eq(walkMem)
  <2>. HIDE DEF Eq
  <2>. QED BY <1>6, <1>7
<1>. QED BY <1>8

(* Counting words in elements of s words. *)
LEMMA WordOfElement ==
  ASSUME NEW s \in Nat, NEW n \in Nat, NEW i \in 0 .. n - 1, NEW w \in 0 .. s - 1
  PROVE  /\ i * s + w \in 0 .. n * s - 1
         /\ (i * s + w) % s = w
<1>1. i * s >= 0 /\ i * s + s <= n * s
  <2>1. \E d \in Nat : n = i + 1 + d
    <3>1. n = i + 1 + (n - i - 1) /\ n - i - 1 \in Nat
      OBVIOUS
    <3>. QED BY <3>1
  <2>2. PICK d \in Nat : n = i + 1 + d
    BY <2>1
  <2>3. n * s = i * s + s + d * s
    BY <2>2, Z3
  <2>4. d * s >= 0 /\ i * s >= 0
    BY Z3
  <2>. QED BY <2>3, <2>4
<1>. DEFINE q == (i * s + w) \div s
            r == (i * s + w) % s
<1>2. ASSUME NEW a \in Int, NEW b \in Int, NEW x \in 0 .. s - 1, NEW y \in 0 .. s - 1, a * s + x = b * s + y
      PROVE  x = y
  BY <1>2, Z3
<1>3. r \in 0 .. s - 1 /\ q \in Int /\ i * s + w = q * s + r
  BY Z3
<1>. HIDE DEF q, r
<1>4. r = w
  BY <1>2, <1>3
<1>. QED BY <1>1, <1>4 DEF r

(* Every word of an array is a word of one of its elements. *)
LEMMA ElementOfWord ==
  ASSUME NEW s \in Nat, NEW n \in Nat, NEW w \in 0 .. n * s - 1
  PROVE  \E i \in 0 .. n - 1, r \in 0 .. s - 1 : r = w % s /\ w = i * s + r
<1>1. s > 0
  BY Z3
<1>. DEFINE q == w \div s
            r == w % s
<1>2. r \in 0 .. s - 1 /\ q \in Int /\ w = q * s + r
  BY <1>1, Z3
<1>. HIDE DEF q, r
<1>3. q >= 0 /\ q < n
  BY <1>2, Z3
<1>4. q \in 0 .. n - 1
  BY <1>2, <1>3
<1>5. r = w % s
  BY DEF r
<1>. QED BY <1>2, <1>4, <1>5, Zenon

(* The pointers of a value, by its kind. *)
LEMMA PointerKinds ==
  ASSUME NEW t \in Types
  PROVE  LET g == GoType[t]
             ws == 0 .. g.size - 1
         IN  /\ g.size \in Nat /\ PointerWords[t] \subseteq ws
             /\ g.kind \in {"pointer", "string", "slice"} => PointerWords[t] = {0}
             /\ g.kind = "interface" => PointerWords[t] = {1}
             /\ g.kind = "array" =>
                  PointerWords[t] = {w \in ws : w % GoType[g.elem].size \in PointerWords[g.elem]}
             /\ g.kind = "struct" =>
                  PointerWords[t] = {w \in ws : \E i \in DOMAIN g.fields :
                    w - g.fields[i].at \in PointerWords[g.fields[i].type]}
             /\ g.kind \notin {"pointer", "string", "slice", "interface", "array", "struct"} =>
                  PointerWords[t] = {}
<1>1. PointerWords[t] = PointersIn(t, PointerWords)
  BY PointerWordsAre
<1>2. GoType[t].size \in Nat
  BY PartsAreTypes
<1>3. GoType[t].kind \in {"pointer", "string", "slice"} => GoType[t].size > 0
  BY GoTypeAssumption DEF Types
<1>4. GoType[t].kind = "interface" => GoType[t].size > 1
  BY GoTypeAssumption DEF Types
<1>. QED BY <1>1, <1>2, <1>3, <1>4 DEF PointersIn

(* walkMem hands exactly the pointers of a value to rewriteWord, and what  *)
(* mayHoldPointer rules out holds none.                                    *)
Reached(t) ==
  /\ walkMem[t] = PointerWords[t]
  /\ ~mayHoldPointer[t] => PointerWords[t] = {}
(* What holds of the parts of a type holds of the type, ... *)
LEMMA ReachedByParts ==
  ASSUME NEW t \in Types, \A k \in PartsOf[t] : Reached(k)
  PROVE  Reached(t)
<1>. DEFINE g == GoType[t]
            ws == 0 .. g.size - 1
<1>1. CASE g.kind = "array"
  <2>. DEFINE e == g.elem
              s == GoType[e].size
  <2>1. e \in Types /\ e \in PartsOf[t] /\ Reached(e)
    BY <1>1, PartsAreTypes
  <2>2. s \in Nat /\ g.len \in Nat /\ g.size = g.len * s
    BY <1>1, <2>1, PartsAreTypes, GoTypeAssumption DEF Types
  <2>3. PointerWords[t] = {w \in ws : w % s \in PointerWords[e]} /\ PointerWords[e] \subseteq 0 .. s - 1
    BY <1>1, <2>1, PointerKinds
  <2>4. walkMem[t] = IF mayHoldPointer[e] THEN Elements(g, PointerWords[e]) ELSE {}
    <3>1. walkMem[t] = Walk(t, walkMem) /\ walkMem[e] = PointerWords[e]
      BY <2>1, WalkMemIs DEF Reached
    <3>2. Walk(t, walkMem) = IF mayHoldPointer[e] THEN Elements(g, walkMem[e]) ELSE {}
      BY <1>1, WalkKinds
    <3>. HIDE DEF e, g
    <3>. QED BY <3>1, <3>2
  <2>5. mayHoldPointer[t] = (g.len > 0 /\ mayHoldPointer[e])
    BY <1>1, MayHoldPointerIs DEF MayHold
  <2>6. CASE ~mayHoldPointer[e]
    BY <2>1, <2>3, <2>4, <2>6 DEF Reached
  <2>7. CASE mayHoldPointer[e]
    <3>. HIDE DEF e, s, g
    <3>1. ASSUME NEW i \in 0 .. g.len - 1, NEW w \in PointerWords[e]
          PROVE  i * s + w \in PointerWords[t]
      <4>1. w \in 0 .. s - 1
        BY <2>3
      <4>2. i * s + w \in 0 .. g.len * s - 1 /\ (i * s + w) % s = w
        BY <2>2, <4>1, WordOfElement
      <4>3. i * s + w \in ws
        BY <2>2, <4>2, Zenon
      <4>. QED BY <2>3, <4>2, <4>3, Zenon
    <3>2. ASSUME NEW x \in PointerWords[t]
          PROVE  \E i \in 0 .. g.len - 1, w \in PointerWords[e] : x = i * s + w
      <4>1. x \in ws /\ x % s \in PointerWords[e]
        BY <2>3, Zenon
      <4>2. x \in 0 .. g.len * s - 1
        BY <2>2, <4>1, Zenon
      <4>3. PICK i \in 0 .. g.len - 1, r \in 0 .. s - 1 : r = x % s /\ x = i * s + r
        BY <2>2, <4>2, ElementOfWord
      <4>. QED BY <4>1, <4>3, Zenon
    <3>3. Elements(g, PointerWords[e]) = PointerWords[t]
      <4>1. Elements(g, PointerWords[e]) = {i * s + w : i \in 0 .. g.len - 1, w \in PointerWords[e]}
        BY DEF Elements, s, e
      <4>2. \A x \in Elements(g, PointerWords[e]) : x \in PointerWords[t]
        BY <3>1, <4>1
      <4>3. \A x \in PointerWords[t] : x \in Elements(g, PointerWords[e])
        BY <3>2, <4>1
      <4>. QED BY <4>2, <4>3
    <3>4. g.len = 0 => PointerWords[t] = {}
      <4>1. g.len = 0 => g.size = 0
        BY <2>2
      <4>2. g.size = 0 => ws = {}
        OBVIOUS
      <4>. QED BY <2>3, <4>1, <4>2
    <3>5. g.len = 0 \/ g.len > 0
      BY <2>2
    <3>. QED BY <2>4, <2>5, <2>7, <3>3, <3>4, <3>5 DEF Reached
  <2>. QED BY <2>6, <2>7
<1>2. CASE g.kind = "struct"
  <2>. DEFINE f(i) == g.fields[i]
              I == DOMAIN g.fields
  <2>1. ASSUME NEW i \in I
        PROVE  /\ f(i).type \in Types /\ Reached(f(i).type)
               /\ f(i).at \in Nat /\ GoType[f(i).type].size \in Nat
               /\ f(i).at + GoType[f(i).type].size <= g.size
               /\ PointerWords[f(i).type] \subseteq 0 .. GoType[f(i).type].size - 1
    <3>1. f(i).type \in PartsOf[t] /\ f(i).type \in Types
      BY <1>2, PartsAreTypes
    <3>2. f(i).at \in Nat /\ f(i).at + GoType[f(i).type].size <= g.size
      BY <1>2, GoTypeAssumption DEF Types
    <3>. QED BY <3>1, <3>2, PointerKinds
  <2>2. g.size \in Nat /\ PointerWords[t] = {w \in ws : \E i \in I : w - f(i).at \in PointerWords[f(i).type]}
    BY <1>2, PointerKinds
  <2>3. walkMem[t] = UNION {Field(g, i, walkMem[f(i).type]) : i \in I}
    BY <1>2, WalkKinds, WalkMemIs
  <2>4. mayHoldPointer[t] = \E i \in I : mayHoldPointer[f(i).type]
    BY <1>2, MayHoldPointerIs DEF MayHold
  <2>5. ASSUME NEW i \in I
        PROVE  Field(g, i, walkMem[f(i).type]) =
                 {w \in ws : w - f(i).at \in PointerWords[f(i).type]}
    <3>. DEFINE a == f(i).at
                P == PointerWords[f(i).type]
                n == GoType[f(i).type].size
    <3>1. Field(g, i, walkMem[f(i).type]) = {a + w : w \in P}
      BY <2>1 DEF Field, Reached
    <3>2. a \in Nat /\ n \in Nat /\ a + n <= g.size /\ P \subseteq 0 .. n - 1
      BY <2>1
    <3>. HIDE DEF a, P, n
    <3>3. \A w \in P : a + w \in ws /\ (a + w) - a = w
      BY <2>2, <3>2
    <3>4. \A w \in ws : a + (w - a) = w
      BY <2>2, <3>2
    <3>5. {a + w : w \in P} = {w \in ws : w - a \in P}
      <4>1. \A x \in {a + w : w \in P} : x \in {w \in ws : w - a \in P}
        BY <3>3
      <4>2. \A x \in {w \in ws : w - a \in P} : x \in {a + w : w \in P}
        BY <3>4
      <4>. QED BY <4>1, <4>2
    <3>. QED BY <3>1, <3>5 DEF a, P
  <2>6. walkMem[t] = PointerWords[t]
    <3>. DEFINE F(i) == Field(g, i, walkMem[f(i).type])
    <3>1. \A i \in I : \A x : x \in F(i) <=> x \in ws /\ x - f(i).at \in PointerWords[f(i).type]
      BY <2>5
    <3>2. \A x : x \in walkMem[t] <=> \E i \in I : x \in F(i)
      BY <2>3
    <3>. HIDE DEF F, f, I, ws, g
    <3>3. \A x : x \in walkMem[t] <=> x \in PointerWords[t]
      BY <2>2, <3>1, <3>2
    <3>. QED BY <3>3
  <2>7. ASSUME ~mayHoldPointer[t]
        PROVE  PointerWords[t] = {}
    BY <2>1, <2>2, <2>4, <2>7 DEF Reached
  <2>. QED BY <2>6, <2>7 DEF Reached
<1>3. CASE g.kind \notin {"array", "struct"}
  <2>1. walkMem[t] = Walk(t, walkMem)
    BY WalkMemIs
  <2>2. g.kind \in {"pointer", "string", "slice", "interface"} => mayHoldPointer[t]
    BY MayHoldPointerIs DEF MayHold
  <2>. QED BY <1>3, <2>1, <2>2, WalkKinds, PointerKinds DEF Reached
<1>. QED BY <1>1, <1>2, <1>3

(* ... and so it holds of all types. *)
LEMMA WalkReachesPointers == \A t \in Types : Reached(t)
<1>1. PICK depth \in [Types -> 0 .. MaxNesting] : \A t \in Types : \A p \in PartsOf[t] : depth[p] < depth[t]
  BY NestingAssumption DEF Types, PartsOf
<1>. DEFINE S == {n \in 1 .. MaxNesting + 2 : \A t \in Types : depth[t] < n - 1 => Reached(t)}
<1>2. MaxNesting \in Nat
  BY NestingAssumption
<1>3. 1 \in S
  BY <1>2
<1>4. ASSUME NEW n \in 1 .. MaxNesting + 2, n \in S, n + 1 \in 1 .. MaxNesting + 2
      PROVE  n + 1 \in S
  <2>1. ASSUME NEW t \in Types, depth[t] < (n + 1) - 1
        PROVE  Reached(t)
    <3>1. \A k \in PartsOf[t] : k \in Types /\ depth[k] < n - 1
      BY <1>1, <1>2, <2>1, PartsAreTypes
    <3>. QED BY <1>4, <3>1, ReachedByParts
  <2>. QED BY <1>4, <2>1
<1>5. 1 .. MaxNesting + 2 \subseteq S
  <2>. HIDE DEF S
  <2>1. MaxNesting + 2 \in Nat
    BY <1>2
  <2>. QED BY <1>3, <1>4, <2>1, InductionUpTo
<1>6. MaxNesting + 2 \in S
  BY <1>2, <1>5
<1>. QED BY <1>2, <1>6

-----------------------------------------------------------------------------
(* Values, and what walkValue does to them.                               *)

Words(t) == 0 .. GoType[t].size - 1
Word == Stacks \cup {Heap, Dropped}
ArgSet == UNION {[type : {t}, obj : Int, made : Stacks, words : [Words(t) -> Word]] : t \in Types}
(* The numbers of a value are what they were, and its pointers lead to the *)
(* heap or into the stack s.                                               *)
KeepsNumbers(v) == \A w \in DOMAIN v.words \ PointersOf(v) : v.words[w] = v.made
Current(v, s) == \A w \in PointersOf(v) : v.words[w] \in {Heap, s}

(* The fields of an argument. *)
LEMMA ArgIs ==
  ASSUME NEW v \in ArgSet
  PROVE  /\ v.type \in Types /\ v.obj \in Int /\ v.made \in Stacks
         /\ v.words \in [Words(v.type) -> Word]
         /\ v \in [type : {v.type}, obj : Int, made : Stacks, words : [Words(v.type) -> Word]]
BY DEF ArgSet

(* A new argument is what it should be. *)
LEMMA ValueIsRight ==
  ASSUME NEW type \in Types, NEW obj \in Int, NEW s \in Stacks, NEW at \in {Heap, s}
  PROVE  LET v == Value(type, obj, s, at)
         IN  /\ v \in ArgSet /\ v.type = type /\ v.obj = obj
             /\ KeepsNumbers(v) /\ Current(v, s)
<1>. DEFINE v == Value(type, obj, s, at)
            ws == [w \in Words(type) |-> IF w \in PointerWords[type] THEN at ELSE s]
<1>1. v = [type |-> type, obj |-> obj, made |-> s, words |-> ws]
  BY DEF Value, Words
<1>2. ws \in [Words(type) -> Word] /\ \A w \in Words(type) :
        ws[w] = IF w \in PointerWords[type] THEN at ELSE s
  BY DEF Word
<1>. HIDE DEF v, ws
<1>3. v \in ArgSet
  BY <1>1, <1>2 DEF ArgSet
<1>. QED BY <1>1, <1>2, <1>3 DEF KeepsNumbers, Current, PointersOf, v

(* Relocation changes pointers into the old stack, and no number. *)
LEMMA WalkIsRight ==
  ASSUME NEW v \in ArgSet, NEW from \in Word, NEW to \in Word
  PROVE  LET u == walkValue(v, from, to)
         IN  /\ u \in ArgSet /\ u.type = v.type /\ u.obj = v.obj /\ u.made = v.made
             /\ PointersOf(u) = PointersOf(v)
             /\ KeepsNumbers(v) => KeepsNumbers(u)
             /\ Current(v, from) \/ Current(v, to) => Current(u, to)
<1>. DEFINE u == walkValue(v, from, to)
            t == v.type
            ws == [w \in Words(t) |->
                    IF w \in PointerWords[t] /\ v.words[w] = from THEN to ELSE v.words[w]]
<1>1. t \in Types /\ v.words \in [Words(t) -> Word] /\ v.made \in Stacks /\ v.obj \in Int
      /\ v \in [type : {t}, obj : Int, made : Stacks, words : [Words(t) -> Word]]
  BY ArgIs
<1>2. (IF mayHoldPointer[t] THEN walkMem[t] ELSE {}) = PointerWords[t]
  BY <1>1, WalkReachesPointers DEF Reached
<1>3. u = [v EXCEPT !.words = ws]
  BY <1>1, <1>2 DEF walkValue
<1>4. ws \in [Words(t) -> Word] /\ \A w \in Words(t) :
        ws[w] = IF w \in PointerWords[t] /\ v.words[w] = from THEN to ELSE v.words[w]
  BY <1>1
<1>. HIDE DEF u, ws
<1>5. u \in ArgSet /\ u.type = t /\ u.obj = v.obj /\ u.made = v.made /\ u.words = ws
  BY <1>1, <1>3, <1>4 DEF ArgSet
<1>6. PointersOf(u) = PointersOf(v) /\ DOMAIN u.words = Words(t) /\ DOMAIN v.words = Words(t)
  BY <1>1, <1>4, <1>5 DEF PointersOf
<1>7. KeepsNumbers(v) => KeepsNumbers(u)
  BY <1>1, <1>4, <1>5, <1>6 DEF KeepsNumbers, PointersOf
<1>8. Current(v, from) \/ Current(v, to) => Current(u, to)
  BY <1>1, <1>4, <1>5, <1>6 DEF Current, PointersOf
<1>. QED BY <1>5, <1>6, <1>7, <1>8 DEF u

-----------------------------------------------------------------------------
(* The adapters.                                                           *)

(* An adapter a for a target with parameters rt and a function with        *)
(* parameters form: every argument has the type of its parameter.          *)
Fits(rt, form, a) ==
  /\ \A i \in DOMAIN form : a.take[i] \in DOMAIN rt /\ rt[a.take[i]] = form[i]
  /\ \A i \in DOMAIN rt :
       \/ a.back[i] = Extra(i)
       \/ \E k \in DOMAIN form : a.back[i] = <<"own", k>> /\ form[k] = rt[i]
(* It takes every argument once, and those at ord in order.                *)
InOrder(rt, form, a, ord) ==
  /\ \A i, j \in DOMAIN form : a.take[i] = a.take[j] => i = j
  /\ \A i, j \in DOMAIN form : i < j /\ {a.take[i], a.take[j]} \subseteq ord => a.take[i] < a.take[j]
  /\ \A p \in ord : \E i \in DOMAIN form : a.take[i] = p
  /\ \A k \in DOMAIN form : \E i \in DOMAIN rt : a.back[i] = <<"own", k>>
  /\ \A i \in ord : \E k \in DOMAIN form : a.back[i] = <<"own", k>>
  /\ \A i, j \in ord : i < j => \A k, l \in DOMAIN form :
       a.back[i] = <<"own", k>> /\ a.back[j] = <<"own", l>> => k < l

(* It is enough to know which argument of Origin goes to every position,   *)
(* counted from 1, with 0 for those that are kept from the call.           *)
Places(rt, form, a, from) ==
  /\ \A i \in DOMAIN form :
       a.take[i] \in DOMAIN rt /\ rt[a.take[i]] = form[i] /\ from[a.take[i]] = i
  /\ \A p \in DOMAIN rt :
       \/ from[p] = 0 /\ a.back[p] = Extra(p)
       \/ from[p] \in DOMAIN form /\ a.take[from[p]] = p /\ a.back[p] = <<"own", from[p]>>
Ascends(from, ord) == \A p, q \in ord : from[p] # 0 /\ (p < q => from[p] < from[q])
(* Places are all that has to be known of an adapter. *)
LEMMA PlacesFit ==
  ASSUME NEW rt \in Seq(Types), NEW form \in Seq(Types), NEW a, NEW from,
         Places(rt, form, a, from), NEW ord \in SUBSET DOMAIN rt
  PROVE  Fits(rt, form, a) /\ (Ascends(from, ord) => InOrder(rt, form, a, ord))
<1>. DEFINE Gets(p, k) == a.back[p] = <<"own", k>>
<1>1. DOMAIN rt \subseteq Nat /\ DOMAIN form \subseteq Nat /\ 0 \notin DOMAIN form
  OBVIOUS
<1>2. Fits(rt, form, a)
  <2>1. ASSUME NEW p \in DOMAIN rt, a.back[p] # Extra(p)
        PROVE  \E k \in DOMAIN form : Gets(p, k) /\ form[k] = rt[p]
    <3>1. from[p] \in DOMAIN form /\ a.take[from[p]] = p /\ Gets(p, from[p])
      BY <2>1 DEF Places
    <3>2. rt[a.take[from[p]]] = form[from[p]]
      BY <3>1 DEF Places
    <3>. QED BY <3>1, <3>2
  <2>. QED BY <2>1 DEF Fits, Places
<1>3. \A p \in DOMAIN rt, k \in DOMAIN form : Gets(p, k) <=> from[p] = k
  BY <1>1 DEF Extra, Places
<1>4. ASSUME Ascends(from, ord)
      PROVE  InOrder(rt, form, a, ord)
  <2>1. \A i, j \in DOMAIN form : a.take[i] = a.take[j] => i = j
    BY DEF Places
  <2>2. ASSUME NEW i \in DOMAIN form, NEW j \in DOMAIN form, i < j, a.take[i] \in ord, a.take[j] \in ord
        PROVE  a.take[i] < a.take[j]
    <3>1. a.take[i] \in Nat /\ a.take[j] \in Nat /\ i \in Nat /\ j \in Nat
      BY <1>1 DEF Places
    <3>2. from[a.take[i]] = i /\ from[a.take[j]] = j
      BY DEF Places
    <3>3. a.take[j] < a.take[i] => j < i
      BY <1>4, <2>2, <3>2, Zenon DEF Ascends
    <3>4. ~(a.take[j] < a.take[i])
      BY <2>2, <3>1, <3>3
    <3>. QED BY <2>1, <2>2, <3>1, <3>4
  <2>3. \A p \in ord : from[p] \in DOMAIN form /\ a.take[from[p]] = p /\ Gets(p, from[p])
    BY <1>4 DEF Ascends, Places
  <2>4. \A k \in DOMAIN form : Gets(a.take[k], k)
    BY <1>3 DEF Places
  <2>5. \A i, j \in ord : i < j => \A k, l \in DOMAIN form : Gets(i, k) /\ Gets(j, l) => k < l
    BY <1>3, <1>4 DEF Ascends
  <2>. QED BY <2>1, <2>2, <2>3, <2>4, <2>5 DEF InOrder, Places
<1>. QED BY <1>2, <1>4

(* The five ways to adapt. *)
LEMMA SameFits ==
  ASSUME NEW rt \in Seq(Types), NEW form \in Seq(Types), CheckFuncArgs(rt, form, 0, 0),
         NEW ord \in SUBSET DOMAIN rt
  PROVE  Fits(rt, form, Same(Len(form))) /\ InOrder(rt, form, Same(Len(form)), ord)
<1>. DEFINE n == Len(form)
            a == Same(n)
            from == [p \in DOMAIN rt |-> p]
<1>1. Len(rt) = n /\ n \in Nat /\ DOMAIN rt = 1 .. n /\ DOMAIN form = 1 .. n
  BY DEF CheckFuncArgs
<1>2. \A i \in 1 .. n : a.take[i] = i /\ a.back[i] = <<"own", i>> /\ rt[i] = form[i]
  BY <1>1 DEF Same, From, Own, CheckFuncArgs
<1>3. Ascends(from, ord)
  BY <1>1 DEF Ascends
<1>. HIDE DEF a
<1>4. Places(rt, form, a, from)
  BY <1>1, <1>2 DEF Places
<1>. HIDE DEF from
<1>5. Fits(rt, form, a) /\ InOrder(rt, form, a, ord)
  BY <1>3, <1>4, PlacesFit
<1>. QED BY <1>5 DEF a

LEMMA DropFirstFits ==
  ASSUME NEW rt \in Seq(Types), NEW form \in Seq(Types), CheckFuncArgs(rt, form, 1, 0),
         NEW ord \in SUBSET DOMAIN rt
  PROVE  /\ Fits(rt, form, DropFirst(Len(rt)))
         /\ 1 \notin ord => InOrder(rt, form, DropFirst(Len(rt)), ord)
<1>. DEFINE n == Len(form)
            a == DropFirst(Len(rt))
            from == [p \in DOMAIN rt |-> p - 1]
<1>1. Len(rt) = n + 1 /\ n \in Nat /\ DOMAIN rt = 1 .. n + 1 /\ DOMAIN form = 1 .. n
  BY DEF CheckFuncArgs
<1>2. \A i \in 1 .. n : a.take[i] = i + 1 /\ rt[i + 1] = form[i]
  BY <1>1 DEF DropFirst, From, CheckFuncArgs
<1>3. \A p \in 1 .. n + 1 : a.back[p] = IF p = 1 THEN Extra(1) ELSE <<"own", p - 1>>
  BY <1>1 DEF DropFirst, Own
<1>4. 1 \notin ord => Ascends(from, ord)
  BY <1>1 DEF Ascends
<1>. HIDE DEF a
<1>5. \A i \in DOMAIN form : a.take[i] \in DOMAIN rt /\ rt[a.take[i]] = form[i] /\ from[a.take[i]] = i
  BY <1>1, <1>2
<1>6. ASSUME NEW p \in DOMAIN rt
      PROVE  \/ from[p] = 0 /\ a.back[p] = Extra(p)
             \/ from[p] \in DOMAIN form /\ a.take[from[p]] = p /\ a.back[p] = <<"own", from[p]>>
  <2>1. CASE p = 1
    <3>1. from[p] = 0
      BY <2>1
    <3>. QED BY <1>1, <1>3, <2>1, <3>1
  <2>2. CASE ~(p = 1)
    <3>1. from[p] = p - 1 /\ p - 1 \in 1 .. n /\ (p - 1) + 1 = p
      BY <1>1, <2>2
    <3>. QED BY <1>1, <1>2, <1>3, <2>2, <3>1
  <2>. QED BY <2>1, <2>2
<1>. HIDE DEF from
<1>7. Places(rt, form, a, from)
  BY <1>5, <1>6 DEF Places
<1>8. Fits(rt, form, a) /\ (1 \notin ord => InOrder(rt, form, a, ord))
  BY <1>4, <1>7, PlacesFit
<1>. QED BY <1>8 DEF a

LEMMA DropBothFits ==
  ASSUME NEW rt \in Seq(Types), NEW form \in Seq(Types), CheckFuncArgs(rt, form, 2, 0),
         NEW ord \in SUBSET DOMAIN rt
  PROVE  /\ Fits(rt, form, DropBoth(Len(rt)))
         /\ {1, 2} \cap ord = {} => InOrder(rt, form, DropBoth(Len(rt)), ord)
<1>. DEFINE n == Len(form)
            a == DropBoth(Len(rt))
            from == [p \in DOMAIN rt |-> IF p \in {1, 2} THEN 0 ELSE p - 2]
<1>1. Len(rt) = n + 2 /\ n \in Nat /\ DOMAIN rt = 1 .. n + 2 /\ DOMAIN form = 1 .. n
  BY DEF CheckFuncArgs
<1>2. \A i \in 1 .. n : a.take[i] = i + 2 /\ rt[i + 2] = form[i]
  BY <1>1 DEF DropBoth, From, CheckFuncArgs
<1>3. \A p \in 1 .. n + 2 : a.back[p] = IF p \in {1, 2} THEN Extra(p) ELSE <<"own", p - 2>>
  BY <1>1 DEF DropBoth, Own
<1>4. {1, 2} \cap ord = {} => Ascends(from, ord)
  BY <1>1 DEF Ascends
<1>. HIDE DEF a
<1>5. \A i \in DOMAIN form : a.take[i] \in DOMAIN rt /\ rt[a.take[i]] = form[i] /\ from[a.take[i]] = i
  BY <1>1, <1>2
<1>6. ASSUME NEW p \in DOMAIN rt
      PROVE  \/ from[p] = 0 /\ a.back[p] = Extra(p)
             \/ from[p] \in DOMAIN form /\ a.take[from[p]] = p /\ a.back[p] = <<"own", from[p]>>
  <2>1. CASE p \in {1, 2}
    BY <1>1, <1>3, <2>1
  <2>2. CASE ~(p \in {1, 2})
    <3>1. from[p] = p - 2 /\ p - 2 \in 1 .. n /\ (p - 2) + 2 = p
      BY <1>1, <2>2
    <3>. QED BY <1>1, <1>2, <1>3, <2>2, <3>1
  <2>. QED BY <2>1, <2>2
<1>. HIDE DEF from
<1>7. Places(rt, form, a, from)
  BY <1>5, <1>6 DEF Places
<1>8. Fits(rt, form, a) /\ ({1, 2} \cap ord = {} => InOrder(rt, form, a, ord))
  BY <1>4, <1>7, PlacesFit
<1>. QED BY <1>8 DEF a

LEMMA DictionaryFirstFits ==
  ASSUME NEW rt \in Seq(Types), NEW form \in Seq(Types), CheckFuncArgs(rt, form, 2, 2),
         Len(form) >= 2, form[1] = rt[2], form[2] = rt[1],
         NEW ord \in SUBSET DOMAIN rt
  PROVE  /\ Fits(rt, form, DictionaryFirst(Len(rt)))
         /\ {1, 2} \cap ord = {} => InOrder(rt, form, DictionaryFirst(Len(rt)), ord)
<1>. DEFINE n == Len(form)
            a == DictionaryFirst(Len(rt))
            from == [p \in DOMAIN rt |-> IF p = 1 THEN 2 ELSE IF p = 2 THEN 1 ELSE p]
<1>1. Len(rt) = n /\ n \in Nat /\ n >= 2 /\ DOMAIN rt = 1 .. n /\ DOMAIN form = 1 .. n
  BY DEF CheckFuncArgs
<1>2. \A i \in 1 .. n : a.take[i] = IF i = 1 THEN 2 ELSE IF i = 2 THEN 1 ELSE i
  BY <1>1 DEF DictionaryFirst, From
<1>3. \A i \in 3 .. n : rt[i] = form[i]
  <2>1. \A j \in 1 .. n - 2 : rt[2 + j] = form[2 + j]
    BY <1>1 DEF CheckFuncArgs
  <2>2. \A i \in 3 .. n : i - 2 \in 1 .. n - 2 /\ 2 + (i - 2) = i
    BY <1>1
  <2>. QED BY <2>1, <2>2
<1>4. \A p \in 1 .. n : a.back[p] = <<"own", from[p]>>
  BY <1>1 DEF DictionaryFirst
<1>5. {1, 2} \cap ord = {} => Ascends(from, ord)
  BY <1>1 DEF Ascends
<1>. HIDE DEF a
<1>6. \A i \in DOMAIN form : a.take[i] \in DOMAIN rt /\ rt[a.take[i]] = form[i] /\ from[a.take[i]] = i
  BY <1>1, <1>2, <1>3
<1>7. \A p \in DOMAIN rt :
        from[p] \in DOMAIN form /\ a.take[from[p]] = p /\ a.back[p] = <<"own", from[p]>>
  BY <1>1, <1>2, <1>4
<1>. HIDE DEF from
<1>8. Places(rt, form, a, from)
  BY <1>6, <1>7 DEF Places
<1>9. Fits(rt, form, a) /\ ({1, 2} \cap ord = {} => InOrder(rt, form, a, ord))
  BY <1>5, <1>8, PlacesFit
<1>. QED BY <1>9 DEF a

LEMMA WithoutDictionaryFits ==
  ASSUME NEW rt \in Seq(Types), NEW form \in Seq(Types), CheckFuncArgs(rt, form, 2, 1),
         Len(form) >= 1, form[1] = rt[1],
         NEW ord \in SUBSET DOMAIN rt
  PROVE  /\ Fits(rt, form, WithoutDictionary(Len(rt)))
         /\ {1, 2} \cap ord = {} => InOrder(rt, form, WithoutDictionary(Len(rt)), ord)
<1>. DEFINE n == Len(form)
            a == WithoutDictionary(Len(rt))
            from == [p \in DOMAIN rt |-> IF p = 1 THEN 1 ELSE IF p = 2 THEN 0 ELSE p - 1]
<1>1. Len(rt) = n + 1 /\ n \in Nat /\ n >= 1 /\ DOMAIN rt = 1 .. n + 1 /\ DOMAIN form = 1 .. n
  BY DEF CheckFuncArgs
<1>2. \A i \in 1 .. n : a.take[i] = IF i = 1 THEN 1 ELSE i + 1
  BY <1>1 DEF WithoutDictionary, From
<1>3. \A i \in 2 .. n : rt[i + 1] = form[i]
  <2>1. \A j \in 1 .. n - 1 : rt[2 + j] = form[1 + j]
    BY <1>1 DEF CheckFuncArgs
  <2>2. \A i \in 2 .. n : i - 1 \in 1 .. n - 1 /\ 2 + (i - 1) = i + 1 /\ 1 + (i - 1) = i
    BY <1>1
  <2>. QED BY <2>1, <2>2
<1>4. \A p \in 1 .. n + 1 : a.back[p] = IF p = 2 THEN Extra(2) ELSE <<"own", from[p]>>
  <2>1. a.back = <<<<"own", 1>>, Extra(2)>> \o [i \in 1 .. n - 1 |-> <<"own", i + 1>>]
    BY <1>1 DEF WithoutDictionary
  <2>. HIDE DEF a
  <2>2. a.back[1] = <<"own", 1>> /\ a.back[2] = Extra(2)
    BY <1>1, <2>1
  <2>3. ASSUME NEW p \in 3 .. n + 1
        PROVE  a.back[p] = <<"own", p - 1>>
    <3>1. p - 2 \in 1 .. n - 1 /\ (p - 2) + 1 = p - 1
      BY <1>1
    <3>. QED BY <1>1, <2>1, <3>1
  <2>4. ASSUME NEW p \in 1 .. n + 1
        PROVE  a.back[p] = IF p = 2 THEN Extra(2) ELSE <<"own", from[p]>>
    <3>1. p = 1 \/ p = 2 \/ p \in 3 .. n + 1
      BY <1>1
    <3>2. p = 1 => from[p] = 1
      BY <1>1
    <3>3. p \in 3 .. n + 1 => from[p] = p - 1
      BY <1>1
    <3>. HIDE DEF from
    <3>. QED BY <2>2, <2>3, <3>1, <3>2, <3>3
  <2>. QED BY <2>4
<1>5. {1, 2} \cap ord = {} => Ascends(from, ord)
  BY <1>1 DEF Ascends
<1>. HIDE DEF a
<1>6. \A i \in DOMAIN form : a.take[i] \in DOMAIN rt /\ rt[a.take[i]] = form[i] /\ from[a.take[i]] = i
  BY <1>1, <1>2, <1>3
<1>7. ASSUME NEW p \in DOMAIN rt
      PROVE  \/ from[p] = 0 /\ a.back[p] = Extra(p)
             \/ from[p] \in DOMAIN form /\ a.take[from[p]] = p /\ a.back[p] = <<"own", from[p]>>
  <2>1. CASE p \in {1, 2}
    <3>1. from[p] = IF p = 1 THEN 1 ELSE 0
      BY <2>1
    <3>2. from[p] \in Nat /\ (p = 1 => from[p] = 1) /\ (p = 2 => from[p] = 0)
      BY <3>1, <2>1
    <3>3. 1 \in DOMAIN form /\ a.take[1] = 1
      BY <1>1, <1>2
    <3>4. a.back[p] = IF p = 2 THEN Extra(2) ELSE <<"own", from[p]>>
      BY <1>1, <1>4
    <3>. HIDE DEF from
    <3>. QED BY <2>1, <3>2, <3>3, <3>4
  <2>2. CASE p \notin {1, 2}
    <3>1. from[p] = p - 1 /\ p - 1 \in 2 .. n /\ (p - 1) + 1 = p
      BY <1>1, <2>2
    <3>2. a.take[p - 1] = p /\ p - 1 \in DOMAIN form
      BY <1>1, <1>2, <3>1
    <3>3. a.back[p] = <<"own", from[p]>>
      BY <1>1, <1>4, <2>2
    <3>. HIDE DEF from
    <3>. QED BY <3>1, <3>2, <3>3
  <2>. QED BY <2>1, <2>2
<1>. HIDE DEF from
<1>8. Places(rt, form, a, from)
  BY <1>6, <1>7 DEF Places
<1>9. Fits(rt, form, a) /\ ({1, 2} \cap ord = {} => InOrder(rt, form, a, ord))
  BY <1>5, <1>8, PlacesFit
<1>. QED BY <1>9 DEF a

(* A target's parameters, and its ordinary ones. *)
LEMMA TargetTypes ==
  ASSUME NEW t, t.in \in Seq(Types), t.method => t.in # << >>
  PROVE  LET rt == RuntimeTargetType(t)
         IN  /\ rt \in Seq(Types)
             /\ Len(rt) = Len(t.in) + (IF t.generic THEN 1 ELSE 0)
             /\ ~t.generic => rt = t.in
             /\ t.generic /\ t.method /\ ~t.before120 => Len(rt) >= 2 /\ rt[2] = GenericInfo
             /\ Ordinary(t) \subseteq DOMAIN rt
<1>1. GenericInfo \in Types
  BY GoTypeAssumption DEF Types
<1>2. CASE t.generic /\ t.method /\ ~t.before120
  <2>. DEFINE rt == <<t.in[1], GenericInfo>> \o Tail(t.in)
  <2>1. t.in[1] \in Types /\ Tail(t.in) \in Seq(Types) /\ Len(Tail(t.in)) = Len(t.in) - 1
    BY <1>2
  <2>2. rt \in Seq(Types) /\ Len(rt) = Len(t.in) + 1 /\ rt[2] = GenericInfo /\ Len(rt) >= 2
    BY <1>1, <1>2, <2>1
  <2>3. RuntimeTargetType(t) = rt
    BY <1>2 DEF RuntimeTargetType, RuntimeTargetType120
  <2>. HIDE DEF rt
  <2>. QED BY <1>2, <2>2, <2>3 DEF Ordinary
<1>3. CASE t.generic /\ ~(t.method /\ ~t.before120)
  <2>. DEFINE rt == <<GenericInfo>> \o t.in
  <2>1. rt \in Seq(Types) /\ Len(rt) = Len(t.in) + 1
    BY <1>1
  <2>2. RuntimeTargetType(t) = rt
    BY <1>3 DEF RuntimeTargetType, RuntimeTargetType120, RuntimeTargetTypeBelow120
  <2>. HIDE DEF rt
  <2>. QED BY <1>3, <2>1, <2>2 DEF Ordinary
<1>4. CASE ~t.generic
  BY <1>4 DEF RuntimeTargetType, RuntimeTargetType120, RuntimeTargetTypeBelow120, Ordinary
<1>. QED BY <1>2, <1>3, <1>4

(* Whatever InputAdapter accepts, it adapts rightly. *)
LEMMA AdapterFits ==
  ASSUME NEW t, t.in \in Seq(Types), t.method => t.in # << >>,
         NEW form \in Seq(Types), Adapter(t, form).ok
  PROVE  LET rt == RuntimeTargetType(t)
             a == Adapter(t, form)
         IN  /\ Fits(rt, form, a)
             /\ TakesAll(t, form) => InOrder(rt, form, a, Ordinary(t))
<1>. DEFINE rt == RuntimeTargetType(t)
            a == Adapter(t, form)
            ord == Ordinary(t)
            Done == Fits(rt, form, a) /\ (TakesAll(t, form) => InOrder(rt, form, a, ord))
<1>1. /\ rt \in Seq(Types) /\ ord \in SUBSET DOMAIN rt
      /\ Len(rt) = Len(t.in) + (IF t.generic THEN 1 ELSE 0) /\ Len(t.in) \in Nat /\ Len(form) \in Nat
      /\ ~t.generic => rt = t.in
      /\ t.generic /\ t.method /\ ~t.before120 => Len(rt) >= 2 /\ rt[2] = GenericInfo
  <2>1. /\ rt \in Seq(Types) /\ ord \in SUBSET DOMAIN rt
        /\ Len(rt) = Len(t.in) + (IF t.generic THEN 1 ELSE 0)
        /\ ~t.generic => rt = t.in
        /\ t.generic /\ t.method /\ ~t.before120 => Len(rt) >= 2 /\ rt[2] = GenericInfo
    BY TargetTypes, Zenon
  <2>2. Len(t.in) \in Nat /\ Len(form) \in Nat
    OBVIOUS
  <2>. HIDE DEF rt, ord
  <2>. QED BY <2>1, <2>2, Zenon
<1>7. \A x, y, k, l : CheckFuncArgs(x, y, k, l) => Len(x) - k = Len(y) - l
  BY DEF CheckFuncArgs
<1>8. a.ok
  OBVIOUS
<1>2. /\ t.generic /\ ~t.method => 1 \notin ord
      /\ t.generic /\ t.before120 => 1 \notin ord
      /\ t.generic /\ t.method => {1, 2} \cap ord = {}
      /\ ~t.generic /\ t.method => 1 \notin ord
  BY DEF Ordinary, Dictionary, Receiver
<1>. HIDE DEF rt, a, ord
<1>3. ASSUME CheckFuncArgs(rt, form, 0, 0)
      PROVE  Done
  <2>1. a = Same(Len(form))
    BY <1>3 DEF a, rt, Adapter, Adapter120, AdapterBelow120
  <2>. QED BY <1>1, <1>3, <2>1, SameFits
<1>4. ASSUME ~CheckFuncArgs(rt, form, 0, 0), t.before120
      PROVE  Done
  <2>1. CASE CheckFuncArgs(rt, form, 1, 0)
    <3>1. a = DropFirst(Len(rt))
      BY <1>4, <2>1 DEF a, rt, Adapter, AdapterBelow120
    <3>2. TakesAll(t, form) => t.generic \/ t.method
      BY <1>1, <1>7, <2>1 DEF TakesAll
    <3>3. TakesAll(t, form) => 1 \notin ord
      BY <1>2, <1>4, <3>2
    <3>. QED BY <1>1, <2>1, <3>1, <3>3, DropFirstFits
  <2>2. CASE ~CheckFuncArgs(rt, form, 1, 0)
    <3>1. a = If(t.generic /\ CheckFuncArgs(rt, form, 2, 0), DropBoth(Len(rt)))
      BY <1>4, <2>2 DEF a, rt, Adapter, AdapterBelow120
    <3>2. t.generic /\ CheckFuncArgs(rt, form, 2, 0) /\ a = DropBoth(Len(rt))
      BY <3>1, <1>8 DEF If, Refused
    <3>3. TakesAll(t, form) => t.method
      BY <1>1, <1>7, <3>2 DEF TakesAll
    <3>4. TakesAll(t, form) => {1, 2} \cap ord = {}
      BY <1>2, <3>2, <3>3
    <3>. QED BY <1>1, <3>2, <3>4, DropBothFits
  <2>. QED BY <2>1, <2>2
<1>5. ASSUME ~CheckFuncArgs(rt, form, 0, 0), ~t.before120, ~t.generic
      PROVE  Done
  <2>1. a = If(CheckFuncArgs(t.in, form, 1, 0), DropFirst(Len(t.in)))
    BY <1>5 DEF a, rt, Adapter, Adapter120, nonGenericAnalyzer
  <2>2. CheckFuncArgs(rt, form, 1, 0) /\ a = DropFirst(Len(rt))
    BY <1>1, <1>5, <2>1, <1>8 DEF If, Refused
  <2>3. TakesAll(t, form) => t.method
    BY <1>1, <1>5, <1>7, <2>2 DEF TakesAll
  <2>4. TakesAll(t, form) => 1 \notin ord
    BY <1>2, <1>5, <2>3
  <2>. QED BY <1>1, <2>2, <2>4, DropFirstFits
<1>6. ASSUME ~CheckFuncArgs(rt, form, 0, 0), ~t.before120, t.generic
      PROVE  Done
  <2>1. a = genericAnalyzer(t, form)
    BY <1>6 DEF a, rt, Adapter, Adapter120
  <2>2. CASE ~t.method
    <3>1. a = If(CheckFuncArgs(rt, form, 1, 0), DropFirst(Len(rt)))
      BY <2>1, <2>2 DEF rt, genericAnalyzer
    <3>2. CheckFuncArgs(rt, form, 1, 0) /\ a = DropFirst(Len(rt))
      BY <3>1, <1>8 DEF If, Refused
    <3>3. 1 \notin ord
      BY <1>2, <1>6, <2>2
    <3>. QED BY <1>1, <3>2, <3>3, DropFirstFits
  <2>3. ASSUME t.method, Len(form) >= 2, form[1] = GenericInfo
        PROVE  Done
    <3>1. a = If(form[2] = rt[1] /\ CheckFuncArgs(rt, form, 2, 2), DictionaryFirst(Len(rt)))
      BY <2>1, <2>3 DEF rt, genericAnalyzer
    <3>2. form[2] = rt[1] /\ CheckFuncArgs(rt, form, 2, 2) /\ a = DictionaryFirst(Len(rt))
      BY <3>1, <1>8 DEF If, Refused
    <3>3. {1, 2} \cap ord = {} /\ form[1] = rt[2]
      BY <1>1, <1>2, <1>6, <2>3
    <3>. QED BY <1>1, <2>3, <3>2, <3>3, DictionaryFirstFits
  <2>4. ASSUME t.method, ~(Len(form) >= 2 /\ form[1] = GenericInfo), Len(form) >= 1, form[1] = rt[1]
        PROVE  Done
    <3>1. a = If(CheckFuncArgs(rt, form, 2, 1), WithoutDictionary(Len(rt)))
      BY <2>1, <2>4 DEF rt, genericAnalyzer
    <3>2. CheckFuncArgs(rt, form, 2, 1) /\ a = WithoutDictionary(Len(rt))
      BY <3>1, <1>8 DEF If, Refused
    <3>3. {1, 2} \cap ord = {}
      BY <1>2, <1>6, <2>4
    <3>. QED BY <1>1, <2>4, <3>2, <3>3, WithoutDictionaryFits
  <2>5. ASSUME t.method, ~(Len(form) >= 2 /\ form[1] = GenericInfo), ~(Len(form) >= 1 /\ form[1] = rt[1])
        PROVE  Done
    <3>1. a = If(CheckFuncArgs(rt, form, 2, 0), DropBoth(Len(rt)))
      BY <2>1, <2>5 DEF rt, genericAnalyzer
    <3>2. CheckFuncArgs(rt, form, 2, 0) /\ a = DropBoth(Len(rt))
      BY <3>1, <1>8 DEF If, Refused
    <3>3. {1, 2} \cap ord = {}
      BY <1>2, <1>6, <2>5
    <3>. QED BY <1>1, <3>2, <3>3, DropBothFits
  <2>. QED BY <2>2, <2>3, <2>4, <2>5
<1>. QED BY <1>3, <1>4, <1>5, <1>6 DEF rt, a, ord

-----------------------------------------------------------------------------
(* The calls and the frames.                                               *)

TargetIn == RuntimeTargetType(setup.target)
CallSet == [hi : Stacks, strayed : BOOLEAN, args : [DOMAIN TargetIn -> ArgSet]]
FrameSet == [call : Nat, run : {"mockerHook", "when", "hook", "original", "origin"}, next : Nat]
(* A call has an argument for every parameter of the target, ...           *)
RightArgs(c) ==
  \A i \in DOMAIN TargetIn :
    c.args[i].type = TargetIn[i] /\ c.args[i].obj = i /\ KeepsNumbers(c.args[i])
(* ... and while its hook runs they are where its guard knows them to be,  *)
(* if they were when it was made.                                          *)
Live(c) == ~c.strayed => \A i \in DOMAIN TargetIn : Current(c.args[i], c.hi)

(* The invariant.  While a hook runs, its call's guard knows the stack its  *)
(* arguments may point into: the guard takes note of a stack only together *)
(* with Fix, except at the end, when no hook of the call runs any more.    *)
StateInv ==
  /\ setup \in Setups /\ stack \in Stacks
  /\ calls \in Seq(CallSet) /\ Len(calls) <= MaxCalls /\ getter = Len(calls)
  /\ frames \in Seq(FrameSet) /\ Len(frames) <= MaxDepth
CallsInv == \A n \in DOMAIN calls : RightArgs(calls[n])
(* Each call has one frame of its hook; frames of Origin may be many. *)
IsHook(f) == f.run # "origin"
FramesInv ==
  /\ \A i \in DOMAIN frames : frames[i].call \in DOMAIN calls
  /\ \A i, j \in DOMAIN frames :
       IsHook(frames[i]) /\ IsHook(frames[j]) /\ frames[i].call = frames[j].call => i = j
  /\ \A i \in DOMAIN frames : IsHook(frames[i]) => Live(calls[frames[i].call])
(* A reflect call is made with arguments in reach. *)
UsedInv ==
  /\ used.call = used.from /\ ~used.strayed =>
       \A i \in DOMAIN used.args : Current(used.args[i], used.at)
  /\ \A i \in DOMAIN used.args : KeepsNumbers(used.args[i])
ArgsInv == StateInv /\ CallsInv /\ FramesInv /\ UsedInv

(* What is mocked, and by what, fits together. *)
LEMMA SetupIsRight ==
  ASSUME setup \in Setups
  PROVE  /\ TargetIn \in Seq(Types) /\ DOMAIN TargetIn \subseteq Nat
         /\ setup.hook \in Seq(Types) /\ setup.origin \in Seq(Types)
         /\ \A form \in {setup.hook, setup.origin} :
              LET a == Adapter(setup.target, form)
              IN  /\ Fits(TargetIn, form, a)
                  /\ TakesAll(setup.target, form) => InOrder(TargetIn, form, a, Ordinary(setup.target))
<1>1. /\ setup.target.in \in Seq(Types) /\ setup.hook \in Seq(Types) /\ setup.origin \in Seq(Types)
      /\ setup.target.method => setup.target.in # << >>
      /\ Adapter(setup.target, setup.hook).ok /\ Adapter(setup.target, setup.origin).ok
  BY HookArgsAssumption DEF Types
<1>2. TargetIn \in Seq(Types)
  BY <1>1, TargetTypes DEF TargetIn
<1>3. DOMAIN TargetIn \subseteq Nat
  BY <1>2
<1>. QED BY <1>1, <1>2, <1>3, AdapterFits DEF TargetIn

(* Fix relocates every argument. *)
LEMMA FixIsRight ==
  ASSUME NEW D, NEW args \in [D -> ArgSet], NEW from \in Word, NEW to \in Word
  PROVE  LET f == Fix(args, from, to)
         IN  /\ f \in [D -> ArgSet]
             /\ \A i \in D : /\ f[i].type = args[i].type /\ f[i].obj = args[i].obj
                             /\ KeepsNumbers(args[i]) => KeepsNumbers(f[i])
                             /\ Current(args[i], from) \/ Current(args[i], to) => Current(f[i], to)
<1>1. \A i \in D : Fix(args, from, to)[i] = walkValue(args[i], from, to)
  BY DEF Fix
<1>2. Fix(args, from, to) = [i \in D |-> walkValue(args[i], from, to)]
  BY DEF Fix
<1>. QED BY <1>1, <1>2, WalkIsRight

(* A call whose arguments are fixed stays right, and its guard is current. *)
LEMMA FixedIsRight ==
  ASSUME setup \in Setups, NEW c \in CallSet, RightArgs(c), NEW s \in Stacks
  PROVE  LET d == Fixed(c, s)
         IN  d \in CallSet /\ RightArgs(d) /\ d.hi = s /\ d.strayed = c.strayed /\ (Live(c) => Live(d))
<1>. DEFINE f == Fix(c.args, c.hi, s)
            d == Fixed(c, s)
<1>1. c.args \in [DOMAIN TargetIn -> ArgSet] /\ c.hi \in Stacks /\ c.hi \in Word /\ s \in Word
  BY DEF CallSet, Word
<1>2. /\ f \in [DOMAIN TargetIn -> ArgSet]
      /\ \A i \in DOMAIN TargetIn :
           /\ f[i].type = c.args[i].type /\ f[i].obj = c.args[i].obj
           /\ KeepsNumbers(c.args[i]) => KeepsNumbers(f[i])
           /\ Current(c.args[i], c.hi) => Current(f[i], s)
  BY <1>1, FixIsRight
<1>3. d = [c EXCEPT !.args = f, !.hi = s]
  BY DEF Fixed
<1>. HIDE DEF f, d
<1>4. d.args = f /\ d.hi = s /\ d.strayed = c.strayed /\ d \in CallSet
  BY <1>2, <1>3 DEF CallSet
<1>5. RightArgs(d)
  BY <1>2, <1>4 DEF RightArgs
<1>6. Live(c) => Live(d)
  BY <1>2, <1>4 DEF Live
<1>. QED BY <1>4, <1>5, <1>6 DEF d

(* The innermost frame. *)
LEMMA TopIsRight ==
  ASSUME StateInv, CallsInv, FramesInv, frames # << >>
  PROVE  /\ Len(frames) \in DOMAIN frames /\ Top \in FrameSet /\ Top.call \in DOMAIN calls
         /\ calls[Top.call] \in CallSet /\ RightArgs(calls[Top.call])
         /\ IsHook(Top) => Live(calls[Top.call])
         /\ DOMAIN frames = 1 .. Len(frames) /\ DOMAIN calls = 1 .. Len(calls)
<1>1. Len(frames) \in DOMAIN frames /\ Top = frames[Len(frames)]
  BY DEF StateInv, Top
<1>. QED BY <1>1 DEF StateInv, CallsInv, FramesInv

(* What is known of a call n stays true when n is relocated, or replaced   *)
(* by a call that is still in reach if n's hook runs.                      *)
LEMMA ReplaceCall ==
  ASSUME StateInv, CallsInv, FramesInv, NEW n \in DOMAIN calls, NEW c \in CallSet, RightArgs(c),
         calls' = [calls EXCEPT ![n] = c], UNCHANGED setup
  PROVE  /\ calls' \in Seq(CallSet)' /\ Len(calls') = Len(calls) /\ DOMAIN calls' = DOMAIN calls
         /\ CallsInv'
         /\ \A m \in DOMAIN calls : calls'[m] = IF m = n THEN c ELSE calls[m]
         /\ \A d : Live(d)' <=> Live(d)
<1>1. TargetIn' = TargetIn
  BY DEF TargetIn
<1>2. CallSet' = CallSet
  BY <1>1 DEF CallSet
<1>3. calls' \in Seq(CallSet) /\ Len(calls') = Len(calls) /\ DOMAIN calls' = DOMAIN calls
      /\ \A m \in DOMAIN calls : calls'[m] = IF m = n THEN c ELSE calls[m]
  BY DEF StateInv
<1>4. \A d : (RightArgs(d)' <=> RightArgs(d)) /\ (Live(d)' <=> Live(d))
  BY <1>1 DEF RightArgs, Live
<1>5. CallsInv'
  BY <1>3, <1>4 DEF CallsInv
<1>. QED BY <1>2, <1>3, <1>4, <1>5

(* What hooks and originals are called with. *)
Seen == HookSeesTheCall /\ OriginGetsTheCall

(* Both speak of the mock and of the reflect call only. *)
LEMMA SeenStays ==
  ASSUME setup' = setup, used' = used, Seen
  PROVE  Seen'
<1>1. HookSeesTheCall'
  BY Zenon DEF Seen, HookSeesTheCall
<1>2. OriginGetsTheCall'
  BY Zenon DEF Seen, OriginGetsTheCall
<1>. QED BY <1>1, <1>2 DEF Seen

(* An action that makes no reflect call with arguments. *)
LEMMA NothingUsed ==
  ASSUME used' = NoUse
  PROVE  UsedInv' /\ Seen'
<1>1. used'.args = << >> /\ used'.to = "nothing"
  BY DEF NoUse
<1>2. UsedInv'
  BY <1>1 DEF UsedInv
<1>3. HookSeesTheCall' /\ OriginGetsTheCall'
  BY <1>1 DEF HookSeesTheCall, OriginGetsTheCall
<1>. QED BY <1>2, <1>3 DEF Seen

-----------------------------------------------------------------------------
(* The invariant is kept, action by action.                                *)

(* A reflect call with the arguments of the innermost hook.                *)
LEMMA UseKeeps ==
  ASSUME ArgsInv, frames # << >>, IsHook(Top),
         NEW run \in {"when", "hook", "original"}, NEW form,
         run = "original" \/ form = setup.hook,
         Use(run, form)
  PROVE  ArgsInv' /\ (HooksTakeAll => Seen')
<1>0. PICK found \in Stacks :
        LET n == Top.call
            c == Fixed(calls[n], found)
        IN  /\ ReserveStack
            /\ calls' = [calls EXCEPT ![n] = c]
            /\ used' = [to |-> run, call |-> n, from |-> n, at |-> stack',
                        strayed |-> c.strayed \/ stack' # found,
                        args |-> IF run = "original" THEN c.args
                                 ELSE InputAdapter(setup.target, form, c.args)]
            /\ frames' = [frames EXCEPT ![Len(frames)].run = run]
            /\ UNCHANGED <<setup, getter>>
  BY DEF Use
<1>. DEFINE n == Top.call
            c == Fixed(calls[n], found)
            a == Adapter(setup.target, form)
<1>1. /\ stack' \in Stacks /\ setup' = setup /\ getter' = getter
      /\ calls' = [calls EXCEPT ![n] = c]
      /\ used' = [to |-> run, call |-> n, from |-> n, at |-> stack',
                  strayed |-> c.strayed \/ stack' # found,
                  args |-> IF run = "original" THEN c.args
                           ELSE InputAdapter(setup.target, form, c.args)]
      /\ frames' = [frames EXCEPT ![Len(frames)].run = run]
  BY <1>0 DEF ReserveStack
<1>2. /\ Len(frames) \in DOMAIN frames /\ Top \in FrameSet /\ n \in DOMAIN calls
      /\ calls[n] \in CallSet /\ RightArgs(calls[n]) /\ Live(calls[n])
  BY TopIsRight DEF ArgsInv
<1>3. setup \in Setups
  BY DEF ArgsInv, StateInv
<1>4. c \in CallSet /\ RightArgs(c) /\ c.hi = found /\ Live(c)
  BY <1>1, <1>2, <1>3, FixedIsRight
<1>. HIDE DEF c
<1>5. /\ calls' \in Seq(CallSet)' /\ Len(calls') = Len(calls) /\ DOMAIN calls' = DOMAIN calls
      /\ CallsInv' /\ \A m \in DOMAIN calls : calls'[m] = IF m = n THEN c ELSE calls[m]
      /\ \A d : Live(d)' <=> Live(d)
  BY <1>1, <1>2, <1>4, ReplaceCall DEF ArgsInv
<1>6. /\ frames' \in Seq(FrameSet) /\ Len(frames') = Len(frames) /\ DOMAIN frames' = DOMAIN frames
      /\ \A i \in DOMAIN frames : frames'[i].call = frames[i].call /\ (IsHook(frames'[i]) <=> IsHook(frames[i]))
  <2>1. frames \in Seq(FrameSet)
    BY DEF ArgsInv, StateInv
  <2>2. \A i \in DOMAIN frames : frames'[i] = IF i = Len(frames) THEN [frames[i] EXCEPT !.run = run] ELSE frames[i]
    BY <1>1, <1>2, <2>1
  <2>3. \A i \in DOMAIN frames : frames[i] \in FrameSet
    BY <2>1
  <2>4. frames' \in Seq(FrameSet) /\ Len(frames') = Len(frames) /\ DOMAIN frames' = DOMAIN frames
    BY <1>1, <1>2, <2>1, <2>3 DEF FrameSet
  <2>. QED BY <2>2, <2>3, <2>4 DEF FrameSet, IsHook, Top
<1>7. StateInv'
  BY <1>1, <1>5, <1>6 DEF ArgsInv, StateInv, FrameSet
<1>8. FramesInv'
  BY <1>4, <1>5, <1>6 DEF ArgsInv, FramesInv
<1>9. /\ c.args \in [DOMAIN TargetIn -> ArgSet]
      /\ \A i \in DOMAIN TargetIn :
           c.args[i].type = TargetIn[i] /\ c.args[i].obj = i /\ KeepsNumbers(c.args[i])
           /\ (~c.strayed => Current(c.args[i], found))
  BY <1>4 DEF CallSet, RightArgs, Live
<1>10. ASSUME run # "original"
       PROVE  /\ form = setup.hook /\ setup.hook \in Seq(Types)
              /\ Fits(TargetIn, form, a)
              /\ HooksTakeAll => InOrder(TargetIn, form, a, Ordinary(setup.target))
              /\ DOMAIN used'.args = DOMAIN form
              /\ \A i \in DOMAIN form : used'.args[i] = c.args[a.take[i]] /\ a.take[i] \in DOMAIN TargetIn
  <2>1. form = setup.hook
    BY <1>10
  <2>2. /\ setup.hook \in Seq(Types) /\ Fits(TargetIn, form, a)
        /\ HooksTakeAll => InOrder(TargetIn, form, a, Ordinary(setup.target))
    BY <1>3, <2>1, SetupIsRight DEF HooksTakeAll
  <2>3. used'.args = [i \in DOMAIN form |-> c.args[a.take[i]]]
    BY <1>1, <1>10 DEF InputAdapter
  <2>4. \A i \in DOMAIN form : a.take[i] \in DOMAIN TargetIn
    BY <2>2 DEF Fits
  <2>. HIDE DEF a
  <2>. QED BY <2>1, <2>2, <2>3, <2>4
<1>11. UsedInv'
  <2>1. \A i \in DOMAIN used'.args :
          KeepsNumbers(used'.args[i]) /\ (~c.strayed => Current(used'.args[i], found))
    <3>1. CASE run = "original"
      BY <1>1, <1>9, <3>1
    <3>2. CASE run # "original"
      BY <1>9, <1>10, <3>2
    <3>. QED BY <3>1, <3>2
  <2>2. used'.at = stack' /\ (~used'.strayed => ~c.strayed /\ stack' = found)
    BY <1>1
  <2>. QED BY <2>1, <2>2 DEF UsedInv, KeepsNumbers, Current, PointersOf
<1>12. ASSUME HooksTakeAll
       PROVE  HookSeesTheCall'
  <2>. SUFFICES ASSUME run # "original" PROVE HookSeesTheCall'
    BY <1>1 DEF HookSeesTheCall
  <2>. DEFINE ordinary == Ordinary(setup.target)
              got == [i \in DOMAIN used'.args |-> used'.args[i].obj]
  <2>1. DOMAIN got = DOMAIN form /\ \A i \in DOMAIN form : got[i] = a.take[i] /\ used'.args[i].type = form[i]
    BY <1>9, <1>10 DEF Fits
  <2>2. form \in Seq(Types) /\ setup'.hook = form
    BY <1>1, <1>10
  <2>3. [i \in DOMAIN used'.args |-> used'.args[i].type] = form
    <3>1. DOMAIN used'.args = DOMAIN form
      BY <1>10
    <3>2. form = [i \in DOMAIN form |-> form[i]]
      BY <2>2
    <3>. QED BY <2>1, <3>1, <3>2, Zenon
  <2>. HIDE DEF got, ordinary, a
  <2>4. \A p \in ordinary : \E i \in DOMAIN got : got[i] = p
    BY <1>10, <1>12, <2>1 DEF InOrder, ordinary
  <2>5. \A i, j \in DOMAIN got : i < j /\ {got[i], got[j]} \subseteq ordinary => got[i] < got[j]
    BY <1>10, <1>12, <2>1 DEF InOrder, ordinary
  <2>6. \A i, j \in DOMAIN got : got[i] = got[j] => i = j
    BY <1>10, <1>12, <2>1 DEF InOrder
  <2>. QED BY <1>1, <2>2, <2>3, <2>4, <2>5, <2>6 DEF HookSeesTheCall, got, ordinary
<1>13. OriginGetsTheCall'
  BY <1>1 DEF OriginGetsTheCall
<1>. QED BY <1>5, <1>7, <1>8, <1>11, <1>12, <1>13 DEF ArgsInv, Seen

(* The target is called, and its hook begins. *)
LEMMA EnterKeeps ==
  ASSUME ArgsInv, EnterHook
  PROVE  ArgsInv' /\ Seen'
<1>. DEFINE N == Len(calls) + 1
<1>1. PICK at \in {Heap, stack} :
        calls' = Append(calls,
          [hi |-> stack', strayed |-> stack' # stack, args |->
            [i \in DOMAIN TargetIn |-> Value(TargetIn[i], i, stack, at)]])
  BY DEF EnterHook, TargetIn
<1>. DEFINE c == [hi |-> stack', strayed |-> stack' # stack, args |->
                   [i \in DOMAIN TargetIn |-> Value(TargetIn[i], i, stack, at)]]
<1>2. /\ setup \in Setups /\ stack \in Stacks /\ stack' \in Stacks
      /\ calls \in Seq(CallSet) /\ frames \in Seq(FrameSet)
      /\ Len(calls) + 1 <= MaxCalls /\ Len(frames) + 1 <= MaxDepth
      /\ TargetIn \in Seq(Types)
  BY HookArgsAssumption, SetupIsRight DEF ArgsInv, StateInv, EnterHook
<1>3. \A i \in DOMAIN TargetIn :
        LET v == Value(TargetIn[i], i, stack, at)
        IN  v \in ArgSet /\ v.type = TargetIn[i] /\ v.obj = i /\ KeepsNumbers(v) /\ Current(v, stack)
  BY <1>2, SetupIsRight, ValueIsRight
<1>4. c \in CallSet /\ RightArgs(c) /\ Live(c)
  BY <1>2, <1>3 DEF CallSet, RightArgs, Live
<1>5. setup' = setup /\ used' = NoUse /\ getter' = N
      /\ calls' = Append(calls, c)
      /\ frames' = Append(frames, [call |-> N, run |-> "mockerHook", next |-> 1])
  BY <1>1 DEF EnterHook
<1>. HIDE DEF c
<1>6. TargetIn' = TargetIn /\ CallSet' = CallSet
  BY <1>5 DEF TargetIn, CallSet
<1>7. \A d : (RightArgs(d)' <=> RightArgs(d)) /\ (Live(d)' <=> Live(d))
  BY <1>6 DEF RightArgs, Live
<1>8. /\ calls' \in Seq(CallSet) /\ Len(calls') = N /\ DOMAIN calls' = 1 .. N /\ DOMAIN calls = 1 .. N - 1
      /\ N \in Nat \ {0} /\ \A n \in 1 .. N : calls'[n] = IF n = N THEN c ELSE calls[n]
  BY <1>2, <1>4, <1>5
<1>. DEFINE L == Len(frames) + 1
            f == [call |-> N, run |-> "mockerHook", next |-> 1]
<1>9. f \in FrameSet
  BY <1>2 DEF FrameSet
<1>10. /\ frames' \in Seq(FrameSet) /\ Len(frames') = L /\ DOMAIN frames' = 1 .. L /\ DOMAIN frames = 1 .. L - 1
       /\ \A i \in 1 .. L : frames'[i] = IF i = L THEN f ELSE frames[i]
  BY <1>2, <1>5, <1>9
<1>. HIDE DEF N, L
<1>11. StateInv'
  BY <1>2, <1>5, <1>6, <1>8, <1>10 DEF StateInv, FrameSet, N, L
<1>12. CallsInv'
  BY <1>4, <1>7, <1>8 DEF ArgsInv, CallsInv
<1>13. FramesInv'
  <2>1. \A i \in DOMAIN frames : frames[i].call \in 1 .. N - 1
    BY <1>8 DEF ArgsInv, FramesInv
  <2>2. \A i \in DOMAIN frames' : frames'[i].call \in DOMAIN calls'
    BY <1>8, <1>10, <2>1
  <2>3. ASSUME NEW i \in DOMAIN frames', NEW j \in DOMAIN frames',
               IsHook(frames'[i]), IsHook(frames'[j]), frames'[i].call = frames'[j].call
        PROVE  i = j
    <3>1. CASE i = L \/ j = L
      <4>1. \A k \in DOMAIN frames' : k # L => frames'[k].call \in 1 .. N - 1
        BY <1>10, <2>1
      <4>2. L \in DOMAIN frames' /\ frames'[L].call = N
        BY <1>2, <1>10 DEF L
      <4>. QED BY <1>8, <2>3, <3>1, <4>1, <4>2
    <3>2. CASE i # L /\ j # L
      BY <1>10, <2>3, <3>2 DEF ArgsInv, FramesInv
    <3>. QED BY <3>1, <3>2
  <2>4. ASSUME NEW i \in DOMAIN frames', IsHook(frames'[i])
        PROVE  Live(calls'[frames'[i].call])
    <3>1. CASE i = L
      <4>1. frames'[i].call = N /\ N \in 1 .. N
        BY <1>8, <1>10, <3>1
      <4>. QED BY <1>4, <1>8, <4>1
    <3>2. CASE i # L
      <4>1. i \in DOMAIN frames /\ frames'[i] = frames[i]
        BY <1>10, <3>2
      <4>2. Live(calls[frames[i].call])
        BY <2>4, <4>1 DEF ArgsInv, FramesInv
      <4>. QED BY <1>8, <2>1, <4>1, <4>2
    <3>. QED BY <3>1, <3>2
  <2>. QED BY <1>7, <2>2, <2>3, <2>4 DEF FramesInv
<1>14. UsedInv' /\ Seen'
  BY <1>5, NothingUsed
<1>. QED BY <1>11, <1>12, <1>13, <1>14 DEF ArgsInv

(* A hook calls origin. *)
LEMMA OriginKeeps ==
  ASSUME ArgsInv, CallOrigin
  PROVE  ArgsInv' /\ (HooksTakeAll => Seen')
<1>1. PICK hi \in Stacks, first \in Stacks, found \in Stacks, at \in {Heap, stack} :
        LET extra == Fixed(calls[getter], first)
            own == [i \in DOMAIN setup.origin |-> Value(setup.origin[i], -i, stack, at)]
            in == ReversedInputAdapter(setup.target, setup.origin, own, extra.args)
        IN  /\ calls' = [calls EXCEPT ![getter] = extra]
            /\ used' = [to |-> "origin", call |-> Top.call, from |-> getter,
                        args |-> Fix(in, hi, found), at |-> stack',
                        strayed |-> \/ extra.strayed \/ hi # stack
                                    \/ first \notin {hi, found} \/ stack' # found]
  BY DEF CallOrigin
<1>. DEFINE n == Top.call
            c == Fixed(calls[getter], first)
            a == Adapter(setup.target, setup.origin)
            form == setup.origin
<1>. DEFINE own == [i \in DOMAIN form |-> Value(form[i], -i, stack, at)]
            in == ReversedInputAdapter(setup.target, form, own, c.args)
            lost == c.strayed \/ hi # stack \/ first \notin {hi, found} \/ stack' # found
<1>0. /\ calls' = [calls EXCEPT ![getter] = c]
      /\ used' = [to |-> "origin", call |-> n, from |-> getter, args |-> Fix(in, hi, found),
                  at |-> stack', strayed |-> lost]
  BY <1>1
<1>. HIDE DEF lost
<1>2. /\ frames # << >> /\ Top.run = "hook" /\ stack' \in Stacks /\ setup' = setup /\ getter' = getter
      /\ Len(frames) < MaxDepth
      /\ frames' = Append(frames, [call |-> n, run |-> "origin", next |-> 0])
  BY DEF CallOrigin, Running, ReserveStack
<1>3. /\ setup \in Setups /\ stack \in Stacks /\ calls \in Seq(CallSet) /\ frames \in Seq(FrameSet)
      /\ getter = Len(calls)
  BY DEF ArgsInv, StateInv
<1>4. /\ Len(frames) \in DOMAIN frames /\ Top \in FrameSet /\ n \in DOMAIN calls
      /\ DOMAIN calls = 1 .. Len(calls) /\ Live(calls[n])
  BY <1>2, TopIsRight DEF ArgsInv, IsHook
<1>5. getter \in DOMAIN calls /\ calls[getter] \in CallSet /\ RightArgs(calls[getter])
  BY <1>3, <1>4 DEF ArgsInv, CallsInv
<1>6. c \in CallSet /\ RightArgs(c) /\ c.hi = first
      /\ c.strayed = calls[getter].strayed /\ (Live(calls[getter]) => Live(c))
  BY <1>2, <1>3, <1>5, FixedIsRight
<1>. HIDE DEF c
<1>7. /\ calls' \in Seq(CallSet)' /\ Len(calls') = Len(calls) /\ DOMAIN calls' = DOMAIN calls
      /\ CallsInv' /\ \A m \in DOMAIN calls : calls'[m] = IF m = getter THEN c ELSE calls[m]
      /\ \A d : Live(d)' <=> Live(d)
  BY <1>0, <1>2, <1>5, <1>6, ReplaceCall DEF ArgsInv
<1>. DEFINE L == Len(frames) + 1
            f == [call |-> n, run |-> "origin", next |-> 0]
<1>8. /\ frames' \in Seq(FrameSet) /\ Len(frames') = L /\ DOMAIN frames' = 1 .. L /\ DOMAIN frames = 1 .. L - 1
      /\ \A i \in 1 .. L : frames'[i] = IF i = L THEN f ELSE frames[i]
  <2>1. f \in FrameSet
    BY <1>4 DEF FrameSet
  <2>. QED BY <1>2, <1>3, <2>1
<1>9. StateInv'
  BY <1>2, <1>3, <1>7, <1>8, HookArgsAssumption DEF ArgsInv, StateInv, FrameSet
<1>. HIDE DEF L
<1>10. FramesInv'
  <2>1. ~IsHook(f)
    BY DEF IsHook
  <2>2. \A i \in DOMAIN frames' : i = L \/ (i \in DOMAIN frames /\ frames'[i] = frames[i])
    BY <1>8 DEF L
  <2>3. f.call = n
    OBVIOUS
  <2>. HIDE DEF f
  <2>4. \A i \in DOMAIN frames' : frames'[i].call \in DOMAIN calls'
    BY <1>4, <1>7, <1>8, <2>2, <2>3 DEF ArgsInv, FramesInv
  <2>5. \A i \in DOMAIN frames' : IsHook(frames'[i]) => i \in DOMAIN frames /\ frames'[i] = frames[i]
    BY <1>8, <2>1, <2>2
  <2>6. ASSUME NEW i \in DOMAIN frames', IsHook(frames'[i])
        PROVE  Live(calls'[frames'[i].call])
    <3>1. i \in DOMAIN frames /\ frames'[i] = frames[i] /\ IsHook(frames[i])
      BY <2>5, <2>6
    <3>2. Live(calls[frames[i].call]) /\ frames[i].call \in DOMAIN calls
      BY <3>1 DEF ArgsInv, FramesInv
    <3>. QED BY <1>6, <1>7, <3>1, <3>2
  <2>7. ASSUME NEW i \in DOMAIN frames', NEW j \in DOMAIN frames',
               IsHook(frames'[i]), IsHook(frames'[j]), frames'[i].call = frames'[j].call
        PROVE  i = j
    BY <2>5, <2>7 DEF ArgsInv, FramesInv
  <2>. QED BY <1>7, <2>4, <2>6, <2>7 DEF FramesInv
<1>. DEFINE rt == TargetIn
<1>11. /\ form \in Seq(Types) /\ rt \in Seq(Types) /\ DOMAIN rt \subseteq Nat /\ Fits(rt, form, a)
       /\ HooksTakeAll => InOrder(rt, form, a, Ordinary(setup.target))
  BY <1>3, SetupIsRight DEF HooksTakeAll
<1>12. \A k \in DOMAIN form :
         /\ own[k] \in ArgSet /\ own[k].type = form[k] /\ own[k].obj = -k
         /\ KeepsNumbers(own[k]) /\ Current(own[k], stack)
  BY <1>3, <1>11, ValueIsRight
<1>13. \A i \in DOMAIN rt :
         /\ c.args[i] \in ArgSet /\ c.args[i].type = rt[i] /\ c.args[i].obj = i
         /\ KeepsNumbers(c.args[i]) /\ (Live(c) /\ ~c.strayed => Current(c.args[i], first))
  BY <1>6 DEF CallSet, RightArgs, Live
<1>. HIDE DEF own
<1>14. DOMAIN in = DOMAIN rt /\ \A i \in DOMAIN rt :
         in[i] = IF a.back[i][1] = "own" THEN own[a.back[i][2]] ELSE c.args[a.back[i][2]]
  BY DEF ReversedInputAdapter, TargetIn
<1>15. \A i \in DOMAIN rt :
         \/ a.back[i] = Extra(i) /\ in[i] = c.args[i]
         \/ \E k \in DOMAIN form : a.back[i] = <<"own", k>> /\ form[k] = rt[i] /\ in[i] = own[k]
  BY <1>11, <1>14 DEF Fits, Extra
<1>16. in = [i \in DOMAIN rt |-> in[i]]
  BY DEF ReversedInputAdapter, TargetIn
<1>. HIDE DEF in, a, rt, form
<1>17. in \in [DOMAIN rt -> ArgSet]
  BY <1>12, <1>13, <1>15, <1>16
<1>. DEFINE out == Fix(in, hi, found)
<1>18. /\ out \in [DOMAIN rt -> ArgSet]
       /\ \A i \in DOMAIN rt : /\ out[i].type = in[i].type /\ out[i].obj = in[i].obj
                               /\ KeepsNumbers(in[i]) => KeepsNumbers(out[i])
                               /\ Current(in[i], hi) \/ Current(in[i], found) => Current(out[i], found)
  BY <1>2, <1>3, <1>17, FixIsRight DEF Word
<1>. HIDE DEF out
<1>19. used' = [to |-> "origin", call |-> n, from |-> getter, args |-> out, at |-> stack',
                strayed |-> lost]
  BY <1>0 DEF out
<1>20. UsedInv'
  <2>1. \A i \in DOMAIN rt : KeepsNumbers(out[i])
    BY <1>12, <1>13, <1>15, <1>18
  <2>2. n = getter => Live(c)
    BY <1>4, <1>6
  <2>3. ASSUME n = getter, ~lost, NEW i \in DOMAIN rt
        PROVE  Current(out[i], stack')
    <3>1. ~c.strayed /\ hi = stack /\ (first = hi \/ first = found) /\ stack' = found /\ Live(c)
      BY <2>2, <2>3 DEF lost
    <3>2. Current(in[i], hi) \/ Current(in[i], found)
      BY <1>12, <1>13, <1>15, <3>1
    <3>. QED BY <1>18, <3>1, <3>2
  <2>4. \A i \in DOMAIN used'.args : KeepsNumbers(used'.args[i])
    BY <1>18, <1>19, <2>1
  <2>5. used'.call = used'.from /\ ~used'.strayed => \A i \in DOMAIN used'.args : Current(used'.args[i], used'.at)
    BY <1>18, <1>19, <2>3
  <2>. QED BY <2>4, <2>5 DEF UsedInv, KeepsNumbers, Current, PointersOf
<1>21. HookSeesTheCall'
  BY <1>19 DEF HookSeesTheCall
<1>22. ASSUME HooksTakeAll
       PROVE  OriginGetsTheCall'
  <2>. DEFINE ordinary == Ordinary(setup.target)
              got == [i \in DOMAIN used'.args |-> used'.args[i].obj]
  <2>1. DOMAIN got = DOMAIN rt /\ \A i \in DOMAIN rt : got[i] = in[i].obj /\ used'.args[i].type = in[i].type
    BY <1>18, <1>19
  <2>. HIDE DEF got
  <2>2. [i \in DOMAIN used'.args |-> used'.args[i].type] = rt
    <3>1. DOMAIN used'.args = DOMAIN rt
      BY <1>18, <1>19
    <3>2. rt = [i \in DOMAIN rt |-> rt[i]]
      BY <1>11
    <3>3. \A i \in DOMAIN rt : in[i].type = rt[i]
      BY <1>12, <1>13, <1>15
    <3>4. \A i \in DOMAIN rt : used'.args[i].type = rt[i]
      BY <2>1, <3>3
    <3>. QED BY <3>1, <3>2, <3>4, Zenon
  <2>3. InOrder(rt, form, a, ordinary) /\ ordinary \subseteq DOMAIN rt
    BY <1>11, <1>22 DEF Ordinary, rt, TargetIn
  <2>. HIDE DEF got, ordinary
  <2>4. DOMAIN form \subseteq Nat \ {0}
    BY <1>11
  <2>5. \A i \in DOMAIN rt, k \in DOMAIN form : a.back[i] = <<"own", k>> => got[i] = -k
    BY <1>12, <1>15, <2>1 DEF Extra
  <2>6. \A i \in DOMAIN got : got[i] = i \/ -got[i] \in DOMAIN form
    <3>1. ASSUME NEW i \in DOMAIN rt, NEW k \in DOMAIN form, got[i] = -k
          PROVE  -got[i] \in DOMAIN form
      BY <2>4, <3>1
    <3>. QED BY <1>13, <1>15, <2>1, <2>5, <3>1
  <2>7. \A k \in DOMAIN form : \E i \in DOMAIN got : got[i] = -k
    <3>1. \A k \in DOMAIN form : \E i \in DOMAIN rt : a.back[i] = <<"own", k>>
      BY <2>3 DEF InOrder
    <3>. QED BY <2>1, <2>5, <3>1
  <2>8. \A i \in ordinary : \E k \in DOMAIN form : a.back[i] = <<"own", k>> /\ got[i] = -k
    BY <2>3, <2>5 DEF InOrder
  <2>9. \A i \in ordinary : got[i] < 0
    BY <2>4, <2>8
  <2>10. ASSUME NEW i \in ordinary, NEW j \in ordinary, i < j
         PROVE  got[j] < got[i]
    <3>1. PICK k \in DOMAIN form : a.back[i] = <<"own", k>> /\ got[i] = -k
      BY <2>8
    <3>2. PICK l \in DOMAIN form : a.back[j] = <<"own", l>> /\ got[j] = -l
      BY <2>8
    <3>3. k < l
      BY <2>3, <2>10, <3>1, <3>2 DEF InOrder
    <3>. QED BY <2>4, <3>1, <3>2, <3>3
  <2>11. setup'.target = setup.target /\ RuntimeTargetType(setup'.target) = rt /\ setup'.origin = form
    BY <1>2 DEF rt, TargetIn, form
  <2>. QED BY <2>2, <2>6, <2>7, <2>9, <2>10, <2>11 DEF OriginGetsTheCall, got, ordinary
<1>. QED BY <1>7, <1>9, <1>10, <1>20, <1>21, <1>22 DEF ArgsInv, Seen

(* A prefix of a sequence. *)
LEMMA PrefixIs ==
  ASSUME NEW S, NEW s \in Seq(S), NEW n \in 0 .. Len(s)
  PROVE  /\ SubSeq(s, 1, n) \in Seq(S) /\ Len(SubSeq(s, 1, n)) = n
         /\ \A i \in 1 .. n : SubSeq(s, 1, n)[i] = s[i]
<1>. DEFINE p == SubSeq(s, 1, n)
<1>1. p = [i \in 1 .. n |-> s[i]]
  OBVIOUS
<1>. HIDE DEF p
<1>2. n \in Nat /\ \A i \in 1 .. n : s[i] \in S
  OBVIOUS
<1>3. p \in [1 .. n -> S]
  BY <1>1, <1>2
<1>4. p \in Seq(S) /\ Len(p) = n
  BY <1>2, <1>3
<1>5. \A i \in 1 .. n : p[i] = s[i]
  BY <1>1
<1>. QED BY <1>4, <1>5 DEF p

(* The innermost frame is gone. *)
LEMMA PopIsRight ==
  ASSUME frames \in Seq(FrameSet), frames # << >>, frames' = SubSeq(frames, 1, Len(frames) - 1)
  PROVE  /\ frames' \in Seq(FrameSet) /\ Len(frames') = Len(frames) - 1 /\ Len(frames) \in Nat \ {0}
         /\ DOMAIN frames' = 1 .. Len(frames) - 1 /\ DOMAIN frames = 1 .. Len(frames)
         /\ \A i \in DOMAIN frames' : i \in DOMAIN frames /\ i # Len(frames) /\ frames'[i] = frames[i]
<1>. DEFINE m == Len(frames)
<1>1. m \in Nat \ {0} /\ DOMAIN frames = 1 .. m
  OBVIOUS
<1>2. frames' = SubSeq(frames, 1, m - 1) /\ (m - 1 \in 0 .. m => m - 1 \in 0 .. Len(frames))
  OBVIOUS
<1>. HIDE DEF m
<1>3. m - 1 \in 0 .. m /\ \A i \in 1 .. m - 1 : i \in 1 .. m /\ i # m
  BY <1>1
<1>4. /\ frames' \in Seq(FrameSet) /\ Len(frames') = m - 1
      /\ \A i \in 1 .. m - 1 : frames'[i] = frames[i]
  BY <1>2, <1>3, PrefixIs
<1>5. DOMAIN frames' = 1 .. m - 1
  BY <1>3, <1>4
<1>6. \A i \in DOMAIN frames' : i \in DOMAIN frames /\ i # m /\ frames'[i] = frames[i]
  BY <1>1, <1>3, <1>4, <1>5
<1>. QED BY <1>1, <1>4, <1>5, <1>6 DEF m

(* What WhenReturns makes of a frame. *)
LEMMA NextCondition ==
  ASSUME NEW g \in FrameSet
  PROVE  LET f == [g EXCEPT !.run = "mockerHook", !.next = g.next + 1]
         IN  f \in FrameSet /\ f.call = g.call /\ IsHook(f)
<1>. DEFINE f == [g EXCEPT !.run = "mockerHook", !.next = g.next + 1]
<1>. DEFINE k == g.next + 1
<1>1. k \in Nat
  BY DEF FrameSet
<1>2. f = [g EXCEPT !.run = "mockerHook", !.next = k]
  OBVIOUS
<1>. HIDE DEF f, k
<1>3. f.run = "mockerHook" /\ f.call = g.call /\ f \in FrameSet
  BY <1>1, <1>2 DEF FrameSet
<1>. QED BY <1>3 DEF IsHook, f

(* Origin returns to the hook that called it. *)
LEMMA OriginReturnsKeeps ==
  ASSUME ArgsInv, OriginReturns
  PROVE  ArgsInv' /\ Seen'
<1>1. /\ frames # << >> /\ stack' \in Stacks
      /\ frames' = SubSeq(frames, 1, Len(frames) - 1)
      /\ setup' = setup /\ calls' = calls /\ getter' = getter /\ used' = NoUse
  BY DEF OriginReturns, Running, ReserveStack
<1>2. TargetIn' = TargetIn /\ CallSet' = CallSet
  BY <1>1 DEF TargetIn, CallSet
<1>3. \A d : (RightArgs(d)' <=> RightArgs(d)) /\ (Live(d)' <=> Live(d))
  BY <1>2 DEF RightArgs, Live
<1>4. /\ frames' \in Seq(FrameSet) /\ Len(frames') <= MaxDepth
      /\ \A i \in DOMAIN frames' : i \in DOMAIN frames /\ frames'[i] = frames[i]
  BY <1>1, PopIsRight, HookArgsAssumption DEF ArgsInv, StateInv
<1>5. StateInv'
  BY <1>1, <1>2, <1>4 DEF ArgsInv, StateInv, FrameSet
<1>6. CallsInv'
  BY <1>1, <1>3 DEF ArgsInv, CallsInv
<1>7. FramesInv'
  BY <1>1, <1>3, <1>4 DEF ArgsInv, FramesInv
<1>8. UsedInv' /\ Seen'
  BY <1>1, NothingUsed
<1>. QED BY <1>5, <1>6, <1>7, <1>8 DEF ArgsInv

(* The guard takes note of the stack only here, when nothing that runs      *)
(* needs the call's arguments any more.                                     *)
LEMMA HookReturnsKeeps ==
  ASSUME ArgsInv, HookReturns
  PROVE  ArgsInv' /\ Seen'
<1>0. PICK found \in Stacks :
        calls' = [calls EXCEPT ![Top.call].hi = stack',
                               ![Top.call].args = Fix(Fix(@, found, stack'), stack', Dropped)]
  BY DEF HookReturns
<1>. DEFINE n == Top.call
            e == Fix(calls[n].args, found, stack')
            f == Fix(e, stack', Dropped)
            c == [calls[n] EXCEPT !.hi = stack', !.args = f]
<1>1. /\ frames # << >> /\ Top.run \in {"hook", "original"} /\ stack' \in Stacks
      /\ frames' = SubSeq(frames, 1, Len(frames) - 1)
      /\ setup' = setup /\ getter' = getter /\ used' = NoUse
      /\ calls' = [calls EXCEPT ![n].hi = stack', ![n].args = Fix(Fix(@, found, stack'), stack', Dropped)]
  BY <1>0 DEF HookReturns, Running, ReserveStack
<1>2. /\ Len(frames) \in DOMAIN frames /\ Top \in FrameSet /\ n \in DOMAIN calls
      /\ calls[n] \in CallSet /\ RightArgs(calls[n])
  BY <1>1, TopIsRight DEF ArgsInv
<1>3. calls \in Seq(CallSet) /\ frames \in Seq(FrameSet) /\ Len(frames) <= MaxDepth
  BY DEF ArgsInv, StateInv
<1>4. calls[n].args \in [DOMAIN TargetIn -> ArgSet] /\ stack' \in Word /\ Dropped \in Word /\ found \in Word
  BY <1>1, <1>2 DEF CallSet, Word
<1>5. /\ f \in [DOMAIN TargetIn -> ArgSet]
      /\ \A i \in DOMAIN TargetIn :
           /\ f[i].type = calls[n].args[i].type /\ f[i].obj = calls[n].args[i].obj
           /\ KeepsNumbers(calls[n].args[i]) => KeepsNumbers(f[i])
  <2>. HIDE DEF n, e, f
  <2>0. \A args \in [DOMAIN TargetIn -> ArgSet], from, to \in Word :
          LET g == Fix(args, from, to)
          IN  /\ g \in [DOMAIN TargetIn -> ArgSet]
              /\ \A i \in DOMAIN TargetIn :
                   /\ g[i].type = args[i].type /\ g[i].obj = args[i].obj
                   /\ KeepsNumbers(args[i]) => KeepsNumbers(g[i])
    BY FixIsRight
  <2>1. /\ e \in [DOMAIN TargetIn -> ArgSet]
        /\ \A i \in DOMAIN TargetIn :
             /\ e[i].type = calls[n].args[i].type /\ e[i].obj = calls[n].args[i].obj
             /\ KeepsNumbers(calls[n].args[i]) => KeepsNumbers(e[i])
    BY <1>4, <2>0, Zenon DEF e
  <2>2. /\ f \in [DOMAIN TargetIn -> ArgSet]
        /\ \A i \in DOMAIN TargetIn :
             /\ f[i].type = e[i].type /\ f[i].obj = e[i].obj
             /\ KeepsNumbers(e[i]) => KeepsNumbers(f[i])
    BY <1>4, <2>0, <2>1, Zenon DEF f
  <2>. QED BY <2>1, <2>2
<1>6. calls' = [calls EXCEPT ![n] = c]
  BY <1>1, <1>2, <1>3
<1>7. c \in CallSet /\ RightArgs(c)
  <2>. HIDE DEF f, n
  <2>1. c \in CallSet /\ c.args = f
    <3>1. \A d \in CallSet : LET x == [d EXCEPT !.hi = stack', !.args = f] IN x \in CallSet /\ x.args = f
      <4>1. stack' \in Stacks /\ f \in [DOMAIN TargetIn -> ArgSet]
        BY <1>1, <1>5
      <4>. QED BY <4>1 DEF CallSet
    <3>2. calls[n] \in CallSet
      BY <1>2
    <3>. QED BY <3>1, <3>2, Zenon
  <2>. HIDE DEF c
  <2>. QED BY <1>2, <1>5, <2>1 DEF RightArgs
<1>. HIDE DEF f
<1>. HIDE DEF c
<1>8. /\ calls' \in Seq(CallSet)' /\ Len(calls') = Len(calls) /\ DOMAIN calls' = DOMAIN calls
      /\ CallsInv' /\ \A m \in DOMAIN calls : calls'[m] = IF m = n THEN c ELSE calls[m]
      /\ \A d : Live(d)' <=> Live(d)
  BY <1>1, <1>2, <1>6, <1>7, ReplaceCall DEF ArgsInv
<1>9. /\ frames' \in Seq(FrameSet) /\ Len(frames') <= MaxDepth
      /\ \A i \in DOMAIN frames' : i \in DOMAIN frames /\ i # Len(frames) /\ frames'[i] = frames[i]
  BY <1>1, <1>3, PopIsRight, HookArgsAssumption
<1>10. StateInv'
  BY <1>1, <1>8, <1>9 DEF ArgsInv, StateInv, FrameSet
<1>11. FramesInv'
  <2>1. \A i \in DOMAIN frames' : IsHook(frames'[i]) => frames'[i].call # n
    BY <1>1, <1>2, <1>9 DEF ArgsInv, FramesInv, IsHook, Top
  <2>2. ASSUME NEW i \in DOMAIN frames', IsHook(frames'[i])
        PROVE  Live(calls'[frames'[i].call])
    <3>1. frames'[i] = frames[i] /\ frames[i].call \in DOMAIN calls /\ Live(calls[frames[i].call])
      BY <1>9, <2>2 DEF ArgsInv, FramesInv
    <3>. QED BY <1>8, <2>1, <2>2, <3>1
  <2>. QED BY <1>8, <1>9, <2>2 DEF ArgsInv, FramesInv
<1>12. UsedInv' /\ Seen'
  BY <1>1, NothingUsed
<1>. QED BY <1>8, <1>10, <1>11, <1>12 DEF ArgsInv

(* A When function says no, or the stack moves under code that is not the  *)
(* hook's.                                                                 *)
LEMMA RestKeeps ==
  ASSUME ArgsInv, setup' = setup, calls' = calls, getter' = getter, used' \in {used, NoUse},
         stack' \in Stacks,
         \/ frames' = frames
         \/ /\ frames # << >> /\ IsHook(Top)
            /\ frames' = [frames EXCEPT ![Len(frames)] =
                            [Top EXCEPT !.run = "mockerHook", !.next = Top.next + 1]]
  PROVE  ArgsInv' /\ (Seen => Seen')
<1>1. TargetIn' = TargetIn /\ CallSet' = CallSet
  BY DEF TargetIn, CallSet
<1>2. \A d : (RightArgs(d)' <=> RightArgs(d)) /\ (Live(d)' <=> Live(d))
  BY <1>1 DEF RightArgs, Live
<1>3. /\ frames' \in Seq(FrameSet) /\ Len(frames') = Len(frames) /\ DOMAIN frames' = DOMAIN frames
      /\ \A i \in DOMAIN frames : frames'[i].call = frames[i].call /\ (IsHook(frames'[i]) <=> IsHook(frames[i]))
  <2>1. frames \in Seq(FrameSet)
    BY DEF ArgsInv, StateInv
  <2>2. CASE frames' = frames
    BY <2>1, <2>2
  <2>3. CASE frames' # frames
    <3>. DEFINE f == [Top EXCEPT !.run = "mockerHook", !.next = Top.next + 1]
    <3>1. frames # << >> /\ IsHook(Top) /\ frames' = [frames EXCEPT ![Len(frames)] = f]
      BY <2>3
    <3>2. Len(frames) \in DOMAIN frames /\ Top \in FrameSet /\ Top = frames[Len(frames)]
      BY <2>1, <3>1 DEF Top
    <3>3. f \in FrameSet /\ f.call = Top.call /\ IsHook(f)
      <4>1. \A g \in FrameSet : g = Top => f \in FrameSet /\ f.call = Top.call /\ IsHook(f)
        BY NextCondition, Zenon
      <4>. QED BY <3>2, <4>1
    <3>. HIDE DEF f
    <3>4. frames' \in Seq(FrameSet) /\ Len(frames') = Len(frames) /\ DOMAIN frames' = DOMAIN frames
          /\ \A i \in DOMAIN frames : frames'[i] = IF i = Len(frames) THEN f ELSE frames[i]
      BY <2>1, <3>1, <3>2, <3>3
    <3>. QED BY <3>1, <3>2, <3>3, <3>4
  <2>. QED BY <2>2, <2>3
<1>4. StateInv'
  BY <1>1, <1>3 DEF ArgsInv, StateInv, FrameSet
<1>5. CallsInv'
  BY <1>2 DEF ArgsInv, CallsInv
<1>6. FramesInv'
  BY <1>2, <1>3 DEF ArgsInv, FramesInv
<1>7. UsedInv'
  <2>1. CASE used' = used
    BY <2>1 DEF ArgsInv, UsedInv, KeepsNumbers, Current, PointersOf
  <2>. QED BY <2>1, NothingUsed
<1>8. Seen => Seen'
  BY SeenStays, NothingUsed
<1>. QED BY <1>4, <1>5, <1>6, <1>7, <1>8 DEF ArgsInv

-----------------------------------------------------------------------------
(* The theorems about HookArgs.                                            *)

(* The initial state, every step, and every state. *)
LEMMA ArgsStart == ArgsInit => ArgsInv /\ Seen
<1>. SUFFICES ASSUME ArgsInit PROVE ArgsInv /\ Seen
  OBVIOUS
<1>1. /\ setup \in Setups /\ stack \in Stacks /\ calls = << >> /\ frames = << >> /\ getter = 0
      /\ used.args = << >> /\ used.to = "nothing"
  BY DEF ArgsInit, NoUse
<1>2. StateInv
  BY <1>1, HookArgsAssumption DEF StateInv
<1>3. CallsInv /\ FramesInv
  BY <1>1 DEF CallsInv, FramesInv
<1>4. UsedInv
  BY <1>1 DEF UsedInv
<1>5. Seen
  BY <1>1 DEF Seen, HookSeesTheCall, OriginGetsTheCall
<1>. QED BY <1>2, <1>3, <1>4, <1>5 DEF ArgsInv

LEMMA ArgsStep ==
  ASSUME ArgsInv, [ArgsNext]_argsVars
  PROVE  ArgsInv' /\ (HooksTakeAll /\ Seen => Seen')
<1>1. CASE EnterHook
  BY <1>1, EnterKeeps
<1>2. CASE Move
  BY <1>2, RestKeeps DEF Move
<1>3. CASE AskWhen
  <2>1. frames # << >> /\ IsHook(Top) /\ Use("when", setup.hook)
    BY <1>3 DEF AskWhen, Running, IsHook
  <2>. QED BY <2>1, UseKeeps
<1>4. ASSUME frames # << >>, IsHook(Top), NEW run \in {"hook", "original"}, Exec(run)
      PROVE  ArgsInv' /\ (HooksTakeAll => Seen')
  BY <1>4, UseKeeps DEF Exec
<1>5. ASSUME NEW matched \in BOOLEAN, WhenReturns(matched)
      PROVE  ArgsInv' /\ (HooksTakeAll /\ Seen => Seen')
  <2>1. frames # << >> /\ IsHook(Top)
    BY <1>5 DEF WhenReturns, Running, IsHook
  <2>2. CASE matched
    BY <1>4, <1>5, <2>1, <2>2 DEF WhenReturns
  <2>3. CASE ~matched
    <3>1. /\ frames' = [frames EXCEPT ![Len(frames)] =
                          [Top EXCEPT !.run = "mockerHook", !.next = Top.next + 1]]
          /\ used' = NoUse /\ UNCHANGED <<setup, stack, calls, getter>>
      BY <1>5, <2>3 DEF WhenReturns
    <3>. QED BY <2>1, <3>1, RestKeeps DEF ArgsInv, StateInv
  <2>. QED BY <2>2, <2>3
<1>6. CASE NoWhen
  <2>1. frames # << >> /\ IsHook(Top)
    BY <1>6 DEF NoWhen, Running, IsHook
  <2>. QED BY <1>4, <1>6, <2>1 DEF NoWhen
<1>7. CASE PassThrough
  <2>1. frames # << >> /\ IsHook(Top) /\ Use("original", << >>)
    BY <1>7 DEF PassThrough, Running, IsHook
  <2>. QED BY <2>1, UseKeeps
<1>8. CASE CallOrigin
  BY <1>8, OriginKeeps
<1>9. CASE OriginReturns
  BY <1>9, OriginReturnsKeeps
<1>10. CASE HookReturns
  BY <1>10, HookReturnsKeeps
<1>11. CASE UNCHANGED argsVars
  <2>1. /\ setup' = setup /\ stack' = stack /\ calls' = calls /\ frames' = frames
        /\ getter' = getter /\ used' = used
    BY <1>11 DEF argsVars
  <2>. QED BY <2>1, RestKeeps DEF ArgsInv, StateInv
<1>. QED BY <1>1, <1>2, <1>3, <1>5, <1>6, <1>7, <1>8, <1>9, <1>10, <1>11 DEF ArgsNext

LEMMA ArgsAlways == ArgsSpec => []ArgsInv
<1>1. ArgsInit => ArgsInv
  BY ArgsStart
<1>2. ArgsInv /\ [ArgsNext]_argsVars => ArgsInv'
  BY ArgsStep
<1>. QED BY <1>1, <1>2, PTL DEF ArgsSpec

(* ArgsInv implies the type invariant. *)
LEMMA ArgsTypes == ArgsInv => ArgsTypeOK
<1>. SUFFICES ASSUME ArgsInv PROVE ArgsTypeOK
  OBVIOUS
<1>1. /\ stack \in Stacks /\ Len(calls) <= MaxCalls /\ Len(frames) <= MaxDepth
      /\ getter \in 0 .. Len(calls) /\ \A i \in DOMAIN frames : frames[i].call \in DOMAIN calls
  BY DEF ArgsInv, StateInv, FramesInv
<1>2. ASSUME NEW n \in DOMAIN calls
      PROVE  /\ calls[n].hi \in Stacks
             /\ \A i \in DOMAIN calls[n].args :
                  \A w \in DOMAIN calls[n].args[i].words :
                    calls[n].args[i].words[w] \in Stacks \cup {Heap, Dropped}
  <2>1. calls[n] \in CallSet
    BY DEF ArgsInv, StateInv
  <2>2. calls[n].hi \in Stacks /\ calls[n].args \in [DOMAIN TargetIn -> ArgSet]
    BY <2>1 DEF CallSet
  <2>3. \A v \in ArgSet : \A w \in DOMAIN v.words : v.words[w] \in Word
    BY DEF ArgSet
  <2>. QED BY <2>2, <2>3 DEF Word
<1>. QED BY <1>1, <1>2 DEF ArgsTypeOK

(* However often the stack moves while When functions, hooks and originals  *)
(* run, no reflect call is made with a pointer into a stack that was left,  *)
(* unless it moved where no guard follows it, and no number is ever taken   *)
(* for a pointer: for every layout of the arguments, every depth of nested  *)
(* calls, and every hook InputAdapter accepts.                              *)
THEOREM ArgumentsStayCurrent == ArgsSpec => []ArgumentsAreCurrent
<1>1. ArgsInv => ArgumentsAreCurrent
  <2>. SUFFICES ASSUME ArgsInv PROVE ArgumentsAreCurrent
    OBVIOUS
  <2>1. ArgsTypeOK
    BY ArgsTypes
  <2>2. used.call = used.from /\ ~used.strayed =>
          \A i \in DOMAIN used.args : \A w \in PointersOf(used.args[i]) :
            used.args[i].words[w] \in {Heap, used.at}
    BY DEF ArgsInv, UsedInv, Current
  <2>3. \A i \in DOMAIN used.args :
          \A w \in DOMAIN used.args[i].words \ PointersOf(used.args[i]) :
            used.args[i].words[w] = used.args[i].made
    BY DEF ArgsInv, UsedInv, KeepsNumbers
  <2>. QED BY <2>1, <2>2, <2>3 DEF ArgumentsAreCurrent
<1>. QED BY ArgsAlways, <1>1, PTL

(* Hooks and originals see the call, provided they take all of it. *)
LEMMA SeenAlways ==
  ASSUME HooksTakeAll
  PROVE  ArgsSpec => []Seen
<1>1. ArgsInit => Seen
  BY ArgsStart
<1>2. ArgsInv /\ Seen /\ [ArgsNext]_argsVars => Seen'
  BY ArgsStep
<1>. QED BY ArgsAlways, <1>1, <1>2, PTL DEF ArgsSpec

(* Hooks that leave out no ordinary parameter see the call: every argument *)
(* of it once, in their own order of types, for every target and hook      *)
(* InputAdapter accepts.                                                   *)
THEOREM HooksSeeCalls ==
  ASSUME HooksTakeAll
  PROVE  ArgsSpec => []HookSeesTheCall
<1>1. Seen => HookSeesTheCall
  BY DEF Seen
<1>. QED BY SeenAlways, <1>1, PTL

(* Under the same condition the original behind Origin gets all that       *)
(* Origin is called with, in order, and the call's own receiver and        *)
(* dictionary where Origin leaves them out.                                *)
THEOREM OriginsGetCalls ==
  ASSUME HooksTakeAll
  PROVE  ArgsSpec => []OriginGetsTheCall
<1>1. Seen => OriginGetsTheCall
  BY DEF Seen
<1>. QED BY SeenAlways, <1>1, PTL

-----------------------------------------------------------------------------
(* Part 2, ReturnSequence.  Lemmas about numbers.                          *)

(* Counting modulo L.                                                      *)
LEMMA ModNext ==
  ASSUME NEW n \in Nat, NEW L \in Nat \ {0}
  PROVE  /\ 0 % L = 0
         /\ n % L \in 0..(L - 1)
         /\ (n + 1) % L = IF n % L = L - 1 THEN 0 ELSE (n % L) + 1
<1>1. ASSUME NEW q \in Int, NEW r \in 0..(L - 1), NEW p \in Int, NEW s \in 0..(L - 1),
             (L * q) + r + 1 = (L * p) + s
      PROVE  s = IF r = L - 1 THEN 0 ELSE r + 1
  BY <1>1, Z3
<1>. DEFINE q == n \div L
            r == n % L
            p == (n + 1) \div L
            s == (n + 1) % L
<1>2. r \in 0..(L - 1) /\ q \in Int /\ n = (L * q) + r
  BY Z3
<1>3. s \in 0..(L - 1) /\ p \in Int /\ n + 1 = (L * p) + s
  BY Z3
<1>4. 0 % L = 0
  BY Z3
<1>. HIDE DEF q, r, p, s
<1>5. (L * q) + r + 1 = (L * p) + s
  BY <1>2, <1>3
<1>6. s = IF r = L - 1 THEN 0 ELSE r + 1
  BY <1>1, <1>2, <1>3, <1>5
<1>. QED BY <1>2, <1>4, <1>6 DEF r, s

-----------------------------------------------------------------------------
(* One round of the sequence.                                              *)

(* A round seen from its places: s[i] values are handed out before the     *)
(* value i (which counts from 0), and one round is s[Len(values)] long.    *)
Counts(s) ==
  /\ s \in [0..Len(values) -> Nat] /\ s[0] = 0
  /\ Len(OneRound) = s[Len(values)]
  /\ \A i \in 1..Len(values) :
       /\ s[i] = s[i - 1] + values[i] /\ s[i] <= Len(OneRound)
       /\ \A j \in (s[i - 1] + 1)..s[i] : OneRound[j] = i - 1
LEMMA RoundCounts ==
  ASSUME values \in Seq(Nat \ {0}), values # <<>>
  PROVE  \E s \in [0..Len(values) -> Nat] : Counts(s)
<1>. DEFINE N == Len(values)
            Sums(n, g) == g = [i \in 0..n |-> IF i = 0 THEN 0 ELSE g[i - 1] + values[i]]
            S == {n \in 1..N : \E g \in [0..n -> Nat] : Sums(n, g)}
            s == Before
<1>1. N \in Nat /\ N \in 1..N /\ 1 \in 1..N /\ \A i \in 1..N : values[i] \in Nat \ {0}
  OBVIOUS
<1>2. 1 \in S
  <2>. DEFINE g == [i \in 0..1 |-> IF i = 0 THEN 0 ELSE values[1]]
  <2>1. g \in [0..1 -> Nat] /\ Sums(1, g)
    BY <1>1
  <2>. QED BY <1>1, <2>1
<1>3. ASSUME NEW n \in 1..N, n \in S, n + 1 \in 1..N
      PROVE  n + 1 \in S
  <2>1. PICK g \in [0..n -> Nat] : Sums(n, g)
    BY <1>3
  <2>. DEFINE h == [i \in 0..(n + 1) |-> IF i = n + 1 THEN g[n] + values[n + 1] ELSE g[i]]
  <2>2. h \in [0..(n + 1) -> Nat]
    BY <1>1, <1>3, SMTT(20)
  <2>3. ASSUME NEW i \in 0..(n + 1)
        PROVE  h[i] = IF i = 0 THEN 0 ELSE h[i - 1] + values[i]
    <3>1. CASE i = n + 1
      <4>1. i # 0 /\ i - 1 = n /\ i - 1 \in 0..(n + 1) /\ i - 1 # n + 1
        BY <3>1
      <4>. QED BY <3>1, <4>1
    <3>2. CASE i # n + 1
      <4>1. i \in 0..n /\ h[i] = g[i] /\ (i # 0 => h[i - 1] = g[i - 1])
        BY <3>2
      <4>. HIDE DEF h
      <4>. QED BY <2>1, <4>1
    <3>. QED BY <3>1, <3>2
  <2>4. Sums(n + 1, h)
    BY <2>3
  <2>. HIDE DEF h
  <2>. QED BY <1>3, <2>2, <2>4
<1>4. PICK g \in [0..N -> Nat] : Sums(N, g)
  <2>1. 1..N \subseteq S
    <3>. HIDE DEF S
    <3>. QED BY <1>1, <1>2, <1>3, InductionUpTo
  <2>. QED BY <1>1, <2>1
<1>5. Sums(N, s)
  <2>1. s = CHOOSE f : Sums(N, f)
    BY DEF Before
  <2>. HIDE DEF Sums, s, N
  <2>. QED BY <1>4, <2>1, Zenon
<1>. HIDE DEF s
<1>6. /\ s = [i \in 0..N |-> s[i]] /\ s[0] = 0
      /\ \A i \in 1..N : i - 1 \in 0..N /\ s[i] = s[i - 1] + values[i]
  BY <1>1, <1>5
<1>. HIDE DEF Sums, N
<1>. DEFINE P == {n \in 1..N : \A i \in 0..n : s[i] \in Nat /\ s[i] <= s[n]}
<1>7. 1 \in P
  <2>1. s[1] = s[0] + values[1] /\ s[0] = 0 /\ values[1] \in Nat
    <3>1. 1 - 1 = 0
      OBVIOUS
    <3>. QED BY <1>1, <1>6, <3>1
  <2>2. \A i \in 0..1 : i = 0 \/ i = 1
    OBVIOUS
  <2>3. \A i \in 0..1 : s[i] \in Nat /\ s[i] <= s[1]
    BY <2>1, <2>2
  <2>. QED BY <1>1, <2>3
<1>8. ASSUME NEW n \in 1..N, n \in P, n + 1 \in 1..N
      PROVE  n + 1 \in P
  <2>1. s[n + 1] = s[n] + values[n + 1] /\ s[n] \in Nat /\ values[n + 1] \in Nat
    <3>1. (n + 1) - 1 = n /\ n \in 0..n
      BY <1>1
    <3>2. s[n] \in Nat
      BY <1>8, <3>1
    <3>3. s[n + 1] = s[(n + 1) - 1] + values[n + 1] /\ values[n + 1] \in Nat
      BY <1>1, <1>6, <1>8
    <3>. QED BY <3>1, <3>2, <3>3
  <2>2. ASSUME NEW i \in 0..(n + 1) PROVE s[i] \in Nat /\ s[i] <= s[n + 1]
    <3>1. i \in 0..n \/ i = n + 1
      BY <1>1
    <3>. QED BY <1>8, <2>1, <3>1
  <2>. QED BY <1>8, <2>2
<1>9. \A n \in 1..N : \A i \in 0..n : s[i] \in Nat /\ s[i] <= s[n]
  <2>1. 1..N \subseteq P
    <3>. HIDE DEF P
    <3>. QED BY <1>1, <1>7, <1>8, InductionUpTo
  <2>. QED BY <2>1
<1>10. s \in [0..N -> Nat]
  BY <1>1, <1>6, <1>9
<1>11. OneRound = [n \in 1..s[N] |-> CHOOSE i \in 0..(N - 1) : n \in (s[i] + 1)..s[i + 1]]
  BY DEF OneRound, s, N
<1>12. Len(OneRound) = s[N]
  BY <1>1, <1>10, <1>11
<1>13. ASSUME NEW i \in 1..N, NEW j \in (s[i - 1] + 1)..s[i]
       PROVE  OneRound[j] = i - 1
  <2>. DEFINE Holds(k) == j \in (s[k] + 1)..s[k + 1]
  <2>1. i - 1 \in 0..(N - 1) /\ (i - 1) + 1 = i /\ s[i - 1] \in Nat /\ s[i] \in Nat
    BY <1>1, <1>10
  <2>2. j \in Nat /\ s[i - 1] < j /\ j <= s[i] /\ Holds(i - 1)
    BY <2>1
  <2>3. ASSUME NEW k \in 0..(N - 1), Holds(k) PROVE k = i - 1
    <3>1. s[k] \in Nat /\ s[k + 1] \in Nat /\ s[k] < j /\ j <= s[k + 1]
      <4>1. k \in 0..N /\ k + 1 \in 0..N
        BY <1>1
      <4>2. s[k] \in Nat /\ s[k + 1] \in Nat
        BY <1>10, <4>1
      <4>. QED BY <2>3, <4>2
    <3>2. ~(k < i - 1)
      <4>. SUFFICES ASSUME k < i - 1 PROVE FALSE
        OBVIOUS
      <4>1. i - 1 \in 1..N /\ k + 1 \in 0..(i - 1)
        BY <1>1
      <4>2. s[k + 1] <= s[i - 1]
        BY <1>9, <4>1
      <4>. QED BY <2>1, <2>2, <3>1, <4>2
    <3>3. ~(i - 1 < k)
      <4>. SUFFICES ASSUME i - 1 < k PROVE FALSE
        OBVIOUS
      <4>1. k \in 1..N /\ i \in 0..k
        BY <1>1
      <4>2. s[i] <= s[k]
        BY <1>9, <4>1
      <4>. QED BY <2>1, <2>2, <3>1, <4>2
    <3>. QED BY <1>1, <3>2, <3>3
  <2>4. (CHOOSE k \in 0..(N - 1) : Holds(k)) = i - 1
    <3>. HIDE DEF Holds, N
    <3>. QED BY <2>1, <2>2, <2>3, Zenon
  <2>5. j \in 1..s[N]
    <3>1. N \in 1..N /\ i \in 0..N
      BY <1>1
    <3>2. s[i] <= s[N] /\ s[N] \in Nat
      BY <1>9, <3>1
    <3>. QED BY <2>1, <2>2, <3>2
  <2>. QED BY <1>11, <2>4, <2>5
<1>14. \A i \in 1..N : s[i] <= Len(OneRound)
  BY <1>1, <1>9, <1>12
<1>15. Counts(s)
  BY <1>1, <1>6, <1>10, <1>12, <1>13, <1>14 DEF Counts, N
<1>. QED BY <1>10, <1>15 DEF N

-----------------------------------------------------------------------------
(* Who is in GetNext, and how far the sequence has got.                    *)

Inside == {"locked", "panicked", "read", "unlocking"}
OneInside == \A c \in Callers : readLock = c <=> pc[c] \in Inside

(* The values whose turn is over: the one that was read is not counted     *)
(* before the counters have moved on.                                      *)
Reading == \E c \in Callers : pc[c] = "read"
Over == IF Reading THEN Len(served) - 1 ELSE Len(served)
Position(s) ==
  /\ Over \in Nat /\ curT < values[curV + 1]
  /\ Over % Len(OneRound) = s[curV] + curT
InRounds ==
  /\ \E s \in [0..Len(values) -> Nat] : Counts(s) /\ Position(s)
  /\ \A n \in 1..Len(served) :
       served[n] = OneRound[((n - 1) % Len(OneRound)) + 1]
SequenceInv ==
  /\ TypeOK /\ Len(values) <= MaxValues
  /\ OneInside
  /\ \A c \in Callers : pc[c] = "read" => values # <<>> /\ seqV[c] = curV
  /\ ~mocked => /\ curV = 0 /\ curT = 0 /\ served = <<>>
                /\ \A c \in Callers : pc[c] = "idle"
  /\ values = <<>> => served = <<>>
  /\ mocked /\ values # <<>> => InRounds

(* A round has places, and the next place is in the same round, if any.    *)
LEMMA RoundStep ==
  ASSUME values \in Seq(Nat \ {0}), values # <<>>,
         curV \in Nat, curV < Len(values), NEW s, Counts(s)
  PROVE  /\ Len(OneRound) \in Nat \ {0}
         /\ s[curV] \in Nat /\ s[curV + 1] \in Nat /\ curV + 1 \in 1..Len(values)
         /\ values[curV + 1] \in Nat \ {0}
         /\ s[curV + 1] = s[curV] + values[curV + 1] /\ s[curV + 1] <= Len(OneRound)
         /\ \A j \in (s[curV] + 1)..s[curV + 1] : OneRound[j] = curV
         /\ IF curV + 1 >= Len(values) THEN s[curV + 1] = Len(OneRound)
            ELSE s[curV + 1] < Len(OneRound)
<1>. DEFINE v == curV + 1
            N == Len(values)
<1>1. N \in Nat /\ v \in 1..N /\ v - 1 = curV /\ curV \in 0..N /\ v \in 0..N /\ N \in 0..N
  OBVIOUS
<1>2. \A i \in 1..N : values[i] \in Nat \ {0}
  OBVIOUS
<1>. HIDE DEF N, v
<1>3. /\ s \in [0..N -> Nat] /\ Len(OneRound) = s[N]
      /\ \A i \in 1..N :
           /\ s[i] = s[i - 1] + values[i] /\ s[i] <= Len(OneRound)
           /\ \A j \in (s[i - 1] + 1)..s[i] : OneRound[j] = i - 1
  BY DEF Counts, N
<1>4. /\ s[curV] \in Nat /\ s[v] \in Nat /\ s[N] \in Nat
      /\ s[v] = s[curV] + values[v] /\ s[v] <= Len(OneRound)
      /\ \A j \in (s[curV] + 1)..s[v] : OneRound[j] = curV
  BY <1>1, <1>3
<1>5. Len(OneRound) \in Nat \ {0}
  BY <1>1, <1>2, <1>3, <1>4
<1>6. CASE v >= N
  <2>1. v = N
    BY <1>1, <1>6
  <2>. QED BY <1>1, <1>2, <1>3, <1>4, <1>5, <1>6, <2>1 DEF v, N
<1>7. CASE ~(v >= N)
  <2>1. v + 1 \in 1..N /\ (v + 1) - 1 = v
    BY <1>1, <1>7
  <2>2. s[v + 1] = s[v] + values[v + 1] /\ s[v + 1] <= Len(OneRound)
    BY <1>3, <2>1
  <2>3. values[v + 1] \in Nat \ {0}
    BY <1>2, <2>1
  <2>4. s[v] < Len(OneRound)
    BY <1>4, <1>5, <2>2, <2>3
  <2>. QED BY <1>1, <1>2, <1>4, <1>5, <1>7, <2>4 DEF v, N
<1>. QED BY <1>6, <1>7

LEMMA SequenceStarts == Init => SequenceInv
<1>. SUFFICES ASSUME Init PROVE SequenceInv
  OBVIOUS
<1>1. TypeOK
  <2>1. 0 \in 0..MaxValues /\ <<>> \in Seq(1..MaxRepeat) /\ <<>> \in Seq(0..MaxValues)
    BY SequenceBounds
  <2>. QED BY <2>1 DEF Init, TypeOK
<1>2. OneInside
  BY CallersAssumption DEF Init, OneInside, Inside
<1>3. Len(values) <= MaxValues
  BY SequenceBounds DEF Init
<1>. QED BY <1>1, <1>2, <1>3 DEF Init, SequenceInv

(* A step that takes and moves nothing.                                    *)
LEMMA RoundsStay ==
  ASSUME InRounds, UNCHANGED <<values, curV, curT, served>>, Reading' <=> Reading
  PROVE  InRounds'
<1>1. Over' = Over /\ OneRound' = OneRound
  BY DEF Over, OneRound, Before
<1>2. \A s : Counts(s) => Counts(s)'
  BY <1>1 DEF Counts
<1>. QED BY <1>1, <1>2 DEF InRounds, Position

LEMMA SequenceBuilt ==
  ASSUME SequenceInv, Then \/ Build \/ \E t \in 1..MaxRepeat : Times(t)
  PROVE  SequenceInv'
<1>. USE DEF SequenceInv
<1>1. /\ ~mocked /\ curV = 0 /\ curT = 0 /\ served = <<>>
      /\ \A c \in Callers : pc[c] = "idle"
      /\ UNCHANGED <<curV, curT, readLock, pc, seqV, served>>
  BY DEF Then, Build, Times
<1>2. OneInside' /\ values \in Seq(1..MaxRepeat)
  BY <1>1 DEF OneInside, TypeOK
<1>3. CASE Then
  <2>1. /\ values' = Append(values, 1) /\ Len(values) < MaxValues /\ UNCHANGED mocked
        /\ 1 \in 1..MaxRepeat
    BY <1>3, SequenceBounds DEF Then
  <2>2. /\ values' \in Seq(1..MaxRepeat) /\ Len(values') = Len(values) + 1
        /\ Len(values') <= MaxValues
    BY <1>2, <2>1, SequenceBounds
  <2>3. TypeOK'
    BY <1>1, <1>2, <2>1, <2>2, SequenceBounds DEF TypeOK
  <2>. QED BY <1>1, <1>2, <2>1, <2>2, <2>3
<1>4. ASSUME NEW t \in 1..MaxRepeat, Times(t)
      PROVE  SequenceInv'
  <2>1. values # <<>> /\ values' = [values EXCEPT ![Len(values)] = t] /\ UNCHANGED mocked
    BY <1>4 DEF Times
  <2>2. values' \in Seq(1..MaxRepeat) /\ Len(values') = Len(values)
    BY <1>2, <2>1
  <2>3. TypeOK'
    BY <1>1, <1>2, <2>1, <2>2, SequenceBounds DEF TypeOK
  <2>. QED BY <1>1, <1>2, <2>1, <2>2, <2>3
<1>5. CASE Build
  <2>1. mocked' = TRUE /\ UNCHANGED values
    BY <1>5 DEF Build
  <2>2. TypeOK'
    BY <1>1, <2>1 DEF TypeOK
  <2>3. ASSUME values # <<>> PROVE InRounds'
    <3>1. values \in Seq(Nat \ {0}) /\ curV \in Nat /\ curV < Len(values) /\ 0 \in 0..Len(values)
      BY <1>1, <1>2, <2>3, SequenceBounds, SMTT(20) DEF TypeOK
    <3>2. PICK s \in [0..Len(values) -> Nat] : Counts(s)
      BY <2>3, <3>1, RoundCounts
    <3>3. s[0] = 0 /\ Len(OneRound) \in Nat \ {0} /\ values[curV + 1] \in Nat \ {0}
      BY <2>3, <3>1, <3>2, RoundStep DEF Counts
    <3>4. ~Reading' /\ Over' = 0 /\ OneRound' = OneRound
      BY <1>1, <2>1 DEF Reading, Over, OneRound, Before
    <3>5. 0 % Len(OneRound) = 0
      BY <3>3, ModNext
    <3>6. Position(s)'
      BY <1>1, <2>1, <3>3, <3>4, <3>5 DEF Position
    <3>7. Counts(s)'
      BY <2>1, <3>2, <3>4 DEF Counts
    <3>. QED BY <1>1, <2>1, <3>2, <3>6, <3>7 DEF InRounds
  <2>. QED BY <1>1, <1>2, <2>1, <2>2, <2>3
<1>. QED BY <1>3, <1>4, <1>5

LEMMA SequenceWaits ==
  ASSUME SequenceInv, NEW c \in Callers, Call(c) \/ Lock(c) \/ Panic(c) \/ Unlock(c)
  PROVE  SequenceInv'
<1>. USE DEF SequenceInv
<1>1. /\ mocked /\ UNCHANGED <<values, curV, curT, mocked, seqV, served>>
      /\ \A d \in Callers \ {c} : pc'[d] = pc[d]
      /\ pc[c] \in {"idle", "locking", "locked", "unlocking"}
      /\ pc'[c] \in {"idle", "locking", "locked", "panicked"}
      /\ pc' \in [Callers ->
           {"idle", "locking", "locked", "panicked", "read", "unlocking"}]
  BY DEF Call, Lock, Panic, Unlock, TypeOK
<1>2. Reading' <=> Reading
  BY <1>1 DEF Reading
<1>3. OneInside' /\ readLock' \in Callers \cup {Nobody}
  BY <1>1, CallersAssumption DEF Call, Lock, Panic, Unlock, OneInside, Inside, TypeOK
<1>4. TypeOK'
  BY <1>1, <1>3 DEF TypeOK
<1>5. values # <<>> => InRounds'
  BY <1>1, <1>2, RoundsStay
<1>6. \A d \in Callers : pc'[d] = "read" => values' # <<>> /\ seqV'[d] = curV'
  BY <1>1
<1>. QED BY <1>1, <1>3, <1>4, <1>5, <1>6

(* The value that is read is the one whose turn it is.                     *)
LEMMA SequenceRead ==
  ASSUME SequenceInv, NEW c \in Callers, Read(c)
  PROVE  SequenceInv'
<1>. USE DEF SequenceInv
<1>1. /\ mocked /\ pc[c] = "locked" /\ values # <<>>
      /\ seqV' = [seqV EXCEPT ![c] = curV] /\ served' = Append(served, curV)
      /\ pc' = [pc EXCEPT ![c] = "read"]
      /\ UNCHANGED <<values, curV, curT, readLock, mocked>>
  BY DEF Read
<1>2. /\ values \in Seq(1..MaxRepeat) /\ values \in Seq(Nat \ {0})
      /\ curV \in Nat /\ curT \in Nat
      /\ curV < Len(values) /\ curV \in 0..MaxValues
      /\ served \in Seq(0..MaxValues)
  <2>1. /\ values \in Seq(1..MaxRepeat) /\ curV \in Nat /\ curT \in Nat
        /\ curV < Len(values) /\ served \in Seq(0..MaxValues) /\ Len(values) <= MaxValues
    BY <1>1 DEF TypeOK
  <2>2. values \in Seq(Nat \ {0})
    BY <2>1, SequenceBounds
  <2>3. curV \in 0..MaxValues
    BY <2>1, SequenceBounds
  <2>. QED BY <2>1, <2>2, <2>3
<1>3. /\ pc'[c] = "read" /\ seqV'[c] = curV
      /\ \A d \in Callers \ {c} : pc'[d] = pc[d] /\ seqV'[d] = seqV[d]
  BY <1>1 DEF TypeOK
<1>4. readLock = c /\ \A d \in Callers \ {c} : pc[d] # "read"
  BY <1>1 DEF OneInside, Inside
<1>5. OneInside'
  BY <1>1, <1>3 DEF OneInside, Inside
<1>6. TypeOK'
  BY <1>1, <1>2 DEF TypeOK
<1>7. ~Reading /\ Reading' /\ OneRound' = OneRound
  BY <1>1, <1>3, <1>4 DEF Reading, OneRound, Before
<1>8. InRounds'
  <2>. DEFINE n == Len(served)
              L == Len(OneRound)
  <2>1. PICK s \in [0..Len(values) -> Nat] : Counts(s) /\ Position(s)
    BY <1>1 DEF InRounds
  <2>2. /\ n \in Nat /\ served' \in Seq(0..MaxValues) /\ Len(served') = n + 1
        /\ served'[n + 1] = curV /\ \A k \in 1..n : served'[k] = served[k]
    BY <1>1, <1>2
  <2>3. Over = n /\ Over' = n
    BY <1>7, <2>2 DEF Over
  <2>4. n % L = s[curV] + curT /\ curT < values[curV + 1]
    BY <2>1, <2>3 DEF Position
  <2>5. Counts(s)' /\ Position(s)'
    BY <1>1, <1>7, <2>1, <2>2, <2>3, <2>4 DEF Counts, Position
  <2>6. OneRound[(n % L) + 1] = curV
    <3>1. /\ s[curV] \in Nat /\ values[curV + 1] \in Nat
          /\ s[curV + 1] = s[curV] + values[curV + 1]
          /\ \A j \in (s[curV] + 1)..s[curV + 1] : OneRound[j] = curV
      BY <1>1, <1>2, <2>1, RoundStep
    <3>2. (s[curV] + curT) + 1 \in (s[curV] + 1)..s[curV + 1]
      BY <1>2, <2>4, <3>1, SMTT(20)
    <3>. QED BY <2>4, <3>1, <3>2
  <2>7. ASSUME NEW k \in 1..(n + 1)
        PROVE  served'[k] = OneRound[((k - 1) % L) + 1]
    <3>1. CASE k = n + 1
      <4>1. k - 1 = n
        BY <2>2, <3>1
      <4>. QED BY <2>2, <2>6, <3>1, <4>1
    <3>2. CASE k \in 1..n
      BY <1>1, <2>2, <3>2 DEF InRounds
    <3>. QED BY <2>2, <3>1, <3>2
  <2>. QED BY <1>1, <1>7, <2>1, <2>2, <2>5, <2>7 DEF InRounds
<1>. QED BY <1>1, <1>3, <1>4, <1>5, <1>6, <1>8

(* The counters come to the next place of the round, or begin it again.    *)
LEMMA SequenceAdvances ==
  ASSUME SequenceInv, NEW c \in Callers, Advance(c)
  PROVE  SequenceInv'
<1>. USE DEF SequenceInv
<1>1. /\ mocked /\ pc[c] = "read" /\ values # <<>> /\ seqV[c] = curV
      /\ pc' = [pc EXCEPT ![c] = "unlocking"]
      /\ UNCHANGED <<values, readLock, mocked, seqV, served>>
      /\ IF curT + 1 >= values[curV + 1]
         THEN curT' = 0 /\ curV' = IF curV + 1 >= Len(values) THEN 0 ELSE curV + 1
         ELSE curT' = curT + 1 /\ curV' = curV
  BY DEF Advance
<1>2. /\ values \in Seq(1..MaxRepeat) /\ values \in Seq(Nat \ {0})
      /\ curV \in Nat /\ curT \in Nat /\ Len(values) \in Nat
      /\ curV < Len(values) /\ served \in Seq(0..MaxValues)
  BY <1>1, SequenceBounds, SMTT(20) DEF TypeOK
<1>3. pc'[c] = "unlocking" /\ \A d \in Callers \ {c} : pc'[d] = pc[d]
  BY <1>1 DEF TypeOK
<1>4. readLock = c /\ \A d \in Callers \ {c} : pc[d] # "read"
  BY <1>1 DEF OneInside, Inside
<1>5. OneInside'
  BY <1>1, <1>3 DEF OneInside, Inside
<1>6. Reading /\ ~Reading' /\ OneRound' = OneRound
  BY <1>1, <1>3, <1>4 DEF Reading, OneRound, Before
<1>. DEFINE L == Len(OneRound)
<1>7. PICK s \in [0..Len(values) -> Nat] : Counts(s) /\ Position(s)
  BY <1>1 DEF InRounds
<1>8. /\ L \in Nat \ {0} /\ s[curV] \in Nat /\ s[curV + 1] \in Nat
      /\ curV + 1 \in 1..Len(values) /\ values[curV + 1] \in Nat \ {0}
      /\ s[curV + 1] = s[curV] + values[curV + 1] /\ s[curV + 1] <= L
      /\ IF curV + 1 >= Len(values) THEN s[curV + 1] = L ELSE s[curV + 1] < L
  BY <1>1, <1>2, <1>7, RoundStep
<1>9. /\ Over \in Nat /\ Over' = Over + 1 /\ curT < values[curV + 1]
      /\ Over % L = s[curV] + curT
  BY <1>1, <1>2, <1>6, <1>7 DEF Over, Position
<1>. DEFINE before == s[curV] + curT
            after == Over' % L
<1>10. after = IF before = L - 1 THEN 0 ELSE before + 1
  <2>1. /\ L \in Nat \ {0} /\ Over \in Nat
        /\ before = Over % L /\ after = (Over + 1) % L
    BY <1>8, <1>9
  <2>. HIDE DEF before, after
  <2>2. (Over + 1) % L = IF Over % L = L - 1 THEN 0 ELSE (Over % L) + 1
    BY <2>1, ModNext, Zenon
  <2>. QED BY <2>1, <2>2, Zenon
<1>11. s[0] = 0 /\ \A i \in 1..Len(values) : values[i] \in 1..MaxRepeat
  <2>1. s[0] = 0
    BY <1>7 DEF Counts
  <2>2. values \in Seq(1..MaxRepeat)
    BY <1>2
  <2>3. \A i \in 1..Len(values) : values[i] \in 1..MaxRepeat
    BY ONLY <2>2, SMTT(20)
  <2>. QED BY <2>1, <2>3
<1>. HIDE DEF L, after
<1>12. /\ curV' \in Nat /\ curV' < Len(values) /\ curT' \in Nat
       /\ curT' < values[curV' + 1] /\ values[curV' + 1] \in 1..MaxRepeat
       /\ after = s[curV'] + curT'
  <2>1. CASE curT + 1 >= values[curV + 1]
    <3>1. curT + 1 = values[curV + 1] /\ before = s[curV + 1] - 1 /\ curT' = 0
      BY <1>1, <1>2, <1>8, <1>9, <2>1, SMTT(20)
    <3>2. CASE curV + 1 >= Len(values)
      <4>1. curV' = 0 /\ before = L - 1 /\ 0 + 1 \in 1..Len(values)
        BY <1>1, <1>2, <1>8, <2>1, <3>1, <3>2
      <4>2. values[curV' + 1] \in 1..MaxRepeat
        BY <1>11, <4>1
      <4>. QED BY <1>2, <1>9, <1>10, <1>11, <3>1, <4>1, <4>2, SequenceBounds, SMTT(20)
    <3>3. CASE ~(curV + 1 >= Len(values))
      <4>1. curV' = curV + 1 /\ s[curV + 1] - 1 # L - 1 /\ (curV + 1) + 1 \in 1..Len(values)
        BY <1>1, <1>2, <1>8, <2>1, <3>3
      <4>2. after = s[curV'] + curT'
        BY <1>8, <1>10, <3>1, <4>1, SMTT(20)
      <4>3. values[curV' + 1] \in 1..MaxRepeat
        BY <1>11, <4>1
      <4>4. curV' \in Nat /\ curV' < Len(values)
        BY <1>2, <3>3, <4>1
      <4>5. curT' \in Nat /\ curT' < values[curV' + 1]
        BY <3>1, <4>3
      <4>. QED BY <4>2, <4>3, <4>4, <4>5
    <3>. QED BY <3>2, <3>3
  <2>2. CASE ~(curT + 1 >= values[curV + 1])
    <3>1. curT' = curT + 1 /\ curV' = curV /\ curT + 1 < values[curV + 1]
      BY <1>1, <1>2, <1>8, <2>2
    <3>2. s[curV] + curT # L - 1
      BY <1>2, <1>8, <3>1, SMTT(20)
    <3>3. after = s[curV'] + curT'
      BY <1>2, <1>8, <1>10, <3>1, <3>2, SMTT(20)
    <3>. QED BY <1>2, <1>8, <1>11, <3>1, <3>3
  <2>. QED BY <2>1, <2>2
<1>13. TypeOK'
  BY <1>1, <1>2, <1>12, SequenceBounds, SMTT(20) DEF TypeOK
<1>14. Counts(s)' /\ Position(s)'
  BY <1>1, <1>6, <1>7, <1>9, <1>12 DEF Counts, Position, L, after
<1>15. InRounds'
  BY <1>1, <1>6, <1>7, <1>14 DEF InRounds
<1>. QED BY <1>1, <1>3, <1>4, <1>5, <1>13, <1>15

LEMMA SequenceNext ==
  ASSUME SequenceInv, [Next]_vars
  PROVE  SequenceInv'
<1>1. CASE UNCHANGED vars
  <2>1. InRounds => InRounds'
    BY <1>1, RoundsStay DEF vars, Reading
  <2>. QED BY <1>1, <2>1 DEF SequenceInv, TypeOK, OneInside, vars
<1>. QED BY <1>1, SequenceBuilt, SequenceWaits, SequenceRead, SequenceAdvances
         DEF Next, GetNext

LEMMA SequenceInvariant == Spec => []SequenceInv
<1>1. SequenceInv /\ [Next]_vars => SequenceInv'
  BY SequenceNext
<1>. QED BY SequenceStarts, <1>1, PTL DEF Spec

(* However many goroutines call, GetNext has one of them at a time between *)
(* its Lock and its Unlock.                                                *)
THEOREM OneCallerInside ==
  Spec => [](\A c, d \in Callers : pc[c] \in Inside /\ pc[d] \in Inside => c = d)
<1>1. SequenceInv => \A c, d \in Callers : pc[c] \in Inside /\ pc[d] \in Inside => c = d
  BY DEF SequenceInv, OneInside
<1>. QED BY SequenceInvariant, <1>1, PTL

(* Whoever calls, the values are handed out in the order of the sequence   *)
(* and as often as it says, and after the last the first comes again.      *)
THEOREM ValuesInOrder == Spec => []ServedInOrder
<1>1. SequenceInv => ServedInOrder
  <2>. SUFFICES ASSUME SequenceInv, NEW n \in 1..Len(served)
                PROVE  served[n] = OneRound[((n - 1) % Len(OneRound)) + 1]
    BY DEF ServedInOrder, SequenceInv
  <2>1. served # <<>>
    OBVIOUS
  <2>. QED BY <2>1 DEF SequenceInv, InRounds
<1>. QED BY SequenceInvariant, <1>1, PTL
=============================================================================
