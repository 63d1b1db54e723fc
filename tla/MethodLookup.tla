---------------------------- MODULE MethodLookup ----------------------------
(***************************************************************************)
(* GetMethod(x, "M") and GetNestedMethod(x, "M") (src/utils.go): which     *)
(* function a method is looked up to, against the function that the        *)
(* selector x.M of Go denotes.                                             *)
(*                                                                         *)
(* One name M is looked up in structs 1..MaxStructs that embed structs of  *)
(* a higher number.  Struct 1 is the type of x.  A struct declares M at    *)
(* most once: as a method with a value or a pointer receiver, or as a      *)
(* field that holds a function.  Whether an embedded pointer is nil is a   *)
(* matter of x; all values of a struct in x are alike in this.  Embedded   *)
(* interfaces are left out, and the linker is taken to keep every method.  *)
(***************************************************************************)
EXTENDS SequencesExt

CONSTANTS
  MaxStructs,  \* bound: structs
  MaxEmbedded, \* bound: embedded fields of a struct
  Hows,        \* how structs are embedded: by "value", "pointer" or "nil",
               \* a pointer that is nil in x
  Owns,        \* how structs declare M: "none", "value", "pointer", "field"
  Exported     \* the kinds of names looked up: TRUE for exported ones

ASSUME LookupBounds == MaxStructs \in Nat \ {0} /\ MaxEmbedded \in Nat
ASSUME LookupKinds ==
  /\ Hows \subseteq {"value", "pointer", "nil"}
  /\ Owns \subseteq {"none", "value", "pointer", "field"}
  /\ Exported \subseteq BOOLEAN

VARIABLES
  own,       \* how each struct declares M
  embeds,    \* the embedded fields of each struct, in order
  exported,  \* M is an exported name
  found,     \* what GetMethod returned
  nested     \* what GetNestedMethod returned

lookupVars == <<own, embeds, exported, found, nested>>

Structs == 1..MaxStructs
NotAsked == [what |-> "not asked", of |-> 0]
Nothing == [what |-> "nothing", of |-> 0]
Panics == [what |-> "panic", of |-> 0]
\* A function of struct t: the code of its method M, the wrapper that promotes
\* a method of an embedded struct (or of the value to the pointer), or the
\* function in its field M.
MethodOf(t) == [what |-> "own", of |-> t]
WrapperOf(t) == [what |-> "wrapper", of |-> t]
FieldOf(t) == [what |-> "field", of |-> t]
IsMethod(t) == own[t] \in {"value", "pointer"}

Fields(t) ==
  LET Field == [type : (t + 1)..MaxStructs, how : Hows]
  IN {s \in UNION {[1..n -> Field] : n \in 0..MaxEmbedded} :
        \A i, j \in DOMAIN s : s[i].type = s[j].type => i = j}
\* All choices of embedded fields for the structs.
EmbeddingsUpTo[n \in 0..MaxStructs] ==
  IF n = 0 THEN {<<>>}
  ELSE {Append(types, fields) : types \in EmbeddingsUpTo[n - 1], fields \in Fields(n)}

-----------------------------------------------------------------------------
(* Go's rule: the ways to M through embedded fields, the shortest of them, *)
(* and the methods that reflection lists for a struct and its pointer.     *)

\* The struct at the end of a way that begins in t.
End(t, way) == IF way = <<>> THEN t ELSE way[Len(way)].type
Ways[t \in Structs] ==
  {<<>>} \cup UNION {{Cons(embeds[t][i], way) : way \in Ways[embeds[t][i].type]}
                       : i \in DOMAIN embeds[t]}
Shortest(t, kinds) ==
  LET all == {way \in Ways[t] : own[End(t, way)] \in kinds}
  IN {way \in all : \A other \in all : Len(way) <= Len(other)}

\* The declaration that x.M denotes; there is none when two are equally near.
Denoted(t) ==
  LET near == Shortest(t, {"value", "pointer", "field"})
      at == End(t, CHOOSE way \in near : TRUE)
  IN IF Cardinality(near) # 1 THEN Nothing
     ELSE IF own[at] = "field" THEN FieldOf(at) ELSE MethodOf(at)

\* M in the methods of *t and of t, as the struct's own code or as a wrapper.
OfPointer(t) ==
  IF Denoted(t).what # "own" THEN Nothing
  ELSE IF own[t] = "pointer" THEN MethodOf(t) ELSE WrapperOf(t)
OfValue(t) ==
  IF Denoted(t).what # "own" THEN Nothing
  ELSE IF own[t] = "value" THEN MethodOf(t)
  ELSE LET way == CHOOSE way \in Shortest(t, {"value", "pointer"}) : TRUE
           byPointer == \E i \in DOMAIN way : way[i].how \in {"pointer", "nil"}
       IN IF own[End(t, way)] = "value" \/ byPointer THEN WrapperOf(t)
          ELSE Nothing

\* reflect.Type.MethodByName knows exported names only, and
\* unexportedMethodByName answers for unexported names only.
ByName(method) == IF exported THEN method ELSE Nothing
Unexported(method) == IF exported THEN Nothing ELSE method

-----------------------------------------------------------------------------
(* getMethod.                                                              *)

First(s) ==
  LET hits == {i \in DOMAIN s : s[i] # Nothing}
  IN IF hits = {} THEN Nothing
     ELSE s[CHOOSE i \in hits : \A j \in hits : i <= j]

\* FieldByName goes through embedded structs, too, and panics at a nil one.
getFieldMethod(t) ==
  LET near == Shortest(t, {"field"})
      way == CHOOSE way \in near : TRUE
  IN IF Cardinality(near) # 1 THEN Nothing
     ELSE IF \E i \in DOMAIN way : way[i].how = "nil" THEN Panics
     ELSE FieldOf(End(t, way))

\* Mutant: the search before declared methods took precedence.
EmbeddedWins(t, deferred) ==
  IF deferred # Nothing THEN deferred
  ELSE First(<<ByName(OfValue(t)), getFieldMethod(t), Unexported(OfValue(t)),
               ByName(OfPointer(t)), Unexported(OfPointer(t))>>)
\* Mutant: promoted wrappers take precedence, too.
WrappersWin(t, deferred) ==
  First(<<ByName(OfValue(t)), ByName(OfPointer(t)), deferred,
          getFieldMethod(t), Unexported(OfValue(t)),
          Unexported(OfPointer(t))>>)

\* The search of one struct, given the candidate from its embedded fields.
Resolve(t, deferred) ==
  LET Declared(method) == IF method = MethodOf(t) THEN method ELSE Nothing
  IN IF deferred # Nothing
       THEN First(<<ByName(Declared(OfValue(t))),
                    ByName(Declared(OfPointer(t))), deferred>>)
       ELSE First(<<ByName(OfValue(t)), getFieldMethod(t),
                    Unexported(OfValue(t)), ByName(OfPointer(t)),
                    Unexported(OfPointer(t))>>)

\* Every embedded field is searched; the first that yields something is the
\* candidate.  Of a nil pointer only the type is asked.
getMethod[t \in Structs] ==
  LET hit == [i \in DOMAIN embeds[t] |->
                LET f == embeds[t][i]
                IN IF f.how = "nil" THEN ByName(OfPointer(f.type))
                   ELSE getMethod[f.type]]
  IN IF \E i \in DOMAIN hit : hit[i] = Panics THEN Panics
     ELSE Resolve(t, First(hit))

\* Mutant: the outer struct is asked first.
OuterFirst(t, inner) ==
  First(<<ByName(OfValue(t)), ByName(OfPointer(t)), inner>>)

\* getNestedMethod of one struct, given what its embedded fields yield.
NestedOf(t, inner) ==
  First(<<inner, ByName(OfValue(t)), ByName(OfPointer(t))>>)
getNestedMethod[t \in Structs] ==
  NestedOf(t, First([i \in DOMAIN embeds[t] |->
                       LET f == embeds[t][i]
                       IN IF f.how = "nil" THEN Nothing
                          ELSE getNestedMethod[f.type]]))

-----------------------------------------------------------------------------
LookupInit ==
  /\ own \in [Structs -> Owns]
  /\ embeds \in EmbeddingsUpTo[MaxStructs]
  /\ exported \in Exported
  /\ found = NotAsked /\ nested = NotAsked

\* Nothing is the assertion that fails.
GetMethod ==
  /\ found = NotAsked
  /\ found' = getMethod[1]
  /\ UNCHANGED <<own, embeds, exported, nested>>

GetNestedMethod ==
  /\ nested = NotAsked
  /\ nested' = getNestedMethod[1]
  /\ UNCHANGED <<own, embeds, exported, found>>

LookupNext == GetMethod \/ GetNestedMethod

LookupSpec == LookupInit /\ [][LookupNext]_lookupVars

-----------------------------------------------------------------------------
Methods == {MethodOf(t) : t \in {s \in Structs : IsMethod(s)}}
Promoted == {WrapperOf(t) : t \in Structs}
FuncFields == {FieldOf(t) : t \in {s \in Structs : own[s] = "field"}}

\* A lookup yields a method that some struct declares, a wrapper, a function
\* field that some struct has, or nothing (getMethod, getNestedMethod).
LookupTypeOK ==
  /\ own \in [Structs -> Owns]
  /\ \A t \in Structs : embeds[t] \in Fields(t)
  /\ exported \in Exported
  /\ found \in {NotAsked, Nothing, Panics} \cup Methods \cup Promoted \cup FuncFields
  /\ nested \in {NotAsked, Nothing} \cup Methods \cup Promoted

NothingIsNil ==
  \A t \in Structs : \A i \in DOMAIN embeds[t] : embeds[t][i].how # "nil"
MethodsOnly == \A t \in Structs : own[t] # "field"
Chain == \A t \in Structs : Len(embeds[t]) <= 1
Declaring == {way \in Ways[1] : own[End(1, way)] # "none"}

\* When one way only leads to a declaration of M, at any depth and of any
\* kind, GetMethod finds it, and never a wrapper of it: the wrapper is a
\* function that calls on embedded values do not go through
\* (src/utils.go:109-114).
OneDeclarationIsFound ==
  /\ LookupTypeOK
  /\ found # NotAsked /\ NothingIsNil /\ (\E way \in Ways[1] : Declaring = {way})
       => found = Denoted(1)

\* Along a chain of embedded structs an exported name is looked up to the
\* outermost method, the one that shadows the others.  An unexported name is
\* looked up to the innermost method, which x.M does not denote when there are
\* two: the comment on shadowing (src/utils.go:83-92) is true of exported names
\* only, since the methods asked first are those reflection lists
\* (src/utils.go:114-122).
Innermost ==
  IF Declaring = {} THEN Nothing
  ELSE MethodOf(End(1, CHOOSE way \in Declaring : \A other \in Declaring : Len(other) <= Len(way)))
ChainIsResolved ==
  found # NotAsked /\ NothingIsNil /\ MethodsOnly /\ Chain
  => found = IF exported THEN Denoted(1) ELSE Innermost

\* GetNestedMethod finds what GetMethod is shadowed from: when a struct
\* embedded in x, at any depth, declares a method M, then a declared method of
\* an embedded struct is found (tests/embed_precedence_test.go:9).
NestedIsEmbedded ==
  /\ nested # NotAsked /\ NothingIsNil /\ exported
  /\ \E way \in Ways[1] \ {<<>>} : IsMethod(End(1, way))
  => nested \in Methods \ {MethodOf(1)}
=============================================================================
