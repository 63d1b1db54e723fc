----------------------------- MODULE MCTargets -----------------------------
(* Which function is mocked: the lookup of methods and the instances of a  *)
(* generic function.  The two have no state in common; a run is about one  *)
(* of them, which `part` fixes from the start.                             *)
(*                                                                         *)
(* Three instances.  The wrapper of "a" loads more than its dictionary and *)
(* makes extra calls; the dictionary of "b" is computed, so that a call of *)
(* the wrapper has to find it; that of "c" lies behind its wrapper.  "a"   *)
(* has a second dictionary, and a third on a page that is not resident.    *)
(* "b" and "c" have the same first type argument.                          *)
EXTENDS GenericTarget, MethodLookup

CONSTANT Parts  \* a subset of {"lookup", "generic"}

VARIABLE part
allVars == <<part, lookupVars, vars>>

SomeLookup == [own |-> CHOOSE o \in [Structs -> Owns] : TRUE,
               embeds |-> [t \in Structs |-> <<>>]]
MCInit ==
  /\ part \in Parts
  /\ \/ part = "lookup" /\ LookupInit
     \/ /\ part = "generic"
        /\ own = SomeLookup.own /\ embeds = SomeLookup.embeds /\ exported = TRUE
        /\ found = NotAsked /\ nested = NotAsked
  /\ \/ part = "generic" /\ Init
     \/ /\ part = "lookup" /\ arch = CHOOSE a \in Archs : TRUE
        /\ chain = << >> /\ analyzing = Idle /\ built = 0
        /\ call = NoCall /\ started = 0
MCNext ==
  /\ UNCHANGED part
  /\ \/ part = "lookup" /\ LookupNext /\ UNCHANGED vars
     \/ part = "generic" /\ Next /\ UNCHANGED lookupVars
MCSpec == MCInit /\ [][MCNext]_allVars

MCShape == 900
MCRaceFunctions == {960}
MCDuffFunctions ==
  {[addr |-> 948, code |-> <<I("plain", 4, 0, 0), I("plain", 4, 0, 0), I("ret", 4, 0, 0)>>]}
MCDictionaries == [a |-> {100, 160, 1800}, b |-> {200}, c |-> {700}]
MCFirstWord == (100 :> 7) @@ (160 :> 7) @@ (200 :> 8) @@ (700 :> 8)
MCReadable == {100, 160, 200, 700}

Mod(d) == d % DispRange
Call(at, to) == I("call", 5, to - (at + 5), 0)
Lea(at, to) == I("lea", 7, Mod(to - (at + 7)), "rip")
Code ==
  [a |-> <<I("plain", 4, 0, 0), Lea(304, 120), Call(311, 952), Lea(316, 100), Call(323, MCShape),
           I("lea", 4, 8, "rsp"), Lea(332, 140), Call(339, 960), I("ret", 1, 0, 0),
           Call(345, 880)>>,
   b |-> <<I("lea", 4, 16, "rsp"), I("plain", 3, 0, 0), Call(407, MCShape), I("ret", 1, 0, 0)>>,
   c |-> <<Lea(500, 700), Call(507, MCShape), I("ret", 1, 0, 0)>>]

Bl(at, to) == I("bl", 4, to - at, 0)
Adrp(at, to, reg) ==
  I("adrp", 4, PageBytes * (to \div PageBytes) - PageBytes * (at \div PageBytes), reg)
Add(to, reg) == I("add", 4, to % PageBytes, <<reg, reg, 0>>)
CodeArm64 ==
  [a |-> <<I("plain", 4, 0, 0), Adrp(304, 120, 1), Add(120, 1), Bl(312, 952),
           Adrp(316, 100, 0), Add(100, 0), Adrp(324, 640, 2), I("plain", 4, 0, 0),
           I("add", 4, 8, <<2, 2, 0>>), Bl(336, MCShape), I("ret", 4, 0, 0), Bl(344, 880)>>,
   b |-> <<I("add", 4, 8, <<0, 1, 0>>), Bl(404, MCShape), I("ret", 4, 0, 0)>>,
   c |-> <<Adrp(500, 700, 0), Add(700, 0), Bl(508, MCShape), I("ret", 4, 0, 0)>>]

Place(code) ==
  [a |-> [addr |-> 300, code |-> code.a, info |-> 100],
   b |-> [addr |-> 400, code |-> code.b, info |-> 200],
   c |-> [addr |-> 500, code |-> code.c, info |-> 700]]
MCWrappers == [amd64 |-> Place(Code), arm64 |-> Place(CodeArm64)]

(* The instances are ones that the theorems about GenericTarget speak of. *)
ASSUME CompiledAssumption == WrappersAreCompiled /\ DictionariesAreCompiled
============================================================================
