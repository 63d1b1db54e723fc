--------------------------- MODULE GenericTarget ---------------------------
(* Mocks of the instances of a generic function that share one compiled    *)
(* body.  A mock is an entry patch of that body; the analyzer finds the    *)
(* body and the instance's dictionary in the wrapper of the instance, or   *)
(* has the wrapper called with zero values while the body is patched.      *)
(* Every hook compares the dictionary of the call with its own and passes  *)
(* calls of other instances on to what it displaced.                       *)
EXTENDS GenericCode

CONSTANTS
  Instances,     \* the instances of the generic function
  Archs,         \* a subset of {"amd64", "arm64"}
  Shape,         \* the address of the body they share
  Wrappers,      \* of an arch and an instance: [addr, code, info], with the dictionary it passes
  Dictionaries,  \* of an instance: the addresses of its dictionaries
  FirstWord,     \* of every dictionary: its first word
  Readable,      \* the addresses derefUintptrSafe can read, dictionaries among them
  MaxBuilds, MaxCalls

ASSUME GenericAssumption ==
  /\ \A a \in Archs, i \in Instances : Wrappers[a][i].info \in Dictionaries[i]
  /\ \A i \in Instances : Dictionaries[i] \subseteq Nat \ {0}
  /\ Readable \subseteq DOMAIN FirstWord
  /\ MaxBuilds \in Nat /\ MaxCalls \in Nat

VARIABLES
  arch,      \* the machine
  chain,     \* the entry patches of the body, oldest first
  analyzing, \* the mock that is being built: [instance, info, step]
  built,     \* how many were built
  call,      \* the call under way: [instance, dict, at], at = 0 in the body
  started    \* how many were started

vars == <<arch, chain, analyzing, built, call, started>>

Idle == [step |-> "none"]
NoCall == [at |-> -1]

Wrapper == Wrappers[arch]

Init ==
  /\ arch \in Archs
  /\ chain = << >> /\ analyzing = Idle /\ built = 0
  /\ call = NoCall /\ started = 0

derefUintptrSafe(p) == [ok |-> p \in Readable, word |-> IF p \in Readable THEN FirstWord[p] ELSE 0]

(* Mutant: dictionaries are compared by address. *)
SameAddress(g, other) == g = other

Equal(g, other) ==
  \/ g = other
  \/ /\ g # 0 /\ other # 0
     /\ derefUintptrSafe(g).ok /\ derefUintptrSafe(other).ok
     /\ derefUintptrSafe(g).word = derefUintptrSafe(other).word

Analysis(i) == GetGenericAddr(arch, Wrapper[i])

(* NewAnalyzer: the dictionary is found in the wrapper, or left to a call. *)
Analyze(i) ==
  /\ analyzing = Idle /\ call = NoCall /\ built < MaxBuilds
  /\ Analysis(i).ok
  /\ analyzing' = [instance |-> i, info |-> Analysis(i).info, jump |-> Analysis(i).jump,
                   step |-> IF Analysis(i).info = NotFound THEN "patch" ELSE "done"]
  /\ built' = built + 1
  /\ UNCHANGED <<arch, chain, call, started>>

FallbackPatch ==
  /\ analyzing.step = "patch"
  /\ chain' = Append(chain, [owner |-> "analyzer", instance |-> analyzing.instance, info |-> 0])
  /\ analyzing' = [analyzing EXCEPT !.step = "call"]
  /\ UNCHANGED <<arch, built, call, started>>

(* The wrapper is called with zero values; the hook keeps the dictionary.  *)
FallbackCall ==
  /\ analyzing.step = "call"
  /\ analyzing' = [analyzing EXCEPT !.step = "unpatch", !.info = Wrapper[analyzing.instance].info]
  /\ UNCHANGED <<arch, chain, built, call, started>>

(* Mutant: the analyzer's patch is left in place. *)
LeavesPatch ==
  /\ analyzing.step = "unpatch"
  /\ analyzing' = [analyzing EXCEPT !.step = "done"]
  /\ UNCHANGED <<arch, chain, built, call, started>>

FallbackUnpatch ==
  /\ analyzing.step = "unpatch"
  /\ chain' = Front(chain)
  /\ analyzing' = [analyzing EXCEPT !.step = "done"]
  /\ UNCHANGED <<arch, built, call, started>>

Patch ==
  /\ analyzing.step = "done" /\ call = NoCall
  /\ chain' = Append(chain, [owner |-> "mock", instance |-> analyzing.instance,
                             info |-> analyzing.info])
  /\ analyzing' = Idle
  /\ UNCHANGED <<arch, built, call, started>>

UnPatch ==
  /\ chain # << >> /\ Last(chain).owner = "mock" /\ analyzing = Idle /\ call = NoCall
  /\ chain' = Front(chain)
  /\ UNCHANGED <<arch, analyzing, built, call, started>>

(* An instance is called, through its wrapper or by another generic        *)
(* function that holds a dictionary for it.                                *)
CallInstance(i) ==
  /\ call = NoCall /\ analyzing = Idle /\ started < MaxCalls
  /\ \E d \in Dictionaries[i] :
       call' = [instance |-> i, dict |-> d, at |-> Len(chain), answer |-> 0]
  /\ started' = started + 1
  /\ UNCHANGED <<arch, chain, analyzing, built>>

(* The hook of one mock: it answers, or calls what its mock displaced. *)
Hook ==
  /\ call.at > 0 /\ call.answer = 0
  /\ call' = IF Equal(call.dict, chain[call.at].info)
             THEN [call EXCEPT !.answer = call.at]
             ELSE [call EXCEPT !.at = @ - 1]
  /\ UNCHANGED <<arch, chain, analyzing, built, started>>

Return ==
  /\ call.at = 0 \/ (call # NoCall /\ call.answer > 0)
  /\ call' = NoCall
  /\ UNCHANGED <<arch, chain, analyzing, built, started>>

Next ==
  \/ \E i \in Instances : Analyze(i) \/ CallInstance(i)
  \/ FallbackPatch \/ FallbackCall \/ FallbackUnpatch
  \/ Patch \/ UnPatch
  \/ Hook \/ Return

Spec == Init /\ [][Next]_vars
----------------------------------------------------------------------------
(* What the code relies on, of the compiler.  A call and the loads of an   *)
(* address are encoded as the machine takes them; the wrapper calls the    *)
(* shared body once and otherwise functions that the analyzer knows, and   *)
(* where it loads addresses before that call, the last is a dictionary of  *)
(* its instance.                                                           *)
CallsAddr(a, w, i, to) ==
  \/ /\ a = "amd64" /\ w.code[i].op = "call"
     /\ w.code[i].arg = to - (At(w, i) + w.code[i].len)
  \/ /\ a = "arm64" /\ w.code[i].op = "bl"
     /\ w.code[i].arg = to - At(w, i)

Loads(a, w) ==
  {i \in Scanned(w) :
    \/ a = "amd64" /\ w.code[i].op = "lea" /\ w.code[i].x = "rip"
    \/ a = "arm64" /\ w.code[i].op = "adrp" /\ i < Len(w.code) /\ w.code[i + 1].op = "add"}
LoadsAddr(a, w, i, d) ==
  \/ LET disp == d - (At(w, i) + w.code[i].len)
     IN  /\ a = "amd64" /\ -DispRange <= 2 * disp /\ 2 * disp < DispRange
         /\ w.code[i].arg = disp % DispRange
  \/ /\ a = "arm64"
     /\ w.code[i].arg = PageBytes * (d \div PageBytes) - PageBytes * (At(w, i) \div PageBytes)
     /\ w.code[i + 1].arg = d % PageBytes
     /\ w.code[i + 1].x = <<w.code[i].x, w.code[i].x, 0>>

WrapperIsCompiled(a, i, w) ==
  /\ w.addr \in Nat /\ w.code \in Seq(Range(w.code)) /\ Range(Lengths(w.code)) \subseteq Nat \ {0}
  /\ a = "arm64" => \A j \in DOMAIN w.code : w.code[j].len = 4
  /\ \E body \in Scanned(w) :
       /\ CallsAddr(a, w, body, Shape)
       /\ \A j \in Scanned(w) \ {body} :
            w.code[j].op \in {"call", "bl"} =>
              \E to \in ExtraCalls : CallsAddr(a, w, j, to)
       /\ \A j \in Loads(a, w) :
            j < body /\ (\A l \in Loads(a, w) : l < body => l <= j) =>
              \E d \in Dictionaries[i] : LoadsAddr(a, w, j, d)

WrappersAreCompiled ==
  /\ ExtraCalls \subseteq Nat /\ Shape \in Nat \ ExtraCalls
  /\ \A a \in Archs, i \in Instances : WrapperIsCompiled(a, i, Wrappers[a][i])

(* A dictionary belongs to one instance, and the dictionaries of an        *)
(* instance begin with the same word, its first type argument.  Instances  *)
(* with the same first type argument begin with the same word, too.        *)
DictionariesAreCompiled ==
  \A i, j \in Instances : \A d \in Dictionaries[i], e \in Dictionaries[j] :
    IF i # j THEN d # e
    ELSE {d, e} \subseteq Readable => FirstWord[d] = FirstWord[e]
----------------------------------------------------------------------------
(* The chain holds mocks, and above them at most the analyzer's patch. *)
TypeOK ==
  /\ built \in 0 .. MaxBuilds /\ started \in 0 .. MaxCalls
  /\ Len(chain) <= built
  /\ \A n \in DOMAIN chain : chain[n].instance \in Instances
  /\ call.at \in -1 .. Len(chain)

(* The analysis of a wrapper, whatever else the wrapper calls and loads,   *)
(* ends with the shared body and with a dictionary of the wrapper's        *)
(* instance (disasm_amd64.go:188-217, disasm_arm64.go:130-159).            *)
AnalysisIsRight ==
  analyzing.step = "done" =>
    /\ analyzing.jump = Shape
    /\ analyzing.info \in Dictionaries[analyzing.instance]

(* A call that reaches the body has met no mock of its own kin, and one    *)
(* that is answered is answered by the newest mock of its own kin,         *)
(* whichever dictionaries the call and the mock carry, as long as both can *)
(* be read (generic.go:54-75).  All that the code can tell of an instance  *)
(* is its kin: the instances with the same first word.                     *)
Akin(i, j) ==
  \/ i = j
  \/ \E d \in Dictionaries[i] \cap Readable, e \in Dictionaries[j] \cap Readable :
       FirstWord[d] = FirstWord[e]
ReadsAlike(n) == call.dict = chain[n].info \/ {call.dict, chain[n].info} \subseteq Readable
OfKin(n) ==
  chain[n].owner = "mock" /\ Akin(chain[n].instance, call.instance) /\ ReadsAlike(n)
NewestOf(Mine(_)) ==
  /\ call.at = 0 => \A n \in DOMAIN chain : ~Mine(n)
  /\ call # NoCall /\ call.answer > 0 =>
       /\ Mine(call.answer)
       /\ \A n \in call.answer + 1 .. Len(chain) : ~Mine(n)
NewestOfItsKin == NewestOf(OfKin)

(* What the README promises: mocks of instances that share one body but    *)
(* have different actual types do not answer for each other                *)
(* (README.md:202-234).                                                    *)
Own(n) ==
  chain[n].owner = "mock" /\ chain[n].instance = call.instance /\ ReadsAlike(n)
NewestOfItsInstance == NewestOf(Own)

(* When the analyzer has finished, with or without the call, its own patch *)
(* is gone: the body has exactly the mocks in effect (analyzer.go:135-137).*)
OnlyMocksStay ==
  /\ TypeOK
  /\ analyzing.step \in {"none", "done"} =>
       \A n \in DOMAIN chain : chain[n].owner = "mock"
============================================================================
