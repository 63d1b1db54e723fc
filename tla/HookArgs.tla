----------------------------- MODULE HookArgs -----------------------------
(* The arguments of a mocked call on their way through the hook, on one    *)
(* goroutine.  reflect copies them to the heap, the stack they may point   *)
(* into moves while When functions, hooks and originals run, and           *)
(* StackGuard relocates them before each use; the adapters reorder them    *)
(* for a When function, a hook and Origin that leave out the receiver or   *)
(* the dictionary.  A call may be nested in a hook or in an original.      *)
(* A word stands for a pointer or a number: its value is the stack it      *)
(* points into, or Heap.  A moved word keeps its offset from the upper end *)
(* of the stack, so the stack is all that changes.                         *)
(* The stack can move wherever a function is entered.  Where that is       *)
(* between two things an action does, the action says at which stacks it   *)
(* does them; nothing else happens on the goroutine meanwhile.             *)
EXTENDS Adapters

CONSTANTS Stacks,     \* the address ranges the goroutine's stack may be in
          Setups,     \* [target, hook, origin, conditions]: what is mocked, and how
          GoType,     \* [kind, size in words, ...] of every type, by its name
          MaxNesting, \* how deep types are nested in each other
          MaxCalls, MaxDepth

Heap == "heap"
Dropped == "dropped"

ASSUME HookArgsAssumption ==
  /\ Heap \notin Stacks /\ Dropped \notin Stacks
  /\ MaxCalls \in Nat /\ MaxDepth \in Nat
  /\ \A s \in Setups :
       /\ Adapter(s.target, s.hook).ok /\ Adapter(s.target, s.origin).ok
       /\ {s.target.in, s.hook, s.origin} \subseteq Seq(DOMAIN GoType)
       /\ s.target.method => s.target.in # << >>

(* What a type is made of, and where: the size of a value, the length and  *)
(* the element of an array, the offset and the type of every field.        *)
Parts(g) ==
  CASE g.kind = "array" -> {g.elem}
    [] g.kind = "struct" -> {g.fields[i].type : i \in DOMAIN g.fields}
    [] OTHER -> {}
ASSUME GoTypeAssumption ==
  /\ GenericInfo \in DOMAIN GoType
  /\ \A t \in DOMAIN GoType :
       LET g == GoType[t]
       IN  /\ g.size \in Nat /\ Parts(g) \subseteq DOMAIN GoType
           /\ g.kind \in {"pointer", "string", "slice"} => g.size > 0
           /\ g.kind = "interface" => g.size > 1
           /\ g.kind = "array" => g.len \in Nat /\ g.size = g.len * GoType[g.elem].size
           /\ g.kind = "struct" => \A i \in DOMAIN g.fields :
                LET f == g.fields[i]
                IN  f.at \in Nat /\ f.at + GoType[f.type].size <= g.size
(* No value contains itself. *)
ASSUME NestingAssumption ==
  /\ MaxNesting \in Nat
  /\ \E depth \in [DOMAIN GoType -> 0 .. MaxNesting] :
       \A t \in DOMAIN GoType : \A p \in Parts(GoType[t]) : depth[p] < depth[t]

VARIABLES setup,      \* the mock in effect
          stack,      \* where the goroutine's stack is
          calls,      \* every call so far: its arguments, its StackGuard, and
                      \* if they strayed from each other before it was made
          frames,     \* what runs: [call, run], the innermost last
          getter,     \* the call extraArgsGetter belongs to, 0 before the first
          used        \* the reflect call being made with arguments, the stack
                      \* when they were copied to the callee, and if they may
                      \* have strayed from it where no guard follows

argsVars == <<setup, stack, calls, frames, getter, used>>

(* The words of a value, counted from 0, that are pointers (Go's layout).  *)
PointerWords[t \in DOMAIN GoType] ==
  LET g == GoType[t]
  IN  {w \in 0 .. g.size - 1 :
        \/ g.kind \in {"pointer", "string", "slice"} /\ w = 0
        \/ g.kind = "interface" /\ w = 1
        \/ g.kind = "array" /\ w % GoType[g.elem].size \in PointerWords[g.elem]
        \/ g.kind = "struct" /\ \E i \in DOMAIN g.fields :
             w - g.fields[i].at \in PointerWords[g.fields[i].type]}

mayHoldPointer[t \in DOMAIN GoType] ==
  LET g == GoType[t]
  IN  \/ g.kind \in {"pointer", "string", "slice", "interface"}
      \/ g.kind = "array" /\ g.len > 0 /\ mayHoldPointer[g.elem]
      \/ g.kind = "struct" /\ \E i \in DOMAIN g.fields : mayHoldPointer[g.fields[i].type]

(* The words, counted from p, that walkMem(p, t) hands to rewriteWord. *)
walkMem[t \in DOMAIN GoType] ==
  LET g == GoType[t]
  IN  IF g.kind \in {"pointer", "string", "slice"} THEN {0}
      ELSE IF g.kind = "interface" THEN {1}
      ELSE IF g.kind = "array" /\ mayHoldPointer[g.elem] THEN
        {i * GoType[g.elem].size + w : i \in 0 .. g.len - 1, w \in walkMem[g.elem]}
      ELSE IF g.kind = "struct" THEN
        UNION {{g.fields[i].at + w : w \in walkMem[g.fields[i].type]} : i \in DOMAIN g.fields}
      ELSE {}

walkValue(v, from, to) ==
  LET reached == IF mayHoldPointer[v.type] THEN walkMem[v.type] ELSE {}
  IN  [v EXCEPT !.words = [w \in DOMAIN @ |->
         IF w \in reached /\ @[w] = from THEN to ELSE @[w]]]

(* An argument made while the stack is s: its pointers lead to `at`, and   *)
(* its numbers look like addresses of the stack.  obj is what it is: the   *)
(* argument at a position of the call, or Origin's own one at -position.   *)
Value(type, obj, s, at) ==
  [type |-> type, obj |-> obj, made |-> s,
   words |-> LET pointers == PointerWords[type]
             IN  [w \in 0 .. GoType[type].size - 1 |-> IF w \in pointers THEN at ELSE s]]

(* Fix(args) of a guard that knows the stack as hi, the stack now being s. *)
Fix(args, hi, s) == [i \in DOMAIN args |-> walkValue(args[i], hi, s)]
\* Mutant: the guard does not take note of the new stack.
KeepsBounds(c, s) == [c EXCEPT !.args = Fix(@, c.hi, s)]

Fixed(c, s) == [c EXCEPT !.args = Fix(@, c.hi, s), !.hi = s]

NoUse == [to |-> "nothing", call |-> 0, from |-> 0, args |-> << >>, at |-> Heap, strayed |-> FALSE]

ArgsInit ==
  /\ setup \in Setups
  /\ stack \in Stacks
  /\ calls = << >> /\ frames = << >> /\ getter = 0
  /\ used = NoUse

Top == frames[Len(frames)]
Running(kinds) == frames # << >> /\ Top.run \in kinds
UserCode == frames = << >> \/ Running({"when", "hook", "original", "origin"})
(* ReserveStack grows the stack when there is too little room. *)
ReserveStack == stack' \in Stacks

(* The target is called; reflect copies the arguments to the heap, and the *)
(* hook begins.  NewStackGuard is the first thing it does, but not before  *)
(* it was entered.                                                         *)
EnterHook ==
  /\ UserCode
  /\ Len(calls) < MaxCalls /\ Len(frames) < MaxDepth
  /\ stack' \in Stacks
  /\ \E at \in {Heap, stack} :
       calls' = Append(calls, [hi |-> stack', strayed |-> stack' # stack, args |->
         LET rt == RuntimeTargetType(setup.target)
         IN  [i \in DOMAIN rt |-> Value(rt[i], i, stack, at)]])
  /\ frames' = Append(frames, [call |-> Len(calls) + 1, run |-> "mockerHook", next |-> 1])
  /\ getter' = Len(calls) + 1
  /\ used' = NoUse
  /\ UNCHANGED setup

(* The stack moves under code that is not the hook's own. *)
Move ==
  /\ UserCode /\ frames # << >>
  /\ stack' \in Stacks \ {stack}
  /\ used' = NoUse
  /\ UNCHANGED <<setup, calls, frames, getter>>

(* guard.Fix(args) at the stack `found`, then a reflect call with what the *)
(* adapter makes of them, which copies them at stack'.                     *)
Use(run, form) ==
  \E found \in Stacks :
    LET n == Top.call
        c == Fixed(calls[n], found)
    IN  /\ ReserveStack
        /\ calls' = [calls EXCEPT ![n] = c]
        /\ used' = [to |-> run, call |-> n, from |-> n, at |-> stack',
                    strayed |-> c.strayed \/ stack' # found,
                    args |-> IF run = "original" THEN c.args
                             ELSE InputAdapter(setup.target, form, c.args)]
        /\ frames' = [frames EXCEPT ![Len(frames)].run = run]
        /\ UNCHANGED <<setup, getter>>

Condition == setup.conditions[Top.next]
AskWhen ==
  /\ Running({"mockerHook"}) /\ Top.next <= Len(setup.conditions) /\ Condition.when
  /\ Use("when", setup.hook)

(* The condition matched, or has no When: its hook, or the original. *)
Exec(run) == Use(run, setup.hook) /\ run = (IF Condition.hook THEN "hook" ELSE "original")
WhenReturns(matched) ==
  /\ Running({"when"})
  /\ IF matched THEN \E run \in {"hook", "original"} : Exec(run)
     ELSE /\ frames' = [frames EXCEPT ![Len(frames)] = [Top EXCEPT !.run = "mockerHook", !.next = @ + 1]]
          /\ used' = NoUse
          /\ UNCHANGED <<setup, stack, calls, getter>>
NoWhen ==
  /\ Running({"mockerHook"}) /\ Top.next <= Len(setup.conditions) /\ ~Condition.when
  /\ \E run \in {"hook", "original"} : Exec(run)

(* Another instance, another goroutine, or no condition matched. *)
PassThrough ==
  /\ Running({"mockerHook"})
  /\ \/ Top.next > Len(setup.conditions)
     \/ Top.next = 1
  /\ Use("original", << >>)

(* A hook calls origin, with its own arguments or ones from the heap: they *)
(* are guarded at hi, the call's own are fixed at `first`, and all that   *)
(* the adapter makes of both at `found`.                                   *)
CallOrigin ==
  /\ Running({"hook"}) /\ Len(frames) < MaxDepth
  /\ ReserveStack
  /\ \E hi, first, found \in Stacks, at \in {Heap, stack} :
       LET extra == Fixed(calls[getter], first)
           own == [i \in DOMAIN setup.origin |-> Value(setup.origin[i], -i, stack, at)]
           in == ReversedInputAdapter(setup.target, setup.origin, own, extra.args)
       IN  /\ calls' = [calls EXCEPT ![getter] = extra]
           /\ used' = [to |-> "origin", call |-> Top.call, from |-> getter,
                       args |-> Fix(in, hi, found), at |-> stack',
                       strayed |-> \/ extra.strayed \/ hi # stack
                                   \/ first \notin {hi, found} \/ stack' # found]
  /\ frames' = Append(frames, [call |-> Top.call, run |-> "origin", next |-> 0])
  /\ UNCHANGED <<setup, getter>>

OriginReturns ==
  /\ Running({"origin"})
  /\ ReserveStack
  /\ frames' = SubSeq(frames, 1, Len(frames) - 1)
  /\ used' = NoUse
  /\ UNCHANGED <<setup, calls, getter>>

(* The deferred function of the hook: guard.Fix(out), which takes note of  *)
(* the stack it finds and leaves the arguments, and guard.Release(args).   *)
HookReturns ==
  /\ Running({"hook", "original"})
  /\ ReserveStack
  /\ LET n == Top.call
     IN  \E found \in Stacks :
           calls' = [calls EXCEPT ![n].hi = stack',
                                  ![n].args = Fix(Fix(@, found, stack'), stack', Dropped)]
  /\ frames' = SubSeq(frames, 1, Len(frames) - 1)
  /\ used' = NoUse
  /\ UNCHANGED <<setup, getter>>

ArgsNext ==
  \/ EnterHook
  \/ Move
  \/ AskWhen
  \/ \E matched \in BOOLEAN : WhenReturns(matched)
  \/ NoWhen
  \/ PassThrough
  \/ CallOrigin
  \/ OriginReturns
  \/ HookReturns

ArgsSpec == ArgsInit /\ [][ArgsNext]_argsVars
---------------------------------------------------------------------------
PointersOf(v) == DOMAIN v.words \cap PointerWords[v.type]

(* Every call has its arguments, and frames belong to calls. *)
ArgsTypeOK ==
  /\ stack \in Stacks
  /\ Len(calls) <= MaxCalls /\ Len(frames) <= MaxDepth
  /\ getter \in 0 .. Len(calls)
  /\ \A i \in DOMAIN frames : frames[i].call \in DOMAIN calls
  /\ \A n \in DOMAIN calls :
       /\ calls[n].hi \in Stacks
       /\ \A i \in DOMAIN calls[n].args :
            \A w \in DOMAIN calls[n].args[i].words :
              calls[n].args[i].words[w] \in Stacks \cup {Heap, Dropped}

(* However often the stack moves while When functions, hooks and originals *)
(* run, a reflect call is made with no pointer into a stack that was left  *)
(* (stack.go:76-98): neither with one of a call whose hook still runs, nor *)
(* with one given to its Origin, unless the stack has moved where no guard *)
(* follows it: between reflect's copy and NewStackGuard (stack.go:68-70),  *)
(* or between Fix and the callee's frame in spite of the room reserved for *)
(* it, which prevents growth only (stack.go:56-60).  A number that looks   *)
(* like an address of the stack stays as it was in any case                *)
(* (stack.go:161-225).                                                     *)
ArgumentsAreCurrent ==
  /\ ArgsTypeOK
  /\ used.call = used.from /\ ~used.strayed =>
       \A i \in DOMAIN used.args : \A w \in PointersOf(used.args[i]) :
         used.args[i].words[w] \in {Heap, used.at}
  /\ \A i \in DOMAIN used.args :
       LET v == used.args[i]
       IN  \A w \in DOMAIN v.words \ PointersOf(v) : v.words[w] = v.made

(* Where the dictionary and the receiver of a target are. *)
Dictionary(t) == IF ~t.generic THEN {} ELSE IF t.method /\ ~t.before120 THEN {2} ELSE {1}
Receiver(t) == IF ~t.method THEN {} ELSE IF t.generic /\ t.before120 THEN {2} ELSE {1}
Ordinary(t) == DOMAIN RuntimeTargetType(t) \ (Dictionary(t) \cup Receiver(t))

(* A hook or an Origin leaves out no ordinary parameter.  The code does    *)
(* accept one that lacks the first parameter of a plain function           *)
(* (analyzer_1_20.go:197-210, analyzer_below_1_20.go:94-101), whose        *)
(* argument it then never sees.                                            *)
TakesAll(t, form) == Len(form) >= Len(t.in) - (IF t.method THEN 1 ELSE 0)
HooksTakeAll == \A s \in Setups : TakesAll(s.target, s.hook) /\ TakesAll(s.target, s.origin)

(* A When function or a hook gets the call's arguments in its own order of *)
(* types, each once, and all but the receiver and the dictionary; an       *)
(* argument of the same type never takes another one's place.              *)
HookSeesTheCall ==
  used.to \in {"when", "hook"} =>
    LET got == [i \in DOMAIN used.args |-> used.args[i].obj]
        ordinary == Ordinary(setup.target)
    IN  /\ [i \in DOMAIN used.args |-> used.args[i].type] = setup.hook
        /\ \A p \in ordinary : \E i \in DOMAIN got : got[i] = p
        /\ \A i, j \in DOMAIN got : i < j /\ {got[i], got[j]} \subseteq ordinary => got[i] < got[j]
        /\ \A i, j \in DOMAIN got : got[i] = got[j] => i = j

(* The original behind Origin gets arguments of its parameters' types: the *)
(* ones Origin was called with, all of them and in their order, and where  *)
(* Origin leaves out the receiver or the dictionary, those of the call it  *)
(* answers (mock.go:272-278).                                              *)
OriginGetsTheCall ==
  used.to = "origin" /\ used.call = used.from =>
    LET got == [i \in DOMAIN used.args |-> used.args[i].obj]
        ordinary == Ordinary(setup.target)
    IN  /\ [i \in DOMAIN used.args |-> used.args[i].type] = RuntimeTargetType(setup.target)
        /\ \A i \in DOMAIN got : got[i] = i \/ -got[i] \in DOMAIN setup.origin
        /\ \A k \in DOMAIN setup.origin : \E i \in DOMAIN got : got[i] = -k
        /\ \A i \in ordinary : got[i] < 0
        /\ \A i, j \in ordinary : i < j => got[j] < got[i]

(* "every word in it that points into this goroutine's stack would become  *)
(* a dangling pointer [...] Clear those words" (stack.go:100-105): once    *)
(* its hook has returned a call's arguments hold no pointer into a stack.  *)
ReleasedArgumentsAreCleared ==
  \A n \in DOMAIN calls :
    (\A i \in DOMAIN frames : frames[i].call # n) =>
      \A i \in DOMAIN calls[n].args :
        LET v == calls[n].args[i]
        IN  \A w \in PointersOf(v) : v.words[w] \in {Heap, Dropped}
===========================================================================
