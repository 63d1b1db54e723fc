----------------------------- MODULE Adapters -----------------------------
(* How the arguments of a call become those of a hook, and the arguments   *)
(* of Origin those of the original: InputAdapter and ReversedInputAdapter. *)
(* A parameter list is a sequence of types.  An adapter is given by where  *)
(* it takes every argument from: `take` lists positions of the call,       *)
(* `back` says for every position of the call whether Origin's own         *)
(* argument or the one kept from the call (extra) goes there.              *)
EXTENDS Integers, Sequences

CONSTANT GenericInfo   \* the type of the dictionary parameter

(* A target: its parameters, the receiver first, and how it is compiled.   *)
(* before120 stands for a Go before 1.20, whose methods have the dictionary *)
(* in front of the receiver and whose analyzer knows no methods.           *)
RuntimeTargetTypeBelow120(t) == IF t.generic THEN <<GenericInfo>> \o t.in ELSE t.in
RuntimeTargetType120(t) ==
  IF t.generic /\ t.method THEN <<t.in[1], GenericInfo>> \o Tail(t.in)
  ELSE RuntimeTargetTypeBelow120(t)
RuntimeTargetType(t) ==
  IF t.before120 THEN RuntimeTargetTypeBelow120(t) ELSE RuntimeTargetType120(t)

CheckFuncArgs(a, b, shiftA, shiftB) ==
  /\ Len(a) - shiftA = Len(b) - shiftB
  /\ \A i \in 1 .. Len(a) - shiftA : a[shiftA + i] = b[shiftB + i]

(* The arguments behind the first n, put in front again from the call.     *)
From(n, len) == [i \in 1 .. len - n |-> n + i]
Own(n, len) == [i \in 1 .. len - n |-> <<"own", i>>]
Extra(i) == <<"extra", i>>

Same(len) == [ok |-> TRUE, take |-> From(0, len), back |-> Own(0, len)]
DropFirst(len) ==
  [ok |-> TRUE, take |-> From(1, len), back |-> <<Extra(1)>> \o Own(1, len)]
(* Mutant: the receiver and the dictionary change places. *)
SwapsExtra(len) ==
  [ok |-> TRUE, take |-> From(2, len), back |-> <<Extra(2), Extra(1)>> \o Own(2, len)]

DropBoth(len) ==
  [ok |-> TRUE, take |-> From(2, len), back |-> <<Extra(1), Extra(2)>> \o Own(2, len)]
(* Mutant: the dictionary is left where the compiler has it. *)
KeepsOrder(len) ==
  [ok |-> TRUE, take |-> <<1, 2>> \o From(2, len),
   back |-> <<<<"own", 2>>, <<"own", 1>>>> \o [i \in 1 .. len - 2 |-> <<"own", i + 2>>]]

DictionaryFirst(len) ==
  [ok |-> TRUE, take |-> <<2, 1>> \o From(2, len),
   back |-> <<<<"own", 2>>, <<"own", 1>>>> \o [i \in 1 .. len - 2 |-> <<"own", i + 2>>]]
WithoutDictionary(len) ==
  [ok |-> TRUE, take |-> <<1>> \o From(2, len),
   back |-> <<<<"own", 1>>, Extra(2)>> \o [i \in 1 .. len - 2 |-> <<"own", i + 1>>]]
Refused == [ok |-> FALSE]
If(test, adapter) == IF test THEN adapter ELSE Refused

genericAnalyzer(t, in) ==
  LET rt == RuntimeTargetType(t)
      n == Len(rt)
  IN  IF ~t.method THEN If(CheckFuncArgs(rt, in, 1, 0), DropFirst(n))
      ELSE IF Len(in) >= 2 /\ in[1] = GenericInfo THEN
        If(in[2] = rt[1] /\ CheckFuncArgs(rt, in, 2, 2), DictionaryFirst(n))
      ELSE IF Len(in) >= 1 /\ in[1] = rt[1] THEN
        If(CheckFuncArgs(rt, in, 2, 1), WithoutDictionary(n))
      ELSE If(CheckFuncArgs(rt, in, 2, 0), DropBoth(n))

nonGenericAnalyzer(t, in) == If(CheckFuncArgs(t.in, in, 1, 0), DropFirst(Len(t.in)))

(* The adapter for a function with parameters in, by both Go versions. *)
Adapter120(t, in) ==
  IF CheckFuncArgs(RuntimeTargetType(t), in, 0, 0) THEN Same(Len(in))
  ELSE IF t.generic THEN genericAnalyzer(t, in) ELSE nonGenericAnalyzer(t, in)

AdapterBelow120(t, in) ==
  LET rt == RuntimeTargetType(t)
  IN  IF CheckFuncArgs(rt, in, 0, 0) THEN Same(Len(in))
      ELSE IF CheckFuncArgs(rt, in, 1, 0) THEN DropFirst(Len(rt))
      ELSE If(t.generic /\ CheckFuncArgs(rt, in, 2, 0), DropBoth(Len(rt)))

Adapter(t, in) == IF t.before120 THEN AdapterBelow120(t, in) ELSE Adapter120(t, in)

InputAdapter(t, in, args) == [i \in DOMAIN in |-> args[Adapter(t, in).take[i]]]
ReversedInputAdapter(t, in, own, extra) ==
  [i \in DOMAIN RuntimeTargetType(t) |->
    LET from == Adapter(t, in).back[i]
    IN  IF from[1] = "own" THEN own[from[2]] ELSE extra[from[2]]]
===========================================================================
