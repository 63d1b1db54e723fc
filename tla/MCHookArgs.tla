---------------------------- MODULE MCHookArgs ----------------------------
(* A method, a generic function and a generic method with one parameter of *)
(* every layout, mocked by hooks of the forms InputAdapter accepts.        *)
EXTENDS HookArgs

Type(kind, size) == [kind |-> kind, size |-> size]
Field(at, type) == [at |-> at, type |-> type]
MCGoType ==
  [T |-> Type("pointer", 1), info |-> Type("number", 1), any |-> Type("interface", 2),
   str |-> Type("string", 2),
   two |-> [kind |-> "array", size |-> 4, len |-> 2, elem |-> "str"],
   rec |-> [kind |-> "struct", size |-> 7, fields |->
             <<Field(0, "info"), Field(1, "any"), Field(3, "two")>>]]

Method(generic, before120, in) ==
  [method |-> TRUE, generic |-> generic, before120 |-> before120, in |-> in]
Function(generic, before120, in) ==
  [method |-> FALSE, generic |-> generic, before120 |-> before120, in |-> in]
Hook == <<[when |-> FALSE, hook |-> TRUE]>>
TwoConditions == <<[when |-> TRUE, hook |-> TRUE], [when |-> TRUE, hook |-> FALSE]>>
Mock(t, h, o, c) == [target |-> t, hook |-> h, origin |-> o, conditions |-> c]

MCSetups ==
  {Mock(Method(FALSE, FALSE, <<"T", "str">>), <<"str">>, <<"str">>, TwoConditions),
   Mock(Method(FALSE, FALSE, <<"T", "T">>), <<"T">>, <<"T", "T">>, Hook),
   Mock(Method(TRUE, FALSE, <<"T", "str">>), <<"info", "T", "str">>, <<"T", "str">>, Hook),
   Mock(Method(TRUE, FALSE, <<"T", "str">>), <<"T", "str">>, <<"str">>, Hook),
   Mock(Function(TRUE, FALSE, <<"T", "rec">>), <<"T", "rec">>, <<"info", "T", "rec">>, Hook),
   Mock(Method(TRUE, TRUE, <<"T", "str">>), <<"str">>, <<"T", "str">>, Hook)}

ASSUME MCHooksTakeAll == HooksTakeAll
===========================================================================
