---------------------------- MODULE MCEntryCut ----------------------------
(* Functions of two chosen instructions and a fixed rest, which begins     *)
(* with instruction 3.  A template names the instruction a branch goes to; *)
(* with 0 it goes outside, like a call and an address.                     *)
EXTENDS EntryInvariant

Far == 2048     \* a function or a datum elsewhere
Tpl(op, len, to, x) == I(op, len, to, x)

Amd64Templates ==
  {Tpl("plain", 3, 0, 0), Tpl("plain", 5, 0, 0), Tpl("ret", 1, 0, 0), Tpl("lea", 7, 0, 0),
   Tpl("jcc8", 2, 1, 0), Tpl("jcc8", 2, 3, 0), Tpl("jmp8", 2, 4, 0), Tpl("jcc32", 6, 4, 0),
   Tpl("call32", 5, 0, 0), Tpl("loop", 2, 4, 0)}
Arm64Templates ==
  {Tpl("plain", 4, 0, 0), Tpl("ret", 4, 0, 0), Tpl("adr", 4, 0, 0), Tpl("adrp", 4, 0, 0),
   Tpl("b", 4, 4, 0), Tpl("bl", 4, 0, 0), Tpl("cb", 4, 3, 0), Tpl("bcond", 4, 1, 1),
   Tpl("ldrlit", 4, 0, 0)}

Padding(n) == [k \in 1 .. n |-> I("int3", 1, 0, 0)]
Rest(arch) ==
  IF arch = "amd64"
  THEN {<<third, I("plain", 5, 91, 0), I("plain", 7, 92, 0), I("ret", 1, 0, 0)>> \o Padding(9) :
          third \in {I("plain", 3, 90, 0), I("jcc8", 2, -4, 0)}} \cup
       {<<I("plain", 3, 90, 0), I("ret", 1, 0, 0)>> \o Padding(20)}
  ELSE {[k \in 1 .. 6 |-> I("plain", 4, 90 + k, 0)] \o <<I("ret", 4, 0, 0)>>}

(* Templates with their displacements filled in. *)
Resolve(arch, code) ==
  LET at == Offsets(Lengths(code))
      from(i) == IF arch = "amd64" THEN at[i + 1] ELSE at[i]
  IN  [i \in DOMAIN code |->
        CASE i > 2 -> code[i]
          [] i <= 2 /\ code[i].op = "plain" -> [code[i] EXCEPT !.arg = i]
          [] i <= 2 /\ code[i].op = "adrp" -> [code[i] EXCEPT !.arg = 3]
          [] i <= 2 /\ code[i].op # "adrp" /\ code[i].arg = 0 ->
               [code[i] EXCEPT !.arg = Far - (Entry + from(i))]
          [] OTHER -> [code[i] EXCEPT !.arg = at[code[i].arg] - from(i)]]

Make(arch, templates) ==
  {[arch |-> arch, code |-> Resolve(arch, <<a, b>> \o rest)] :
     a \in templates, b \in templates, rest \in Rest(arch)}

MCFunctions ==
  Make("amd64", Amd64Templates) \cup Make("arm64", Arm64Templates)
    \cup Make("darwin", Arm64Templates)
MCPages == <<12288, 12544>>
MCNearPages == <<1536, 1792>>
MCSlots == <<768, 832>>

(* The functions are such as the theorem about proxies is about.           *)
ASSUME OrdinaryAssumption == OrdinaryFunctions
===========================================================================
