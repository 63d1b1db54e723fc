--------------------------- MODULE MCMockClients ---------------------------
(* Small programs; a run is about one of them or each of them.             *)
(* "functions": f and g are two instances of one generic shape and share   *)
(* the entry A, f2 has its own; f can be mocked by two mockers, once in an *)
(* outer and once in an inner context.  "variables": an outer and an inner *)
(* context may mock one variable, beside a function.  "interfaces": two    *)
(* types implement the method Read of an interface and a third has one     *)
(* that is too short to patch, which the options of the second mock leave  *)
(* out; one of the methods can be mocked by itself, and there is a         *)
(* variable.                                                               *)
EXTENDS MockClients, TLC

CONSTANTS m1, m2, m3, f, g, A,
          a1, a2, a3, s1, s2, d1, v1, v2, f1, f2, f3, v, A1, A2, A3, AV, all, some,
          Programs

VARIABLE program

MCTarget ==
  m1 :> f @@ m2 :> g @@ m3 :> f @@
  a1 :> f1 @@ a2 :> f2 @@ a3 :> f3 @@ s1 :> f1 @@ s2 :> f2 @@ d1 :> f2 @@ v1 :> v @@ v2 :> v
MCAddr == f :> A @@ g :> A @@ f1 :> A1 @@ f2 :> A2 @@ f3 :> A3 @@ v :> AV
MCMemberOf == all :> (f1 :> a1 @@ f2 :> a2 @@ f3 :> a3) @@ some :> (f1 :> s1 @@ f2 :> s2 @@ f3 :> a3)

Method(pc, type, receiver, argSize) ==
  [pc |-> pc, method |-> "Read", pkg |-> "p", type |-> type,
   receiver |-> receiver, argSize |-> argSize]
MCFuncList ==
  <<Method(f1, "T1", "pointer", 32), Method(A1, "T1", "value", 32),
    Method(f2, "T2", "pointer", 32), Method(AV, "I", "pointer", 40),
    Method(A2, "T4", "pointer", 48), Method(f3, "T3", "pointer", 32)>>
Read(options) == [pc |-> AV, method |-> "Read", argSize |-> 40, options |-> options]
MCIface ==
  all :> Read({})
  @@ some :> Read({[by |-> "type", names |-> {"T1", "T2"}], [by |-> "pkg", names |-> {"p"}]})

(* The mocks of the other programs are never built. *)
InProgram == [functions |-> {m1, m2, m3, d1}, variables |-> {v1, v2, d1},
              interfaces |-> {a1, a2, a3, s1, s2, d1, v1}]
MCInit == CInit /\ program \in Programs
MCNext ==
  /\ CNext /\ UNCHANGED program
  /\ \A m \in Mockers \ InProgram[program] : handle'[m] = "none"
  /\ program # "interfaces" => \A i \in Groups : group'[i] = "none"
MCSpec == MCInit /\ [][MCNext]_<<cvars, program>>

MCRules == AllRules \cup {"fresh"}
MapOrder == MCRules \ {"manual"}
Anywhere == MCRules \ {"own"}
=============================================================================
