---------------------------- MODULE MockClients ----------------------------
(* What else is registered beside the mocks of functions: variables        *)
(* (src/mock_var.go), whose content stands where a function has its entry, *)
(* and the mocks of an interface (src/exp/iface), one for every method of  *)
(* the program that may implement it, built, patched and released in a     *)
(* loop that a panic leaves half way.                                      *)
EXTENDS MockLifecycle

CONSTANTS
  VarMockers,  \* the mocks of variables; target gives the variable
  Groups,      \* the mocks of interface methods
  Iface,       \* [Groups -> method, argument size and options]
  FuncList,    \* the functions of the program, in the order of its table
  MemberOf,    \* [Groups -> [function -> the mocker of it]]
  Short        \* functions that are too short to patch

VARIABLES
  group,    \* "none", "held", or "lost" when its Build panicked
  members,  \* Mocker.mockers: those that were built, by their place in FuncList
  loop      \* the loop over a group that is running, if any

client == <<group, members, loop>>
cvars == <<vars, client>>

NoLoop == [what |-> "idle", todo |-> {}]

(* The methods an interface mock takes for implementations: those of the   *)
(* name, with a pointer receiver, whose arguments take as much room; of    *)
(* the interface itself there is a function in the table, too.  Every      *)
(* option must match, each with one of its names.  They are given by their *)
(* places in the table, whose order every loop follows.                    *)
funcInfoMap(name) ==
  {x \in DOMAIN FuncList : FuncList[x].method = name /\ FuncList[x].receiver = "pointer"}
Match(f, options) ==
  \A o \in options : \E n \in o.names : n = (IF o.by = "type" THEN f.type ELSE f.pkg)
FindImplementTargets(i) ==
  {x \in funcInfoMap(Iface[i].method) :
     /\ FuncList[x].pc # Iface[i].pc
     /\ FuncList[x].argSize - 8 = Iface[i].argSize - 16
     /\ Match(FuncList[x], Iface[i].options)}
Impl(i, x) == MemberOf[i][FuncList[x].pc]
First(places) == CHOOSE x \in places : \A y \in places : x <= y

GroupMockers == UNION {{Impl(i, x) : x \in FindImplementTargets(i)} : i \in Groups}
FuncMockers == Mockers \ (VarMockers \cup GroupMockers)

\* Every Mock and every MockValue makes a mocker of its own, and a function is
\* in the table once.
ASSUME VarAssumption == VarMockers \subseteq Mockers
ASSUME TableAssumption ==
  /\ DOMAIN FuncList \subseteq Nat
  /\ \A x, y \in DOMAIN FuncList : FuncList[x].pc = FuncList[y].pc => x = y
ASSUME ImplAssumption ==
  \A i \in Groups : \A x \in FindImplementTargets(i) :
    /\ Impl(i, x) \in Mockers \ VarMockers
    /\ target[Impl(i, x)] = FuncList[x].pc
    /\ \A j \in Groups : \A y \in FindImplementTargets(j) :
         Impl(i, x) = Impl(j, y) => i = j

CInit ==
  /\ Init
  /\ group = [i \in Groups |-> "none"]
  /\ members = [i \in Groups |-> {}]
  /\ loop = NoLoop

Idle == InTest /\ loop = NoLoop

(* Mocks of functions and the contexts, as they are, between two loops.    *)
Lifecycle ==
  /\ Idle \/ ~InTest
  /\ \/ \E m \in FuncMockers : Build(m) \/ Patch(m) \/ UnPatch(m) \/ RePatch(m)
     \/ EnterContext \/ LeaveContext \/ UnPatchAll \/ CleanupEnd
     \/ \E k \in Keys : CleanupStep(k)
  /\ UNCHANGED client

-----------------------------------------------------------------------------
(* Mocks of variables.                                                     *)

(* The value to go back to is the one the variable has when MockValue is   *)
(* called, not the one it has when it is patched.                          *)
MockValue(m) ==
  /\ Idle /\ m \in VarMockers /\ handle[m] = "none"
  /\ original' = [original EXCEPT ![m] = entry[At(m)]]
  /\ handle' = [handle EXCEPT ![m] = "made"]
  /\ UNCHANGED <<isPatched, entry, gMocker, cleanup, client>>

\* A test that obeys "fresh" sets a variable when it holds what it is going
\* to be reset to: MockValue(&v).To(x) in one go, as in every test.
ObeysFresh(m) == "fresh" \in Rules => entry[At(m)] = original[m]

SetVariable(m) ==
  /\ entry' = [entry EXCEPT ![At(m)] = m]
  /\ isPatched' = [isPatched EXCEPT ![m] = TRUE]
  /\ addToGlobal(m)
To(m) ==
  /\ Idle /\ handle[m] = "made" /\ ObeysOnce(m) /\ ObeysFresh(m)
  /\ SetVariable(m)
  /\ handle' = [handle EXCEPT ![m] = IF Remocks(m) THEN "lost" ELSE "held"]
  /\ UNCHANGED <<original, cleanup, client>>

\* MockerVar.Patch after a release, also through To; while the variable is
\* mocked To changes what a later Patch puts there, and nothing else.
PatchVar(m) ==
  /\ Idle /\ m \in VarMockers /\ handle[m] = "held" /\ ~isPatched[m]
  /\ ObeysOnce(m) /\ ObeysFresh(m)
  /\ SetVariable(m)
  /\ UNCHANGED <<handle, original, cleanup, client>>

UnPatchVar(m) ==
  /\ Idle /\ m \in VarMockers /\ handle[m] = "held" /\ isPatched[m]
  /\ ObeysOwn(m) /\ ObeysLifo(m)
  /\ WriteBack(m) /\ removeFromGlobal(m)
  /\ UNCHANGED <<handle, cleanup, client>>

-----------------------------------------------------------------------------
(* Mocks of an interface's method.                                         *)

StartGroup(i, what, todo) ==
  /\ Idle /\ loop' = [what |-> what, group |-> i, todo |-> todo]
  /\ UNCHANGED <<vars, members>>

\* Mock(..).Build(), after every implementation has got its own builder.
BuildGroup(i) ==
  /\ group[i] = "none" /\ group' = [group EXCEPT ![i] = "held"]
  /\ \A x \in FindImplementTargets(i) : ObeysOnce(Impl(i, x))
  /\ StartGroup(i, "build", FindImplementTargets(i))
PatchGroup(i) ==
  /\ group[i] = "held"
  /\ \A x \in members[i] : isPatched[Impl(i, x)] \/ ObeysOnce(Impl(i, x))
  /\ StartGroup(i, "patch", members[i]) /\ UNCHANGED group
UnPatchGroup(i) ==
  /\ group[i] = "held"
  /\ \A x \in members[i] :
       isPatched[Impl(i, x)] => ObeysOwn(Impl(i, x)) /\ ObeysLifo(Impl(i, x))
  /\ StartGroup(i, "unpatch", members[i]) /\ UNCHANGED group

Member == Impl(loop.group, First(loop.todo))
InLoop(what) == loop.what = what /\ loop.todo # {}
GoesOn == loop' = [loop EXCEPT !.todo = @ \ {First(@)}]
IsBuilt == members' = [members EXCEPT ![loop.group] = @ \cup {First(loop.todo)}]
GroupPanics ==
  /\ loop' = NoLoop
  /\ group' = [group EXCEPT ![loop.group] = "lost"]

\* Mutant: what cannot be patched is left out.
LeavesOut ==
  /\ InLoop("build") /\ target[Member] \in Short
  /\ GoesOn /\ IsBuilt
  /\ UNCHANGED <<vars, group>>

(* PatchValue refuses one of the functions, in the middle of the group.    *)
BuildRefused ==
  /\ InLoop("build") /\ target[Member] \in Short
  /\ GroupPanics
  /\ UNCHANGED <<vars, members>>

BuildMember ==
  /\ InLoop("build") /\ target[Member] \notin Short
  /\ WriteBranch(Member) /\ addToGlobal(Member)
  /\ IF Remocks(Member)
     THEN /\ handle' = [handle EXCEPT ![Member] = "lost"]
          /\ GroupPanics /\ UNCHANGED members
     ELSE /\ handle' = [handle EXCEPT ![Member] = "held"]
          /\ IsBuilt
          /\ GoesOn /\ UNCHANGED group
  /\ UNCHANGED cleanup

\* A refused registration panics out of the loop; the test keeps the group.
PatchMember ==
  /\ InLoop("patch")
  /\ IF isPatched[Member]
     THEN UNCHANGED <<isPatched, original, entry, gMocker>> /\ GoesOn
     ELSE /\ WriteBranch(Member) /\ addToGlobal(Member)
          /\ IF Remocks(Member) THEN loop' = NoLoop ELSE GoesOn
  /\ UNCHANGED <<handle, cleanup, group, members>>

\* Mutant: what is not in effect is released again.
UnPatchesAlways ==
  /\ InLoop("unpatch")
  /\ WriteBack(Member) /\ removeFromGlobal(Member)
  /\ GoesOn
  /\ UNCHANGED <<handle, cleanup, group, members>>

UnPatchMember ==
  /\ InLoop("unpatch")
  /\ IF isPatched[Member]
     THEN WriteBack(Member) /\ removeFromGlobal(Member)
     ELSE UNCHANGED <<isPatched, original, entry, gMocker>>
  /\ GoesOn
  /\ UNCHANGED <<handle, cleanup, group, members>>

LoopEnds ==
  /\ loop # NoLoop /\ loop.todo = {} /\ loop' = NoLoop
  /\ UNCHANGED <<vars, group, members>>

CNext ==
  \/ Lifecycle
  \/ \E m \in Mockers : MockValue(m) \/ To(m) \/ PatchVar(m) \/ UnPatchVar(m)
  \/ \E i \in Groups : BuildGroup(i) \/ PatchGroup(i) \/ UnPatchGroup(i)
  \/ BuildRefused \/ BuildMember \/ PatchMember \/ UnPatchMember \/ LoopEnds
CSpec == CInit /\ [][CNext]_cvars

-----------------------------------------------------------------------------
(* A variable is mocked like a function: MockValue is not seen, To builds. *)
Functions == INSTANCE MockLifecycle WITH
  Rules <- Rules \ {"fresh"},
  handle <- [m \in Mockers |-> IF handle[m] = "made" THEN "none" ELSE handle[m]],
  original <- [m \in Mockers |-> IF handle[m] = "made" THEN Orig ELSE original[m]]

\* The types, a variable's mocker that was made and never set included.
CTypeOK ==
  /\ Functions!TypeOK
  /\ handle \in [Mockers -> {"none", "made", "held", "lost"}]
  /\ group \in [Groups -> {"none", "held", "lost"}]
  /\ \A i \in Groups : members[i] \subseteq FindImplementTargets(i)
  /\ loop = NoLoop \/ loop.todo \subseteq FindImplementTargets(loop.group)

\* Whatever loops run over groups, and although a variable's value is saved
\* early, every step is one that a mock of a function may take under the same
\* rules: what is shown and proved of MockLifecycle holds of all three.
ImplementsLifecycle == Functions!Spec

\* Between two operations an interface is mocked in all the functions that
\* were found for it or in none.  When one of them was refused, the others are
\* in effect and nobody holds their mockers, but one context holds them all
\* and is going to release them.
GroupsStayTogether ==
  Idle =>
    \A i \in Groups :
      LET live == {x \in members[i] : isPatched[Impl(i, x)]}
      IN /\ group[i] = "held" => /\ live \in {{}, members[i]}
                                 /\ members[i] = FindImplementTargets(i)
         /\ group[i] = "lost" /\ live # {} =>
              \E d \in 1 .. Depth : \A x \in live :
                gMocker[d][target[Impl(i, x)]] = Impl(i, x)
=============================================================================
