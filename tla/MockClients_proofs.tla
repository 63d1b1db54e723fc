------------------------ MODULE MockClients_proofs ------------------------
(***************************************************************************)
(* Proofs about MockClients, for every set of variables, groups and        *)
(* functions.                                                              *)
(*                                                                         *)
(* 1. The steps of the clients are steps of MockLifecycle, under the same  *)
(*    rules: what is proved there holds of variables and interfaces, too.  *)
(* 2. So the clients, too, answer as nested scopes say, and the registry   *)
(*    and the patches agree.                                               *)
(* 3. An interface is mocked in all its functions or in none.              *)
(***************************************************************************)
EXTENDS MockClients, TLAPS

(* The proofs about MockLifecycle, of what MockClients implements.         *)
LP == INSTANCE MockLifecycle_proofs WITH
  Rules <- Rules \ {"fresh"},
  handle <- [m \in Mockers |-> IF handle[m] = "made" THEN "none" ELSE handle[m]],
  original <- [m \in Mockers |-> IF handle[m] = "made" THEN Orig ELSE original[m]]

-----------------------------------------------------------------------------
(* 1. The clients implement the lifecycle.                                 *)

RegistryTypes ==
  /\ isPatched \in [Mockers -> BOOLEAN]
  /\ original \in [Mockers -> Mockers \cup {Orig}]
  /\ entry \in [Addrs -> Mockers \cup {Orig}]
  /\ gMocker \in Seq(Maps) /\ Depth \in 1..MaxDepth
  /\ \A i \in 1..Depth, k \in Keys :
       gMocker[i][k] # NoMocker => target[gMocker[i][k]] = k

(* The loop over a map comes to keys that are there.                       *)
CleanupKeys ==
  /\ cleanup \in [why : {"idle", "leave", "all"}, todo : SUBSET Keys]
  /\ \A k \in cleanup.todo : Current[k] # NoMocker
  /\ cleanup.why = "leave" => Depth > 1
  /\ cleanup.why = "idle" => cleanup.todo = {}

(* Who has built what.                                                     *)
Handles ==
  /\ handle \in [Mockers -> {"none", "made", "held", "lost"}]
  /\ \A m \in Mockers :
       /\ handle[m] \in {"none", "made"} => ~isPatched[m]
       /\ handle[m] = "none" => original[m] = Orig
       /\ handle[m] = "made" => m \in VarMockers
GroupHandles ==
  /\ group \in [Groups -> {"none", "held", "lost"}]
  /\ members \in [Groups -> SUBSET DOMAIN FuncList]
  /\ \A i \in Groups :
       /\ members[i] \subseteq FindImplementTargets(i)
       /\ \A x \in members[i] : handle[Impl(i, x)] = "held"
       /\ group[i] = "none" =>
            \A x \in FindImplementTargets(i) : handle[Impl(i, x)] = "none"

(* A loop over a group still may do what it could do when it began: the    *)
(* functions of a group are different ones.                                *)
AllowedLoop(i, S) ==
  /\ group[i] = "held"
  /\ \/ /\ loop = [what |-> "build", group |-> i, todo |-> S]
        /\ \A x \in S : handle[Impl(i, x)] = "none" /\ ObeysOnce(Impl(i, x))
     \/ /\ loop = [what |-> "patch", group |-> i, todo |-> S]
        /\ S \subseteq members[i]
        /\ \A x \in S : isPatched[Impl(i, x)] \/ ObeysOnce(Impl(i, x))
     \/ /\ loop = [what |-> "unpatch", group |-> i, todo |-> S]
        /\ S \subseteq members[i]
        /\ \A x \in S : isPatched[Impl(i, x)] =>
             ObeysOwn(Impl(i, x)) /\ ObeysLifo(Impl(i, x))
LoopIsAllowed ==
  \/ loop = NoLoop
  \/ /\ InTest
     /\ \E i \in Groups : \E S \in SUBSET FindImplementTargets(i) : AllowedLoop(i, S)
ClientInv ==
  RegistryTypes /\ CleanupKeys /\ Handles /\ GroupHandles /\ LoopIsAllowed

LEMMA Finite == LP!IsFiniteSet(Mockers)
BY MockersAssumption DEF LP!IsFiniteSet, IsFiniteSet

LEMMA ClientBasics ==
  ASSUME RegistryTypes
  PROVE  /\ gMocker \in Seq(Maps) /\ Depth = Len(gMocker)
         /\ Depth \in Nat /\ Depth >= 1 /\ Current \in Maps
         /\ \A m \in Mockers : target[m] \in Keys /\ At(m) \in Addrs
BY TargetAssumption, AddrAssumption, DepthAssumption
   DEF RegistryTypes, Depth, Current, At

LEMMA LiftedTypes ==
  ASSUME RegistryTypes, CleanupKeys, Handles
  PROVE  LP!TypeOK
BY DEF RegistryTypes, CleanupKeys, Handles, LP!TypeOK, LP!Maps, Maps,
       LP!Depth, Depth

(* What a patch does to the registry and to the entries.                   *)
LEMMA PatchTypes ==
  ASSUME RegistryTypes, CleanupKeys, Handles, NEW m \in Mockers, addToGlobal(m),
         isPatched' = [isPatched EXCEPT ![m] = TRUE],
         entry' = [entry EXCEPT ![At(m)] = m],
         original' \in [Mockers -> Mockers \cup {Orig}]
  PROVE  /\ RegistryTypes' /\ Depth' = Depth
         /\ \A k \in Keys : k # target[m] => Current'[k] = Current[k]
<1>1. CASE Remocks(m)
  BY <1>1, ClientBasics DEF RegistryTypes, addToGlobal, Current, Depth
<1>2. CASE ~Remocks(m)
  <2>1. /\ gMocker' \in Seq(Maps) /\ Depth' = Depth
        /\ \A i \in 1..Depth, l \in Keys :
             gMocker'[i][l] = IF i = Depth /\ l = target[m] THEN m
                                                       ELSE gMocker[i][l]
    <3>1. LP!TypeOK
      BY LiftedTypes
    <3>2. ~LP!Remocks(m) /\ LP!addToGlobal(m)
      BY <1>2 DEF LP!Remocks, LP!addToGlobal, LP!Current, LP!Depth,
                  Remocks, addToGlobal, Current, Depth
    <3>3. /\ gMocker' \in Seq(LP!Maps) /\ LP!Depth' = LP!Depth
          /\ \A i \in 1..LP!Depth, l \in Keys :
               gMocker'[i][l] = IF i = LP!Depth /\ l = target[m] THEN m
                                                            ELSE gMocker[i][l]
      BY <3>1, <3>2, Finite, TargetAssumption, AddrAssumption, ValueAssumption,
         DepthAssumption, LP!AddEffect
    <3>. QED BY <3>3 DEF LP!Maps, LP!Depth, Maps, Depth
  <2>2. \A i \in 1..Depth, k \in Keys :
          gMocker'[i][k] # NoMocker => target[gMocker'[i][k]] = k
    BY <2>1 DEF RegistryTypes
  <2>3. RegistryTypes'
    BY <2>1, <2>2, ClientBasics DEF RegistryTypes
  <2>. QED BY <2>1, <2>3, ClientBasics DEF Current
<1>. QED BY <1>1, <1>2

(* What a release does.                                                    *)
LEMMA ReleaseTypes ==
  ASSUME RegistryTypes, CleanupKeys, Handles, NEW m \in Mockers,
         WriteBack(m), removeFromGlobal(m)
  PROVE  /\ RegistryTypes' /\ Depth' = Depth
         /\ \A k \in Keys : k # target[m] => Current'[k] = Current[k]
<1>1. /\ gMocker' \in Seq(Maps) /\ Depth' = Depth
      /\ \A i \in 1..Depth, l \in Keys :
           gMocker'[i][l] = IF i = Depth /\ l = target[m] THEN NoMocker
                                                     ELSE gMocker[i][l]
  <2>1. LP!TypeOK
    BY LiftedTypes
  <2>2. LP!removeFromGlobal(m)
    BY DEF LP!removeFromGlobal, LP!Current, LP!Depth,
           removeFromGlobal, Current, Depth
  <2>3. /\ gMocker' \in Seq(LP!Maps) /\ LP!Depth' = LP!Depth
        /\ \A i \in 1..LP!Depth, l \in Keys :
             gMocker'[i][l] = IF i = LP!Depth /\ l = target[m] THEN NoMocker
                                                          ELSE gMocker[i][l]
    BY <2>1, <2>2, Finite, TargetAssumption, AddrAssumption, ValueAssumption,
       DepthAssumption, LP!RemoveEffect
  <2>. QED BY <2>3 DEF LP!Maps, LP!Depth, Maps, Depth
<1>2. \A i \in 1..Depth, k \in Keys :
        gMocker'[i][k] # NoMocker => target[gMocker'[i][k]] = k
  BY <1>1 DEF RegistryTypes
<1>3. /\ isPatched' \in [Mockers -> BOOLEAN]
      /\ original' \in [Mockers -> Mockers \cup {Orig}]
      /\ entry' \in [Addrs -> Mockers \cup {Orig}]
  BY ClientBasics DEF RegistryTypes, WriteBack
<1>4. RegistryTypes'
  BY <1>1, <1>2, <1>3 DEF RegistryTypes
<1>. QED BY <1>1, <1>4, ClientBasics DEF Current

LEMMA ClientInit == CInit => ClientInv
<1>. SUFFICES ASSUME CInit PROVE ClientInv
  OBVIOUS
<1>1. EmptyMap \in Maps /\ \A k \in Keys : EmptyMap[k] = NoMocker
  BY DEF EmptyMap, Maps
<1>2. RegistryTypes
  BY <1>1, DepthAssumption DEF CInit, Init, RegistryTypes, Depth
<1>3. CleanupKeys
  BY DEF CInit, Init, CleanupKeys, NoCleanup
<1>4. Handles /\ GroupHandles
  BY ImplAssumption DEF CInit, Init, Handles, GroupHandles
<1>. QED BY <1>2, <1>3, <1>4 DEF CInit, ClientInv, LoopIsAllowed

(* The implementations of an interface have mockers and keys of their own. *)
LEMMA ImplFacts ==
  ASSUME NEW i \in Groups, NEW x \in FindImplementTargets(i)
  PROVE  /\ Impl(i, x) \in Mockers /\ Impl(i, x) \notin VarMockers
         /\ Impl(i, x) \notin FuncMockers /\ target[Impl(i, x)] \in Keys
         /\ \A j \in Groups : \A y \in FindImplementTargets(j) :
              Impl(i, x) = Impl(j, y) => i = j /\ x = y
         /\ \A y \in FindImplementTargets(i) :
              target[Impl(i, x)] = target[Impl(i, y)] => x = y
<1>1. \A j \in Groups : FindImplementTargets(j) \subseteq DOMAIN FuncList
  BY DEF FindImplementTargets, funcInfoMap
<1>2. /\ Impl(i, x) \in Mockers /\ Impl(i, x) \notin VarMockers
      /\ \A y \in FindImplementTargets(i) : target[Impl(i, y)] = FuncList[y].pc
      /\ \A j \in Groups : \A y \in FindImplementTargets(j) :
           Impl(i, x) = Impl(j, y) => i = j
  BY ImplAssumption
<1>3. \A y \in FindImplementTargets(i) :
        target[Impl(i, x)] = target[Impl(i, y)] => x = y
  BY <1>1, <1>2, TableAssumption
<1>. QED BY <1>2, <1>3, TargetAssumption DEF FuncMockers, GroupMockers

LEMMA FirstOf ==
  ASSUME NEW i \in Groups, NEW S \in SUBSET FindImplementTargets(i), S # {}
  PROVE  First(S) \in S
<1>1. S \subseteq Nat
  BY TableAssumption DEF FindImplementTargets, funcInfoMap
<1>2. \E x \in S : \A y \in S : x <= y
  BY <1>1, Finite, TargetAssumption, AddrAssumption, ValueAssumption,
     DepthAssumption, LP!LeastNumber
<1>. QED BY <1>2 DEF First

LEMMA NoCleanupKeys ==
  ASSUME InTest, UNCHANGED cleanup
  PROVE  CleanupKeys'
BY DEF InTest, NoCleanup, CleanupKeys

LEMMA NothingRegistered ==
  ASSUME RegistryTypes, UNCHANGED <<isPatched, original, entry, gMocker>>
  PROVE  RegistryTypes' /\ UNCHANGED <<Depth, Current>>
BY DEF RegistryTypes, Depth, Current

(* Mocks of functions and contexts, between two loops over groups.         *)
LEMMA LifecycleKeeps ==
  ASSUME ClientInv, Lifecycle
  PROVE  ClientInv'
<1>. USE DEF ClientInv
<1>1. UNCHANGED <<group, members, loop>> /\ (InTest => loop = NoLoop)
  BY DEF Lifecycle, client, Idle
<1>2. loop = NoLoop
  BY <1>1 DEF LoopIsAllowed
<1>3. LoopIsAllowed'
  BY <1>1, <1>2 DEF LoopIsAllowed
<1>4. ASSUME NEW m \in FuncMockers, Build(m) \/ Patch(m)
      PROVE  ClientInv'
  <2>1. /\ m \in Mockers /\ WriteBranch(m) /\ addToGlobal(m) /\ InTest
        /\ UNCHANGED cleanup
    BY <1>4 DEF Build, Patch, FuncMockers
  <2>2. original' \in [Mockers -> Mockers \cup {Orig}]
    BY <2>1, ClientBasics DEF WriteBranch, RegistryTypes
  <2>3. RegistryTypes'
    BY <2>1, <2>2, PatchTypes DEF WriteBranch
  <2>4. /\ \A n \in Mockers \ {m} : handle'[n] = handle[n]
        /\ handle'[m] \in {"held", "lost"}
        /\ handle' \in [Mockers -> {"none", "made", "held", "lost"}]
    BY <1>4, <2>1 DEF Build, Patch, Handles
  <2>5. Handles'
    BY <2>1, <2>4 DEF Handles, WriteBranch, RegistryTypes
  <2>6. GroupHandles'
    BY <1>1, <1>4, <2>4, ImplFacts DEF GroupHandles
  <2>. QED BY <1>3, <2>1, <2>3, <2>5, <2>6, NoCleanupKeys
<1>5. ASSUME NEW m \in Mockers, UnPatch(m)
      PROVE  ClientInv'
  <2>1. WriteBack(m) /\ removeFromGlobal(m) /\ InTest /\ UNCHANGED <<handle, cleanup>>
    BY <1>5 DEF UnPatch
  <2>2. RegistryTypes'
    BY <2>1, ReleaseTypes
  <2>3. Handles' /\ GroupHandles'
    BY <1>1, <2>1 DEF Handles, GroupHandles, WriteBack, RegistryTypes
  <2>. QED BY <1>3, <2>1, <2>2, <2>3, NoCleanupKeys
<1>6. ASSUME NEW m \in Mockers, RePatch(m)
      PROVE  ClientInv'
  <2>1. /\ entry' = [entry EXCEPT ![At(m)] = m] /\ InTest
        /\ gMocker' = [gMocker EXCEPT ![Depth] = [@ EXCEPT ![target[m]] = m]]
        /\ UNCHANGED <<handle, isPatched, original, cleanup>>
    BY <1>6 DEF RePatch
  <2>2. RegistryTypes'
    <3>1. [gMocker[Depth] EXCEPT ![target[m]] = m] \in Maps
      BY ClientBasics DEF Maps, Current
    <3>2. gMocker' \in Seq(Maps) /\ Len(gMocker') = Len(gMocker)
      BY <2>1, <3>1, ClientBasics
    <3>3. \A i \in 1..Depth, k \in Keys :
            gMocker'[i][k] = IF i = Depth /\ k = target[m] THEN m ELSE gMocker[i][k]
      BY <2>1, ClientBasics DEF Maps
    <3>4. Depth' = Depth
      BY <3>2 DEF Depth
    <3>5. \A i \in 1..Depth, k \in Keys :
            gMocker'[i][k] # NoMocker => target[gMocker'[i][k]] = k
      BY <3>3 DEF RegistryTypes
    <3>6. entry' \in [Addrs -> Mockers \cup {Orig}]
      BY <2>1 DEF RegistryTypes
    <3>. QED BY <2>1, <3>2, <3>4, <3>5, <3>6 DEF RegistryTypes
  <2>3. Handles' /\ GroupHandles'
    BY <1>1, <2>1 DEF Handles, GroupHandles
  <2>. QED BY <1>3, <2>1, <2>2, <2>3, NoCleanupKeys
<1>7. CASE EnterContext
  <2>1. /\ InTest /\ Depth < MaxDepth /\ gMocker' = Append(gMocker, EmptyMap)
        /\ UNCHANGED <<handle, isPatched, original, entry, cleanup>>
    BY <1>7 DEF EnterContext
  <2>2. EmptyMap \in Maps /\ \A k \in Keys : EmptyMap[k] = NoMocker
    BY DEF EmptyMap, Maps
  <2>3. /\ gMocker' \in Seq(Maps) /\ Depth' = Depth + 1
        /\ \A i \in 1..(Depth + 1) :
             gMocker'[i] = IF i = Depth + 1 THEN EmptyMap ELSE gMocker[i]
    BY <2>1, <2>2, ClientBasics DEF Depth
  <2>4. \A i \in 1..(Depth + 1), k \in Keys :
          gMocker'[i][k] # NoMocker => target[gMocker'[i][k]] = k
    <3>1. \A i \in 1..(Depth + 1) : i # Depth + 1 => i \in 1..Depth
      BY ClientBasics
    <3>. QED BY <2>2, <2>3, <3>1 DEF RegistryTypes
  <2>5. RegistryTypes'
    BY <2>1, <2>3, <2>4, ClientBasics, DepthAssumption DEF RegistryTypes
  <2>6. Handles' /\ GroupHandles'
    BY <1>1, <2>1 DEF Handles, GroupHandles
  <2>. QED BY <1>3, <2>1, <2>5, <2>6, NoCleanupKeys
<1>8. ASSUME NEW why \in {"leave", "all"}, StartLoop(why), why = "leave" => Depth > 1
      PROVE  ClientInv'
  <2>1. /\ UNCHANGED <<handle, isPatched, original, entry, gMocker>>
        /\ cleanup' = [why |-> why, todo |-> {k \in Keys : Current[k] # NoMocker}]
    BY <1>8 DEF StartLoop
  <2>2. RegistryTypes' /\ UNCHANGED <<Depth, Current>>
    BY <2>1, NothingRegistered
  <2>3. CleanupKeys'
    BY <1>8, <2>1, <2>2 DEF CleanupKeys
  <2>4. Handles' /\ GroupHandles'
    BY <1>1, <2>1 DEF Handles, GroupHandles
  <2>. QED BY <1>3, <2>2, <2>3, <2>4
<1>9. ASSUME NEW k \in Keys, CleanupStep(k)
      PROVE  ClientInv'
  <2>. DEFINE m == Current[k]
  <2>1. k \in cleanup.todo /\ m # NoMocker /\ m \in Mockers /\ target[m] = k
    BY <1>9, ClientBasics DEF CleanupStep, CleanupKeys, Maps, RegistryTypes, Current
  <2>2. /\ cleanup' = [cleanup EXCEPT !.todo = @ \ {k}] /\ UNCHANGED handle
        /\ IF isPatched[m] THEN WriteBack(m) /\ removeFromGlobal(m)
           ELSE UNCHANGED <<isPatched, original, entry, gMocker>>
    BY <1>9 DEF CleanupStep
  <2>. HIDE DEF m
  <2>3. /\ RegistryTypes' /\ Depth' = Depth
        /\ \A l \in Keys : l # k => Current'[l] = Current[l]
        /\ \A n \in Mockers : isPatched'[n] => isPatched[n]
        /\ original' = original
    BY <2>1, <2>2, ReleaseTypes, NothingRegistered DEF WriteBack, RegistryTypes
  <2>4. CleanupKeys'
    BY <2>2, <2>3 DEF CleanupKeys
  <2>5. Handles' /\ GroupHandles'
    BY <1>1, <2>2, <2>3 DEF Handles, GroupHandles
  <2>. QED BY <1>3, <2>3, <2>4, <2>5
<1>10. CASE CleanupEnd
  <2>1. /\ cleanup' = NoCleanup /\ UNCHANGED <<handle, isPatched, original, entry>>
        /\ gMocker' = IF cleanup.why = "leave"
                        THEN SubSeq(gMocker, 1, Depth - 1) ELSE gMocker
    BY <1>10 DEF CleanupEnd
  <2>2. RegistryTypes'
    <3>1. CASE cleanup.why = "leave"
      <4>1. /\ gMocker' \in Seq(Maps) /\ Depth' = Depth - 1 /\ Depth - 1 >= 1
            /\ \A i \in 1..(Depth - 1) : gMocker'[i] = gMocker[i] /\ i \in 1..Depth
        BY <2>1, <3>1, ClientBasics DEF Depth, CleanupKeys
      <4>. QED BY <2>1, <4>1, ClientBasics, DepthAssumption DEF RegistryTypes
    <3>. QED BY <2>1, <3>1, NothingRegistered
  <2>3. CleanupKeys' /\ Handles' /\ GroupHandles'
    BY <1>1, <2>1 DEF CleanupKeys, NoCleanup, Handles, GroupHandles
  <2>. QED BY <1>3, <2>2, <2>3
<1>11. FuncMockers \subseteq Mockers
  BY DEF FuncMockers
<1>. QED BY <1>4, <1>5, <1>6, <1>7, <1>8, <1>9, <1>10, <1>11
         DEF Lifecycle, LeaveContext, UnPatchAll

(* Mocks of variables.                                                     *)
LEMMA VarStepsKeep ==
  ASSUME ClientInv, NEW m \in Mockers,
         MockValue(m) \/ To(m) \/ PatchVar(m) \/ UnPatchVar(m)
  PROVE  ClientInv'
<1>. USE DEF ClientInv
<1>1. InTest /\ loop = NoLoop /\ UNCHANGED <<cleanup, group, members, loop>>
  BY DEF MockValue, To, PatchVar, UnPatchVar, Idle, client
<1>2. LoopIsAllowed' /\ CleanupKeys'
  BY <1>1, NoCleanupKeys DEF LoopIsAllowed
<1>3. m \in VarMockers /\ \A i \in Groups : \A x \in FindImplementTargets(i) : Impl(i, x) # m
  BY ImplFacts DEF MockValue, To, PatchVar, UnPatchVar, Handles
<1>4. ASSUME \A n \in Mockers \ {m} : handle'[n] = handle[n]
      PROVE  GroupHandles'
  BY <1>1, <1>3, <1>4, ImplFacts DEF GroupHandles
<1>5. CASE MockValue(m)
  <2>1. /\ original' = [original EXCEPT ![m] = entry[At(m)]]
        /\ handle[m] = "none" /\ handle' = [handle EXCEPT ![m] = "made"]
        /\ UNCHANGED <<isPatched, entry, gMocker>>
    BY <1>5 DEF MockValue
  <2>2. RegistryTypes'
    BY <2>1, ClientBasics DEF RegistryTypes, Depth
  <2>3. Handles' /\ GroupHandles'
    BY <1>3, <1>4, <2>1 DEF Handles, RegistryTypes
  <2>. QED BY <1>2, <2>2, <2>3
<1>6. CASE To(m) \/ PatchVar(m)
  <2>1. /\ SetVariable(m) /\ original' = original
        /\ \A n \in Mockers \ {m} : handle'[n] = handle[n]
        /\ handle'[m] \in {"held", "lost"}
        /\ handle' \in [Mockers -> {"none", "made", "held", "lost"}]
    BY <1>6 DEF To, PatchVar, Handles
  <2>2. RegistryTypes'
    BY <2>1, PatchTypes DEF SetVariable, RegistryTypes
  <2>3. Handles' /\ GroupHandles'
    BY <1>3, <1>4, <2>1 DEF Handles, SetVariable, RegistryTypes
  <2>. QED BY <1>2, <2>2, <2>3
<1>7. CASE UnPatchVar(m)
  <2>1. WriteBack(m) /\ removeFromGlobal(m) /\ UNCHANGED handle
    BY <1>7 DEF UnPatchVar
  <2>2. RegistryTypes'
    BY <2>1, ReleaseTypes
  <2>3. Handles' /\ GroupHandles'
    BY <1>4, <2>1 DEF Handles, WriteBack, RegistryTypes
  <2>. QED BY <1>2, <2>2, <2>3
<1>. QED BY <1>5, <1>6, <1>7

LEMMA GroupStartsKeep ==
  ASSUME ClientInv, NEW i \in Groups,
         BuildGroup(i) \/ PatchGroup(i) \/ UnPatchGroup(i)
  PROVE  ClientInv'
<1>. USE DEF ClientInv
<1>1. /\ InTest /\ UNCHANGED <<handle, isPatched, original, entry, gMocker, cleanup>>
      /\ UNCHANGED members
  BY DEF BuildGroup, PatchGroup, UnPatchGroup, StartGroup, vars, Idle
<1>2. RegistryTypes' /\ UNCHANGED <<Depth, Current>>
  BY <1>1, NothingRegistered
<1>3. CleanupKeys' /\ Handles'
  BY <1>1, NoCleanupKeys DEF Handles
<1>4. /\ group' \in [Groups -> {"none", "held", "lost"}] /\ group'[i] = "held"
      /\ \A j \in Groups : group'[j] = "none" => group[j] = "none"
  BY DEF BuildGroup, PatchGroup, UnPatchGroup, GroupHandles
<1>5. GroupHandles'
  BY <1>1, <1>4 DEF GroupHandles
<1>6. /\ members[i] \in SUBSET FindImplementTargets(i) /\ InTest'
      /\ FindImplementTargets(i) \in SUBSET FindImplementTargets(i)
  BY <1>1 DEF GroupHandles, InTest
<1>7. \A m \in Mockers : /\ ObeysOnce(m)' = ObeysOnce(m)
                         /\ ObeysOwn(m)' = ObeysOwn(m) /\ ObeysLifo(m)' = ObeysLifo(m)
  BY <1>1, <1>2 DEF ObeysOnce, ObeysOwn, ObeysLifo, Remocks, TopMost, Live
<1>8. \A x \in FindImplementTargets(i) : Impl(i, x) \in Mockers
  BY ImplFacts
<1>9. CASE BuildGroup(i)
  <2>1. /\ loop' = [what |-> "build", group |-> i, todo |-> FindImplementTargets(i)]
        /\ \A x \in FindImplementTargets(i) :
             handle'[Impl(i, x)] = "none" /\ ObeysOnce(Impl(i, x))'
    BY <1>1, <1>7, <1>8, <1>9 DEF BuildGroup, StartGroup, GroupHandles
  <2>2. LoopIsAllowed'
    BY <1>4, <1>6, <2>1 DEF LoopIsAllowed, AllowedLoop
  <2>. QED BY <1>2, <1>3, <1>5, <2>2
<1>10. CASE PatchGroup(i)
  <2>1. /\ loop' = [what |-> "patch", group |-> i, todo |-> members[i]]
        /\ \A x \in members[i] : isPatched'[Impl(i, x)] \/ ObeysOnce(Impl(i, x))'
    BY <1>1, <1>6, <1>7, <1>8, <1>10 DEF PatchGroup, StartGroup
  <2>2. LoopIsAllowed'
    BY <1>1, <1>4, <1>6, <2>1 DEF LoopIsAllowed, AllowedLoop
  <2>. QED BY <1>2, <1>3, <1>5, <2>2
<1>11. CASE UnPatchGroup(i)
  <2>1. /\ loop' = [what |-> "unpatch", group |-> i, todo |-> members[i]]
        /\ \A x \in members[i] : isPatched'[Impl(i, x)] =>
             ObeysOwn(Impl(i, x))' /\ ObeysLifo(Impl(i, x))'
    BY <1>1, <1>6, <1>7, <1>8, <1>11 DEF UnPatchGroup, StartGroup
  <2>2. LoopIsAllowed'
    BY <1>1, <1>4, <1>6, <2>1 DEF LoopIsAllowed, AllowedLoop
  <2>. QED BY <1>2, <1>3, <1>5, <2>2
<1>. QED BY <1>9, <1>10, <1>11

(* The loop over a group has come to the first of the places S.            *)
Round(what, i, S) ==
  /\ loop = [what |-> what, group |-> i, todo |-> S] /\ InTest
  /\ First(S) \in S /\ Member = Impl(i, First(S)) /\ Member \in Mockers
  /\ group[i] = "held" /\ First(S) \in FindImplementTargets(i)
  /\ what = "build" =>
       \A x \in S : handle[Impl(i, x)] = "none" /\ ObeysOnce(Impl(i, x))
  /\ what # "build" => S \subseteq members[i]
  /\ what = "patch" =>
       \A x \in S : isPatched[Impl(i, x)] \/ ObeysOnce(Impl(i, x))
  /\ what = "unpatch" =>
       \A x \in S : isPatched[Impl(i, x)] =>
         ObeysOwn(Impl(i, x)) /\ ObeysLifo(Impl(i, x))
LEMMA LoopRound ==
  ASSUME ClientInv, NEW what, InLoop(what), what # "idle"
  PROVE  \E i \in Groups : \E S \in SUBSET FindImplementTargets(i) :
           Round(what, i, S)
<1>1. loop # NoLoop /\ loop.what = what /\ loop.todo # {}
  BY DEF InLoop, NoLoop
<1>2. PICK i \in Groups :
        InTest /\ \E S \in SUBSET FindImplementTargets(i) : AllowedLoop(i, S)
  BY <1>1 DEF ClientInv, LoopIsAllowed
<1>3. PICK S \in SUBSET FindImplementTargets(i) : InTest /\ AllowedLoop(i, S)
  BY <1>2
<1>4. loop = [what |-> what, group |-> i, todo |-> S]
  BY <1>1, <1>3 DEF AllowedLoop
<1>5. First(S) \in S
  BY <1>1, <1>4, FirstOf
<1>6. /\ Member = Impl(i, First(S)) /\ Member \in Mockers
      /\ First(S) \in FindImplementTargets(i)
  BY <1>4, <1>5, ImplFacts DEF Member
<1>. QED BY <1>1, <1>3, <1>4, <1>5, <1>6 DEF AllowedLoop, Round

(* One round of a loop takes one place off, and the others have other keys.*)
LEMMA LoopGoesOn ==
  ASSUME NEW i \in Groups, NEW S \in SUBSET FindImplementTargets(i), NEW what,
         loop = [what |-> what, group |-> i, todo |-> S], First(S) \in S, GoesOn
  PROVE  /\ loop' = [what |-> what, group |-> i, todo |-> S \ {First(S)}]
         /\ \A x \in S \ {First(S)} :
              /\ Impl(i, x) \in Mockers /\ Impl(i, x) # Impl(i, First(S))
              /\ target[Impl(i, x)] \in Keys
              /\ target[Impl(i, x)] # target[Impl(i, First(S))]
<1>1. loop' = [what |-> what, group |-> i, todo |-> S \ {First(S)}]
  BY DEF GoesOn
<1>. QED BY <1>1, ImplFacts

LEMMA LoopStepsKeep ==
  ASSUME ClientInv,
         BuildRefused \/ BuildMember \/ PatchMember \/ UnPatchMember \/ LoopEnds
  PROVE  ClientInv'
<1>. USE DEF ClientInv
<1>1. CASE BuildRefused \/ LoopEnds
  <2>1. /\ UNCHANGED <<handle, isPatched, original, entry, gMocker, cleanup, members>>
        /\ loop' = NoLoop
    BY <1>1 DEF BuildRefused, LoopEnds, GroupPanics, vars
  <2>2. RegistryTypes' /\ UNCHANGED <<Depth, Current>>
    BY <2>1, NothingRegistered
  <2>3. /\ group' \in [Groups -> {"none", "held", "lost"}]
        /\ \A i \in Groups : group'[i] = "none" => group[i] = "none"
    BY <1>1 DEF BuildRefused, LoopEnds, GroupPanics, GroupHandles
  <2>4. Handles' /\ GroupHandles'
    BY <2>1, <2>3 DEF Handles, GroupHandles
  <2>. QED BY <2>1, <2>2, <2>4 DEF CleanupKeys, LoopIsAllowed
<1>2. CASE BuildMember
  <2>0. PICK i \in Groups :
          \E S \in SUBSET FindImplementTargets(i) : Round("build", i, S)
    BY <1>2, LoopRound DEF BuildMember
  <2>1. PICK S \in SUBSET FindImplementTargets(i) : Round("build", i, S)
    BY <2>0
  <2>2. /\ loop = [what |-> "build", group |-> i, todo |-> S] /\ InTest
        /\ First(S) \in S /\ Member = Impl(i, First(S)) /\ Member \in Mockers
        /\ group[i] = "held" /\ First(S) \in FindImplementTargets(i)
        /\ \A x \in S : handle[Impl(i, x)] = "none" /\ ObeysOnce(Impl(i, x))
    BY <2>1 DEF Round
  <2>. DEFINE m == Impl(i, First(S))
  <2>3. /\ m \in Mockers /\ m \notin VarMockers
        /\ WriteBranch(m) /\ addToGlobal(m) /\ UNCHANGED cleanup
    BY <1>2, <2>2, ImplFacts DEF BuildMember
  <2>4. /\ \A n \in Mockers \ {m} : handle'[n] = handle[n]
        /\ handle'[m] \in {"held", "lost"}
        /\ handle' \in [Mockers -> {"none", "made", "held", "lost"}]
        /\ ~Remocks(m) => handle'[m] = "held"
    BY <1>2, <2>2, <2>3 DEF BuildMember, Handles
  <2>5. original' \in [Mockers -> Mockers \cup {Orig}]
    BY <2>3, ClientBasics DEF WriteBranch, RegistryTypes
  <2>6. /\ RegistryTypes' /\ Depth' = Depth
        /\ \A k \in Keys : k # target[m] => Current'[k] = Current[k]
    BY <2>3, <2>5, PatchTypes DEF WriteBranch
  <2>7. CleanupKeys' /\ InTest'
    BY <2>2, <2>3, NoCleanupKeys DEF InTest
  <2>8. Handles'
    BY <2>3, <2>4 DEF Handles, WriteBranch, RegistryTypes
  <2>9. \A j \in Groups : \A x \in FindImplementTargets(j) :
          Impl(j, x) # m => handle'[Impl(j, x)] = handle[Impl(j, x)]
    BY <2>4, ImplFacts
  <2>10. \A j \in Groups : \A x \in FindImplementTargets(j) :
           Impl(j, x) = m => j = i /\ x = First(S)
    BY <2>2, ImplFacts
  <2>. HIDE DEF m
  <2>11. CASE Remocks(m)
    <3>1. /\ loop' = NoLoop /\ UNCHANGED members
          /\ group' = [group EXCEPT ![i] = "lost"]
      BY <1>2, <2>2, <2>11 DEF BuildMember, GroupPanics, m
    <3>2. \A x \in members[i] : Impl(i, x) # m
      <4>1. handle[m] = "none"
        BY <2>2 DEF m
      <4>. QED BY <4>1 DEF GroupHandles
    <3>3. GroupHandles'
      BY <2>2, <2>9, <2>10, <3>1, <3>2 DEF GroupHandles
    <3>. QED BY <2>6, <2>7, <2>8, <3>1, <3>3 DEF LoopIsAllowed
  <2>12. CASE ~Remocks(m)
    <3>1. /\ GoesOn /\ UNCHANGED group
          /\ members' = [members EXCEPT ![i] = @ \cup {First(S)}]
      BY <1>2, <2>2, <2>12 DEF BuildMember, IsBuilt, m
    <3>2. GroupHandles'
      <4>1. /\ members' \in [Groups -> SUBSET DOMAIN FuncList]
            /\ \A j \in Groups : members'[j] \subseteq FindImplementTargets(j)
        BY <2>2, <3>1 DEF GroupHandles, FindImplementTargets, funcInfoMap
      <4>2. ASSUME NEW j \in Groups, NEW x \in members'[j]
            PROVE  handle'[Impl(j, x)] = "held"
        <5>1. CASE Impl(j, x) = m
          BY <2>4, <2>12, <5>1
        <5>2. CASE Impl(j, x) # m
          <6>1. x \in members[j] /\ x \in FindImplementTargets(j)
            BY <3>1, <4>1, <4>2, <5>2 DEF GroupHandles, m
          <6>. QED BY <2>9, <5>2, <6>1 DEF GroupHandles
        <5>. QED BY <5>1, <5>2
      <4>3. ASSUME NEW j \in Groups, group'[j] = "none",
                   NEW x \in FindImplementTargets(j)
            PROVE  handle'[Impl(j, x)] = "none"
        BY <2>2, <2>9, <2>10, <3>1, <4>3 DEF GroupHandles
      <4>. QED BY <3>1, <4>1, <4>2, <4>3 DEF GroupHandles
    <3>3. LoopIsAllowed'
      <4>. DEFINE T == S \ {First(S)}
      <4>1. /\ loop' = [what |-> "build", group |-> i, todo |-> T]
            /\ \A x \in T : /\ Impl(i, x) \in Mockers /\ Impl(i, x) # m
                            /\ target[Impl(i, x)] \in Keys
                            /\ target[Impl(i, x)] # target[m]
        BY <2>2, <3>1, LoopGoesOn DEF m
      <4>2. \A x \in T : handle'[Impl(i, x)] = "none" /\ ObeysOnce(Impl(i, x))'
        BY <2>2, <2>4, <2>6, <4>1 DEF ObeysOnce, Remocks
      <4>. QED BY <2>2, <2>7, <3>1, <4>1, <4>2 DEF LoopIsAllowed, AllowedLoop
    <3>. QED BY <2>6, <2>7, <2>8, <3>2, <3>3
  <2>. QED BY <2>11, <2>12
<1>3. CASE PatchMember
  <2>0. PICK i \in Groups :
          \E S \in SUBSET FindImplementTargets(i) : Round("patch", i, S)
    BY <1>3, LoopRound DEF PatchMember
  <2>1. PICK S \in SUBSET FindImplementTargets(i) : Round("patch", i, S)
    BY <2>0
  <2>2. /\ loop = [what |-> "patch", group |-> i, todo |-> S] /\ InTest
        /\ First(S) \in S /\ Member = Impl(i, First(S)) /\ Member \in Mockers
        /\ group[i] = "held" /\ First(S) \in FindImplementTargets(i)
        /\ S \subseteq members[i]
        /\ \A x \in S : isPatched[Impl(i, x)] \/ ObeysOnce(Impl(i, x))
    BY <2>1 DEF Round
  <2>. DEFINE m == Impl(i, First(S))
  <2>3. /\ m \in Mockers /\ handle[m] = "held"
        /\ UNCHANGED <<handle, cleanup, group, members>>
        /\ IF isPatched[m] THEN UNCHANGED <<isPatched, original, entry, gMocker>>
           ELSE WriteBranch(m) /\ addToGlobal(m)
        /\ loop' = NoLoop \/ GoesOn
    BY <1>3, <2>2 DEF PatchMember, GroupHandles
  <2>. HIDE DEF m
  <2>4. /\ RegistryTypes' /\ Depth' = Depth
        /\ \A k \in Keys : k # target[m] => Current'[k] = Current[k]
        /\ \A n \in Mockers \ {m} : isPatched'[n] = isPatched[n]
                                    /\ original'[n] = original[n]
    <3>1. CASE isPatched[m]
      BY <2>3, <3>1, NothingRegistered
    <3>2. CASE ~isPatched[m]
      <4>1. original' \in [Mockers -> Mockers \cup {Orig}]
        BY <2>3, <3>2, ClientBasics DEF WriteBranch, RegistryTypes
      <4>2. /\ RegistryTypes' /\ Depth' = Depth
            /\ \A k \in Keys : k # target[m] => Current'[k] = Current[k]
        BY <2>3, <3>2, <4>1, PatchTypes DEF WriteBranch
      <4>. QED BY <2>3, <3>2, <4>2 DEF WriteBranch, RegistryTypes
    <3>. QED BY <3>1, <3>2
  <2>5. CleanupKeys' /\ InTest'
    BY <2>2, <2>3, NoCleanupKeys DEF InTest
  <2>6. Handles' /\ GroupHandles'
    BY <2>3, <2>4 DEF Handles, GroupHandles
  <2>7. CASE loop' = NoLoop
    BY <2>4, <2>5, <2>6, <2>7 DEF LoopIsAllowed, NoLoop
  <2>8. CASE GoesOn
    <3>. DEFINE T == S \ {First(S)}
    <3>1. /\ loop' = [what |-> "patch", group |-> i, todo |-> T]
          /\ \A x \in T : /\ Impl(i, x) \in Mockers /\ Impl(i, x) # m
                          /\ target[Impl(i, x)] \in Keys
                          /\ target[Impl(i, x)] # target[m]
      BY <2>2, <2>8, LoopGoesOn DEF m
    <3>2. \A x \in T : isPatched'[Impl(i, x)] \/ ObeysOnce(Impl(i, x))'
      BY <2>2, <2>4, <3>1 DEF ObeysOnce, Remocks
    <3>3. LoopIsAllowed'
      BY <2>2, <2>3, <2>5, <3>1, <3>2 DEF LoopIsAllowed, AllowedLoop
    <3>. QED BY <2>4, <2>5, <2>6, <3>3
  <2>. QED BY <2>3, <2>7, <2>8
<1>4. CASE UnPatchMember
  <2>0. PICK i \in Groups :
          \E S \in SUBSET FindImplementTargets(i) : Round("unpatch", i, S)
    BY <1>4, LoopRound DEF UnPatchMember
  <2>1. PICK S \in SUBSET FindImplementTargets(i) : Round("unpatch", i, S)
    BY <2>0
  <2>2. /\ loop = [what |-> "unpatch", group |-> i, todo |-> S] /\ InTest
        /\ First(S) \in S /\ Member = Impl(i, First(S)) /\ Member \in Mockers
        /\ group[i] = "held" /\ First(S) \in FindImplementTargets(i)
        /\ S \subseteq members[i]
        /\ \A x \in S : isPatched[Impl(i, x)] =>
             ObeysOwn(Impl(i, x)) /\ ObeysLifo(Impl(i, x))
    BY <2>1 DEF Round
  <2>. DEFINE m == Impl(i, First(S))
  <2>3. /\ m \in Mockers /\ GoesOn
        /\ UNCHANGED <<handle, cleanup, group, members>>
        /\ IF isPatched[m] THEN WriteBack(m) /\ removeFromGlobal(m)
           ELSE UNCHANGED <<isPatched, original, entry, gMocker>>
    BY <1>4, <2>2 DEF UnPatchMember
  <2>. HIDE DEF m
  <2>4. /\ RegistryTypes' /\ Depth' = Depth
        /\ \A k \in Keys : k # target[m] => Current'[k] = Current[k]
        /\ \A n \in Mockers : isPatched'[n] => isPatched[n]
        /\ original' = original
    <3>1. CASE isPatched[m]
      BY <2>3, <3>1, ReleaseTypes DEF WriteBack, RegistryTypes
    <3>2. CASE ~isPatched[m]
      BY <2>3, <3>2, NothingRegistered
    <3>. QED BY <3>1, <3>2
  <2>5. CleanupKeys' /\ InTest'
    BY <2>2, <2>3, NoCleanupKeys DEF InTest
  <2>6. Handles' /\ GroupHandles'
    BY <2>3, <2>4 DEF Handles, GroupHandles
  <2>7. LoopIsAllowed'
    <3>. DEFINE T == S \ {First(S)}
    <3>1. /\ loop' = [what |-> "unpatch", group |-> i, todo |-> T]
          /\ \A x \in T : /\ Impl(i, x) \in Mockers /\ Impl(i, x) # m
                          /\ target[Impl(i, x)] \in Keys
                          /\ target[Impl(i, x)] # target[m]
      BY <2>2, <2>3, LoopGoesOn DEF m
    <3>2. \A n \in Mockers : TopMost(n) => TopMost(n)'
      BY <2>4 DEF TopMost, Live
    <3>3. \A x \in T : isPatched'[Impl(i, x)] =>
                         ObeysOwn(Impl(i, x))' /\ ObeysLifo(Impl(i, x))'
      BY <2>2, <2>4, <3>1, <3>2 DEF ObeysOwn, ObeysLifo
    <3>. QED BY <2>2, <2>3, <2>5, <3>1, <3>3 DEF LoopIsAllowed, AllowedLoop
  <2>. QED BY <2>4, <2>5, <2>6, <2>7
<1>. QED BY <1>1, <1>2, <1>3, <1>4

LEMMA ClientNext ==
  ASSUME ClientInv, [CNext]_cvars
  PROVE  ClientInv'
<1>1. CASE UNCHANGED cvars
  <2>1. UNCHANGED <<handle, isPatched, original, entry, gMocker, cleanup,
                    group, members, loop>>
    BY <1>1 DEF cvars, vars, client
  <2>2. RegistryTypes' /\ UNCHANGED <<Depth, Current>>
    BY <2>1, NothingRegistered DEF ClientInv
  <2>3. CleanupKeys' /\ Handles' /\ GroupHandles'
    BY <2>1, <2>2 DEF ClientInv, CleanupKeys, Handles, GroupHandles
  <2>4. InTest' = InTest
        /\ \A m : /\ ObeysOnce(m)' = ObeysOnce(m)
                  /\ ObeysOwn(m)' = ObeysOwn(m) /\ ObeysLifo(m)' = ObeysLifo(m)
    BY <2>1, <2>2 DEF ObeysOnce, ObeysOwn, ObeysLifo, Remocks, TopMost, Live, InTest
  <2>5. LoopIsAllowed'
    BY <2>1, <2>4 DEF ClientInv, LoopIsAllowed, AllowedLoop
  <2>. QED BY <2>2, <2>3, <2>5 DEF ClientInv
<1>. QED BY <1>1, LifecycleKeeps, VarStepsKeep, GroupStartsKeep, LoopStepsKeep
         DEF CNext

(* Whatever rules a test obeys, the types hold.                            *)
THEOREM ClientTypesHold ==
  CSpec => []CTypeOK
<1>1. ClientInv => CTypeOK
  <2>. SUFFICES ASSUME ClientInv PROVE CTypeOK
    OBVIOUS
  <2>1. Functions!TypeOK
    BY DEF ClientInv, RegistryTypes, CleanupKeys, Handles, Functions!TypeOK,
           Functions!Maps, Maps, Functions!Depth, Depth
  <2>2. /\ handle \in [Mockers -> {"none", "made", "held", "lost"}]
        /\ group \in [Groups -> {"none", "held", "lost"}]
        /\ \A i \in Groups : members[i] \subseteq FindImplementTargets(i)
    BY DEF ClientInv, Handles, GroupHandles
  <2>3. loop = NoLoop \/ loop.todo \subseteq FindImplementTargets(loop.group)
    BY DEF ClientInv, LoopIsAllowed, AllowedLoop
  <2>. QED BY <2>1, <2>2, <2>3 DEF CTypeOK
<1>2. ClientInv /\ [CNext]_cvars => ClientInv'
  BY ClientNext
<1>. QED BY ClientInit, <1>1, <1>2, PTL DEF CSpec

(* Building, patching and releasing, as MockLifecycle sees them.            *)
LEMMA SeenAsBuild ==
  ASSUME ClientInv, NEW m \in Mockers, InTest, handle[m] \in {"none", "made"},
         ObeysOnce(m), addToGlobal(m),
         entry' = [entry EXCEPT ![At(m)] = m],
         isPatched' = [isPatched EXCEPT ![m] = TRUE],
         original'[m] = entry[At(m)],
         \A n \in Mockers \ {m} : original'[n] = original[n],
         handle' = [handle EXCEPT ![m] = IF Remocks(m) THEN "lost" ELSE "held"],
         UNCHANGED cleanup
  PROVE  Functions!Build(m)
<1>1. handle'[m] \in {"held", "lost"} /\ \A n \in Mockers \ {m} : handle'[n] = handle[n]
  BY DEF ClientInv, Handles
<1>2. Functions!WriteBranch(m)
  BY <1>1 DEF Functions!WriteBranch, Functions!At, At
<1>3. Functions!addToGlobal(m) /\ Functions!Remocks(m) = Remocks(m)
  BY DEF Functions!addToGlobal, Functions!Remocks, Functions!Current,
         Functions!Depth, addToGlobal, Remocks, Current, Depth
<1>4. Functions!ObeysOnce(m) /\ Functions!InTest
  BY <1>3 DEF Functions!ObeysOnce, Functions!InTest, Functions!NoCleanup,
              ObeysOnce, InTest, NoCleanup
<1>5. [n \in Mockers |-> IF handle'[n] = "made" THEN "none" ELSE handle'[n]]
      = [[n \in Mockers |-> IF handle[n] = "made" THEN "none" ELSE handle[n]]
           EXCEPT ![m] = IF Remocks(m) THEN "lost" ELSE "held"]
  BY <1>1 DEF ClientInv, Handles
<1>. QED BY <1>2, <1>3, <1>4, <1>5 DEF Functions!Build

LEMMA SeenAsPatch ==
  ASSUME ClientInv, NEW m \in Mockers, InTest, handle[m] = "held", ~isPatched[m],
         ObeysOnce(m), addToGlobal(m),
         entry' = [entry EXCEPT ![At(m)] = m],
         isPatched' = [isPatched EXCEPT ![m] = TRUE],
         original'[m] = entry[At(m)],
         \A n \in Mockers \ {m} : original'[n] = original[n],
         UNCHANGED <<handle, cleanup>>
  PROVE  Functions!Patch(m)
<1>1. Functions!WriteBranch(m)
  BY DEF Functions!WriteBranch, Functions!At, At
<1>2. Functions!addToGlobal(m) /\ Functions!Remocks(m) = Remocks(m)
  BY DEF Functions!addToGlobal, Functions!Remocks, Functions!Current,
         Functions!Depth, addToGlobal, Remocks, Current, Depth
<1>3. Functions!ObeysOnce(m) /\ Functions!InTest
  BY <1>2 DEF Functions!ObeysOnce, Functions!InTest, Functions!NoCleanup,
              ObeysOnce, InTest, NoCleanup
<1>. QED BY <1>1, <1>2, <1>3 DEF Functions!Patch

(* A mocker of a variable that was not built is on no chain.               *)
LEMMA SeenAsTopMost ==
  ASSUME ClientInv, NEW m \in Mockers, TopMost(m)
  PROVE  Functions!TopMost(m)
BY DEF ClientInv, Handles, TopMost, Live, At,
       Functions!TopMost, Functions!Live, Functions!At

LEMMA SeenAsUnPatch ==
  ASSUME ClientInv, NEW m \in Mockers, InTest, handle[m] = "held", isPatched[m],
         ObeysOwn(m), ObeysLifo(m), WriteBack(m), removeFromGlobal(m),
         UNCHANGED <<handle, cleanup>>
  PROVE  Functions!UnPatch(m)
<1>1. Functions!WriteBack(m)
  BY DEF Functions!WriteBack, Functions!At, WriteBack, At
<1>2. Functions!removeFromGlobal(m)
  BY DEF Functions!removeFromGlobal, Functions!Current, Functions!Depth,
         removeFromGlobal, Current, Depth
<1>3. Functions!ObeysOwn(m) /\ Functions!ObeysLifo(m) /\ Functions!InTest
  BY SeenAsTopMost
     DEF Functions!ObeysOwn, Functions!ObeysLifo, Functions!InTest,
         Functions!NoCleanup, Functions!Current, Functions!Depth,
         ObeysOwn, ObeysLifo, InTest, NoCleanup, Current, Depth
<1>. QED BY <1>1, <1>2, <1>3 DEF Functions!UnPatch

LEMMA LifecycleSteps ==
  ASSUME ClientInv, Lifecycle
  PROVE  Functions!Next
<1>1. FuncMockers \subseteq Mockers
  BY DEF FuncMockers
<1>2. ASSUME NEW m \in FuncMockers, Build(m)
      PROVE  Functions!Build(m)
  <2>1. /\ m \in Mockers /\ original'[m] = entry[At(m)]
        /\ \A n \in Mockers \ {m} : original'[n] = original[n]
    BY <1>1, <1>2 DEF Build, WriteBranch, ClientInv, RegistryTypes
  <2>. QED BY <1>2, <2>1, SeenAsBuild DEF Build, WriteBranch
<1>3. ASSUME NEW m \in FuncMockers, Patch(m)
      PROVE  Functions!Patch(m)
  <2>1. /\ m \in Mockers /\ original'[m] = entry[At(m)]
        /\ \A n \in Mockers \ {m} : original'[n] = original[n]
    BY <1>1, <1>3 DEF Patch, WriteBranch, ClientInv, RegistryTypes
  <2>. QED BY <1>3, <2>1, SeenAsPatch DEF Patch, WriteBranch
<1>4. ASSUME NEW m \in Mockers, UnPatch(m)
      PROVE  Functions!UnPatch(m)
  BY <1>4, SeenAsUnPatch DEF UnPatch
<1>5. ASSUME NEW m \in Mockers, RePatch(m)
      PROVE  Functions!RePatch(m)
  <2>1. Functions!ObeysOwn(m) /\ Functions!ObeysLifo(m) /\ Functions!InTest
    BY <1>5, SeenAsTopMost
       DEF RePatch, Functions!ObeysOwn, Functions!ObeysLifo, Functions!InTest,
           Functions!NoCleanup, Functions!Current, Functions!Depth,
           ObeysOwn, ObeysLifo, InTest, NoCleanup, Current, Depth
  <2>. QED BY <1>5, <2>1
           DEF RePatch, Functions!RePatch, Functions!Depth, Functions!At, Depth, At
<1>6. EnterContext => Functions!EnterContext
  BY DEF EnterContext, Functions!EnterContext, InTest, NoCleanup, Depth, EmptyMap,
         Functions!InTest, Functions!NoCleanup, Functions!Depth, Functions!EmptyMap
<1>7. ASSUME NEW why \in {"leave", "all"}, StartLoop(why)
      PROVE  Functions!StartLoop(why)
  BY <1>7 DEF StartLoop, InTest, NoCleanup, SharesEntry, Current, Depth,
              Functions!StartLoop, Functions!InTest, Functions!NoCleanup,
              Functions!SharesEntry, Functions!Current, Functions!Depth
<1>8. ASSUME NEW k \in Keys, CleanupStep(k)
      PROVE  Functions!CleanupStep(k)
  <2>. DEFINE m == Current[k]
  <2>1. k \in cleanup.todo /\ m \in Mockers /\ Functions!Current[k] = m
    BY <1>8, ClientBasics
       DEF CleanupStep, ClientInv, CleanupKeys, Maps, Current, Depth,
           Functions!Current, Functions!Depth
  <2>2. /\ cleanup' = [cleanup EXCEPT !.todo = @ \ {k}] /\ UNCHANGED handle
        /\ IF isPatched[m] THEN WriteBack(m) /\ removeFromGlobal(m)
           ELSE UNCHANGED <<isPatched, original, entry, gMocker>>
    BY <1>8 DEF CleanupStep
  <2>. HIDE DEF m
  <2>3. CASE isPatched[m]
    <3>1. WriteBack(m) /\ removeFromGlobal(m) /\ handle[m] # "made"
      BY <2>1, <2>2, <2>3 DEF ClientInv, Handles
    <3>2. Functions!WriteBack(m)
      BY <2>1, <2>2, <3>1 DEF Functions!WriteBack, Functions!At, WriteBack, At
    <3>3. Functions!removeFromGlobal(m)
      BY <3>1 DEF Functions!removeFromGlobal, Functions!Current, Functions!Depth,
                  removeFromGlobal, Current, Depth
    <3>. QED BY <2>1, <2>2, <2>3, <3>2, <3>3 DEF Functions!CleanupStep
  <2>4. CASE ~isPatched[m]
    BY <2>1, <2>2, <2>4 DEF Functions!CleanupStep
  <2>. QED BY <2>3, <2>4
<1>9. CleanupEnd => Functions!CleanupEnd
  BY DEF CleanupEnd, InTest, NoCleanup, Depth,
         Functions!CleanupEnd, Functions!InTest, Functions!NoCleanup, Functions!Depth
<1>. QED BY <1>1, <1>2, <1>3, <1>4, <1>5, <1>6, <1>7, <1>8, <1>9
         DEF Lifecycle, LeaveContext, UnPatchAll, Functions!Next,
             Functions!LeaveContext, Functions!UnPatchAll, Functions!Depth, Depth

LEMMA ClientSteps ==
  ASSUME "fresh" \in Rules, ClientInv, [CNext]_cvars
  PROVE  [Functions!Next]_(Functions!vars)
<1>1. UNCHANGED <<handle, isPatched, original, entry, gMocker, cleanup>>
        => UNCHANGED Functions!vars
  BY DEF Functions!vars
<1>2. ASSUME NEW m \in Mockers, MockValue(m)
      PROVE  UNCHANGED Functions!vars
  <2>1. /\ handle[m] = "none" /\ original[m] = Orig
        /\ handle' = [handle EXCEPT ![m] = "made"]
        /\ original' = [original EXCEPT ![m] = entry[At(m)]]
        /\ UNCHANGED <<isPatched, entry, gMocker, cleanup>>
    BY <1>2 DEF MockValue, ClientInv, Handles
  <2>2. /\ \A n \in Mockers : n # m => handle'[n] = handle[n] /\ original'[n] = original[n]
        /\ handle'[m] = "made"
    BY <2>1 DEF ClientInv, Handles, RegistryTypes
  <2>. QED BY <2>1, <2>2 DEF Functions!vars
<1>3. ASSUME NEW m \in Mockers, To(m)
      PROVE  Functions!Build(m)
  BY <1>3, SeenAsBuild DEF To, SetVariable, ObeysFresh, Idle
<1>4. ASSUME NEW m \in Mockers, PatchVar(m)
      PROVE  Functions!Patch(m)
  BY <1>4, SeenAsPatch DEF PatchVar, SetVariable, ObeysFresh, Idle
<1>5. ASSUME NEW m \in Mockers, UnPatchVar(m)
      PROVE  Functions!UnPatch(m)
  BY <1>5, SeenAsUnPatch DEF UnPatchVar, Idle
<1>6. ASSUME NEW i \in Groups, BuildGroup(i) \/ PatchGroup(i) \/ UnPatchGroup(i)
      PROVE  UNCHANGED Functions!vars
  BY <1>1, <1>6 DEF BuildGroup, PatchGroup, UnPatchGroup, StartGroup, vars
<1>7. BuildRefused \/ LoopEnds => UNCHANGED Functions!vars
  BY <1>1 DEF BuildRefused, LoopEnds, vars
<1>8. CASE BuildMember
  <2>0. PICK i \in Groups :
          \E S \in SUBSET FindImplementTargets(i) : Round("build", i, S)
    BY <1>8, LoopRound DEF BuildMember
  <2>1. PICK S \in SUBSET FindImplementTargets(i) : Round("build", i, S)
    BY <2>0
  <2>. DEFINE m == Impl(i, First(S))
  <2>2. /\ m \in Mockers /\ InTest /\ handle[m] = "none" /\ ObeysOnce(m)
        /\ WriteBranch(m) /\ addToGlobal(m) /\ UNCHANGED cleanup
        /\ handle' = [handle EXCEPT ![m] = IF Remocks(m) THEN "lost" ELSE "held"]
    BY <1>8, <2>1 DEF Round, BuildMember
  <2>. HIDE DEF m
  <2>3. /\ original'[m] = entry[At(m)]
        /\ \A n \in Mockers \ {m} : original'[n] = original[n]
    BY <2>2 DEF WriteBranch, ClientInv, RegistryTypes
  <2>4. Functions!Build(m)
    BY <2>2, <2>3, SeenAsBuild DEF WriteBranch
  <2>. QED BY <2>2, <2>4 DEF Functions!Next
<1>9. CASE PatchMember
  <2>0. PICK i \in Groups :
          \E S \in SUBSET FindImplementTargets(i) : Round("patch", i, S)
    BY <1>9, LoopRound DEF PatchMember
  <2>1. PICK S \in SUBSET FindImplementTargets(i) : Round("patch", i, S)
    BY <2>0
  <2>. DEFINE m == Impl(i, First(S))
  <2>2. /\ m \in Mockers /\ InTest /\ handle[m] = "held"
        /\ isPatched[m] \/ ObeysOnce(m)
        /\ IF isPatched[m] THEN UNCHANGED <<isPatched, original, entry, gMocker>>
           ELSE WriteBranch(m) /\ addToGlobal(m)
        /\ UNCHANGED <<handle, cleanup>>
    BY <1>9, <2>1 DEF Round, PatchMember, ClientInv, GroupHandles
  <2>. HIDE DEF m
  <2>3. CASE isPatched[m]
    BY <1>1, <2>2, <2>3
  <2>4. CASE ~isPatched[m]
    <3>1. /\ original'[m] = entry[At(m)]
          /\ \A n \in Mockers \ {m} : original'[n] = original[n]
      BY <2>2, <2>4 DEF WriteBranch, ClientInv, RegistryTypes
    <3>2. Functions!Patch(m)
      BY <2>2, <2>4, <3>1, SeenAsPatch DEF WriteBranch
    <3>. QED BY <2>2, <3>2 DEF Functions!Next
  <2>. QED BY <2>3, <2>4
<1>10. CASE UnPatchMember
  <2>0. PICK i \in Groups :
          \E S \in SUBSET FindImplementTargets(i) : Round("unpatch", i, S)
    BY <1>10, LoopRound DEF UnPatchMember
  <2>1. PICK S \in SUBSET FindImplementTargets(i) : Round("unpatch", i, S)
    BY <2>0
  <2>. DEFINE m == Impl(i, First(S))
  <2>2. /\ m \in Mockers /\ InTest /\ handle[m] = "held"
        /\ isPatched[m] => ObeysOwn(m) /\ ObeysLifo(m)
        /\ IF isPatched[m] THEN WriteBack(m) /\ removeFromGlobal(m)
           ELSE UNCHANGED <<isPatched, original, entry, gMocker>>
        /\ UNCHANGED <<handle, cleanup>>
    BY <1>10, <2>1 DEF Round, UnPatchMember, ClientInv, GroupHandles
  <2>. HIDE DEF m
  <2>3. CASE isPatched[m]
    <3>1. Functions!UnPatch(m)
      BY <2>2, <2>3, SeenAsUnPatch
    <3>. QED BY <2>2, <3>1 DEF Functions!Next
  <2>4. CASE ~isPatched[m]
    BY <1>1, <2>2, <2>4
  <2>. QED BY <2>3, <2>4
<1>11. CASE UNCHANGED cvars
  BY <1>1, <1>11 DEF cvars, vars
<1>. QED BY <1>2, <1>3, <1>4, <1>5, <1>6, <1>7, <1>8, <1>9, <1>10, <1>11,
            LifecycleSteps DEF CNext, Functions!Next

(* Whatever loops run over groups, and although a variable's value is      *)
(* saved early, every step of variables and interfaces is one of a mock of *)
(* a function, under the same rules, if a variable is set when it holds    *)
(* what it is going to be reset to.                                        *)
THEOREM ClientsImplementLifecycle ==
  ASSUME "fresh" \in Rules
  PROVE  CSpec => ImplementsLifecycle
<1>1. CInit => Functions!Init
  BY DEF CInit, Init, Functions!Init, EmptyMap, NoCleanup,
         Functions!EmptyMap, Functions!NoCleanup
<1>2. ClientInv /\ [CNext]_cvars => ClientInv'
  BY ClientNext
<1>3. ClientInv /\ [CNext]_cvars => [Functions!Next]_(Functions!vars)
  BY ClientSteps
<1>. QED BY ClientInit, <1>1, <1>2, <1>3, PTL
         DEF CSpec, Functions!Spec, ImplementsLifecycle

-----------------------------------------------------------------------------
(* 2. What is proved of MockLifecycle holds of the clients.                *)

LEMMA SameInit == Functions!Init => LP!Init
BY DEF Functions!Init, Functions!EmptyMap, Functions!NoCleanup,
       LP!Init, LP!EmptyMap, LP!NoCleanup

LEMMA SameNext ==
  [Functions!Next]_(Functions!vars) => [LP!Next]_(LP!vars)
<1>. USE DEF Functions!Depth, Functions!Current, Functions!At, Functions!NoCleanup,
             Functions!InTest, Functions!EmptyMap, Functions!Remocks,
             LP!Depth, LP!Current, LP!At, LP!NoCleanup, LP!InTest, LP!EmptyMap,
             LP!Remocks
<1>1. ASSUME NEW m \in Mockers
      PROVE  /\ Functions!addToGlobal(m) => LP!addToGlobal(m)
             /\ Functions!removeFromGlobal(m) => LP!removeFromGlobal(m)
             /\ Functions!WriteBranch(m) => LP!WriteBranch(m)
             /\ Functions!WriteBack(m) => LP!WriteBack(m)
  BY DEF Functions!addToGlobal, Functions!removeFromGlobal, Functions!WriteBranch,
         Functions!WriteBack, LP!addToGlobal, LP!removeFromGlobal,
         LP!WriteBranch, LP!WriteBack
<1>2. ASSUME NEW m \in Mockers
      PROVE  /\ Functions!ObeysOnce(m) => LP!ObeysOnce(m)
             /\ Functions!ObeysOwn(m) => LP!ObeysOwn(m)
             /\ Functions!ObeysLifo(m) => LP!ObeysLifo(m)
  BY DEF Functions!ObeysOnce, Functions!ObeysOwn, Functions!ObeysLifo,
         Functions!TopMost, Functions!Live, LP!ObeysOnce, LP!ObeysOwn,
         LP!ObeysLifo, LP!TopMost, LP!Live
<1>3. ASSUME NEW m \in Mockers
      PROVE  /\ Functions!Build(m) => LP!Build(m)
             /\ Functions!Patch(m) => LP!Patch(m)
             /\ Functions!UnPatch(m) => LP!UnPatch(m)
             /\ Functions!RePatch(m) => LP!RePatch(m)
  BY <1>1, <1>2 DEF Functions!Build, Functions!Patch, Functions!UnPatch,
                    Functions!RePatch, LP!Build, LP!Patch, LP!UnPatch, LP!RePatch
<1>4. Functions!EnterContext => LP!EnterContext
  BY DEF Functions!EnterContext, LP!EnterContext
<1>5. \A why \in {"leave", "all"} : Functions!StartLoop(why) => LP!StartLoop(why)
  BY DEF Functions!StartLoop, Functions!SharesEntry, LP!StartLoop, LP!SharesEntry
<1>6. ASSUME NEW k \in Keys, Functions!CleanupStep(k)
      PROVE  LP!CleanupStep(k)
  BY <1>6 DEF Functions!CleanupStep, Functions!WriteBack, Functions!removeFromGlobal,
              LP!CleanupStep, LP!WriteBack, LP!removeFromGlobal
<1>7. Functions!CleanupEnd => LP!CleanupEnd
  BY DEF Functions!CleanupEnd, LP!CleanupEnd
<1>. QED BY <1>3, <1>4, <1>5, <1>6, <1>7
         DEF Functions!Next, Functions!LeaveContext, Functions!UnPatchAll, Functions!vars,
             LP!Next, LP!LeaveContext, LP!UnPatchAll, LP!vars

LEMMA ClientsAreLifecycle ==
  ASSUME "fresh" \in Rules
  PROVE  CSpec => LP!Spec
<1>1. CSpec => Functions!Spec
  BY ClientsImplementLifecycle DEF ImplementsLifecycle
<1>. QED BY <1>1, SameInit, SameNext, PTL DEF Functions!Spec, LP!Spec

ClientRules == AllRules \cup {"fresh"} \subseteq Rules

(* Variables, interfaces and functions that are mocked together answer as  *)
(* nested scopes say.                                                      *)
THEOREM ClientScopesAreNested ==
  ASSUME ClientRules
  PROVE  CSpec => LP!ImplementsScopes
<1>1. LP!EveryRule
  BY DEF LP!EveryRule, LP!AllRules, AllRules, ClientRules
<1>2. LP!Spec => LP!ImplementsScopes
  BY <1>1, Finite, TargetAssumption, AddrAssumption, ValueAssumption,
     DepthAssumption, LP!ScopesAreNested
<1>3. CSpec => LP!Spec
  BY ClientsAreLifecycle DEF ClientRules
<1>. QED BY <1>2, <1>3

(* Every mock that is in effect, also one of a variable or of a group, is  *)
(* going to be released by exactly one context.                            *)
THEOREM ClientRegistryAgrees ==
  ASSUME ClientRules
  PROVE  CSpec => []RegisteredExactlyWhilePatched
<1>1. LP!OncePerContext
  BY DEF LP!OncePerContext, AllRules, ClientRules
<1>2. LP!Spec => []LP!RegisteredExactlyWhilePatched
  BY <1>1, Finite, TargetAssumption, AddrAssumption, ValueAssumption,
     DepthAssumption, LP!RegistryAgrees
<1>3. LP!RegisteredExactlyWhilePatched => RegisteredExactlyWhilePatched
  BY DEF LP!RegisteredExactlyWhilePatched, LP!Depth,
         RegisteredExactlyWhilePatched, Depth
<1>4. CSpec => LP!Spec
  BY ClientsAreLifecycle DEF ClientRules
<1>. QED BY <1>2, <1>3, <1>4, PTL

-----------------------------------------------------------------------------
(* 3. An interface is mocked in all its functions or in none.              *)

(* What holds while the loops run: the members in effect of a group are    *)
(* held by one context, and where a group is held, a loop that builds has  *)
(* patched what it built, one that patches all before its place, unless    *)
(* they were, one that releases none before its place; the loop over a map *)
(* may be amid them.                                                       *)
LiveOf(i) == {x \in members[i] : isPatched[Impl(i, x)]}
HeldIn(i, d) ==
  \A x \in LiveOf(i) : gMocker[d][target[Impl(i, x)]] = Impl(i, x)
Runs(i, what, S) == loop = [what |-> what, group |-> i, todo |-> S]
Resting(i) == loop = NoLoop \/ loop.group # i
Building(i) ==
  Runs(i, "build", FindImplementTargets(i) \ members[i]) /\ LiveOf(i) = members[i]
Patching(i) == Runs(i, "patch", members[i] \ LiveOf(i))
Releasing(i) ==
  \E S \in SUBSET members[i] : Runs(i, "unpatch", S) /\ LiveOf(i) \subseteq S
Repeating(i) ==
  (\E S \in SUBSET members[i] : Runs(i, "patch", S)) /\ LiveOf(i) = members[i]
Whole(i, d) ==
  \/ Resting(i) /\ LiveOf(i) \in {{}, members[i]}
  \/ (~InTest \/ Patching(i)) /\ d = Depth
  \/ Releasing(i) \/ Repeating(i)
Status(i, d) ==
  \/ group[i] # "held"
  \/ Building(i) /\ d = Depth
  \/ members[i] = FindImplementTargets(i) /\ Whole(i, d)
GroupInv(i) ==
  /\ group[i] = "none" => members[i] = {}
  /\ \E d \in 1..Depth : HeldIn(i, d) /\ Status(i, d)
TogetherInv ==
  ClientInv /\ LP!RegistryInv /\ \A i \in Groups : GroupInv(i)

(* What the registry's own invariant says here.                            *)
LEMMA RegistryFacts ==
  ASSUME LP!RegistryInv
  PROVE  /\ \A i \in 1..Depth, k \in Keys :
              gMocker[i][k] # NoMocker => isPatched[gMocker[i][k]]
         /\ \A m \in Mockers : isPatched[m] =>
              \E i \in 1..Depth :
                \A j \in 1..Depth : gMocker[j][target[m]] = m <=> j = i
         /\ ~InTest => \A k \in Keys : Current[k] # NoMocker => k \in cleanup.todo
BY DEF LP!RegistryInv, LP!RegisteredExactlyWhilePatched, LP!LoopFollowsMap,
       LP!InTest, LP!NoCleanup, LP!Current, LP!Depth, InTest, NoCleanup, Current, Depth

LEMMA RegistryStays ==
  ASSUME ClientRules, ClientInv, LP!RegistryInv, [CNext]_cvars
  PROVE  LP!RegistryInv'
<1>1. LP!OncePerContext
  BY DEF LP!OncePerContext, AllRules, ClientRules
<1>2. [LP!Next]_(LP!vars)
  BY ClientSteps, SameNext DEF ClientRules
<1>. QED BY <1>1, <1>2, Finite, TargetAssumption, AddrAssumption, ValueAssumption,
            DepthAssumption, LP!RegistryNext

(* Registering under a free key, and removing what is registered, leaves   *)
(* every other registration where it is.                                   *)
Registered(d, n) == gMocker[d][target[n]] = n
LEMMA AddLeavesOthers ==
  ASSUME ClientInv, NEW m \in Mockers, ~Remocks(m), addToGlobal(m)
  PROVE  /\ Depth' = Depth /\ Registered(Depth, m)'
         /\ \A d \in 1..Depth, n \in Mockers : Registered(d, n) => Registered(d, n)'
<1>1. LP!TypeOK
  BY LiftedTypes DEF ClientInv
<1>2. ~LP!Remocks(m) /\ LP!addToGlobal(m)
  BY DEF LP!Remocks, LP!addToGlobal, LP!Current, LP!Depth,
         Remocks, addToGlobal, Current, Depth
<1>3. /\ Depth' = Depth
      /\ \A i \in 1..Depth, l \in Keys :
           gMocker'[i][l] = IF i = Depth /\ l = target[m] THEN m
                                                     ELSE gMocker[i][l]
  BY <1>1, <1>2, Finite, TargetAssumption, AddrAssumption, ValueAssumption,
     DepthAssumption, LP!AddEffect DEF LP!Depth, Depth
<1>4. /\ \A n \in Mockers : target[n] \in Keys /\ n # NoMocker
      /\ Depth \in 1..Depth /\ gMocker[Depth][target[m]] = NoMocker
  BY ClientBasics, ValueAssumption DEF ClientInv, Remocks, Current
<1>. QED BY <1>3, <1>4 DEF Registered

LEMMA RemoveLeavesOthers ==
  ASSUME ClientInv, NEW m \in Mockers, Registered(Depth, m), removeFromGlobal(m)
  PROVE  /\ Depth' = Depth
         /\ \A d \in 1..Depth, n \in Mockers :
              n # m /\ Registered(d, n) => Registered(d, n)'
<1>1. LP!TypeOK
  BY LiftedTypes DEF ClientInv
<1>2. LP!removeFromGlobal(m)
  BY DEF LP!removeFromGlobal, LP!Current, LP!Depth, removeFromGlobal, Current, Depth
<1>3. /\ Depth' = Depth
      /\ \A i \in 1..Depth, l \in Keys :
           gMocker'[i][l] = IF i = Depth /\ l = target[m] THEN NoMocker
                                                     ELSE gMocker[i][l]
  BY <1>1, <1>2, Finite, TargetAssumption, AddrAssumption, ValueAssumption,
     DepthAssumption, LP!RemoveEffect DEF LP!Depth, Depth
<1>4. \A n \in Mockers : target[n] \in Keys
  BY ClientBasics DEF ClientInv
<1>. QED BY <1>3, <1>4 DEF Registered

(* A group that a step does not concern stays together.                    *)
LEMMA OthersStayTogether ==
  ASSUME ClientInv, NEW i \in Groups, GroupInv(i),
         \A x \in members[i] : isPatched'[Impl(i, x)] = isPatched[Impl(i, x)],
         members'[i] = members[i], group'[i] = group[i],
         InTest' = InTest, Depth' = Depth,
         loop' = loop \/ (loop = NoLoop /\ InTest /\ loop'.group # i)
                      \/ (loop # NoLoop /\ loop.group # i /\ (loop' = NoLoop \/ loop'.group # i)),
         \A d \in 1..Depth, x \in members[i] :
           isPatched[Impl(i, x)] /\ Registered(d, Impl(i, x)) => Registered(d, Impl(i, x))'
  PROVE  GroupInv(i)'
<1>1. LiveOf(i)' = LiveOf(i)
  BY DEF LiveOf
<1>2. \A d \in 1..Depth : HeldIn(i, d) => HeldIn(i, d)'
  BY <1>1 DEF HeldIn, LiveOf, Registered
<1>3. \A what, S : Runs(i, what, S) => Runs(i, what, S)'
  BY DEF Runs, NoLoop
<1>4. /\ Building(i) => Building(i)'
      /\ Patching(i) => Patching(i)'
      /\ Releasing(i) => Releasing(i)'
      /\ Repeating(i) => Repeating(i)'
      /\ Resting(i) => Resting(i)'
  BY <1>1, <1>3 DEF Building, Patching, Releasing, Repeating, Resting, NoLoop
<1>5. \A d \in 1..Depth : Status(i, d) => Status(i, d)'
  BY <1>1, <1>4 DEF Status, Whole
<1>. QED BY <1>2, <1>5 DEF GroupInv

LEMMA TogetherInit == CInit => TogetherInv
<1>. SUFFICES ASSUME CInit PROVE TogetherInv
  OBVIOUS
<1>1. ClientInv
  BY ClientInit
<1>2. LP!RegistryInv
  <2>1. LP!Init
    BY DEF CInit, Init, LP!Init, EmptyMap, NoCleanup, LP!EmptyMap, LP!NoCleanup
  <2>. QED BY <2>1, Finite, TargetAssumption, AddrAssumption, ValueAssumption,
              DepthAssumption, LP!RegistryInit
<1>3. ASSUME NEW i \in Groups PROVE GroupInv(i)
  <2>1. 1 \in 1..Depth /\ members[i] = {} /\ group[i] = "none"
    BY <1>1, ClientBasics DEF CInit, ClientInv
  <2>. QED BY <2>1 DEF GroupInv, HeldIn, LiveOf, Status
<1>. QED BY <1>1, <1>2, <1>3 DEF TogetherInv

(* Between two loops over groups a group is in effect as a whole, unless   *)
(* the loop over the last map is amid it.                                  *)
LEMMA AtRest ==
  ASSUME loop = NoLoop, NEW i \in Groups, NEW d \in 1..Depth, Status(i, d)
  PROVE  /\ Resting(i)
         /\ \/ group[i] # "held"
            \/ /\ members[i] = FindImplementTargets(i)
               /\ LiveOf(i) \in {{}, members[i]} \/ (~InTest /\ d = Depth)
<1>1. \A what, S : Runs(i, what, S) => what = "idle"
  BY DEF Runs, NoLoop
<1>. QED BY <1>1 DEF Status, Whole, Building, Patching, Releasing, Repeating, Resting

(* A mock of a function or a variable that is patched or released.         *)
LEMMA SinglesStayTogether ==
  ASSUME TogetherInv, InTest, InTest', loop = NoLoop, UNCHANGED client,
         NEW m \in Mockers,
         \A j \in Groups : \A x \in FindImplementTargets(j) : Impl(j, x) # m,
         \A n \in Mockers \ {m} : isPatched'[n] = isPatched[n],
         Depth' = Depth,
         \A d \in 1..Depth, n \in Mockers :
           n # m /\ isPatched[n] /\ Registered(d, n) => Registered(d, n)'
  PROVE  \A i \in Groups : GroupInv(i)'
<1>. TAKE i \in Groups
<1>1. ClientInv /\ GroupInv(i)
  BY DEF TogetherInv
<1>2. \A x \in members[i] : Impl(i, x) \in Mockers \ {m}
  BY <1>1, ImplFacts DEF ClientInv, GroupHandles
<1>. QED BY <1>1, <1>2, OthersStayTogether DEF client

LEMMA ContextsStayTogether ==
  ASSUME TogetherInv, ClientInv', loop = NoLoop, UNCHANGED client,
         EnterContext \/ LeaveContext \/ UnPatchAll \/ CleanupEnd
  PROVE  \A i \in Groups : GroupInv(i)'
<1>. TAKE i \in Groups
<1>1. ClientInv /\ LP!RegistryInv /\ GroupInv(i)
  BY DEF TogetherInv
<1>2. /\ gMocker \in Seq(Maps) /\ Depth = Len(gMocker) /\ Depth \in Nat /\ Depth >= 1
      /\ \A m \in Mockers : target[m] \in Keys
  BY <1>1, ClientBasics DEF ClientInv
<1>3. PICK d \in 1..Depth : HeldIn(i, d) /\ Status(i, d)
  BY <1>1 DEF GroupInv
<1>4. /\ Resting(i)' /\ loop' = NoLoop /\ UNCHANGED <<group, members>>
      /\ \/ group[i] # "held"
         \/ /\ members[i] = FindImplementTargets(i)
            /\ LiveOf(i) \in {{}, members[i]} \/ (~InTest /\ d = Depth)
  BY <1>3, AtRest DEF client, Resting
<1>5. UNCHANGED isPatched /\ LiveOf(i)' = LiveOf(i)
  BY <1>4 DEF EnterContext, LeaveContext, UnPatchAll, StartLoop, CleanupEnd, LiveOf
<1>6. group'[i] = "none" => members'[i] = {}
  BY <1>1, <1>4 DEF GroupInv
<1>7. ASSUME NEW e \in 1..Depth', LiveOf(i) = {} \/ (e = d /\ gMocker'[d] = gMocker[d]),
             LiveOf(i) = {} \/ InTest \/ d # Depth
      PROVE  GroupInv(i)'
  <2>1. HeldIn(i, e)'
    BY <1>3, <1>5, <1>7 DEF HeldIn
  <2>2. Status(i, e)'
    BY <1>4, <1>5, <1>7 DEF Status, Whole
  <2>. QED BY <1>6, <2>1, <2>2 DEF GroupInv
<1>8. CASE EnterContext
  <2>1. EmptyMap \in Maps /\ InTest /\ gMocker' = Append(gMocker, EmptyMap)
    BY <1>8 DEF EnterContext, EmptyMap, Maps
  <2>2. d \in 1..Depth' /\ gMocker'[d] = gMocker[d]
    BY <1>2, <2>1 DEF Depth
  <2>. QED BY <1>7, <2>1, <2>2
<1>9. CASE LeaveContext \/ UnPatchAll
  <2>1. InTest /\ UNCHANGED gMocker
    BY <1>9 DEF LeaveContext, UnPatchAll, StartLoop
  <2>2. d \in 1..Depth'
    BY <2>1 DEF Depth
  <2>. QED BY <1>7, <2>1, <2>2
<1>10. CASE CleanupEnd
  <2>1. /\ ~InTest /\ cleanup.todo = {}
        /\ gMocker' = IF cleanup.why = "leave"
                        THEN SubSeq(gMocker, 1, Depth - 1) ELSE gMocker
    BY <1>10 DEF CleanupEnd
  <2>2. CASE d = Depth
    <3>1. \A k \in Keys : Current[k] = NoMocker
      BY <1>1, <2>1, RegistryFacts
    <3>2. LiveOf(i) = {}
      BY <1>1, <1>2, <1>3, <2>2, <3>1, ImplFacts, ValueAssumption
         DEF HeldIn, LiveOf, Current, ClientInv, GroupHandles
    <3>3. 1 \in 1..Depth'
      BY DEF ClientInv, RegistryTypes
    <3>. QED BY <1>7, <3>2, <3>3
  <2>3. CASE d # Depth
    <3>1. d \in 1..(Depth - 1) /\ Depth - 1 \in Nat
      BY <1>2, <2>3
    <3>2. d \in 1..Depth' /\ gMocker'[d] = gMocker[d]
      BY <1>2, <2>1, <3>1 DEF Depth
    <3>. QED BY <1>7, <2>3, <3>2
  <2>. QED BY <2>2, <2>3
<1>. QED BY <1>8, <1>9, <1>10

LEMMA CleanupStaysTogether ==
  ASSUME TogetherInv, loop = NoLoop, UNCHANGED client, NEW k \in Keys, CleanupStep(k)
  PROVE  \A i \in Groups : GroupInv(i)'
<1>. TAKE i \in Groups
<1>. DEFINE m == Current[k]
<1>1. ClientInv /\ LP!RegistryInv /\ GroupInv(i)
  BY DEF TogetherInv
<1>2. /\ k \in cleanup.todo /\ m \in Mockers /\ target[m] = k
      /\ cleanup' = [cleanup EXCEPT !.todo = @ \ {k}]
      /\ IF isPatched[m] THEN WriteBack(m) /\ removeFromGlobal(m)
         ELSE UNCHANGED <<isPatched, original, entry, gMocker>>
  BY <1>1, ClientBasics DEF CleanupStep, ClientInv, CleanupKeys, Maps, RegistryTypes, Current
<1>3. ~InTest /\ ~InTest' /\ InTest' = InTest
  <2>1. ~InTest /\ ~InTest'
    BY <1>1, <1>2 DEF InTest, NoCleanup, ClientInv, CleanupKeys
  <2>. QED BY <2>1 DEF InTest
<1>4. \A x \in members[i] : Impl(i, x) \in Mockers /\ target[Impl(i, x)] \in Keys
  BY <1>1, ImplFacts DEF ClientInv, GroupHandles
<1>5. Registered(Depth, m) /\ Depth \in 1..Depth
  BY <1>1, <1>2, ClientBasics DEF Registered, Current, ClientInv
<1>. HIDE DEF m
<1>6. CASE ~isPatched[m]
  <2>1. UNCHANGED <<isPatched, gMocker, group, members, loop>>
    BY <1>2, <1>6 DEF client
  <2>2. /\ Depth' = Depth
        /\ \A d \in 1..Depth, n \in Mockers : Registered(d, n) => Registered(d, n)'
    BY <2>1 DEF Depth, Registered
  <2>. QED BY <1>1, <1>3, <2>1, <2>2, <1>4, OthersStayTogether
<1>7. CASE isPatched[m]
  <2>1. /\ Depth' = Depth
        /\ \A d \in 1..Depth, n \in Mockers :
             n # m /\ Registered(d, n) => Registered(d, n)'
    BY <1>1, <1>2, <1>5, <1>7, RemoveLeavesOthers
  <2>2. \A n \in Mockers : isPatched'[n] = IF n = m THEN FALSE ELSE isPatched[n]
    BY <1>1, <1>2, <1>7 DEF WriteBack, ClientInv, RegistryTypes
  <2>3. CASE \A x \in members[i] : Impl(i, x) # m
    <3>1. \A x \in members[i] : isPatched'[Impl(i, x)] = isPatched[Impl(i, x)]
      BY <1>4, <2>2, <2>3
    <3>2. members'[i] = members[i] /\ group'[i] = group[i] /\ loop' = loop
      BY DEF client
    <3>3. \A d \in 1..Depth, x \in members[i] :
            Registered(d, Impl(i, x)) => Registered(d, Impl(i, x))'
      BY <1>4, <2>1, <2>3
    <3>. QED BY <1>1, <1>3, <2>1, <3>1, <3>2, <3>3, OthersStayTogether
  <2>4. CASE \E x \in members[i] : Impl(i, x) = m
    <3>1. PICK x \in members[i] : Impl(i, x) = m
      BY <2>4
    <3>2. PICK d \in 1..Depth : HeldIn(i, d) /\ Status(i, d)
      BY <1>1 DEF GroupInv
    <3>3. d = Depth
      <4>1. Registered(d, m)
        BY <1>7, <3>1, <3>2 DEF HeldIn, LiveOf, Registered
      <4>. QED BY <1>1, <1>2, <1>5, <1>7, <4>1, RegistryFacts DEF Registered
    <3>4. HeldIn(i, d)'
      <4>1. \A y \in LiveOf(i)' : y \in LiveOf(i) /\ y \in members[i] /\ Impl(i, y) # m
        BY <1>4, <2>2 DEF LiveOf, client
      <4>. QED BY <1>4, <2>1, <3>2, <4>1 DEF HeldIn, Registered
    <3>5. Status(i, d)'
      <4>1. group[i] # "held" \/ members[i] = FindImplementTargets(i)
        BY <3>2, AtRest
      <4>. QED BY <1>3, <2>1, <3>3, <4>1 DEF Status, Whole, client
    <3>6. d \in 1..Depth' /\ (group'[i] = "none" => members'[i] = {})
      BY <1>1, <2>1 DEF GroupInv, client
    <3>. QED BY <3>4, <3>5, <3>6 DEF GroupInv
  <2>. QED BY <2>3, <2>4
<1>. QED BY <1>6, <1>7

(* Mocks of functions and contexts.                                        *)
LEMMA LifecycleTogether ==
  ASSUME ClientRules, TogetherInv, ClientInv', Lifecycle
  PROVE  \A i \in Groups : GroupInv(i)'
<1>1. ClientInv /\ UNCHANGED client /\ (InTest => loop = NoLoop)
  BY DEF Lifecycle, Idle, TogetherInv
<1>2. loop = NoLoop
  BY <1>1 DEF ClientInv, LoopIsAllowed
<1>3. ASSUME NEW m \in FuncMockers, Build(m) \/ Patch(m) \/ UnPatch(m) \/ RePatch(m)
      PROVE  \A i \in Groups : GroupInv(i)'
  <2>1. /\ m \in Mockers /\ InTest /\ InTest'
        /\ \A j \in Groups : \A x \in FindImplementTargets(j) : Impl(j, x) # m
    BY <1>3, ImplFacts DEF Build, Patch, UnPatch, RePatch, InTest, FuncMockers
  <2>2. CASE Build(m) \/ Patch(m)
    <3>1. ~Remocks(m) /\ addToGlobal(m) /\ WriteBranch(m)
      BY <2>2 DEF Build, Patch, ObeysOnce, ClientRules, AllRules
    <3>2. \A n \in Mockers \ {m} : isPatched'[n] = isPatched[n]
      BY <1>1, <3>1 DEF WriteBranch, ClientInv, RegistryTypes
    <3>. QED BY <1>1, <1>2, <2>1, <3>1, <3>2, AddLeavesOthers, SinglesStayTogether
  <2>3. CASE UnPatch(m)
    <3>1. removeFromGlobal(m) /\ WriteBack(m) /\ Registered(Depth, m)
      BY <2>3 DEF UnPatch, ObeysOwn, ClientRules, AllRules, Registered, Current
    <3>2. \A n \in Mockers \ {m} : isPatched'[n] = isPatched[n]
      BY <1>1, <3>1 DEF WriteBack, ClientInv, RegistryTypes
    <3>. QED BY <1>1, <1>2, <2>1, <3>1, <3>2, RemoveLeavesOthers, SinglesStayTogether
  <2>4. CASE RePatch(m)
    <3>1. /\ gMocker' = [gMocker EXCEPT ![Depth] = [@ EXCEPT ![target[m]] = m]]
          /\ Current[target[m]] = m /\ UNCHANGED isPatched
      BY <2>4 DEF RePatch, ObeysOwn, ClientRules, AllRules
    <3>2. /\ gMocker \in Seq(Maps) /\ Depth = Len(gMocker) /\ Depth \in 1..Depth
          /\ \A n \in Mockers : target[n] \in Keys
      BY <1>1, ClientBasics DEF ClientInv
    <3>3. Depth' = Depth
      BY <3>1, <3>2 DEF Depth
    <3>4. \A d \in 1..Depth, l \in Keys : gMocker'[d][l] = gMocker[d][l]
      BY <3>1, <3>2 DEF Maps, Current
    <3>. QED BY <1>2, <1>1, <2>1, <3>1, <3>2, <3>3, <3>4, SinglesStayTogether
             DEF Registered
  <2>. QED BY <1>3, <2>2, <2>3, <2>4
<1>. QED BY <1>1, <1>2, <1>3, ContextsStayTogether, CleanupStaysTogether DEF Lifecycle

LEMMA VarsTogether ==
  ASSUME ClientRules, TogetherInv, NEW m \in Mockers,
         MockValue(m) \/ To(m) \/ PatchVar(m) \/ UnPatchVar(m)
  PROVE  \A i \in Groups : GroupInv(i)'
<1>1. ClientInv
  BY DEF TogetherInv
<1>2. /\ InTest /\ InTest' /\ loop = NoLoop /\ UNCHANGED client
      /\ \A j \in Groups : \A x \in FindImplementTargets(j) : Impl(j, x) # m
  BY <1>1, ImplFacts DEF MockValue, To, PatchVar, UnPatchVar, Idle, InTest,
                         ClientInv, Handles
<1>3. CASE MockValue(m)
  BY <1>2, <1>3, SinglesStayTogether DEF MockValue, Depth, Registered
<1>4. CASE To(m) \/ PatchVar(m)
  <2>1. /\ ~Remocks(m) /\ addToGlobal(m)
        /\ isPatched' = [isPatched EXCEPT ![m] = TRUE]
    BY <1>4 DEF To, PatchVar, SetVariable, ObeysOnce, ClientRules, AllRules
  <2>2. \A n \in Mockers \ {m} : isPatched'[n] = isPatched[n]
    BY <1>1, <2>1 DEF ClientInv, RegistryTypes
  <2>. QED BY <1>1, <1>2, <2>1, <2>2, AddLeavesOthers, SinglesStayTogether
<1>5. CASE UnPatchVar(m)
  <2>1. removeFromGlobal(m) /\ WriteBack(m) /\ Registered(Depth, m)
    BY <1>5 DEF UnPatchVar, ObeysOwn, ClientRules, AllRules, Registered, Current
  <2>2. \A n \in Mockers \ {m} : isPatched'[n] = isPatched[n]
    BY <1>1, <2>1 DEF WriteBack, ClientInv, RegistryTypes
  <2>. QED BY <1>1, <1>2, <2>1, <2>2, RemoveLeavesOthers, SinglesStayTogether
<1>. QED BY <1>3, <1>4, <1>5

(* A loop over a group begins.                                             *)
LEMMA StartsTogether ==
  ASSUME TogetherInv, NEW i \in Groups,
         BuildGroup(i) \/ PatchGroup(i) \/ UnPatchGroup(i)
  PROVE  \A j \in Groups : GroupInv(j)'
<1>. TAKE j \in Groups
<1>1. ClientInv /\ GroupInv(j)
  BY DEF TogetherInv
<1>2. /\ InTest /\ loop = NoLoop /\ loop'.group = i
      /\ UNCHANGED <<isPatched, gMocker, cleanup, members>>
      /\ group' = [group EXCEPT ![i] = "held"]
      /\ Depth' = Depth /\ Depth \in 1..Depth
  BY <1>1, ClientBasics DEF BuildGroup, PatchGroup, UnPatchGroup, StartGroup, vars,
         Idle, Depth, ClientInv, GroupHandles
<1>3. CASE j # i
  <2>1. group'[j] = group[j] /\ InTest' = InTest
    BY <1>1, <1>2, <1>3 DEF ClientInv, GroupHandles, InTest
  <2>. QED BY <1>1, <1>2, <1>3, <2>1, OthersStayTogether DEF Registered
<1>4. CASE j = i
  <2>1. LiveOf(i)' = LiveOf(i) /\ group'[i] = "held"
    BY <1>1, <1>2 DEF LiveOf, ClientInv, GroupHandles
  <2>2. ASSUME NEW d \in 1..Depth, HeldIn(i, d), Status(i, d)'
        PROVE  GroupInv(j)'
    BY <1>2, <1>4, <2>1, <2>2 DEF HeldIn, GroupInv
  <2>3. CASE BuildGroup(i)
    <3>1. /\ loop' = [what |-> "build", group |-> i, todo |-> FindImplementTargets(i)]
          /\ members[i] = {}
      BY <1>1, <1>4, <2>3 DEF BuildGroup, StartGroup, GroupInv
    <3>2. LiveOf(i) = {} /\ HeldIn(i, Depth)
      BY <3>1 DEF LiveOf, HeldIn
    <3>3. Status(i, Depth)'
      BY <1>2, <2>1, <3>1, <3>2 DEF Status, Building, Runs
    <3>. QED BY <1>2, <2>2, <3>2, <3>3
  <2>4. CASE PatchGroup(i) \/ UnPatchGroup(i)
    <3>1. PICK d \in 1..Depth : HeldIn(i, d) /\ Status(i, d)
      BY <1>1, <1>4 DEF GroupInv
    <3>2. group[i] = "held"
      BY <2>4 DEF PatchGroup, UnPatchGroup
    <3>3. members[i] = FindImplementTargets(i) /\ LiveOf(i) \in {{}, members[i]}
      BY <1>2, <3>1, <3>2, AtRest
    <3>4. CASE UnPatchGroup(i)
      <4>1. loop' = [what |-> "unpatch", group |-> i, todo |-> members[i]]
        BY <3>4 DEF UnPatchGroup, StartGroup
      <4>2. Releasing(i)'
        BY <1>2, <2>1, <4>1 DEF Releasing, Runs, LiveOf
      <4>3. Status(i, d)'
        BY <1>2, <3>3, <4>2 DEF Status, Whole
      <4>. QED BY <2>2, <3>1, <4>3
    <3>5. CASE PatchGroup(i)
      <4>1. loop' = [what |-> "patch", group |-> i, todo |-> members[i]]
        BY <3>5 DEF PatchGroup, StartGroup
      <4>2. CASE LiveOf(i) = {}
        <5>1. HeldIn(i, Depth)
          BY <4>2 DEF HeldIn
        <5>2. Patching(i)'
          BY <1>2, <2>1, <4>1, <4>2 DEF Patching, Runs
        <5>3. Status(i, Depth)'
          BY <1>2, <3>3, <5>2 DEF Status, Whole
        <5>. QED BY <1>2, <2>2, <5>1, <5>3
      <4>3. CASE LiveOf(i) = members[i]
        <5>1. Repeating(i)'
          BY <1>2, <2>1, <4>1, <4>3 DEF Repeating, Runs
        <5>2. Status(i, d)'
          BY <1>2, <3>3, <5>1 DEF Status, Whole
        <5>. QED BY <2>2, <3>1, <5>2
      <4>. QED BY <3>3, <4>2, <4>3
    <3>. QED BY <2>4, <3>4, <3>5
  <2>. QED BY <1>4, <2>3, <2>4
<1>. QED BY <1>3, <1>4

(* The other groups, while the loop over one goes on or ends.              *)
LEMMA RoundLeavesOthers ==
  ASSUME TogetherInv, NEW i \in Groups, NEW j \in Groups, j # i, InTest, InTest',
         loop # NoLoop, loop.group = i, loop' = NoLoop \/ loop'.group = i,
         members'[j] = members[j], group'[j] = group[j],
         NEW x \in FindImplementTargets(i), Depth' = Depth,
         \A n \in Mockers \ {Impl(i, x)} : isPatched'[n] = isPatched[n],
         \A d \in 1..Depth, n \in Mockers :
           n # Impl(i, x) /\ Registered(d, n) => Registered(d, n)'
  PROVE  GroupInv(j)'
<1>1. ClientInv /\ GroupInv(j)
  BY DEF TogetherInv
<1>2. \A y \in members[j] : Impl(j, y) \in Mockers \ {Impl(i, x)}
  BY <1>1, ImplFacts DEF ClientInv, GroupHandles
<1>. QED BY <1>1, <1>2, OthersStayTogether

LEMMA LoopEndsTogether ==
  ASSUME TogetherInv, BuildRefused \/ LoopEnds
  PROVE  \A j \in Groups : GroupInv(j)'
<1>. TAKE j \in Groups
<1>1. ClientInv /\ GroupInv(j)
  BY DEF TogetherInv
<1>2. /\ loop # NoLoop /\ loop' = NoLoop
      /\ UNCHANGED <<isPatched, gMocker, cleanup, members>>
  BY DEF BuildRefused, LoopEnds, GroupPanics, vars, InLoop, NoLoop
<1>3. PICK i \in Groups : InTest /\ \E S \in SUBSET FindImplementTargets(i) : AllowedLoop(i, S)
  BY <1>1, <1>2 DEF ClientInv, LoopIsAllowed
<1>4. InTest /\ loop.group = i /\ group[i] = "held"
  BY <1>3 DEF AllowedLoop
<1>5. InTest' = InTest /\ Depth' = Depth /\ Depth \in 1..Depth
  BY <1>1, <1>2, ClientBasics DEF InTest, Depth, ClientInv
<1>6. group' = [group EXCEPT ![i] = "lost"] \/ (LoopEnds /\ group' = group)
  BY <1>4 DEF BuildRefused, LoopEnds, GroupPanics
<1>7. CASE j # i
  <2>1. group'[j] = group[j]
    BY <1>1, <1>6, <1>7 DEF ClientInv, GroupHandles
  <2>. QED BY <1>1, <1>2, <1>4, <1>5, <1>7, <2>1, OthersStayTogether DEF Registered
<1>8. CASE j = i
  <2>1. PICK d \in 1..Depth : HeldIn(i, d) /\ Status(i, d)
    BY <1>1, <1>8 DEF GroupInv
  <2>2. LiveOf(i)' = LiveOf(i) /\ HeldIn(i, d)' /\ d \in 1..Depth'
    BY <1>2, <1>5, <2>1 DEF LiveOf, HeldIn
  <2>3. Status(i, d)'
    <3>1. CASE group' = [group EXCEPT ![i] = "lost"]
      BY <1>1, <3>1 DEF Status, ClientInv, GroupHandles
    <3>2. CASE LoopEnds /\ group' = group
      <4>1. loop.todo = {}
        BY <3>2 DEF LoopEnds
      <4>2. CASE Building(i)
        <5>1. FindImplementTargets(i) \ members[i] = {}
          BY <4>1, <4>2 DEF Building, Runs
        <5>2. members[i] = FindImplementTargets(i) /\ LiveOf(i) = members[i]
          BY <1>1, <4>2, <5>1 DEF Building, ClientInv, GroupHandles
        <5>. QED BY <1>2, <2>2, <5>2 DEF Status, Whole, Resting
      <4>3. ASSUME members[i] = FindImplementTargets(i), Whole(i, d)
            PROVE  Status(i, d)'
        <5>1. LiveOf(i) \subseteq members[i]
          BY DEF LiveOf
        <5>2. LiveOf(i) \in {{}, members[i]}
          <6>1. CASE Patching(i)
            BY <4>1, <5>1, <6>1 DEF Patching, Runs
          <6>2. CASE Releasing(i)
            BY <4>1, <6>2 DEF Releasing, Runs
          <6>. QED BY <1>2, <1>4, <4>3, <6>1, <6>2 DEF Whole, Resting, Repeating
        <5>. QED BY <1>2, <2>2, <4>3, <5>2 DEF Status, Whole, Resting
      <4>. QED BY <1>4, <2>1, <4>2, <4>3 DEF Status
    <3>. QED BY <1>6, <3>1, <3>2
  <2>4. group'[i] = "none" => members'[i] = {}
    BY <1>1, <1>2, <1>4, <1>6 DEF ClientInv, GroupHandles
  <2>. QED BY <1>8, <2>2, <2>3, <2>4 DEF GroupInv
<1>. QED BY <1>7, <1>8

LEMMA BuildsTogether ==
  ASSUME ClientRules, TogetherInv, BuildMember
  PROVE  \A j \in Groups : GroupInv(j)'
<1>. TAKE j \in Groups
<1>1. ClientInv
  BY DEF TogetherInv
<1>2. PICK i \in Groups :
        \E S \in SUBSET FindImplementTargets(i) : Round("build", i, S)
  BY <1>1, LoopRound DEF BuildMember
<1>3. PICK S \in SUBSET FindImplementTargets(i) : Round("build", i, S)
  BY <1>2
<1>. DEFINE x == First(S)
            m == Impl(i, x)
<1>4. /\ loop = [what |-> "build", group |-> i, todo |-> S] /\ InTest
      /\ x \in S /\ Member = m /\ m \in Mockers /\ group[i] = "held"
      /\ x \in FindImplementTargets(i)
      /\ \A y \in S : handle[Impl(i, y)] = "none" /\ ObeysOnce(Impl(i, y))
  BY <1>3 DEF Round
<1>5. ~Remocks(m)
  BY <1>4 DEF ObeysOnce, ClientRules, AllRules
<1>6. /\ WriteBranch(m) /\ addToGlobal(m) /\ UNCHANGED <<cleanup, group>>
      /\ GoesOn /\ members' = [members EXCEPT ![i] = @ \cup {x}]
  BY <1>4, <1>5 DEF BuildMember, IsBuilt
<1>7. loop' = [what |-> "build", group |-> i, todo |-> S \ {x}]
  BY <1>4, <1>6 DEF GoesOn
<1>. HIDE DEF m, x
<1>8. /\ Depth' = Depth /\ Registered(Depth, m)'
      /\ \A d \in 1..Depth, n \in Mockers : Registered(d, n) => Registered(d, n)'
  BY <1>1, <1>4, <1>5, <1>6, AddLeavesOthers
<1>9. \A n \in Mockers : isPatched'[n] = IF n = m THEN TRUE ELSE isPatched[n]
  BY <1>1, <1>4, <1>6 DEF WriteBranch, ClientInv, RegistryTypes
<1>10. InTest' /\ loop # NoLoop /\ loop.group = i /\ loop'.group = i
  BY <1>4, <1>6, <1>7 DEF InTest, NoLoop
<1>11. CASE j # i
  <2>1. members'[j] = members[j] /\ group'[j] = group[j]
    BY <1>1, <1>6, <1>11 DEF ClientInv, GroupHandles
  <2>2. \A n \in Mockers \ {Impl(i, x)} : isPatched'[n] = isPatched[n]
    BY <1>9 DEF m
  <2>. QED BY <1>4, <1>8, <1>10, <1>11, <2>1, <2>2, RoundLeavesOthers
<1>12. CASE j = i
  <2>1. PICK d \in 1..Depth : HeldIn(i, d) /\ Status(i, d)
    BY <1>12 DEF TogetherInv, GroupInv
  <2>2. Building(i) /\ d = Depth
    <3>1. members[i] # FindImplementTargets(i)
      BY <1>1, <1>4 DEF ClientInv, GroupHandles
    <3>. QED BY <1>4, <2>1, <3>1 DEF Status
  <2>3. /\ S = FindImplementTargets(i) \ members[i] /\ LiveOf(i) = members[i]
        /\ members'[i] = members[i] \cup {x}
        /\ \A y \in members'[i] : Impl(i, y) \in Mockers
    BY <1>1, <1>4, <1>6, <2>2, ImplFacts DEF Building, Runs, ClientInv, GroupHandles
  <2>4. LiveOf(i)' = members'[i]
    BY <1>9, <2>3 DEF LiveOf, m
  <2>5. HeldIn(i, d)'
    BY <1>8, <2>1, <2>2, <2>3, <2>4 DEF HeldIn, Registered, m
  <2>6. S \ {x} = FindImplementTargets(i) \ members'[i]
    BY <2>3
  <2>7. Status(i, d)'
    BY <1>7, <1>8, <2>2, <2>4, <2>6 DEF Status, Building, Runs
  <2>. QED BY <1>4, <1>6, <1>8, <1>12, <2>5, <2>7 DEF GroupInv
<1>. QED BY <1>11, <1>12

LEMMA PatchesTogether ==
  ASSUME ClientRules, TogetherInv, PatchMember
  PROVE  \A j \in Groups : GroupInv(j)'
<1>. TAKE j \in Groups
<1>1. ClientInv
  BY DEF TogetherInv
<1>2. PICK i \in Groups :
        \E S \in SUBSET FindImplementTargets(i) : Round("patch", i, S)
  BY <1>1, LoopRound DEF PatchMember
<1>3. PICK S \in SUBSET FindImplementTargets(i) : Round("patch", i, S)
  BY <1>2
<1>. DEFINE x == First(S)
            m == Impl(i, x)
<1>4. /\ loop = [what |-> "patch", group |-> i, todo |-> S] /\ InTest
      /\ x \in S /\ Member = m /\ m \in Mockers /\ group[i] = "held"
      /\ x \in FindImplementTargets(i) /\ S \subseteq members[i]
      /\ \A y \in S : isPatched[Impl(i, y)] \/ ObeysOnce(Impl(i, y))
  BY <1>3 DEF Round
<1>7. ~isPatched[m] => ~Remocks(m)
  BY <1>4 DEF ObeysOnce, ClientRules, AllRules
<1>5. /\ UNCHANGED <<cleanup, group, members>>
      /\ IF isPatched[m] THEN UNCHANGED <<isPatched, original, entry, gMocker>>
         ELSE WriteBranch(m) /\ addToGlobal(m)
      /\ GoesOn
  BY <1>4, <1>7 DEF PatchMember
<1>6. loop' = [what |-> "patch", group |-> i, todo |-> S \ {x}]
  BY <1>4, <1>5 DEF GoesOn
<1>. HIDE DEF m, x
<1>8. /\ Depth' = Depth /\ Depth \in 1..Depth
      /\ ~isPatched[m] => Registered(Depth, m)'
      /\ \A d \in 1..Depth, n \in Mockers : Registered(d, n) => Registered(d, n)'
  <2>1. CASE isPatched[m]
    BY <1>1, <1>5, <2>1, ClientBasics DEF Depth, Registered, ClientInv
  <2>2. CASE ~isPatched[m]
    BY <1>1, <1>4, <1>5, <1>7, <2>2, ClientBasics, AddLeavesOthers DEF ClientInv
  <2>. QED BY <2>1, <2>2
<1>9. \A n \in Mockers : isPatched'[n] = IF n = m THEN TRUE ELSE isPatched[n]
  BY <1>1, <1>4, <1>5 DEF WriteBranch, ClientInv, RegistryTypes
<1>10. InTest' /\ loop # NoLoop /\ loop.group = i /\ loop'.group = i
  BY <1>4, <1>5, <1>6 DEF InTest, NoLoop
<1>11. CASE j # i
  <2>1. members'[j] = members[j] /\ group'[j] = group[j]
    BY <1>5
  <2>2. \A n \in Mockers \ {Impl(i, x)} : isPatched'[n] = isPatched[n]
    BY <1>9 DEF m
  <2>. QED BY <1>4, <1>8, <1>10, <1>11, <2>1, <2>2, RoundLeavesOthers
<1>12. CASE j = i
  <2>1. PICK d \in 1..Depth : HeldIn(i, d) /\ Status(i, d)
    BY <1>12 DEF TogetherInv, GroupInv
  <2>2. /\ members[i] = FindImplementTargets(i)
        /\ Repeating(i) \/ (Patching(i) /\ d = Depth)
    BY <1>4, <1>10, <2>1 DEF Status, Whole, Building, Releasing, Resting, Runs
  <2>3. /\ \A y \in members[i] : Impl(i, y) \in Mockers
        /\ \A y \in members[i] : Impl(i, y) = m => y = x
    BY <1>4, <2>2, ImplFacts DEF m
  <2>4. LiveOf(i)' = LiveOf(i) \cup {x}
    <3>1. x \in members[i]
      BY <1>4
    <3>. QED BY <1>5, <1>9, <2>3, <3>1 DEF LiveOf, m
  <2>5. CASE Repeating(i)
    <3>1. LiveOf(i)' = members[i] /\ isPatched[m]
      BY <1>4, <2>4, <2>5 DEF Repeating, LiveOf, m
    <3>2. Repeating(i)'
      BY <1>4, <1>5, <1>6, <3>1 DEF Repeating, Runs
    <3>3. Status(i, d)'
      BY <1>5, <2>2, <3>2 DEF Status, Whole
    <3>4. HeldIn(i, d)'
      BY <1>5, <2>1, <2>5, <3>1 DEF HeldIn, Repeating
    <3>. QED BY <1>4, <1>5, <1>8, <1>12, <3>3, <3>4 DEF GroupInv
  <2>6. CASE Patching(i) /\ d = Depth
    <3>1. S = members[i] \ LiveOf(i)
      BY <1>4, <2>6 DEF Patching, Runs
    <3>2. ~isPatched[m]
      BY <1>4, <3>1 DEF LiveOf, m
    <3>3. Patching(i)'
      BY <1>5, <1>6, <2>4, <3>1 DEF Patching, Runs
    <3>4. Status(i, d)'
      BY <1>5, <1>8, <2>2, <2>6, <3>3 DEF Status, Whole
    <3>5. HeldIn(i, d)'
      <4>1. \A y \in LiveOf(i) \cup {x} : y \in members[i]
        BY <1>4 DEF LiveOf
      <4>. QED BY <1>8, <2>1, <2>3, <2>4, <2>6, <3>2, <4>1 DEF HeldIn, Registered, m
    <3>. QED BY <1>4, <1>5, <1>8, <1>12, <3>4, <3>5 DEF GroupInv
  <2>. QED BY <2>2, <2>5, <2>6
<1>. QED BY <1>11, <1>12

LEMMA ReleasesTogether ==
  ASSUME ClientRules, TogetherInv, UnPatchMember
  PROVE  \A j \in Groups : GroupInv(j)'
<1>. TAKE j \in Groups
<1>1. ClientInv
  BY DEF TogetherInv
<1>2. PICK i \in Groups :
        \E S \in SUBSET FindImplementTargets(i) : Round("unpatch", i, S)
  BY <1>1, LoopRound DEF UnPatchMember
<1>3. PICK S \in SUBSET FindImplementTargets(i) : Round("unpatch", i, S)
  BY <1>2
<1>. DEFINE x == First(S)
            m == Impl(i, x)
<1>4. /\ loop = [what |-> "unpatch", group |-> i, todo |-> S] /\ InTest
      /\ x \in S /\ Member = m /\ m \in Mockers /\ group[i] = "held"
      /\ x \in FindImplementTargets(i) /\ S \subseteq members[i]
      /\ isPatched[m] => ObeysOwn(m)
  BY <1>3 DEF Round
<1>5. /\ UNCHANGED <<cleanup, group, members>>
      /\ IF isPatched[m] THEN WriteBack(m) /\ removeFromGlobal(m)
         ELSE UNCHANGED <<isPatched, original, entry, gMocker>>
      /\ GoesOn
  BY <1>4 DEF UnPatchMember
<1>6. loop' = [what |-> "unpatch", group |-> i, todo |-> S \ {x}]
  BY <1>4, <1>5 DEF GoesOn
<1>7. isPatched[m] => Registered(Depth, m)
  BY <1>4 DEF ObeysOwn, Registered, Current, ClientRules, AllRules
<1>. HIDE DEF m, x
<1>8. /\ Depth' = Depth
      /\ \A d \in 1..Depth, n \in Mockers :
           n # m /\ Registered(d, n) => Registered(d, n)'
  <2>1. CASE isPatched[m]
    BY <1>1, <1>4, <1>5, <1>7, <2>1, RemoveLeavesOthers
  <2>2. CASE ~isPatched[m]
    BY <1>5, <2>2 DEF Depth, Registered
  <2>. QED BY <2>1, <2>2
<1>9. \A n \in Mockers : isPatched'[n] = IF n = m THEN FALSE ELSE isPatched[n]
  BY <1>1, <1>4, <1>5 DEF WriteBack, ClientInv, RegistryTypes
<1>10. InTest' /\ loop # NoLoop /\ loop.group = i /\ loop'.group = i
  BY <1>4, <1>5, <1>6 DEF InTest, NoLoop
<1>11. CASE j # i
  <2>1. members'[j] = members[j] /\ group'[j] = group[j]
    BY <1>5
  <2>2. \A n \in Mockers \ {Impl(i, x)} : isPatched'[n] = isPatched[n]
    BY <1>9 DEF m
  <2>3. \A d \in 1..Depth, n \in Mockers :
          n # Impl(i, x) /\ Registered(d, n) => Registered(d, n)'
    BY <1>8 DEF m
  <2>. QED BY <1>4, <1>8, <1>10, <1>11, <2>1, <2>2, <2>3, RoundLeavesOthers
<1>12. CASE j = i
  <2>1. PICK d \in 1..Depth : HeldIn(i, d) /\ Status(i, d)
    BY <1>12 DEF TogetherInv, GroupInv
  <2>2. members[i] = FindImplementTargets(i) /\ Releasing(i)
    BY <1>4, <1>10, <2>1
       DEF Status, Whole, Building, Patching, Repeating, Resting, Runs
  <2>3. LiveOf(i) \subseteq S
    BY <1>4, <2>2 DEF Releasing, Runs
  <2>4. /\ \A y \in members[i] : Impl(i, y) \in Mockers
        /\ \A y \in members[i] : Impl(i, y) = m => y = x
    BY <1>4, <2>2, ImplFacts DEF m
  <2>5. LiveOf(i)' = LiveOf(i) \ {x}
    BY <1>5, <1>9, <2>4 DEF LiveOf, m
  <2>6. Releasing(i)'
    BY <1>4, <1>5, <1>6, <2>3, <2>5 DEF Releasing, Runs
  <2>7. Status(i, d)'
    BY <1>5, <2>2, <2>6 DEF Status, Whole
  <2>8. HeldIn(i, d)'
    <3>1. \A y \in LiveOf(i) \ {x} : y \in members[i] /\ Impl(i, y) # m
      BY <2>4 DEF LiveOf
    <3>. QED BY <1>8, <2>1, <2>4, <2>5, <3>1 DEF HeldIn, Registered
  <2>. QED BY <1>4, <1>5, <1>8, <1>12, <2>7, <2>8 DEF GroupInv
<1>. QED BY <1>11, <1>12

LEMMA TogetherNext ==
  ASSUME ClientRules, TogetherInv, [CNext]_cvars
  PROVE  TogetherInv'
<1>1. ClientInv /\ LP!RegistryInv
  BY DEF TogetherInv
<1>2. ClientInv'
  BY <1>1, ClientNext
<1>3. LP!RegistryInv'
  BY <1>1, RegistryStays
<1>4. \A i \in Groups : GroupInv(i)'
  <2>1. CASE UNCHANGED cvars
    BY <2>1 DEF TogetherInv, cvars, vars, client, GroupInv, HeldIn, LiveOf, Status,
                Whole, Building, Patching, Releasing, Repeating, Resting, Runs,
                InTest, Depth
  <2>. QED BY <1>2, <2>1, LifecycleTogether, VarsTogether, StartsTogether,
              LoopEndsTogether, BuildsTogether, PatchesTogether, ReleasesTogether
           DEF CNext
<1>. QED BY <1>2, <1>3, <1>4 DEF TogetherInv

(* Between two operations an interface is mocked in all the functions that *)
(* were found for it or in none; when one was refused, one context is      *)
(* going to release the others.                                            *)
THEOREM GroupsAreTogether ==
  ASSUME ClientRules
  PROVE  CSpec => []GroupsStayTogether
<1>1. TogetherInv => GroupsStayTogether
  <2>. SUFFICES ASSUME TogetherInv, Idle, NEW i \in Groups
                PROVE  /\ group[i] = "held" => /\ LiveOf(i) \in {{}, members[i]}
                                               /\ members[i] = FindImplementTargets(i)
                       /\ group[i] = "lost" /\ LiveOf(i) # {} =>
                            \E d \in 1..Depth : HeldIn(i, d)
    BY DEF GroupsStayTogether, LiveOf, HeldIn
  <2>1. PICK d \in 1..Depth : HeldIn(i, d) /\ Status(i, d)
    BY DEF TogetherInv, GroupInv
  <2>. QED BY <2>1, AtRest DEF Idle
<1>2. TogetherInv /\ [CNext]_cvars => TogetherInv'
  BY TogetherNext
<1>. QED BY TogetherInit, <1>1, <1>2, PTL DEF CSpec
=============================================================================
