----------------------- MODULE MockLifecycle_proofs -----------------------
(***************************************************************************)
(* Proofs about MockLifecycle, for every set of mockers, every assignment  *)
(* of functions to addresses and every nesting depth.                      *)
(*                                                                         *)
(* 1. The registry: a test that mocks a function once per context and      *)
(*    releases a mocker where it is registered keeps registry and patches  *)
(*    in agreement, in whatever order it releases.                         *)
(* 2. The entries: last-in-first-out release as well makes the saved bytes *)
(*    of an address one chain, if one function only has that entry or      *)
(*    contexts leave no two mocks of one entry to their loops; such        *)
(*    functions get their own code back.                                   *)
(* 3. What a call reaches: the chain is ordered as the contexts are, so    *)
(*    that under all rules the lifecycle implements nested scopes.         *)
(***************************************************************************)
EXTENDS MockLifecycle, SequenceTheorems, FiniteSetTheorems,
        WellFoundedInduction, TLAPS

-----------------------------------------------------------------------------
(* Lemmas about the stack of maps.                                         *)

(* Writing one key of the last map changes that key of that map only.      *)
Put(s, k, v) == [s EXCEPT ![Len(s)] = [@ EXCEPT ![k] = v]]
LEMMA UpdateLast ==
  ASSUME NEW s \in Seq(Maps), Len(s) >= 1,
         NEW k \in Keys, NEW v \in Mockers \cup {NoMocker}
  PROVE  /\ Put(s, k, v) \in Seq(Maps)
         /\ Len(Put(s, k, v)) = Len(s)
         /\ \A i \in 1..Len(s), l \in Keys :
              Put(s, k, v)[i][l] = IF i = Len(s) /\ l = k THEN v ELSE s[i][l]
<1>. DEFINE t == Put(s, k, v)
<1>1. Len(s) \in 1..Len(s) /\ s[Len(s)] \in Maps
  BY ElementOfSeq, LenProperties
<1>2. [s[Len(s)] EXCEPT ![k] = v] \in Maps
  BY <1>1 DEF Maps
<1>3. /\ t \in Seq(Maps) /\ Len(t) = Len(s)
      /\ \A j \in 1..Len(s) :
           t[j] = IF j = Len(s) THEN [s[Len(s)] EXCEPT ![k] = v] ELSE s[j]
  BY <1>1, <1>2, ExceptSeq DEF Put
<1>4. ASSUME NEW i \in 1..Len(s), NEW l \in Keys
      PROVE  t[i][l] = IF i = Len(s) /\ l = k THEN v ELSE s[i][l]
  BY <1>1, <1>3 DEF Maps
<1>. QED BY <1>3, <1>4

(* A new context adds an empty map and leaves the others alone.            *)
LEMMA PushMap ==
  ASSUME NEW s \in Seq(Maps), NEW t, t = Append(s, EmptyMap)
  PROVE  /\ t \in Seq(Maps)
         /\ Len(t) = Len(s) + 1
         /\ \A i \in 1..Len(s) : t[i] = s[i]
         /\ \A l \in Keys : t[Len(s) + 1][l] = NoMocker
<1>1. EmptyMap \in Maps
  BY DEF EmptyMap, Maps
<1>. QED BY <1>1 DEF EmptyMap

(* The end of a context drops the last map and leaves the others alone.    *)
LEMMA PopMap ==
  ASSUME NEW s \in Seq(Maps), Len(s) > 1, NEW t, t = SubSeq(s, 1, Len(s) - 1)
  PROVE  /\ t \in Seq(Maps)
         /\ Len(t) = Len(s) - 1
         /\ \A i \in 1..(Len(s) - 1) : t[i] = s[i]
  OBVIOUS

(* The facts about types that the proofs use most.                         *)
LEMMA Basics ==
  ASSUME TypeOK
  PROVE  /\ gMocker \in Seq(Maps)
         /\ Depth = Len(gMocker) /\ Depth \in 1..MaxDepth
         /\ Depth \in Nat /\ Depth >= 1
         /\ \A m \in Mockers : target[m] \in Keys /\ At(m) \in Addrs
<1>1. gMocker \in Seq(Maps) /\ Depth \in 1..MaxDepth
  BY DEF TypeOK
<1>2. Depth \in Nat /\ Depth >= 1
  BY <1>1, DepthAssumption
<1>3. \A m \in Mockers : target[m] \in Keys /\ At(m) \in Addrs
  BY TargetAssumption, AddrAssumption DEF At
<1>. QED BY <1>1, <1>2, <1>3 DEF Depth

(* What addToGlobal does, cell by cell.                                     *)
LEMMA AddEffect ==
  ASSUME TypeOK, NEW m \in Mockers, ~Remocks(m), addToGlobal(m)
  PROVE  /\ gMocker' \in Seq(Maps) /\ Depth' = Depth
         /\ \A i \in 1..Depth, l \in Keys :
              gMocker'[i][l] = IF i = Depth /\ l = target[m] THEN m
                                                        ELSE gMocker[i][l]
<1>1. /\ gMocker \in Seq(Maps) /\ Depth = Len(gMocker) /\ Len(gMocker) >= 1
      /\ target[m] \in Keys
  BY Basics
<1>2. gMocker' = Put(gMocker, target[m], m)
  BY <1>1 DEF Put, addToGlobal
<1>3. m \in Mockers \cup {NoMocker}
  OBVIOUS
<1>. DEFINE t == Put(gMocker, target[m], m)
<1>4. /\ t \in Seq(Maps) /\ Len(t) = Len(gMocker)
      /\ \A i \in 1..Len(gMocker), l \in Keys :
           t[i][l] = IF i = Len(gMocker) /\ l = target[m] THEN m
                                                 ELSE gMocker[i][l]
  BY <1>1, <1>3, UpdateLast
<1>. HIDE DEF t
<1>5. gMocker' = t
  BY <1>2 DEF t
<1>. QED BY <1>1, <1>4, <1>5 DEF Depth

(* What removeFromGlobal does, cell by cell.                                *)
LEMMA RemoveEffect ==
  ASSUME TypeOK, NEW m \in Mockers, removeFromGlobal(m)
  PROVE  /\ gMocker' \in Seq(Maps) /\ Depth' = Depth
         /\ \A i \in 1..Depth, l \in Keys :
              gMocker'[i][l] = IF i = Depth /\ l = target[m] THEN NoMocker
                                                        ELSE gMocker[i][l]
<1>1. /\ gMocker \in Seq(Maps) /\ Depth = Len(gMocker) /\ Len(gMocker) >= 1
      /\ target[m] \in Keys
  BY Basics
<1>2. gMocker' = Put(gMocker, target[m], NoMocker)
  BY <1>1 DEF Put, removeFromGlobal
<1>3. NoMocker \in Mockers \cup {NoMocker}
  OBVIOUS
<1>. DEFINE t == Put(gMocker, target[m], NoMocker)
<1>4. /\ t \in Seq(Maps) /\ Len(t) = Len(gMocker)
      /\ \A i \in 1..Len(gMocker), l \in Keys :
           t[i][l] = IF i = Len(gMocker) /\ l = target[m] THEN NoMocker
                                                 ELSE gMocker[i][l]
  BY <1>1, <1>3, UpdateLast
<1>. HIDE DEF t
<1>5. gMocker' = t
  BY <1>2 DEF t
<1>. QED BY <1>1, <1>4, <1>5 DEF Depth

-----------------------------------------------------------------------------
(* 1. The registry.                                                        *)

(* What holds between any two steps: registry and patches agree, a mocker  *)
(* that is not built is not patched, and a loop over the last map still    *)
(* has before it exactly the keys of that map.                             *)
LoopFollowsMap ==
  \/ InTest
  \/ /\ cleanup.why \in {"leave", "all"}
     /\ cleanup.todo = {k \in Keys : Current[k] # NoMocker}
     /\ cleanup.why = "leave" => Depth > 1
RegistryInv ==
  /\ TypeOK
  /\ RegisteredExactlyWhilePatched
  /\ \A m \in Mockers : handle[m] = "none" => ~isPatched[m]
  /\ LoopFollowsMap

(* Registering an unpatched mocker under a free key, as it gets patched,   *)
(* keeps registry and patches in agreement.                                *)
LEMMA AddKeepsAgreement ==
  ASSUME TypeOK, RegisteredExactlyWhilePatched,
         NEW m \in Mockers, ~isPatched[m], ~Remocks(m), addToGlobal(m),
         isPatched' = [isPatched EXCEPT ![m] = TRUE]
  PROVE  RegisteredExactlyWhilePatched'
<1>1. /\ gMocker \in Seq(Maps) /\ Depth = Len(gMocker) /\ Depth \in Nat
      /\ Depth >= 1 /\ \A n \in Mockers : target[n] \in Keys
  BY Basics
<1>2. /\ Depth' = Depth
      /\ \A i \in 1..Depth, l \in Keys :
           gMocker'[i][l] = IF i = Depth /\ l = target[m] THEN m
                                                      ELSE gMocker[i][l]
  BY AddEffect
<1>3. gMocker[Depth][target[m]] = NoMocker
  BY DEF Remocks, Current
<1>4. ASSUME NEW i \in 1..Depth, NEW l \in Keys, gMocker'[i][l] # NoMocker
      PROVE  target[gMocker'[i][l]] = l /\ isPatched'[gMocker'[i][l]]
  BY <1>1, <1>2, <1>4 DEF RegisteredExactlyWhilePatched, TypeOK
<1>5. ASSUME NEW n \in Mockers, isPatched'[n]
      PROVE  \E i \in 1..Depth :
               \A j \in 1..Depth : gMocker'[j][target[n]] = n <=> j = i
  <2>1. CASE n = m
    <3>1. \A j \in 1..Depth : gMocker[j][target[m]] # m
      BY <1>1, ValueAssumption DEF RegisteredExactlyWhilePatched
    <3>2. Depth \in 1..Depth
      BY <1>1
    <3>3. \A j \in 1..Depth : gMocker'[j][target[n]] = n <=> j = Depth
      BY <1>1, <1>2, <2>1, <3>1
    <3>. QED BY <3>2, <3>3
  <2>2. CASE n # m
    <3>1. isPatched[n] /\ target[n] \in Keys
      BY <1>5, <2>2, TargetAssumption DEF TypeOK
    <3>2. PICK i \in 1..Depth : \A j \in 1..Depth : gMocker[j][target[n]] = n <=> j = i
      BY <3>1 DEF RegisteredExactlyWhilePatched
    <3>3. \A j \in 1..Depth : gMocker'[j][target[n]] = n <=> j = i
      BY <1>1, <1>2, <1>3, <2>2, <3>1, <3>2, ValueAssumption
    <3>. QED BY <3>3
  <2>. QED BY <2>1, <2>2
<1>. QED BY <1>2, <1>4, <1>5 DEF RegisteredExactlyWhilePatched

(* Releasing a mocker that is registered in the last map does too.         *)
LEMMA RemoveKeepsAgreement ==
  ASSUME TypeOK, RegisteredExactlyWhilePatched,
         NEW m \in Mockers, Current[target[m]] = m, removeFromGlobal(m),
         isPatched' = [isPatched EXCEPT ![m] = FALSE]
  PROVE  RegisteredExactlyWhilePatched'
<1>1. /\ gMocker \in Seq(Maps) /\ Depth = Len(gMocker) /\ Depth \in Nat
      /\ Depth >= 1 /\ \A n \in Mockers : target[n] \in Keys
  BY Basics
<1>2. /\ Depth' = Depth
      /\ \A i \in 1..Depth, l \in Keys :
           gMocker'[i][l] = IF i = Depth /\ l = target[m] THEN NoMocker
                                                      ELSE gMocker[i][l]
  BY RemoveEffect
<1>3. gMocker[Depth][target[m]] = m /\ isPatched[m]
  BY <1>1, ValueAssumption DEF Current, RegisteredExactlyWhilePatched
<1>4. \A j \in 1..Depth : gMocker[j][target[m]] = m => j = Depth
  BY <1>1, <1>3 DEF RegisteredExactlyWhilePatched
<1>5. ASSUME NEW i \in 1..Depth, NEW l \in Keys, gMocker'[i][l] # NoMocker
      PROVE  target[gMocker'[i][l]] = l /\ isPatched'[gMocker'[i][l]]
  <2>1. gMocker'[i][l] = gMocker[i][l]
    BY <1>2, <1>5
  <2>2. target[gMocker[i][l]] = l /\ isPatched[gMocker[i][l]]
    BY <1>5, <2>1 DEF RegisteredExactlyWhilePatched
  <2>3. gMocker[i][l] # m
    BY <1>2, <1>4, <1>5, <2>1, <2>2
  <2>. QED BY <2>1, <2>2, <2>3 DEF TypeOK
<1>6. ASSUME NEW n \in Mockers, isPatched'[n]
      PROVE  \E i \in 1..Depth :
               \A j \in 1..Depth : gMocker'[j][target[n]] = n <=> j = i
  <2>1. n # m /\ isPatched[n] /\ target[n] \in Keys
    BY <1>6, TargetAssumption DEF TypeOK
  <2>2. PICK i \in 1..Depth : \A j \in 1..Depth : gMocker[j][target[n]] = n <=> j = i
    BY <2>1 DEF RegisteredExactlyWhilePatched
  <2>3. \A j \in 1..Depth : gMocker'[j][target[n]] = n <=> j = i
    BY <1>1, <1>2, <1>3, <2>1, <2>2, ValueAssumption
  <2>. QED BY <2>3
<1>. QED BY <1>2, <1>5, <1>6 DEF RegisteredExactlyWhilePatched

(* The invariant holds at the start: no mocks, one empty map.              *)
LEMMA RegistryInit == Init => RegistryInv
<1>. SUFFICES ASSUME Init PROVE RegistryInv
  OBVIOUS
<1>1. EmptyMap \in Maps /\ \A k \in Keys : EmptyMap[k] = NoMocker
  BY DEF EmptyMap, Maps
<1>2. gMocker \in Seq(Maps) /\ Depth = 1 /\ gMocker[1] = EmptyMap
  BY <1>1 DEF Init, Depth
<1>3. TypeOK
  <2>1. cleanup \in [why : {"idle", "leave", "all"}, todo : SUBSET Keys]
    BY DEF Init, NoCleanup
  <2>2. Depth \in 1..MaxDepth
    BY <1>2, DepthAssumption
  <2>. QED BY <1>2, <2>1, <2>2 DEF Init, TypeOK
<1>4. RegisteredExactlyWhilePatched
  BY <1>1, <1>2 DEF Init, RegisteredExactlyWhilePatched
<1>. QED BY <1>3, <1>4 DEF Init, RegistryInv, LoopFollowsMap, InTest

(* Patching, by Build or by Patch.                                         *)
LEMMA PatchStep ==
  ASSUME RegistryInv, NEW m \in Mockers, InTest, ~isPatched[m], ~Remocks(m),
         WriteBranch(m), addToGlobal(m),
         handle' \in [Mockers -> {"none", "held", "lost"}],
         handle'[m] # "none", \A n \in Mockers : n # m => handle'[n] = handle[n],
         UNCHANGED cleanup
  PROVE  RegistryInv'
<1>1. /\ gMocker' \in Seq(Maps) /\ Depth' = Depth /\ Depth \in 1..MaxDepth
      /\ At(m) \in Addrs
  BY AddEffect, Basics DEF RegistryInv
<1>2. TypeOK'
  <2>1. /\ isPatched' \in [Mockers -> BOOLEAN]
        /\ original' \in [Mockers -> Mockers \cup {Orig}]
        /\ entry' \in [Addrs -> Mockers \cup {Orig}]
    BY <1>1 DEF RegistryInv, TypeOK, WriteBranch
  <2>. QED BY <1>1, <2>1 DEF RegistryInv, TypeOK
<1>3. RegisteredExactlyWhilePatched'
  BY AddKeepsAgreement DEF RegistryInv, WriteBranch
<1>4. \A n \in Mockers : handle'[n] = "none" => ~isPatched'[n]
  BY DEF RegistryInv, TypeOK, WriteBranch
<1>5. LoopFollowsMap'
  BY DEF LoopFollowsMap, InTest
<1>. QED BY <1>2, <1>3, <1>4, <1>5 DEF RegistryInv

(* Releasing, by UnPatch or by the loop over the last map.                 *)
LEMMA ReleaseStep ==
  ASSUME RegistryInv, NEW m \in Mockers, Current[target[m]] = m,
         WriteBack(m), removeFromGlobal(m), UNCHANGED handle,
         cleanup' \in [why : {"idle", "leave", "all"}, todo : SUBSET Keys],
         LoopFollowsMap'
  PROVE  RegistryInv'
<1>1. /\ gMocker' \in Seq(Maps) /\ Depth' = Depth /\ Depth \in 1..MaxDepth
      /\ At(m) \in Addrs
  BY RemoveEffect, Basics DEF RegistryInv
<1>2. TypeOK'
  <2>1. /\ isPatched' \in [Mockers -> BOOLEAN]
        /\ original' \in [Mockers -> Mockers \cup {Orig}]
        /\ entry' \in [Addrs -> Mockers \cup {Orig}]
    BY <1>1 DEF RegistryInv, TypeOK, WriteBack
  <2>. QED BY <1>1, <2>1 DEF RegistryInv, TypeOK
<1>3. RegisteredExactlyWhilePatched'
  BY RemoveKeepsAgreement DEF RegistryInv, WriteBack
<1>4. \A n \in Mockers : handle'[n] = "none" => ~isPatched'[n]
  BY DEF RegistryInv, TypeOK, WriteBack
<1>. QED BY <1>2, <1>3, <1>4 DEF RegistryInv

(* A mocker of the last map that a loop has before it.                     *)
LEMMA LoopMocker ==
  ASSUME RegistryInv, NEW k \in cleanup.todo
  PROVE  /\ ~InTest /\ k \in Keys
         /\ Current[k] \in Mockers /\ isPatched[Current[k]]
         /\ target[Current[k]] = k
<1>1. k \in Keys /\ ~InTest
  BY DEF RegistryInv, TypeOK, InTest, NoCleanup
<1>2. Current[k] # NoMocker
  BY <1>1 DEF RegistryInv, LoopFollowsMap
<1>3. Depth \in 1..Depth /\ Current \in Maps
  BY Basics, ElementOfSeq DEF RegistryInv, Current
<1>4. Current[k] \in Mockers
  BY <1>1, <1>2, <1>3 DEF Maps
<1>. QED BY <1>1, <1>2, <1>3, <1>4
         DEF RegistryInv, RegisteredExactlyWhilePatched, Current

(* One iteration of the loop is a release of a mocker of the last map.     *)
LEMMA LoopStep ==
  ASSUME RegistryInv, NEW k \in Keys, CleanupStep(k), NEW m, m = Current[k]
  PROVE  /\ m \in Mockers /\ isPatched[m] /\ target[m] = k
         /\ Current[target[m]] = m
         /\ WriteBack(m) /\ removeFromGlobal(m) /\ UNCHANGED handle
         /\ cleanup' \in [why : {"idle", "leave", "all"}, todo : SUBSET Keys]
         /\ LoopFollowsMap'
<1>1. k \in cleanup.todo
  BY DEF CleanupStep
<1>2. ~InTest /\ m \in Mockers /\ isPatched[m] /\ target[m] = k
  BY <1>1, LoopMocker
<1>3. /\ WriteBack(m) /\ removeFromGlobal(m) /\ UNCHANGED handle
      /\ cleanup' = [cleanup EXCEPT !.todo = @ \ {k}]
  BY <1>2 DEF CleanupStep
<1>4. /\ cleanup'.why = cleanup.why /\ cleanup'.todo = cleanup.todo \ {k}
      /\ cleanup' \in [why : {"idle", "leave", "all"}, todo : SUBSET Keys]
  BY <1>3 DEF RegistryInv, TypeOK
<1>5. \A l \in Keys : Current'[l] = IF l = k THEN NoMocker ELSE Current[l]
  BY <1>2, <1>3, RemoveEffect, Basics DEF RegistryInv, Current
<1>6. LoopFollowsMap'
  <2>1. cleanup'.todo = {l \in Keys : Current'[l] # NoMocker}
    BY <1>2, <1>4, <1>5 DEF RegistryInv, LoopFollowsMap
  <2>2. Depth' = Depth
    BY <1>2, <1>3, RemoveEffect DEF RegistryInv
  <2>. QED BY <1>2, <1>4, <2>1, <2>2 DEF RegistryInv, LoopFollowsMap
<1>. QED BY <1>2, <1>3, <1>4, <1>6

(* Rebuilding a mocker where it is registered leaves the registry alone.   *)
LEMMA RebuildStep ==
  ASSUME RegistryInv, NEW m \in Mockers, Current[target[m]] = m, RePatch(m)
  PROVE  RegistryInv'
<1>1. /\ gMocker \in Seq(Maps) /\ Depth = Len(gMocker) /\ Depth >= 1
      /\ target[m] \in Keys /\ At(m) \in Addrs
  BY Basics DEF RegistryInv
<1>2. gMocker' = Put(gMocker, target[m], m)
  BY <1>1 DEF RePatch, Put
<1>3. /\ gMocker' \in Seq(Maps) /\ Depth' = Depth
      /\ \A i \in 1..Depth, l \in Keys : gMocker'[i][l] = gMocker[i][l]
  BY <1>1, <1>2, UpdateLast DEF Depth, Current
<1>4. entry' \in [Addrs -> Mockers \cup {Orig}]
  BY <1>1 DEF RePatch, RegistryInv, TypeOK
<1>5. TypeOK'
  BY <1>3, <1>4 DEF RePatch, RegistryInv, TypeOK
<1>6. RegisteredExactlyWhilePatched'
  <2>1. isPatched' = isPatched /\ \A n \in Mockers : target[n] \in Keys
    BY Basics DEF RePatch, RegistryInv
  <2>2. \A i \in 1..Depth, l \in Keys :
          gMocker'[i][l] # NoMocker =>
            target[gMocker'[i][l]] = l /\ isPatched'[gMocker'[i][l]]
    BY <1>3, <2>1 DEF RegistryInv, RegisteredExactlyWhilePatched
  <2>3. \A n \in Mockers : isPatched'[n] =>
          \E i \in 1..Depth :
            \A j \in 1..Depth : gMocker'[j][target[n]] = n <=> j = i
    BY <1>3, <2>1 DEF RegistryInv, RegisteredExactlyWhilePatched
  <2>. QED BY <1>3, <2>2, <2>3 DEF RegisteredExactlyWhilePatched
<1>7. LoopFollowsMap'
  BY DEF RePatch, LoopFollowsMap, InTest
<1>. QED BY <1>5, <1>6, <1>7 DEF RePatch, RegistryInv

(* Opening a context.                                                      *)
LEMMA EnterStep ==
  ASSUME RegistryInv, EnterContext
  PROVE  RegistryInv'
<1>1. /\ gMocker \in Seq(Maps) /\ Depth = Len(gMocker) /\ Depth \in Nat
      /\ Depth >= 1 /\ \A m \in Mockers : target[m] \in Keys
  BY Basics DEF RegistryInv
<1>2. /\ gMocker' \in Seq(Maps) /\ Depth' = Depth + 1
      /\ \A i \in 1..Depth : gMocker'[i] = gMocker[i]
      /\ \A l \in Keys : gMocker'[Depth + 1][l] = NoMocker
  BY <1>1, PushMap DEF EnterContext, Depth
<1>3. TypeOK'
  <2>1. Depth' \in 1..MaxDepth
    BY <1>1, <1>2, DepthAssumption DEF EnterContext
  <2>. QED BY <1>2, <2>1 DEF EnterContext, RegistryInv, TypeOK
<1>4. RegisteredExactlyWhilePatched'
  <2>1. ASSUME NEW i \in 1..(Depth + 1), NEW l \in Keys,
               gMocker'[i][l] # NoMocker
        PROVE  target[gMocker'[i][l]] = l /\ isPatched'[gMocker'[i][l]]
    <3>1. i \in 1..Depth
      BY <1>1, <1>2, <2>1
    <3>2. gMocker'[i] = gMocker[i] /\ isPatched' = isPatched
      BY <1>2, <3>1 DEF EnterContext
    <3>. QED BY <2>1, <3>1, <3>2
             DEF RegistryInv, RegisteredExactlyWhilePatched
  <2>2. ASSUME NEW m \in Mockers, isPatched'[m]
        PROVE  \E i \in 1..(Depth + 1) :
                 \A j \in 1..(Depth + 1) : gMocker'[j][target[m]] = m <=> j = i
    <3>1. PICK i \in 1..Depth :
            \A j \in 1..Depth : gMocker[j][target[m]] = m <=> j = i
      BY <2>2 DEF EnterContext, RegistryInv, RegisteredExactlyWhilePatched
    <3>2. i \in 1..(Depth + 1)
      BY <1>1
    <3>3. \A j \in 1..(Depth + 1) : gMocker'[j][target[m]] = m <=> j = i
      <4>. TAKE j \in 1..(Depth + 1)
      <4>1. CASE j \in 1..Depth
        BY <1>2, <3>1, <4>1
      <4>2. CASE j = Depth + 1
        BY <1>1, <1>2, <4>2, ValueAssumption
      <4>. QED BY <1>1, <4>1, <4>2
    <3>. QED BY <3>2, <3>3
  <2>. QED BY <1>2, <2>1, <2>2 DEF RegisteredExactlyWhilePatched
<1>5. LoopFollowsMap'
  BY DEF EnterContext, LoopFollowsMap, InTest
<1>. QED BY <1>3, <1>4, <1>5 DEF EnterContext, RegistryInv

(* The end of the loop, with which a context ends too.  Its map is empty,  *)
(* so that nothing registered is dropped.                                  *)
LEMMA EndStep ==
  ASSUME RegistryInv, CleanupEnd
  PROVE  RegistryInv'
<1>1. /\ gMocker \in Seq(Maps) /\ Depth = Len(gMocker) /\ Depth \in Nat
      /\ Depth >= 1 /\ Depth \in 1..MaxDepth
      /\ \A m \in Mockers : target[m] \in Keys
  BY Basics DEF RegistryInv
<1>2. /\ ~InTest /\ cleanup.todo = {} /\ cleanup' = NoCleanup
      /\ UNCHANGED <<handle, isPatched, original, entry>>
  BY DEF CleanupEnd
<1>3. \A k \in Keys : gMocker[Depth][k] = NoMocker
  BY <1>2 DEF RegistryInv, LoopFollowsMap, Current
<1>4. cleanup' \in [why : {"idle", "leave", "all"}, todo : SUBSET Keys]
      /\ InTest'
  BY <1>2 DEF NoCleanup, InTest
<1>5. CASE cleanup.why # "leave"
  <2>1. gMocker' = gMocker
    BY <1>5 DEF CleanupEnd
  <2>2. TypeOK'
    BY <1>2, <1>4, <2>1 DEF RegistryInv, TypeOK, Depth
  <2>3. RegisteredExactlyWhilePatched'
    BY <1>2, <2>1 DEF RegistryInv, RegisteredExactlyWhilePatched, Depth
  <2>. QED BY <1>2, <1>4, <2>2, <2>3 DEF RegistryInv, LoopFollowsMap
<1>6. CASE cleanup.why = "leave"
  <2>1. Depth > 1
    BY <1>2, <1>6 DEF RegistryInv, LoopFollowsMap
  <2>2. gMocker' = SubSeq(gMocker, 1, Len(gMocker) - 1)
    BY <1>6 DEF CleanupEnd, Depth
  <2>3. /\ gMocker' \in Seq(Maps) /\ Depth' = Depth - 1
        /\ \A i \in 1..(Depth - 1) : gMocker'[i] = gMocker[i]
    BY <1>1, <2>1, <2>2, PopMap DEF Depth
  <2>4. TypeOK'
    <3>1. Depth' \in 1..MaxDepth
      BY <1>1, <2>1, <2>3, DepthAssumption
    <3>. QED BY <1>2, <1>4, <2>3, <3>1 DEF RegistryInv, TypeOK
  <2>5. RegisteredExactlyWhilePatched'
    <3>1. ASSUME NEW i \in 1..(Depth - 1), NEW l \in Keys,
                 gMocker'[i][l] # NoMocker
          PROVE  target[gMocker'[i][l]] = l /\ isPatched'[gMocker'[i][l]]
      <4>1. i \in 1..Depth
        BY <1>1
      <4>. QED BY <1>2, <2>3, <3>1, <4>1
               DEF RegistryInv, RegisteredExactlyWhilePatched
    <3>2. ASSUME NEW m \in Mockers, isPatched'[m]
          PROVE  \E i \in 1..(Depth - 1) :
                   \A j \in 1..(Depth - 1) :
                     gMocker'[j][target[m]] = m <=> j = i
      <4>1. PICK i \in 1..Depth :
              \A j \in 1..Depth : gMocker[j][target[m]] = m <=> j = i
        BY <1>2, <3>2 DEF RegistryInv, RegisteredExactlyWhilePatched
      <4>2. i # Depth
        BY <1>1, <1>3, <4>1, ValueAssumption
      <4>3. i \in 1..(Depth - 1)
        BY <1>1, <4>2
      <4>4. \A j \in 1..(Depth - 1) : gMocker'[j][target[m]] = m <=> j = i
        BY <1>1, <2>3, <4>1
      <4>. QED BY <4>3, <4>4
    <3>. QED BY <2>3, <3>1, <3>2 DEF RegisteredExactlyWhilePatched
  <2>. QED BY <1>2, <1>4, <2>4, <2>5 DEF RegistryInv, LoopFollowsMap
<1>. QED BY <1>5, <1>6

(* The rules that the registry depends on.                                 *)
OncePerContext == {"once", "own"} \subseteq Rules

LEMMA RegistryNext ==
  ASSUME OncePerContext, RegistryInv, [Next]_vars
  PROVE  RegistryInv'
<1>1. ASSUME NEW m \in Mockers, Build(m)
      PROVE  RegistryInv'
  <2>1. ~isPatched[m] /\ ~Remocks(m) /\ InTest
    BY <1>1 DEF Build, RegistryInv, ObeysOnce, OncePerContext
  <2>2. handle' = [handle EXCEPT ![m] = "held"]
    BY <1>1, <2>1 DEF Build
  <2>3. /\ handle' \in [Mockers -> {"none", "held", "lost"}]
        /\ handle'[m] # "none"
        /\ \A n \in Mockers : n # m => handle'[n] = handle[n]
    BY <2>2 DEF RegistryInv, TypeOK
  <2>4. WriteBranch(m) /\ addToGlobal(m) /\ UNCHANGED cleanup
    BY <1>1 DEF Build
  <2>. QED BY <2>1, <2>3, <2>4, PatchStep
<1>2. ASSUME NEW m \in Mockers, Patch(m)
      PROVE  RegistryInv'
  <2>1. ~isPatched[m] /\ ~Remocks(m) /\ InTest
    BY <1>2 DEF Patch, ObeysOnce, OncePerContext
  <2>2. /\ handle' \in [Mockers -> {"none", "held", "lost"}]
        /\ handle'[m] # "none"
        /\ \A n \in Mockers : n # m => handle'[n] = handle[n]
    BY <1>2 DEF Patch, RegistryInv, TypeOK
  <2>3. WriteBranch(m) /\ addToGlobal(m) /\ UNCHANGED cleanup
    BY <1>2 DEF Patch
  <2>. QED BY <2>1, <2>2, <2>3, PatchStep
<1>3. ASSUME NEW m \in Mockers, UnPatch(m)
      PROVE  RegistryInv'
  <2>1. Current[target[m]] = m /\ InTest /\ UNCHANGED <<handle, cleanup>>
    BY <1>3 DEF UnPatch, ObeysOwn, OncePerContext
  <2>2. WriteBack(m) /\ removeFromGlobal(m)
    BY <1>3 DEF UnPatch
  <2>3. LoopFollowsMap'
    BY <2>1 DEF LoopFollowsMap, InTest
  <2>4. cleanup' \in [why : {"idle", "leave", "all"}, todo : SUBSET Keys]
    BY <2>1 DEF RegistryInv, TypeOK
  <2>. QED BY <2>1, <2>2, <2>3, <2>4, ReleaseStep
<1>4. ASSUME NEW m \in Mockers, RePatch(m)
      PROVE  RegistryInv'
  <2>1. Current[target[m]] = m
    BY <1>4 DEF RePatch, ObeysOwn, OncePerContext
  <2>. QED BY <1>4, <2>1, RebuildStep
<1>5. CASE EnterContext
  BY <1>5, EnterStep
<1>6. ASSUME NEW why \in {"leave", "all"}, StartLoop(why),
             why = "leave" => Depth > 1
      PROVE  RegistryInv'
  <2>1. /\ UNCHANGED <<handle, isPatched, original, entry, gMocker>>
        /\ cleanup' = [why |-> why,
                       todo |-> {k \in Keys : Current[k] # NoMocker}]
    BY <1>6 DEF StartLoop
  <2>2. cleanup' \in [why : {"idle", "leave", "all"}, todo : SUBSET Keys]
    BY <2>1
  <2>3. TypeOK' /\ RegisteredExactlyWhilePatched'
    <3>1. TypeOK'
      BY <2>1, <2>2 DEF RegistryInv, TypeOK, Depth
    <3>2. RegisteredExactlyWhilePatched'
      BY <2>1 DEF RegistryInv, RegisteredExactlyWhilePatched, Depth
    <3>. QED BY <3>1, <3>2
  <2>4. LoopFollowsMap'
    BY <1>6, <2>1 DEF LoopFollowsMap, Current, Depth
  <2>. QED BY <2>1, <2>3, <2>4 DEF RegistryInv
<1>7. CASE LeaveContext
  BY <1>6, <1>7 DEF LeaveContext
<1>8. CASE UnPatchAll
  BY <1>6, <1>8 DEF UnPatchAll
<1>9. CASE CleanupEnd
  BY <1>9, EndStep
<1>10. ASSUME NEW k \in Keys, CleanupStep(k)
       PROVE  RegistryInv'
  <2>. DEFINE m == Current[k]
  <2>1. /\ m \in Mockers /\ Current[target[m]] = m
        /\ WriteBack(m) /\ removeFromGlobal(m) /\ UNCHANGED handle
        /\ cleanup' \in [why : {"idle", "leave", "all"}, todo : SUBSET Keys]
        /\ LoopFollowsMap'
    BY <1>10, LoopStep
  <2>. HIDE DEF m
  <2>. QED BY <2>1, ReleaseStep
<1>11. CASE UNCHANGED vars
  <2>1. TypeOK'
    BY <1>11 DEF vars, RegistryInv, TypeOK, Depth
  <2>2. RegisteredExactlyWhilePatched'
    BY <1>11 DEF vars, RegistryInv, RegisteredExactlyWhilePatched, Depth
  <2>3. LoopFollowsMap'
    BY <1>11 DEF vars, RegistryInv, LoopFollowsMap, InTest, Current, Depth
  <2>. QED BY <1>11, <2>1, <2>2, <2>3 DEF vars, RegistryInv
<1>. QED BY <1>1, <1>2, <1>3, <1>4, <1>5, <1>7, <1>8, <1>9, <1>10, <1>11
         DEF Next

(* A test that mocks a function once per context, and that releases and    *)
(* rebuilds a mocker where it is registered, keeps the registry and the    *)
(* patches in agreement, whatever order it releases in: every patched      *)
(* mocker is going to be released by exactly one context.                  *)
THEOREM RegistryAgrees ==
  ASSUME OncePerContext
  PROVE  Spec => []RegisteredExactlyWhilePatched
<1>1. Init => RegistryInv
  BY RegistryInit
<1>2. RegistryInv /\ [Next]_vars => RegistryInv'
  BY RegistryNext
<1>3. RegistryInv => RegisteredExactlyWhilePatched
  BY DEF RegistryInv
<1>. QED BY <1>1, <1>2, <1>3, PTL DEF Spec

(* Types hold under the same rules.                                        *)
THEOREM TypesHold ==
  ASSUME OncePerContext
  PROVE  Spec => []TypeOK
<1>1. RegistryInv /\ [Next]_vars => RegistryInv'
  BY RegistryNext
<1>2. RegistryInv => TypeOK
  BY DEF RegistryInv
<1>. QED BY RegistryInit, <1>1, <1>2, PTL DEF Spec

-----------------------------------------------------------------------------
(* 2. The entries.                                                         *)

(* Every set of natural numbers has a least element, and so induction over *)
(* them holds for sets.                                                    *)
LEMMA LeastNumber ==
  ASSUME NEW T, T \subseteq Nat, T # {}
  PROVE  \E x \in T : \A y \in T : x <= y
<1>1. PICK x \in T : \A y \in T : ~(<<y, x>> \in OpToRel(<, Nat))
  <2>. HIDE DEF OpToRel
  <2>. QED BY NatLessThanWellFounded, WFMin, Zenon
<1>2. \A y \in T : ~(y < x)
  BY <1>1, T \subseteq Nat DEF OpToRel
<1>. QED BY <1>2

LEMMA InductionOverNat ==
  ASSUME NEW S, 0 \in S, \A n \in Nat : n \in S => n + 1 \in S
  PROVE  Nat \subseteq S
<1>. DEFINE T == {n \in Nat : n \notin S}
<1>. SUFFICES ASSUME T # {} PROVE FALSE
  OBVIOUS
<1>1. PICK x \in T : \A y \in T : x <= y
  BY LeastNumber
<1>2. x # 0 /\ x - 1 \in Nat /\ x - 1 \notin T
  BY <1>1
<1>. QED BY <1>2

(* c lists the live mockers of an address in the order that a call comes   *)
(* to them: the entry holds the first, each holds the next.                *)
ChainOf(a, c) ==
  /\ c \in Seq(Mockers)
  /\ \A i, j \in 1..Len(c) : c[i] = c[j] => i = j
  /\ Live(a) = {c[i] : i \in 1..Len(c)}
  /\ entry[a] = IF Len(c) = 0 THEN Orig ELSE c[1]
  /\ \A i \in 1..Len(c) : original[c[i]] = IF i < Len(c) THEN c[i + 1] ELSE Orig

(* The addresses that no loop releases in the wrong order.                 *)
Apart(a) ==
  \/ "manual" \in Rules
  \/ \A k, l \in Keys : addr[k] = a /\ addr[l] = a => k = l
Chains == \A a \in Addrs : Apart(a) => \E c \in Seq(Mockers) : ChainOf(a, c)
ChainsAreNested ==
  \A i, j \in 1..Depth, m, n \in Mockers :
    /\ Apart(At(n)) /\ isPatched[m] /\ isPatched[n]
    /\ gMocker[i][target[m]] = m /\ gMocker[j][target[n]] = n
    /\ original[n] = m
    => i <= j

(* A loop over the last map never runs on two mockers of one entry.        *)
LoopApart == InTest \/ "manual" \notin Rules \/ ~SharesEntry(Current)
EntryInv ==
  /\ RegistryInv
  /\ Chains
  /\ ChainsAreNested
  /\ LoopApart

InOrder == {"lifo", "once", "own"} \subseteq Rules
EveryRule == AllRules \subseteq Rules

(* What a chain says of a mocker and those next to it.                     *)
LEMMA ChainLinks ==
  ASSUME Chains, NEW a \in Addrs, Apart(a)
  PROVE  /\ entry[a] \in Live(a) \cup {Orig}
         /\ \A m \in Live(a) : /\ original[m] \in Live(a) \cup {Orig}
                               /\ original[m] # m
         /\ \A m \in Live(a) : entry[a] = m \/ \E n \in Live(a) : original[n] = m
         /\ Live(a) = {} => entry[a] = Orig
<1>1. PICK c \in Seq(Mockers) : ChainOf(a, c)
  BY DEF Chains
<1>2. /\ Len(c) \in Nat /\ \A i \in 1..Len(c) : c[i] \in Mockers
      /\ Live(a) = {c[i] : i \in 1..Len(c)}
      /\ \A i \in 1..Len(c) : original[c[i]] = IF i < Len(c) THEN c[i + 1] ELSE Orig
  BY <1>1 DEF ChainOf
<1>3. entry[a] \in Live(a) \cup {Orig}
  BY <1>1, <1>2 DEF ChainOf
<1>4. ASSUME NEW m \in Live(a)
      PROVE  /\ original[m] \in Live(a) \cup {Orig} /\ original[m] # m
             /\ entry[a] = m \/ \E n \in Live(a) : original[n] = m
  <2>1. PICK i \in 1..Len(c) : c[i] = m
    BY <1>2, <1>4
  <2>2. original[m] \in Live(a) \cup {Orig}
    BY <1>2, <2>1
  <2>3. original[m] # m
    BY <1>1, <1>2, <2>1, ValueAssumption DEF ChainOf
  <2>4. CASE i = 1
    BY <1>1, <1>2, <2>1, <2>2, <2>3, <2>4 DEF ChainOf
  <2>5. CASE i # 1
    <3>1. i - 1 \in 1..Len(c) /\ i - 1 < Len(c)
      BY <1>2, <2>5
    <3>2. original[c[i - 1]] = m /\ c[i - 1] \in Live(a)
      BY <1>2, <2>1, <3>1
    <3>. QED BY <2>2, <2>3, <3>2
  <2>. QED BY <2>4, <2>5
<1>5. Live(a) = {} => entry[a] = Orig
  BY <1>3
<1>. QED BY <1>3, <1>4, <1>5

LEMMA ChainsStay ==
  ASSUME Chains, UNCHANGED <<isPatched, original>>,
         \A a \in Addrs : Apart(a) => entry'[a] = entry[a]
  PROVE  Chains'
<1>. SUFFICES ASSUME NEW a \in Addrs, Apart(a)
              PROVE  \E c \in Seq(Mockers) : ChainOf(a, c)'
  BY DEF Chains, Apart
<1>1. PICK c \in Seq(Mockers) : ChainOf(a, c)
  BY DEF Chains
<1>2. Live(a)' = Live(a)
  BY DEF Live
<1>3. ChainOf(a, c)'
  BY <1>1, <1>2 DEF ChainOf
<1>. QED BY <1>3

(* A branch written on top of a chain makes it one longer.                 *)
LEMMA PushOnChain ==
  ASSUME TypeOK, Chains, NEW m \in Mockers, ~isPatched[m], WriteBranch(m)
  PROVE  Chains'
<1>1. At(m) \in Addrs /\ m # Orig
  BY Basics, ValueAssumption
<1>2. /\ isPatched' = [isPatched EXCEPT ![m] = TRUE]
      /\ original'[m] = entry[At(m)] /\ entry'[At(m)] = m
      /\ \A n \in Mockers : n # m => original'[n] = original[n]
      /\ \A a \in Addrs : a # At(m) => entry'[a] = entry[a]
  BY <1>1 DEF TypeOK, WriteBranch
<1>3. \A a \in Addrs : Live(a)' = IF a = At(m) THEN Live(a) \cup {m} ELSE Live(a)
  BY <1>2 DEF TypeOK, Live, At
<1>4. m \notin Live(At(m)) /\ \A a \in Addrs : a # At(m) => m \notin Live(a)
  BY DEF Live
<1>5. SUFFICES ASSUME NEW a \in Addrs, Apart(a)
               PROVE  \E c \in Seq(Mockers) : ChainOf(a, c)'
  BY DEF Chains, Apart
<1>6. PICK c \in Seq(Mockers) : ChainOf(a, c)
  BY <1>5 DEF Chains
<1>7. /\ Len(c) \in Nat /\ \A i \in 1..Len(c) : c[i] \in Mockers /\ c[i] # m
      /\ Live(a) = {c[i] : i \in 1..Len(c)}
  BY <1>4, <1>6 DEF ChainOf
<1>8. CASE a # At(m)
  <2>1. ChainOf(a, c)'
    BY <1>2, <1>3, <1>6, <1>7, <1>8 DEF ChainOf
  <2>. QED BY <2>1
<1>9. CASE a = At(m)
  <2>. DEFINE d == <<m>> \o c
  <2>1. /\ d \in Seq(Mockers) /\ Len(d) = Len(c) + 1 /\ d[1] = m
        /\ \A i \in 1..Len(c) : d[i + 1] = c[i]
    BY <1>6
  <2>2. \A i \in 1..(Len(c) + 1) : i = 1 \/ (i - 1 \in 1..Len(c) /\ d[i] = c[i - 1])
    <3>. SUFFICES ASSUME NEW i \in 1..(Len(c) + 1), i # 1
                  PROVE  i - 1 \in 1..Len(c) /\ d[i] = c[i - 1]
      OBVIOUS
    <3>1. i - 1 \in 1..Len(c) /\ (i - 1) + 1 = i
      BY <1>7
    <3>. HIDE DEF d
    <3>. QED BY <2>1, <3>1
  <2>. HIDE DEF d
  <2>3. \A i, j \in 1..Len(d) : d[i] = d[j] => i = j
    <3>. SUFFICES ASSUME NEW i \in 1..Len(d), NEW j \in 1..Len(d), d[i] = d[j]
                  PROVE  i = j
      OBVIOUS
    <3>1. \A l \in 1..Len(d) : l # 1 => d[l] # d[1]
      <4>. SUFFICES ASSUME NEW l \in 1..Len(d), l # 1 PROVE d[l] # m
        BY <2>1
      <4>1. l - 1 \in 1..Len(c) /\ d[l] = c[l - 1]
        BY <2>1, <2>2
      <4>. QED BY <1>7, <4>1
    <3>2. CASE i # 1 /\ j # 1
      <4>1. /\ i - 1 \in 1..Len(c) /\ j - 1 \in 1..Len(c)
            /\ c[i - 1] = c[j - 1]
        BY <2>1, <2>2, <3>2
      <4>2. i - 1 = j - 1
        BY <1>6, <4>1 DEF ChainOf
      <4>. QED BY <4>2
    <3>. QED BY <3>1, <3>2
  <2>4. Live(a)' = {d[i] : i \in 1..Len(d)}
    <3>1. Live(a)' = Live(a) \cup {m}
      BY <1>3, <1>9
    <3>2. ASSUME NEW n \in Live(a)
          PROVE  n \in {d[i] : i \in 1..Len(d)}
      <4>1. PICK i \in 1..Len(c) : n = c[i]
        BY <1>7, <3>2
      <4>2. i + 1 \in 1..Len(d) /\ d[i + 1] = n
        BY <1>7, <2>1, <4>1
      <4>. QED BY <4>2
    <3>3. 1 \in 1..Len(d) /\ d[1] = m
      BY <1>7, <2>1
    <3>4. \A i \in 1..Len(d) : d[i] \in Live(a) \cup {m}
      BY <1>7, <2>1, <2>2
    <3>. QED BY <3>1, <3>2, <3>3, <3>4
  <2>5. entry'[a] = IF Len(d) = 0 THEN Orig ELSE d[1]
    BY <1>2, <1>7, <1>9, <2>1
  <2>6. ASSUME NEW i \in 1..Len(d)
        PROVE  original'[d[i]] = IF i < Len(d) THEN d[i + 1] ELSE Orig
    <3>1. CASE i = 1
      <4>1. original'[d[i]] = entry[a]
        BY <1>2, <1>9, <2>1, <3>1
      <4>2. entry[a] = IF Len(c) = 0 THEN Orig ELSE c[1]
        BY <1>6 DEF ChainOf
      <4>. QED BY <1>7, <2>1, <3>1, <4>1, <4>2
    <3>2. CASE i # 1
      <4>1. i - 1 \in 1..Len(c) /\ d[i] = c[i - 1]
        BY <2>1, <2>2, <3>2
      <4>2. original'[d[i]] = original[c[i - 1]]
        BY <1>2, <1>7, <4>1
      <4>3. original[c[i - 1]] = IF i - 1 < Len(c) THEN c[(i - 1) + 1] ELSE Orig
        BY <1>6, <4>1 DEF ChainOf
      <4>4. i - 1 < Len(c) => i \in 1..Len(c) /\ d[i + 1] = c[i] /\ (i - 1) + 1 = i
        BY <1>7, <2>1, <4>1
      <4>. QED BY <1>7, <2>1, <4>1, <4>2, <4>3, <4>4
    <3>. QED BY <3>1, <3>2
  <2>7. ChainOf(a, d)'
    BY <2>1, <2>3, <2>4, <2>5, <2>6 DEF ChainOf
  <2>. QED BY <2>1, <2>7
<1>. QED BY <1>8, <1>9

(* Writing back what the topmost mocker holds takes it off the chain.      *)
LEMMA PopFromChain ==
  ASSUME TypeOK, Chains, NEW m \in Mockers, isPatched[m],
         Apart(At(m)) => TopMost(m), WriteBack(m)
  PROVE  Chains'
<1>1. At(m) \in Addrs /\ m # Orig
  BY Basics, ValueAssumption
<1>2. /\ isPatched' = [isPatched EXCEPT ![m] = FALSE]
      /\ original' = original /\ entry'[At(m)] = original[m]
      /\ \A a \in Addrs : a # At(m) => entry'[a] = entry[a]
  BY <1>1 DEF TypeOK, WriteBack
<1>3. \A a \in Addrs : Live(a)' = IF a = At(m) THEN Live(a) \ {m} ELSE Live(a)
  BY <1>2 DEF TypeOK, Live, At
<1>4. m \in Live(At(m))
  BY DEF Live
<1>5. SUFFICES ASSUME NEW a \in Addrs, Apart(a)
               PROVE  \E c \in Seq(Mockers) : ChainOf(a, c)'
  BY DEF Chains, Apart
<1>6. PICK c \in Seq(Mockers) : ChainOf(a, c)
  BY <1>5 DEF Chains
<1>7. /\ Len(c) \in Nat /\ \A i \in 1..Len(c) : c[i] \in Mockers
      /\ Live(a) = {c[i] : i \in 1..Len(c)}
  BY <1>6 DEF ChainOf
<1>8. CASE a # At(m)
  <2>1. ChainOf(a, c)'
    BY <1>2, <1>3, <1>6, <1>8 DEF ChainOf
  <2>. QED BY <2>1
<1>9. CASE a = At(m)
  <2>1. Len(c) > 0 /\ c[1] = m
    <3>1. PICK i \in 1..Len(c) : c[i] = m
      BY <1>4, <1>7, <1>9
    <3>2. ASSUME i # 1 PROVE FALSE
      <4>1. i - 1 \in 1..Len(c) /\ i - 1 < Len(c) /\ (i - 1) + 1 = i
        BY <1>7, <3>2
      <4>2. original[c[i - 1]] = m
        BY <1>6, <3>1, <4>1 DEF ChainOf
      <4>. QED BY <1>5, <1>7, <1>9, <4>1, <4>2 DEF TopMost
    <3>. QED BY <1>7, <3>1, <3>2
  <2>. DEFINE d == Tail(c)
  <2>2. /\ d \in Seq(Mockers) /\ Len(d) = Len(c) - 1
        /\ \A i \in 1..Len(d) : d[i] = c[i + 1] /\ i + 1 \in 1..Len(c)
    BY <1>6, <1>7, <2>1
  <2>. HIDE DEF d
  <2>3. \A i, j \in 1..Len(d) : d[i] = d[j] => i = j
    <3>. SUFFICES ASSUME NEW i \in 1..Len(d), NEW j \in 1..Len(d), d[i] = d[j]
                  PROVE  i = j
      OBVIOUS
    <3>1. i + 1 = j + 1
      BY <1>6, <2>2 DEF ChainOf
    <3>. QED BY <3>1
  <2>4. Live(a)' = {d[i] : i \in 1..Len(d)}
    <3>1. Live(a)' = Live(a) \ {m}
      BY <1>3, <1>9
    <3>2. ASSUME NEW n \in Live(a), n # m
          PROVE  n \in {d[i] : i \in 1..Len(d)}
      <4>1. PICK i \in 1..Len(c) : n = c[i]
        BY <1>7, <3>2
      <4>2. i - 1 \in 1..Len(d) /\ (i - 1) + 1 = i
        BY <1>7, <2>1, <2>2, <3>2, <4>1
      <4>3. d[i - 1] = n
        BY <2>2, <4>1, <4>2
      <4>. QED BY <4>2, <4>3
    <3>3. ASSUME NEW i \in 1..Len(d)
          PROVE  d[i] \in Live(a) \ {m}
      <4>1. c[i + 1] # c[1]
        BY <1>6, <1>7, <2>1, <2>2 DEF ChainOf
      <4>. QED BY <1>7, <2>1, <2>2, <4>1
    <3>. QED BY <3>1, <3>2, <3>3
  <2>5. original[m] = IF 1 < Len(c) THEN c[2] ELSE Orig
    BY <1>6, <1>7, <2>1 DEF ChainOf
  <2>6. entry'[a] = IF Len(d) = 0 THEN Orig ELSE d[1]
    BY <1>2, <1>7, <1>9, <2>1, <2>2, <2>5
  <2>7. \A i \in 1..Len(d) : original'[d[i]] = IF i < Len(d) THEN d[i + 1] ELSE Orig
    BY <1>2, <1>6, <1>7, <2>2, SMTT(20) DEF ChainOf
  <2>8. ChainOf(a, d)'
    BY <2>2, <2>3, <2>4, <2>6, <2>7 DEF ChainOf
  <2>. QED BY <2>2, <2>8
<1>. QED BY <1>8, <1>9

(* The topmost mocker is the one the entry holds.                          *)
LEMMA TopIsEntry ==
  ASSUME TypeOK, Chains, NEW m \in Mockers, isPatched[m], TopMost(m), Apart(At(m))
  PROVE  entry[At(m)] = m
<1>1. At(m) \in Addrs /\ m \in Live(At(m))
  BY Basics DEF Live
<1>. QED BY <1>1, ChainLinks DEF TopMost

(* Registering in the last map puts the new branch above every other.      *)
LEMMA PushFollowsNesting ==
  ASSUME RegistryInv, Chains, ChainsAreNested,
         NEW m \in Mockers, ~isPatched[m], ~Remocks(m),
         WriteBranch(m), addToGlobal(m)
  PROVE  ChainsAreNested'
<1>1. /\ Depth' = Depth /\ Depth \in Nat /\ Depth >= 1
      /\ \A n \in Mockers : target[n] \in Keys /\ At(n) \in Addrs
      /\ \A i \in 1..Depth, l \in Keys :
           gMocker'[i][l] = IF i = Depth /\ l = target[m] THEN m
                                                      ELSE gMocker[i][l]
  BY AddEffect, Basics DEF RegistryInv
<1>2. /\ isPatched' = [isPatched EXCEPT ![m] = TRUE]
      /\ original'[m] = entry[At(m)]
      /\ \A n \in Mockers : n # m => original'[n] = original[n]
  BY DEF RegistryInv, TypeOK, WriteBranch
<1>3. SUFFICES ASSUME NEW i \in 1..Depth, NEW j \in 1..Depth,
                      NEW p \in Mockers, NEW n \in Mockers, Apart(At(n)),
                      isPatched'[p], isPatched'[n],
                      gMocker'[i][target[p]] = p, gMocker'[j][target[n]] = n,
                      original'[n] = p
               PROVE  i <= j
  BY <1>1 DEF ChainsAreNested, Apart, At
<1>4. CASE n = m
  <2>1. \A l \in 1..Depth : gMocker[l][target[m]] # m
    BY <1>1, ValueAssumption DEF RegistryInv, RegisteredExactlyWhilePatched
  <2>2. j = Depth
    BY <1>1, <1>3, <1>4, <2>1
  <2>. QED BY <1>1, <2>2
<1>5. CASE n # m
  <2>1. isPatched[n] /\ original[n] = p
    BY <1>2, <1>3, <1>5 DEF RegistryInv, TypeOK
  <2>2. p # m
    <3>1. n \in Live(At(n))
      BY <2>1 DEF Live
    <3>2. original[n] \in Live(At(n)) \cup {Orig}
      BY <1>1, <1>3, <3>1, ChainLinks
    <3>. QED BY <2>1, <3>2, ValueAssumption DEF Live
  <2>3. isPatched[p]
    BY <1>2, <1>3, <2>2 DEF RegistryInv, TypeOK
  <2>4. gMocker[i][target[p]] = p /\ gMocker[j][target[n]] = n
    BY <1>1, <1>3, <1>5, <2>2
  <2>. QED BY <1>3, <2>1, <2>3, <2>4 DEF ChainsAreNested
<1>. QED BY <1>4, <1>5

(* Releasing takes a pair away and adds none.                              *)
LEMMA PopFollowsNesting ==
  ASSUME RegistryInv, ChainsAreNested,
         NEW m \in Mockers, WriteBack(m), removeFromGlobal(m)
  PROVE  ChainsAreNested'
<1>1. /\ Depth' = Depth
      /\ \A n \in Mockers : target[n] \in Keys
      /\ \A i \in 1..Depth, l \in Keys :
           gMocker'[i][l] = IF i = Depth /\ l = target[m] THEN NoMocker
                                                      ELSE gMocker[i][l]
  BY RemoveEffect, Basics DEF RegistryInv
<1>2. /\ original' = original
      /\ \A n \in Mockers : isPatched'[n] => isPatched[n]
  BY DEF RegistryInv, TypeOK, WriteBack
<1>3. SUFFICES ASSUME NEW i \in 1..Depth, NEW j \in 1..Depth,
                      NEW p \in Mockers, NEW n \in Mockers, Apart(At(n)),
                      isPatched'[p], isPatched'[n],
                      gMocker'[i][target[p]] = p, gMocker'[j][target[n]] = n,
                      original'[n] = p
               PROVE  i <= j
  BY <1>1 DEF ChainsAreNested, Apart, At
<1>4. gMocker[i][target[p]] = p /\ gMocker[j][target[n]] = n
  BY <1>1, <1>3, ValueAssumption
<1>. QED BY <1>2, <1>3, <1>4 DEF ChainsAreNested

(* The mocker that the loop comes to is on top of its chain: a branch      *)
(* above it would belong to the same context, and share its entry.         *)
LEMMA LoopTakesTheTop ==
  ASSUME EntryInv, NEW k \in Keys, CleanupStep(k)
  PROVE  Apart(At(Current[k])) => TopMost(Current[k])
<1>. DEFINE m == Current[k]
<1>1. /\ m \in Mockers /\ isPatched[m] /\ target[m] = k /\ ~InTest
  BY LoopStep, LoopMocker DEF EntryInv, CleanupStep
<1>. SUFFICES ASSUME Apart(At(m)), NEW n \in Live(At(m)), original[n] = m
              PROVE  FALSE
  BY DEF TopMost
<1>2. /\ n \in Mockers /\ isPatched[n] /\ At(n) = At(m)
      /\ Depth \in 1..Depth /\ Depth \in Nat
      /\ target[n] \in Keys /\ At(m) \in Addrs
  BY <1>1, Basics DEF Live, EntryInv, RegistryInv
<1>3. PICK j \in 1..Depth : gMocker[j][target[n]] = n
  BY <1>2 DEF EntryInv, RegistryInv, RegisteredExactlyWhilePatched
<1>4. Depth <= j
  BY <1>1, <1>2, <1>3 DEF EntryInv, ChainsAreNested, Current
<1>5. Current[target[n]] = n
  BY <1>2, <1>3, <1>4 DEF Current
<1>6. n # m
  BY <1>2, ChainLinks DEF EntryInv
<1>7. target[n] # k /\ addr[target[n]] = addr[k]
  BY <1>1, <1>2, <1>5, <1>6 DEF At
<1>8. Current[k] # NoMocker /\ Current[target[n]] # NoMocker
  BY <1>1, <1>2, <1>5, ValueAssumption
<1>9. At(m) = addr[k]
  BY <1>1 DEF At
<1>. QED BY <1>1, <1>2, <1>7, <1>8, <1>9 DEF EntryInv, LoopApart, SharesEntry, Apart

LEMMA EntryInit == Init => EntryInv
<1>. SUFFICES ASSUME Init PROVE EntryInv
  OBVIOUS
<1>1. RegistryInv
  BY RegistryInit
<1>2. \A a \in Addrs : Live(a) = {} /\ entry[a] = Orig
  BY DEF Init, Live
<1>3. Chains
  <2>1. << >> \in Seq(Mockers)
    OBVIOUS
  <2>2. \A a \in Addrs : ChainOf(a, << >>)
    BY <1>2, <2>1 DEF ChainOf
  <2>. QED BY <2>1, <2>2 DEF Chains
<1>4. ChainsAreNested /\ LoopApart
  BY DEF Init, ChainsAreNested, LoopApart, InTest
<1>. QED BY <1>1, <1>3, <1>4 DEF EntryInv

LEMMA EntryNext ==
  ASSUME InOrder, EntryInv, [Next]_vars
  PROVE  EntryInv'
<1>0. RegistryInv /\ RegistryInv' /\ TypeOK
  BY RegistryNext DEF EntryInv, RegistryInv, OncePerContext, InOrder
<1>1. ASSUME NEW m \in Mockers, Build(m) \/ Patch(m)
      PROVE  EntryInv'
  <2>1. /\ ~isPatched[m] /\ ~Remocks(m) /\ InTest
        /\ WriteBranch(m) /\ addToGlobal(m) /\ UNCHANGED cleanup
    BY <1>1 DEF Build, Patch, EntryInv, RegistryInv, ObeysOnce, InOrder
  <2>2. Chains' /\ ChainsAreNested'
    BY <1>0, <2>1, PushOnChain, PushFollowsNesting DEF EntryInv
  <2>3. LoopApart'
    BY <2>1 DEF LoopApart, InTest
  <2>. QED BY <1>0, <2>2, <2>3 DEF EntryInv
<1>2. ASSUME NEW m \in Mockers, UnPatch(m)
      PROVE  EntryInv'
  <2>1. /\ isPatched[m] /\ TopMost(m) /\ InTest
        /\ WriteBack(m) /\ removeFromGlobal(m) /\ UNCHANGED cleanup
    BY <1>2 DEF UnPatch, ObeysLifo, InOrder
  <2>2. Chains' /\ ChainsAreNested'
    BY <1>0, <2>1, PopFromChain, PopFollowsNesting DEF EntryInv
  <2>3. LoopApart'
    BY <2>1 DEF LoopApart, InTest
  <2>. QED BY <1>0, <2>2, <2>3 DEF EntryInv
<1>3. ASSUME NEW m \in Mockers, RePatch(m)
      PROVE  EntryInv'
  <2>1. /\ isPatched[m] /\ TopMost(m) /\ InTest /\ Current[target[m]] = m
        /\ UNCHANGED <<isPatched, original, cleanup>>
        /\ entry' = [entry EXCEPT ![At(m)] = m]
    BY <1>3 DEF RePatch, ObeysLifo, ObeysOwn, InOrder
  <2>2. \A a \in Addrs : Apart(a) => entry'[a] = entry[a]
    BY <1>0, <2>1, TopIsEntry, Basics DEF EntryInv, TypeOK
  <2>3. /\ Depth' = Depth /\ \A n \in Mockers : target[n] \in Keys
        /\ \A i \in 1..Depth, l \in Keys : gMocker'[i][l] = gMocker[i][l]
    <3>1. /\ gMocker \in Seq(Maps) /\ Depth = Len(gMocker) /\ Depth >= 1
          /\ target[m] \in Keys
      BY <1>0, Basics
    <3>2. gMocker' = Put(gMocker, target[m], m)
      BY <1>3, <3>1 DEF RePatch, Put
    <3>. QED BY <1>0, <2>1, <3>1, <3>2, UpdateLast, Basics DEF Depth, Current
  <2>4. Chains'
    BY <2>1, <2>2, ChainsStay DEF EntryInv
  <2>5. ChainsAreNested'
    BY <2>1, <2>3 DEF EntryInv, ChainsAreNested
  <2>6. LoopApart'
    BY <2>1 DEF LoopApart, InTest
  <2>. QED BY <1>0, <2>4, <2>5, <2>6 DEF EntryInv
<1>4. ASSUME EnterContext
      PROVE  EntryInv'
  <2>1. /\ UNCHANGED <<isPatched, original, entry, cleanup>> /\ InTest
        /\ gMocker' = Append(gMocker, EmptyMap)
    BY <1>4 DEF EnterContext
  <2>2. /\ gMocker \in Seq(Maps) /\ Depth = Len(gMocker) /\ Depth \in Nat
        /\ \A n \in Mockers : target[n] \in Keys
    BY <1>0, Basics
  <2>3. /\ Depth' = Depth + 1
        /\ \A i \in 1..Depth : gMocker'[i] = gMocker[i]
        /\ \A l \in Keys : gMocker'[Depth + 1][l] = NoMocker
    BY <2>1, <2>2, PushMap DEF Depth
  <2>4. Chains'
    BY <2>1, ChainsStay DEF EntryInv
  <2>5. ChainsAreNested'
    <3>1. SUFFICES ASSUME NEW i \in 1..(Depth + 1), NEW j \in 1..(Depth + 1),
                          NEW p \in Mockers, NEW n \in Mockers, Apart(At(n)),
                          isPatched[p], isPatched[n],
                          gMocker'[i][target[p]] = p,
                          gMocker'[j][target[n]] = n,
                          original[n] = p
                   PROVE  i <= j
      BY <2>1, <2>3 DEF ChainsAreNested, Apart, At
    <3>2. i # Depth + 1 /\ j # Depth + 1
      BY <2>2, <2>3, <3>1, ValueAssumption
    <3>3. i \in 1..Depth /\ j \in 1..Depth
      BY <2>2, <3>2
    <3>4. gMocker[i][target[p]] = p /\ gMocker[j][target[n]] = n
      BY <2>3, <3>1, <3>3
    <3>. QED BY <3>1, <3>3, <3>4 DEF EntryInv, ChainsAreNested
  <2>6. LoopApart'
    BY <2>1 DEF LoopApart, InTest
  <2>. QED BY <1>0, <2>4, <2>5, <2>6 DEF EntryInv
<1>5. ASSUME NEW why \in {"leave", "all"}, StartLoop(why)
      PROVE  EntryInv'
  <2>1. /\ UNCHANGED <<isPatched, original, entry, gMocker>>
        /\ "manual" \notin Rules \/ ~SharesEntry(Current)
    BY <1>5 DEF StartLoop
  <2>2. Chains'
    BY <2>1, ChainsStay DEF EntryInv
  <2>3. ChainsAreNested'
    BY <2>1 DEF EntryInv, ChainsAreNested, Depth
  <2>4. LoopApart'
    BY <2>1 DEF LoopApart, SharesEntry, Current, Depth
  <2>. QED BY <1>0, <2>2, <2>3, <2>4 DEF EntryInv
<1>6. ASSUME NEW k \in Keys, CleanupStep(k)
      PROVE  EntryInv'
  <2>. DEFINE m == Current[k]
  <2>1. /\ m \in Mockers /\ isPatched[m] /\ target[m] = k
        /\ Apart(At(m)) => TopMost(m)
        /\ WriteBack(m) /\ removeFromGlobal(m) /\ ~InTest
    BY <1>0, <1>6, LoopStep, LoopMocker, LoopTakesTheTop DEF CleanupStep
  <2>2. Chains' /\ ChainsAreNested'
    <3>. HIDE DEF m
    <3>. QED BY <1>0, <2>1, PopFromChain, PopFollowsNesting DEF EntryInv
  <2>3. \A l \in Keys : Current'[l] # NoMocker => Current[l] # NoMocker
    BY <1>0, <2>1, RemoveEffect, Basics DEF Current
  <2>4. LoopApart'
    BY <2>1, <2>3 DEF EntryInv, LoopApart, SharesEntry
  <2>. QED BY <1>0, <2>2, <2>4 DEF EntryInv
<1>7. ASSUME CleanupEnd
      PROVE  EntryInv'
  <2>1. /\ UNCHANGED <<isPatched, original, entry>> /\ cleanup' = NoCleanup
        /\ ~InTest
    BY <1>7 DEF CleanupEnd
  <2>2. /\ gMocker \in Seq(Maps) /\ Depth = Len(gMocker) /\ Depth \in Nat
        /\ \A n \in Mockers : target[n] \in Keys
    BY <1>0, Basics
  <2>3. /\ Depth' \in Nat /\ Depth' <= Depth
        /\ \A i \in 1..Depth' : gMocker'[i] = gMocker[i]
    <3>1. CASE cleanup.why # "leave"
      BY <1>7, <2>2, <3>1 DEF CleanupEnd, Depth
    <3>2. CASE cleanup.why = "leave"
      <4>1. Len(gMocker) > 1
        BY <1>0, <2>1, <2>2, <3>2 DEF RegistryInv, LoopFollowsMap
      <4>2. gMocker' = SubSeq(gMocker, 1, Len(gMocker) - 1)
        BY <1>7, <3>2 DEF CleanupEnd, Depth
      <4>. QED BY <2>2, <4>1, <4>2, PopMap DEF Depth
    <3>. QED BY <3>1, <3>2
  <2>4. Chains'
    BY <2>1, ChainsStay DEF EntryInv
  <2>5. ChainsAreNested'
    BY <2>1, <2>2, <2>3 DEF EntryInv, ChainsAreNested
  <2>6. LoopApart'
    BY <2>1 DEF LoopApart, InTest
  <2>. QED BY <1>0, <2>4, <2>5, <2>6 DEF EntryInv
<1>8. ASSUME UNCHANGED vars
      PROVE  EntryInv'
  <2>1. UNCHANGED <<isPatched, original, entry, gMocker, cleanup>>
    BY <1>8 DEF vars
  <2>2. Chains'
    BY <2>1, ChainsStay DEF EntryInv
  <2>3. ChainsAreNested'
    BY <2>1 DEF EntryInv, ChainsAreNested, Depth
  <2>4. LoopApart'
    BY <2>1 DEF EntryInv, LoopApart, SharesEntry, Current, Depth, InTest
  <2>. QED BY <1>0, <2>2, <2>3, <2>4 DEF EntryInv
<1>. QED BY <1>1, <1>2, <1>3, <1>4, <1>5, <1>6, <1>7, <1>8
         DEF Next, LeaveContext, UnPatchAll

(* The stops of a call that everyone passes on: the chain, then Orig.      *)
Stop(c, n) == IF n < Len(c) THEN c[n + 1] ELSE Orig
LEMMA HopAlongChain ==
  ASSUME NEW a \in Addrs, NEW c, ChainOf(a, c)
  PROVE  \A n \in Nat : Hop(a)[n] = Stop(c, n)
<1>. DEFINE Body(h) ==
              [n \in Nat |->
                IF n = 0 THEN entry[a]
                ELSE IF h[n-1] \in Mockers THEN original[h[n-1]] ELSE Orig]
            g == [n \in Nat |-> Stop(c, n)]
            h == Hop(a)
<1>1. g = Body(g)
  <2>. SUFFICES ASSUME NEW n \in Nat PROVE g[n] = Body(g)[n]
    OBVIOUS
  <2>1. CASE n = 0
    BY <2>1 DEF ChainOf, Stop
  <2>2. CASE n # 0
    <3>1. n - 1 \in Nat /\ g[n-1] = Stop(c, n - 1)
      BY <2>2
    <3>2. CASE n - 1 < Len(c)
      <4>1. n \in 1..Len(c) /\ c[n] \in Mockers /\ g[n-1] = c[n]
        BY <2>2, <3>1, <3>2 DEF ChainOf, Stop
      <4>. QED BY <2>2, <3>1, <4>1 DEF ChainOf, Stop
    <3>3. CASE ~(n - 1 < Len(c))
      BY <2>2, <3>1, <3>3, ValueAssumption DEF ChainOf, Stop
    <3>. QED BY <3>2, <3>3
  <2>. QED BY <2>1, <2>2
<1>2. h = Body(h)
  <2>1. h = CHOOSE f : f = Body(f)
    BY DEF Hop
  <2>. HIDE DEF Body, g, h
  <2>. QED BY <1>1, <2>1, Zenon
<1>3. \A n \in Nat :
        h[n] = IF n = 0 THEN entry[a]
               ELSE IF h[n-1] \in Mockers THEN original[h[n-1]] ELSE Orig
  <2>. HIDE DEF h
  <2>. QED BY <1>2
<1>4. \A n \in Nat :
        g[n] = IF n = 0 THEN entry[a]
               ELSE IF g[n-1] \in Mockers THEN original[g[n-1]] ELSE Orig
  <2>. HIDE DEF g
  <2>. QED BY <1>1
<1>. DEFINE S == {n \in Nat : h[n] = g[n]}
<1>5. Nat \subseteq S
  <2>. HIDE DEF h, g
  <2>1. 0 \in S
    BY <1>3, <1>4
  <2>2. \A n \in Nat : n \in S => n + 1 \in S
    BY <1>3, <1>4
  <2>. HIDE DEF S
  <2>. QED BY <2>1, <2>2, InductionOverNat
<1>. QED BY <1>5

(* Under all rules no address is left out.                                 *)
LEMMA EveryRuleChains ==
  ASSUME EveryRule, EntryInv
  PROVE  /\ \A a \in Addrs : \E c \in Seq(Mockers) : ChainOf(a, c)
         /\ ChainFollowsNesting
<1>1. \A a : Apart(a)
  BY DEF EveryRule, AllRules, Apart
<1>2. \A a \in Addrs : \E c \in Seq(Mockers) : ChainOf(a, c)
  BY <1>1 DEF EntryInv, Chains
<1>3. ChainFollowsNesting
  BY <1>1 DEF EntryInv, ChainsAreNested, ChainFollowsNesting
<1>. QED BY <1>2, <1>3

LEMMA EveryRuleNext ==
  ASSUME EveryRule, EntryInv, [Next]_vars
  PROVE  EntryInv'
BY EntryNext DEF EveryRule, AllRules, InOrder

(* There are not more stops than patched mockers.                          *)
LEMMA ChainLength ==
  ASSUME NEW a \in Addrs, NEW c, ChainOf(a, c)
  PROVE  /\ Cardinality(Patched) \in Nat
         /\ Len(c) \in 0..Cardinality(Patched)
<1>. DEFINE f == [i \in 1..Len(c) |-> c[i]]
<1>1. Len(c) \in Nat /\ f \in Injection(1..Len(c), Patched)
  BY DEF ChainOf, Injection, IsInjective, Patched, Live
<1>2. /\ IsFiniteSet(Patched) /\ Cardinality(Patched) \in Nat
      /\ Cardinality(1..Len(c)) <= Cardinality(Patched)
  <2>1. IsFiniteSet(Patched)
    BY MockersAssumption, FS_Subset DEF Patched
  <2>. QED BY <1>1, <2>1, FS_Injection, FS_CardinalityType
<1>3. Cardinality(1..Len(c)) = Len(c)
  <2>1. 1 \in Int /\ Len(c) \in Int /\ Len(c) >= 0
    BY <1>1
  <2>2. Cardinality(1..Len(c)) = IF 1 > Len(c) THEN 0 ELSE Len(c) - 1 + 1
    BY <2>1, FS_Interval
  <2>. QED BY <2>1, <2>2
<1>. QED BY <1>1, <1>2, <1>3

LEMMA ChainsAreChained ==
  ASSUME NEW a \in Addrs, NEW c, ChainOf(a, c)
  PROVE  Chained(a)
<1>. DEFINE N == Cardinality(Patched)
<1>1. ChainOf(a, c)
  OBVIOUS
<1>2. N \in Nat /\ Len(c) \in 0..N /\ \A n \in Nat : Hop(a)[n] = Stop(c, n)
  BY <1>1, ChainLength, HopAlongChain
<1>. HIDE DEF N
<1>3. ASSUME NEW n \in 0..N
      PROVE  Hop(a)[n] \in Live(a) \cup {Orig}
  <2>1. n < Len(c) => n + 1 \in 1..Len(c)
    BY <1>2
  <2>. QED BY <1>1, <1>2, <2>1 DEF ChainOf, Stop
<1>4. Hop(a)[Len(c)] = Orig
  BY <1>2 DEF Stop
<1>5. ASSUME NEW m \in Live(a)
      PROVE  \E n \in 0..N : Hop(a)[n] = m
  <2>1. PICK i \in 1..Len(c) : c[i] = m
    BY <1>1, <1>5 DEF ChainOf
  <2>2. i - 1 \in 0..N /\ i - 1 < Len(c) /\ (i - 1) + 1 = i
    BY <1>2, <2>1
  <2>3. Hop(a)[i - 1] = m
    BY <1>2, <2>1, <2>2 DEF Stop
  <2>. QED BY <2>2, <2>3
<1>. QED BY <1>2, <1>3, <1>4, <1>5 DEF Chained, N

(* Under all rules the saved bytes of every entry form one chain, and the  *)
(* chain follows the nesting of contexts.                                  *)
THEOREM ChainsHold ==
  ASSUME EveryRule
  PROVE  Spec => [](ChainIsSound /\ ChainFollowsNesting)
<1>1. EntryInv /\ [Next]_vars => EntryInv'
  BY EveryRuleNext
<1>2. EntryInv => ChainIsSound /\ ChainFollowsNesting
  <2>. SUFFICES ASSUME EntryInv PROVE ChainIsSound /\ ChainFollowsNesting
    OBVIOUS
  <2>1. \A a \in Addrs : \E c \in Seq(Mockers) : ChainOf(a, c)
    BY EveryRuleChains
  <2>2. \A a \in Addrs : Chained(a)
    BY <2>1, ChainsAreChained
  <2>. QED BY <2>2, EveryRuleChains DEF ChainIsSound
<1>. QED BY EntryInit, <1>1, <1>2, PTL DEF Spec

(* No mocker in effect is out of reach of a call, and none that was        *)
(* released is still reached through saved bytes.                          *)
COROLLARY ChainsAreSound ==
  ASSUME EveryRule
  PROVE  Spec => []ChainIsSound
BY ChainsHold, PTL

(* A function with an entry of its own is itself again as soon as no       *)
(* context holds a mock of it.  The loops of contexts may follow any order *)
(* here, and come to several mocks of a shared entry.                      *)
THEOREM FreeFunctionsComeBack ==
  ASSUME InOrder
  PROVE  Spec => []FreeFunctionsAreOriginal
<1>1. EntryInv /\ [Next]_vars => EntryInv'
  BY EntryNext
<1>2. EntryInv => FreeFunctionsAreOriginal
  <2>. SUFFICES ASSUME EntryInv, NEW k \in Keys,
                       \A l \in Keys : addr[l] = addr[k] => l = k,
                       \A i \in 1..Depth : gMocker[i][k] = NoMocker
                PROVE  entry[addr[k]] = Orig
    BY DEF FreeFunctionsAreOriginal
  <2>1. Apart(addr[k]) /\ addr[k] \in Addrs
    BY AddrAssumption DEF Apart
  <2>2. ASSUME NEW m \in Live(addr[k])
        PROVE  FALSE
    <3>1. m \in Mockers /\ isPatched[m] /\ target[m] = k
      BY <2>2, TargetAssumption DEF Live, At
    <3>2. PICK i \in 1..Depth : gMocker[i][target[m]] = m
      BY <3>1 DEF EntryInv, RegistryInv, RegisteredExactlyWhilePatched
    <3>. QED BY <3>1, <3>2, ValueAssumption
  <2>3. Live(addr[k]) = {}
    BY <2>2
  <2>. QED BY <2>1, <2>3, ChainLinks DEF EntryInv
<1>. QED BY EntryInit, <1>1, <1>2, PTL DEF Spec

-----------------------------------------------------------------------------
(* 3. What a call reaches: nested scopes of mocks.                         *)

(* The mockers that a call comes to later belong to outer contexts, or to  *)
(* the same one.                                                           *)
LEMMA NestingAlongChain ==
  ASSUME RegistryInv, ChainFollowsNesting, NEW a \in Addrs, NEW c, ChainOf(a, c),
         NEW p \in 1..Len(c), NEW q \in 1..Len(c), p <= q,
         NEW i \in 1..Depth, gMocker[i][target[c[p]]] = c[p],
         NEW j \in 1..Depth, gMocker[j][target[c[q]]] = c[q]
  PROVE  j <= i
<1>1. /\ Len(c) \in Nat /\ Depth \in Nat
      /\ \A x \in 1..Len(c) : c[x] \in Mockers /\ isPatched[c[x]]
  BY Basics DEF RegistryInv, ChainOf, Live
<1>. DEFINE S == {n \in Nat : p + n \in 1..Len(c) =>
                    \A l \in 1..Depth :
                      gMocker[l][target[c[p + n]]] = c[p + n] => l <= i}
<1>2. 0 \in S
  <2>1. \A l \in 1..Depth : gMocker[l][target[c[p]]] = c[p] => l = i
    BY <1>1 DEF RegistryInv, RegisteredExactlyWhilePatched
  <2>. QED BY <1>1, <2>1
<1>3. ASSUME NEW n \in Nat, n \in S
      PROVE  n + 1 \in S
  <2>. SUFFICES ASSUME p + (n + 1) \in 1..Len(c), NEW l \in 1..Depth,
                       gMocker[l][target[c[p + (n + 1)]]] = c[p + (n + 1)]
                PROVE  l <= i
    OBVIOUS
  <2>1. p + n \in 1..Len(c) /\ p + n < Len(c) /\ (p + n) + 1 = p + (n + 1)
    BY <1>1
  <2>2. original[c[p + n]] = c[p + (n + 1)]
    BY <2>1 DEF ChainOf
  <2>3. PICK h \in 1..Depth : gMocker[h][target[c[p + n]]] = c[p + n]
    BY <1>1, <2>1 DEF RegistryInv, RegisteredExactlyWhilePatched
  <2>4. h <= i
    BY <1>3, <2>1, <2>3
  <2>5. l <= h
    BY <1>1, <2>1, <2>2, <2>3 DEF ChainFollowsNesting
  <2>. QED BY <1>1, <2>4, <2>5
<1>4. Nat \subseteq S
  <2>. HIDE DEF S
  <2>. QED BY <1>2, <1>3, InductionOverNat
<1>5. q - p \in Nat /\ p + (q - p) = q
  BY <1>1
<1>. QED BY <1>4, <1>5

(* A call is answered by the mock of the innermost scope that has one.     *)
LEMMA ReachedIsInnermost ==
  ASSUME EveryRule, EntryInv, NEW k \in Keys
  PROVE  Reached(k) = Scopes!InnermostOf(gMocker, k)
<1>. DEFINE a == addr[k]
            N == Cardinality(Patched)
            Stops == {n \in 0..N : Answers(Hop(a)[n], k)}
            Levels == {i \in 1..Len(gMocker) : gMocker[i][k] # NoMocker}
<1>1. a \in Addrs
  BY AddrAssumption
<1>2. PICK c \in Seq(Mockers) : ChainOf(a, c)
  BY <1>1, EveryRuleChains
<1>3. N \in Nat /\ Len(c) \in 0..N /\ \A n \in Nat : Hop(a)[n] = Stop(c, n)
  BY <1>1, <1>2, ChainLength, HopAlongChain
<1>4. /\ \A x \in 1..Len(c) : c[x] \in Mockers /\ isPatched[c[x]]
      /\ Live(a) = {c[x] : x \in 1..Len(c)}
  BY <1>2 DEF ChainOf, Live
<1>5. Len(gMocker) = Depth /\ Depth \in Nat /\ \A i \in 1..Depth : gMocker[i] \in Maps
  BY Basics, ElementOfSeq DEF EntryInv, RegistryInv
<1>. HIDE DEF N
<1>6. Len(c) \in Stops
  BY <1>3, ValueAssumption DEF Stop, Answers
<1>7. PICK first \in Stops : \A l \in Stops : first <= l
  <2>1. Stops \subseteq Nat
    BY <1>3
  <2>. QED BY <1>6, <2>1, LeastNumber
<1>8. Reached(k) = Stop(c, first)
  <2>1. \A n, l \in Stops : n <= l /\ l <= n => n = l
    BY <1>3
  <2>2. first = CHOOSE n \in Stops : \A l \in Stops : n <= l
    BY <1>7, <2>1
  <2>3. Stops # {} /\ first \in Nat
    BY <1>3, <1>7
  <2>. QED BY <1>3, <2>2, <2>3 DEF Reached, N
(* Whoever is registered for k is a stop of the call, not before the first. *)
<1>9. ASSUME NEW i \in Levels
      PROVE  \E x \in 1..Len(c) : c[x] = gMocker[i][k] /\ first + 1 <= x
  <2>. DEFINE m == gMocker[i][k]
  <2>1. i \in 1..Depth /\ m \in Mockers /\ target[m] = k /\ isPatched[m]
    BY <1>5, <1>9 DEF EntryInv, RegistryInv, RegisteredExactlyWhilePatched, Maps
  <2>2. PICK x \in 1..Len(c) : c[x] = m
    BY <1>4, <2>1 DEF Live, At
  <2>3. x - 1 \in 0..N /\ x - 1 < Len(c) /\ (x - 1) + 1 = x
    BY <1>3
  <2>4. Hop(a)[x - 1] = m
    BY <1>3, <2>2, <2>3 DEF Stop
  <2>5. x - 1 \in Stops
    BY <2>1, <2>3, <2>4 DEF Answers
  <2>. QED BY <1>3, <1>7, <2>2, <2>5
<1>10. CASE first < Len(c)
  <2>. DEFINE m == c[first + 1]
  <2>1. first \in Nat /\ first + 1 \in 1..Len(c) /\ m \in Mockers /\ isPatched[m]
    BY <1>3, <1>4, <1>7, <1>10
  <2>2. Reached(k) = m /\ target[m] = k
    BY <1>3, <1>7, <1>8, <1>10, <2>1 DEF Stop, Answers
  <2>3. PICK i \in 1..Depth : gMocker[i][target[m]] = m
    BY <2>1 DEF EntryInv, RegistryInv, RegisteredExactlyWhilePatched
  <2>4. i \in Levels /\ gMocker[i][k] = m
    BY <1>5, <2>1, <2>2, <2>3, ValueAssumption
  <2>5. ASSUME NEW j \in Levels
        PROVE  j <= i
    <3>1. PICK x \in 1..Len(c) : c[x] = gMocker[j][k] /\ first + 1 <= x
      BY <1>9, <2>5
    <3>2. j \in 1..Depth /\ gMocker[j][target[c[x]]] = c[x]
      BY <1>5, <2>5, <3>1 DEF EntryInv, RegistryInv, RegisteredExactlyWhilePatched
    <3>. QED BY <1>1, <1>2, <2>1, <2>3, <3>1, <3>2, NestingAlongChain, EveryRuleChains DEF EntryInv
  <2>6. i = CHOOSE l \in Levels : \A j \in Levels : j <= l
    <3>1. \A j, l \in Levels : j <= l /\ l <= j => j = l
      BY <1>5
    <3>. QED BY <2>4, <2>5, <3>1
  <2>7. Levels # {}
    BY <2>4
  <2>. QED BY <2>2, <2>4, <2>6, <2>7 DEF Scopes!InnermostOf
<1>11. CASE ~(first < Len(c))
  <2>1. Levels = {}
    BY <1>3, <1>7, <1>9, <1>11
  <2>2. Reached(k) = Orig
    BY <1>8, <1>11 DEF Stop
  <2>. QED BY <2>1, <2>2 DEF Scopes!InnermostOf
<1>. QED BY <1>10, <1>11

(* Under all rules a test sees nested scopes of mocks: every               *)
(* step of a mock, a release, a context or a loop is a step of the scopes, *)
(* and every call is answered as they say.                                 *)
AnswersFollow ==
  \A k \in Keys : Reached(k) = Scopes!InnermostOf(gMocker, k)
THEOREM ScopesAreNested ==
  ASSUME EveryRule
  PROVE  Spec => ImplementsScopes
<1>. USE DEF Scopes!NoMocks, EmptyMap
<1>1. EntryInv => AnswersFollow
  BY ReachedIsInnermost DEF AnswersFollow
<1>2. EntryInv' => AnswersFollow'
  BY <1>1, PTL
<1>3. Init => Scopes!Init
  <2>. SUFFICES ASSUME Init PROVE Scopes!Init
    OBVIOUS
  <2>1. AnswersFollow
    BY <1>1, EntryInit
  <2>2. Len(gMocker) = 1 /\ \A k \in Keys : gMocker[1][k] = NoMocker
    BY DEF Init
  <2>3. \A k \in Keys : Reached(k) = Orig
    BY <2>1, <2>2 DEF AnswersFollow, Scopes!InnermostOf
  <2>. QED BY <2>3 DEF Init, Scopes!Init
<1>4. EntryInv /\ [Next]_vars => EntryInv'
  BY EveryRuleNext
<1>5. EntryInv /\ EntryInv' /\ [Next]_vars => [Scopes!Next]_(Scopes!vars)
  <2>. SUFFICES ASSUME EntryInv, EntryInv', [Next]_vars
                PROVE  [Scopes!Next]_(Scopes!vars)
    OBVIOUS
  <2>1. AnswersFollow /\ AnswersFollow'
    BY <1>1, <1>2
  <2>2. Scopes!Answered
    BY <2>1 DEF AnswersFollow, Scopes!Answered, Scopes!InnermostOf
  <2>3. UNCHANGED gMocker => UNCHANGED Scopes!vars
    BY <2>1 DEF AnswersFollow, Scopes!vars, Scopes!InnermostOf
  <2>4. /\ TypeOK /\ RegistryInv /\ Depth = Len(gMocker) /\ Depth \in Nat
        /\ Depth >= 1 /\ \A m \in Mockers : target[m] \in Keys
        /\ Current \in Maps
    BY Basics, ElementOfSeq DEF EntryInv, RegistryInv, Current
  <2>5. ASSUME NEW m \in Mockers, ~isPatched[m], ~Remocks(m), addToGlobal(m)
        PROVE  Scopes!Mock(target[m], m)
    <3>1. \A i \in 1..Depth, l \in Keys : gMocker[i][l] # m
      BY <2>4, <2>5, ValueAssumption DEF RegistryInv, RegisteredExactlyWhilePatched
    <3>. QED BY <2>2, <2>4, <2>5, <3>1
             DEF Scopes!Mock, Scopes!Last, addToGlobal, Remocks, Current
  <2>6. ASSUME NEW m \in Mockers, Current[target[m]] = m, removeFromGlobal(m)
        PROVE  Scopes!Unmock(target[m])
    BY <2>2, <2>4, <2>6, ValueAssumption
       DEF Scopes!Unmock, Scopes!Last, removeFromGlobal, Current
  <2>7. ASSUME NEW m \in Mockers, Build(m) \/ Patch(m)
        PROVE  Scopes!Next
    <3>1. ~isPatched[m] /\ ~Remocks(m) /\ addToGlobal(m)
      BY <2>7 DEF Build, Patch, EntryInv, RegistryInv, ObeysOnce,
                  EveryRule, AllRules
    <3>. QED BY <2>4, <2>5, <3>1 DEF Scopes!Next
  <2>8. ASSUME NEW m \in Mockers, UnPatch(m)
        PROVE  Scopes!Next
    <3>1. Current[target[m]] = m /\ removeFromGlobal(m)
      BY <2>8 DEF UnPatch, ObeysOwn, EveryRule, AllRules
    <3>. QED BY <2>4, <2>6, <3>1 DEF Scopes!Next
  <2>9. ASSUME NEW m \in Mockers, RePatch(m)
        PROVE  UNCHANGED gMocker
    <3>1. /\ gMocker' = [gMocker EXCEPT ![Depth] = [@ EXCEPT ![target[m]] = m]]
          /\ gMocker[Depth][target[m]] = m
      BY <2>9 DEF RePatch, ObeysOwn, EveryRule, AllRules, Current
    <3>2. [gMocker[Depth] EXCEPT ![target[m]] = m] = gMocker[Depth]
      BY <2>4, <3>1 DEF Current, Maps
    <3>. QED BY <2>4, <3>1, <3>2 DEF TypeOK
  <2>10. CASE EnterContext
    BY <2>2, <2>10 DEF EnterContext, Scopes!Next, Scopes!Enter
  <2>11. CASE LeaveContext \/ UnPatchAll
    BY <2>3, <2>11 DEF LeaveContext, UnPatchAll, StartLoop
  <2>12. ASSUME NEW k \in Keys, CleanupStep(k)
         PROVE  Scopes!Next
    <3>. DEFINE m == Current[k]
    <3>1. m \in Mockers /\ Current[target[m]] = m /\ removeFromGlobal(m)
      BY <2>4, <2>12, LoopStep
    <3>. HIDE DEF m
    <3>. QED BY <2>4, <2>6, <3>1 DEF Scopes!Next
  <2>13. CASE CleanupEnd
    <3>1. CASE cleanup.why # "leave"
      BY <2>3, <2>13, <3>1 DEF CleanupEnd
    <3>2. CASE cleanup.why = "leave"
      <4>1. Depth > 1 /\ \A k \in Keys : Current[k] = NoMocker
        BY <2>4, <2>13, <3>2 DEF CleanupEnd, RegistryInv, LoopFollowsMap
      <4>2. gMocker[Depth] = [k \in Keys |-> NoMocker]
        BY <2>4, <4>1 DEF Current, Maps
      <4>. QED BY <2>2, <2>4, <2>13, <3>2, <4>1, <4>2
               DEF CleanupEnd, Scopes!Next, Scopes!Leave, Scopes!Last
    <3>. QED BY <3>1, <3>2
  <2>14. CASE UNCHANGED vars
    BY <2>3, <2>14 DEF vars
  <2>. QED BY <2>3, <2>7, <2>8, <2>9, <2>10, <2>11, <2>12, <2>13, <2>14 DEF Next
<1>. QED BY EntryInit, <1>3, <1>4, <1>5, PTL DEF Spec, Scopes!Spec, ImplementsScopes
=============================================================================
