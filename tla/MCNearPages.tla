---------------------------- MODULE MCNearPages ----------------------------
(* Two functions in a process of 16 pages; the layouts leave holes above,  *)
(* below, at the ends of the reach, or nowhere.                            *)
EXTENDS NearPages

MCBases == {8 * k : k \in 0 .. 15}
MCTargets == {60, 64}
MCHintOffsets == <<12, 36>>
Around(from, to) == {b \in MCBases : b >= from /\ b < to}
MCOccupied ==
  {Around(40, 88), Around(24, 128), Around(0, 96),
   Around(0, 16) \cup Around(32, 72) \cup Around(104, 128)}
============================================================================
