---------------------------- MODULE MCCodeWrite ----------------------------
(* Two functions on pages of four bytes: one entry lies across a page      *)
(* boundary, the other ends at one, on the page the system monitor is on.  *)
EXTENDS CodeWrite, TLC

CONSTANTS w1, w2
MCTarget == w1 :> 2 @@ w2 :> 6
MCLength == w1 :> 4 @@ w2 :> 2
=============================================================================
