---- MODULE MCTurnIO ----
(* Two Signal events on a limited route, and on another route a turn of     *)
(* either kind; the two events are alike.                                *)
EXTENDS TurnIO, TLC

CONSTANTS s1, s2, n1, photo
MCRouteOf == s1 :> 1 @@ s2 :> 1 @@ n1 :> 2
MCKindsOf == s1 :> {"signal"} @@ s2 :> {"signal"} @@ n1 :> {"signal", "notify"}
MCSymmetry == Permutations({s1, s2})
====
