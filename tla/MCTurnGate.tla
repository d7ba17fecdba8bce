---- MODULE MCTurnGate ----
(* TurnGate on two routes that share a profile, and a third on its own. *)
EXTENDS TurnGate, TLC

CONSTANTS s1, s2, s3, j1, p1, d1, a, b, c, shared, own

(* Two events of route a, an event of route c, a job of b, a probe of the  *)
(* shared profile, the drain of a.                                         *)
Given(f) == [t \in Tasks |-> f[t]]
MCKind == Given(s1 :> "signal" @@ s2 :> "signal" @@ s3 :> "signal"
                @@ j1 :> "job"
                @@ p1 :> "probe" @@ d1 :> "drain")
MCPatience == Given(s1 :> "forever" @@ s2 :> "forever" @@ s3 :> "forever"
                    @@ j1 :> "timed"
                    @@ p1 :> "zero" @@ d1 :> "timed")
MCRouteOf == Given(s1 :> a @@ s2 :> a @@ s3 :> c @@ j1 :> b
                   @@ p1 :> b @@ d1 :> a)
MCProfileOf == Given(s1 :> shared @@ s2 :> shared @@ s3 :> own @@ j1 :> shared
                     @@ p1 :> shared @@ d1 :> shared)
====
