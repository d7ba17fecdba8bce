---- MODULE MCBreakerGate ----
(* BreakerGate with every route configured and active at first. *)
EXTENDS BreakerGate, TLC

MCStart == [r \in Routes |-> [state |-> "active", profile |-> CHOOSE p \in Profiles : TRUE]]

====
