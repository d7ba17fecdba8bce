---- MODULE MCDedupeStore ----
(* DedupeStore in two processes, each with one caller and its sweep. *)
EXTENDS DedupeStore, TLC

CONSTANTS p1, p2, t1, t2

TwoProcesses == t1 :> p1 @@ t2 :> p2
====
