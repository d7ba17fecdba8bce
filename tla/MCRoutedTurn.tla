---- MODULE MCRoutedTurn ----
(* RoutedTurn on two identities: an idempotency key and a schedule slot. *)
EXTENDS RoutedTurn, TLC

CONSTANTS key, slot

(* A Signal event or a keyed or scheduled job; a job with both. *)
MCIdentities == {<<key>>, <<slot>>, <<key, slot>>}
====
