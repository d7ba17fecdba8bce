---- MODULE ClaimTable ----
(***************************************************************************)
(* What the dedupe store promises the router: a table of event identities. *)
(* A claimant that is told "claimed" is alone with its identity until it   *)
(* marks it handled, releases it, or dies.  An identity whose claimant     *)
(* died stays claimed until a startup reclaims it; a handled identity is   *)
(* forgotten only by retention.  DedupeStore implements this module, and   *)
(* RoutedTurn builds the turns of the router on it.                        *)
(***************************************************************************)
CONSTANTS Claimants, Keys, NoKey

VARIABLES
    status,   \* status[k]: what the table says of identity k
    held      \* held[c]: the identity claimant c was told is its own

tableVars == <<status, held>>

TableTypeOK ==
    /\ status \in [Keys -> {"free", "claimed", "handled"}]
    /\ held \in [Claimants -> Keys \cup {NoKey}]

TableInit ==
    /\ status \in [Keys -> {"free", "claimed", "handled"}]
    /\ held = [c \in Claimants |-> NoKey]

(* DedupeStore.claim returning True. *)
Claim(c, k) ==
    /\ held[c] = NoKey
    /\ status[k] = "free"
    /\ status' = [status EXCEPT ![k] = "claimed"]
    /\ held' = [held EXCEPT ![c] = k]

(* DedupeStore.mark_handled by the claimant. *)
MarkHandled(c) ==
    /\ held[c] # NoKey
    /\ status' = [status EXCEPT ![held[c]] = "handled"]
    /\ held' = [held EXCEPT ![c] = NoKey]

(* DedupeStore.release by the claimant. *)
Release(c) ==
    /\ held[c] # NoKey
    /\ status' = [status EXCEPT ![held[c]] = "free"]
    /\ held' = [held EXCEPT ![c] = NoKey]

(* Claimants gone without a word: a crash, a closed store, a failed write. *)
Lose(C) ==
    /\ held' = [c \in Claimants |-> IF c \in C THEN NoKey ELSE held[c]]
    /\ UNCHANGED status

(* A startup forgets the claims of the dead; it never meets a live one. *)
Reclaim ==
    /\ \A c \in Claimants : held[c] = NoKey
    /\ status' = [k \in Keys |->
                    IF status[k] = "claimed" THEN "free" ELSE status[k]]
    /\ UNCHANGED held

(* Retention forgets handled identities, and only those. *)
Expire(K) ==
    /\ \A k \in K : status[k] = "handled"
    /\ status' = [k \in Keys |-> IF k \in K THEN "free" ELSE status[k]]
    /\ UNCHANGED held

TableNext ==
    \/ \E c \in Claimants, k \in Keys : Claim(c, k)
    \/ \E c \in Claimants : MarkHandled(c) \/ Release(c)
    \/ \E C \in SUBSET Claimants : Lose(C)
    \/ Reclaim
    \/ \E K \in SUBSET Keys : Expire(K)

TableSpec == TableInit /\ [][TableNext]_tableVars

(* An identity has at most one claimant, and its row says so. *)
ClaimExclusive ==
    /\ \A c \in Claimants : held[c] # NoKey => status[held[c]] = "claimed"
    /\ \A c, d \in Claimants : held[c] # NoKey /\ held[c] = held[d] => c = d
====
