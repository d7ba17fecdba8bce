---- MODULE MCReloadReaper ----
(* Routes 1 and 2 share a profile.  The config file starts with both active, *)
(* then changes the session policy of one and disables or removes the other. *)
EXTENDS ReloadReaper, TLC

On(p) == [state |-> "active", policy |-> p]
Off(p) == [state |-> "off", policy |-> p]
Gone(p) == [state |-> "removed", policy |-> p]

MCFirst == 1 :> On("sender") @@ 2 :> On("sender")
MCConfigurations ==
    {MCFirst,
     1 :> On("route") @@ 2 :> Off("sender"),
     1 :> Off("sender") @@ 2 :> Gone("sender")}
====
