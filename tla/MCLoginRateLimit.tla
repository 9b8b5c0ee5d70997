-------------------------- MODULE MCLoginRateLimit --------------------------
(* An account behind an address, and a callback whose ip rule is off.      *)
EXTENDS LoginRateLimit, TLC

OneAccount == {<<"ip", "ann">>}
Callback == {<<"cb-ip", "cb-ann">>}
Limits == ("ip" :> 2) @@ ("ann" :> 1) @@ ("cb-ip" :> 0) @@ ("cb-ann" :> 1)
Windows == ("ip" :> 1) @@ ("ann" :> 2) @@ ("cb-ip" :> 1) @@ ("cb-ann" :> 1)
Symmetry == Permutations(Session)
=============================================================================
