----------------------------- MODULE MCAccounts -----------------------------
(* Instances of Accounts for TLC: ann has two subjects, of which one was   *)
(* bob's before or is after.                                               *)
EXTENDS AccountsProofs, TLC

CONSTANTS ann, bob, s1, s2

Asserted == {<<s1, ann>>, <<s2, ann>>, <<s2, bob>>}
Symmetry == Permutations(Request)
=============================================================================
