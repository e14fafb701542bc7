----------------------------- MODULE MCAccounts -----------------------------
(* Instances of Accounts for TLC: two people ask for the same username.     *)
EXTENDS Accounts, TLC

MCNameOf == [p \in People |-> CHOOSE n \in Names : TRUE]

Symmetric == Permutations(Tabs) \cup Permutations(People)
=============================================================================
