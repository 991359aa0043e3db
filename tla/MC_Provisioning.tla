-------------------------- MODULE MC_Provisioning --------------------------
(* Instances of Provisioning for TLC.                                      *)
EXTENDS Provisioning, TLC

CONSTANTS n1, n2, n3, k1, k2

MCName == {n1, n3}
MCKey == {k1, k2}

\* Names n1 and n2 differ in case only.
MCNames == {n1, n2, n3}
MCLower == [n \in Name |-> IF n = n3 THEN k2 ELSE k1]

Plain == [type |-> "", login |-> TRUE, privilegeSet |-> "", privileges |-> FALSE]

\* One request that is accepted.
MCPlain == {Plain}

\* A request for a userAccount, and two that leave the type open: one for a
\* Custom account and one that is refused for a userAccount, with privileges
\* and no Custom.
MCMixed ==
    {[Plain EXCEPT !.type = "userAccount"],
     [Plain EXCEPT !.privilegeSet = "Custom", !.privileges = TRUE],
     [Plain EXCEPT !.privileges = TRUE]}

\* Users, with the cache; console accounts, without it.
MCConfigs ==
    {[target |-> "", caching |-> TRUE],
     [target |-> "userAccount", caching |-> FALSE]}

MCAccounts == {[target |-> "userAccount", caching |-> TRUE]}

MCSymmetry == Permutations(Worker)
=============================================================================
