-------------------------- MODULE MC_AccessGrants --------------------------
(* An instance of AccessGrants for TLC: user 1, user group 2, accounts 3    *)
(* and 4, group 5, one site and one individual privilege.                   *)
EXTENDS AccessGrants, TLC

CONSTANTS s1, p1

None == [k \in Category |-> {}]

\* A user or user group, in the site or not.
Plain(sites, us) ==
    [sites |-> sites, users |-> us, privilegeSet |-> "", privileges |-> None]

\* Administrator, with privileges that mean nothing beside it.
Admin(sites) ==
    [sites |-> sites, users |-> {}, privilegeSet |-> "Administrator",
     privileges |-> [None EXCEPT !["jss_objects"] = {p1}]]

Auditor(sites) ==
    [sites |-> sites, users |-> {}, privilegeSet |-> "Auditor", privileges |-> None]

Custom(sites) ==
    [sites |-> sites, users |-> {}, privilegeSet |-> "Custom",
     privileges |-> [None EXCEPT !["recon"] = {p1}]]

\* What can change: the user leaves the site, the user group loses its user,
\* an account changes its set, and so does the group; all can be deleted, and
\* account 4 or the group can come into existence.
MCShapes ==
    (1 :> {Plain({}, {})}) @@ (2 :> {Plain({s1}, {})})
      @@ (3 :> {Auditor({s1}), Custom({})}) @@ (4 :> {Admin({})})
      @@ (5 :> {Admin({}), Custom({s1})})

\* An administrator and a second account, or a Custom account and a group.
MCWorlds ==
    {(1 :> Plain({s1}, {})) @@ (2 :> Plain({s1}, {1})) @@ others :
       others \in {(3 :> Admin({s1})) @@ (4 :> Auditor({})) @@ (5 :> Absent),
                   (3 :> Custom({})) @@ (4 :> Absent) @@ (5 :> Custom({s1}))}}

MCWatched ==
    {<<"role", "Administrator">>, <<"role", p1>>, <<"site", s1>>, <<"userGroup", 2>>}

\* The default, one worker, and two.
MCPools == {{w} : w \in Worker} \cup {Worker}

MCSymmetry == Permutations(Worker)
=============================================================================
