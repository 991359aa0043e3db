--------------------------- MODULE MC_DeviceOwners ---------------------------
(* Instances of DeviceOwners for TLC.  Ann is a name that users 1 and 2     *)
(* share, in lower case annKey; Bob is a name of user 1 only; Blank is all  *)
(* space.  A computer can report a blank name or a blank address beside one *)
(* that is not, and a mobile device nothing but a blank name.               *)
EXTENDS DeviceOwners, TLC

CONSTANTS Ann, Bob, Blank, annKey, bobKey

MCRaw == {Ann, Bob, Blank}
MCKey == {annKey, bobKey}
MCNorm == (Ann :> annKey) @@ (Bob :> bobKey) @@ (Blank :> NoKey)

MCUsers == {1, 2}
MCKeysOf == (1 :> {annKey, bobKey}) @@ (2 :> {annKey})

MCReports ==
    {NoOwner,
     [username |-> Ann, email |-> Blank],
     [username |-> Blank, email |-> Bob]}
=============================================================================
