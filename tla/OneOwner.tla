------------------------------ MODULE OneOwner ------------------------------
(***************************************************************************)
(* What first-run setup promises (the header of services/setup.ts): one    *)
(* party becomes the owner of the install, for good, and nobody is given a *)
(* session that is not its own.                                            *)
(***************************************************************************)
CONSTANTS
    Party,   \* whoever may set the install up
    Nobody   \* no member of Party

VARIABLES
    owner,    \* the party that created the admin account
    admitted  \* the parties that were handed a session by the setup page

Init == owner = Nobody /\ admitted = {}

Claim(p) ==
    /\ owner = Nobody
    /\ owner' = p
    /\ UNCHANGED admitted

Admit(p) ==
    /\ owner = p
    /\ admitted' = admitted \cup {p}
    /\ UNCHANGED owner

Next == \E p \in Party : Claim(p) \/ Admit(p)

Spec == Init /\ [][Next]_<<owner, admitted>>
=============================================================================
