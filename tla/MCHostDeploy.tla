---------------------------- MODULE MCHostDeploy ----------------------------
(* HostDeploy for TLC.  A form gives a new target, or moves the host to    *)
(* another tunnel and zone and back: these are the inputs that differ in   *)
(* what the handlers do.                                                   *)
EXTENDS HostDeploy

CONSTANTS t1, t2, z1, z2

MCInput ==
    {[tunnel |-> t1, zone |-> z1, rev |-> v] : v \in Rev}
    \cup {[tunnel |-> t2, zone |-> z2, rev |-> 1]}
=============================================================================
