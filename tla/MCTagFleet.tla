----------------------------- MODULE MCTagFleet -----------------------------
(***************************************************************************)
(* Small fleets.  The lease is two instants, the command interval one.     *)
(***************************************************************************)
EXTENDS TagFleet

CONSTANTS SharedFacing

MCWorklists == {<<"t1">>, <<"t1", "t2">>}
SharedWorklists == {<<"t1", "t2">>}
MCFacingOf == [t \in Task |-> IF SharedFacing THEN "f1" ELSE IF t = "t1" THEN "f1" ELSE "f2"]
MCLaneOf   == [t \in Task |-> IF t = "t1" THEN "red" ELSE "amber"]
MCModelOf  == [g \in Tag |-> "Edge3"]
MCFirstTag == [f \in Facing |-> IF f = "f1" THEN "g1" ELSE "g2"]
MCFleet    == [Vusion EXCEPT !.lease = 2]

Store(reachable, batch) ==
    [codes |-> {"Edge3"}, reachable |-> reachable, batchLimit |-> batch, lease |-> 0]

\* A store whose gateway takes one command at a time, or two; and the days it
\* takes none.
MCDeployments == {Store(TRUE, 1), Store(TRUE, 2), Store(FALSE, 1), NotDeployed}
\* A store that is always there.
SteadyDeployments == {Store(TRUE, 2)}
=============================================================================
