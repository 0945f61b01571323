----------------------------- MODULE MCOrgServer -----------------------------
(* Instances of OrgServer for TLC: the lives follow from the seconds. *)
EXTENDS OrgServer

Lives == {ExpiresIn(s) : s \in Seconds}

=============================================================================
