------------------------------ MODULE Memberships ------------------------------
(***************************************************************************)
(* Memberships: GrantMembership, RevokeMembership and ListMemberships      *)
(* (src/memberships.go), executed concurrently over EntityStore.           *)
(*                                                                         *)
(* A call of GrantMembership creates at most one Membership, named by the  *)
(* call, and the two edges that say whose it is and which role it grants.  *)
(* The call neither looks for a membership of the same user and role nor   *)
(* checks that the two entities exist.                                     *)
(***************************************************************************)
EXTENDS EntityStore

CONSTANTS
    Grants,     \* the calls of GrantMembership
    Revokes,    \* the calls of RevokeMembership
    Lists,      \* the calls of ListMemberships
    Users,      \* ids of users
    AllUsers,   \* what a list asks for when it names no user
    MaxFaults   \* bound: failing store calls and crashes in a behaviour

ASSUME MembershipsAssumption ==
    /\ MaxFaults \in Nat
    /\ AllUsers \notin Users

VARIABLES
    created,  \* each Membership is in the store
    owned,    \* its has_membership edge is, from the user
    role,     \* its grants_role edge is, to the role
    revoked,  \* its revoked_at is set
    gpc, user, \* where a GrantMembership call is, and the user it names
    rpc, aim, \* where a RevokeMembership call is, and the membership it names, if any
    lpc,      \* where a ListMemberships call is
    asked,    \* the user it names
    listed,   \* the memberships it read, each with its revoked_at
    before,   \* history: the memberships whose grant had returned when the list began,
              \* each with whether a revocation of it had returned
    faults    \* failures and crashes so far

store    == <<created, owned, role, revoked>>
granting == <<gpc, user>>
revoking == <<rpc, aim>>
listing  == <<lpc, asked, listed, before>>
vars     == <<store, granting, revoking, listing, faults>>

-----------------------------------------------------------------------------

Records == [id : Grants, revoked : BOOLEAN]

GrantBusy == {"create", "own", "role"}
ListBusy  == {"filter"}
Done      == {"ok", "notFound", "unavailable", "crashed"}

MayFault(outcome) == faults + FaultCost(outcome) <= MaxFaults
Fault(outcome)    == faults' = faults + FaultCost(outcome)

\* Mutant: the error of the store is returned as it is.
AfterRaw(outcome, place) == IF outcome = "ok" THEN place ELSE outcome

\* A call goes on when the store answers, and ends with ErrTemporarilyUnavailable if not.
After(outcome, place) == IF outcome = "ok" THEN place ELSE "unavailable"

-----------------------------------------------------------------------------
(* GrantMembership *)

\* Create the Membership.
GrantCreate(g) ==
    /\ gpc[g] = "idle"
    /\ \E u \in Users : user' = [user EXCEPT ![g] = u]
    /\ \E o \in WriteOutcome :
        /\ MayFault(o) /\ Fault(o)
        /\ created' = [created EXCEPT ![g] = Applied(o)]
        /\ gpc' = [gpc EXCEPT ![g] = After(o, "own")]
    /\ UNCHANGED <<owned, role, revoked, revoking, listing>>

\* Edge User -> has_membership -> Membership.
GrantOwn(g) ==
    /\ gpc[g] = "own"
    /\ \E o \in WriteOutcome :
        /\ MayFault(o) /\ Fault(o)
        /\ owned' = [owned EXCEPT ![g] = Applied(o)]
        /\ gpc' = [gpc EXCEPT ![g] = After(o, "role")]
    /\ UNCHANGED <<created, role, revoked, user, revoking, listing>>

\* Mutant: the error of the last write is dropped.
GrantRoleUnchecked(g) ==
    /\ gpc[g] = "role"
    /\ \E o \in WriteOutcome :
        /\ MayFault(o) /\ Fault(o)
        /\ role' = [role EXCEPT ![g] = Applied(o)]
        /\ gpc' = [gpc EXCEPT ![g] = "ok"]
    /\ UNCHANGED <<created, owned, revoked, user, revoking, listing>>

\* Edge Membership -> grants_role -> Role.
GrantRole(g) ==
    /\ gpc[g] = "role"
    /\ \E o \in WriteOutcome :
        /\ MayFault(o) /\ Fault(o)
        /\ role' = [role EXCEPT ![g] = Applied(o)]
        /\ gpc' = [gpc EXCEPT ![g] = After(o, "ok")]
    /\ UNCHANGED <<created, owned, revoked, user, revoking, listing>>

-----------------------------------------------------------------------------
(* RevokeMembership *)

\* GetEntity: an unknown id and a store that fails are the same answer.  An id of another
\* type of entity, written {} here, is as good as that of a Membership.
RevokeGet(v) ==
    /\ rpc[v] = "idle"
    /\ \E a \in {{g} : g \in Grants} \union {{}}, o \in ReadOutcome :
        /\ MayFault(o) /\ Fault(o)
        /\ aim' = [aim EXCEPT ![v] = a]
        /\ rpc' = [rpc EXCEPT ![v] = IF o = "ok" /\ \A g \in a : created[g]
                                     THEN "write" ELSE "notFound"]
    /\ UNCHANGED <<store, granting, listing>>

\* Mutant: the error of the update is dropped.
RevokeWriteUnchecked(v) ==
    /\ rpc[v] = "write"
    /\ \E o \in WriteOutcome :
        /\ MayFault(o) /\ Fault(o)
        /\ revoked' = [g \in Grants |-> revoked[g] \/ (Applied(o) /\ g \in aim[v])]
        /\ rpc' = [rpc EXCEPT ![v] = "ok"]
    /\ UNCHANGED <<created, owned, role, granting, aim, listing>>

\* UpdateEntity: revoked_at.
RevokeWrite(v) ==
    /\ rpc[v] = "write"
    /\ \E o \in WriteOutcome :
        /\ MayFault(o) /\ Fault(o)
        /\ revoked' = [g \in Grants |-> revoked[g] \/ (Applied(o) /\ g \in aim[v])]
        /\ rpc' = [rpc EXCEPT ![v] = After(o, "ok")]
    /\ UNCHANGED <<created, owned, role, granting, aim, listing>>

-----------------------------------------------------------------------------
(* ListMemberships *)

Acknowledged(g) == gpc[g] = "ok"
Withdrawn(g)    == \E v \in Revokes : rpc[v] = "ok" /\ g \in aim[v]

\* Read every membership of the agency.
ListEntities(l) ==
    /\ lpc[l] = "idle"
    /\ \E u \in Users \union {AllUsers}, o \in ReadOutcome :
        /\ MayFault(o) /\ Fault(o)
        /\ asked' = [asked EXCEPT ![l] = u]
        /\ before' = [before EXCEPT ![l] =
              {[id |-> g, revoked |-> Withdrawn(g)] : g \in {g \in Grants : Acknowledged(g)}}]
        /\ IF o = "ok"
           THEN /\ listed' = [listed EXCEPT ![l] =
                      {[id |-> g, revoked |-> revoked[g]] : g \in {g \in Grants : created[g]}}]
                /\ lpc' = [lpc EXCEPT ![l] = IF u = AllUsers THEN "ok" ELSE "filter"]
           ELSE /\ lpc' = [lpc EXCEPT ![l] = "unavailable"]
                /\ UNCHANGED listed
    /\ UNCHANGED <<store, granting, revoking>>

\* Mutant: takes the memberships that are not the user's.
KeptOthers(l) == {m \in listed[l] : ~owned[m.id] \/ user[m.id] # asked[l]}

\* The memberships of the list that one of the user's edges leads to.
Kept(l) == {m \in listed[l] : owned[m.id] /\ user[m.id] = asked[l]}

\* Read the edges of the user, some time later, and filter the list by them.
ListFilter(l) ==
    /\ lpc[l] = "filter"
    /\ \E o \in ReadOutcome :
        /\ MayFault(o) /\ Fault(o)
        /\ listed' = IF o = "ok" THEN [listed EXCEPT ![l] = Kept(l)] ELSE listed
        /\ lpc' = [lpc EXCEPT ![l] = After(o, "ok")]
    /\ UNCHANGED <<store, granting, revoking, asked, before>>

-----------------------------------------------------------------------------

\* The server process dies: every call in progress ends where it is.
Crash ==
    /\ faults < MaxFaults
    /\ \/ \E g \in Grants : gpc[g] \in GrantBusy
       \/ \E v \in Revokes : rpc[v] = "write"
       \/ \E l \in Lists : lpc[l] \in ListBusy
    /\ faults' = faults + 1
    /\ gpc' = [g \in Grants |-> IF gpc[g] \in GrantBusy THEN "crashed" ELSE gpc[g]]
    /\ rpc' = [v \in Revokes |-> IF rpc[v] = "write" THEN "crashed" ELSE rpc[v]]
    /\ lpc' = [l \in Lists |-> IF lpc[l] \in ListBusy THEN "crashed" ELSE lpc[l]]
    /\ UNCHANGED <<store, user, aim, asked, listed, before>>

\* Every call has returned: nothing is left to do.
Finished ==
    /\ \A g \in Grants : gpc[g] \in Done
    /\ \A v \in Revokes : rpc[v] \in Done
    /\ \A l \in Lists : lpc[l] \in Done
    /\ UNCHANGED vars

Init ==
    /\ created = [g \in Grants |-> FALSE]
    /\ owned = [g \in Grants |-> FALSE]
    /\ role = [g \in Grants |-> FALSE]
    /\ revoked = [g \in Grants |-> FALSE]
    /\ gpc = [g \in Grants |-> "idle"]
    /\ user = [g \in Grants |-> AllUsers]
    /\ rpc = [v \in Revokes |-> "idle"]
    /\ aim = [v \in Revokes |-> {}]
    /\ lpc = [l \in Lists |-> "idle"]
    /\ asked = [l \in Lists |-> AllUsers]
    /\ listed = [l \in Lists |-> {}]
    /\ before = [l \in Lists |-> {}]
    /\ faults = 0

Next ==
    \/ \E g \in Grants : GrantCreate(g) \/ GrantOwn(g) \/ GrantRole(g)
    \/ \E v \in Revokes : RevokeGet(v) \/ RevokeWrite(v)
    \/ \E l \in Lists : ListEntities(l) \/ ListFilter(l)
    \/ Crash
    \/ Finished

Spec == Init /\ [][Next]_vars

-----------------------------------------------------------------------------
(* Properties *)

\* Every variable holds a value of its kind.
TypeOK ==
    /\ created \in [Grants -> BOOLEAN]
    /\ owned \in [Grants -> BOOLEAN]
    /\ role \in [Grants -> BOOLEAN]
    /\ revoked \in [Grants -> BOOLEAN]
    /\ gpc \in [Grants -> {"idle"} \union GrantBusy \union Done]
    /\ user \in [Grants -> Users \union {AllUsers}]
    /\ rpc \in [Revokes -> {"idle", "write"} \union Done]
    /\ aim \in [Revokes -> SUBSET Grants]
    /\ lpc \in [Lists -> {"idle"} \union ListBusy \union Done]
    /\ asked \in [Lists -> Users \union {AllUsers}]
    /\ listed \in [Lists -> SUBSET Records]
    /\ before \in [Lists -> SUBSET Records]
    /\ faults \in 0..MaxFaults

Answers(l, g) == asked[l] \in {AllUsers, user[g]}

\* A list that is answered has every membership of the user whose grant had returned
\* when the list began, and none of another user, although it is put together from
\* two reads between which memberships are granted and revoked.
ListComplete ==
    \A l \in Lists : lpc[l] = "ok" =>
        /\ \A b \in before[l] : Answers(l, b.id) => \E m \in listed[l] : m.id = b.id
        /\ \A m \in listed[l] : Answers(l, m.id)

\* A membership whose revocation had returned when the list began is not shown in force.
RevocationShows ==
    \A l \in Lists : lpc[l] = "ok" =>
        \A b \in before[l], m \in listed[l] : (b.id = m.id /\ b.revoked) => m.revoked

\* A membership whose grant has returned leads from its user to its role, and stays so.
GrantedIsLinked ==
    \A g \in Grants : Acknowledged(g) => created[g] /\ owned[g] /\ role[g]

=============================================================================
