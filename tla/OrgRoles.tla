-------------------------------- MODULE OrgRoles --------------------------------
(***************************************************************************)
(* The organisation and its roles: InitOrganization with the seeding of    *)
(* the built-in roles, Update-, Disable- and DeleteOrganization            *)
(* (src/org_lifecycle.go), CreateRole, UpdateRole and DeleteRole           *)
(* (src/roles_scopes.go), executed concurrently over EntityStore.          *)
(*                                                                         *)
(* A call of InitOrganization creates at most one Organization, named by   *)
(* the call, and at most one Role for each built-in name; a call of        *)
(* CreateRole creates at most one Role, named by the call.  The flag       *)
(* "builtin" is TRUE on the former and FALSE on the latter, and no call    *)
(* ever writes it again.                                                   *)
(***************************************************************************)
EXTENDS EntityStore, Sequences

CONSTANTS
    Inits,       \* the calls of InitOrganization
    Creates,     \* the calls of CreateRole
    Admins,      \* the calls of UpdateRole, DeleteRole, UpdateOrganization,
                 \* DisableOrganization and DeleteOrganization
    Builtins,    \* the names of the built-in roles, in the order they are seeded
    CustomNames, \* other names of roles
    MaxFaults    \* bound: failing store calls and crashes in a behaviour

BuiltinNames == {Builtins[k] : k \in 1..Len(Builtins)}

SeededRoles == Inits \X BuiltinNames
RoleIds     == SeededRoles \union Creates
Targets     == RoleIds \union Inits

ASSUME OrgRolesAssumption ==
    /\ MaxFaults \in Nat
    /\ Len(Builtins) \in Nat \ {0}
    /\ \A j, k \in 1..Len(Builtins) : Builtins[j] = Builtins[k] => j = k
    /\ SeededRoles \intersect (Creates \union Inits) = {}
    /\ Inits \intersect Creates = {}

VARIABLES
    org,         \* for each InitOrganization call: its Organization in the store
    enabled,     \* Organization.enabled
    role,        \* each Role in the store
    patched,     \* UpdateRole has written to the entity
    ipc, next,   \* where an InitOrganization call is, and the index of the role it seeds
    cpc, name,   \* where a CreateRole call is, and the name it asks for
    mpc, order,  \* where an administrative call is, its operation and target
    faults,      \* failures and crashes so far
    orgRivals,   \* history: the InitOrganization calls that had found no organisation
                 \* and not yet created theirs when this call looked
    roleRivals   \* history: the same for a name of a role

store   == <<org, enabled, role, patched>>
init    == <<ipc, next, orgRivals>>
create  == <<cpc, name>>
admin   == <<mpc, order>>
vars    == <<store, init, create, admin, faults, roleRivals>>

-----------------------------------------------------------------------------

Lifecycle == {"none", "live", "deleted"}

InitBusy == {"createOrg", "seedList", "seedCreate"}
InitDone == {"ok", "exists", "unavailable", "crashed"}
CreateDone == {"ok", "exists", "unavailable", "crashed"}
AdminDone  == {"ok", "notFound", "builtin", "unavailable", "crashed"}

RoleOps == {"updateRole", "deleteRole"}
OrgOps  == {"updateOrg", "disableOrg", "deleteOrg"}
Orders  == [op : RoleOps, id : Targets] \union [op : OrgOps, id : Inits]
NoOrder == [op |-> "none", id |-> "none"]

MayFault(outcome) == faults + FaultCost(outcome) <= MaxFaults
Fault(outcome)    == faults' = faults + FaultCost(outcome)

\* What the store lists: entities it has and has not soft-deleted.
LiveOrgs    == {i \in Inits : org[i] = "live"}
NameOf(id)  == IF id \in Creates THEN name[id] ELSE id[2]
LiveRoles(n) == {id \in RoleIds : role[id] = "live" /\ NameOf(id) = n}

\* The calls that found no role of this name and have not yet created theirs.
Contending(n) == {id \in SeededRoles : id[2] = n /\ ipc[id[1]] = "seedCreate"
                                       /\ Builtins[next[id[1]]] = n}
                 \union {id \in Creates : cpc[id] = "create" /\ name[id] = n}

-----------------------------------------------------------------------------
(* InitOrganization *)

\* Mutant: an error of the list is taken for an empty answer.
InitListSwallowed(i) ==
    /\ ipc[i] = "idle"
    /\ \E o \in ReadOutcome :
        /\ MayFault(o) /\ Fault(o)
        /\ \/ /\ o = "ok" /\ LiveOrgs # {}
              /\ ipc' = [ipc EXCEPT ![i] = "exists"]
              /\ UNCHANGED orgRivals
           \/ /\ o = "fail" \/ LiveOrgs = {}
              /\ ipc' = [ipc EXCEPT ![i] = "createOrg"]
              /\ orgRivals' = [orgRivals EXCEPT ![i] = {j \in Inits : ipc[j] = "createOrg"}]
    /\ UNCHANGED <<store, next, create, admin, roleRivals>>

\* Look for an organisation.
InitList(i) ==
    /\ ipc[i] = "idle"
    /\ \E o \in ReadOutcome :
        /\ MayFault(o) /\ Fault(o)
        /\ \/ /\ o = "fail"
              /\ ipc' = [ipc EXCEPT ![i] = "unavailable"]
              /\ UNCHANGED orgRivals
           \/ /\ o = "ok" /\ LiveOrgs # {}
              /\ ipc' = [ipc EXCEPT ![i] = "exists"]
              /\ UNCHANGED orgRivals
           \/ /\ o = "ok" /\ LiveOrgs = {}
              /\ ipc' = [ipc EXCEPT ![i] = "createOrg"]
              /\ orgRivals' = [orgRivals EXCEPT ![i] = {j \in Inits : ipc[j] = "createOrg"}]
    /\ UNCHANGED <<store, next, create, admin, roleRivals>>

\* Create the Organization, enabled.
InitCreateOrg(i) ==
    /\ ipc[i] = "createOrg"
    /\ \E o \in WriteOutcome :
        /\ MayFault(o) /\ Fault(o)
        /\ org' = IF Applied(o) THEN [org EXCEPT ![i] = "live"] ELSE org
        /\ ipc' = [ipc EXCEPT ![i] = IF o = "ok" THEN "seedList" ELSE "unavailable"]
    /\ UNCHANGED <<enabled, role, patched, next, orgRivals, create, admin, roleRivals>>

\* Mutant: the loop stops before its last name.
OnwardShort(i) ==
    /\ next' = [next EXCEPT ![i] = @ + 1]
    /\ ipc' = [ipc EXCEPT ![i] = IF next[i] >= Len(Builtins) - 1 THEN "ok" ELSE "seedList"]

\* Mutant: the loop goes down.
OnwardDown(i) ==
    /\ next' = [next EXCEPT ![i] = @ - 1]
    /\ ipc' = [ipc EXCEPT ![i] = IF next[i] = Len(Builtins) THEN "ok" ELSE "seedList"]

\* The loop of seedBuiltinRoles goes on to its next name, or is over.
Onward(i) ==
    /\ next' = [next EXCEPT ![i] = @ + 1]
    /\ ipc' = [ipc EXCEPT ![i] = IF next[i] = Len(Builtins) THEN "ok" ELSE "seedList"]

\* seedBuiltinRoles: look for a role of the name, and skip the name if there is one.
SeedList(i) ==
    /\ ipc[i] = "seedList"
    /\ LET n == Builtins[next[i]] IN
       \E o \in ReadOutcome :
        /\ MayFault(o) /\ Fault(o)
        /\ \/ /\ o = "fail"
              /\ ipc' = [ipc EXCEPT ![i] = "unavailable"]
              /\ UNCHANGED <<next, roleRivals>>
           \/ /\ o = "ok" /\ LiveRoles(n) # {}
              /\ Onward(i)
              /\ UNCHANGED roleRivals
           \/ /\ o = "ok" /\ LiveRoles(n) = {}
              /\ ipc' = [ipc EXCEPT ![i] = "seedCreate"]
              /\ roleRivals' = [roleRivals EXCEPT ![<<i, n>>] = Contending(n)]
              /\ UNCHANGED next
    /\ UNCHANGED <<store, orgRivals, create, admin>>

\* seedBuiltinRoles: create the role with builtin = true.
SeedCreate(i) ==
    /\ ipc[i] = "seedCreate"
    /\ LET id == <<i, Builtins[next[i]]>> IN
       \E o \in WriteOutcome :
        /\ MayFault(o) /\ Fault(o)
        /\ role' = IF Applied(o) THEN [role EXCEPT ![id] = "live"] ELSE role
        /\ IF o = "ok" THEN Onward(i)
                       ELSE /\ ipc' = [ipc EXCEPT ![i] = "unavailable"]
                            /\ UNCHANGED next
    /\ UNCHANGED <<org, enabled, patched, orgRivals, create, admin, roleRivals>>

InitStep(i) == InitCreateOrg(i) \/ SeedList(i) \/ SeedCreate(i)

-----------------------------------------------------------------------------
(* CreateRole *)

\* Mutant: an error of the list is taken for an empty answer.
CreateListSwallowed(r) ==
    /\ cpc[r] = "idle"
    /\ \E n \in BuiltinNames \union CustomNames, o \in ReadOutcome :
        /\ MayFault(o) /\ Fault(o)
        /\ name' = [name EXCEPT ![r] = n]
        /\ \/ /\ o = "ok" /\ LiveRoles(n) # {}
              /\ cpc' = [cpc EXCEPT ![r] = "exists"]
              /\ UNCHANGED roleRivals
           \/ /\ o = "fail" \/ LiveRoles(n) = {}
              /\ cpc' = [cpc EXCEPT ![r] = "create"]
              /\ roleRivals' = [roleRivals EXCEPT ![r] = Contending(n)]
    /\ UNCHANGED <<store, init, admin>>

\* Look for a role of the name; no organisation is asked for.
CreateList(r) ==
    /\ cpc[r] = "idle"
    /\ \E n \in BuiltinNames \union CustomNames, o \in ReadOutcome :
        /\ MayFault(o) /\ Fault(o)
        /\ name' = [name EXCEPT ![r] = n]
        /\ \/ /\ o = "fail"
              /\ cpc' = [cpc EXCEPT ![r] = "unavailable"]
              /\ UNCHANGED roleRivals
           \/ /\ o = "ok" /\ LiveRoles(n) # {}
              /\ cpc' = [cpc EXCEPT ![r] = "exists"]
              /\ UNCHANGED roleRivals
           \/ /\ o = "ok" /\ LiveRoles(n) = {}
              /\ cpc' = [cpc EXCEPT ![r] = "create"]
              /\ roleRivals' = [roleRivals EXCEPT ![r] = Contending(n)]
    /\ UNCHANGED <<store, init, admin>>

\* Create the role with builtin = false.
CreateWrite(r) ==
    /\ cpc[r] = "create"
    /\ \E o \in WriteOutcome :
        /\ MayFault(o) /\ Fault(o)
        /\ role' = IF Applied(o) THEN [role EXCEPT ![r] = "live"] ELSE role
        /\ cpc' = [cpc EXCEPT ![r] = IF o = "ok" THEN "ok" ELSE "unavailable"]
    /\ UNCHANGED <<org, enabled, patched, init, name, admin, roleRivals>>

-----------------------------------------------------------------------------
(* UpdateRole, DeleteRole *)

\* The state of the entity a call names: GetEntity asks for no type, so the id
\* of an Organization is as good as that of a Role.
EntityOf(id) == IF id \in Inits THEN org[id] ELSE role[id]

\* The property "builtin" of the entity; an Organization has none, hence false.
IsBuiltin(id) == id \in SeededRoles

\* GetEntity, and the test of the flag.  A store that fails and an entity that is
\* not there are both ErrRoleNotFound.
EditGet(m) ==
    /\ mpc[m] = "idle"
    /\ \E op \in RoleOps, id \in Targets, o \in ReadOutcome :
        /\ MayFault(o) /\ Fault(o)
        /\ order' = [order EXCEPT ![m] = [op |-> op, id |-> id]]
        /\ mpc' = [mpc EXCEPT ![m] = IF o = "fail" \/ EntityOf(id) # "live" THEN "notFound"
                                     ELSE IF IsBuiltin(id) THEN "builtin"
                                     ELSE "write"]
    /\ UNCHANGED <<store, init, create, roleRivals>>

\* A write to an entity that has been soft-deleted meanwhile: what the library does
\* is not known here, so it may be refused without any fault.
Refusable(o, state) == o = "fail" /\ state # "live"

\* UpdateEntity with the display name and the description, or DeleteEntity.
EditWrite(m) ==
    /\ mpc[m] = "write" /\ order[m].op \in RoleOps
    /\ LET id == order[m].id IN
       \E o \in WriteOutcome :
        /\ IF Refusable(o, EntityOf(id)) THEN UNCHANGED faults ELSE MayFault(o) /\ Fault(o)
        /\ patched' = [patched EXCEPT ![id] = @ \/ (Applied(o) /\ order[m].op = "updateRole")]
        /\ role' = IF Applied(o) /\ order[m].op = "deleteRole" /\ id \in RoleIds
                   THEN [role EXCEPT ![id] = "deleted"] ELSE role
        /\ org' = IF Applied(o) /\ order[m].op = "deleteRole" /\ id \in Inits
                  THEN [org EXCEPT ![id] = "deleted"] ELSE org
        /\ mpc' = [mpc EXCEPT ![m] = IF o = "ok" THEN "ok" ELSE "unavailable"]
    /\ UNCHANGED <<enabled, init, create, order, roleRivals>>

-----------------------------------------------------------------------------
(* UpdateOrganization, DisableOrganization, DeleteOrganization *)

\* GetOrganization: the first entity the store lists, in no order the code asks for.
OrgGet(m) ==
    /\ mpc[m] = "idle"
    /\ \E op \in OrgOps, o \in ReadOutcome :
        /\ MayFault(o) /\ Fault(o)
        /\ \/ /\ o = "fail"
              /\ mpc' = [mpc EXCEPT ![m] = "unavailable"]
              /\ UNCHANGED order
           \/ /\ o = "ok" /\ LiveOrgs = {}
              /\ mpc' = [mpc EXCEPT ![m] = "notFound"]
              /\ UNCHANGED order
           \/ /\ o = "ok"
              /\ \E i \in LiveOrgs : order' = [order EXCEPT ![m] = [op |-> op, id |-> i]]
              /\ mpc' = [mpc EXCEPT ![m] = "write"]
    /\ UNCHANGED <<store, init, create, roleRivals>>

\* UpdateEntity with the name and description, or with enabled = false; DeleteEntity.
OrgWrite(m) ==
    /\ mpc[m] = "write" /\ order[m].op \in OrgOps
    /\ LET i == order[m].id IN
       \E o \in WriteOutcome :
        /\ IF Refusable(o, org[i]) THEN UNCHANGED faults ELSE MayFault(o) /\ Fault(o)
        /\ enabled' = [enabled EXCEPT ![i] = @ /\ ~(Applied(o) /\ order[m].op = "disableOrg")]
        /\ org' = IF Applied(o) /\ order[m].op = "deleteOrg"
                  THEN [org EXCEPT ![i] = "deleted"] ELSE org
        /\ mpc' = [mpc EXCEPT ![m] = IF o = "ok" THEN "ok" ELSE "unavailable"]
    /\ UNCHANGED <<role, patched, init, create, order, roleRivals>>

-----------------------------------------------------------------------------

\* The server process dies: every call in progress ends where it is.
Crash ==
    /\ faults < MaxFaults
    /\ \/ \E i \in Inits : ipc[i] \in InitBusy
       \/ \E r \in Creates : cpc[r] = "create"
       \/ \E m \in Admins : mpc[m] = "write"
    /\ faults' = faults + 1
    /\ ipc' = [i \in Inits |-> IF ipc[i] \in InitBusy THEN "crashed" ELSE ipc[i]]
    /\ cpc' = [r \in Creates |-> IF cpc[r] = "create" THEN "crashed" ELSE cpc[r]]
    /\ mpc' = [m \in Admins |-> IF mpc[m] = "write" THEN "crashed" ELSE mpc[m]]
    /\ UNCHANGED <<store, next, orgRivals, name, order, roleRivals>>

\* Every call has returned: nothing is left to do.
Finished ==
    /\ \A i \in Inits : ipc[i] \in InitDone
    /\ \A r \in Creates : cpc[r] \in CreateDone
    /\ \A m \in Admins : mpc[m] \in AdminDone
    /\ UNCHANGED vars

Init ==
    /\ org = [i \in Inits |-> "none"]
    /\ enabled = [i \in Inits |-> TRUE]
    /\ role = [id \in RoleIds |-> "none"]
    /\ patched = [id \in Targets |-> FALSE]
    /\ ipc = [i \in Inits |-> "idle"]
    /\ next = [i \in Inits |-> 1]
    /\ orgRivals = [i \in Inits |-> {}]
    /\ cpc = [r \in Creates |-> "idle"]
    /\ name = [r \in Creates |-> "none"]
    /\ mpc = [m \in Admins |-> "idle"]
    /\ order = [m \in Admins |-> NoOrder]
    /\ faults = 0
    /\ roleRivals = [id \in RoleIds |-> {}]

Next ==
    \/ \E i \in Inits : InitList(i) \/ InitStep(i)
    \/ \E r \in Creates : CreateList(r) \/ CreateWrite(r)
    \/ \E m \in Admins : EditGet(m) \/ EditWrite(m) \/ OrgGet(m) \/ OrgWrite(m)
    \/ Crash
    \/ Finished

Spec == Init /\ [][Next]_vars

-----------------------------------------------------------------------------

OneOrganization == INSTANCE UniqueNames WITH
    Claims     <- Inits,
    Names      <- {"organization"},
    holders    <- [n \in {"organization"} |-> LiveOrgs],
    contending <- [n \in {"organization"} |-> {i \in Inits : ipc[i] = "createOrg"}],
    rivals     <- orgRivals

RoleNames == INSTANCE UniqueNames WITH
    Claims     <- RoleIds,
    Names      <- BuiltinNames \union CustomNames,
    holders    <- [n \in BuiltinNames \union CustomNames |-> LiveRoles(n)],
    contending <- [n \in BuiltinNames \union CustomNames |-> Contending(n)],
    rivals     <- roleRivals

-----------------------------------------------------------------------------
(* Properties *)

\* Every variable holds a value of its kind.
TypeOK ==
    /\ org \in [Inits -> Lifecycle]
    /\ enabled \in [Inits -> BOOLEAN]
    /\ role \in [RoleIds -> Lifecycle]
    /\ patched \in [Targets -> BOOLEAN]
    /\ ipc \in [Inits -> {"idle"} \union InitBusy \union InitDone]
    /\ next \in [Inits -> 1..Len(Builtins) + 1]
    /\ orgRivals \in [Inits -> SUBSET Inits]
    /\ cpc \in [Creates -> {"idle", "create"} \union CreateDone]
    /\ name \in [Creates -> BuiltinNames \union CustomNames \union {"none"}]
    /\ mpc \in [Admins -> {"idle", "write"} \union AdminDone]
    /\ order \in [Admins -> Orders \union {NoOrder}]
    /\ faults \in 0..MaxFaults
    /\ roleRivals \in [RoleIds -> SUBSET RoleIds]

\* When InitOrganization returns the organisation, every built-in name has its role:
\* a seeded one, or one that a CreateRole call had put in its place.
SeedingComplete ==
    \A i \in Inits : ipc[i] = "ok" => \A n \in BuiltinNames :
        \/ \E j \in Inits : role[<<j, n>>] = "live"
        \/ \E r \in Creates : role[r] # "none" /\ name[r] = n

\* InitOrganization keeps the promise of UniqueNames for the one organisation, although
\* one may be deleted and another initialised.
OrgsImplementUniqueNames == OneOrganization!Spec

\* CreateRole and the seeding keep it for the names of roles, although a role may be
\* deleted, while others look for its name, and the name be used again.
RolesImplementUniqueNames == RoleNames!Spec

-----------------------------------------------------------------------------
(* What the documentation says and the code does not do *)

\* requirements.md, FR-003: "Built-in roles always present".  At the latest when no
\* InitOrganization is being executed, a live organisation has all of them.
BuiltinsAlwaysPresent ==
    (LiveOrgs # {} /\ \A i \in Inits : ipc[i] \notin InitBusy)
        => \A n \in BuiltinNames : LiveRoles(n) # {}

=============================================================================
