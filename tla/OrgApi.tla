-------------------------------- MODULE OrgApi --------------------------------
(***************************************************************************)
(* The whole API over one store of typed entities: a process reads its     *)
(* configuration and serves, and the 31 methods of Handlers are called     *)
(* concurrently, each with the function of the manager behind it.          *)
(*                                                                         *)
(* Where the other modules follow the protocol of one component, this one  *)
(* follows what is written: the properties and edges of every entity, and  *)
(* the fields of every request and answer.  A function of the manager is   *)
(* its first read of the store, which decides (the operators of this       *)
(* module named after the functions), and the calls of the store it then   *)
(* makes one after the other (a sequence of steps).                        *)
(*                                                                         *)
(* A call that is never continued stands for one whose process has died,   *)
(* so the process need not be seen to die.                                 *)
(***************************************************************************)
EXTENDS EntityStore, Schema, Handlers, Configuration, SequencesExt

CONSTANTS
    Inputs,     \* the environments a process may be started with
    Bodies,     \* Bodies[n][m]: what the n-th call may carry to the method m, in the
                \* fields of its body; as many calls are made as it is long
    Ids,        \* Ids[n]: ids that a n-th call's path may name, of entities of any type or of none
    Fresh,      \* Fresh[n]: the ids and secrets that are new to the n-th call
    Stores,     \* the stores a process may find: [entity, edges]
    Builtins,   \* the names of the roles that seedBuiltinRoles creates
    Self,       \* the service codevaldorg
    MaxFaults   \* bound: failing store calls in a behaviour

Calls     == 1..Len(Bodies)
CallIds   == UNION {Ids[n] \union ToSet(Fresh[n]) : n \in Calls}
StoreIds  == UNION {DOMAIN s.entity : s \in Stores}
EntityIds == CallIds \union StoreIds

StoreEdges == UNION {s.edges : s \in Stores}

ASSUME OrgApiAssumption ==
    /\ MaxFaults \in Nat
    /\ Inputs \subseteq Environments /\ \A env \in Inputs : env.given \subseteq env.set
    /\ \A n \in Calls : DOMAIN Bodies[n] \subseteq Methods \ {Nil}

\* What is new to a call is new to every other, and to the stores.
ASSUME FreshAssumption ==
    /\ \A n \in Calls : Len(Fresh[n]) \in Nat /\ DOMAIN Fresh[n] = 1..Len(Fresh[n])
    /\ Len(Builtins) \in Nat /\ \A n \in Calls : Len(Fresh[n]) >= 4 /\ Len(Fresh[n]) > Len(Builtins)
    /\ \A n, m \in Calls : \A j \in DOMAIN Fresh[n], k \in DOMAIN Fresh[m] :
          Fresh[n][j] = Fresh[m][k] => n = m /\ j = k
    /\ \A n \in Calls, s \in Stores : ToSet(Fresh[n]) \intersect DOMAIN s.entity = {}

\* What the functions that look at no type may leave on an entity.
Stray == {"deprecated_at", "revoked_at", "updated_at", "display_name", "description"}

\* The properties conform to the type.
Proper(type, props) ==
    /\ Types[type].required \subseteq DOMAIN props
    /\ DOMAIN props \subseteq Declared[type] \union Stray
    /\ type \in {"User", "Invitation"} => props.status \in Options[type].status

\* A store has entities of the types of the schema, as calls have left them, and its edges
\* join them.
ASSUME StoresAssumption ==
    \A s \in Stores :
        /\ \A i \in DOMAIN s.entity :
            LET e == s.entity[i] IN
            /\ e = [id |-> i, type |-> e.type, props |-> e.props, live |-> e.live]
            /\ e.type \in DOMAIN Types /\ e.live \in BOOLEAN /\ Proper(e.type, e.props)
        /\ \A d \in s.edges :
            /\ {d.from, d.to} \subseteq DOMAIN s.entity
            /\ d.name = "has_invitation" => s.entity[d.from].type = "User"

\* The fields of a body that name ends of edges, and the types that the schema has there.
EndFields == [
    InviteUser        |-> [invited_by_user_id |-> "User", role_ids |-> "Role"],
    GrantMembership   |-> [user_id |-> "User", role_id |-> "Role"],
    CreateOAuthClient |-> [allowed_scope_ids |-> "Scope"]]

\* A body has the fields of its method.  What it names as an end of an edge is any of the
\* ids, whatever is there; the fields of an invitation and of a client may be left empty.
ASSUME BodiesAssumption ==
    \A n \in Calls : \A m \in DOMAIN Bodies[n] : \A body \in Bodies[n][m] :
        /\ DOMAIN body \subseteq Fields[m]
        /\ m \in DOMAIN EndFields => \A f \in DOMAIN EndFields[m] :
              \/ body[f] \in EntityIds
              \/ body[f] = Nil /\ m # "GrantMembership"

VARIABLES
    phase,   \* where the process is
    cfg,     \* its configuration, once it serves
    entity,  \* the entities of the store, by id
    edges,   \* its edges: [from, name, to]
    req,     \* each call's method and the fields of its request; a call begins once
    todo,    \* the calls of the store it has still to make
    result,  \* the entities it will answer with
    code,    \* the code it was answered with, "none" before
    answer,  \* and the messages
    touched, \* history: the calls that have changed the store
    faults   \* failures so far

store   == <<entity, edges>>
calling == <<req, todo, result, code, answer>>
vars    == <<phase, cfg, store, calling, touched, faults>>

-----------------------------------------------------------------------------
(* The store *)

NoEntity  == [id |-> Nil, type |-> Nil, props |-> <<>>, live |-> FALSE]
Entity(id, type, props) == [id |-> id, type |-> type, props |-> props, live |-> TRUE]
NoRequest == [method |-> Nil, v |-> <<>>]

Live(type)          == {e \in {entity[i] : i \in EntityIds} : e.live /\ e.type = type}
With(type, key, x)  == {e \in Live(type) : propStr(e.props, key) = x}

\* The calls of the store that a function of the manager makes after its first read.
Create(id, type, props) ==
    [do |-> "create", entity |-> Entity(id, type, props), shown |-> FALSE]
Patch(id, props)        == [do |-> "patch", id |-> id, props |-> props, shown |-> FALSE]
Delete(id)              == [do |-> "delete", id |-> id]
Relate(from, name, to)  == [do |-> "relate", edge |-> [from |-> from, name |-> name, to |-> to]]
Unless(name)            == [do |-> "unless", name |-> name]  \* when there is such a role, the next is left out
Read                    == [do |-> "read"]                   \* a list whose answer is known
Hash                    == [do |-> "hash"]                   \* hashArgon2id, no call of the store

\* The call answers with the entity that this step writes, as the store returns it.
Shown(step) == [step EXCEPT !.shown = TRUE]

\* What the first read leads to: an error, or the calls that follow.  The handler
\* converts the entities es, when they are not those the store answers with later.
Refuse(err)        == [err |-> err, steps |-> <<>>, es |-> {}]
Proceed(steps, es) == [err |-> "none", steps |-> steps, es |-> es]

Unavailable == "ErrTemporarilyUnavailable"

\* GetEntity: any error is as good as an unknown id.
Get(o, id, err, Then(_)) ==
    LET found == {i \in {id} \intersect EntityIds : o = "ok" /\ entity[i].live}
    IN  IF found = {} THEN {Refuse(err)} ELSE {Then(entity[i]) : i \in found}

\* ListEntities, and the first of what it answers, in no order the code asks for.
First(o, found, err, missing, Then(_)) ==
    IF o = "fail" THEN {Refuse(err)}
    ELSE IF found = {} THEN {Refuse(missing)}
    ELSE {Then(e) : e \in found}

\* ListEntities, by calls that go on when nothing is found.
None(o, found, exists, steps) ==
    IF o = "fail" THEN {Refuse(Unavailable)}
    ELSE IF found # {} THEN {Refuse(exists)}
    ELSE {Proceed(steps, {})}

All(o, found) == IF o = "fail" THEN {Refuse(Unavailable)} ELSE {Proceed(<<>>, found)}

\* The fields that a request gives, as the properties of the same names.
Given(v, keys) == [k \in {f \in keys : v[f] # Nil} |-> v[k]]

Owned == [agency_id |-> Agency]
New   == [created_at |-> Instant, updated_at |-> Instant] ++ Owned
Now   == [updated_at |-> Instant]

-----------------------------------------------------------------------------
(* Organizations *)

\* For each name a list, and unless it finds the role, its creation.
SeedBuiltins(ids) ==
    [j \in 1..(2 * Len(Builtins)) |->
        LET k == (j + 1) \div 2 IN
        IF j % 2 = 1 THEN Unless(Builtins[k])
        ELSE Create(ids[k + 1], "Role",
                    [name |-> Builtins[k], builtin |-> "true", display_name |-> "Builtin"] ++ New)]

InitOrganization(v, o, ids) ==
    None(o, Live("Organization"), "ErrOrgAlreadyExists",
         <<Shown(Create(ids[1], "Organization", [enabled |-> "true"] ++ v ++ New))>>
         \o SeedBuiltins(ids))

WithOrganization(o, Then(_)) ==
    First(o, Live("Organization"), Unavailable, "ErrOrgNotFound", Then)

GetOrganization(o) == WithOrganization(o, LAMBDA e : Proceed(<<>>, {e}))

\* Mutant: a patch of the organisation as it was read.
UpdateOrganizationWhole(v, o) ==
    WithOrganization(o, LAMBDA e : Proceed(
        <<Shown(Patch(e.id, Given(v, DOMAIN v) ++ Now ++ e.props))>>, {}))

UpdateOrganization(v, o) ==
    WithOrganization(o, LAMBDA e : Proceed(
        <<Shown(Patch(e.id, Given(v, DOMAIN v) ++ Now))>>, {}))

DisableOrganization(o) ==
    WithOrganization(o, LAMBDA e : Proceed(
        <<Shown(Patch(e.id, [enabled |-> "false", disabled_at |-> Instant] ++ Now))>>, {}))

DeleteOrganization(o) == WithOrganization(o, LAMBDA e : Proceed(<<Delete(e.id)>>, {}))

-----------------------------------------------------------------------------
(* Users and invitations *)

InviteUser(v, o, ids) ==
    None(o, With("User", "email", v.email), "ErrUserAlreadyExists",
         <<Create(ids[1], "User", [email |-> v.email, status |-> "invited",
                                   display_name |-> v.display_name] ++ New),
           Shown(Create(ids[2], "Invitation",
                        [token_hash |-> ids[3], status |-> "pending",
                         expires_at |-> Instant, created_at |-> Instant] ++ Owned)),
           Relate(ids[1], "has_invitation", ids[2])>>
         \o (IF v.invited_by_user_id = Nil THEN <<>>
             ELSE <<Relate(ids[2], "invited_by", v.invited_by_user_id)>>)
         \o (IF v.role_ids = Nil THEN <<>>
             ELSE <<Relate(ids[2], "will_grant_role", v.role_ids)>>))

Invited(i) == {e.from : e \in {d \in edges : d.name = "has_invitation" /\ d.to = i}}

\* Mutant: the two patches change places with their ids.
AcceptingSwapped(user, inv) == <<
    Read,
    Shown(Patch(inv, [status |-> "active"] ++ Now)),
    Patch(user, [status |-> "accepted", accepted_at |-> Instant])>>

\* The lookup of the user, which is a read of its own, and the two patches.
Accepting(user, inv) == <<
    Read,
    Shown(Patch(user, [status |-> "active"] ++ Now)),
    Patch(inv, [status |-> "accepted", accepted_at |-> Instant])>>

\* Time is left to Invitations: here no invitation runs out.
AcceptInvitation(v, o) ==
    First(o, With("Invitation", "token_hash", v.token), Unavailable, "ErrInvitationNotFound",
          LAMBDA e :
            IF propStr(e.props, "status") = "accepted" THEN Refuse("ErrInvitationAlreadyAccepted")
            ELSE IF propStr(e.props, "status") = "expired" THEN Refuse("ErrInvitationExpired")
            ELSE IF Invited(e.id) = {} THEN Refuse(Unavailable)
            ELSE Proceed(Accepting(CHOOSE u \in Invited(e.id) : TRUE, e.id), {}))

GetUser(v, o, Then(_)) ==
    Get(o, v.user_id, "ErrUserNotFound",
        LAMBDA e : IF e.type = "User" THEN Then(e) ELSE Refuse("ErrUserNotFound"))

\* SuspendUser, ReactivateUser and DeleteUser write a status and go by it.
ChangeUser(v, o, props) == GetUser(v, o, LAMBDA e :
    Proceed(<<Shown(Patch(e.id, props ++ Now))>>, {}))

ListUsers(v, o) ==
    All(o, {e \in Live("User") : v.status_filter \in {Nil, propStr(e.props, "status")}})

-----------------------------------------------------------------------------
(* Roles and scopes *)

CreateRole(v, o, ids) ==
    None(o, With("Role", "name", v.name), "ErrRoleAlreadyExists",
         <<Shown(Create(ids[1], "Role", [builtin |-> "false"] ++ v ++ New))>>)

\* Only the flag builtin is looked at, not the type.
WithCustomRole(v, o, Then(_)) ==
    Get(o, v.role_id, "ErrRoleNotFound",
        LAMBDA e : IF propBool(e.props, "builtin") THEN Refuse("ErrRoleBuiltinImmutable")
                   ELSE Then(e))

UpdateRole(v, o) ==
    WithCustomRole(v, o, LAMBDA e : Proceed(
        <<Shown(Patch(e.id, Given(v, {"display_name", "description"}) ++ Now))>>, {}))

DeleteRole(v, o) == WithCustomRole(v, o, LAMBDA e : Proceed(<<Delete(e.id)>>, {}))

Malformed == {"malformed"}  \* names that scopeGrammar does not match
Reserved  == {"org:read"}   \* names with one of the reservedPrefixes

RegisterScope(v, o, ids) ==
    LET found == With("Scope", "name", v.name) IN
    IF v.name \in Malformed THEN {Refuse("ErrInvalidScope")}
    ELSE IF v.name \in Reserved /\ v.registered_by # Self THEN {Refuse("ErrScopeReserved")}
    ELSE IF found = {} THEN None(o, {}, Nil, <<Shown(Create(ids[1], "Scope", v ++ New))>>)
    ELSE First(o, found, Unavailable, Nil, LAMBDA e :
            IF propStr(e.props, "registered_by") # v.registered_by
            THEN Refuse("ErrScopeNameCollision")
            ELSE Proceed(<<Shown(Patch(e.id, [description |-> v.description,
                                              deprecated_at |-> Nil] ++ Now))>>, {}))

\* Mutant: a scope is deleted, not marked.
DeprecateScopeDeleting(v, o) ==
    Get(o, v.scope_id, "ErrScopeNotFound", LAMBDA e : Proceed(<<Delete(e.id)>>, {}))

\* Neither of the next two looks at the type.
DeprecateScope(v, o) ==
    Get(o, v.scope_id, "ErrScopeNotFound",
        LAMBDA e : Proceed(<<Shown(Patch(e.id, [deprecated_at |-> Instant] ++ Now))>>, {}))

RevokeMembership(v, o) ==
    Get(o, v.membership_id, "ErrMembershipNotFound",
        LAMBDA e : Proceed(<<Shown(Patch(e.id, [revoked_at |-> Instant]))>>, {}))

-----------------------------------------------------------------------------
(* Memberships, clients and tokens *)

\* Mutant: the role and the user change places.
GrantMembershipSwapped(v, ids) ==
    {Proceed(<<Shown(Create(ids[1], "Membership",
                            [granted_at |-> Instant, granted_by |-> v.granted_by] ++ Owned)),
               Relate(v.role_id, "has_membership", ids[1]),
               Relate(ids[1], "grants_role", v.user_id)>>, {})}

GrantMembership(v, ids) ==
    {Proceed(<<Shown(Create(ids[1], "Membership",
                            [granted_at |-> Instant, granted_by |-> v.granted_by] ++ Owned)),
               Relate(v.user_id, "has_membership", ids[1]),
               Relate(ids[1], "grants_role", v.role_id)>>, {})}

Held(u) == {e.to : e \in {d \in edges : d.name = "has_membership" /\ d.from = u}}

\* With a user, the second list is taken at the moment of the first: Memberships
\* has the two apart.
ListMemberships(v, o) ==
    All(o, {e \in Live("Membership") : v.user_id = Nil \/ e.id \in Held(v.user_id)})

Secret(client, id) == <<
    Hash,
    Create(id, "ClientSecret", [secret_hash |-> "phc", created_at |-> Instant] ++ Owned),
    Relate(client, "has_client_secret", id)>>

CreateOAuthClient(v, ids) ==
    {Proceed(<<Shown(Create(ids[1], "OAuthClient",
                  [k \in {"name", "client_type", "description", "allowed_grant_types"} |-> v[k]]
                  ++ [client_id |-> ids[4]] ++ New))>>
             \o (IF v.redirect_uris = Nil THEN <<>>
                 ELSE <<Create(ids[2], "RedirectURI",
                               [uri |-> v.redirect_uris, created_at |-> Instant] ++ Owned),
                        Relate(ids[1], "has_redirect_uri", ids[2])>>)
             \o (IF v.allowed_scope_ids = Nil THEN <<>>
                 ELSE <<Relate(ids[1], "allows_scope", v.allowed_scope_ids)>>)
             \o (IF v.client_type = "confidential" THEN Secret(ids[1], ids[3]) ELSE <<>>), {})}

WithClient(v, o, Then(_)) ==
    First(o, With("OAuthClient", "client_id", v.client_id),
          "ErrOAuthClientNotFound", "ErrOAuthClientNotFound", Then)

RotateClientSecret(v, o, ids) == WithClient(v, o, LAMBDA e : Proceed(Secret(e.id, ids[1]), {}))

DeleteOAuthClient(v, o) == WithClient(v, o, LAMBDA e : Proceed(<<Delete(e.id)>>, {}))

\* What Revoke reads, and whether it can, decides nothing here.
Revoke(v, ids) ==
    {Proceed(<<Create(ids[1], "TokenRevocation",
                      [token_hash |-> v.token, revoked_at |-> Instant, expires_at |-> Instant,
                       reason |-> IF v.reason = Nil THEN "user_logout" ELSE v.reason]
                      ++ Owned)>>, {})}

ListAuditEvents(v, o) ==
    All(o, {e \in Live("AuditEvent") :
              /\ v.event_type_filter \in {Nil, propStr(e.props, "event_type")}
              /\ v.actor_id_filter \in {Nil, propStr(e.props, "actor_id")}
              /\ v.subject_id_filter \in {Nil, propStr(e.props, "subject_id")}})

\* The function of the manager behind each method.
Manager(method, v, o, ids) ==
    CASE method = "InitOrganization"    -> InitOrganization(v, o, ids)
      [] method = "GetOrganization"     -> GetOrganization(o)
      [] method = "UpdateOrganization"  -> UpdateOrganization(v, o)
      [] method = "DisableOrganization" -> DisableOrganization(o)
      [] method = "DeleteOrganization"  -> DeleteOrganization(o)
      [] method = "InviteUser"          -> InviteUser(v, o, ids)
      [] method = "AcceptInvitation"    -> AcceptInvitation(v, o)
      [] method = "GetUser"             -> GetUser(v, o, LAMBDA e : Proceed(<<>>, {e}))
      [] method = "ListUsers"           -> ListUsers(v, o)
      [] method = "SuspendUser"         -> ChangeUser(v, o, [status |-> "suspended"])
      [] method = "ReactivateUser"      -> ChangeUser(v, o, [status |-> "active"])
      [] method = "DeleteUser"          ->
            ChangeUser(v, o, [status |-> "deleted", deleted_at |-> Instant])
      [] method = "CreateRole"          -> CreateRole(v, o, ids)
      [] method = "UpdateRole"          -> UpdateRole(v, o)
      [] method = "DeleteRole"          -> DeleteRole(v, o)
      [] method = "ListRoles"           -> All(o, Live("Role"))
      [] method = "RegisterScope"       -> RegisterScope(v, o, ids)
      [] method = "DeprecateScope"      -> DeprecateScope(v, o)
      [] method = "ListScopes"          -> All(o, Live("Scope"))
      [] method = "GrantMembership"     -> GrantMembership(v, ids)
      [] method = "RevokeMembership"    -> RevokeMembership(v, o)
      [] method = "ListMemberships"     -> ListMemberships(v, o)
      [] method = "CreateOAuthClient"   -> CreateOAuthClient(v, ids)
      [] method = "RotateClientSecret"  -> RotateClientSecret(v, o, ids)
      [] method = "ListOAuthClients"    -> All(o, Live("OAuthClient"))
      [] method = "DeleteOAuthClient"   -> DeleteOAuthClient(v, o)
      [] method \in {"Authorize", "Token"} -> {Refuse(Unavailable)}
      [] method = "Introspect"          -> {Proceed(<<>>, {})}
      [] method = "Revoke"              -> Revoke(v, ids)
      [] method = "ListAuditEvents"     -> ListAuditEvents(v, o)

-----------------------------------------------------------------------------
(* A process and its calls *)

Init ==
    /\ phase = "starting" /\ cfg = <<>>
    /\ \E s \in Stores :
        /\ entity = [i \in EntityIds |-> IF i \in DOMAIN s.entity THEN s.entity[i] ELSE NoEntity]
        /\ edges = s.edges
    /\ req = [c \in Calls |-> NoRequest]
    /\ todo = [c \in Calls |-> <<>>]
    /\ result = [c \in Calls |-> {}]
    /\ code = [c \in Calls |-> "none"]
    /\ answer = [c \in Calls |-> {}]
    /\ touched = {}
    /\ faults = 0

\* Load, and Run after it: OrgServer has what happens there.
Start ==
    /\ phase = "starting"
    /\ \E env \in Inputs, binary \in {"server", "dev"} :
        LET seen == IF binary = "dev" THEN DevEnvironment(env) ELSE env IN
        IF Starts(seen) THEN phase' = "serving" /\ cfg' = Loaded(seen)
        ELSE phase' = "exited" /\ UNCHANGED cfg
    /\ UNCHANGED <<store, calling, touched, faults>>

Arrives(c) ==
    /\ phase = "serving"
    /\ req[c] = NoRequest /\ \A d \in 1..(c - 1) : req[d] # NoRequest

\* checkAgencyID.
Deny(c) ==
    /\ Arrives(c)
    /\ req' = [req EXCEPT ![c].method = "denied"]
    /\ code' = [code EXCEPT ![c] = "PermissionDenied"]
    /\ UNCHANGED <<phase, cfg, store, todo, result, answer, touched, faults>>

Spend(o) == faults' = faults + FaultCost(o) /\ faults' <= MaxFaults

\* Mutant: an error is reported, but the function goes on.
GoOnHeedless(c, r, err, steps, es) ==
    /\ todo' = [todo EXCEPT ![c] = steps]
    /\ result' = [result EXCEPT ![c] = IF steps = <<>> THEN {} ELSE es]
    /\ code' = [code EXCEPT ![c] = IF err # "none" THEN toGRPCError(err)
                                   ELSE IF steps = <<>> THEN "OK" ELSE @]
    /\ answer' = [answer EXCEPT ![c] = {}]

\* Once a step of a call is done: an error answers it; so does the last step.
GoOn(c, r, err, steps, es) ==
    LET over == err # "none" \/ steps = <<>> IN
    /\ todo' = [todo EXCEPT ![c] = IF over THEN <<>> ELSE steps]
    /\ result' = [result EXCEPT ![c] = IF over THEN {} ELSE es]
    /\ code' = [code EXCEPT ![c] = IF ~over THEN "none"
                                   ELSE IF err = "none" THEN "OK" ELSE toGRPCError(err)]
    /\ answer' = [answer EXCEPT ![c] = IF err = "none" /\ over THEN Answer(r.method, r.v, es)
                                       ELSE {}]

\* Cross takes the fields that a route binds from the path, the others from the body.
Request(method, body, id) ==
    IF method \in OAuthMethods THEN body
    ELSE [f \in Fields[method] |-> IF f \in Routes[method].bound THEN id ELSE body[f]]

\* The methods whose first step is no read of the store, or one whose failure shows
\* only in the modules Tokens and OAuthClients.
Sightless == {"GrantMembership", "CreateOAuthClient"} \union OAuthMethods

\* A call arrives, and its function makes its first read.
Begin(c) ==
    /\ Arrives(c)
    /\ \E m \in DOMAIN Bodies[c] : \E body \in Bodies[c][m], id \in Ids[c], o \in ReadOutcome :
        LET v == Request(m, body, id) IN
        /\ o = "fail" => m \notin Sightless
        /\ Spend(o)
        /\ req' = [req EXCEPT ![c] = [method |-> m, v |-> v]]
        /\ \E p \in Manager(m, v, o, Fresh[c]) : GoOn(c, req'[c], p.err, p.steps, p.es)
    /\ UNCHANGED <<phase, cfg, store, touched>>

Ahead(c, kinds) == phase = "serving" /\ todo[c] # <<>> /\ Head(todo[c]).do \in kinds

\* A later read.
Look(c) ==
    /\ Ahead(c, {"read", "unless"})
    /\ \E o \in ReadOutcome :
        /\ Spend(o)
        /\ LET step == Head(todo[c])
               skip == step.do = "unless" /\ With("Role", "name", step.name) # {}
               rest == IF skip THEN Tail(Tail(todo[c])) ELSE Tail(todo[c])
           IN  GoOn(c, req[c], IF o = "ok" THEN "none" ELSE Unavailable, rest, result[c])
    /\ UNCHANGED <<phase, cfg, store, req, touched>>

\* A panic in a handler ends the process: nothing recovers it.
HashSecret(c) ==
    /\ Ahead(c, {"hash"})
    /\ IF HashPanics(cfg) THEN phase' = "panicked" /\ UNCHANGED calling
       ELSE /\ GoOn(c, req[c], "none", Tail(todo[c]), result[c])
            /\ UNCHANGED <<phase, req>>
    /\ UNCHANGED <<cfg, store, touched, faults>>

\* The entity a step leaves behind.
Written(step) ==
    CASE step.do = "create" -> step.entity
      [] step.do = "patch"  -> [entity[step.id] EXCEPT !.props = step.props ++ @]
      [] step.do = "delete" -> [entity[step.id] EXCEPT !.live = FALSE]
      [] OTHER              -> NoEntity

\* The store refuses a patch of a type that is immutable.  What it does with a write
\* to an entity that was deleted meanwhile is not known here.
Refuses(step)   == step.do = "patch" /\ entity[step.id].type \in Immutable
Refusable(step) == step.do \in {"patch", "delete"} /\ (~entity[step.id].live \/ Refuses(step))

\* Mutant: the error of the store goes to the caller as it is.
WriteErrorRaw(step) == IF Refusable(step) THEN "ErrEntityNotFound" ELSE Unavailable

\* Any error of a write is reported as one that may pass.
WriteError(step) == Unavailable

Write(c) ==
    /\ Ahead(c, {"create", "patch", "delete", "relate"})
    /\ LET step == Head(todo[c]) IN
       \E o \in WriteOutcome :
        /\ Refuses(step) => o = "fail"
        /\ IF o = "fail" /\ Refusable(step) THEN UNCHANGED faults ELSE Spend(o)
        /\ entity' = IF Applied(o) /\ step.do # "relate"
                     THEN [entity EXCEPT ![Written(step).id] = Written(step)] ELSE entity
        /\ edges' = IF Applied(o) /\ step.do = "relate" THEN edges \union {step.edge} ELSE edges
        /\ touched' = IF Applied(o) THEN touched \union {c} ELSE touched
        /\ GoOn(c, req[c], IF o = "ok" THEN "none" ELSE WriteError(step), Tail(todo[c]),
                IF step.do \in {"create", "patch"} /\ step.shown THEN {Written(step)}
                ELSE result[c])
    /\ UNCHANGED <<phase, cfg, req>>

\* Every call is answered, or there is no process to answer it.
Finished ==
    /\ phase \in {"exited", "panicked"} \/ \A c \in Calls : code[c] # "none"
    /\ UNCHANGED vars

Next ==
    \/ Start
    \/ \E c \in Calls : Deny(c) \/ Begin(c) \/ Look(c) \/ HashSecret(c) \/ Write(c)
    \/ Finished

Spec == Init /\ [][Next]_vars

-----------------------------------------------------------------------------
(* Properties *)

\* The types of the variables.
TypeOK ==
    /\ phase \in {"starting", "serving", "exited", "panicked"}
    /\ \A i \in EntityIds :
        entity[i] # NoEntity =>
            /\ entity[i].id = i /\ entity[i].type \in DOMAIN Types /\ entity[i].live \in BOOLEAN
    /\ \A d \in edges : {d.from, d.to} \subseteq EntityIds
    /\ \A c \in Calls :
        /\ code[c] \in {"none", "OK", "Internal"} \union DOMAIN CodeTable
        /\ code[c] # "none" => todo[c] = <<>> /\ result[c] = {}
        /\ answer[c] # {} => code[c] = "OK"
    /\ touched \subseteq Calls
    /\ faults \in 0..MaxFaults

\* An error other than Unavailable is a promise: the call has changed nothing, and its
\* caller need not wonder whether to repeat it or to clean up.
RefusedWroteNothing == \A c \in touched : code[c] \in {"none", "OK", "Unavailable"}

\* What the registrar declares a read changes nothing, so Cross may repeat it.
ReadsWroteNothing ==
    \A c \in touched : req[c].method \in DOMAIN Routes => Routes[req[c].method].write

\* Whatever is called on whatever ids, and wherever a call stops, every entity of the
\* store has the properties its type requires and, but for the stray ones, no others than
\* it declares; and the status of a user or an invitation is one of the options.
EntitiesConform ==
    \A i \in EntityIds : entity[i] # NoEntity => Proper(entity[i].type, entity[i].props)

\* The request r names i where the schema has an entity of the type.
Names(r, i, type) ==
    /\ r.method \in DOMAIN EndFields
    /\ \E f \in DOMAIN EndFields[r.method] : EndFields[r.method][f] = type /\ r.v[f] = i

\* An end of an edge is of the type, or is what a request has named for such an end: the
\* store is not asked what that id is.
End(i, type) == entity[i].type = type \/ \E c \in touched : Names(req[c], i, type)

\* An edge that a call has made leaves an entity of a type that declares it and arrives at
\* one of the type declared, so far as its ends were not chosen by a client.
EdgesConform ==
    \A d \in edges \ StoreEdges : \E type \in DOMAIN Types :
        /\ End(d.from, type)
        /\ \E other \in DOMAIN Types : <<d.name, other>> \in Types[type].edges /\ End(d.to, other)

\* The call whose step this is, and the entities that the step changes.
Stepping(c) == todo'[c] # todo[c]
Changed     == IF entity' = entity THEN {} ELSE {i \in EntityIds : entity'[i] # entity[i]}

\* What a type requires is changed by the calls about that type only, although four
\* functions patch or delete the entity of any id: DeprecateScope, RevokeMembership,
\* UpdateRole and DeleteRole do not look at its type.
OwnersStep ==
    \A i \in Changed : \A k \in DOMAIN entity[i].props :
        /\ k \in Types[entity[i].type].required
        /\ entity[i].props[k] # entity'[i].props[k]
        => \E c \in Calls :
            /\ Stepping(c)
            /\ \/ entity[i].type = "Organization" /\ req[c].method \in DOMAIN OrganizationFields
               \/ entity[i].type \in {"User", "Invitation"}
                  /\ req[c].method \in DOMAIN UserFields

OwnersOnly == [][OwnersStep]_vars

\* The texts that clients write.
Editable == {"name", "description", "display_name", "contact_email", "logo_url"}

\* No update is lost: such a text changes only to the one that the client of the writing
\* call gave for it, so a patch never brings back what another patch has replaced since
\* the function read the entity.
PatchesStep ==
    \A i \in Changed : \A k \in Editable \intersect DOMAIN entity[i].props :
        entity'[i].props[k] # entity[i].props[k] =>
            \E c \in Calls :
                Stepping(c) /\ k \in DOMAIN req[c].v /\ req[c].v[k] = entity'[i].props[k]

PatchesKept == [][PatchesStep]_vars

\* A role that is built in, what DeprecateScope and RevokeMembership may leave on it,
\* and what it says beside.
Builtin(i) == entity[i].type = "Role" /\ propBool(entity[i].props, "builtin")
Marks      == {"deprecated_at", "revoked_at", "updated_at"}
Lasting(i) == {<<k, entity[i].props[k]>> : k \in DOMAIN entity[i].props \ Marks}

\* requirements.md:60: built-in roles "cannot be deleted or renamed".  No step of the 31
\* methods, whatever id it was given, deletes one, nor does it change or add anything but
\* the marks that two calls for other types set on any entity.
BuiltinsStep ==
    \A i \in Changed : Builtin(i) =>
        entity'[i].live = entity[i].live /\ Lasting(i)' = Lasting(i)

BuiltinsKept == [][BuiltinsStep]_vars

\* Fields of a message that no handler fills.
Unfilled == {<<"GrantMembership", "user_id">>, <<"GrantMembership", "role_id">>,
             <<"ListMemberships", "user_id">>, <<"InviteUser", "email">>}

\* A call that succeeds shows its client, in the fields of the same names, what the
\* request said, even when other calls have written the entity before the answer.
AnswerShows ==
    \A c \in Calls : \A m \in answer[c] :
        \A f \in DOMAIN m \intersect DOMAIN req[c].v :
            \/ req[c].v[f] \in {Nil, m[f]}
            \/ <<req[c].method, f>> \in Unfilled

\* A configuration that Load lets pass never makes argon2 panic: parseUint8 cuts the
\* number of threads before the range check sees it, not after.
HashNeverPanics == phase # "panicked"

=============================================================================
