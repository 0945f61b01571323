------------------------------ MODULE OrgApiProofs ------------------------------
(***************************************************************************)
(* Proofs about OrgApi and the Configuration it serves with, for any       *)
(* environments, any number of calls with any requests, any store and any  *)
(* number of failures.                                                     *)
(***************************************************************************)
EXTENDS OrgApi, SequenceTheorems, TLAPS

-----------------------------------------------------------------------------
(* The configuration *)

LEMMA Remainder ==
    ASSUME NEW n \in Nat, n > 0, NEW x \in Nat
    PROVE  /\ x % n \in 0..(n - 1)
           /\ x \in 0..(n - 1) => x % n = x
  OBVIOUS

\* What the variables of the hash are read as.
LEMMA Parsed ==
    ASSUME NEW text \in Nat \union {Unset, Garbage}, NEW def \in Nat
    PROVE  /\ parseUint32(text, def) \in Nat
           /\ parseUint8(text, def) \in 0..(Byte - 1)
<1>1. parseUint32(text, def) \in Nat
  BY ConfigurationAssumption DEF parseUint32
<1>2. parseUint8(text, def) \in 0..(Byte - 1)
  BY <1>1, Remainder, ConfigurationAssumption DEF parseUint8
<1> QED BY <1>1, <1>2

\* No environment lets a process start whose hashes panic: the range check of Load sees
\* the number of threads that argon2 will be given.
THEOREM StartedHashes ==
    ASSUME NEW env \in Environments, Starts(env)
    PROVE  ~HashPanics(Loaded(env))
<1> DEFINE threads == parseUint8(env.threads, 4)
<1>1. env.threads \in Nat \union {Unset, Garbage} /\ env.time \in Nat \union {Unset, Garbage}
  BY DEF Environments
<1>2. threads \in 0..(Byte - 1) /\ parseUint32(env.time, 3) \in Nat
  BY <1>1, Parsed
<1>3. threads >= 1 /\ parseUint32(env.time, 3) >= 1
  BY DEF Starts, InRange, Loaded
<1>4. threads % Byte = threads
  BY <1>2, Remainder, ConfigurationAssumption
<1> QED BY <1>2, <1>3, <1>4 DEF HashPanics, Loaded

\* The binary cmd/dev supplies no Cross and no password: it starts only where the
\* environment gives both, whatever else it gives.
THEOREM DevNeedsCross ==
    ASSUME NEW env \in Environments, Starts(DevEnvironment(env))
    PROVE  {"CROSS_ENDPOINT", "ARANGO_PASSWORD"} \subseteq env.given
<1>1. DevEnvironment(env).given = env.given \union (DevDefaults \ env.set)
  BY DEF DevEnvironment, Environments
<1>2. Required \subseteq env.given \union DevDefaults
  BY <1>1 DEF Starts
<1> QED BY <1>2 DEF Required, DevDefaults

LEMMA DevIsEnvironment ==
    ASSUME NEW env \in Environments
    PROVE  DevEnvironment(env) \in Environments
  BY DEF DevEnvironment, Environments, DevDefaults, Required

-----------------------------------------------------------------------------
(* No panic *)

\* A serving process has a configuration that does not make the hash panic.
Sound == phase # "panicked" /\ (phase = "serving" => ~HashPanics(cfg))

LEMMA StartSound == Start => Sound'
<1> SUFFICES ASSUME Start PROVE Sound'
  OBVIOUS
<1>1. PICK env \in Inputs, binary \in {"server", "dev"} :
        LET seen == IF binary = "dev" THEN DevEnvironment(env) ELSE env IN
        IF Starts(seen) THEN phase' = "serving" /\ cfg' = Loaded(seen)
        ELSE phase' = "exited" /\ UNCHANGED cfg
  BY DEF Start
<1> DEFINE seen == IF binary = "dev" THEN DevEnvironment(env) ELSE env
<1>2. seen \in Environments
  BY OrgApiAssumption, DevIsEnvironment
<1>3. CASE Starts(seen)
  <2>1. phase' = "serving" /\ cfg' = Loaded(seen)
    BY <1>1, <1>3
  <2>2. ~HashPanics(Loaded(seen))
    BY <1>2, <1>3, StartedHashes
  <2> QED BY <2>1, <2>2 DEF Sound
<1>4. CASE ~Starts(seen)
  BY <1>1, <1>4 DEF Sound
<1> QED BY <1>3, <1>4

LEMMA NextSound == Sound /\ [Next]_vars => Sound'
<1> SUFFICES ASSUME Sound, [Next]_vars PROVE Sound'
  OBVIOUS
<1>1. CASE Start
  BY <1>1, StartSound
<1>2. ASSUME NEW c \in Calls, Deny(c) \/ Begin(c) \/ Look(c) \/ Write(c) PROVE Sound'
  BY <1>2 DEF Deny, Begin, Look, Write, Sound
<1>3. ASSUME NEW c \in Calls, HashSecret(c) PROVE Sound'
  BY <1>3 DEF HashSecret, Ahead, Sound
<1>4. CASE UNCHANGED vars
  BY <1>4 DEF Sound, vars
<1> QED BY <1>1, <1>2, <1>3, <1>4 DEF Next, Finished

\* No call makes the process panic in argon2, whatever the environment it started with.
THEOREM NoPanic == Spec => []HashNeverPanics
<1>1. Init => Sound
  BY DEF Init, Sound
<1>2. Sound => HashNeverPanics
  BY DEF Sound, HashNeverPanics
<1> QED BY <1>1, <1>2, NextSound, PTL DEF Spec

-----------------------------------------------------------------------------
(* What an error promises *)

\* The functions over the calls, and the calls that have written.
Begun ==
    /\ code = [c \in Calls |-> code[c]] /\ req = [c \in Calls |-> req[c]]
    /\ todo = [c \in Calls |-> todo[c]] /\ touched \subseteq Calls
    /\ \A c \in Calls : todo[c] # <<>> => req[c] # NoRequest
    /\ \A c \in touched : req[c] # NoRequest

Promise == Begun /\ RefusedWroteNothing

\* The error of a write, or of a later read, is reported as Unavailable.
LEMMA UnavailableCode == toGRPCError(Unavailable) = "Unavailable"
<1> DEFINE codes == {k \in DOMAIN CodeTable : Unavailable \in CodeTable[k]}
<1>1. codes = {"Unavailable"}
  BY DEF CodeTable, Unavailable
<1> QED BY <1>1 DEF toGRPCError

LEMMA GoOnKeeps ==
    ASSUME Begun, NEW c \in Calls, NEW r, NEW err \in {"none", Unavailable}, NEW steps, NEW es,
           GoOn(c, r, err, steps, es)
    PROVE  /\ code' = [d \in Calls |-> code'[d]] /\ todo' = [d \in Calls |-> todo'[d]]
           /\ code'[c] \in {"none", "OK", "Unavailable"}
           /\ \A d \in Calls \ {c} : code'[d] = code[d] /\ todo'[d] = todo[d]
  BY UnavailableCode DEF GoOn, Begun

\* A step that follows the first read of a call.
LEMMA LaterKeeps ==
    ASSUME Promise, NEW c \in Calls, todo[c] # <<>>, UNCHANGED req,
           NEW r, NEW err \in {"none", Unavailable}, NEW steps, NEW es,
           GoOn(c, r, err, steps, es),
           touched' \subseteq touched \union {c}
    PROVE  Promise'
<1>1. req[c] # NoRequest
  BY DEF Promise, Begun
<1>2. Begun'
  BY <1>1, GoOnKeeps DEF Promise, Begun
<1>3. RefusedWroteNothing'
  BY GoOnKeeps DEF Promise, Begun, RefusedWroteNothing
<1> QED BY <1>2, <1>3 DEF Promise

LEMMA NextPromise == Promise /\ [Next]_vars => Promise'
<1> SUFFICES ASSUME Promise, [Next]_vars PROVE Promise'
  OBVIOUS
<1>1. CASE Start
  BY <1>1 DEF Start, calling, Promise, Begun, RefusedWroteNothing
<1>2. ASSUME NEW c \in Calls, Deny(c) PROVE Promise'
  <2>1. c \notin touched
    BY <1>2 DEF Deny, Arrives, Promise, Begun
  <2>2. code' = [code EXCEPT ![c] = "PermissionDenied"] /\ UNCHANGED <<todo, touched>>
    BY <1>2 DEF Deny
  <2>3. req' = [d \in Calls |-> req'[d]] /\ \A d \in Calls \ {c} : req'[d] = req[d]
    BY <1>2, Zenon DEF Deny, Promise, Begun
  <2>4. todo[c] # <<>> => req'[c] # NoRequest
    BY <1>2 DEF Deny, Arrives, Promise, Begun
  <2> QED BY <2>1, <2>2, <2>3, <2>4 DEF Promise, Begun, RefusedWroteNothing
<1>3. ASSUME NEW c \in Calls, Begin(c) PROVE Promise'
  <2>1. PICK m, v, p :
            /\ m \in DOMAIN Bodies[c]
            /\ req' = [req EXCEPT ![c] = [method |-> m, v |-> v]]
            /\ GoOn(c, req'[c], p.err, p.steps, p.es)
    BY <1>3 DEF Begin
  <2>2. c \notin touched /\ UNCHANGED touched
    BY <1>3 DEF Begin, Arrives, Promise, Begun
  <2>3. m # Nil
    BY <2>1, OrgApiAssumption
  <2>4. req' = [d \in Calls |-> req'[d]] /\ req'[c].method = m
        /\ \A d \in Calls \ {c} : req'[d] = req[d]
    BY <2>1 DEF Promise, Begun
  <2>5. req'[c] # NoRequest
    BY <2>3, <2>4 DEF NoRequest
  <2>6. /\ code' = [d \in Calls |-> code'[d]] /\ todo' = [d \in Calls |-> todo'[d]]
        /\ \A d \in Calls \ {c} : code'[d] = code[d] /\ todo'[d] = todo[d]
    BY <2>1 DEF GoOn, Promise, Begun
  <2> QED BY <2>2, <2>4, <2>5, <2>6 DEF Promise, Begun, RefusedWroteNothing
<1>4. ASSUME NEW c \in Calls, Look(c) PROVE Promise'
  <2>1. PICK err, steps :
            err \in {"none", Unavailable} /\ GoOn(c, req[c], err, steps, result[c])
    BY <1>4 DEF Look
  <2> QED BY <1>4, <2>1, LaterKeeps DEF Look, Ahead
<1>5. ASSUME NEW c \in Calls, HashSecret(c) PROVE Promise'
  <2>1. CASE HashPanics(cfg)
    BY <1>5, <2>1 DEF HashSecret, calling, Promise, Begun, RefusedWroteNothing
  <2>2. CASE ~HashPanics(cfg)
    BY <1>5, <2>2, LaterKeeps DEF HashSecret, Ahead
  <2> QED BY <2>1, <2>2
<1>6. ASSUME NEW c \in Calls, Write(c) PROVE Promise'
  <2>1. PICK err, steps, es :
            err \in {"none", Unavailable} /\ GoOn(c, req[c], err, steps, es)
    BY <1>6 DEF Write, WriteError
  <2>2. touched' \subseteq touched \union {c} /\ UNCHANGED req /\ todo[c] # <<>>
    BY <1>6 DEF Write, Ahead
  <2> QED BY <2>1, <2>2, LaterKeeps
<1>7. CASE UNCHANGED vars
  BY <1>7 DEF vars, calling, Promise, Begun, RefusedWroteNothing
<1> QED BY <1>1, <1>2, <1>3, <1>4, <1>5, <1>6, <1>7 DEF Next, Finished

\* A caller that is told of an error, other than that the service is unavailable, may
\* rely on the store being as it was, whatever was called, failed or raced.
THEOREM ErrorsPromise == Spec => []RefusedWroteNothing
<1>1. Init => Promise
  BY DEF Init, Promise, Begun, RefusedWroteNothing
<1>2. Promise => RefusedWroteNothing
  BY DEF Promise
<1> QED BY <1>1, <1>2, NextPromise, PTL DEF Spec

-----------------------------------------------------------------------------
(* What a read promises *)

Lookups == {"GetOrganization", "ListUsers", "GetUser", "ListRoles", "ListScopes",
            "ListMemberships", "ListOAuthClients", "ListAuditEvents"}

LEMMA ReadRoutes == \A m \in DOMAIN Routes : m \notin Lookups => Routes[m].write
  BY DEF Routes, Reads, Writes, Lookups

LEMMA ListEnds == \A o, found : \A p \in All(o, found) : p.steps = <<>>
  BY DEF All, Refuse, Proceed

\* The functions behind the lookups end with their first read.
LEMMA LookupsEnd ==
    ASSUME NEW m \in Lookups, NEW v, NEW o, NEW ids, NEW p \in Manager(m, v, o, ids)
    PROVE  p.steps = <<>>
<1>1. CASE m = "GetOrganization"
  <2>1. p \in GetOrganization(o)
    BY <1>1 DEF Manager
  <2> QED BY <2>1 DEF GetOrganization, WithOrganization, First, Refuse, Proceed
<1>2. CASE m = "GetUser"
  <2>1. p \in GetUser(v, o, LAMBDA e : Proceed(<<>>, {e}))
    BY <1>2 DEF Manager
  <2> QED BY <2>1 DEF GetUser, Get, Refuse, Proceed
<1>3. CASE m = "ListUsers"
  <2>1. p \in ListUsers(v, o)
    BY <1>3 DEF Manager
  <2> QED BY <2>1, ListEnds DEF ListUsers
<1>4. CASE m = "ListRoles"
  <2>1. p \in All(o, Live("Role"))
    BY <1>4 DEF Manager
  <2> QED BY <2>1, ListEnds
<1>5. CASE m = "ListScopes"
  <2>1. p \in All(o, Live("Scope"))
    BY <1>5 DEF Manager
  <2> QED BY <2>1, ListEnds
<1>6. CASE m = "ListMemberships"
  <2>1. p \in ListMemberships(v, o)
    BY <1>6 DEF Manager
  <2> QED BY <2>1, ListEnds DEF ListMemberships
<1>7. CASE m = "ListOAuthClients"
  <2>1. p \in All(o, Live("OAuthClient"))
    BY <1>7 DEF Manager
  <2> QED BY <2>1, ListEnds
<1>8. CASE m = "ListAuditEvents"
  <2>1. p \in ListAuditEvents(v, o)
    BY <1>8 DEF Manager
  <2> QED BY <2>1, ListEnds DEF ListAuditEvents
<1> QED BY <1>1, <1>2, <1>3, <1>4, <1>5, <1>6, <1>7, <1>8 DEF Lookups

\* A lookup has nothing to do after its first read, and has changed nothing.
Idle == Begun /\ \A c \in Calls : req[c].method \in Lookups => todo[c] = <<>> /\ c \notin touched

LEMMA NextIdle == Promise /\ Idle /\ [Next]_vars => Idle'
<1> SUFFICES ASSUME Promise, Idle, [Next]_vars PROVE Idle'
  OBVIOUS
<1>0. Begun'
  BY NextPromise DEF Promise
<1>1. CASE Start
  BY <1>0, <1>1 DEF Start, calling, Idle
<1>2. ASSUME NEW c \in Calls, Deny(c) PROVE Idle'
  <2>1. req[c] = NoRequest /\ UNCHANGED <<todo, touched>>
    BY <1>2 DEF Deny, Arrives
  <2>2. todo[c] = <<>> /\ c \notin touched
    BY <2>1 DEF Idle, Begun
  <2>3. \A d \in Calls \ {c} : req'[d] = req[d]
    BY <1>2, Zenon DEF Deny, Idle, Begun
  <2> QED BY <1>0, <2>1, <2>2, <2>3 DEF Idle
<1>3. ASSUME NEW c \in Calls, Begin(c) PROVE Idle'
  <2>1. PICK m, v, o, p :
            /\ m \in DOMAIN Bodies[c]
            /\ p \in Manager(m, v, o, Fresh[c])
            /\ req' = [req EXCEPT ![c] = [method |-> m, v |-> v]]
            /\ GoOn(c, req'[c], p.err, p.steps, p.es)
    BY <1>3 DEF Begin
  <2>2. c \notin touched /\ UNCHANGED touched
    BY <1>3 DEF Begin, Arrives, Idle, Begun
  <2>3. req'[c].method = m /\ \A d \in Calls \ {c} : req'[d] = req[d] /\ todo'[d] = todo[d]
    BY <2>1 DEF GoOn, Idle, Begun
  <2>4. m \in Lookups => todo'[c] = <<>>
    BY <2>1, LookupsEnd DEF GoOn, Idle, Begun
  <2> QED BY <1>0, <2>2, <2>3, <2>4 DEF Idle
<1>4. ASSUME NEW c \in Calls, todo[c] # <<>>, UNCHANGED req, touched' \subseteq touched \union {c},
             \A d \in Calls \ {c} : todo'[d] = todo[d]
      PROVE  Idle'
  BY <1>0, <1>4 DEF Idle
<1>5. ASSUME NEW c \in Calls, Look(c) \/ HashSecret(c) \/ Write(c) PROVE Idle'
  <2>1. todo[c] # <<>> /\ UNCHANGED req /\ touched' \subseteq touched \union {c}
    BY <1>5 DEF Look, HashSecret, Write, Ahead, calling
  <2>2. \A d \in Calls \ {c} : todo'[d] = todo[d]
    BY <1>5 DEF Look, HashSecret, Write, GoOn, calling, Idle, Begun
  <2> QED BY <1>4, <2>1, <2>2
<1>6. CASE UNCHANGED vars
  BY <1>0, <1>6 DEF vars, calling, Idle
<1> QED BY <1>1, <1>2, <1>3, <1>5, <1>6 DEF Next, Finished

LEMMA IdleReads == Idle => ReadsWroteNothing
<1> SUFFICES ASSUME Idle, NEW c \in touched, req[c].method \in DOMAIN Routes
             PROVE  Routes[req[c].method].write
  BY DEF ReadsWroteNothing
<1>1. req[c].method \notin Lookups
  BY DEF Idle, Begun
<1> QED BY <1>1, ReadRoutes

\* What the registrar announces as a read never writes, so it may be repeated or cached.
THEOREM ReadsOnly == Spec => []ReadsWroteNothing
<1>1. Init => Promise /\ Idle
  BY DEF Init, Promise, Begun, RefusedWroteNothing, Idle
<1>2. Promise /\ Idle /\ [Next]_vars => (Promise /\ Idle)'
  BY NextPromise, NextIdle
<1> QED BY <1>1, <1>2, IdleReads, PTL DEF Spec

-----------------------------------------------------------------------------
(* The schema *)

\* The properties that only the calls about a type may write, among those that a patch writes.
LEMMA TypesDomain ==
    DOMAIN Types = DOMAIN IdentityTypes \union DOMAIN ClientTypes \union DOMAIN ArtifactTypes
                   \union DOMAIN AuditTypes
BY DEF Types, ++

LEMMA TypesApply ==
    /\ \A t \in DOMAIN IdentityTypes : Types[t] = IdentityTypes[t]
    /\ \A t \in DOMAIN ClientTypes : Types[t] = ClientTypes[t]
    /\ \A t \in DOMAIN ArtifactTypes : Types[t] = ArtifactTypes[t]
<1>1. \A t \in DOMAIN IdentityTypes : Types[t] = IdentityTypes[t]
  BY DEF Types, ++
<1>2. \A t \in DOMAIN ClientTypes : t \notin DOMAIN IdentityTypes
  BY DEF ClientTypes, IdentityTypes
<1>3. \A t \in DOMAIN ClientTypes : Types[t] = ClientTypes[t]
  BY <1>2 DEF Types, ++
<1>4. \A t \in DOMAIN ArtifactTypes : t \notin DOMAIN IdentityTypes /\ t \notin DOMAIN ClientTypes
  BY DEF ArtifactTypes, ClientTypes, IdentityTypes
<1>5. \A t \in DOMAIN ArtifactTypes : Types[t] = ArtifactTypes[t]
  BY <1>4 DEF Types, ++
<1> QED BY <1>1, <1>3, <1>5

\* The types whose entities the calls create.
LEMMA TypeKinds ==
    /\ Types["Organization"] = Kind({"name", "enabled"},
            {"description", "contact_email", "logo_url", "disabled_at", "deleted_at"} \union Stamps,
            Types["Organization"].edges)
    /\ Types["User"] = Kind({"email", "status"}, {"display_name", "deleted_at"} \union Stamps,
            Types["User"].edges)
    /\ Types["Role"] = Kind({"name", "builtin"},
            {"display_name", "description", "deleted_at"} \union Stamps, Types["Role"].edges)
    /\ Types["Scope"] = Kind({"name", "registered_by"}, {"description", "deprecated_at"} \union Stamps,
            Types["Scope"].edges)
    /\ Types["Membership"] = Kind({}, {"granted_at", "granted_by", "revoked_at", "revoked_by"},
            Types["Membership"].edges)
    /\ Types["Invitation"] = Kind({"token_hash", "status", "expires_at"},
            {"created_at", "accepted_at", "revoked_at"}, Types["Invitation"].edges)
    /\ Types["OAuthClient"] = Kind({"client_id", "client_type", "name"},
            {"allowed_grant_types", "description", "disabled_at", "deleted_at"} \union Stamps,
            Types["OAuthClient"].edges)
    /\ Types["ClientSecret"] = Kind({"secret_hash"},
            {"created_at", "last_used_at", "revoked_at", "grace_expires_at"},
            Types["ClientSecret"].edges)
    /\ Types["RedirectURI"] = Kind({"uri"}, {"created_at", "last_used_at", "revoked_at"},
            Types["RedirectURI"].edges)
    /\ Types["TokenRevocation"] = Kind({"token_hash", "revoked_at", "expires_at"}, {"reason"},
            Types["TokenRevocation"].edges)
<1>1. /\ Types["Organization"] = IdentityTypes["Organization"]
      /\ Types["User"] = IdentityTypes["User"] /\ Types["Role"] = IdentityTypes["Role"]
      /\ Types["Scope"] = IdentityTypes["Scope"]
      /\ Types["Membership"] = IdentityTypes["Membership"]
      /\ Types["Invitation"] = IdentityTypes["Invitation"]
  BY TypesApply DEF IdentityTypes
<1>2. /\ Types["OAuthClient"] = ClientTypes["OAuthClient"]
      /\ Types["ClientSecret"] = ClientTypes["ClientSecret"]
      /\ Types["RedirectURI"] = ClientTypes["RedirectURI"]
  BY TypesApply DEF ClientTypes
<1>3. Types["TokenRevocation"] = ArtifactTypes["TokenRevocation"]
  BY TypesApply DEF ArtifactTypes
<1> QED BY <1>1, <1>2, <1>3 DEF IdentityTypes, ClientTypes, ArtifactTypes, Kind

LEMMA DeclaredIs ==
    ASSUME NEW t \in DOMAIN Types PROVE Declared[t] = Types[t].required \union Types[t].optional
BY DEF Declared

Loose == {"display_name", "description", "updated_at", "deprecated_at", "revoked_at",
          "deleted_at", "disabled_at", "accepted_at"}

LEMMA LooseNotRequired ==
    ASSUME NEW t \in DOMAIN Types, t \notin Immutable
    PROVE  /\ Types[t].required \intersect Loose = {}
           /\ "status" \in Types[t].required => t \in {"User", "Invitation"}
<1>1. CASE t \in DOMAIN IdentityTypes
  <2>1. Types[t] = IdentityTypes[t]
    BY <1>1, TypesApply
  <2>2. t \in {"Organization", "User", "PasswordCredential", "Role", "Scope", "Membership", "Invitation"}
    BY <1>1 DEF IdentityTypes
  <2>3. CASE t = "Organization"
    BY <2>1, <2>3 DEF IdentityTypes, Kind, Loose
  <2>4. CASE t = "User"
    BY <2>1, <2>4 DEF IdentityTypes, Kind, Loose
  <2>5. CASE t = "PasswordCredential"
    BY <2>1, <2>5 DEF IdentityTypes, Kind, Loose
  <2>6. CASE t = "Role"
    BY <2>1, <2>6 DEF IdentityTypes, Kind, Loose
  <2>7. CASE t = "Scope"
    BY <2>1, <2>7 DEF IdentityTypes, Kind, Loose
  <2>8. CASE t = "Membership"
    BY <2>1, <2>8 DEF IdentityTypes, Kind, Loose
  <2>9. CASE t = "Invitation"
    BY <2>1, <2>9 DEF IdentityTypes, Kind, Loose
  <2> QED BY <2>2, <2>3, <2>4, <2>5, <2>6, <2>7, <2>8, <2>9
<1>2. CASE t \in DOMAIN ClientTypes
  <2>1. Types[t] = ClientTypes[t]
    BY <1>2, TypesApply
  <2>2. t \in {"OAuthClient", "ClientSecret", "RedirectURI"}
    BY <1>2 DEF ClientTypes
  <2>3. CASE t = "OAuthClient"
    BY <2>1, <2>3 DEF ClientTypes, Kind, Loose
  <2>4. CASE t = "ClientSecret"
    BY <2>1, <2>4 DEF ClientTypes, Kind, Loose
  <2>5. CASE t = "RedirectURI"
    BY <2>1, <2>5 DEF ClientTypes, Kind, Loose
  <2> QED BY <2>2, <2>3, <2>4, <2>5
<1> QED BY <1>1, <1>2, TypesDomain DEF Immutable

-----------------------------------------------------------------------------
(* What a call has still to do: the steps that a request may leave *)

\* An id of which the store has, or has had, an entity.
Exists(i) == i \in EntityIds /\ entity[i] # NoEntity
IsUser(i) == Exists(i) /\ entity[i].type = "User"

\* The method is one of those about the type.
Owner(m, type) ==
    \/ type = "Organization" /\ m \in DOMAIN OrganizationFields
    \/ type \in {"User", "Invitation"} /\ m \in DOMAIN UserFields

\* What the request r may write to an entity of a type: what the type requires only if it
\* is about the type, of the texts those that it carries, and nothing that the type does
\* not know.
Tame(r, type, props) ==
    /\ type \notin Immutable =>
          \A k \in DOMAIN props \intersect Types[type].required : Owner(r.method, type)
    /\ \A k \in DOMAIN props \intersect Editable : k \in DOMAIN r.v /\ r.v[k] = props[k]
    /\ DOMAIN props \subseteq Declared[type] \union Stray
    /\ type \in {"User", "Invitation"} /\ "status" \in DOMAIN props =>
          props.status \in Options[type].status

Kinds == {"create", "patch", "delete", "relate", "unless", "read", "hash"}

\* The methods whose functions make edges.
Joiners == {"InviteUser", "GrantMembership", "CreateOAuthClient", "RotateClientSecret"}

\* What a step that the call c has still to make for the request r may be.
Fit(c, r, s) ==
    /\ s.do \in Kinds
    /\ s.do = "create" =>
          /\ s.entity = Entity(s.entity.id, s.entity.type, s.entity.props)
          /\ s.entity.id \in ToSet(Fresh[c]) /\ entity[s.entity.id] = NoEntity
          /\ s.entity.type \in DOMAIN Types /\ Proper(s.entity.type, s.entity.props)
    /\ s.do \in {"patch", "delete"} => Exists(s.id)
    /\ s.do = "patch" => /\ Tame(r, entity[s.id].type, s.props)
                         /\ Builtin(s.id) => DOMAIN s.props \subseteq Marks
    /\ s.do = "delete" => ~Builtin(s.id)
    /\ s.do = "relate" => r.method \in Joiners /\ {s.edge.from, s.edge.to} \subseteq EntityIds

\* A step that creates an entity of the id and the type.
Creates(s, i, type) == s.do = "create" /\ s.entity.id = i /\ s.entity.type = type

\* Steps that follow one another: no id is created twice, what is left out when there is a
\* role is a role, and a user is invited only once it has been created.
Ordered(steps) ==
    /\ \A j, k \in 1..Len(steps) :
          (steps[j].do = "create" /\ steps[k].do = "create"
           /\ steps[j].entity.id = steps[k].entity.id) => j = k
    /\ \A k \in 1..Len(steps) : steps[k].do = "unless" =>
          /\ k + 1 \in 1..Len(steps) /\ steps[k + 1].do = "create"
          /\ steps[k + 1].entity.type = "Role"
    /\ \A k \in 1..Len(steps) : (steps[k].do = "relate" /\ steps[k].edge.name = "has_invitation") =>
          \/ IsUser(steps[k].edge.from)
          \/ \E j \in 1..(k - 1) : Creates(steps[j], steps[k].edge.from, "User")

IsSteps(steps) == steps \in Seq({steps[k] : k \in 1..Len(steps)})

Planned(c, r, steps) ==
    IsSteps(steps) /\ Ordered(steps) /\ \A k \in 1..Len(steps) : Fit(c, r, steps[k])

WellFormed(i, e) ==
    /\ e = [id |-> i, type |-> e.type, props |-> e.props, live |-> e.live]
    /\ e.type \in DOMAIN Types /\ e.live \in BOOLEAN /\ Proper(e.type, e.props)

\* The store.
Stored ==
    /\ entity = [i \in EntityIds |-> entity[i]]
    /\ \A i \in EntityIds : entity[i] # NoEntity => WellFormed(i, entity[i])
    /\ \A d \in edges :
          {d.from, d.to} \subseteq EntityIds /\ (d.name = "has_invitation" => IsUser(d.from))

LEMMA ListSteps == ASSUME NEW S, NEW s \in Seq(S) PROVE IsSteps(s)
<1> DEFINE T == {s[k] : k \in 1..Len(s)}
<1>1. Len(s) \in Nat /\ s \in [1..Len(s) -> S]
  OBVIOUS
<1>2. s \in [1..Len(s) -> T]
  BY <1>1
<1> HIDE DEF T
<1>3. s \in Seq(T)
  <2>1. \E n \in Nat : s \in [1..n -> T]
    BY <1>1, <1>2
  <2> QED BY <2>1, SeqDef
<1> USE DEF T
<1> QED BY <1>3 DEF IsSteps

LEMMA TailSteps ==
    ASSUME NEW s, IsSteps(s), s # <<>>
    PROVE  /\ Len(s) \in Nat /\ Len(s) >= 1 /\ Head(s) = s[1]
           /\ Len(Tail(s)) = Len(s) - 1 /\ \A k \in 1..Len(Tail(s)) : Tail(s)[k] = s[k + 1]
           /\ IsSteps(Tail(s)) /\ Tail(s) # s
<1> DEFINE S == {s[k] : k \in 1..Len(s)}
<1>1. s \in Seq(S)
  BY DEF IsSteps
<1>2. /\ Len(s) \in Nat /\ Len(s) >= 1 /\ Head(s) = s[1]
      /\ Len(Tail(s)) = Len(s) - 1 /\ \A k \in 1..Len(Tail(s)) : Tail(s)[k] = s[k + 1]
      /\ Tail(s) \in Seq(S)
  BY <1>1
<1>3. IsSteps(Tail(s))
  BY <1>2, ListSteps
<1>4. Tail(s) # s
  <2> SUFFICES ASSUME Tail(s) = s PROVE FALSE
    OBVIOUS
  <2>1. Len(s) = Len(s) - 1
    BY <1>2
  <2> QED BY <1>2, <2>1
<1> QED BY <1>2, <1>3, <1>4

LEMMA NonePlanned == ASSUME NEW c, NEW r PROVE Planned(c, r, <<>>) /\ Planned(c, r, <<>>)'
<1>1. IsSteps(<<>>)
  <2>1. <<>> \in Seq({})
    OBVIOUS
  <2> QED BY <2>1, ListSteps
<1> QED BY <1>1 DEF Planned, Ordered

LEMMA OnePlanned ==
    ASSUME NEW c, NEW r, NEW s, Fit(c, r, s), s.do \notin {"unless", "relate"}
    PROVE  Planned(c, r, <<s>>)
<1>1. IsSteps(<<s>>)
  <2>1. <<s>> \in Seq({s})
    OBVIOUS
  <2> QED BY <2>1, ListSteps
<1> QED BY <1>1 DEF Planned, Ordered

\* Where the steps of two lists are in the joined one.
LEMMA JoinedAt ==
    ASSUME NEW a, NEW b, IsSteps(a), IsSteps(b)
    PROVE  /\ Len(a) \in Nat /\ Len(b) \in Nat /\ Len(a \o b) = Len(a) + Len(b) /\ IsSteps(a \o b)
           /\ \A k \in 1..Len(a) : (a \o b)[k] = a[k]
           /\ \A k \in 1..Len(b) : (a \o b)[k + Len(a)] = b[k]
           /\ \A k \in 1..Len(a \o b) :
                 \/ k \in 1..Len(a) /\ (a \o b)[k] = a[k]
                 \/ k - Len(a) \in 1..Len(b) /\ (a \o b)[k] = b[k - Len(a)] /\ k > Len(a)
<1> DEFINE S == {a[k] : k \in 1..Len(a)} \union {b[k] : k \in 1..Len(b)}
           ab == a \o b
<1>1. a \in Seq(S) /\ b \in Seq(S)
  <2>1. a \in Seq({a[k] : k \in 1..Len(a)}) /\ b \in Seq({b[k] : k \in 1..Len(b)})
    BY DEF IsSteps
  <2> QED BY <2>1
<1>2. /\ ab \in Seq(S) /\ Len(a) \in Nat /\ Len(b) \in Nat /\ Len(ab) = Len(a) + Len(b)
      /\ \A k \in 1..Len(a) : ab[k] = a[k]
      /\ \A k \in 1..Len(b) : ab[k + Len(a)] = b[k]
  BY <1>1
<1>3. IsSteps(ab)
  BY <1>2, ListSteps
<1> HIDE DEF ab
<1>4. \A k \in 1..Len(ab) :
         \/ k \in 1..Len(a) /\ ab[k] = a[k]
         \/ k - Len(a) \in 1..Len(b) /\ ab[k] = b[k - Len(a)] /\ k > Len(a)
  <2>1. \A k \in 1..Len(ab) : k > Len(a) => k - Len(a) \in 1..Len(b) /\ (k - Len(a)) + Len(a) = k
    BY <1>2
  <2>2. \A k \in 1..Len(ab) : k > Len(a) => ab[k] = b[k - Len(a)]
    BY <1>2, <2>1
  <2> QED BY <1>2, <2>1, <2>2
<1> QED BY <1>2, <1>3, <1>4 DEF ab

\* Steps one after the other, when they create different entities.
LEMMA JoinPlanned ==
    ASSUME NEW c, NEW r, NEW a, NEW b, Planned(c, r, a), Planned(c, r, b),
           \A j \in 1..Len(a), k \in 1..Len(b) :
              (a[j].do = "create" /\ b[k].do = "create") => a[j].entity.id # b[k].entity.id
    PROVE  Planned(c, r, a \o b)
<1> DEFINE ab == a \o b
<1>2. /\ Len(a) \in Nat /\ Len(b) \in Nat /\ Len(ab) = Len(a) + Len(b)
      /\ \A k \in 1..Len(a) : ab[k] = a[k]
      /\ \A k \in 1..Len(b) : ab[k + Len(a)] = b[k]
  BY JoinedAt DEF Planned
<1>3. IsSteps(ab)
  BY JoinedAt DEF Planned
<1>4. \A k \in 1..Len(ab) :
         \/ k \in 1..Len(a) /\ ab[k] = a[k]
         \/ k - Len(a) \in 1..Len(b) /\ ab[k] = b[k - Len(a)] /\ k > Len(a)
  BY JoinedAt DEF Planned
<1> HIDE DEF ab
<1>5. \A k \in 1..Len(ab) : Fit(c, r, ab[k])
  BY <1>4 DEF Planned
<1>6. \A j, k \in 1..Len(ab) :
         (ab[j].do = "create" /\ ab[k].do = "create" /\ ab[j].entity.id = ab[k].entity.id) => j = k
  <2> SUFFICES ASSUME NEW j \in 1..Len(ab), NEW k \in 1..Len(ab), ab[j].do = "create",
                      ab[k].do = "create", ab[j].entity.id = ab[k].entity.id
               PROVE  j = k
    OBVIOUS
  <2>1. CASE j \in 1..Len(a) /\ ab[j] = a[j] /\ k \in 1..Len(a) /\ ab[k] = a[k]
    BY <2>1 DEF Planned, Ordered
  <2>2. CASE /\ j - Len(a) \in 1..Len(b) /\ ab[j] = b[j - Len(a)]
             /\ k - Len(a) \in 1..Len(b) /\ ab[k] = b[k - Len(a)]
    <3>1. j - Len(a) = k - Len(a)
      BY <2>2 DEF Planned, Ordered
    <3> QED BY <1>2, <3>1
  <2> QED BY <1>4, <2>1, <2>2
<1>7. \A k \in 1..Len(ab) : ab[k].do = "unless" =>
         /\ k + 1 \in 1..Len(ab) /\ ab[k + 1].do = "create" /\ ab[k + 1].entity.type = "Role"
  <2> SUFFICES ASSUME NEW k \in 1..Len(ab), ab[k].do = "unless"
               PROVE  /\ k + 1 \in 1..Len(ab) /\ ab[k + 1].do = "create"
                      /\ ab[k + 1].entity.type = "Role"
    OBVIOUS
  <2>1. CASE k \in 1..Len(a) /\ ab[k] = a[k]
    BY <1>2, <2>1 DEF Planned, Ordered
  <2>2. CASE k - Len(a) \in 1..Len(b) /\ ab[k] = b[k - Len(a)] /\ k > Len(a)
    <3>1. /\ (k - Len(a)) + 1 \in 1..Len(b) /\ b[(k - Len(a)) + 1].do = "create"
          /\ b[(k - Len(a)) + 1].entity.type = "Role"
      BY <2>2 DEF Planned, Ordered
    <3>2. ((k - Len(a)) + 1) + Len(a) = k + 1
      BY <1>2
    <3> QED BY <1>2, <3>1, <3>2
  <2> QED BY <1>4, <2>1, <2>2
<1>8. \A k \in 1..Len(ab) : (ab[k].do = "relate" /\ ab[k].edge.name = "has_invitation") =>
         \/ IsUser(ab[k].edge.from)
         \/ \E j \in 1..(k - 1) : Creates(ab[j], ab[k].edge.from, "User")
  <2> SUFFICES ASSUME NEW k \in 1..Len(ab), ab[k].do = "relate", ab[k].edge.name = "has_invitation",
                      ~IsUser(ab[k].edge.from)
               PROVE  \E j \in 1..(k - 1) : Creates(ab[j], ab[k].edge.from, "User")
    OBVIOUS
  <2>1. CASE k \in 1..Len(a) /\ ab[k] = a[k]
    <3>1. PICK j \in 1..(k - 1) : Creates(a[j], a[k].edge.from, "User")
      BY <2>1 DEF Planned, Ordered
    <3>2. j \in 1..Len(a)
      BY <1>2, <2>1
    <3> QED BY <1>2, <2>1, <3>1, <3>2
  <2>2. CASE k - Len(a) \in 1..Len(b) /\ ab[k] = b[k - Len(a)] /\ k > Len(a)
    <3>1. PICK j \in 1..((k - Len(a)) - 1) : Creates(b[j], ab[k].edge.from, "User")
      BY <2>2 DEF Planned, Ordered
    <3>2. j \in 1..Len(b) /\ j + Len(a) \in 1..(k - 1)
      BY <1>2, <2>2
    <3>3. ab[j + Len(a)] = b[j]
      BY <1>2, <3>2
    <3> QED BY <3>1, <3>2, <3>3
  <2> QED BY <1>4, <2>1, <2>2
<1>9. Planned(c, r, ab)
  BY <1>3, <1>5, <1>6, <1>7, <1>8 DEF Planned, Ordered
<1> QED BY <1>9 DEF ab

-----------------------------------------------------------------------------
(* The steps that the functions of the manager leave *)

\* Nothing that is new to the call has been created.
Unused(c) == \A i \in ToSet(Fresh[c]) : entity[i] = NoEntity

LEMMA FreshIds ==
    ASSUME NEW c \in Calls
    PROVE  /\ \A k \in 1..4 : Fresh[c][k] \in ToSet(Fresh[c])
           /\ \A k \in 1..Len(Builtins) : Fresh[c][k + 1] \in ToSet(Fresh[c])
           /\ \A j, k \in 1..4 : Fresh[c][j] = Fresh[c][k] => j = k
           /\ \A j, k \in 1..(Len(Builtins) + 1) : Fresh[c][j] = Fresh[c][k] => j = k
           /\ ToSet(Fresh[c]) \subseteq EntityIds
<1>1. /\ Len(Fresh[c]) \in Nat /\ DOMAIN Fresh[c] = 1..Len(Fresh[c]) /\ Len(Fresh[c]) >= 4
      /\ Len(Builtins) \in Nat /\ Len(Fresh[c]) > Len(Builtins)
      /\ \A j, k \in DOMAIN Fresh[c] : Fresh[c][j] = Fresh[c][k] => j = k
  BY FreshAssumption
<1>2. ToSet(Fresh[c]) \subseteq EntityIds
  <2> SUFFICES ASSUME NEW i \in ToSet(Fresh[c]) PROVE i \in EntityIds
    OBVIOUS
  <2>1. i \in Ids[c] \union ToSet(Fresh[c])
    OBVIOUS
  <2>2. i \in CallIds
    BY <2>1 DEF CallIds
  <2> QED BY <2>2 DEF EntityIds
<1>3. 1..4 \subseteq DOMAIN Fresh[c] /\ 1..(Len(Builtins) + 1) \subseteq DOMAIN Fresh[c]
  BY <1>1
<1>4. \A k \in DOMAIN Fresh[c] : Fresh[c][k] \in ToSet(Fresh[c])
  BY DEF ToSet
<1>5. \A k \in 1..Len(Builtins) : k + 1 \in 1..(Len(Builtins) + 1)
  BY <1>1
<1> QED BY <1>1, <1>2, <1>3, <1>4, <1>5

LEMMA CreateFit ==
    ASSUME NEW c \in Calls, NEW r, Unused(c), NEW id \in ToSet(Fresh[c]), NEW type \in DOMAIN Types,
           NEW props, Proper(type, props)
    PROVE  /\ Fit(c, r, Create(id, type, props)) /\ Fit(c, r, Shown(Create(id, type, props)))
           /\ Create(id, type, props).do = "create" /\ Shown(Create(id, type, props)).do = "create"
           /\ Create(id, type, props).entity.id = id
           /\ Shown(Create(id, type, props)).entity.id = id
           /\ Creates(Create(id, type, props), id, type)
           /\ Creates(Shown(Create(id, type, props)), id, type)
BY DEF Fit, Create, Shown, Entity, Unused, Kinds, Creates

LEMMA PatchFit ==
    ASSUME NEW c, NEW r, NEW id, Exists(id), NEW props, Tame(r, entity[id].type, props),
           Builtin(id) => DOMAIN props \subseteq Marks
    PROVE  /\ Fit(c, r, Patch(id, props)) /\ Patch(id, props).do = "patch"
           /\ Fit(c, r, Shown(Patch(id, props))) /\ Shown(Patch(id, props)).do = "patch"
BY DEF Fit, Patch, Shown, Kinds

LEMMA DeleteFit ==
    ASSUME NEW c, NEW r, NEW id, Exists(id), ~Builtin(id)
    PROVE  Fit(c, r, Delete(id)) /\ Delete(id).do = "delete"
BY DEF Fit, Delete, Kinds

LEMMA RelateFit ==
    ASSUME NEW c, NEW r, r.method \in Joiners, NEW from \in EntityIds, NEW name, NEW to \in EntityIds
    PROVE  /\ Fit(c, r, Relate(from, name, to)) /\ Relate(from, name, to).do = "relate"
           /\ Relate(from, name, to).edge.from = from /\ Relate(from, name, to).edge.name = name
BY DEF Fit, Relate, Kinds

LEMMA LiveExists ==
    ASSUME Stored, NEW t, NEW e \in Live(t)
    PROVE  Exists(e.id) /\ entity[e.id] = e /\ e.type = t
<1>1. PICK i \in EntityIds : e = entity[i] /\ e.live /\ e.type = t
  BY DEF Live
<1>2. e # NoEntity
  BY <1>1 DEF NoEntity
<1>3. e.id = i
  BY <1>1, <1>2 DEF Stored, WellFormed
<1> QED BY <1>1, <1>2, <1>3 DEF Exists

LEMMA WithExists ==
    ASSUME Stored, NEW t, NEW key, NEW x, NEW e \in With(t, key, x)
    PROVE  Exists(e.id) /\ entity[e.id] = e /\ e.type = t
BY LiveExists DEF With

LEMMA GotExists ==
    ASSUME Stored, NEW i \in EntityIds, entity[i].live
    PROVE  Exists(i) /\ entity[i].id = i
<1>1. entity[i] # NoEntity
  BY DEF NoEntity
<1> QED BY <1>1 DEF Stored, WellFormed, Exists

\* What a patch writes besides what it is for.
LEMMA LooseTame ==
    ASSUME NEW r, NEW t \in DOMAIN Types, NEW props,
           DOMAIN props \subseteq Loose \union {"status"},
           "status" \in DOMAIN props => r.method \in DOMAIN UserFields,
           \A k \in DOMAIN props \intersect Editable : k \in DOMAIN r.v /\ r.v[k] = props[k],
           DOMAIN props \subseteq Declared[t] \union Stray,
           t \in {"User", "Invitation"} /\ "status" \in DOMAIN props =>
              props.status \in Options[t].status
    PROVE  Tame(r, t, props)
BY LooseNotRequired DEF Tame, Owner

\* The properties that the types which are patched declare.
LEMMA PatchedTypes ==
    /\ {"name", "description", "contact_email", "logo_url", "updated_at", "enabled", "disabled_at"}
          \subseteq Declared["Organization"]
    /\ {"status", "deleted_at", "updated_at"} \subseteq Declared["User"]
    /\ {"status", "accepted_at"} \subseteq Declared["Invitation"]
BY TypeKinds, TypesDomain DEF Declared, Kind, Stamps, IdentityTypes

LEMMA TypeExists == ASSUME Stored, NEW i, Exists(i) PROVE entity[i].type \in DOMAIN Types
BY DEF Stored, Exists, WellFormed

LEMMA UpdateOrganizationPlan ==
    ASSUME Stored, NEW c, NEW v, DOMAIN v = OrganizationFields["UpdateOrganization"], NEW o,
           NEW p \in UpdateOrganization(v, o)
    PROVE  Planned(c, [method |-> "UpdateOrganization", v |-> v], p.steps)
<1> DEFINE r == [method |-> "UpdateOrganization", v |-> v]
           props == Given(v, DOMAIN v) ++ Now
<1>1. CASE p.steps = <<>>
  BY <1>1, NonePlanned
<1>2. ASSUME NEW e \in Live("Organization"), p.steps = <<Shown(Patch(e.id, props))>>
      PROVE  Planned(c, r, p.steps)
  <2>1. Exists(e.id) /\ entity[e.id].type = "Organization"
    BY LiveExists
  <2>2. Tame(r, "Organization", props)
    <3>1. DOMAIN props \subseteq Declared["Organization"]
      BY PatchedTypes DEF OrganizationFields, Given, Now, ++
    <3> QED BY <3>1 DEF Tame, Owner, OrganizationFields, Given, Now, Editable, ++
  <2>3. ~Builtin(e.id)
    BY <2>1 DEF Builtin
  <2> HIDE DEF props
  <2>4. Fit(c, r, Shown(Patch(e.id, props))) /\ Shown(Patch(e.id, props)).do = "patch"
    BY <2>1, <2>2, <2>3, PatchFit
  <2> QED BY <1>2, <2>4, OnePlanned
<1> QED BY <1>1, <1>2 DEF UpdateOrganization, WithOrganization, First, Refuse, Proceed

LEMMA DisableOrganizationPlan ==
    ASSUME Stored, NEW c, NEW v, NEW o, NEW p \in DisableOrganization(o)
    PROVE  Planned(c, [method |-> "DisableOrganization", v |-> v], p.steps)
<1> DEFINE r == [method |-> "DisableOrganization", v |-> v]
           props == [enabled |-> "false", disabled_at |-> Instant] ++ Now
<1>1. CASE p.steps = <<>>
  BY <1>1, NonePlanned
<1>2. ASSUME NEW e \in Live("Organization"), p.steps = <<Shown(Patch(e.id, props))>>
      PROVE  Planned(c, r, p.steps)
  <2>1. Exists(e.id) /\ entity[e.id].type = "Organization"
    BY LiveExists
  <2>2. Tame(r, "Organization", props)
    <3>1. DOMAIN props \subseteq Declared["Organization"]
      BY PatchedTypes DEF Now, ++
    <3> QED BY <3>1 DEF Tame, Owner, OrganizationFields, Now, Editable, ++
  <2>3. ~Builtin(e.id)
    BY <2>1 DEF Builtin
  <2> QED BY <1>2, <2>1, <2>2, <2>3, PatchFit, OnePlanned
<1> QED BY <1>1, <1>2 DEF DisableOrganization, WithOrganization, First, Refuse, Proceed

LEMMA DeleteOrganizationPlan ==
    ASSUME Stored, NEW c, NEW r, NEW o, NEW p \in DeleteOrganization(o)
    PROVE  Planned(c, r, p.steps)
<1>1. CASE p.steps = <<>>
  BY <1>1, NonePlanned
<1>2. ASSUME NEW e \in Live("Organization"), p.steps = <<Delete(e.id)>>
      PROVE  Planned(c, r, p.steps)
  <2>1. Exists(e.id) /\ entity[e.id].type = "Organization"
    BY LiveExists
  <2>2. ~Builtin(e.id)
    BY <2>1 DEF Builtin
  <2> QED BY <1>2, <2>1, <2>2, DeleteFit, OnePlanned
<1> QED BY <1>1, <1>2 DEF DeleteOrganization, WithOrganization, First, Refuse, Proceed

LEMMA ChangeUserPlan ==
    ASSUME Stored, NEW c, NEW m \in DOMAIN UserFields, NEW v, NEW o,
           NEW props, DOMAIN props \subseteq {"status", "deleted_at"}, "status" \in DOMAIN props,
           props.status \in Options["User"].status,
           NEW p \in ChangeUser(v, o, props)
    PROVE  Planned(c, [method |-> m, v |-> v], p.steps)
<1> DEFINE r == [method |-> m, v |-> v]
<1>1. CASE p.steps = <<>>
  BY <1>1, NonePlanned
<1>2. ASSUME NEW i \in EntityIds, entity[i].live, entity[i].type = "User",
             p.steps = <<Shown(Patch(entity[i].id, props ++ Now))>>
      PROVE  Planned(c, r, p.steps)
  <2>1. Exists(i) /\ entity[i].id = i /\ entity[i].type \in DOMAIN Types
    BY <1>2, GotExists, TypeExists
  <2>2. DOMAIN (props ++ Now) \subseteq {"status", "deleted_at", "updated_at"}
    BY DEF ++, Now
  <2>3. (props ++ Now).status = props.status
    BY DEF ++, Now
  <2>4. Tame(r, entity[i].type, props ++ Now)
    BY <1>2, <2>1, <2>2, <2>3, PatchedTypes, LooseTame DEF Loose, Editable
  <2>5. ~Builtin(i)
    BY <1>2 DEF Builtin
  <2> QED BY <1>2, <2>1, <2>4, <2>5, PatchFit, OnePlanned
<1> QED BY <1>1, <1>2 DEF ChangeUser, GetUser, Get, Refuse, Proceed

LEMMA UpdateRolePlan ==
    ASSUME Stored, NEW c, NEW v, {"display_name", "description"} \subseteq DOMAIN v, NEW o,
           NEW p \in UpdateRole(v, o)
    PROVE  Planned(c, [method |-> "UpdateRole", v |-> v], p.steps)
<1> DEFINE r == [method |-> "UpdateRole", v |-> v]
           props == Given(v, {"display_name", "description"}) ++ Now
<1>1. CASE p.steps = <<>>
  BY <1>1, NonePlanned
<1>2. ASSUME NEW i \in EntityIds, entity[i].live, ~propBool(entity[i].props, "builtin"),
             p.steps = <<Shown(Patch(entity[i].id, props))>>
      PROVE  Planned(c, r, p.steps)
  <2>1. Exists(i) /\ entity[i].id = i /\ entity[i].type \in DOMAIN Types
    BY <1>2, GotExists, TypeExists
  <2>2. Tame(r, entity[i].type, props)
    <3>1. DOMAIN props \subseteq {"display_name", "description", "updated_at"}
      BY DEF ++, Now, Given
    <3>2. \A k \in DOMAIN props \intersect Editable : k \in DOMAIN v /\ v[k] = props[k]
      BY DEF ++, Now, Given, Editable
    <3> QED BY <2>1, <3>1, <3>2, LooseTame DEF Loose, Stray
  <2>3. ~Builtin(i)
    BY <1>2 DEF Builtin
  <2> QED BY <1>2, <2>1, <2>2, <2>3, PatchFit, OnePlanned
<1> QED BY <1>1, <1>2 DEF UpdateRole, WithCustomRole, Get, Refuse, Proceed

LEMMA DeleteRolePlan ==
    ASSUME Stored, NEW c, NEW r, NEW v, NEW o, NEW p \in DeleteRole(v, o)
    PROVE  Planned(c, r, p.steps)
<1>1. CASE p.steps = <<>>
  BY <1>1, NonePlanned
<1>2. ASSUME NEW i \in EntityIds, entity[i].live, ~propBool(entity[i].props, "builtin"),
             p.steps = <<Delete(entity[i].id)>>
      PROVE  Planned(c, r, p.steps)
  <2>1. ~Builtin(i)
    BY <1>2 DEF Builtin
  <2> QED BY <1>2, <2>1, GotExists, DeleteFit, OnePlanned
<1> QED BY <1>1, <1>2 DEF DeleteRole, WithCustomRole, Get, Refuse, Proceed

LEMMA RegisterScopePlan ==
    ASSUME Stored, NEW c \in Calls, Unused(c), NEW v, DOMAIN v = RoleScopeFields["RegisterScope"],
           NEW o,
           NEW p \in RegisterScope(v, o, Fresh[c])
    PROVE  Planned(c, [method |-> "RegisterScope", v |-> v], p.steps)
<1> DEFINE r == [method |-> "RegisterScope", v |-> v]
           props == [description |-> v.description, deprecated_at |-> Nil] ++ Now
           new == Shown(Create(Fresh[c][1], "Scope", v ++ New))
<1>1. CASE p.steps = <<>>
  BY <1>1, NonePlanned
<1>2. CASE p.steps = <<new>>
  <2>1. Fresh[c][1] \in ToSet(Fresh[c]) /\ "Scope" \in DOMAIN Types
    BY FreshIds, TypesDomain DEF IdentityTypes
  <2>2. Proper("Scope", v ++ New)
    BY <2>1, TypeKinds, DeclaredIs
    DEF Proper, Kind, Stamps, RoleScopeFields, New, Owned, ++
  <2> QED BY <1>2, <2>1, <2>2, CreateFit, OnePlanned
<1>3. ASSUME NEW e \in With("Scope", "name", v.name), p.steps = <<Shown(Patch(e.id, props))>>
      PROVE  Planned(c, r, p.steps)
  <2>1. Exists(e.id) /\ entity[e.id].type \in DOMAIN Types /\ entity[e.id].type = "Scope"
    BY WithExists, TypeExists
  <2>2. Tame(r, entity[e.id].type, props)
    <3>1. DOMAIN props \subseteq {"description", "deprecated_at", "updated_at"}
      BY DEF ++, Now
    <3>2. \A k \in DOMAIN props \intersect Editable : k \in DOMAIN v /\ v[k] = props[k]
      BY DEF ++, Now, Editable, RoleScopeFields
    <3> QED BY <2>1, <3>1, <3>2, LooseTame DEF Loose, Stray
  <2>3. ~Builtin(e.id)
    BY <2>1 DEF Builtin
  <2> QED BY <1>3, <2>1, <2>2, <2>3, PatchFit, OnePlanned
<1> QED BY <1>1, <1>2, <1>3 DEF RegisterScope, First, None, Refuse, Proceed

LEMMA DeprecateScopePlan ==
    ASSUME Stored, NEW c, NEW r, NEW v, NEW o, NEW p \in DeprecateScope(v, o)
    PROVE  Planned(c, r, p.steps)
<1> DEFINE props == [deprecated_at |-> Instant] ++ Now
<1>1. CASE p.steps = <<>>
  BY <1>1, NonePlanned
<1>2. ASSUME NEW i \in EntityIds, entity[i].live, p.steps = <<Shown(Patch(entity[i].id, props))>>
      PROVE  Planned(c, r, p.steps)
  <2>1. Exists(i) /\ entity[i].id = i /\ entity[i].type \in DOMAIN Types
    BY <1>2, GotExists, TypeExists
  <2>2. DOMAIN props \subseteq {"deprecated_at", "updated_at"}
    BY DEF ++, Now
  <2>3. Tame(r, entity[i].type, props)
    BY <2>1, <2>2, LooseTame DEF Loose, Editable, Stray
  <2>4. DOMAIN props \subseteq Marks
    BY <2>2 DEF Marks
  <2> QED BY <1>2, <2>1, <2>3, <2>4, PatchFit, OnePlanned
<1> QED BY <1>1, <1>2 DEF DeprecateScope, Get, Refuse, Proceed

LEMMA RevokeMembershipPlan ==
    ASSUME Stored, NEW c, NEW r, NEW v, NEW o, NEW p \in RevokeMembership(v, o)
    PROVE  Planned(c, r, p.steps)
<1> DEFINE props == [revoked_at |-> Instant]
<1>1. CASE p.steps = <<>>
  BY <1>1, NonePlanned
<1>2. ASSUME NEW i \in EntityIds, entity[i].live, p.steps = <<Shown(Patch(entity[i].id, props))>>
      PROVE  Planned(c, r, p.steps)
  <2>1. Exists(i) /\ entity[i].id = i /\ entity[i].type \in DOMAIN Types
    BY <1>2, GotExists, TypeExists
  <2>2. Tame(r, entity[i].type, props)
    BY <2>1, LooseTame DEF Loose, Editable, Stray
  <2>3. DOMAIN props \subseteq Marks
    BY DEF Marks
  <2> QED BY <1>2, <2>1, <2>2, <2>3, PatchFit, OnePlanned
<1> QED BY <1>1, <1>2 DEF RevokeMembership, Get, Refuse, Proceed

LEMMA DeleteOAuthClientPlan ==
    ASSUME Stored, NEW c, NEW r, NEW v, NEW o, NEW p \in DeleteOAuthClient(v, o)
    PROVE  Planned(c, r, p.steps)
<1>1. CASE p.steps = <<>>
  BY <1>1, NonePlanned
<1>2. ASSUME NEW e \in With("OAuthClient", "client_id", v.client_id), p.steps = <<Delete(e.id)>>
      PROVE  Planned(c, r, p.steps)
  <2>1. Exists(e.id) /\ entity[e.id].type = "OAuthClient"
    BY WithExists
  <2>2. ~Builtin(e.id)
    BY <2>1 DEF Builtin
  <2> QED BY <1>2, <2>1, <2>2, DeleteFit, OnePlanned
<1> QED BY <1>1, <1>2 DEF DeleteOAuthClient, WithClient, First, Refuse, Proceed

LEMMA CreateRolePlan ==
    ASSUME NEW c \in Calls, NEW r, Unused(c), NEW v, DOMAIN v = RoleScopeFields["CreateRole"],
           NEW o, NEW p \in CreateRole(v, o, Fresh[c])
    PROVE  Planned(c, r, p.steps)
<1> DEFINE new == Shown(Create(Fresh[c][1], "Role", [builtin |-> "false"] ++ v ++ New))
<1>1. CASE p.steps = <<>>
  BY <1>1, NonePlanned
<1>2. CASE p.steps = <<new>>
  <2>1. Fresh[c][1] \in ToSet(Fresh[c]) /\ "Role" \in DOMAIN Types
    BY FreshIds, TypesDomain DEF IdentityTypes
  <2>2. Proper("Role", [builtin |-> "false"] ++ v ++ New)
    BY <2>1, TypeKinds, DeclaredIs
    DEF Proper, Kind, Stamps, RoleScopeFields, New, Owned, ++
  <2> QED BY <1>2, <2>1, <2>2, CreateFit, OnePlanned
<1> QED BY <1>1, <1>2 DEF CreateRole, None, Refuse, Proceed

LEMMA RevokePlan ==
    ASSUME NEW c \in Calls, NEW r, Unused(c), NEW v, NEW p \in Revoke(v, Fresh[c])
    PROVE  Planned(c, r, p.steps)
<1> DEFINE props == [token_hash |-> v.token, revoked_at |-> Instant, expires_at |-> Instant,
                     reason |-> IF v.reason = Nil THEN "user_logout" ELSE v.reason] ++ Owned
<1>1. p.steps = <<Create(Fresh[c][1], "TokenRevocation", props)>>
  BY DEF Revoke, Proceed
<1>2. Fresh[c][1] \in ToSet(Fresh[c]) /\ "TokenRevocation" \in DOMAIN Types
  BY FreshIds, TypesDomain DEF ArtifactTypes
<1>3. Proper("TokenRevocation", props)
  BY <1>2, TypeKinds, DeclaredIs DEF Proper, Kind, Owned, ++
<1> HIDE DEF props
<1> QED BY <1>1, <1>2, <1>3, CreateFit, OnePlanned

\* Steps among which none creates, relates or decides.
LEMMA PlainPlanned ==
    ASSUME NEW c, NEW r, NEW S, NEW s \in Seq(S),
           \A x \in S : Fit(c, r, x) /\ x.do \notin {"create", "unless", "relate"}
    PROVE  Planned(c, r, s)
<1>1. \A k \in 1..Len(s) : s[k] \in S
  OBVIOUS
<1>2. IsSteps(s)
  BY ListSteps
<1> QED BY <1>1, <1>2 DEF Planned, Ordered

LEMMA RelatePlanned ==
    ASSUME NEW c, NEW r, r.method \in Joiners, NEW from \in EntityIds, NEW name, name # "has_invitation",
           NEW to \in EntityIds
    PROVE  Planned(c, r, <<Relate(from, name, to)>>)
<1> DEFINE s == Relate(from, name, to)
<1>1. Fit(c, r, s) /\ s.do = "relate" /\ s.edge.name # "has_invitation"
  BY RelateFit
<1>2. IsSteps(<<s>>)
  <2>1. <<s>> \in Seq({s})
    OBVIOUS
  <2> QED BY <2>1, ListSteps
<1> HIDE DEF s
<1>3. Planned(c, r, <<s>>)
  BY <1>1, <1>2 DEF Planned, Ordered
<1> QED BY <1>3 DEF s

\* A list has no creation: joined to another, it creates nothing twice.
Barren(s) == \A k \in 1..Len(s) : s[k].do # "create"

LEMMA JoinBarren ==
    ASSUME NEW c, NEW r, NEW a, NEW b, Planned(c, r, a), Planned(c, r, b), Barren(a) \/ Barren(b)
    PROVE  Planned(c, r, a \o b)
BY JoinPlanned DEF Barren

LEMMA AcceptInvitationPlan ==
    ASSUME Stored, NEW c, NEW v, NEW o, NEW p \in AcceptInvitation(v, o)
    PROVE  Planned(c, [method |-> "AcceptInvitation", v |-> v], p.steps)
<1> DEFINE r == [method |-> "AcceptInvitation", v |-> v]
           active == [status |-> "active"] ++ Now
           accepted == [status |-> "accepted", accepted_at |-> Instant]
<1>1. CASE p.steps = <<>>
  BY <1>1, NonePlanned
<1>2. ASSUME NEW e \in With("Invitation", "token_hash", v.token), NEW u \in Invited(e.id),
             p.steps = Accepting(u, e.id)
      PROVE  Planned(c, r, p.steps)
  <2>1. Exists(e.id) /\ entity[e.id].type = "Invitation" /\ entity[e.id].type \in DOMAIN Types
    BY WithExists, TypeExists
  <2>2. Exists(u) /\ entity[u].type = "User" /\ entity[u].type \in DOMAIN Types
    BY TypeExists DEF Invited, Stored, IsUser
  <2>3. "AcceptInvitation" \in DOMAIN UserFields
    BY DEF UserFields
  <2>4. Tame(r, entity[u].type, active)
    <3>1. DOMAIN active \subseteq {"status", "updated_at"} /\ active.status = "active"
      BY DEF ++, Now
    <3>2. DOMAIN active \subseteq Declared["User"] /\ active.status \in Options["User"].status
      BY <3>1, PatchedTypes DEF Options
    <3> HIDE DEF active
    <3> QED BY <2>2, <2>3, <3>1, <3>2, LooseTame DEF Loose, Editable
  <2>5. Tame(r, entity[e.id].type, accepted)
    <3>1. DOMAIN accepted = {"status", "accepted_at"} /\ accepted.status = "accepted"
      OBVIOUS
    <3>2. /\ DOMAIN accepted \subseteq Declared["Invitation"]
          /\ accepted.status \in Options["Invitation"].status
      BY <3>1, PatchedTypes DEF Options
    <3> HIDE DEF accepted
    <3> QED BY <2>1, <2>3, <3>1, <3>2, LooseTame DEF Loose, Editable
  <2> DEFINE S == {Read, Shown(Patch(u, active)), Patch(e.id, accepted)}
  <2>6. Fit(c, r, Read) /\ Read.do = "read"
    BY DEF Fit, Read, Kinds
  <2> HIDE DEF active, accepted
  <2>7. \A x \in S : Fit(c, r, x) /\ x.do \in {"read", "patch"}
    <3>1. Fit(c, r, Shown(Patch(u, active))) /\ Shown(Patch(u, active)).do = "patch"
      BY <2>2, <2>4, PatchFit DEF Builtin
    <3>2. Fit(c, r, Patch(e.id, accepted)) /\ Patch(e.id, accepted).do = "patch"
      BY <2>1, <2>5, PatchFit DEF Builtin
    <3> QED BY <2>6, <3>1, <3>2
  <2>8. Accepting(u, e.id) \in Seq(S)
    BY DEF Accepting, active, accepted
  <2> HIDE DEF S
  <2> QED BY <1>2, <2>7, <2>8, PlainPlanned
<1>3. \A e : Invited(e.id) # {} => (CHOOSE u \in Invited(e.id) : TRUE) \in Invited(e.id)
  OBVIOUS
<1> QED BY <1>1, <1>2, <1>3 DEF AcceptInvitation, First, Refuse, Proceed

LEMMA InviteUserPlan ==
    ASSUME NEW c \in Calls, NEW r, r.method \in Joiners, Unused(c), NEW v, NEW o,
           v.invited_by_user_id \in EntityIds \union {Nil}, v.role_ids \in EntityIds \union {Nil},
           NEW p \in InviteUser(v, o, Fresh[c])
    PROVE  Planned(c, r, p.steps)
<1> DEFINE i == Fresh[c][1]
           j == Fresh[c][2]
           user == Create(i, "User", [email |-> v.email, status |-> "invited",
                                      display_name |-> v.display_name] ++ New)
           inv == Shown(Create(j, "Invitation",
                        [token_hash |-> Fresh[c][3], status |-> "pending",
                         expires_at |-> Instant, created_at |-> Instant] ++ Owned))
           link == Relate(i, "has_invitation", j)
           by == IF v.invited_by_user_id = Nil THEN <<>>
                 ELSE <<Relate(j, "invited_by", v.invited_by_user_id)>>
           roles == IF v.role_ids = Nil THEN <<>>
                    ELSE <<Relate(j, "will_grant_role", v.role_ids)>>
<1>1. /\ i \in ToSet(Fresh[c]) /\ j \in ToSet(Fresh[c]) /\ i # j
      /\ i \in EntityIds /\ j \in EntityIds
      /\ "User" \in DOMAIN Types /\ "Invitation" \in DOMAIN Types
  BY FreshIds, TypesDomain DEF IdentityTypes
<1>2. /\ Fit(c, r, user) /\ user.do = "create" /\ user.entity.id = i /\ Creates(user, i, "User")
      /\ Fit(c, r, inv) /\ inv.do = "create" /\ inv.entity.id = j
  <2> DEFINE up == [email |-> v.email, status |-> "invited", display_name |-> v.display_name] ++ New
             ip == [token_hash |-> Fresh[c][3], status |-> "pending",
                    expires_at |-> Instant, created_at |-> Instant] ++ Owned
  <2>1. Proper("User", up)
    BY <1>1, TypeKinds, DeclaredIs DEF Proper, Kind, Stamps, New, Owned, Options, ++
  <2>2. Proper("Invitation", ip)
    BY <1>1, TypeKinds, DeclaredIs DEF Proper, Kind, Owned, Options, ++
  <2> HIDE DEF up, ip
  <2>3. /\ Fit(c, r, Create(i, "User", up)) /\ Create(i, "User", up).do = "create"
        /\ Create(i, "User", up).entity.id = i /\ Creates(Create(i, "User", up), i, "User")
    BY <1>1, <2>1, CreateFit
  <2>4. /\ Fit(c, r, Shown(Create(j, "Invitation", ip)))
        /\ Shown(Create(j, "Invitation", ip)).do = "create"
        /\ Shown(Create(j, "Invitation", ip)).entity.id = j
    BY <1>1, <2>2, CreateFit
  <2> QED BY <2>3, <2>4 DEF up, ip
<1>3. Fit(c, r, link) /\ link.do = "relate" /\ link.edge.from = i
  <2> HIDE DEF i, j, user, inv
  <2> QED BY <1>1, RelateFit
<1>4. /\ Planned(c, r, by) /\ Barren(by) /\ Planned(c, r, roles) /\ Barren(roles)
  <2>1. Planned(c, r, by) /\ Planned(c, r, roles)
    BY <1>1, NonePlanned, RelatePlanned
  <2>2. Barren(by) /\ Barren(roles)
    BY DEF Barren, Relate
  <2> QED BY <2>1, <2>2
<1> HIDE DEF i, j, user, inv, link
<1>5. Planned(c, r, <<user, inv, link>>)
  <2>1. IsSteps(<<user, inv, link>>)
    <3>1. <<user, inv, link>> \in Seq({user, inv, link})
      OBVIOUS
    <3> QED BY <3>1, ListSteps
  <2>2. Ordered(<<user, inv, link>>)
    BY <1>1, <1>2, <1>3 DEF Ordered, Creates
  <2> QED BY <1>2, <1>3, <2>1, <2>2 DEF Planned
<1> HIDE DEF by, roles
<1>6. Planned(c, r, <<user, inv, link>> \o by \o roles)
  <2>1. Planned(c, r, <<user, inv, link>> \o by)
    BY <1>4, <1>5, JoinBarren
  <2> QED BY <1>4, <2>1, JoinBarren
<1>7. p.steps = <<>> \/ p.steps = <<user, inv, link>> \o by \o roles
  BY DEF InviteUser, None, Refuse, Proceed, i, j, user, inv, link, by, roles
<1> QED BY <1>6, <1>7, NonePlanned

LEMMA GrantMembershipPlan ==
    ASSUME NEW c \in Calls, NEW r, r.method \in Joiners, Unused(c), NEW v,
           v.user_id \in EntityIds, v.role_id \in EntityIds,
           NEW p \in GrantMembership(v, Fresh[c])
    PROVE  Planned(c, r, p.steps)
<1> DEFINE i == Fresh[c][1]
           new == Shown(Create(i, "Membership",
                        [granted_at |-> Instant, granted_by |-> v.granted_by] ++ Owned))
           has == Relate(v.user_id, "has_membership", i)
           grants == Relate(i, "grants_role", v.role_id)
<1>1. i \in ToSet(Fresh[c]) /\ i \in EntityIds /\ "Membership" \in DOMAIN Types
  BY FreshIds, TypesDomain DEF IdentityTypes
<1>2. Fit(c, r, new) /\ new.do = "create"
  <2> DEFINE props == [granted_at |-> Instant, granted_by |-> v.granted_by] ++ Owned
  <2>1. Proper("Membership", props)
    BY <1>1, TypeKinds, DeclaredIs DEF Proper, Kind, Owned, ++
  <2> HIDE DEF props
  <2>2. /\ Fit(c, r, Shown(Create(i, "Membership", props)))
        /\ Shown(Create(i, "Membership", props)).do = "create"
    BY <1>1, <2>1, CreateFit
  <2> QED BY <2>2 DEF props
<1>3. /\ Fit(c, r, has) /\ has.do = "relate" /\ has.edge.name = "has_membership"
      /\ Fit(c, r, grants) /\ grants.do = "relate" /\ grants.edge.name = "grants_role"
  BY <1>1, RelateFit
<1>4. p.steps = <<new, has, grants>>
  BY DEF GrantMembership, Proceed
<1> HIDE DEF new, has, grants
<1>5. IsSteps(<<new, has, grants>>)
  <2>1. <<new, has, grants>> \in Seq({new, has, grants})
    OBVIOUS
  <2> QED BY <2>1, ListSteps
<1>6. Ordered(<<new, has, grants>>)
  BY <1>2, <1>3 DEF Ordered
<1> QED BY <1>2, <1>3, <1>4, <1>5, <1>6 DEF Planned

\* Three steps that hash a secret, store it and link it.
LEMMA SecretPlan ==
    ASSUME NEW c \in Calls, NEW r, r.method \in Joiners, Unused(c), NEW client \in EntityIds,
           NEW id \in ToSet(Fresh[c])
    PROVE  /\ Planned(c, r, Secret(client, id))
           /\ \A k \in 1..Len(Secret(client, id)) :
                 Secret(client, id)[k].do = "create" => Secret(client, id)[k].entity.id = id
<1> DEFINE new == Create(id, "ClientSecret", [secret_hash |-> "phc", created_at |-> Instant] ++ Owned)
           has == Relate(client, "has_client_secret", id)
<1>1. id \in EntityIds /\ "ClientSecret" \in DOMAIN Types
  BY FreshIds, TypesDomain DEF ClientTypes
<1>2. Fit(c, r, new) /\ new.do = "create" /\ new.entity.id = id
  <2> DEFINE props == [secret_hash |-> "phc", created_at |-> Instant] ++ Owned
  <2>1. Proper("ClientSecret", props)
    BY <1>1, TypeKinds, DeclaredIs DEF Proper, Kind, Owned, ++
  <2> HIDE DEF props
  <2>2. /\ Fit(c, r, Create(id, "ClientSecret", props))
        /\ Create(id, "ClientSecret", props).do = "create"
        /\ Create(id, "ClientSecret", props).entity.id = id
    BY <1>1, <2>1, CreateFit
  <2> QED BY <2>2 DEF props
<1>3. Fit(c, r, has) /\ has.do = "relate" /\ has.edge.name = "has_client_secret"
  BY <1>1, RelateFit
<1>4. Fit(c, r, Hash) /\ Hash.do = "hash"
  BY DEF Fit, Hash, Kinds
<1>5. Secret(client, id) = <<Hash, new, has>>
  BY DEF Secret
<1> HIDE DEF new, has
<1>6. IsSteps(<<Hash, new, has>>)
  <2>1. <<Hash, new, has>> \in Seq({Hash, new, has})
    OBVIOUS
  <2> QED BY <2>1, ListSteps
<1>7. Ordered(<<Hash, new, has>>)
  BY <1>2, <1>3, <1>4 DEF Ordered
<1> QED BY <1>2, <1>3, <1>4, <1>5, <1>6, <1>7 DEF Planned

LEMMA RotateClientSecretPlan ==
    ASSUME Stored, NEW c \in Calls, NEW r, r.method \in Joiners, Unused(c), NEW v, NEW o,
           NEW p \in RotateClientSecret(v, o, Fresh[c])
    PROVE  Planned(c, r, p.steps)
<1>1. CASE p.steps = <<>>
  BY <1>1, NonePlanned
<1>2. ASSUME NEW e \in With("OAuthClient", "client_id", v.client_id),
             p.steps = Secret(e.id, Fresh[c][1])
      PROVE  Planned(c, r, p.steps)
  <2>1. e.id \in EntityIds /\ Fresh[c][1] \in ToSet(Fresh[c])
    BY WithExists, FreshIds DEF Exists
  <2> QED BY <1>2, <2>1, SecretPlan
<1> QED BY <1>1, <1>2 DEF RotateClientSecret, WithClient, First, Refuse, Proceed

\* A list creates entities of the ids I only.
Makes(s, I) == \A k \in 1..Len(s) : s[k].do = "create" => s[k].entity.id \in I

LEMMA JoinMakes ==
    ASSUME NEW c, NEW r, NEW a, NEW b, NEW I, NEW J, Planned(c, r, a), Planned(c, r, b),
           Makes(a, I), Makes(b, J), I \intersect J = {}
    PROVE  Planned(c, r, a \o b) /\ Makes(a \o b, I \union J)
<1>1. Planned(c, r, a \o b)
  BY JoinPlanned DEF Makes
<1>2. Makes(a \o b, I \union J)
  BY JoinedAt DEF Makes, Planned
<1> QED BY <1>1, <1>2

LEMMA CreateOAuthClientPlan ==
    ASSUME NEW c \in Calls, NEW r, r.method \in Joiners, Unused(c), NEW v,
           v.allowed_scope_ids \in EntityIds \union {Nil},
           NEW p \in CreateOAuthClient(v, Fresh[c])
    PROVE  Planned(c, r, p.steps)
<1> DEFINE i == Fresh[c][1]
           j == Fresh[c][2]
           k == Fresh[c][3]
           client == Shown(Create(i, "OAuthClient",
              [f \in {"name", "client_type", "description", "allowed_grant_types"} |-> v[f]]
              ++ [client_id |-> Fresh[c][4]] ++ New))
           uri == Create(j, "RedirectURI",
                         [uri |-> v.redirect_uris, created_at |-> Instant] ++ Owned)
           has == Relate(i, "has_redirect_uri", j)
           uris == IF v.redirect_uris = Nil THEN <<>> ELSE <<uri, has>>
           scopes == IF v.allowed_scope_ids = Nil THEN <<>>
                     ELSE <<Relate(i, "allows_scope", v.allowed_scope_ids)>>
           secret == IF v.client_type = "confidential" THEN Secret(i, k) ELSE <<>>
<1>1. /\ {i, j, k} \subseteq ToSet(Fresh[c]) /\ {i, j, k} \subseteq EntityIds
      /\ i # j /\ i # k /\ j # k
      /\ "OAuthClient" \in DOMAIN Types /\ "RedirectURI" \in DOMAIN Types
  BY FreshIds, TypesDomain DEF ClientTypes
<1>2. Planned(c, r, <<client>>) /\ Makes(<<client>>, {i})
  <2> DEFINE props == [f \in {"name", "client_type", "description", "allowed_grant_types"} |-> v[f]]
                      ++ [client_id |-> Fresh[c][4]] ++ New
  <2>0. Proper("OAuthClient", props)
    BY <1>1, TypeKinds, DeclaredIs DEF Proper, Kind, Stamps, New, Owned, ++
  <2>1. Fit(c, r, client) /\ client.do = "create" /\ client.entity.id = i
    <3> HIDE DEF props
    <3>1. /\ Fit(c, r, Shown(Create(i, "OAuthClient", props)))
          /\ Shown(Create(i, "OAuthClient", props)).do = "create"
          /\ Shown(Create(i, "OAuthClient", props)).entity.id = i
      BY <1>1, <2>0, CreateFit
    <3> QED BY <3>1 DEF props
  <2> HIDE DEF client
  <2> QED BY <2>1, OnePlanned DEF Makes
<1>3. Planned(c, r, uris) /\ Makes(uris, {j})
  <2>1. Fit(c, r, uri) /\ uri.do = "create" /\ uri.entity.id = j
    <3> DEFINE props == [uri |-> v.redirect_uris, created_at |-> Instant] ++ Owned
    <3>1. Proper("RedirectURI", props)
      BY <1>1, TypeKinds, DeclaredIs DEF Proper, Kind, Owned, ++
    <3> HIDE DEF props
    <3>2. /\ Fit(c, r, Create(j, "RedirectURI", props))
          /\ Create(j, "RedirectURI", props).do = "create"
          /\ Create(j, "RedirectURI", props).entity.id = j
      BY <1>1, <3>1, CreateFit
    <3> QED BY <3>2 DEF props
  <2>2. Fit(c, r, has) /\ has.do = "relate" /\ has.edge.name = "has_redirect_uri"
    BY <1>1, RelateFit
  <2> HIDE DEF uri, has
  <2>3. IsSteps(<<uri, has>>)
    <3>1. <<uri, has>> \in Seq({uri, has})
      OBVIOUS
    <3> QED BY <3>1, ListSteps
  <2>4. Ordered(<<uri, has>>) /\ Makes(<<uri, has>>, {j})
    BY <2>1, <2>2 DEF Ordered, Makes
  <2>5. Planned(c, r, <<uri, has>>)
    BY <2>1, <2>2, <2>3, <2>4 DEF Planned
  <2>6. Makes(<<>>, {j})
    BY DEF Makes
  <2> QED BY <2>4, <2>5, <2>6, NonePlanned
<1>4. Planned(c, r, scopes) /\ Makes(scopes, {})
  <2>1. Planned(c, r, scopes)
    BY <1>1, NonePlanned, RelatePlanned
  <2> QED BY <2>1 DEF Makes, Relate
<1>5. Planned(c, r, secret) /\ Makes(secret, {k})
  <2>1. Makes(<<>>, {k})
    BY DEF Makes
  <2> QED BY <1>1, <2>1, NonePlanned, SecretPlan DEF Makes
<1>6. p.steps = <<client>> \o uris \o scopes \o secret
  <2>1. p = Proceed(<<client>> \o uris \o scopes \o secret, {})
    BY Zenon DEF CreateOAuthClient
  <2> HIDE DEF client, uris, scopes, secret
  <2> QED BY <2>1 DEF Proceed
<1> HIDE DEF client, uris, scopes, secret, i, j, k
<1>7. Planned(c, r, <<client>> \o uris) /\ Makes(<<client>> \o uris, {i} \union {j})
  BY <1>1, <1>2, <1>3, JoinMakes
<1>8. /\ Planned(c, r, <<client>> \o uris \o scopes)
      /\ Makes(<<client>> \o uris \o scopes, ({i} \union {j}) \union {})
  BY <1>4, <1>7, JoinMakes
<1>9. Planned(c, r, <<client>> \o uris \o scopes \o secret)
  <2>1. (({i} \union {j}) \union {}) \intersect {k} = {}
    BY <1>1
  <2> QED BY <1>5, <1>8, <2>1, JoinMakes
<1> QED BY <1>6, <1>9

LEMMA SeedBuiltinsPlan ==
    ASSUME NEW c \in Calls, NEW r, Unused(c)
    PROVE  /\ Planned(c, r, SeedBuiltins(Fresh[c]))
           /\ Makes(SeedBuiltins(Fresh[c]), ToSet(Fresh[c]) \ {Fresh[c][1]})
<1> DEFINE n == Len(Builtins)
           s == SeedBuiltins(Fresh[c])
           nth(k) == (k + 1) \div 2
           role(k) == Create(Fresh[c][k + 1], "Role",
              [name |-> Builtins[k], builtin |-> "true", display_name |-> "Builtin"] ++ New)
           step(j) == IF j % 2 = 1 THEN Unless(Builtins[nth(j)]) ELSE role(nth(j))
<1>1. n \in Nat /\ "Role" \in DOMAIN Types
  BY FreshAssumption, TypesDomain DEF IdentityTypes
<1>2. \A j \in 1..(2 * n) : nth(j) \in 1..n
  BY <1>1
<1>3. \A k \in 1..n : /\ Fit(c, r, role(k)) /\ role(k).do = "create"
                      /\ role(k).entity.id = Fresh[c][k + 1] /\ role(k).entity.type = "Role"
  <2> TAKE k \in 1..n
  <2> DEFINE id == Fresh[c][k + 1]
             props == [name |-> Builtins[k], builtin |-> "true", display_name |-> "Builtin"] ++ New
  <2>1. id \in ToSet(Fresh[c])
    BY FreshIds
  <2>2. Proper("Role", props)
    BY <1>1, TypeKinds, DeclaredIs DEF Proper, Kind, Stamps, New, Owned, ++
  <2>3. role(k) = Create(id, "Role", props)
    OBVIOUS
  <2> HIDE DEF id, props, role
  <2>4. /\ Fit(c, r, Create(id, "Role", props)) /\ Create(id, "Role", props).do = "create"
        /\ Create(id, "Role", props).entity.id = id /\ Creates(Create(id, "Role", props), id, "Role")
    BY <1>1, <2>1, <2>2, CreateFit
  <2> QED BY <2>3, <2>4 DEF Creates, id
<1>4. \A k : Fit(c, r, Unless(Builtins[k])) /\ Unless(Builtins[k]).do = "unless"
  BY DEF Fit, Unless, Kinds
<1>5. s = [j \in 1..(2 * n) |-> step(j)]
  BY DEF SeedBuiltins
<1> HIDE DEF role
<1>6. /\ s \in Seq({step(j) : j \in 1..(2 * n)}) /\ Len(s) = 2 * n
      /\ \A j \in 1..Len(s) : s[j] = step(j)
  <2> DEFINE S == {step(j) : j \in 1..(2 * n)}
  <2>1. 2 * n \in Nat
    BY <1>1
  <2>2. s \in [1..(2 * n) -> S]
    BY <1>5
  <2>3. s \in Seq(S)
    <3> HIDE DEF S, s
    <3> QED BY <2>1, <2>2, SeqDef
  <2>4. Len(s) = 2 * n
    BY <2>1, <2>2
  <2> QED BY <1>5, <2>3, <2>4
<1> HIDE DEF s, step
<1>7. \A j \in 1..(2 * n) :
         \/ /\ s[j] = Unless(Builtins[nth(j)]) /\ j + 1 \in 1..(2 * n)
            /\ s[j + 1] = role(nth(j)) /\ nth(j) \in 1..n
         \/ s[j] = role(nth(j)) /\ nth(j) \in 1..n /\ j = 2 * nth(j)
  <2> SUFFICES ASSUME NEW j \in 1..(2 * n)
               PROVE  \/ /\ s[j] = Unless(Builtins[nth(j)]) /\ j + 1 \in 1..(2 * n)
                         /\ s[j + 1] = role(nth(j)) /\ nth(j) \in 1..n
                      \/ s[j] = role(nth(j)) /\ nth(j) \in 1..n /\ j = 2 * nth(j)
    OBVIOUS
  <2>1. CASE j % 2 = 1
    <3>1. j + 1 \in 1..(2 * n) /\ nth(j + 1) = nth(j) /\ (j + 1) % 2 # 1
      BY <1>1, <2>1
    <3>2. step(j) = Unless(Builtins[nth(j)]) /\ step(j + 1) = role(nth(j + 1))
      BY <2>1, <3>1 DEF step
    <3>3. s[j] = step(j) /\ s[j + 1] = step(j + 1)
      BY <1>6, <3>1
    <3> QED BY <1>2, <3>1, <3>2, <3>3
  <2>2. CASE j % 2 # 1
    <3>1. j = 2 * nth(j)
      BY <1>1, <2>2
    <3>2. s[j] = role(nth(j))
      BY <1>6, <2>2 DEF step
    <3> QED BY <1>2, <3>1, <3>2
  <2> QED BY <2>1, <2>2
<1> HIDE DEF nth
<1>8. IsSteps(s)
  BY <1>6, ListSteps
<1>9. Ordered(s)
  <2>1. ASSUME NEW j \in 1..Len(s), NEW k \in 1..Len(s), s[j].do = "create", s[k].do = "create",
               s[j].entity.id = s[k].entity.id
        PROVE  j = k
    <3>1. /\ nth(j) \in 1..n /\ j = 2 * nth(j) /\ s[j].entity.id = Fresh[c][nth(j) + 1]
          /\ nth(k) \in 1..n /\ k = 2 * nth(k) /\ s[k].entity.id = Fresh[c][nth(k) + 1]
      BY <1>3, <1>4, <1>6, <1>7, <2>1
    <3>2. nth(j) + 1 \in 1..(n + 1) /\ nth(k) + 1 \in 1..(n + 1)
      BY <1>1, <3>1
    <3>3. nth(j) + 1 = nth(k) + 1
      BY <2>1, <3>1, <3>2, FreshIds
    <3> QED BY <3>1, <3>3
  <2>2. ASSUME NEW k \in 1..Len(s), s[k].do = "unless"
        PROVE  k + 1 \in 1..Len(s) /\ s[k + 1].do = "create" /\ s[k + 1].entity.type = "Role"
    BY <1>3, <1>6, <1>7, <2>2
  <2>3. \A k \in 1..Len(s) : s[k].do # "relate"
    BY <1>3, <1>4, <1>6, <1>7
  <2> QED BY <2>1, <2>2, <2>3 DEF Ordered
<1>10. \A j \in 1..Len(s) : Fit(c, r, s[j])
  BY <1>3, <1>4, <1>6, <1>7
<1>11. Makes(s, ToSet(Fresh[c]) \ {Fresh[c][1]})
  <2> SUFFICES ASSUME NEW j \in 1..Len(s), s[j].do = "create"
               PROVE  s[j].entity.id \in ToSet(Fresh[c]) \ {Fresh[c][1]}
    BY DEF Makes
  <2>1. nth(j) \in 1..n /\ s[j].entity.id = Fresh[c][nth(j) + 1]
    BY <1>3, <1>4, <1>6, <1>7
  <2>2. nth(j) + 1 \in 1..(n + 1) /\ 1 \in 1..(n + 1) /\ nth(j) + 1 # 1
    BY <1>1, <2>1
  <2>3. Fresh[c][nth(j) + 1] # Fresh[c][1]
    BY <2>2, FreshIds
  <2> QED BY <2>1, <2>3, FreshIds
<1> QED BY <1>8, <1>9, <1>10, <1>11 DEF Planned, s

LEMMA InitOrganizationPlan ==
    ASSUME NEW c \in Calls, NEW r, Unused(c), NEW v,
           DOMAIN v = OrganizationFields["InitOrganization"], NEW o,
           NEW p \in InitOrganization(v, o, Fresh[c])
    PROVE  Planned(c, r, p.steps)
<1> DEFINE i == Fresh[c][1]
           new == Shown(Create(i, "Organization", [enabled |-> "true"] ++ v ++ New))
<1>1. i \in ToSet(Fresh[c]) /\ "Organization" \in DOMAIN Types
  BY FreshIds, TypesDomain DEF IdentityTypes
<1>2. Planned(c, r, <<new>>) /\ Makes(<<new>>, {i})
  <2> DEFINE props == [enabled |-> "true"] ++ v ++ New
  <2>0. Proper("Organization", props)
    BY <1>1, TypeKinds, DeclaredIs
    DEF Proper, Kind, Stamps, OrganizationFields, New, Owned, ++
  <2>1. Fit(c, r, new) /\ new.do = "create" /\ new.entity.id = i
    <3> HIDE DEF props
    <3>1. /\ Fit(c, r, Shown(Create(i, "Organization", props)))
          /\ Shown(Create(i, "Organization", props)).do = "create"
          /\ Shown(Create(i, "Organization", props)).entity.id = i
      BY <1>1, <2>0, CreateFit
    <3> QED BY <3>1 DEF props
  <2> HIDE DEF new
  <2> QED BY <2>1, OnePlanned DEF Makes
<1>3. {i} \intersect (ToSet(Fresh[c]) \ {i}) = {}
  OBVIOUS
<1>4. p.steps = <<>> \/ p.steps = <<new>> \o SeedBuiltins(Fresh[c])
  BY DEF InitOrganization, None, Refuse, Proceed
<1> HIDE DEF new
<1>5. Planned(c, r, <<new>> \o SeedBuiltins(Fresh[c]))
  BY <1>2, <1>3, SeedBuiltinsPlan, JoinMakes
<1> QED BY <1>4, <1>5, NonePlanned

\* The fields of the requests that edges and texts are taken from.
LEMMA FieldsOf ==
    /\ \A m \in DOMAIN OrganizationFields : Fields[m] = OrganizationFields[m]
    /\ \A m \in DOMAIN UserFields : Fields[m] = UserFields[m]
    /\ \A m \in DOMAIN RoleScopeFields : Fields[m] = RoleScopeFields[m]
    /\ \A m \in DOMAIN MembershipFields : Fields[m] = MembershipFields[m]
    /\ \A m \in DOMAIN ClientFields : Fields[m] = ClientFields[m]
<1>1. \A m \in DOMAIN UserFields : m \notin DOMAIN OrganizationFields
  BY DEF UserFields, OrganizationFields
<1>2. \A m \in DOMAIN RoleScopeFields :
         m \notin DOMAIN OrganizationFields /\ m \notin DOMAIN UserFields
  BY DEF RoleScopeFields, UserFields, OrganizationFields
<1>3. \A m \in DOMAIN MembershipFields :
         m \notin DOMAIN OrganizationFields /\ m \notin DOMAIN UserFields
         /\ m \notin DOMAIN RoleScopeFields
  BY DEF MembershipFields, RoleScopeFields, UserFields, OrganizationFields
<1>4. \A m \in DOMAIN ClientFields :
         m \notin DOMAIN OrganizationFields /\ m \notin DOMAIN UserFields
         /\ m \notin DOMAIN RoleScopeFields /\ m \notin DOMAIN MembershipFields
  BY DEF ClientFields, MembershipFields, RoleScopeFields, UserFields, OrganizationFields
<1> DEFINE first == OrganizationFields ++ UserFields ++ RoleScopeFields
<1>5. /\ \A m \in DOMAIN OrganizationFields : first[m] = OrganizationFields[m]
      /\ \A m \in DOMAIN UserFields : first[m] = UserFields[m]
      /\ \A m \in DOMAIN RoleScopeFields : first[m] = RoleScopeFields[m]
      /\ DOMAIN first = DOMAIN OrganizationFields \union DOMAIN UserFields
                        \union DOMAIN RoleScopeFields
  BY <1>1, <1>2 DEF ++
<1>6. Fields = first ++ MembershipFields ++ ClientFields ++ ProtocolFields ++ AuditFields
  BY DEF Fields
<1> HIDE DEF first
<1>7. /\ \A m \in DOMAIN first : Fields[m] = first[m]
      /\ \A m \in DOMAIN MembershipFields : m \notin DOMAIN first => Fields[m] = MembershipFields[m]
      /\ \A m \in DOMAIN ClientFields :
            m \notin DOMAIN first \union DOMAIN MembershipFields => Fields[m] = ClientFields[m]
  BY <1>6 DEF ++
<1>8. /\ \A m \in DOMAIN OrganizationFields : Fields[m] = OrganizationFields[m]
      /\ \A m \in DOMAIN UserFields : Fields[m] = UserFields[m]
      /\ \A m \in DOMAIN RoleScopeFields : Fields[m] = RoleScopeFields[m]
  BY <1>5, <1>7
<1>9. /\ \A m \in DOMAIN MembershipFields : Fields[m] = MembershipFields[m]
      /\ \A m \in DOMAIN ClientFields : Fields[m] = ClientFields[m]
  BY <1>3, <1>4, <1>5, <1>7
<1> QED BY <1>8, <1>9

LEMMA MethodsOf ==
    Methods = DOMAIN OrganizationFields \union DOMAIN UserFields \union DOMAIN RoleScopeFields
              \union DOMAIN MembershipFields \union DOMAIN ClientFields
              \union DOMAIN ProtocolFields \union DOMAIN AuditFields
BY DEF Methods, Fields, ++

\* What a request that Cross passes on says in a field: what its body does, but for what
\* the path gives.
LEMMA Requested ==
    ASSUME NEW m \in DOMAIN Routes, NEW body, NEW id
    PROVE  /\ DOMAIN Request(m, body, id) = Fields[m]
           /\ \A f \in Fields[m] \ Routes[m].bound : Request(m, body, id)[f] = body[f]
BY DEF Request, OAuthMethods

LEMMA RequestedEnds ==
    ASSUME NEW c \in Calls, NEW m \in DOMAIN EndFields \intersect DOMAIN Bodies[c],
           NEW body \in Bodies[c][m], NEW id
    PROVE  \A f \in DOMAIN EndFields[m] :
              \/ Request(m, body, id)[f] \in EntityIds
              \/ Request(m, body, id)[f] = Nil /\ m # "GrantMembership"
<1>1. m \in DOMAIN Routes /\ Routes[m].bound = {} /\ DOMAIN EndFields[m] \subseteq Fields[m]
  <2>1. m \in {"InviteUser", "GrantMembership", "CreateOAuthClient"}
    BY DEF EndFields
  <2>2. CASE m = "InviteUser"
    <3>1. Fields[m] = UserFields["InviteUser"]
      BY <2>2, FieldsOf DEF UserFields
    <3> QED BY <2>2, <3>1 DEF Routes, Writes, EndFields, UserFields
  <2>3. CASE m = "GrantMembership"
    <3>1. Fields[m] = MembershipFields["GrantMembership"]
      BY <2>3, FieldsOf DEF MembershipFields
    <3> QED BY <2>3, <3>1 DEF Routes, Writes, EndFields, MembershipFields
  <2>4. CASE m = "CreateOAuthClient"
    <3>1. Fields[m] = ClientFields["CreateOAuthClient"]
      BY <2>4, FieldsOf DEF ClientFields
    <3> QED BY <2>4, <3>1 DEF Routes, Writes, EndFields, ClientFields
  <2> QED BY <2>1, <2>2, <2>3, <2>4
<1>2. \A f \in DOMAIN EndFields[m] : Request(m, body, id)[f] = body[f]
  BY <1>1, Requested
<1> QED BY <1>2, BodiesAssumption

LEMMA ProtocolEnd ==
    ASSUME NEW m \in {"Authorize", "Token", "Introspect"}, NEW v, NEW o, NEW ids,
           NEW p \in Manager(m, v, o, ids)
    PROVE  p.steps = <<>>
<1>1. CASE m = "Authorize"
  <2>1. Manager("Authorize", v, o, ids) = {Refuse(Unavailable)}
    BY DEF Manager
  <2> QED BY <1>1, <2>1 DEF Refuse
<1>2. CASE m = "Token"
  <2>1. Manager("Token", v, o, ids) = {Refuse(Unavailable)}
    BY DEF Manager
  <2> QED BY <1>2, <2>1 DEF Refuse
<1>3. CASE m = "Introspect"
  <2>1. Manager("Introspect", v, o, ids) = {Proceed(<<>>, {})}
    BY DEF Manager
  <2> QED BY <1>3, <2>1 DEF Proceed
<1> QED BY <1>1, <1>2, <1>3

\* Whatever is called, the steps that its function leaves to do are planned.
LEMMA ManagerPlan ==
    ASSUME Stored, NEW c \in Calls, Unused(c), NEW m \in DOMAIN Bodies[c],
           NEW body \in Bodies[c][m], NEW id, NEW o,
           NEW p \in Manager(m, Request(m, body, id), o, Fresh[c])
    PROVE  Planned(c, [method |-> m, v |-> Request(m, body, id)], p.steps)
<1> DEFINE v == Request(m, body, id)
           r == [method |-> m, v |-> v]
<1>0. m \in Methods
  BY OrgApiAssumption
<1>1. CASE m = "InitOrganization"
  <2>1. p \in InitOrganization(v, o, Fresh[c])
    BY <1>1 DEF Manager
  <2>2. DOMAIN v = OrganizationFields["InitOrganization"]
    <3>1. Fields[m] = OrganizationFields[m] /\ m \in DOMAIN Routes
      BY <1>1, FieldsOf DEF OrganizationFields, Routes
    <3> QED BY <1>1, <3>1, Requested
  <2> QED BY <1>1, <2>1, <2>2, InitOrganizationPlan
<1>2. CASE m = "UpdateOrganization"
  <2>1. p \in UpdateOrganization(v, o)
    BY <1>2 DEF Manager
  <2>2. DOMAIN v = OrganizationFields["UpdateOrganization"]
    <3>1. Fields[m] = OrganizationFields[m] /\ m \in DOMAIN Routes
      BY <1>2, FieldsOf DEF OrganizationFields, Routes
    <3> QED BY <1>2, <3>1, Requested
  <2> QED BY <1>2, <2>1, <2>2, UpdateOrganizationPlan
<1>3. CASE m = "DisableOrganization"
  <2>1. p \in DisableOrganization(o)
    BY <1>3 DEF Manager
  <2> QED BY <1>3, <2>1, DisableOrganizationPlan
<1>4. CASE m = "DeleteOrganization"
  <2>1. p \in DeleteOrganization(o)
    BY <1>4 DEF Manager
  <2> QED BY <1>4, <2>1, DeleteOrganizationPlan
<1>5. CASE m = "InviteUser"
  <2>1. p \in InviteUser(v, o, Fresh[c])
    BY <1>5 DEF Manager
  <2>2. /\ v.invited_by_user_id \in EntityIds \union {Nil}
        /\ v.role_ids \in EntityIds \union {Nil}
    BY <1>5, RequestedEnds DEF EndFields
  <2> QED BY <1>5, <2>1, <2>2, InviteUserPlan DEF Joiners
<1>6. CASE m = "AcceptInvitation"
  <2>1. p \in AcceptInvitation(v, o)
    BY <1>6 DEF Manager
  <2> QED BY <1>6, <2>1, AcceptInvitationPlan
<1>7. CASE m = "SuspendUser"
  <2>1. p \in ChangeUser(v, o, [status |-> "suspended"])
    BY <1>7 DEF Manager
  <2> DEFINE props == [status |-> "suspended"]
  <2>2. /\ m \in DOMAIN UserFields /\ DOMAIN props \subseteq {"status", "deleted_at"}
        /\ "status" \in DOMAIN props /\ props.status \in Options["User"].status
    BY <1>7 DEF UserFields, Options
  <2> HIDE DEF props
  <2>3. p \in ChangeUser(v, o, props)
    BY <2>1 DEF props
  <2> QED BY <1>7, <2>2, <2>3, ChangeUserPlan
<1>8. CASE m = "ReactivateUser"
  <2>1. p \in ChangeUser(v, o, [status |-> "active"])
    BY <1>8 DEF Manager
  <2> DEFINE props == [status |-> "active"]
  <2>2. /\ m \in DOMAIN UserFields /\ DOMAIN props \subseteq {"status", "deleted_at"}
        /\ "status" \in DOMAIN props /\ props.status \in Options["User"].status
    BY <1>8 DEF UserFields, Options
  <2> HIDE DEF props
  <2>3. p \in ChangeUser(v, o, props)
    BY <2>1 DEF props
  <2> QED BY <1>8, <2>2, <2>3, ChangeUserPlan
<1>9. CASE m = "DeleteUser"
  <2>1. p \in ChangeUser(v, o, [status |-> "deleted", deleted_at |-> Instant])
    BY <1>9 DEF Manager
  <2> DEFINE props == [status |-> "deleted", deleted_at |-> Instant]
  <2>2. /\ m \in DOMAIN UserFields /\ DOMAIN props \subseteq {"status", "deleted_at"}
        /\ "status" \in DOMAIN props /\ props.status \in Options["User"].status
    BY <1>9 DEF UserFields, Options
  <2> HIDE DEF props
  <2>3. p \in ChangeUser(v, o, props)
    BY <2>1 DEF props
  <2> QED BY <1>9, <2>2, <2>3, ChangeUserPlan
<1>10. CASE m = "CreateRole"
  <2>1. p \in CreateRole(v, o, Fresh[c])
    BY <1>10 DEF Manager
  <2>2. DOMAIN v = RoleScopeFields["CreateRole"]
    <3>1. Fields[m] = RoleScopeFields[m] /\ m \in DOMAIN Routes
      BY <1>10, FieldsOf DEF RoleScopeFields, Routes
    <3> QED BY <1>10, <3>1, Requested
  <2> QED BY <1>10, <2>1, <2>2, CreateRolePlan
<1>11. CASE m = "UpdateRole"
  <2>1. p \in UpdateRole(v, o)
    BY <1>11 DEF Manager
  <2>2. {"display_name", "description"} \subseteq DOMAIN v
    <3>1. Fields[m] = RoleScopeFields[m] /\ m \in DOMAIN Routes
      BY <1>11, FieldsOf DEF RoleScopeFields, Routes
    <3> QED BY <1>11, <3>1, Requested DEF RoleScopeFields
  <2> QED BY <1>11, <2>1, <2>2, UpdateRolePlan
<1>12. CASE m = "DeleteRole"
  <2>1. p \in DeleteRole(v, o)
    BY <1>12 DEF Manager
  <2> QED BY <1>12, <2>1, DeleteRolePlan
<1>13. CASE m = "RegisterScope"
  <2>1. p \in RegisterScope(v, o, Fresh[c])
    BY <1>13 DEF Manager
  <2>2. DOMAIN v = RoleScopeFields["RegisterScope"]
    <3>1. Fields[m] = RoleScopeFields[m] /\ m \in DOMAIN Routes
      BY <1>13, FieldsOf DEF RoleScopeFields, Routes
    <3> QED BY <1>13, <3>1, Requested
  <2> QED BY <1>13, <2>1, <2>2, RegisterScopePlan
<1>14. CASE m = "DeprecateScope"
  <2>1. p \in DeprecateScope(v, o)
    BY <1>14 DEF Manager
  <2> QED BY <1>14, <2>1, DeprecateScopePlan
<1>15. CASE m = "GrantMembership"
  <2>1. p \in GrantMembership(v, Fresh[c])
    BY <1>15 DEF Manager
  <2>2. v.user_id \in EntityIds /\ v.role_id \in EntityIds
    BY <1>15, RequestedEnds DEF EndFields
  <2> QED BY <1>15, <2>1, <2>2, GrantMembershipPlan DEF Joiners
<1>16. CASE m = "RevokeMembership"
  <2>1. p \in RevokeMembership(v, o)
    BY <1>16 DEF Manager
  <2> QED BY <1>16, <2>1, RevokeMembershipPlan
<1>17. CASE m = "CreateOAuthClient"
  <2>1. p \in CreateOAuthClient(v, Fresh[c])
    BY <1>17 DEF Manager
  <2>2. v.allowed_scope_ids \in EntityIds \union {Nil}
    BY <1>17, RequestedEnds DEF EndFields
  <2> QED BY <1>17, <2>1, <2>2, CreateOAuthClientPlan DEF Joiners
<1>18. CASE m = "RotateClientSecret"
  <2>1. p \in RotateClientSecret(v, o, Fresh[c])
    BY <1>18 DEF Manager
  <2> QED BY <1>18, <2>1, RotateClientSecretPlan DEF Joiners
<1>19. CASE m = "DeleteOAuthClient"
  <2>1. p \in DeleteOAuthClient(v, o)
    BY <1>19 DEF Manager
  <2> QED BY <1>19, <2>1, DeleteOAuthClientPlan
<1>20. CASE m = "Revoke"
  <2>1. p \in Revoke(v, Fresh[c])
    BY <1>20 DEF Manager
  <2> QED BY <1>20, <2>1, RevokePlan
<1>21. CASE m \in {"Authorize", "Token", "Introspect"}
  <2>1. p.steps = <<>>
    BY <1>21, ProtocolEnd
  <2> QED BY <2>1, NonePlanned
<1>22. CASE m \in Lookups
  BY <1>22, LookupsEnd, NonePlanned
<1> QED
  BY <1>0, <1>1, <1>2, <1>3, <1>4, <1>5, <1>6, <1>7, <1>8, <1>9, <1>10, <1>11, <1>12,
     <1>13, <1>14, <1>15, <1>16, <1>17, <1>18, <1>19, <1>20, <1>21, <1>22, MethodsOf
  DEF OrganizationFields, UserFields, RoleScopeFields, MembershipFields, ClientFields,
      ProtocolFields, AuditFields, Lookups

-----------------------------------------------------------------------------
(* The inductive invariant: the store, and what every call has still to do for it *)

Shaped ==
    /\ req = [c \in Calls |-> req[c]] /\ todo = [c \in Calls |-> todo[c]]
    /\ result = [c \in Calls |-> result[c]] /\ code = [c \in Calls |-> code[c]]
    /\ answer = [c \in Calls |-> answer[c]]

\* A call before it begins, and what it may be answered with.
Settled(c) ==
    /\ req[c] = NoRequest => todo[c] = <<>> /\ result[c] = {} /\ answer[c] = {} /\ Unused(c)
    /\ code[c] \in {"none", "OK", "Internal"} \union DOMAIN CodeTable
    /\ code[c] # "none" => todo[c] = <<>> /\ result[c] = {}
    /\ answer[c] # {} => code[c] = "OK"

Doing(c) == \A r \in {req[c]}, steps \in {todo[c]} : Planned(c, r, steps)

\* What every call has still to do is planned for its request.
Wired ==
    /\ Stored /\ Shaped
    /\ \A c \in Calls : Settled(c) /\ Doing(c)
    /\ touched \subseteq Calls /\ faults \in 0..MaxFaults
    /\ phase \in {"starting", "serving", "exited", "panicked"}

\* Entities stay, and keep their types; and no role becomes a built-in one.
Grown == \A i \in EntityIds : entity[i] # NoEntity =>
            /\ entity'[i] # NoEntity /\ entity'[i].type = entity[i].type
            /\ Builtin(i)' => Builtin(i)

LEMMA GrownSame == UNCHANGED entity => Grown
BY DEF Grown, Builtin

LEMMA ExistsKept == ASSUME Grown, NEW i, Exists(i) PROVE Exists(i)'
BY DEF Grown, Exists

LEMMA UserKept == ASSUME Grown, NEW i, IsUser(i) PROVE IsUser(i)'
BY DEF Grown, Exists, IsUser

LEMMA FitKept ==
    ASSUME Grown, NEW c, NEW r, NEW s, Fit(c, r, s),
           s.do = "create" => entity'[s.entity.id] = NoEntity
    PROVE  Fit(c, r, s)'
<1>1. s.do \in {"patch", "delete"} => Exists(s.id)'
  BY ExistsKept DEF Fit
<1>2. s.do = "patch" => Tame(r, entity'[s.id].type, s.props)
  BY DEF Fit, Grown, Exists
<1>3. s.do \in {"patch", "delete"} /\ Builtin(s.id)' => Builtin(s.id)
  BY DEF Fit, Grown, Exists
<1> QED BY <1>1, <1>2, <1>3 DEF Fit

\* What is left of the steps when the first n are done.
LEMMA RestPlanned ==
    ASSUME Grown, NEW c, NEW r, NEW steps, Planned(c, r, steps),
           NEW n \in Nat, n <= Len(steps), NEW rest, IsSteps(rest), Len(rest) = Len(steps) - n,
           \A k \in 1..Len(rest) : rest[k] = steps[k + n],
           \A k \in 1..Len(rest) : rest[k].do = "create" => entity'[rest[k].entity.id] = NoEntity,
           \A j \in 1..n : \A i : Creates(steps[j], i, "User") => IsUser(i)'
    PROVE  Planned(c, r, rest)'
<1>0. Len(steps) \in Nat /\ Len(rest) \in Nat
  <2>1. steps \in Seq({steps[k] : k \in 1..Len(steps)})
    BY DEF Planned, IsSteps
  <2> QED BY <2>1
<1>1. \A k \in 1..Len(rest) : k + n \in 1..Len(steps)
  BY <1>0
<1>2. \A k \in 1..Len(rest) : Fit(c, r, rest[k])'
  <2> TAKE k \in 1..Len(rest)
  <2>1. PICK s : s = rest[k]
    OBVIOUS
  <2>2. Fit(c, r, s)
    BY <1>1, <2>1 DEF Planned
  <2>3. Fit(c, r, s)'
    BY <2>1, <2>2, FitKept
  <2> QED BY <2>1, <2>3
<1>3. \A j, k \in 1..Len(rest) :
         (rest[j].do = "create" /\ rest[k].do = "create"
          /\ rest[j].entity.id = rest[k].entity.id) => j = k
  <2> SUFFICES ASSUME NEW j \in 1..Len(rest), NEW k \in 1..Len(rest), rest[j].do = "create",
                      rest[k].do = "create", rest[j].entity.id = rest[k].entity.id
               PROVE  j = k
    OBVIOUS
  <2>1. j + n = k + n
    BY <1>1 DEF Planned, Ordered
  <2> QED BY <1>0, <2>1
<1>4. \A k \in 1..Len(rest) : rest[k].do = "unless" =>
         /\ k + 1 \in 1..Len(rest) /\ rest[k + 1].do = "create" /\ rest[k + 1].entity.type = "Role"
  <2> SUFFICES ASSUME NEW k \in 1..Len(rest), rest[k].do = "unless"
               PROVE  /\ k + 1 \in 1..Len(rest) /\ rest[k + 1].do = "create"
                      /\ rest[k + 1].entity.type = "Role"
    OBVIOUS
  <2>1. /\ (k + n) + 1 \in 1..Len(steps) /\ steps[(k + n) + 1].do = "create"
        /\ steps[(k + n) + 1].entity.type = "Role"
    BY <1>1 DEF Planned, Ordered
  <2>2. k + 1 \in 1..Len(rest) /\ (k + 1) + n = (k + n) + 1
    BY <1>0, <2>1
  <2>3. rest[k + 1] = steps[(k + 1) + n]
    BY <2>2
  <2> QED BY <2>1, <2>2, <2>3
<1>5. \A k \in 1..Len(rest) : (rest[k].do = "relate" /\ rest[k].edge.name = "has_invitation") =>
         \/ IsUser(rest[k].edge.from)'
         \/ \E j \in 1..(k - 1) : Creates(rest[j], rest[k].edge.from, "User")
  <2> SUFFICES ASSUME NEW k \in 1..Len(rest), rest[k].do = "relate",
                      rest[k].edge.name = "has_invitation"
               PROVE  \/ IsUser(rest[k].edge.from)'
                      \/ \E j \in 1..(k - 1) : Creates(rest[j], rest[k].edge.from, "User")
    OBVIOUS
  <2>1. PICK u : u = rest[k].edge.from
    OBVIOUS
  <2>2. IsUser(u) \/ \E j \in 1..((k + n) - 1) : Creates(steps[j], u, "User")
    BY <1>1, <2>1 DEF Planned, Ordered
  <2>3. IsUser(u) => IsUser(u)'
    BY UserKept
  <2>4. ASSUME NEW j \in 1..((k + n) - 1), Creates(steps[j], u, "User")
        PROVE  IsUser(u)' \/ \E i \in 1..(k - 1) : Creates(rest[i], u, "User")
    <3>1. CASE j <= n
      <4>1. j \in 1..n
        BY <3>1
      <4>2. IsUser(u)'
        BY <2>4, <4>1
      <4> QED BY <4>2
    <3>2. CASE j > n
      <4>1. j - n \in 1..(k - 1) /\ j - n \in 1..Len(rest) /\ (j - n) + n = j
        BY <1>0, <3>2
      <4>2. rest[j - n] = steps[j]
        BY <4>1
      <4> QED BY <2>4, <4>1, <4>2
    <3> QED BY <1>0, <3>1, <3>2
  <2>5. IsUser(u)' \/ \E i \in 1..(k - 1) : Creates(rest[i], u, "User")
    BY <2>2, <2>3, <2>4
  <2> QED BY <2>1, <2>5
<1>6. Ordered(rest)'
  BY <1>3, <1>4, <1>5 DEF Ordered
<1> QED BY <1>2, <1>6 DEF Planned

\* Steps of a call that are not touched by what happens to the store.
LEMMA AllPlanned ==
    ASSUME Grown, NEW c, NEW r, NEW steps, Planned(c, r, steps),
           \A k \in 1..Len(steps) :
              steps[k].do = "create" => entity'[steps[k].entity.id] = NoEntity
    PROVE  Planned(c, r, steps)'
<1>1. Len(steps) \in Nat /\ IsSteps(steps)
  BY JoinedAt DEF Planned
<1>2. \A k \in 1..Len(steps) : k + 0 = k
  BY <1>1
<1> QED BY <1>1, <1>2, RestPlanned

LEMMA NextPlanned ==
    ASSUME Grown, NEW c, NEW r, NEW steps, Planned(c, r, steps), steps # <<>>,
           \A k \in 2..Len(steps) :
              steps[k].do = "create" => entity'[steps[k].entity.id] = NoEntity,
           \A i : Creates(steps[1], i, "User") => IsUser(i)'
    PROVE  Planned(c, r, Tail(steps))'
<1> DEFINE rest == Tail(steps)
<1>1. /\ Len(steps) \in Nat /\ Len(steps) >= 1 /\ Len(rest) = Len(steps) - 1
      /\ \A k \in 1..Len(rest) : rest[k] = steps[k + 1]
      /\ IsSteps(rest)
  BY TailSteps DEF Planned
<1> HIDE DEF rest
<1>2. \A k \in 1..Len(rest) : k + 1 \in 2..Len(steps)
  BY <1>1
<1>3. \A k \in 1..Len(rest) : rest[k].do = "create" => entity'[rest[k].entity.id] = NoEntity
  BY <1>1, <1>2
<1>4. \A j \in 1..1 : \A i : Creates(steps[j], i, "User") => IsUser(i)'
  OBVIOUS
<1>5. Planned(c, r, rest)'
  BY <1>1, <1>3, <1>4, RestPlanned
<1> QED BY <1>5 DEF rest

\* A list that finds the role: its creation is left out as well.
LEMMA SkipPlanned ==
    ASSUME UNCHANGED entity, NEW c, NEW r, NEW steps, Planned(c, r, steps), steps # <<>>,
           steps[1].do \notin {"create"}
    PROVE  /\ Planned(c, r, Tail(steps))'
           /\ steps[1].do = "unless" =>
                 Tail(steps) # <<>> /\ Planned(c, r, Tail(Tail(steps)))'
<1> DEFINE rest == Tail(steps)
<1>0. Grown
  BY GrownSame
<1>1. /\ Len(steps) \in Nat /\ Len(steps) >= 1 /\ Len(rest) = Len(steps) - 1
      /\ \A k \in 1..Len(rest) : rest[k] = steps[k + 1]
      /\ IsSteps(rest)
  BY TailSteps DEF Planned
<1>2. \A k \in 1..Len(steps) : steps[k].do = "create" => entity'[steps[k].entity.id] = NoEntity
  BY DEF Planned, Fit
<1>3. Planned(c, r, Tail(steps))'
  BY <1>0, <1>1, <1>2, NextPlanned DEF Creates
<1> HIDE DEF rest
<1>4. ASSUME steps[1].do = "unless" PROVE rest # <<>> /\ Planned(c, r, Tail(rest))'
  <2> DEFINE last == Tail(rest)
  <2>1. 2 \in 1..Len(steps) /\ steps[2].do = "create" /\ steps[2].entity.type = "Role"
    <3>1. 1 \in 1..Len(steps)
      BY <1>1
    <3>2. 1 + 1 \in 1..Len(steps) /\ steps[1 + 1].do = "create" /\ steps[1 + 1].entity.type = "Role"
      BY <1>4, <3>1 DEF Planned, Ordered
    <3> QED BY <3>2
  <2>2. rest # <<>>
    BY <1>1, <2>1
  <2>3. /\ Len(last) = Len(rest) - 1 /\ \A k \in 1..Len(last) : last[k] = rest[k + 1]
        /\ IsSteps(last)
    BY <1>1, <2>2, TailSteps
  <2> HIDE DEF last
  <2>4. \A k \in 1..Len(last) : last[k] = steps[k + 2]
    <3> TAKE k \in 1..Len(last)
    <3>1. k + 1 \in 1..Len(rest) /\ (k + 1) + 1 = k + 2
      BY <1>1, <2>1, <2>3
    <3>2. rest[k + 1] = steps[(k + 1) + 1]
      BY <1>1, <3>1
    <3> QED BY <2>3, <3>1, <3>2
  <2>5. \A k \in 1..Len(last) : k + 2 \in 1..Len(steps)
    BY <1>1, <2>1, <2>3
  <2>6. \A k \in 1..Len(last) : last[k].do = "create" => entity'[last[k].entity.id] = NoEntity
    BY <1>2, <2>4, <2>5
  <2>7. \A j \in 1..2 : \A i : Creates(steps[j], i, "User") => IsUser(i)'
    BY <1>4, <2>1 DEF Creates
  <2>8. 2 <= Len(steps) /\ Len(last) = Len(steps) - 2
    BY <1>1, <2>1, <2>3
  <2>9. Planned(c, r, last)'
    BY <1>0, <2>3, <2>4, <2>6, <2>7, <2>8, RestPlanned
  <2> QED BY <2>2, <2>9 DEF last
<1> QED BY <1>3, <1>4 DEF rest

-----------------------------------------------------------------------------
(* What one step of a call means to all of them *)

LEMMA NilNoType == Nil \notin DOMAIN Types
BY TypesDomain DEF IdentityTypes, ClientTypes, ArtifactTypes, AuditTypes, Nil

LEMMA FreshApart ==
    ASSUME NEW c \in Calls, NEW d \in Calls \ {c}
    PROVE  ToSet(Fresh[c]) \intersect ToSet(Fresh[d]) = {}
BY FreshAssumption DEF ToSet

LEMMA CodeOf == ASSUME NEW err PROVE toGRPCError(err) \in {"Internal"} \union DOMAIN CodeTable
<1> DEFINE codes == {k \in DOMAIN CodeTable : err \in CodeTable[k]}
<1>1. codes # {} => (CHOOSE k \in codes : TRUE) \in codes
  OBVIOUS
<1>2. codes \subseteq DOMAIN CodeTable
  OBVIOUS
<1> HIDE DEF codes
<1>3. (IF codes = {} THEN "Internal" ELSE CHOOSE k \in codes : TRUE)
      \in {"Internal"} \union DOMAIN CodeTable
  BY <1>1, <1>2
<1> QED BY <1>3 DEF toGRPCError, codes

LEMMA CodesNotNone == "none" \notin DOMAIN CodeTable
BY DEF CodeTable

LEMMA Spent ==
    ASSUME faults \in 0..MaxFaults, NEW o \in WriteOutcome \union ReadOutcome, Spend(o)
    PROVE  faults' \in 0..MaxFaults
<1>1. FaultCost(o) \in {0, 1}
  BY DEF FaultCost
<1> QED BY <1>1, OrgApiAssumption DEF Spend

\* What an answer, or a step that is done, leaves of a call.
LEMMA GoOnDoes ==
    ASSUME Shaped, NEW c \in Calls, NEW r, NEW err, NEW steps, NEW es, GoOn(c, r, err, steps, es)
    PROVE  /\ todo' = [d \in Calls |-> todo'[d]] /\ result' = [d \in Calls |-> result'[d]]
           /\ code' = [d \in Calls |-> code'[d]] /\ answer' = [d \in Calls |-> answer'[d]]
           /\ \A d \in Calls \ {c} : /\ todo'[d] = todo[d] /\ result'[d] = result[d]
                                     /\ code'[d] = code[d] /\ answer'[d] = answer[d]
           /\ todo'[c] = <<>> \/ (todo'[c] = steps /\ err = "none")
           /\ code'[c] \in {"none", "OK", "Internal"} \union DOMAIN CodeTable
           /\ code'[c] # "none" => todo'[c] = <<>> /\ result'[c] = {}
           /\ answer'[c] # {} => code'[c] = "OK"
<1> DEFINE over == err # "none" \/ steps = <<>>
           e == toGRPCError(err)
<1>1. e \in {"Internal"} \union DOMAIN CodeTable
  BY CodeOf
<1> HIDE DEF e
<1>2. /\ todo' = [todo EXCEPT ![c] = IF over THEN <<>> ELSE steps]
      /\ result' = [result EXCEPT ![c] = IF over THEN {} ELSE es]
      /\ code' = [code EXCEPT ![c] = IF ~over THEN "none" ELSE IF err = "none" THEN "OK" ELSE e]
      /\ answer' = [answer EXCEPT ![c] = IF err = "none" /\ over THEN Answer(r.method, r.v, es)
                                         ELSE {}]
  BY DEF GoOn, e
<1> HIDE DEF over
<1>3. /\ todo' = [d \in Calls |-> todo'[d]] /\ result' = [d \in Calls |-> result'[d]]
      /\ code' = [d \in Calls |-> code'[d]] /\ answer' = [d \in Calls |-> answer'[d]]
      /\ \A d \in Calls \ {c} : /\ todo'[d] = todo[d] /\ result'[d] = result[d]
                                /\ code'[d] = code[d] /\ answer'[d] = answer[d]
  BY <1>2 DEF Shaped
<1>4. /\ todo'[c] = IF over THEN <<>> ELSE steps
      /\ result'[c] = IF over THEN {} ELSE es
      /\ code'[c] = IF ~over THEN "none" ELSE IF err = "none" THEN "OK" ELSE e
      /\ (err = "none" /\ over) \/ answer'[c] = {}
  BY <1>2 DEF Shaped
<1> QED BY <1>1, <1>3, <1>4, CodesNotNone DEF over

\* What c creates is new to no other call.
NewOnly(c) == \A i \in EntityIds :
                 entity'[i] # NoEntity => entity[i] # NoEntity \/ i \in ToSet(Fresh[c])

LEMMA OthersWired ==
    ASSUME Wired, Grown, NEW c \in Calls, NewOnly(c), NEW d \in Calls \ {c},
           req'[d] = req[d], todo'[d] = todo[d], result'[d] = result[d], code'[d] = code[d],
           answer'[d] = answer[d]
    PROVE  Settled(d)' /\ Doing(d)'
<1>0. ToSet(Fresh[d]) \subseteq EntityIds /\ ToSet(Fresh[c]) \intersect ToSet(Fresh[d]) = {}
  BY FreshIds, FreshApart
<1>1. \A i \in ToSet(Fresh[d]) : entity[i] = NoEntity => entity'[i] = NoEntity
  BY <1>0 DEF NewOnly
<1>2. Settled(d)'
  BY <1>1 DEF Wired, Settled, Unused
<1>3. PICK r, steps : r = req[d] /\ steps = todo[d]
  OBVIOUS
<1>4. Planned(d, r, steps)
  BY <1>3 DEF Wired, Doing
<1>5. Planned(d, r, steps)'
  <2>1. \A k \in 1..Len(steps) : steps[k].do = "create" => entity'[steps[k].entity.id] = NoEntity
    BY <1>1, <1>4 DEF Planned, Fit
  <2> QED BY <1>4, <2>1, AllPlanned
<1> QED BY <1>2, <1>3, <1>5 DEF Doing

LEMMA ActorWired ==
    ASSUME Wired, NEW c \in Calls, NEW r, NEW err, NEW steps, NEW es, GoOn(c, r, err, steps, es),
           NEW q, req'[c] = q, q # NoRequest,
           err = "none" => Planned(c, q, steps)'
    PROVE  Settled(c)' /\ Doing(c)'
<1>1. /\ todo'[c] = <<>> \/ (todo'[c] = steps /\ err = "none")
      /\ code'[c] \in {"none", "OK", "Internal"} \union DOMAIN CodeTable
      /\ code'[c] # "none" => todo'[c] = <<>> /\ result'[c] = {}
      /\ answer'[c] # {} => code'[c] = "OK"
  BY GoOnDoes DEF Wired
<1>2. Settled(c)'
  BY <1>1 DEF Settled
<1>3. Planned(c, q, <<>>)'
  BY NonePlanned
<1>4. Doing(c)'
  BY <1>1, <1>3 DEF Doing
<1> QED BY <1>2, <1>4

Asks(c, q) == req' = [req EXCEPT ![c] = q]

LEMMA CallWired ==
    ASSUME Wired, NEW c \in Calls, NEW r, NEW err, NEW steps, NEW es, GoOn(c, r, err, steps, es),
           NEW q, Asks(c, q), q # NoRequest,
           err = "none" => Planned(c, q, steps)',
           Grown, NewOnly(c), Stored', touched' \subseteq Calls, faults' \in 0..MaxFaults,
           phase' = phase
    PROVE  Wired'
<1>1. Shaped' /\ req'[c] = q /\ \A d \in Calls \ {c} :
         /\ req'[d] = req[d] /\ todo'[d] = todo[d] /\ result'[d] = result[d]
         /\ code'[d] = code[d] /\ answer'[d] = answer[d]
  <2>1. Shaped
    BY DEF Wired
  <2>2. req' = [d \in Calls |-> req'[d]] /\ req'[c] = q /\ \A d \in Calls \ {c} : req'[d] = req[d]
    BY <2>1 DEF Shaped, Asks
  <2>3. /\ todo' = [d \in Calls |-> todo'[d]] /\ result' = [d \in Calls |-> result'[d]]
        /\ code' = [d \in Calls |-> code'[d]] /\ answer' = [d \in Calls |-> answer'[d]]
        /\ \A d \in Calls \ {c} : /\ todo'[d] = todo[d] /\ result'[d] = result[d]
                                  /\ code'[d] = code[d] /\ answer'[d] = answer[d]
    BY <2>1, GoOnDoes
  <2> QED BY <2>2, <2>3 DEF Shaped
<1>2. Settled(c)' /\ Doing(c)'
  BY <1>1, ActorWired
<1>3. \A d \in Calls \ {c} : Settled(d)' /\ Doing(d)'
  BY <1>1, OthersWired
<1> QED BY <1>1, <1>2, <1>3 DEF Wired

-----------------------------------------------------------------------------
(* The actions *)

\* The store is left alone.
LEMMA SameStore ==
    ASSUME Wired, UNCHANGED store, NEW c
    PROVE  Grown /\ NewOnly(c) /\ Stored' /\ UNCHANGED entity
BY GrownSame DEF Wired, store, NewOnly, Stored, WellFormed, Exists, IsUser

LEMMA StoredIds == \A t \in Stores : \A i \in DOMAIN t.entity : i \in EntityIds
<1> SUFFICES ASSUME NEW t \in Stores, NEW i \in DOMAIN t.entity PROVE i \in EntityIds
  OBVIOUS
<1>1. i \in StoreIds
  BY DEF StoreIds
<1> QED BY <1>1 DEF EntityIds

LEMMA InitWired == Init => Wired
<1> SUFFICES ASSUME Init PROVE Wired
  OBVIOUS
<1>1. PICK s \in Stores :
         /\ entity = [i \in EntityIds |-> IF i \in DOMAIN s.entity THEN s.entity[i] ELSE NoEntity]
         /\ edges = s.edges
  BY DEF Init
<1>2. DOMAIN s.entity \subseteq EntityIds
  BY StoredIds
<1>3. \A i \in DOMAIN s.entity :
         entity[i] = s.entity[i] /\ WellFormed(i, entity[i]) /\ entity[i] # NoEntity
  <2> TAKE i \in DOMAIN s.entity
  <2>1. entity[i] = s.entity[i]
    BY <1>1, <1>2
  <2>2. WellFormed(i, s.entity[i])
    BY StoresAssumption DEF WellFormed
  <2>3. s.entity[i] # NoEntity
    BY <2>2, NilNoType DEF WellFormed, NoEntity
  <2> QED BY <2>1, <2>2, <2>3
<1>4. \A i \in EntityIds \ DOMAIN s.entity : entity[i] = NoEntity
  BY <1>1
<1>5. Stored
  <2>1. \A d \in edges : /\ {d.from, d.to} \subseteq DOMAIN s.entity
                         /\ d.name = "has_invitation" => s.entity[d.from].type = "User"
    BY <1>1, StoresAssumption
  <2>2. \A i \in DOMAIN s.entity : Exists(i)
    BY <1>2, <1>3 DEF Exists
  <2>3. \A d \in edges :
           {d.from, d.to} \subseteq EntityIds /\ (d.name = "has_invitation" => IsUser(d.from))
    BY <1>2, <1>3, <2>1, <2>2 DEF IsUser
  <2>4. \A i \in EntityIds : entity[i] # NoEntity => WellFormed(i, entity[i])
    BY <1>3, <1>4
  <2>5. entity = [i \in EntityIds |-> entity[i]]
    BY <1>1
  <2> QED BY <2>3, <2>4, <2>5 DEF Stored
<1>6. \A c \in Calls : Unused(c)
  BY <1>4, FreshIds, FreshAssumption DEF Unused
<1>7. Shaped /\ \A c \in Calls : Settled(c)
  BY <1>6 DEF Init, Shaped, Settled
<1>8. \A c \in Calls : Doing(c)
  BY NonePlanned DEF Init, Doing
<1> QED BY <1>5, <1>7, <1>8, OrgApiAssumption DEF Init, Wired

LEMMA StartWired == Wired /\ Start => Wired'
<1> SUFFICES ASSUME Wired, Start PROVE Wired'
  OBVIOUS
<1>1. UNCHANGED <<store, calling, touched, faults>> /\ phase' \in {"serving", "exited"}
  BY DEF Start
<1>2. Stored' /\ UNCHANGED entity
  BY <1>1, SameStore
<1>3. Shaped'
  BY <1>1 DEF calling, Wired, Shaped
<1>4. ASSUME NEW c \in Calls PROVE Settled(c)' /\ Doing(c)'
  <2>1. Settled(c)'
    BY <1>1, <1>2 DEF calling, Wired, Settled, Unused
  <2>2. PICK r, steps : r = req[c] /\ steps = todo[c]
    OBVIOUS
  <2>3. Planned(c, r, steps)
    BY <2>2 DEF Wired, Doing
  <2>4. Planned(c, r, steps)'
    <3>1. \A k \in 1..Len(steps) : steps[k].do = "create" => entity'[steps[k].entity.id] = NoEntity
      BY <1>2, <2>3 DEF Planned, Fit
    <3> QED BY <1>2, <2>3, <3>1, GrownSame, AllPlanned
  <2> QED BY <1>1, <2>1, <2>2, <2>4 DEF Doing, calling
<1> QED BY <1>1, <1>2, <1>3, <1>4 DEF Wired

LEMMA DenyWired == ASSUME Wired, NEW c \in Calls, Deny(c) PROVE Wired'
<1>1. /\ req[c] = NoRequest /\ req' = [req EXCEPT ![c].method = "denied"]
      /\ code' = [code EXCEPT ![c] = "PermissionDenied"]
      /\ UNCHANGED <<phase, store, todo, result, answer, touched, faults>>
  BY DEF Deny, Arrives
<1>2. Grown /\ NewOnly(c) /\ Stored' /\ UNCHANGED entity
  BY <1>1, SameStore
<1>3. Shaped' /\ \A d \in Calls \ {c} : req'[d] = req[d] /\ code'[d] = code[d]
  BY <1>1 DEF Wired, Shaped
<1>4. \A d \in Calls \ {c} : Settled(d)' /\ Doing(d)'
  BY <1>1, <1>2, <1>3, OthersWired
<1>5. todo[c] = <<>> /\ result[c] = {} /\ answer[c] = {}
  BY <1>1 DEF Wired, Settled
<1>6. code'[c] = "PermissionDenied" /\ req'[c].method = "denied"
  BY <1>1 DEF Wired, Shaped, NoRequest
<1>7. req'[c] # NoRequest
  <2>1. NoRequest.method = Nil
    BY DEF NoRequest
  <2>2. "denied" # Nil
    BY DEF Nil
  <2> QED BY <1>6, <2>1, <2>2
<1>8. Settled(c)'
  BY <1>1, <1>5, <1>6, <1>7 DEF Settled, CodeTable
<1>9. Doing(c)'
  <2>1. PICK r : r = req'[c]
    OBVIOUS
  <2>2. Planned(c, r, <<>>)'
    BY NonePlanned
  <2> QED BY <1>1, <1>5, <2>1, <2>2 DEF Doing
<1> QED BY <1>1, <1>2, <1>3, <1>4, <1>8, <1>9 DEF Wired

LEMMA BeginWired == ASSUME Wired, NEW c \in Calls, Begin(c) PROVE Wired'
<1>1. PICK m, body, id, o, p :
         /\ m \in DOMAIN Bodies[c] /\ body \in Bodies[c][m] /\ o \in ReadOutcome /\ Spend(o)
         /\ req' = [req EXCEPT ![c] = [method |-> m, v |-> Request(m, body, id)]]
         /\ p \in Manager(m, Request(m, body, id), o, Fresh[c])
         /\ GoOn(c, req'[c], p.err, p.steps, p.es)
  BY DEF Begin
<1>2. UNCHANGED <<phase, store, touched>> /\ req[c] = NoRequest
  BY DEF Begin, Arrives
<1>3. PICK q : q = [method |-> m, v |-> Request(m, body, id)]
  OBVIOUS
<1>4. q # NoRequest
  BY <1>1, <1>3, OrgApiAssumption DEF NoRequest
<1>5. Asks(c, q) /\ req'[c] = q
  BY <1>1, <1>3 DEF Wired, Shaped, Asks
<1>6. Planned(c, q, p.steps)
  <2>1. Unused(c) /\ Stored
    BY <1>2 DEF Wired, Settled
  <2> QED BY <1>1, <1>3, <2>1, ManagerPlan
<1>7. Grown /\ NewOnly(c) /\ Stored' /\ UNCHANGED entity
  BY <1>2, SameStore
<1>8. Planned(c, q, p.steps)'
  <2>1. PICK steps : steps = p.steps
    OBVIOUS
  <2>2. \A k \in 1..Len(steps) : steps[k].do = "create" => entity'[steps[k].entity.id] = NoEntity
    BY <1>6, <1>7, <2>1 DEF Planned, Fit
  <2>3. Planned(c, q, steps)'
    BY <1>6, <1>7, <2>1, <2>2, AllPlanned
  <2> QED BY <2>1, <2>3
<1>9. touched' \subseteq Calls /\ faults' \in 0..MaxFaults
  BY <1>1, <1>2, Spent DEF Wired
<1> QED BY <1>1, <1>2, <1>4, <1>5, <1>7, <1>8, <1>9, CallWired

LEMMA LookWired == ASSUME Wired, NEW c \in Calls, Look(c) PROVE Wired'
<1>1. PICK r, steps : r = req[c] /\ steps = todo[c]
  OBVIOUS
<1>2. steps # <<>> /\ Head(steps).do \in {"read", "unless"}
      /\ UNCHANGED <<phase, store, req, touched>>
  BY <1>1 DEF Look, Ahead
<1>3. PICK o, err, rest, es :
         /\ o \in ReadOutcome /\ Spend(o)
         /\ rest = Tail(steps) \/ (rest = Tail(Tail(steps)) /\ Head(steps).do = "unless")
         /\ GoOn(c, r, err, rest, es)
  BY <1>1 DEF Look
<1>4. Planned(c, r, steps) /\ Head(steps) = steps[1]
  BY <1>1, <1>2, TailSteps DEF Wired, Doing, Planned
<1>5. r # NoRequest /\ Asks(c, r)
  BY <1>1, <1>2 DEF Wired, Settled, Shaped, Asks
<1>6. Grown /\ NewOnly(c) /\ Stored' /\ UNCHANGED entity
  BY <1>2, SameStore
<1>7. Planned(c, r, rest)'
  BY <1>2, <1>3, <1>4, <1>6, SkipPlanned
<1>8. touched' \subseteq Calls /\ faults' \in 0..MaxFaults /\ phase' = phase
  BY <1>2, <1>3, Spent DEF Wired
<1> QED BY <1>3, <1>5, <1>6, <1>7, <1>8, CallWired

LEMMA HashWired == ASSUME Wired, NEW c \in Calls, HashSecret(c) PROVE Wired'
<1>1. PICK r, steps : r = req[c] /\ steps = todo[c]
  OBVIOUS
<1>2. steps # <<>> /\ Head(steps).do = "hash" /\ UNCHANGED <<store, touched, faults>>
  BY <1>1 DEF HashSecret, Ahead
<1>3. Grown /\ NewOnly(c) /\ Stored' /\ UNCHANGED entity
  BY <1>2, SameStore
<1>4. Planned(c, r, steps) /\ Head(steps) = steps[1]
  BY <1>1, <1>2, TailSteps DEF Wired, Doing, Planned
<1>5. CASE HashPanics(cfg)
  <2>1. phase' = "panicked" /\ UNCHANGED calling
    BY <1>5 DEF HashSecret
  <2>2. \A d \in Calls : Settled(d)'
    BY <1>3, <2>1 DEF calling, Wired, Settled, Unused
  <2>3. \A d \in Calls : Doing(d)'
    <3> TAKE d \in Calls
    <3>1. PICK q, s : q = req[d] /\ s = todo[d]
      OBVIOUS
    <3>2. Planned(d, q, s)
      BY <3>1 DEF Wired, Doing
    <3>3. \A k \in 1..Len(s) : s[k].do = "create" => entity'[s[k].entity.id] = NoEntity
      BY <1>3, <3>2 DEF Planned, Fit
    <3>4. Planned(d, q, s)'
      BY <1>3, <3>2, <3>3, AllPlanned
    <3> QED BY <2>1, <3>1, <3>4 DEF Doing, calling
  <2>4. Shaped'
    BY <2>1 DEF calling, Wired, Shaped
  <2> QED BY <1>2, <1>3, <2>1, <2>2, <2>3, <2>4 DEF Wired
<1>6. CASE ~HashPanics(cfg)
  <2>1. PICK rest : rest = Tail(steps)
    OBVIOUS
  <2>2. GoOn(c, r, "none", rest, result[c]) /\ UNCHANGED <<phase, req>>
    BY <1>1, <1>6, <2>1 DEF HashSecret
  <2>3. Planned(c, r, rest)'
    BY <1>2, <1>3, <1>4, <2>1, SkipPlanned
  <2>4. r # NoRequest /\ Asks(c, r)
    BY <1>1, <1>2, <2>2 DEF Wired, Settled, Shaped, Asks
  <2>5. touched' \subseteq Calls /\ faults' \in 0..MaxFaults
    BY <1>2 DEF Wired
  <2> QED BY <1>3, <2>2, <2>3, <2>4, <2>5, CallWired
<1> QED BY <1>5, <1>6

-----------------------------------------------------------------------------
(* A write *)

\* A write of the call c: its request, its steps, the entity it may leave, the outcome.
WriteOf(c, r, steps, w, o, err, es) ==
    /\ r = req[c] /\ r # NoRequest /\ Asks(c, r)
    /\ steps = todo[c] /\ steps # <<>> /\ Planned(c, r, steps)
    /\ steps[1].do \in {"create", "patch", "delete", "relate"}
    /\ w = Written(steps[1]) /\ o \in WriteOutcome /\ (err = "none" => o = "ok")
    /\ Refuses(steps[1]) => o = "fail"
    /\ entity' = IF Applied(o) /\ steps[1].do # "relate" THEN [entity EXCEPT ![w.id] = w] ELSE entity
    /\ edges' = IF Applied(o) /\ steps[1].do = "relate" THEN edges \union {steps[1].edge} ELSE edges
    /\ GoOn(c, r, err, Tail(steps), es)
    /\ es = IF steps[1].do \in {"create", "patch"} /\ steps[1].shown THEN {w} ELSE result[c]
    /\ touched' = IF Applied(o) THEN touched \union {c} ELSE touched
    /\ touched' \subseteq Calls /\ faults' \in 0..MaxFaults /\ phase' = phase

LEMMA WriteDoes ==
    ASSUME Wired, NEW c \in Calls, Write(c)
    PROVE  \E r, steps, w, o, err, es : WriteOf(c, r, steps, w, o, err, es)
<1>1. PICK r, steps : r = req[c] /\ steps = todo[c]
  OBVIOUS
<1>2. steps # <<>> /\ Head(steps).do \in {"create", "patch", "delete", "relate"}
      /\ UNCHANGED <<phase, req>>
  BY <1>1 DEF Write, Ahead
<1>3. Planned(c, r, steps) /\ Head(steps) = steps[1]
  BY <1>1, <1>2, TailSteps DEF Wired, Doing, Planned
<1>4. PICK s, w : s = steps[1] /\ w = Written(s)
  OBVIOUS
<1>5. PICK o, err, es :
        /\ o \in WriteOutcome
        /\ Refuses(s) => o = "fail"
        /\ UNCHANGED faults \/ Spend(o)
        /\ entity' = IF Applied(o) /\ s.do # "relate" THEN [entity EXCEPT ![w.id] = w] ELSE entity
        /\ edges' = IF Applied(o) /\ s.do = "relate" THEN edges \union {s.edge} ELSE edges
        /\ touched' = IF Applied(o) THEN touched \union {c} ELSE touched
        /\ err = IF o = "ok" THEN "none" ELSE WriteError(s)
        /\ GoOn(c, r, err, Tail(steps), es)
        /\ es = IF s.do \in {"create", "patch"} /\ s.shown THEN {w} ELSE result[c]
  BY <1>1, <1>3, <1>4 DEF Write
<1>6. err = "none" => o = "ok"
  BY <1>5 DEF WriteError, Unavailable
<1>7. touched' \subseteq Calls /\ faults' \in 0..MaxFaults /\ phase' = phase
  BY <1>2, <1>5, Spent DEF Wired
<1>8. r # NoRequest /\ Asks(c, r)
  BY <1>1, <1>2 DEF Wired, Settled, Shaped, Asks
<1>9. WriteOf(c, r, steps, w, o, err, es)
  BY <1>1, <1>2, <1>3, <1>4, <1>5, <1>6, <1>7, <1>8 DEF WriteOf
<1> QED BY <1>9

\* The entity that a step leaves.
LEMMA WrittenIs ==
    ASSUME Stored, NEW c \in Calls, NEW r, NEW s, Fit(c, r, s),
           s.do \in {"create", "patch", "delete"}, NEW w, w = Written(s)
    PROVE  /\ w.id \in EntityIds /\ WellFormed(w.id, w) /\ w # NoEntity
           /\ s.do = "create" =>
                 w = s.entity /\ entity[w.id] = NoEntity /\ w.id \in ToSet(Fresh[c])
           /\ s.do # "create" =>
                 /\ w.id = s.id /\ entity[w.id] # NoEntity /\ w.type = entity[w.id].type
                 /\ w.props = IF s.do = "patch" THEN s.props ++ entity[w.id].props
                              ELSE entity[w.id].props
<1>1. CASE s.do = "create"
  <2>1. w = s.entity
    BY <1>1 DEF Written
  <2>2. w = Entity(w.id, w.type, w.props) /\ w.type \in DOMAIN Types
        /\ w.id \in ToSet(Fresh[c]) /\ entity[w.id] = NoEntity /\ Proper(w.type, w.props)
    BY <1>1, <2>1 DEF Fit
  <2>3. WellFormed(w.id, w)
    <3>1. PICK b : b = TRUE
      OBVIOUS
    <3>2. w = [id |-> w.id, type |-> w.type, props |-> w.props, live |-> b]
      BY <2>2, <3>1 DEF Entity
    <3>3. w.live = b
      BY <3>2
    <3>4. b \in BOOLEAN
      BY <3>1
    <3> QED BY <2>2, <3>2, <3>3, <3>4 DEF WellFormed
  <2>4. w # NoEntity
    BY <2>2, NilNoType DEF NoEntity
  <2>5. w.id \in EntityIds
    BY <2>2, FreshIds
  <2> QED BY <1>1, <2>1, <2>2, <2>3, <2>4, <2>5
<1>2. CASE s.do \in {"patch", "delete"}
  <2>1. s.id \in EntityIds /\ entity[s.id] # NoEntity
    BY <1>2 DEF Fit, Exists
  <2>2. WellFormed(s.id, entity[s.id])
    BY <2>1 DEF Stored
  <2>3. PICK e : e = entity[s.id]
    OBVIOUS
  <2>4. e = [id |-> s.id, type |-> e.type, props |-> e.props, live |-> e.live]
        /\ e.type \in DOMAIN Types /\ e.live \in BOOLEAN /\ Proper(e.type, e.props)
    BY <2>2, <2>3 DEF WellFormed
  <2>5. CASE s.do = "patch"
    <3>1. w = [e EXCEPT !.props = s.props ++ @]
      BY <2>3, <2>5 DEF Written
    <3>2. w = [id |-> s.id, type |-> e.type, props |-> s.props ++ e.props, live |-> e.live]
      <4>1. PICK p : p = s.props ++ e.props
        OBVIOUS
      <4>2. w = [e EXCEPT !.props = p]
        BY <3>1, <4>1
      <4>3. w = [id |-> s.id, type |-> e.type, props |-> p, live |-> e.live]
        BY <2>4, <4>2
      <4> QED BY <4>1, <4>3
    <3>3. Proper(e.type, s.props ++ e.props)
      <4>1. Tame(r, e.type, s.props)
        BY <2>3, <2>5 DEF Fit
      <4>2. PICK p : p = s.props ++ e.props
        OBVIOUS
      <4>3. /\ DOMAIN p = DOMAIN s.props \union DOMAIN e.props
            /\ \A k \in DOMAIN p : p[k] = IF k \in DOMAIN s.props THEN s.props[k] ELSE e.props[k]
        BY <4>2 DEF ++
      <4>4. Types[e.type].required \subseteq DOMAIN p
        BY <2>4, <4>3 DEF Proper
      <4>5. DOMAIN p \subseteq Declared[e.type] \union Stray
        BY <2>4, <4>1, <4>3 DEF Proper, Tame
      <4>6. ASSUME e.type \in {"User", "Invitation"} PROVE p.status \in Options[e.type].status
        <5>1. "status" \in Types[e.type].required
          BY <4>6, TypeKinds DEF Kind
        <5>2. "status" \in DOMAIN p
          BY <4>4, <5>1
        <5>3. e.props.status \in Options[e.type].status
          BY <2>4, <4>6 DEF Proper
        <5>4. "status" \in DOMAIN s.props => s.props.status \in Options[e.type].status
          BY <4>1, <4>6 DEF Tame
        <5> QED BY <4>3, <5>2, <5>3, <5>4
      <4> QED BY <4>2, <4>4, <4>5, <4>6 DEF Proper
    <3> QED BY <2>1, <2>3, <2>4, <2>5, <3>2, <3>3, NilNoType DEF WellFormed, NoEntity
  <2>6. CASE s.do = "delete"
    <3>1. w = [e EXCEPT !.live = FALSE]
      BY <2>3, <2>6 DEF Written
    <3>2. PICK b : b = FALSE
      OBVIOUS
    <3>3. w = [e EXCEPT !.live = b] /\ b \in BOOLEAN
      BY <3>1, <3>2
    <3>4. w = [id |-> s.id, type |-> e.type, props |-> e.props, live |-> b]
      BY <2>4, <3>3
    <3> QED BY <2>1, <2>3, <2>4, <2>6, <3>3, <3>4, NilNoType DEF WellFormed, NoEntity
  <2> QED BY <1>2, <2>5, <2>6
<1> QED BY <1>1, <1>2

\* A write to a role that is there leaves its flag.
LEMMA FlagKept ==
    ASSUME Stored, NEW c \in Calls, NEW r, NEW s, Fit(c, r, s),
           s.do \in {"patch", "delete"}, NEW w, w = Written(s), w.type = "Role"
    PROVE  entity[w.id].type = "Role" /\ propBool(w.props, "builtin") = propBool(entity[w.id].props, "builtin")
<1>1. /\ w.id = s.id /\ w.type = entity[w.id].type
      /\ w.props = IF s.do = "patch" THEN s.props ++ entity[w.id].props ELSE entity[w.id].props
  BY WrittenIs
<1>2. CASE s.do = "patch"
  <2>1. Tame(r, "Role", s.props)
    BY <1>1, <1>2 DEF Fit
  <2>2. "Role" \notin Immutable /\ "builtin" \in Types["Role"].required /\ ~Owner(r.method, "Role")
    BY TypeKinds DEF Immutable, ArtifactTypes, AuditTypes, Kind, Owner
  <2>3. "builtin" \notin DOMAIN s.props
    BY <2>1, <2>2 DEF Tame
  <2> QED BY <1>1, <1>2, <2>3 DEF propBool, ++
<1> QED BY <1>1, <1>2

\* What a write does to the store.
LEMMA WriteStores ==
    ASSUME Wired, NEW c \in Calls, NEW r, NEW steps, NEW w, NEW o, NEW err, NEW es,
           WriteOf(c, r, steps, w, o, err, es)
    PROVE  Grown /\ NewOnly(c) /\ Stored' /\ (err = "none" => Planned(c, r, Tail(steps))')
<1>0. PICK s : s = steps[1]
  OBVIOUS
<1>1. /\ Stored /\ Planned(c, r, steps) /\ steps # <<>> /\ Fit(c, r, s)
      /\ s.do \in {"create", "patch", "delete", "relate"} /\ 1 \in 1..Len(steps)
      /\ Len(steps) \in Nat
  <2>1. Planned(c, r, steps) /\ steps # <<>>
    BY DEF WriteOf
  <2>2. Len(steps) \in Nat /\ 1 \in 1..Len(steps)
    BY <2>1, TailSteps DEF Planned
  <2> QED BY <1>0, <2>1, <2>2 DEF WriteOf, Planned, Wired
<1>2. CASE entity' = entity
  <2>1. Grown /\ NewOnly(c)
    BY <1>2, GrownSame DEF NewOnly
  <2>2. Stored'
    <3>1. CASE edges' = edges
      BY <1>1, <1>2, <3>1 DEF Stored, WellFormed, Exists, IsUser
    <3>2. CASE s.do = "relate" /\ edges' = edges \union {s.edge}
      <4>1. {s.edge.from, s.edge.to} \subseteq EntityIds
        BY <1>1, <3>2 DEF Fit
      <4>2. s.edge.name = "has_invitation" => IsUser(s.edge.from)
        BY <1>0, <1>1, <3>2 DEF Planned, Ordered
      <4> QED BY <1>1, <1>2, <3>2, <4>1, <4>2 DEF Stored, WellFormed, Exists, IsUser
    <3> QED BY <1>0, <3>1, <3>2 DEF WriteOf
  <2>3. CASE s.do # "create"
    <3>1. Planned(c, r, Tail(steps))'
      BY <1>0, <1>1, <1>2, <2>3, SkipPlanned
    <3> QED BY <2>1, <2>2, <3>1
  <2>4. CASE s.do = "create"
    <3>1. w.id \in EntityIds /\ w # NoEntity /\ entity[w.id] = NoEntity
      BY <1>0, <1>1, <2>4, WrittenIs DEF WriteOf
    <3>2. entity # [entity EXCEPT ![w.id] = w]
      BY <1>1, <3>1 DEF Stored
    <3>3. ~Applied(o)
      BY <1>0, <1>2, <2>4, <3>2 DEF WriteOf
    <3>4. err # "none"
      BY <3>3 DEF WriteOf, Applied
    <3> QED BY <2>1, <2>2, <3>4
  <2> QED BY <2>3, <2>4
<1>3. CASE entity' # entity
  <2>1. /\ s.do \in {"create", "patch", "delete"} /\ w = Written(s)
        /\ entity' = [entity EXCEPT ![w.id] = w] /\ edges' = edges
    BY <1>0, <1>1, <1>3 DEF WriteOf
  <2>2. /\ w.id \in EntityIds /\ WellFormed(w.id, w) /\ w # NoEntity
        /\ s.do = "create" =>
              w = s.entity /\ entity[w.id] = NoEntity /\ w.id \in ToSet(Fresh[c])
        /\ s.do # "create" => entity[w.id] # NoEntity /\ w.type = entity[w.id].type
    BY <1>1, <2>1, WrittenIs
  <2>3. /\ entity' = [i \in EntityIds |-> entity'[i]] /\ entity'[w.id] = w
        /\ \A i \in EntityIds \ {w.id} : entity'[i] = entity[i]
    BY <1>1, <2>1, <2>2 DEF Stored
  <2>4. Grown /\ NewOnly(c)
    <3>1. ASSUME s.do # "create", Builtin(w.id)' PROVE Builtin(w.id)
      BY <1>1, <2>1, <2>3, <3>1, FlagKept DEF Builtin
    <3>2. \A i \in EntityIds \ {w.id} : Builtin(i)' => Builtin(i)
      BY <2>3 DEF Builtin
    <3> QED BY <2>1, <2>2, <2>3, <3>1, <3>2 DEF Grown, NewOnly
  <2>5. Stored'
    <3>1. \A i \in EntityIds : entity'[i] # NoEntity => WellFormed(i, entity'[i])
      BY <1>1, <2>2, <2>3 DEF Stored
    <3>2. \A i : IsUser(i) => IsUser(i)'
      BY <2>4, UserKept
    <3>3. \A d \in edges' :
            {d.from, d.to} \subseteq EntityIds /\ (d.name = "has_invitation" => IsUser(d.from)')
      BY <1>1, <2>1, <3>2 DEF Stored
    <3> QED BY <2>3, <3>1, <3>3 DEF Stored, WellFormed
  <2>6. Planned(c, r, Tail(steps))'
    <3>1. \A k \in 2..Len(steps) : steps[k].do = "create" => entity'[steps[k].entity.id] = NoEntity
      <4> SUFFICES ASSUME NEW k \in 2..Len(steps), steps[k].do = "create"
                   PROVE  entity'[steps[k].entity.id] = NoEntity
        OBVIOUS
      <4>0. k \in 1..Len(steps) /\ k # 1
        BY <1>1
      <4>1. Fit(c, r, steps[k])
        BY <1>1, <4>0 DEF Planned
      <4>2. steps[k].entity.id \in EntityIds /\ entity[steps[k].entity.id] = NoEntity
        BY <4>1, FreshIds DEF Fit
      <4>3. steps[k].entity.id # w.id
        <5>1. CASE s.do = "create"
          BY <1>0, <1>1, <2>2, <4>0, <5>1 DEF Planned, Ordered
        <5>2. CASE s.do # "create"
          BY <2>2, <4>2, <5>2
        <5> QED BY <5>1, <5>2
      <4> QED BY <2>3, <4>2, <4>3
    <3>2. \A i : Creates(steps[1], i, "User") => IsUser(i)'
      BY <1>0, <2>2, <2>3 DEF Creates, Exists, IsUser
    <3> QED BY <1>1, <2>4, <3>1, <3>2, NextPlanned
  <2> QED BY <2>4, <2>5, <2>6
<1> QED BY <1>2, <1>3

LEMMA WriteWired == ASSUME Wired, NEW c \in Calls, Write(c) PROVE Wired'
<1>1. PICK r, steps, w, o, err, es : WriteOf(c, r, steps, w, o, err, es)
  BY WriteDoes
<1>2. Grown /\ NewOnly(c) /\ Stored' /\ (err = "none" => Planned(c, r, Tail(steps))')
  BY <1>1, WriteStores
<1>3. PICK rest : rest = Tail(steps)
  OBVIOUS
<1>4. err = "none" => Planned(c, r, rest)'
  BY <1>2, <1>3
<1>5. /\ GoOn(c, r, err, rest, es) /\ Asks(c, r) /\ r # NoRequest
      /\ touched' \subseteq Calls /\ faults' \in 0..MaxFaults /\ phase' = phase
  BY <1>1, <1>3 DEF WriteOf
<1> QED BY <1>2, <1>4, <1>5, CallWired

LEMMA NextWired == Wired /\ [Next]_vars => Wired'
<1> SUFFICES ASSUME Wired, [Next]_vars PROVE Wired'
  OBVIOUS
<1>1. CASE Start
  BY <1>1, StartWired
<1>2. ASSUME NEW c \in Calls, Deny(c) \/ Begin(c) \/ Look(c) \/ HashSecret(c) \/ Write(c)
      PROVE  Wired'
  BY <1>2, DenyWired, BeginWired, LookWired, HashWired, WriteWired
<1>3. CASE UNCHANGED vars
  <2>1. UNCHANGED <<phase, store, calling, touched, faults>>
    BY <1>3 DEF vars
  <2>2. Stored' /\ Shaped' /\ UNCHANGED entity
    BY <2>1, SameStore DEF Wired, Shaped, calling
  <2>3. \A c \in Calls : Settled(c)' /\ Doing(c)'
    <3> TAKE c \in Calls
    <3>1. Settled(c)'
      BY <2>1, <2>2 DEF calling, Wired, Settled, Unused
    <3>2. PICK r, steps : r = req[c] /\ steps = todo[c]
      OBVIOUS
    <3>3. Planned(c, r, steps)
      BY <3>2 DEF Wired, Doing
    <3>4. \A k \in 1..Len(steps) : steps[k].do = "create" => entity'[steps[k].entity.id] = NoEntity
      BY <2>2, <3>3 DEF Planned, Fit
    <3>5. Planned(c, r, steps)'
      BY <2>2, <3>3, <3>4, GrownSame, AllPlanned
    <3> QED BY <2>1, <3>1, <3>2, <3>5 DEF Doing, calling
  <2> QED BY <2>1, <2>2, <2>3 DEF Wired
<1> QED BY <1>1, <1>2, <1>3 DEF Next, Finished

\* Whatever is called on whatever ids: the store holds entities of the types of the schema
\* joined by edges between ids that are known, and every answer has a code of toGRPCError.
THEOREM TypeCorrect == Spec => []TypeOK
<1>1. Wired => TypeOK
  BY DEF Wired, TypeOK, Stored, WellFormed, Settled
<1> QED BY <1>1, InitWired, NextWired, PTL DEF Spec

\* Whatever is called on whatever ids, by how many at once and wherever a call stops, an
\* entity keeps what its type requires, gets nothing its type does not declare but the stray
\* properties, and a user or an invitation gets no status but its own.
THEOREM EntitiesKeepShape == Spec => []EntitiesConform
<1>1. Wired => EntitiesConform
  BY DEF Wired, EntitiesConform, Stored, WellFormed
<1> QED BY <1>1, InitWired, NextWired, PTL DEF Spec

-----------------------------------------------------------------------------
(* Who changes what *)

\* A property that a write changes is one of its patch, of a type that may be changed.
LEMMA Patched ==
    ASSUME Wired, NEW c \in Calls, NEW r, NEW steps, NEW w, NEW o, NEW err, NEW es,
           WriteOf(c, r, steps, w, o, err, es),
           NEW i \in Changed, NEW k \in DOMAIN entity[i].props,
           entity'[i].props[k] # entity[i].props[k]
    PROVE  /\ Stepping(c) /\ r = req[c] /\ entity[i].type \notin Immutable
           /\ \E props : /\ Tame(r, entity[i].type, props)
                         /\ k \in DOMAIN props /\ entity'[i].props[k] = props[k]
<1>0. PICK s : s = steps[1]
  OBVIOUS
<1>1. /\ Stored /\ steps # <<>> /\ Fit(c, r, s) /\ IsSteps(steps)
  <2>1. Planned(c, r, steps) /\ steps # <<>>
    BY DEF WriteOf
  <2>2. Len(steps) \in Nat /\ 1 \in 1..Len(steps)
    BY <2>1, TailSteps DEF Planned
  <2> QED BY <1>0, <2>1, <2>2 DEF WriteOf, Planned, Wired
<1>2. i \in EntityIds /\ entity'[i] # entity[i] /\ entity' # entity
  BY DEF Changed
<1>3. /\ s.do \in {"create", "patch", "delete"} /\ w = Written(s) /\ Applied(o)
      /\ entity' = [entity EXCEPT ![w.id] = w]
  BY <1>0, <1>2 DEF WriteOf
<1>4. i = w.id /\ entity'[i] = w
  BY <1>1, <1>2, <1>3 DEF Stored
<1>5. CASE s.do = "create"
  <2>1. entity[i] = NoEntity
    BY <1>1, <1>3, <1>4, <1>5, WrittenIs
  <2>2. DOMAIN entity[i].props = {}
    BY <2>1 DEF NoEntity
  <2> QED BY <2>2
<1>6. CASE s.do = "delete"
  BY <1>1, <1>3, <1>4, <1>6, WrittenIs
<1>7. CASE s.do = "patch"
  <2>1. i = s.id /\ w.props = s.props ++ entity[i].props
    BY <1>1, <1>3, <1>4, <1>7, WrittenIs
  <2>2. k \in DOMAIN s.props /\ entity'[i].props[k] = s.props[k]
    BY <1>4, <2>1 DEF ++
  <2>3. Tame(r, entity[i].type, s.props)
    BY <1>1, <1>7, <2>1 DEF Fit
  <2>4. entity[i].type \notin Immutable
    BY <1>0, <1>3, <1>7, <2>1 DEF WriteOf, Refuses, Applied
  <2>5. Stepping(c)
    <3>1. todo'[c] = <<>> \/ todo'[c] = Tail(steps)
      BY GoOnDoes DEF WriteOf, Wired
    <3>2. Tail(steps) # steps
      BY <1>1, TailSteps
    <3> QED BY <1>1, <3>1, <3>2 DEF WriteOf, Stepping
  <2>6. r = req[c]
    BY DEF WriteOf
  <2> QED BY <2>2, <2>3, <2>4, <2>5, <2>6
<1> QED BY <1>3, <1>5, <1>6, <1>7

LEMMA WriteOwned == ASSUME Wired, NEW c \in Calls, Write(c) PROVE OwnersStep /\ PatchesStep
<1>1. PICK r, steps, w, o, err, es : WriteOf(c, r, steps, w, o, err, es)
  BY WriteDoes
<1>2. ASSUME NEW i \in Changed, NEW k \in DOMAIN entity[i].props,
             k \in Types[entity[i].type].required, entity[i].props[k] # entity'[i].props[k]
      PROVE  Stepping(c) /\ Owner(req[c].method, entity[i].type)
  <2>1. /\ Stepping(c) /\ r = req[c] /\ entity[i].type \notin Immutable
        /\ \E props : /\ Tame(r, entity[i].type, props)
                      /\ k \in DOMAIN props /\ entity'[i].props[k] = props[k]
    BY <1>1, <1>2, Patched
  <2> QED BY <1>2, <2>1 DEF Tame
<1>3. ASSUME NEW i \in Changed, NEW k \in Editable \intersect DOMAIN entity[i].props,
             entity'[i].props[k] # entity[i].props[k]
      PROVE  Stepping(c) /\ k \in DOMAIN req[c].v /\ req[c].v[k] = entity'[i].props[k]
  <2>1. /\ Stepping(c) /\ r = req[c] /\ entity[i].type \notin Immutable
        /\ \E props : /\ Tame(r, entity[i].type, props)
                      /\ k \in DOMAIN props /\ entity'[i].props[k] = props[k]
    BY <1>1, <1>3, Patched
  <2> QED BY <1>3, <2>1 DEF Tame
<1>4. OwnersStep
  BY <1>2 DEF OwnersStep, Owner
<1>5. PatchesStep
  BY <1>3 DEF PatchesStep
<1> QED BY <1>4, <1>5

\* A write leaves of a built-in role all but its marks.
LEMMA WriteSpares == ASSUME Wired, NEW c \in Calls, Write(c) PROVE BuiltinsStep
<1>1. PICK r, steps, w, o, err, es : WriteOf(c, r, steps, w, o, err, es)
  BY WriteDoes
<1>2. PICK s : s = steps[1]
  OBVIOUS
<1>3. Stored /\ Fit(c, r, s)
  <2>1. Planned(c, r, steps) /\ steps # <<>>
    BY <1>1 DEF WriteOf
  <2>2. Len(steps) \in Nat /\ 1 \in 1..Len(steps)
    BY <2>1, TailSteps DEF Planned
  <2> QED BY <1>2, <2>1, <2>2 DEF Planned, Wired
<1> SUFFICES ASSUME NEW i \in Changed, Builtin(i)
             PROVE  entity'[i].live = entity[i].live /\ Lasting(i)' = Lasting(i)
  BY DEF BuiltinsStep
<1>4. i \in EntityIds /\ entity'[i] # entity[i] /\ entity' # entity
  BY DEF Changed
<1>5. /\ s.do \in {"create", "patch", "delete"} /\ w = Written(s)
      /\ entity' = [entity EXCEPT ![w.id] = w]
  BY <1>1, <1>2, <1>4 DEF WriteOf
<1>6. i = w.id /\ entity'[i] = w
  BY <1>3, <1>4, <1>5 DEF Stored
<1>7. s.do # "create"
  <2>1. entity[i].type = "Role"
    BY DEF Builtin
  <2>2. NoEntity.type # "Role"
    BY DEF NoEntity, Nil
  <2>3. entity[i] # NoEntity
    BY <2>1, <2>2
  <2> QED BY <1>3, <1>5, <1>6, <2>3, WrittenIs
<1>8. i = s.id
  BY <1>3, <1>5, <1>6, <1>7, WrittenIs
<1>9. s.do = "patch" /\ DOMAIN s.props \subseteq Marks
  BY <1>3, <1>5, <1>7, <1>8 DEF Fit
<1>10. w = [entity[i] EXCEPT !.props = s.props ++ @]
  BY <1>5, <1>8, <1>9 DEF Written
<1>11. entity'[i].live = entity[i].live /\ entity'[i].props = s.props ++ entity[i].props
  <2>1. PICK e : e = entity[i]
    OBVIOUS
  <2>2. e = [id |-> i, type |-> e.type, props |-> e.props, live |-> e.live]
    BY <1>3, <1>4, <1>5, <1>6, <1>7, <2>1, WrittenIs DEF Stored, WellFormed
  <2>3. PICK q : q = s.props ++ e.props
    OBVIOUS
  <2>4. w = [e EXCEPT !.props = q]
    BY <1>10, <2>1, <2>3
  <2>5. w.live = e.live /\ w.props = q
    BY <2>2, <2>4
  <2> QED BY <1>6, <2>1, <2>3, <2>5
<1>12. Lasting(i)' = Lasting(i)
  <2>1. PICK a, b : a = entity[i].props /\ b = entity'[i].props
    OBVIOUS
  <2>2. DOMAIN b \ Marks = DOMAIN a \ Marks /\ \A k \in DOMAIN a \ Marks : b[k] = a[k]
    BY <1>9, <1>11, <2>1 DEF ++
  <2> QED BY <2>1, <2>2 DEF Lasting
<1> QED BY <1>11, <1>12

LEMMA NextSpares == Wired /\ [Next]_vars => [BuiltinsStep]_vars
<1> SUFFICES ASSUME Wired, [Next]_vars PROVE [BuiltinsStep]_vars
  OBVIOUS
<1>1. ASSUME NEW c \in Calls, Write(c) PROVE BuiltinsStep
  BY <1>1, WriteSpares
<1>2. UNCHANGED entity => BuiltinsStep
  BY DEF BuiltinsStep, Changed
<1>3. ASSUME NEW c \in Calls, Deny(c) \/ Begin(c) \/ Look(c) \/ HashSecret(c) PROVE UNCHANGED entity
  BY <1>3 DEF Deny, Begin, Look, HashSecret, store
<1>4. CASE Start
  BY <1>2, <1>4 DEF Start, store
<1> QED BY <1>1, <1>2, <1>3, <1>4 DEF Next, Finished

LEMMA NextOwned == Wired /\ [Next]_vars => [OwnersStep]_vars /\ [PatchesStep]_vars
<1> SUFFICES ASSUME Wired, [Next]_vars PROVE [OwnersStep]_vars /\ [PatchesStep]_vars
  OBVIOUS
<1>1. ASSUME NEW c \in Calls, Write(c) PROVE OwnersStep /\ PatchesStep
  BY <1>1, WriteOwned
<1>2. UNCHANGED entity => OwnersStep /\ PatchesStep
  BY DEF OwnersStep, PatchesStep, Changed
<1>3. ASSUME NEW c \in Calls, Deny(c) \/ Begin(c) \/ Look(c) \/ HashSecret(c) PROVE UNCHANGED entity
  BY <1>3 DEF Deny, Begin, Look, HashSecret, store
<1>4. CASE Start
  BY <1>2, <1>4 DEF Start, store
<1> QED BY <1>1, <1>2, <1>3, <1>4 DEF Next, Finished

\* What a type requires is changed by the calls about that type only, although
\* DeprecateScope, RevokeMembership, UpdateRole and DeleteRole take any id.
THEOREM OwnersKeep == Spec => OwnersOnly
<1> QED BY InitWired, NextWired, NextOwned, PTL DEF Spec, OwnersOnly

\* No step of a call deletes a built-in role, or changes or adds to it more than the marks
\* of DeprecateScope and RevokeMembership, which look at no type: every other function that
\* patches or deletes an entity has seen that it is no built-in role, and it has become none
\* since.
THEOREM BuiltinsAreKept == Spec => BuiltinsKept
<1> QED BY InitWired, NextWired, NextSpares, PTL DEF Spec, BuiltinsKept

\* A text that clients write changes only to what the client of the writing call gave: a
\* patch holds what the request gives, never what its function has read.
THEOREM PatchesAreKept == Spec => PatchesKept
<1> QED BY InitWired, NextWired, NextOwned, PTL DEF Spec, PatchesKept

-----------------------------------------------------------------------------
(* The edges: what the steps of a call may make of them *)

IsOf(i, type) == Exists(i) /\ entity[i].type = type

\* An end of the k-th of the steps that the request r leaves to do is of the type, or is
\* so named by the request, or is created before: in M, or by one of the steps that no
\* list can leave out.
Ended(M, r, steps, k, i, type) ==
    \/ IsOf(i, type) \/ <<i, type>> \in M \/ Names(r, i, type)
    \/ type # "Role" /\ \E j \in 1..(k - 1) : Creates(steps[j], i, type)

\* The edges that the steps make are of the schema.
Tied(M, r, steps) ==
    \A k \in 1..Len(steps) : steps[k].do = "relate" =>
        \E type, other \in DOMAIN Types :
            /\ <<steps[k].edge.name, other>> \in Types[type].edges
            /\ Ended(M, r, steps, k, steps[k].edge.from, type)
            /\ Ended(M, r, steps, k, steps[k].edge.to, other)

LEMMA NoneTied == ASSUME NEW M, NEW r PROVE Tied(M, r, <<>>) /\ Tied(M, r, <<>>)'
BY DEF Tied

LEMMA UnrelatedTied ==
    ASSUME NEW M, NEW r, NEW steps, \A k \in 1..Len(steps) : steps[k].do # "relate"
    PROVE  Tied(M, r, steps)
BY DEF Tied

\* Steps one after the other: the second may use what the first have created.
LEMMA JoinTied ==
    ASSUME NEW M, NEW N, NEW r, NEW a, NEW b, IsSteps(a), IsSteps(b), Tied(M, r, a), Tied(N, r, b),
           \A i, type : <<i, type>> \in N =>
              \/ <<i, type>> \in M
              \/ type # "Role" /\ \E j \in 1..Len(a) : Creates(a[j], i, type)
    PROVE  Tied(M, r, a \o b)
<1> DEFINE ab == a \o b
<1>1. /\ Len(a) \in Nat /\ Len(b) \in Nat /\ Len(ab) = Len(a) + Len(b)
      /\ \A k \in 1..Len(a) : ab[k] = a[k]
      /\ \A k \in 1..Len(b) : ab[k + Len(a)] = b[k]
      /\ \A k \in 1..Len(ab) :
            \/ k \in 1..Len(a) /\ ab[k] = a[k]
            \/ k - Len(a) \in 1..Len(b) /\ ab[k] = b[k - Len(a)] /\ k > Len(a)
  BY JoinedAt
<1> HIDE DEF ab
<1>2. ASSUME NEW k \in 1..Len(a), NEW i, NEW type, Ended(M, r, a, k, i, type)
      PROVE  Ended(M, r, ab, k, i, type)
  <2>1. \A j \in 1..(k - 1) : ab[j] = a[j]
    BY <1>1
  <2> QED BY <1>2, <2>1 DEF Ended
<1>3. ASSUME NEW k \in 1..Len(b), NEW i, NEW type, Ended(N, r, b, k, i, type)
      PROVE  Ended(M, r, ab, k + Len(a), i, type)
  <2>1. CASE IsOf(i, type) \/ Names(r, i, type)
    BY <2>1 DEF Ended
  <2>2. CASE <<i, type>> \in N
    <3>1. \A j \in 1..Len(a) : j \in 1..((k + Len(a)) - 1) /\ ab[j] = a[j]
      BY <1>1
    <3> QED BY <2>2, <3>1 DEF Ended
  <2>3. ASSUME type # "Role", NEW j \in 1..(k - 1), Creates(b[j], i, type)
        PROVE  Ended(M, r, ab, k + Len(a), i, type)
    <3>1. j + Len(a) \in 1..((k + Len(a)) - 1) /\ ab[j + Len(a)] = b[j]
      BY <1>1
    <3> QED BY <2>3, <3>1 DEF Ended
  <2> QED BY <1>3, <2>1, <2>2, <2>3 DEF Ended
<1>4. ASSUME NEW k \in 1..Len(ab), ab[k].do = "relate"
      PROVE  \E type, other \in DOMAIN Types :
                /\ <<ab[k].edge.name, other>> \in Types[type].edges
                /\ Ended(M, r, ab, k, ab[k].edge.from, type)
                /\ Ended(M, r, ab, k, ab[k].edge.to, other)
  <2>1. CASE k \in 1..Len(a) /\ ab[k] = a[k]
    <3>1. PICK type \in DOMAIN Types, other \in DOMAIN Types :
             /\ <<a[k].edge.name, other>> \in Types[type].edges
             /\ Ended(M, r, a, k, a[k].edge.from, type)
             /\ Ended(M, r, a, k, a[k].edge.to, other)
      BY <1>4, <2>1 DEF Tied
    <3> QED BY <1>2, <2>1, <3>1
  <2>2. CASE k - Len(a) \in 1..Len(b) /\ ab[k] = b[k - Len(a)] /\ k > Len(a)
    <3>1. PICK n : n = k - Len(a)
      OBVIOUS
    <3>2. n \in 1..Len(b) /\ ab[k] = b[n] /\ n + Len(a) = k
      BY <1>1, <2>2, <3>1
    <3>3. PICK type \in DOMAIN Types, other \in DOMAIN Types :
             /\ <<b[n].edge.name, other>> \in Types[type].edges
             /\ Ended(N, r, b, n, b[n].edge.from, type)
             /\ Ended(N, r, b, n, b[n].edge.to, other)
      BY <1>4, <3>2 DEF Tied
    <3> QED BY <1>3, <3>2, <3>3
  <2> QED BY <1>1, <2>1, <2>2
<1>5. Tied(M, r, ab)
  BY <1>4 DEF Tied
<1> QED BY <1>5 DEF ab

\* The edges of the schema that calls make.
LEMMA EdgeKinds ==
    /\ {"User", "Role", "Scope", "Membership", "Invitation", "OAuthClient", "ClientSecret",
        "RedirectURI"} \subseteq DOMAIN Types
    /\ <<"has_invitation", "Invitation">> \in Types["User"].edges
    /\ <<"has_membership", "Membership">> \in Types["User"].edges
    /\ <<"grants_role", "Role">> \in Types["Membership"].edges
    /\ <<"invited_by", "User">> \in Types["Invitation"].edges
    /\ <<"will_grant_role", "Role">> \in Types["Invitation"].edges
    /\ <<"has_redirect_uri", "RedirectURI">> \in Types["OAuthClient"].edges
    /\ <<"has_client_secret", "ClientSecret">> \in Types["OAuthClient"].edges
    /\ <<"allows_scope", "Scope">> \in Types["OAuthClient"].edges
<1>1. /\ Types["User"] = IdentityTypes["User"] /\ Types["Membership"] = IdentityTypes["Membership"]
      /\ Types["Invitation"] = IdentityTypes["Invitation"]
  BY TypesApply DEF IdentityTypes
<1>2. Types["OAuthClient"] = ClientTypes["OAuthClient"]
  BY TypesApply DEF ClientTypes
<1> QED BY <1>1, <1>2, TypesDomain DEF IdentityTypes, ClientTypes, Kind

\* One edge, both of whose ends are known.
LEMMA EdgeTied ==
    ASSUME NEW M, NEW r, NEW from, NEW name, NEW to,
           NEW type \in DOMAIN Types, NEW other \in DOMAIN Types,
           <<name, other>> \in Types[type].edges,
           IsOf(from, type) \/ <<from, type>> \in M \/ Names(r, from, type),
           IsOf(to, other) \/ <<to, other>> \in M \/ Names(r, to, other)
    PROVE  Tied(M, r, <<Relate(from, name, to)>>)
<1> DEFINE s == Relate(from, name, to)
<1>1. s.edge.from = from /\ s.edge.to = to /\ s.edge.name = name
  BY DEF Relate
<1> HIDE DEF s
<1>2. PICK steps : steps = <<s>>
  OBVIOUS
<1>3. \A k \in 1..Len(steps) : steps[k] = s
  BY <1>2
<1>4. \A k : Ended(M, r, steps, k, from, type) /\ Ended(M, r, steps, k, to, other)
  BY DEF Ended
<1>5. Tied(M, r, steps)
  BY <1>1, <1>3, <1>4 DEF Tied
<1> QED BY <1>2, <1>5 DEF s

\* What a request names in a field.
LEMMA NamesIn ==
    /\ \A v : LET r == [method |-> "InviteUser", v |-> v] IN
          Names(r, v.invited_by_user_id, "User") /\ Names(r, v.role_ids, "Role")
    /\ \A v : LET r == [method |-> "GrantMembership", v |-> v] IN
          Names(r, v.user_id, "User") /\ Names(r, v.role_id, "Role")
    /\ \A v : LET r == [method |-> "CreateOAuthClient", v |-> v] IN
          Names(r, v.allowed_scope_ids, "Scope")
<1>1. /\ EndFields["InviteUser"] = [invited_by_user_id |-> "User", role_ids |-> "Role"]
      /\ EndFields["GrantMembership"] = [user_id |-> "User", role_id |-> "Role"]
      /\ EndFields["CreateOAuthClient"] = [allowed_scope_ids |-> "Scope"]
      /\ DOMAIN EndFields = {"InviteUser", "GrantMembership", "CreateOAuthClient"}
  BY DEF EndFields
<1> QED BY <1>1 DEF Names

LEMMA ShortSteps ==
    /\ IsSteps(<<>>) /\ (\A x : IsSteps(<<x>>)) /\ (\A x, y : IsSteps(<<x, y>>))
    /\ \A x, y, z : IsSteps(<<x, y, z>>)
<1>1. IsSteps(<<>>)
  <2>1. <<>> \in Seq({})
    OBVIOUS
  <2> QED BY <2>1, ListSteps
<1>2. ASSUME NEW x PROVE IsSteps(<<x>>)
  <2>1. <<x>> \in Seq({x})
    OBVIOUS
  <2> QED BY <2>1, ListSteps
<1>3. ASSUME NEW x, NEW y PROVE IsSteps(<<x, y>>)
  <2>1. <<x, y>> \in Seq({x, y})
    OBVIOUS
  <2> QED BY <2>1, ListSteps
<1>4. ASSUME NEW x, NEW y, NEW z PROVE IsSteps(<<x, y, z>>)
  <2>1. <<x, y, z>> \in Seq({x, y, z})
    OBVIOUS
  <2> QED BY <2>1, ListSteps
<1> QED BY <1>1, <1>2, <1>3, <1>4

LEMMA OneByOne ==
    ASSUME NEW x, NEW y, NEW z
    PROVE  <<x, y>> \o <<z>> = <<x, y, z>>
<1> DEFINE S == {x, y, z}
           s == <<x, y>> \o <<z>>
           t == <<x, y, z>>
<1>1. <<x, y>> \in Seq(S) /\ <<z>> \in Seq(S) /\ t \in Seq(S)
  OBVIOUS
<1>2. Len(<<x, y>>) = 2 /\ Len(<<z>>) = 1 /\ Len(t) = 3 /\ t[1] = x /\ t[2] = y /\ t[3] = z
      /\ <<x,y>>[1] = x /\ <<x,y>>[2] = y /\ <<z>>[1] = z
  OBVIOUS
<1>3. IsSteps(<<x, y>>) /\ IsSteps(<<z>>)
  BY ShortSteps
<1>4. Len(s) = 3 /\ s[1] = x /\ s[2] = y /\ s[3] = z
  <2> HIDE DEF s
  <2>1. PICK a, b : a = <<x, y>> /\ b = <<z>> /\ s = a \o b
    BY DEF s
  <2>2. Len(a) = 2 /\ Len(b) = 1 /\ a[1] = x /\ a[2] = y /\ b[1] = z
    BY <2>1
  <2>3. /\ Len(a \o b) = Len(a) + Len(b)
        /\ \A k \in 1..Len(a) : (a \o b)[k] = a[k]
        /\ \A k \in 1..Len(b) : (a \o b)[k + Len(a)] = b[k]
    BY <1>3, <2>1, JoinedAt
  <2>4. 1 \in 1..Len(a) /\ 2 \in 1..Len(a) /\ 1 \in 1..Len(b) /\ 1 + Len(a) = 3
    BY <2>2
  <2>5. s[3] = z
    BY <2>1, <2>2, <2>3, <2>4
  <2> QED BY <2>1, <2>2, <2>3, <2>4, <2>5
<1>5. s \in Seq(S)
  BY <1>1
<1> HIDE DEF s, t
<1>6. s = t
  BY <1>1, <1>2, <1>4, <1>5
<1> QED BY <1>6 DEF s, t

LEMMA Pair == ASSUME NEW x, NEW y PROVE <<x>> \o <<y>> = <<x, y>>
<1> DEFINE S == {x, y}
           s == <<x>> \o <<y>>
           t == <<x, y>>
<1>1. <<x>> \in Seq(S) /\ <<y>> \in Seq(S) /\ t \in Seq(S)
  OBVIOUS
<1>2. Len(t) = 2 /\ t[1] = x /\ t[2] = y
  OBVIOUS
<1>3. IsSteps(<<x>>) /\ IsSteps(<<y>>)
  BY ShortSteps
<1>4. Len(s) = 2 /\ s[1] = x /\ s[2] = y
  <2> HIDE DEF s
  <2>1. PICK a, b : a = <<x>> /\ b = <<y>> /\ s = a \o b
    BY DEF s
  <2>2. Len(a) = 1 /\ Len(b) = 1 /\ a[1] = x /\ b[1] = y
    BY <2>1
  <2>3. /\ Len(a \o b) = Len(a) + Len(b)
        /\ \A k \in 1..Len(a) : (a \o b)[k] = a[k]
        /\ \A k \in 1..Len(b) : (a \o b)[k + Len(a)] = b[k]
    BY <1>3, <2>1, JoinedAt
  <2>4. 1 \in 1..Len(a) /\ 1 \in 1..Len(b) /\ 1 + Len(a) = 2
    BY <2>2
  <2>5. s[2] = y
    BY <2>1, <2>2, <2>3, <2>4
  <2> QED BY <2>1, <2>2, <2>3, <2>4, <2>5
<1>5. s \in Seq(S)
  BY <1>1
<1> HIDE DEF s, t
<1>6. s = t
  BY <1>1, <1>2, <1>4, <1>5
<1> QED BY <1>6 DEF s, t

LEMMA OneTied == ASSUME NEW M, NEW r, NEW s, s.do # "relate" PROVE Tied(M, r, <<s>>)
<1>1. PICK steps : steps = <<s>>
  OBVIOUS
<1>2. \A k \in 1..Len(steps) : steps[k] = s
  BY <1>1
<1> QED BY <1>1, <1>2, UnrelatedTied

\* What a creation is, whether it is shown or not.
LEMMA CreationIs ==
    ASSUME NEW id, NEW type, NEW props
    PROVE  /\ Create(id, type, props).do = "create" /\ Creates(Create(id, type, props), id, type)
           /\ Shown(Create(id, type, props)).do = "create"
           /\ Creates(Shown(Create(id, type, props)), id, type)
BY DEF Create, Shown, Entity, Creates

LEMMA InviteUserTied ==
    ASSUME NEW v, NEW o, NEW ids, NEW p \in InviteUser(v, o, ids)
    PROVE  Tied({}, [method |-> "InviteUser", v |-> v], p.steps)
<1> DEFINE r == [method |-> "InviteUser", v |-> v]
           user == Create(ids[1], "User", [email |-> v.email, status |-> "invited",
                                           display_name |-> v.display_name] ++ New)
           inv == Shown(Create(ids[2], "Invitation",
                        [token_hash |-> ids[3], status |-> "pending",
                         expires_at |-> Instant, created_at |-> Instant] ++ Owned))
           link == Relate(ids[1], "has_invitation", ids[2])
           by == IF v.invited_by_user_id = Nil THEN <<>>
                 ELSE <<Relate(ids[2], "invited_by", v.invited_by_user_id)>>
           roles == IF v.role_ids = Nil THEN <<>>
                    ELSE <<Relate(ids[2], "will_grant_role", v.role_ids)>>
           N == {<<ids[1], "User">>, <<ids[2], "Invitation">>}
           I == {<<ids[2], "Invitation">>}
<1>1. /\ user.do = "create" /\ Creates(user, ids[1], "User")
      /\ inv.do = "create" /\ Creates(inv, ids[2], "Invitation")
  BY CreationIs
<1>2. Tied(N, r, <<link>>)
  BY EdgeKinds, EdgeTied
<1>3. Tied(I, r, by)
  <2>1. Names(r, v.invited_by_user_id, "User")
    BY NamesIn
  <2> HIDE DEF r
  <2>2. Tied(I, r, <<Relate(ids[2], "invited_by", v.invited_by_user_id)>>)
    BY <2>1, EdgeKinds, EdgeTied
  <2> QED BY <2>2, NoneTied
<1>4. Tied(I, r, roles)
  <2>1. Names(r, v.role_ids, "Role")
    BY NamesIn
  <2> HIDE DEF r
  <2>2. Tied(I, r, <<Relate(ids[2], "will_grant_role", v.role_ids)>>)
    BY <2>1, EdgeKinds, EdgeTied
  <2> QED BY <2>2, NoneTied
<1>5. IsSteps(by) /\ IsSteps(roles)
  BY ShortSteps
<1>6. p.steps = <<>> \/ p.steps = <<user, inv, link>> \o by \o roles
  BY DEF InviteUser, None, Refuse, Proceed
<1> HIDE DEF r, user, inv, link, by, roles
<1>7. Tied({}, r, <<user, inv, link>>)
  <2> DEFINE first == <<user, inv>>
  <2>1. Tied({}, r, first)
    <3>1. \A k \in 1..Len(first) : first[k].do # "relate"
      BY <1>1
    <3> QED BY <3>1, UnrelatedTied
  <2>2. \A i, type : <<i, type>> \in N =>
           type # "Role" /\ \E j \in 1..Len(first) : Creates(first[j], i, type)
    <3>1. 1 \in 1..Len(first) /\ 2 \in 1..Len(first) /\ first[1] = user /\ first[2] = inv
      OBVIOUS
    <3> HIDE DEF first
    <3> QED BY <1>1, <3>1
  <2>3. Tied({}, r, first \o <<link>>)
    <3>1. IsSteps(first) /\ IsSteps(<<link>>)
      BY ShortSteps
    <3> HIDE DEF first, N
    <3> QED BY <1>2, <2>1, <2>2, <3>1, JoinTied
  <2>4. first \o <<link>> = <<user, inv, link>>
    BY OneByOne
  <2> QED BY <2>3, <2>4
<1> DEFINE three == <<user, inv, link>>
<1>8. \A i, type : <<i, type>> \in I =>
         type # "Role" /\ \E j \in 1..Len(three) : Creates(three[j], i, type)
  <2>1. 2 \in 1..Len(three) /\ three[2] = inv
    OBVIOUS
  <2> HIDE DEF three
  <2> QED BY <1>1, <2>1
<1>9. IsSteps(three)
  BY ShortSteps
<1> HIDE DEF three
<1>10. Tied({}, r, three \o by) /\ IsSteps(three \o by)
  BY <1>3, <1>5, <1>7, <1>8, <1>9, JoinTied, JoinedAt DEF three
<1>11. \A i, type : <<i, type>> \in I =>
          type # "Role" /\ \E j \in 1..Len(three \o by) : Creates((three \o by)[j], i, type)
  <2>1. \A j \in 1..Len(three) : j \in 1..Len(three \o by) /\ (three \o by)[j] = three[j]
    BY <1>5, <1>9, JoinedAt
  <2> QED BY <1>8, <2>1
<1>12. Tied({}, r, three \o by \o roles)
  <2>1. \A i, type : <<i, type>> \in I =>
           \/ <<i, type>> \in {}
           \/ type # "Role" /\ \E j \in 1..Len(three \o by) : Creates((three \o by)[j], i, type)
    BY <1>11
  <2> HIDE DEF I
  <2> QED BY <1>4, <1>5, <1>10, <2>1, JoinTied
<1>13. Tied({}, r, <<user, inv, link>> \o by \o roles)
  BY <1>12 DEF three
<1>14. Tied({}, r, p.steps)
  BY <1>6, <1>13, NoneTied
<1> QED BY <1>14 DEF r

LEMMA GrantMembershipTied ==
    ASSUME NEW v, NEW ids, NEW p \in GrantMembership(v, ids)
    PROVE  Tied({}, [method |-> "GrantMembership", v |-> v], p.steps)
<1> DEFINE r == [method |-> "GrantMembership", v |-> v]
           new == Shown(Create(ids[1], "Membership",
                        [granted_at |-> Instant, granted_by |-> v.granted_by] ++ Owned))
           has == Relate(v.user_id, "has_membership", ids[1])
           grants == Relate(ids[1], "grants_role", v.role_id)
           N == {<<ids[1], "Membership">>}
<1>1. new.do = "create" /\ Creates(new, ids[1], "Membership")
  BY CreationIs
<1>2. Names(r, v.user_id, "User") /\ Names(r, v.role_id, "Role")
  BY NamesIn
<1>3. p.steps = <<new, has, grants>>
  BY DEF GrantMembership, Proceed
<1> HIDE DEF r
<1>4. Tied(N, r, <<has>>) /\ Tied(N, r, <<grants>>)
  BY <1>2, EdgeKinds, EdgeTied
<1> HIDE DEF new, has, grants
<1>5. /\ Tied({}, r, <<new>>) /\ <<new>> \o <<has>> = <<new, has>>
      /\ <<new, has>> \o <<grants>> = <<new, has, grants>>
      /\ IsSteps(<<new>>) /\ IsSteps(<<has>>) /\ IsSteps(<<new, has>>) /\ IsSteps(<<grants>>)
  BY <1>1, OneTied, Pair, OneByOne, ShortSteps
<1>6. Tied({}, r, <<new, has>>)
  <2> DEFINE one == <<new>>
  <2>1. 1 \in 1..Len(one) /\ one[1] = new
    OBVIOUS
  <2> HIDE DEF one
  <2>2. \A i, type : <<i, type>> \in N => type # "Role" /\ \E j \in 1..Len(one) : Creates(one[j], i, type)
    BY <1>1, <2>1
  <2>3. Tied({}, r, one \o <<has>>)
    BY <1>4, <1>5, <2>2, JoinTied DEF one
  <2> QED BY <1>5, <2>3 DEF one
<1>7. Tied({}, r, <<new, has, grants>>)
  <2> DEFINE two == <<new, has>>
  <2>1. 1 \in 1..Len(two) /\ two[1] = new
    OBVIOUS
  <2> HIDE DEF two
  <2>2. \A i, type : <<i, type>> \in N => type # "Role" /\ \E j \in 1..Len(two) : Creates(two[j], i, type)
    BY <1>1, <2>1
  <2>3. Tied({}, r, two \o <<grants>>)
    BY <1>4, <1>5, <1>6, <2>2, JoinTied DEF two
  <2> QED BY <1>5, <2>3 DEF two
<1> QED BY <1>3, <1>7 DEF r

\* The steps that hash a secret, store it and link it to a client.
LEMMA SecretTied ==
    ASSUME NEW M, NEW r, NEW client, NEW id,
           IsOf(client, "OAuthClient") \/ <<client, "OAuthClient">> \in M
    PROVE  Tied(M, r, Secret(client, id)) /\ IsSteps(Secret(client, id))
<1> DEFINE new == Create(id, "ClientSecret", [secret_hash |-> "phc", created_at |-> Instant] ++ Owned)
           has == Relate(client, "has_client_secret", id)
           N == M \union {<<id, "ClientSecret">>}
           first == <<Hash, new>>
<1>1. new.do = "create" /\ Creates(new, id, "ClientSecret") /\ Hash.do # "relate"
  BY CreationIs DEF Hash
<1>2. Tied(N, r, <<has>>)
  BY EdgeKinds, EdgeTied
<1>3. Secret(client, id) = <<Hash, new, has>>
  BY DEF Secret
<1> HIDE DEF new, has
<1>4. \A k \in 1..Len(first) : first[k].do # "relate"
  BY <1>1
<1>5. 2 \in 1..Len(first) /\ first[2] = new
  OBVIOUS
<1>6. /\ first \o <<has>> = <<Hash, new, has>>
      /\ IsSteps(first) /\ IsSteps(<<has>>) /\ IsSteps(<<Hash, new, has>>)
  BY OneByOne, ShortSteps
<1> HIDE DEF first
<1>7. Tied(M, r, first)
  BY <1>4, UnrelatedTied
<1>8. Tied(M, r, first \o <<has>>)
  <2>1. \A i, type : <<i, type>> \in N =>
           \/ <<i, type>> \in M
           \/ type # "Role" /\ \E j \in 1..Len(first) : Creates(first[j], i, type)
    BY <1>1, <1>5
  <2> QED BY <1>2, <1>6, <1>7, <2>1, JoinTied
<1> QED BY <1>3, <1>6, <1>8

LEMMA RotateClientSecretTied ==
    ASSUME Stored, NEW r, NEW v, NEW o, NEW ids, NEW p \in RotateClientSecret(v, o, ids)
    PROVE  Tied({}, r, p.steps)
<1>1. CASE p.steps = <<>>
  BY <1>1, NoneTied
<1>2. ASSUME NEW e \in With("OAuthClient", "client_id", v.client_id), p.steps = Secret(e.id, ids[1])
      PROVE  Tied({}, r, p.steps)
  <2>1. IsOf(e.id, "OAuthClient")
    BY WithExists DEF IsOf
  <2>2. Tied({}, r, Secret(e.id, ids[1]))
    BY <2>1, SecretTied
  <2> QED BY <1>2, <2>2
<1> QED BY <1>1, <1>2 DEF RotateClientSecret, WithClient, First, Refuse, Proceed

LEMMA CreateOAuthClientTied ==
    ASSUME NEW v, NEW ids, NEW p \in CreateOAuthClient(v, ids)
    PROVE  Tied({}, [method |-> "CreateOAuthClient", v |-> v], p.steps)
<1> DEFINE r == [method |-> "CreateOAuthClient", v |-> v]
           client == Shown(Create(ids[1], "OAuthClient",
              [f \in {"name", "client_type", "description", "allowed_grant_types"} |-> v[f]]
              ++ [client_id |-> ids[4]] ++ New))
           uri == Create(ids[2], "RedirectURI",
                         [uri |-> v.redirect_uris, created_at |-> Instant] ++ Owned)
           has == Relate(ids[1], "has_redirect_uri", ids[2])
           uris == IF v.redirect_uris = Nil THEN <<>> ELSE <<uri, has>>
           scopes == IF v.allowed_scope_ids = Nil THEN <<>>
                     ELSE <<Relate(ids[1], "allows_scope", v.allowed_scope_ids)>>
           secret == IF v.client_type = "confidential" THEN Secret(ids[1], ids[3]) ELSE <<>>
           N == {<<ids[1], "OAuthClient">>}
           U == N \union {<<ids[2], "RedirectURI">>}
<1>1. /\ client.do = "create" /\ Creates(client, ids[1], "OAuthClient")
      /\ uri.do = "create" /\ Creates(uri, ids[2], "RedirectURI")
  BY CreationIs
<1>2. Names(r, v.allowed_scope_ids, "Scope")
  BY NamesIn
<1>3. p.steps = <<client>> \o uris \o scopes \o secret
  <2>1. p = Proceed(<<client>> \o uris \o scopes \o secret, {})
    BY Zenon DEF CreateOAuthClient
  <2> HIDE DEF client, uris, scopes, secret
  <2> QED BY <2>1 DEF Proceed
<1> HIDE DEF r
<1>4. Tied(N, r, uris) /\ IsSteps(uris)
  <2>1. Tied(U, r, <<has>>)
    BY EdgeKinds, EdgeTied
  <2> HIDE DEF uri, has
  <2> DEFINE one == <<uri>>
  <2>2. /\ Tied(N, r, one) /\ one \o <<has>> = <<uri, has>>
        /\ IsSteps(one) /\ IsSteps(<<has>>) /\ IsSteps(<<uri, has>>) /\ IsSteps(<<>>)
    BY <1>1, OneTied, Pair, ShortSteps
  <2>3. 1 \in 1..Len(one) /\ one[1] = uri
    OBVIOUS
  <2> HIDE DEF one
  <2>4. \A i, type : <<i, type>> \in U =>
           \/ <<i, type>> \in N
           \/ type # "Role" /\ \E j \in 1..Len(one) : Creates(one[j], i, type)
    BY <1>1, <2>3
  <2> HIDE DEF N, U
  <2>5. Tied(N, r, one \o <<has>>)
    BY <2>1, <2>2, <2>4, JoinTied
  <2>6. Tied(N, r, <<uri, has>>)
    BY <2>2, <2>5
  <2> QED BY <2>2, <2>6, NoneTied
<1>5. Tied(N, r, scopes) /\ IsSteps(scopes)
  <2>1. Tied(N, r, <<Relate(ids[1], "allows_scope", v.allowed_scope_ids)>>)
    BY <1>2, EdgeKinds, EdgeTied
  <2> QED BY <2>1, NoneTied, ShortSteps
<1>6. Tied(N, r, secret) /\ IsSteps(secret)
  BY SecretTied, NoneTied, ShortSteps
<1> HIDE DEF client, uris, scopes, secret
<1>7. Tied({}, r, <<client>>) /\ IsSteps(<<client>>)
  BY <1>1, OneTied, ShortSteps
\* After the creation of the client, what comes next may use it.
<1>8. ASSUME NEW a, NEW b, Tied({}, r, a), Tied(N, r, b), IsSteps(a), IsSteps(b),
             \E j \in 1..Len(a) : Creates(a[j], ids[1], "OAuthClient")
      PROVE  /\ Tied({}, r, a \o b) /\ IsSteps(a \o b)
             /\ \E j \in 1..Len(a \o b) : Creates((a \o b)[j], ids[1], "OAuthClient")
  <2>1. \A i, type : <<i, type>> \in N =>
           \/ <<i, type>> \in {}
           \/ type # "Role" /\ \E j \in 1..Len(a) : Creates(a[j], i, type)
    BY <1>8
  <2> HIDE DEF N
  <2>2. Tied({}, r, a \o b)
    BY <1>8, <2>1, JoinTied
  <2>3. IsSteps(a \o b) /\ \A j \in 1..Len(a) : j \in 1..Len(a \o b) /\ (a \o b)[j] = a[j]
    BY <1>8, JoinedAt
  <2> QED BY <1>8, <2>2, <2>3
<1>9. \E j \in 1..Len(<<client>>) : Creates(<<client>>[j], ids[1], "OAuthClient")
  <2>1. 1 \in 1..Len(<<client>>) /\ <<client>>[1] = client
    OBVIOUS
  <2> QED BY <1>1, <2>1
<1>10. /\ Tied({}, r, <<client>> \o uris) /\ IsSteps(<<client>> \o uris)
       /\ \E j \in 1..Len(<<client>> \o uris) :
             Creates((<<client>> \o uris)[j], ids[1], "OAuthClient")
  BY <1>4, <1>7, <1>8, <1>9
<1>11. /\ Tied({}, r, <<client>> \o uris \o scopes) /\ IsSteps(<<client>> \o uris \o scopes)
       /\ \E j \in 1..Len(<<client>> \o uris \o scopes) :
             Creates((<<client>> \o uris \o scopes)[j], ids[1], "OAuthClient")
  BY <1>5, <1>8, <1>10
<1>12. Tied({}, r, <<client>> \o uris \o scopes \o secret)
  BY <1>6, <1>8, <1>11
<1>13. Tied({}, r, p.steps)
  BY <1>3, <1>12
<1> QED BY <1>13 DEF r

\* Whatever is called, the edges that its function leaves to make are of the schema.
LEMMA ManagerTied ==
    ASSUME Stored, NEW c \in Calls, Unused(c), NEW m \in DOMAIN Bodies[c],
           NEW body \in Bodies[c][m], NEW id, NEW o,
           NEW p \in Manager(m, Request(m, body, id), o, Fresh[c])
    PROVE  Tied({}, [method |-> m, v |-> Request(m, body, id)], p.steps)
<1> DEFINE v == Request(m, body, id)
           r == [method |-> m, v |-> v]
<1>1. CASE m = "InviteUser"
  <2>1. p \in InviteUser(v, o, Fresh[c])
    BY <1>1 DEF Manager
  <2> QED BY <1>1, <2>1, InviteUserTied
<1>2. CASE m = "GrantMembership"
  <2>1. p \in GrantMembership(v, Fresh[c])
    BY <1>2 DEF Manager
  <2> QED BY <1>2, <2>1, GrantMembershipTied
<1>3. CASE m = "CreateOAuthClient"
  <2>1. p \in CreateOAuthClient(v, Fresh[c])
    BY <1>3 DEF Manager
  <2> QED BY <1>3, <2>1, CreateOAuthClientTied
<1>4. CASE m = "RotateClientSecret"
  <2>1. p \in RotateClientSecret(v, o, Fresh[c])
    BY <1>4 DEF Manager
  <2> QED BY <1>4, <2>1, RotateClientSecretTied
<1>5. CASE m \notin Joiners
  <2>1. Planned(c, r, p.steps)
    BY ManagerPlan
  <2>2. r.method \notin Joiners
    BY <1>5
  <2> HIDE DEF r
  <2>3. \A k \in 1..Len(p.steps) : p.steps[k].do # "relate"
    BY <2>1, <2>2 DEF Planned, Fit
  <2>4. Tied({}, r, p.steps)
    BY <2>3, UnrelatedTied
  <2> QED BY <2>4 DEF r
<1> QED BY <1>1, <1>2, <1>3, <1>4, <1>5 DEF Joiners

-----------------------------------------------------------------------------
(* What one step of a call means to the edges of all *)

\* Every edge that a call has made, and every one that it has still to make, is of the schema.
Linked ==
    /\ EdgesConform
    /\ \A c \in Calls : \A r \in {req[c]}, steps \in {todo[c]} : Tied({}, r, steps)

LEMMA IsOfKept == ASSUME Grown, NEW i, NEW type, IsOf(i, type) PROVE IsOf(i, type)'
BY DEF Grown, Exists, IsOf

\* What is left of the steps when the first n are done.
LEMMA RestTied ==
    ASSUME Grown, NEW r, NEW steps, IsSteps(steps), Tied({}, r, steps),
           NEW n \in Nat, n <= Len(steps), NEW rest, Len(rest) = Len(steps) - n,
           \A k \in 1..Len(rest) : rest[k] = steps[k + n],
           \A j \in 1..n : \A i, type :
              Creates(steps[j], i, type) => type = "Role" \/ IsOf(i, type)'
    PROVE  Tied({}, r, rest)'
<1>0. Len(steps) \in Nat /\ Len(rest) \in Nat
  BY JoinedAt
<1>1. ASSUME NEW k \in 1..Len(rest), NEW i, NEW type, Ended({}, r, steps, k + n, i, type)
      PROVE  Ended({}, r, rest, k, i, type)'
  <2>1. CASE IsOf(i, type)
    BY <2>1, IsOfKept DEF Ended
  <2>2. CASE Names(r, i, type)
    BY <2>2 DEF Ended, Names
  <2>3. ASSUME type # "Role", NEW j \in 1..((k + n) - 1), Creates(steps[j], i, type)
        PROVE  Ended({}, r, rest, k, i, type)'
    <3>1. CASE j <= n
      <4>1. j \in 1..n
        BY <1>0, <3>1
      <4>2. IsOf(i, type)'
        BY <2>3, <4>1
      <4> QED BY <4>2 DEF Ended
    <3>2. CASE j > n
      <4>1. PICK h : h = j - n
        OBVIOUS
      <4>2. h \in 1..(k - 1) /\ h \in 1..Len(rest) /\ h + n = j
        BY <1>0, <3>2, <4>1
      <4>3. Creates(rest[h], i, type)
        BY <2>3, <4>2
      <4> QED BY <2>3, <4>2, <4>3 DEF Ended, Creates
    <3> QED BY <1>0, <3>1, <3>2
  <2> QED BY <1>1, <2>1, <2>2, <2>3 DEF Ended
<1>2. ASSUME NEW k \in 1..Len(rest), rest[k].do = "relate"
      PROVE  \E type, other \in DOMAIN Types :
                /\ <<rest[k].edge.name, other>> \in Types[type].edges
                /\ Ended({}, r, rest, k, rest[k].edge.from, type)'
                /\ Ended({}, r, rest, k, rest[k].edge.to, other)'
  <2>1. k + n \in 1..Len(steps) /\ rest[k] = steps[k + n]
    BY <1>0
  <2>2. PICK type \in DOMAIN Types, other \in DOMAIN Types :
           /\ <<rest[k].edge.name, other>> \in Types[type].edges
           /\ Ended({}, r, steps, k + n, rest[k].edge.from, type)
           /\ Ended({}, r, steps, k + n, rest[k].edge.to, other)
    BY <1>2, <2>1 DEF Tied
  <2>3. /\ Ended({}, r, rest, k, rest[k].edge.from, type)'
        /\ Ended({}, r, rest, k, rest[k].edge.to, other)'
    BY <1>1, <2>2
  <2> QED BY <2>2, <2>3
<1> QED BY <1>2 DEF Tied

\* Steps of a call that are not touched by what happens to the store.
LEMMA AllTied ==
    ASSUME Grown, NEW r, NEW steps, IsSteps(steps), Tied({}, r, steps)
    PROVE  Tied({}, r, steps)'
<1>1. Len(steps) \in Nat
  BY JoinedAt
<1>2. 0 \in Nat /\ 0 <= Len(steps) /\ Len(steps) = Len(steps) - 0
      /\ \A k \in 1..Len(steps) : steps[k] = steps[k + 0]
  BY <1>1
<1>3. \A j \in 1..0 : \A i, type : Creates(steps[j], i, type) => type = "Role" \/ IsOf(i, type)'
  OBVIOUS
<1> QED BY <1>2, <1>3, RestTied

LEMMA NextTied ==
    ASSUME Grown, NEW r, NEW steps, IsSteps(steps), Tied({}, r, steps), steps # <<>>,
           \A i, type : Creates(steps[1], i, type) => IsOf(i, type)'
    PROVE  Tied({}, r, Tail(steps))'
<1> DEFINE rest == Tail(steps)
<1>1. /\ Len(steps) \in Nat /\ Len(steps) >= 1 /\ Len(rest) = Len(steps) - 1
      /\ \A k \in 1..Len(rest) : rest[k] = steps[k + 1]
  BY TailSteps
<1> HIDE DEF rest
<1>2. Tied({}, r, rest)'
  <2>1. \A j \in 1..1 : \A i, type : Creates(steps[j], i, type) => type = "Role" \/ IsOf(i, type)'
    OBVIOUS
  <2>2. 1 \in Nat /\ 1 <= Len(steps)
    BY <1>1
  <2> QED BY <1>1, <2>1, <2>2, RestTied
<1> QED BY <1>2 DEF rest

\* A list that finds the role: its creation is left out as well.
LEMMA SkipTied ==
    ASSUME Grown, NEW c, NEW r, NEW steps, Planned(c, r, steps), Tied({}, r, steps),
           steps # <<>>, steps[1].do = "unless"
    PROVE  Tied({}, r, Tail(Tail(steps)))'
<1> DEFINE rest == Tail(steps)
           last == Tail(rest)
<1>1. /\ Len(steps) \in Nat /\ Len(steps) >= 1 /\ Len(rest) = Len(steps) - 1
      /\ \A k \in 1..Len(rest) : rest[k] = steps[k + 1]
      /\ IsSteps(rest) /\ IsSteps(steps)
  BY TailSteps DEF Planned
<1>2. 2 \in 1..Len(steps) /\ steps[2].do = "create" /\ steps[2].entity.type = "Role"
  <2>1. 1 \in 1..Len(steps)
    BY <1>1
  <2>2. 1 + 1 \in 1..Len(steps) /\ steps[1 + 1].do = "create" /\ steps[1 + 1].entity.type = "Role"
    BY <2>1 DEF Planned, Ordered
  <2> QED BY <2>2
<1> HIDE DEF rest
<1>3. rest # <<>>
  BY <1>1, <1>2
<1>4. Len(last) = Len(rest) - 1 /\ \A k \in 1..Len(last) : last[k] = rest[k + 1]
  BY <1>1, <1>3, TailSteps
<1> HIDE DEF last
<1>5. \A k \in 1..Len(last) : last[k] = steps[k + 2]
  <2> TAKE k \in 1..Len(last)
  <2>1. k + 1 \in 1..Len(rest) /\ (k + 1) + 1 = k + 2
    BY <1>1, <1>2, <1>4
  <2>2. rest[k + 1] = steps[(k + 1) + 1]
    BY <1>1, <2>1
  <2> QED BY <1>4, <2>1, <2>2
<1>6. \A j \in 1..2 : \A i, type : Creates(steps[j], i, type) => type = "Role" \/ IsOf(i, type)'
  BY <1>2 DEF Creates
<1>7. 2 <= Len(steps) /\ Len(last) = Len(steps) - 2
  BY <1>1, <1>2, <1>4
<1>8. Tied({}, r, last)'
  BY <1>1, <1>5, <1>6, <1>7, RestTied
<1> QED BY <1>8 DEF last, rest

\* An end stays of its type, and what a call has named stays named.
LEMMA EndKept ==
    ASSUME Wired, Grown, touched \subseteq touched', \A c \in touched : req'[c] = req[c],
           NEW i \in EntityIds, NEW type \in DOMAIN Types, End(i, type)
    PROVE  End(i, type)'
<1>1. CASE entity[i].type = type
  <2>1. entity[i] # NoEntity
    BY <1>1, NilNoType DEF NoEntity
  <2> QED BY <1>1, <2>1 DEF Grown, End
<1>2. ASSUME NEW c \in touched, Names(req[c], i, type) PROVE End(i, type)'
  <2>1. PICK r : r = req[c]
    OBVIOUS
  <2>2. r = req'[c] /\ Names(r, i, type)
    BY <1>2, <2>1
  <2>3. Names(r, i, type)'
    BY <2>2 DEF Names
  <2> QED BY <2>2, <2>3 DEF End
<1> QED BY <1>1, <1>2 DEF End

\* The edges made before.
LEMMA EdgesKept ==
    ASSUME Wired, EdgesConform, Grown, touched \subseteq touched',
           \A c \in touched : req'[c] = req[c], NEW d \in edges \ StoreEdges
    PROVE  \E type, other \in DOMAIN Types :
              /\ <<d.name, other>> \in Types[type].edges
              /\ End(d.from, type)' /\ End(d.to, other)'
<1>1. {d.from, d.to} \subseteq EntityIds
  BY DEF Wired, Stored
<1>2. PICK type \in DOMAIN Types, other \in DOMAIN Types :
         <<d.name, other>> \in Types[type].edges /\ End(d.from, type) /\ End(d.to, other)
  BY DEF EdgesConform
<1>3. End(d.from, type)' /\ End(d.to, other)'
  BY <1>1, <1>2, EndKept
<1> QED BY <1>2, <1>3

\* A step of the call c that leaves the others alone.
LEMMA CallLinked ==
    ASSUME Wired, Linked, Grown, NEW c \in Calls, NEW r, NEW err, NEW steps, NEW es,
           GoOn(c, r, err, steps, es), NEW q, Asks(c, q),
           err = "none" => Tied({}, q, steps)', EdgesConform'
    PROVE  Linked'
<1>1. req'[c] = q /\ \A d \in Calls \ {c} : req'[d] = req[d] /\ todo'[d] = todo[d]
  BY GoOnDoes DEF Wired, Shaped, Asks
<1>2. todo'[c] = <<>> \/ (todo'[c] = steps /\ err = "none")
  BY GoOnDoes DEF Wired
<1>3. \A u \in {req'[c]}, s \in {todo'[c]} : Tied({}, u, s)'
  BY <1>1, <1>2, NoneTied
<1>4. ASSUME NEW d \in Calls \ {c} PROVE \A u \in {req'[d]}, s \in {todo'[d]} : Tied({}, u, s)'
  <2>1. PICK u, s : u = req[d] /\ s = todo[d]
    OBVIOUS
  <2>2. Tied({}, u, s) /\ IsSteps(s)
    BY <2>1 DEF Linked, Wired, Doing, Planned
  <2>3. Tied({}, u, s)'
    BY <2>2, AllTied
  <2> QED BY <1>1, <2>1, <2>3
<1> QED BY <1>3, <1>4 DEF Linked

\* Nothing is done to the store or to the steps of a call.
LEMMA IdleLinked ==
    ASSUME Wired, Linked, UNCHANGED <<entity, todo>>, EdgesConform',
           \A c \in Calls : todo[c] # <<>> => req'[c] = req[c]
    PROVE  Linked'
<1>1. ASSUME NEW c \in Calls PROVE \A u \in {req'[c]}, s \in {todo'[c]} : Tied({}, u, s)'
  <2>1. PICK u, s : u = req[c] /\ s = todo[c]
    OBVIOUS
  <2>2. Tied({}, u, s) /\ IsSteps(s)
    BY <2>1 DEF Linked, Wired, Doing, Planned
  <2>3. Tied({}, u, s)'
    BY <2>2, AllTied, GrownSame
  <2>4. PICK q : q = req'[c]
    OBVIOUS
  <2>5. Tied({}, q, <<>>)'
    BY NoneTied
  <2> QED BY <2>1, <2>3, <2>4, <2>5
<1> QED BY <1>1 DEF Linked

LEMMA InitLinked == Init => Linked
<1> SUFFICES ASSUME Init PROVE Linked
  OBVIOUS
<1>1. EdgesConform
  <2>1. PICK s \in Stores : edges = s.edges
    BY DEF Init
  <2>2. s.edges \subseteq StoreEdges
    BY DEF StoreEdges
  <2>3. edges \ StoreEdges = {}
    BY <2>1, <2>2
  <2> QED BY <2>3 DEF EdgesConform
<1>2. \A c \in Calls : \A r \in {req[c]}, steps \in {todo[c]} : Tied({}, r, steps)
  BY NoneTied DEF Init
<1> QED BY <1>1, <1>2 DEF Linked

\* The edges and the calls that have written stay as they are.
LEMMA SameLinks ==
    ASSUME Wired, Linked, Grown, UNCHANGED <<edges, touched>>,
           \A c \in touched : req'[c] = req[c]
    PROVE  EdgesConform'
<1>1. PICK D : D = edges \ StoreEdges
  OBVIOUS
<1>2. D = edges' \ StoreEdges /\ touched \subseteq touched' /\ EdgesConform
  BY <1>1 DEF StoreEdges, Linked
<1>3. ASSUME NEW d \in D
      PROVE  \E type, other \in DOMAIN Types :
                /\ <<d.name, other>> \in Types[type].edges
                /\ End(d.from, type)' /\ End(d.to, other)'
  BY <1>1, <1>2, <1>3, EdgesKept
<1> QED BY <1>2, <1>3 DEF EdgesConform, StoreEdges

LEMMA BeginLinked ==
    ASSUME Wired, Promise, Linked, NEW c \in Calls, Begin(c) PROVE Linked'
<1>1. PICK m, body, id, o, p :
         /\ m \in DOMAIN Bodies[c] /\ body \in Bodies[c][m]
         /\ req' = [req EXCEPT ![c] = [method |-> m, v |-> Request(m, body, id)]]
         /\ p \in Manager(m, Request(m, body, id), o, Fresh[c])
         /\ GoOn(c, req'[c], p.err, p.steps, p.es)
  BY DEF Begin
<1>2. UNCHANGED <<store, touched>> /\ req[c] = NoRequest
  BY DEF Begin, Arrives
<1>3. PICK q, steps : q = [method |-> m, v |-> Request(m, body, id)] /\ steps = p.steps
  OBVIOUS
<1>4. Asks(c, q)
  BY <1>1, <1>3 DEF Asks
<1>5. Tied({}, q, steps) /\ IsSteps(steps)
  <2>1. Unused(c) /\ Stored
    BY <1>2 DEF Wired, Settled
  <2> QED BY <1>1, <1>3, <2>1, ManagerTied, ManagerPlan DEF Planned
<1>6. Grown
  BY <1>2, SameStore
<1>7. Tied({}, q, steps)'
  BY <1>5, <1>6, AllTied
<1>8. \A d \in touched : req'[d] = req[d]
  BY <1>1, <1>2 DEF Promise, Begun
<1>9. EdgesConform'
  BY <1>2, <1>6, <1>8, SameLinks DEF store
<1> QED BY <1>1, <1>3, <1>4, <1>6, <1>7, <1>9, CallLinked

LEMMA LookLinked == ASSUME Wired, Linked, NEW c \in Calls, Look(c) PROVE Linked'
<1>1. PICK r, steps : r = req[c] /\ steps = todo[c]
  OBVIOUS
<1>2. steps # <<>> /\ Head(steps).do \in {"read", "unless"}
      /\ UNCHANGED <<store, req, touched>>
  BY <1>1 DEF Look, Ahead
<1>3. PICK err, rest, es :
         /\ rest = Tail(steps) \/ (rest = Tail(Tail(steps)) /\ Head(steps).do = "unless")
         /\ GoOn(c, r, err, rest, es)
  BY <1>1 DEF Look
<1>4. Planned(c, r, steps) /\ Head(steps) = steps[1] /\ Tied({}, r, steps) /\ IsSteps(steps)
  BY <1>1, <1>2, TailSteps DEF Wired, Doing, Planned, Linked
<1>5. Asks(c, r) /\ Grown
  BY <1>1, <1>2, SameStore DEF Wired, Shaped, Asks
<1>6. Tied({}, r, rest)'
  <2>1. \A i, type : Creates(steps[1], i, type) => IsOf(i, type)'
    BY <1>2, <1>4 DEF Creates
  <2> QED BY <1>2, <1>3, <1>4, <1>5, <2>1, NextTied, SkipTied
<1>7. EdgesConform'
  BY <1>2, <1>5, SameLinks DEF store
<1> QED BY <1>3, <1>5, <1>6, <1>7, CallLinked

LEMMA HashLinked == ASSUME Wired, Linked, NEW c \in Calls, HashSecret(c) PROVE Linked'
<1>1. PICK r, steps : r = req[c] /\ steps = todo[c]
  OBVIOUS
<1>2. steps # <<>> /\ Head(steps).do = "hash" /\ UNCHANGED <<store, req, touched>>
  BY <1>1 DEF HashSecret, Ahead, calling
<1>3. Grown
  BY <1>2, SameStore
<1>4. Head(steps) = steps[1] /\ Tied({}, r, steps) /\ IsSteps(steps)
  BY <1>1, <1>2, TailSteps DEF Wired, Doing, Planned, Linked
<1>5. EdgesConform'
  BY <1>2, <1>3, SameLinks DEF store
<1>6. CASE HashPanics(cfg)
  <2>1. UNCHANGED calling
    BY <1>6 DEF HashSecret
  <2> QED BY <1>2, <1>5, <2>1, IdleLinked DEF calling, store
<1>7. CASE ~HashPanics(cfg)
  <2>1. PICK rest : rest = Tail(steps)
    OBVIOUS
  <2>2. GoOn(c, r, "none", rest, result[c])
    BY <1>1, <1>7, <2>1 DEF HashSecret
  <2>3. Asks(c, r)
    BY <1>1, <1>2 DEF Wired, Shaped, Asks
  <2>4. \A i, type : Creates(steps[1], i, type) => IsOf(i, type)'
    BY <1>2, <1>4 DEF Creates
  <2>5. Tied({}, r, rest)'
    BY <1>2, <1>3, <1>4, <2>1, <2>4, NextTied
  <2> QED BY <1>3, <1>5, <2>2, <2>3, <2>5, CallLinked
<1> QED BY <1>6, <1>7

\* The edge that a write makes.
LEMMA EdgeMade ==
    ASSUME Wired, Linked, NEW c \in Calls, NEW r, NEW steps, NEW w, NEW o, NEW err, NEW es,
           WriteOf(c, r, steps, w, o, err, es), Tied({}, r, steps), Grown,
           Applied(o), steps[1].do = "relate"
    PROVE  \E type, other \in DOMAIN Types :
              /\ <<steps[1].edge.name, other>> \in Types[type].edges
              /\ End(steps[1].edge.from, type)' /\ End(steps[1].edge.to, other)'
<1>1. 1 \in 1..Len(steps) /\ \A j : j \notin 1..(1 - 1)
  <2>1. Len(steps) \in Nat /\ Len(steps) >= 1
    BY TailSteps DEF WriteOf, Planned
  <2> QED BY <2>1
<1>2. c \in touched' /\ req'[c] = r
  BY DEF WriteOf, Wired, Shaped, Asks
<1>3. ASSUME NEW i, NEW type, Ended({}, r, steps, 1, i, type) PROVE End(i, type)'
  <2>1. IsOf(i, type) \/ Names(r, i, type)
    BY <1>1, <1>3 DEF Ended
  <2>2. CASE IsOf(i, type)
    BY <2>2 DEF IsOf, Exists, Grown, End
  <2>3. CASE Names(r, i, type)
    <3>1. Names(r, i, type)'
      BY <2>3 DEF Names
    <3> QED BY <1>2, <3>1 DEF End
  <2> QED BY <2>1, <2>2, <2>3
<1>4. PICK type \in DOMAIN Types, other \in DOMAIN Types :
         /\ <<steps[1].edge.name, other>> \in Types[type].edges
         /\ Ended({}, r, steps, 1, steps[1].edge.from, type)
         /\ Ended({}, r, steps, 1, steps[1].edge.to, other)
  BY <1>1 DEF Tied
<1> QED BY <1>3, <1>4

LEMMA WriteLinked == ASSUME Wired, Linked, NEW c \in Calls, Write(c) PROVE Linked'
<1>1. PICK r, steps, w, o, err, es : WriteOf(c, r, steps, w, o, err, es)
  BY WriteDoes
<1>2. Grown /\ Stored'
  BY <1>1, WriteStores
<1>3. /\ Tied({}, r, steps) /\ IsSteps(steps) /\ steps # <<>> /\ Asks(c, r)
      /\ Planned(c, r, steps) /\ Stored /\ r = req[c]
  BY <1>1 DEF WriteOf, Planned, Linked, Wired
<1>4. UNCHANGED req
  BY DEF Write
<1>5. PICK s : s = steps[1]
  OBVIOUS
<1>6. EdgesConform'
  <2>1. touched \subseteq touched' /\ edges' \subseteq edges \union {s.edge}
        /\ (s.edge \in edges' \ edges => Applied(o) /\ s.do = "relate")
    BY <1>1, <1>5 DEF WriteOf
  <2>2. PICK D : D = edges' \ StoreEdges
    OBVIOUS
  <2>3. ASSUME NEW d \in D
        PROVE  \E type, other \in DOMAIN Types :
                  /\ <<d.name, other>> \in Types[type].edges
                  /\ End(d.from, type)' /\ End(d.to, other)'
    <3>1. CASE d \in edges
      BY <1>2, <1>4, <2>1, <2>2, <3>1, EdgesKept DEF Linked
    <3>2. CASE d \notin edges
      <4>1. d = s.edge /\ Applied(o) /\ s.do = "relate"
        BY <2>1, <2>2, <3>2
      <4> QED BY <1>1, <1>2, <1>3, <1>5, <4>1, EdgeMade
    <3> QED BY <3>1, <3>2
  <2> QED BY <2>2, <2>3 DEF EdgesConform, StoreEdges
<1>7. ASSUME err = "none" PROVE Tied({}, r, Tail(steps))'
  <2>1. ASSUME NEW i, NEW type, Creates(s, i, type) PROVE IsOf(i, type)'
    <3>1. s.do = "create" /\ s.entity.id = i /\ s.entity.type = type
      BY <2>1 DEF Creates
    <3>2. Fit(c, r, s)
      <4>1. Len(steps) \in Nat /\ Len(steps) >= 1
        BY <1>3, TailSteps
      <4> QED BY <1>3, <1>5, <4>1 DEF Planned
    <3>3. w = Written(s) /\ Applied(o) /\ entity' = [entity EXCEPT ![w.id] = w]
      BY <1>1, <1>5, <1>7, <3>1 DEF WriteOf, Applied
    <3>4. w = s.entity /\ w.id \in EntityIds /\ w # NoEntity
      BY <1>3, <3>1, <3>2, <3>3, WrittenIs
    <3>5. entity'[i] = w
      BY <1>3, <3>1, <3>3, <3>4 DEF Stored
    <3> QED BY <3>1, <3>4, <3>5 DEF IsOf, Exists
  <2> QED BY <1>2, <1>3, <1>5, <2>1, NextTied
<1>8. PICK rest : rest = Tail(steps)
  OBVIOUS
<1>9. GoOn(c, r, err, rest, es) /\ (err = "none" => Tied({}, r, rest)')
  BY <1>1, <1>7, <1>8 DEF WriteOf
<1> QED BY <1>2, <1>3, <1>6, <1>9, CallLinked

LEMMA NextLinked == Wired /\ Promise /\ Linked /\ [Next]_vars => Linked'
<1> SUFFICES ASSUME Wired, Promise, Linked, [Next]_vars PROVE Linked'
  OBVIOUS
<1>1. ASSUME UNCHANGED <<store, req, todo, touched>> PROVE Linked'
  BY <1>1, SameLinks, IdleLinked, GrownSame DEF store
<1>2. CASE Start \/ UNCHANGED vars
  BY <1>1, <1>2 DEF Start, vars, calling
<1>3. ASSUME NEW c \in Calls, Deny(c) PROVE Linked'
  <2>1. UNCHANGED <<store, todo, touched>> /\ req[c] = NoRequest
        /\ \A d \in Calls \ {c} : req'[d] = req[d]
    BY <1>3, Zenon DEF Deny, Arrives, Wired, Shaped
  <2>2. c \notin touched /\ touched \subseteq Calls /\ todo[c] = <<>>
    BY <2>1 DEF Promise, Begun
  <2>3. EdgesConform'
    BY <2>1, <2>2, SameLinks, GrownSame DEF store
  <2> QED BY <2>1, <2>2, <2>3, IdleLinked DEF store
<1>4. ASSUME NEW c \in Calls, Begin(c) \/ Look(c) \/ HashSecret(c) \/ Write(c) PROVE Linked'
  BY <1>4, BeginLinked, LookLinked, HashLinked, WriteLinked
<1> QED BY <1>2, <1>3, <1>4 DEF Next, Finished

\* Whatever is called on whatever ids, by how many at once and wherever a call stops: an
\* edge that a call has made is one the schema declares, between entities of the types that
\* it declares there, but for the ends that a client has named itself.
THEOREM EdgesOfSchema == Spec => []EdgesConform
<1>1. Init => Wired /\ Promise /\ Linked
  BY InitWired, InitLinked DEF Init, Promise, Begun, RefusedWroteNothing
<1>2. Wired /\ Promise /\ Linked /\ [Next]_vars => (Wired /\ Promise /\ Linked)'
  BY NextWired, NextPromise, NextLinked
<1>3. Linked => EdgesConform
  BY DEF Linked
<1> QED BY <1>1, <1>2, <1>3, PTL DEF Spec

-----------------------------------------------------------------------------
(* The answers: what they tell of an entity *)

\* The texts that a request and the entity of its answer have under the same names.
Shared == [
    InitOrganization   |-> {"name", "description", "contact_email", "logo_url"},
    UpdateOrganization |-> {"name", "description", "contact_email", "logo_url"},
    CreateRole         |-> {"name", "display_name", "description"},
    UpdateRole         |-> {"display_name", "description"},
    RegisterScope      |-> {"name", "registered_by", "description"},
    GrantMembership    |-> {"granted_by"},
    CreateOAuthClient  |-> {"name", "client_type", "description", "allowed_grant_types"}]

\* The field in which a request names the entity of its answer.
Key == [
    GetUser          |-> "user_id",
    SuspendUser      |-> "user_id",
    ReactivateUser   |-> "user_id",
    UpdateRole       |-> "role_id",
    DeprecateScope   |-> "scope_id",
    RevokeMembership |-> "membership_id"]

\* An answer with the entity shows what the request said.
Shows(r, e) ==
    /\ r.method \in DOMAIN Shared =>
          \A f \in Shared[r.method] : r.v[f] \in {Nil, propStr(e.props, f)}
    /\ r.method \in DOMAIN Key => r.v[Key[r.method]] = e.id

\* So does one with the entity i once the properties are written to it: what the type of a
\* scope requires, it has already.
ShowsPatched(r, i, props) ==
    /\ r.method \in DOMAIN Shared => \A f \in Shared[r.method] :
          \/ r.v[f] = Nil
          \/ f \in DOMAIN props /\ props[f] = r.v[f]
          \/ /\ f \notin DOMAIN props /\ f \in Types["Scope"].required
             /\ IsOf(i, "Scope") /\ propStr(entity[i].props, f) = r.v[f]
    /\ r.method \in DOMAIN Key => r.v[Key[r.method]] = i

ShowsStep(r, s) ==
    /\ s.do = "create" /\ s.shown => Shows(r, s.entity)
    /\ s.do = "patch" /\ s.shown => ShowsPatched(r, s.id, s.props)

\* A request has the fields of its method.
Fielded(r) == r.method \in Methods /\ DOMAIN r.v \subseteq Fields[r.method]

\* What a message tells of an entity in the fields that requests have as well.
LEMMA OrgMessage ==
    ASSUME NEW e, NEW a, a = toProtoOrg(entityToOrg(e))
    PROVE  \A f \in {"name", "description", "contact_email", "logo_url"} : a[f] = propStr(e.props, f)
BY DEF toProtoOrg, entityToOrg, Struct, Without, Stamped

LEMMA UserMessage ==
    ASSUME NEW e, NEW a, a = toProtoUser(entityToUser(e))
    PROVE  /\ DOMAIN a \intersect {"token", "status_filter"} = {}
           /\ a.user_id = e.id
<1> DEFINE u == entityToUser(e)
           w == [Without(u, {"id"}) EXCEPT !.status = toProtoUserStatus(@)]
<1>1. /\ u.id = e.id
      /\ DOMAIN u = {"id", "agency_id"} \union {"email", "status", "display_name"} \union {} \union Stamped
  BY DEF entityToUser, Struct
<1> HIDE DEF u
<1>2. DOMAIN w = DOMAIN u \ {"id"}
  BY DEF Without
<1> HIDE DEF w
<1>3. a = [user_id |-> u.id] ++ w
  BY DEF toProtoUser, w, u
<1> QED BY <1>1, <1>2, <1>3 DEF ++, Stamped

LEMMA RoleMessage ==
    ASSUME NEW e, NEW a, a = toProtoRole(entityToRole(e))
    PROVE  /\ \A f \in {"name", "display_name", "description"} : a[f] = propStr(e.props, f)
           /\ a.role_id = e.id
<1> DEFINE u == entityToRole(e)
           w == Without(u, {"id"})
<1>1. /\ u.id = e.id
      /\ \A f \in {"name", "display_name", "description"} : f \in DOMAIN u /\ u[f] = propStr(e.props, f)
      /\ "role_id" \notin DOMAIN u
  BY DEF entityToRole, Struct, Stamped
<1> HIDE DEF u
<1>2. DOMAIN w = DOMAIN u \ {"id"} /\ \A f \in DOMAIN w : w[f] = u[f]
  BY DEF Without
<1> HIDE DEF w
<1>3. a = [role_id |-> u.id] ++ w
  BY DEF toProtoRole, w, u
<1> QED BY <1>1, <1>2, <1>3 DEF ++

LEMMA ScopeMessage ==
    ASSUME NEW e, NEW a, a = toProtoScope(entityToScope(e))
    PROVE  /\ \A f \in {"name", "registered_by", "description"} : a[f] = propStr(e.props, f)
           /\ a.scope_id = e.id
<1> DEFINE u == entityToScope(e)
           w == Without(u, {"id"})
<1>1. /\ u.id = e.id
      /\ \A f \in {"name", "registered_by", "description"} : f \in DOMAIN u /\ u[f] = propStr(e.props, f)
  BY DEF entityToScope, Struct
<1> HIDE DEF u
<1>2. DOMAIN w = DOMAIN u \ {"id"} /\ \A f \in DOMAIN w : w[f] = u[f]
  BY DEF Without
<1> HIDE DEF w
<1>3. a = [scope_id |-> u.id] ++ w
  BY DEF toProtoScope, w, u
<1> QED BY <1>1, <1>2, <1>3 DEF ++

LEMMA MembershipMessage ==
    ASSUME NEW e, NEW a, a = toProtoMembership(entityToMembership(e))
    PROVE  a.granted_by = propStr(e.props, "granted_by") /\ a.membership_id = e.id
<1> DEFINE u == entityToMembership(e)
           w == Without(u, {"id", "revoked_by"})
           h == [membership_id |-> u.id, user_id |-> Nil, role_id |-> Nil]
<1>1. u.id = e.id /\ "granted_by" \in DOMAIN u /\ u.granted_by = propStr(e.props, "granted_by")
  BY DEF entityToMembership, Struct
<1> HIDE DEF u
<1>2. DOMAIN w = DOMAIN u \ {"id", "revoked_by"} /\ \A f \in DOMAIN w : w[f] = u[f]
  BY DEF Without
<1> HIDE DEF w
<1>3. DOMAIN h = {"membership_id", "user_id", "role_id"} /\ h.membership_id = u.id
  OBVIOUS
<1>4. a = h ++ w
  BY DEF toProtoMembership, w, u
<1> HIDE DEF h
<1> QED BY <1>1, <1>2, <1>3, <1>4 DEF ++

LEMMA InvitationMessage ==
    ASSUME NEW e, NEW t, NEW a, a = toProtoInvitation(entityToInvitation(e), t)
    PROVE  DOMAIN a \intersect {"display_name", "invited_by_user_id", "role_ids"} = {}
<1> DEFINE u == entityToInvitation(e)
           w == [Without(u, {"id", "token_hash"}) EXCEPT !.status = toProtoInvitationStatus(@)]
           h == [invitation_id |-> u.id, email |-> Nil, token |-> t]
<1>1. DOMAIN u = {"id", "agency_id"} \union {"token_hash", "status"} \union {}
                 \union {"expires_at", "created_at", "accepted_at", "revoked_at"}
  BY DEF entityToInvitation, Struct
<1> HIDE DEF u
<1>2. DOMAIN w = DOMAIN u \ {"id", "token_hash"}
  BY DEF Without
<1> HIDE DEF w
<1>3. DOMAIN h = {"invitation_id", "email", "token"}
  OBVIOUS
<1>4. a = h ++ w
  BY DEF toProtoInvitation, w, u
<1> HIDE DEF h
<1> QED BY <1>1, <1>2, <1>3, <1>4 DEF ++

LEMMA ClientMessage ==
    ASSUME NEW e, NEW a, a = toProtoOAuthClient(entityToOAuthClient(e))
    PROVE  /\ \A f \in {"name", "client_type", "description", "allowed_grant_types"} :
                 a[f] = propStr(e.props, f)
           /\ DOMAIN a \intersect {"redirect_uris", "allowed_scope_ids"} = {}
BY DEF toProtoOAuthClient, entityToOAuthClient, Struct, Without, Stamped

LEMMA EventMessage ==
    ASSUME NEW e, NEW a, a = toProtoAuditEvent(entityToAuditEvent(e))
    PROVE  DOMAIN a \intersect {"event_type_filter", "actor_id_filter", "subject_id_filter"} = {}
<1> DEFINE u == entityToAuditEvent(e)
           w == Without(u, {"id"})
<1>1. DOMAIN u = {"id", "agency_id"} \union {"event_type", "actor_id", "subject_id", "outcome", "payload"}
                 \union {} \union {"event_at"}
  BY DEF entityToAuditEvent, Struct
<1> HIDE DEF u
<1>2. DOMAIN w = DOMAIN u \ {"id"}
  BY DEF Without
<1> HIDE DEF w
<1>3. a = [event_id |-> u.id] ++ w
  BY DEF toProtoAuditEvent, w, u
<1> QED BY <1>1, <1>2, <1>3 DEF ++

\* The groups of the methods are apart.
LEMMA GroupsApart ==
    /\ DOMAIN UserFields \intersect DOMAIN OrganizationFields = {}
    /\ DOMAIN RoleScopeFields \intersect (DOMAIN OrganizationFields \union DOMAIN UserFields) = {}
    /\ DOMAIN MembershipFields \intersect (DOMAIN OrganizationFields \union DOMAIN UserFields
                                           \union DOMAIN RoleScopeFields) = {}
    /\ DOMAIN ClientFields \intersect (DOMAIN OrganizationFields \union DOMAIN UserFields
                                       \union DOMAIN RoleScopeFields \union DOMAIN MembershipFields) = {}
    /\ DOMAIN ProtocolFields \intersect (DOMAIN OrganizationFields \union DOMAIN UserFields
                                         \union DOMAIN RoleScopeFields \union DOMAIN MembershipFields
                                         \union DOMAIN ClientFields) = {}
    /\ DOMAIN AuditFields \intersect (DOMAIN OrganizationFields \union DOMAIN UserFields
                                      \union DOMAIN RoleScopeFields \union DOMAIN MembershipFields
                                      \union DOMAIN ClientFields \union DOMAIN ProtocolFields) = {}
BY DEF OrganizationFields, UserFields, RoleScopeFields, MembershipFields, ClientFields,
       ProtocolFields, AuditFields

LEMMA OtherFieldsOf ==
    /\ \A m \in DOMAIN ProtocolFields : Fields[m] = ProtocolFields[m]
    /\ \A m \in DOMAIN AuditFields : Fields[m] = AuditFields[m]
<1> DEFINE first == OrganizationFields ++ UserFields ++ RoleScopeFields ++ MembershipFields
                    ++ ClientFields
<1>1. DOMAIN first = DOMAIN OrganizationFields \union DOMAIN UserFields
                     \union DOMAIN RoleScopeFields \union DOMAIN MembershipFields
                     \union DOMAIN ClientFields
  BY DEF ++
<1>2. Fields = first ++ ProtocolFields ++ AuditFields
  BY DEF Fields
<1> HIDE DEF first
<1>3. DOMAIN (first ++ ProtocolFields) = DOMAIN first \union DOMAIN ProtocolFields
      /\ \A m \in DOMAIN ProtocolFields : m \notin DOMAIN first =>
            (first ++ ProtocolFields)[m] = ProtocolFields[m]
  BY DEF ++
<1> DEFINE second == first ++ ProtocolFields
<1> HIDE DEF second
<1>4. Fields = second ++ AuditFields
  BY <1>2 DEF second
<1>5. \A m \in DOMAIN second \union DOMAIN AuditFields :
         Fields[m] = IF m \in DOMAIN second THEN second[m] ELSE AuditFields[m]
  BY <1>4 DEF ++
<1> QED BY <1>1, <1>3, <1>5, GroupsApart DEF second

LEMMA AnswerIs ==
    ASSUME NEW m, NEW v, NEW es
    PROVE  /\ m \in DOMAIN OrganizationFields => Answer(m, v, es) = OrganizationAnswer(m, es)
           /\ m \in DOMAIN UserFields => Answer(m, v, es) = UserAnswer(m, v, es)
           /\ m \in DOMAIN RoleScopeFields => Answer(m, v, es) = RoleScopeAnswer(m, v, es)
           /\ m \in DOMAIN MembershipFields => Answer(m, v, es) = MembershipAnswer(es)
           /\ m \in DOMAIN ClientFields => Answer(m, v, es) = ClientAnswer(m, v, es)
           /\ m \in DOMAIN ProtocolFields => Answer(m, v, es) = ProtocolAnswer(m)
           /\ m \in DOMAIN AuditFields => Answer(m, v, es) = AuditAnswer(es)
<1> DEFINE d1 == m \in DOMAIN OrganizationFields
           d2 == m \in DOMAIN UserFields
           d3 == m \in DOMAIN RoleScopeFields
           d4 == m \in DOMAIN MembershipFields
           d5 == m \in DOMAIN ClientFields
           d6 == m \in DOMAIN ProtocolFields
           d7 == m \in DOMAIN AuditFields
<1>1. /\ ~(d1 /\ d2) /\ ~(d1 /\ d3) /\ ~(d1 /\ d4) /\ ~(d1 /\ d5) /\ ~(d1 /\ d6) /\ ~(d1 /\ d7)
      /\ ~(d2 /\ d3) /\ ~(d2 /\ d4) /\ ~(d2 /\ d5) /\ ~(d2 /\ d6) /\ ~(d2 /\ d7)
      /\ ~(d3 /\ d4) /\ ~(d3 /\ d5) /\ ~(d3 /\ d6) /\ ~(d3 /\ d7)
      /\ ~(d4 /\ d5) /\ ~(d4 /\ d6) /\ ~(d4 /\ d7)
      /\ ~(d5 /\ d6) /\ ~(d5 /\ d7) /\ ~(d6 /\ d7)
  BY GroupsApart
<1>2. Answer(m, v, es) =
         CASE d1 -> OrganizationAnswer(m, es) [] d2 -> UserAnswer(m, v, es)
           [] d3 -> RoleScopeAnswer(m, v, es) [] d4 -> MembershipAnswer(es)
           [] d5 -> ClientAnswer(m, v, es) [] d6 -> ProtocolAnswer(m) [] d7 -> AuditAnswer(es)
  BY Zenon DEF Answer
<1> HIDE DEF d1, d2, d3, d4, d5, d6, d7
<1>3. /\ d1 => Answer(m, v, es) = OrganizationAnswer(m, es)
      /\ d2 => Answer(m, v, es) = UserAnswer(m, v, es)
      /\ d3 => Answer(m, v, es) = RoleScopeAnswer(m, v, es)
      /\ d4 => Answer(m, v, es) = MembershipAnswer(es)
      /\ d5 => Answer(m, v, es) = ClientAnswer(m, v, es)
      /\ d6 => Answer(m, v, es) = ProtocolAnswer(m)
      /\ d7 => Answer(m, v, es) = AuditAnswer(es)
  BY <1>1, <1>2
<1> QED BY <1>3 DEF d1, d2, d3, d4, d5, d6, d7

\* The message shows what the request said.
Told(r, a) ==
    \A f \in DOMAIN a \intersect DOMAIN r.v :
        r.v[f] \in {Nil, a[f]} \/ <<r.method, f>> \in Unfilled

LEMMA OrganizationTold ==
    ASSUME NEW r, r.method \in DOMAIN OrganizationFields,
           DOMAIN r.v \subseteq OrganizationFields[r.method],
           NEW es, \A e \in es : Shows(r, e), NEW a \in OrganizationAnswer(r.method, es)
    PROVE  Told(r, a)
<1>1. CASE r.method \in {"InitOrganization", "UpdateOrganization"}
  <2>1. PICK e \in es : a = toProtoOrg(entityToOrg(e))
    BY <1>1 DEF OrganizationAnswer
  <2>2. \A f \in {"name", "description", "contact_email", "logo_url"} :
           f \in DOMAIN r.v => r.v[f] \in {Nil, propStr(e.props, f)}
    BY <1>1 DEF Shows, Shared
  <2>3. DOMAIN r.v \subseteq {"name", "description", "contact_email", "logo_url"}
    BY <1>1 DEF OrganizationFields
  <2> QED BY <2>1, <2>2, <2>3, OrgMessage DEF Told
<1>2. CASE r.method \in {"GetOrganization", "DisableOrganization", "DeleteOrganization"}
  <2>1. DOMAIN r.v = {}
    BY <1>2 DEF OrganizationFields
  <2> QED BY <2>1 DEF Told
<1> QED BY <1>1, <1>2 DEF OrganizationFields

LEMMA UserTold ==
    ASSUME NEW r, r.method \in DOMAIN UserFields, DOMAIN r.v \subseteq UserFields[r.method],
           NEW es, \A e \in es : Shows(r, e), NEW a \in UserAnswer(r.method, r.v, es)
    PROVE  Told(r, a)
<1>1. CASE r.method = "InviteUser"
  <2>1. PICK e \in es : a = toProtoInvitation(entityToInvitation(e), "plaintext")
    BY <1>1 DEF UserAnswer
  <2>2. DOMAIN r.v \subseteq {"email", "display_name", "invited_by_user_id", "role_ids"}
    BY <1>1 DEF UserFields
  <2>3. DOMAIN a \intersect {"display_name", "invited_by_user_id", "role_ids"} = {}
    BY <2>1, InvitationMessage
  <2>4. <<r.method, "email">> \in Unfilled
    BY <1>1 DEF Unfilled
  <2> QED BY <2>2, <2>3, <2>4 DEF Told
<1>2. CASE r.method = "DeleteUser"
  <2>1. a = [agency_id |-> Agency, user_id |-> r.v.user_id]
    BY <1>2 DEF UserAnswer
  <2>2. DOMAIN r.v \subseteq {"user_id"}
    BY <1>2 DEF UserFields
  <2>3. a.user_id = r.v.user_id
    BY <2>1
  <2> QED BY <2>2, <2>3 DEF Told
<1>3. CASE r.method \in {"AcceptInvitation", "ListUsers", "GetUser", "SuspendUser", "ReactivateUser"}
  <2>1. PICK e \in es : a = toProtoUser(entityToUser(e))
    BY <1>3 DEF UserAnswer
  <2>2. DOMAIN a \intersect {"token", "status_filter"} = {} /\ a.user_id = e.id
    BY <2>1, UserMessage
  <2>3. CASE r.method \in {"AcceptInvitation", "ListUsers"}
    <3>1. DOMAIN r.v \subseteq {"token", "status_filter"}
      BY <2>3 DEF UserFields
    <3> QED BY <2>2, <3>1 DEF Told
  <2>4. CASE r.method \in {"GetUser", "SuspendUser", "ReactivateUser"}
    <3>1. DOMAIN r.v \subseteq {"user_id"}
      BY <2>4 DEF UserFields
    <3>2. r.v["user_id"] = e.id
      BY <2>4 DEF Shows, Key
    <3> QED BY <2>2, <3>1, <3>2 DEF Told
  <2> QED BY <1>3, <2>3, <2>4
<1> QED BY <1>1, <1>2, <1>3 DEF UserFields

LEMMA RoleScopeTold ==
    ASSUME NEW r, r.method \in DOMAIN RoleScopeFields,
           DOMAIN r.v \subseteq RoleScopeFields[r.method],
           NEW es, \A e \in es : Shows(r, e), NEW a \in RoleScopeAnswer(r.method, r.v, es)
    PROVE  Told(r, a)
<1>1. CASE r.method = "DeleteRole"
  <2>1. a = [agency_id |-> Agency, role_id |-> r.v.role_id]
    BY <1>1 DEF RoleScopeAnswer
  <2>2. DOMAIN r.v \subseteq {"role_id"}
    BY <1>1 DEF RoleScopeFields
  <2>3. a.role_id = r.v.role_id
    BY <2>1
  <2> QED BY <2>2, <2>3 DEF Told
<1>2. CASE r.method \in {"CreateRole", "UpdateRole"}
  <2>1. PICK e \in es : a = toProtoRole(entityToRole(e))
    BY <1>2 DEF RoleScopeAnswer
  <2>2. /\ \A f \in {"name", "display_name", "description"} : a[f] = propStr(e.props, f)
        /\ a.role_id = e.id
    BY <2>1, RoleMessage
  <2>3. CASE r.method = "CreateRole"
    <3>1. DOMAIN r.v \subseteq {"name", "display_name", "description"}
      BY <2>3 DEF RoleScopeFields
    <3>2. \A f \in {"name", "display_name", "description"} : r.v[f] \in {Nil, propStr(e.props, f)}
      BY <2>3 DEF Shows, Shared
    <3> QED BY <2>2, <3>1, <3>2 DEF Told
  <2>4. CASE r.method = "UpdateRole"
    <3>1. DOMAIN r.v \subseteq {"role_id", "display_name", "description"}
      BY <2>4 DEF RoleScopeFields
    <3>2. \A f \in {"display_name", "description"} : r.v[f] \in {Nil, propStr(e.props, f)}
      BY <2>4 DEF Shows, Shared
    <3>3. r.v["role_id"] = e.id
      BY <2>4 DEF Shows, Key
    <3> QED BY <2>2, <3>1, <3>2, <3>3 DEF Told
  <2> QED BY <1>2, <2>3, <2>4
<1>3. CASE r.method \in {"RegisterScope", "DeprecateScope"}
  <2>1. PICK e \in es : a = toProtoScope(entityToScope(e))
    BY <1>3 DEF RoleScopeAnswer
  <2>2. /\ \A f \in {"name", "registered_by", "description"} : a[f] = propStr(e.props, f)
        /\ a.scope_id = e.id
    BY <2>1, ScopeMessage
  <2>3. CASE r.method = "RegisterScope"
    <3>1. DOMAIN r.v \subseteq {"name", "registered_by", "description"}
      BY <2>3 DEF RoleScopeFields
    <3>2. \A f \in {"name", "registered_by", "description"} : r.v[f] \in {Nil, propStr(e.props, f)}
      BY <2>3 DEF Shows, Shared
    <3> QED BY <2>2, <3>1, <3>2 DEF Told
  <2>4. CASE r.method = "DeprecateScope"
    <3>1. DOMAIN r.v \subseteq {"scope_id"}
      BY <2>4 DEF RoleScopeFields
    <3>2. r.v["scope_id"] = e.id
      BY <2>4 DEF Shows, Key
    <3> QED BY <2>2, <3>1, <3>2 DEF Told
  <2> QED BY <1>3, <2>3, <2>4
<1>4. CASE r.method \in {"ListRoles", "ListScopes"}
  <2>1. DOMAIN r.v = {}
    BY <1>4 DEF RoleScopeFields
  <2> QED BY <2>1 DEF Told
<1> QED BY <1>1, <1>2, <1>3, <1>4 DEF RoleScopeFields

LEMMA MembershipTold ==
    ASSUME NEW r, r.method \in DOMAIN MembershipFields,
           DOMAIN r.v \subseteq MembershipFields[r.method],
           NEW es, \A e \in es : Shows(r, e), NEW a \in MembershipAnswer(es)
    PROVE  Told(r, a)
<1>1. PICK e \in es : a = toProtoMembership(entityToMembership(e))
  BY DEF MembershipAnswer
<1>2. a.granted_by = propStr(e.props, "granted_by") /\ a.membership_id = e.id
  BY <1>1, MembershipMessage
<1>3. CASE r.method = "GrantMembership"
  <2>1. DOMAIN r.v \subseteq {"user_id", "role_id", "granted_by"}
    BY <1>3 DEF MembershipFields
  <2>2. r.v["granted_by"] \in {Nil, propStr(e.props, "granted_by")}
    BY <1>3 DEF Shows, Shared
  <2>3. <<r.method, "user_id">> \in Unfilled /\ <<r.method, "role_id">> \in Unfilled
    BY <1>3 DEF Unfilled
  <2> QED BY <1>2, <2>1, <2>2, <2>3 DEF Told
<1>4. CASE r.method = "RevokeMembership"
  <2>1. DOMAIN r.v \subseteq {"membership_id"}
    BY <1>4 DEF MembershipFields
  <2>2. r.v["membership_id"] = e.id
    BY <1>4 DEF Shows, Key
  <2> QED BY <1>2, <2>1, <2>2 DEF Told
<1>5. CASE r.method = "ListMemberships"
  <2>1. DOMAIN r.v \subseteq {"user_id"}
    BY <1>5 DEF MembershipFields
  <2>2. <<r.method, "user_id">> \in Unfilled
    BY <1>5 DEF Unfilled
  <2> QED BY <2>1, <2>2 DEF Told
<1> QED BY <1>3, <1>4, <1>5 DEF MembershipFields

LEMMA ClientTold ==
    ASSUME NEW r, r.method \in DOMAIN ClientFields, DOMAIN r.v \subseteq ClientFields[r.method],
           NEW es, \A e \in es : Shows(r, e), NEW a \in ClientAnswer(r.method, r.v, es)
    PROVE  Told(r, a)
<1>1. CASE r.method = "CreateOAuthClient"
  <2>1. PICK e \in es : a = toProtoOAuthClient(entityToOAuthClient(e))
    BY <1>1 DEF ClientAnswer
  <2>2. /\ \A f \in {"name", "client_type", "description", "allowed_grant_types"} :
              a[f] = propStr(e.props, f)
        /\ DOMAIN a \intersect {"redirect_uris", "allowed_scope_ids"} = {}
    BY <2>1, ClientMessage
  <2>3. DOMAIN r.v \subseteq {"name", "client_type", "description", "allowed_grant_types",
                              "redirect_uris", "allowed_scope_ids"}
    BY <1>1 DEF ClientFields
  <2>4. \A f \in {"name", "client_type", "description", "allowed_grant_types"} :
           r.v[f] \in {Nil, propStr(e.props, f)}
    BY <1>1 DEF Shows, Shared
  <2> QED BY <2>2, <2>3, <2>4 DEF Told
<1>2. CASE r.method = "RotateClientSecret"
  BY <1>2 DEF ClientAnswer
<1>3. CASE r.method = "ListOAuthClients"
  <2>1. DOMAIN r.v = {}
    BY <1>3 DEF ClientFields
  <2> QED BY <2>1 DEF Told
<1>4. CASE r.method = "DeleteOAuthClient"
  <2>1. a = [agency_id |-> Agency, client_id |-> r.v.client_id]
    BY <1>4 DEF ClientAnswer
  <2>2. DOMAIN r.v \subseteq {"client_id"}
    BY <1>4 DEF ClientFields
  <2>3. a.client_id = r.v.client_id
    BY <2>1
  <2> QED BY <2>2, <2>3 DEF Told
<1> QED BY <1>1, <1>2, <1>3, <1>4 DEF ClientFields

\* An answer with entities that show what the request said shows it.
LEMMA AnswerTold ==
    ASSUME NEW r, Fielded(r), NEW es, \A e \in es : Shows(r, e),
           NEW a \in Answer(r.method, r.v, es)
    PROVE  Told(r, a)
<1>1. CASE r.method \in DOMAIN OrganizationFields
  <2>1. a \in OrganizationAnswer(r.method, es) /\ DOMAIN r.v \subseteq OrganizationFields[r.method]
    BY <1>1, AnswerIs, FieldsOf DEF Fielded
  <2> QED BY <1>1, <2>1, OrganizationTold
<1>2. CASE r.method \in DOMAIN UserFields
  <2>1. a \in UserAnswer(r.method, r.v, es) /\ DOMAIN r.v \subseteq UserFields[r.method]
    BY <1>2, AnswerIs, FieldsOf DEF Fielded
  <2> QED BY <1>2, <2>1, UserTold
<1>3. CASE r.method \in DOMAIN RoleScopeFields
  <2>1. a \in RoleScopeAnswer(r.method, r.v, es) /\ DOMAIN r.v \subseteq RoleScopeFields[r.method]
    BY <1>3, AnswerIs, FieldsOf DEF Fielded
  <2> QED BY <1>3, <2>1, RoleScopeTold
<1>4. CASE r.method \in DOMAIN MembershipFields
  <2>1. a \in MembershipAnswer(es) /\ DOMAIN r.v \subseteq MembershipFields[r.method]
    BY <1>4, AnswerIs, FieldsOf DEF Fielded
  <2> QED BY <1>4, <2>1, MembershipTold
<1>5. CASE r.method \in DOMAIN ClientFields
  <2>1. a \in ClientAnswer(r.method, r.v, es) /\ DOMAIN r.v \subseteq ClientFields[r.method]
    BY <1>5, AnswerIs, FieldsOf DEF Fielded
  <2> QED BY <1>5, <2>1, ClientTold
<1>6. CASE r.method \in DOMAIN ProtocolFields
  <2>1. r.method = "Revoke" /\ a = [agency_id |-> Agency]
    BY <1>6, AnswerIs DEF ProtocolAnswer
  <2>2. DOMAIN r.v \subseteq {"token", "reason"}
    BY <1>6, <2>1, OtherFieldsOf DEF Fielded, ProtocolFields
  <2> QED BY <2>1, <2>2 DEF Told
<1>7. CASE r.method \in DOMAIN AuditFields
  <2>1. PICK e \in es : a = toProtoAuditEvent(entityToAuditEvent(e))
    BY <1>7, AnswerIs DEF AuditAnswer
  <2>2. DOMAIN r.v \subseteq {"event_type_filter", "actor_id_filter", "subject_id_filter"}
    BY <1>7, OtherFieldsOf DEF Fielded, AuditFields
  <2> QED BY <2>1, <2>2, EventMessage DEF Told
<1> QED BY <1>1, <1>2, <1>3, <1>4, <1>5, <1>6, <1>7, MethodsOf DEF Fielded

-----------------------------------------------------------------------------
(* The entities and the steps that the functions of the manager leave *)

ShowsAll(r, steps) == \A k \in 1..Len(steps) : ShowsStep(r, steps[k])

\* What a function is to leave: entities and steps that show what the request says.
Revealing(r, p) == (\A e \in p.es : Shows(r, e)) /\ ShowsAll(r, p.steps)

LEMMA NoneShows == ASSUME NEW r PROVE ShowsAll(r, <<>>) /\ ShowsAll(r, <<>>)'
BY DEF ShowsAll

LEMMA OneShows == ASSUME NEW r, NEW s, ShowsStep(r, s) PROVE ShowsAll(r, <<s>>)
<1>1. PICK steps : steps = <<s>>
  OBVIOUS
<1>2. \A k \in 1..Len(steps) : steps[k] = s
  BY <1>1
<1> QED BY <1>1, <1>2 DEF ShowsAll

LEMMA JoinShows ==
    ASSUME NEW r, NEW a, NEW b, IsSteps(a), IsSteps(b), ShowsAll(r, a), ShowsAll(r, b)
    PROVE  ShowsAll(r, a \o b)
BY JoinedAt DEF ShowsAll

\* A request that says nothing which its answer has in the same fields.
LEMMA MuteShows ==
    ASSUME NEW r, r.method \notin DOMAIN Shared \union DOMAIN Key
    PROVE  /\ \A e : Shows(r, e)
           /\ \A s : ShowsStep(r, s)
           /\ \A steps : ShowsAll(r, steps)
BY DEF Shows, ShowsPatched, ShowsStep, ShowsAll

LEMMA CreateShows ==
    ASSUME NEW r, NEW id, NEW type, NEW props,
           r.method \in DOMAIN Shared => \A f \in Shared[r.method] : f \in DOMAIN props /\ props[f] = r.v[f],
           r.method \notin DOMAIN Key
    PROVE  ShowsAll(r, <<Shown(Create(id, type, props))>>)
<1> DEFINE s == Shown(Create(id, type, props))
<1>1. s.do = "create" /\ s.entity.props = props
  BY DEF Create, Shown, Entity
<1> HIDE DEF s
<1>2. Shows(r, s.entity)
  BY <1>1 DEF Shows, propStr
<1>3. ShowsAll(r, <<s>>)
  BY <1>1, <1>2, OneShows DEF ShowsStep
<1> QED BY <1>3 DEF s

LEMMA PatchShows ==
    ASSUME NEW r, NEW id, NEW props, ShowsPatched(r, id, props)
    PROVE  ShowsAll(r, <<Shown(Patch(id, props))>>)
<1> DEFINE s == Shown(Patch(id, props))
<1>1. s.do = "patch" /\ s.id = id /\ s.props = props
  BY DEF Patch, Shown
<1> HIDE DEF s
<1>2. ShowsAll(r, <<s>>)
  BY <1>1, OneShows DEF ShowsStep
<1> QED BY <1>2 DEF s

\* Only the steps marked so are shown.
LEMMA UnshownStep ==
    /\ \A r, id, type, props : ShowsStep(r, Create(id, type, props))
    /\ \A r, s : s.do \notin {"create", "patch"} => ShowsStep(r, s)
<1>1. \A id, type, props : Create(id, type, props).do = "create" /\ Create(id, type, props).shown = FALSE
  BY DEF Create
<1> QED BY <1>1 DEF ShowsStep

LEMMA UpdateOrganizationShows ==
    ASSUME NEW v, DOMAIN v = OrganizationFields["UpdateOrganization"], NEW o,
           NEW p \in UpdateOrganization(v, o)
    PROVE  Revealing([method |-> "UpdateOrganization", v |-> v], p)
<1> DEFINE r == [method |-> "UpdateOrganization", v |-> v]
           props == Given(v, DOMAIN v) ++ Now
<1>1. p.es = {} /\ (p.steps = <<>> \/ \E i : p.steps = <<Shown(Patch(i, props))>>)
  BY DEF UpdateOrganization, WithOrganization, First, Refuse, Proceed
<1>2. ASSUME NEW i PROVE ShowsPatched(r, i, props)
  <2>1. \A f \in DOMAIN v : v[f] = Nil \/ (f \in DOMAIN props /\ props[f] = v[f])
    BY DEF Given, ++
  <2>2. /\ Shared[r.method] = DOMAIN v /\ r.method \in DOMAIN Shared
        /\ r.method \notin DOMAIN Key /\ r.v = v
    BY DEF Shared, Key, OrganizationFields
  <2> HIDE DEF r, props
  <2> QED BY <2>1, <2>2 DEF ShowsPatched
<1> HIDE DEF r, props
<1>3. Revealing(r, p)
  BY <1>1, <1>2, PatchShows, NoneShows DEF Revealing
<1> QED BY <1>3 DEF r

LEMMA CreateRoleShows ==
    ASSUME NEW v, DOMAIN v = RoleScopeFields["CreateRole"], NEW o, NEW ids,
           NEW p \in CreateRole(v, o, ids)
    PROVE  Revealing([method |-> "CreateRole", v |-> v], p)
<1> DEFINE r == [method |-> "CreateRole", v |-> v]
           props == [builtin |-> "false"] ++ v ++ New
<1>1. p.es = {} /\ (p.steps = <<>> \/ p.steps = <<Shown(Create(ids[1], "Role", props))>>)
  BY DEF CreateRole, None, Refuse, Proceed
<1>2. \A f \in Shared["CreateRole"] : f \in DOMAIN props /\ props[f] = v[f]
  BY DEF Shared, RoleScopeFields, ++
<1>3. r.method = "CreateRole" /\ r.v = v /\ r.method \notin DOMAIN Key
  BY DEF Key
<1> HIDE DEF r, props
<1>4. ShowsAll(r, <<Shown(Create(ids[1], "Role", props))>>)
  BY <1>2, <1>3, CreateShows
<1>5. Revealing(r, p)
  BY <1>1, <1>4, NoneShows DEF Revealing
<1> QED BY <1>5 DEF r

LEMMA UpdateRoleShows ==
    ASSUME Stored, NEW v, NEW o, NEW p \in UpdateRole(v, o)
    PROVE  Revealing([method |-> "UpdateRole", v |-> v], p)
<1> DEFINE r == [method |-> "UpdateRole", v |-> v]
           props == Given(v, {"display_name", "description"}) ++ Now
<1>1. /\ p.es = {}
      /\ \/ p.steps = <<>>
         \/ /\ v.role_id \in EntityIds /\ entity[v.role_id].live
            /\ p.steps = <<Shown(Patch(entity[v.role_id].id, props))>>
  BY DEF UpdateRole, WithCustomRole, Get, Refuse, Proceed
<1>2. ShowsPatched(r, v.role_id, props)
  <2>1. \A f \in {"display_name", "description"} :
           v[f] = Nil \/ (f \in DOMAIN props /\ props[f] = v[f])
    BY DEF Given, ++
  <2>2. /\ Shared[r.method] = {"display_name", "description"} /\ r.method \in DOMAIN Shared
        /\ Key[r.method] = "role_id" /\ r.v = v
    BY DEF Shared, Key
  <2> HIDE DEF r, props
  <2> QED BY <2>1, <2>2 DEF ShowsPatched
<1> HIDE DEF r, props
<1>3. Revealing(r, p)
  BY <1>1, <1>2, GotExists, PatchShows, NoneShows DEF Revealing
<1> QED BY <1>3 DEF r

LEMMA RegisterScopeShows ==
    ASSUME Stored, NEW v, DOMAIN v = RoleScopeFields["RegisterScope"], NEW o, NEW ids,
           NEW p \in RegisterScope(v, o, ids)
    PROVE  Revealing([method |-> "RegisterScope", v |-> v], p)
<1> DEFINE r == [method |-> "RegisterScope", v |-> v]
           props == [description |-> v.description, deprecated_at |-> Nil] ++ Now
           made == v ++ New
<1>1. /\ p.es = {}
      /\ \/ p.steps = <<>> \/ p.steps = <<Shown(Create(ids[1], "Scope", made))>>
         \/ \E e \in With("Scope", "name", v.name) :
               /\ propStr(e.props, "registered_by") = v.registered_by
               /\ p.steps = <<Shown(Patch(e.id, props))>>
  BY DEF RegisterScope, First, None, Refuse, Proceed
<1>2. /\ Shared[r.method] = {"name", "registered_by", "description"} /\ r.method \in DOMAIN Shared
      /\ r.method \notin DOMAIN Key /\ r.v = v
  BY DEF Shared, Key
<1>3. \A f \in {"name", "registered_by", "description"} : f \in DOMAIN made /\ made[f] = v[f]
  BY DEF RoleScopeFields, ++
<1>4. /\ "description" \in DOMAIN props /\ props["description"] = v["description"]
      /\ "name" \notin DOMAIN props /\ "registered_by" \notin DOMAIN props
  BY DEF Now, ++
<1> HIDE DEF r, props, made
<1>5. ASSUME NEW e \in With("Scope", "name", v.name),
             propStr(e.props, "registered_by") = v.registered_by
      PROVE  ShowsPatched(r, e.id, props)
  <2>1. IsOf(e.id, "Scope") /\ entity[e.id] = e
    BY WithExists DEF IsOf
  <2>2. propStr(e.props, "name") = v["name"] /\ propStr(e.props, "registered_by") = v["registered_by"]
    BY <1>5 DEF With
  <2>3. {"name", "registered_by"} \subseteq Types["Scope"].required
    BY TypeKinds DEF Kind
  <2> QED BY <1>2, <1>4, <2>1, <2>2, <2>3 DEF ShowsPatched
<1>6. Revealing(r, p)
  <2>1. ShowsAll(r, <<Shown(Create(ids[1], "Scope", made))>>)
    BY <1>2, <1>3, CreateShows
  <2> QED BY <1>1, <1>5, <2>1, PatchShows, NoneShows DEF Revealing
<1> QED BY <1>6 DEF r

LEMMA DeprecateScopeShows ==
    ASSUME Stored, NEW v, NEW o, NEW p \in DeprecateScope(v, o)
    PROVE  Revealing([method |-> "DeprecateScope", v |-> v], p)
<1> DEFINE r == [method |-> "DeprecateScope", v |-> v]
           props == [deprecated_at |-> Instant] ++ Now
<1>1. /\ p.es = {}
      /\ \/ p.steps = <<>>
         \/ /\ v.scope_id \in EntityIds /\ entity[v.scope_id].live
            /\ p.steps = <<Shown(Patch(entity[v.scope_id].id, props))>>
  BY DEF DeprecateScope, Get, Refuse, Proceed
<1>2. ShowsPatched(r, v.scope_id, props)
  BY DEF Shared, Key, ShowsPatched
<1> HIDE DEF r, props
<1>3. Revealing(r, p)
  BY <1>1, <1>2, GotExists, PatchShows, NoneShows DEF Revealing
<1> QED BY <1>3 DEF r

LEMMA RevokeMembershipShows ==
    ASSUME Stored, NEW v, NEW o, NEW p \in RevokeMembership(v, o)
    PROVE  Revealing([method |-> "RevokeMembership", v |-> v], p)
<1> DEFINE r == [method |-> "RevokeMembership", v |-> v]
           props == [revoked_at |-> Instant]
<1>1. /\ p.es = {}
      /\ \/ p.steps = <<>>
         \/ /\ v.membership_id \in EntityIds /\ entity[v.membership_id].live
            /\ p.steps = <<Shown(Patch(entity[v.membership_id].id, props))>>
  BY DEF RevokeMembership, Get, Refuse, Proceed
<1>2. ShowsPatched(r, v.membership_id, props)
  BY DEF Shared, Key, ShowsPatched
<1> HIDE DEF r, props
<1>3. Revealing(r, p)
  BY <1>1, <1>2, GotExists, PatchShows, NoneShows DEF Revealing
<1> QED BY <1>3 DEF r

LEMMA GetUserShows ==
    ASSUME Stored, NEW v, NEW o, NEW p \in GetUser(v, o, LAMBDA e : Proceed(<<>>, {e}))
    PROVE  Revealing([method |-> "GetUser", v |-> v], p)
<1> DEFINE r == [method |-> "GetUser", v |-> v]
<1>1. /\ p.steps = <<>>
      /\ \/ p.es = {}
         \/ v.user_id \in EntityIds /\ entity[v.user_id].live /\ p.es = {entity[v.user_id]}
  BY DEF GetUser, Get, Refuse, Proceed
<1>2. \A e : e.id = v.user_id => Shows(r, e)
  BY DEF Shared, Key, Shows
<1> HIDE DEF r
<1>3. Revealing(r, p)
  BY <1>1, <1>2, GotExists, NoneShows DEF Revealing
<1> QED BY <1>3 DEF r

LEMMA ChangeUserShows ==
    ASSUME Stored, NEW m \in {"SuspendUser", "ReactivateUser"}, NEW v, NEW o, NEW props,
           NEW p \in ChangeUser(v, o, props)
    PROVE  Revealing([method |-> m, v |-> v], p)
<1> DEFINE r == [method |-> m, v |-> v]
           new == props ++ Now
<1>1. /\ p.es = {}
      /\ \/ p.steps = <<>>
         \/ /\ v.user_id \in EntityIds /\ entity[v.user_id].live
            /\ p.steps = <<Shown(Patch(entity[v.user_id].id, new))>>
  BY DEF ChangeUser, GetUser, Get, Refuse, Proceed
<1>2. ShowsPatched(r, v.user_id, new)
  BY DEF Shared, Key, ShowsPatched
<1> HIDE DEF r, new
<1>3. ShowsAll(r, <<Shown(Patch(v.user_id, new))>>)
  BY <1>2, PatchShows
<1>4. p.es = {} /\ (p.steps = <<>> \/ p.steps = <<Shown(Patch(v.user_id, new))>>)
  BY <1>1, GotExists
<1>5. Revealing(r, p)
  BY <1>3, <1>4, NoneShows DEF Revealing
<1> QED BY <1>5 DEF r

LEMMA GrantMembershipShows ==
    ASSUME NEW v, NEW ids, NEW p \in GrantMembership(v, ids)
    PROVE  Revealing([method |-> "GrantMembership", v |-> v], p)
<1> DEFINE r == [method |-> "GrantMembership", v |-> v]
           props == [granted_at |-> Instant, granted_by |-> v.granted_by] ++ Owned
           new == Shown(Create(ids[1], "Membership", props))
           has == Relate(v.user_id, "has_membership", ids[1])
           grants == Relate(ids[1], "grants_role", v.role_id)
<1>1. p.es = {} /\ p.steps = <<new, has, grants>>
  BY DEF GrantMembership, Proceed
<1>2. has.do = "relate" /\ grants.do = "relate"
  BY DEF Relate
<1>3. new.do = "create" /\ new.entity.props = props
  BY DEF Create, Shown, Entity
<1>4. "granted_by" \in DOMAIN props /\ props["granted_by"] = v["granted_by"]
  BY DEF ++
<1>5. /\ r.method \in DOMAIN Shared /\ Shared[r.method] = {"granted_by"} /\ r.v = v
      /\ r.method \notin DOMAIN Key
  BY DEF Shared, Key
<1> HIDE DEF r, props, new, has, grants
<1>6. Shows(r, new.entity)
  BY <1>3, <1>4, <1>5 DEF Shows, propStr
<1>7. ShowsStep(r, new) /\ ShowsStep(r, has) /\ ShowsStep(r, grants)
  BY <1>2, <1>3, <1>6 DEF ShowsStep
<1>8. PICK steps : steps = p.steps
  OBVIOUS
<1>9. Len(steps) = 3 /\ steps[1] = new /\ steps[2] = has /\ steps[3] = grants
  BY <1>1, <1>8
<1>10. ShowsAll(r, steps)
  <2>1. \A k \in 1..3 : k = 1 \/ k = 2 \/ k = 3
    OBVIOUS
  <2> QED BY <1>7, <1>9, <2>1 DEF ShowsAll
<1>11. Revealing(r, p)
  BY <1>1, <1>8, <1>10 DEF Revealing
<1> QED BY <1>11 DEF r

LEMMA SecretShows ==
    ASSUME NEW r, NEW client, NEW id
    PROVE  ShowsAll(r, Secret(client, id)) /\ IsSteps(Secret(client, id))
<1> DEFINE new == Create(id, "ClientSecret", [secret_hash |-> "phc", created_at |-> Instant] ++ Owned)
           has == Relate(client, "has_client_secret", id)
<1>1. Secret(client, id) = <<Hash, new, has>>
  BY DEF Secret
<1>2. ShowsStep(r, Hash) /\ ShowsStep(r, new) /\ ShowsStep(r, has)
  <2>1. Hash.do = "hash" /\ has.do = "relate"
    BY DEF Hash, Relate
  <2>2. ShowsStep(r, new)
    BY UnshownStep
  <2> HIDE DEF new, has
  <2> QED BY <2>1, <2>2, UnshownStep
<1> HIDE DEF new, has
<1>3. PICK steps : steps = <<Hash, new, has>>
  OBVIOUS
<1>4. Len(steps) = 3 /\ steps[1] = Hash /\ steps[2] = new /\ steps[3] = has
  BY <1>3
<1>5. ShowsAll(r, steps)
  <2>1. \A k \in 1..3 : k = 1 \/ k = 2 \/ k = 3
    OBVIOUS
  <2> QED BY <1>2, <1>4, <2>1 DEF ShowsAll
<1> QED BY <1>1, <1>3, <1>5, ShortSteps

LEMMA CreateOAuthClientShows ==
    ASSUME NEW v, NEW ids, NEW p \in CreateOAuthClient(v, ids)
    PROVE  Revealing([method |-> "CreateOAuthClient", v |-> v], p)
<1> DEFINE r == [method |-> "CreateOAuthClient", v |-> v]
           texts == {"name", "client_type", "description", "allowed_grant_types"}
           props == [k \in texts |-> v[k]] ++ [client_id |-> ids[4]] ++ New
           client == Shown(Create(ids[1], "OAuthClient", props))
           uri == Create(ids[2], "RedirectURI",
                         [uri |-> v.redirect_uris, created_at |-> Instant] ++ Owned)
           has == Relate(ids[1], "has_redirect_uri", ids[2])
           uris == IF v.redirect_uris = Nil THEN <<>> ELSE <<uri, has>>
           scopes == IF v.allowed_scope_ids = Nil THEN <<>>
                     ELSE <<Relate(ids[1], "allows_scope", v.allowed_scope_ids)>>
           secret == IF v.client_type = "confidential" THEN Secret(ids[1], ids[3]) ELSE <<>>
<1>1. p = Proceed(<<client>> \o uris \o scopes \o secret, {})
  BY Zenon DEF CreateOAuthClient
<1>2. \A f \in texts : f \in DOMAIN props /\ props[f] = v[f]
  BY DEF ++
<1>3. /\ r.method \in DOMAIN Shared /\ Shared[r.method] = texts /\ r.v = v
      /\ r.method \notin DOMAIN Key
  BY DEF Shared, Key
<1>4. ShowsAll(r, uris) /\ IsSteps(uris)
  <2>1. ShowsStep(r, uri)
    BY UnshownStep
  <2>2. has.do = "relate"
    BY DEF Relate
  <2> HIDE DEF r, uri, has
  <2>3. PICK steps : steps = <<uri, has>>
    OBVIOUS
  <2>4. Len(steps) = 2 /\ steps[1] = uri /\ steps[2] = has
    BY <2>3
  <2>5. ShowsStep(r, has)
    BY <2>2, UnshownStep
  <2>6. ShowsAll(r, steps)
    <3>1. \A k \in 1..2 : k = 1 \/ k = 2
      OBVIOUS
    <3> QED BY <2>1, <2>4, <2>5, <3>1 DEF ShowsAll
  <2> QED BY <2>3, <2>6, NoneShows, ShortSteps
<1>5. ShowsAll(r, scopes) /\ IsSteps(scopes)
  <2> DEFINE allows == Relate(ids[1], "allows_scope", v.allowed_scope_ids)
  <2>1. allows.do = "relate"
    BY DEF Relate
  <2> HIDE DEF r, allows
  <2>2. ShowsAll(r, <<allows>>) /\ IsSteps(<<allows>>)
    BY <2>1, UnshownStep, OneShows, ShortSteps
  <2> QED BY <2>2, NoneShows, ShortSteps DEF allows
<1>6. ShowsAll(r, secret) /\ IsSteps(secret)
  <2> HIDE DEF r
  <2> QED BY SecretShows, NoneShows, ShortSteps
<1> HIDE DEF r, texts, props
<1>7. ShowsAll(r, <<client>>) /\ IsSteps(<<client>>)
  <2>1. ShowsAll(r, <<Shown(Create(ids[1], "OAuthClient", props))>>)
    BY <1>2, <1>3, CreateShows
  <2> QED BY <2>1, ShortSteps
<1> HIDE DEF client, uris, scopes, secret
<1>8. ShowsAll(r, <<client>> \o uris) /\ IsSteps(<<client>> \o uris)
  BY <1>4, <1>7, JoinShows, JoinedAt
<1>9. ShowsAll(r, <<client>> \o uris \o scopes) /\ IsSteps(<<client>> \o uris \o scopes)
  BY <1>5, <1>8, JoinShows, JoinedAt
<1>10. ShowsAll(r, <<client>> \o uris \o scopes \o secret)
  BY <1>6, <1>9, JoinShows
<1>11. Revealing(r, p)
  BY <1>1, <1>10 DEF Revealing, Proceed
<1> QED BY <1>11 DEF r

LEMMA SeedBuiltinsShows ==
    ASSUME NEW r, NEW ids
    PROVE  ShowsAll(r, SeedBuiltins(ids)) /\ IsSteps(SeedBuiltins(ids))
<1> DEFINE n == Len(Builtins)
           s == SeedBuiltins(ids)
           nth(j) == (j + 1) \div 2
           props(k) == [name |-> Builtins[k], builtin |-> "true", display_name |-> "Builtin"] ++ New
           step(j) == IF j % 2 = 1 THEN Unless(Builtins[nth(j)])
                      ELSE Create(ids[nth(j) + 1], "Role", props(nth(j)))
<1>1. 2 * n \in Nat
  BY FreshAssumption
<1>2. s = [j \in 1..(2 * n) |-> step(j)]
  BY DEF SeedBuiltins
<1>3. \A j : ShowsStep(r, step(j))
  <2>1. \A name : Unless(name).do = "unless"
    BY DEF Unless
  <2>2. \A j : ShowsStep(r, Create(ids[nth(j) + 1], "Role", props(nth(j))))
    BY UnshownStep
  <2>3. \A j : ShowsStep(r, Unless(Builtins[nth(j)]))
    <3> HIDE DEF nth
    <3> QED BY <2>1, UnshownStep
  <2> HIDE DEF props, nth
  <2> QED BY <2>2, <2>3
<1> HIDE DEF step
<1>4. s \in Seq({step(j) : j \in 1..(2 * n)}) /\ Len(s) = 2 * n /\ \A j \in 1..Len(s) : s[j] = step(j)
  <2> DEFINE S == {step(j) : j \in 1..(2 * n)}
  <2>1. s \in [1..(2 * n) -> S]
    BY <1>2
  <2>2. s \in Seq(S)
    <3> HIDE DEF S, s
    <3> QED BY <1>1, <2>1, SeqDef
  <2>3. Len(s) = 2 * n
    BY <1>1, <2>1
  <2> QED BY <1>2, <2>2, <2>3
<1> HIDE DEF s
<1>5. ShowsAll(r, s) /\ IsSteps(s)
  BY <1>3, <1>4, ListSteps DEF ShowsAll
<1> QED BY <1>5 DEF s

LEMMA InitOrganizationShows ==
    ASSUME NEW v, DOMAIN v = OrganizationFields["InitOrganization"], NEW o, NEW ids,
           NEW p \in InitOrganization(v, o, ids)
    PROVE  Revealing([method |-> "InitOrganization", v |-> v], p)
<1> DEFINE r == [method |-> "InitOrganization", v |-> v]
           props == [enabled |-> "true"] ++ v ++ New
           new == Shown(Create(ids[1], "Organization", props))
<1>1. p.es = {} /\ (p.steps = <<>> \/ p.steps = <<new>> \o SeedBuiltins(ids))
  BY DEF InitOrganization, None, Refuse, Proceed
<1>2. \A f \in Shared["InitOrganization"] : f \in DOMAIN props /\ props[f] = v[f]
  BY DEF Shared, OrganizationFields, ++
<1>3. r.method = "InitOrganization" /\ r.v = v /\ r.method \notin DOMAIN Key
  BY DEF Key
<1> HIDE DEF r, props
<1>4. ShowsAll(r, <<new>>) /\ IsSteps(<<new>>)
  <2>1. ShowsAll(r, <<Shown(Create(ids[1], "Organization", props))>>)
    BY <1>2, <1>3, CreateShows
  <2> QED BY <2>1, ShortSteps
<1> HIDE DEF new
<1>5. ShowsAll(r, <<new>> \o SeedBuiltins(ids))
  BY <1>4, SeedBuiltinsShows, JoinShows
<1>6. Revealing(r, p)
  BY <1>1, <1>5, NoneShows DEF Revealing
<1> QED BY <1>6 DEF r

\* A request has the fields of its method.
LEMMA RequestFielded ==
    ASSUME NEW c \in Calls, NEW m \in DOMAIN Bodies[c], NEW body \in Bodies[c][m], NEW id
    PROVE  Fielded([method |-> m, v |-> Request(m, body, id)])
<1>1. m \in Methods /\ DOMAIN body \subseteq Fields[m]
  BY OrgApiAssumption, BodiesAssumption
<1>2. CASE m \in DOMAIN Routes
  BY <1>1, <1>2, Requested DEF Fielded
<1>3. CASE m \notin DOMAIN Routes
  BY <1>1, <1>3 DEF Fielded, Request, OAuthMethods
<1> QED BY <1>2, <1>3

\* Whatever is called, what its function leaves shows what the request says.
LEMMA ManagerShows ==
    ASSUME Stored, NEW c \in Calls, NEW m \in DOMAIN Bodies[c],
           NEW body \in Bodies[c][m], NEW id, NEW o,
           NEW p \in Manager(m, Request(m, body, id), o, Fresh[c])
    PROVE  Revealing([method |-> m, v |-> Request(m, body, id)], p)
<1> DEFINE v == Request(m, body, id)
           r == [method |-> m, v |-> v]
<1>1. CASE m = "InitOrganization"
  <2>1. p \in InitOrganization(v, o, Fresh[c])
    BY <1>1 DEF Manager
  <2>2. DOMAIN v = OrganizationFields["InitOrganization"]
    <3>1. Fields[m] = OrganizationFields[m] /\ m \in DOMAIN Routes
      BY <1>1, FieldsOf DEF OrganizationFields, Routes
    <3> QED BY <1>1, <3>1, Requested
  <2> QED BY <1>1, <2>1, <2>2, InitOrganizationShows
<1>2. CASE m = "UpdateOrganization"
  <2>1. p \in UpdateOrganization(v, o)
    BY <1>2 DEF Manager
  <2>2. DOMAIN v = OrganizationFields["UpdateOrganization"]
    <3>1. Fields[m] = OrganizationFields[m] /\ m \in DOMAIN Routes
      BY <1>2, FieldsOf DEF OrganizationFields, Routes
    <3> QED BY <1>2, <3>1, Requested
  <2> QED BY <1>2, <2>1, <2>2, UpdateOrganizationShows
<1>3. CASE m = "CreateRole"
  <2>1. p \in CreateRole(v, o, Fresh[c])
    BY <1>3 DEF Manager
  <2>2. DOMAIN v = RoleScopeFields["CreateRole"]
    <3>1. Fields[m] = RoleScopeFields[m] /\ m \in DOMAIN Routes
      BY <1>3, FieldsOf DEF RoleScopeFields, Routes
    <3> QED BY <1>3, <3>1, Requested
  <2> QED BY <1>3, <2>1, <2>2, CreateRoleShows
<1>4. CASE m = "UpdateRole"
  <2>1. p \in UpdateRole(v, o)
    BY <1>4 DEF Manager
  <2> QED BY <1>4, <2>1, UpdateRoleShows
<1>5. CASE m = "RegisterScope"
  <2>1. p \in RegisterScope(v, o, Fresh[c])
    BY <1>5 DEF Manager
  <2>2. DOMAIN v = RoleScopeFields["RegisterScope"]
    <3>1. Fields[m] = RoleScopeFields[m] /\ m \in DOMAIN Routes
      BY <1>5, FieldsOf DEF RoleScopeFields, Routes
    <3> QED BY <1>5, <3>1, Requested
  <2> QED BY <1>5, <2>1, <2>2, RegisterScopeShows
<1>6. CASE m = "DeprecateScope"
  <2>1. p \in DeprecateScope(v, o)
    BY <1>6 DEF Manager
  <2> QED BY <1>6, <2>1, DeprecateScopeShows
<1>7. CASE m = "GrantMembership"
  <2>1. p \in GrantMembership(v, Fresh[c])
    BY <1>7 DEF Manager
  <2> QED BY <1>7, <2>1, GrantMembershipShows
<1>8. CASE m = "RevokeMembership"
  <2>1. p \in RevokeMembership(v, o)
    BY <1>8 DEF Manager
  <2> QED BY <1>8, <2>1, RevokeMembershipShows
<1>9. CASE m = "CreateOAuthClient"
  <2>1. p \in CreateOAuthClient(v, Fresh[c])
    BY <1>9 DEF Manager
  <2> QED BY <1>9, <2>1, CreateOAuthClientShows
<1>10. CASE m = "GetUser"
  <2>1. p \in GetUser(v, o, LAMBDA e : Proceed(<<>>, {e}))
    BY <1>10 DEF Manager
  <2> QED BY <1>10, <2>1, GetUserShows
<1>11. CASE m = "SuspendUser"
  <2>1. p \in ChangeUser(v, o, [status |-> "suspended"])
    BY <1>11 DEF Manager
  <2> QED BY <1>11, <2>1, ChangeUserShows
<1>12. CASE m = "ReactivateUser"
  <2>1. p \in ChangeUser(v, o, [status |-> "active"])
    BY <1>12 DEF Manager
  <2> QED BY <1>12, <2>1, ChangeUserShows
<1>13. CASE m \notin DOMAIN Shared \union DOMAIN Key
  <2>1. r.method \notin DOMAIN Shared \union DOMAIN Key
    BY <1>13
  <2> HIDE DEF r
  <2>2. Revealing(r, p)
    BY <2>1, MuteShows DEF Revealing
  <2> QED BY <2>2 DEF r
<1>14. DOMAIN Shared \union DOMAIN Key =
          {"InitOrganization", "UpdateOrganization", "CreateRole", "UpdateRole", "RegisterScope",
           "GrantMembership", "CreateOAuthClient", "GetUser", "SuspendUser", "ReactivateUser",
           "DeprecateScope", "RevokeMembership"}
  BY DEF Shared, Key
<1> QED BY <1>1, <1>2, <1>3, <1>4, <1>5, <1>6, <1>7, <1>8, <1>9, <1>10, <1>11, <1>12, <1>13, <1>14

-----------------------------------------------------------------------------
(* What a step leaves of a scope *)

\* A scope stays a scope, and keeps what its type requires.
Steady ==
    \A i : IsOf(i, "Scope") =>
        /\ IsOf(i, "Scope")'
        /\ \A f \in Types["Scope"].required : propStr(entity'[i].props, f) = propStr(entity[i].props, f)

LEMMA NextSteady == Wired /\ Grown /\ [Next]_vars => Steady
<1> SUFFICES ASSUME Wired, Grown, [Next]_vars, NEW i, IsOf(i, "Scope")
             PROVE  /\ IsOf(i, "Scope")'
                    /\ \A f \in Types["Scope"].required :
                          propStr(entity'[i].props, f) = propStr(entity[i].props, f)
  BY DEF Steady
<1>1. IsOf(i, "Scope")'
  BY IsOfKept
<1>2. Wired' /\ [OwnersStep]_vars
  BY NextWired, NextOwned
<1>3. i \in EntityIds /\ entity[i] # NoEntity /\ entity[i].type = "Scope"
      /\ entity'[i] # NoEntity /\ entity'[i].type = "Scope"
  BY <1>1 DEF IsOf, Exists
<1>4. Proper("Scope", entity[i].props) /\ Proper("Scope", entity'[i].props)
  BY <1>2, <1>3 DEF Wired, Stored, WellFormed
<1>5. ASSUME NEW f \in Types["Scope"].required
      PROVE  propStr(entity'[i].props, f) = propStr(entity[i].props, f)
  <2>1. f \in DOMAIN entity[i].props /\ f \in DOMAIN entity'[i].props
    BY <1>4 DEF Proper
  <2>2. CASE entity'[i] = entity[i]
    BY <2>2
  <2>3. CASE entity'[i] # entity[i]
    <3>1. OwnersStep /\ i \in Changed
      BY <1>2, <1>3, <2>3 DEF Changed, vars, store
    <3>2. entity'[i].props[f] = entity[i].props[f]
      BY <1>3, <2>1, <3>1 DEF OwnersStep
    <3> QED BY <2>1, <3>2 DEF propStr
  <2> QED BY <2>2, <2>3
<1> QED BY <1>1, <1>5

LEMMA ShowsKept == ASSUME Steady, NEW r, NEW s, ShowsStep(r, s) PROVE ShowsStep(r, s)'
<1>1. ASSUME NEW i, NEW props, ShowsPatched(r, i, props) PROVE ShowsPatched(r, i, props)'
  <2>1. \A f : /\ f \in Types["Scope"].required /\ IsOf(i, "Scope")
               /\ propStr(entity[i].props, f) = r.v[f]
               => IsOf(i, "Scope")' /\ propStr(entity'[i].props, f) = r.v[f]
    BY DEF Steady
  <2> QED BY <1>1, <2>1 DEF ShowsPatched
<1> QED BY <1>1 DEF ShowsStep, Shows

LEMMA AllShowsKept == ASSUME Steady, NEW r, NEW steps, ShowsAll(r, steps) PROVE ShowsAll(r, steps)'
BY ShowsKept DEF ShowsAll

-----------------------------------------------------------------------------
(* What every call has shown, and has still to show *)

\* Every call that was answered shows its request; and so will every one that was not, with
\* the entities it holds already and with those that its steps are still to give it.
Showing ==
    /\ \A c \in Calls : \A r \in {req[c]} : \A a \in answer[c] : Told(r, a)
    /\ \A c \in Calls : \A r \in {req[c]}, steps \in {todo[c]} :
        /\ ShowsAll(r, steps)
        /\ steps # <<>> => Fielded(r)
        /\ \A e \in result[c] : Shows(r, e)

LEMMA ToldFixed == \A r, a : Told(r, a) <=> Told(r, a)'
BY DEF Told

LEMMA ShowsFixed == \A r, e : (Shows(r, e) <=> Shows(r, e)') /\ (Fielded(r) <=> Fielded(r)')
BY DEF Shows, Fielded

\* What a call answers, and what it holds from now on.
LEMMA GoOnAnswers ==
    ASSUME Wired, NEW c \in Calls, NEW r, NEW err, NEW steps, NEW es, GoOn(c, r, err, steps, es)
    PROVE  /\ answer'[c] = {} \/ (err = "none" /\ answer'[c] = Answer(r.method, r.v, es))
           /\ result'[c] = {} \/ (err = "none" /\ result'[c] = es)
<1> DEFINE over == err # "none" \/ steps = <<>>
<1>1. /\ result' = [result EXCEPT ![c] = IF over THEN {} ELSE es]
      /\ answer' = [answer EXCEPT ![c] = IF err = "none" /\ over THEN Answer(r.method, r.v, es)
                                         ELSE {}]
  BY DEF GoOn
<1> QED BY <1>1 DEF Wired, Shaped

\* A step of the call c that leaves the others alone.
LEMMA CallShowing ==
    ASSUME Wired, Showing, Steady, NEW c \in Calls, NEW r, NEW err, NEW steps, NEW es,
           GoOn(c, r, err, steps, es), Asks(c, r), Fielded(r),
           err = "none" => ShowsAll(r, steps)' /\ \A e \in es : Shows(r, e)
    PROVE  Showing'
<1>1. req'[c] = r /\ \A d \in Calls \ {c} : /\ req'[d] = req[d] /\ todo'[d] = todo[d]
                                           /\ result'[d] = result[d] /\ answer'[d] = answer[d]
  BY GoOnDoes DEF Wired, Shaped, Asks
<1>2. todo'[c] = <<>> \/ (todo'[c] = steps /\ err = "none")
  BY GoOnDoes DEF Wired
<1>3. \A q \in {req'[c]} : \A a \in answer'[c] : Told(q, a)'
  <2> SUFFICES ASSUME NEW a \in answer'[c] PROVE Told(r, a)'
    BY <1>1
  <2>1. err = "none" /\ a \in Answer(r.method, r.v, es)
    BY GoOnAnswers
  <2>2. Told(r, a)
    BY <2>1, AnswerTold
  <2> QED BY <2>2, ToldFixed
<1>4. \A q \in {req'[c]}, s \in {todo'[c]} :
         ShowsAll(q, s)' /\ (s # <<>> => Fielded(q)') /\ \A e \in result'[c] : Shows(q, e)'
  <2>1. \A s \in {todo'[c]} : ShowsAll(r, s)'
    BY <1>2, NoneShows
  <2>2. \A e \in result'[c] : Shows(r, e)'
    BY GoOnAnswers, ShowsFixed
  <2> QED BY <1>1, <2>1, <2>2, ShowsFixed
<1>5. ASSUME NEW d \in Calls \ {c}
      PROVE  /\ \A q \in {req'[d]} : \A a \in answer'[d] : Told(q, a)'
             /\ \A q \in {req'[d]}, s \in {todo'[d]} :
                   ShowsAll(q, s)' /\ (s # <<>> => Fielded(q)') /\ \A e \in result'[d] : Shows(q, e)'
  <2>1. PICK q, s : q = req[d] /\ s = todo[d]
    OBVIOUS
  <2>2. /\ \A a \in answer[d] : Told(q, a)
        /\ ShowsAll(q, s) /\ (s # <<>> => Fielded(q)) /\ \A e \in result[d] : Shows(q, e)
    BY <2>1 DEF Showing
  <2>3. ShowsAll(q, s)'
    BY <2>2, AllShowsKept
  <2>4. /\ \A a \in answer[d] : Told(q, a)'
        /\ (s # <<>> => Fielded(q)') /\ \A e \in result[d] : Shows(q, e)'
    BY <2>2, ToldFixed, ShowsFixed
  <2> QED BY <1>1, <2>1, <2>3, <2>4
<1> QED BY <1>3, <1>4, <1>5 DEF Showing

\* Nothing is done to the store or to the calls but for what one that has no steps asks.
LEMMA IdleShowing ==
    ASSUME Wired, Showing, UNCHANGED <<entity, todo, result, answer>>,
           \A c \in Calls : todo[c] # <<>> \/ result[c] # {} \/ answer[c] # {} => req'[c] = req[c]
    PROVE  Showing'
<1>1. Steady
  BY DEF Steady, IsOf, Exists
<1>2. ASSUME NEW d \in Calls
      PROVE  /\ \A q \in {req'[d]} : \A a \in answer'[d] : Told(q, a)'
             /\ \A q \in {req'[d]}, s \in {todo'[d]} :
                   ShowsAll(q, s)' /\ (s # <<>> => Fielded(q)') /\ \A e \in result'[d] : Shows(q, e)'
  <2>1. PICK q, s, u : q = req[d] /\ s = todo[d] /\ u = req'[d]
    OBVIOUS
  <2>2. /\ \A a \in answer[d] : Told(q, a)
        /\ ShowsAll(q, s) /\ (s # <<>> => Fielded(q)) /\ \A e \in result[d] : Shows(q, e)
    BY <2>1 DEF Showing
  <2>3. CASE u = q
    <3>1. ShowsAll(q, s)'
      BY <1>1, <2>2, AllShowsKept
    <3>2. /\ \A a \in answer[d] : Told(q, a)'
          /\ (s # <<>> => Fielded(q)') /\ \A e \in result[d] : Shows(q, e)'
      BY <2>2, ToldFixed, ShowsFixed
    <3> QED BY <2>1, <2>3, <3>1, <3>2
  <2>4. CASE s = <<>> /\ result[d] = {} /\ answer[d] = {}
    <3>1. ShowsAll(u, <<>>)'
      BY NoneShows
    <3> QED BY <2>1, <2>4, <3>1
  <2> QED BY <2>1, <2>3, <2>4
<1> QED BY <1>2 DEF Showing

LEMMA InitShowing == Init => Showing
BY NoneShows DEF Init, Showing

LEMMA BeginShowing ==
    ASSUME Wired, Showing, Steady, NEW c \in Calls, Begin(c) PROVE Showing'
<1>1. PICK m, body, id, o, p :
         /\ m \in DOMAIN Bodies[c] /\ body \in Bodies[c][m]
         /\ req' = [req EXCEPT ![c] = [method |-> m, v |-> Request(m, body, id)]]
         /\ p \in Manager(m, Request(m, body, id), o, Fresh[c])
         /\ GoOn(c, req'[c], p.err, p.steps, p.es)
  BY DEF Begin
<1>2. PICK q, steps : q = [method |-> m, v |-> Request(m, body, id)] /\ steps = p.steps
  OBVIOUS
<1>3. Asks(c, q) /\ req'[c] = q
  BY <1>1, <1>2 DEF Wired, Shaped, Asks
<1>4. Revealing(q, p)
  BY <1>1, <1>2, ManagerShows DEF Wired
<1>5. ShowsAll(q, steps)' /\ \A e \in p.es : Shows(q, e)
  BY <1>2, <1>4, AllShowsKept DEF Revealing
<1>6. Fielded(q)
  BY <1>1, <1>2, RequestFielded
<1> QED BY <1>1, <1>2, <1>3, <1>5, <1>6, CallShowing

\* What is left of the steps.
LEMMA RestShows ==
    ASSUME NEW r, NEW steps, IsSteps(steps), steps # <<>>, ShowsAll(r, steps)
    PROVE  ShowsAll(r, Tail(steps)) /\ IsSteps(Tail(steps))
<1> DEFINE rest == Tail(steps)
<1>1. /\ Len(steps) \in Nat /\ Len(steps) >= 1 /\ Len(rest) = Len(steps) - 1
      /\ \A k \in 1..Len(rest) : rest[k] = steps[k + 1]
      /\ IsSteps(rest)
  BY TailSteps
<1> HIDE DEF rest
<1>2. \A k \in 1..Len(rest) : k + 1 \in 1..Len(steps)
  BY <1>1
<1>3. ShowsAll(r, rest) /\ IsSteps(rest)
  BY <1>1, <1>2 DEF ShowsAll
<1> QED BY <1>3 DEF rest

LEMMA LookShowing ==
    ASSUME Wired, Showing, Steady, NEW c \in Calls, Look(c) PROVE Showing'
<1>1. PICK r, steps : r = req[c] /\ steps = todo[c]
  OBVIOUS
<1>2. steps # <<>> /\ Head(steps).do \in {"read", "unless"} /\ UNCHANGED req
  BY <1>1 DEF Look, Ahead
<1>3. PICK err, rest :
         /\ rest = Tail(steps) \/ (rest = Tail(Tail(steps)) /\ Head(steps).do = "unless")
         /\ GoOn(c, r, err, rest, result[c])
  BY <1>1 DEF Look
<1>4. /\ Planned(c, r, steps) /\ Head(steps) = steps[1] /\ IsSteps(steps)
      /\ ShowsAll(r, steps) /\ Fielded(r) /\ \A e \in result[c] : Shows(r, e)
  BY <1>1, <1>2, TailSteps DEF Wired, Doing, Planned, Showing
<1>5. Asks(c, r)
  BY <1>1, <1>2 DEF Wired, Shaped, Asks
<1>6. ShowsAll(r, rest)
  <2>1. CASE rest = Tail(steps)
    BY <1>2, <1>4, <2>1, RestShows
  <2>2. CASE rest = Tail(Tail(steps)) /\ Head(steps).do = "unless"
    <3>1. PICK mid : mid = Tail(steps)
      OBVIOUS
    <3>2. ShowsAll(r, mid) /\ IsSteps(mid)
      BY <1>2, <1>4, <3>1, RestShows
    <3>3. mid # <<>>
      <4>1. /\ Len(steps) \in Nat /\ Len(steps) >= 1 /\ Len(mid) = Len(steps) - 1
        BY <1>2, <1>4, <3>1, TailSteps
      <4>2. 1 + 1 \in 1..Len(steps)
        BY <1>4, <2>2, <4>1 DEF Planned, Ordered
      <4> QED BY <4>1, <4>2
    <3> QED BY <2>2, <3>1, <3>2, <3>3, RestShows
  <2> QED BY <1>3, <2>1, <2>2
<1>7. ShowsAll(r, rest)'
  BY <1>6, AllShowsKept
<1> QED BY <1>3, <1>4, <1>5, <1>7, CallShowing

LEMMA HashShowing ==
    ASSUME Wired, Showing, Steady, NEW c \in Calls, HashSecret(c) PROVE Showing'
<1>1. PICK r, steps : r = req[c] /\ steps = todo[c]
  OBVIOUS
<1>2. steps # <<>> /\ UNCHANGED <<store, req>>
  BY <1>1 DEF HashSecret, Ahead, calling
<1>3. CASE HashPanics(cfg)
  <2>1. UNCHANGED calling
    BY <1>3 DEF HashSecret
  <2> QED BY <1>2, <2>1, IdleShowing DEF calling, store
<1>4. CASE ~HashPanics(cfg)
  <2>1. PICK rest : rest = Tail(steps)
    OBVIOUS
  <2>2. GoOn(c, r, "none", rest, result[c])
    BY <1>1, <1>4, <2>1 DEF HashSecret
  <2>3. /\ IsSteps(steps) /\ ShowsAll(r, steps) /\ Fielded(r) /\ \A e \in result[c] : Shows(r, e)
    BY <1>1, <1>2 DEF Wired, Doing, Planned, Showing
  <2>4. Asks(c, r)
    BY <1>1, <1>2 DEF Wired, Shaped, Asks
  <2>5. ShowsAll(r, rest)'
    BY <1>2, <2>1, <2>3, RestShows, AllShowsKept
  <2> QED BY <2>2, <2>3, <2>4, <2>5, CallShowing
<1> QED BY <1>3, <1>4

LEMMA WriteShowing ==
    ASSUME Wired, Showing, Steady, NEW c \in Calls, Write(c) PROVE Showing'
<1>1. PICK r, steps, w, o, err, es : WriteOf(c, r, steps, w, o, err, es)
  BY WriteDoes
<1>2. PICK s, rest : s = steps[1] /\ rest = Tail(steps)
  OBVIOUS
<1>3. /\ Stored /\ Planned(c, r, steps) /\ IsSteps(steps) /\ steps # <<>> /\ Asks(c, r)
      /\ r = req[c] /\ steps = todo[c] /\ w = Written(s) /\ GoOn(c, r, err, rest, es)
      /\ es = IF s.do \in {"create", "patch"} /\ s.shown THEN {w} ELSE result[c]
  BY <1>1, <1>2 DEF WriteOf, Planned, Wired
<1>4. ShowsAll(r, steps) /\ Fielded(r) /\ \A e \in result[c] : Shows(r, e)
  BY <1>3 DEF Showing
<1>5. Fit(c, r, s) /\ ShowsStep(r, s)
  <2>1. 1 \in 1..Len(steps)
    <3>1. Len(steps) \in Nat /\ Len(steps) >= 1
      BY <1>3, TailSteps
    <3> QED BY <3>1
  <2> QED BY <1>2, <1>3, <1>4, <2>1 DEF Planned, ShowsAll
<1>6. ASSUME s.do = "create", s.shown PROVE Shows(r, w)
  BY <1>3, <1>5, <1>6, WrittenIs DEF ShowsStep
<1>7. ASSUME s.do = "patch", s.shown PROVE Shows(r, w)
  <2>1. w.id = s.id /\ w.props = s.props ++ entity[s.id].props
    BY <1>3, <1>5, <1>7, WrittenIs
  <2>2. /\ \A f : f \in DOMAIN s.props => propStr(w.props, f) = s.props[f]
        /\ \A f : f \notin DOMAIN s.props => propStr(w.props, f) = propStr(entity[s.id].props, f)
    BY <2>1 DEF propStr, ++
  <2>3. ShowsPatched(r, s.id, s.props)
    BY <1>5, <1>7 DEF ShowsStep
  <2> QED BY <2>1, <2>2, <2>3 DEF Shows, ShowsPatched
<1>8. \A e \in es : Shows(r, e)
  BY <1>3, <1>4, <1>6, <1>7
<1>9. ShowsAll(r, rest)'
  BY <1>2, <1>3, <1>4, RestShows, AllShowsKept
<1> QED BY <1>3, <1>4, <1>8, <1>9, CallShowing

LEMMA NextGrown == Wired /\ [Next]_vars => Grown
<1> SUFFICES ASSUME Wired, [Next]_vars PROVE Grown
  OBVIOUS
<1>1. ASSUME NEW c \in Calls, Write(c) PROVE Grown
  BY <1>1, WriteDoes, WriteStores
<1>2. ASSUME NEW c \in Calls, Deny(c) \/ Begin(c) \/ Look(c) \/ HashSecret(c) PROVE UNCHANGED entity
  BY <1>2 DEF Deny, Begin, Look, HashSecret, store
<1>3. CASE Start \/ UNCHANGED vars
  BY <1>3, GrownSame DEF Start, vars, store
<1> QED BY <1>1, <1>2, <1>3, GrownSame DEF Next, Finished

LEMMA NextShowing == Wired /\ Showing /\ [Next]_vars => Showing'
<1> SUFFICES ASSUME Wired, Showing, [Next]_vars PROVE Showing'
  OBVIOUS
<1>1. Steady
  BY NextGrown, NextSteady
<1>2. CASE Start \/ UNCHANGED vars
  BY <1>2, IdleShowing DEF Start, vars, calling, store
<1>3. ASSUME NEW c \in Calls, Deny(c) PROVE Showing'
  <2>1. UNCHANGED <<entity, todo, result, answer>> /\ req[c] = NoRequest
        /\ \A d \in Calls \ {c} : req'[d] = req[d]
    BY <1>3, Zenon DEF Deny, Arrives, Wired, Shaped, store
  <2>2. todo[c] = <<>> /\ result[c] = {} /\ answer[c] = {}
    BY <2>1 DEF Wired, Settled
  <2> QED BY <2>1, <2>2, IdleShowing
<1>4. ASSUME NEW c \in Calls, Begin(c) \/ Look(c) \/ HashSecret(c) \/ Write(c) PROVE Showing'
  BY <1>1, <1>4, BeginShowing, LookShowing, HashShowing, WriteShowing
<1> QED BY <1>2, <1>3, <1>4 DEF Next, Finished

\* A call that succeeds answers, in the fields that the messages of both have, with what its
\* request said, but for the four that no handler fills: whatever has been written to the
\* entity between its first read and its answer, and whichever entity its ids have named.
THEOREM AnswersTellRequest == Spec => []AnswerShows
<1>1. Init => Wired /\ Showing
  BY InitWired, InitShowing
<1>2. Wired /\ Showing /\ [Next]_vars => (Wired /\ Showing)'
  BY NextWired, NextShowing
<1>3. Showing => AnswerShows
  BY DEF Showing, Told, AnswerShows
<1> QED BY <1>1, <1>2, <1>3, PTL DEF Spec

=============================================================================
