# CodeValdOrg in TLA+

Models of the organisation service of this repository, their TLC instances and
the proofs about them. The service keeps the organisation, its users, roles,
scopes, memberships and OAuth clients of one agency, behind a gRPC interface.

## The system

A call travels CodeValdCross or a gRPC client -> `OrgServer` (internal/server) -> `orgManager` (the package of the
root) -> `entitygraph.DataManager` (a shared library, over ArangoDB). gRPC runs
one goroutine for each call. The manager has no locks, keeps no state of its own
and uses no transaction: **all state is in the store, and every handler is a
sequence of separate store calls**, each of which may fail, or be applied and
have its answer lost. The schema declares no unique index. Calls therefore
interact only through the store, and the difficulty of the code lies between
two store calls: another handler runs, the clock moves, the process dies, the
database removes an expired document, or the caller is told "unavailable" of a
write that was applied, and retries.

| Component | Source | State it keeps in the store | Operations | What makes it correct |
|---|---|---|---|---|
| Users and invitations | org_lifecycle.go 171-413, crypto.go | User, Invitation, edges has_invitation, invited_by, will_grant_role | InviteUser, AcceptInvitation, Suspend-, Reactivate-, DeleteUser, reads | a returned invitation can be accepted; who accepts is active; not after its life; one user for an address; one success for a token |
| Organisation and roles | org_lifecycle.go 11-168, roles_scopes.go 11-94 | Organization, Role | InitOrganization (seeds the roles), Update-, Disable-, DeleteOrganization, CreateRole, UpdateRole, DeleteRole, reads | one organisation; built-in roles complete, and neither deleted nor renamed; one role for a name |
| Scopes | roles_scopes.go 101-201 | Scope | RegisterScope, DeprecateScope, ListScopes | a service is told success only of a scope of its own; one scope for a name |
| Memberships | memberships.go | Membership, edges has_membership, grants_role | GrantMembership, RevokeMembership, ListMemberships | lists miss nothing that was acknowledged; an acknowledged grant is linked |
| OAuth clients | oauth_clients.go | OAuthClient, RedirectURI, ClientSecret and their edges | CreateOAuthClient, RotateClientSecret, DeleteOAuthClient, ListOAuthClients | a returned client is complete; a returned secret belongs to a live client |
| Tokens | token_ops.go | AccessToken, RefreshToken, TokenRevocation (removed by a TTL index) | Introspect, Revoke; Authorize and Token are stubs | a dead token is never reported active |
| Audit log | token_ops.go 107-134 | AuditEvent | ListAuditEvents | a read; nothing writes events |
| gRPC front | internal/server, errors.go | none | 31 handlers: check the agency, call the manager, translate the error or convert the answer | a refused client may rely on nothing having happened; an answer shows what was asked; a life is the one asked for |
| Start and shutdown | internal/app, cmd/server | goroutines, a channel of signals, a context | Run: start, serve, then GracefulStop and HTTP shutdown | a signal ends the process; a stop cuts no call |
| Configuration | internal/config, cmd/dev | none | Load | what starts can run: no call panics in argon2 |
| Converters | helpers.go, internal/server/server.go 530-660 | none | entityTo..., toProto... | no field is dropped or confused |
| OAuth endpoints | internal/httphandler | none | stubs that answer 503 | |
| Registration with Cross | internal/registrar | a heartbeat of the shared library | New, Run, Close, 27 routes | a route that writes says so |
| Schema | schema.go, storage/arangodb | constants | | what is written conforms to it, on any id and after any failure |
| Generated code | gen/, proto/ | none | | |

## Modules

| Module | Models | |
|---|---|---|
| `EntityStore` | the store as the code uses it: outcomes of a read and a write, and what each costs in faults | external |
| `UniqueNames` | what a look-up followed by a creation promises of a name, abstractly | implemented by `Invitations`, `OrgRoles` (twice) and `Scopes` |
| `UniqueNamesProofs` | theorem about `UniqueNames` | TLAPS |
| `Invitations`, `MCInvitations` | users and invitations | |
| `OrgServer`, `MCOrgServer` | the gRPC handlers of the calls on users, and the process: start, signals, stop, death, new start | composes with `Invitations` |
| `OrgServerProofs` | theorems about `Invitations` and `OrgServer` | TLAPS |
| `OrgRoles`, `MCOrgRoles` | organisation and roles | |
| `OrgRolesProofs` | theorems about `OrgRoles`, both refinements among them | TLAPS |
| `Tokens`, `MCTokens` | introspection and revocation | |
| `TokenValidity` | what introspection promises, abstractly | implemented by `Tokens` |
| `TokensProofs` | theorems about `Tokens`, the refinement among them | TLAPS |
| `Memberships`, `MCMemberships` | memberships | |
| `MembershipsProofs` | theorems about `Memberships` | TLAPS |
| `Scopes`, `MCScopes` | the registry of scopes | |
| `ScopesProofs` | theorems about `Scopes`, the refinement among them | TLAPS |
| `OAuthClients`, `MCOAuthClients` | the registry of clients | |
| `OAuthClientsProofs` | theorems about `OAuthClients` | TLAPS |
| `Configuration` | how an environment becomes a configuration: `Load`, and what cmd/dev sets before it | operators |
| `Schema` | DefaultOrgSchema as data | operators |
| `Messages` | entity to struct to message, field by field | operators |
| `Handlers` | the 31 methods with their fields, the 27 routes, the codes and the answers | operators |
| `OrgApi`, `MCOrgApi` | all 31 methods, called concurrently over one store of typed entities | composes the five above |
| `OrgApiProofs` | theorems about `OrgApi` and `Configuration` | TLAPS |

### How a module corresponds to the code

A **call** of an operation is a process, an element of a constant set
(`Invites`, `Accepts`, ...), that runs once; its `pc` names the store call it
makes next or the result it returned, and its remaining variables are the local
variables of the Go function. **One action is one store call** together with
the local code up to the next one: the guard is the place, the disjuncts are
the code's branches, and the early returns are places like `"unavailable"` or
`"exists"`, each a sentinel of errors.go. Loops take one action an iteration.
Where the code reads the clock after a store call has answered, the action
chooses a time between the answer and the present.

Entities are named by the call that creates them: a call creates at most one of
each type, and the ids, tokens and client ids of the code are random. `Init` is
an empty store, except in `Tokens`: no code of the repository issues a token, so
tokens of either type are in the store from the start with any expiry.

A store call has an **outcome** (`EntityStore`): `ok`; `fail`, nothing was
applied; for a write also `lost`, applied but answered with an error (a timeout
or a cancelled context). `MaxFaults` bounds the failures of a behaviour.
`Crash` ends every call in progress where it is; the store survives.

`OrgServer` EXTENDS `Invitations` and wraps its actions: a call begins in a process
that serves, and is refused, `Deny`, if its agency is another; the action of
InviteUser converts expires_in_seconds; `Reply` is the code a call was answered
with, a function of where it ended (`Sentinel`, then `toGRPCError`). Around the
calls run the main goroutine (`phase`) and the goroutine that waits for a signal.
The registrar, the schema seed and the HTTP handlers touch none of this state, and
their failures are only logged.

**`OrgApi`** cuts the code the other way. The component modules keep the protocol
of one component and abstract what is written; `OrgApi` keeps every property of
every entity and every field of every request and answer, for all methods over one
store, and so sees what no component sees: a call on the id of another component's
entity, a patch against a patch, a field lost between a property and a message.
Properties are joined by `++`, where the left side wins, as a Go map does that is
written to last. A
function of the manager is an operator of its name that takes the request and the
outcome of its first read and gives either an error or the sequence of store calls
it then makes (`Create`, `Patch`, `Delete`, `Relate`, and `Unless` for the seeding,
which looks before it creates); `Write` and `Look` make them one at a time, each
may fail or be lost, and an error ends the call. The process starts in an
environment (`Start`), hashes a secret with what it read (`HashSecret`), and a panic
there ends it, since no interceptor recovers one. A call that is not continued
stands for one whose process has died.

**`UniqueNames`** is the abstract specification of the four places where the
manager looks a name up and takes it in a later store call: the address of a user,
the place of the one organisation, the name of a role, the name of a scope. A claim
`Look`s at a free name, `Take`s it without looking again, may `GiveUp`, and what it
holds may be `Release`d; `rivals` remembers who contended when it looked. The
detailed modules map their users, organisations, roles and scopes to holders and
the calls between the two steps to contenders. For roles the claims are the calls
of CreateRole and, for each initialisation, each built-in name it seeds.

History variables (`rivals`, `honoured`, `doomed`, `acked`, `before`, `gone`,
`blind`, `signalled`, `touched`) only remember what had happened when a call looked, for the properties;
no guard reads them.

What is abstracted, and why nothing is lost for the properties:

- Hashes, UUIDs and random secrets are identities: a token is the call that made it.
- A time is a number of units of which `Second` make a second; formatting it
  (`2006-01-02T15:04:05Z`) rounds down, `ToSecond`.
- RoleIDs is a set: an id given twice would add a second, equal edge.
- Names, descriptions and display names are left out of the component modules
  except where a guard compares them; `OrgApi` has them, one text for each call. The scope grammar is one malformed name.
- Pages of a list are left out; no internal caller pages.
- What the library does with an update or a delete of an entity that has been
  soft-deleted since it was read is not in this repository: the models allow it
  both to refuse and to write.
- A GetEntity by id names no type in the code. `DeleteRole` may name an
  organisation, `RevokeMembership` and `DeprecateScope` an entity of another type; in
  `OrgApi` every id a path may bind is of any type or of none.
- In `OrgApi` the texts of a call are one text of its own, so that what a patch
  leaves can be told from what it wrote; a list is one text or empty; an instant is
  a value that parses as one. ListMemberships with a user takes both its lists at
  one moment (`Memberships` has them apart), and Introspect decides nothing
  (`Tokens` has it).
- In `Configuration` the text of a number is what `fmt.Sscanf` with `%d` finds
  in it, or `Garbage`. Byte is 256; Word is 2^30 in the run, because the integers of
  TLC end below 2^32, and any number from 65537 in the theorems.

## What the runs check

"pass" runs are complete searches. States are distinct states.

| Run | Bounds | Checks | States |
|---|---|---|---|
| `invitations_races` | 2 InviteUser, 2 AcceptInvitation, 1 administrator, 2 addresses, 2 faults | `AcceptedUserActivated`, `AcknowledgedOnlyOnce`, `ImplementsUniqueNames` | 414 k |
| `invitations_clock` | 1 call of each kind, 2 roles, 2 lives, 5 instants, 2 units a second, 1 fault | `TypeOK`, `IssuedIsComplete`, `NeverHonouredLate`, `CallsReturn` | 179 k |
| `org_server` | a process started, signalled and stopped any number of times, 1 call of each kind, a life that overflows, 4 instants, 1 fault | `ServerTypeOK`, `RefusalWroteNothing`, `HonouredAsAsked`, `StopCutsNoCall`, `SignalEndsRun` | 270 k |
| `org_roles` | 2 InitOrganization with 2 built-in names, 1 CreateRole, 1 administrative call on the organisation or a role, 1 fault | `TypeOK`, `SeedingComplete`, `OrgsImplementUniqueNames`, `RolesImplementUniqueNames` | 383 k |
| `tokens_refine` | 1 token of either type and any expiry, 2 Introspect, 2 Revoke, 4 instants, 1 fault | `TypeOK`, `RevokedNotActive`, `ImplementsTokenValidity` | 307 k |
| `memberships_lists` | 2 grants, 1 revocation, 2 lists, 2 users, 1 fault | `TypeOK`, `ListComplete`, `RevocationShows`, `GrantedIsLinked` | 205 k |
| `scopes_races` | 3 registrations, 1 deprecation, 2 services, 1 fault | `TypeOK`, `RegisteredByCaller`, `ImplementsUniqueNames` | 21 k |
| `oauth_clients_races` | 1 CreateOAuthClient with up to 2 URIs and a scope, 2 rotations, 2 deletions, 1 fault | `TypeOK`, `CreatedIsComplete`, `AtMostOneLooseUri`, `RotatedIsHeld` | 94 k |
| `org_api` | 9 environments and both binaries, 2 calls of any of 31 methods with up to 5 bodies and 9 ids, a store with an entity of each kind a call may name and an empty store, 1 built-in name, 1 fault | `TypeOK`, `RefusedWroteNothing`, `ReadsWroteNothing`, `EntitiesConform`, `EdgesConform`, `AnswerShows`, `HashNeverPanics`, `OwnersOnly`, `PatchesKept`, `BuiltinsKept` | 172 k |

Why the bounds are enough: every property relates at most two calls that
contend and one that disturbs them, and each run has those; a race needs two
calls of the racing operation, a stale read one call that writes between, and a
failure on the way one fault. `invitations_races` has two faults because a retry
that fails again is the hard case of an acceptance. Loops run up to twice (roles,
URIs, the built-in roles), so that they begin, go on and end.
The clock passes below, at and beyond every expiry, and a second of two units
makes rounding visible. In `org_server` one call of each kind is enough, since
handlers meet only in the store, which the other runs examine. There a duration
holds -2..1, so that the two seconds of the request overflow to a negative life,
hence to the default, and the clock runs past the two seconds: an acceptance then is
tried, and a default longer than what was asked for is found. Lives that fit are in
`invitations_clock`; a product that overflows to a positive life is in the theorem
only, since it takes a clock too long for the run.
In `org_api` two calls are enough for one to write between the steps of another; every method meets every method, and the
second call may name what the first created. Its environments have threads below, at
and above a byte and a variable missing.

What they show, beyond types:

- **Duplicates come only from a race.** No operation that looks for a name
  before it creates is safe against a concurrent call of its own kind, but
  nothing else makes a duplicate: no failure, crash, lost answer or deletion.
  The four refinements of `UniqueNames` say so, and more: a name is only taken
  by a call that had found it free, once, and given up or released by nothing but a
  failure or a deletion. `UniqueUpToRace` follows from it, for every one that
  implements it, by the theorem `UniqueUnlessRaced`.
- **Acceptance is ordered so that it can be retried.** The user is written
  before the invitation, so that no accepted invitation leaves a user that can
  neither accept again nor sign in. Once acknowledged, a token is spent.
- **A returned answer is complete.** A returned invitation, organisation, grant,
  client or secret has every entity and edge it stands for.
- **Introspection is safe although it reads three things one by one** while
  tokens are revoked, expire, and are removed with their revocations. The
  revocation expires with its token, never before it, unless a lookup failed. A token
  is dead here (`Dead`) when the code takes it for dead: after its expires_at, not
  at it as the documentation says (see below).
- **A refusal means that nothing happened.** Whatever fails between two writes, a
  call that has changed the store is answered with OK or Unavailable, or not at
  all. And no overflow of expires_in_seconds makes a positive life longer
  (`HonouredAsAsked`).
- **The same holds of all 31 methods** (`RefusedWroteNothing` of `OrgApi`), and what
  the routes announce as reads writes nothing.
- **Calls on the wrong entity are confined.** Four functions take the id of any
  entity and never ask for its type. Still no property a type requires is changed by
  a call about another type (`OwnersOnly`), and what they leave is five optional or
  stray properties (`EntitiesConform`). A built-in role is never deleted, and nothing
  of it changes but the marks deprecated_at, revoked_at and updated_at, which
  DeprecateScope and RevokeMembership set on it if given its id (`BuiltinsKept`).
  Within that they do harm: UpdateRole rewrites the description of an organisation, and DeleteRole deletes it.
- **Edges are as the schema declares them, but for what clients name.** Nobody asks
  what the ids are that GrantMembership, InviteUser and CreateOAuthClient are given:
  a grant to a scope, of a role that does not exist, is linked like any other (the run
  makes one). All other ends are of their types, wherever a call is cut (`EdgesConform`).
- **Answers tell what was asked**: through the properties, the struct and the message
  no field is dropped or confused, except the four that no handler fills, even when
  other calls write the entity between the first read and the answer (`AnswerShows`).
- **Patches are not lost**: a patch names only what its request gives, so that two
  at once, or a patch and a disabling, keep each other's texts.
- **Whatever the environment, hashing never panics**: the number of threads is cut
  to a byte before the range check, so that 256 threads refuse to start instead of
  panicking in a call.
- **A signal always ends the process, and an orderly stop cuts no call**: also a
  signal that comes before the goroutine that waits for it has run (the channel
  holds one), or several, and also while the process still starts.

### Liveness

`CallsReturn` is checked under weak fairness of each handler's steps. The Go
scheduler runs every goroutine that can run, and a store call ends: with an
answer, or with an error when its context does. Nothing is assumed of the
steps that begin a call, of the clock, of crashes, or that a call succeeds. The
loop over RoleIDs, the only one in that module, ends under these assumptions.

`SignalEndsRun` adds weak fairness of the two goroutines of Run: a runnable
goroutine is scheduled, and what Run calls returns (Listen, the HTTP shutdown with
its 30 seconds), except GracefulStop, which returns when the calls have ended. It
rests on the fairness of the calls: one store call that never ended would hold the
process for ever, deaf to further signals.

### Where the documentation and the code differ

Three runs show a disagreement, each with a counterexample:

| Run | The code | The documentation |
|---|---|---|
| `find_deleted_until_reactivated` | AcceptInvitation writes "active" over "deleted"; `deleted_at` stays | "Soft-delete a User — suspends + tombstones" (requirements.md:54) |
| `find_builtins_always_present` | if seeding fails, the organisation stays and a retry is refused before it seeds | "Built-in roles always present" (requirements.md:59) |
| `find_revoke_invalidates` | an error of a lookup in Revoke is passed over; the revocation then expires at once, is removed, and the token is active again | revocation "immediately invalidates" (requirements.md:90) |

Others were met while modelling and are not given runs, because the code has no
mechanism a model could examine or because a property above already shows them:
two concurrent AcceptInvitation calls, or one and its retry, both succeed with
one "one-time-use token" (data-model/identity.md:165; `AcknowledgedOnlyOnce` is
what holds instead); concurrent InviteUser, InitOrganization, CreateRole or RegisterScope calls make
duplicates although the documents call the keys unique; Introspect reports a token
active at the very instant of its expires_at, since it asks whether now is after it
(token_ops.go:51), where introspection.md:42 has "If entity.expires_at <= now → return
{active: false}" (the run `tokens_refine` reaches that instant, and `TokenValidity`
follows the code); an InviteUser that fails
after its first write leaves an address that can neither be invited again nor
accepted; a custom role created under a built-in name before InitOrganization
takes the place of the built-in one; DeleteRole deletes an organisation if given
its id; nothing reads `Organization.enabled`; Introspect does not look for
refresh tokens (introspection.md:35); GrantMembership does not look for an
earlier membership (identity.md:157); nothing protects the last super_admin
(role-taxonomy.md:47); the prefix of a scope is not compared with the service
that registers it (scope-model.md:26); a public client is given a secret by
RotateClientSecret; redirect URIs may repeat (oauth.md:75); acceptance does not
turn will_grant_role edges into memberships; a store failure in a GetEntity is
reported as "not found", and elsewhere as Unavailable where
error-catalog.md:47-51 has Internal; `ClientSecretGrace` is read and never used;
cmd/dev is said to start with
defaults and no Cross (cmd/dev/main.go:1-2, and app.go:98-100 skips an empty
address), but Load refuses an empty CROSS_ENDPOINT and ARANGO_PASSWORD
(config.go:41-61), so that it never starts without both (theorem `DevNeedsCross`);
the messages of memberships never have their user_id and role_id, those of invitations never
their email; client_type and the reason of Revoke are stored unchecked although the
schema lists their options; an absent or unreadable expires_at makes a token of
Introspect live for ever; a repeated revocation, disabling or deprecation
overwrites the time of the first; a registration without a description clears the
one of the scope; no call writes an AuditEvent, or the edges from an organisation or from
a role to a scope, that the schema declares; the page fields of every list are ignored;
UpdateRole, RevokeMembership and DeprecateScope leave their properties on an entity of any
type; DeleteOrganization deletes what requirements.md FR-001 says cannot be deleted on
its own; the drain of calls has no bound although mvp.md:303 has "30 s drain", and
no final Register announces it (cross-registration.md:28); a negative
expires_in_seconds is replaced by the default unless its product overflows to a
positive life.

## What is proved

`OrgServerProofs`, first of `Invitations`, for every set of calls, addresses and roles, any lives, any
length of a second, any `MaxTime` and any `MaxFaults`, from the three
assumptions of `Invitations` (the constants are numbers of the right sign, and
`NoToken` is not a token):

| Theorem | Statement |
|---|---|
| `TypeCorrect` | `Spec => []TypeOK` |
| `Safety` | `Spec => []IInv` |
| `IssuedCompletely` | `Spec => []IssuedIsComplete` |
| `AcceptanceActivates` | `Spec => []AcceptedUserActivated` |
| `DuplicatesRaced` | `Spec => []DuplicateOnlyFromRace`, what `UniqueUpToRace` says of users |
| `AddressesRefine` | `Spec => ImplementsUniqueNames` |
| `AcknowledgedOnce` | `Spec => []AcknowledgedOnlyOnce` |
| `NotHonouredLate` | `Spec => []NeverHonouredLate` |

None of the invariants after `Safety` is inductive, because each is about calls that have
returned and says nothing of those on the way. `IInv` adds what a call in
progress has established at each place: what an InviteUser call has created and
linked so far, and that an unissued invitation has no acceptance; that a call
at `"mark"` has activated its user, which nothing turns back to `"invited"`; that
whoever has looked for an address either saw the rival or is in its `rivals`;
that an acknowledged acceptance left the invitation accepted, which nothing
undoes; and between which readings of the clock an expiry was computed and
checked. Each conjunct is named and commented in the module. The proof has one
step for each action and, under it, one for each conjunct that it can disturb. For the refinement
InviteList is a `Look`, InviteCreateUser a `Take`, and `GivesUp` treats every step
that touches neither.

Then of `OrgServer`, from those and `ServerAssumption` (the three kinds of calls are
disjoint, the default life fits a duration, the lives are those of the seconds), for
any width of a duration:

| Theorem | Statement |
|---|---|
| `ServerImplements` | `ServerSpec => Spec` |
| `ServerKeeps` | `ServerSpec => []` of the five properties above |
| `ServerInvariant` | `ServerSpec => []ServerInv` |
| `ServerTypeCorrect` | `ServerSpec => []ServerTypeOK` |
| `StopIsGraceful` | `ServerSpec => []StopCutsNoCall` |
| `RefusalsHarmless` | `ServerSpec => []RefusalWroteNothing` |
| `NotHonouredLongerThanAsked` | `ServerSpec => []HonouredAsAsked` |

The first shows that every step of the server is a step of `Invitations` or leaves
its variables alone, so that its invariant may be used. `ServerInv` adds where a
call is once it has written (always past its first write, hence never at a refusal
that is final), that a refused call never began, and that a call carries the life
of its seconds. The steps of the calls are treated once, through `Moves`: what any
of them does to the places of the calls. The last theorem rests on `NoLonger`,
which is arithmetic: a positive product that overflows leaves less than itself, and
a negative remainder gives the default, which an overflowing product exceeds.

`UniqueNamesProofs`, for any claims and names, without assumptions:
`UniqueUnlessRaced` is `Spec => []UniqueUpToRace`. The promise is about holders only
and is not inductive, since a contender becomes a holder without looking;
`ActiveRivals` extends it to contenders.

`ScopesProofs`, for any calls, names and services, from `ScopesAssumption`:

| Theorem | Statement |
|---|---|
| `TypeCorrect` | `Spec => []TypeOK` |
| `AcknowledgedIsOwn` | `Spec => []RegisteredByCaller` |
| `RegistryRefines` | `Spec => ImplementsUniqueNames` |
| `DuplicatesRaced` | two scopes of a name come only from a race, by `RegistryRefines` and `UniqueUnlessRaced` |

`IInv` adds that a scope exists only once its call has created it and that what a
registration found has its name and its service. For the refinement each action of
`Scopes` is a `Look`, a `Take`, a `GiveUp` or a stutter of `UniqueNames`.

`TokensProofs`, for any tokens, calls, clock and number of faults, from
`TokensAssumption`:

| Theorem | Statement |
|---|---|
| `TypeCorrect` | `Spec => []TypeOK` |
| `RevokedIsInactive` | `Spec => []RevokedNotActive`: no introspection that began after an acknowledged revocation answers active, unless a lookup of that revocation failed |
| `AckedRevocationLasts` | `Spec => []RevocationLasts`: what a Revoke acknowledged, no lookup of it having failed, is dead for good |
| `ValidityRefines` | `Spec => ImplementsTokenValidity` |

`RevokedNotActive` compares two calls that may be long over and is not inductive.
`IInv` says what holds in between: the database removes nothing before its time
(`PurgedLate`); at each place of a Revoke call either its token is spent already or
the expiry it has read is at least the token's (`Covers`), so that the revocation is
never removed before the token; and an introspection that began when its token was
dead gets past its first look only if the token is spent, and never past the
comparison with the clock (`DoomedStops`, `AckedDooms`). The refinement rests on
one more fact, that a dead token stays dead at every step of the database and of
every call.

`MembershipsProofs`, for any calls, users and number of faults, from
`MembershipsAssumption`: `TypeCorrect`, `GrantedStaysLinked` (`GrantedIsLinked`),
`ListsAreComplete` (`ListComplete`) and `RevocationsShow` (`RevocationShows`). A list
joins a read of the entities with a read of the edges, made at two times. `Complete`
and `Shows` say of a list between its reads that it holds every grant acknowledged
before it began, with its revocation; `Settled`, that what it holds exists, and so
has its edge from then on; `Linked` orders the three writes of a grant, and
`WithdrawnRevoked` those of a revocation.

`OrgRolesProofs`, for any calls, any list of built-in names and any custom names,
from `OrgRolesAssumption`:

| Theorem | Statement |
|---|---|
| `TypeCorrect` | `Spec => []TypeOK` |
| `SeedingIsComplete` | `Spec => []SeedingComplete` |
| `OrganizationRefines`, `RolesRefine` | `Spec => OrgsImplementUniqueNames`, `Spec => RolesImplementUniqueNames` |
| `OrganizationUnlessRaced`, `RoleNameUnlessRaced` | two live organisations, or two live roles of one name, come only from calls that raced |

`IInv` follows the loop of seedBuiltinRoles: it is at one of its names until it is
over (`SeedIndex`), and every name it has passed has its role, seeded or created by
CreateRole, which may since have been deleted (`SeededSoFar`). A seeded role is still
there (`SeededIntact`), since what UpdateRole and DeleteRole are about to write to was
found in the store and was no built-in role (`OrdersTested`), and an id never becomes
one; that no other method harms a built-in role is `BuiltinsAreKept`, below. The last
two theorems instantiate `UniqueUnlessRaced` with the two mappings.

`OAuthClientsProofs`, for any calls, any lists in their requests and any number of
faults, from `OAuthClientsAssumption` (the three kinds of calls are disjoint, the
lists of a request have lengths): `TypeCorrect`, `CreationIsComplete`
(`CreatedIsComplete`), `OneLooseUri` (`AtMostOneLooseUri`) and `RotationIsHeld`
(`RotatedIsHeld`). The run has lists of two; the theorems need the invariants of the
loops. `UrisCounted` and `ScopesCounted` say how many iterations each has done at
each place of a call, `Held` that a secret is written before its edge and linked to
no other client, `Aimed` that a rotation goes on with a client whose deletion had
not returned, and `Unborn` that a call that has not begun has written nothing.

`OrgApiProofs`, for every environment, store, set of bodies and ids, and any number of
calls and faults, from `ConfigurationAssumption`, `OrgApiAssumption` and three more:
what is new to a call (`Fresh`, its random ids and secrets) is new to every other
call and to the store (`FreshAssumption`); a process finds a store of well-formed
entities of the schema (`StoresAssumption`); and a body has the fields of its method, its ends
of edges being among the ids considered, of whatever type (`BodiesAssumption`):

| Theorem | Statement |
|---|---|
| `StartedHashes` | an environment that starts a process gives it a configuration whose hashes do not panic |
| `DevNeedsCross` | cmd/dev starts only with CROSS_ENDPOINT and ARANGO_PASSWORD |
| `NoPanic` | `Spec => []HashNeverPanics` |
| `ErrorsPromise` | `Spec => []RefusedWroteNothing` |
| `ReadsOnly` | `Spec => []ReadsWroteNothing` |
| `TypeCorrect` | `Spec => []TypeOK` |
| `EntitiesKeepShape` | `Spec => []EntitiesConform` |
| `OwnersKeep` | `Spec => OwnersOnly` |
| `BuiltinsAreKept` | `Spec => BuiltinsKept` |
| `PatchesAreKept` | `Spec => PatchesKept` |
| `EdgesOfSchema` | `Spec => []EdgesConform` |
| `AnswersTellRequest` | `Spec => []AnswerShows` |

The first five rest on `Sound` (a process that serves has such a configuration),
`Promise` (a call that has written, or has steps left, has begun; so no later step
of it is its first read, the only one whose errors have codes of their own) and
`Idle` (a lookup has nothing left to do after its first read).

The next five are about what a write leaves, and a write is decided long before it
is made: by the function that read the store, in a state that other calls have
changed since. Their invariant, `Wired`, is therefore about the steps that every call
has still to make. `Fit` is what one step may be for the request of its call: a
creation has an id of the call's own that is not taken and properties that conform
to its type; a patch is of an entity that exists and is `Tame`, which is to say that
it writes what a type requires only for a method about that type, the texts of
clients only as the request gives them, and nothing undeclared but the stray
properties; if that entity is a built-in role, the patch holds marks only, and it is
never deleted. `Ordered` is what the steps owe to each other: no id is created twice,
what `Unless` may leave out is the creation of a role, and a user is invited only
after it has been created. `ManagerPlan` shows, with one lemma for each of the 31
functions, that what a function leaves to do is `Planned` in this sense;
`RestPlanned`, that it stays so when any call writes, since entities stay and keep
their types and no role becomes a built-in one (`Grown`), and nobody creates what is
new to another (`NewOnly`). A patch adds to the entity as it is at the moment of the write and takes nothing away,
so that no order of the calls costs an entity its shape.

The last two add to `Wired` what the steps still to be made will mean, each with one
lemma for every function that it concerns.

`Linked` is `EdgesConform` and, for every call, that its steps are `Tied`: each edge
among them is one of the schema, and each of its ends is of the type declared there,
or is named by the request in a field for such an end, or is created by an earlier
step of the list, which nothing leaves out (`Ended`; a role may be, by `Unless`).
`RestTied` carries this over a step of any call: a creation that is done makes the end
an entity of its type, and entities keep their types. Hence an edge that is written,
long after its function decided on it, has its ends. Promises of edges are about
calls in `touched`, and `Promise` is what keeps the request of such a call.

`Showing` is about answers. Every entity that a call holds, and every one that its
steps are marked to give it, `Shows` its request: a creation has the texts of the
request; a patch has them or leaves them alone where the request is silent, and is of
the entity the request names (`ShowsStep`). One function rests on what it has read:
RegisterScope patches a scope without its name and its service, since it has found
them in it. They are required of a scope, so that by `OwnersOnly` no call changes them
before the patch is made (`Steady`). `AnswerTold` then goes through both conversions,
method by method: a message made from an entity that shows the request tells it.

Lemmas cited throughout: what `++` gives (`TypesApply`, `FieldsOf`), what joining and
taking the tail of a list of steps does to their places (`JoinedAt`, `TailSteps`),
what the types declare (`TypeKinds`, `PatchedTypes`), the budget of faults
(`FaultStep`, in each module), and what an answer or a finished step leaves of a call
(`GoOnDoes`).

Only model-checked:

- Liveness, `CallsReturn` and `SignalEndsRun`, which rest on fairness and so on
  `ENABLED`: out of the prover's reach. They are the only properties of passing runs
  that no theorem states.
- The properties of the three runs that show a disagreement are false.

No theorem is about a recursive operator; there is none.

## What is not modelled

- The generated protocol code, 5745 of the 9174 lines of the implementation: it
  encodes messages and dispatches methods, of which `Handlers` has the table.
- The shared library: entitygraph, the registrar's heartbeat, serverutil. Only
  its use is modelled. Whether entitygraph validates properties against the schema, or the
  ends of an edge, is not known here: `EntitiesConform` and `EdgesConform` ask it of the calls.
- The HTTP endpoints (httphandler): stubs that answer 503 and two constants, no state.
- The OAuth flows Authorize and Token: stubs in the code.
- Cryptography: a hash is an identity; PKCE and the verification of passwords have
  no caller. What remains of it is when hashing panics.
- How the storage backend is opened (storage/arangodb): constants for the library.

## Plan

Nothing of the plan is left: every component whose logic is in this repository is
modelled, and every safety and action property of the passing runs is a theorem. What
would extend the model is code that is not there yet: the OAuth flows of Authorize and
Token, which will issue the tokens that `Tokens` now takes as given, and a check of the
ids that a grant, an invitation or a client names, after which `EdgesConform` could be
stated without its exception for them (`Linked` and `Ended` are where the proof has it).
