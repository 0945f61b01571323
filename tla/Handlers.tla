------------------------------- MODULE Handlers -------------------------------
(***************************************************************************)
(* The surface of the service: the methods of OrgService with the fields   *)
(* of their requests, the routes by which CodeValdCross reaches 27 of them *)
(* (src/internal/registrar), the code of each error and the message of     *)
(* each answer (src/internal/server).  A method carries the name of the    *)
(* function of OrgManager that its handler calls, and a field the name it  *)
(* has in the message.                                                     *)
(***************************************************************************)
EXTENDS Messages

Agency == "agency"

-----------------------------------------------------------------------------
(* What the handlers pass to the manager *)

\* Every request also carries the agency_id.
OrganizationFields == [
    InitOrganization    |-> {"name", "description", "contact_email", "logo_url"},
    GetOrganization     |-> {},
    UpdateOrganization  |-> {"name", "description", "contact_email", "logo_url"},
    DisableOrganization |-> {},
    DeleteOrganization  |-> {}]

UserFields == [
    InviteUser       |-> {"email", "display_name", "invited_by_user_id", "role_ids"},
    AcceptInvitation |-> {"token"},
    GetUser          |-> {"user_id"},
    ListUsers        |-> {"status_filter"},
    SuspendUser      |-> {"user_id"},
    ReactivateUser   |-> {"user_id"},
    DeleteUser       |-> {"user_id"}]

RoleScopeFields == [
    CreateRole     |-> {"name", "display_name", "description"},
    UpdateRole     |-> {"role_id", "display_name", "description"},
    DeleteRole     |-> {"role_id"},
    ListRoles      |-> {},
    RegisterScope  |-> {"name", "registered_by", "description"},
    DeprecateScope |-> {"scope_id"},
    ListScopes     |-> {}]

MembershipFields == [
    GrantMembership  |-> {"user_id", "role_id", "granted_by"},
    RevokeMembership |-> {"membership_id"},
    ListMemberships  |-> {"user_id"}]

ClientFields == [
    CreateOAuthClient  |-> {"name", "client_type", "description", "allowed_grant_types",
                            "redirect_uris", "allowed_scope_ids"},
    RotateClientSecret |-> {"client_id"},
    ListOAuthClients   |-> {},
    DeleteOAuthClient  |-> {"client_id"}]

ProtocolFields == [
    Authorize  |-> {"client_id", "redirect_uri", "response_type", "state", "code_challenge",
                    "code_challenge_method", "scopes"},
    Token      |-> {"grant_type", "client_id", "client_secret", "code", "redirect_uri",
                    "code_verifier", "refresh_token", "scopes"},
    Introspect |-> {"token"},
    Revoke     |-> {"token", "reason"}]

AuditFields == [ListAuditEvents |-> {"event_type_filter", "actor_id_filter", "subject_id_filter"}]

Fields == OrganizationFields ++ UserFields ++ RoleScopeFields ++ MembershipFields
          ++ ClientFields ++ ProtocolFields ++ AuditFields

\* The methods the gRPC server dispatches.
Methods == DOMAIN Fields

-----------------------------------------------------------------------------
(* The routes of orgRoutes *)

Reads(bound)  == [write |-> FALSE, bound |-> bound]

\* Mutant: the flag is left out, and is FALSE.
WritesUnmarked(bound) == [write |-> FALSE, bound |-> bound]

Writes(bound) == [write |-> TRUE, bound |-> bound]

\* The routes, by their methods: whether Cross takes the call for a write, and the
\* field that it fills from the path, beside the agency_id.
Routes == [
    InitOrganization    |-> Writes({}),
    GetOrganization     |-> Reads({}),
    UpdateOrganization  |-> Writes({}),
    DisableOrganization |-> Writes({}),
    DeleteOrganization  |-> Writes({}),
    InviteUser          |-> Writes({}),
    AcceptInvitation    |-> Writes({}),
    ListUsers           |-> Reads({}),
    GetUser             |-> Reads({"user_id"}),
    SuspendUser         |-> Writes({"user_id"}),
    ReactivateUser      |-> Writes({"user_id"}),
    DeleteUser          |-> Writes({"user_id"}),
    CreateRole          |-> Writes({}),
    ListRoles           |-> Reads({}),
    UpdateRole          |-> Writes({"role_id"}),
    DeleteRole          |-> Writes({"role_id"}),
    RegisterScope       |-> Writes({}),
    DeprecateScope      |-> Writes({"scope_id"}),
    ListScopes          |-> Reads({}),
    GrantMembership     |-> Writes({}),
    RevokeMembership    |-> Writes({"membership_id"}),
    ListMemberships     |-> Reads({}),
    CreateOAuthClient   |-> Writes({}),
    ListOAuthClients    |-> Reads({}),
    RotateClientSecret  |-> Writes({"client_id"}),
    DeleteOAuthClient   |-> Writes({"client_id"}),
    ListAuditEvents     |-> Reads({})]

\* The rest is called at the gRPC port; the HTTP endpoints of these answer 503.
OAuthMethods == Methods \ DOMAIN Routes

-----------------------------------------------------------------------------
(* The answers *)

\* The sentinels by their codes.
CodeTable == [
    InvalidArgument    |-> {"ErrInvalidRequest", "ErrUnsupportedGrantType", "ErrInvalidScope",
                            "ErrRedirectURIMismatch", "ErrPKCERequired", "ErrPKCEMethodInvalid"},
    Unauthenticated    |-> {"ErrInvalidClient"},
    PermissionDenied   |-> {"ErrInvalidGrant", "ErrUnauthorizedClient", "ErrAccessDenied",
                            "ErrScopeReserved", "ErrTokenRevoked", "ErrTokenExpired",
                            "ErrPKCEMismatch"},
    Unavailable        |-> {"ErrTemporarilyUnavailable"},
    ResourceExhausted  |-> {"ErrRateLimitExceeded"},
    NotFound           |-> {"ErrOrgNotFound", "ErrUserNotFound", "ErrRoleNotFound",
                            "ErrScopeNotFound", "ErrMembershipNotFound", "ErrInvitationNotFound",
                            "ErrOAuthClientNotFound", "ErrEntityNotFound"},
    AlreadyExists      |-> {"ErrOrgAlreadyExists", "ErrUserAlreadyExists",
                            "ErrRoleAlreadyExists", "ErrScopeNameCollision"},
    FailedPrecondition |-> {"ErrOrgDisabled", "ErrUserSuspended", "ErrRoleBuiltinImmutable",
                            "ErrInvitationExpired", "ErrInvitationAlreadyAccepted",
                            "ErrSuperAdminRequired", "ErrImmutableType"}]

\* toGRPCError: an error of no case is Internal.
toGRPCError(err) ==
    LET codes == {c \in DOMAIN CodeTable : err \in CodeTable[c]}
    IN  IF codes = {} THEN "Internal" ELSE CHOOSE c \in codes : TRUE

\* The messages that answer a call with the values v, when the manager returned the
\* entities es.
OrganizationAnswer(method, es) ==
    IF method = "DeleteOrganization" THEN {[agency_id |-> Agency]}
    ELSE {toProtoOrg(entityToOrg(e)) : e \in es}

UserAnswer(method, v, es) ==
    IF method = "DeleteUser" THEN {[agency_id |-> Agency, user_id |-> v.user_id]}
    ELSE IF method = "InviteUser"
         THEN {toProtoInvitation(entityToInvitation(e), "plaintext") : e \in es}
    ELSE {toProtoUser(entityToUser(e)) : e \in es}

RoleScopeAnswer(method, v, es) ==
    IF method = "DeleteRole" THEN {[agency_id |-> Agency, role_id |-> v.role_id]}
    ELSE IF method \in {"CreateRole", "UpdateRole", "ListRoles"}
         THEN {toProtoRole(entityToRole(e)) : e \in es}
    ELSE {toProtoScope(entityToScope(e)) : e \in es}

MembershipAnswer(es) == {toProtoMembership(entityToMembership(e)) : e \in es}

\* The secret is not repeated here: OAuthClients follows it.
ClientAnswer(method, v, es) ==
    IF method = "DeleteOAuthClient" THEN {[agency_id |-> Agency, client_id |-> v.client_id]}
    ELSE IF method = "RotateClientSecret" THEN {}
    ELSE {toProtoOAuthClient(entityToOAuthClient(e)) : e \in es}

\* Introspect answers with what Tokens models; Authorize and Token never answer.
ProtocolAnswer(method) == IF method = "Revoke" THEN {[agency_id |-> Agency]} ELSE {}

AuditAnswer(es) == {toProtoAuditEvent(entityToAuditEvent(e)) : e \in es}

Answer(method, v, es) ==
    CASE method \in DOMAIN OrganizationFields -> OrganizationAnswer(method, es)
      [] method \in DOMAIN UserFields         -> UserAnswer(method, v, es)
      [] method \in DOMAIN RoleScopeFields    -> RoleScopeAnswer(method, v, es)
      [] method \in DOMAIN MembershipFields   -> MembershipAnswer(es)
      [] method \in DOMAIN ClientFields       -> ClientAnswer(method, v, es)
      [] method \in DOMAIN ProtocolFields     -> ProtocolAnswer(method)
      [] method \in DOMAIN AuditFields        -> AuditAnswer(es)

=============================================================================
