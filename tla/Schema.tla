-------------------------------- MODULE Schema --------------------------------
(***************************************************************************)
(* DefaultOrgSchema (src/schema.go): the types of entities, the properties *)
(* each requires and those it may have, the edges that leave it, the       *)
(* values of the properties that are options, and the types whose entities *)
(* never change.                                                           *)
(***************************************************************************)
EXTENDS Messages

Stamps == {"created_at", "updated_at"}

Kind(required, optional, edges) ==
    [required |-> {"agency_id"} \union required, optional |-> optional, edges |-> edges]

IdentityTypes == [
    Organization |-> Kind({"name", "enabled"},
        {"description", "contact_email", "logo_url", "disabled_at", "deleted_at"} \union Stamps,
        {<<"has_user", "User">>, <<"has_role", "Role">>, <<"has_scope", "Scope">>,
         <<"has_oauth_client", "OAuthClient">>, <<"has_audit_event", "AuditEvent">>}),
    User |-> Kind({"email", "status"}, {"display_name", "deleted_at"} \union Stamps,
        {<<"has_password_credential", "PasswordCredential">>,
         <<"has_membership", "Membership">>, <<"has_invitation", "Invitation">>}),
    PasswordCredential |-> Kind({"password_hash"},
        {"created_at", "last_used_at", "revoked_at", "expires_at"}, {}),
    Role |-> Kind({"name", "builtin"},
        {"display_name", "description", "deleted_at"} \union Stamps,
        {<<"has_scope", "Scope">>}),
    Scope |-> Kind({"name", "registered_by"}, {"description", "deprecated_at"} \union Stamps, {}),
    Membership |-> Kind({}, {"granted_at", "granted_by", "revoked_at", "revoked_by"},
        {<<"grants_role", "Role">>}),
    Invitation |-> Kind({"token_hash", "status", "expires_at"},
        {"created_at", "accepted_at", "revoked_at"},
        {<<"invited_by", "User">>, <<"will_grant_role", "Role">>})]

ClientTypes == [
    OAuthClient |-> Kind({"client_id", "client_type", "name"},
        {"allowed_grant_types", "description", "disabled_at", "deleted_at"} \union Stamps,
        {<<"has_redirect_uri", "RedirectURI">>, <<"has_client_secret", "ClientSecret">>,
         <<"allows_scope", "Scope">>}),
    ClientSecret |-> Kind({"secret_hash"},
        {"created_at", "last_used_at", "revoked_at", "grace_expires_at"}, {}),
    RedirectURI |-> Kind({"uri"}, {"created_at", "last_used_at", "revoked_at"}, {})]

Issued == {<<"issued_to", "OAuthClient">>, <<"issued_for", "User">>}

ArtifactTypes == [
    AuthorizationCode |-> Kind({"code_hash", "code_challenge", "redirect_uri", "expires_at"},
        {"state", "created_at", "consumed_at"},
        Issued \union {<<"has_requested_scope", "Scope">>}),
    AccessToken |-> Kind({"token_hash", "expires_at"}, {"created_at"},
        Issued \union {<<"has_scope", "Scope">>}),
    RefreshToken |-> Kind({"token_hash", "expires_at"}, {"created_at", "consumed_at"},
        Issued \union {<<"has_scope", "Scope">>, <<"parent", "RefreshToken">>}),
    TokenRevocation |-> Kind({"token_hash", "revoked_at", "expires_at"}, {"reason"}, {})]

AuditTypes == [
    AuditEvent |-> Kind({"event_type", "event_at"},
        {"actor_id", "subject_id", "outcome", "payload"}, {})]

Types == IdentityTypes ++ ClientTypes ++ ArtifactTypes ++ AuditTypes

Declared == [t \in DOMAIN Types |-> Types[t].required \union Types[t].optional]

\* Mutant: the flag of TokenRevocation is forgotten.
ImmutableShort == (DOMAIN ArtifactTypes \ {"TokenRevocation"}) \union DOMAIN AuditTypes

\* The types whose entities the store refuses to update.
Immutable == DOMAIN ArtifactTypes \union DOMAIN AuditTypes

\* The values of the properties that are options, by type.
Options == [
    User            |-> [status |-> {"invited", "active", "suspended", "deleted"}],
    Invitation      |-> [status |-> {"pending", "accepted", "expired", "revoked"}],
    OAuthClient     |-> [client_type |-> {"public", "confidential"}],
    TokenRevocation |-> [reason |-> {"user_logout", "admin_revoke", "refresh_reuse", "disable_org",
                                     "suspend_user"}]]

=============================================================================
