------------------------------- MODULE Messages -------------------------------
(***************************************************************************)
(* What a client is shown of an entity: the entityTo... functions of       *)
(* src/helpers.go, which read its properties into a struct of models.go,   *)
(* and the toProto... functions of src/internal/server/server.go, which    *)
(* make its message of that.                                               *)
(*                                                                         *)
(* An entity is [id, type, props]; a property is a text, "true" or "false",*)
(* or an instant.  Nil stands for the empty text, the zero time, a nil     *)
(* timestamp and the empty list; a list is told apart by its one text.     *)
(***************************************************************************)
EXTENDS TLC

Nil     == ""
Instant == "instant"

\* The values of f, and those of g for what f does not have.
f ++ g == [k \in DOMAIN f \union DOMAIN g |-> IF k \in DOMAIN f THEN f[k] ELSE g[k]]

\* A property that is absent reads as the zero value.
propStr(props, key)  == IF key \in DOMAIN props THEN props[key] ELSE Nil
propBool(props, key) == key \in DOMAIN props /\ props[key] = "true"

\* A text that is no RFC 3339 instant reads as no time; ts and tsPtr then answer nil.
propTime(props, key) == IF propStr(props, key) = Instant THEN Instant ELSE Nil

-----------------------------------------------------------------------------
(* From an entity to a struct, whose fields carry the names of the properties *)

Struct(e, texts, flags, times) ==
    [k \in {"id", "agency_id"} \union texts \union flags \union times |->
        IF k = "id" THEN e.id
        ELSE IF k \in flags THEN propBool(e.props, k)
        ELSE IF k \in times THEN propTime(e.props, k)
        ELSE propStr(e.props, k)]

Stamped == {"created_at", "updated_at", "deleted_at"}

entityToOrg(e) ==
    Struct(e, {"name", "description", "contact_email", "logo_url"}, {"enabled"},
           Stamped \union {"disabled_at"})

entityToUser(e) == Struct(e, {"email", "status", "display_name"}, {}, Stamped)

entityToRole(e) == Struct(e, {"name", "display_name", "description"}, {"builtin"}, Stamped)

entityToScope(e) ==
    Struct(e, {"name", "registered_by", "description"}, {},
           {"created_at", "updated_at", "deprecated_at"})

\* Of the user and the role, which the edges hold, the struct knows nothing.
entityToMembership(e) ==
    Struct(e, {"granted_by", "revoked_by"}, {}, {"granted_at", "revoked_at"})

entityToInvitation(e) ==
    Struct(e, {"token_hash", "status"}, {},
           {"expires_at", "created_at", "accepted_at", "revoked_at"})

entityToOAuthClient(e) ==
    Struct(e, {"client_id", "client_type", "name", "allowed_grant_types", "description"}, {},
           Stamped \union {"disabled_at"})

entityToAuditEvent(e) ==
    Struct(e, {"event_type", "actor_id", "subject_id", "outcome", "payload"}, {}, {"event_at"})

-----------------------------------------------------------------------------
(* From a struct to its message, whose fields carry the names of the protocol *)

Without(s, dropped) == [k \in DOMAIN s \ dropped |-> s[k]]

toProtoOrg(o) == Without(o, {"id"})

toProtoUserStatus(s) ==
    IF s \in {"invited", "active", "suspended", "deleted"} THEN s ELSE "unspecified"

toProtoUser(u) ==
    [user_id |-> u.id] ++ [Without(u, {"id"}) EXCEPT !.status = toProtoUserStatus(@)]

\* Mutant: the display name is read from the name.
toProtoRoleNamed(r) ==
    [role_id |-> r.id] ++ [Without(r, {"id"}) EXCEPT !.display_name = r.name]

toProtoRole(r) == [role_id |-> r.id] ++ Without(r, {"id"})

toProtoScope(s) == [scope_id |-> s.id] ++ Without(s, {"id"})

\* The user_id and role_id of the message stay empty.
toProtoMembership(m) ==
    [membership_id |-> m.id, user_id |-> Nil, role_id |-> Nil]
    ++ Without(m, {"id", "revoked_by"})

toProtoInvitationStatus(s) ==
    IF s \in {"pending", "accepted", "expired", "revoked"} THEN s ELSE "unspecified"

\* The email of the message stays empty.  InviteUser, the only call that answers with an
\* invitation, puts the token in place of its hash.
toProtoInvitation(inv, token) ==
    [invitation_id |-> inv.id, email |-> Nil, token |-> token]
    ++ [Without(inv, {"id", "token_hash"}) EXCEPT !.status = toProtoInvitationStatus(@)]

\* The client is shown under its client_id, not under the id of its entity.
toProtoOAuthClient(c) == Without(c, {"id"})

\* An event of the audit log.  No call of the manager writes one.
toProtoAuditEvent(a) == [event_id |-> a.id] ++ Without(a, {"id"})

=============================================================================
