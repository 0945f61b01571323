------------------------------ MODULE MCOrgApi ------------------------------
(* An instance of OrgApi for TLC: two calls, which write different texts. *)
EXTENDS OrgApi

TwoIds == <<{"o", "u", "i", "b", "r", "s", "m", "t", "key"}, {"u", "r", "i1"}>>
NewIds == <<<<"i1", "i2", "i3", "i4">>, <<"j1", "j2", "j3", "j4">>>>
OneBuiltin == <<"super_admin">>

\* A store with one entity of each type that a call may name, and an empty one.
Populated == [
    entity |-> [
        o |-> Entity("o", "Organization", [name |-> "org", enabled |-> "true"] @@ New),
        u |-> Entity("u", "User", [email |-> "mail", status |-> "invited"] @@ New),
        i |-> Entity("i", "Invitation", [token_hash |-> "invitation", status |-> "pending",
                                         expires_at |-> Instant] @@ Owned),
        b |-> Entity("b", "Role", [name |-> "super_admin", builtin |-> "true"] @@ New),
        r |-> Entity("r", "Role", [name |-> "custom", builtin |-> "false"] @@ New),
        s |-> Entity("s", "Scope", [name |-> "known", registered_by |-> "one"] @@ New),
        m |-> Entity("m", "Membership", Owned),
        k |-> Entity("k", "OAuthClient", [client_id |-> "key", client_type |-> "public",
                                          name |-> "client"] @@ New),
        t |-> Entity("t", "TokenRevocation", [token_hash |-> "old", revoked_at |-> "earlier",
                                              expires_at |-> Instant] @@ Owned)],
    edges |-> {[from |-> "u", name |-> "has_invitation", to |-> "i"],
               [from |-> "u", name |-> "has_membership", to |-> "m"],
               [from |-> "m", name |-> "grants_role", to |-> "b"]}]
TwoStores == {Populated, [entity |-> <<>>, edges |-> {}]}

\* The texts of the n-th call.
Text == <<"first", "second">>

\* The body of a method with the text t in the fields S and nothing in the others, and
\* with particular fields.
Body(m, S, t)    == [f \in Fields[m] |-> IF f \in S THEN t ELSE Nil]
With_(m, t, fix) == fix @@ Body(m, Fields[m], t)

Patches(m, S, t) == {Body(m, {}, t), Body(m, S, t)} \union {Body(m, {f}, t) : f \in S}

BodiesOf(m, t) ==
    CASE m = "UpdateOrganization" -> Patches(m, {"name", "description"}, t)
      [] m = "UpdateRole" -> Patches(m, {"display_name", "description"}, t)
      [] m = "CreateRole" -> {With_(m, t, [name |-> n]) : n \in {t, "custom"}}
      [] m = "InviteUser" ->
            {With_(m, t, [email |-> "mail", invited_by_user_id |-> Nil, role_ids |-> Nil]),
             With_(m, t, [invited_by_user_id |-> Nil, role_ids |-> Nil]),
             With_(m, t, [invited_by_user_id |-> "u", role_ids |-> "r"])}
      [] m = "AcceptInvitation" -> {[token |-> x] : x \in {"invitation", "i3", "guess"}}
      [] m = "ListUsers" -> {[status_filter |-> x] : x \in {Nil, "active"}}
      [] m = "RegisterScope" ->
            {With_(m, t, [name |-> n, registered_by |-> "one"]) : n \in {"known", "new", "malformed", "org:read"}}
            \union {With_(m, t, [name |-> "known", registered_by |-> "two"]),
                    With_(m, t, [name |-> "org:read", registered_by |-> "codevaldorg"])}
      [] m = "GrantMembership" -> {With_(m, t, [user_id |-> "u", role_id |-> "r"]),
                                  With_(m, t, [user_id |-> "s", role_id |-> "key"])}
      [] m = "ListMemberships" -> {[user_id |-> x] : x \in {Nil, "u"}}
      [] m = "CreateOAuthClient" ->
            {With_(m, t, [client_type |-> "public", redirect_uris |-> Nil, allowed_scope_ids |-> Nil]),
             With_(m, t, [client_type |-> "confidential", allowed_scope_ids |-> "s"])}
      [] m = "Revoke" -> {[token |-> t, reason |-> x] : x \in {Nil, "admin_revoke"}}
      [] m = "ListAuditEvents" -> {Body(m, {}, t)}
      [] OTHER -> {Body(m, Fields[m], t)}

TwoBodies == [n \in 1..2 |-> [m \in Methods |-> BodiesOf(m, Text[n])]]

\* Environments: what the threads say, a variable that is missing, a life that is none.
Env(given, threads, life) ==
    [set |-> given, given |-> given, time |-> Unset, memory |-> Unset, threads |-> threads,
     ttl |-> [x \in Ttls |-> life]]
SomeInputs ==
    {Env(Required, n, Unset) : n \in {Unset, Garbage, 0, 4, 256, 260}}
    \union {Env(Required, 4, 0), Env(Required \ {"CROSS_ENDPOINT"}, 4, Unset),
            Env({"CROSS_ENDPOINT", "ARANGO_PASSWORD"}, 4, Unset)}

=============================================================================
