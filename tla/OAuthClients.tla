------------------------------ MODULE OAuthClients ------------------------------
(***************************************************************************)
(* The registry of OAuth clients: CreateOAuthClient, RotateClientSecret    *)
(* and DeleteOAuthClient (src/oauth_clients.go), executed concurrently     *)
(* over EntityStore.                                                       *)
(*                                                                         *)
(* A call of CreateOAuthClient creates at most one OAuthClient, named by   *)
(* the call (client_id is a UUID, so no two clients share one), one        *)
(* RedirectURI and one edge for each URI of the request, and one edge for  *)
(* each of its scopes.  It and RotateClientSecret create at most one       *)
(* ClientSecret each, named by the call too.                               *)
(***************************************************************************)
EXTENDS EntityStore, Sequences

CONSTANTS
    Creates,    \* the calls of CreateOAuthClient
    Rotates,    \* the calls of RotateClientSecret
    Deletes,    \* the calls of DeleteOAuthClient
    UriLists,   \* the lists of redirect URIs that requests carry
    ScopeLists, \* the lists of scope ids that requests carry
    MaxFaults   \* bound: failing store calls and crashes in a behaviour

Calls   == Creates \union Rotates \union Deletes
Secrets == Creates \union Rotates

ASSUME OAuthClientsAssumption ==
    /\ MaxFaults \in Nat
    /\ Creates \intersect Rotates = {}
    /\ Deletes \intersect (Creates \union Rotates) = {}
    /\ \A l \in UriLists \union ScopeLists : Len(l) \in Nat

VARIABLES
    client,    \* each OAuthClient: not created, in the store, or soft-deleted
    uris,      \* how many RedirectURIs of its request are in the store
    uriEdges,  \* how many has_redirect_uri edges are
    scopes,    \* how many allows_scope edges are
    secret,    \* each ClientSecret is in the store
    holder,    \* the clients its has_client_secret edges come from
    pc,        \* where each call is
    req,       \* the request of each CreateOAuthClient call
    aim,       \* the client a Rotate or Delete call read
    gone,      \* history: the clients whose deletion had returned when it looked
    faults     \* failures and crashes so far

store == <<client, uris, uriEdges, scopes, secret, holder>>
calls == <<pc, req, aim, gone>>
vars  == <<store, calls, faults>>

-----------------------------------------------------------------------------

Requests  == [type : {"public", "confidential"}, uris : UriLists, scopes : ScopeLists]
NoRequest == [type |-> "public", uris |-> <<>>, scopes |-> <<>>]
Lifecycle == {"none", "live", "deleted"}

Busy == {"uri", "uriEdge", "scope", "secret", "secretEdge", "delete"}
Done == {"ok", "notFound", "unavailable", "crashed"}

MayFault(outcome) == faults + FaultCost(outcome) <= MaxFaults
Fault(outcome)    == faults' = faults + FaultCost(outcome)

\* Mutant: the error of the store is returned as it is.
ProceedRaw(x, outcome, place) ==
    pc' = [pc EXCEPT ![x] = IF outcome = "ok" THEN place ELSE outcome]

\* A call goes on when the store answers, and ends with ErrTemporarilyUnavailable if not.
Proceed(x, outcome, place) ==
    pc' = [pc EXCEPT ![x] = IF outcome = "ok" THEN place ELSE "unavailable"]

\* The client a call adds a secret to.
ClientOf(x) == IF x \in Creates THEN {x} ELSE aim[x]

\* The library may refuse to touch a client that has been soft-deleted meanwhile: that
\* is not known here, and costs no fault.
Refusable(o, c) == o = "fail" /\ client[c] = "deleted"
Pays(o, c) == IF Refusable(o, c) THEN UNCHANGED faults ELSE MayFault(o) /\ Fault(o)

-----------------------------------------------------------------------------
(* CreateOAuthClient *)

\* Where a call goes from the loop over the URIs and from the loop over the scopes.
FromScopes(r, n) == IF n < Len(r.scopes) THEN "scope"
                    ELSE IF r.type = "confidential" THEN "secret" ELSE "ok"

\* Mutant: the loop over the URIs stops before the last.
FromUrisShort(r, n) == IF n + 1 < Len(r.uris) THEN "uri" ELSE FromScopes(r, 0)

FromUris(r, n)   == IF n < Len(r.uris) THEN "uri" ELSE FromScopes(r, 0)

\* Create the OAuthClient.
CreateClient(c) ==
    /\ pc[c] = "idle"
    /\ \E r \in Requests, o \in WriteOutcome :
        /\ MayFault(o) /\ Fault(o)
        /\ req' = [req EXCEPT ![c] = r]
        /\ client' = IF Applied(o) THEN [client EXCEPT ![c] = "live"] ELSE client
        /\ Proceed(c, o, FromUris(r, 0))
    /\ UNCHANGED <<uris, uriEdges, scopes, secret, holder, aim, gone>>

\* Mutant: all the URIs are created before the first edge.
CreateUriAhead(c) ==
    /\ pc[c] = "uri"
    /\ \E o \in WriteOutcome :
        /\ MayFault(o) /\ Fault(o)
        /\ uris' = IF Applied(o) THEN [uris EXCEPT ![c] = @ + 1] ELSE uris
        /\ Proceed(c, o, IF uris[c] + 1 < Len(req[c].uris) THEN "uri" ELSE "uriEdge")
    /\ UNCHANGED <<client, uriEdges, scopes, secret, holder, req, aim, gone>>

\* Create the RedirectURI of one iteration.
CreateUri(c) ==
    /\ pc[c] = "uri"
    /\ \E o \in WriteOutcome :
        /\ MayFault(o) /\ Fault(o)
        /\ uris' = IF Applied(o) THEN [uris EXCEPT ![c] = @ + 1] ELSE uris
        /\ Proceed(c, o, "uriEdge")
    /\ UNCHANGED <<client, uriEdges, scopes, secret, holder, req, aim, gone>>

\* Edge OAuthClient -> has_redirect_uri -> RedirectURI, in the same iteration.
CreateUriEdge(c) ==
    /\ pc[c] = "uriEdge"
    /\ \E o \in WriteOutcome :
        /\ Pays(o, c)
        /\ uriEdges' = IF Applied(o) THEN [uriEdges EXCEPT ![c] = @ + 1] ELSE uriEdges
        /\ Proceed(c, o, FromUris(req[c], uris[c]))
    /\ UNCHANGED <<client, uris, scopes, secret, holder, req, aim, gone>>

\* Edge OAuthClient -> allows_scope -> Scope, one iteration.
CreateScopeEdge(c) ==
    /\ pc[c] = "scope"
    /\ \E o \in WriteOutcome :
        /\ Pays(o, c)
        /\ scopes' = IF Applied(o) THEN [scopes EXCEPT ![c] = @ + 1] ELSE scopes
        /\ Proceed(c, o, FromScopes(req[c], scopes[c] + 1))
    /\ UNCHANGED <<client, uris, uriEdges, secret, holder, req, aim, gone>>

-----------------------------------------------------------------------------
(* createClientSecret, of CreateOAuthClient and of RotateClientSecret *)

\* Generate and hash the secret, which may fail too, and create the ClientSecret.
CreateSecret(x) ==
    /\ pc[x] = "secret"
    /\ \E o \in WriteOutcome :
        /\ MayFault(o) /\ Fault(o)
        /\ secret' = [secret EXCEPT ![x] = Applied(o)]
        /\ Proceed(x, o, "secretEdge")
    /\ UNCHANGED <<client, uris, uriEdges, scopes, holder, req, aim, gone>>

\* Edge OAuthClient -> has_client_secret -> ClientSecret; the plaintext is returned.
LinkSecret(x) ==
    /\ pc[x] = "secretEdge"
    /\ \E o \in WriteOutcome, c \in ClientOf(x) :
        /\ Pays(o, c)
        /\ holder' = IF Applied(o) THEN [holder EXCEPT ![x] = @ \union {c}] ELSE holder
        /\ Proceed(x, o, "ok")
    /\ UNCHANGED <<client, uris, uriEdges, scopes, secret, req, aim, gone>>

-----------------------------------------------------------------------------
(* RotateClientSecret, DeleteOAuthClient *)

\* Mutant: a soft-deleted client is still found.
FindDeletedToo(x, place) ==
    /\ pc[x] = "idle"
    /\ \E c \in Creates, o \in ReadOutcome :
        /\ MayFault(o) /\ Fault(o)
        /\ aim' = [aim EXCEPT ![x] = {c}]
        /\ gone' = [gone EXCEPT ![x] =
              {a \in Creates : \E d \in Deletes : pc[d] = "ok" /\ aim[d] = {a}}]
        /\ pc' = [pc EXCEPT ![x] = IF o = "ok" /\ client[c] # "none" THEN place ELSE "notFound"]
    /\ UNCHANGED <<store, req>>

\* Look for the client by its client_id; a store that fails is ErrOAuthClientNotFound.
Find(x, place) ==
    /\ pc[x] = "idle"
    /\ \E c \in Creates, o \in ReadOutcome :
        /\ MayFault(o) /\ Fault(o)
        /\ aim' = [aim EXCEPT ![x] = {c}]
        /\ gone' = [gone EXCEPT ![x] =
              {a \in Creates : \E d \in Deletes : pc[d] = "ok" /\ aim[d] = {a}}]
        /\ pc' = [pc EXCEPT ![x] = IF o = "ok" /\ client[c] = "live" THEN place ELSE "notFound"]
    /\ UNCHANGED <<store, req>>

RotateFind(r) == Find(r, "secret")
DeleteFind(d) == Find(d, "delete")

\* DeleteEntity on the client; its URIs, its secrets and its edges stay.
DeleteWrite(d) ==
    /\ pc[d] = "delete"
    /\ \E o \in WriteOutcome, c \in aim[d] :
        /\ Pays(o, c)
        /\ client' = IF Applied(o) THEN [client EXCEPT ![c] = "deleted"] ELSE client
        /\ Proceed(d, o, "ok")
    /\ UNCHANGED <<uris, uriEdges, scopes, secret, holder, req, aim, gone>>

-----------------------------------------------------------------------------

\* The server process dies: every call in progress ends where it is.
Crash ==
    /\ faults < MaxFaults
    /\ \E x \in Calls : pc[x] \in Busy
    /\ faults' = faults + 1
    /\ pc' = [x \in Calls |-> IF pc[x] \in Busy THEN "crashed" ELSE pc[x]]
    /\ UNCHANGED <<store, req, aim, gone>>

\* Every call has returned: nothing is left to do.
Finished ==
    /\ \A x \in Calls : pc[x] \in Done
    /\ UNCHANGED vars

Init ==
    /\ client = [c \in Creates |-> "none"]
    /\ uris = [c \in Creates |-> 0]
    /\ uriEdges = [c \in Creates |-> 0]
    /\ scopes = [c \in Creates |-> 0]
    /\ secret = [x \in Secrets |-> FALSE]
    /\ holder = [x \in Secrets |-> {}]
    /\ pc = [x \in Calls |-> "idle"]
    /\ req = [c \in Creates |-> NoRequest]
    /\ aim = [x \in Calls |-> {}]
    /\ gone = [x \in Calls |-> {}]
    /\ faults = 0

Next ==
    \/ \E c \in Creates : CreateClient(c) \/ CreateUri(c) \/ CreateUriEdge(c) \/ CreateScopeEdge(c)
    \/ \E x \in Secrets : CreateSecret(x) \/ LinkSecret(x)
    \/ \E r \in Rotates : RotateFind(r)
    \/ \E d \in Deletes : DeleteFind(d) \/ DeleteWrite(d)
    \/ Crash
    \/ Finished

Spec == Init /\ [][Next]_vars

-----------------------------------------------------------------------------
(* Properties *)

\* Every variable holds a value of its kind.
TypeOK ==
    /\ client \in [Creates -> Lifecycle]
    /\ uris \in [Creates -> Nat]
    /\ uriEdges \in [Creates -> Nat]
    /\ scopes \in [Creates -> Nat]
    /\ secret \in [Secrets -> BOOLEAN]
    /\ holder \in [Secrets -> SUBSET Creates]
    /\ pc \in [Calls -> {"idle"} \union Busy \union Done]
    /\ req \in [Creates -> Requests \union {NoRequest}]
    /\ aim \in [Calls -> SUBSET Creates]
    /\ gone \in [Calls -> SUBSET Creates]
    /\ faults \in 0..MaxFaults

\* A client that CreateOAuthClient returns has every URI and scope of its request, and a
\* secret if it is confidential, even if other calls rotate or delete it meanwhile.
CreatedIsComplete ==
    \A c \in Creates : pc[c] = "ok" =>
        /\ uris[c] = Len(req[c].uris) /\ uriEdges[c] = uris[c]
        /\ scopes[c] = Len(req[c].scopes)
        /\ req[c].type = "confidential" => (secret[c] /\ holder[c] = {c})

\* No step leaves more than one RedirectURI without its edge: the loop links each URI
\* before it creates the next, wherever the call fails or the process dies.
AtMostOneLooseUri ==
    \A c \in Creates : uris[c] \in {uriEdges[c], uriEdges[c] + 1}

\* A secret that RotateClientSecret returns is stored, is of one client, and of a client
\* whose deletion had not returned when the call looked for it.
RotatedIsHeld ==
    \A r \in Rotates : pc[r] = "ok" =>
        secret[r] /\ holder[r] = aim[r] /\ aim[r] \intersect gone[r] = {}

=============================================================================
