--------------------------- MODULE OAuthClientsProofs ---------------------------
(* Theorems about OAuthClients, for any calls, lists and number of faults. *)
EXTENDS OAuthClients, TLAPS

\* A call that has not begun has written nothing.
Unborn ==
    \A x \in Calls : pc[x] = "idle" =>
        /\ x \in Creates => client[x] = "none" /\ uris[x] = 0 /\ uriEdges[x] = 0 /\ scopes[x] = 0
        /\ x \in Secrets => holder[x] = {}

\* Where a creation is tells what of its request is in the store: each loop has done the
\* iterations before the one it is in, and all of them once it has been left.
UrisCounted ==
    \A c \in Creates :
        /\ pc[c] = "uri" => uris[c] = uriEdges[c] /\ uris[c] < Len(req[c].uris)
        /\ pc[c] = "uriEdge" => uris[c] = uriEdges[c] + 1 /\ uris[c] <= Len(req[c].uris)
        /\ pc[c] \in {"scope", "secret", "secretEdge", "ok"} =>
              uris[c] = Len(req[c].uris) /\ uriEdges[c] = uris[c]

\* The same of the loop over the scopes, which has not begun during the loop over the URIs.
ScopesCounted ==
    \A c \in Creates :
        /\ pc[c] \in {"uri", "uriEdge"} => scopes[c] = 0
        /\ pc[c] = "scope" => scopes[c] < Len(req[c].scopes)
        /\ pc[c] \in {"secret", "secretEdge", "ok"} => scopes[c] = Len(req[c].scopes)

\* A secret is written before its edge, its edge before the call returns, and no edge of
\* it comes from another client than the one the call is about.
Held ==
    \A x \in Secrets :
        /\ holder[x] \subseteq ClientOf(x)
        /\ pc[x] = "secretEdge" => secret[x]
        /\ x \in Creates /\ pc[x] = "ok" /\ req[x].type = "confidential" =>
              secret[x] /\ holder[x] = {x}
        /\ x \in Rotates /\ pc[x] = "ok" => secret[x] /\ holder[x] = aim[x]

\* A rotation goes on with the one client it found, whose deletion had not returned; a
\* deletion goes on with one that was created, which it has deleted when it returns.
Aimed ==
    /\ \A r \in Rotates : pc[r] \in {"secret", "secretEdge", "ok"} =>
          (\E c \in Creates : aim[r] = {c}) /\ aim[r] \intersect gone[r] = {}
    /\ \A d \in Deletes :
          /\ pc[d] \in {"delete", "ok"} => \E c \in Creates : aim[d] = {c} /\ client[c] # "none"
          /\ pc[d] = "ok" => \A c \in aim[d] : client[c] = "deleted"

IInv == TypeOK /\ Unborn /\ UrisCounted /\ ScopesCounted /\ AtMostOneLooseUri /\ Held /\ Aimed

-----------------------------------------------------------------------------

LEMMA InitIInv == Init => IInv
<1> SUFFICES ASSUME Init PROVE IInv
  OBVIOUS
<1>1. TypeOK
  BY OAuthClientsAssumption DEF Init, TypeOK, Lifecycle
<1>2. Unborn /\ UrisCounted /\ ScopesCounted /\ AtMostOneLooseUri /\ Held /\ Aimed
  BY DEF Init, Unborn, UrisCounted, ScopesCounted, AtMostOneLooseUri, Held, Aimed, Calls, Secrets,
         ClientOf
<1> QED BY <1>1, <1>2 DEF IInv

\* The three kinds of calls have no call in common.
LEMMA Apart ==
    /\ Creates \intersect Rotates = {} /\ Creates \intersect Deletes = {}
    /\ Rotates \intersect Deletes = {}
BY OAuthClientsAssumption

\* A request has a type and two lists whose length is a number.
LEMMA RequestLengths ==
    ASSUME NEW r \in Requests \union {NoRequest}
    PROVE  /\ r.type \in {"public", "confidential"}
           /\ Len(r.uris) \in Nat /\ Len(r.scopes) \in Nat
BY OAuthClientsAssumption DEF Requests, NoRequest

\* The budget of faults is kept by every step that spends from it.
LEMMA FaultStep ==
    ASSUME NEW o \in {"ok", "lost", "fail"}, faults \in 0..MaxFaults, MayFault(o), Fault(o)
    PROVE  faults' \in 0..MaxFaults
BY OAuthClientsAssumption DEF MayFault, Fault, FaultCost

LEMMA PaysStep ==
    ASSUME NEW o \in {"ok", "lost", "fail"}, NEW c, faults \in 0..MaxFaults, Pays(o, c)
    PROVE  faults' \in 0..MaxFaults
BY FaultStep DEF Pays

\* Where a call goes is a place of a call.
LEMMA ProceedTypes ==
    ASSUME pc \in [Calls -> {"idle"} \union Busy \union Done], NEW x \in Calls, NEW o,
           NEW place \in Busy \union Done, Proceed(x, o, place)
    PROVE  pc' \in [Calls -> {"idle"} \union Busy \union Done]
BY DEF Proceed, Done

LEMMA FromPlaces ==
    ASSUME NEW r, NEW n
    PROVE  /\ FromScopes(r, n) \in {"scope", "secret", "ok"}
           /\ FromUris(r, n) \in {"uri", "scope", "secret", "ok"}
BY DEF FromScopes, FromUris

\* Every step keeps the types.
LEMMA TypeStep == TypeOK /\ [Next]_vars => TypeOK'
<1> SUFFICES ASSUME TypeOK, [Next]_vars PROVE TypeOK'
  OBVIOUS
<1> USE DEF TypeOK, ReadOutcome, WriteOutcome, store, Applied
<1>0. Creates \subseteq Calls /\ Secrets \subseteq Calls /\ Deletes \subseteq Calls
      /\ Rotates \subseteq Calls
  BY DEF Calls, Secrets
<1>1. ASSUME NEW c \in Creates, CreateClient(c) PROVE TypeOK'
  <2>1. PICK r \in Requests, o \in WriteOutcome :
          /\ MayFault(o) /\ Fault(o)
          /\ req' = [req EXCEPT ![c] = r]
          /\ client' = IF Applied(o) THEN [client EXCEPT ![c] = "live"] ELSE client
          /\ Proceed(c, o, FromUris(r, 0))
    BY <1>1 DEF CreateClient
  <2>2. faults' \in 0..MaxFaults
    BY <2>1, FaultStep
  <2>3. pc' \in [Calls -> {"idle"} \union Busy \union Done]
    BY <1>0, <2>1, FromPlaces, ProceedTypes DEF Busy, Done
  <2> QED BY <1>1, <2>1, <2>2, <2>3 DEF CreateClient, Lifecycle
<1>2. ASSUME NEW c \in Creates, CreateUri(c) PROVE TypeOK'
  <2>1. faults' \in 0..MaxFaults
    BY <1>2, FaultStep DEF CreateUri
  <2>2. pc' \in [Calls -> {"idle"} \union Busy \union Done]
    BY <1>0, <1>2, ProceedTypes DEF CreateUri, Busy, Done
  <2> QED BY <1>2, <2>1, <2>2 DEF CreateUri
<1>3. ASSUME NEW c \in Creates, CreateUriEdge(c) PROVE TypeOK'
  <2>1. faults' \in 0..MaxFaults
    BY <1>3, PaysStep DEF CreateUriEdge
  <2>2. pc' \in [Calls -> {"idle"} \union Busy \union Done]
    BY <1>0, <1>3, FromPlaces, ProceedTypes DEF CreateUriEdge, Busy, Done
  <2> QED BY <1>3, <2>1, <2>2 DEF CreateUriEdge
<1>4. ASSUME NEW c \in Creates, CreateScopeEdge(c) PROVE TypeOK'
  <2>1. faults' \in 0..MaxFaults
    BY <1>4, PaysStep DEF CreateScopeEdge
  <2>2. pc' \in [Calls -> {"idle"} \union Busy \union Done]
    BY <1>0, <1>4, FromPlaces, ProceedTypes DEF CreateScopeEdge, Busy, Done
  <2> QED BY <1>4, <2>1, <2>2 DEF CreateScopeEdge
<1>5. ASSUME NEW x \in Secrets, CreateSecret(x) PROVE TypeOK'
  <2>1. faults' \in 0..MaxFaults
    BY <1>5, FaultStep DEF CreateSecret
  <2>2. pc' \in [Calls -> {"idle"} \union Busy \union Done]
    BY <1>0, <1>5, ProceedTypes DEF CreateSecret, Busy, Done
  <2> QED BY <1>5, <2>1, <2>2 DEF CreateSecret
<1>6. ASSUME NEW x \in Secrets, LinkSecret(x) PROVE TypeOK'
  <2>1. faults' \in 0..MaxFaults
    BY <1>6, PaysStep DEF LinkSecret
  <2>2. pc' \in [Calls -> {"idle"} \union Busy \union Done]
    BY <1>0, <1>6, ProceedTypes DEF LinkSecret, Busy, Done
  <2>3. ClientOf(x) \subseteq Creates
    BY <1>0 DEF ClientOf
  <2> QED BY <1>6, <2>1, <2>2, <2>3 DEF LinkSecret
<1>7. ASSUME NEW x \in Calls, NEW place \in Busy, Find(x, place) PROVE TypeOK'
  <2>1. faults' \in 0..MaxFaults
    BY <1>7, FaultStep DEF Find
  <2>2. pc' \in [Calls -> {"idle"} \union Busy \union Done]
    BY <1>7 DEF Find, Done
  <2> QED BY <1>7, <2>1, <2>2 DEF Find
<1>8. ASSUME NEW d \in Deletes, DeleteWrite(d) PROVE TypeOK'
  <2>1. faults' \in 0..MaxFaults
    BY <1>8, PaysStep DEF DeleteWrite
  <2>2. pc' \in [Calls -> {"idle"} \union Busy \union Done]
    BY <1>0, <1>8, ProceedTypes DEF DeleteWrite, Busy, Done
  <2> QED BY <1>8, <2>1, <2>2 DEF DeleteWrite, Lifecycle
<1>9. CASE Crash
  BY <1>9, OAuthClientsAssumption DEF Crash, Done
<1>10. CASE UNCHANGED vars
  BY <1>10 DEF vars, calls
<1>11. "secret" \in Busy /\ "delete" \in Busy
  BY DEF Busy
<1> QED
  BY <1>0, <1>1, <1>2, <1>3, <1>4, <1>5, <1>6, <1>7, <1>8, <1>9, <1>10, <1>11
  DEF Next, Finished, RotateFind, DeleteFind

\* What a creation has written: a step of the creation c says nothing of the other calls,
\* so that it keeps the invariant if it keeps it for c.
LEMMA CreationStep ==
    ASSUME IInv, TypeOK', NEW c \in Creates, pc[c] \notin Done,
           UNCHANGED <<secret, holder, aim, gone>>,
           \A x \in Calls : x # c => pc'[x] = pc[x],
           \A x \in Creates : x # c =>
              /\ client'[x] = client[x] /\ uris'[x] = uris[x] /\ uriEdges'[x] = uriEdges[x]
              /\ scopes'[x] = scopes[x] /\ req'[x] = req[x],
           client'[c] = client[c] \/ pc[c] = "idle",
           pc'[c] \notin {"idle", "secretEdge"},
           pc'[c] = "ok" => req'[c].type # "confidential",
           uris'[c] \in {uriEdges'[c], uriEdges'[c] + 1},
           pc'[c] = "uri" => uris'[c] = uriEdges'[c] /\ uris'[c] < Len(req'[c].uris),
           pc'[c] = "uriEdge" => uris'[c] = uriEdges'[c] + 1 /\ uris'[c] <= Len(req'[c].uris),
           pc'[c] \in {"scope", "secret", "ok"} =>
              uris'[c] = Len(req'[c].uris) /\ uriEdges'[c] = uris'[c],
           pc'[c] \in {"uri", "uriEdge"} => scopes'[c] = 0,
           pc'[c] = "scope" => scopes'[c] < Len(req'[c].scopes),
           pc'[c] \in {"secret", "ok"} => scopes'[c] = Len(req'[c].scopes)
    PROVE  IInv'
<1>0. TypeOK /\ Unborn /\ UrisCounted /\ ScopesCounted /\ AtMostOneLooseUri /\ Held /\ Aimed
  BY DEF IInv
<1>1. c \in Calls /\ c \notin Rotates /\ c \notin Deletes
  BY Apart DEF Calls
<1>2. Unborn'
  BY <1>0, <1>1 DEF Unborn
<1>3. UrisCounted'
  BY <1>0 DEF UrisCounted, Calls
<1>4. ScopesCounted'
  BY <1>0 DEF ScopesCounted, Calls
<1>5. AtMostOneLooseUri'
  BY <1>0 DEF AtMostOneLooseUri
<1>6. Held'
  BY <1>0, <1>1 DEF Held, ClientOf, Secrets, Calls
<1>7. Aimed'
  <2>1. \A r \in Rotates : pc'[r] = pc[r]
    BY <1>1 DEF Calls
  <2>2. \A d \in Deletes : pc'[d] = pc[d]
    BY <1>1 DEF Calls
  <2>3. \A d \in Deletes : pc[d] = "ok" => aim[d] \subseteq Creates
    BY <1>0 DEF Aimed
  <2>4. \A x \in Creates : /\ client[x] = "deleted" => client'[x] = "deleted"
                           /\ client[x] # "none" => client'[x] = client[x]
    BY <1>0, <1>1 DEF Unborn
  <2> QED BY <1>0, <2>1, <2>2, <2>3, <2>4 DEF Aimed
<1> QED BY <1>2, <1>3, <1>4, <1>5, <1>6, <1>7 DEF IInv

\* The steps of a creation.
LEMMA CreateStep ==
    ASSUME IInv, TypeOK', NEW c \in Creates,
           CreateClient(c) \/ CreateUri(c) \/ CreateUriEdge(c) \/ CreateScopeEdge(c)
    PROVE  IInv'
<1>0. TypeOK /\ Unborn /\ UrisCounted /\ ScopesCounted /\ AtMostOneLooseUri
  BY DEF IInv
<1>1. /\ c \in Calls /\ req[c] \in Requests \union {NoRequest}
      /\ uris[c] \in Nat /\ uriEdges[c] \in Nat /\ scopes[c] \in Nat
  BY <1>0 DEF TypeOK, Calls
<1>2. Len(req[c].uris) \in Nat /\ Len(req[c].scopes) \in Nat
  BY <1>1, RequestLengths
<1>3. CASE CreateClient(c)
  <2>1. PICK r \in Requests, o \in WriteOutcome :
          /\ req' = [req EXCEPT ![c] = r]
          /\ client' = IF Applied(o) THEN [client EXCEPT ![c] = "live"] ELSE client
          /\ Proceed(c, o, FromUris(r, 0))
    BY <1>3 DEF CreateClient
  <2>2. Len(r.uris) \in Nat /\ Len(r.scopes) \in Nat
    BY RequestLengths
  <2>3. /\ pc[c] = "idle" /\ UNCHANGED <<uris, uriEdges, scopes, secret, holder, aim, gone>>
        /\ uris[c] = 0 /\ uriEdges[c] = 0 /\ scopes[c] = 0
    BY <1>0, <1>1, <1>3 DEF CreateClient, Unborn
  <2>4. req'[c] = r /\ pc'[c] = IF o = "ok" THEN FromUris(r, 0) ELSE "unavailable"
    BY <1>0, <1>1, <2>1 DEF TypeOK, Proceed
  <2>5. \A x \in Calls : x # c => pc'[x] = pc[x]
    BY <1>0, <2>1 DEF TypeOK, Proceed
  <2>6. \A x \in Creates : x # c => client'[x] = client[x] /\ req'[x] = req[x]
    BY <1>0, <2>1 DEF TypeOK
  <2> QED
    BY <1>0, <2>2, <2>3, <2>4, <2>5, <2>6, CreationStep DEF FromUris, FromScopes, Done
<1>4. CASE CreateUri(c)
  <2>1. PICK o \in WriteOutcome :
          /\ uris' = IF Applied(o) THEN [uris EXCEPT ![c] = @ + 1] ELSE uris
          /\ Proceed(c, o, "uriEdge")
    BY <1>4 DEF CreateUri
  <2>2. /\ pc[c] = "uri" /\ UNCHANGED <<client, uriEdges, scopes, secret, holder, req, aim, gone>>
        /\ uris[c] = uriEdges[c] /\ uris[c] < Len(req[c].uris) /\ scopes[c] = 0
    BY <1>0, <1>4 DEF CreateUri, UrisCounted, ScopesCounted
  <2>3. /\ pc'[c] = IF o = "ok" THEN "uriEdge" ELSE "unavailable"
        /\ uris'[c] = IF Applied(o) THEN uris[c] + 1 ELSE uris[c]
    BY <1>0, <1>1, <2>1 DEF TypeOK, Proceed
  <2>4. \A x \in Calls : x # c => pc'[x] = pc[x]
    BY <1>0, <2>1 DEF TypeOK, Proceed
  <2>5. \A x \in Creates : x # c => uris'[x] = uris[x]
    BY <1>0, <2>1 DEF TypeOK
  <2> QED
    BY <1>1, <1>2, <2>2, <2>3, <2>4, <2>5, CreationStep DEF Applied, Done
<1>5. CASE CreateUriEdge(c)
  <2>1. PICK o \in WriteOutcome :
          /\ uriEdges' = IF Applied(o) THEN [uriEdges EXCEPT ![c] = @ + 1] ELSE uriEdges
          /\ Proceed(c, o, FromUris(req[c], uris[c]))
    BY <1>5 DEF CreateUriEdge
  <2>2. /\ pc[c] = "uriEdge" /\ UNCHANGED <<client, uris, scopes, secret, holder, req, aim, gone>>
        /\ uris[c] = uriEdges[c] + 1 /\ uris[c] <= Len(req[c].uris) /\ scopes[c] = 0
    BY <1>0, <1>5 DEF CreateUriEdge, UrisCounted, ScopesCounted
  <2>3. /\ pc'[c] = IF o = "ok" THEN FromUris(req[c], uris[c]) ELSE "unavailable"
        /\ uriEdges'[c] = IF Applied(o) THEN uriEdges[c] + 1 ELSE uriEdges[c]
    BY <1>0, <1>1, <2>1 DEF TypeOK, Proceed
  <2>4. \A x \in Calls : x # c => pc'[x] = pc[x]
    BY <1>0, <2>1 DEF TypeOK, Proceed
  <2>5. \A x \in Creates : x # c => uriEdges'[x] = uriEdges[x]
    BY <1>0, <2>1 DEF TypeOK
  <2> QED
    BY <1>1, <1>2, <2>2, <2>3, <2>4, <2>5, CreationStep
    DEF Applied, FromUris, FromScopes, Done
<1>6. CASE CreateScopeEdge(c)
  <2>1. PICK o \in WriteOutcome :
          /\ scopes' = IF Applied(o) THEN [scopes EXCEPT ![c] = @ + 1] ELSE scopes
          /\ Proceed(c, o, FromScopes(req[c], scopes[c] + 1))
    BY <1>6 DEF CreateScopeEdge
  <2>2. /\ pc[c] = "scope" /\ UNCHANGED <<client, uris, uriEdges, secret, holder, req, aim, gone>>
        /\ uris[c] = Len(req[c].uris) /\ uriEdges[c] = uris[c] /\ scopes[c] < Len(req[c].scopes)
    BY <1>0, <1>6 DEF CreateScopeEdge, UrisCounted, ScopesCounted
  <2>3. /\ pc'[c] = IF o = "ok" THEN FromScopes(req[c], scopes[c] + 1) ELSE "unavailable"
        /\ scopes'[c] = IF Applied(o) THEN scopes[c] + 1 ELSE scopes[c]
    BY <1>0, <1>1, <2>1 DEF TypeOK, Proceed
  <2>4. \A x \in Calls : x # c => pc'[x] = pc[x]
    BY <1>0, <2>1 DEF TypeOK, Proceed
  <2>5. \A x \in Creates : x # c => scopes'[x] = scopes[x]
    BY <1>0, <2>1 DEF TypeOK
  <2> QED
    BY <1>1, <1>2, <2>2, <2>3, <2>4, <2>5, CreationStep DEF Applied, FromScopes, Done
<1> QED BY <1>3, <1>4, <1>5, <1>6

\* The writes of a secret and of its edge, of a creation or of a rotation.
LEMMA SecretStep ==
    ASSUME IInv, TypeOK', NEW x \in Secrets, CreateSecret(x) \/ LinkSecret(x)
    PROVE  IInv'
<1>0. TypeOK /\ Unborn /\ UrisCounted /\ ScopesCounted /\ AtMostOneLooseUri /\ Held /\ Aimed
  BY DEF IInv
<1>1. x \in Calls /\ x \notin Deletes
  BY Apart DEF Calls, Secrets
<1>2. UNCHANGED <<client, uris, uriEdges, scopes, req, aim, gone>>
  BY DEF CreateSecret, LinkSecret
<1>3. /\ \A y \in Calls : y # x => pc'[y] = pc[y]
      /\ \/ pc[x] = "secret" /\ pc'[x] \in {"secretEdge", "unavailable"}
         \/ pc[x] = "secretEdge" /\ pc'[x] \in {"ok", "unavailable"}
  BY <1>0, <1>1 DEF TypeOK, CreateSecret, LinkSecret, Proceed
<1>4. Unborn'
  <2>1. \A y \in Secrets : y # x => holder'[y] = holder[y]
    BY <1>0 DEF TypeOK, CreateSecret, LinkSecret
  <2> QED BY <1>0, <1>1, <1>2, <1>3, <2>1 DEF Unborn
<1>5. UrisCounted' /\ ScopesCounted' /\ AtMostOneLooseUri'
  BY <1>0, <1>2, <1>3 DEF UrisCounted, ScopesCounted, AtMostOneLooseUri, Calls
<1>6. Held'
  <2>1. \A y \in Secrets : ClientOf(y)' = ClientOf(y)
    BY <1>2 DEF ClientOf
  <2>2. \A y \in Secrets : y # x => secret'[y] = secret[y] /\ holder'[y] = holder[y]
    BY <1>0 DEF TypeOK, CreateSecret, LinkSecret
  <2>3. CASE CreateSecret(x)
    <3>1. holder'[x] = holder[x] /\ pc'[x] # "ok"
      BY <1>0, <1>1, <2>3 DEF TypeOK, CreateSecret, Proceed
    <3>2. pc'[x] = "secretEdge" => secret'[x]
      <4>1. PICK o \in WriteOutcome :
              secret' = [secret EXCEPT ![x] = Applied(o)] /\ Proceed(x, o, "secretEdge")
        BY <2>3 DEF CreateSecret
      <4>2. pc'[x] = IF o = "ok" THEN "secretEdge" ELSE "unavailable"
        BY <1>0, <1>1, <4>1 DEF TypeOK, Proceed
      <4>3. secret'[x] = Applied(o)
        BY <1>0, <4>1 DEF TypeOK
      <4> QED BY <4>2, <4>3 DEF Applied
    <3> QED BY <1>0, <1>2, <1>3, <2>1, <2>2, <3>1, <3>2 DEF Held, Secrets, Calls
  <2>4. CASE LinkSecret(x)
    <3>1. PICK o \in WriteOutcome, a \in ClientOf(x) :
            /\ holder' = IF Applied(o) THEN [holder EXCEPT ![x] = @ \union {a}] ELSE holder
            /\ Proceed(x, o, "ok")
      BY <2>4 DEF LinkSecret
    <3>2. /\ holder'[x] \subseteq ClientOf(x)
          /\ o = "ok" => a \in holder'[x]
      BY <1>0, <3>1 DEF TypeOK, Held, Applied
    <3>3. /\ secret'[x] = secret[x] /\ secret[x]
          /\ pc'[x] = IF o = "ok" THEN "ok" ELSE "unavailable"
      BY <1>0, <1>1, <2>4, <3>1 DEF TypeOK, LinkSecret, Held, Proceed
    <3>4. ClientOf(x) = {a}
      BY <1>0, <2>4, <3>1 DEF LinkSecret, ClientOf, Secrets, Aimed
    <3>5. pc'[x] = "ok" => holder'[x] = ClientOf(x)
      BY <3>2, <3>3, <3>4
    <3>6. x \in Rotates => ClientOf(x) = aim[x]
      BY Apart DEF ClientOf
    <3>7. x \in Creates => ClientOf(x) = {x}
      BY DEF ClientOf
    <3>8. pc'[x] # "secretEdge"
      BY <3>3
    <3> SUFFICES ASSUME NEW y \in Secrets
                 PROVE  /\ holder'[y] \subseteq ClientOf(y)'
                        /\ pc'[y] = "secretEdge" => secret'[y]
                        /\ y \in Creates /\ pc'[y] = "ok" /\ req'[y].type = "confidential" =>
                              secret'[y] /\ holder'[y] = {y}
                        /\ y \in Rotates /\ pc'[y] = "ok" => secret'[y] /\ holder'[y] = aim'[y]
      BY DEF Held
    <3>9. CASE y = x
      BY <1>2, <2>1, <3>2, <3>3, <3>5, <3>6, <3>7, <3>8, <3>9
    <3>10. CASE y # x
      BY <1>0, <1>2, <1>3, <2>1, <2>2, <3>10 DEF Held, Secrets, Calls
    <3> QED BY <3>9, <3>10
  <2> QED BY <2>3, <2>4
<1>7. Aimed'
  BY <1>0, <1>1, <1>2, <1>3 DEF Aimed, Calls
<1> QED BY <1>4, <1>5, <1>6, <1>7 DEF IInv

\* A rotation or a deletion looks for a client: what it finds alive is of no deletion that
\* has returned.
LEMMA FindStep ==
    ASSUME IInv, TypeOK', NEW x \in Rotates \union Deletes, NEW place \in {"secret", "delete"},
           x \in Rotates => place = "secret", x \in Deletes => place = "delete", Find(x, place)
    PROVE  IInv'
<1>0. TypeOK /\ Unborn /\ UrisCounted /\ ScopesCounted /\ AtMostOneLooseUri /\ Held /\ Aimed
  BY DEF IInv
<1>1. x \in Calls /\ x \notin Creates
  BY Apart DEF Calls
<1>2. PICK c \in Creates, o \in ReadOutcome :
        /\ aim' = [aim EXCEPT ![x] = {c}]
        /\ gone' = [gone EXCEPT ![x] =
              {a \in Creates : \E d \in Deletes : pc[d] = "ok" /\ aim[d] = {a}}]
        /\ pc' = [pc EXCEPT ![x] = IF o = "ok" /\ client[c] = "live" THEN place ELSE "notFound"]
  BY DEF Find
<1>3. pc[x] = "idle" /\ UNCHANGED <<client, uris, uriEdges, scopes, secret, holder, req>>
  BY DEF Find, store
<1>4. /\ aim'[x] = {c}
      /\ gone'[x] = {a \in Creates : \E d \in Deletes : pc[d] = "ok" /\ aim[d] = {a}}
      /\ pc'[x] = IF o = "ok" /\ client[c] = "live" THEN place ELSE "notFound"
      /\ \A y \in Calls : y # x => aim'[y] = aim[y] /\ gone'[y] = gone[y] /\ pc'[y] = pc[y]
  BY <1>0, <1>1, <1>2 DEF TypeOK
<1>5. Unborn'
  BY <1>0, <1>3, <1>4 DEF Unborn
<1>6. UrisCounted' /\ ScopesCounted' /\ AtMostOneLooseUri'
  BY <1>0, <1>1, <1>3, <1>4 DEF UrisCounted, ScopesCounted, AtMostOneLooseUri, Calls
<1>7. Held'
  <2>1. x \in Secrets => holder[x] = {}
    BY <1>0, <1>1, <1>3 DEF Unborn
  <2>2. \A y \in Secrets : y # x => ClientOf(y)' = ClientOf(y)
    BY <1>4 DEF ClientOf, Secrets, Calls
  <2>3. pc'[x] \notin {"ok", "secretEdge"}
    BY <1>4
  <2> QED BY <1>0, <1>1, <1>3, <1>4, <2>1, <2>2, <2>3 DEF Held, Secrets, Calls
<1>8. Aimed'
  <2>1. client[c] = "live" => c \notin gone'[x]
    BY <1>0, <1>4 DEF Aimed
  <2>2. x \in Rotates => x \notin Deletes
    BY Apart
  <2>3. ASSUME NEW r \in Rotates, pc'[r] \in {"secret", "secretEdge", "ok"}
        PROVE  (\E a \in Creates : aim'[r] = {a}) /\ aim'[r] \intersect gone'[r] = {}
    BY <1>0, <1>4, <2>1, <2>3 DEF Aimed, Calls
  <2>4. ASSUME NEW d \in Deletes
        PROVE  /\ pc'[d] \in {"delete", "ok"} =>
                     \E a \in Creates : aim'[d] = {a} /\ client'[a] # "none"
               /\ pc'[d] = "ok" => \A a \in aim'[d] : client'[a] = "deleted"
    BY <1>0, <1>3, <1>4 DEF Aimed, Calls
  <2> QED BY <2>3, <2>4 DEF Aimed
<1> QED BY <1>5, <1>6, <1>7, <1>8 DEF IInv

\* A deletion writes: the client it found exists, so that no creation revives it.
LEMMA DeleteStep ==
    ASSUME IInv, TypeOK', NEW x \in Deletes, DeleteWrite(x)
    PROVE  IInv'
<1>0. TypeOK /\ Unborn /\ UrisCounted /\ ScopesCounted /\ AtMostOneLooseUri /\ Held /\ Aimed
  BY DEF IInv
<1>1. x \in Calls /\ x \notin Creates /\ x \notin Rotates
  BY Apart DEF Calls
<1>2. PICK o \in WriteOutcome, c \in aim[x] :
        /\ client' = IF Applied(o) THEN [client EXCEPT ![c] = "deleted"] ELSE client
        /\ Proceed(x, o, "ok")
  BY DEF DeleteWrite
<1>3. /\ pc[x] = "delete"
      /\ UNCHANGED <<uris, uriEdges, scopes, secret, holder, req, aim, gone>>
  BY DEF DeleteWrite
<1>4. /\ pc'[x] = IF o = "ok" THEN "ok" ELSE "unavailable"
      /\ \A y \in Calls : y # x => pc'[y] = pc[y]
  BY <1>0, <1>1, <1>2 DEF TypeOK, Proceed
<1>5. aim[x] = {c} /\ c \in Creates
  BY <1>0, <1>2, <1>3 DEF Aimed
<1>6. /\ o = "ok" => client'[c] = "deleted"
      /\ client[c] # "none" => client'[c] # "none"
      /\ \A a \in Creates : client[a] = "deleted" => client'[a] = "deleted"
      /\ \A a \in Creates : a # c => client'[a] = client[a]
  BY <1>0, <1>2, <1>5 DEF TypeOK, Applied
<1>7. client[c] # "none" /\ pc[c] # "idle"
  BY <1>0, <1>3, <1>5 DEF Unborn, Aimed, Calls
<1>8. Unborn'
  BY <1>0, <1>1, <1>3, <1>4, <1>6, <1>7 DEF Unborn, Secrets
<1>9. UrisCounted' /\ ScopesCounted' /\ AtMostOneLooseUri'
  BY <1>0, <1>1, <1>3, <1>4 DEF UrisCounted, ScopesCounted, AtMostOneLooseUri, Calls
<1>10. Held'
  BY <1>0, <1>1, <1>3, <1>4 DEF Held, Secrets, Calls, ClientOf
<1>11. Aimed'
  <2>1. \A r \in Rotates : pc'[r] = pc[r]
    BY <1>1, <1>4 DEF Calls
  <2>2. ASSUME NEW d \in Deletes
        PROVE  /\ pc'[d] \in {"delete", "ok"} =>
                     \E a \in Creates : aim'[d] = {a} /\ client'[a] # "none"
               /\ pc'[d] = "ok" => \A a \in aim'[d] : client'[a] = "deleted"
    BY <1>0, <1>3, <1>4, <1>5, <1>6, <1>7 DEF Aimed, Calls
  <2> QED BY <1>0, <1>3, <2>1, <2>2 DEF Aimed
<1> QED BY <1>8, <1>9, <1>10, <1>11 DEF IInv

\* The server dies: every call that was in progress ends where it was.
LEMMA CrashStep == ASSUME IInv, TypeOK', Crash PROVE IInv'
<1>0. TypeOK /\ Unborn /\ UrisCounted /\ ScopesCounted /\ AtMostOneLooseUri /\ Held /\ Aimed
  BY DEF IInv
<1>1. UNCHANGED <<client, uris, uriEdges, scopes, secret, holder, req, aim, gone>>
  BY DEF Crash, store
<1>2. \A x \in Calls : pc'[x] = "crashed" \/ pc'[x] = pc[x]
  BY DEF Crash
<1>3. Unborn'
  BY <1>0, <1>1, <1>2 DEF Unborn
<1>4. UrisCounted' /\ ScopesCounted' /\ AtMostOneLooseUri'
  BY <1>0, <1>1, <1>2 DEF UrisCounted, ScopesCounted, AtMostOneLooseUri, Calls
<1>5. Held'
  BY <1>0, <1>1, <1>2 DEF Held, Secrets, Calls, ClientOf
<1>6. Aimed'
  BY <1>0, <1>1, <1>2 DEF Aimed, Calls
<1> QED BY <1>3, <1>4, <1>5, <1>6 DEF IInv

LEMMA NextIInv == IInv /\ [Next]_vars => IInv'
<1> SUFFICES ASSUME IInv, [Next]_vars PROVE IInv'
  OBVIOUS
<1>1. TypeOK'
  BY TypeStep DEF IInv
<1>2. ASSUME NEW c \in Creates,
             CreateClient(c) \/ CreateUri(c) \/ CreateUriEdge(c) \/ CreateScopeEdge(c)
      PROVE  IInv'
  BY <1>1, <1>2, CreateStep
<1>3. ASSUME NEW x \in Secrets, CreateSecret(x) \/ LinkSecret(x) PROVE IInv'
  BY <1>1, <1>3, SecretStep
<1>4. ASSUME NEW r \in Rotates, RotateFind(r) PROVE IInv'
  BY <1>1, <1>4, FindStep, Apart DEF RotateFind
<1>5. ASSUME NEW d \in Deletes, DeleteFind(d) PROVE IInv'
  BY <1>1, <1>5, FindStep, Apart DEF DeleteFind
<1>6. ASSUME NEW d \in Deletes, DeleteWrite(d) PROVE IInv'
  BY <1>1, <1>6, DeleteStep
<1>7. CASE Crash
  BY <1>1, <1>7, CrashStep
<1>8. CASE UNCHANGED vars
  BY <1>1, <1>8
  DEF vars, store, calls, IInv, Unborn, UrisCounted, ScopesCounted, AtMostOneLooseUri, Held, Aimed,
      ClientOf
<1> QED BY <1>2, <1>3, <1>4, <1>5, <1>6, <1>7, <1>8 DEF Next, Finished

LEMMA Inductive == Spec => []IInv
<1>1. Init => IInv
  BY InitIInv
<1>2. IInv /\ [Next]_vars => IInv'
  BY NextIInv
<1> QED BY <1>1, <1>2, PTL DEF Spec

-----------------------------------------------------------------------------

\* Every reachable state is well typed, for any calls, any lists in the requests and any
\* number of faults.
THEOREM TypeCorrect == Spec => []TypeOK
<1>1. IInv => TypeOK
  BY DEF IInv
<1> QED BY <1>1, Inductive, PTL

\* The client that CreateOAuthClient returns has all the URIs, the scopes and the secret of
\* its request, however long its lists are, and whatever is rotated or deleted meanwhile.
THEOREM CreationIsComplete == Spec => []CreatedIsComplete
<1>1. IInv => CreatedIsComplete
  BY DEF IInv, CreatedIsComplete, UrisCounted, ScopesCounted, Held, Secrets
<1> QED BY <1>1, Inductive, PTL

\* Wherever the loop over the URIs is cut, it leaves one RedirectURI without its edge at
\* the most.
THEOREM OneLooseUri == Spec => []AtMostOneLooseUri
<1>1. IInv => AtMostOneLooseUri
  BY DEF IInv
<1> QED BY <1>1, Inductive, PTL

\* The secret that RotateClientSecret returns is stored and of the one client it found,
\* whose deletion had not returned then.
THEOREM RotationIsHeld == Spec => []RotatedIsHeld
<1>1. IInv => RotatedIsHeld
  BY DEF IInv, RotatedIsHeld, Held, Aimed, Secrets
<1> QED BY <1>1, Inductive, PTL

=============================================================================
