---------------------------- MODULE MembershipsProofs ----------------------------
(* Theorems about Memberships, for any calls, users and number of faults. *)
EXTENDS Memberships, TLAPS

\* A grant writes its entity and its two edges one after the other, each of them only
\* once the one before was acknowledged; an entity that exists is not created again.
Linked ==
    \A g \in Grants :
        /\ gpc[g] \in {"own", "role", "ok"} => created[g]
        /\ gpc[g] \in {"role", "ok"} => owned[g]
        /\ gpc[g] = "ok" => role[g]
        /\ created[g] => gpc[g] # "idle"

\* A revocation that has returned is in the store.
WithdrawnRevoked ==
    \A v \in Revokes : rpc[v] = "ok" => \A g \in aim[v] : revoked[g]

\* What a list counts as granted before it is, and what it has read exists: so neither
\* changes its user any more.
Settled ==
    \A l \in Lists :
        /\ \A b \in before[l] : gpc[b.id] = "ok"
        /\ \A m \in listed[l] : created[m.id]
        /\ lpc[l] = "filter" => asked[l] # AllUsers

\* Between its two reads a list holds everything that was granted before it.
Complete ==
    \A l \in Lists : lpc[l] = "filter" =>
        \A b \in before[l] : \E m \in listed[l] : m.id = b.id

\* What a list has read shows the revocations that had returned when it began.
Shows ==
    \A l \in Lists : lpc[l] \in {"filter", "ok"} =>
        \A b \in before[l], m \in listed[l] : (b.id = m.id /\ b.revoked) => m.revoked

IInv ==
    TypeOK /\ Linked /\ WithdrawnRevoked /\ Settled /\ Complete /\ Shows /\ ListComplete

-----------------------------------------------------------------------------

LEMMA InitIInv == Init => IInv
<1> SUFFICES ASSUME Init PROVE IInv
  OBVIOUS
<1>1. TypeOK
  BY MembershipsAssumption DEF Init, TypeOK
<1>2. Linked /\ WithdrawnRevoked /\ Settled /\ Complete /\ Shows /\ ListComplete
  BY DEF Init, Linked, WithdrawnRevoked, Settled, Complete, Shows, ListComplete
<1> QED BY <1>1, <1>2 DEF IInv

\* The budget of faults is kept by every step that spends from it.
LEMMA FaultStep ==
    ASSUME NEW o \in {"ok", "lost", "fail"}, faults \in 0..MaxFaults, MayFault(o), Fault(o)
    PROVE  faults' \in 0..MaxFaults
BY MembershipsAssumption DEF MayFault, Fault, FaultCost

\* Every step keeps the types.
LEMMA TypeStep == TypeOK /\ [Next]_vars => TypeOK'
<1> SUFFICES ASSUME TypeOK, [Next]_vars PROVE TypeOK'
  OBVIOUS
<1> USE DEF TypeOK, ReadOutcome, WriteOutcome, store, granting, revoking, listing
<1>1. ASSUME NEW g \in Grants, GrantCreate(g) PROVE TypeOK'
  <2>1. faults' \in 0..MaxFaults
    BY <1>1, FaultStep DEF GrantCreate
  <2> QED BY <1>1, <2>1 DEF GrantCreate, After, Applied, GrantBusy, Done
<1>2. ASSUME NEW g \in Grants, GrantOwn(g) PROVE TypeOK'
  <2>1. faults' \in 0..MaxFaults
    BY <1>2, FaultStep DEF GrantOwn
  <2> QED BY <1>2, <2>1 DEF GrantOwn, After, Applied, GrantBusy, Done
<1>3. ASSUME NEW g \in Grants, GrantRole(g) PROVE TypeOK'
  <2>1. faults' \in 0..MaxFaults
    BY <1>3, FaultStep DEF GrantRole
  <2> QED BY <1>3, <2>1 DEF GrantRole, After, Applied, GrantBusy, Done
<1>4. ASSUME NEW v \in Revokes, RevokeGet(v) PROVE TypeOK'
  <2>1. faults' \in 0..MaxFaults
    BY <1>4, FaultStep DEF RevokeGet
  <2> QED BY <1>4, <2>1 DEF RevokeGet, Done
<1>5. ASSUME NEW v \in Revokes, RevokeWrite(v) PROVE TypeOK'
  <2>1. faults' \in 0..MaxFaults
    BY <1>5, FaultStep DEF RevokeWrite
  <2> QED BY <1>5, <2>1 DEF RevokeWrite, After, Applied, Done
<1>6. ASSUME NEW l \in Lists, ListEntities(l) PROVE TypeOK'
  <2>1. faults' \in 0..MaxFaults
    BY <1>6, FaultStep DEF ListEntities
  <2>2. PICK u, o, early, read :
          /\ u \in Users \union {AllUsers}
          /\ early = {[id |-> g, revoked |-> Withdrawn(g)] : g \in {g \in Grants : Acknowledged(g)}}
          /\ read = {[id |-> g, revoked |-> revoked[g]] : g \in {g \in Grants : created[g]}}
          /\ asked' = [asked EXCEPT ![l] = u]
          /\ before' = [before EXCEPT ![l] = early]
          /\ IF o = "ok"
             THEN /\ listed' = [listed EXCEPT ![l] = read]
                  /\ lpc' = [lpc EXCEPT ![l] = IF u = AllUsers THEN "ok" ELSE "filter"]
             ELSE /\ lpc' = [lpc EXCEPT ![l] = "unavailable"]
                  /\ UNCHANGED listed
    BY <1>6 DEF ListEntities
  <2>3. early \in SUBSET Records /\ read \in SUBSET Records
    <3>1. \A g \in Grants : Withdrawn(g) \in BOOLEAN
      BY DEF Withdrawn
    <3> QED BY <2>2, <3>1 DEF Records
  <2>4. asked' \in [Lists -> Users \union {AllUsers}] /\ before' \in [Lists -> SUBSET Records]
    BY <2>2, <2>3
  <2>5. listed' \in [Lists -> SUBSET Records]
    BY <2>2, <2>3
  <2>6. lpc' \in [Lists -> {"idle"} \union ListBusy \union Done]
    BY <2>2 DEF ListBusy, Done
  <2> QED BY <1>6, <2>1, <2>4, <2>5, <2>6 DEF ListEntities
<1>7. ASSUME NEW l \in Lists, ListFilter(l) PROVE TypeOK'
  <2>1. faults' \in 0..MaxFaults
    BY <1>7, FaultStep DEF ListFilter
  <2>2. Kept(l) \in SUBSET Records
    BY DEF Kept
  <2> QED BY <1>7, <2>1, <2>2 DEF ListFilter, After, Done
<1>8. CASE Crash
  BY <1>8, MembershipsAssumption DEF Crash, Done
<1>9. CASE UNCHANGED vars
  BY <1>9 DEF vars
<1> QED BY <1>1, <1>2, <1>3, <1>4, <1>5, <1>6, <1>7, <1>8, <1>9 DEF Next, Finished

\* What a step of a grant leaves to the lists: a grant that has returned stays so, what
\* exists stays, and neither changes its user.
LEMMA ListsSettled ==
    ASSUME IInv, UNCHANGED listing,
           \A g \in Grants : gpc[g] = "ok" => gpc'[g] = "ok",
           \A g \in Grants : created[g] => created'[g] /\ user'[g] = user[g]
    PROVE  Settled' /\ Complete' /\ Shows' /\ ListComplete'
<1>0. TypeOK /\ Linked /\ Settled /\ Complete /\ Shows /\ ListComplete
  BY DEF IInv
<1>1. \A l \in Lists : /\ \A b \in before[l] : b.id \in Grants
                       /\ \A m \in listed[l] : m.id \in Grants
  BY <1>0 DEF TypeOK, Records
<1>2. Settled'
  BY <1>0, <1>1 DEF Settled, listing
<1>3. Complete' /\ Shows'
  BY <1>0 DEF Complete, Shows, listing
<1>4. ListComplete'
  <2>1. \A l \in Lists : \A b \in before[l] : created[b.id]
    BY <1>0, <1>1 DEF Settled, Linked
  <2>2. \A l \in Lists : /\ \A b \in before[l] : user'[b.id] = user[b.id]
                         /\ \A m \in listed[l] : user'[m.id] = user[m.id]
    BY <1>0, <1>1, <2>1 DEF Settled
  <2> QED BY <1>0, <2>2 DEF ListComplete, Answers, listing
<1> QED BY <1>2, <1>3, <1>4

\* Every step keeps the invariant.
LEMMA NextIInv == IInv /\ [Next]_vars => IInv'
<1> SUFFICES ASSUME IInv, [Next]_vars PROVE IInv'
  OBVIOUS
<1>0. /\ TypeOK /\ Linked /\ WithdrawnRevoked /\ Settled /\ Complete /\ Shows /\ ListComplete
      /\ TypeOK'
  BY TypeStep DEF IInv
<1>1. ASSUME NEW g \in Grants, GrantCreate(g) \/ GrantOwn(g) \/ GrantRole(g) PROVE IInv'
  <2>1. /\ UNCHANGED <<revoked, revoking, listing>>
        /\ gpc[g] \in {"idle", "own", "role"}
        /\ \A h \in Grants \ {g} : /\ gpc'[h] = gpc[h] /\ created'[h] = created[h]
                                   /\ owned'[h] = owned[h] /\ role'[h] = role[h]
                                   /\ user'[h] = user[h]
    BY <1>0, <1>1 DEF GrantCreate, GrantOwn, GrantRole, TypeOK
  <2>2. Linked'
    <3>1. CASE GrantCreate(g)
      <4>1. PICK o \in WriteOutcome : /\ created' = [created EXCEPT ![g] = Applied(o)]
                                      /\ gpc' = [gpc EXCEPT ![g] = After(o, "own")]
        BY <3>1 DEF GrantCreate
      <4>2. gpc'[g] \in {"own", "unavailable"} /\ (gpc'[g] = "own" => created'[g])
        BY <1>0, <4>1 DEF TypeOK, After, Applied
      <4> QED BY <1>0, <2>1, <3>1, <4>2 DEF Linked, GrantCreate
    <3>2. CASE GrantOwn(g)
      <4>1. PICK o \in WriteOutcome : /\ owned' = [owned EXCEPT ![g] = Applied(o)]
                                      /\ gpc' = [gpc EXCEPT ![g] = After(o, "role")]
        BY <3>2 DEF GrantOwn
      <4>2. gpc'[g] \in {"role", "unavailable"} /\ (gpc'[g] = "role" => owned'[g])
        BY <1>0, <4>1 DEF TypeOK, After, Applied
      <4> QED BY <1>0, <2>1, <3>2, <4>2 DEF Linked, GrantOwn
    <3>3. CASE GrantRole(g)
      <4>1. PICK o \in WriteOutcome : /\ role' = [role EXCEPT ![g] = Applied(o)]
                                      /\ gpc' = [gpc EXCEPT ![g] = After(o, "ok")]
        BY <3>3 DEF GrantRole
      <4>2. gpc'[g] \in {"ok", "unavailable"} /\ (gpc'[g] = "ok" => role'[g])
        BY <1>0, <4>1 DEF TypeOK, After, Applied
      <4> QED BY <1>0, <2>1, <3>3, <4>2 DEF Linked, GrantRole
    <3> QED BY <1>1, <3>1, <3>2, <3>3
  <2>3. created[g] => created'[g] /\ user'[g] = user[g]
    BY <1>0, <1>1 DEF GrantCreate, GrantOwn, GrantRole, Linked
  <2>4. Settled' /\ Complete' /\ Shows' /\ ListComplete'
    BY <2>1, <2>3, ListsSettled
  <2> QED BY <1>0, <2>1, <2>2, <2>4 DEF IInv, WithdrawnRevoked, revoking
<1>2. ASSUME NEW v \in Revokes, RevokeGet(v) \/ RevokeWrite(v) PROVE IInv'
  <2>1. UNCHANGED <<created, owned, role, granting, listing>>
    BY <1>2 DEF RevokeGet, RevokeWrite, store
  <2>2. \A w \in Revokes \ {v} : rpc'[w] = rpc[w] /\ aim'[w] = aim[w]
    BY <1>0, <1>2 DEF RevokeGet, RevokeWrite, TypeOK
  <2>3. \A g \in Grants : revoked[g] => revoked'[g]
    BY <1>0, <1>2 DEF RevokeGet, RevokeWrite, store, TypeOK
  <2>4. rpc'[v] = "ok" => \A g \in aim'[v] : revoked'[g]
    <3>1. CASE RevokeGet(v)
      BY <1>0, <3>1 DEF RevokeGet, TypeOK
    <3>2. CASE RevokeWrite(v)
      <4>1. PICK o \in WriteOutcome :
              /\ revoked' = [g \in Grants |-> revoked[g] \/ (Applied(o) /\ g \in aim[v])]
              /\ rpc' = [rpc EXCEPT ![v] = After(o, "ok")]
        BY <3>2 DEF RevokeWrite
      <4>2. rpc'[v] = "ok" => Applied(o)
        BY <1>0, <4>1 DEF TypeOK, After, Applied
      <4> QED BY <1>0, <3>2, <4>1, <4>2 DEF RevokeWrite, TypeOK
    <3> QED BY <1>2, <3>1, <3>2
  <2>5. WithdrawnRevoked'
    BY <1>0, <2>2, <2>3, <2>4 DEF WithdrawnRevoked, TypeOK
  <2>6. Linked'
    BY <1>0, <2>1 DEF Linked, granting
  <2>7. Settled' /\ Complete' /\ Shows' /\ ListComplete'
    BY <2>1, ListsSettled DEF granting
  <2> QED BY <1>0, <2>5, <2>6, <2>7 DEF IInv
<1>3. ASSUME NEW l \in Lists, ListEntities(l) PROVE IInv'
  <2>1. UNCHANGED <<store, granting, revoking>>
    BY <1>3 DEF ListEntities
  <2> DEFINE early == {[id |-> g, revoked |-> Withdrawn(g)] : g \in {g \in Grants : Acknowledged(g)}}
             read  == {[id |-> g, revoked |-> revoked[g]] : g \in {g \in Grants : created[g]}}
  <2>2. PICK u, o :
          /\ lpc[l] = "idle" /\ u \in Users \union {AllUsers} /\ o \in ReadOutcome
          /\ asked' = [asked EXCEPT ![l] = u]
          /\ before' = [before EXCEPT ![l] = early]
          /\ IF o = "ok"
             THEN /\ listed' = [listed EXCEPT ![l] = read]
                  /\ lpc' = [lpc EXCEPT ![l] = IF u = AllUsers THEN "ok" ELSE "filter"]
             ELSE /\ lpc' = [lpc EXCEPT ![l] = "unavailable"]
                  /\ UNCHANGED listed
    BY <1>3 DEF ListEntities
  <2>3. \A k \in Lists \ {l} : /\ lpc'[k] = lpc[k] /\ asked'[k] = asked[k]
                               /\ listed'[k] = listed[k] /\ before'[k] = before[k]
    BY <1>0, <2>2 DEF TypeOK
  <2>4. asked'[l] = u /\ before'[l] = early
    BY <1>0, <2>2 DEF TypeOK
  <2>5. \/ lpc'[l] = "unavailable" /\ listed'[l] = listed[l]
        \/ lpc'[l] = "ok" /\ u = AllUsers /\ listed'[l] = read
        \/ lpc'[l] = "filter" /\ u # AllUsers /\ listed'[l] = read
    BY <1>0, <2>2 DEF TypeOK
  <2>6. /\ \A b \in early : /\ b.id \in Grants /\ gpc[b.id] = "ok" /\ created[b.id]
                            /\ b.revoked => revoked[b.id]
        /\ \A m \in read : m.id \in Grants /\ created[m.id] /\ m.revoked = revoked[m.id]
        /\ \A b \in early : \E m \in read : m.id = b.id
    <3>1. \A g \in Grants : /\ Acknowledged(g) => gpc[g] = "ok" /\ created[g]
                            /\ Withdrawn(g) => revoked[g]
      BY <1>0 DEF Acknowledged, Withdrawn, Linked, WithdrawnRevoked
    <3>2. ASSUME NEW b \in early
          PROVE  /\ b.id \in Grants /\ gpc[b.id] = "ok" /\ created[b.id]
                 /\ b.revoked => revoked[b.id]
                 /\ \E m \in read : m.id = b.id
      <4>1. PICK g \in Grants : Acknowledged(g) /\ b = [id |-> g, revoked |-> Withdrawn(g)]
        OBVIOUS
      <4>2. b.id = g /\ b.revoked = Withdrawn(g)
        BY <4>1
      <4>3. [id |-> g, revoked |-> revoked[g]] \in read
        BY <3>1, <4>1
      <4> QED BY <3>1, <4>1, <4>2, <4>3
    <3>3. ASSUME NEW m \in read
          PROVE  m.id \in Grants /\ created[m.id] /\ m.revoked = revoked[m.id]
      OBVIOUS
    <3> QED BY <3>2, <3>3
  <2> HIDE DEF early, read
  <2>7. Settled'
    BY <1>0, <2>1, <2>3, <2>4, <2>5, <2>6 DEF Settled, store, granting
  <2>8. Complete'
    BY <1>0, <2>3, <2>4, <2>5, <2>6 DEF Complete
  <2>9. Shows'
    <3>1. \A b \in early, m \in read : (b.id = m.id /\ b.revoked) => m.revoked
      BY <2>6
    <3> QED BY <1>0, <2>3, <2>4, <2>5, <3>1 DEF Shows
  <2>10. ListComplete'
    BY <1>0, <2>1, <2>3, <2>4, <2>5, <2>6 DEF ListComplete, Answers, granting
  <2> QED BY <1>0, <2>1, <2>7, <2>8, <2>9, <2>10
          DEF IInv, Linked, WithdrawnRevoked, store, granting, revoking
<1>4. ASSUME NEW l \in Lists, ListFilter(l) PROVE IInv'
  <2>1. UNCHANGED <<store, granting, revoking, asked, before>> /\ lpc[l] = "filter"
    BY <1>4 DEF ListFilter
  <2>2. /\ \A k \in Lists \ {l} : lpc'[k] = lpc[k] /\ listed'[k] = listed[k]
        /\ \/ lpc'[l] = "unavailable" /\ listed'[l] = listed[l]
           \/ lpc'[l] = "ok" /\ listed'[l] = Kept(l)
    <3>1. PICK o \in ReadOutcome :
            /\ listed' = IF o = "ok" THEN [listed EXCEPT ![l] = Kept(l)] ELSE listed
            /\ lpc' = [lpc EXCEPT ![l] = After(o, "ok")]
      BY <1>4 DEF ListFilter
    <3> QED BY <1>0, <3>1 DEF TypeOK, After
  <2>3. Kept(l) \subseteq listed[l]
    BY DEF Kept
  <2>4. Settled' /\ Complete' /\ Shows'
    BY <1>0, <2>1, <2>2, <2>3 DEF Settled, Complete, Shows, store, granting
  <2>5. asked[l] # AllUsers
    BY <1>0, <2>1 DEF Settled
  <2>6. \A b \in before[l] : Answers(l, b.id) => \E m \in Kept(l) : m.id = b.id
    <3> SUFFICES ASSUME NEW b \in before[l], Answers(l, b.id)
                 PROVE  \E m \in Kept(l) : m.id = b.id
      OBVIOUS
    <3>1. b.id \in Grants /\ gpc[b.id] = "ok"
      BY <1>0 DEF Settled, TypeOK, Records
    <3>2. owned[b.id] /\ user[b.id] = asked[l]
      BY <1>0, <2>5, <3>1 DEF Linked, Answers
    <3>3. PICK m \in listed[l] : m.id = b.id
      BY <1>0, <2>1 DEF Complete
    <3> QED BY <3>2, <3>3 DEF Kept
  <2>7. \A m \in Kept(l) : Answers(l, m.id)
    BY DEF Kept, Answers
  <2>8. ListComplete'
    <3>1. \A k \in Lists : \A g : Answers(k, g)' <=> Answers(k, g)
      BY <2>1 DEF Answers, granting
    <3> QED BY <1>0, <2>1, <2>2, <2>6, <2>7, <3>1 DEF ListComplete
  <2> QED BY <1>0, <2>1, <2>4, <2>8
          DEF IInv, Linked, WithdrawnRevoked, store, granting, revoking
<1>5. CASE Crash
  <2>1. /\ UNCHANGED <<store, user, aim, asked, listed, before>>
        /\ \A g \in Grants : gpc'[g] = gpc[g] \/ (gpc[g] \in GrantBusy /\ gpc'[g] = "crashed")
        /\ \A v \in Revokes : rpc'[v] = rpc[v] \/ rpc'[v] = "crashed"
        /\ \A l \in Lists : lpc'[l] = lpc[l] \/ lpc'[l] = "crashed"
    BY <1>5 DEF Crash
  <2>2. Linked' /\ WithdrawnRevoked'
    BY <1>0, <2>1 DEF Linked, WithdrawnRevoked, store, GrantBusy
  <2>3. Settled'
    <3>1. \A l \in Lists : \A b \in before[l] : b.id \in Grants
      BY <1>0 DEF TypeOK, Records
    <3> QED BY <1>0, <2>1, <3>1 DEF Settled, store, GrantBusy
  <2>4. Complete' /\ Shows' /\ ListComplete'
    BY <1>0, <2>1 DEF Complete, Shows, ListComplete, Answers
  <2> QED BY <1>0, <2>2, <2>3, <2>4 DEF IInv
<1>6. CASE UNCHANGED vars
  <2>1. Settled' /\ Complete' /\ Shows' /\ ListComplete'
    BY <1>6, ListsSettled DEF vars, store, granting
  <2> QED BY <1>0, <1>6, <2>1
          DEF IInv, Linked, WithdrawnRevoked, vars, store, granting, revoking
<1> QED BY <1>1, <1>2, <1>3, <1>4, <1>5, <1>6 DEF Next, Finished

-----------------------------------------------------------------------------

\* Every reachable state of the memberships is well typed.
THEOREM TypeCorrect == Spec => []TypeOK
<1>1. IInv => TypeOK
  BY DEF IInv
<1> QED BY InitIInv, NextIInv, <1>1, PTL DEF Spec

\* A membership whose grant has returned leads from its user to its role, and stays so.
THEOREM GrantedStaysLinked == Spec => []GrantedIsLinked
<1>1. IInv => GrantedIsLinked
  BY DEF IInv, Linked, GrantedIsLinked, Acknowledged
<1> QED BY InitIInv, NextIInv, <1>1, PTL DEF Spec

\* A list has every membership of the user that was granted before it began and none of
\* another user, although it joins two reads made at different times.
THEOREM ListsAreComplete == Spec => []ListComplete
<1>1. IInv => ListComplete
  BY DEF IInv
<1> QED BY InitIInv, NextIInv, <1>1, PTL DEF Spec

\* A membership whose revocation had returned when a list began is not shown in force.
THEOREM RevocationsShow == Spec => []RevocationShows
<1>1. IInv => RevocationShows
  BY DEF IInv, Shows, RevocationShows
<1> QED BY InitIInv, NextIInv, <1>1, PTL DEF Spec

=============================================================================
