------------------------------ MODULE TokensProofs ------------------------------
(* Theorems about Tokens, for any tokens, calls, clock and number of faults. *)
EXTENDS Tokens, TLAPS

\* A call names its token from its first step on, and what it counted as
\* acknowledged revocations of the token were that.
Named ==
    /\ \A i \in Introspects : ipc[i] # "idle" => asked[i] \in Tokens
    /\ \A v \in Revokes : rpc[v] # "idle" => target[v] \in Tokens
    /\ \A i \in Introspects : \A v \in acked[i] : rpc[v] = "ok" /\ target[v] = asked[i]

\* A TokenRevocation is created by the last step of its call, and by no other.
WrittenLast ==
    \A v \in Revokes :
        /\ rpc[v] \in {"idle"} \union EndBusy => row[v] = "none"
        /\ rpc[v] = "ok" => row[v] # "none"

\* The database removes nothing before its time.
PurgedLate ==
    /\ \A t \in Tokens : ~stored[t] => now > expiry[t]
    /\ \A v \in Revokes : row[v] = "purged" => now > rowExpiry[v]

\* The token is beyond use without a revocation.
Spent(t) == kind[t] # "AccessToken" \/ now > expiry[t]

\* A Revoke call none of whose lookups failed creates a revocation that lasts as long
\* as the token it is about, if the token can still be used.
Covers ==
    \A v \in Revokes : ~blind[v] =>
        /\ rpc[v] = "refresh" => Spent(target[v])
        /\ rpc[v] \in {"write", "ok"} =>
             Spent(target[v]) \/ rowExpiry[v] >= expiry[target[v]]

\* An introspection that began when its token was dead: it goes on only when the token
\* is spent, and never past the comparison with the clock.
DoomedStops ==
    \A i \in Introspects :
        /\ ipc[i] = "check" => kind[asked[i]] = "AccessToken"
        /\ doomed[i] =>
             /\ ipc[i] \in AskBusy => Spent(asked[i])
             /\ ipc[i] # "active"

\* A token whose revocation was acknowledged, with no failed lookup, was dead.
AckedDooms ==
    \A i \in Introspects : \A v \in acked[i] : blind[v] \/ doomed[i]

IInv ==
    /\ TypeOK /\ Named /\ WrittenLast /\ PurgedLate
    /\ Covers /\ DoomedStops /\ AckedDooms

-----------------------------------------------------------------------------

LEMMA InitIInv == Init => IInv
<1> SUFFICES ASSUME Init PROVE IInv
  OBVIOUS
<1>1. TypeOK
  BY TokensAssumption DEF Init, TypeOK, Time, AskBusy, AskDone, EndBusy, EndDone
<1>2. Named /\ WrittenLast /\ PurgedLate /\ Covers /\ DoomedStops /\ AckedDooms
  BY DEF Init, Named, WrittenLast, PurgedLate, Covers, DoomedStops, AckedDooms, AskBusy
<1> QED BY <1>1, <1>2 DEF IInv

\* The budget of faults is kept by every step that spends from it.
LEMMA FaultStep ==
    ASSUME NEW o \in {"ok", "lost", "fail"}, faults \in 0..MaxFaults, MayFault(o), Fault(o)
    PROVE  faults' \in 0..MaxFaults
BY TokensAssumption DEF MayFault, Fault, FaultCost

\* Formatting a time drops what is below the second: it gives no later time.
LEMMA ToSecondType == ASSUME NEW a \in Time PROVE ToSecond(a) \in Time
<1>1. a \in Nat /\ Second \in Nat \ {0}
  BY TokensAssumption DEF Time
<1>2. /\ a = Second * (a \div Second) + (a % Second)
      /\ a \div Second \in Nat /\ a % Second \in Nat
  BY <1>1
<1>3. Second * (a \div Second) \in Nat
  BY <1>1, <1>2
<1>4. a - (a % Second) \in 0..a
  BY <1>1, <1>2, <1>3
<1> QED BY <1>1, <1>4, TokensAssumption DEF ToSecond, Time

\* One lookup takes the token's expires_at, or the time of the call.
LEMMA LookupStep ==
    ASSUME TypeOK, NEW v \in Revokes, NEW ty, NEW otherwise, target[v] \in Tokens,
           Lookup(v, ty, otherwise)
    PROVE  /\ faults' \in 0..MaxFaults
           /\ blind' \in [Revokes -> BOOLEAN] /\ rowExpiry' \in [Revokes -> Time]
           /\ \A w \in Revokes \ {v} :
                /\ rpc'[w] = rpc[w] /\ blind'[w] = blind[w]
                /\ rowExpiry'[w] = rowExpiry[w]
           /\ rpc' = [rpc EXCEPT ![v] = rpc'[v]] /\ rpc'[v] \in {"write", otherwise}
           /\ ~blind'[v] => /\ ~blind[v]
                            /\ \/ rpc'[v] = "write" /\ rowExpiry'[v] = expiry[target[v]]
                               \/ rpc'[v] = otherwise /\ ~Listed(target[v], ty)
<1>1. PICK o \in ReadOutcome :
        /\ MayFault(o) /\ Fault(o)
        /\ blind' = [blind EXCEPT ![v] = @ \/ o = "fail"]
        /\ IF o = "ok" /\ Listed(target[v], ty)
           THEN /\ rowExpiry' = [rowExpiry EXCEPT ![v] = expiry[target[v]]]
                /\ rpc' = [rpc EXCEPT ![v] = "write"]
           ELSE /\ rowExpiry' = [rowExpiry EXCEPT ![v] = revokedAt[v]]
                /\ rpc' = [rpc EXCEPT ![v] = otherwise]
  BY DEF Lookup
<1>2. faults' \in 0..MaxFaults
  BY <1>1, FaultStep DEF TypeOK, ReadOutcome
<1>3. expiry[target[v]] \in Time /\ revokedAt[v] \in Time
  BY DEF TypeOK
<1>4. CASE o = "ok" /\ Listed(target[v], ty)
  BY <1>1, <1>2, <1>3, <1>4 DEF TypeOK
<1>5. CASE ~(o = "ok" /\ Listed(target[v], ty))
  BY <1>1, <1>2, <1>3, <1>5 DEF TypeOK, ReadOutcome
<1> QED BY <1>4, <1>5

\* Every step keeps the types.
LEMMA TypeStep == TypeOK /\ Named /\ [Next]_vars => TypeOK'
<1> SUFFICES ASSUME TypeOK, Named, [Next]_vars PROVE TypeOK'
  OBVIOUS
<1> USE DEF TypeOK, ReadOutcome, WriteOutcome, tokens, store, asking, ending
<1>1. ASSUME NEW i \in Introspects, IntrospectRows(i) PROVE TypeOK'
  <2>1. faults' \in 0..MaxFaults
    BY <1>1, FaultStep DEF IntrospectRows
  <2>2. \A t \in Tokens : Dead(t) \in BOOLEAN
    BY DEF Dead
  <2> QED BY <1>1, <2>1, <2>2 DEF IntrospectRows, AskBusy, AskDone
<1>2. ASSUME NEW i \in Introspects, IntrospectToken(i) PROVE TypeOK'
  <2>1. faults' \in 0..MaxFaults
    BY <1>2, FaultStep DEF IntrospectToken
  <2> QED BY <1>2, <2>1 DEF IntrospectToken, AskBusy, AskDone
<1>3. ASSUME NEW i \in Introspects, IntrospectCheck(i) PROVE TypeOK'
  BY <1>3 DEF IntrospectCheck, AskBusy, AskDone
<1>4. ASSUME NEW v \in Revokes, RevokeStart(v) PROVE TypeOK'
  <2>1. ToSecond(now) \in Time
    BY ToSecondType
  <2> QED BY <1>4, <2>1 DEF RevokeStart, EndBusy, EndDone
<1>5. ASSUME NEW v \in Revokes, RevokeAccess(v) \/ RevokeRefresh(v) PROVE TypeOK'
  <2>1. target[v] \in Tokens
    BY <1>5 DEF RevokeAccess, RevokeRefresh, Named
  <2>2. PICK ty, next : next \in {"refresh", "write"} /\ Lookup(v, ty, next)
    BY <1>5 DEF RevokeAccess, RevokeRefresh
  <2>3. rpc'[v] \in EndBusy
    BY <2>1, <2>2, LookupStep DEF EndBusy
  <2>4. rpc' \in [Revokes -> {"idle"} \union EndBusy \union EndDone]
    BY <2>1, <2>2, <2>3, LookupStep
  <2> HIDE DEF EndBusy
  <2> QED BY <1>5, <2>1, <2>2, <2>4, LookupStep DEF RevokeAccess, RevokeRefresh
<1>6. ASSUME NEW v \in Revokes, RevokeWrite(v) PROVE TypeOK'
  <2>1. faults' \in 0..MaxFaults
    BY <1>6, FaultStep DEF RevokeWrite
  <2> QED BY <1>6, <2>1 DEF RevokeWrite, Applied, EndDone
<1>7. ASSUME NEW v \in Revokes, PurgeRow(v) PROVE TypeOK'
  BY <1>7 DEF PurgeRow
<1>8. ASSUME NEW t \in Tokens, PurgeToken(t) PROVE TypeOK'
  BY <1>8 DEF PurgeToken
<1>9. CASE Tick
  BY <1>9, TokensAssumption DEF Tick, Time
<1>10. CASE Crash
  BY <1>10, TokensAssumption DEF Crash, AskDone, EndDone
<1>11. CASE UNCHANGED vars
  BY <1>11 DEF vars
<1> QED BY <1>1, <1>2, <1>3, <1>4, <1>5, <1>6, <1>7, <1>8, <1>9, <1>10, <1>11
        DEF Next, Finished

\* No step changes a token or puts the clock back.
LEMMA ClockStep ==
    ASSUME TypeOK, [Next]_vars
    PROVE  UNCHANGED tokens /\ now \in Nat /\ now' \in Nat /\ now' >= now
<1>1. now \in Nat
  BY DEF TypeOK, Time
<1> QED BY <1>1 DEF Next, IntrospectRows, IntrospectToken, IntrospectCheck, RevokeStart,
        RevokeAccess, RevokeRefresh, RevokeWrite, PurgeRow, PurgeToken, Tick, Crash, Finished,
        vars, tokens

\* A token that is spent stays spent.
LEMMA SpentStep ==
    ASSUME TypeOK, [Next]_vars, NEW t \in Tokens, Spent(t)
    PROVE  Spent(t)'
<1>1. expiry[t] \in Nat
  BY DEF TypeOK, Time
<1> QED BY <1>1, ClockStep DEF Spent, tokens

\* An acknowledged revocation whose lookups were answered leaves its token dead.
LEMMA AckedIsDead ==
    ASSUME IInv, NEW v \in Revokes, rpc[v] = "ok", ~blind[v]
    PROVE  target[v] \in Tokens /\ Dead(target[v])
<1>1. target[v] \in Tokens /\ row[v] \in {"live", "purged"}
  BY DEF IInv, TypeOK, Named, WrittenLast
<1>2. CASE Spent(target[v])
  BY <1>1, <1>2 DEF Spent, Dead
<1>3. CASE ~Spent(target[v])
  <2>1. rowExpiry[v] >= expiry[target[v]]
    BY <1>3 DEF IInv, Covers
  <2>2. now \in Nat /\ rowExpiry[v] \in Nat /\ expiry[target[v]] \in Nat
    BY <1>1 DEF IInv, TypeOK, Time
  <2>3. row[v] # "purged"
    BY <1>3, <2>1, <2>2 DEF IInv, PurgedLate, Spent
  <2> QED BY <1>1, <2>1, <2>3 DEF Dead, Rows
<1> QED BY <1>2, <1>3

\* Every step keeps the invariant.
LEMMA NextIInv == IInv /\ [Next]_vars => IInv'
<1> SUFFICES ASSUME IInv, [Next]_vars PROVE IInv'
  OBVIOUS
<1>0. /\ TypeOK /\ Named /\ WrittenLast /\ PurgedLate /\ Covers /\ DoomedStops /\ AckedDooms
      /\ TypeOK'
  BY TypeStep DEF IInv
\* A step of no Revoke call, and no removal.
<1>a. ASSUME UNCHANGED <<stored, row, rowExpiry, rpc, target, blind>>
      PROVE  WrittenLast' /\ PurgedLate' /\ Covers'
  <2>1. WrittenLast'
    BY <1>0, <1>a DEF WrittenLast
  <2>2. PurgedLate'
    <3>1. /\ \A t \in Tokens : expiry[t] \in Nat
          /\ \A v \in Revokes : rowExpiry[v] \in Nat
      BY <1>0 DEF TypeOK, Time
    <3> QED BY <1>0, <1>a, <3>1, ClockStep DEF PurgedLate, tokens
  <2>3. Covers'
    <3>1. \A v \in Revokes : rpc[v] \in {"refresh", "write", "ok"} => target[v] \in Tokens
      BY <1>0 DEF Named
    <3> QED BY <1>0, <1>a, <3>1, SpentStep, ClockStep DEF Covers, tokens
  <2> QED BY <2>1, <2>2, <2>3
\* A step of no Introspect call that leaves the acknowledged revocations as they are.
<1>b. ASSUME UNCHANGED asking,
             \A v \in Revokes : rpc[v] = "ok" =>
                rpc'[v] = "ok" /\ target'[v] = target[v] /\ blind'[v] = blind[v],
             \A v \in Revokes : rpc'[v] # "idle" => target'[v] \in Tokens
      PROVE  Named' /\ DoomedStops' /\ AckedDooms'
  <2>1. \A i \in Introspects : \A v \in acked[i] : v \in Revokes /\ rpc[v] = "ok"
    BY <1>0 DEF Named, TypeOK
  <2>2. Named'
    BY <1>0, <1>b, <2>1 DEF Named, asking
  <2>3. AckedDooms'
    BY <1>0, <1>b, <2>1 DEF AckedDooms, asking
  <2>4. DoomedStops'
    <3>1. \A i \in Introspects : ipc[i] \in AskBusy => asked[i] \in Tokens
      BY <1>0 DEF Named, AskBusy
    <3> QED BY <1>0, <1>b, <3>1, SpentStep, ClockStep DEF DoomedStops, asking, tokens
  <2> QED BY <2>2, <2>3, <2>4
<1>1. ASSUME NEW i \in Introspects, IntrospectRows(i) PROVE IInv'
  <2>1. UNCHANGED <<now, tokens, store, ending>>
    BY <1>1 DEF IntrospectRows
  <2>2. WrittenLast' /\ PurgedLate' /\ Covers'
    BY <1>a, <2>1 DEF store, ending
  <2>3. PICK t, o :
          /\ t \in Tokens /\ o \in ReadOutcome
          /\ asked' = [asked EXCEPT ![i] = t]
          /\ doomed' = [doomed EXCEPT ![i] = Dead(t)]
          /\ acked' = [acked EXCEPT ![i] = {v \in Revokes : rpc[v] = "ok" /\ target[v] = t}]
          /\ ipc' = [ipc EXCEPT ![i] = IF o = "ok" /\ Rows(t) = {} THEN "tokens" ELSE "inactive"]
    BY <1>1 DEF IntrospectRows
  <2>4. /\ asked'[i] = t /\ doomed'[i] = Dead(t)
        /\ acked'[i] = {v \in Revokes : rpc[v] = "ok" /\ target[v] = t}
        /\ ipc'[i] \in {"tokens", "inactive"}
        /\ ipc'[i] = "tokens" => Rows(t) = {}
    BY <1>0, <2>3 DEF TypeOK
  <2>5. \A j \in Introspects \ {i} : /\ asked'[j] = asked[j] /\ doomed'[j] = doomed[j]
                                     /\ acked'[j] = acked[j] /\ ipc'[j] = ipc[j]
    BY <1>0, <2>3 DEF TypeOK
  <2>6. Named'
    BY <1>0, <2>1, <2>3, <2>4, <2>5 DEF Named, ending
  <2>7. DoomedStops'
    <3>1. ipc'[i] \in AskBusy /\ doomed'[i] => Spent(t)
      BY <2>4 DEF Dead, Spent, AskBusy
    <3> QED BY <1>0, <2>1, <2>4, <2>5, <3>1 DEF DoomedStops, Spent, tokens
  <2>8. AckedDooms'
    <3>1. \A v \in acked'[i] : blind[v] \/ doomed'[i]
      BY <2>4, AckedIsDead
    <3> QED BY <1>0, <2>1, <2>5, <3>1 DEF AckedDooms, ending
  <2> QED BY <1>0, <2>2, <2>6, <2>7, <2>8 DEF IInv
<1>2. ASSUME NEW i \in Introspects, IntrospectToken(i) PROVE IInv'
  <2>1. UNCHANGED <<now, tokens, store, asked, doomed, acked, ending>>
    BY <1>2 DEF IntrospectToken
  <2>2. WrittenLast' /\ PurgedLate' /\ Covers'
    BY <1>a, <2>1 DEF store, ending
  <2>3. /\ ipc[i] = "tokens" /\ ipc'[i] \in {"check", "inactive"}
        /\ ipc'[i] = "check" => kind[asked[i]] = "AccessToken"
        /\ \A j \in Introspects \ {i} : ipc'[j] = ipc[j]
    BY <1>0, <1>2 DEF IntrospectToken, Listed, TypeOK
  <2>4. Named'
    BY <1>0, <2>1, <2>3 DEF Named, ending
  <2>5. DoomedStops'
    BY <1>0, <2>1, <2>3 DEF DoomedStops, Spent, tokens, AskBusy
  <2>6. AckedDooms'
    BY <1>0, <2>1 DEF AckedDooms, ending
  <2> QED BY <1>0, <2>2, <2>4, <2>5, <2>6 DEF IInv
<1>3. ASSUME NEW i \in Introspects, IntrospectCheck(i) PROVE IInv'
  <2>1. UNCHANGED <<now, tokens, store, asked, doomed, acked, ending>>
    BY <1>3 DEF IntrospectCheck
  <2>2. WrittenLast' /\ PurgedLate' /\ Covers'
    BY <1>a, <2>1 DEF store, ending
  <2>3. /\ ipc[i] = "check" /\ ipc'[i] \in {"active", "inactive"}
        /\ ipc'[i] = "active" => ~(now > expiry[asked[i]])
        /\ \A j \in Introspects \ {i} : ipc'[j] = ipc[j]
    BY <1>0, <1>3 DEF IntrospectCheck, TypeOK
  <2>4. Named'
    BY <1>0, <2>1, <2>3 DEF Named, ending
  <2>5. DoomedStops'
    BY <1>0, <2>1, <2>3 DEF DoomedStops, Spent, tokens, AskBusy
  <2>6. AckedDooms'
    BY <1>0, <2>1 DEF AckedDooms, ending
  <2> QED BY <1>0, <2>2, <2>4, <2>5, <2>6 DEF IInv
<1>4. ASSUME NEW v \in Revokes, RevokeStart(v) PROVE IInv'
  <2>1. /\ rpc[v] = "idle" /\ rpc'[v] = "access" /\ target'[v] \in Tokens
        /\ \A w \in Revokes \ {v} : rpc'[w] = rpc[w] /\ target'[w] = target[w]
        /\ UNCHANGED <<now, tokens, store, asking, blind>>
    BY <1>0, <1>4 DEF RevokeStart, TypeOK
  <2>2. Named' /\ DoomedStops' /\ AckedDooms'
    BY <1>0, <1>b, <2>1 DEF Named
  <2>3. WrittenLast'
    BY <1>0, <2>1 DEF WrittenLast, store, EndBusy
  <2>4. PurgedLate'
    BY <1>0, <2>1 DEF PurgedLate, store, tokens
  <2>5. Covers'
    BY <1>0, <2>1 DEF Covers, Spent, store, tokens
  <2> QED BY <1>0, <2>2, <2>3, <2>4, <2>5 DEF IInv
<1>5. ASSUME NEW v \in Revokes, RevokeAccess(v) \/ RevokeRefresh(v) PROVE IInv'
  <2>1. /\ UNCHANGED <<now, tokens, stored, row, asking, target>>
        /\ rpc[v] \in {"access", "refresh"} /\ target[v] \in Tokens
    BY <1>0, <1>5 DEF RevokeAccess, RevokeRefresh, Named
  <2>2. PICK ty, next : /\ \/ rpc[v] = "access" /\ ty = "AccessToken" /\ next = "refresh"
                           \/ rpc[v] = "refresh" /\ ty = "RefreshToken" /\ next = "write"
                        /\ Lookup(v, ty, next)
    BY <1>5 DEF RevokeAccess, RevokeRefresh
  <2>3. /\ \A w \in Revokes \ {v} :
             rpc'[w] = rpc[w] /\ blind'[w] = blind[w] /\ rowExpiry'[w] = rowExpiry[w]
        /\ rpc'[v] \in {"refresh", "write"}
        /\ ~blind'[v] => /\ ~blind[v]
                         /\ \/ rpc'[v] = "write" /\ rowExpiry'[v] = expiry[target[v]]
                            \/ rpc'[v] = next /\ ~Listed(target[v], ty)
    BY <1>0, <2>1, <2>2, LookupStep
  <2>4. Named' /\ DoomedStops' /\ AckedDooms'
    BY <1>0, <1>b, <2>1, <2>3 DEF Named
  <2>5. row[v] = "none"
    BY <1>0, <2>1 DEF WrittenLast, EndBusy
  <2>6. WrittenLast'
    BY <1>0, <2>1, <2>3, <2>5 DEF WrittenLast, EndBusy
  <2>7. PurgedLate'
    BY <1>0, <2>1, <2>3, <2>5 DEF PurgedLate, tokens
  <2>8. Covers'
    <3>1. expiry[target[v]] \in Nat
      BY <1>0, <2>1 DEF TypeOK, Time
    <3>2. ASSUME ~blind'[v], ~(rpc'[v] = "write" /\ rowExpiry'[v] = expiry[target[v]])
          PROVE  Spent(target[v])
      <4>1. rpc'[v] = next /\ ~Listed(target[v], ty) /\ ~blind[v]
        BY <2>3, <3>2
      <4>2. CASE rpc[v] = "refresh"
        BY <1>0, <4>1, <4>2 DEF Covers
      <4>3. CASE rpc[v] = "access"
        BY <1>0, <2>1, <2>2, <4>1, <4>3 DEF Listed, PurgedLate, Spent
      <4> QED BY <2>1, <4>2, <4>3
    <3>3. \A w \in Revokes : Spent(target[w])' <=> Spent(target[w])
      BY <2>1 DEF Spent, tokens
    <3>4. \A w \in Revokes : target'[w] = target[w] /\ expiry'[target'[w]] = expiry[target[w]]
      BY <2>1 DEF tokens
    <3>5. ~blind'[v] => /\ rpc'[v] = "refresh" => Spent(target[v])'
                        /\ rpc'[v] \in {"write", "ok"} =>
                             Spent(target[v])' \/ rowExpiry'[v] >= expiry'[target'[v]]
      BY <2>3, <3>1, <3>2, <3>3, <3>4
    <3>6. \A w \in Revokes \ {v} : ~blind'[w] =>
             /\ rpc'[w] = "refresh" => Spent(target[w])'
             /\ rpc'[w] \in {"write", "ok"} =>
                  Spent(target[w])' \/ rowExpiry'[w] >= expiry'[target'[w]]
      BY <1>0, <2>3, <3>3, <3>4 DEF Covers
    <3> QED BY <3>5, <3>6 DEF Covers
  <2> QED BY <1>0, <2>4, <2>6, <2>7, <2>8 DEF IInv
<1>6. ASSUME NEW v \in Revokes, RevokeWrite(v) PROVE IInv'
  <2>1. UNCHANGED <<now, tokens, stored, rowExpiry, asking, target, revokedAt, blind>>
    BY <1>6 DEF RevokeWrite
  <2>2. PICK o \in WriteOutcome :
          /\ row' = IF Applied(o) THEN [row EXCEPT ![v] = "live"] ELSE row
          /\ rpc' = [rpc EXCEPT ![v] = IF o = "ok" THEN "ok" ELSE "unavailable"]
    BY <1>6 DEF RevokeWrite
  <2>3. /\ rpc[v] = "write" /\ rpc'[v] \in {"ok", "unavailable"} /\ row'[v] \in {row[v], "live"}
        /\ rpc'[v] = "ok" => row'[v] = "live"
        /\ \A w \in Revokes \ {v} : rpc'[w] = rpc[w] /\ row'[w] = row[w]
    BY <1>0, <1>6, <2>2 DEF RevokeWrite, Applied, TypeOK
  <2>4. Named' /\ DoomedStops' /\ AckedDooms'
    BY <1>0, <1>b, <2>1, <2>3 DEF Named
  <2>5. WrittenLast'
    BY <1>0, <2>3 DEF WrittenLast, EndBusy
  <2>6. PurgedLate'
    BY <1>0, <2>1, <2>3 DEF PurgedLate, tokens
  <2>7. Covers'
    BY <1>0, <2>1, <2>3 DEF Covers, Spent, tokens
  <2> QED BY <1>0, <2>4, <2>5, <2>6, <2>7 DEF IInv
<1>7. ASSUME NEW v \in Revokes, PurgeRow(v) PROVE IInv'
  <2>1. UNCHANGED <<now, tokens, stored, rowExpiry, asking, ending>>
    BY <1>7 DEF PurgeRow
  <2>2. /\ row[v] = "live" /\ row'[v] = "purged" /\ now > rowExpiry[v]
        /\ \A w \in Revokes \ {v} : row'[w] = row[w]
    BY <1>0, <1>7 DEF PurgeRow, TypeOK
  <2>3. Named' /\ DoomedStops' /\ AckedDooms'
    BY <1>0, <1>b, <2>1 DEF Named, ending
  <2>4. WrittenLast'
    BY <1>0, <2>1, <2>2 DEF WrittenLast, ending
  <2>5. PurgedLate'
    BY <1>0, <2>1, <2>2 DEF PurgedLate, tokens
  <2>6. Covers'
    BY <1>0, <2>1 DEF Covers, Spent, tokens, ending
  <2> QED BY <1>0, <2>3, <2>4, <2>5, <2>6 DEF IInv
<1>8. ASSUME NEW t \in Tokens, PurgeToken(t) PROVE IInv'
  <2>1. /\ UNCHANGED <<now, tokens, row, rowExpiry, asking, ending>> /\ now > expiry[t]
        /\ \A u \in Tokens \ {t} : stored'[u] = stored[u]
    BY <1>0, <1>8 DEF PurgeToken, TypeOK
  <2>2. Named' /\ DoomedStops' /\ AckedDooms'
    BY <1>0, <1>b, <2>1 DEF Named, ending
  <2>3. WrittenLast'
    BY <1>0, <2>1 DEF WrittenLast, ending
  <2>4. PurgedLate'
    BY <1>0, <2>1 DEF PurgedLate, tokens
  <2>5. Covers'
    BY <1>0, <2>1 DEF Covers, Spent, tokens, ending
  <2> QED BY <1>0, <2>2, <2>3, <2>4, <2>5 DEF IInv
<1>9. ASSUME UNCHANGED <<store, asking, ending>> PROVE IInv'
  <2>1. Named' /\ DoomedStops' /\ AckedDooms'
    BY <1>0, <1>9, <1>b DEF Named, ending
  <2> QED BY <1>0, <1>9, <1>a, <2>1 DEF IInv, store, ending
<1>10. CASE Crash
  <2>1. /\ UNCHANGED <<now, tokens, store, asked, doomed, acked, target, blind>>
        /\ \A i \in Introspects :
             ipc'[i] = ipc[i] \/ (ipc[i] \in AskBusy /\ ipc'[i] = "crashed")
        /\ \A v \in Revokes :
             rpc'[v] = rpc[v] \/ (rpc[v] \in EndBusy /\ rpc'[v] = "crashed")
    BY <1>10 DEF Crash
  <2>2. Named'
    BY <1>0, <2>1 DEF Named, AskBusy, EndBusy, TypeOK
  <2>3. WrittenLast'
    BY <1>0, <2>1 DEF WrittenLast, EndBusy, store
  <2>4. PurgedLate'
    BY <1>0, <2>1 DEF PurgedLate, store, tokens
  <2>5. Covers'
    BY <1>0, <2>1 DEF Covers, Spent, store, tokens
  <2>6. DoomedStops'
    BY <1>0, <2>1 DEF DoomedStops, Spent, tokens, AskBusy
  <2>7. AckedDooms'
    BY <1>0, <2>1 DEF AckedDooms
  <2> QED BY <1>0, <2>2, <2>3, <2>4, <2>5, <2>6, <2>7 DEF IInv
<1> QED BY <1>1, <1>2, <1>3, <1>4, <1>5, <1>6, <1>7, <1>8, <1>9, <1>10
        DEF Next, Tick, Finished, vars

-----------------------------------------------------------------------------

\* Every reachable state of introspection and revocation is well typed.
THEOREM TypeCorrect == Spec => []TypeOK
<1>1. IInv => TypeOK
  BY DEF IInv
<1> QED BY InitIInv, NextIInv, <1>1, PTL DEF Spec

\* A token whose revocation was acknowledged before an introspection began is not
\* active, whatever the database removes, unless a lookup of the Revoke call failed.
THEOREM RevokedIsInactive == Spec => []RevokedNotActive
<1>1. IInv => RevokedNotActive
  BY DEF IInv, AckedDooms, DoomedStops, RevokedNotActive
<1> QED BY InitIInv, NextIInv, <1>1, PTL DEF Spec

\* A Revoke call that returned success, none of whose lookups failed, left its token
\* dead: no step of the database or of another call undoes that.
RevocationLasts ==
    \A v \in Revokes : rpc[v] = "ok" /\ ~blind[v] => Dead(target[v])

\* Every acknowledged revocation lasts, unless a lookup of its call failed.
THEOREM AckedRevocationLasts == Spec => []RevocationLasts
<1>1. IInv => RevocationLasts
  BY AckedIsDead DEF RevocationLasts
<1> QED BY InitIInv, NextIInv, <1>1, PTL DEF Spec

-----------------------------------------------------------------------------
(* The refinement of TokenValidity *)

\* What the refinement shows of a call.
Answer(i) == CASE ipc[i] = "idle" -> "none"
               [] ipc[i] \in AskBusy -> "open"
               [] ipc[i] = "active" -> "active"
               [] OTHER -> "inactive"

DeadTokens == {t \in Tokens : Dead(t)}

\* What Answer is, phase by phase.
LEMMA Answers ==
    ASSUME NEW i \in Introspects
    PROVE  /\ ipc[i] = "idle" => Answer(i) = "none"
           /\ ipc[i] \in AskBusy => Answer(i) = "open"
           /\ ipc[i] = "active" => Answer(i) = "active"
           /\ ipc[i] \in {"inactive", "crashed"} => Answer(i) = "inactive"
BY DEF Answer, AskBusy

\* What can never be active again stays so, whatever step is taken.
LEMMA DeadStep ==
    ASSUME IInv, [Next]_vars, NEW t \in Tokens, Dead(t)
    PROVE  Dead(t)'
<1>0. TypeOK /\ WrittenLast /\ TypeOK'
  BY NextIInv DEF IInv
<1>1. CASE Spent(t)
  BY <1>0, <1>1, SpentStep DEF Spent, Dead
<1>2. CASE ~Spent(t)
  <2>1. PICK v : v \in Rows(t) /\ rowExpiry[v] >= expiry[t]
    BY <1>2 DEF Dead, Spent
  <2>2. v \in Revokes /\ row[v] = "live" /\ target[v] = t
    BY <2>1 DEF Rows
  <2>3. rpc[v] \notin {"idle"} \union EndBusy
    BY <1>0, <2>2 DEF WrittenLast
  <2>4. /\ now \in Nat /\ expiry[t] \in Nat /\ rowExpiry[v] \in Nat
    BY <1>0, <2>2 DEF TypeOK, Time
  <2>5. ~(now > rowExpiry[v])
    BY <1>2, <2>1, <2>4 DEF Spent
  <2>6. row'[v] = "live" /\ target'[v] = t /\ rowExpiry'[v] = rowExpiry[v]
    <3>1. ASSUME NEW w \in Revokes, RevokeStart(w) PROVE <2>6
      BY <1>0, <2>2, <2>3, <3>1 DEF RevokeStart, store, TypeOK
    <3>2. ASSUME NEW w \in Revokes, RevokeAccess(w) \/ RevokeRefresh(w) PROVE <2>6
      <4>1. w # v /\ UNCHANGED <<row, target>>
        BY <2>3, <3>2 DEF RevokeAccess, RevokeRefresh, EndBusy
      <4>2. target[w] \in Tokens
        BY <3>2 DEF IInv, Named, RevokeAccess, RevokeRefresh
      <4>3. PICK ty, next : Lookup(w, ty, next)
        BY <3>2 DEF RevokeAccess, RevokeRefresh
      <4> QED BY <1>0, <2>2, <4>1, <4>2, <4>3, LookupStep
    <3>3. ASSUME NEW w \in Revokes, RevokeWrite(w) PROVE <2>6
      BY <1>0, <2>2, <3>3 DEF RevokeWrite, TypeOK
    <3>4. ASSUME NEW w \in Revokes, PurgeRow(w) PROVE <2>6
      BY <1>0, <2>2, <2>5, <3>4 DEF PurgeRow, ending, TypeOK
    <3>5. ASSUME UNCHANGED <<row, rowExpiry, target>> PROVE <2>6
      BY <2>2, <3>5
    <3> QED BY <3>1, <3>2, <3>3, <3>4, <3>5
            DEF Next, IntrospectRows, IntrospectToken, IntrospectCheck, PurgeToken, Tick, Crash,
                Finished, vars, store, ending
  <2> QED BY <2>1, <2>2, <2>6, ClockStep, <1>0 DEF Dead, Rows, tokens
<1> QED BY <1>1, <1>2

LEMMA InitRefines == Init => Validity!Init
<1> SUFFICES ASSUME Init PROVE Validity!Init
  OBVIOUS
<1>1. \A i \in Introspects : Answer(i) = "none"
  BY Answers DEF Init
<1> QED BY <1>1 DEF Init, Validity!Init, Answer

\* A step of Tokens is a step of TokenValidity, or leaves it as it is.
LEMMA NextRefines == IInv /\ [Next]_vars => [Validity!Next]_(Validity!valid)
<1> SUFFICES ASSUME IInv, [Next]_vars PROVE [Validity!Next]_(Validity!valid)
  OBVIOUS
<1> DEFINE answer == [i \in Introspects |-> Answer(i)]
<1>0. TypeOK /\ TypeOK' /\ DoomedStops
  BY NextIInv DEF IInv
<1>1. DeadTokens \subseteq DeadTokens' /\ DeadTokens' \in SUBSET Tokens
  BY DeadStep DEF DeadTokens
\* A step of no Introspect call.
<1>2. ASSUME UNCHANGED asking PROVE [Validity!Next]_(Validity!valid)
  <2>1. answer' = answer
    BY <1>2 DEF asking, Answer
  <2> QED BY <1>1, <1>2, <2>1 DEF Validity!Next, Validity!Die, DeadTokens, Answer, asking
\* A step of an Introspect call changes no token.
<1>3. ASSUME UNCHANGED <<now, tokens, store, ending>> PROVE DeadTokens' = DeadTokens
  BY <1>3 DEF DeadTokens, Dead, Rows, tokens, store, ending
<1>4. ASSUME NEW i \in Introspects, IntrospectRows(i) PROVE Validity!Ask(i)
  <2>1. PICK t, o :
          /\ t \in Tokens
          /\ asked' = [asked EXCEPT ![i] = t]
          /\ doomed' = [doomed EXCEPT ![i] = Dead(t)]
          /\ ipc' = [ipc EXCEPT ![i] = IF o = "ok" /\ Rows(t) = {} THEN "tokens" ELSE "inactive"]
    BY <1>4 DEF IntrospectRows
  <2>2. DeadTokens' = DeadTokens
    BY <1>3, <1>4 DEF IntrospectRows
  <2>3. /\ ipc[i] = "idle" /\ ipc'[i] \in {"tokens", "inactive"}
        /\ \A j \in Introspects \ {i} : ipc'[j] = ipc[j]
    BY <1>0, <1>4, <2>1 DEF IntrospectRows, TypeOK
  <2>4. Answer(i) = "none" /\ Answer(i)' \in {"open", "inactive"}
    BY <2>3 DEF Answer, AskBusy
  <2>5. \A j \in Introspects \ {i} : Answer(j)' = Answer(j)
    BY <2>3 DEF Answer
  <2>6. answer' = [answer EXCEPT ![i] = Answer(i)']
    BY <2>5
  <2>7. doomed' = [doomed EXCEPT ![i] = t \in DeadTokens]
    <3>1. Dead(t) <=> t \in DeadTokens
      BY <2>1 DEF DeadTokens
    <3>2. Dead(t) \in BOOLEAN
      BY DEF Dead
    <3>3. Dead(t) = (t \in DeadTokens)
      BY <3>1, <3>2, SMT
    <3> QED BY <2>1, <3>3, Zenon
  <2> QED BY <2>1, <2>2, <2>4, <2>6, <2>7 DEF Validity!Ask, DeadTokens, Answer
<1>5. ASSUME NEW i \in Introspects, IntrospectToken(i) \/ IntrospectCheck(i),
             ipc'[i] = "inactive"
      PROVE  Validity!Deny(i)
  <2>1. DeadTokens' = DeadTokens /\ UNCHANGED <<asked, doomed>>
    BY <1>3, <1>5 DEF IntrospectToken, IntrospectCheck
  <2>2. ipc[i] \in AskBusy /\ \A j \in Introspects \ {i} : ipc'[j] = ipc[j]
    BY <1>0, <1>5 DEF IntrospectToken, IntrospectCheck, AskBusy, TypeOK
  <2>3. Answer(i) = "open" /\ Answer(i)' = "inactive"
    BY <1>5, <2>2 DEF Answer, AskBusy
  <2>4. \A j \in Introspects \ {i} : Answer(j)' = Answer(j)
    BY <2>2 DEF Answer
  <2>5. answer' = [answer EXCEPT ![i] = "inactive"]
    BY <2>3, <2>4
  <2> QED BY <2>1, <2>3, <2>5 DEF Validity!Deny, DeadTokens, Answer
<1>6. ASSUME NEW i \in Introspects, IntrospectToken(i), ipc'[i] = "check"
      PROVE  [Validity!Next]_(Validity!valid)
  <2>1. DeadTokens' = DeadTokens /\ UNCHANGED <<asked, doomed>>
    BY <1>3, <1>6 DEF IntrospectToken
  <2>2. ipc[i] \in AskBusy /\ ipc'[i] \in AskBusy
    BY <1>6 DEF IntrospectToken, AskBusy
  <2>3. \A j \in Introspects \ {i} : ipc'[j] = ipc[j]
    BY <1>0, <1>6 DEF IntrospectToken, TypeOK
  <2>4. \A j \in Introspects : Answer(j)' = Answer(j)
    BY <2>2, <2>3 DEF Answer, AskBusy
  <2>5. answer' = answer
    BY <2>4
  <2> QED BY <2>1, <2>5 DEF Validity!valid, DeadTokens, Answer
<1>7. ASSUME NEW i \in Introspects, IntrospectCheck(i), ipc'[i] = "active"
      PROVE  Validity!Confirm(i)
  <2>1. DeadTokens' = DeadTokens /\ UNCHANGED <<asked, doomed>>
    BY <1>3, <1>7 DEF IntrospectCheck
  <2>2. ipc[i] = "check" /\ \A j \in Introspects \ {i} : ipc'[j] = ipc[j]
    BY <1>0, <1>7 DEF IntrospectCheck, TypeOK
  <2>3. Answer(i) = "open" /\ Answer(i)' = "active"
    BY <1>7, <2>2 DEF Answer, AskBusy
  <2>4. \A j \in Introspects \ {i} : Answer(j)' = Answer(j)
    BY <2>2 DEF Answer
  <2>5. answer' = [answer EXCEPT ![i] = "active"]
    BY <2>3, <2>4
  <2>6. ~doomed[i]
    BY <1>7, NextIInv, <2>1 DEF IInv, DoomedStops
  <2> QED BY <2>1, <2>3, <2>5, <2>6 DEF Validity!Confirm, DeadTokens, Answer
<1>8. CASE Crash
  <2>1. DeadTokens' = DeadTokens
    BY <1>8 DEF Crash, DeadTokens, Dead, Rows, tokens, store
  <2>2. \A i \in Introspects :
          ipc'[i] = ipc[i] \/ (ipc[i] \in AskBusy /\ ipc'[i] = "crashed")
    BY <1>8 DEF Crash
  <2>3. \A i \in Introspects :
          Answer(i)' = Answer(i) \/ (Answer(i) = "open" /\ Answer(i)' = "inactive")
    BY <2>2 DEF Answer, AskBusy
  <2>4. \A i \in Introspects : Answer(i)' \in {"none", "open", "inactive", "active"}
    BY DEF Answer
  <2>5. answer' \in [Introspects -> {"none", "open", "inactive", "active"}]
    BY <2>4
  <2>6. Validity!Abandon
    BY <1>8, <2>1, <2>3, <2>5 DEF Validity!Abandon, Crash, DeadTokens, Answer
  <2> QED BY <2>6 DEF Validity!Next
<1>9. ASSUME NEW i \in Introspects,
             IntrospectRows(i) \/ IntrospectToken(i) \/ IntrospectCheck(i)
      PROVE  [Validity!Next]_(Validity!valid)
  <2>1. IntrospectToken(i) => ipc'[i] \in {"check", "inactive"}
    BY <1>0 DEF IntrospectToken, TypeOK
  <2>2. IntrospectCheck(i) => ipc'[i] \in {"active", "inactive"}
    BY <1>0 DEF IntrospectCheck, TypeOK
  <2> QED BY <1>4, <1>5, <1>6, <1>7, <1>9, <2>1, <2>2 DEF Validity!Next
<1> QED BY <1>2, <1>8, <1>9
        DEF Next, RevokeStart, RevokeAccess, RevokeRefresh, RevokeWrite, PurgeRow, PurgeToken,
            Tick, Finished, vars

\* Tokens implements TokenValidity: a dead token never comes to life again, and an
\* introspection that begins when its token is dead never says active of it.
THEOREM ValidityRefines == Spec => ImplementsTokenValidity
<1>1. []IInv /\ [][Next]_vars => [][Validity!Next]_(Validity!valid)
  BY NextRefines, PTL
<1> QED BY InitIInv, NextIInv, InitRefines, <1>1, PTL
        DEF Spec, ImplementsTokenValidity, Validity!Spec

=============================================================================
