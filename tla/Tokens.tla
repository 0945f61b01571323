--------------------------------- MODULE Tokens ---------------------------------
(***************************************************************************)
(* Introspection and revocation of tokens (src/token_ops.go), over a       *)
(* collection whose documents the database removes once they have expired  *)
(* (org_oauth_artifacts, TTL-indexed).                                     *)
(*                                                                         *)
(* Authorize and Token are stubs: no call of this program issues a token,  *)
(* so the tokens are in the store from the start, each with its expiry,    *)
(* and are never changed, only removed.  A call of Revoke creates at most  *)
(* one TokenRevocation, named by the call.  No token's expires_at is       *)
(* empty: the schema requires it.                                          *)
(***************************************************************************)
EXTENDS EntityStore

CONSTANTS
    Tokens,      \* the tokens in the store
    Introspects, \* the calls of Introspect
    Revokes,     \* the calls of Revoke
    Second,      \* how many units of the clock a second lasts
    MaxTime,     \* bound: the last instant of the clock
    MaxFaults,   \* bound: failing store calls and crashes in a behaviour
    NoToken      \* what a call that has not begun names

ASSUME TokensAssumption ==
    /\ Second \in Nat \ {0}
    /\ MaxTime \in Nat
    /\ MaxFaults \in Nat
    /\ NoToken \notin Tokens

VARIABLES
    now,       \* the manager's clock
    kind,      \* the type of each token, AccessToken or RefreshToken
    expiry,    \* its expires_at
    stored,    \* it has not been removed
    row,       \* each TokenRevocation: not created, in the store, or removed
    rowExpiry, \* its expires_at
    ipc,       \* where each Introspect call is
    asked,     \* the token it is asked about
    doomed,    \* history: that token was beyond use when the call began
    rpc,       \* where each Revoke call is
    target,    \* the token it revokes
    revokedAt, \* its local variable now
    acked,     \* history: the Revoke calls that had returned success when each
               \* Introspect call began
    blind,     \* history: a lookup of the Revoke call failed
    faults     \* failures and crashes so far

tokens == <<kind, expiry>>
store  == <<stored, row, rowExpiry>>
asking == <<ipc, asked, doomed, acked>>
ending == <<rpc, target, revokedAt, blind>>
vars   == <<now, tokens, store, asking, ending, faults>>

-----------------------------------------------------------------------------

Time == 0..MaxTime

AskBusy == {"tokens", "check"}
AskDone == {"active", "inactive", "crashed"}
EndBusy == {"access", "refresh", "write"}
EndDone == {"ok", "unavailable", "crashed"}

\* Mutant: rounds up.
ToSecondUp(t) == t + ((Second - (t % Second)) % Second)

\* A time formatted as 2006-01-02T15:04:05Z.
ToSecond(t) == t - (t % Second)

\* What the store lists.
Rows(t)       == {v \in Revokes : row[v] = "live" /\ target[v] = t}
Listed(t, ty) == stored[t] /\ kind[t] = ty

\* Nothing that can still happen makes an introspection of the token say active:
\* it is expired, it is no access token, or a revocation stays for as long as it.
\* To the code a token is expired after its expires_at, not yet at it.
Dead(t) ==
    \/ kind[t] # "AccessToken"
    \/ now > expiry[t]
    \/ \E v \in Rows(t) : rowExpiry[v] >= expiry[t]

MayFault(outcome) == faults + FaultCost(outcome) <= MaxFaults
Fault(outcome)    == faults' = faults + FaultCost(outcome)

-----------------------------------------------------------------------------
(* Introspect *)

\* Look for a revocation of the token; an error of the store is "inactive" too.
IntrospectRows(i) ==
    /\ ipc[i] = "idle"
    /\ \E t \in Tokens, o \in ReadOutcome :
        /\ MayFault(o) /\ Fault(o)
        /\ asked' = [asked EXCEPT ![i] = t]
        /\ doomed' = [doomed EXCEPT ![i] = Dead(t)]
        /\ acked' = [acked EXCEPT ![i] = {v \in Revokes : rpc[v] = "ok" /\ target[v] = t}]
        /\ ipc' = [ipc EXCEPT ![i] = IF o = "ok" /\ Rows(t) = {} THEN "tokens" ELSE "inactive"]
    /\ UNCHANGED <<now, tokens, store, ending>>

\* Look for the access token.
IntrospectToken(i) ==
    /\ ipc[i] = "tokens"
    /\ \E o \in ReadOutcome :
        /\ MayFault(o) /\ Fault(o)
        /\ ipc' = [ipc EXCEPT ![i] = IF o = "ok" /\ Listed(asked[i], "AccessToken")
                                     THEN "check" ELSE "inactive"]
    /\ UNCHANGED <<now, tokens, store, asked, doomed, acked, ending>>

\* Mutant: relies on the database to remove what has expired.
IntrospectCheckNoClock(i) ==
    /\ ipc[i] = "check"
    /\ ipc' = [ipc EXCEPT ![i] = "active"]
    /\ UNCHANGED <<now, tokens, store, asked, doomed, acked, ending, faults>>

\* Compare its expires_at with the clock: at that very instant the token is active,
\* where introspection.md:42 has it inactive ("expires_at <= now").
IntrospectCheck(i) ==
    /\ ipc[i] = "check"
    /\ ipc' = [ipc EXCEPT ![i] = IF now > expiry[asked[i]] THEN "inactive" ELSE "active"]
    /\ UNCHANGED <<now, tokens, store, asked, doomed, acked, ending, faults>>

-----------------------------------------------------------------------------
(* Revoke *)

\* Read the clock.
RevokeStart(v) ==
    /\ rpc[v] = "idle"
    /\ \E t \in Tokens : target' = [target EXCEPT ![v] = t]
    /\ revokedAt' = [revokedAt EXCEPT ![v] = ToSecond(now)]
    /\ rpc' = [rpc EXCEPT ![v] = "access"]
    /\ UNCHANGED <<now, tokens, store, asking, blind, faults>>

\* One iteration of the lookup loop, for one type of token: take the expires_at of the
\* token if it is listed, and go on otherwise.  An error of the store is passed over.
Lookup(v, ty, otherwise) ==
    \E o \in ReadOutcome :
        /\ MayFault(o) /\ Fault(o)
        /\ blind' = [blind EXCEPT ![v] = @ \/ o = "fail"]
        /\ IF o = "ok" /\ Listed(target[v], ty)
           THEN /\ rowExpiry' = [rowExpiry EXCEPT ![v] = expiry[target[v]]]
                /\ rpc' = [rpc EXCEPT ![v] = "write"]
           ELSE /\ rowExpiry' = [rowExpiry EXCEPT ![v] = revokedAt[v]]
                /\ rpc' = [rpc EXCEPT ![v] = otherwise]

\* Mutant: the loop looks for refresh tokens only.
RevokeAccessMissed(v) ==
    /\ rpc[v] = "access"
    /\ Lookup(v, "RefreshToken", "refresh")
    /\ UNCHANGED <<now, tokens, stored, row, asking, target, revokedAt>>

RevokeAccess(v) ==
    /\ rpc[v] = "access"
    /\ Lookup(v, "AccessToken", "refresh")
    /\ UNCHANGED <<now, tokens, stored, row, asking, target, revokedAt>>

\* When neither type lists the token, expires_at is the time of the call.
RevokeRefresh(v) ==
    /\ rpc[v] = "refresh"
    /\ Lookup(v, "RefreshToken", "write")
    /\ UNCHANGED <<now, tokens, stored, row, asking, target, revokedAt>>

\* Create the TokenRevocation.
RevokeWrite(v) ==
    /\ rpc[v] = "write"
    /\ \E o \in WriteOutcome :
        /\ MayFault(o) /\ Fault(o)
        /\ row' = IF Applied(o) THEN [row EXCEPT ![v] = "live"] ELSE row
        /\ rpc' = [rpc EXCEPT ![v] = IF o = "ok" THEN "ok" ELSE "unavailable"]
    /\ UNCHANGED <<now, tokens, stored, rowExpiry, asking, target, revokedAt, blind>>

-----------------------------------------------------------------------------
(* The environment *)

Tick ==
    /\ now < MaxTime
    /\ now' = now + 1
    /\ UNCHANGED <<tokens, store, asking, ending, faults>>

\* The TTL index: the database removes an expired document, when it comes to it.
PurgeToken(t) ==
    /\ stored[t] /\ now > expiry[t]
    /\ stored' = [stored EXCEPT ![t] = FALSE]
    /\ UNCHANGED <<now, tokens, row, rowExpiry, asking, ending, faults>>

PurgeRow(v) ==
    /\ row[v] = "live" /\ now > rowExpiry[v]
    /\ row' = [row EXCEPT ![v] = "purged"]
    /\ UNCHANGED <<now, tokens, stored, rowExpiry, asking, ending, faults>>

\* The server process dies: every call in progress ends where it is.
Crash ==
    /\ faults < MaxFaults
    /\ \/ \E i \in Introspects : ipc[i] \in AskBusy
       \/ \E v \in Revokes : rpc[v] \in EndBusy
    /\ faults' = faults + 1
    /\ ipc' = [i \in Introspects |-> IF ipc[i] \in AskBusy THEN "crashed" ELSE ipc[i]]
    /\ rpc' = [v \in Revokes |-> IF rpc[v] \in EndBusy THEN "crashed" ELSE rpc[v]]
    /\ UNCHANGED <<now, tokens, store, asked, doomed, acked, target, revokedAt, blind>>

\* The clock is at its bound and every call has returned: nothing is left to do.
Finished ==
    /\ now = MaxTime
    /\ \A i \in Introspects : ipc[i] \in AskDone
    /\ \A v \in Revokes : rpc[v] \in EndDone
    /\ UNCHANGED vars

Init ==
    /\ now = 0
    /\ kind \in [Tokens -> {"AccessToken", "RefreshToken"}]
    /\ expiry \in [Tokens -> Time]
    /\ stored = [t \in Tokens |-> TRUE]
    /\ row = [v \in Revokes |-> "none"]
    /\ rowExpiry = [v \in Revokes |-> 0]
    /\ ipc = [i \in Introspects |-> "idle"]
    /\ asked = [i \in Introspects |-> NoToken]
    /\ doomed = [i \in Introspects |-> FALSE]
    /\ acked = [i \in Introspects |-> {}]
    /\ rpc = [v \in Revokes |-> "idle"]
    /\ target = [v \in Revokes |-> NoToken]
    /\ revokedAt = [v \in Revokes |-> 0]
    /\ blind = [v \in Revokes |-> FALSE]
    /\ faults = 0

Next ==
    \/ \E i \in Introspects : IntrospectRows(i) \/ IntrospectToken(i) \/ IntrospectCheck(i)
    \/ \E v \in Revokes : \/ RevokeStart(v) \/ RevokeAccess(v) \/ RevokeRefresh(v)
                          \/ RevokeWrite(v) \/ PurgeRow(v)
    \/ \E t \in Tokens : PurgeToken(t)
    \/ Tick
    \/ Crash
    \/ Finished

Spec == Init /\ [][Next]_vars

-----------------------------------------------------------------------------
(* Properties *)

\* Every variable holds a value of its kind.
TypeOK ==
    /\ now \in Time
    /\ kind \in [Tokens -> {"AccessToken", "RefreshToken"}]
    /\ expiry \in [Tokens -> Time]
    /\ stored \in [Tokens -> BOOLEAN]
    /\ row \in [Revokes -> {"none", "live", "purged"}]
    /\ rowExpiry \in [Revokes -> Time]
    /\ ipc \in [Introspects -> {"idle"} \union AskBusy \union AskDone]
    /\ asked \in [Introspects -> Tokens \union {NoToken}]
    /\ doomed \in [Introspects -> BOOLEAN]
    /\ acked \in [Introspects -> SUBSET Revokes]
    /\ rpc \in [Revokes -> {"idle"} \union EndBusy \union EndDone]
    /\ target \in [Revokes -> Tokens \union {NoToken}]
    /\ revokedAt \in [Revokes -> Time]
    /\ blind \in [Revokes -> BOOLEAN]
    /\ faults \in 0..MaxFaults

\* A token whose revocation was acknowledged before an introspection began is not
\* active, although the database removes revocations: they last as long as their
\* token, unless a lookup of the Revoke call failed.
RevokedNotActive ==
    \A i \in Introspects : ipc[i] = "active" => \A v \in acked[i] : blind[v]

\* Tokens implements TokenValidity: whatever the database removes and whenever, a
\* dead token never comes to life again, and Introspect never says active of a token
\* that was dead when the call began, although it reads three things one by one.
Validity == INSTANCE TokenValidity WITH
    Questions <- Introspects,
    dead      <- {t \in Tokens : Dead(t)},
    answer    <- [i \in Introspects |-> CASE ipc[i] = "idle" -> "none"
                                          [] ipc[i] \in AskBusy -> "open"
                                          [] ipc[i] = "active" -> "active"
                                          [] OTHER -> "inactive"],
    about     <- asked,
    late      <- doomed

ImplementsTokenValidity == Validity!Spec

-----------------------------------------------------------------------------
(* What the documentation says and the code does not do *)

\* requirements.md, FR-007: Revoke "immediately invalidates" a token.
RevokeInvalidates ==
    \A i \in Introspects : ipc[i] = "active" => acked[i] = {}

=============================================================================
