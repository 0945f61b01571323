------------------------------ MODULE Invitations ------------------------------
(***************************************************************************)
(* The lifecycle of users and of their invitations: InviteUser,            *)
(* AcceptInvitation, SuspendUser, ReactivateUser and DeleteUser of the     *)
(* organisation manager (src/org_lifecycle.go), executed concurrently by   *)
(* the gRPC server over a store that has no transactions.                  *)
(*                                                                         *)
(* Each call is a process that runs once.  Between two steps of a call any *)
(* other call may run, the clock may advance, and the server process may   *)
(* crash.  A call of InviteUser creates at most one User and at most one   *)
(* Invitation, so both are named by the call that creates them, and so is  *)
(* the token (32 random bytes, hence never the same twice).                *)
(***************************************************************************)
EXTENDS EntityStore

CONSTANTS
    Invites,     \* the calls of InviteUser
    Accepts,     \* the calls of AcceptInvitation
    Admins,      \* the calls of SuspendUser, ReactivateUser or DeleteUser
    Emails,      \* the addresses users are invited under
    Roles,       \* ids of the roles an invitation may promise
    Ttls,        \* the values of ExpiresIn that requests carry, 0 meaning unset
    DefaultTtl,  \* 72 hours, in units of the clock
    Second,      \* how many units of the clock a second lasts
    MaxTime,     \* bound: the last instant of the clock
    MaxFaults,   \* bound: failing store calls and crashes in a behaviour
    NoToken      \* a token that names no invitation

ASSUME ClockAssumption ==
    /\ DefaultTtl \in Nat \ {0}
    /\ Second \in Nat \ {0}
    /\ MaxTime \in Nat
    /\ Ttls \subseteq Int

ASSUME FaultAssumption == MaxFaults \in Nat

ASSUME TokenAssumption == NoToken \notin Invites

VARIABLES
    now,          \* the manager's clock
    userStatus,   \* User.status of the user an InviteUser call created
    tombstone,    \* User.deleted_at is set
    invStatus,    \* Invitation.status
    expiresAt,    \* Invitation.expires_at
    linked,       \* the has_invitation edge exists
    inviterEdge,  \* the invited_by edge exists
    roleEdges,    \* the roles the will_grant_role edges lead to
    ipc,          \* where each InviteUser call is
    req,          \* its request
    issuedAt,     \* its local variable now
    apc,          \* where each AcceptInvitation call is
    token,        \* the token it presents
    checkedAt,    \* the clock reading its expiry check used
    mpc,          \* where each administrative call is
    order,        \* the operation and the user it names
    faults,       \* failures and crashes so far
    rivals,       \* history: InviteUser calls for the same address that had
                  \* looked for duplicates and not yet created their user
                  \* when this call looked
    honoured      \* history: AcceptInvitation calls that had already returned
                  \* success for the same token when this call looked it up

store   == <<userStatus, tombstone, invStatus, expiresAt, linked, inviterEdge, roleEdges>>
inviter == <<ipc, req, issuedAt, rivals>>
accept  == <<apc, token, checkedAt, honoured>>
admin   == <<mpc, order>>
vars    == <<now, store, inviter, accept, admin, faults>>

-----------------------------------------------------------------------------

Time       == 0..MaxTime
Requests   == [email : Emails, ttl : Ttls, invitedBy : BOOLEAN, roles : SUBSET Roles]
Operations == {"suspend", "reactivate", "delete"}
Orders     == [op : Operations, user : Invites]

\* Local variables of a call that has not started.
NoRequest == [email |-> "none", ttl |-> 0, invitedBy |-> FALSE, roles |-> {}]
NoOrder   == [op |-> "none", user |-> NoToken]

\* A call that is at one of these places is being executed.
InviteBusy == {"createUser", "createInvitation", "link", "invitedBy", "willGrant"}
AcceptBusy == {"link", "activate", "mark"}
AdminBusy  == {"update"}

InviteDone == {"ok", "exists", "unavailable", "crashed"}
AcceptDone == {"ok", "notFound", "alreadyAccepted", "expired", "unavailable", "crashed"}
AdminDone  == {"ok", "notFound", "unavailable", "crashed"}

\* Mutant: a status outside the schema's options.
StatusOfMisspelt(op) == CASE op = "suspend"    -> "suspended"
                          [] op = "reactivate" -> "active"
                          [] op = "delete"     -> "removed"

\* Status an administrative call writes.
StatusOf(op) == CASE op = "suspend"    -> "suspended"
                  [] op = "reactivate" -> "active"
                  [] op = "delete"     -> "deleted"

\* Mutant: a life that is not positive never ends.
LifetimeUnlimited(ttl) == IF ttl <= 0 THEN MaxTime + DefaultTtl ELSE ttl

\* The life of an invitation: ExpiresIn, or the default when it is not positive.
Lifetime(ttl) == IF ttl <= 0 THEN DefaultTtl ELSE ttl

\* Mutant: rounds up.
ToSecondUp(t) == t + ((Second - (t % Second)) % Second)

\* A time formatted as 2006-01-02T15:04:05Z and parsed again.
ToSecond(t) == t - (t % Second)

UserExists(c) == userStatus[c] # "none"
Delivered(c)  == ipc[c] = "ok"

\* Mutant: the duplicate check overlooks deleted users.
SameEmailNotDeleted(email) ==
    {c \in Invites : userStatus[c] \notin {"none", "deleted"} /\ req[c].email = email}

\* Users a ListEntities by email answers; a deleted user is still one of them.
SameEmail(email) == {c \in Invites : UserExists(c) /\ req[c].email = email}

MayFault(outcome) == faults + FaultCost(outcome) <= MaxFaults
Fault(outcome)    == faults' = faults + FaultCost(outcome)

-----------------------------------------------------------------------------
(* InviteUser *)

\* Look for a user with this address.
InviteList(c) ==
    /\ ipc[c] = "idle"
    /\ \E r \in Requests, o \in ReadOutcome :
        /\ MayFault(o) /\ Fault(o)
        /\ req' = [req EXCEPT ![c] = r]
        /\ \/ /\ o = "fail"
              /\ ipc' = [ipc EXCEPT ![c] = "unavailable"]
              /\ UNCHANGED <<issuedAt, rivals>>
           \/ /\ o = "ok"
              /\ SameEmail(r.email) # {}
              /\ ipc' = [ipc EXCEPT ![c] = "exists"]
              /\ UNCHANGED <<issuedAt, rivals>>
           \/ /\ o = "ok"
              /\ SameEmail(r.email) = {}
              /\ ipc' = [ipc EXCEPT ![c] = "createUser"]
              /\ issuedAt' = [issuedAt EXCEPT ![c] = now]
              /\ rivals' = [rivals EXCEPT ![c] =
                    {d \in Invites : ipc[d] = "createUser" /\ req[d].email = r.email}]
    /\ UNCHANGED <<now, store, accept, admin>>

\* Read the clock, some time after the answer of the list, and create the User.
InviteCreateUser(c) ==
    /\ ipc[c] = "createUser"
    /\ \E t \in issuedAt[c]..now : issuedAt' = [issuedAt EXCEPT ![c] = t]
    /\ \E o \in WriteOutcome :
        /\ MayFault(o) /\ Fault(o)
        /\ userStatus' = IF Applied(o) THEN [userStatus EXCEPT ![c] = "invited"]
                                       ELSE userStatus
        /\ ipc' = [ipc EXCEPT ![c] = IF o = "ok" THEN "createInvitation" ELSE "unavailable"]
    /\ UNCHANGED <<now, tombstone, invStatus, expiresAt, linked, inviterEdge, roleEdges,
                   req, rivals, accept, admin>>

\* Generate the token and create the Invitation under its hash; the source of
\* random bytes may fail before anything is written.
InviteCreateInvitation(c) ==
    /\ ipc[c] = "createInvitation"
    /\ \E o \in WriteOutcome :
        /\ MayFault(o) /\ Fault(o)
        /\ IF Applied(o)
           THEN /\ invStatus' = [invStatus EXCEPT ![c] = "pending"]
                /\ expiresAt' = [expiresAt EXCEPT ![c] =
                                    ToSecond(issuedAt[c] + Lifetime(req[c].ttl))]
           ELSE UNCHANGED <<invStatus, expiresAt>>
        /\ ipc' = [ipc EXCEPT ![c] = IF o = "ok" THEN "link" ELSE "unavailable"]
    /\ UNCHANGED <<now, userStatus, tombstone, linked, inviterEdge, roleEdges,
                   req, issuedAt, rivals, accept, admin>>

\* Mutant: returns inside the loop over RoleIDs.
GrantsFirst(c, granted) ==
    IF granted # {} \/ req[c].roles = {} THEN "ok" ELSE "willGrant"

\* Where the call goes once the edges before the will_grant_role loop are made.
GrantsFrom(c, granted) == IF granted = req[c].roles THEN "ok" ELSE "willGrant"

\* Edge User -> has_invitation -> Invitation.
InviteLink(c) ==
    /\ ipc[c] = "link"
    /\ \E o \in WriteOutcome :
        /\ MayFault(o) /\ Fault(o)
        /\ linked' = [linked EXCEPT ![c] = Applied(o)]
        /\ ipc' = [ipc EXCEPT ![c] = IF o # "ok" THEN "unavailable"
                                     ELSE IF req[c].invitedBy THEN "invitedBy"
                                     ELSE GrantsFrom(c, {})]
    /\ UNCHANGED <<now, userStatus, tombstone, invStatus, expiresAt, inviterEdge, roleEdges,
                   req, issuedAt, rivals, accept, admin>>

\* Edge Invitation -> invited_by -> User, when the request names an inviter.
InviteInvitedBy(c) ==
    /\ ipc[c] = "invitedBy"
    /\ \E o \in WriteOutcome :
        /\ MayFault(o) /\ Fault(o)
        /\ inviterEdge' = [inviterEdge EXCEPT ![c] = Applied(o)]
        /\ ipc' = [ipc EXCEPT ![c] = IF o # "ok" THEN "unavailable" ELSE GrantsFrom(c, {})]
    /\ UNCHANGED <<now, userStatus, tombstone, invStatus, expiresAt, linked, roleEdges,
                   req, issuedAt, rivals, accept, admin>>

\* One iteration of the loop over RoleIDs: an edge will_grant_role.
InviteWillGrant(c) ==
    /\ ipc[c] = "willGrant"
    /\ \E o \in WriteOutcome, r \in req[c].roles \ roleEdges[c] :
        /\ MayFault(o) /\ Fault(o)
        /\ roleEdges' = IF Applied(o) THEN [roleEdges EXCEPT ![c] = @ \union {r}]
                                      ELSE roleEdges
        /\ ipc' = [ipc EXCEPT ![c] = IF o # "ok" THEN "unavailable"
                                     ELSE GrantsFrom(c, roleEdges[c] \union {r})]
    /\ UNCHANGED <<now, userStatus, tombstone, invStatus, expiresAt, linked, inviterEdge,
                   req, issuedAt, rivals, accept, admin>>

InviteStep(c) ==
    \/ InviteCreateUser(c)
    \/ InviteCreateInvitation(c)
    \/ InviteLink(c)
    \/ InviteInvitedBy(c)
    \/ InviteWillGrant(c)

-----------------------------------------------------------------------------
(* AcceptInvitation *)

\* The tokens a call can present: those that were handed out, and any other.
Presentable == {c \in Invites : Delivered(c)} \union {NoToken}

\* The acceptances of this token that have been acknowledged.
Acknowledged(tok) == {a \in Accepts : apc[a] = "ok" /\ token[a] = tok}

\* Look the invitation up by the hash of the token and test its status.
AcceptList(a) ==
    /\ apc[a] = "idle"
    /\ \E tok \in Presentable, o \in ReadOutcome :
        /\ MayFault(o) /\ Fault(o)
        /\ token' = [token EXCEPT ![a] = tok]
        /\ \/ /\ o = "fail"
              /\ apc' = [apc EXCEPT ![a] = "unavailable"]
              /\ UNCHANGED <<checkedAt, honoured>>
           \/ /\ o = "ok"
              /\ tok = NoToken
              /\ apc' = [apc EXCEPT ![a] = "notFound"]
              /\ UNCHANGED <<checkedAt, honoured>>
           \/ /\ o = "ok"
              /\ tok # NoToken
              /\ invStatus[tok] = "accepted"
              /\ apc' = [apc EXCEPT ![a] = "alreadyAccepted"]
              /\ UNCHANGED <<checkedAt, honoured>>
           \/ /\ o = "ok"
              /\ tok # NoToken
              /\ invStatus[tok] # "accepted"
              /\ apc' = [apc EXCEPT ![a] = "link"]
              /\ checkedAt' = [checkedAt EXCEPT ![a] = now]
              /\ honoured' = [honoured EXCEPT ![a] = Acknowledged(tok)]
    /\ UNCHANGED <<now, store, inviter, admin>>

\* Compare the clock, read some time after the answer, with expires_at (no code
\* writes the status "expired" or "revoked"); then list the has_invitation edges
\* of the invitation, which lead to the user it was created for.
AcceptLink(a) ==
    /\ apc[a] = "link"
    /\ \E t \in checkedAt[a]..now :
        /\ checkedAt' = [checkedAt EXCEPT ![a] = t]
        /\ \/ /\ t > expiresAt[token[a]]
              /\ apc' = [apc EXCEPT ![a] = "expired"]
              /\ UNCHANGED faults
           \/ /\ t <= expiresAt[token[a]]
              /\ \E o \in ReadOutcome :
                  /\ MayFault(o) /\ Fault(o)
                  /\ apc' = [apc EXCEPT ![a] = IF o = "ok" /\ linked[token[a]]
                                               THEN "activate" ELSE "unavailable"]
    /\ UNCHANGED <<now, store, inviter, token, honoured, admin>>

\* Mutant: the error of the update is dropped.
AcceptActivateUnchecked(a) ==
    /\ apc[a] = "activate"
    /\ \E o \in WriteOutcome :
        /\ MayFault(o) /\ Fault(o)
        /\ userStatus' = IF Applied(o) THEN [userStatus EXCEPT ![token[a]] = "active"]
                                       ELSE userStatus
        /\ apc' = [apc EXCEPT ![a] = "mark"]
    /\ UNCHANGED <<now, tombstone, invStatus, expiresAt, linked, inviterEdge, roleEdges,
                   inviter, token, checkedAt, honoured, admin>>

\* UpdateEntity on the user: status "active", without reading what it was.
AcceptActivate(a) ==
    /\ apc[a] = "activate"
    /\ \E o \in WriteOutcome :
        /\ MayFault(o) /\ Fault(o)
        /\ userStatus' = IF Applied(o) THEN [userStatus EXCEPT ![token[a]] = "active"]
                                       ELSE userStatus
        /\ apc' = [apc EXCEPT ![a] = IF o = "ok" THEN "mark" ELSE "unavailable"]
    /\ UNCHANGED <<now, tombstone, invStatus, expiresAt, linked, inviterEdge, roleEdges,
                   inviter, token, checkedAt, honoured, admin>>

\* Mutant: the error of the update is dropped.
AcceptMarkUnchecked(a) ==
    /\ apc[a] = "mark"
    /\ \E o \in WriteOutcome :
        /\ MayFault(o) /\ Fault(o)
        /\ invStatus' = IF Applied(o) THEN [invStatus EXCEPT ![token[a]] = "accepted"]
                                      ELSE invStatus
        /\ apc' = [apc EXCEPT ![a] = "ok"]
    /\ UNCHANGED <<now, userStatus, tombstone, expiresAt, linked, inviterEdge, roleEdges,
                   inviter, token, checkedAt, honoured, admin>>

\* Mutant: a refused update starts the call over, as often as it is refused.
AcceptMarkRetried(a) ==
    /\ apc[a] = "mark"
    /\ \/ /\ invStatus' = [invStatus EXCEPT ![token[a]] = "accepted"]
          /\ apc' = [apc EXCEPT ![a] = "ok"]
       \/ /\ UNCHANGED invStatus
          /\ apc' = [apc EXCEPT ![a] = "activate"]
    /\ UNCHANGED <<now, userStatus, tombstone, expiresAt, linked, inviterEdge, roleEdges,
                   inviter, token, checkedAt, honoured, admin, faults>>

\* UpdateEntity on the invitation: status "accepted".
AcceptMark(a) ==
    /\ apc[a] = "mark"
    /\ \E o \in WriteOutcome :
        /\ MayFault(o) /\ Fault(o)
        /\ invStatus' = IF Applied(o) THEN [invStatus EXCEPT ![token[a]] = "accepted"]
                                      ELSE invStatus
        /\ apc' = [apc EXCEPT ![a] = IF o = "ok" THEN "ok" ELSE "unavailable"]
    /\ UNCHANGED <<now, userStatus, tombstone, expiresAt, linked, inviterEdge, roleEdges,
                   inviter, token, checkedAt, honoured, admin>>

AcceptStep(a) == AcceptLink(a) \/ AcceptActivate(a) \/ AcceptMark(a)

-----------------------------------------------------------------------------
(* SuspendUser, ReactivateUser, DeleteUser *)

\* GetUser: an unknown id and a store that fails are the same answer.
AdminGet(m) ==
    /\ mpc[m] = "idle"
    /\ \E op \in Operations, u \in Invites, o \in ReadOutcome :
        /\ MayFault(o) /\ Fault(o)
        /\ order' = [order EXCEPT ![m] = [op |-> op, user |-> u]]
        /\ mpc' = [mpc EXCEPT ![m] = IF o = "ok" /\ UserExists(u) THEN "update"
                                                                  ELSE "notFound"]
    /\ UNCHANGED <<now, store, inviter, accept>>

\* UpdateEntity with the operation's status; DeleteUser also sets deleted_at,
\* which no call ever clears.
AdminUpdate(m) ==
    /\ mpc[m] = "update"
    /\ \E o \in WriteOutcome :
        /\ MayFault(o) /\ Fault(o)
        /\ IF Applied(o)
           THEN /\ userStatus' = [userStatus EXCEPT ![order[m].user] = StatusOf(order[m].op)]
                /\ tombstone' = [tombstone EXCEPT ![order[m].user] = @ \/ order[m].op = "delete"]
           ELSE UNCHANGED <<userStatus, tombstone>>
        /\ mpc' = [mpc EXCEPT ![m] = IF o = "ok" THEN "ok" ELSE "unavailable"]
    /\ UNCHANGED <<now, invStatus, expiresAt, linked, inviterEdge, roleEdges,
                   inviter, accept, order>>

-----------------------------------------------------------------------------
(* The environment *)

Tick ==
    /\ now < MaxTime
    /\ now' = now + 1
    /\ UNCHANGED <<store, inviter, accept, admin, faults>>

\* The server process dies: every call in progress ends where it is.
Crash ==
    /\ faults < MaxFaults
    /\ \/ \E c \in Invites : ipc[c] \in InviteBusy
       \/ \E a \in Accepts : apc[a] \in AcceptBusy
       \/ \E m \in Admins : mpc[m] \in AdminBusy
    /\ faults' = faults + 1
    /\ ipc' = [c \in Invites |-> IF ipc[c] \in InviteBusy THEN "crashed" ELSE ipc[c]]
    /\ apc' = [a \in Accepts |-> IF apc[a] \in AcceptBusy THEN "crashed" ELSE apc[a]]
    /\ mpc' = [m \in Admins |-> IF mpc[m] \in AdminBusy THEN "crashed" ELSE mpc[m]]
    /\ UNCHANGED <<now, store, req, issuedAt, rivals, token, checkedAt, honoured, order>>

\* The clock is at its bound and every call has returned: nothing is left to do.
Finished ==
    /\ now = MaxTime
    /\ \A c \in Invites : ipc[c] \in InviteDone
    /\ \A a \in Accepts : apc[a] \in AcceptDone
    /\ \A m \in Admins : mpc[m] \in AdminDone
    /\ UNCHANGED vars

Init ==
    /\ now = 0
    /\ userStatus = [c \in Invites |-> "none"]
    /\ tombstone = [c \in Invites |-> FALSE]
    /\ invStatus = [c \in Invites |-> "none"]
    /\ expiresAt = [c \in Invites |-> 0]
    /\ linked = [c \in Invites |-> FALSE]
    /\ inviterEdge = [c \in Invites |-> FALSE]
    /\ roleEdges = [c \in Invites |-> {}]
    /\ ipc = [c \in Invites |-> "idle"]
    /\ req = [c \in Invites |-> NoRequest]
    /\ issuedAt = [c \in Invites |-> 0]
    /\ rivals = [c \in Invites |-> {}]
    /\ apc = [a \in Accepts |-> "idle"]
    /\ token = [a \in Accepts |-> NoToken]
    /\ checkedAt = [a \in Accepts |-> 0]
    /\ honoured = [a \in Accepts |-> {}]
    /\ mpc = [m \in Admins |-> "idle"]
    /\ order = [m \in Admins |-> NoOrder]
    /\ faults = 0

Next ==
    \/ \E c \in Invites : InviteList(c) \/ InviteStep(c)
    \/ \E a \in Accepts : AcceptList(a) \/ AcceptStep(a)
    \/ \E m \in Admins : AdminGet(m) \/ AdminUpdate(m)
    \/ Tick
    \/ Crash
    \/ Finished

\* The Go scheduler runs every handler that can take a step, and the store
\* answers every call; whether a call ever comes, and the clock, are free.
Fairness ==
    /\ \A c \in Invites : WF_vars(InviteStep(c))
    /\ \A a \in Accepts : WF_vars(AcceptStep(a))
    /\ \A m \in Admins : WF_vars(AdminUpdate(m))

Spec     == Init /\ [][Next]_vars
FairSpec == Spec /\ Fairness

-----------------------------------------------------------------------------

\* The calls whose user has the address.
Holding(email) == {c \in Invites : UserExists(c) /\ req[c].email = email}

\* The calls that found no user of the address and have not yet created theirs.
Contending(email) == {c \in Invites : ipc[c] = "createUser" /\ req[c].email = email}

Addresses == INSTANCE UniqueNames WITH
    Claims     <- Invites,
    Names      <- Emails,
    holders    <- [e \in Emails |-> Holding(e)],
    contending <- [e \in Emails |-> Contending(e)],
    rivals     <- rivals

-----------------------------------------------------------------------------
(* Properties *)

\* Every variable holds a value of its kind.
TypeOK ==
    /\ now \in Time
    /\ userStatus \in [Invites -> {"none", "invited", "active", "suspended", "deleted"}]
    /\ tombstone \in [Invites -> BOOLEAN]
    /\ invStatus \in [Invites -> {"none", "pending", "accepted"}]
    /\ expiresAt \in [Invites -> Int]
    /\ linked \in [Invites -> BOOLEAN]
    /\ inviterEdge \in [Invites -> BOOLEAN]
    /\ roleEdges \in [Invites -> SUBSET Roles]
    /\ ipc \in [Invites -> {"idle"} \union InviteBusy \union InviteDone]
    /\ req \in [Invites -> Requests \union {NoRequest}]
    /\ issuedAt \in [Invites -> Time]
    /\ rivals \in [Invites -> SUBSET Invites]
    /\ apc \in [Accepts -> {"idle"} \union AcceptBusy \union AcceptDone]
    /\ token \in [Accepts -> Invites \union {NoToken}]
    /\ checkedAt \in [Accepts -> Time]
    /\ honoured \in [Accepts -> SUBSET Accepts]
    /\ mpc \in [Admins -> {"idle"} \union AdminBusy \union AdminDone]
    /\ order \in [Admins -> Orders \union {NoOrder}]
    /\ faults \in 0..MaxFaults

\* InviteUser returns a token only when everything the invitation needs is in
\* the store: the user, the invitation, the edge by which AcceptInvitation finds
\* the user, and one edge for the inviter and for each role of the request.
IssuedIsComplete ==
    \A c \in Invites : Delivered(c) =>
        /\ UserExists(c)
        /\ invStatus[c] # "none"
        /\ linked[c]
        /\ inviterEdge[c] = req[c].invitedBy
        /\ roleEdges[c] = req[c].roles

\* AcceptInvitation updates the user before the invitation, so that whatever call
\* fails and wherever the process dies, no accepted invitation leaves its user
\* in the status "invited" (from which only an administrator could free it).
AcceptedUserActivated ==
    \A c \in Invites : invStatus[c] = "accepted" => userStatus[c] # "invited"

\* The duplicate check of InviteUser is exact but for the race it leaves: two users
\* have one address only if one of the two calls had looked, and not yet created
\* its user, when the other looked.  A deleted user still occupies its address.
DuplicateOnlyFromRace ==
    \A c, d \in Invites :
        (c # d /\ UserExists(c) /\ UserExists(d) /\ req[c].email = req[d].email)
            => (c \in rivals[d] \/ d \in rivals[c])

\* InviteUser keeps the promise of UniqueNames for the addresses: no failure, crash,
\* acceptance or administrative call makes a user hold an address in any other way.
ImplementsUniqueNames == Addresses!Spec

\* Once AcceptInvitation has returned success for a token, no call that looks the
\* token up later returns success for it.
AcknowledgedOnlyOnce ==
    \A a \in Accepts : apc[a] = "ok" => honoured[a] = {}

\* No acceptance is honoured on a clock reading later than the moment the invitation
\* was issued plus the life its request asked for: formatting expires_at to whole
\* seconds shortens an invitation, and never lengthens it.
NeverHonouredLate ==
    \A a \in Accepts : apc[a] \in {"activate", "mark", "ok"} =>
        checkedAt[a] <= issuedAt[token[a]] + Lifetime(req[token[a]].ttl)

\* Every call that has begun returns, or dies with the process.
CallsReturn ==
    /\ \A c \in Invites : ipc[c] \in InviteBusy ~> ipc[c] \in InviteDone
    /\ \A a \in Accepts : apc[a] \in AcceptBusy ~> apc[a] \in AcceptDone
    /\ \A m \in Admins : mpc[m] \in AdminBusy ~> mpc[m] \in AdminDone

-----------------------------------------------------------------------------
(* What the documentation says and the code does not do *)

\* requirements.md:54: to soft-delete a user "suspends + tombstones" it.  A user that
\* has a tombstone is in another status only if ReactivateUser was called for it.
DeletedUntilReactivated ==
    \A c \in Invites : (tombstone[c] /\ userStatus[c] # "deleted")
        => \E m \in Admins : order[m] = [op |-> "reactivate", user |-> c]

=============================================================================
