---------------------------- MODULE OrgServerProofs ----------------------------
(***************************************************************************)
(* Proofs about Invitations, for any sets of calls, addresses and roles,   *)
(* any lives of invitations, any clock bound and any number of faults; and *)
(* about OrgServer, which composes them with the process, for any seconds  *)
(* and any width of a duration as well.                                    *)
(***************************************************************************)
EXTENDS OrgServer, TLAPS

-----------------------------------------------------------------------------
(* Types of Invitations *)
(* What the local variables of a call are once it has begun: TypeOK alone is   *)
(* not inductive, since a call's later steps write what its first step chose.  *)
LocalsOK ==
    /\ \A c \in Invites : ipc[c] # "idle" => req[c] \in Requests
    /\ \A a \in Accepts : apc[a] \in AcceptBusy \union {"ok"} => token[a] \in Invites
    /\ \A m \in Admins : mpc[m] # "idle" => order[m] \in Orders

Typed == TypeOK /\ LocalsOK

(* The initial state is typed. *)
LEMMA TypedInit == Init => Typed
BY ClockAssumption, FaultAssumption
   DEF Init, Typed, TypeOK, LocalsOK, Time, AcceptBusy, InviteBusy, AdminBusy

(* Every step of InviteUser keeps the state typed. *)
LEMMA TypedInvite ==
    ASSUME Typed, NEW c \in Invites, InviteList(c) \/ InviteStep(c)
    PROVE  Typed'
<1> USE ClockAssumption, FaultAssumption
    DEF Typed, TypeOK, LocalsOK, Time, InviteBusy, InviteDone, MayFault, Fault, FaultCost
<1>1. CASE InviteList(c)
  <2>1. PICK r \in Requests, o \in ReadOutcome :
          /\ MayFault(o) /\ Fault(o)
          /\ req' = [req EXCEPT ![c] = r]
          /\ \/ /\ ipc' = [ipc EXCEPT ![c] = "unavailable"]
                /\ UNCHANGED <<issuedAt, rivals>>
             \/ /\ ipc' = [ipc EXCEPT ![c] = "exists"]
                /\ UNCHANGED <<issuedAt, rivals>>
             \/ /\ ipc' = [ipc EXCEPT ![c] = "createUser"]
                /\ issuedAt' = [issuedAt EXCEPT ![c] = now]
                /\ \E R \in SUBSET Invites : rivals' = [rivals EXCEPT ![c] = R]
    BY <1>1 DEF InviteList
  <2>2. UNCHANGED <<now, store, accept, admin>>
    BY <1>1 DEF InviteList
  <2>3. faults' \in 0..MaxFaults
    BY <2>1 DEF ReadOutcome
  <2>4. QED
    BY <2>1, <2>2, <2>3 DEF store, accept, admin
<1>2. CASE InviteCreateUser(c)
  BY <1>2 DEF InviteCreateUser, WriteOutcome, Applied, accept, admin
<1>3. CASE InviteCreateInvitation(c)
  <2>1. req[c].ttl \in Int
    <3>1. req[c] \in Requests
      BY <1>3 DEF InviteCreateInvitation
    <3>2. \A r \in Requests : r.ttl \in Ttls
      BY Zenon DEF Requests
    <3>3. QED
      BY <3>1, <3>2
  <2>2. ToSecond(issuedAt[c] + Lifetime(req[c].ttl)) \in Int
    <3>1. \A t \in Int : ToSecond(t) \in Int
      BY DEF ToSecond
    <3>2. QED
      BY <2>1, <3>1 DEF Lifetime
  <2>3. QED
    BY <1>3, <2>2, SMTT(30) DEF InviteCreateInvitation, WriteOutcome, Applied, accept, admin
<1>4. CASE InviteLink(c)
  BY <1>4 DEF InviteLink, WriteOutcome, Applied, GrantsFrom, accept, admin
<1>5. CASE InviteInvitedBy(c)
  BY <1>5 DEF InviteInvitedBy, WriteOutcome, Applied, GrantsFrom, accept, admin
<1>6. CASE InviteWillGrant(c)
  BY <1>6 DEF InviteWillGrant, WriteOutcome, Applied, GrantsFrom, accept, admin, Requests, NoRequest
<1>7. QED
  BY <1>1, <1>2, <1>3, <1>4, <1>5, <1>6 DEF InviteStep

(* Every step of AcceptInvitation keeps the state typed. *)
LEMMA TypedAccept ==
    ASSUME Typed, NEW a \in Accepts, AcceptList(a) \/ AcceptStep(a)
    PROVE  Typed'
<1> USE ClockAssumption, FaultAssumption
    DEF Typed, TypeOK, LocalsOK, Time, AcceptBusy, AcceptDone, MayFault, Fault, FaultCost
<1>1. CASE AcceptList(a)
  <2>1. PICK tok \in Presentable, o \in ReadOutcome :
          /\ MayFault(o) /\ Fault(o)
          /\ token' = [token EXCEPT ![a] = tok]
          /\ \/ /\ \E p \in AcceptDone \ {"ok"} : apc' = [apc EXCEPT ![a] = p]
                /\ UNCHANGED <<checkedAt, honoured>>
             \/ /\ tok # NoToken
                /\ apc' = [apc EXCEPT ![a] = "link"]
                /\ checkedAt' = [checkedAt EXCEPT ![a] = now]
                /\ \E A \in SUBSET Accepts : honoured' = [honoured EXCEPT ![a] = A]
    BY <1>1 DEF AcceptList, Acknowledged
  <2>2. UNCHANGED <<now, store, inviter, admin>>
    BY <1>1 DEF AcceptList
  <2>3. tok \in Invites \union {NoToken} /\ faults' \in 0..MaxFaults
    BY <2>1 DEF Presentable, ReadOutcome
  <2>4. token' \in [Accepts -> Invites \union {NoToken}]
    BY <2>1, <2>3
  <2>5. apc' \in [Accepts -> {"idle"} \union AcceptBusy \union AcceptDone]
    BY <2>1
  <2>6. checkedAt' \in [Accepts -> Time] /\ honoured' \in [Accepts -> SUBSET Accepts]
    BY <2>1, SMTT(30)
  <2>7. \A b \in Accepts : apc'[b] \in AcceptBusy \union {"ok"} => token'[b] \in Invites
    BY <2>1, <2>3
  <2>8. QED
    BY <2>2, <2>3, <2>4, <2>5, <2>6, <2>7 DEF store, inviter, admin
<1>2. CASE AcceptLink(a)
  <2>1. PICK t \in checkedAt[a]..now :
          /\ checkedAt' = [checkedAt EXCEPT ![a] = t]
          /\ \/ apc' = [apc EXCEPT ![a] = "expired"] /\ UNCHANGED faults
             \/ \E o \in ReadOutcome :
                  /\ MayFault(o) /\ Fault(o)
                  /\ \/ apc' = [apc EXCEPT ![a] = "activate"]
                     \/ apc' = [apc EXCEPT ![a] = "unavailable"]
    BY <1>2, Zenon DEF AcceptLink
  <2>2. UNCHANGED <<now, store, inviter, token, honoured, admin>> /\ apc[a] = "link"
    BY <1>2 DEF AcceptLink
  <2>3. t \in 0..MaxTime /\ faults' \in 0..MaxFaults
    BY <2>1 DEF ReadOutcome
  <2>4. QED
    BY <2>1, <2>2, <2>3, SMTT(30) DEF store, inviter, admin
<1>3. CASE AcceptActivate(a)
  BY <1>3 DEF AcceptActivate, WriteOutcome, Applied, inviter, admin
<1>4. CASE AcceptMark(a)
  BY <1>4 DEF AcceptMark, WriteOutcome, Applied, inviter, admin
<1>5. QED
  BY <1>1, <1>2, <1>3, <1>4 DEF AcceptStep

(* Every step of SuspendUser, ReactivateUser or DeleteUser keeps the state typed. *)
LEMMA TypedAdmin ==
    ASSUME Typed, NEW m \in Admins, AdminGet(m) \/ AdminUpdate(m)
    PROVE  Typed'
<1> USE ClockAssumption, FaultAssumption
    DEF Typed, TypeOK, LocalsOK, Time, AdminBusy, AdminDone, MayFault, Fault, FaultCost
<1>1. CASE AdminGet(m)
  <2>1. PICK op \in Operations, u \in Invites, o \in ReadOutcome :
          /\ MayFault(o) /\ Fault(o)
          /\ order' = [order EXCEPT ![m] = [op |-> op, user |-> u]]
          /\ \/ mpc' = [mpc EXCEPT ![m] = "update"]
             \/ mpc' = [mpc EXCEPT ![m] = "notFound"]
    BY <1>1, Zenon DEF AdminGet
  <2>2. UNCHANGED <<now, store, inviter, accept>>
    BY <1>1 DEF AdminGet
  <2>3. [op |-> op, user |-> u] \in Orders /\ faults' \in 0..MaxFaults
    BY <2>1 DEF Orders, ReadOutcome
  <2>4. QED
    BY <2>1, <2>2, <2>3 DEF store, inviter, accept
<1>2. CASE AdminUpdate(m)
  <2>1. order[m].op \in Operations
    BY <1>2, Zenon DEF AdminUpdate, Orders
  <2>2. StatusOf(order[m].op) \in {"active", "suspended", "deleted"}
    BY <2>1 DEF StatusOf, Operations
  <2>3. PICK o \in WriteOutcome :
          /\ MayFault(o) /\ Fault(o)
          /\ \/ /\ userStatus' = [userStatus EXCEPT ![order[m].user] = StatusOf(order[m].op)]
                /\ tombstone' = [tombstone EXCEPT ![order[m].user] = @ \/ order[m].op = "delete"]
             \/ UNCHANGED <<userStatus, tombstone>>
          /\ \/ mpc' = [mpc EXCEPT ![m] = "ok"]
             \/ mpc' = [mpc EXCEPT ![m] = "unavailable"]
    BY <1>2, Zenon DEF AdminUpdate
  <2>4. /\ UNCHANGED <<now, invStatus, expiresAt, linked, inviterEdge, roleEdges,
                       inviter, accept, order>>
        /\ mpc[m] = "update"
    BY <1>2 DEF AdminUpdate
  <2>5. tombstone' \in [Invites -> BOOLEAN]
    BY <2>3, Zenon
  <2>6. faults' \in 0..MaxFaults
    BY <2>3 DEF WriteOutcome
  <2>7. QED
    BY <2>2, <2>3, <2>4, <2>5, <2>6 DEF inviter, accept
<1>3. QED
  BY <1>1, <1>2

(* Every step keeps the state typed. *)
LEMMA TypedNext == Typed /\ [Next]_vars => Typed'
<1> SUFFICES ASSUME Typed, [Next]_vars PROVE Typed'
  OBVIOUS
<1>1. CASE \E c \in Invites : InviteList(c) \/ InviteStep(c)
  BY <1>1, TypedInvite
<1>2. CASE \E a \in Accepts : AcceptList(a) \/ AcceptStep(a)
  BY <1>2, TypedAccept
<1>3. CASE \E m \in Admins : AdminGet(m) \/ AdminUpdate(m)
  BY <1>3, TypedAdmin
<1>4. CASE Tick
  BY <1>4, ClockAssumption DEF Tick, Typed, TypeOK, LocalsOK, Time, store, inviter, accept, admin
<1>5. CASE Crash
  BY <1>5, FaultAssumption DEF Crash, Typed, TypeOK, LocalsOK, store,
     InviteBusy, InviteDone, AcceptBusy, AcceptDone, AdminBusy, AdminDone
<1>6. CASE UNCHANGED vars
  BY <1>6 DEF vars, store, inviter, accept, admin, Typed, TypeOK, LocalsOK
<1>7. QED
  BY <1>1, <1>2, <1>3, <1>4, <1>5, <1>6 DEF Next, Finished

(* Every variable of the invitation protocol always holds a value of its kind. *)
THEOREM TypeCorrect == Spec => []TypeOK
<1>1. Spec => []Typed
  BY TypedInit, TypedNext, PTL DEF Spec
<1>2. Typed => TypeOK
  BY DEF Typed
<1>3. QED
  BY <1>1, <1>2, PTL

-----------------------------------------------------------------------------
(* The inductive invariant.  Each part says what a call that has reached some  *)
(* place may rely on, whatever other calls, failures and crashes happened.     *)

(* What InviteUser has written by the time it is at each of its places. *)
ProgressOf(c) ==
    /\ ipc[c] \in {"idle", "createUser", "exists"} => ~UserExists(c)
    /\ ipc[c] \in {"createInvitation", "link", "invitedBy", "willGrant", "ok"} => UserExists(c)
    /\ ipc[c] \in {"idle", "createUser", "createInvitation"} => invStatus[c] = "none"
    /\ ipc[c] \in {"link", "invitedBy", "willGrant", "ok"} => invStatus[c] # "none"
    /\ ipc[c] \in {"invitedBy", "willGrant", "ok"} => linked[c]
    /\ ipc[c] \in {"idle", "createUser", "createInvitation", "link", "invitedBy"}
          => ~inviterEdge[c] /\ roleEdges[c] = {}
    /\ ipc[c] = "invitedBy" => req[c].invitedBy
    /\ ipc[c] \in {"willGrant", "ok"} => inviterEdge[c] = req[c].invitedBy
    /\ ipc[c] = "ok" => roleEdges[c] = req[c].roles

InviteProgress == \A c \in Invites : ProgressOf(c)

(* An invitation expires no later than its request asked for. *)
ExpiryBound ==
    \A c \in Invites : invStatus[c] # "none" =>
        expiresAt[c] <= issuedAt[c] + Lifetime(req[c].ttl)

(* What AcceptInvitation and the administrative calls work on exists. *)
TargetsExist ==
    /\ \A a \in Accepts : apc[a] \in AcceptBusy \union {"ok"} => Delivered(token[a])
    /\ \A m \in Admins : mpc[m] = "update" => UserExists(order[m].user)

(* What AcceptInvitation has checked and written at each of its places. *)
AcceptProgress ==
    \A a \in Accepts :
        /\ apc[a] = "mark" => userStatus[token[a]] # "invited"
        /\ apc[a] = "ok" => invStatus[token[a]] = "accepted"
        /\ apc[a] \in AcceptBusy \union {"ok"} => honoured[a] = {}
        /\ apc[a] \in {"activate", "mark", "ok"} => checkedAt[a] <= expiresAt[token[a]]

(* A call holds its address from its look for duplicates until it fails to     *)
(* create its user: two that hold the same one raced.                          *)
Holds(c) == UserExists(c) \/ ipc[c] = "createUser"

HoldersRaced ==
    \A c, d \in Invites :
        (c # d /\ Holds(c) /\ Holds(d) /\ req[c].email = req[d].email)
            => (c \in rivals[d] \/ d \in rivals[c])

IInv ==
    /\ Typed
    /\ InviteProgress
    /\ ExpiryBound
    /\ TargetsExist
    /\ AcceptProgress
    /\ AcceptedUserActivated
    /\ HoldersRaced

-----------------------------------------------------------------------------
(* What a step must leave alone for a part of the invariant to survive it. *)

(* Formatting a time to whole seconds never makes it later. *)
LEMMA ToSecondBound == \A t \in Int : ToSecond(t) \in Int /\ ToSecond(t) <= t
BY ClockAssumption DEF ToSecond

(* The life of every invitation that can be asked for is a number. *)
LEMMA LifetimeType == \A r \in Requests : Lifetime(r.ttl) \in Int
<1>1. \A r \in Requests : r.ttl \in Ttls
  BY Zenon DEF Requests
<1>2. \A t \in Ttls : Lifetime(t) \in Int
  BY ClockAssumption DEF Lifetime
<1>3. QED
  BY <1>1, <1>2

(* InviteUser's progress only depends on which users and invitations exist. *)
LEMMA FrameInvite ==
    ASSUME InviteProgress,
           UNCHANGED <<ipc, req, linked, inviterEdge, roleEdges>>,
           \A d \in Invites : UserExists(d)' <=> UserExists(d),
           \A d \in Invites : invStatus'[d] = "none" <=> invStatus[d] = "none"
    PROVE  InviteProgress'
BY DEF InviteProgress, ProgressOf

(* An expiry stays bounded while no invitation appears. *)
LEMMA FrameExpiry ==
    ASSUME ExpiryBound,
           UNCHANGED <<expiresAt, issuedAt, req>>,
           \A d \in Invites : invStatus'[d] # "none" => invStatus[d] # "none"
    PROVE  ExpiryBound'
BY DEF ExpiryBound, Lifetime

(* Holders of an address have raced as long as none is added. *)
LEMMA FrameHolders ==
    ASSUME HoldersRaced,
           UNCHANGED <<req, rivals>>,
           \A d \in Invites : Holds(d)' => Holds(d)
    PROVE  HoldersRaced'
BY DEF HoldersRaced

-----------------------------------------------------------------------------
(* The invariant holds initially. *)
LEMMA SafeInit == Init => IInv
<1> SUFFICES ASSUME Init PROVE IInv
  OBVIOUS
<1>1. Typed
  BY TypedInit
<1>2. /\ \A c \in Invites : ipc[c] = "idle" /\ userStatus[c] = "none" /\ invStatus[c] = "none"
      /\ \A c \in Invites : ~inviterEdge[c] /\ roleEdges[c] = {}
      /\ \A a \in Accepts : apc[a] = "idle"
      /\ \A m \in Admins : mpc[m] = "idle"
  BY DEF Init
<1>3. QED
  BY <1>1, <1>2 DEF IInv, InviteProgress, ProgressOf, ExpiryBound, TargetsExist, AcceptProgress, AcceptBusy,
     AcceptedUserActivated, HoldersRaced, Holds, UserExists

(* Looking for duplicates keeps the invariant. *)
LEMMA SafeInviteList ==
    ASSUME IInv, NEW c \in Invites, InviteList(c)
    PROVE  IInv'
<1> USE DEF IInv, Typed, TypeOK, UserExists
<1>1. Typed'
  BY TypedInvite
<1>2. ipc[c] = "idle" /\ ~UserExists(c) /\ invStatus[c] = "none"
  BY DEF InviteList, InviteProgress, ProgressOf
<1>3. UNCHANGED <<now, store, accept, admin>>
  BY DEF InviteList
<1>4. PICK r \in Requests :
        /\ req' = [req EXCEPT ![c] = r]
        /\ \/ /\ ipc' = [ipc EXCEPT ![c] = "unavailable"]
              /\ UNCHANGED <<issuedAt, rivals>>
           \/ /\ ipc' = [ipc EXCEPT ![c] = "exists"]
              /\ UNCHANGED <<issuedAt, rivals>>
           \/ /\ SameEmail(r.email) = {}
              /\ ipc' = [ipc EXCEPT ![c] = "createUser"]
              /\ issuedAt' = [issuedAt EXCEPT ![c] = now]
              /\ rivals' = [rivals EXCEPT ![c] =
                    {d \in Invites : ipc[d] = "createUser" /\ req[d].email = r.email}]
  BY DEF InviteList
<1>5. \A d \in Invites : d # c => /\ ipc'[d] = ipc[d] /\ req'[d] = req[d]
                                  /\ issuedAt'[d] = issuedAt[d] /\ rivals'[d] = rivals[d]
  BY <1>4
<1>6. ipc'[c] \in {"unavailable", "exists", "createUser"}
  BY <1>4
<1>7. UNCHANGED <<userStatus, invStatus, expiresAt, linked, inviterEdge, roleEdges>>
  BY <1>3 DEF store
<1>8. InviteProgress'
  <2>1. \A d \in Invites : d # c => ipc'[d] = ipc[d] /\ req'[d] = req[d]
    BY <1>5
  <2>2. QED
    BY <1>2, <1>6, <1>7, <2>1 DEF InviteProgress, ProgressOf
<1>9. ExpiryBound'
  BY <1>2, <1>5, <1>7 DEF ExpiryBound, Lifetime
<1>10. TargetsExist'
  BY <1>2, <1>3, <1>5, <1>7 DEF TargetsExist, Delivered, LocalsOK, accept, admin
<1>11. AcceptProgress' /\ AcceptedUserActivated'
  BY <1>3, <1>7 DEF AcceptProgress, AcceptedUserActivated, accept
<1>12. HoldersRaced'
  <2> SUFFICES ASSUME NEW d \in Invites, NEW e \in Invites, d # e,
                      Holds(d)', Holds(e)', req'[d].email = req'[e].email
               PROVE  d \in rivals'[e] \/ e \in rivals'[d]
    BY DEF HoldersRaced
  <2>1. CASE d # c /\ e # c
    BY <2>1, <1>5, <1>7 DEF HoldersRaced, Holds
  <2>2. ASSUME NEW f \in Invites, f # c, Holds(f)', Holds(c)', req'[f].email = req'[c].email
        PROVE  f \in rivals'[c]
    <3>1. ipc'[c] = "createUser"
      BY <2>2, <1>2, <1>7 DEF Holds
    <3>2. /\ SameEmail(r.email) = {}
          /\ rivals'[c] = {g \in Invites : ipc[g] = "createUser" /\ req[g].email = r.email}
          /\ req'[c] = r
      BY <3>1, <1>4
    <3>3. req[f].email = r.email
      BY <2>2, <3>2, <1>5
    <3>4. ~UserExists(f)
      BY <3>2, <3>3 DEF SameEmail
    <3>5. ipc[f] = "createUser"
      BY <3>4, <2>2, <1>5, <1>7 DEF Holds
    <3>6. QED
      BY <3>2, <3>3, <3>5
  <2>3. QED
    BY <2>1, <2>2
<1>13. QED
  BY <1>1, <1>8, <1>9, <1>10, <1>11, <1>12

(* Creating the user keeps the invariant: until now it had no invitation. *)
LEMMA SafeInviteCreateUser ==
    ASSUME IInv, NEW c \in Invites, InviteCreateUser(c)
    PROVE  IInv'
<1> USE DEF IInv, Typed, TypeOK, UserExists
<1>1. Typed'
  BY TypedInvite DEF InviteStep
<1>2. ipc[c] = "createUser" /\ ~UserExists(c) /\ invStatus[c] = "none"
  BY DEF InviteCreateUser, InviteProgress, ProgressOf
<1>3. /\ UNCHANGED <<now, invStatus, expiresAt, linked, inviterEdge, roleEdges,
                    req, rivals, accept, admin>>
      /\ \E t : issuedAt' = [issuedAt EXCEPT ![c] = t]
  BY DEF InviteCreateUser
<1>4. \/ /\ userStatus' = [userStatus EXCEPT ![c] = "invited"]
         /\ ipc' = [ipc EXCEPT ![c] = "createInvitation"]
      \/ /\ userStatus' = [userStatus EXCEPT ![c] = "invited"]
         /\ ipc' = [ipc EXCEPT ![c] = "unavailable"]
      \/ /\ userStatus' = userStatus
         /\ ipc' = [ipc EXCEPT ![c] = "unavailable"]
  BY DEF InviteCreateUser, WriteOutcome, Applied
<1>5. \A d \in Invites : d # c => /\ ipc'[d] = ipc[d] /\ userStatus'[d] = userStatus[d]
                                  /\ issuedAt'[d] = issuedAt[d]
  BY <1>3, <1>4
<1>6. InviteProgress'
  BY <1>2, <1>3, <1>4, <1>5 DEF InviteProgress, ProgressOf
<1>7. ExpiryBound'
  BY <1>2, <1>3, <1>5 DEF ExpiryBound, Lifetime
<1>8. TargetsExist'
  BY <1>2, <1>3, <1>4, <1>5 DEF TargetsExist, Delivered, LocalsOK, Orders, accept, admin
<1>9. AcceptProgress'
  <2>1. \A a \in Accepts : apc[a] = "mark" => token[a] # c /\ token[a] \in Invites
    BY <1>2 DEF TargetsExist, Delivered, LocalsOK, AcceptBusy
  <2>2. QED
    BY <2>1, <1>3, <1>5 DEF AcceptProgress, accept
<1>10. AcceptedUserActivated'
  BY <1>2, <1>3, <1>5 DEF AcceptedUserActivated
<1>11. HoldersRaced'
  <2>1. \A d \in Invites : Holds(d)' => Holds(d)
    BY <1>2, <1>5 DEF Holds
  <2>2. QED
    BY <2>1, <1>3, FrameHolders
<1>12. QED
  BY <1>1, <1>6, <1>7, <1>8, <1>9, <1>10, <1>11

(* Creating the invitation keeps the invariant: nobody has its token yet. *)
LEMMA SafeInviteCreateInvitation ==
    ASSUME IInv, NEW c \in Invites, InviteCreateInvitation(c)
    PROVE  IInv'
<1> USE DEF IInv, Typed, TypeOK, UserExists
<1>1. Typed'
  BY TypedInvite DEF InviteStep
<1>2. ipc[c] = "createInvitation" /\ UserExists(c) /\ invStatus[c] = "none"
  BY DEF InviteCreateInvitation, InviteProgress, ProgressOf
<1>3. UNCHANGED <<now, userStatus, tombstone, linked, inviterEdge, roleEdges,
                  req, issuedAt, rivals, accept, admin>>
  BY DEF InviteCreateInvitation
<1>4. \/ /\ invStatus' = [invStatus EXCEPT ![c] = "pending"]
         /\ expiresAt' = [expiresAt EXCEPT ![c] = ToSecond(issuedAt[c] + Lifetime(req[c].ttl))]
         /\ ipc' = [ipc EXCEPT ![c] = "link"] \/ ipc' = [ipc EXCEPT ![c] = "unavailable"]
      \/ /\ UNCHANGED <<invStatus, expiresAt>>
         /\ ipc' = [ipc EXCEPT ![c] = "unavailable"]
  BY DEF InviteCreateInvitation, WriteOutcome, Applied
<1>5. \A d \in Invites : d # c => /\ ipc'[d] = ipc[d] /\ invStatus'[d] = invStatus[d]
                                  /\ expiresAt'[d] = expiresAt[d]
  BY <1>4
<1>6. InviteProgress'
  BY <1>2, <1>3, <1>4, <1>5 DEF InviteProgress, ProgressOf
<1>7. ExpiryBound'
  <2>1. issuedAt[c] + Lifetime(req[c].ttl) \in Int
    <3>1. req[c] \in Requests
      BY <1>2 DEF LocalsOK
    <3>2. Lifetime(req[c].ttl) \in Int
      BY <3>1, LifetimeType
    <3>3. QED
      BY <3>2, ClockAssumption DEF Time
  <2>2. invStatus'[c] # "none" => expiresAt'[c] <= issuedAt[c] + Lifetime(req[c].ttl)
    BY <2>1, <1>2, <1>4, ToSecondBound
  <2>3. QED
    BY <2>2, <1>3, <1>5 DEF ExpiryBound, Lifetime
<1>8. \A a \in Accepts : apc[a] \in AcceptBusy \union {"ok"} => token[a] # c /\ token[a] \in Invites
  BY <1>2 DEF TargetsExist, Delivered, LocalsOK
<1>9. TargetsExist'
  BY <1>3, <1>5, <1>8 DEF TargetsExist, Delivered, accept, admin
<1>10. AcceptProgress'
  BY <1>3, <1>5, <1>8 DEF AcceptProgress, AcceptBusy, accept
<1>11. AcceptedUserActivated'
  BY <1>3, <1>4 DEF AcceptedUserActivated
<1>12. HoldersRaced'
  <2>1. \A d \in Invites : Holds(d)' => Holds(d)
    BY <1>3, <1>4 DEF Holds
  <2>2. QED
    BY <2>1, <1>3, FrameHolders
<1>13. QED
  BY <1>1, <1>6, <1>7, <1>9, <1>10, <1>11, <1>12

(* Making an edge of the invitation keeps the invariant. *)
LEMMA SafeInviteEdges ==
    ASSUME IInv, NEW c \in Invites,
           InviteLink(c) \/ InviteInvitedBy(c) \/ InviteWillGrant(c)
    PROVE  IInv'
<1> USE DEF IInv, Typed, TypeOK, UserExists
<1>1. Typed'
  BY TypedInvite DEF InviteStep
<1>2. ipc[c] \in {"link", "invitedBy", "willGrant"} /\ UserExists(c) /\ invStatus[c] # "none"
  BY DEF InviteLink, InviteInvitedBy, InviteWillGrant, InviteProgress, ProgressOf
<1>3. UNCHANGED <<now, userStatus, tombstone, invStatus, expiresAt,
                  req, issuedAt, rivals, accept, admin>>
  BY DEF InviteLink, InviteInvitedBy, InviteWillGrant
<1>4. \E p \in {"invitedBy", "willGrant", "ok", "unavailable"} : ipc' = [ipc EXCEPT ![c] = p]
  BY DEF InviteLink, InviteInvitedBy, InviteWillGrant, GrantsFrom
<1>5. InviteProgress'
  <2>1. CASE InviteLink(c)
    <3>1. /\ UNCHANGED <<inviterEdge, roleEdges>>
          /\ \/ /\ linked' = [linked EXCEPT ![c] = TRUE]
                /\ \/ req[c].invitedBy /\ ipc' = [ipc EXCEPT ![c] = "invitedBy"]
                   \/ /\ ~req[c].invitedBy
                      /\ ipc' = [ipc EXCEPT ![c] = GrantsFrom(c, {})]
             \/ /\ \E b \in BOOLEAN : linked' = [linked EXCEPT ![c] = b]
                /\ ipc' = [ipc EXCEPT ![c] = "unavailable"]
      BY <2>1 DEF InviteLink, WriteOutcome, Applied
    <3>2. ~inviterEdge[c] /\ roleEdges[c] = {} /\ req[c].invitedBy \in BOOLEAN
      <4>1. req[c] \in Requests
        BY <1>2 DEF LocalsOK
      <4>2. \A r \in Requests : r.invitedBy \in BOOLEAN
        BY Zenon DEF Requests
      <4>3. QED
        BY <4>1, <4>2, <2>1 DEF InviteLink, InviteProgress, ProgressOf
    <3>3. \A d \in Invites : d # c => linked'[d] = linked[d] /\ ipc'[d] = ipc[d]
      BY <3>1, <1>4
    <3>4. GrantsFrom(c, {}) \in {"ok", "willGrant"} /\ (GrantsFrom(c, {}) = "ok" => req[c].roles = {})
      BY DEF GrantsFrom
    <3>5. \/ ipc'[c] = "unavailable"
          \/ linked'[c] = TRUE /\ req[c].invitedBy /\ ipc'[c] = "invitedBy"
          \/ linked'[c] = TRUE /\ ~req[c].invitedBy /\ ipc'[c] = GrantsFrom(c, {})
      BY <3>1
    <3>6. ~inviterEdge'[c] /\ roleEdges'[c] = {} /\ UserExists(c)' /\ invStatus'[c] # "none"
          /\ inviterEdge'[c] = inviterEdge[c] /\ req'[c] = req[c]
      BY <3>1, <3>2, <1>2, <1>3
    <3>7. ~req[c].invitedBy => inviterEdge[c] = req[c].invitedBy
      BY <3>2
    <3>8. ProgressOf(c)'
      <4>1. CASE ipc'[c] = "unavailable"
        BY <4>1 DEF ProgressOf
      <4>2. CASE linked'[c] = TRUE /\ req[c].invitedBy /\ ipc'[c] = "invitedBy"
        BY <4>2, <3>6 DEF ProgressOf
      <4>3. CASE linked'[c] = TRUE /\ ~req[c].invitedBy /\ ipc'[c] = "willGrant"
        BY <4>3, <3>6, <3>7 DEF ProgressOf
      <4>4. CASE linked'[c] = TRUE /\ ~req[c].invitedBy /\ ipc'[c] = "ok" /\ req[c].roles = {}
        BY <4>4, <3>6, <3>7 DEF ProgressOf
      <4>5. QED
        BY <3>4, <3>5, <4>1, <4>2, <4>3, <4>4
    <3>9. \A d \in Invites : d # c => ProgressOf(d)'
      BY <3>1, <3>3, <1>3 DEF InviteProgress, ProgressOf
    <3>10. QED
      BY <3>8, <3>9 DEF InviteProgress
  <2>2. CASE InviteInvitedBy(c)
    <3>1. /\ UNCHANGED <<linked, roleEdges>>
          /\ \/ /\ inviterEdge' = [inviterEdge EXCEPT ![c] = TRUE]
                /\ ipc' = [ipc EXCEPT ![c] = GrantsFrom(c, {})]
             \/ /\ \E b \in BOOLEAN : inviterEdge' = [inviterEdge EXCEPT ![c] = b]
                /\ ipc' = [ipc EXCEPT ![c] = "unavailable"]
      BY <2>2 DEF InviteInvitedBy, WriteOutcome, Applied
    <3>2. linked[c] /\ roleEdges[c] = {} /\ req[c].invitedBy
      BY <2>2 DEF InviteInvitedBy, InviteProgress, ProgressOf
    <3>3. \A d \in Invites : d # c => inviterEdge'[d] = inviterEdge[d] /\ ipc'[d] = ipc[d]
      BY <3>1, <1>4
    <3>4. GrantsFrom(c, {}) \in {"ok", "willGrant"} /\ (GrantsFrom(c, {}) = "ok" => req[c].roles = {})
      BY DEF GrantsFrom
    <3>5. req[c].invitedBy \in BOOLEAN
      <4>1. req[c] \in Requests
        BY <1>2 DEF LocalsOK
      <4>2. \A r \in Requests : r.invitedBy \in BOOLEAN
        BY Zenon DEF Requests
      <4>3. QED
        BY <4>1, <4>2
    <3>6. \/ ipc'[c] = "unavailable"
          \/ ipc'[c] = GrantsFrom(c, {}) /\ inviterEdge'[c] = TRUE
      BY <3>1
    <3>7. linked'[c] /\ roleEdges'[c] = {} /\ UserExists(c)' /\ invStatus'[c] # "none"
          /\ req'[c] = req[c]
      BY <3>1, <3>2, <1>2, <1>3
    <3>8. ProgressOf(c)'
      <4>1. CASE ipc'[c] = "unavailable"
        BY <4>1 DEF ProgressOf
      <4>2. CASE ipc'[c] = "willGrant" /\ inviterEdge'[c] = TRUE
        BY <4>2, <3>2, <3>5, <3>7 DEF ProgressOf
      <4>3. CASE ipc'[c] = "ok" /\ inviterEdge'[c] = TRUE /\ req[c].roles = {}
        BY <4>3, <3>2, <3>5, <3>7 DEF ProgressOf
      <4>4. QED
        BY <3>4, <3>6, <4>1, <4>2, <4>3
    <3>9. \A d \in Invites : d # c => ProgressOf(d)'
      BY <3>1, <3>3, <1>3 DEF InviteProgress, ProgressOf
    <3>10. QED
      BY <3>8, <3>9 DEF InviteProgress
  <2>3. CASE InviteWillGrant(c)
    <3>1. /\ UNCHANGED <<linked, inviterEdge>>
          /\ \A d \in Invites : d # c => roleEdges'[d] = roleEdges[d] /\ ipc'[d] = ipc[d]
          /\ \/ ipc'[c] = "willGrant"
             \/ ipc'[c] = "ok" /\ roleEdges'[c] = req[c].roles
             \/ ipc'[c] = "unavailable"
      BY <2>3 DEF InviteWillGrant, WriteOutcome, Applied, GrantsFrom
    <3>2. linked[c] /\ inviterEdge[c] = req[c].invitedBy
      BY <2>3 DEF InviteWillGrant, InviteProgress, ProgressOf
    <3>3. QED
      BY <3>1, <3>2, <1>2, <1>3 DEF InviteProgress, ProgressOf
  <2>4. QED
    BY <2>1, <2>2, <2>3
<1>6. ExpiryBound'
  BY <1>3, FrameExpiry
<1>7. TargetsExist'
  BY <1>2, <1>3, <1>4 DEF TargetsExist, Delivered, accept, admin
<1>8. AcceptProgress' /\ AcceptedUserActivated'
  BY <1>3 DEF AcceptProgress, AcceptedUserActivated, accept
<1>9. HoldersRaced'
  <2>1. \A d \in Invites : Holds(d)' => Holds(d)
    BY <1>3, <1>4 DEF Holds
  <2>2. QED
    BY <2>1, <1>3, FrameHolders
<1>10. QED
  BY <1>1, <1>5, <1>6, <1>7, <1>8, <1>9

(* Looking a token up keeps the invariant: a token that was accepted is refused. *)
LEMMA SafeAcceptList ==
    ASSUME IInv, NEW a \in Accepts, AcceptList(a)
    PROVE  IInv'
<1> USE DEF IInv, Typed, TypeOK
<1>1. Typed'
  BY TypedAccept
<1>2. UNCHANGED <<now, store, inviter, admin>> /\ apc[a] = "idle"
  BY DEF AcceptList
<1>3. PICK tok \in Presentable :
        /\ token' = [token EXCEPT ![a] = tok]
        /\ \/ /\ \E p \in AcceptDone \ {"ok"} : apc' = [apc EXCEPT ![a] = p]
              /\ UNCHANGED <<checkedAt, honoured>>
           \/ /\ tok # NoToken
              /\ invStatus[tok] # "accepted"
              /\ apc' = [apc EXCEPT ![a] = "link"]
              /\ checkedAt' = [checkedAt EXCEPT ![a] = now]
              /\ honoured' = [honoured EXCEPT ![a] = Acknowledged(tok)]
  BY DEF AcceptList, AcceptDone
<1>4. \A b \in Accepts : b # a => /\ apc'[b] = apc[b] /\ token'[b] = token[b]
                                  /\ checkedAt'[b] = checkedAt[b] /\ honoured'[b] = honoured[b]
  BY <1>3
<1>5. token'[a] = tok
  BY <1>3
<1>6. \/ apc'[a] \notin AcceptBusy \union {"ok"}
      \/ /\ apc'[a] = "link"
         /\ tok \in Invites /\ Delivered(tok)
         /\ honoured'[a] = {}
  <2>1. CASE \E p \in AcceptDone \ {"ok"} : apc' = [apc EXCEPT ![a] = p]
    BY <2>1 DEF AcceptDone, AcceptBusy
  <2>2. CASE /\ tok # NoToken
             /\ invStatus[tok] # "accepted"
             /\ apc' = [apc EXCEPT ![a] = "link"]
             /\ honoured' = [honoured EXCEPT ![a] = Acknowledged(tok)]
    <3>1. tok \in Invites /\ Delivered(tok)
      BY <2>2, <1>3 DEF Presentable
    <3>2. \A b \in Accepts : apc[b] = "ok" => invStatus[token[b]] = "accepted"
      BY DEF AcceptProgress
    <3>3. Acknowledged(tok) = {}
      BY <3>2, <2>2 DEF Acknowledged
    <3>4. QED
      BY <2>2, <3>1, <3>3
  <2>3. QED
    BY <1>3, <2>1, <2>2
<1>7. UNCHANGED <<userStatus, invStatus, expiresAt, linked, inviterEdge, roleEdges,
                  ipc, req, issuedAt, rivals, mpc, order>>
  BY <1>2 DEF store, inviter, admin
<1>8. InviteProgress' /\ ExpiryBound'
  BY <1>7, FrameInvite, FrameExpiry DEF UserExists
<1>9. TargetsExist'
  <2>1. \A b \in Accepts : apc'[b] \in AcceptBusy \union {"ok"} => Delivered(token'[b])
    BY <1>4, <1>5, <1>6 DEF TargetsExist
  <2>2. QED
    BY <2>1, <1>7 DEF TargetsExist, Delivered, UserExists
<1>10. AcceptProgress'
  BY <1>4, <1>5, <1>6, <1>7 DEF AcceptProgress, AcceptBusy
<1>11. AcceptedUserActivated' /\ HoldersRaced'
  BY <1>7, FrameHolders DEF AcceptedUserActivated, Holds, UserExists
<1>12. QED
  BY <1>1, <1>8, <1>9, <1>10, <1>11

(* Checking the clock and finding the user keeps the invariant. *)
LEMMA SafeAcceptLink ==
    ASSUME IInv, NEW a \in Accepts, AcceptLink(a)
    PROVE  IInv'
<1> USE DEF IInv, Typed, TypeOK
<1>1. Typed'
  BY TypedAccept DEF AcceptStep
<1>2. UNCHANGED <<now, store, inviter, token, honoured, admin>> /\ apc[a] = "link"
  BY DEF AcceptLink
<1>3. PICK t \in checkedAt[a]..now :
        /\ checkedAt' = [checkedAt EXCEPT ![a] = t]
        /\ \/ apc' = [apc EXCEPT ![a] = "expired"]
           \/ apc' = [apc EXCEPT ![a] = "unavailable"]
           \/ t <= expiresAt[token[a]] /\ apc' = [apc EXCEPT ![a] = "activate"]
  BY DEF AcceptLink
<1>4. \A b \in Accepts : b # a => apc'[b] = apc[b] /\ checkedAt'[b] = checkedAt[b]
  BY <1>3
<1>5. \/ apc'[a] \in {"expired", "unavailable"}
      \/ apc'[a] = "activate" /\ checkedAt'[a] <= expiresAt[token[a]]
  BY <1>3
<1>6. UNCHANGED <<userStatus, invStatus, expiresAt, linked, inviterEdge, roleEdges,
                  ipc, req, issuedAt, rivals, mpc, order>>
  BY <1>2 DEF store, inviter, admin
<1>7. InviteProgress' /\ ExpiryBound'
  BY <1>6, FrameInvite, FrameExpiry DEF UserExists
<1>8. TargetsExist'
  BY <1>2, <1>4, <1>5, <1>6 DEF TargetsExist, Delivered, UserExists, AcceptBusy
<1>9. AcceptProgress'
  BY <1>2, <1>4, <1>5, <1>6 DEF AcceptProgress, AcceptBusy
<1>10. AcceptedUserActivated' /\ HoldersRaced'
  BY <1>6, FrameHolders DEF AcceptedUserActivated, Holds, UserExists
<1>11. QED
  BY <1>1, <1>7, <1>8, <1>9, <1>10

(* Activating the user keeps the invariant: it exists, and is no longer "invited". *)
LEMMA SafeAcceptActivate ==
    ASSUME IInv, NEW a \in Accepts, AcceptActivate(a)
    PROVE  IInv'
<1> USE DEF IInv, Typed, TypeOK
<1>1. Typed'
  BY TypedAccept DEF AcceptStep
<1>2. /\ UNCHANGED <<invStatus, expiresAt, linked, inviterEdge, roleEdges,
                     inviter, token, checkedAt, honoured, admin>>
      /\ apc[a] = "activate"
  BY DEF AcceptActivate
<1>3. \/ /\ userStatus' = [userStatus EXCEPT ![token[a]] = "active"]
         /\ apc' = [apc EXCEPT ![a] = "mark"]
      \/ /\ userStatus' = [userStatus EXCEPT ![token[a]] = "active"] \/ userStatus' = userStatus
         /\ apc' = [apc EXCEPT ![a] = "unavailable"]
  BY DEF AcceptActivate, WriteOutcome, Applied
<1>4. token[a] \in Invites /\ UserExists(token[a])
  BY <1>2 DEF LocalsOK, TargetsExist, Delivered, AcceptBusy, InviteProgress, ProgressOf
<1>5. \A d \in Invites : userStatus'[d] = userStatus[d]
                         \/ (userStatus[d] # "none" /\ userStatus'[d] = "active")
  BY <1>3, <1>4 DEF UserExists
<1>6. \A d \in Invites : UserExists(d)' <=> UserExists(d)
  BY <1>5 DEF UserExists
<1>7. UNCHANGED <<ipc, req, issuedAt, rivals, mpc, order>>
  BY <1>2 DEF inviter, admin
<1>8. InviteProgress' /\ ExpiryBound'
  BY <1>2, <1>6, <1>7, FrameInvite, FrameExpiry
<1>9. \A b \in Accepts : b # a => apc'[b] = apc[b]
  BY <1>3
<1>10. apc'[a] = "unavailable" \/ (apc'[a] = "mark" /\ userStatus'[token[a]] = "active")
  BY <1>3, <1>4
<1>11. TargetsExist'
  BY <1>2, <1>6, <1>7, <1>9, <1>10 DEF TargetsExist, Delivered, AcceptBusy, LocalsOK, Orders, UserExists
<1>12. AcceptProgress'
  <2>1. \A b \in Accepts : apc[b] = "mark" => token[b] \in Invites
    BY DEF LocalsOK, AcceptBusy
  <2>2. QED
    BY <2>1, <1>2, <1>5, <1>9, <1>10 DEF AcceptProgress, AcceptBusy
<1>13. AcceptedUserActivated'
  BY <1>2, <1>5 DEF AcceptedUserActivated
<1>14. HoldersRaced'
  BY <1>6, <1>7, FrameHolders DEF Holds
<1>15. QED
  BY <1>1, <1>8, <1>11, <1>12, <1>13, <1>14

(* Marking the invitation keeps the invariant: its user was activated before. *)
LEMMA SafeAcceptMark ==
    ASSUME IInv, NEW a \in Accepts, AcceptMark(a)
    PROVE  IInv'
<1> USE DEF IInv, Typed, TypeOK
<1>1. Typed'
  BY TypedAccept DEF AcceptStep
<1>2. /\ UNCHANGED <<userStatus, expiresAt, linked, inviterEdge, roleEdges,
                     inviter, token, checkedAt, honoured, admin>>
      /\ apc[a] = "mark"
  BY DEF AcceptMark
<1>3. \/ /\ invStatus' = [invStatus EXCEPT ![token[a]] = "accepted"]
         /\ apc' = [apc EXCEPT ![a] = "ok"]
      \/ /\ invStatus' = [invStatus EXCEPT ![token[a]] = "accepted"] \/ invStatus' = invStatus
         /\ apc' = [apc EXCEPT ![a] = "unavailable"]
  BY DEF AcceptMark, WriteOutcome, Applied
<1>4. token[a] \in Invites /\ invStatus[token[a]] # "none"
  BY <1>2 DEF LocalsOK, TargetsExist, Delivered, AcceptBusy, InviteProgress, ProgressOf
<1>5. userStatus[token[a]] # "invited"
  BY <1>2 DEF AcceptProgress
<1>6. \A d \in Invites : invStatus'[d] = invStatus[d]
                         \/ (d = token[a] /\ invStatus[d] # "none" /\ invStatus'[d] = "accepted")
  BY <1>3, <1>4
<1>7. UNCHANGED <<ipc, req, issuedAt, rivals, mpc, order>>
  BY <1>2 DEF inviter, admin
<1>8. InviteProgress' /\ ExpiryBound'
  BY <1>2, <1>6, <1>7, FrameInvite, FrameExpiry DEF UserExists
<1>9. \A b \in Accepts : b # a => apc'[b] = apc[b]
  BY <1>3
<1>10. apc'[a] = "unavailable" \/ (apc'[a] = "ok" /\ invStatus'[token[a]] = "accepted")
  BY <1>3, <1>4
<1>11. TargetsExist'
  BY <1>2, <1>7, <1>9, <1>10 DEF TargetsExist, Delivered, AcceptBusy, UserExists
<1>12. AcceptProgress'
  <2>1. \A b \in Accepts : apc[b] = "ok" => token[b] \in Invites
    BY DEF LocalsOK
  <2>2. QED
    BY <2>1, <1>2, <1>6, <1>9, <1>10 DEF AcceptProgress, AcceptBusy
<1>13. AcceptedUserActivated'
  BY <1>2, <1>5, <1>6 DEF AcceptedUserActivated
<1>14. HoldersRaced'
  BY <1>2, <1>7, FrameHolders DEF Holds, UserExists
<1>15. QED
  BY <1>1, <1>8, <1>11, <1>12, <1>13, <1>14

(* Reading the user of an administrative call keeps the invariant. *)
LEMMA SafeAdminGet ==
    ASSUME IInv, NEW m \in Admins, AdminGet(m)
    PROVE  IInv'
<1> USE DEF IInv, Typed, TypeOK
<1>1. Typed'
  BY TypedAdmin
<1>2. UNCHANGED <<now, store, inviter, accept>>
  BY DEF AdminGet
<1>3. PICK op \in Operations, u \in Invites :
        /\ order' = [order EXCEPT ![m] = [op |-> op, user |-> u]]
        /\ \/ mpc' = [mpc EXCEPT ![m] = "update"] /\ UserExists(u)
           \/ mpc' = [mpc EXCEPT ![m] = "notFound"]
  BY Zenon DEF AdminGet
<1>4. UNCHANGED <<userStatus, invStatus, expiresAt, linked, inviterEdge, roleEdges,
                  ipc, req, issuedAt, rivals, apc, token, checkedAt, honoured>>
  BY <1>2 DEF store, inviter, accept
<1>5. InviteProgress' /\ ExpiryBound'
  BY <1>4, FrameInvite, FrameExpiry DEF UserExists
<1>6. TargetsExist'
  <2>1. \A n \in Admins : n # m => mpc'[n] = mpc[n] /\ order'[n] = order[n]
    BY <1>3
  <2>2. mpc'[m] = "update" => UserExists(order'[m].user)
    BY <1>3
  <2>3. QED
    BY <2>1, <2>2, <1>4 DEF TargetsExist, Delivered, UserExists
<1>7. AcceptProgress' /\ AcceptedUserActivated' /\ HoldersRaced'
  BY <1>4, FrameHolders DEF AcceptProgress, AcceptedUserActivated, Holds, UserExists
<1>8. QED
  BY <1>1, <1>5, <1>6, <1>7

(* Writing a status keeps the invariant: the user exists and is never made "invited". *)
LEMMA SafeAdminUpdate ==
    ASSUME IInv, NEW m \in Admins, AdminUpdate(m)
    PROVE  IInv'
<1> USE DEF IInv, Typed, TypeOK
<1>1. Typed'
  BY TypedAdmin
<1>2. /\ UNCHANGED <<now, invStatus, expiresAt, linked, inviterEdge, roleEdges,
                     inviter, accept, order>>
      /\ mpc[m] = "update"
  BY DEF AdminUpdate
<1>3. /\ \/ userStatus' = [userStatus EXCEPT ![order[m].user] = StatusOf(order[m].op)]
         \/ userStatus' = userStatus
      /\ \/ mpc' = [mpc EXCEPT ![m] = "ok"]
         \/ mpc' = [mpc EXCEPT ![m] = "unavailable"]
  BY Zenon DEF AdminUpdate
<1>4. StatusOf(order[m].op) \in {"active", "suspended", "deleted"}
  <2>1. order[m].op \in Operations
    BY <1>2, Zenon DEF LocalsOK, Orders
  <2>2. QED
    BY <2>1 DEF StatusOf, Operations
<1>5. UserExists(order[m].user)
  BY <1>2 DEF TargetsExist
<1>6. \A d \in Invites : userStatus'[d] = userStatus[d]
                         \/ (userStatus[d] # "none" /\ userStatus'[d] \in {"active", "suspended", "deleted"})
  BY <1>3, <1>4, <1>5 DEF UserExists
<1>7. \A d \in Invites : UserExists(d)' <=> UserExists(d)
  BY <1>6 DEF UserExists
<1>8. UNCHANGED <<ipc, req, issuedAt, rivals, apc, token, checkedAt, honoured>>
  BY <1>2 DEF inviter, accept
<1>9. InviteProgress' /\ ExpiryBound'
  BY <1>2, <1>7, <1>8, FrameInvite, FrameExpiry
<1>10. TargetsExist'
  <2>1. \A n \in Admins : mpc'[n] = "update" => mpc[n] = "update" /\ order[n] \in Orders
    BY <1>3 DEF LocalsOK
  <2>2. \A n \in Admins : order[n] \in Orders => order[n].user \in Invites
    BY Zenon DEF Orders
  <2>3. QED
    BY <2>1, <2>2, <1>2, <1>6, <1>8 DEF TargetsExist, Delivered, UserExists
<1>11. AcceptProgress'
  <2>1. \A b \in Accepts : apc[b] = "mark" => token[b] \in Invites
    BY DEF LocalsOK, AcceptBusy
  <2>2. QED
    BY <2>1, <1>2, <1>6, <1>8 DEF AcceptProgress
<1>12. AcceptedUserActivated'
  BY <1>2, <1>6 DEF AcceptedUserActivated
<1>13. HoldersRaced'
  BY <1>7, <1>8, FrameHolders DEF Holds
<1>14. QED
  BY <1>1, <1>9, <1>10, <1>11, <1>12, <1>13

(* A crash keeps the invariant: a call that dies claims nothing. *)
LEMMA SafeCrash == IInv /\ Crash => IInv'
<1> SUFFICES ASSUME IInv, Crash PROVE IInv'
  OBVIOUS
<1> USE DEF IInv, Typed, TypeOK
<1>1. Typed'
  BY TypedNext DEF Next
<1>2. UNCHANGED <<userStatus, invStatus, expiresAt, linked, inviterEdge, roleEdges,
                  req, issuedAt, rivals, token, checkedAt, honoured, order>>
  BY DEF Crash, store
<1>3. /\ \A c \in Invites : ipc'[c] = ipc[c] \/ ipc'[c] = "crashed"
      /\ \A a \in Accepts : apc'[a] = apc[a] \/ apc'[a] = "crashed"
      /\ \A m \in Admins : mpc'[m] = mpc[m] \/ mpc'[m] = "crashed"
  BY DEF Crash
<1>4. \A c \in Invites : ipc[c] = "ok" => ipc'[c] = "ok"
  BY DEF Crash, InviteBusy
<1>5. InviteProgress'
  <2> SUFFICES ASSUME NEW c \in Invites PROVE ProgressOf(c)'
    BY DEF InviteProgress
  <2>1. QED
    BY <1>2, <1>3 DEF InviteProgress, ProgressOf, UserExists
<1>6. ExpiryBound'
  BY <1>2, FrameExpiry
<1>7. TargetsExist'
  BY <1>2, <1>3, <1>4 DEF TargetsExist, Delivered, UserExists, LocalsOK, AcceptBusy
<1>8. AcceptProgress' /\ AcceptedUserActivated'
  BY <1>2, <1>3 DEF AcceptProgress, AcceptedUserActivated, AcceptBusy
<1>9. HoldersRaced'
  BY <1>2, <1>3, FrameHolders DEF Holds, UserExists
<1>10. QED
  BY <1>1, <1>5, <1>6, <1>7, <1>8, <1>9

(* A step that changes only the clock or nothing keeps the invariant. *)
LEMMA SafeIdle ==
    ASSUME IInv, UNCHANGED <<store, inviter, accept, admin>>, Typed'
    PROVE  IInv'
<1>1. UNCHANGED <<userStatus, invStatus, expiresAt, linked, inviterEdge, roleEdges,
                  ipc, req, issuedAt, rivals, apc, token, checkedAt, honoured, mpc, order>>
  BY DEF store, inviter, accept, admin
<1>2. InviteProgress' /\ ExpiryBound' /\ HoldersRaced'
  BY <1>1, FrameInvite, FrameExpiry, FrameHolders DEF IInv, UserExists, Holds
<1>3. TargetsExist' /\ AcceptProgress' /\ AcceptedUserActivated'
  BY <1>1 DEF IInv, TargetsExist, Delivered, UserExists, AcceptProgress, AcceptedUserActivated
<1>4. QED
  BY <1>2, <1>3 DEF IInv

(* Every step keeps the invariant. *)
LEMMA SafeNext == IInv /\ [Next]_vars => IInv'
<1> SUFFICES ASSUME IInv, [Next]_vars PROVE IInv'
  OBVIOUS
<1>1. Typed'
  BY TypedNext DEF IInv
<1>2. ASSUME NEW c \in Invites, InviteList(c) \/ InviteStep(c) PROVE IInv'
  BY <1>2, SafeInviteList, SafeInviteCreateUser, SafeInviteCreateInvitation, SafeInviteEdges
     DEF InviteStep
<1>3. ASSUME NEW a \in Accepts, AcceptList(a) \/ AcceptStep(a) PROVE IInv'
  BY <1>3, SafeAcceptList, SafeAcceptLink, SafeAcceptActivate, SafeAcceptMark DEF AcceptStep
<1>4. ASSUME NEW m \in Admins, AdminGet(m) \/ AdminUpdate(m) PROVE IInv'
  BY <1>4, SafeAdminGet, SafeAdminUpdate
<1>5. CASE Tick
  BY <1>1, <1>5, SafeIdle DEF Tick
<1>6. CASE Crash
  BY <1>6, SafeCrash
<1>7. CASE UNCHANGED vars
  BY <1>1, <1>7, SafeIdle DEF vars
<1>8. QED
  BY <1>2, <1>3, <1>4, <1>5, <1>6, <1>7 DEF Next, Finished

-----------------------------------------------------------------------------
(* The invariant holds in every behaviour of the protocol. *)
THEOREM Safety == Spec => []IInv
BY SafeInit, SafeNext, PTL DEF Spec

(* A token is only ever handed out with a complete invitation behind it. *)
THEOREM IssuedCompletely == Spec => []IssuedIsComplete
<1>1. IInv => IssuedIsComplete
  BY DEF IInv, InviteProgress, ProgressOf, IssuedIsComplete, Delivered
<1>2. QED
  BY <1>1, Safety, PTL

(* Whatever fails, an accepted invitation's user is no longer "invited". *)
THEOREM AcceptanceActivates == Spec => []AcceptedUserActivated
<1>1. IInv => AcceptedUserActivated
  BY DEF IInv
<1>2. QED
  BY <1>1, Safety, PTL

(* Users share an address only when their InviteUser calls raced. *)
THEOREM DuplicatesRaced == Spec => []DuplicateOnlyFromRace
<1>1. IInv => DuplicateOnlyFromRace
  BY DEF IInv, HoldersRaced, Holds, DuplicateOnlyFromRace
<1>2. QED
  BY <1>1, Safety, PTL

(* An acknowledged acceptance is the last one to begin and succeed. *)
THEOREM AcknowledgedOnce == Spec => []AcknowledgedOnlyOnce
<1>1. IInv => AcknowledgedOnlyOnce
  BY DEF IInv, AcceptProgress, AcknowledgedOnlyOnce
<1>2. QED
  BY <1>1, Safety, PTL

(* No acceptance is validated later than the life the invitation was given. *)
THEOREM NotHonouredLate == Spec => []NeverHonouredLate
<1>1. IInv => NeverHonouredLate
  <2> SUFFICES ASSUME IInv, NEW a \in Accepts, apc[a] \in {"activate", "mark", "ok"}
               PROVE  checkedAt[a] <= issuedAt[token[a]] + Lifetime(req[token[a]].ttl)
    BY DEF NeverHonouredLate
  <2> DEFINE c == token[a]
  <2>1. c \in Invites /\ Delivered(c)
    BY DEF IInv, Typed, LocalsOK, TargetsExist, AcceptBusy
  <2>2. checkedAt[a] <= expiresAt[c]
    BY DEF IInv, AcceptProgress
  <2>3. expiresAt[c] <= issuedAt[c] + Lifetime(req[c].ttl)
    BY <2>1 DEF IInv, ExpiryBound, InviteProgress, ProgressOf, Delivered
  <2>4. Lifetime(req[c].ttl) \in Int
    BY <2>1, LifetimeType DEF IInv, Typed, LocalsOK, Delivered
  <2>5. checkedAt[a] \in Int /\ expiresAt[c] \in Int /\ issuedAt[c] \in Int
    BY <2>1, ClockAssumption DEF IInv, Typed, TypeOK, Time
  <2>6. QED
    BY <2>2, <2>3, <2>4, <2>5
<1>2. QED
  BY <1>1, Safety, PTL

-----------------------------------------------------------------------------
(* The refinement of UniqueNames *)

(* No address is claimed at the start. *)
LEMMA InitRefines == Init => Addresses!Init
BY DEF Init, Addresses!Init, UserExists, Holding, Contending

(* A step that changes no user's existence, no address and no list of rivals,  *)
(* and brings nobody to the creation of a user, only lets calls give up.       *)
LEMMA GivesUp ==
    ASSUME UNCHANGED rivals,
           \A c \in Invites : UserExists(c)' <=> UserExists(c),
           \A c \in Invites : UserExists(c) => req'[c] = req[c],
           \A c \in Invites : ipc'[c] = "createUser" => ipc[c] = "createUser" /\ req'[c] = req[c]
    PROVE  [Addresses!Next]_(Addresses!vars)
<1>1. \A e \in Emails : Holding(e)' = Holding(e)
  BY DEF Holding
<1>2. \A e \in Emails : Contending(e)' \subseteq Contending(e) /\ Contending(e)' \subseteq Invites
  BY DEF Contending
<1> QED
  BY <1>1, <1>2 DEF Addresses!Next, Addresses!GiveUp

(* InviteUser's look for duplicates is a Look, unless it ends the call. *)
LEMMA ListRefines ==
    ASSUME IInv, NEW c \in Invites, InviteList(c)
    PROVE  [Addresses!Next]_(Addresses!vars)
<1>0. TypeOK /\ InviteProgress
  BY DEF IInv, Typed
<1>1. ipc[c] = "idle" /\ ~UserExists(c) /\ UNCHANGED userStatus
  BY <1>0 DEF InviteList, InviteProgress, ProgressOf, store
<1>2. \A d \in Invites \ {c} : req'[d] = req[d] /\ ipc'[d] = ipc[d]
  BY <1>0 DEF InviteList, TypeOK
<1>3. \A d \in Invites : UserExists(d)' <=> UserExists(d)
  BY <1>1 DEF UserExists
<1>4. CASE ipc'[c] # "createUser"
  <2>1. UNCHANGED rivals
    BY <1>0, <1>4 DEF InviteList, TypeOK
  <2> QED BY <1>1, <1>2, <1>3, <1>4, <2>1, GivesUp
<1>5. CASE ipc'[c] = "createUser"
  <2>1. PICK r \in Requests :
          /\ req' = [req EXCEPT ![c] = r]
          /\ SameEmail(r.email) = {}
          /\ rivals' = [rivals EXCEPT ![c] = Contending(r.email)]
    BY <1>0, <1>5 DEF InviteList, Contending, TypeOK
  <2>2. r.email \in Emails /\ req'[c] = r
    BY <1>0, <2>1 DEF Requests, TypeOK
  <2>3. \A e \in Emails : Holding(e)' = Holding(e)
    BY <1>1, <1>2, <1>3 DEF Holding
  <2>4. Contending(r.email)' = Contending(r.email) \union {c}
    BY <1>2, <1>5, <2>2 DEF Contending
  <2>5. \A e \in Emails \ {r.email} : Contending(e)' = Contending(e)
    BY <1>1, <1>2, <2>2 DEF Contending
  <2>6. Holding(r.email) = {}
    BY <2>1 DEF SameEmail, Holding
  <2>7. \A e \in Emails : c \notin Holding(e) \union Contending(e)
    BY <1>1 DEF Contending, Holding
  <2>8. /\ [e \in Emails |-> Holding(e)]' = [e \in Emails |-> Holding(e)]
        /\ [e \in Emails |-> Contending(e)]'
             = [[e \in Emails |-> Contending(e)] EXCEPT ![r.email] = @ \union {c}]
    BY <2>2, <2>3, <2>4, <2>5
  <2>9. c \in Contending(r.email)'
    BY <2>4
  <2> QED BY <2>1, <2>2, <2>6, <2>7, <2>8, <2>9
          DEF Addresses!Next, Addresses!Look, Addresses!Active
<1> QED BY <1>4, <1>5

(* The creation of a user is a Take, unless nothing is written. *)
LEMMA CreateUserRefines ==
    ASSUME IInv, NEW c \in Invites, InviteCreateUser(c)
    PROVE  [Addresses!Next]_(Addresses!vars)
<1>0. TypeOK /\ InviteProgress
  BY DEF IInv, Typed
<1>1. ipc[c] = "createUser" /\ ~UserExists(c) /\ UNCHANGED <<req, rivals>>
  BY <1>0 DEF InviteCreateUser, InviteProgress, ProgressOf
<1>2. ipc'[c] # "createUser" /\ \A d \in Invites \ {c} : ipc'[d] = ipc[d]
  BY <1>0 DEF InviteCreateUser, TypeOK
<1>3. \A d \in Invites \ {c} : UserExists(d)' <=> UserExists(d)
  BY <1>0 DEF InviteCreateUser, UserExists, TypeOK
<1>4. CASE ~UserExists(c)'
  BY <1>1, <1>2, <1>3, <1>4, GivesUp
<1>5. CASE UserExists(c)'
  <2> DEFINE e0 == req[c].email
  <2>1. CASE e0 \notin Emails
    <3>1. \A e \in Emails : Holding(e)' = Holding(e) /\ Contending(e)' = Contending(e)
      BY <1>1, <1>2, <1>3, <2>1 DEF Contending, Holding
    <3> QED BY <1>1, <3>1 DEF Addresses!vars
  <2>2. CASE e0 \in Emails
    <3>1. Holding(e0)' = Holding(e0) \union {c} /\ Contending(e0)' = Contending(e0) \ {c}
      BY <1>1, <1>2, <1>3, <1>5 DEF Contending, Holding
    <3>2. \A e \in Emails \ {e0} : Holding(e)' = Holding(e) /\ Contending(e)' = Contending(e)
      BY <1>1, <1>2, <1>3 DEF Contending, Holding
    <3>3. c \in Contending(e0)
      BY <1>1 DEF Contending
    <3> QED BY <1>1, <2>2, <3>1, <3>2, <3>3 DEF Addresses!Next, Addresses!Take
  <2> QED BY <2>1, <2>2
<1> QED BY <1>4, <1>5

(* Every other step leaves who holds an address as it is. *)
LEMMA NextRefines == IInv /\ [Next]_vars => [Addresses!Next]_(Addresses!vars)
<1> SUFFICES ASSUME IInv, [Next]_vars PROVE [Addresses!Next]_(Addresses!vars)
  OBVIOUS
<1> USE DEF IInv, Typed, TypeOK, UserExists
<1>1. ASSUME NEW c \in Invites, InviteList(c) PROVE [Addresses!Next]_(Addresses!vars)
  BY <1>1, ListRefines
<1>2. ASSUME NEW c \in Invites, InviteStep(c) PROVE [Addresses!Next]_(Addresses!vars)
  <2>1. CASE InviteCreateUser(c)
    BY <2>1, CreateUserRefines
  <2>2. CASE InviteCreateInvitation(c) \/ InviteLink(c) \/ InviteInvitedBy(c) \/ InviteWillGrant(c)
    <3>1. UNCHANGED <<userStatus, req, rivals>>
      BY <2>2 DEF InviteCreateInvitation, InviteLink, InviteInvitedBy, InviteWillGrant
    <3>2. \A d \in Invites : ipc'[d] = "createUser" => ipc[d] = "createUser"
      BY <2>2 DEF InviteCreateInvitation, InviteLink, InviteInvitedBy, InviteWillGrant, GrantsFrom
    <3> QED BY <3>1, <3>2, GivesUp
  <2> QED BY <1>2, <2>1, <2>2 DEF InviteStep
<1>3. ASSUME NEW a \in Accepts, AcceptList(a) \/ AcceptStep(a)
      PROVE  [Addresses!Next]_(Addresses!vars)
  <2>1. UNCHANGED inviter
    BY <1>3 DEF AcceptList, AcceptStep, AcceptLink, AcceptActivate, AcceptMark
  <2>2. \A c \in Invites : UserExists(c)' <=> UserExists(c)
    <3>1. CASE AcceptActivate(a)
      <4>1. UserExists(token[a])
        BY <3>1 DEF AcceptActivate, TargetsExist, AcceptBusy, Delivered, InviteProgress, ProgressOf,
                    LocalsOK
      <4> QED BY <3>1, <4>1 DEF AcceptActivate
    <3>2. CASE ~AcceptActivate(a)
      BY <1>3, <3>2 DEF AcceptList, AcceptStep, AcceptLink, AcceptMark, store
    <3> QED BY <3>1, <3>2
  <2> QED BY <2>1, <2>2, GivesUp DEF inviter
<1>4. ASSUME NEW m \in Admins, AdminGet(m) \/ AdminUpdate(m)
      PROVE  [Addresses!Next]_(Addresses!vars)
  <2>1. UNCHANGED inviter
    BY <1>4 DEF AdminGet, AdminUpdate
  <2>2. \A c \in Invites : UserExists(c)' <=> UserExists(c)
    <3>1. CASE AdminUpdate(m)
      <4>1. UserExists(order[m].user)
        BY <3>1 DEF AdminUpdate, TargetsExist
      <4>2. StatusOf(order[m].op) # "none"
        BY <3>1 DEF AdminUpdate, LocalsOK, Orders, Operations, StatusOf
      <4> QED BY <3>1, <4>1, <4>2 DEF AdminUpdate
    <3>2. CASE AdminGet(m)
      BY <3>2 DEF AdminGet, store
    <3> QED BY <1>4, <3>1, <3>2
  <2> QED BY <2>1, <2>2, GivesUp DEF inviter
<1>5. CASE Crash
  <2>1. \A c \in Invites : ipc'[c] = "createUser" => ipc[c] = "createUser"
    BY <1>5 DEF Crash, InviteBusy
  <2> QED BY <1>5, <2>1, GivesUp DEF Crash, store
<1>6. CASE UNCHANGED <<store, inviter>>
  BY <1>6, GivesUp DEF store, inviter
<1>7. CASE Tick \/ Finished \/ UNCHANGED vars
  BY <1>6, <1>7 DEF Tick, Finished, vars
<1> QED BY <1>1, <1>2, <1>3, <1>4, <1>5, <1>7 DEF Next

(* The addresses of users implement UniqueNames. *)
THEOREM AddressesRefine == Spec => ImplementsUniqueNames
<1>1. []IInv /\ [][Next]_vars => [][Addresses!Next]_(Addresses!vars)
  BY NextRefines, PTL
<1>2. QED
  BY Safety, InitRefines, <1>1, PTL DEF Spec, ImplementsUniqueNames, Addresses!Spec

-----------------------------------------------------------------------------
(* The server implements Invitations *)

(* A step of the process is a step of Invitations or leaves its variables alone. *)
LEMMA ServerStep == [ServerNext]_serverVars => [Next]_vars
<1> SUFFICES ASSUME [ServerNext]_serverVars PROVE [Next]_vars
  OBVIOUS
<1>1. ASSUME NEW k \in Calls, Deny(k) \/ Step(k) PROVE [Next]_vars
  BY <1>1 DEF Deny, Step, Next, Calls
<1>2. ASSUME NEW c \in Invites, InviteUser(c) PROVE [Next]_vars
  BY <1>2 DEF InviteUser, Next
<1>3. ASSUME NEW a \in Accepts, AcceptInvitation(a) PROVE [Next]_vars
  BY <1>3 DEF AcceptInvitation, Next
<1>4. ASSUME NEW m \in Admins, ChangeUser(m) PROVE [Next]_vars
  BY <1>4 DEF ChangeUser, Next
<1>5. CASE Watch \/ Receive \/ Signal \/ Run \/ Start
  BY <1>5 DEF Watch, Receive, Signal, Run, StartFails, StartServing, BeginStop, Drained,
              HttpDown, Start
<1>6. CASE Die \/ Wait
  BY <1>6 DEF Die, Wait, Next
<1>7. CASE UNCHANGED serverVars
  BY <1>7 DEF serverVars
<1>8. QED
  BY <1>1, <1>2, <1>3, <1>4, <1>5, <1>6, <1>7 DEF ServerNext

(* Whatever the handlers refuse and however the process is stopped and started,    *)
(* its users and invitations behave as Invitations allows.                         *)
THEOREM ServerImplements == ServerSpec => Spec
<1>1. ServerInit => Init
  BY DEF ServerInit
<1>2. QED
  BY <1>1, ServerStep, PTL DEF ServerSpec, Spec

(* Hence everything proved of Invitations holds of the server. *)
THEOREM ServerKeeps ==
    ServerSpec => [](IssuedIsComplete /\ AcceptedUserActivated /\ DuplicateOnlyFromRace
                     /\ AcknowledgedOnlyOnce /\ NeverHonouredLate)
BY ServerImplements, IssuedCompletely, AcceptanceActivates, DuplicatesRaced,
   AcknowledgedOnce, NotHonouredLate, PTL

(* The inductive invariant of Invitations, in every state of the server. *)
LEMMA ServerSafety == ServerSpec => []IInv
BY ServerImplements, Safety, PTL

-----------------------------------------------------------------------------
(* The inductive invariant of the server *)

(* Where a call may be once a write of its has been applied. *)
Wrote(k) ==
    IF k \in Invites
    THEN {"createInvitation", "link", "invitedBy", "willGrant", "ok", "unavailable", "crashed"}
    ELSE IF k \in Accepts THEN {"mark", "ok", "unavailable", "crashed"}
    ELSE {"ok", "unavailable", "crashed"}

(* Every variable of the process holds a value of its kind. *)
AppTyped ==
    /\ phase \in {"starting", "serving", "draining", "http"} \union Ended
    /\ watching \in BOOLEAN
    /\ quit \in BOOLEAN
    /\ cancelled \in BOOLEAN
    /\ signalled \in BOOLEAN
    /\ denied \subseteq Calls
    /\ asked \in [Invites -> Seconds \union {0}]
    /\ touched \subseteq Calls

(* A call that was refused for its agency never began. *)
DeniedIdle == \A k \in denied : Outcome(k) = "idle"

(* A call that has changed the store is past its first write. *)
TouchedWrote == \A k \in touched : Outcome(k) \in Wrote(k)

(* A call of InviteUser that has begun carries the life its request asked for. *)
AskedLife ==
    \A c \in Invites : ipc[c] # "idle" =>
        asked[c] \in Seconds /\ req[c].ttl = ExpiresIn(asked[c])

ServerInv == AppTyped /\ StopCutsNoCall /\ DeniedIdle /\ TouchedWrote /\ AskedLife

(* The initial state satisfies the invariant. *)
LEMMA ServerInvInit == ServerInit => ServerInv
<1> SUFFICES ASSUME ServerInit PROVE ServerInv
  OBVIOUS
<1>1. \A k \in Calls : Outcome(k) = "idle"
  BY DEF ServerInit, Init, Calls, Outcome
<1>2. StopCutsNoCall
  BY <1>1 DEF StopCutsNoCall, Serving, Busy, InviteBusy, AcceptBusy, AdminBusy
<1>3. AppTyped /\ DeniedIdle /\ TouchedWrote
  BY DEF ServerInit, AppTyped, DeniedIdle, TouchedWrote
<1>4. AskedLife
  BY DEF ServerInit, Init, AskedLife
<1>5. QED
  BY <1>2, <1>3, <1>4 DEF ServerInv

(* What a step of InviteUser does to the places of the calls. *)
LEMMA InviteMoves ==
    ASSUME Typed, NEW c \in Invites, InviteList(c) \/ InviteStep(c)
    PROVE  /\ UNCHANGED <<apc, mpc>>
           /\ \A d \in Invites \ {c} : ipc'[d] = ipc[d] /\ req'[d] = req[d]
           /\ ipc'[c] # "idle"
           /\ store' # store => ipc'[c] \in Wrote(c)
           /\ ipc[c] \in Wrote(c) => ipc'[c] \in Wrote(c)
<1> USE DEF Typed, TypeOK, Wrote, accept, admin
<1>1. CASE InviteList(c)
  BY <1>1, SMTT(30) DEF InviteList
<1>2. CASE InviteCreateUser(c)
  BY <1>2, SMTT(30) DEF InviteCreateUser
<1>3. CASE InviteCreateInvitation(c)
  BY <1>3, SMTT(30) DEF InviteCreateInvitation
<1>4. CASE InviteLink(c)
  BY <1>4, SMTT(30) DEF InviteLink, GrantsFrom
<1>5. CASE InviteInvitedBy(c)
  BY <1>5, SMTT(30) DEF InviteInvitedBy, GrantsFrom
<1>6. CASE InviteWillGrant(c)
  BY <1>6, SMTT(30) DEF InviteWillGrant, GrantsFrom
<1>7. QED
  BY <1>1, <1>2, <1>3, <1>4, <1>5, <1>6 DEF InviteStep

(* What a step of AcceptInvitation does to the places of the calls. *)
LEMMA AcceptMoves ==
    ASSUME Typed, NEW a \in Accepts, AcceptList(a) \/ AcceptStep(a)
    PROVE  /\ UNCHANGED <<ipc, req, mpc>>
           /\ \A b \in Accepts \ {a} : apc'[b] = apc[b]
           /\ apc'[a] # "idle"
           /\ store' # store => apc'[a] \in Wrote(a)
           /\ apc[a] \in Wrote(a) => apc'[a] \in Wrote(a)
<1> USE ServerAssumption DEF Typed, TypeOK, Wrote, inviter, admin
<1>1. CASE AcceptList(a)
  BY <1>1, SMTT(30) DEF AcceptList
<1>2. CASE AcceptLink(a)
  BY <1>2, SMTT(30) DEF AcceptLink
<1>3. CASE AcceptActivate(a)
  BY <1>3, SMTT(30) DEF AcceptActivate
<1>4. CASE AcceptMark(a)
  BY <1>4, SMTT(30) DEF AcceptMark
<1>5. QED
  BY <1>1, <1>2, <1>3, <1>4 DEF AcceptStep

(* What a step of an administrative call does to the places of the calls. *)
LEMMA AdminMoves ==
    ASSUME Typed, NEW m \in Admins, AdminGet(m) \/ AdminUpdate(m)
    PROVE  /\ UNCHANGED <<ipc, req, apc>>
           /\ \A n \in Admins \ {m} : mpc'[n] = mpc[n]
           /\ mpc'[m] # "idle"
           /\ store' # store => mpc'[m] \in Wrote(m)
           /\ mpc[m] \in Wrote(m) => mpc'[m] \in Wrote(m)
<1> USE ServerAssumption DEF Typed, TypeOK, Wrote, inviter, accept
<1>1. CASE AdminGet(m)
  BY <1>1, SMTT(30) DEF AdminGet
<1>2. CASE AdminUpdate(m)
  BY <1>2, SMTT(30) DEF AdminUpdate
<1>3. QED
  BY <1>1, <1>2

(* A step the manager makes for one call: the places of all others are unchanged. *)
Moves(k) ==
    /\ \A j \in Calls \ {k} : Outcome(j)' = Outcome(j)
    /\ Outcome(k)' # "idle"
    /\ store' # store => Outcome(k)' \in Wrote(k)
    /\ Outcome(k) \in Wrote(k) => Outcome(k)' \in Wrote(k)

(* The steps that begin a call, and those that continue it. *)
Begins(k) == \/ k \in Invites /\ InviteList(k)
             \/ k \in Accepts /\ AcceptList(k)
             \/ k \in Admins /\ AdminGet(k)
Continues(k) == \/ k \in Invites /\ InviteStep(k)
                \/ k \in Accepts /\ AcceptStep(k)
                \/ k \in Admins /\ AdminUpdate(k)

(* Every step of the manager is of that form. *)
LEMMA CallMoves ==
    ASSUME Typed, NEW k \in Calls, Begins(k) \/ Continues(k)
    PROVE  Moves(k)
<1>1. CASE k \in Invites
  <2>1. InviteList(k) \/ InviteStep(k)
    BY <1>1, ServerAssumption DEF Begins, Continues
  <2>2. QED
    BY <1>1, <2>1, InviteMoves, ServerAssumption DEF Moves, Outcome, Calls
<1>2. CASE k \in Accepts
  <2>1. AcceptList(k) \/ AcceptStep(k)
    BY <1>2, ServerAssumption DEF Begins, Continues
  <2>2. QED
    BY <1>2, <2>1, AcceptMoves, ServerAssumption DEF Moves, Outcome, Calls
<1>3. CASE k \in Admins
  <2>1. AdminGet(k) \/ AdminUpdate(k)
    BY <1>3, ServerAssumption DEF Begins, Continues
  <2>2. QED
    BY <1>3, <2>1, AdminMoves, ServerAssumption DEF Moves, Outcome, Calls
<1>4. QED
  BY <1>1, <1>2, <1>3 DEF Calls

(* Only a call in progress continues. *)
LEMMA ContinuesBusy == \A k \in Calls : Continues(k) => Busy(k)
BY ServerAssumption
   DEF Continues, Busy, Outcome, Calls, InviteBusy, AcceptBusy, AdminBusy, InviteStep,
       InviteCreateUser, InviteCreateInvitation, InviteLink, InviteInvitedBy,
       InviteWillGrant, AcceptStep, AcceptLink, AcceptActivate, AcceptMark, AdminUpdate

(* No place of a call in progress is "idle". *)
LEMMA BusyNotIdle == \A k \in Calls : Busy(k) => Outcome(k) # "idle"
BY DEF Busy, InviteBusy, AcceptBusy, AdminBusy

-----------------------------------------------------------------------------
(* Every step keeps the invariant *)

(* A step of the manager, made for a call in a process that serves or drains. *)
LEMMA CallKeeps ==
    ASSUME ServerInv, NEW k \in Calls \ denied, Moves(k), Track(k),
           UNCHANGED <<app, denied>>, Serving,
           asked' \in [Invites -> Seconds \union {0}]
    PROVE  AppTyped' /\ StopCutsNoCall' /\ DeniedIdle' /\ TouchedWrote'
<1>1. AppTyped'
  BY DEF ServerInv, AppTyped, Track, app
<1>2. StopCutsNoCall'
  BY DEF StopCutsNoCall, Serving, app
<1>3. DeniedIdle'
  BY DEF ServerInv, AppTyped, DeniedIdle, Moves
<1>4. TouchedWrote'
  <2> SUFFICES ASSUME NEW j \in touched' PROVE Outcome(j)' \in Wrote(j)
    BY DEF TouchedWrote, Wrote
  <2>1. CASE j \in touched
    BY <2>1 DEF ServerInv, AppTyped, TouchedWrote, Moves
  <2>2. CASE j \notin touched
    BY <2>2 DEF Track, Moves
  <2>3. QED
    BY <2>1, <2>2
<1>5. QED
  BY <1>1, <1>2, <1>3, <1>4

(* A call that begins with the life its request asked for, or goes on with it. *)
LEMMA BeginKeeps ==
    ASSUME Typed, ServerInv, NEW k \in Calls, Serving, Idle(k), Begins(k),
           k \notin Invites, Manager(k)
    PROVE  ServerInv'
<1>1. AppTyped' /\ StopCutsNoCall' /\ DeniedIdle' /\ TouchedWrote'
  BY CallMoves, CallKeeps DEF Idle, Manager, ServerInv, AppTyped
<1>2. UNCHANGED <<ipc, req>>
  BY AcceptMoves, AdminMoves DEF Begins
<1>3. AskedLife'
  BY <1>2 DEF ServerInv, AskedLife, Manager
<1>4. QED
  BY <1>1, <1>3 DEF ServerInv

(* The handler of InviteUser. *)
LEMMA InviteKeeps ==
    ASSUME Typed, ServerInv, NEW c \in Invites, InviteUser(c)
    PROVE  ServerInv'
<1>1. c \in Calls /\ Begins(c) /\ c \notin denied
  BY DEF InviteUser, Begins, Calls, Idle
<1>2. PICK s \in Seconds : req'[c].ttl = ExpiresIn(s) /\ asked' = [asked EXCEPT ![c] = s]
  BY DEF InviteUser
<1>3. asked' \in [Invites -> Seconds \union {0}]
  BY <1>2 DEF ServerInv, AppTyped
<1>4. AppTyped' /\ StopCutsNoCall' /\ DeniedIdle' /\ TouchedWrote'
  BY <1>1, <1>3, CallMoves, CallKeeps DEF InviteUser
<1>5. AskedLife'
  <2> SUFFICES ASSUME NEW d \in Invites, ipc'[d] # "idle"
               PROVE  asked'[d] \in Seconds /\ req'[d].ttl = ExpiresIn(asked'[d])
    BY DEF AskedLife, ExpiresIn, Wrap
  <2>1. CASE d = c
    BY <1>2, <2>1 DEF ServerInv, AppTyped
  <2>2. CASE d # c
    BY <1>2, <2>2, InviteMoves DEF InviteUser, ServerInv, AppTyped, AskedLife
  <2>3. QED
    BY <2>1, <2>2
<1>6. QED
  BY <1>4, <1>5 DEF ServerInv

(* A call that goes on. *)
LEMMA StepKeeps ==
    ASSUME Typed, ServerInv, NEW k \in Calls, Step(k)
    PROVE  ServerInv'
<1>1. Continues(k) /\ Manager(k)
  BY DEF Step, Continues
<1>2. Busy(k) /\ k \notin denied /\ Serving
  BY <1>1, ContinuesBusy, BusyNotIdle DEF ServerInv, StopCutsNoCall, Serving, DeniedIdle
<1>3. AppTyped' /\ StopCutsNoCall' /\ DeniedIdle' /\ TouchedWrote'
  BY <1>1, <1>2, CallMoves, CallKeeps DEF Manager, ServerInv, AppTyped
<1>4. AskedLife'
  <2> SUFFICES ASSUME NEW d \in Invites, ipc'[d] # "idle"
               PROVE  asked[d] \in Seconds /\ req'[d].ttl = ExpiresIn(asked[d])
    BY <1>1 DEF AskedLife, Manager, ExpiresIn, Wrap
  <2>1. CASE k \in Invites
    <3>1. InviteStep(k) /\ ipc[k] # "idle"
      BY <1>1, <1>2, <2>1, BusyNotIdle, ServerAssumption DEF Continues, Outcome
    <3>2. req' = req /\ ipc[d] # "idle"
      BY <2>1, <3>1, InviteMoves
         DEF InviteStep, InviteCreateUser, InviteCreateInvitation, InviteLink,
             InviteInvitedBy, InviteWillGrant
    <3>3. QED
      BY <3>2 DEF ServerInv, AskedLife
  <2>2. CASE k \notin Invites
    <3>1. UNCHANGED <<ipc, req>>
      BY <1>1, <2>2, AcceptMoves, AdminMoves DEF Continues
    <3>2. QED
      BY <3>1 DEF ServerInv, AskedLife
  <2>3. QED
    BY <2>1, <2>2
<1>5. QED
  BY <1>3, <1>4 DEF ServerInv

(* A request for another agency. *)
LEMMA DenyKeeps ==
    ASSUME ServerInv, NEW k \in Calls, Deny(k)
    PROVE  ServerInv'
<1>1. \A j \in Calls : Outcome(j)' = Outcome(j)
  BY DEF Deny, vars, inviter, accept, admin, Outcome
<1>2. UNCHANGED <<ipc, req, asked, touched, app>>
  BY DEF Deny, vars, inviter
<1>3. AppTyped' /\ DeniedIdle'
  BY <1>1, <1>2 DEF ServerInv, AppTyped, DeniedIdle, Deny, Idle, app
<1>4. StopCutsNoCall'
  BY <1>1, <1>2 DEF ServerInv, StopCutsNoCall, Serving, Busy, app
<1>5. TouchedWrote' /\ AskedLife'
  BY <1>1, <1>2 DEF ServerInv, AppTyped, TouchedWrote, AskedLife, Wrote
<1>6. QED
  BY <1>3, <1>4, <1>5 DEF ServerInv

(* The goroutines of the process, which move no call: serving is entered from the  *)
(* start, and draining is left for what ends the process, with no call in progress. *)
LEMMA RunKeeps ==
    ASSUME ServerInv, Watch \/ Receive \/ Signal \/ Run \/ Start
    PROVE  ServerInv'
<1>1. UNCHANGED <<ipc, apc, mpc, req, denied, asked, touched>>
  BY DEF Watch, Receive, Signal, Run, StartFails, StartServing, BeginStop, Drained,
         HttpDown, Start, vars, inviter, accept, admin, front
<1>2. AppTyped'
  BY <1>1 DEF ServerInv, AppTyped, Ended, Watch, Receive, Signal, Run, StartFails,
              StartServing, BeginStop, Drained, HttpDown, Start, Notify
<1>3. \A k \in Calls : Outcome(k)' = Outcome(k)
  BY <1>1 DEF Outcome
<1>4. StopCutsNoCall'
  <2> SUFFICES ASSUME NEW k \in Calls, Busy(k) PROVE Serving'
    BY <1>3 DEF StopCutsNoCall, Serving, Busy
  <2>1. Serving
    BY DEF ServerInv, StopCutsNoCall, Serving
  <2>2. QED
    BY <2>1 DEF Serving, Ended, Watch, Receive, Signal, Run, StartFails, StartServing,
                BeginStop, Drained, HttpDown, Start
<1>5. DeniedIdle' /\ TouchedWrote' /\ AskedLife'
  BY <1>1, <1>3 DEF ServerInv, AppTyped, DeniedIdle, TouchedWrote, AskedLife, Wrote
<1>6. QED
  BY <1>2, <1>4, <1>5 DEF ServerInv

(* The death of the process. *)
LEMMA DieKeeps ==
    ASSUME Typed, ServerInv, Die
    PROVE  ServerInv'
<1>1. \A k \in Calls : Outcome(k)' = IF Busy(k) THEN "crashed" ELSE Outcome(k)
  <2> USE ServerAssumption DEF Die, Crash, Outcome, Busy, Typed, TypeOK
  <2>1. ASSUME NEW k \in Invites PROVE Outcome(k)' = IF Busy(k) THEN "crashed" ELSE Outcome(k)
    BY <2>1 DEF InviteBusy, InviteDone, AcceptBusy, AdminBusy
  <2>2. ASSUME NEW k \in Accepts PROVE Outcome(k)' = IF Busy(k) THEN "crashed" ELSE Outcome(k)
    BY <2>2 DEF InviteBusy, AcceptDone, AcceptBusy, AdminBusy
  <2>3. ASSUME NEW k \in Admins PROVE Outcome(k)' = IF Busy(k) THEN "crashed" ELSE Outcome(k)
    BY <2>3 DEF InviteBusy, AdminDone, AcceptBusy, AdminBusy
  <2>4. QED
    BY <2>1, <2>2, <2>3 DEF Calls
<1>2. UNCHANGED <<req, denied, asked, touched>>
  BY DEF Die, Crash, front
<1>3. AppTyped'
  BY DEF Die, ServerInv, AppTyped, Ended, front
<1>4. StopCutsNoCall'
  BY <1>1 DEF StopCutsNoCall, Serving, Busy, InviteBusy, AcceptBusy, AdminBusy
<1>5. DeniedIdle'
  BY <1>1, <1>2, BusyNotIdle DEF ServerInv, AppTyped, DeniedIdle
<1>6. TouchedWrote'
  BY <1>1, <1>2 DEF ServerInv, AppTyped, TouchedWrote, Wrote
<1>7. AskedLife'
  BY <1>2 DEF ServerInv, AskedLife, Die, Crash, InviteBusy
<1>8. QED
  BY <1>3, <1>4, <1>5, <1>6, <1>7 DEF ServerInv

(* The clock, and steps of nobody. *)
LEMMA WaitKeeps ==
    ASSUME ServerInv, Wait \/ UNCHANGED serverVars
    PROVE  ServerInv'
<1>1. UNCHANGED <<ipc, apc, mpc, req, app, front>>
  BY DEF Wait, Tick, serverVars, vars, inviter, accept, admin
<1>2. QED
  BY <1>1 DEF ServerInv, AppTyped, StopCutsNoCall, Serving, DeniedIdle, TouchedWrote, AskedLife,
              Outcome, Busy, Wrote, app, front

(* The invariant is inductive, given that of Invitations. *)
LEMMA ServerInvNext == Typed /\ ServerInv /\ [ServerNext]_serverVars => ServerInv'
<1> SUFFICES ASSUME Typed, ServerInv, [ServerNext]_serverVars PROVE ServerInv'
  OBVIOUS
<1>1. ASSUME NEW k \in Calls, Deny(k) \/ Step(k) PROVE ServerInv'
  BY <1>1, DenyKeeps, StepKeeps
<1>2. ASSUME NEW c \in Invites, InviteUser(c) PROVE ServerInv'
  BY <1>2, InviteKeeps
<1>3. ASSUME NEW a \in Accepts, AcceptInvitation(a) PROVE ServerInv'
  BY <1>3, BeginKeeps, ServerAssumption DEF AcceptInvitation, Begins, Calls
<1>4. ASSUME NEW m \in Admins, ChangeUser(m) PROVE ServerInv'
  BY <1>4, BeginKeeps, ServerAssumption DEF ChangeUser, Begins, Calls
<1>5. CASE Watch \/ Receive \/ Signal \/ Run \/ Start
  BY <1>5, RunKeeps
<1>6. CASE Die
  BY <1>6, DieKeeps
<1>7. CASE Wait \/ UNCHANGED serverVars
  BY <1>7, WaitKeeps
<1>8. QED
  BY <1>1, <1>2, <1>3, <1>4, <1>5, <1>6, <1>7 DEF ServerNext

(* The invariant holds in every behaviour of the process. *)
THEOREM ServerInvariant == ServerSpec => []ServerInv
<1>1. IInv => Typed
  BY DEF IInv
<1>2. QED
  BY <1>1, ServerSafety, ServerInvInit, ServerInvNext, PTL DEF ServerSpec

-----------------------------------------------------------------------------
(* The properties *)

(* Every variable, of the process and of the store, holds a value of its kind. *)
THEOREM ServerTypeCorrect == ServerSpec => []ServerTypeOK
<1>1. IInv /\ ServerInv => ServerTypeOK
  BY DEF IInv, Typed, ServerInv, AppTyped, ServerTypeOK
<1>2. QED
  BY <1>1, ServerSafety, ServerInvariant, PTL

(* An orderly stop cuts no call. *)
THEOREM StopIsGraceful == ServerSpec => []StopCutsNoCall
<1>1. ServerInv => StopCutsNoCall
  BY DEF ServerInv
<1>2. QED
  BY <1>1, ServerInvariant, PTL

(* A call that is refused with a code other than Unavailable has changed nothing. *)
THEOREM RefusalsHarmless == ServerSpec => []RefusalWroteNothing
<1>1. ServerInv => RefusalWroteNothing
  <2> SUFFICES ASSUME ServerInv, NEW k \in touched
               PROVE  Reply(k) \in {"none", "OK", "Unavailable"}
    BY DEF RefusalWroteNothing
  <2>1. k \in Calls /\ Outcome(k) \in Wrote(k)
    BY DEF ServerInv, AppTyped, TouchedWrote
  <2>2. k \notin denied
    BY <2>1 DEF ServerInv, DeniedIdle, Wrote
  <2>3. Busy(k) \/ Outcome(k) \in {"ok", "unavailable", "crashed"}
    BY <2>1 DEF Wrote, Busy, InviteBusy, AcceptBusy, AdminBusy
  <2>4. toGRPCError("ErrTemporarilyUnavailable") = "Unavailable"
    BY DEF toGRPCError, CodeTable
  <2>5. Sentinel(k)["unavailable"] = "ErrTemporarilyUnavailable"
    BY DEF Sentinel
  <2>6. QED
    BY <2>2, <2>3, <2>4, <2>5 DEF Reply
<1>2. QED
  BY <1>1, ServerInvariant, PTL

(* The remainder of a natural number is at most the number, and the number itself  *)
(* if that is below the divisor.                                                   *)
LEMMA Remainder ==
    ASSUME NEW a \in Nat, NEW n \in Nat \ {0}
    PROVE  a % n \in Nat /\ a % n <= a /\ (a < n => a % n = a)
<1>1. a = n * (a \div n) + (a % n) /\ a % n \in 0..(n - 1) /\ a \div n \in Nat
  OBVIOUS
<1>2. n * (a \div n) \in Nat
  BY <1>1
<1>3. a \div n # 0 => n * (a \div n) >= n
  BY <1>1
<1>4. QED
  BY <1>1, <1>2, <1>3

(* The life that InviteUser is asked for is never longer than the seconds: what an *)
(* overflow leaves is shorter, and so is the default that replaces a negative one. *)
LEMMA NoLonger ==
    ASSUME NEW s \in Seconds, s > 0
    PROVE  Lifetime(ExpiresIn(s)) <= s * Second
<1> DEFINE x == s * Second
<1>1. s \in Int /\ Second \in Nat \ {0} /\ Overflow \in Nat \ {0} /\ DefaultTtl < Overflow
      /\ DefaultTtl \in Nat
  BY ServerAssumption, ClockAssumption
<1>2. x \in Nat \ {0}
  BY <1>1
<1>3. x + Overflow \in Nat /\ 2 * Overflow \in Nat \ {0}
  BY <1>1, <1>2
<1> DEFINE r == (x + Overflow) % (2 * Overflow)
<1>4. r \in Nat /\ r <= x + Overflow /\ (x + Overflow < 2 * Overflow => r = x + Overflow)
  BY <1>3, Remainder
<1>5. ExpiresIn(s) = r - Overflow
  BY DEF ExpiresIn, Wrap
<1> HIDE DEF x, r
<1>6. CASE r - Overflow <= 0
  <2>1. Lifetime(ExpiresIn(s)) = DefaultTtl
    BY <1>5, <1>6 DEF Lifetime
  <2>2. DefaultTtl <= x
    BY <1>1, <1>2, <1>4, <1>6
  <2>3. QED
    BY <2>1, <2>2 DEF x
<1>7. CASE r - Overflow > 0
  <2>1. Lifetime(ExpiresIn(s)) = r - Overflow
    BY <1>1, <1>4, <1>5, <1>7 DEF Lifetime
  <2>2. r - Overflow <= x
    BY <1>1, <1>2, <1>4
  <2>3. QED
    BY <2>1, <2>2 DEF x
<1>8. QED
  BY <1>1, <1>4, <1>6, <1>7

(* An invitation is never honoured after the seconds its request asked for. *)
THEOREM NotHonouredLongerThanAsked == ServerSpec => []HonouredAsAsked
<1>1. IInv /\ NeverHonouredLate /\ ServerInv => HonouredAsAsked
  <2> SUFFICES ASSUME IInv, NeverHonouredLate, ServerInv,
                      NEW a \in Accepts, apc[a] \in {"activate", "mark", "ok"},
                      asked[token[a]] > 0
               PROVE  checkedAt[a] <= issuedAt[token[a]] + asked[token[a]] * Second
    BY DEF HonouredAsAsked
  <2> DEFINE c == token[a]
  <2>1. c \in Invites /\ Delivered(c)
    BY DEF IInv, Typed, LocalsOK, TargetsExist, AcceptBusy
  <2>2. asked[c] \in Seconds /\ req[c].ttl = ExpiresIn(asked[c])
    BY <2>1 DEF ServerInv, AskedLife, Delivered
  <2>3. Lifetime(req[c].ttl) <= asked[c] * Second
    BY <2>2, NoLonger
  <2>4. checkedAt[a] <= issuedAt[c] + Lifetime(req[c].ttl)
    BY DEF NeverHonouredLate
  <2>5. Lifetime(req[c].ttl) \in Int
    BY <2>1, LifetimeType DEF IInv, Typed, LocalsOK, Delivered
  <2>6. checkedAt[a] \in Int /\ issuedAt[c] \in Int
    BY <2>1, ClockAssumption DEF IInv, Typed, TypeOK, Time
  <2>7. asked[c] * Second \in Int
    <3>1. \A m, n \in Int : m * n \in Int
      OBVIOUS
    <3>2. Seconds \subseteq Int /\ Second \in Int
      BY ServerAssumption, ClockAssumption
    <3>3. QED
      BY <2>2, <3>1, <3>2, Zenon
  <2>8. QED
    BY <2>3, <2>4, <2>5, <2>6, <2>7
<1>2. QED
  BY <1>1, ServerKeeps, ServerSafety, ServerInvariant, PTL

=============================================================================
