------------------------------- MODULE OrgServer -------------------------------
(***************************************************************************)
(* The process around the calls of Invitations: the gRPC handlers of       *)
(* src/internal/server, which check the agency, convert the request, call  *)
(* the manager and translate its error, and Run of src/internal/app, which *)
(* starts the service, waits for a signal and stops it gracefully.         *)
(*                                                                         *)
(* A call of Invitations is now a request that reaches a serving process;  *)
(* the process may be started again after it has ended.                    *)
(***************************************************************************)
EXTENDS Invitations

CONSTANTS
    Seconds,   \* the values of expires_in_seconds that requests carry
    Overflow   \* 2^63, the first number a time.Duration does not hold

VARIABLES
    phase,      \* where Run is
    watching,   \* the goroutine that waits for a signal has reached its receive
    quit,       \* a signal is in the channel quit, which holds one
    cancelled,  \* ctx has been cancelled
    denied,     \* the calls answered without a call of the manager
    asked,      \* expires_in_seconds of each InviteUser request
    signalled,  \* history: this process has been sent a signal
    touched     \* history: the calls that have changed the store

app        == <<phase, watching, quit, cancelled, signalled>>
front      == <<denied, asked, touched>>
serverVars == <<vars, app, front>>

-----------------------------------------------------------------------------
(* Conversions *)

Calls == Invites \union Accepts \union Admins
Ended == {"stopped", "failed"}

\* A number in 64 bits, in two's complement.
Wrap(x) == ((x + Overflow) % (2 * Overflow)) - Overflow

\* time.Duration(s) * time.Second.
ExpiresIn(s) == Wrap(s * Second)

ASSUME ServerAssumption ==
    /\ Seconds \subseteq Int
    /\ Overflow \in Nat
    /\ DefaultTtl < Overflow
    /\ Ttls = {ExpiresIn(s) : s \in Seconds}
    /\ Invites \intersect (Accepts \union Admins) = {}
    /\ Accepts \intersect Admins = {}

\* Where a call is, or what the manager returned.
Outcome(k) == IF k \in Invites THEN ipc[k] ELSE IF k \in Accepts THEN apc[k] ELSE mpc[k]

Idle(k) == Outcome(k) = "idle" /\ k \notin denied
Busy(k) == Outcome(k) \in InviteBusy \union AcceptBusy \union AdminBusy

\* The sentinel that stands for an outcome of the manager.
Sentinel(k) == [exists          |-> "ErrUserAlreadyExists",
                alreadyAccepted |-> "ErrInvitationAlreadyAccepted",
                expired         |-> "ErrInvitationExpired",
                unavailable     |-> "ErrTemporarilyUnavailable",
                notFound        |-> IF k \in Accepts THEN "ErrInvitationNotFound"
                                                     ELSE "ErrUserNotFound"]

\* The codes of the sentinels these calls return.
CodeTable == [AlreadyExists      |-> {"ErrUserAlreadyExists"},
              FailedPrecondition |-> {"ErrInvitationAlreadyAccepted", "ErrInvitationExpired"},
              NotFound           |-> {"ErrInvitationNotFound", "ErrUserNotFound"},
              Unavailable        |-> {"ErrTemporarilyUnavailable"}]

\* Mutant: the case of ErrTemporarilyUnavailable is missing.
toGRPCErrorShort(err) ==
    LET codes == {c \in DOMAIN CodeTable \ {"Unavailable"} : err \in CodeTable[c]}
    IN  IF codes = {} THEN "Internal" ELSE CHOOSE c \in codes : TRUE

\* The code of an error; an error of no case is Internal.
toGRPCError(err) ==
    LET codes == {c \in DOMAIN CodeTable : err \in CodeTable[c]}
    IN  IF codes = {} THEN "Internal" ELSE CHOOSE c \in codes : TRUE

\* The code a call was answered with; "none" if it was not answered.
Reply(k) ==
    IF k \in denied THEN "PermissionDenied"
    ELSE IF Outcome(k) = "ok" THEN "OK"
    ELSE IF Outcome(k) \in {"idle", "crashed"} \/ Busy(k) THEN "none"
    ELSE toGRPCError(Sentinel(k)[Outcome(k)])

-----------------------------------------------------------------------------
(* The handlers *)

\* The process executes handlers.  A call may be accepted before GracefulStop begins
\* and reach the store only after it, so calls begin until the last one has returned.
Serving == phase \in {"serving", "draining"}

\* A step that the manager makes for a call.
Track(k)   == touched' = IF store' = store THEN touched ELSE touched \union {k}
Manager(k) == Track(k) /\ UNCHANGED <<app, denied, asked>>

\* checkAgencyID: the request is for another agency.
Deny(k) ==
    /\ Serving
    /\ Idle(k)
    /\ denied' = denied \union {k}
    /\ UNCHANGED <<vars, app, asked, touched>>

\* The handler of InviteUser converts the life and calls the manager.
InviteUser(c) ==
    /\ Serving
    /\ Idle(c)
    /\ InviteList(c)
    /\ \E s \in Seconds :
        /\ req'[c].ttl = ExpiresIn(s)
        /\ asked' = [asked EXCEPT ![c] = s]
    /\ Track(c)
    /\ UNCHANGED <<app, denied>>

\* The handler of AcceptInvitation.
AcceptInvitation(a) == Serving /\ Idle(a) /\ AcceptList(a) /\ Manager(a)

\* The handlers of SuspendUser, ReactivateUser and DeleteUser.
ChangeUser(m) == Serving /\ Idle(m) /\ AdminGet(m) /\ Manager(m)

\* A call that has begun goes on, also while the process is stopping.
Step(k) ==
    /\ \/ k \in Invites /\ InviteStep(k)
       \/ k \in Accepts /\ AcceptStep(k)
       \/ k \in Admins /\ AdminUpdate(k)
    /\ Manager(k)

-----------------------------------------------------------------------------
(* Run *)

\* The goroutine of the signals reaches its receive, whenever it is scheduled.
Watch ==
    /\ phase \notin Ended
    /\ ~watching /\ ~cancelled
    /\ watching' = TRUE
    /\ UNCHANGED <<vars, phase, quit, cancelled, signalled, front>>

\* The goroutine receives the signal, cancels ctx, and is over.
Receive ==
    /\ phase \notin Ended
    /\ watching /\ quit
    /\ watching' = FALSE
    /\ quit' = FALSE
    /\ cancelled' = TRUE
    /\ UNCHANGED <<vars, phase, signalled, front>>

\* Mutant: the channel has no buffer, and a signal nobody waits for is dropped.
NotifyUnbuffered == watching

\* signal.Notify never blocks: it puts a signal into the channel if there is room.
Notify == TRUE

\* SIGTERM or SIGINT, at any moment of the process and as often as it is sent.
Signal ==
    /\ phase \notin Ended
    /\ signalled' = TRUE
    /\ quit' = (quit \/ Notify)
    /\ UNCHANGED <<vars, phase, watching, cancelled, front>>

\* NewBackend or Listen fails: Run returns the error.  Any other failure is logged.
StartFails ==
    /\ phase = "starting"
    /\ phase' = "failed"
    /\ UNCHANGED <<vars, watching, quit, cancelled, signalled, front>>

\* The backend, the schema, the manager, the registrar, the listeners: the service
\* serves, even if ctx was cancelled meanwhile.
StartServing ==
    /\ phase = "starting"
    /\ phase' = "serving"
    /\ UNCHANGED <<vars, watching, quit, cancelled, signalled, front>>

\* <-ctx.Done() returns, and GracefulStop begins: no further call is accepted.
BeginStop ==
    /\ phase = "serving"
    /\ cancelled
    /\ phase' = "draining"
    /\ UNCHANGED <<vars, watching, quit, cancelled, signalled, front>>

\* Mutant: Stop instead of GracefulStop.
DrainedNow ==
    /\ phase = "draining"
    /\ phase' = "http"
    /\ UNCHANGED <<vars, watching, quit, cancelled, signalled, front>>

\* GracefulStop returns when the calls in progress have, however long they take.
Drained ==
    /\ phase = "draining"
    /\ \A k \in Calls : ~Busy(k)
    /\ phase' = "http"
    /\ UNCHANGED <<vars, watching, quit, cancelled, signalled, front>>

\* Shutdown of the HTTP server, whose handlers touch no state, within 30 seconds.
HttpDown ==
    /\ phase = "http"
    /\ phase' = "stopped"
    /\ UNCHANGED <<vars, watching, quit, cancelled, signalled, front>>

Run == StartFails \/ StartServing \/ BeginStop \/ Drained \/ HttpDown

\* A new process, after the last has ended.
Start ==
    /\ phase \in Ended
    /\ phase' = "starting"
    /\ watching' = FALSE
    /\ quit' = FALSE
    /\ cancelled' = FALSE
    /\ signalled' = FALSE
    /\ UNCHANGED <<vars, front>>

\* The process dies, and its calls with it.  A death with no call in progress is to
\* the store what an orderly stop is.
Die ==
    /\ Crash
    /\ phase' = "failed"
    /\ UNCHANGED <<watching, quit, cancelled, signalled, front>>

\* Time passes in every phase.
Wait == Tick /\ UNCHANGED <<app, front>>

ServerInit ==
    /\ Init
    /\ phase = "starting"
    /\ watching = FALSE
    /\ quit = FALSE
    /\ cancelled = FALSE
    /\ signalled = FALSE
    /\ denied = {}
    /\ asked = [c \in Invites |-> 0]
    /\ touched = {}

ServerNext ==
    \/ \E k \in Calls : Deny(k) \/ Step(k)
    \/ \E c \in Invites : InviteUser(c)
    \/ \E a \in Accepts : AcceptInvitation(a)
    \/ \E m \in Admins : ChangeUser(m)
    \/ Watch
    \/ Receive
    \/ Signal
    \/ Run
    \/ Start
    \/ Die
    \/ Wait

\* Beyond the fairness of Invitations: the two goroutines are scheduled, and what
\* they call returns, except GracefulStop, which waits for the calls.  No signal
\* need come, and the process need not be started again.
ServerFairness ==
    /\ \A k \in Calls : WF_serverVars(Step(k))
    /\ WF_serverVars(Watch)
    /\ WF_serverVars(Receive)
    /\ WF_serverVars(Run)

ServerSpec     == ServerInit /\ [][ServerNext]_serverVars
FairServerSpec == ServerSpec /\ ServerFairness

-----------------------------------------------------------------------------
(* Properties *)

\* Every variable of the process holds a value of its kind.
ServerTypeOK ==
    /\ TypeOK
    /\ phase \in {"starting", "serving", "draining", "http"} \union Ended
    /\ watching \in BOOLEAN
    /\ quit \in BOOLEAN
    /\ cancelled \in BOOLEAN
    /\ signalled \in BOOLEAN
    /\ denied \subseteq Calls
    /\ asked \in [Invites -> Seconds \union {0}]
    /\ touched \subseteq Calls

\* Whatever fails, a client that is refused may conclude from the code that nothing
\* happened: a call that has changed the store and is answered is answered with OK, or
\* with Unavailable, the code on which clients look again.
RefusalWroteNothing ==
    \A k \in touched : Reply(k) \in {"none", "OK", "Unavailable"}

\* An invitation with a positive expires_in_seconds is never honoured after that
\* many seconds: where the product overflows, what is left of it, or the default life
\* that replaces a negative rest, is shorter.
HonouredAsAsked ==
    \A a \in Accepts : apc[a] \in {"activate", "mark", "ok"} =>
        LET c == token[a]
        IN  asked[c] > 0 => checkedAt[a] <= issuedAt[c] + asked[c] * Second

\* An orderly stop cuts no call: whatever signals come, a call that has begun is in
\* progress only in a process that serves or waits for it, and with the death of the
\* process it ends.
StopCutsNoCall == \A k \in Calls : Busy(k) => Serving

\* A process that is sent a signal ends: at whatever moment of its start the signal
\* comes, whether it comes once or again while the process stops, and however many
\* calls are in progress.
SignalEndsRun == signalled ~> phase \in Ended

=============================================================================
