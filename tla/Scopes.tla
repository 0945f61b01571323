--------------------------------- MODULE Scopes ---------------------------------
(***************************************************************************)
(* The registry of scopes: RegisterScope and DeprecateScope                *)
(* (src/roles_scopes.go), executed concurrently over EntityStore.          *)
(*                                                                         *)
(* Every service registers its scopes whenever it starts, so calls for one *)
(* name, of one service and of several, come at once.  A call of           *)
(* RegisterScope creates at most one Scope, named by the call.             *)
(***************************************************************************)
EXTENDS EntityStore

CONSTANTS
    Registers,  \* the calls of RegisterScope
    Deprecates, \* the calls of DeprecateScope
    Prefixes,   \* what stands before the colon of the names
    Services,   \* the services that register scopes
    Reserved,   \* the reserved prefixes
    Self,       \* this service, codevaldorg
    Malformed,  \* a name that does not match the grammar
    MaxFaults   \* bound: failing store calls and crashes in a behaviour

\* One name for each prefix: names of one prefix do not touch each other.
Names == Prefixes

ASSUME ScopesAssumption ==
    /\ MaxFaults \in Nat
    /\ Reserved \subseteq Prefixes
    /\ Malformed \notin Names
    /\ Self \in Services

VARIABLES
    scope,      \* each Scope is in the store
    deprecated, \* its deprecated_at is set
    rpc, req,   \* where a RegisterScope call is, and its request
    found,      \* the scope it read
    dpc, aim,   \* where a DeprecateScope call is, and the scope it names, if any
    rivals,     \* history: the RegisterScope calls that had found no scope of this
                \* name and not yet created theirs when this call looked
    faults      \* failures and crashes so far

registering == <<rpc, req, found, rivals>>
deprecating == <<dpc, aim>>
vars        == <<scope, deprecated, registering, deprecating, faults>>

-----------------------------------------------------------------------------

Requests  == [name : Names \union {Malformed}, by : Services]
NoRequest == [name |-> Malformed, by |-> Self]

Busy           == {"create", "update"}
RegisterDone   == {"ok", "invalid", "reserved", "collision", "unavailable", "crashed"}
DeprecateDone  == {"ok", "notFound", "unavailable", "crashed"}

MayFault(outcome) == faults + FaultCost(outcome) <= MaxFaults
Fault(outcome)    == faults' = faults + FaultCost(outcome)

\* Mutant: the error of the store is returned as it is.
AfterRaw(outcome) == outcome

\* A call succeeds when the store answers, and is ErrTemporarilyUnavailable if not.
After(outcome) == IF outcome = "ok" THEN "ok" ELSE "unavailable"

ByName(n) == {s \in Registers : scope[s] /\ req[s].name = n}

-----------------------------------------------------------------------------
(* RegisterScope *)

\* The grammar and the reserved prefixes are tested before the store is asked.
RegisterRefuse(c) ==
    /\ rpc[c] = "idle"
    /\ \E r \in Requests :
        /\ req' = [req EXCEPT ![c] = r]
        /\ \/ /\ r.name = Malformed
              /\ rpc' = [rpc EXCEPT ![c] = "invalid"]
           \/ /\ r.name \in Reserved /\ r.by # Self
              /\ rpc' = [rpc EXCEPT ![c] = "reserved"]
    /\ UNCHANGED <<scope, deprecated, found, rivals, deprecating, faults>>

\* Mutant: an error of the list is taken for an empty answer.
RegisterListSwallowed(c) ==
    /\ rpc[c] = "idle"
    /\ \E r \in Requests, o \in ReadOutcome :
        /\ r.name # Malformed /\ (r.name \in Reserved => r.by = Self)
        /\ MayFault(o) /\ Fault(o)
        /\ req' = [req EXCEPT ![c] = r]
        /\ \/ /\ o = "fail" \/ ByName(r.name) = {}
              /\ rpc' = [rpc EXCEPT ![c] = "create"]
              /\ rivals' = [rivals EXCEPT ![c] =
                    {d \in Registers : rpc[d] = "create" /\ req[d].name = r.name}]
              /\ UNCHANGED found
           \/ /\ o = "ok"
              /\ \E s \in ByName(r.name) :
                  /\ found' = [found EXCEPT ![c] = {s}]
                  /\ rpc' = [rpc EXCEPT ![c] = IF req[s].by = r.by THEN "update" ELSE "collision"]
              /\ UNCHANGED rivals
    /\ UNCHANGED <<scope, deprecated, deprecating>>

\* Look for a scope of the name: the first the store lists, in no order the code asks for.
RegisterList(c) ==
    /\ rpc[c] = "idle"
    /\ \E r \in Requests, o \in ReadOutcome :
        /\ r.name # Malformed /\ (r.name \in Reserved => r.by = Self)
        /\ MayFault(o) /\ Fault(o)
        /\ req' = [req EXCEPT ![c] = r]
        /\ \/ /\ o = "fail"
              /\ rpc' = [rpc EXCEPT ![c] = "unavailable"]
              /\ UNCHANGED <<found, rivals>>
           \/ /\ o = "ok" /\ ByName(r.name) = {}
              /\ rpc' = [rpc EXCEPT ![c] = "create"]
              /\ rivals' = [rivals EXCEPT ![c] =
                    {d \in Registers : rpc[d] = "create" /\ req[d].name = r.name}]
              /\ UNCHANGED found
           \/ /\ o = "ok"
              /\ \E s \in ByName(r.name) :
                  /\ found' = [found EXCEPT ![c] = {s}]
                  /\ rpc' = [rpc EXCEPT ![c] = IF req[s].by = r.by THEN "update" ELSE "collision"]
              /\ UNCHANGED rivals
    /\ UNCHANGED <<scope, deprecated, deprecating>>

\* UpdateEntity: the description, and no deprecated_at.
RegisterUpdate(c) ==
    /\ rpc[c] = "update"
    /\ \E o \in WriteOutcome :
        /\ MayFault(o) /\ Fault(o)
        /\ deprecated' = [s \in Registers |-> deprecated[s] /\ ~(Applied(o) /\ s \in found[c])]
        /\ rpc' = [rpc EXCEPT ![c] = After(o)]
    /\ UNCHANGED <<scope, req, found, rivals, deprecating>>

\* Mutant: the error of the write is dropped.
RegisterCreateUnchecked(c) ==
    /\ rpc[c] = "create"
    /\ \E o \in WriteOutcome :
        /\ MayFault(o) /\ Fault(o)
        /\ scope' = [scope EXCEPT ![c] = Applied(o)]
        /\ rpc' = [rpc EXCEPT ![c] = "ok"]
    /\ UNCHANGED <<deprecated, req, found, rivals, deprecating>>

\* Create the Scope.
RegisterCreate(c) ==
    /\ rpc[c] = "create"
    /\ \E o \in WriteOutcome :
        /\ MayFault(o) /\ Fault(o)
        /\ scope' = [scope EXCEPT ![c] = Applied(o)]
        /\ rpc' = [rpc EXCEPT ![c] = After(o)]
    /\ UNCHANGED <<deprecated, req, found, rivals, deprecating>>

-----------------------------------------------------------------------------
(* DeprecateScope *)

\* GetEntity.  An id of another type of entity, written {} here, is as good as
\* that of a Scope.
DeprecateGet(d) ==
    /\ dpc[d] = "idle"
    /\ \E a \in {{s} : s \in Registers} \union {{}}, o \in ReadOutcome :
        /\ MayFault(o) /\ Fault(o)
        /\ aim' = [aim EXCEPT ![d] = a]
        /\ dpc' = [dpc EXCEPT ![d] = IF o = "ok" /\ \A s \in a : scope[s]
                                     THEN "update" ELSE "notFound"]
    /\ UNCHANGED <<scope, deprecated, registering>>

\* UpdateEntity: deprecated_at.
DeprecateWrite(d) ==
    /\ dpc[d] = "update"
    /\ \E o \in WriteOutcome :
        /\ MayFault(o) /\ Fault(o)
        /\ deprecated' = [s \in Registers |-> deprecated[s] \/ (Applied(o) /\ s \in aim[d])]
        /\ dpc' = [dpc EXCEPT ![d] = After(o)]
    /\ UNCHANGED <<scope, registering, aim>>

-----------------------------------------------------------------------------

\* The server process dies: every call in progress ends where it is.
Crash ==
    /\ faults < MaxFaults
    /\ (\E c \in Registers : rpc[c] \in Busy) \/ (\E d \in Deprecates : dpc[d] \in Busy)
    /\ faults' = faults + 1
    /\ rpc' = [c \in Registers |-> IF rpc[c] \in Busy THEN "crashed" ELSE rpc[c]]
    /\ dpc' = [d \in Deprecates |-> IF dpc[d] \in Busy THEN "crashed" ELSE dpc[d]]
    /\ UNCHANGED <<scope, deprecated, req, found, rivals, aim>>

\* Every call has returned: nothing is left to do.
Finished ==
    /\ \A c \in Registers : rpc[c] \in RegisterDone
    /\ \A d \in Deprecates : dpc[d] \in DeprecateDone
    /\ UNCHANGED vars

Init ==
    /\ scope = [c \in Registers |-> FALSE]
    /\ deprecated = [c \in Registers |-> FALSE]
    /\ rpc = [c \in Registers |-> "idle"]
    /\ req = [c \in Registers |-> NoRequest]
    /\ found = [c \in Registers |-> {}]
    /\ rivals = [c \in Registers |-> {}]
    /\ dpc = [d \in Deprecates |-> "idle"]
    /\ aim = [d \in Deprecates |-> {}]
    /\ faults = 0

Next ==
    \/ \E c \in Registers : RegisterRefuse(c) \/ RegisterList(c) \/ RegisterUpdate(c)
                            \/ RegisterCreate(c)
    \/ \E d \in Deprecates : DeprecateGet(d) \/ DeprecateWrite(d)
    \/ Crash
    \/ Finished

Spec == Init /\ [][Next]_vars

-----------------------------------------------------------------------------

\* The calls that found no scope of the name and have not yet created theirs.
Contending(n) == {c \in Registers : rpc[c] = "create" /\ req[c].name = n}

Registry == INSTANCE UniqueNames WITH
    Claims     <- Registers,
    Names      <- Names,
    holders    <- [n \in Names |-> ByName(n)],
    contending <- [n \in Names |-> Contending(n)],
    rivals     <- rivals

-----------------------------------------------------------------------------
(* Properties *)

\* Every variable holds a value of its kind.
TypeOK ==
    /\ scope \in [Registers -> BOOLEAN]
    /\ deprecated \in [Registers -> BOOLEAN]
    /\ rpc \in [Registers -> {"idle"} \union Busy \union RegisterDone]
    /\ req \in [Registers -> Requests]
    /\ found \in [Registers -> SUBSET Registers]
    /\ rivals \in [Registers -> SUBSET Registers]
    /\ dpc \in [Deprecates -> {"idle", "update"} \union DeprecateDone]
    /\ aim \in [Deprecates -> SUBSET Registers]
    /\ faults \in 0..MaxFaults

\* RegisterScope keeps the promise of UniqueNames for the names of scopes, whichever
\* services register them, and whatever fails or dies on the way.
ImplementsUniqueNames == Registry!Spec

\* Hence two scopes have one name, whether they are of one service or of two, only if
\* one of the calls had looked, and not yet created its scope, when the other looked.
DuplicateScopeOnlyFromRace == Registry!UniqueUpToRace

\* A service whose registration is acknowledged has a scope of that name registered by
\* itself, also when the acknowledgement came from the update of an existing scope.
RegisteredByCaller ==
    \A c \in Registers : rpc[c] = "ok" =>
        \E s \in Registers : scope[s] /\ req[s] = req[c]

=============================================================================
