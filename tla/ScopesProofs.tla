------------------------------ MODULE ScopesProofs ------------------------------
(* Theorems about Scopes, for any calls, services, names and number of faults. *)
EXTENDS Scopes, TLAPS

\* A Scope is in the store only once the call that creates it is over.
CreatedByWrite ==
    \A c \in Registers : scope[c] => rpc[c] \in {"ok", "unavailable", "crashed"}

\* What a call found is a Scope of its name and of its service, and stays one.
FoundIsOwn ==
    \A c \in Registers : rpc[c] = "update" =>
        /\ found[c] # {}
        /\ \A s \in found[c] : scope[s] /\ req[s] = req[c]

IInv == TypeOK /\ CreatedByWrite /\ FoundIsOwn /\ RegisteredByCaller

-----------------------------------------------------------------------------

LEMMA InitIInv == Init => IInv
<1> SUFFICES ASSUME Init PROVE IInv
  OBVIOUS
<1>1. TypeOK
  BY ScopesAssumption DEF Init, TypeOK, Requests, NoRequest
<1>2. CreatedByWrite /\ FoundIsOwn /\ RegisteredByCaller
  BY DEF Init, CreatedByWrite, FoundIsOwn, RegisteredByCaller
<1> QED BY <1>1, <1>2 DEF IInv

\* The budget of faults is kept by every step that spends from it.
LEMMA FaultStep ==
    ASSUME NEW o \in {"ok", "lost", "fail"}, faults \in 0..MaxFaults, MayFault(o), Fault(o)
    PROVE  faults' \in 0..MaxFaults
BY ScopesAssumption DEF MayFault, Fault, FaultCost

\* Every step keeps the types.
LEMMA TypeStep == TypeOK /\ [Next]_vars => TypeOK'
<1> SUFFICES ASSUME TypeOK, [Next]_vars PROVE TypeOK'
  OBVIOUS
<1> USE DEF TypeOK, Busy, RegisterDone, DeprecateDone, ReadOutcome, WriteOutcome
<1>1. ASSUME NEW c \in Registers, RegisterRefuse(c) PROVE TypeOK'
  BY <1>1 DEF RegisterRefuse, deprecating
<1>2. ASSUME NEW c \in Registers, RegisterList(c) PROVE TypeOK'
  <2>1. faults' \in 0..MaxFaults
    BY <1>2, FaultStep DEF RegisterList
  <2> QED BY <1>2, <2>1 DEF RegisterList, deprecating, ByName
<1>3. ASSUME NEW c \in Registers, RegisterUpdate(c) PROVE TypeOK'
  <2>1. faults' \in 0..MaxFaults
    BY <1>3, FaultStep DEF RegisterUpdate
  <2> QED BY <1>3, <2>1 DEF RegisterUpdate, deprecating, After
<1>4. ASSUME NEW c \in Registers, RegisterCreate(c) PROVE TypeOK'
  <2>1. faults' \in 0..MaxFaults
    BY <1>4, FaultStep DEF RegisterCreate
  <2> QED BY <1>4, <2>1 DEF RegisterCreate, deprecating, After, Applied
<1>5. ASSUME NEW d \in Deprecates, DeprecateGet(d) PROVE TypeOK'
  <2>1. faults' \in 0..MaxFaults
    BY <1>5, FaultStep DEF DeprecateGet
  <2> QED BY <1>5, <2>1 DEF DeprecateGet, registering
<1>6. ASSUME NEW d \in Deprecates, DeprecateWrite(d) PROVE TypeOK'
  <2>1. faults' \in 0..MaxFaults
    BY <1>6, FaultStep DEF DeprecateWrite
  <2> QED BY <1>6, <2>1 DEF DeprecateWrite, registering, After
<1>7. CASE Crash
  BY <1>7, ScopesAssumption DEF Crash
<1>8. CASE UNCHANGED vars
  BY <1>8 DEF vars, registering, deprecating
<1> QED BY <1>1, <1>2, <1>3, <1>4, <1>5, <1>6, <1>7, <1>8 DEF Next, Finished

\* Every step keeps the invariant.
LEMMA NextIInv == IInv /\ [Next]_vars => IInv'
<1> SUFFICES ASSUME IInv, [Next]_vars PROVE IInv'
  OBVIOUS
<1>0. TypeOK'
  BY TypeStep DEF IInv
<1> USE DEF IInv, CreatedByWrite, FoundIsOwn, RegisteredByCaller, Busy
<1>1. ASSUME NEW c \in Registers, RegisterRefuse(c) PROVE IInv'
  <2>1. \A d \in Registers \ {c} : req'[d] = req[d] /\ rpc'[d] = rpc[d]
    BY <1>1 DEF RegisterRefuse, TypeOK
  <2>2. ~scope[c] /\ rpc'[c] \in {"invalid", "reserved"}
    BY <1>1 DEF RegisterRefuse, TypeOK
  <2>3. UNCHANGED <<scope, found>>
    BY <1>1 DEF RegisterRefuse
  <2> QED BY <1>0, <2>1, <2>2, <2>3 DEF TypeOK
<1>2. ASSUME NEW c \in Registers, RegisterList(c) PROVE IInv'
  <2>1. UNCHANGED scope
    BY <1>2 DEF RegisterList
  <2>2. \A d \in Registers \ {c} : req'[d] = req[d] /\ rpc'[d] = rpc[d] /\ found'[d] = found[d]
    BY <1>2 DEF RegisterList, TypeOK
  <2>3. ~scope[c] /\ rpc'[c] \in {"unavailable", "create", "update", "collision"}
    BY <1>2 DEF RegisterList, TypeOK
  <2>4. ASSUME rpc'[c] = "update"
        PROVE  found'[c] # {} /\ \A s \in found'[c] : scope[s] /\ req[s] = req'[c] /\ s # c
    <3>1. PICK r \in Requests, o \in ReadOutcome :
            /\ req' = [req EXCEPT ![c] = r]
            /\ \/ rpc' = [rpc EXCEPT ![c] = "unavailable"]
               \/ rpc' = [rpc EXCEPT ![c] = "create"]
               \/ \E s \in ByName(r.name) :
                    /\ found' = [found EXCEPT ![c] = {s}]
                    /\ rpc' = [rpc EXCEPT ![c] = IF req[s].by = r.by THEN "update" ELSE "collision"]
      BY <1>2 DEF RegisterList
    <3>2. PICK s \in ByName(r.name) :
            /\ found' = [found EXCEPT ![c] = {s}]
            /\ rpc' = [rpc EXCEPT ![c] = IF req[s].by = r.by THEN "update" ELSE "collision"]
      BY <2>4, <3>1 DEF TypeOK
    <3>3. req[s].by = r.by
      BY <2>4, <3>2 DEF TypeOK
    <3>4. s \in Registers /\ scope[s] /\ req[s].name = r.name /\ req[s] \in Requests
      BY DEF ByName, TypeOK
    <3>5. req[s] = r
      BY <3>4, <3>3 DEF Requests
    <3>6. s # c
      BY <2>3, <3>4
    <3> QED BY <3>1, <3>2, <3>4, <3>5, <3>6 DEF TypeOK
  <2>5. found' \in [Registers -> SUBSET Registers]
    BY <1>0 DEF TypeOK
  <2>6. CreatedByWrite'
    BY <2>1, <2>2, <2>3
  <2>7. FoundIsOwn'
    <3> SUFFICES ASSUME NEW d \in Registers, rpc'[d] = "update"
                 PROVE  found'[d] # {} /\ \A s \in found'[d] : scope'[s] /\ req'[s] = req'[d]
      OBVIOUS
    <3>1. CASE d = c
      <4>1. \A s \in found'[c] : s \in Registers
        BY <2>5
      <4> QED BY <2>1, <2>2, <2>4, <3>1, <4>1
    <3>2. CASE d # c
      <4>1. found[d] # {} /\ \A s \in found[d] : s \in Registers /\ scope[s] /\ req[s] = req[d]
        BY <2>2, <3>2 DEF TypeOK
      <4>2. \A s \in found[d] : s # c
        BY <2>3, <4>1
      <4> QED BY <2>1, <2>2, <3>2, <4>1, <4>2
    <3> QED BY <3>1, <3>2
  <2>8. RegisteredByCaller'
    <3> SUFFICES ASSUME NEW d \in Registers, rpc'[d] = "ok"
                 PROVE  \E s \in Registers : scope'[s] /\ req'[s] = req'[d]
      OBVIOUS
    <3>1. d # c /\ rpc[d] = "ok"
      BY <2>2, <2>3
    <3>2. PICK s \in Registers : scope[s] /\ req[s] = req[d]
      BY <3>1
    <3> QED BY <2>1, <2>2, <2>3, <3>1, <3>2
  <2> QED BY <1>0, <2>6, <2>7, <2>8
<1>3. ASSUME NEW c \in Registers, RegisterUpdate(c) PROVE IInv'
  <2>1. rpc[c] = "update" /\ UNCHANGED <<scope, req, found>>
    BY <1>3 DEF RegisterUpdate
  <2>2. \A d \in Registers \ {c} : rpc'[d] = rpc[d]
    BY <1>3 DEF RegisterUpdate, TypeOK
  <2>3. rpc'[c] \in {"ok", "unavailable"}
    BY <1>3 DEF RegisterUpdate, TypeOK, After
  <2>4. \E s \in Registers : scope[s] /\ req[s] = req[c]
    BY <2>1 DEF TypeOK
  <2> QED BY <1>0, <2>1, <2>2, <2>3, <2>4 DEF TypeOK
<1>4. ASSUME NEW c \in Registers, RegisterCreate(c) PROVE IInv'
  <2>1. rpc[c] = "create" /\ UNCHANGED <<req, found>>
    BY <1>4 DEF RegisterCreate
  <2>2. \A d \in Registers \ {c} : rpc'[d] = rpc[d] /\ scope'[d] = scope[d]
    BY <1>4 DEF RegisterCreate, TypeOK
  <2>3. rpc'[c] \in {"ok", "unavailable"} /\ (rpc'[c] = "ok" => scope'[c])
    <3>1. PICK o \in WriteOutcome : /\ scope' = [scope EXCEPT ![c] = Applied(o)]
                                    /\ rpc' = [rpc EXCEPT ![c] = After(o)]
      BY <1>4 DEF RegisterCreate
    <3>2. rpc'[c] = After(o) /\ scope'[c] = Applied(o)
      BY <3>1 DEF TypeOK
    <3> QED BY <3>2 DEF After, Applied
  <2>4. ~scope[c]
    BY <2>1
  <2> QED BY <1>0, <2>1, <2>2, <2>3, <2>4 DEF TypeOK
<1>5. ASSUME UNCHANGED <<scope, rpc, req, found>> PROVE IInv'
  BY <1>0, <1>5
<1>6. CASE Crash
  BY <1>0, <1>6 DEF Crash, TypeOK
<1> QED BY <1>1, <1>2, <1>3, <1>4, <1>5, <1>6
        DEF Next, DeprecateGet, DeprecateWrite, Finished, vars, registering

\* Every reachable state of the registry is well typed.
THEOREM TypeCorrect == Spec => []TypeOK
<1>1. IInv => TypeOK
  BY DEF IInv
<1> QED BY InitIInv, NextIInv, <1>1, PTL DEF Spec

\* A service that was told its registration succeeded has a scope of its own.
THEOREM AcknowledgedIsOwn == Spec => []RegisteredByCaller
<1>1. IInv => RegisteredByCaller
  BY DEF IInv
<1> QED BY InitIInv, NextIInv, <1>1, PTL DEF Spec

-----------------------------------------------------------------------------
(* The refinement of UniqueNames *)

LEMMA InitRefines == Init => Registry!Init
BY DEF Init, Registry!Init, ByName, Contending

\* A step of the registry is a step of UniqueNames, or leaves it as it is.
LEMMA NextRefines == IInv /\ [Next]_vars => [Registry!Next]_(Registry!vars)
<1> SUFFICES ASSUME IInv, [Next]_vars PROVE [Registry!Next]_(Registry!vars)
  OBVIOUS
<1> DEFINE holders == [n \in Names |-> ByName(n)]
           contending == [n \in Names |-> Contending(n)]
<1>0. TypeOK /\ TypeOK' /\ CreatedByWrite
  BY NextIInv DEF IInv
\* A step that changes no scope, no name and nobody who is about to create.
<1>1. ASSUME UNCHANGED <<scope, rivals>>,
             \A c \in Registers : scope[c] => req'[c] = req[c],
             \A c \in Registers : rpc'[c] = "create" => rpc[c] = "create" /\ req'[c] = req[c]
      PROVE  [Registry!Next]_(Registry!vars)
  <2>1. \A n \in Names : ByName(n)' = ByName(n)
    BY <1>1 DEF ByName
  <2>2. \A n \in Names : Contending(n)' \subseteq Contending(n)
    BY <1>1 DEF Contending
  <2>3. \A n \in Names : Contending(n)' \subseteq Registers
    BY DEF Contending
  <2> QED BY <1>1, <2>1, <2>2, <2>3 DEF Registry!Next, Registry!GiveUp
<1>2. ASSUME NEW c \in Registers, RegisterRefuse(c) PROVE [Registry!Next]_(Registry!vars)
  <2>1. ~scope[c] /\ rpc'[c] # "create"
    BY <1>0, <1>2 DEF RegisterRefuse, TypeOK, CreatedByWrite
  <2>2. \A d \in Registers \ {c} : req'[d] = req[d] /\ rpc'[d] = rpc[d]
    BY <1>0, <1>2 DEF RegisterRefuse, TypeOK
  <2> QED BY <1>1, <1>2, <2>1, <2>2 DEF RegisterRefuse
<1>3. ASSUME NEW c \in Registers, RegisterList(c) PROVE [Registry!Next]_(Registry!vars)
  <2>1. ~scope[c] /\ rpc[c] = "idle" /\ UNCHANGED scope
    BY <1>0, <1>3 DEF RegisterList, TypeOK, CreatedByWrite
  <2>2. \A d \in Registers \ {c} : req'[d] = req[d] /\ rpc'[d] = rpc[d]
    BY <1>0, <1>3 DEF RegisterList, TypeOK
  <2>3. CASE rpc'[c] # "create"
    <3>1. UNCHANGED rivals
      BY <1>0, <1>3, <2>3 DEF RegisterList, TypeOK
    <3> QED BY <1>1, <2>1, <2>2, <2>3, <3>1
  <2>4. CASE rpc'[c] = "create"
    <3>1. PICK r \in Requests, o \in ReadOutcome :
            /\ r.name # Malformed
            /\ req' = [req EXCEPT ![c] = r]
            /\ \/ rpc' = [rpc EXCEPT ![c] = "unavailable"]
               \/ /\ ByName(r.name) = {}
                  /\ rivals' = [rivals EXCEPT ![c] =
                        {d \in Registers : rpc[d] = "create" /\ req[d].name = r.name}]
               \/ \E s \in ByName(r.name) :
                    rpc' = [rpc EXCEPT ![c] = IF req[s].by = r.by THEN "update" ELSE "collision"]
      BY <1>3 DEF RegisterList
    <3>2. /\ ByName(r.name) = {}
          /\ rivals' = [rivals EXCEPT ![c] = Contending(r.name)]
      BY <1>0, <2>4, <3>1 DEF TypeOK, Contending
    <3>3. r.name \in Names /\ req'[c] = r
      BY <1>0, <3>1 DEF TypeOK, Requests
    <3>4. holders' = holders
      BY <1>0, <2>1, <2>2 DEF ByName
    <3>5. contending' = [contending EXCEPT ![r.name] = @ \union {c}]
      <4>1. Contending(r.name)' = Contending(r.name) \union {c}
        BY <2>2, <2>4, <3>3 DEF Contending
      <4>2. \A n \in Names \ {r.name} : Contending(n)' = Contending(n)
        BY <2>1, <2>2, <3>3 DEF Contending
      <4> QED BY <3>3, <4>1, <4>2
    <3>6. \A n \in Names : c \notin ByName(n) \union Contending(n)
      BY <2>1 DEF ByName, Contending
    <3>7. c \in Contending(r.name)'
      BY <2>4, <3>3 DEF Contending
    <3> QED BY <3>2, <3>3, <3>4, <3>5, <3>6, <3>7
            DEF Registry!Next, Registry!Look, Registry!Active
  <2> QED BY <2>3, <2>4
<1>4. ASSUME NEW c \in Registers, RegisterUpdate(c) PROVE [Registry!Next]_(Registry!vars)
  <2>1. \A d \in Registers : rpc'[d] = "create" => rpc[d] = "create"
    BY <1>0, <1>4 DEF RegisterUpdate, After, TypeOK
  <2> QED BY <1>1, <1>4, <2>1 DEF RegisterUpdate
<1>5. ASSUME NEW c \in Registers, RegisterCreate(c) PROVE [Registry!Next]_(Registry!vars)
  <2>1. rpc[c] = "create" /\ ~scope[c] /\ rpc'[c] # "create" /\ UNCHANGED <<req, rivals>>
    BY <1>0, <1>5 DEF RegisterCreate, After, TypeOK, CreatedByWrite
  <2>2. \A d \in Registers \ {c} : rpc'[d] = rpc[d] /\ scope'[d] = scope[d]
    BY <1>0, <1>5 DEF RegisterCreate, TypeOK
  <2>3. CASE ~scope'[c]
    <3>1. scope[c] \in BOOLEAN /\ scope'[c] \in BOOLEAN
      BY <1>0 DEF TypeOK
    <3>2. scope'[c] = scope[c]
      BY <2>1, <2>3, <3>1
    <3>3. \A d \in Registers : scope'[d] = scope[d]
      BY <2>2, <3>2
    <3>4. scope' = scope
      BY <1>0, <3>3 DEF TypeOK
    <3> QED BY <1>1, <2>1, <2>2, <3>4
  <2>4. CASE scope'[c]
    <3> DEFINE n0 == req[c].name
    <3>1. CASE n0 \notin Names
      <4>1. holders' = holders
        BY <2>1, <2>2, <3>1 DEF ByName
      <4>2. contending' = contending
        BY <2>1, <2>2, <3>1 DEF Contending
      <4> QED BY <2>1, <4>1, <4>2 DEF Registry!vars
    <3>2. CASE n0 \in Names
      <4>1. ByName(n0)' = ByName(n0) \union {c} /\ Contending(n0)' = Contending(n0) \ {c}
        BY <2>1, <2>2, <2>4 DEF ByName, Contending
      <4>2. \A n \in Names \ {n0} : ByName(n)' = ByName(n) /\ Contending(n)' = Contending(n)
        BY <2>1, <2>2 DEF ByName, Contending
      <4>3. c \in Contending(n0)
        BY <2>1 DEF Contending
      <4> QED BY <2>1, <3>2, <4>1, <4>2, <4>3 DEF Registry!Next, Registry!Take
    <3> QED BY <3>1, <3>2
  <2> QED BY <2>3, <2>4
<1>6. ASSUME UNCHANGED <<scope, rpc, req, rivals>> PROVE [Registry!Next]_(Registry!vars)
  BY <1>1, <1>6
<1>7. CASE Crash
  <2>1. \A c \in Registers : rpc'[c] = "create" => rpc[c] = "create"
    BY <1>7 DEF Crash, Busy
  <2> QED BY <1>1, <1>7, <2>1 DEF Crash
<1> QED BY <1>2, <1>3, <1>4, <1>5, <1>6, <1>7
        DEF Next, DeprecateGet, DeprecateWrite, Finished, vars, registering

\* The registry of scopes implements UniqueNames.
THEOREM RegistryRefines == Spec => ImplementsUniqueNames
<1>1. []IInv /\ [][Next]_vars => [][Registry!Next]_(Registry!vars)
  BY NextRefines, PTL
<1> QED BY InitIInv, NextIInv, InitRefines, <1>1, PTL DEF Spec, ImplementsUniqueNames, Registry!Spec

\* The theorems of UniqueNames, about the registry.
Abstract == INSTANCE UniqueNamesProofs WITH
    Claims     <- Registers,
    holders    <- [n \in Names |-> ByName(n)],
    contending <- [n \in Names |-> Contending(n)]

\* Hence two scopes have one name only if one of the calls that created them had looked,
\* and not yet created its scope, when the other looked.
THEOREM DuplicatesRaced == Spec => []DuplicateScopeOnlyFromRace
<1>1. Registry!Init => Abstract!Init
  BY DEF Registry!Init, Abstract!Init
<1>2. [Registry!Next]_(Registry!vars) => [Abstract!Next]_(Abstract!vars)
  BY DEF Registry!Next, Registry!GiveUp, Registry!Look, Registry!Take, Registry!Release,
         Registry!Active, Registry!vars, Abstract!Next, Abstract!GiveUp, Abstract!Look,
         Abstract!Take, Abstract!Release, Abstract!Active, Abstract!vars
<1>3. Abstract!UniqueUpToRace => DuplicateScopeOnlyFromRace
  BY DEF Abstract!UniqueUpToRace, Registry!UniqueUpToRace, DuplicateScopeOnlyFromRace
<1> QED BY <1>1, <1>2, <1>3, RegistryRefines, Abstract!UniqueUnlessRaced, PTL
        DEF ImplementsUniqueNames, Registry!Spec, Abstract!Spec

=============================================================================
