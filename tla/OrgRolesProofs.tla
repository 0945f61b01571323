----------------------------- MODULE OrgRolesProofs -----------------------------
(* Theorems about OrgRoles, for any calls, names of roles and number of faults. *)
EXTENDS OrgRoles, TLAPS

Names == BuiltinNames \union CustomNames

\* The loop of seedBuiltinRoles is at one of its names until it is over.
SeedIndex ==
    \A i \in Inits :
        /\ ipc[i] \in {"idle"} \union InitBusy => next[i] \in 1..Len(Builtins)
        /\ ipc[i] = "ok" => next[i] = Len(Builtins) + 1

\* A role of CreateRole is in the store only once its call has written it, under the
\* name the call had looked for.
CreatedLast ==
    \A r \in Creates :
        /\ role[r] # "none" => cpc[r] \notin {"idle", "create"}
        /\ cpc[r] # "idle" => name[r] \in Names

\* UpdateRole and DeleteRole write only to what GetEntity had found, and that was no
\* built-in role.
OrdersTested ==
    \A m \in Admins : (mpc[m] = "write" /\ order[m].op \in RoleOps) =>
        /\ order[m].id \notin SeededRoles
        /\ order[m].id \in Creates => role[order[m].id] # "none"

\* DeleteRole has deleted no role that seeding created, and UpdateRole written to none.
SeededIntact ==
    \A id \in SeededRoles : role[id] # "deleted" /\ ~patched[id]

\* A name has its role: a seeded one, or one that a CreateRole call had put in its place.
Present(n) ==
    \/ \E j \in Inits : role[<<j, n>>] = "live"
    \/ \E r \in Creates : role[r] # "none" /\ name[r] = n

\* The names the loop has passed have their roles.
SeededSoFar ==
    \A i \in Inits : \A k \in 1..Len(Builtins) : k < next[i] => Present(Builtins[k])

IInv ==
    /\ TypeOK /\ SeedIndex /\ CreatedLast /\ OrdersTested
    /\ SeededIntact /\ SeededSoFar

-----------------------------------------------------------------------------

\* The names of the roles that seeding creates are the built-in ones.
LEMMA SeededNames ==
    /\ \A k \in 1..Len(Builtins) : Builtins[k] \in BuiltinNames
    /\ \A i \in Inits, n \in BuiltinNames :
         /\ <<i, n>> \in SeededRoles /\ <<i, n>> \in RoleIds /\ <<i, n>> \notin Creates
         /\ NameOf(<<i, n>>) = n
    /\ \A r \in Creates : r \in RoleIds /\ r \notin SeededRoles /\ NameOf(r) = name[r]
    /\ \A id \in SeededRoles :
         /\ id[1] \in Inits /\ id[2] \in BuiltinNames /\ id = <<id[1], id[2]>>
         /\ id \in RoleIds /\ id \notin Creates /\ NameOf(id) = id[2]
BY OrgRolesAssumption DEF BuiltinNames, SeededRoles, RoleIds, NameOf

LEMMA InitIInv == Init => IInv
<1> SUFFICES ASSUME Init PROVE IInv
  OBVIOUS
<1>1. TypeOK
  BY OrgRolesAssumption DEF Init, TypeOK, Lifecycle
<1>2. SeedIndex /\ SeededSoFar
  BY OrgRolesAssumption DEF Init, SeedIndex, SeededSoFar
<1>3. CreatedLast /\ OrdersTested
  BY SeededNames DEF Init, CreatedLast, OrdersTested
<1>4. SeededIntact
  BY SeededNames DEF Init, SeededIntact, Targets, RoleIds
<1> QED BY <1>1, <1>2, <1>3, <1>4 DEF IInv

\* The budget of faults is kept by every step that spends from it.
LEMMA FaultStep ==
    ASSUME NEW o \in {"ok", "lost", "fail"}, faults \in 0..MaxFaults, MayFault(o), Fault(o)
    PROVE  faults' \in 0..MaxFaults
BY OrgRolesAssumption DEF MayFault, Fault, FaultCost

\* One step of the loop.
LEMMA OnwardStep ==
    ASSUME TypeOK, NEW i \in Inits, next[i] \in 1..Len(Builtins), Onward(i)
    PROVE  /\ next' = [next EXCEPT ![i] = next[i] + 1]
           /\ ipc' = [ipc EXCEPT ![i] = ipc'[i]]
           /\ next' \in [Inits -> 1..Len(Builtins) + 1]
           /\ \/ ipc'[i] = "ok" /\ next'[i] = Len(Builtins) + 1
              \/ ipc'[i] = "seedList" /\ next'[i] \in 1..Len(Builtins)
BY OrgRolesAssumption DEF Onward, TypeOK

\* A call of InitOrganization.
LEMMA InitTypes ==
    ASSUME TypeOK, SeedIndex, NEW i \in Inits, InitList(i) \/ InitStep(i)
    PROVE  TypeOK'
<1> USE DEF TypeOK, ReadOutcome, WriteOutcome, store, init, create, admin
<1>1. CASE InitList(i)
  <2>1. faults' \in 0..MaxFaults
    BY <1>1, FaultStep DEF InitList
  <2>2. ipc' \in [Inits -> {"idle"} \union InitBusy \union InitDone]
    BY <1>1 DEF InitList, InitBusy, InitDone
  <2>3. {j \in Inits : ipc[j] = "createOrg"} \in SUBSET Inits
    OBVIOUS
  <2>4. orgRivals' \in [Inits -> SUBSET Inits]
    BY <1>1, <2>3 DEF InitList
  <2> QED BY <1>1, <2>1, <2>2, <2>4 DEF InitList
<1>2. CASE InitCreateOrg(i)
  <2>1. faults' \in 0..MaxFaults
    BY <1>2, FaultStep DEF InitCreateOrg
  <2> QED BY <1>2, <2>1 DEF InitCreateOrg, InitBusy, InitDone, Lifecycle
<1>3. CASE SeedList(i)
  <2>1. faults' \in 0..MaxFaults
    BY <1>3, FaultStep DEF SeedList
  <2>2. next[i] \in 1..Len(Builtins)
    BY <1>3 DEF SeedList, SeedIndex, InitBusy
  <2>3. Contending(Builtins[next[i]]) \in SUBSET RoleIds
    BY DEF Contending, RoleIds
  <2>4. /\ ipc' \in [Inits -> {"idle"} \union InitBusy \union InitDone]
        /\ next' \in [Inits -> 1..Len(Builtins) + 1]
    <3>1. CASE Onward(i)
      BY <2>2, <3>1, OnwardStep DEF InitBusy, InitDone
    <3>2. CASE ~Onward(i)
      BY <1>3, <3>2 DEF SeedList, InitBusy, InitDone
    <3> QED BY <3>1, <3>2
  <2>5. roleRivals' \in [RoleIds -> SUBSET RoleIds]
    BY <1>3, <2>3 DEF SeedList
  <2> QED BY <1>3, <2>1, <2>4, <2>5 DEF SeedList
<1>4. CASE SeedCreate(i)
  <2>1. faults' \in 0..MaxFaults
    BY <1>4, FaultStep DEF SeedCreate
  <2>2. next[i] \in 1..Len(Builtins)
    BY <1>4 DEF SeedCreate, SeedIndex, InitBusy
  <2>3. /\ ipc' \in [Inits -> {"idle"} \union InitBusy \union InitDone]
        /\ next' \in [Inits -> 1..Len(Builtins) + 1]
    <3>1. CASE Onward(i)
      BY <2>2, <3>1, OnwardStep DEF InitBusy, InitDone
    <3>2. CASE ~Onward(i)
      BY <1>4, <3>2 DEF SeedCreate, InitBusy, InitDone
    <3> QED BY <3>1, <3>2
  <2>4. role' \in [RoleIds -> Lifecycle]
    BY <1>4 DEF SeedCreate, Lifecycle
  <2> QED BY <1>4, <2>1, <2>3, <2>4 DEF SeedCreate
<1> QED BY <1>1, <1>2, <1>3, <1>4 DEF InitStep

\* An administrative call.
LEMMA AdminTypes ==
    ASSUME TypeOK, NEW m \in Admins, EditGet(m) \/ EditWrite(m) \/ OrgGet(m) \/ OrgWrite(m)
    PROVE  TypeOK'
<1> USE DEF TypeOK, ReadOutcome, WriteOutcome, store, init, create, admin
<1>1. CASE EditGet(m)
  <2>1. faults' \in 0..MaxFaults
    BY <1>1, FaultStep DEF EditGet
  <2>2. \A op \in RoleOps, id \in Targets : [op |-> op, id |-> id] \in Orders
    BY DEF Orders
  <2> QED BY <1>1, <2>1, <2>2 DEF EditGet, AdminDone
<1>2. CASE EditWrite(m)
  <2>1. faults' \in 0..MaxFaults
    BY <1>2, FaultStep DEF EditWrite
  <2> QED BY <1>2, <2>1 DEF EditWrite, AdminDone, Lifecycle
<1>3. CASE OrgGet(m)
  <2>1. faults' \in 0..MaxFaults
    BY <1>3, FaultStep DEF OrgGet
  <2>2. \A op \in OrgOps, i \in LiveOrgs : [op |-> op, id |-> i] \in Orders
    BY DEF Orders, LiveOrgs
  <2>3. order' \in [Admins -> Orders \union {NoOrder}]
    BY <1>3, <2>2 DEF OrgGet
  <2> QED BY <1>3, <2>1, <2>3 DEF OrgGet, AdminDone
<1>4. CASE OrgWrite(m)
  <2>1. faults' \in 0..MaxFaults
    BY <1>4, FaultStep DEF OrgWrite
  <2> QED BY <1>4, <2>1 DEF OrgWrite, AdminDone, Lifecycle
<1> QED BY <1>1, <1>2, <1>3, <1>4

\* Every step keeps the types.
LEMMA TypeStep == TypeOK /\ SeedIndex /\ [Next]_vars => TypeOK'
<1> SUFFICES ASSUME TypeOK, SeedIndex, [Next]_vars PROVE TypeOK'
  OBVIOUS
<1>1. ASSUME NEW i \in Inits, InitList(i) \/ InitStep(i) PROVE TypeOK'
  BY <1>1, InitTypes
<1>2. ASSUME NEW m \in Admins, EditGet(m) \/ EditWrite(m) \/ OrgGet(m) \/ OrgWrite(m)
      PROVE  TypeOK'
  BY <1>2, AdminTypes
<1> USE DEF TypeOK, ReadOutcome, WriteOutcome, store, init, create, admin
<1>3. ASSUME NEW r \in Creates, CreateList(r) PROVE TypeOK'
  <2>1. faults' \in 0..MaxFaults
    BY <1>3, FaultStep DEF CreateList
  <2>2. r \in RoleIds /\ \A n : Contending(n) \in SUBSET RoleIds
    BY DEF Contending, RoleIds
  <2>3. roleRivals' \in [RoleIds -> SUBSET RoleIds]
    BY <1>3, <2>2 DEF CreateList
  <2> QED BY <1>3, <2>1, <2>3 DEF CreateList, CreateDone
<1>4. ASSUME NEW r \in Creates, CreateWrite(r) PROVE TypeOK'
  <2>1. faults' \in 0..MaxFaults
    BY <1>4, FaultStep DEF CreateWrite
  <2> QED BY <1>4, <2>1 DEF CreateWrite, CreateDone, Lifecycle
<1>5. CASE Crash
  BY <1>5, OrgRolesAssumption DEF Crash, InitDone, CreateDone, AdminDone
<1>6. CASE UNCHANGED vars
  BY <1>6 DEF vars
<1> QED BY <1>1, <1>2, <1>3, <1>4, <1>5, <1>6 DEF Next, Finished

\* What a step does to the roles: seeding creates built-in ones and nothing else touches
\* them; a role of CreateRole keeps its name, and its place once it has been created.
LEMMA RoleStep ==
    ASSUME IInv, [Next]_vars
    PROVE  /\ \A id \in SeededRoles : role'[id] \in {role[id], "live"} /\ ~patched'[id]
           /\ \A r \in Creates : role[r] # "none" => role'[r] # "none" /\ name'[r] = name[r]
<1>0. TypeOK /\ CreatedLast /\ OrdersTested /\ SeededIntact
  BY DEF IInv
<1>1. ASSUME UNCHANGED <<role, patched, name>>
      PROVE  /\ \A id \in SeededRoles : role'[id] \in {role[id], "live"} /\ ~patched'[id]
             /\ \A r \in Creates : role[r] # "none" => role'[r] # "none" /\ name'[r] = name[r]
  BY <1>0, <1>1 DEF SeededIntact
<1>2. ASSUME NEW i \in Inits, SeedCreate(i)
      PROVE  /\ \A id \in SeededRoles : role'[id] \in {role[id], "live"} /\ ~patched'[id]
             /\ \A r \in Creates : role[r] # "none" => role'[r] # "none" /\ name'[r] = name[r]
  <2>1. UNCHANGED <<patched, name>>
    BY <1>2 DEF SeedCreate, create
  <2>2. \A id \in RoleIds : role'[id] \in {role[id], "live"}
    BY <1>0, <1>2 DEF SeedCreate, TypeOK
  <2> QED BY <1>0, <2>1, <2>2, SeededNames DEF SeededIntact
<1>3. ASSUME NEW c \in Creates, CreateList(c) \/ CreateWrite(c)
      PROVE  /\ \A id \in SeededRoles : role'[id] \in {role[id], "live"} /\ ~patched'[id]
             /\ \A r \in Creates : role[r] # "none" => role'[r] # "none" /\ name'[r] = name[r]
  <2>1. UNCHANGED patched /\ role[c] = "none"
    BY <1>0, <1>3 DEF CreateList, CreateWrite, store, CreatedLast
  <2>2. /\ \A id \in RoleIds : id # c => role'[id] = role[id]
        /\ \A r \in Creates : r # c => name'[r] = name[r]
    BY <1>0, <1>3 DEF CreateList, CreateWrite, store, TypeOK
  <2> QED BY <1>0, <2>1, <2>2, SeededNames DEF SeededIntact
<1>4. ASSUME NEW m \in Admins, EditWrite(m)
      PROVE  /\ \A id \in SeededRoles : role'[id] \in {role[id], "live"} /\ ~patched'[id]
             /\ \A r \in Creates : role[r] # "none" => role'[r] # "none" /\ name'[r] = name[r]
  <2>1. order[m].id \notin SeededRoles /\ UNCHANGED name
    BY <1>0, <1>4 DEF EditWrite, OrdersTested, create
  <2>2. /\ \A id \in Targets : id # order[m].id => patched'[id] = patched[id]
        /\ \A id \in RoleIds : role'[id] = role[id] \/ (id = order[m].id /\ role'[id] = "deleted")
    BY <1>0, <1>4 DEF EditWrite, TypeOK
  <2>3. \A id \in SeededRoles : id \in Targets /\ id # order[m].id
    BY <2>1, SeededNames DEF Targets
  <2> QED BY <1>0, <2>1, <2>2, <2>3, SeededNames DEF SeededIntact
<1> QED BY <1>1, <1>2, <1>3, <1>4
        DEF Next, InitStep, InitList, InitCreateOrg, SeedList, EditGet, OrgGet, OrgWrite, Crash,
            Finished, vars, store, create

\* A built-in name that has its role keeps one, whatever step is taken.
LEMMA PresentStep ==
    ASSUME IInv, [Next]_vars, NEW n \in BuiltinNames, Present(n)
    PROVE  Present(n)'
<1>1. CASE \E j \in Inits : role[<<j, n>>] = "live"
  <2>1. PICK j \in Inits : role[<<j, n>>] = "live"
    BY <1>1
  <2>2. role'[<<j, n>>] = "live"
    BY <2>1, SeededNames, RoleStep
  <2> QED BY <2>2 DEF Present
<1>2. CASE \E r \in Creates : role[r] # "none" /\ name[r] = n
  BY <1>2, RoleStep DEF Present
<1> QED BY <1>1, <1>2 DEF Present

\* Whatever takes the loop one name on leaves that name with a role.
LEMMA SeededStep ==
    ASSUME IInv, [Next]_vars,
           \A i \in Inits : next'[i] # next[i] =>
             /\ next[i] \in 1..Len(Builtins) /\ next'[i] = next[i] + 1
             /\ \A k \in 1..Len(Builtins) : k = next[i] => Present(Builtins[k])'
    PROVE  SeededSoFar'
<1> SUFFICES ASSUME NEW i \in Inits, NEW k \in 1..Len(Builtins), k < next'[i]
             PROVE  Present(Builtins[k])'
  BY DEF SeededSoFar
<1>1. CASE k < next[i]
  <2>1. Present(Builtins[k])
    BY <1>1 DEF IInv, SeededSoFar
  <2> QED BY <2>1, SeededNames, PresentStep
<1>2. CASE ~(k < next[i])
  <2>1. next[i] \in Nat
    BY OrgRolesAssumption DEF IInv, TypeOK
  <2>2. next'[i] # next[i]
    BY <1>2
  <2>3. k = next[i]
    BY <1>2, <2>1, <2>2, OrgRolesAssumption
  <2> QED BY <2>2, <2>3
<1> QED BY <1>1, <1>2

\* Every step keeps the invariant.
LEMMA NextIInv == IInv /\ [Next]_vars => IInv'
<1> SUFFICES ASSUME IInv, [Next]_vars PROVE IInv'
  OBVIOUS
<1>0. /\ TypeOK /\ SeedIndex /\ CreatedLast /\ OrdersTested /\ SeededIntact /\ SeededSoFar
      /\ TypeOK'
  BY TypeStep DEF IInv
<1>a. SeededIntact'
  BY <1>0, RoleStep DEF SeededIntact
\* What CreateRole has created is there for an order that was tested.
<1>b. ASSUME UNCHANGED admin PROVE OrdersTested'
  BY <1>0, <1>b, RoleStep DEF OrdersTested, admin
<1>c. ASSUME UNCHANGED create, \A r \in Creates : role[r] = "none" => role'[r] = "none"
      PROVE  CreatedLast'
  BY <1>0, <1>c DEF CreatedLast, create
<1>1. ASSUME NEW i \in Inits, InitList(i) \/ InitCreateOrg(i) PROVE IInv'
  <2>1. UNCHANGED <<role, next, create, admin>> /\ ipc[i] \in {"idle", "createOrg"}
    BY <1>1 DEF InitList, InitCreateOrg, store
  <2>2. /\ ipc'[i] \in {"unavailable", "exists", "createOrg", "seedList"}
        /\ \A j \in Inits : j # i => ipc'[j] = ipc[j]
    BY <1>0, <1>1 DEF InitList, InitCreateOrg, TypeOK
  <2>3. SeedIndex'
    BY <1>0, <2>1, <2>2 DEF SeedIndex, InitBusy
  <2>4. SeededSoFar'
    BY <2>1, SeededStep
  <2>5. OrdersTested' /\ CreatedLast'
    BY <1>b, <1>c, <2>1
  <2> QED BY <1>0, <1>a, <2>3, <2>4, <2>5 DEF IInv
<1>2. ASSUME NEW i \in Inits, SeedList(i) PROVE IInv'
  <2>1. UNCHANGED <<role, create, admin>> /\ ipc[i] = "seedList"
    BY <1>2 DEF SeedList, store
  <2>2. next[i] \in 1..Len(Builtins)
    BY <1>0, <2>1 DEF SeedIndex, InitBusy
  <2>3. \/ /\ UNCHANGED next /\ ipc' = [ipc EXCEPT ![i] = ipc'[i]]
           /\ ipc'[i] \in {"unavailable", "seedCreate"}
        \/ Onward(i) /\ LiveRoles(Builtins[next[i]]) # {}
    BY <1>0, <1>2 DEF SeedList, TypeOK
  <2>4. CASE Onward(i) /\ LiveRoles(Builtins[next[i]]) # {}
    <3>1. /\ next' = [next EXCEPT ![i] = next[i] + 1] /\ ipc' = [ipc EXCEPT ![i] = ipc'[i]]
          /\ \/ ipc'[i] = "ok" /\ next'[i] = Len(Builtins) + 1
             \/ ipc'[i] = "seedList" /\ next'[i] \in 1..Len(Builtins)
      BY <1>0, <2>2, <2>4, OnwardStep
    <3>2. SeedIndex'
      BY <1>0, <3>1 DEF SeedIndex, TypeOK, InitBusy
    <3>3. Present(Builtins[next[i]])
      <4> DEFINE n == Builtins[next[i]]
      <4>1. PICK id : id \in RoleIds /\ role[id] = "live" /\ NameOf(id) = n
        BY <2>4 DEF LiveRoles
      <4>2. CASE id \in Creates
        BY <4>1, <4>2, SeededNames DEF Present
      <4>3. CASE id \in SeededRoles
        <5>1. id[1] \in Inits /\ id = <<id[1], n>>
          BY <4>1, <4>3, SeededNames
        <5> QED BY <4>1, <5>1 DEF Present
      <4> QED BY <4>1, <4>2, <4>3 DEF RoleIds
    <3>4. \A k \in 1..Len(Builtins) : k = next[i] => Present(Builtins[k])'
      BY <3>3, SeededNames, PresentStep
    <3>5. SeededSoFar'
      <4>1. \A j \in Inits : j # i => next'[j] = next[j]
        BY <1>0, <3>1 DEF TypeOK
      <4>2. next'[i] = next[i] + 1
        BY <1>0, <3>1 DEF TypeOK
      <4> QED BY <2>2, <3>4, <4>1, <4>2, SeededStep
    <3> QED BY <1>0, <1>a, <1>b, <1>c, <2>1, <3>2, <3>5 DEF IInv
  <2>5. CASE UNCHANGED next /\ ipc' = [ipc EXCEPT ![i] = ipc'[i]]
             /\ ipc'[i] \in {"unavailable", "seedCreate"}
    <3>1. SeedIndex'
      BY <1>0, <2>2, <2>5 DEF SeedIndex, TypeOK, InitBusy
    <3>2. SeededSoFar'
      BY <2>5, SeededStep
    <3> QED BY <1>0, <1>a, <1>b, <1>c, <2>1, <3>1, <3>2 DEF IInv
  <2> QED BY <2>3, <2>4, <2>5
<1>3. ASSUME NEW i \in Inits, SeedCreate(i) PROVE IInv'
  <2>1. UNCHANGED <<create, admin>> /\ ipc[i] = "seedCreate"
    BY <1>3 DEF SeedCreate
  <2>2. next[i] \in 1..Len(Builtins)
    BY <1>0, <2>1 DEF SeedIndex, InitBusy
  <2> DEFINE id == <<i, Builtins[next[i]]>>
  <2>3. id \in SeededRoles /\ id \in RoleIds /\ id \notin Creates
    BY <2>2, SeededNames
  <2>4. /\ \/ UNCHANGED next /\ ipc' = [ipc EXCEPT ![i] = "unavailable"]
           \/ Onward(i) /\ role' = [role EXCEPT ![id] = "live"]
        /\ \A d \in RoleIds : d # id => role'[d] = role[d]
    BY <1>0, <1>3 DEF SeedCreate, Applied, TypeOK
  <2>5. CreatedLast' /\ OrdersTested'
    BY <1>b, <1>c, <2>1, <2>3, <2>4, SeededNames
  <2>6. CASE UNCHANGED next /\ ipc' = [ipc EXCEPT ![i] = "unavailable"]
    <3>1. SeedIndex'
      BY <1>0, <2>6 DEF SeedIndex, TypeOK, InitBusy
    <3>2. SeededSoFar'
      BY <2>6, SeededStep
    <3> QED BY <1>0, <1>a, <2>5, <3>1, <3>2 DEF IInv
  <2>7. CASE Onward(i) /\ role' = [role EXCEPT ![id] = "live"]
    <3>1. /\ next' = [next EXCEPT ![i] = next[i] + 1] /\ ipc' = [ipc EXCEPT ![i] = ipc'[i]]
          /\ \/ ipc'[i] = "ok" /\ next'[i] = Len(Builtins) + 1
             \/ ipc'[i] = "seedList" /\ next'[i] \in 1..Len(Builtins)
      BY <1>0, <2>2, <2>7, OnwardStep
    <3>2. SeedIndex'
      BY <1>0, <3>1 DEF SeedIndex, TypeOK, InitBusy
    <3>3. role'[id] = "live"
      BY <1>0, <2>3, <2>7 DEF TypeOK
    <3>4. \A k \in 1..Len(Builtins) : k = next[i] => Present(Builtins[k])'
      BY <3>3 DEF Present
    <3>5. SeededSoFar'
      <4>1. \A j \in Inits : j # i => next'[j] = next[j]
        BY <1>0, <3>1 DEF TypeOK
      <4>2. next'[i] = next[i] + 1
        BY <1>0, <3>1 DEF TypeOK
      <4> QED BY <2>2, <3>4, <4>1, <4>2, SeededStep
    <3> QED BY <1>0, <1>a, <2>5, <3>2, <3>5 DEF IInv
  <2> QED BY <2>4, <2>6, <2>7
<1>4. ASSUME NEW r \in Creates, CreateList(r) \/ CreateWrite(r) PROVE IInv'
  <2>1. UNCHANGED <<init, admin>>
    BY <1>4 DEF CreateList, CreateWrite
  <2>2. /\ \A c \in Creates : c # r =>
             role'[c] = role[c] /\ cpc'[c] = cpc[c] /\ name'[c] = name[c]
        /\ cpc'[r] \in {"unavailable", "exists", "create", "ok"}
    BY <1>0, <1>4, SeededNames DEF CreateList, CreateWrite, TypeOK, store
  <2>3. name'[r] \in Names
    BY <1>0, <1>4 DEF CreateList, CreateWrite, TypeOK, Names, CreatedLast
  <2>4. cpc'[r] = "create" => role'[r] = "none"
    <3>1. CASE CreateList(r)
      BY <1>0, <3>1 DEF CreateList, CreatedLast, store
    <3>2. CASE CreateWrite(r)
      BY <1>0, <3>2 DEF CreateWrite, TypeOK
    <3> QED BY <1>4, <3>1, <3>2
  <2>5. CreatedLast'
    BY <1>0, <2>2, <2>3, <2>4 DEF CreatedLast
  <2>6. SeedIndex' /\ SeededSoFar'
    BY <1>0, <2>1, SeededStep DEF SeedIndex, init
  <2> QED BY <1>0, <1>a, <1>b, <2>1, <2>5, <2>6 DEF IInv
<1>5. ASSUME NEW m \in Admins, EditGet(m) \/ EditWrite(m) \/ OrgGet(m) \/ OrgWrite(m) PROVE IInv'
  <2>1. UNCHANGED <<init, create>>
    BY <1>5 DEF EditGet, EditWrite, OrgGet, OrgWrite
  <2>2. SeedIndex' /\ SeededSoFar'
    BY <1>0, <2>1, SeededStep DEF SeedIndex, init
  <2>3. \A k \in Admins : k # m => mpc'[k] = mpc[k] /\ order'[k] = order[k]
    BY <1>0, <1>5 DEF EditGet, EditWrite, OrgGet, OrgWrite, TypeOK
  <2>4. (mpc'[m] = "write" /\ order'[m].op \in RoleOps) =>
          /\ order'[m].id \notin SeededRoles
          /\ order'[m].id \in Creates => role'[order'[m].id] # "none"
    <3>1. CASE EditGet(m)
      <4>1. PICK op, id, o :
              /\ id \in Targets
              /\ order' = [order EXCEPT ![m] = [op |-> op, id |-> id]]
              /\ mpc' = [mpc EXCEPT ![m] = IF o = "fail" \/ EntityOf(id) # "live" THEN "notFound"
                                           ELSE IF IsBuiltin(id) THEN "builtin"
                                           ELSE "write"]
        BY <3>1 DEF EditGet
      <4>2. order'[m].id = id
        BY <1>0, <4>1 DEF TypeOK
      <4>3. mpc'[m] = "write" => EntityOf(id) = "live" /\ ~IsBuiltin(id)
        BY <1>0, <4>1 DEF TypeOK
      <4>4. id \in Creates => EntityOf(id) = role[id]
        BY OrgRolesAssumption DEF EntityOf
      <4> QED BY <3>1, <4>2, <4>3, <4>4 DEF EditGet, IsBuiltin, store
    <3>2. CASE EditWrite(m)
      BY <1>0, <3>2 DEF EditWrite, TypeOK
    <3>3. CASE OrgGet(m)
      <4>1. mpc'[m] = "write" =>
              \E op \in OrgOps, j \in LiveOrgs : order' = [order EXCEPT ![m] = [op |-> op, id |-> j]]
        BY <1>0, <3>3 DEF OrgGet, TypeOK
      <4>2. mpc'[m] = "write" => order'[m].op \in OrgOps
        BY <1>0, <4>1 DEF TypeOK
      <4> QED BY <4>2 DEF OrgOps, RoleOps
    <3>4. CASE OrgWrite(m)
      BY <1>0, <3>4 DEF OrgWrite, TypeOK
    <3> QED BY <1>5, <3>1, <3>2, <3>3, <3>4
  <2>5. OrdersTested'
    BY <1>0, <2>3, <2>4, RoleStep DEF OrdersTested
  <2>6. \A r \in Creates : role[r] = "none" => role'[r] = "none"
    <3>1. CASE EditWrite(m)
      <4>1. order[m].id \in Creates => role[order[m].id] # "none"
        BY <1>0, <3>1 DEF EditWrite, OrdersTested
      <4> QED BY <1>0, <3>1, <4>1, SeededNames DEF EditWrite, TypeOK
    <3> QED BY <1>5, <3>1 DEF EditGet, OrgGet, OrgWrite, store
  <2> QED BY <1>0, <1>a, <1>c, <2>1, <2>2, <2>5, <2>6 DEF IInv
<1>6. CASE Crash
  <2>1. /\ UNCHANGED <<store, next, name, order>>
        /\ \A i \in Inits : ipc'[i] = ipc[i] \/ ipc'[i] = "crashed"
        /\ \A r \in Creates : cpc'[r] = cpc[r] \/ (cpc[r] = "create" /\ cpc'[r] = "crashed")
        /\ \A m \in Admins : mpc'[m] = mpc[m] \/ mpc'[m] = "crashed"
    BY <1>6 DEF Crash
  <2>2. SeedIndex' /\ CreatedLast' /\ OrdersTested'
    BY <1>0, <2>1 DEF SeedIndex, InitBusy, CreatedLast, OrdersTested, store
  <2>3. SeededSoFar'
    BY <2>1, SeededStep
  <2> QED BY <1>0, <1>a, <2>2, <2>3 DEF IInv
<1>7. CASE UNCHANGED vars
  <2>1. SeedIndex' /\ SeededSoFar'
    BY <1>0, <1>7, SeededStep DEF SeedIndex, init, vars
  <2> QED BY <1>0, <1>7, <1>a, <1>b, <1>c, <2>1 DEF IInv, vars, store
<1> QED BY <1>1, <1>2, <1>3, <1>4, <1>5, <1>6, <1>7 DEF Next, InitStep, Finished

-----------------------------------------------------------------------------

\* Every reachable state of the organisation and its roles is well typed.
THEOREM TypeCorrect == Spec => []TypeOK
<1>1. IInv => TypeOK
  BY DEF IInv
<1> QED BY InitIInv, NextIInv, <1>1, PTL DEF Spec

\* When InitOrganization returns the organisation, every built-in name has its role.
THEOREM SeedingIsComplete == Spec => []SeedingComplete
<1>1. IInv => SeedingComplete
  <2> SUFFICES ASSUME IInv, NEW i \in Inits, ipc[i] = "ok", NEW n \in BuiltinNames
               PROVE  Present(n)
    BY DEF SeedingComplete, Present
  <2>1. next[i] = Len(Builtins) + 1
    BY DEF IInv, SeedIndex
  <2>2. PICK k \in 1..Len(Builtins) : n = Builtins[k]
    BY DEF BuiltinNames
  <2>3. k < next[i]
    BY <2>1, <2>2, OrgRolesAssumption
  <2> QED BY <2>2, <2>3 DEF IInv, SeededSoFar
<1> QED BY InitIInv, NextIInv, <1>1, PTL DEF Spec

-----------------------------------------------------------------------------
(* The refinement of UniqueNames by the one organisation *)

OrgContending == {i \in Inits : ipc[i] = "createOrg"}

LEMMA InitRefinesOrg == Init => OneOrganization!Init
BY DEF Init, OneOrganization!Init, LiveOrgs

\* A step is a step of UniqueNames over the organisation, or leaves it as it is.
LEMMA NextRefinesOrg ==
    IInv /\ [Next]_vars => [OneOrganization!Next]_(OneOrganization!vars)
<1> SUFFICES ASSUME IInv, [Next]_vars PROVE [OneOrganization!Next]_(OneOrganization!vars)
  OBVIOUS
<1> DEFINE holders == [n \in {"organization"} |-> LiveOrgs]
           contending == [n \in {"organization"} |-> OrgContending]
<1>0. TypeOK /\ TypeOK'
  BY NextIInv DEF IInv
\* A step that changes no organisation and makes no call contend.
<1>1. ASSUME UNCHANGED <<org, orgRivals>>, OrgContending' \subseteq OrgContending
      PROVE  [OneOrganization!Next]_(OneOrganization!vars)
  <2>1. holders' = holders
    BY <1>1 DEF LiveOrgs
  <2>2. OrgContending' \subseteq Inits
    BY DEF OrgContending
  <2> QED BY <1>1, <2>1, <2>2
          DEF OneOrganization!Next, OneOrganization!GiveUp, OrgContending
\* A step that deletes an organisation, or does not.
<1>2. ASSUME NEW j, UNCHANGED <<ipc, orgRivals>>,
             org' = org \/ (j \in Inits /\ org' = [org EXCEPT ![j] = "deleted"])
      PROVE  [OneOrganization!Next]_(OneOrganization!vars)
  <2>1. contending' = contending
    BY <1>2 DEF OrgContending
  <2>2. CASE org' = org
    BY <1>1, <1>2, <2>1, <2>2 DEF OrgContending
  <2>3. CASE j \in LiveOrgs /\ org' = [org EXCEPT ![j] = "deleted"]
    <3>1. j \in Inits /\ LiveOrgs' = LiveOrgs \ {j}
      BY <1>0, <2>3 DEF LiveOrgs, TypeOK
    <3>2. OneOrganization!Release("organization", j)
      BY <1>2, <2>1, <2>3, <3>1 DEF OneOrganization!Release, OrgContending
    <3> QED BY <3>1, <3>2 DEF OneOrganization!Next
  <2>4. CASE j \in Inits /\ j \notin LiveOrgs /\ org' = [org EXCEPT ![j] = "deleted"]
    <3>1. LiveOrgs' = LiveOrgs
      BY <1>0, <2>4 DEF LiveOrgs, TypeOK
    <3> QED BY <1>2, <2>1, <3>1 DEF OneOrganization!vars, OrgContending
  <2> QED BY <1>2, <2>2, <2>3, <2>4
<1>3. ASSUME NEW i \in Inits, InitList(i) PROVE [OneOrganization!Next]_(OneOrganization!vars)
  <2>1. UNCHANGED org /\ ipc[i] = "idle" /\ \A j \in Inits : j # i => ipc'[j] = ipc[j]
    BY <1>0, <1>3 DEF InitList, store, TypeOK
  <2>2. CASE ipc'[i] # "createOrg"
    <3>1. OrgContending' \subseteq OrgContending
      BY <2>1, <2>2 DEF OrgContending
    <3>2. UNCHANGED orgRivals
      BY <1>0, <1>3, <2>2 DEF InitList, TypeOK
    <3> QED BY <1>1, <2>1, <3>1, <3>2
  <2>3. CASE ipc'[i] = "createOrg"
    <3>1. LiveOrgs = {} /\ orgRivals' = [orgRivals EXCEPT ![i] = OrgContending]
      BY <1>0, <1>3, <2>3 DEF InitList, TypeOK, OrgContending
    <3>2. OrgContending' = OrgContending \union {i} /\ i \notin OrgContending
      BY <2>1, <2>3 DEF OrgContending
    <3>3. LiveOrgs' = LiveOrgs
      BY <2>1 DEF LiveOrgs
    <3>4. contending' = [contending EXCEPT !["organization"] = @ \union {i}]
      BY <3>2
    <3>5. OneOrganization!Look("organization", i)
      BY <3>1, <3>2, <3>3, <3>4 DEF OneOrganization!Look, OneOrganization!Active, OrgContending
    <3> QED BY <3>5 DEF OneOrganization!Next
  <2> QED BY <2>2, <2>3
<1>4. ASSUME NEW i \in Inits, InitCreateOrg(i)
      PROVE  [OneOrganization!Next]_(OneOrganization!vars)
  <2>1. /\ UNCHANGED orgRivals /\ ipc[i] = "createOrg" /\ ipc'[i] # "createOrg"
        /\ org' = org \/ org' = [org EXCEPT ![i] = "live"]
        /\ \A j \in Inits : j # i => ipc'[j] = ipc[j]
    BY <1>0, <1>4 DEF InitCreateOrg, TypeOK
  <2>2. OrgContending' = OrgContending \ {i} /\ i \in OrgContending
    BY <2>1 DEF OrgContending
  <2>3. CASE org' = org
    BY <1>1, <2>1, <2>2, <2>3
  <2>4. CASE org' = [org EXCEPT ![i] = "live"]
    <3>1. LiveOrgs' = LiveOrgs \union {i}
      BY <1>0, <2>4 DEF LiveOrgs, TypeOK
    <3>2. OneOrganization!Take("organization", i)
      BY <2>1, <2>2, <3>1 DEF OneOrganization!Take, OrgContending
    <3> QED BY <3>2 DEF OneOrganization!Next
  <2> QED BY <2>1, <2>3, <2>4
<1>5. ASSUME NEW i \in Inits, SeedList(i) \/ SeedCreate(i)
      PROVE  [OneOrganization!Next]_(OneOrganization!vars)
  <2>1. UNCHANGED <<org, orgRivals>>
    BY <1>5 DEF SeedList, SeedCreate, store
  <2>2. ipc'[i] # "createOrg" /\ \A j \in Inits : j # i => ipc'[j] = ipc[j]
    BY <1>0, <1>5 DEF SeedList, SeedCreate, Onward, TypeOK
  <2> QED BY <1>1, <2>1, <2>2 DEF OrgContending
<1>6. ASSUME NEW m \in Admins, EditWrite(m) PROVE [OneOrganization!Next]_(OneOrganization!vars)
  BY <1>2, <1>6 DEF EditWrite, init
<1>7. ASSUME NEW m \in Admins, OrgWrite(m) PROVE [OneOrganization!Next]_(OneOrganization!vars)
  <2>1. order[m].id \in Inits
    BY <1>0, <1>7 DEF OrgWrite, TypeOK, Orders, NoOrder, OrgOps, RoleOps
  <2> QED BY <1>2, <1>7, <2>1 DEF OrgWrite, init
<1>8. ASSUME UNCHANGED <<org, ipc, orgRivals>> PROVE [OneOrganization!Next]_(OneOrganization!vars)
  BY <1>1, <1>8 DEF OrgContending
<1>9. CASE Crash
  <2>1. OrgContending' \subseteq OrgContending
    BY <1>9 DEF Crash, OrgContending, InitBusy
  <2> QED BY <1>1, <1>9, <2>1 DEF Crash, store
<1> QED BY <1>3, <1>4, <1>5, <1>6, <1>7, <1>8, <1>9
        DEF Next, InitStep, CreateList, CreateWrite, EditGet, OrgGet, Finished, vars, store, init

\* InitOrganization keeps the promise of UniqueNames for the one organisation, although
\* one may be deleted and another initialised.
THEOREM OrganizationRefines == Spec => OrgsImplementUniqueNames
<1>1. []IInv /\ [][Next]_vars => [][OneOrganization!Next]_(OneOrganization!vars)
  BY NextRefinesOrg, PTL
<1> QED BY InitIInv, NextIInv, InitRefinesOrg, <1>1, PTL
        DEF Spec, OrgsImplementUniqueNames, OneOrganization!Spec

-----------------------------------------------------------------------------
(* The refinement of UniqueNames by the names of the roles *)

\* Who contends for a name.
LEMMA ContendingIs ==
    ASSUME NEW n
    PROVE  /\ Contending(n) \subseteq RoleIds
           /\ \A id \in SeededRoles : id \in Contending(n) <=>
                id[2] = n /\ ipc[id[1]] = "seedCreate" /\ Builtins[next[id[1]]] = n
           /\ \A r \in Creates : r \in Contending(n) <=> cpc[r] = "create" /\ name[r] = n
BY SeededNames DEF Contending, RoleIds

LEMMA InitRefinesRoles == Init => RoleNames!Init
<1> SUFFICES ASSUME Init PROVE RoleNames!Init
  OBVIOUS
<1>1. \A n : LiveRoles(n) = {}
  BY DEF Init, LiveRoles
<1>2. \A n : Contending(n) = {}
  BY SeededNames DEF Init, Contending
<1> QED BY <1>1, <1>2 DEF Init, RoleNames!Init

\* A step that touches no role that is listed and makes no claim contend.
LEMMA QuietRoles ==
    ASSUME UNCHANGED <<role, roleRivals>>,
           \A r \in Creates : role[r] = "live" => name'[r] = name[r],
           \A n \in Names : Contending(n)' \subseteq Contending(n)
    PROVE  [RoleNames!Next]_(RoleNames!vars)
<1>1. \A n \in Names : LiveRoles(n)' = LiveRoles(n)
  BY DEF LiveRoles, NameOf
<1>2. \A n \in Names : Contending(n)' \subseteq RoleIds
  BY ContendingIs
<1> QED BY <1>1, <1>2 DEF RoleNames!Next, RoleNames!GiveUp, Names

\* A step by which one claim finds a name free.
LEMMA LookRoles ==
    ASSUME NEW n \in Names, NEW id \in RoleIds,
           LiveRoles(n) = {}, roleRivals' = [roleRivals EXCEPT ![id] = Contending(n)],
           \A m \in Names : id \notin LiveRoles(m) \union Contending(m),
           \A m \in Names : LiveRoles(m)' = LiveRoles(m),
           Contending(n)' = Contending(n) \union {id},
           \A m \in Names : m # n => Contending(m)' = Contending(m)
    PROVE  [RoleNames!Next]_(RoleNames!vars)
<1>1. RoleNames!Look(n, id)
  BY DEF RoleNames!Look, RoleNames!Active, Names
<1> QED BY <1>1 DEF RoleNames!Next, Names

\* A step by which a claim that contends takes its name.
LEMMA TakeRoles ==
    ASSUME TypeOK, NEW n \in Names, NEW id \in RoleIds, NameOf(id) = n, id \in Contending(n),
           role' = [role EXCEPT ![id] = "live"], UNCHANGED <<name, roleRivals>>,
           \A m \in Names : Contending(m)' = Contending(m) \ {id}
    PROVE  [RoleNames!Next]_(RoleNames!vars)
<1>1. \A d : NameOf(d)' = NameOf(d)
  BY DEF NameOf
<1>2. LiveRoles(n)' = LiveRoles(n) \union {id}
  BY <1>1 DEF LiveRoles, TypeOK
<1>3. \A m \in Names : m # n => LiveRoles(m)' = LiveRoles(m)
  BY <1>1 DEF LiveRoles, TypeOK
<1>4. \A m \in Names : m # n => id \notin Contending(m)
  BY SeededNames, ContendingIs DEF RoleIds
<1>5. \A m \in Names : m # n => Contending(m)' = Contending(m)
  BY <1>4
<1>6. RoleNames!Take(n, id)
  BY <1>2, <1>3, <1>5 DEF RoleNames!Take, Names
<1> QED BY <1>6 DEF RoleNames!Next, Names

\* A step is a step of UniqueNames over the names of roles, or leaves it as it is.
LEMMA NextRefinesRoles == IInv /\ [Next]_vars => [RoleNames!Next]_(RoleNames!vars)
<1> SUFFICES ASSUME IInv, [Next]_vars PROVE [RoleNames!Next]_(RoleNames!vars)
  OBVIOUS
<1>0. TypeOK /\ TypeOK' /\ CreatedLast /\ SeedIndex /\ OrdersTested
  BY NextIInv DEF IInv
\* A step that moves no call of seeding or of CreateRole, and no role.
<1>1. ASSUME UNCHANGED <<role, roleRivals, ipc, next, cpc, name>>
      PROVE  [RoleNames!Next]_(RoleNames!vars)
  BY <1>1, QuietRoles DEF Contending
<1>2. ASSUME NEW i \in Inits, InitList(i) \/ InitCreateOrg(i)
      PROVE  [RoleNames!Next]_(RoleNames!vars)
  <2>1. UNCHANGED <<role, roleRivals, next, cpc, name>>
    BY <1>2 DEF InitList, InitCreateOrg, store, create
  <2>2. ipc'[i] # "seedCreate" /\ \A j \in Inits : j # i => ipc'[j] = ipc[j]
    BY <1>0, <1>2 DEF InitList, InitCreateOrg, TypeOK
  <2>3. \A n \in Names : Contending(n)' \subseteq Contending(n)
    BY <2>1, <2>2, SeededNames DEF Contending
  <2> QED BY <2>1, <2>3, QuietRoles
<1>3. ASSUME NEW i \in Inits, SeedList(i) PROVE [RoleNames!Next]_(RoleNames!vars)
  <2>0. PICK n, id : n = Builtins[next[i]] /\ id = <<i, n>>
    OBVIOUS
  <2>1. UNCHANGED <<role, cpc, name>> /\ ipc[i] = "seedList"
    BY <1>3 DEF SeedList, store, create
  <2>2. \A j \in Inits : j # i => ipc'[j] = ipc[j] /\ next'[j] = next[j]
    BY <1>0, <1>3 DEF SeedList, Onward, TypeOK
  <2>3. CASE ipc'[i] # "seedCreate"
    <3>1. UNCHANGED roleRivals
      BY <1>0, <1>3, <2>3 DEF SeedList, TypeOK
    <3>2. \A m \in Names : Contending(m)' \subseteq Contending(m)
      BY <2>1, <2>2, <2>3, SeededNames DEF Contending
    <3> QED BY <2>1, <3>1, <3>2, QuietRoles
  <2>4. CASE ipc'[i] = "seedCreate"
    <3>1. /\ LiveRoles(n) = {} /\ UNCHANGED next
          /\ roleRivals' = [roleRivals EXCEPT ![id] = Contending(n)]
      BY <1>0, <1>3, <2>0, <2>4 DEF SeedList, Onward, TypeOK
    <3>2. n \in BuiltinNames /\ n \in Names /\ id \in SeededRoles /\ id \in RoleIds
      BY <1>0, <2>0, <2>1, SeededNames DEF SeedIndex, InitBusy, Names
    <3>3. \A m \in Names : LiveRoles(m)' = LiveRoles(m)
      BY <2>1 DEF LiveRoles, NameOf
    <3>4. \A m \in Names : id \notin LiveRoles(m) \union Contending(m)
      BY <2>0, <2>1, <3>1, <3>2, SeededNames, ContendingIs DEF LiveRoles
    <3>5. \A d \in SeededRoles : d[1] # i => (ipc'[d[1]] = ipc[d[1]] /\ next'[d[1]] = next[d[1]])
      BY <2>2, SeededNames
    <3>6. Contending(n)' = Contending(n) \union {id}
      BY <2>0, <2>1, <2>4, <3>1, <3>2, <3>5, SeededNames DEF Contending
    <3>7. \A m \in Names : m # n => Contending(m)' = Contending(m)
      BY <2>0, <2>1, <2>4, <3>1, <3>2, <3>5, SeededNames DEF Contending
    <3> QED BY <3>1, <3>2, <3>3, <3>4, <3>6, <3>7, LookRoles
  <2> QED BY <2>3, <2>4
<1>4. ASSUME NEW i \in Inits, SeedCreate(i) PROVE [RoleNames!Next]_(RoleNames!vars)
  <2> DEFINE n == Builtins[next[i]]
             id == <<i, n>>
  <2>1. /\ UNCHANGED <<cpc, name, roleRivals>> /\ ipc[i] = "seedCreate" /\ ipc'[i] # "seedCreate"
        /\ role' = role \/ role' = [role EXCEPT ![id] = "live"]
    BY <1>0, <1>4 DEF SeedCreate, Onward, create, TypeOK
  <2>2. \A j \in Inits : j # i => ipc'[j] = ipc[j] /\ next'[j] = next[j]
    BY <1>0, <1>4 DEF SeedCreate, Onward, TypeOK
  <2>3. n \in BuiltinNames /\ n \in Names /\ id \in SeededRoles /\ id \in RoleIds
    BY <1>0, <2>1, SeededNames DEF SeedIndex, InitBusy, Names
  <2>4. \A d \in SeededRoles : d[1] # i => (ipc'[d[1]] = ipc[d[1]] /\ next'[d[1]] = next[d[1]])
    BY <2>2, SeededNames
  <2>5. \A m \in Names : Contending(m)' = Contending(m) \ {id}
    BY <2>1, <2>3, <2>4, SeededNames DEF Contending
  <2>6. CASE role' = role
    BY <2>1, <2>5, <2>6, QuietRoles
  <2>7. CASE role' = [role EXCEPT ![id] = "live"]
    <3>1. NameOf(id) = n /\ id \in Contending(n)
      BY <2>1, <2>3, SeededNames, ContendingIs
    <3> HIDE DEF n, id
    <3> QED BY <1>0, <2>1, <2>3, <2>5, <2>7, <3>1, TakeRoles
  <2> QED BY <2>1, <2>6, <2>7
<1>5. ASSUME NEW r \in Creates, CreateList(r) PROVE [RoleNames!Next]_(RoleNames!vars)
  <2>1. UNCHANGED <<role, ipc, next>> /\ cpc[r] = "idle" /\ role[r] = "none"
    BY <1>0, <1>5 DEF CreateList, store, init, CreatedLast
  <2>2. \A c \in Creates : c # r => cpc'[c] = cpc[c] /\ name'[c] = name[c]
    BY <1>0, <1>5 DEF CreateList, TypeOK
  <2>3. CASE cpc'[r] # "create"
    <3>1. UNCHANGED roleRivals
      BY <1>0, <1>5, <2>3 DEF CreateList, TypeOK
    <3>2. \A m \in Names : Contending(m)' \subseteq Contending(m)
      BY <2>1, <2>2, <2>3 DEF Contending
    <3> QED BY <2>1, <2>2, <3>1, <3>2, QuietRoles
  <2>4. CASE cpc'[r] = "create"
    <3>1. PICK n \in Names :
            /\ name' = [name EXCEPT ![r] = n] /\ LiveRoles(n) = {}
            /\ roleRivals' = [roleRivals EXCEPT ![r] = Contending(n)]
      BY <1>0, <1>5, <2>4 DEF CreateList, TypeOK, Names
    <3>2. name'[r] = n /\ r \in RoleIds
      BY <1>0, <3>1, SeededNames DEF TypeOK
    <3>3. \A m \in Names : LiveRoles(m)' = LiveRoles(m)
      BY <2>1, <2>2 DEF LiveRoles, NameOf
    <3>4. \A m \in Names : r \notin LiveRoles(m) \union Contending(m)
      BY <2>1, ContendingIs DEF LiveRoles
    <3>5. Contending(n)' = Contending(n) \union {r}
      BY <2>1, <2>2, <2>4, <3>2 DEF Contending
    <3>6. \A m \in Names : m # n => Contending(m)' = Contending(m)
      BY <2>1, <2>2, <3>2, <3>4 DEF Contending
    <3> QED BY <3>1, <3>2, <3>3, <3>4, <3>5, <3>6, LookRoles
  <2> QED BY <2>3, <2>4
<1>6. ASSUME NEW r \in Creates, CreateWrite(r) PROVE [RoleNames!Next]_(RoleNames!vars)
  <2>1. /\ UNCHANGED <<ipc, next, name, roleRivals>> /\ cpc[r] = "create" /\ cpc'[r] # "create"
        /\ role' = role \/ role' = [role EXCEPT ![r] = "live"]
        /\ \A c \in Creates : c # r => cpc'[c] = cpc[c]
    BY <1>0, <1>6 DEF CreateWrite, init, TypeOK
  <2>2. name[r] \in Names /\ r \in RoleIds /\ NameOf(r) = name[r] /\ r \in Contending(name[r])
    BY <1>0, <2>1, SeededNames, ContendingIs DEF CreatedLast
  <2>3. \A m \in Names : Contending(m)' = Contending(m) \ {r}
    BY <2>1, SeededNames DEF Contending
  <2>4. CASE role' = role
    BY <2>1, <2>3, <2>4, QuietRoles
  <2>5. CASE role' = [role EXCEPT ![r] = "live"]
    BY <1>0, <2>1, <2>2, <2>3, <2>5, TakeRoles
  <2> QED BY <2>1, <2>4, <2>5
<1>7. ASSUME NEW m \in Admins, EditWrite(m) PROVE [RoleNames!Next]_(RoleNames!vars)
  <2>0. PICK id, n : id = order[m].id /\ n = name[id]
    OBVIOUS
  <2>1. UNCHANGED <<ipc, next, cpc, name, roleRivals>>
    BY <1>7 DEF EditWrite, init, create
  <2>2. role' = role \/ (id \in RoleIds /\ role' = [role EXCEPT ![id] = "deleted"])
    BY <1>7, <2>0 DEF EditWrite
  <2>3. \A k \in Names : Contending(k)' = Contending(k)
    BY <2>1 DEF Contending
  <2>4. CASE role' = role
    BY <1>1, <2>1, <2>4
  <2>5. CASE id \in RoleIds /\ role' = [role EXCEPT ![id] = "deleted"]
    <3>1. id \in Creates /\ n \in Names /\ NameOf(id) = n
      <4>1. id \in Creates /\ role[id] # "none"
        BY <1>0, <1>7, <2>0, <2>5 DEF EditWrite, OrdersTested, RoleIds
      <4> QED BY <1>0, <2>0, <4>1, SeededNames DEF CreatedLast
    <3>2. \A d : NameOf(d)' = NameOf(d)
      BY <2>1 DEF NameOf
    <3>3. LiveRoles(n)' = LiveRoles(n) \ {id}
      BY <1>0, <2>5, <3>1, <3>2 DEF LiveRoles, TypeOK
    <3>4. \A k \in Names : k # n => LiveRoles(k)' = LiveRoles(k)
      BY <1>0, <2>5, <3>1, <3>2 DEF LiveRoles, TypeOK
    <3>5. CASE role[id] = "live"
      <4>1. id \in LiveRoles(n)
        BY <2>5, <3>1, <3>5 DEF LiveRoles
      <4>2. RoleNames!Release(n, id)
        BY <2>1, <2>3, <3>1, <3>3, <3>4, <4>1 DEF RoleNames!Release, Names
      <4> QED BY <2>5, <3>1, <4>2 DEF RoleNames!Next, Names
    <3>6. CASE role[id] # "live"
      <4>1. LiveRoles(n)' = LiveRoles(n)
        BY <3>3, <3>6 DEF LiveRoles
      <4>2. \A k \in Names : LiveRoles(k)' = LiveRoles(k)
        BY <3>4, <4>1
      <4> QED BY <2>1, <2>3, <4>2 DEF RoleNames!vars, Names
    <3> QED BY <3>5, <3>6
  <2> QED BY <2>2, <2>4, <2>5
<1>8. CASE Crash
  <2>1. /\ UNCHANGED <<role, roleRivals, next, name>>
        /\ \A i \in Inits : ipc'[i] = ipc[i] \/ ipc'[i] = "crashed"
        /\ \A r \in Creates : cpc'[r] = cpc[r] \/ cpc'[r] = "crashed"
    BY <1>8 DEF Crash, store
  <2>2. \A n \in Names : Contending(n)' \subseteq Contending(n)
    BY <2>1, SeededNames DEF Contending
  <2> QED BY <2>1, <2>2, QuietRoles
<1> QED BY <1>1, <1>2, <1>3, <1>4, <1>5, <1>6, <1>7, <1>8
        DEF Next, InitStep, EditGet, OrgGet, OrgWrite, Finished, vars, store, init, create

\* CreateRole and the seeding keep the promise of UniqueNames for the names of roles,
\* although a role may be deleted while others look for its name.
THEOREM RolesRefine == Spec => RolesImplementUniqueNames
<1>1. []IInv /\ [][Next]_vars => [][RoleNames!Next]_(RoleNames!vars)
  BY NextRefinesRoles, PTL
<1> QED BY InitIInv, NextIInv, InitRefinesRoles, <1>1, PTL
        DEF Spec, RolesImplementUniqueNames, RoleNames!Spec

-----------------------------------------------------------------------------
(* What UniqueNames promises, of the organisation and of its roles *)

OneOrgProofs == INSTANCE UniqueNamesProofs WITH
    Claims     <- Inits,
    Names      <- {"organization"},
    holders    <- [n \in {"organization"} |-> LiveOrgs],
    contending <- [n \in {"organization"} |-> OrgContending],
    rivals     <- orgRivals

RoleNamesProofs == INSTANCE UniqueNamesProofs WITH
    Claims     <- RoleIds,
    holders    <- [n \in Names |-> LiveRoles(n)],
    contending <- [n \in Names |-> Contending(n)],
    rivals     <- roleRivals

\* Two organisations are live at once only if one of their calls had found none, and not
\* yet created its own, when the other looked.
TwoOrganizationsRaced ==
    \A i, j \in LiveOrgs : i # j => (i \in orgRivals[j] \/ j \in orgRivals[i])

\* Two live roles have one name only if the calls that created them raced in that way.
TwoRolesRaced ==
    \A n \in Names : \A c, d \in LiveRoles(n) :
        c # d => (c \in roleRivals[d] \/ d \in roleRivals[c])

\* There are two live organisations only where two InitOrganization calls raced.
THEOREM OrganizationUnlessRaced == Spec => []TwoOrganizationsRaced
<1>1. OneOrganization!Init => OneOrgProofs!Init
  BY DEF OneOrganization!Init, OneOrgProofs!Init, OrgContending
<1>2. [OneOrganization!Next]_(OneOrganization!vars) => [OneOrgProofs!Next]_(OneOrgProofs!vars)
  BY DEF OneOrganization!Next, OneOrganization!GiveUp, OneOrganization!Look,
         OneOrganization!Take, OneOrganization!Release, OneOrganization!Active,
         OneOrganization!vars, OneOrgProofs!Next, OneOrgProofs!GiveUp, OneOrgProofs!Look,
         OneOrgProofs!Take, OneOrgProofs!Release, OneOrgProofs!Active, OneOrgProofs!vars,
         OrgContending
<1>3. OneOrgProofs!UniqueUpToRace => TwoOrganizationsRaced
  BY DEF OneOrgProofs!UniqueUpToRace, TwoOrganizationsRaced
<1> QED BY <1>1, <1>2, <1>3, OrganizationRefines, OneOrgProofs!UniqueUnlessRaced, PTL
        DEF OrgsImplementUniqueNames, OneOrganization!Spec, OneOrgProofs!Spec

\* There are two live roles of one name, built-in or not, only where two calls raced.
THEOREM RoleNameUnlessRaced == Spec => []TwoRolesRaced
<1>1. RoleNames!Init => RoleNamesProofs!Init
  BY DEF RoleNames!Init, RoleNamesProofs!Init, Names
<1>2. [RoleNames!Next]_(RoleNames!vars) => [RoleNamesProofs!Next]_(RoleNamesProofs!vars)
  BY DEF RoleNames!Next, RoleNames!GiveUp, RoleNames!Look,
         RoleNames!Take, RoleNames!Release, RoleNames!Active,
         RoleNames!vars, RoleNamesProofs!Next, RoleNamesProofs!GiveUp, RoleNamesProofs!Look,
         RoleNamesProofs!Take, RoleNamesProofs!Release, RoleNamesProofs!Active,
         RoleNamesProofs!vars, Names
<1>3. RoleNamesProofs!UniqueUpToRace => TwoRolesRaced
  BY DEF RoleNamesProofs!UniqueUpToRace, TwoRolesRaced
<1> QED BY <1>1, <1>2, <1>3, RolesRefine, RoleNamesProofs!UniqueUnlessRaced, PTL
        DEF RolesImplementUniqueNames, RoleNames!Spec, RoleNamesProofs!Spec

=============================================================================
