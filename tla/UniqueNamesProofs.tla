--------------------------- MODULE UniqueNamesProofs ---------------------------
(* Theorems about UniqueNames, for any sets of claims and names. *)
EXTENDS UniqueNames, TLAPS

\* Every variable holds a value of its kind.
TypeOK ==
    /\ holders \in [Names -> SUBSET Claims]
    /\ contending \in [Names -> SUBSET Claims]
    /\ rivals \in [Claims -> SUBSET Claims]

\* A claim holds or contends for one name at a time, and does one of the two.
OneNameEach ==
    /\ \A n \in Names : holders[n] \intersect contending[n] = {}
    /\ \A n, m \in Names : n # m => Active(n) \intersect Active(m) = {}

\* The promise extended to the claims that have yet to take the name: without them it
\* is not inductive, because a claim that contends takes the name without looking.
ActiveRivals ==
    \A n \in Names : \A c, d \in Active(n) :
        c # d => (c \in rivals[d] \/ d \in rivals[c])

IInv == TypeOK /\ OneNameEach /\ ActiveRivals

\* No name is claimed at the start.
LEMMA InitIInv == Init => IInv
BY DEF Init, IInv, TypeOK, OneNameEach, ActiveRivals, Active

\* A claim that looks takes for its rivals all that are active for the name, since
\* none of them holds it yet.
LEMMA LookIInv ==
    ASSUME NEW n \in Names, NEW c \in Claims, IInv, Look(n, c)
    PROVE  IInv'
<1> USE DEF Active
<1>1. TypeOK'
  BY DEF IInv, TypeOK, Look
<1>2. OneNameEach'
  BY DEF IInv, TypeOK, OneNameEach, Look
<1>3. ActiveRivals'
  <2> SUFFICES ASSUME NEW m \in Names, NEW d \in Active(m)', NEW e \in Active(m)', d # e
               PROVE  d \in rivals'[e] \/ e \in rivals'[d]
    BY DEF ActiveRivals
  <2>1. CASE m = n
    <3>1. Active(n)' = contending[n] \union {c} /\ Active(n) = contending[n]
      BY DEF IInv, TypeOK, Look
    <3>2. CASE d = c \/ e = c
      BY <2>1, <3>1, <3>2 DEF IInv, TypeOK, Look
    <3>3. CASE d # c /\ e # c
      <4>1. d \in Active(n) /\ e \in Active(n)
        BY <2>1, <3>1, <3>3
      <4>2. d \in rivals[e] \/ e \in rivals[d]
        BY <4>1 DEF IInv, ActiveRivals
      <4>3. rivals'[d] = rivals[d] /\ rivals'[e] = rivals[e]
        BY <3>3, <4>1 DEF IInv, TypeOK, Look
      <4> QED BY <4>2, <4>3
    <3> QED BY <3>2, <3>3
  <2>2. CASE m # n
    <3>1. Active(m)' = Active(m)
      BY <2>2 DEF IInv, TypeOK, Look
    <3>2. d \in Active(m) /\ e \in Active(m) /\ d # c /\ e # c
      BY <3>1 DEF Look
    <3>3. d \in rivals[e] \/ e \in rivals[d]
      BY <3>2 DEF IInv, ActiveRivals
    <3>4. rivals'[d] = rivals[d] /\ rivals'[e] = rivals[e]
      BY <3>2 DEF IInv, TypeOK, Look
    <3> QED BY <3>3, <3>4
  <2> QED BY <2>1, <2>2
<1> QED BY <1>1, <1>2, <1>3 DEF IInv

\* The other steps make no claim active that was not, and change no rivals.
LEMMA FewerIInv ==
    ASSUME IInv, TypeOK', OneNameEach', UNCHANGED rivals,
           \A n \in Names : Active(n)' \subseteq Active(n)
    PROVE  IInv'
BY DEF IInv, ActiveRivals, TypeOK

\* Every step keeps the invariant.
LEMMA NextIInv == IInv /\ [Next]_vars => IInv'
<1> SUFFICES ASSUME IInv, [Next]_vars PROVE IInv'
  OBVIOUS
<1>1. ASSUME NEW n \in Names, NEW c \in Claims, Look(n, c) PROVE IInv'
  BY <1>1, LookIInv
<1>2. ASSUME NEW n \in Names, NEW c \in Claims, Take(n, c) PROVE IInv'
  <2>1. TypeOK' /\ OneNameEach' /\ \A m \in Names : Active(m)' \subseteq Active(m)
    BY <1>2 DEF IInv, TypeOK, OneNameEach, Active, Take
  <2> QED BY <1>2, <2>1, FewerIInv DEF Take
<1>3. ASSUME NEW n \in Names, NEW c \in Claims, Release(n, c) PROVE IInv'
  <2>1. TypeOK' /\ OneNameEach' /\ \A m \in Names : Active(m)' \subseteq Active(m)
    BY <1>3 DEF IInv, TypeOK, OneNameEach, Active, Release
  <2> QED BY <1>3, <2>1, FewerIInv DEF Release
<1>4. CASE GiveUp
  <2>1. TypeOK' /\ OneNameEach' /\ \A m \in Names : Active(m)' \subseteq Active(m)
    BY <1>4 DEF IInv, TypeOK, OneNameEach, Active, GiveUp
  <2> QED BY <1>4, <2>1, FewerIInv DEF GiveUp
<1>5. CASE UNCHANGED vars
  BY <1>5 DEF vars, IInv, TypeOK, OneNameEach, ActiveRivals, Active
<1> QED BY <1>1, <1>2, <1>3, <1>4, <1>5 DEF Next

\* Whatever implements UniqueNames keeps its promise.
THEOREM UniqueUnlessRaced == Spec => []UniqueUpToRace
<1>1. IInv => UniqueUpToRace
  BY DEF IInv, ActiveRivals, Active, UniqueUpToRace
<1> QED BY InitIInv, NextIInv, <1>1, PTL DEF Spec

=============================================================================
