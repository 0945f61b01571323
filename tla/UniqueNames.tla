------------------------------ MODULE UniqueNames ------------------------------
(***************************************************************************)
(* What the manager promises of a name - an address, the name of a role or *)
(* of a scope, the place of the one organisation - that a call looks up    *)
(* and takes in a later step, over a store without transactions or unique  *)
(* indexes: not that one claim holds it, but that two hold it only if they *)
(* contended for it.  Invitations, OrgRoles and Scopes implement it.       *)
(***************************************************************************)
CONSTANTS
    Claims,  \* the calls, or the parts of calls, that claim a name
    Names    \* what they claim

VARIABLES
    holders,    \* for each name: the claims that hold it
    contending, \* for each name: the claims that found it free and have yet to take it
    rivals      \* for each claim: those that contended for its name when it looked

vars == <<holders, contending, rivals>>

Active(n) == holders[n] \union contending[n]

Init ==
    /\ holders = [n \in Names |-> {}]
    /\ contending = [n \in Names |-> {}]
    /\ rivals = [c \in Claims |-> {}]

\* A new claim finds the name free.
Look(n, c) ==
    /\ holders[n] = {} /\ c \in contending'[n]
    /\ \A m \in Names : c \notin Active(m)
    /\ contending' = [contending EXCEPT ![n] = @ \union {c}]
    /\ rivals' = [rivals EXCEPT ![c] = contending[n]]
    /\ UNCHANGED holders

\* It takes the name, without looking again.
Take(n, c) ==
    /\ c \in contending[n]
    /\ contending' = [contending EXCEPT ![n] = @ \ {c}]
    /\ holders' = [holders EXCEPT ![n] = @ \union {c}]
    /\ UNCHANGED rivals

\* Claims fail, or die with their process, before they have taken their names.
GiveUp ==
    /\ UNCHANGED <<holders, rivals>>
    /\ contending' \in [Names -> SUBSET Claims]
    /\ \A n \in Names : contending'[n] \subseteq contending[n]

\* What held the name is deleted.
Release(n, c) ==
    /\ c \in holders[n]
    /\ holders' = [holders EXCEPT ![n] = @ \ {c}]
    /\ UNCHANGED <<contending, rivals>>

Next ==
    \/ GiveUp
    \/ \E n \in Names, c \in Claims : Look(n, c) \/ Take(n, c) \/ Release(n, c)

Spec == Init /\ [][Next]_vars

-----------------------------------------------------------------------------

\* Two claims hold one name only if one of them had found it free, and not yet taken
\* it, when the other looked.
UniqueUpToRace ==
    \A n \in Names : \A c, d \in holders[n] :
        c # d => (c \in rivals[d] \/ d \in rivals[c])

=============================================================================
