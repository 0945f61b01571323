----------------------------- MODULE TokenValidity -----------------------------
(***************************************************************************)
(* What introspection promises of a token, and no more: a token that is    *)
(* dead stays dead, and a question asked about a dead token is never       *)
(* answered "active".  A question about a token that dies while it is      *)
(* being answered may be answered either way, and "inactive" is always a   *)
(* possible answer: a store that does not answer is reported as that.      *)
(* From which instant on a token is expired is for an implementation to    *)
(* say; introspection.md and the code differ on it (see Tokens).           *)
(***************************************************************************)
CONSTANTS
    Tokens,    \* the tokens there are
    Questions, \* the calls of Introspect
    NoToken    \* what a question is about before it is asked

VARIABLES
    dead,    \* the tokens that are expired, revoked or no access tokens
    answer,  \* of each question: not asked yet, open, or how it was answered
    about,   \* the token it is about
    late     \* whether that token was dead already when the question was asked

valid == <<dead, answer, about, late>>

Init ==
    /\ dead \in SUBSET Tokens
    /\ answer = [q \in Questions |-> "none"]
    /\ about = [q \in Questions |-> NoToken]
    /\ late = [q \in Questions |-> FALSE]

Die ==
    /\ dead' \in SUBSET Tokens
    /\ dead \subseteq dead'
    /\ UNCHANGED <<answer, about, late>>

Ask(q) ==
    /\ answer[q] = "none"
    /\ \E t \in Tokens :
        /\ about' = [about EXCEPT ![q] = t]
        /\ late' = [late EXCEPT ![q] = t \in dead]
    /\ \E a \in {"open", "inactive"} : answer' = [answer EXCEPT ![q] = a]
    /\ UNCHANGED dead

Deny(q) ==
    /\ answer[q] = "open"
    /\ answer' = [answer EXCEPT ![q] = "inactive"]
    /\ UNCHANGED <<dead, about, late>>

Confirm(q) ==
    /\ answer[q] = "open"
    /\ ~late[q]
    /\ answer' = [answer EXCEPT ![q] = "active"]
    /\ UNCHANGED <<dead, about, late>>

\* The process dies, and leaves some questions without an answer.
Abandon ==
    /\ answer' \in [Questions -> {"none", "open", "inactive", "active"}]
    /\ \A q \in Questions :
        answer'[q] = answer[q] \/ (answer[q] = "open" /\ answer'[q] = "inactive")
    /\ UNCHANGED <<dead, about, late>>

Next ==
    \/ Die
    \/ \E q \in Questions : Ask(q) \/ Deny(q) \/ Confirm(q)
    \/ Abandon

Spec == Init /\ [][Next]_valid

=============================================================================
