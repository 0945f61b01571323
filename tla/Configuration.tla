----------------------------- MODULE Configuration -----------------------------
(***************************************************************************)
(* How an environment becomes the configuration of a process: Load of      *)
(* src/internal/config, as cmd/server and cmd/dev call it.                 *)
(*                                                                         *)
(* The text of a numeric variable is what scanning it with %d gives: a     *)
(* natural number, whatever follows its digits, or Garbage.  A duration is *)
(* an integer, or Garbage.                                                 *)
(***************************************************************************)
EXTENDS Integers

CONSTANTS
    Byte,    \* the numbers of a uint8 are 0 .. Byte - 1
    Word,    \* those of a uint32 are 0 .. Word - 1
    Unset,   \* a variable that is unset or empty
    Garbage  \* a text no number, or no duration, can be read from

ASSUME ConfigurationAssumption ==
    /\ Byte \in Nat /\ Byte > 4
    /\ Word \in Nat /\ Word > 65536 /\ Word >= Byte
    /\ Unset \notin Int /\ Garbage \notin Int

-----------------------------------------------------------------------------

\* The variables without which the process does not start.
Required == {"AGENCY_ID", "ARANGO_ENDPOINTS", "ARANGO_USER", "ARANGO_PASSWORD",
             "CROSS_ENDPOINT", "ORG_ISSUER_URL"}

\* The lives that must be positive; the fourth, ORG_CLIENT_SECRET_GRACE, is not tested.
Ttls == {"ORG_ACCESS_TOKEN_TTL", "ORG_REFRESH_TOKEN_TTL", "ORG_AUTH_CODE_TTL"}

\* An environment: the variables that are set, those of them that are not empty, and
\* what the numbers and the lives say.
Environments ==
    [set : SUBSET Required, given : SUBSET Required,
     time : Nat \union {Unset, Garbage}, memory : Nat \union {Unset, Garbage},
     threads : Nat \union {Unset, Garbage}, ttl : [Ttls -> Int \union {Unset, Garbage}]]

\* A number no uint32 holds is as good as no number.
parseUint32(text, def) ==
    IF text \in {Unset, Garbage} \/ text >= Word THEN def ELSE text

\* The conversion keeps the low bits.
parseUint8(text, def) == parseUint32(text, def) % Byte

\* A duration; the defaults are positive.
parseDuration(text, def) == IF text \in {Unset, Garbage} THEN def ELSE text

\* Mutant: the conversion to 8 bits is left to the hash.
LoadedWide(env) ==
    [argon2Time    |-> parseUint32(env.time, 3),
     argon2Memory  |-> parseUint32(env.memory, 65536),
     argon2Threads |-> parseUint32(env.threads, 4),
     ttl           |-> [t \in Ttls |-> parseDuration(env.ttl[t], 60)]]

\* The configuration after the first pass.
Loaded(env) ==
    [argon2Time    |-> parseUint32(env.time, 3),
     argon2Memory  |-> parseUint32(env.memory, 65536),
     argon2Threads |-> parseUint8(env.threads, 4),
     ttl           |-> [t \in Ttls |-> parseDuration(env.ttl[t], 60)]]

\* The second pass: log.Fatal when a value is out of range.
InRange(cfg) ==
    /\ cfg.argon2Time >= 1
    /\ cfg.argon2Memory >= 8192
    /\ cfg.argon2Threads >= 1
    /\ \A t \in Ttls : cfg.ttl[t] > 0

\* Load returns, and the process starts.
Starts(env) == Required \subseteq env.given /\ InRange(Loaded(env))

\* cmd/dev sets what is not set, ARANGO_PASSWORD and CROSS_ENDPOINT to the empty text.
DevDefaults == {"AGENCY_ID", "ARANGO_ENDPOINTS", "ARANGO_USER", "ORG_ISSUER_URL"}
DevEnvironment(env) ==
    [env EXCEPT !.set = Required, !.given = @ \union (DevDefaults \ env.set)]

\* hashArgon2id hands its parameters to argon2.IDKey, which takes the threads as a
\* uint8 and panics when there are none, or no passes.
HashPanics(cfg) == cfg.argon2Time < 1 \/ cfg.argon2Threads % Byte < 1

=============================================================================
