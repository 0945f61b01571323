------------------------------ MODULE EntityStore ------------------------------
(***************************************************************************)
(* The entity graph (CodeValdSharedLib/entitygraph.DataManager, backed by  *)
(* ArangoDB) as CodeValdOrg's manager sees it.  The library is not part of *)
(* this repository; what is written here is what its callers rely on.      *)
(*                                                                         *)
(* A call of the store is one atomic step.  A read either answers or fails *)
(* ("fail").  A write either is applied and acknowledged ("ok"), or is     *)
(* refused ("fail"), or is applied while the caller sees an error ("lost": *)
(* the deadline passed, or the connection broke, before the answer came).  *)
(* The manager cannot tell "lost" from "fail": both arrive as err != nil.  *)
(*                                                                         *)
(* No two calls form a transaction, and the schema declares no unique      *)
(* index, so the store itself refuses no duplicate.                        *)
(***************************************************************************)
EXTENDS Integers

ReadOutcome  == {"ok", "fail"}
WriteOutcome == {"ok", "lost", "fail"}

\* The write reached the database, whatever its caller is told.
Applied(outcome) == outcome # "fail"

\* What an outcome takes from a model's budget of faults.
FaultCost(outcome) == IF outcome = "ok" THEN 0 ELSE 1

=============================================================================
