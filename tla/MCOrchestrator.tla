---------------------------- MODULE MCOrchestrator ----------------------------
(* Instances of Orchestrator for TLC. *)
EXTENDS Orchestrator

CONSTANTS public, test_schema, testtable, r1, r2

(* One table, or the two of init-scripts/init.sql that share a name. *)
OneTable == {<<public, testtable>>}
SameName == {public, test_schema} \X {testtable}
=============================================================================
