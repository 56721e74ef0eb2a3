-------------------------- MODULE MCResilientClient --------------------------
(***************************************************************************)
(* ResilientClient with two callers on both breakers.  The circuit opens   *)
(* on two failures, recovers before they have left the window, and closes  *)
(* on two successes.                                                       *)
(***************************************************************************)
EXTENDS ResilientClient

BothBackends == {"memory", "redis"}
=============================================================================
