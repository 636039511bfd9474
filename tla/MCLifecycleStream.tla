------------------------- MODULE MCLifecycleStream -------------------------
(* Two lifecycles, so that a reader and a detached runner of the old one    *)
(* meet the new one; one more runner than lifecycles, so that a second      *)
(* start within a lifecycle would find an identity; two handlers, so that   *)
(* one replaces the other.  The run checks liveness: no symmetry.           *)
EXTENDS LifecycleStream
=============================================================================
