---------------------------- MODULE MCManifests ----------------------------
(* A small instance of Manifests for TLC. *)
EXTENDS Manifests

\* Two people who may make manifests, and somebody who may not.
MCPrincipal == {[tenant |-> "a", role |-> "operator"],
                [tenant |-> "b", role |-> "operator"], [tenant |-> "a", role |-> "guest"]}
============================================================================
