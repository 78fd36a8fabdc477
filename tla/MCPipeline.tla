------------------------------ MODULE MCPipeline ------------------------------
(* Instances of Pipeline for TLC. *)
EXTENDS PipelineProps

CONSTANTS r1, r2, t1

\* Two uploads of one tender: the second is a retry, or somebody else's.
MCManifest == [r \in Requests |-> <<t1>>]
=============================================================================
