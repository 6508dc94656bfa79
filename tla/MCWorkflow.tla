----------------------------- MODULE MCWorkflow -----------------------------
(* Small instances of Workflow for TLC. *)
EXTENDS Workflow

\* Every outcome a stage can have.
AllPlatform == PlatformOutcomes
AllRuntime == RuntimeOutcomes
AllVisual == VisualOutcomes
=============================================================================
