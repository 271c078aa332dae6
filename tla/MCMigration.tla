---------------------------- MODULE MCMigration -----------------------------
(***************************************************************************)
(* Instances of Migration.                                                 *)
(***************************************************************************)
EXTENDS Migration

FirstIndex == {1}
AnyIndex == {-1, 1, 2}

AllSteps == {"checks", "state", "plan", "positions", "current", "aux", "auxOnly", "fill",
             "keyframes", "swap", "index", "clean", "modelplan", "models", "aux2",
             "index2", "resetKeyframes"}

\* A stop right after the swap is what run migration_swap_stop is about.
NotAfterSwap == AllSteps \ {"index"}

\* The model migrations and what follows them; a stop after one that wrote events is what
\* run migration_model_stop is about.
ModelSteps == {"models", "aux2", "index2"}
=============================================================================
