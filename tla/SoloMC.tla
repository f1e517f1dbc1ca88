--------------------------------- MODULE SoloMC --------------------------------
(***************************************************************************)
(* The instances of TombkeyMC in which one process runs alone: they meet   *)
(* the hypotheses of the theorems about whole runs (SoloProofs), so that   *)
(* TLC checks on them what is proved there.                                *)
(***************************************************************************)
EXTENDS TombkeyMC

ASSUME SoloAssumption == Solo /\ SourcesApart /\ EditsApart

=============================================================================
