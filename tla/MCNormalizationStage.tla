------------------------- MODULE MCNormalizationStage -------------------------
(***************************************************************************)
(* Small instances of NormalizationStage for TLC.                          *)
(***************************************************************************)
EXTENDS NormalizationStage
===============================================================================
