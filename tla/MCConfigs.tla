----------------------------- MODULE MCConfigs -----------------------------
(***************************************************************************)
(* Small instances of Configs.                                             *)
(***************************************************************************)
EXTENDS Configs
=============================================================================
