-------------------------- MODULE MCAdminSettings --------------------------
(***************************************************************************)
(* Small instances of AdminSettings.                                       *)
(***************************************************************************)
EXTENDS AdminSettings

CONSTANTS s1, s2, v1, v2
=============================================================================
