---------------------------- MODULE MCManagement ----------------------------
(***************************************************************************)
(* The instance of Management that TLC checks: one thread besides the      *)
(* dispatcher, three commands and one notification.                        *)
(***************************************************************************)
EXTENDS Management
=============================================================================
