---------------------------- MODULE MCUpdateFlow ----------------------------
(* The bounds are in the configurations.                                    *)
EXTENDS UpdateFlow
=============================================================================
