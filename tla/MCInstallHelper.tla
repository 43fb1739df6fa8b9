-------------------------- MODULE MCInstallHelper --------------------------
(* Two releases on both platforms; the rollback of the Windows script and   *)
(* the writing of a result may fail.                                        *)
EXTENDS InstallHelper

SomeFaults == {<<"macos", "result">>, <<"windows", "result">>, <<"windows", "rollback">>}
=============================================================================
