------------------------------ MODULE MCDeploy ------------------------------
(* Instances of ScheduleDeploy for TLC.                                    *)
EXTENDS ScheduleDeploy
=============================================================================
