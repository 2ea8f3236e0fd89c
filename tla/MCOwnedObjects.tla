----------------------------- MODULE MCOwnedObjects -----------------------------
(* Small instances of OwnedObjects for TLC.  The three policies are treated     *)
(* alike: two are enough for one to fail and the other not to be skipped.  So   *)
(* are the account and the Service.                                            *)
EXTENDS OwnedObjects

MCPolicy    == <<"ctrl-np">>
MCOthers    == <<"pipeline", "account", "config">>
MCPolicies  == <<"ctrl-np", "egress-np">>
MCMLflow    == <<"mlflow">>
================================================================================
