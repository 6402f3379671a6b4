------------------------------ MODULE MCDeploy ------------------------------
(* Three transactions of the account, of which find_deployment walks two. *)
EXTENDS Deploy
=============================================================================
