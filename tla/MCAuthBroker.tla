---------------------------- MODULE MCAuthBroker ----------------------------
(* Instances of AuthBroker for TLC.                                        *)
EXTENDS AuthBroker
=============================================================================
