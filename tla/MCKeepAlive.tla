---------------------------- MODULE MCKeepAlive ----------------------------
(* Instances of KeepAlive for TLC: the constants are given in the .cfg.      *)
EXTENDS KeepAlive, TLC

=============================================================================
