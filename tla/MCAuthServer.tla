---------------------------- MODULE MCAuthServer ----------------------------
(* Small instances of AuthServer for TLC. *)
EXTENDS AuthServer, TLC

CONSTANTS k1, n1

\* One registered account.
MCOldRows == <<[guest_key |-> k1, uname |-> n1, profile |-> NewProfile, is_guest |-> FALSE]>>
=============================================================================
