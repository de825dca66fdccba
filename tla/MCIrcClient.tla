---------------------------- MODULE MCIrcClient -----------------------------
(* One other user and two channels for IrcClient. *)
EXTENDS IrcClient

CONSTANTS me, u, a, b

=============================================================================
