---------------------------- MODULE MCPollServer ----------------------------
(* Four clients for PollServer. *)
EXTENDS PollServer

CONSTANTS w, x, y, z

(* The clients are interchangeable, so that w stands for each of them: its *)
(* request is not passed over for ever (RedisServer::start).               *)
OneServedOrStuck == ServedOrStuck(w)

=============================================================================
