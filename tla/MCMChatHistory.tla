--------------------------- MODULE MCMChatHistory ---------------------------
(* Two streams that share one address, for MChatHistory. *)
EXTENDS MChatHistory, TLC

CONSTANTS c1, c2, a1

MCPeerAddr == (c1 :> a1) @@ (c2 :> a1)

=============================================================================
