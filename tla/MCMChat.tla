------------------------------ MODULE MCMChat ------------------------------
(* Two streams for MChat, on two addresses or on one. *)
EXTENDS MChat, TLC

CONSTANTS c1, c2, a1, a2

OwnAddr == (c1 :> a1) @@ (c2 :> a2)

SharedAddr == (c1 :> a1) @@ (c2 :> a1)

(* With one address each, the two clients are interchangeable. *)
Swap == {(c1 :> c2) @@ (c2 :> c1) @@ (a1 :> a2) @@ (a2 :> a1)}

=============================================================================
