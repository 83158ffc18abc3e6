---------------------------- MODULE MCThrottle ----------------------------
(* Small instances of Throttle: two or three windows instead of four. *)
EXTENDS Throttle

MCWidth == <<2, 4>>
MCMax == <<1, 2>>
MCMaxLoose == <<2, 3>>
=============================================================================
