---------------------------- MODULE MCTokenRefresh ----------------------------
(* Two requests and the background refresh on one account. *)
EXTENDS TokenRefresh

CONSTANTS r1, r2

=============================================================================
