---------------------------- MODULE MCLoginLimiter ----------------------------
(* One bucket, three concurrent logins and two concurrent Bearer checks. *)
EXTENDS LoginLimiter

CONSTANTS l1, l2, l3, b1, b2

=============================================================================
