------------------------ MODULE MCLockBlockingQueue ------------------------
(* An instance of LockBlockingQueue for TLC. *)
EXTENDS LockBlockingQueue

CONSTANTS p1, p2, c1, c2, c3

=============================================================================
