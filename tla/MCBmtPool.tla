----------------------------- MODULE MCBmtPool -----------------------------
(* Small instances of BmtPool for TLC. *)
EXTENDS BmtPool

\* Three operators whose demands straddle batches, queues and reuse.
MCProgram == <<1, 3, 2>>

=============================================================================
