------------------------------- MODULE Absent -------------------------------
(* What stands for a field, a name, a signature or an error that is not there. *)
CONSTANT None
=============================================================================
