--------------------------- MODULE MCSmtpSession ---------------------------
(* A small instance of SmtpSession: two hosted addresses and one that is not. *)
EXTENDS SmtpSession

CONSTANTS r1, r2, far
============================================================================
