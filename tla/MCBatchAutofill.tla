--------------------------- MODULE MCBatchAutofill ---------------------------
(* Two inner transactions of two accounts.                                  *)
EXTENDS BatchAutofill
=============================================================================
