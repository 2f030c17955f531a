----------------------------- MODULE MCCaretaker -----------------------------
(* A queue of two rows for Caretaker. *)
EXTENDS Caretaker

CONSTANTS l1, l2

MCBefore == <<l1, l2>>
=============================================================================
