------------------------- MODULE MCReceiptProcessing -------------------------
(* A small instance of ReceiptProcessing for TLC. *)
EXTENDS ReceiptProcessing

===============================================================================
