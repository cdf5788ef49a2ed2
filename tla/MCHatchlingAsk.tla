--------------------------- MODULE MCHatchlingAsk ---------------------------
(* Finite instances of HatchlingAsk: one process, the real turn cap.        *)
EXTENDS HatchlingAsk
=============================================================================
