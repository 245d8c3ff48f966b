----------------------------- MODULE MCDiagnostic -----------------------------
(***************************************************************************)
(* Diagnostic for TLC.  A buffer of three events and one event in a piece: *)
(* an answer takes three pieces, and the buffer turns over between them.   *)
(* Warnings are what the LED's pin itself reports.                         *)
(***************************************************************************)
EXTENDS Diagnostic

LedMasks == {{}, {"error"}, {"error", "warn"}}
===============================================================================
