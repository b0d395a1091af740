-------------------------- MODULE MCFormulaOffsets --------------------------
(* Formulas of up to two stacked calls with windows of one to three bars.   *)
EXTENDS FormulaOffsets

MCPeriods == 0..3

=============================================================================
