----------------------------- MODULE MCEsxiRun -----------------------------
(* EsxiRun for TLC: one VM with a fallback step, any other with one step.   *)
EXTENDS EsxiRun

CONSTANTS v1, v2

WithFallback == [v \in Vm |-> IF v = v1 THEN 2 ELSE 1]
=============================================================================
