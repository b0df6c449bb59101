--------------------------- MODULE MCParallelRuns ---------------------------
(* ParallelRuns for TLC: each step alone, and either as the fallback.        *)
EXTENDS ParallelRuns

AllChains == {<<>>, <<"freeze">>, <<"pause">>, <<"freeze", "pause">>, <<"pause", "freeze">>}
EitherAlone == {<<"freeze">>, <<"pause">>}
=============================================================================
