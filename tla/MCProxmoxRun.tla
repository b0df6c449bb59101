---------------------------- MODULE MCProxmoxRun ----------------------------
(* ProxmoxRun for TLC: chains short enough to enumerate, long enough that   *)
(* every step is once the first choice and once the fallback.               *)
EXTENDS ProxmoxRun, TLC

\* For cfg files: a tuple cannot be written there.
AllChains == {<<>>, <<"plain">>, <<"freeze", "pause">>, <<"memory">>,
              <<"freeze", "memory">>}
FallbackChains == {<<"freeze", "pause">>, <<"memory", "freeze">>}
=============================================================================
