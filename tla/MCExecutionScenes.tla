-------------------------- MODULE MCExecutionScenes --------------------------
(* Two ways to run the execution layer under one configuration: everything  *)
(* at once about one key, and reconcile() confined to startup, with one     *)
(* payload per key, over two keys.                                          *)
EXTENDS MCExecution

CONSTANTS k1, p1    \* the key of the race, the payload of every startup call

VARIABLE scene

Calling == {w \in Workers : pc[w] # "idle"}
Startup == Orderly /\ \A w \in Calling : payload(w) = p1
Race == \A w \in Calling : key(w) = k1

MCInit == Init /\ scene \in {"race", "startup"}
MCNext ==
    /\ Next
    /\ scene' = scene
    /\ IF scene = "race" THEN Race' ELSE Startup'
MCSpec == MCInit /\ [][MCNext]_<<vars, scene>>

----------------------------------------------------------------------------
\* "By construction there is at most one" terminal outcome of a key
\* (ledger.py:151): so it is with one payload per key and reconcile() confined
\* to startup.
AtMostOneTerminalAtStartup == scene = "startup" => AtMostOneTerminal
============================================================================
