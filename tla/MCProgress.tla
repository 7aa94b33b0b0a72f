----------------------------- MODULE MCProgress -----------------------------
(***************************************************************************)
(* What must come to an end: the claim loops of a host whose owner starts, *)
(* stops, suspends and resumes cars, and the requests on the bridge.  The  *)
(* two share no state, so each behaviour picks one and lets it run while   *)
(* the other rests, as in MCDesktop; the one that rests has nothing to do  *)
(* that fairness would owe it.                                             *)
(***************************************************************************)
EXTENDS MCCarHost, Bridge

VARIABLE busy   \* "host" or "bridge", the one that runs

progressVars == <<busy, vars, bridgeVars>>

ProgressInit == busy \in {"host", "bridge"} /\ Init /\ BridgeInit

ProgressNext ==
    \/ busy = "host" /\ Next /\ UNCHANGED <<busy, bridgeVars>>
    \/ busy = "bridge" /\ BridgeNext /\ UNCHANGED <<busy, vars>>

ProgressSpec ==
    /\ ProgressInit /\ [][ProgressNext]_progressVars
    /\ LoopFairness
    /\ BridgeFairness
=============================================================================
