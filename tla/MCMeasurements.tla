--------------------------- MODULE MCMeasurements ---------------------------
(* The three tools that share nothing, checked side by side: a behaviour   *)
(* is one of a single tool, the others stay in their initial state.        *)
EXTENDS TxTimestamp, MgmtClient, Profiler

VARIABLE subject

all == <<subject, txVars, mgVars, prVars>>

Init == /\ subject \in {"stamps", "management", "profiler"}
        /\ TxInit /\ MgInit /\ PrInit

Next ==
  \/ subject = "stamps" /\ TxNext /\ UNCHANGED <<subject, mgVars, prVars>>
  \/ subject = "management" /\ MgNext /\ UNCHANGED <<subject, txVars, prVars>>
  \/ subject = "profiler" /\ PrNext /\ UNCHANGED <<subject, txVars, mgVars>>

Spec == Init /\ [][Next]_all /\ TxFairness

TypeOK == TxTypeOK /\ MgTypeOK /\ PrTypeOK
=============================================================================
