----------------------------- MODULE MCProcedures -----------------------------
(* Small instances of the MAC procedures: a scan with the networks it finds,    *)
(* two association attempts, one attempt that may hear any kind of frame, and   *)
(* the symbol clock. A behaviour is one of the four.                            *)
EXTENDS MacJoin, MacScan, MacTime

VARIABLE part

Heard == INSTANCE MacJoin WITH
  Bodies <- {"RESPONSE", "DATA", "EMPTY", "FOREIGN", "UNSUPPORTED", "COMMAND"}, MaxAttempts <- 1

MCInit == part \in {"SCAN", "JOIN", "HEARD", "TIME"} /\ Init /\ ScanInit /\ TimeInit

MCNext ==
  /\ UNCHANGED part
  /\ \/ part = "JOIN" /\ Next /\ UNCHANGED <<scanVars, timeVars>>
     \/ part = "HEARD" /\ Heard!Next /\ UNCHANGED <<scanVars, timeVars>>
     \/ part = "SCAN" /\ ScanNext /\ UNCHANGED <<vars, timeVars>>
     \/ part = "TIME" /\ TimeNext /\ UNCHANGED <<vars, scanVars>>

MCSpec == MCInit /\ [][MCNext]_<<part, vars, scanVars, timeVars>>
==============================================================================
