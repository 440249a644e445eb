-------------------------------- MODULE MCLink --------------------------------
(* Small instances of the transmit engine on a short counter that wraps early   *)
(* (one frame with a retry, or two frames), of the link driver with the adapter *)
(* and the radio below it, and of the radio's request queue. A behaviour is one *)
(* of these parts.                                                              *)
EXTENDS MacTx, MacLink, RadioQueue

VARIABLE part

\* Two frames, the second of which may meet what is left of the first.
Pair == INSTANCE MacTx WITH
  MaxGeneration <- 2, MAX_RETRIES <- 0, MAX_BACKOFFS <- 0, MaxTime <- 3

MCInit ==
  /\ part \in {"ENGINE", "FRAMES", "LINK", "QUEUE"}
  /\ Init /\ QInit /\ LinkInit
  /\ part # "LINK" => mode = "sleepy"

MCNext ==
  /\ UNCHANGED part
  /\ \/ part = "ENGINE" /\ Next /\ UNCHANGED <<linkVars, qvars>>
     \/ part = "FRAMES" /\ Pair!Next /\ UNCHANGED <<linkVars, qvars>>
     \/ part = "LINK" /\ LinkNext /\ UNCHANGED <<txVars, qvars>>
     \/ part = "QUEUE" /\ QNext /\ UNCHANGED <<txVars, linkVars>>

MCSpec == MCInit /\ [][MCNext]_<<part, txVars, linkVars, qvars>>
==============================================================================
