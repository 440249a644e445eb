-------------------------------- MODULE MCLive --------------------------------
(* Small instances of what must come to an end: the transmit engine, the        *)
(* transport above it and the radio's owner. A behaviour is one of these parts, *)
(* chosen at the start.                                                         *)
EXTENDS MacTx, Sequences

VARIABLES
  part, ctx, slot, time, adapter, h,
  radio_autoack_state, profile, owned, overflow, rx_put, rx_get, rx_slot, rx_halt, rx_armed,
  head_retry, eligible, fifo, rferr, arrived, pending

Aps == INSTANCE NwkAps WITH
  RETRIES <- 0, Requested <- {"ackapp"}, Opened <- TRUE, MaxTransactions <- 1
Owner == INSTANCE RadioOwner WITH
  SLOTS <- 2, WRAP <- 4, FIFO <- 3, Configs <- {1, 2}, MaxFrames <- 5

ASSUME RadioConstants == Owner!RadioConstants

apsVars == <<ctx, slot, time, adapter, h>>
ownerVars ==
  <<radio_autoack_state, profile, owned, overflow, rx_put, rx_get, rx_slot, rx_halt, rx_armed,
    head_retry, eligible, fifo, rferr, arrived, pending>>
all == <<part, txVars, apsVars, ownerVars>>

MCInit ==
  /\ part \in {"ENGINE", "TRANSPORT", "OWNER"}
  /\ Init /\ Aps!Init /\ Owner!Init
  /\ part # "OWNER" => owned = 1

MCNext ==
  /\ UNCHANGED part
  /\ \/ part = "ENGINE" /\ Next /\ UNCHANGED <<apsVars, ownerVars>>
     \/ part = "TRANSPORT" /\ Aps!Next /\ UNCHANGED <<txVars, ownerVars>>
     \/ part = "OWNER" /\ Owner!Next /\ UNCHANGED <<txVars, apsVars>>

\* The fairness of each part's FairSpec.
Of(name, A) == part = name /\ A
MCFairSpec ==
  /\ MCInit /\ [][MCNext]_all
  /\ WF_txVars(Of("ENGINE", Poll))
  /\ WF_apsVars(Of("TRANSPORT", Aps!MacFinishes)) /\ WF_apsVars(Of("TRANSPORT", Aps!StepFinish))
  /\ WF_apsVars(Of("TRANSPORT", Aps!StepStopped)) /\ WF_apsVars(Of("TRANSPORT", Aps!Settles))
  /\ WF_apsVars(Of("TRANSPORT", Aps!AdapterRetires))
  /\ WF_apsVars(Of("TRANSPORT", \E r \in adapter.reports : Aps!Disarmed(r)))
  /\ WF_apsVars(Of("TRANSPORT", Aps!TransactionTimeout))
  /\ WF_ownerVars(Of("OWNER", Owner!Draining /\ Owner!Receive))
  /\ WF_ownerVars(Of("OWNER", Owner!Draining /\ Owner!Stop))

\* What is begun ends, with events lost and the clock stopped or running: polling
\* alone gets every admitted frame to DONE or FAULT (MacTx!Finishes), every
\* transaction is completed unless the MAC faults (NwkAps!TransactionEnds), and a
\* stopped radio is emptied or faults (RadioOwner!DrainEnds).
Unfinished ==
  CASE part = "ENGINE" -> Active
    [] part = "TRANSPORT" -> ctx.queued /\ ctx.completed = "no" /\ slot.phase # "FAULT"
    [] part = "OWNER" -> Owner!Draining
WorkEnds == Unfinished ~> ~Unfinished

\* RadioOwner's: interrupt and foreground hand over every finished frame exactly
\* once and in order of arrival, and the radio is off only with none left.
HandedOverInOrder == Owner!HandedOverInOrder /\ Owner!OffIsEmpty
==============================================================================
