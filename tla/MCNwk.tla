-------------------------------- MODULE MCNwk --------------------------------
(* Small instances of the transport and of its tables. A behaviour is one of    *)
(* four parts: the transport of an open network, the transport that opens it,   *)
(* the tables, and the APS counter.                                             *)
EXTENDS NwkAps, Sequences

VARIABLES part, t, last, duplicate, broadcast, counter, result, past

Opening == INSTANCE NwkAps WITH
  RETRIES <- 0, Requested <- {"announce", "permit", "app"}, Opened <- FALSE, MaxTransactions <- 3

Tables == INSTANCE NwkTables WITH
  MOD <- 8, ENTRIES <- 2, DUPLICATE_TIME <- 3, BROADCAST_TIME <- 2, COUNTERS <- 2,
  Unicasts <- {"a"}, Broadcasts <- {"b", "c", "own"}, Own <- {"own"}, Start <- 6,
  MaxTime <- 5, MaxRequests <- 4, h <- past

ASSUME TablesConstants == Tables!TableConstants

tables == <<t, last, duplicate, broadcast, counter, result, past>>

MCInit ==
  /\ part \in {"OPEN", "OPENING", "TABLES", "COUNTER"}
  /\ IF part = "OPENING" THEN Opening!Init ELSE Init
  /\ Tables!Init

MCNext ==
  /\ UNCHANGED part
  /\ \/ part = "OPEN" /\ Next /\ UNCHANGED tables
     \/ part = "OPENING" /\ Opening!Next /\ UNCHANGED tables
     \/ part = "TABLES" /\ Tables!FrameNext /\ UNCHANGED apsVars
     \/ part = "COUNTER" /\ Tables!CounterNext /\ UNCHANGED apsVars

MCSpec == MCInit /\ [][MCNext]_<<part, tables, apsVars>>

\* NwkTables': a broadcast is taken up once within the network's broadcast-delivery
\* time, whatever the pressure on the table, and a unicast is delivered again in
\* the duplicate window only if enough others came in between.
TakenUpOnce == Tables!TakenUpOnce
\* NwkTables': an APS counter is used again only after the duplicate window.
CountersApart == Tables!CountersApart
==============================================================================
