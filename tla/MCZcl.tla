-------------------------------- MODULE MCZcl --------------------------------
(* Small instances of the ZCL servers. They do not interact: a behaviour is one *)
(* of them, chosen at the start.                                                *)
EXTENDS ZclSensor, TLC

VARIABLES part, c, tlast, issued, id, until, time, start, found, over, wanted, answers

temperature == <<c, tlast, issued>>
identify == <<id, until>>
dispatch == <<start, found, over, wanted, answers>>
all == <<zvars, temperature, identify, time, dispatch, part>>

Report(min, max, change) == [min |-> min, max |-> max, change |-> change]
MCDefaults == [e \in 0..1 |-> Report(1, 2, e + 1)]

Settings(name, min, max, change) ==
  Report(min, max, change) @@ [id |-> name, typed |-> TRUE, received |-> FALSE]
Setting(name, typed, v) == [id |-> name, typed |-> typed, value |-> v]
Global(cmd, records, cut) ==
  [cmd |-> cmd, records |-> records, cut |-> cut, quiet |-> FALSE, value |-> 1]
Binding(cmd, k, endpoint) ==
  [cmd |-> cmd, cluster |-> k, endpoint |-> endpoint, coordinator |-> TRUE, ours |-> TRUE,
   cut |-> FALSE]

\* Configurations that enable, restore and are cut short, a write cut short after a
\* good record, the Identify commands, bindings, and frames for somebody else.
MCRequests ==
  {Global("CONFIGURE", <<Settings(0, 0, 0, 2)>>, FALSE),
   Global("CONFIGURE", <<Settings(0, 0, 0, 2), Settings(1, 4, 4, 0)>>, TRUE),
   Global("CONFIGURE", <<Settings(0, 4, 0, 0), Settings(1, 2, 1, 0)>>, FALSE),
   Global("WRITE", <<Setting("IDENTIFY", TRUE, 2)>>, TRUE),
   Global("READ_CONFIGURATION", <<>>, FALSE), Global("READ", <<>>, FALSE),
   Global("IDENTIFY", <<>>, FALSE), Global("QUERY", <<>>, FALSE),
   Binding("UNBIND", 0, 1), Binding("BIND", 0, 2),
   [cmd |-> "MGMT_BIND", start |-> 1, cut |-> FALSE], [cmd |-> "FOREIGN"]}

T == INSTANCE ZclTemperature WITH
  HALF <- 6, PENDING_LIMIT <- 3, AGE_MAX <- 4, NEVER <- 9, SERIAL_MAX <- 3, Values <- 0..2,
  UNKNOWN <- 8, TheDefaults <- Report(1, 3, 2), MaxTime <- 9, last <- tlast,
  Requests <- {[records |-> r, cut |-> k] : k \in BOOLEAN, r \in
    {<<Settings("MEASURED", 0, 0, 1)>>, <<Settings("MEASURED", 9, 0, 0)>>,
     <<Settings("MEASURED", 0, 9, 0), Settings("MEASURED", 2, 1, 0)>>}}

I == INSTANCE ZclIdentify WITH
  HALF <- 10, SECOND <- 3, MaxTime <- 12,
  Requests <-
    {Global(cmd, r, k) : k \in BOOLEAN,
       cmd \in {"WRITE", "WRITE_UNDIVIDED", "WRITE_NO_RESPONSE", "IDENTIFY", "QUERY", "READ"},
       r \in {<<Setting("IDENTIFY_TIME", TRUE, 3)>>,
              <<Setting("IDENTIFY_TIME", TRUE, 2), Setting("OTHER", TRUE, 9)>>}}

D == INSTANCE ZclDispatch WITH
  TOP <- 7, Attributes <- {0, 2, 3, 6, 7}, Unreadable <- {3}, Size <- [a \in 0..7 |-> a],
  Asked <- <<7, 2, 1, 3, 0, 2>>, Rooms <- {2, 3, 4, 7, 10, 13}

Init ==
  /\ part \in {"SENSOR", "TEMPERATURE", "IDENTIFY", "DISPATCH"}
  /\ ZInit /\ T!TInit /\ I!IInit /\ D!DInit
  /\ part # "SENSOR" => s.sensed[0] = 0 /\ clocked[1] = 0

Next ==
  \/ part = "SENSOR" /\ ZNext /\ UNCHANGED <<temperature, identify, time, dispatch, part>>
  \/ part = "TEMPERATURE" /\ T!TNext /\ UNCHANGED <<zvars, identify, dispatch, part>>
  \/ part = "IDENTIFY" /\ I!INext /\ UNCHANGED <<zvars, temperature, dispatch, part>>
  \/ part = "DISPATCH" /\ D!DNext /\ UNCHANGED <<zvars, temperature, identify, time, part>>

Spec == Init /\ [][Next]_all

\* ZclTemperature's and ZclIdentify's: the reporting interval runs from when the
\* last report was sent, the next one is compared with the value that report
\* carried, and identification ends exactly when the last request said, over the
\* wrap of the clock and however unevenly the servers are polled.
TimersAreTrue ==
  /\ part = "TEMPERATURE" => T!IntervalIsTrue
  /\ part = "IDENTIFY" => I!IdentifyOnTime
\* ZclDispatch's: a client that pages through Discover or Read Attributes gets
\* every identifier once and in order.
PagesAreWhole == D!PagesAreWhole
==============================================================================
