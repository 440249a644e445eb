------------------------------- MODULE MacScan -------------------------------
(* The active scan: mac_scan.c sweeps the channels one at a time, each with a  *)
(* beacon request and a receive window, nwk_candidates.c keeps the networks    *)
(* whose beacons were heard, and nwk_parent.c chooses among them.              *)
(*                                                                             *)
(* The radio adapter carries out one granted action at a time and reports it   *)
(* with the token of the grant.  A report may still be on its way when a       *)
(* cancellation or the deadline has already changed the scan's mind.           *)
EXTENDS Integers, Sequences

CONSTANTS
  Channels,                        \* channels that can be asked for, a set of integers
  LOSSY_RETRIES, BUSY_RETRIES,     \* MAC_SCAN_LOSSY_RETRIES 2, MAC_SCAN_BUSY_RETRIES 3
  CAPACITY,                        \* NWK_CANDIDATES_CAPACITY
  Identities, Scores,              \* who sends beacons, more than CAPACITY, and how strong
  UPDATES,                         \* network update ids count modulo this, 256 in the code
  MaxBeacons                       \* bound: beacons heard, in a first window on the lowest channel alone

VARIABLES
  scan,     \* mac_scan_t without the candidates
  table,    \* nwk_candidates_t: a sequence of candidates
  engine,   \* the engine as the scan sees it
  grant,    \* the action the adapter is carrying out
  report,   \* its report
  receiver, \* what the receiver is really doing
  window,   \* the clock against window_end: "open", "end", "over"
  swept,    \* history: channels swept since the last request was sent there
  heard     \* beacons so far

scanVars == <<scan, table, engine, grant, report, receiver, window, swept, heard>>

Saved == [channel |-> 0, beacons |-> FALSE, rx |-> FALSE]
State(channel, rx) == [channel |-> channel, beacons |-> TRUE, rx |-> rx]
NoGrant == [kind |-> "NONE", token |-> 0, cancel |-> FALSE]
NoMail == [kind |-> "NONE", token |-> 0, state |-> Saved, lossy |-> FALSE, ended |-> FALSE]
IdleTx == [phase |-> "IDLE", outcome |-> "NONE", sent |-> FALSE]
Lowest(s) == CHOOSE c \in s : \A d \in s : c <= d

ScanInit ==
  /\ scan = [phase |-> "IDLE", channel |-> 0, issued |-> FALSE, token |-> 0, reason |-> "NONE",
             cleanup |-> FALSE, stopping |-> FALSE, asked |-> {}, remaining |-> {}, unscanned |-> {}, sent |-> {},
             lossy |-> {}, retries |-> 0, busy |-> 0]
  /\ table = <<>> /\ engine = IdleTx /\ grant = NoGrant /\ report = NoMail /\ receiver = Saved
  /\ window = "open" /\ swept = {} /\ heard = 0

(*** Moves of the scan itself. ***)

Stop(s, reason) ==
  [s EXCEPT !.reason = IF @ = "NONE" THEN reason ELSE @, !.stopping = TRUE,
            !.phase = IF @ = "TX" THEN @ ELSE "RESTORE",
            !.issued = IF s.phase = "TX" THEN @ ELSE FALSE]
ScanFault(s, reason) ==
  [s EXCEPT !.cleanup = @ \/ s.reason # "NONE", !.reason = IF @ = "NONE" THEN reason ELSE @,
            !.phase = "FAULT"]
NextChannel(s) ==
  IF s.remaining = {} THEN Stop(s, "FINISHED")
  ELSE [s EXCEPT !.channel = Lowest(s.remaining), !.remaining = @ \ {Lowest(s.remaining)},
                 !.phase = "CONFIG", !.issued = FALSE, !.retries = 0, !.busy = 0]

\* mac_scan_start, on a context the join has just initialised.
ScanStart ==
  /\ scan.phase = "IDLE" /\ engine.phase = "IDLE" /\ scan.reason = "NONE"
  /\ \E asked \in (SUBSET Channels) \ {{}} :
       scan' = NextChannel([scan EXCEPT !.asked = asked, !.remaining = asked, !.unscanned = asked])
  /\ UNCHANGED <<table, engine, grant, report, receiver, window, swept, heard>>

\* Tokens count grants; at most three are told apart at any time.
ScanTokens == 4
Tick(s) == [s EXCEPT !.token = (@ + 1) % ScanTokens]
GrantKind(phase) == IF phase = "OPEN" THEN "RECEIVE" ELSE phase

\* A grant for the phase the scan is in, under a token of its own.
Grant(s) ==
  /\ scan' = Tick([s EXCEPT !.issued = TRUE])
  /\ grant' = [kind |-> GrantKind(s.phase), token |-> (s.token + 1) % ScanTokens,
               cancel |-> s.phase = "TX" /\ s.stopping /\ engine'.phase \notin {"STOPPING", "DONE", "FAULT"}]

\* The end of a step: another turn of the engine or the restoration is granted
\* at once, a new configuration or window only by the next step.
Publish(s) ==
  IF ~s.issued /\ (s.phase = "RESTORE" \/ (s.phase = "TX" /\ scan.phase = "TX")) THEN Grant(s)
  ELSE scan' = s /\ grant' = IF s.phase \in {"DONE", "FAULT"} THEN NoGrant ELSE grant

ScanActive == scan.phase \notin {"IDLE", "DONE", "FAULT"}
\* A step outside TX finds the engine idle or stops: the lease was broken.
LeaseBroken == scan.phase # "TX" /\ engine.phase # "IDLE"

\* A poll without a report: submission, cancellation, the deadline, the grace.
StepSubmit ==
  /\ scan.phase = "SUBMIT" /\ ~scan.stopping /\ ~LeaseBroken
  /\ \/ engine' = [IdleTx EXCEPT !.phase = "DRAW"] /\ Publish(Tick([scan EXCEPT !.phase = "TX", !.issued = FALSE]))
     \/ engine' = engine /\ Publish(Stop(scan, "TX_ERROR"))
  /\ UNCHANGED <<table, report, receiver, window, swept, heard>>

StepTerminates ==
  /\ ScanActive /\ ~scan.stopping /\ ~LeaseBroken /\ engine' = engine
  /\ \E why \in {"CANCELLED", "LIFETIME", "ADAPTER_ERROR"} : Publish(Stop(scan, why))
  /\ UNCHANGED <<table, report, receiver, window, swept, heard>>

StepOverdue ==
  /\ ScanActive /\ engine' = engine
  /\ \/ scan.stopping /\ Publish(ScanFault(scan, "CLEANUP_FAILED"))
     \/ LeaseBroken /\ Publish(ScanFault(scan, "TX_ERROR"))
     \/ /\ scan.phase = "RX" /\ ~scan.stopping /\ window = "over"
        /\ Publish(Stop(scan, "CLOSE_MISSING"))
  /\ UNCHANGED <<table, report, receiver, window, swept, heard>>

StepGrants ==
  /\ scan.phase \in {"CONFIG", "TX", "OPEN"} /\ ~scan.issued /\ ~LeaseBroken
  /\ engine' = engine /\ Grant(scan)
  /\ UNCHANGED <<table, report, receiver, window, swept, heard>>

(*** Reports. ***)

Reported(kind) == ScanActive /\ report.kind = kind /\ report' = NoMail /\ ~LeaseBroken
Fresh == report.token = scan.token

\* A report with an old token is not this grant's: only the poll happens.
StepStale ==
  /\ ScanActive /\ report.kind # "NONE" /\ ~Fresh /\ report' = NoMail /\ engine' = engine /\ Publish(scan)
  /\ UNCHANGED <<table, receiver, window, swept, heard>>

StepConfigured ==
  /\ Reported("CONFIG") /\ Fresh /\ scan.phase = "CONFIG" /\ engine' = engine
  /\ Publish(IF report.state # State(scan.channel, FALSE) THEN Stop(scan, "ADAPTER_ERROR")
             ELSE [scan EXCEPT !.phase = "SUBMIT"])
  /\ UNCHANGED <<table, receiver, window, swept, heard>>

\* One turn of the engine is over.
StepTx ==
  /\ Reported("TX") /\ Fresh /\ scan.phase = "TX" /\ scan.issued
  /\ LET s == [scan EXCEPT !.issued = FALSE, !.sent = IF engine.sent THEN @ \cup {scan.channel} ELSE @]
         o == [s EXCEPT !.phase = "OPEN"]
     IN CASE engine.phase = "FAULT" -> engine' = engine /\ Publish(ScanFault(s, "TX_ERROR"))
          [] engine.phase = "DONE" ->
               /\ engine' = IdleTx
               /\ Publish(CASE scan.stopping -> Stop(o, scan.reason)
                            [] ~scan.stopping /\ engine.outcome = "CHANNEL_ACCESS" ->
                                 IF s.busy < BUSY_RETRIES
                                 THEN [s EXCEPT !.busy = @ + 1, !.phase = "CONFIG"]
                                 ELSE NextChannel(o)
                            [] ~scan.stopping /\ engine.outcome = "UNACKNOWLEDGED" -> o
                            [] OTHER -> Stop(o, "TX_ERROR"))
          [] OTHER -> engine' = engine /\ Publish(s)
  /\ UNCHANGED <<table, receiver, window, swept, heard>>

StepOpened ==
  /\ Reported("RECEIVE") /\ Fresh /\ scan.phase = "OPEN" /\ engine' = engine
  /\ IF report.state # State(scan.channel, TRUE)
     THEN Publish(Stop(scan, "ADAPTER_ERROR")) /\ UNCHANGED window
     ELSE Publish([scan EXCEPT !.phase = "RX"]) /\ window' = "open"
  /\ UNCHANGED <<table, receiver, swept, heard>>

\* Fault: a window closed early counts.
Closed_Early(m) ==
  IF m.lossy /\ scan.retries < LOSSY_RETRIES
  THEN [scan EXCEPT !.lossy = @ \cup {scan.channel}, !.retries = @ + 1, !.phase = "CONFIG",
                    !.issued = FALSE]
  ELSE NextChannel([scan EXCEPT
         !.lossy = IF m.lossy THEN @ \cup {scan.channel} ELSE @ \ {scan.channel},
         !.unscanned = @ \ {scan.channel}])

\* The window is closed: swept, or once more if frames were lost.
Closed(m) ==
  CASE ~m.ended \/ m.state # State(scan.channel, FALSE) -> Stop(scan, "ADAPTER_ERROR")
    [] m.ended /\ m.state = State(scan.channel, FALSE) /\ m.lossy /\ scan.retries < LOSSY_RETRIES ->
         [scan EXCEPT !.lossy = @ \cup {scan.channel}, !.retries = @ + 1, !.phase = "CONFIG",
                      !.issued = FALSE]
    [] OTHER ->
         NextChannel([scan EXCEPT
           !.lossy = IF m.lossy THEN @ \cup {scan.channel} ELSE @ \ {scan.channel},
           !.unscanned = @ \ {scan.channel}])

StepClosed ==
  /\ Reported("CLOSED") /\ Fresh /\ scan.phase = "RX" /\ ~scan.stopping /\ engine' = engine
  /\ Publish(Closed(report))
  /\ UNCHANGED <<table, receiver, window, swept, heard>>

StepRestored ==
  /\ Reported("RESTORE") /\ Fresh /\ scan.phase = "RESTORE" /\ engine' = engine
  /\ Publish(IF report.state = Saved THEN [scan EXCEPT !.phase = "DONE"]
             ELSE ScanFault(scan, "CLEANUP_FAILED"))
  /\ UNCHANGED <<table, receiver, window, swept, heard>>

\* mac_scan_release, and the join's next scan with a fresh context.
ScanRelease ==
  /\ scan.phase = "DONE" /\ engine.phase = "IDLE"
  /\ scan' = [scan EXCEPT !.phase = "IDLE"]
  /\ UNCHANGED <<table, engine, grant, report, receiver, window, swept, heard>>

(*** The candidates. ***)

Candidate(id, eligible, score, update) ==
  [id |-> id, eligible |-> eligible, score |-> score, update |-> update]
Known(t, id) == \E i \in DOMAIN t : t[i].id = id
\* Who can be heard; networks that are not in the table are alike, so one of them
\* stands for all.
Senders(t) ==
  {id \in Identities : Known(t, id)} \cup {CHOOSE id \in Identities : ~Known(t, id)}
\* What a beacon can say; of one that rules its sender out nothing else counts.
Beacons(t) ==
  {Candidate(id, TRUE, score, update) : id \in Senders(t), score \in Scores, update \in 0..UPDATES-1}
  \cup {Candidate(id, FALSE, 0, 0) : id \in Senders(t)}
At(t, id) == CHOOSE i \in DOMAIN t : t[i].id = id
Without(t, i) == SubSeq(t, 1, i - 1) \o SubSeq(t, i + 1, Len(t))
Weakest(t) == CHOOSE i \in DOMAIN t :
                \A j \in DOMAIN t : t[i].score < t[j].score \/ (t[i].score = t[j].score /\ i <= j)

\* nwk_candidates_consider, for a beacon that decodes: a known network is
\* updated or withdrawn, a new one added, in a full table only over a weaker one.
Consider(t, c) ==
  CASE Known(t, c.id) /\ c.eligible -> [t EXCEPT ![At(t, c.id)] = c]
    [] Known(t, c.id) /\ ~c.eligible -> Without(t, At(t, c.id))
    [] ~Known(t, c.id) /\ ~c.eligible -> t
    [] ~Known(t, c.id) /\ c.eligible /\ Len(t) < CAPACITY -> Append(t, c)
    [] OTHER -> IF c.score > t[Weakest(t)].score THEN [t EXCEPT ![Weakest(t)] = c] ELSE t

\* A beacon in the window reaches the table; one with a bad CRC does not.
Beacon ==
  /\ scan.phase = "RX" /\ ~scan.stopping /\ receiver.rx /\ receiver.beacons /\ heard < MaxBeacons /\ scan.retries = 0
  /\ scan.asked = {Lowest(Channels)}
  /\ heard' = heard + 1
  /\ \E c \in Beacons(table) : table' = Consider(table, c)
  /\ UNCHANGED <<scan, engine, grant, report, receiver, window, swept>>

(*** nwk_parent_select: potential parents with a usable link, no older than   ***)
(*** the minimum, and among them one that no other is newer than; equals go   ***)
(*** by link cost (in a rejoin by depth first, which no property tells).       ***)

HALF == UPDATES \div 2
Newer(a, b) == (a - b) % UPDATES
\* Fault: a candidate older than the minimum is taken.
Potential_Old(t, cost, minimum) == {i \in DOMAIN t : cost[i] <= 3}
Potential(t, cost, minimum) ==
  {i \in DOMAIN t : cost[i] <= 3 /\ Newer(t[i].update, minimum) < HALF}
Ambiguous(t, cost, minimum) ==
  \E i \in DOMAIN t : cost[i] <= 3 /\ Newer(t[i].update, minimum) = HALF
Dominating(t, p) == {i \in p : \A j \in p : Newer(t[i].update, t[j].update) < HALF}
Select(t, cost, minimum) ==
  LET p == Potential(t, cost, minimum)
      d == Dominating(t, p)
  IN IF Ambiguous(t, cost, minimum) \/ d = {} THEN 0
     ELSE CHOOSE i \in d : \A j \in d : cost[i] < cost[j] \/ (cost[i] = cost[j] /\ i <= j)

(*** The adapter and the engine behind it (external to this module). ***)

Report(kind, state) == [NoMail EXCEPT !.kind = kind, !.token = grant.token, !.state = state]
Idle == report.kind = "NONE"

\* A grant is carried out, or goes wrong: the report tells the real state.
Configures ==
  /\ Idle /\ grant.kind = "CONFIG" /\ grant' = NoGrant
  /\ receiver' \in {State(scan.channel, FALSE), receiver}
  /\ report' = Report("CONFIG", receiver')
  /\ UNCHANGED <<scan, table, engine, window, swept, heard>>

TxPhases == {"DRAW", "RADIO", "STOPPING", "DONE", "FAULT"}
Pumps ==
  /\ Idle /\ grant.kind = "TX" /\ grant' = NoGrant /\ report' = Report("TX", receiver)
  /\ \E phase \in TxPhases, sent \in BOOLEAN :
       /\ sent => engine.sent \/ (engine.phase \in {"RADIO", "STOPPING"} /\ ~grant.cancel)
       /\ engine.sent => sent
       /\ phase = "DRAW" => engine.phase \in {"DRAW", "RADIO"} /\ ~grant.cancel
       /\ phase = "RADIO" => engine.phase \in {"DRAW", "RADIO"} /\ ~grant.cancel
       /\ engine' = [phase |-> phase, sent |-> sent,
                 outcome |-> IF phase # "DONE" THEN "NONE"
                             ELSE IF sent /\ ~grant.cancel THEN "UNACKNOWLEDGED"
                             ELSE IF engine.phase = "RADIO" /\ ~grant.cancel THEN "CHANNEL_ACCESS" ELSE "CANCELLED"]
       /\ receiver' = IF engine'.outcome = "UNACKNOWLEDGED" THEN [receiver EXCEPT !.rx = TRUE] ELSE receiver
       /\ swept' = IF sent THEN swept \ {receiver.channel} ELSE swept
  /\ UNCHANGED <<scan, table, window, heard>>

Opens ==
  /\ Idle /\ grant.kind = "RECEIVE" /\ grant' = NoGrant
  /\ report' = Report("RECEIVE", receiver) /\ window' = "open"
  /\ UNCHANGED <<scan, table, engine, receiver, swept, heard>>

\* The window is closed on its own, at its end or before it.
Closes ==
  /\ Idle /\ scan.phase = "RX" /\ ~scan.stopping /\ grant = NoGrant /\ receiver.rx
  /\ receiver' = [receiver EXCEPT !.rx = FALSE]
  /\ \E lossy \in BOOLEAN :
       report' = [Report("CLOSED", receiver') EXCEPT !.token = scan.token, !.lossy = lossy,
                                                 !.ended = window # "open"]
  /\ swept' = IF window # "open" THEN swept \cup {receiver.channel} ELSE swept
  /\ UNCHANGED <<scan, table, engine, grant, window, heard>>

Restores ==
  /\ Idle /\ grant.kind = "RESTORE" /\ grant' = NoGrant
  /\ receiver' \in {Saved, receiver}
  /\ report' = Report("RESTORE", receiver')
  /\ UNCHANGED <<scan, table, engine, window, swept, heard>>

WindowPasses ==
  /\ scan.phase = "RX" /\ window # "over"
  /\ window' = IF window = "open" THEN "end" ELSE "over"
  /\ UNCHANGED <<scan, table, engine, grant, report, receiver, swept, heard>>

ScanNext ==
  \/ ScanStart \/ StepSubmit \/ StepTerminates \/ StepOverdue \/ StepGrants \/ StepStale
  \/ StepConfigured \/ StepTx \/ StepOpened \/ StepClosed \/ StepRestored \/ ScanRelease
  \/ Beacon \/ Configures \/ Pumps \/ Opens \/ Closes \/ Restores \/ WindowPasses

ScanSpec == ScanInit /\ [][ScanNext]_scanVars

(* A channel leaves the unscanned set only for a window of the full length,    *)
(* opened on that channel after its last beacon request, and a scan that is    *)
(* done left the radio as it found it and the engine idle, whatever was        *)
(* cancelled, expired or reported late on the way (mac_scan.c:290-360).        *)
ScanIsHonest ==
  /\ scan.asked \ scan.unscanned \subseteq swept
  /\ scan.phase = "DONE" => receiver = Saved /\ engine.phase = "IDLE"

(* The chosen parent is never older than the network state the device holds,   *)
(* and no usable candidate is newer than it, in the wrapping order of update   *)
(* ids, for any link costs (nwk_parent.c:55-107).                              *)
ChosenIsNewest ==
  \A cost \in [DOMAIN table -> {1, 4}], minimum \in 0..UPDATES-1 :
    LET c == Select(table, cost, minimum) IN
    c # 0 => /\ Newer(table[c].update, minimum) < HALF
             /\ \A j \in DOMAIN table :
                  /\ cost[j] <= 3
                  /\ Newer(table[j].update, minimum) < HALF
                  => Newer(table[j].update, minimum) <= Newer(table[c].update, minimum)
=============================================================================
