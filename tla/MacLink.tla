------------------------------- MODULE MacLink -------------------------------
(* The transmit path of the joining device: the link driver's step             *)
(* (mac_link_driver.c) between its clients (the transport, the association and *)
(* the scan), the interval engine (mac_tx.c) and the adapter that owns the     *)
(* radio (mac_adapter.c over mac_attempt.c and mac_radio.c).                   *)
(*                                                                             *)
(* One driver call is one action.  Between two calls frames arrive, the clock  *)
(* passes the end of a window or the frame's deadline, the random byte comes,  *)
(* and the client may cancel.  Waits for the next symbol are stuttering steps. *)
EXTENDS Integers, Sequences

CONSTANTS
  RETRIES, BACKOFFS,           \* MAC_TX_MAX_RETRIES 3, MAC_TX_MAX_BACKOFFS 4
  STOPS,                       \* MAC_TX_STOP_STEPS, 96 in this build
  HEADS,                       \* bound: frames unread in the radio
  MaxSubmits,                  \* bound: frames sent in a behaviour
  MaxFrames                    \* bound: frames received for one sent frame

VARIABLES
  mode,   \* the client's stage; "sleepy": READY with CC2530_RX_OFF_IDLE
  up,     \* the client: flow and what it granted
  eng,    \* mac_tx_interval_t
  drv,    \* mac_link_driver_t
  adp,    \* mac_adapter.c: status, requested, the receipt's held frame
  ether,  \* mac_radio.c: the radio's phase and unread frames
  win,    \* where the clock is in the current window: "in", "unsure", "past"
  late    \* the clock has reached the engine's deadline

linkVars == <<mode, up, eng, drv, adp, ether, win, late>>

Modes == {"scan", "assoc", "runtime", "sleepy"}
Flows(m) == CASE m = "scan" -> {"scan"} [] m = "assoc" -> {"assoc", "poll"}
              [] OTHER -> {"data", "bcast"}
Arms(flow) == flow \in {"data", "bcast", "assoc"}
Policy(flow) == CASE flow = "scan" -> "KEEP_RAW"
                  [] flow \in {"data", "poll"} -> "KEEP_AUTOACK"
                  [] OTHER -> "STOP_RX"

Nothing == [kind |-> "none", at |-> <<0, 0>>, win |-> "in"]
FrameKinds == {"match", "wrong", "data"}
LinkId(e) == <<e.gen, e.retries, e.nb>>

IdleClient == [flow |-> "none", stage |-> "none", armed |-> FALSE, issued |-> 0,
               disarmed |-> FALSE, cancel |-> FALSE, cancel_sent |-> FALSE]
IdleEngine(gen) == [phase |-> "IDLE", gen |-> gen, retries |-> 0, nb |-> 0, outcome |-> "NONE",
                    again |-> FALSE, ack |-> FALSE, stop_steps |-> 0, by |-> Nothing]
NoObservation == [kind |-> "none", id |-> <<0, 0, 0>>, frame |-> Nothing, sure |-> TRUE]

LinkInit ==
  /\ mode \in Modes /\ up = IdleClient /\ eng = IdleEngine(0)
  /\ drv = [action |-> "none", radio |-> "none", random |-> "no", fault |-> "none", held |-> FALSE]
  /\ adp = [phase |-> "OFF", goal |-> "NONE", stop |-> FALSE, wait |-> FALSE, held |-> Nothing,
            sure |-> TRUE, bound |-> FALSE, normal |-> FALSE, lossy |-> FALSE, trans |-> FALSE,
            policy |-> "STOP_RX", id |-> <<0, 0, 0>>, req |-> "NONE", obs |-> NoObservation]
  /\ ether = [phase |-> "OFF", heads |-> <<>>, lost |-> FALSE, tx |-> <<0, 0>>, count |-> 0]
  /\ win = "in" /\ late = FALSE

(*** The interval engine: a step returns the engine and the action it emits. ***)

Result(e, emit) == [eng |-> e, emit |-> emit]
\* interval_stop(): a drawn frame has nothing in the radio.
IntervalStop(e, outcome) ==
  IF e.phase \in {"DRAW", "DRAW_WAIT"}
  THEN Result([e EXCEPT !.phase = "DONE", !.outcome = outcome], "none")
  ELSE Result([e EXCEPT !.phase = "STOPPING", !.outcome = outcome,
                        !.stop_steps = STOPS], "QUIESCE")
IntervalNoAck(e) == IntervalStop([e EXCEPT !.again = e.retries < RETRIES], "NO_ACK")
Why(kind) == IF kind = "CANCEL" THEN "CANCELLED" ELSE "LIFETIME"

\* mac_tx_interval_step, the event already known to be the current attempt's.
IntervalStep(e, ev, expired) ==
  LET gone == expired \/ ev.kind = "CANCEL" IN
  CASE e.phase = "STOPPING" ->
         LET d == IF e.again /\ gone
                  THEN [e EXCEPT !.again = FALSE, !.outcome = Why(ev.kind)] ELSE e
         IN IF e.stop_steps = 0
            THEN Result([d EXCEPT !.phase = "FAULT", !.outcome = "STOP_FAILED"], "none")
            ELSE Result([d EXCEPT !.stop_steps = @ - 1], "none")
    [] e.phase # "STOPPING" /\ gone -> IntervalStop(e, Why(ev.kind))
    [] e.phase = "DRAW" /\ ~gone -> Result([e EXCEPT !.phase = "DRAW_WAIT"], "RANDOM")
    [] e.phase = "DRAW_WAIT" /\ ev.kind = "RANDOM" /\ ~gone ->
         IF ev.sure THEN Result([e EXCEPT !.phase = "RADIO"], "ATTEMPT")
         ELSE Result([e EXCEPT !.phase = "DONE", !.outcome = "LIFETIME"], "none")
    [] e.phase = "RADIO" /\ ev.kind = "SENT_INTERVAL" /\ ~gone ->
         IF e.ack THEN Result([e EXCEPT !.phase = "ACK_WAIT"], "COLLECT")
                  ELSE IntervalStop([e EXCEPT !.phase = "ACK_WAIT"], "UNACKNOWLEDGED")
    [] e.phase = "ACK_WAIT" /\ ev.kind = "ACK_INTERVAL" /\ ~gone ->
         IF ~ev.sure THEN IntervalStop(e, "TIMING_UNCERTAIN")
         ELSE IF ev.frame.kind = "match"
              THEN IntervalStop([e EXCEPT !.by = ev.frame], "ACKED") ELSE IntervalNoAck(e)
    [] e.phase = "ACK_WAIT" /\ ev.kind = "RX_CLOSED" /\ ~gone -> IntervalNoAck(e)
    [] OTHER -> Result(e, "none")

\* mac_tx_observed_step: BUSY and RETIRED are seen only after a plain step.
ObservedStep(e, ev, expired) ==
  LET fresh == IF ev.id = LinkId(e) THEN ev ELSE NoObservation
      r == IntervalStep(e, IF fresh.kind \in {"BUSY_INTERVAL", "RETIRED"}
                           THEN NoObservation ELSE fresh, expired)
      d == r.eng
  IN CASE fresh.kind = "BUSY_INTERVAL" /\ e.phase = "RADIO" /\ d.phase = "RADIO" ->
            Result(IF d.nb + 1 > BACKOFFS
                   THEN [d EXCEPT !.nb = @ + 1, !.phase = "DONE", !.outcome = "CHANNEL_ACCESS"]
                   ELSE [d EXCEPT !.nb = @ + 1, !.phase = "DRAW"], "none")
       [] fresh.kind = "RETIRED" /\ e.phase = "STOPPING" /\ d.phase = "STOPPING" ->
            Result(IF d.again
                   THEN [d EXCEPT !.again = FALSE, !.retries = @ + 1, !.nb = 0,
                                  !.outcome = "NONE", !.phase = "DRAW"]
                   ELSE [d EXCEPT !.phase = "DONE"], "none")
       [] OTHER -> r

(*** The adapter: a step returns the adapter, the radio and the window.       ***)

After(a, r, w) == [adp |-> a, ether |-> r, win |-> w]
Ready(a) == a.obs # NoObservation
PublishEvent(a, kind) == [a EXCEPT !.obs = [kind |-> kind, id |-> a.id, frame |-> Nothing, sure |-> TRUE]]
Faulty(a) == [a EXCEPT !.phase = "FAULT"]

\* mac_radio.c: the radio's own phase after a prepare, an attempt, an unused
\* preparation's stop, and a resume or a configuration that opens the receiver.
RadioPrepared(r) == [r EXCEPT !.phase = "PREP"]
RadioAttempted(r, id) == [r EXCEPT !.phase = "RX", !.tx = id, !.count = 0]
RadioUnprepared(r) == [r EXCEPT !.phase = "OFF"]
RadioOpened(r) == [r EXCEPT !.phase = "RX", !.count = 0]

\* mac_attempt_run: one CCA and one transmission.  The receiver acknowledges
\* frames from then on iff the frame asked for an acknowledgement.
BusyAttempt(a, r) ==
  After([a EXCEPT !.goal = "BUSY", !.stop = FALSE, !.wait = FALSE, !.phase = "CLOSING",
                  !.trans = FALSE, !.normal = FALSE, !.held = Nothing],
        RadioAttempted(r, r.tx), win)
Transmitted(a, r, e, k, sure) ==
  After([a EXCEPT !.phase = "REPORT", !.trans = TRUE, !.normal = e.ack, !.bound = TRUE, !.sure = sure,
                  !.held = IF k = "none" THEN Nothing
                           ELSE [kind |-> k, at |-> <<e.gen, e.retries>>,
                                 win |-> IF sure THEN "in" ELSE "unsure"]],
        RadioAttempted(r, <<e.gen, e.retries>>), "in")
AttemptRun(a, r, e) ==
  {BusyAttempt(a, r)} \cup
  {Transmitted(a, r, e, k, sure) : k \in FrameKinds \cup {"none"}, sure \in BOOLEAN}

\* frame(): only a collected ACK is named as one.  The time of the reading
\* bounds the time of the arrival.
PublishFrame(a, w) ==
  LET sure == IF a.bound THEN a.sure ELSE w = "in" IN
  [a EXCEPT !.bound = TRUE, !.sure = sure,
     !.obs = [kind |-> IF a.phase = "COLLECT" /\ a.held.kind \in {"match", "wrong"}
                       THEN "ACK_INTERVAL" ELSE "FRAME",
              id |-> a.id, frame |-> a.held, sure |-> sure]]

\* mac_attempt_stop
StopRadio(a, r) ==
  IF r.heads = <<>> /\ ~r.lost
  THEN <<[a EXCEPT !.stop = TRUE, !.phase = "OFF"], [r EXCEPT !.phase = "OFF"]>>
  ELSE <<[a EXCEPT !.stop = TRUE, !.phase = "DRAINING"], [r EXCEPT !.phase = "DRAIN"]>>

\* Fault: the bound of the last frame's arrival is kept for the next one.
Receive_KeepsBound(a, r) ==
  IF r.heads # <<>>
  THEN <<[a EXCEPT !.held = Head(r.heads)], [r EXCEPT !.heads = Tail(@)]>>
  ELSE LET b == IF a.phase = "DRAINING"
                THEN [a EXCEPT !.phase = "CLOSING", !.wait = FALSE] ELSE a
       IN <<[b EXCEPT !.lossy = a.lossy \/ r.lost], [r EXCEPT !.lost = FALSE]>>

\* mac_attempt_receive: a frame, a loss, or nothing.
Receive(a, r) ==
  LET tolerated == /\ a.normal \/ (a.goal \in {"NONE", "USER"} /\ a.phase # "COLLECT")
                   /\ a.phase \in {"RX", "COLLECT", "CLOSING", "DRAINING"}
      b == IF a.phase = "DRAINING" THEN [a EXCEPT !.phase = "CLOSING", !.wait = FALSE] ELSE a
  IN CASE r.heads # <<>> ->
            <<[a EXCEPT !.held = Head(r.heads), !.bound = FALSE], [r EXCEPT !.heads = Tail(@)]>>
       [] r.heads = <<>> /\ r.lost /\ ~tolerated -> <<Faulty(a), r>>
       [] OTHER -> <<[b EXCEPT !.lossy = a.lossy \/ r.lost], [r EXCEPT !.lost = FALSE]>>

\* The end of mac_adapter_step: retirement, closing, the published closure.
Conclude(a, r, w) ==
  LET kept == \/ a.req = "ACKED" /\ a.policy = "KEEP_AUTOACK" /\ a.normal
              \/ a.trans /\ a.policy = "KEEP_RAW" /\ a.req = "UNACKNOWLEDGED"
      b == CASE a.phase = "RETIRING" /\ ~a.stop -> [a EXCEPT !.phase = "CLOSING", !.wait = FALSE]
             [] a.phase = "COLLECT" /\ w = "past" ->
                  [a EXCEPT !.goal = "ACK_WINDOW", !.phase = "CLOSING", !.wait = FALSE]
             [] OTHER -> a
      pair == IF b.phase = "CLOSING" /\ (~b.wait \/ w = "past") THEN StopRadio(b, r) ELSE Receive(b, r)
  IN CASE a.phase = "RETIRING" /\ ~a.stop /\ kept ->
            After([a EXCEPT !.normal = IF a.req = "ACKED" THEN TRUE ELSE @,
                            !.phase = "RX", !.goal = "RETIRE"], r, w)
       [] a.phase = "RX" /\ a.goal = "RETIRE" -> After(PublishEvent(a, "RETIRED"), r, w)
       [] a.phase = "OFF" ->
            After(CASE a.goal = "NONE" -> a
                    [] a.goal = "BUSY" -> PublishEvent(a, "BUSY_INTERVAL")
                    [] a.goal = "ACK_WINDOW" -> PublishEvent(a, "RX_CLOSED")
                    [] a.goal = "RETIRE" -> PublishEvent(a, "RETIRED")
                    [] a.goal = "USER" -> PublishEvent(a, "CLOSED"), r, w)
       [] OTHER -> After(pair[1], pair[2], w)

AdapterStep(a, r, w, e) ==
  CASE Ready(a) \/ a.phase \in {"WAIT_MAC", "PREPARED"} -> {After(a, r, w)}
    [] a.phase = "SCHEDULED" /\ ~Ready(a) ->
         {After(a, r, w)} \cup (IF late THEN {} ELSE AttemptRun(a, r, e))
    [] a.phase = "REPORT" /\ ~Ready(a) -> {After(PublishEvent(a, "SENT_INTERVAL"), r, w)}
    [] a.phase \notin {"WAIT_MAC", "PREPARED", "SCHEDULED", "REPORT"} /\ a.held # Nothing /\ ~Ready(a) ->
         {After(PublishFrame(a, w), r, w)}
    [] OTHER -> {Conclude(a, r, w)}

\* mac_adapter_consume
Consume(a) ==
  [a EXCEPT !.obs = NoObservation,
            !.held = IF a.obs.kind \in {"FRAME", "ACK_INTERVAL"} THEN Nothing ELSE @,
            !.phase = IF a.obs.kind = "SENT_INTERVAL" THEN "WAIT_MAC" ELSE @,
            !.goal = IF a.obs.kind \in {"CLOSED", "RETIRED", "BUSY_INTERVAL", "RX_CLOSED"}
                     THEN "NONE" ELSE @]

Refused == [phase |-> "refused"]
\* mac_adapter_accept
Accept(a, e, kind) ==
  CASE Ready(a) \/ a.id # LinkId(e) -> Refused
    [] kind = "ATTEMPT" /\ a.phase = "PREPARED" /\ e.phase = "RADIO" ->
         [a EXCEPT !.phase = "SCHEDULED"]
    [] kind = "COLLECT" /\ a.phase = "WAIT_MAC" /\ a.trans /\ e.phase = "ACK_WAIT" ->
         [a EXCEPT !.phase = "COLLECT"]
    [] kind = "QUIESCE" /\ e.phase = "STOPPING" /\ a.phase \notin {"RX", "RETIRING", "FAULT"} ->
         [a EXCEPT !.goal = "RETIRE", !.req = e.outcome,
                   !.phase = IF @ \in {"DRAINING", "OFF"} THEN @ ELSE "RETIRING"]
    [] OTHER -> Refused

\* mac_adapter_prepare, unprepare, close and open; configure wants the same as open.
Prepare(a, r, e, flow) ==
  IF /\ a.phase = "OFF" /\ ~Ready(a) /\ a.held = Nothing /\ r.phase = "OFF"
     /\ e.phase = "DRAW" /\ (Policy(flow) = "KEEP_AUTOACK" => e.ack)
  THEN [a EXCEPT !.id = LinkId(e), !.policy = Policy(flow), !.normal = FALSE, !.trans = FALSE,
                 !.stop = FALSE, !.wait = FALSE, !.lossy = FALSE, !.goal = "NONE",
                 !.phase = "PREPARED"]
  ELSE Refused
Unprepare(a, e) ==
  IF ~Ready(a) /\ a.phase = "PREPARED" /\ e.phase = "DONE" /\ a.id[1] = e.gen
  THEN [a EXCEPT !.phase = "OFF"] ELSE Refused
Close(a, wait) ==
  IF a.phase = "RX" /\ ~Ready(a)
  THEN [a EXCEPT !.wait = wait, !.stop = FALSE, !.goal = "USER", !.phase = "CLOSING"] ELSE Refused
IdleOff(a, r) == a.phase = "OFF" /\ ~Ready(a) /\ a.held = Nothing /\ a.goal = "NONE" /\ r.phase = "OFF"
Open(a, r) ==
  IF IdleOff(a, r)
  THEN [a EXCEPT !.phase = "RX", !.normal = TRUE, !.stop = FALSE, !.wait = FALSE, !.lossy = FALSE]
  ELSE Refused
(*** The driver.                                                              ***)

Running == drv.fault = "none"
Stepping == Running /\ drv.radio = "none" /\ drv.random # "wait"
Fail(why) == drv' = [drv EXCEPT !.fault = why]

\* A granted engine action goes to the adapter; the random byte to its source.
AcceptRadio ==
  /\ Running /\ drv.radio # "none"
  /\ IF drv.radio = "RANDOM"
     THEN drv' = [drv EXCEPT !.radio = "none", !.random = "wait"] /\ UNCHANGED adp
     ELSE LET a == Accept(adp, eng, drv.radio) IN
          IF a = Refused THEN Fail("refused") /\ UNCHANGED adp
          ELSE adp' = a /\ drv' = [drv EXCEPT !.radio = "none"]
  /\ UNCHANGED <<mode, up, eng, ether, win, late>>

\* mac_link_driver_random, or the deadline passes first.
Random ==
  /\ Running /\ drv.random = "wait"
  /\ drv' = [drv EXCEPT !.random = IF late THEN "late" ELSE "ready"]
  /\ UNCHANGED <<mode, up, eng, adp, ether, win, late>>

\* Any adapter call may find the radio or its timer broken: the link stops.
RadioFails ==
  /\ Running /\ adp' = Faulty(adp) /\ Fail("radio")
  /\ UNCHANGED <<mode, up, eng, ether, win, late>>

(* Grants that want the radio off first: close_off closes a live receiver,     *)
(* lets the adapter finish what it is doing, and then carries the grant out.   *)
WantsRadioOff ==
  \/ drv.action \in {"CONFIG", "ARM", "CLOSE"}
  \/ drv.action = "TX" /\ eng.phase = "DRAW" /\ adp.phase # "PREPARED"
\* Fault: a closure the adapter has not yet reported counts as done.
Settled_IgnoresGoal == adp.phase = "OFF" /\ ~Ready(adp)
Settled == adp.phase = "OFF" /\ ~Ready(adp) /\ adp.goal = "NONE"

GrantClosesRadio ==
  /\ Stepping /\ WantsRadioOff /\ ~Settled /\ adp.phase = "RX" /\ ~Ready(adp)
  /\ adp' = Close(adp, FALSE)
  /\ UNCHANGED <<mode, up, eng, drv, ether, win, late>>

GrantDrains ==
  /\ Stepping /\ WantsRadioOff /\ ~Settled /\ ~(adp.phase = "RX" /\ ~Ready(adp))
  /\ \E s \in AdapterStep(adp, ether, win, eng) :
       /\ ether' = s.ether /\ win' = s.win
       /\ CASE s.adp.phase = "FAULT" -> adp' = s.adp /\ Fail("radio")
            [] Ready(s.adp) /\ s.adp.obs.kind \notin {"FRAME", "CLOSED"} ->
                 adp' = s.adp /\ Fail("STATE")
            [] OTHER -> adp' = (IF Ready(s.adp) THEN Consume(s.adp) ELSE s.adp) /\ UNCHANGED drv
  /\ UNCHANGED <<mode, up, eng, late>>

GrantConfig ==
  /\ Stepping /\ drv.action = "CONFIG" /\ Settled
  /\ LET a == IF mode \in {"runtime", "sleepy"} THEN Open(adp, ether)
              ELSE IF IdleOff(adp, ether) THEN adp ELSE Refused
     IN IF a = Refused THEN Fail("refused") /\ UNCHANGED <<adp, ether>>
        ELSE /\ adp' = a /\ drv' = [drv EXCEPT !.action = "none"]
             /\ ether' = IF a.phase = "RX" THEN RadioOpened(ether) ELSE ether
  /\ UNCHANGED <<mode, up, eng, win, late>>

GrantPrepares ==
  /\ Stepping /\ WantsRadioOff /\ drv.action \in {"ARM", "TX"} /\ Settled
  /\ LET a == Prepare(adp, ether, eng, up.flow) IN
     IF a = Refused THEN Fail("refused") /\ UNCHANGED <<adp, ether, up>>
     ELSE /\ adp' = a /\ ether' = RadioPrepared(ether)
          /\ drv' = [drv EXCEPT !.action = IF @ = "ARM" THEN "none" ELSE @]
          /\ up' = [up EXCEPT !.armed = drv.action = "ARM"]
  /\ UNCHANGED <<mode, eng, win, late>>

GrantCloses ==
  /\ Stepping /\ drv.action = "CLOSE" /\ Settled
  /\ drv' = [drv EXCEPT !.action = "none"]
  /\ up' = IdleClient /\ eng' = IdleEngine(eng.gen)
  /\ UNCHANGED <<mode, adp, ether, win, late>>

\* DISARM gives a prepared frame back; anything else must be at rest already.
GrantDisarms ==
  /\ Stepping /\ drv.action = "DISARM"
  /\ LET a == IF adp.phase = "PREPARED" THEN Unprepare(adp, eng) ELSE adp
         rest == adp.phase \in {"OFF", "RX"} /\ ~Ready(adp) /\ adp.goal = "NONE"
     IN CASE a = Refused -> Fail("refused") /\ UNCHANGED <<adp, ether, up>>
          [] adp.phase # "PREPARED" /\ ~rest -> Fail("STATE") /\ UNCHANGED <<adp, ether, up>>
          [] OTHER ->
               /\ adp' = a
               /\ ether' = IF adp.phase = "PREPARED" THEN RadioUnprepared(ether) ELSE ether
               /\ \E hold \in BOOLEAN :
                    /\ hold => mode = "sleepy" /\ up.flow = "data" /\ eng.outcome \in {"NO_ACK", "ACKED"}
                    /\ drv' = [drv EXCEPT !.action = "none", !.held = @ \/ hold]
               /\ up' = [up EXCEPT !.disarmed = TRUE]
  /\ UNCHANGED <<mode, eng, win, late>>

GrantRadio ==
  /\ Stepping /\ drv.action \in {"RANDOM", "ATTEMPT", "COLLECT", "QUIESCE"}
  /\ drv' = [drv EXCEPT !.radio = drv.action, !.action = "none"]
  /\ UNCHANGED <<mode, up, eng, adp, ether, win, late>>

GrantReceive ==
  /\ Stepping /\ drv.action = "RECEIVE"
  /\ IF adp.phase # "RX" \/ adp.normal
     THEN Fail("COVERAGE") /\ UNCHANGED <<up, win>>
     ELSE /\ drv' = [drv EXCEPT !.action = "none"] /\ up' = [up EXCEPT !.stage = "window"]
          /\ win' = "in"
  /\ UNCHANGED <<mode, eng, adp, ether, late>>

(* The clients, as far as the driver sees them: a call with an event or none    *)
(* returns the client, the engine and the next grant.                           *)
Client(u, e, action) == [up |-> u, eng |-> e, action |-> action]

\* nwk_aps_step (and mac_join_step while it requests): prepared before drawing.
ArmingStep(ev) ==
  LET giveup == up.cancel /\ ~up.cancel_sent /\ ev = NoObservation
      r == ObservedStep(eng, IF giveup THEN [NoObservation EXCEPT !.kind = "CANCEL", !.id = LinkId(eng)] ELSE ev, late)
      u == [up EXCEPT !.cancel_sent = @ \/ giveup]
  IN CASE eng.phase = "DRAW" /\ ~up.armed /\ ~up.cancel /\ ~late ->
            Client([up EXCEPT !.issued = 1], eng, IF up.issued = 0 THEN "ARM" ELSE "none")
       [] eng.phase = "DONE" /\ up.disarmed -> Client(IdleClient, IdleEngine(eng.gen), "none")
       [] r.eng.phase = "DRAW" /\ ~up.cancel ->
            Client([u EXCEPT !.armed = FALSE, !.disarmed = FALSE, !.issued = 1], r.eng, "ARM")
       [] r.eng.phase = "DONE" /\ ~up.disarmed ->
            Client([u EXCEPT !.issued = 2], r.eng, IF up.issued = 2 THEN "none" ELSE "DISARM")
       [] OTHER -> Client(u, r.eng, r.emit)

\* The end of a scan's or poll's transmission, reported by the driver.
PumpEnds(e) ==
  IF up.flow = "poll" THEN Client([up EXCEPT !.stage = "rx"], e, "none")
  ELSE IF e.outcome = "UNACKNOWLEDGED" /\ ~up.cancel
       THEN Client([up EXCEPT !.stage = "open"], IdleEngine(e.gen), "RECEIVE")
       ELSE Client(IdleClient, IdleEngine(e.gen), "none")

ClientStep(ev) ==
  CASE Arms(up.flow) -> ArmingStep(ev)
    [] up.flow = "scan" /\ up.stage = "window" /\ ev.kind = "CLOSED" ->
         Client(IdleClient, eng, "none")
    [] up.flow = "poll" /\ up.stage = "rx" -> Client([up EXCEPT !.stage = "close"], eng, "CLOSE")
    [] OTHER -> Client(up, eng, "none")

\* Before the adapter is stepped: the scan window is closed, the runtime's
\* receiver opened, and a sleepy one switched off when nothing needs it.
Tended(a, r) ==
  LET quiet == eng.phase = "IDLE" /\ ~Ready(a) IN
  CASE mode = "scan" /\ up.stage = "window" /\ a.phase = "RX" /\ ~Ready(a) ->
         Close(a, win # "past")
    [] mode = "runtime" /\ a.phase = "OFF" /\ quiet -> Open(a, r)
    [] mode = "sleepy" /\ quiet /\ a.goal = "NONE" /\ a.phase = "RX" /\ ~drv.held ->
         Close(a, FALSE)
    [] mode = "sleepy" /\ quiet /\ a.goal = "NONE" /\ a.phase = "OFF" /\ drv.held ->
         Open(a, r)
    [] OTHER -> a
TendedRadio(a, r) == IF adp.phase = "OFF" /\ a.phase = "RX" THEN RadioOpened(r) ELSE r

\* One event reaches the consumer, and only then leaves the adapter.
Deliver(ev, s) ==
  LET pump == drv.action = "TX"
      cancels == pump /\ up.cancel /\ eng.phase # "STOPPING"
      r == ObservedStep(eng, IF cancels THEN [NoObservation EXCEPT !.kind = "CANCEL", !.id = LinkId(eng)]
                             ELSE ev, late)
      done == pump /\ r.eng.phase = "DONE"
      a == IF done /\ s.adp.phase = "PREPARED" THEN Unprepare(s.adp, r.eng) ELSE s.adp
      c == IF done THEN PumpEnds(r.eng)
           ELSE IF pump THEN Client(up, r.eng, "TX") ELSE ClientStep(ev)
  IN /\ up' = c.up /\ eng' = c.eng /\ win' = s.win
     /\ ether' = IF a # Refused /\ a.phase = "OFF" /\ s.ether.phase = "PREP"
                 THEN RadioUnprepared(s.ether) ELSE s.ether
     /\ adp' = IF a = Refused THEN s.adp ELSE IF Ready(a) THEN Consume(a) ELSE a
     /\ drv' = [drv EXCEPT !.action = c.action, !.random = "no",
                           !.radio = IF pump THEN r.emit ELSE "none",
                           !.fault = IF a = Refused THEN "refused"
                                     ELSE IF c.eng.phase = "FAULT" THEN "consumer" ELSE "none"]

DriverPoll ==
  /\ Stepping /\ ~WantsRadioOff /\ drv.action \in {"none", "TX"}
  /\ LET t == Tended(adp, ether) IN
     IF t = Refused
     THEN Fail("refused") /\ UNCHANGED <<up, eng, adp, ether, win>>
     ELSE IF drv.random # "no"
     THEN \E sure \in BOOLEAN :
            /\ (drv.random = "late" => sure)
            /\ Deliver(IF drv.random = "late" THEN NoObservation
                       ELSE [NoObservation EXCEPT !.kind = "RANDOM", !.id = LinkId(eng), !.sure = sure],
                       After(t, TendedRadio(t, ether), win))
     ELSE \E s \in AdapterStep(t, TendedRadio(t, ether), win, eng) :
            CASE s.adp.phase = "FAULT" ->
                   adp' = s.adp /\ ether' = s.ether /\ win' = s.win /\ Fail("radio") /\ UNCHANGED <<up, eng>>
              [] s.adp.obs.kind = "FRAME" ->
                   adp' = Consume(s.adp) /\ ether' = s.ether /\ win' = s.win /\ UNCHANGED <<up, eng, drv>>
              [] OTHER -> Deliver(IF s.adp.obs.kind = "CLOSED" /\ Arms(up.flow)
                                  THEN NoObservation ELSE s.adp.obs, s)
  /\ UNCHANGED <<mode, late>>

(*** The clients' own moves, the clock and the air.                           ***)

LinkIdle == Running /\ up.flow = "none" /\ drv.action = "none" /\ drv.radio = "none"

\* nwk_aps_transmit or a procedure's own submission, in a consumer call that
\* grants the preparation at once.
ClientSubmit ==
  /\ LinkIdle /\ eng.phase = "IDLE" /\ eng.gen < MaxSubmits
  /\ \E flow \in Flows(mode) :
       /\ up' = [IdleClient EXCEPT !.flow = flow, !.stage = "tx", !.issued = IF Arms(flow) THEN 1 ELSE 0]
       /\ eng' = [IdleEngine(eng.gen + 1) EXCEPT !.phase = "DRAW", !.ack = flow \notin {"bcast", "scan"}]
       /\ drv' = [drv EXCEPT !.action = IF Arms(flow) THEN "ARM" ELSE "TX"]
  /\ late' = FALSE
  /\ UNCHANGED <<mode, adp, ether, win>>

Cancel ==
  /\ Running /\ up.flow # "none" /\ up.stage = "tx" /\ ~up.cancel
  /\ up' = [up EXCEPT !.cancel = TRUE]
  /\ UNCHANGED <<mode, eng, drv, adp, ether, win, late>>

\* The next stage of the join: configure the radio for it.
Reconfigure ==
  /\ LinkIdle /\ eng.gen < MaxSubmits
  /\ mode' \in Modes \ {mode}
  /\ drv' = [drv EXCEPT !.action = "CONFIG"]
  /\ UNCHANGED <<up, eng, adp, ether, win, late>>

HoldEnds ==
  /\ Running /\ drv.held /\ drv' = [drv EXCEPT !.held = FALSE]
  /\ UNCHANGED <<mode, up, eng, adp, ether, win, late>>

AckWindowPasses ==
  /\ Running /\ win # "past" /\ (eng.phase = "ACK_WAIT" \/ up.stage = "window" \/ adp.phase = "REPORT")
  /\ win' = IF win = "in" THEN "unsure" ELSE "past"
  /\ UNCHANGED <<mode, up, eng, drv, adp, ether, late>>

DeadlinePasses ==
  /\ Running /\ ~late /\ eng.phase \notin {"IDLE", "DONE", "FAULT"} /\ late' = TRUE
  /\ UNCHANGED <<mode, up, eng, drv, adp, ether, win>>

FrameArrives ==
  /\ Running /\ ether.phase = "RX" /\ ether.count < MaxFrames
  /\ \/ \E k \in FrameKinds :
          /\ Len(ether.heads) < HEADS /\ ~ether.lost
          /\ ether' = [ether EXCEPT !.count = @ + 1,
                       !.heads = Append(@, [kind |-> k, at |-> ether.tx, win |-> win])]
     \/ Len(ether.heads) = HEADS /\ ~ether.lost /\ ether' = [ether EXCEPT !.lost = TRUE]
  /\ UNCHANGED <<mode, up, eng, drv, adp, win, late>>

DriverStep ==
  \/ AcceptRadio \/ GrantClosesRadio \/ GrantDrains \/ GrantConfig \/ GrantPrepares
  \/ GrantCloses \/ GrantDisarms \/ GrantRadio \/ GrantReceive \/ DriverPoll
  \/ RadioFails

LinkNext ==
  \/ DriverStep \/ Random \/ ClientSubmit \/ Cancel \/ Reconfigure
  \/ HoldEnds \/ AckWindowPasses \/ DeadlinePasses \/ FrameArrives

LinkSpec == LinkInit /\ [][LinkNext]_linkVars

(* The driver never asks the adapter for what it refuses, and never finds it   *)
(* in a state it does not expect, whatever the clock, the frames and the       *)
(* clients' cancellations do between two driver calls (mac_link_driver.c:295,  *)
(* :395-405, :583; mac_adapter_accept, prepare, unprepare, close and open).    *)
DriverInStep == drv.fault \notin {"refused", "STATE", "COVERAGE"}

(* A frame counts as acknowledged only for an acknowledgement that reached the *)
(* radio after this very attempt's own transmission and within its window,     *)
(* although the engine sees it only later, through the adapter's bounds, and   *)
(* although unread frames outlive attempts (mac_tx.c:633-640, mac_adapter.c:   *)
(* 79-101).                                                                    *)
AckIsOwn ==
  eng.outcome = "ACKED" => eng.by.at = <<eng.gen, eng.retries>> /\ eng.by.win = "in"

(* Every retirement the engine asks for is confirmed within its budget.        *)
NeverStopFailed == eng.outcome # "STOP_FAILED"
=============================================================================
