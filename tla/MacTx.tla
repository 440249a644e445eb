-------------------------------- MODULE MacTx --------------------------------
(***************************************************************************)
(* The MAC transmit engine of src/src/mac_tx.c: unslotted CSMA-CA, the     *)
(* acknowledgement window, retries, and the retirement (quiesce) of the    *)
(* radio, for one frame at a time.                                         *)
(*                                                                         *)
(* mac_tx_step is polled by a foreground loop with the current symbol      *)
(* count, which wraps, and at most one event.  The engine answers with at  *)
(* most one action for the radio adapter.  Adapter, radio and peer are     *)
(* external: they run on their own, and their events may be delayed, lost, *)
(* reordered or delivered again.                                           *)
(***************************************************************************)
EXTENDS Integers, FiniteSets

CONSTANTS MOD,                   \* 2^32: the symbol counter wraps here
          ACK_SYMBOLS, BACKOFF_SYMBOLS, STOP_SYMBOLS, STOP_STEPS,
          MIN_BE, MAX_BE, MAX_BACKOFFS, MAX_RETRIES,
          CCA_SYMBOLS,           \* 8
          PHY_SYMBOLS,           \* 24: CCA, turnaround, preamble, FCS
          SHORT_BODY,            \* 16: the longest body with short spacing
          SIFS, LIFS,            \* 12 and 40
          Lengths, Lifetimes, WorkLimits,
          Start,                 \* symbol count at mac_tx_init
          MaxGeneration,         \* 0xffffffff in the code
          MaxTime,               \* bound on the symbols of a behaviour
          MaxMail                \* bound on the events kept for redelivery

HALF == MOD \div 2               \* MAC_TX_HALF

\* mac_tx_submit refuses a lifetime that is zero or not below the half range.
ASSUME TxConstants ==
  /\ MOD \in Nat /\ MOD >= 2
  /\ {ACK_SYMBOLS, BACKOFF_SYMBOLS, STOP_SYMBOLS, CCA_SYMBOLS, PHY_SYMBOLS,
      SHORT_BODY, SIFS, LIFS, MIN_BE, MAX_BE, MAX_BACKOFFS, MAX_RETRIES} \subseteq Nat
  /\ STOP_STEPS \in Nat /\ MIN_BE <= MAX_BE /\ SIFS <= LIFS
  /\ \A be \in 0..MAX_BE : 2^be > 0
  /\ ACK_SYMBOLS + LIFS + (2^MAX_BE - 1) * BACKOFF_SYMBOLS < HALF
  /\ Lengths \subseteq Nat
  /\ Lifetimes \subseteq 1..(HALF - 1)
  /\ WorkLimits \subseteq Nat \ {0}
  /\ Start \in 0..(MOD - 1)
  /\ MaxGeneration \in Nat /\ MaxTime \in Nat /\ MaxMail \in Nat \ {0}

VARIABLES t,                     \* true time, in symbols since mac_tx_init
          tx,                    \* mac_tx_t
          radio,                 \* external: what the adapter has in hand
          mail,                  \* external: events it has reported
          air                    \* history: what happened on the air

txVars == <<t, tx, radio, mail, air>>

-----------------------------------------------------------------------------
(* The wrapping symbol counter.                                            *)

Clock(time)   == (Start + time) % MOD
now           == Clock(t)
Sub(a, b)     == (a - b) % MOD
Add(a, d)     == (a + d) % MOD

\* reached(): a is at or after b, for true distances below the half range.
reached(a, b) == Sub(a, b) < HALF

-----------------------------------------------------------------------------
(* The engine's helpers, on the staged control record.                     *)

Airtime(length) == PHY_SYMBOLS + 2 * length
IFS(length)     == IF length <= SHORT_BODY THEN SIFS ELSE LIFS

Id(e) == [generation |-> e.generation, retry |-> e.retries, nb |-> e.nb]

\* Fault: the acknowledgement window is added here and by the caller.
Spacing_Twice(e, end) == [e EXCEPT !.ready_at = Add(end + ACK_SYMBOLS, IFS(e.length))]

\* spacing(): the next attempt waits for the inter-frame spacing after end.
Spacing(e, end) == [e EXCEPT !.ready_at = Add(end, IFS(e.length))]

\* fault(): the slot is kept; an attempt in the radio may have been sent.
FaultWith(e, outcome) ==
  [e EXCEPT !.phase = "FAULT", !.outcome = outcome,
            !.uncertain = IF e.phase = "RADIO" THEN 1 ELSE @]

\* Fault: an attempt still in the radio is dropped without retiring it.
Stop_Abandons(e, outcome) ==
  [e EXCEPT !.outcome = outcome, !.phase = "DONE",
            !.uncertain = IF e.phase = "RADIO" THEN 1 ELSE @]

\* stop(): nothing to retire while drawing; otherwise the radio is quiesced.
Stop(e, outcome) ==
  IF e.phase \in {"DRAW", "DRAW_WAIT"}
  THEN [e EXCEPT !.outcome = outcome, !.phase = "DONE"]
  ELSE LET late == e.phase = "ACK_WAIT" /\ e.ack_requested
                   /\ outcome \notin {"ACKED", "NO_ACK"}
       IN [(IF late THEN Spacing(e, e.tx_end + ACK_SYMBOLS) ELSE e) EXCEPT
             !.outcome = outcome, !.phase = "STOPPING",
             !.uncertain = IF e.phase = "RADIO" THEN 1 ELSE @,
             !.stop_at = Add(now, STOP_SYMBOLS), !.stop_steps = STOP_STEPS]

\* Fault: a retry need not wait for the acknowledgement window to close.
NoAck_AtOnce(e) ==
  Stop([Spacing(e, now) EXCEPT !.retry_pending = e.retries < MAX_RETRIES], "NO_ACK")

\* no_ack(): the full window passes before the next attempt, also after an
\* acknowledgement with the wrong sequence number.
NoAck(e) ==
  Stop([Spacing(e, e.tx_end + ACK_SYMBOLS) EXCEPT
          !.retry_pending = e.retries < MAX_RETRIES], "NO_ACK")

\* save_control().  A finished frame's timers and budgets are dead (the next
\* submit or attempt writes them before they are read): they rest at zero.
Save(e) ==
  tx' = IF e.phase \in {"DONE", "FAULT"}
        THEN [e EXCEPT !.at = 0, !.tx_end = 0, !.stop_at = 0, !.stop_steps = 0,
                       !.deadline = 0, !.steps = 0]
        ELSE e

-----------------------------------------------------------------------------
(* Actions for the adapter.                                                *)

IdleRadio == [op |-> "idle", stop |-> FALSE, at |-> 0, end |-> 0, answered |-> FALSE,
              id |-> [generation |-> 0, retry |-> 0, nb |-> 0]]

\* MAC_TX_ACTION_ATTEMPT: one CCA at the given time, then transmit if clear.
Attempt(e) ==
  radio' = [IdleRadio EXCEPT !.op = "attempt", !.at = t + Sub(e.at, now), !.id = Id(e)]

\* MAC_TX_ACTION_QUIESCE, when the engine has entered STOPPING.
QuiesceFor(e) ==
  radio' = IF e.phase = "STOPPING" THEN [radio EXCEPT !.stop = TRUE]
                                   ELSE radio

-----------------------------------------------------------------------------
(* mac_tx_submit and mac_tx_release                                        *)

\* What the last frame left is cleared, except the spacing it asked for.
Cleared(e) ==
  [e EXCEPT !.nb = 0, !.be = MIN_BE, !.retries = 0, !.outcome = "NONE",
            !.transmissions = 0, !.uncertain = 0, !.retry_pending = FALSE]

Submit(length, ack, lifetime, work) ==
  /\ tx.phase = "IDLE"
  /\ Sub(now, tx.last) < HALF
  /\ tx.generation # MaxGeneration
  /\ tx' = [Cleared(tx) EXCEPT
       !.phase = "DRAW", !.length = length, !.ack_requested = ack,
       !.generation = @ + 1,
       !.ready_at = IF reached(tx.last, @) \/ reached(now, @) THEN now ELSE @,
       !.last = now, !.deadline = Add(now, lifetime), !.steps = work]
  /\ air' = [air EXCEPT !.frames = 0, !.heard = FALSE]
  /\ UNCHANGED <<t, radio, mail>>

Release ==
  /\ tx.phase = "DONE"
  /\ tx' = [tx EXCEPT !.phase = "IDLE"]
  /\ UNCHANGED <<t, radio, mail, air>>

-----------------------------------------------------------------------------
(* mac_tx_step                                                             *)

\* mac_tx_event_t; own says that an ACK's sequence number is the frame's.
Event(kind, id, stamp) == [kind |-> kind, id |-> id, stamp |-> stamp,
                           value |-> 0, own |-> FALSE]

\* A NULL event: a plain poll.
NoEvent == Event("NONE", Id(tx), 0)

Active == tx.phase \notin {"IDLE", "DONE", "FAULT"}

\* The event names the current attempt and lies between two polls.
Fresh(event) ==
  /\ event.kind # "NONE"
  /\ event.id = Id(tx)
  /\ Sub(Clock(event.stamp), tx.last) < HALF
  /\ Sub(now, Clock(event.stamp)) < HALF

KindOf(event) == IF Fresh(event) THEN event.kind ELSE "NONE"

\* Every poll moves last, and a ready_at that is past along with it.
Ticked == [tx EXCEPT !.last = now,
                     !.ready_at = IF reached(tx.last, @) \/ reached(now, @)
                                  THEN now ELSE @]

\* No poll for half the counter's range: the clock cannot be trusted.
StepClockError ==
  /\ Active
  /\ Sub(now, tx.last) >= HALF
  /\ Save(FaultWith(tx, "CLOCK_ERROR"))
  /\ UNCHANGED <<t, radio, mail, air>>

Polled == Active /\ Sub(now, tx.last) < HALF

Expired(kind) == reached(now, tx.deadline) \/ tx.steps = 0 \/ kind = "CANCEL"

Reason(kind) == CASE kind = "CANCEL" -> "CANCELLED"
                  [] kind # "CANCEL" /\ tx.steps = 0 -> "WORK_LIMIT"
                  [] OTHER -> "LIFETIME"

\* The control record of a poll in STOPPING: an expired frame loses its
\* pending retry, and the retirement itself is bounded.
Stopping(kind) ==
  LET e == IF tx.retry_pending /\ Expired(kind)
           THEN [Ticked EXCEPT !.retry_pending = FALSE, !.outcome = Reason(kind)]
           ELSE Ticked
  IN IF reached(now, tx.stop_at) \/ tx.stop_steps = 0
     THEN FaultWith(e, "STOP_FAILED")
     ELSE [e EXCEPT !.stop_steps = @ - 1]

\* QUIESCED: a frame whose fate is unknown may have ended as late as now.
Retired(e, stamp) ==
  LET s == IF e.uncertain = 1
           THEN Spacing(e, stamp + (IF e.ack_requested THEN ACK_SYMBOLS ELSE 0))
           ELSE e
  IN IF e.retry_pending
     THEN [s EXCEPT !.retry_pending = FALSE, !.retries = @ + 1, !.nb = 0,
                    !.be = MIN_BE, !.outcome = "NONE", !.phase = "DRAW"]
     ELSE [s EXCEPT !.phase = "DONE"]

StepStopping(event) ==
  /\ Polled
  /\ tx.phase = "STOPPING"
  /\ LET kind == KindOf(event)
         e    == Stopping(kind)
     IN Save(IF e.phase = "FAULT" THEN e
             ELSE IF kind = "FAILURE" THEN FaultWith(e, "ADAPTER_ERROR")
             ELSE IF kind = "QUIESCED" THEN Retired(e, Clock(event.stamp))
             ELSE e)
  /\ UNCHANGED <<t, radio, mail, air>>

StepFailure(event) ==
  /\ Polled
  /\ tx.phase # "STOPPING"
  /\ KindOf(event) = "FAILURE"
  /\ Save(FaultWith(Ticked, "ADAPTER_ERROR"))
  /\ UNCHANGED <<t, radio, mail, air>>

\* The frame's lifetime or work is used up, or the caller gives it up.
StepExpire(event) ==
  /\ Polled
  /\ tx.phase # "STOPPING"
  /\ KindOf(event) # "FAILURE"
  /\ Expired(KindOf(event))
  /\ Save(Stop(Ticked, Reason(KindOf(event))))
  /\ QuiesceFor(tx')
  /\ UNCHANGED <<t, mail, air>>

\* What is left of the step: one unit of work is spent.
Working(event) == /\ Polled
                  /\ tx.phase # "STOPPING"
                  /\ KindOf(event) # "FAILURE"
                  /\ ~Expired(KindOf(event))

Worked == [Ticked EXCEPT !.steps = @ - 1]

\* Nothing for the current phase: the poll only spends work.
StepIdle(event) ==
  /\ Working(event)
  /\ \/ tx.phase = "DRAW_WAIT" /\ KindOf(event) # "RANDOM"
     \/ tx.phase = "RADIO" /\ KindOf(event) \notin {"BUSY", "SENT"}
  /\ Save(Worked)
  /\ UNCHANGED <<t, radio, mail, air>>

\* MAC_TX_ACTION_RANDOM
StepDraw(event) ==
  /\ Working(event)
  /\ tx.phase = "DRAW"
  /\ Save([Worked EXCEPT !.phase = "DRAW_WAIT"])
  /\ UNCHANGED <<t, radio, mail, air>>

\* The backoff is drawn: schedule the attempt unless it would start too late.
StepRandom(event) ==
  /\ Working(event)
  /\ tx.phase = "DRAW_WAIT"
  /\ KindOf(event) = "RANDOM"
  /\ LET ready == Ticked.ready_at
         at    == Add(IF reached(now, ready) THEN now ELSE ready,
                      (event.value % 2^tx.be) * BACKOFF_SYMBOLS)
         e     == [Worked EXCEPT !.at = at]
     IN IF reached(at, tx.deadline)
        THEN /\ Save([e EXCEPT !.phase = "DONE", !.outcome = "LIFETIME"])
             /\ UNCHANGED radio
        ELSE /\ Save([e EXCEPT !.phase = "RADIO"])
             /\ Attempt(e)
  /\ UNCHANGED <<t, mail, air>>

\* CCA found the channel busy: nothing was sent and the radio is idle.
Busy(e) ==
  LET b == [e EXCEPT !.nb = @ + 1, !.be = IF @ < MAX_BE THEN @ + 1 ELSE @]
  IN IF b.nb > MAX_BACKOFFS
     THEN [b EXCEPT !.phase = "DONE", !.outcome = "CHANNEL_ACCESS"]
     ELSE [b EXCEPT !.phase = "DRAW"]

\* Fault: a frame that needs no acknowledgement frees the slot at once.
Sent_NoQuiesce(e, stamp) ==
  LET s == [e EXCEPT !.transmissions = @ + 1, !.tx_end = stamp, !.phase = "ACK_WAIT"]
  IN IF e.ack_requested THEN s
     ELSE [Spacing(s, stamp) EXCEPT !.phase = "DONE", !.outcome = "UNACKNOWLEDGED"]

Sent(e, stamp) ==
  LET s == [e EXCEPT !.transmissions = @ + 1, !.tx_end = stamp, !.phase = "ACK_WAIT"]
  IN IF e.ack_requested THEN s ELSE Stop(Spacing(s, stamp), "UNACKNOWLEDGED")

StepRadio(event) ==
  /\ Working(event)
  /\ tx.phase = "RADIO"
  /\ KindOf(event) \in {"BUSY", "SENT"}
  /\ LET kind  == KindOf(event)
         stamp == Clock(event.stamp)
         least == IF kind = "BUSY" THEN CCA_SYMBOLS ELSE Airtime(tx.length)
     IN /\ Save(IF ~reached(stamp, Add(tx.at, least))
                THEN FaultWith(Worked, "ADAPTER_ERROR")
                ELSE IF kind = "BUSY" THEN Busy(Worked) ELSE Sent(Worked, stamp))
        /\ QuiesceFor(tx')
  /\ UNCHANGED <<t, mail, air>>

\* Fault: any acknowledgement is taken for ours.
Accepts_AnyDsn(event) == TRUE

\* The sequence number of the acknowledgement is that of the frame.
Accepts(event) == event.own

\* An acknowledgement within the window settles the frame, for or against.
StepAckWait(event) ==
  /\ Working(event)
  /\ tx.phase = "ACK_WAIT"
  /\ LET after   == Sub(Clock(event.stamp), tx.tx_end)
         settled == KindOf(event) = "ACK" /\ after \in 1..ACK_SYMBOLS
         over    == reached(now, Add(tx.tx_end, ACK_SYMBOLS))
     IN /\ Save(IF settled
                THEN IF Accepts(event)
                     THEN Stop(Spacing(Worked, Clock(event.stamp)), "ACKED")
                     ELSE NoAck(Worked)
                ELSE IF over THEN NoAck(Worked) ELSE Worked)
        /\ QuiesceFor(tx')
  /\ UNCHANGED <<t, mail, air>>
-----------------------------------------------------------------------------
(* External: the adapter, the radio and the peer, as mac_tx.h asks of them. *)

\* An event is reported; some of the earlier ones are lost for good.
Post(event) ==
  \E kept \in SUBSET mail : /\ Cardinality(kept) < MaxMail
                            /\ mail' = kept \cup {event}

\* CCA finds the channel busy: nothing is sent and the radio is idle.
ChannelBusy ==
  /\ radio.op = "attempt"
  /\ t >= radio.at + CCA_SYMBOLS
  /\ radio' = [IdleRadio EXCEPT !.stop = radio.stop, !.id = radio.id]
  /\ Post(Event("BUSY", radio.id, t))
  /\ UNCHANGED <<t, tx, air>>

\* CCA finds the channel clear and the frame goes out.
AirStart ==
  /\ radio.op = "attempt"
  /\ t >= radio.at + CCA_SYMBOLS
  /\ radio' = [radio EXCEPT !.op = "air"]
  /\ air' = [air EXCEPT !.frames = @ + 1]
  /\ UNCHANGED <<t, tx, mail>>

\* The air must stay quiet until the acknowledgement window is over.
QuietAfter(end) == end + (IF tx.ack_requested THEN ACK_SYMBOLS ELSE 0) + IFS(tx.length)

\* The frame is out, received by the peer or not; the receiver is armed.
AirEnd ==
  /\ radio.op = "air"
  /\ t >= radio.at + Airtime(tx.length)
  /\ radio' = [radio EXCEPT !.op = "listen", !.end = t]
  /\ \E heard \in {air.heard, TRUE} :
       air' = [air EXCEPT !.heard = heard, !.quiet = QuietAfter(t), !.withdrawn = FALSE]
  /\ Post(Event("SENT", radio.id, t))
  /\ UNCHANGED <<t, tx>>

\* The peer acknowledges what it received, once; early enough, the exchange
\* is over and only the spacing remains.
PeerAck ==
  /\ radio.op = "listen" /\ tx.ack_requested
  /\ air.heard /\ ~radio.answered
  /\ t > radio.end
  /\ radio' = [radio EXCEPT !.answered = TRUE]
  /\ air' = [air EXCEPT !.quiet = IF t <= radio.end + ACK_SYMBOLS
                                  THEN t + IFS(tx.length) ELSE @]
  /\ Post([Event("ACK", radio.id, t) EXCEPT !.own = TRUE])
  /\ UNCHANGED <<t, tx>>

\* An acknowledgement for somebody else's frame is received.
StrayAck ==
  /\ radio.op = "listen"
  /\ Post(Event("ACK", radio.id, t))
  /\ UNCHANGED <<t, tx, radio, air>>

\* The adapter has retired the attempt, cutting a frame on the air short.  An
\* attempt that had not started is withdrawn; it may ask for less quiet time
\* than the frame before it still needs.
Quiesced ==
  /\ radio.stop
  /\ radio' = IdleRadio
  /\ air' = CASE radio.op = "air" -> [air EXCEPT !.quiet = QuietAfter(t), !.withdrawn = FALSE]
              [] radio.op = "attempt" /\ QuietAfter(t) < air.quiet ->
                   [air EXCEPT !.withdrawn = TRUE]
              [] OTHER -> air
  /\ Post(Event("QUIESCED", radio.id, t))
  /\ UNCHANGED <<t, tx>>

\* A quiet time that is over is forgotten; no attempt is scheduled before now.
Tick ==
  /\ t < MaxTime
  /\ t' = t + 1
  /\ air' = IF air.quiet <= t + 1 THEN [air EXCEPT !.quiet = 0, !.withdrawn = FALSE] ELSE air
  /\ UNCHANGED <<tx, radio, mail>>

\* The events a poll may carry: a reported one, however late or often, a
\* drawn number, or a failure or cancellation naming some recent attempt.
Deliverable ==
  LET ids == {Id(tx)} \cup {event.id : event \in mail}
  IN {NoEvent} \cup mail
     \cup {[Event("RANDOM", id, t) EXCEPT !.value = v] : id \in ids, v \in 0..(2^MAX_BE - 1)}
     \cup {Event(kind, id, t) : kind \in {"FAILURE", "CANCEL"}, id \in ids}

-----------------------------------------------------------------------------
\* mac_tx_init
Init ==
  /\ t = 0
  /\ tx = [phase |-> "IDLE", last |-> Start, ready_at |-> Start,
           deadline |-> 0, at |-> 0, tx_end |-> 0, stop_at |-> 0, steps |-> 0,
           stop_steps |-> 0, generation |-> 0, length |-> 0,
           ack_requested |-> FALSE, nb |-> 0, be |-> 0, retries |-> 0,
           outcome |-> "NONE", transmissions |-> 0, uncertain |-> 0,
           retry_pending |-> FALSE]
  /\ radio = IdleRadio
  /\ mail = {}
  /\ air = [frames |-> 0, heard |-> FALSE, quiet |-> 0, withdrawn |-> FALSE]

\* mac_tx_step on one event; in every active phase exactly one disjunct applies.
Step(event) == \/ StepStopping(event) \/ StepFailure(event) \/ StepExpire(event)
               \/ StepIdle(event) \/ StepDraw(event) \/ StepRandom(event)
               \/ StepRadio(event) \/ StepAckWait(event)

Engine == \/ \E length \in Lengths, ack \in BOOLEAN,
                lifetime \in Lifetimes, work \in WorkLimits :
                Submit(length, ack, lifetime, work)
          \/ Release
          \/ StepClockError
          \/ \E event \in Deliverable : Step(event)

World == ChannelBusy \/ AirStart \/ AirEnd \/ PeerAck \/ StrayAck \/ Quiesced

Next == Engine \/ World \/ Tick

Spec == Init /\ [][Next]_txVars

\* The foreground loop keeps polling; nothing else is relied on, not even
\* that the clock advances.
Poll == StepClockError \/ Step(NoEvent)

FairSpec == Spec /\ WF_txVars(Poll)

-----------------------------------------------------------------------------
(* Properties                                                              *)

Phases == {"IDLE", "DRAW", "DRAW_WAIT", "RADIO", "ACK_WAIT", "STOPPING", "DONE", "FAULT"}
Outcomes == {"NONE", "ACKED", "UNACKNOWLEDGED", "CHANNEL_ACCESS", "NO_ACK",
             "CANCELLED", "LIFETIME", "WORK_LIMIT", "CLOCK_ERROR",
             "ADAPTER_ERROR", "STOP_FAILED"}
Symbols == 0..(MOD - 1)
Ids == [generation : 0..MaxGeneration, retry : 0..MAX_RETRIES, nb : 0..(MAX_BACKOFFS + 1)]

\* Every variable holds a value of its C type; retries, backoffs, backoff
\* exponent, transmissions and both work budgets stay within their limits.
TypeOK ==
  /\ t \in 0..MaxTime
  /\ tx \in [phase : Phases, last : Symbols, ready_at : Symbols,
             deadline : Symbols, at : Symbols, tx_end : Symbols,
             stop_at : Symbols, steps : {0} \cup UNION {0..w : w \in WorkLimits},
             stop_steps : 0..STOP_STEPS, generation : 0..MaxGeneration,
             length : {0} \cup Lengths, ack_requested : BOOLEAN,
             nb : 0..(MAX_BACKOFFS + 1), be : 0..MAX_BE,
             retries : 0..MAX_RETRIES, outcome : Outcomes,
             transmissions : 0..(MAX_RETRIES + 1), uncertain : 0..1,
             retry_pending : BOOLEAN]
  /\ radio \in [op : {"idle", "attempt", "air", "listen"}, stop : BOOLEAN,
                at : Nat, end : 0..MaxTime, answered : BOOLEAN, id : Ids]
  /\ mail \subseteq [kind : {"BUSY", "SENT", "ACK", "QUIESCED"}, id : Ids,
                     stamp : 0..MaxTime, value : {0}, own : BOOLEAN]
  /\ air \in [frames : Nat, heard : BOOLEAN, quiet : Nat, withdrawn : BOOLEAN]

\* The frame buffer and the radio have one user: when the engine draws a new
\* backoff, reports DONE or can be handed the next frame, the adapter has
\* nothing in hand and will send nothing more, whatever stale, repeated or
\* lost events came before (mac_tx_step; "QUIESCE must be acknowledged even
\* after logical success or timeout", mac_tx.h:109).
RadioExclusive ==
  tx.phase \in {"IDLE", "DRAW", "DRAW_WAIT", "DONE"} => radio.op = "idle"

\* The report adds up: transmissions counts frames that really went out, and
\* at most one more did, which is then reported as uncertain.
SentIsReported ==
  /\ tx.transmissions <= air.frames
  /\ tx.phase # "RADIO" => air.frames <= tx.transmissions + tx.uncertain

\* ACKED is reported only for a frame the peer received.
AckedWasHeard == tx.outcome = "ACKED" => air.heard

\* The report is true, whatever events of other attempts came in between.
ReportIsTrue == SentIsReported /\ AckedWasHeard

\* No attempt starts inside the last frame's acknowledgement window or the
\* spacing after it, also across frames and for frames cut short (spacing(),
\* no_ack(), and the ready_at ratchet of mac_tx_step, over a wrap of the
\* counter), unless a frame that asks for less was withdrawn in between.
AttemptSpacing == radio.op = "attempt" => radio.at >= air.quiet \/ air.withdrawn

\* The whole of it, as docs/MAC_TX.md:447-454 states it: the window "persists
\* across release and next admission", and a frame cancelled before SENT keeps
\* "an additional ACK window when requested and then IFS".
FullWindowKept == radio.op = "attempt" => radio.at >= air.quiet

\* No attempt is put off by a spacing that has long passed: it starts within an
\* acknowledgement window, a spacing and a backoff (the ready_at ratchet).
AttemptPrompt ==
  radio.op = "attempt" =>
    radio.at <= t + ACK_SYMBOLS + LIFS + (2^MAX_BE - 1) * BACKOFF_SYMBOLS

\* The foreground loop polls an active frame before a quarter of the counter's
\* range has passed.
PolledOften == Active => 2 * Sub(now, tx.last) < HALF

\* The engine is the slot the layer above it relies on (MacSlot).
SlotOf(e) ==
  [phase   |-> CASE e.phase \in {"DRAW_WAIT", "RADIO", "ACK_WAIT"} -> "BUSY"
                 [] OTHER -> e.phase,
   ack     |-> e.phase # "IDLE" /\ e.ack_requested,
   outcome |-> CASE e.phase = "IDLE" \/ e.outcome = "NONE" -> "NONE"
                 [] e.phase # "IDLE" /\ e.outcome \in {"ACKED", "UNACKNOWLEDGED"} -> e.outcome
                 [] OTHER -> "FAILED",
   sent    |-> e.phase # "IDLE" /\ e.transmissions > 0,
   retry   |-> e.phase = "STOPPING" /\ e.retry_pending]

Slot == INSTANCE MacSlot WITH slot <- SlotOf(tx)

\* Every run of the engine is one of the slot: it reports success only for a
\* frame that was sent, starts no attempt after the frame is finished, and
\* becomes free only through DONE and mac_tx_release.
ImplementsSlot == Slot!SlotSpec

\* Every admitted frame is finished: polling alone gets it to DONE or FAULT,
\* with events lost and even with the clock stopped.
Finishes == Active ~> tx.phase \in {"DONE", "FAULT"}
=============================================================================
