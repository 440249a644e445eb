---------------------------- MODULE MacTxProofs ----------------------------
(***************************************************************************)
(* Proofs about the transmit engine of MacTx, for any counter width, any    *)
(* timing constants and any number of retries, backoffs, frames and lost,  *)
(* late or repeated events: RadioExclusive, ReportIsTrue, that the engine  *)
(* implements MacSlot, AttemptSpacing and AttemptPrompt.                   *)
(*                                                                         *)
(* A poll is first summed up as one of ten moves (StepMoves), which speak  *)
(* of the attempt's identity, the counts and the radio, and leave out the  *)
(* clock and the timers: the first part depends only on which event names  *)
(* which attempt.  The second part sums a poll up once more, by what it    *)
(* does to the timers (StepTimed), and follows the quiet time on the       *)
(* wrapping symbol counter.                                                *)
(***************************************************************************)
EXTENDS MacTx, TLAPS

TxFields == {"phase", "last", "ready_at", "deadline", "at", "tx_end", "stop_at",
             "steps", "stop_steps", "generation", "length", "ack_requested",
             "nb", "be", "retries", "outcome", "transmissions", "uncertain",
             "retry_pending"}

\* A control record, with types for the fields the argument needs.
Control(e) ==
  /\ e = [f \in TxFields |-> e[f]]
  /\ e.phase \in Phases /\ e.outcome \in Outcomes
  /\ e.generation \in Nat /\ e.retries \in Nat /\ e.nb \in Nat
  /\ e.transmissions \in Nat /\ e.uncertain \in {0, 1}
  /\ e.ack_requested \in BOOLEAN /\ e.retry_pending \in BOOLEAN

\* The fields that say which attempt e is and what is known of it.
Like(e, d) ==
  /\ e.generation = d.generation /\ e.retries = d.retries /\ e.nb = d.nb
  /\ e.ack_requested = d.ack_requested /\ e.transmissions = d.transmissions

\* The same, and the engine is at the same place.
SameAs(e, d) ==
  /\ Like(e, d) /\ e.phase = d.phase /\ e.outcome = d.outcome
  /\ e.uncertain = d.uncertain /\ e.retry_pending = d.retry_pending

Failures == Outcomes \ {"NONE", "ACKED", "UNACKNOWLEDGED"}

Unsure(e) == IF e.phase = "RADIO" THEN 1 ELSE e.uncertain

-----------------------------------------------------------------------------
(* The engine's helpers                                                    *)

\* spacing() moves ready_at and nothing else.
LEMMA SpacingLike ==
  ASSUME NEW e, NEW end, Control(e)
  PROVE  Control(Spacing(e, end)) /\ SameAs(Spacing(e, end), e)
BY DEF Control, TxFields, SameAs, Like, Spacing

\* The clock part of a poll moves last, ready_at and steps.
LEMMA TickedLike ==
  ASSUME Control(tx)
  PROVE  /\ Control(Ticked) /\ SameAs(Ticked, tx)
         /\ Control(Worked) /\ SameAs(Worked, tx)
<1>1. Control(Ticked) /\ SameAs(Ticked, tx)
  BY DEF Control, TxFields, SameAs, Like, Ticked
<1>2. Control(Worked) /\ SameAs(Worked, Ticked)
  BY <1>1 DEF Control, TxFields, SameAs, Like, Worked
<1> QED
  BY <1>1, <1>2 DEF SameAs, Like

\* fault() keeps the attempt and marks one in the radio as uncertain.
LEMMA FaultLike ==
  ASSUME NEW e, Control(e), NEW outcome \in Outcomes
  PROVE  LET n == FaultWith(e, outcome)
         IN /\ Control(n) /\ Like(n, e) /\ n.phase = "FAULT" /\ n.outcome = outcome
            /\ n.uncertain = Unsure(e) /\ n.retry_pending = e.retry_pending
BY DEF Control, TxFields, Like, FaultWith, Unsure, Phases

\* stop() keeps the attempt: DONE while drawing, STOPPING otherwise.
LEMMA StopLike ==
  ASSUME NEW e, Control(e), NEW outcome \in Outcomes
  PROVE  LET n == Stop(e, outcome)
         IN /\ Control(n) /\ Like(n, e) /\ n.outcome = outcome
            /\ n.phase = IF e.phase \in {"DRAW", "DRAW_WAIT"} THEN "DONE" ELSE "STOPPING"
            /\ n.uncertain = Unsure(e) /\ n.retry_pending = e.retry_pending
<1>1. CASE e.phase \in {"DRAW", "DRAW_WAIT"}
  BY <1>1 DEF Control, TxFields, Like, Stop, Unsure, Phases
<1>2. CASE e.phase \notin {"DRAW", "DRAW_WAIT"}
  <2> DEFINE d(late) == IF late THEN Spacing(e, e.tx_end + ACK_SYMBOLS) ELSE e
  <2> DEFINE n(late) == [d(late) EXCEPT
                           !.outcome = outcome, !.phase = "STOPPING",
                           !.uncertain = IF e.phase = "RADIO" THEN 1 ELSE @,
                           !.stop_at = Add(now, STOP_SYMBOLS), !.stop_steps = STOP_STEPS]
  <2>1. \A late \in BOOLEAN : Control(d(late)) /\ SameAs(d(late), e)
    BY SpacingLike DEF SameAs, Like
  <2> HIDE DEF d
  <2>2. \A late \in BOOLEAN :
          /\ Control(n(late)) /\ Like(n(late), e) /\ n(late).outcome = outcome
          /\ n(late).phase = "STOPPING" /\ n(late).uncertain = Unsure(e)
          /\ n(late).retry_pending = e.retry_pending
    <3> TAKE late \in BOOLEAN
    <3>1. Control(d(late)) /\ SameAs(d(late), e)
      BY <2>1
    <3> QED
      BY <3>1 DEF Control, TxFields, Like, SameAs, Unsure, Phases
  <2>3. Stop(e, outcome) = n(e.phase = "ACK_WAIT" /\ e.ack_requested
                             /\ outcome \notin {"ACKED", "NO_ACK"})
    BY <1>2 DEF Stop, d
  <2> HIDE DEF n
  <2> QED
    BY <1>2, <2>2, <2>3
<1> QED
  BY <1>1, <1>2

\* no_ack() asks for a retry while one is left.
LEMMA NoAckLike ==
  ASSUME NEW e, Control(e), e.phase = "ACK_WAIT"
  PROVE  LET n == NoAck(e)
         IN /\ Control(n) /\ Like(n, e) /\ n.outcome = "NO_ACK" /\ n.phase = "STOPPING"
            /\ n.uncertain = e.uncertain /\ n.retry_pending = (e.retries < MAX_RETRIES)
<1> DEFINE s == Spacing(e, e.tx_end + ACK_SYMBOLS)
<1> DEFINE d == [s EXCEPT !.retry_pending = e.retries < MAX_RETRIES]
<1>1. Control(s) /\ SameAs(s, e)
  BY SpacingLike
<1>2. Control(d) /\ Like(d, e) /\ d.phase = "ACK_WAIT" /\ d.uncertain = e.uncertain
      /\ d.retry_pending = (e.retries < MAX_RETRIES)
  <2> HIDE DEF s
  <2> QED
    BY <1>1 DEF Control, TxFields, Like, SameAs
<1>3. NoAck(e) = Stop(d, "NO_ACK")
  BY DEF NoAck
<1> HIDE DEF d
<1> QED
  BY <1>2, <1>3, StopLike DEF Like, Unsure, Outcomes

\* Saving the record drops only timers and budgets.
LEMMA SaveLike ==
  ASSUME NEW e, Control(e), Save(e)
  PROVE  Control(tx') /\ SameAs(tx', e)
BY DEF Control, TxFields, SameAs, Like, Save

-----------------------------------------------------------------------------
(* The ten moves of a poll                                                 *)

Named(kind) == \E m \in mail : m.kind = kind /\ m.id = Id(tx)
NamedOwnAck == \E m \in mail : m.kind = "ACK" /\ m.own /\ m.id = Id(tx)

MoveStay == /\ tx.phase \in {"DRAW_WAIT", "RADIO", "ACK_WAIT", "STOPPING"}
            /\ SameAs(tx', tx) /\ UNCHANGED radio

MoveFault ==
  /\ Active /\ Like(tx', tx)
  /\ tx'.phase = "FAULT" /\ tx'.outcome \in Failures /\ tx'.uncertain = Unsure(tx)
  /\ UNCHANGED radio

\* A pending retry is lost; the frame goes on retiring.
MoveLoseRetry ==
  /\ tx.phase = "STOPPING" /\ tx'.phase = "STOPPING" /\ Like(tx', tx)
  /\ tx.retry_pending /\ ~tx'.retry_pending /\ tx'.outcome \in Failures
  /\ tx'.uncertain = tx.uncertain
  /\ UNCHANGED radio

MoveRetire ==
  /\ tx.phase = "STOPPING" /\ tx'.phase = "DONE" /\ Named("QUIESCED")
  /\ Like(tx', tx) /\ tx'.uncertain = tx.uncertain /\ ~tx'.retry_pending
  /\ \/ tx'.outcome = tx.outcome
     \/ tx.retry_pending /\ tx'.outcome \in Failures
  /\ UNCHANGED radio

MoveRetry ==
  /\ tx.phase = "STOPPING" /\ tx'.phase = "DRAW" /\ Named("QUIESCED")
  /\ tx.retry_pending /\ ~tx'.retry_pending
  /\ tx'.generation = tx.generation /\ tx'.retries = tx.retries + 1 /\ tx'.nb = 0
  /\ tx'.ack_requested = tx.ack_requested /\ tx'.transmissions = tx.transmissions
  /\ tx'.outcome = "NONE" /\ tx'.uncertain = tx.uncertain
  /\ UNCHANGED radio

\* The frame ends before its attempt starts.
MoveGiveUp ==
  /\ tx.phase \in {"DRAW", "DRAW_WAIT"} /\ tx'.phase = "DONE" /\ Like(tx', tx)
  /\ tx'.outcome \in Failures
  /\ tx'.uncertain = tx.uncertain /\ tx'.retry_pending = tx.retry_pending
  /\ UNCHANGED radio

\* The next backoff is asked for, or drawn.
MoveDraw ==
  /\ Like(tx', tx) /\ tx'.outcome = tx.outcome
  /\ tx'.uncertain = tx.uncertain /\ tx'.retry_pending = tx.retry_pending
  /\ \/ tx.phase = "DRAW" /\ tx'.phase = "DRAW_WAIT" /\ UNCHANGED radio
     \/ /\ tx.phase = "DRAW_WAIT" /\ tx'.phase = "RADIO"
        /\ radio' = [IdleRadio EXCEPT !.op = "attempt", !.at = radio'.at, !.id = Id(tx)]

MoveBusy ==
  /\ tx.phase = "RADIO" /\ tx'.phase \in {"DRAW", "DONE"} /\ Named("BUSY")
  /\ tx'.generation = tx.generation /\ tx'.retries = tx.retries /\ tx'.nb = tx.nb + 1
  /\ tx'.ack_requested = tx.ack_requested /\ tx'.transmissions = tx.transmissions
  /\ tx'.outcome = IF tx'.phase = "DRAW" THEN tx.outcome ELSE "CHANNEL_ACCESS"
  /\ tx'.uncertain = tx.uncertain /\ tx'.retry_pending = tx.retry_pending
  /\ UNCHANGED radio

MoveSent ==
  /\ tx.phase = "RADIO" /\ Named("SENT")
  /\ tx'.generation = tx.generation /\ tx'.retries = tx.retries /\ tx'.nb = tx.nb
  /\ tx'.ack_requested = tx.ack_requested /\ tx'.transmissions = tx.transmissions + 1
  /\ tx'.uncertain = tx.uncertain /\ tx'.retry_pending = tx.retry_pending
  /\ \/ /\ tx.ack_requested /\ tx'.phase = "ACK_WAIT" /\ tx'.outcome = tx.outcome
        /\ UNCHANGED radio
     \/ /\ ~tx.ack_requested /\ tx'.phase = "STOPPING" /\ tx'.outcome = "UNACKNOWLEDGED"
        /\ radio' = [radio EXCEPT !.stop = TRUE]

\* The attempt in the radio is to be retired, for whatever reason.
MoveStop ==
  /\ tx.phase \in {"RADIO", "ACK_WAIT"} /\ tx'.phase = "STOPPING" /\ Like(tx', tx)
  /\ tx'.uncertain = Unsure(tx)
  /\ \/ tx'.outcome \in Failures /\ tx'.retry_pending = tx.retry_pending
     \/ /\ tx.phase = "ACK_WAIT" /\ tx'.outcome = "NO_ACK"
        /\ tx'.retry_pending = (tx.retries < MAX_RETRIES)
     \/ /\ tx.phase = "ACK_WAIT" /\ tx'.outcome = "ACKED" /\ NamedOwnAck
        /\ tx'.retry_pending = tx.retry_pending
  /\ radio' = [radio EXCEPT !.stop = TRUE]

Move == \/ MoveStay \/ MoveFault \/ MoveLoseRetry \/ MoveRetire \/ MoveRetry
        \/ MoveGiveUp \/ MoveDraw \/ MoveBusy \/ MoveSent \/ MoveStop

\* What a step that makes a move leaves alone.
Moves == Control(tx') /\ Move /\ UNCHANGED <<t, mail, air>>

-----------------------------------------------------------------------------
(* Every poll is one of the moves                                          *)

\* Only the adapter's own reports can be BUSY, SENT, ACK or QUIESCED.
LEMMA DeliveredNamed ==
  ASSUME NEW event \in Deliverable, NEW kind, KindOf(event) = kind,
         kind \in {"BUSY", "SENT", "ACK", "QUIESCED"}
  PROVE  event \in mail /\ event.kind = kind /\ event.id = Id(tx)
<1>1. event.kind = kind /\ event.id = Id(tx)
  BY DEF KindOf, Fresh
<1>2. \A id, stamp, k : Event(k, id, stamp).kind = k
  BY DEF Event
<1>3. \A id, stamp, v : [Event("RANDOM", id, stamp) EXCEPT !.value = v].kind = "RANDOM"
  BY DEF Event
<1>4. \/ event \in mail \/ event = NoEvent
      \/ \E id, v : event = [Event("RANDOM", id, t) EXCEPT !.value = v]
      \/ \E k \in {"FAILURE", "CANCEL"} : \E id : event = Event(k, id, t)
  BY DEF Deliverable
<1>5. event # NoEvent
  BY <1>1, <1>2 DEF NoEvent
<1>6. ~\E id, v : event = [Event("RANDOM", id, t) EXCEPT !.value = v]
  <2> SUFFICES ASSUME NEW id, NEW v, event = [Event("RANDOM", id, t) EXCEPT !.value = v]
               PROVE  FALSE
    OBVIOUS
  <2>1. event.kind = "RANDOM"
    BY <1>3
  <2> QED
    BY <1>1, <2>1
<1>7. ~\E k \in {"FAILURE", "CANCEL"} : \E id : event = Event(k, id, t)
  BY <1>1, <1>2
<1> QED
  BY <1>1, <1>4, <1>5, <1>6, <1>7

\* A poll that comes too late faults the slot.
LEMMA ClockErrorMoves ==
  ASSUME Control(tx), StepClockError
  PROVE  Moves
<1> DEFINE n == FaultWith(tx, "CLOCK_ERROR")
<1>1. Control(n) /\ Like(n, tx) /\ n.phase = "FAULT" /\ n.outcome = "CLOCK_ERROR"
      /\ n.uncertain = Unsure(tx)
  BY FaultLike DEF Outcomes
<1>2. Save(n) /\ Active /\ UNCHANGED <<t, radio, mail, air>>
  BY DEF StepClockError
<1> HIDE DEF n
<1>3. Control(tx') /\ SameAs(tx', n)
  BY <1>1, <1>2, SaveLike
<1> QED
  BY <1>1, <1>2, <1>3 DEF Moves, Move, MoveFault, SameAs, Like, Failures, Outcomes

\* A failure reported by the adapter faults the slot.
LEMMA FailureMoves ==
  ASSUME Control(tx), NEW event, StepFailure(event)
  PROVE  Moves
<1> DEFINE n == FaultWith(Ticked, "ADAPTER_ERROR")
<1>0. Control(Ticked) /\ SameAs(Ticked, tx)
  BY TickedLike
<1>1. Control(n) /\ Like(n, Ticked) /\ n.phase = "FAULT" /\ n.outcome = "ADAPTER_ERROR"
      /\ n.uncertain = Unsure(Ticked)
  BY <1>0, FaultLike DEF Outcomes
<1>2. Save(n) /\ Active /\ UNCHANGED <<t, radio, mail, air>>
  BY DEF StepFailure, Polled
<1> HIDE DEF n
<1>3. Control(tx') /\ SameAs(tx', n)
  BY <1>1, <1>2, SaveLike
<1> QED
  BY <1>0, <1>1, <1>2, <1>3 DEF Moves, Move, MoveFault, SameAs, Like, Failures, Outcomes,
     Unsure

\* A frame given up has one of the failure outcomes.
LEMMA ReasonFails == \A kind : Reason(kind) \in Failures \cap Outcomes
BY DEF Reason, Failures, Outcomes

\* A lifetime, budget or cancellation ends a drawing frame and retires an
\* attempt in the radio.
LEMMA ExpireMoves ==
  ASSUME Control(tx), NEW event, StepExpire(event)
  PROVE  Moves
<1> DEFINE r == Reason(KindOf(event))
<1> DEFINE n == Stop(Ticked, r)
<1>0. Control(Ticked) /\ SameAs(Ticked, tx) /\ r \in Failures /\ r \in Outcomes
  BY TickedLike, ReasonFails
<1>1. Save(n) /\ QuiesceFor(tx') /\ Active /\ tx.phase # "STOPPING"
      /\ UNCHANGED <<t, mail, air>>
  BY DEF StepExpire, Polled
<1> HIDE DEF r
<1>2. /\ Control(n) /\ Like(n, Ticked) /\ n.outcome = r
      /\ n.phase = IF Ticked.phase \in {"DRAW", "DRAW_WAIT"} THEN "DONE" ELSE "STOPPING"
      /\ n.uncertain = Unsure(Ticked) /\ n.retry_pending = Ticked.retry_pending
  BY <1>0, StopLike
<1> HIDE DEF n
<1>3. Control(tx') /\ SameAs(tx', n)
  BY <1>1, <1>2, SaveLike
<1>4. /\ Control(tx') /\ Like(tx', tx) /\ tx'.outcome \in Failures
      /\ tx'.phase = IF tx.phase \in {"DRAW", "DRAW_WAIT"} THEN "DONE" ELSE "STOPPING"
      /\ tx'.uncertain = Unsure(tx) /\ tx'.retry_pending = tx.retry_pending
  BY <1>0, <1>2, <1>3 DEF SameAs, Like, Unsure
<1>5. CASE tx.phase \in {"DRAW", "DRAW_WAIT"}
  BY <1>1, <1>4, <1>5 DEF Moves, Move, MoveGiveUp, QuiesceFor, Unsure
<1>6. CASE tx.phase \in {"RADIO", "ACK_WAIT"}
  BY <1>1, <1>4, <1>6 DEF Moves, Move, MoveStop, QuiesceFor
<1>7. tx.phase \in {"DRAW", "DRAW_WAIT", "RADIO", "ACK_WAIT"}
  BY <1>1 DEF Control, Active, Phases
<1> QED
  BY <1>5, <1>6, <1>7

\* The control record of a poll in STOPPING, before its event is looked at.
LEMMA StoppingLike ==
  ASSUME Control(tx), tx.phase = "STOPPING", NEW kind
  PROVE  LET e == Stopping(kind)
         IN /\ Control(e) /\ Like(e, tx) /\ e.uncertain = tx.uncertain
            /\ \/ e.phase = "FAULT" /\ e.outcome = "STOP_FAILED"
               \/ e.phase = "STOPPING" /\ e.retry_pending = tx.retry_pending
                  /\ e.outcome = tx.outcome
               \/ /\ e.phase = "STOPPING" /\ tx.retry_pending /\ ~e.retry_pending
                  /\ e.outcome \in Failures
<1> DEFINE lost == [Ticked EXCEPT !.retry_pending = FALSE, !.outcome = Reason(kind)]
<1> DEFINE e == IF tx.retry_pending /\ Expired(kind) THEN lost ELSE Ticked
<1> DEFINE n == [e EXCEPT !.stop_steps = @ - 1]
<1>1. Control(Ticked) /\ SameAs(Ticked, tx)
  BY TickedLike
<1>2. Reason(kind) \in Failures /\ Reason(kind) \in Outcomes
  BY ReasonFails
<1>3. /\ Control(lost) /\ Like(lost, tx) /\ lost.uncertain = tx.uncertain
      /\ lost.phase = "STOPPING" /\ ~lost.retry_pending /\ lost.outcome = Reason(kind)
  BY <1>1, <1>2 DEF Control, TxFields, Like, SameAs
<1> HIDE DEF lost
<1>4. /\ Control(e) /\ Like(e, tx) /\ e.uncertain = tx.uncertain /\ e.phase = "STOPPING"
      /\ \/ e.retry_pending = tx.retry_pending /\ e.outcome = tx.outcome
         \/ tx.retry_pending /\ ~e.retry_pending /\ e.outcome \in Failures
  BY <1>1, <1>2, <1>3 DEF SameAs, Like
<1>5. Stopping(kind) = IF reached(now, tx.stop_at) \/ tx.stop_steps = 0
                       THEN FaultWith(e, "STOP_FAILED") ELSE n
  BY DEF Stopping, lost
<1> HIDE DEF e
<1>6. Control(n) /\ SameAs(n, e)
  BY <1>4 DEF Control, TxFields, Like, SameAs
<1> DEFINE f == FaultWith(e, "STOP_FAILED")
<1>7. /\ Control(f) /\ Like(f, e) /\ f.phase = "FAULT" /\ f.outcome = "STOP_FAILED"
      /\ f.uncertain = e.uncertain
  BY <1>4, FaultLike DEF Unsure, Outcomes
<1> HIDE DEF n, f
<1>8. CASE Stopping(kind) = f
  BY <1>4, <1>7, <1>8 DEF Like
<1>9. CASE Stopping(kind) = n
  BY <1>4, <1>6, <1>9 DEF Like, SameAs
<1> QED
  BY <1>5, <1>8, <1>9 DEF f

\* QUIESCED ends the frame or starts its next attempt.
LEMMA RetiredLike ==
  ASSUME NEW e, NEW stamp, Control(e), e.phase = "STOPPING"
  PROVE  LET n == Retired(e, stamp)
         IN /\ Control(n) /\ n.uncertain = e.uncertain /\ ~n.retry_pending
            /\ n.generation = e.generation /\ n.ack_requested = e.ack_requested
            /\ n.transmissions = e.transmissions
            /\ \/ /\ e.retry_pending /\ n.phase = "DRAW" /\ n.outcome = "NONE"
                  /\ n.retries = e.retries + 1 /\ n.nb = 0
               \/ /\ ~e.retry_pending /\ n.phase = "DONE" /\ n.outcome = e.outcome
                  /\ n.retries = e.retries /\ n.nb = e.nb
<1> DEFINE s == IF e.uncertain = 1
                THEN Spacing(e, stamp + (IF e.ack_requested THEN ACK_SYMBOLS ELSE 0))
                ELSE e
<1>1. Control(s) /\ SameAs(s, e)
  BY SpacingLike DEF SameAs, Like
<1>2. Retired(e, stamp) =
        IF e.retry_pending
        THEN [s EXCEPT !.retry_pending = FALSE, !.retries = @ + 1, !.nb = 0,
                       !.be = MIN_BE, !.outcome = "NONE", !.phase = "DRAW"]
        ELSE [s EXCEPT !.phase = "DONE"]
  BY DEF Retired
<1> HIDE DEF s
<1>3. CASE e.retry_pending
  <2> DEFINE n == [s EXCEPT !.retry_pending = FALSE, !.retries = @ + 1, !.nb = 0,
                            !.be = MIN_BE, !.outcome = "NONE", !.phase = "DRAW"]
  <2>1. /\ n = [f \in TxFields |-> n[f]] /\ n.phase = "DRAW" /\ n.outcome = "NONE"
        /\ n.generation = s.generation /\ n.retries = s.retries + 1 /\ n.nb = 0
        /\ n.transmissions = s.transmissions /\ n.uncertain = s.uncertain
        /\ n.ack_requested = s.ack_requested /\ n.retry_pending = FALSE
    BY <1>1 DEF Control, TxFields
  <2>2. Retired(e, stamp) = n
    BY <1>2, <1>3
  <2> HIDE DEF n
  <2>3. Control(n)
    <3>1. /\ n.generation \in Nat /\ n.retries \in Nat /\ n.nb \in Nat
          /\ n.transmissions \in Nat
      BY <1>1, <2>1 DEF Control
    <3>2. /\ n.phase \in Phases /\ n.outcome \in Outcomes /\ n.uncertain \in {0, 1}
          /\ n.ack_requested \in BOOLEAN /\ n.retry_pending \in BOOLEAN
      BY <1>1, <2>1 DEF Control, Phases, Outcomes
    <3> QED
      BY <2>1, <3>1, <3>2 DEF Control
  <2> QED
    BY <1>1, <1>3, <2>1, <2>2, <2>3 DEF Like, SameAs
<1>4. CASE ~e.retry_pending
  BY <1>1, <1>2, <1>4 DEF Control, TxFields, Like, SameAs, Phases, Outcomes
<1> QED
  BY <1>3, <1>4

\* A poll in STOPPING waits, loses the retry, retires the attempt or faults.
LEMMA StoppingMoves ==
  ASSUME Control(tx), NEW event \in Deliverable, StepStopping(event)
  PROVE  Moves
<1> DEFINE kind == KindOf(event)
<1> DEFINE e == Stopping(kind)
<1> DEFINE f == FaultWith(e, "ADAPTER_ERROR")
<1> DEFINE r == Retired(e, Clock(event.stamp))
<1>1. Active /\ tx.phase = "STOPPING" /\ UNCHANGED <<t, radio, mail, air>>
  BY DEF StepStopping, Polled
<1>2. kind = "QUIESCED" => Named("QUIESCED")
  BY DeliveredNamed DEF Named
<1>3. Save(IF e.phase = "FAULT" THEN e ELSE IF kind = "FAILURE" THEN f
           ELSE IF kind = "QUIESCED" THEN r ELSE e)
  BY DEF StepStopping
<1>4. /\ Control(e) /\ Like(e, tx) /\ e.uncertain = tx.uncertain
      /\ \/ e.phase = "FAULT" /\ e.outcome = "STOP_FAILED"
         \/ e.phase = "STOPPING" /\ e.retry_pending = tx.retry_pending
            /\ e.outcome = tx.outcome
         \/ /\ e.phase = "STOPPING" /\ tx.retry_pending /\ ~e.retry_pending
            /\ e.outcome \in Failures
  BY <1>1, StoppingLike
<1> HIDE DEF kind, e
<1>5. CASE e.phase = "FAULT"
  <2>1. Save(e)
    BY <1>3, <1>5
  <2>2. Control(tx') /\ SameAs(tx', e)
    BY <1>4, <2>1, SaveLike
  <2> QED
    BY <1>1, <1>4, <1>5, <2>2
    DEF Moves, Move, MoveFault, SameAs, Like, Failures, Outcomes, Unsure
<1>6. CASE e.phase = "STOPPING" /\ kind = "FAILURE"
  <2>1. /\ Control(f) /\ Like(f, e) /\ f.phase = "FAULT" /\ f.outcome = "ADAPTER_ERROR"
        /\ f.uncertain = e.uncertain
    BY <1>4, <1>6, FaultLike DEF Unsure, Outcomes
  <2> HIDE DEF f
  <2>2. Save(f)
    BY <1>3, <1>6
  <2>3. Control(tx') /\ SameAs(tx', f)
    BY <2>1, <2>2, SaveLike
  <2> QED
    BY <1>1, <1>4, <2>1, <2>3
    DEF Moves, Move, MoveFault, SameAs, Like, Failures, Outcomes, Unsure
<1>7. CASE e.phase = "STOPPING" /\ kind = "QUIESCED"
  <2>1. /\ Control(r) /\ r.uncertain = e.uncertain /\ ~r.retry_pending
        /\ r.generation = e.generation /\ r.ack_requested = e.ack_requested
        /\ r.transmissions = e.transmissions
        /\ \/ /\ e.retry_pending /\ r.phase = "DRAW" /\ r.outcome = "NONE"
              /\ r.retries = e.retries + 1 /\ r.nb = 0
           \/ /\ ~e.retry_pending /\ r.phase = "DONE" /\ r.outcome = e.outcome
              /\ r.retries = e.retries /\ r.nb = e.nb
    BY <1>4, <1>7, RetiredLike
  <2> HIDE DEF r
  <2>2. Save(r)
    BY <1>3, <1>7
  <2>3. Control(tx') /\ SameAs(tx', r)
    BY <2>1, <2>2, SaveLike
  <2>4. CASE e.retry_pending
    <3>1. tx.retry_pending
      BY <1>4, <1>7, <2>4
    <3> QED
      BY <1>1, <1>2, <1>4, <1>7, <2>1, <2>3, <2>4, <3>1
      DEF Moves, Move, MoveRetry, SameAs, Like
  <2>5. CASE ~e.retry_pending
    <3>1. \/ e.outcome = tx.outcome
          \/ tx.retry_pending /\ e.outcome \in Failures
      BY <1>4, <1>7
    <3> QED
      BY <1>1, <1>2, <1>4, <1>7, <2>1, <2>3, <2>5, <3>1
      DEF Moves, Move, MoveRetire, SameAs, Like
  <2> QED
    BY <2>4, <2>5
<1>8. CASE e.phase = "STOPPING" /\ kind \notin {"FAILURE", "QUIESCED"}
  <2>1. Save(e)
    BY <1>3, <1>8
  <2>2. Control(tx') /\ SameAs(tx', e)
    BY <1>4, <2>1, SaveLike
  <2>3. CASE e.retry_pending = tx.retry_pending /\ e.outcome = tx.outcome
    BY <1>1, <1>4, <1>8, <2>2, <2>3 DEF Moves, Move, MoveStay, SameAs, Like
  <2>4. CASE tx.retry_pending /\ ~e.retry_pending /\ e.outcome \in Failures
    BY <1>1, <1>4, <1>8, <2>2, <2>4 DEF Moves, Move, MoveLoseRetry, SameAs, Like
  <2> QED
    BY <1>4, <1>8, <2>3, <2>4
<1> QED
  BY <1>4, <1>5, <1>6, <1>7, <1>8

\* A poll with nothing for its phase changes nothing but the work left.
LEMMA IdleMoves ==
  ASSUME Control(tx), NEW event, StepIdle(event)
  PROVE  Moves
<1>1. Control(Worked) /\ SameAs(Worked, tx)
  BY TickedLike
<1>2. /\ Save(Worked) /\ tx.phase \in {"DRAW_WAIT", "RADIO"}
      /\ UNCHANGED <<t, radio, mail, air>>
  BY DEF StepIdle
<1>3. Control(tx') /\ SameAs(tx', Worked)
  BY <1>1, <1>2, SaveLike
<1> QED
  BY <1>1, <1>2, <1>3 DEF Moves, Move, MoveStay, SameAs, Like

\* A random number is asked for.
LEMMA DrawMoves ==
  ASSUME Control(tx), NEW event, StepDraw(event)
  PROVE  Moves
<1> DEFINE n == [Worked EXCEPT !.phase = "DRAW_WAIT"]
<1>1. Control(Worked) /\ SameAs(Worked, tx)
  BY TickedLike
<1>2. /\ Control(n) /\ Like(n, tx) /\ n.phase = "DRAW_WAIT" /\ n.outcome = tx.outcome
      /\ n.uncertain = tx.uncertain /\ n.retry_pending = tx.retry_pending
  BY <1>1 DEF Control, TxFields, SameAs, Like, Phases
<1>3. Save(n) /\ tx.phase = "DRAW" /\ UNCHANGED <<t, radio, mail, air>>
  BY DEF StepDraw
<1> HIDE DEF n
<1>4. Control(tx') /\ SameAs(tx', n)
  BY <1>2, <1>3, SaveLike
<1> QED
  BY <1>2, <1>3, <1>4 DEF Moves, Move, MoveDraw, SameAs, Like

\* A drawn backoff starts the attempt, or comes too late for the lifetime.
LEMMA RandomMoves ==
  ASSUME Control(tx), NEW event, StepRandom(event)
  PROVE  Moves
<1>1. Control(Worked) /\ SameAs(Worked, tx)
  BY TickedLike
<1>2. PICK at : LET e == [Worked EXCEPT !.at = at]
                IN \/ /\ Save([e EXCEPT !.phase = "DONE", !.outcome = "LIFETIME"])
                      /\ UNCHANGED radio
                   \/ /\ Save([e EXCEPT !.phase = "RADIO"])
                      /\ Attempt(e)
  BY DEF StepRandom
<1>3. tx.phase = "DRAW_WAIT" /\ UNCHANGED <<t, mail, air>>
  BY DEF StepRandom
<1> DEFINE e == [Worked EXCEPT !.at = at]
<1>4. Control(e) /\ SameAs(e, tx)
  BY <1>1 DEF Control, TxFields, SameAs, Like
<1>5. \/ /\ Save([e EXCEPT !.phase = "DONE", !.outcome = "LIFETIME"])
         /\ UNCHANGED radio
      \/ /\ Save([e EXCEPT !.phase = "RADIO"])
         /\ Attempt(e)
  BY <1>2
<1> HIDE DEF e
<1>6. CASE Save([e EXCEPT !.phase = "DONE", !.outcome = "LIFETIME"]) /\ UNCHANGED radio
  <2> DEFINE n == [e EXCEPT !.phase = "DONE", !.outcome = "LIFETIME"]
  <2>1. /\ Control(n) /\ Like(n, tx) /\ n.phase = "DONE" /\ n.outcome = "LIFETIME"
        /\ n.uncertain = tx.uncertain /\ n.retry_pending = tx.retry_pending
    BY <1>4 DEF Control, TxFields, SameAs, Like, Phases, Outcomes
  <2>2. Save(n)
    BY <1>6
  <2> HIDE DEF n
  <2>3. Control(tx') /\ SameAs(tx', n)
    BY <2>1, <2>2, SaveLike
  <2> QED
    BY <1>3, <1>6, <2>1, <2>3
    DEF Moves, Move, MoveGiveUp, SameAs, Like, Failures, Outcomes
<1>7. CASE Save([e EXCEPT !.phase = "RADIO"]) /\ Attempt(e)
  <2> DEFINE n == [e EXCEPT !.phase = "RADIO"]
  <2>1. /\ Control(n) /\ Like(n, tx) /\ n.phase = "RADIO" /\ n.outcome = tx.outcome
        /\ n.uncertain = tx.uncertain /\ n.retry_pending = tx.retry_pending
    BY <1>4 DEF Control, TxFields, SameAs, Like, Phases
  <2>2. Save(n)
    BY <1>7
  <2> HIDE DEF n
  <2>3. Control(tx') /\ SameAs(tx', n)
    BY <2>1, <2>2, SaveLike
  <2>4. Id(e) = Id(tx)
    BY <1>4 DEF Id, SameAs, Like
  <2>5. radio' = [IdleRadio EXCEPT !.op = "attempt", !.at = radio'.at, !.id = Id(tx)]
    BY <1>7, <2>4 DEF Attempt, IdleRadio
  <2> QED
    BY <1>3, <2>1, <2>3, <2>5 DEF Moves, Move, MoveDraw, SameAs, Like
<1> QED
  BY <1>5, <1>6, <1>7

\* BUSY counts a backoff: the next one, or the end of the frame.
LEMMA BusyLike ==
  ASSUME NEW e, Control(e)
  PROVE  LET n == Busy(e)
         IN /\ Control(n) /\ n.generation = e.generation /\ n.retries = e.retries
            /\ n.nb = e.nb + 1 /\ n.ack_requested = e.ack_requested
            /\ n.transmissions = e.transmissions /\ n.uncertain = e.uncertain
            /\ n.retry_pending = e.retry_pending
            /\ \/ n.phase = "DRAW" /\ n.outcome = e.outcome
               \/ n.phase = "DONE" /\ n.outcome = "CHANNEL_ACCESS"
<1> DEFINE b == [e EXCEPT !.nb = @ + 1, !.be = IF @ < MAX_BE THEN @ + 1 ELSE @]
<1>1. /\ b = [f \in TxFields |-> b[f]] /\ b.generation = e.generation
      /\ b.retries = e.retries /\ b.nb = e.nb + 1
      /\ b.ack_requested = e.ack_requested /\ b.transmissions = e.transmissions
      /\ b.uncertain = e.uncertain /\ b.retry_pending = e.retry_pending
      /\ b.phase = e.phase /\ b.outcome = e.outcome
  BY DEF Control, TxFields
<1>2. Busy(e) = IF b.nb > MAX_BACKOFFS
                THEN [b EXCEPT !.phase = "DONE", !.outcome = "CHANNEL_ACCESS"]
                ELSE [b EXCEPT !.phase = "DRAW"]
  BY DEF Busy
<1> HIDE DEF b
<1>3. b.nb \in Nat
  BY <1>1 DEF Control
<1>4. Control(b)
  BY <1>1, <1>3 DEF Control
<1>5. CASE Busy(e) = [b EXCEPT !.phase = "DONE", !.outcome = "CHANNEL_ACCESS"]
  BY <1>1, <1>4, <1>5 DEF Control, TxFields, Phases, Outcomes
<1>6. CASE Busy(e) = [b EXCEPT !.phase = "DRAW"]
  BY <1>1, <1>4, <1>6 DEF Control, TxFields, Phases, Outcomes
<1> QED
  BY <1>2, <1>5, <1>6

\* SENT counts a transmission: the acknowledgement is awaited, or the
\* attempt is retired at once.
LEMMA SentLike ==
  ASSUME NEW e, NEW stamp, Control(e)
  PROVE  LET n == Sent(e, stamp)
         IN /\ Control(n) /\ n.generation = e.generation /\ n.retries = e.retries
            /\ n.nb = e.nb /\ n.ack_requested = e.ack_requested
            /\ n.transmissions = e.transmissions + 1 /\ n.uncertain = e.uncertain
            /\ n.retry_pending = e.retry_pending
            /\ \/ e.ack_requested /\ n.phase = "ACK_WAIT" /\ n.outcome = e.outcome
               \/ ~e.ack_requested /\ n.phase = "STOPPING" /\ n.outcome = "UNACKNOWLEDGED"
<1> DEFINE s == [e EXCEPT !.transmissions = @ + 1, !.tx_end = stamp, !.phase = "ACK_WAIT"]
<1>1. /\ s = [f \in TxFields |-> s[f]] /\ s.generation = e.generation
      /\ s.retries = e.retries /\ s.nb = e.nb
      /\ s.ack_requested = e.ack_requested /\ s.transmissions = e.transmissions + 1
      /\ s.uncertain = e.uncertain /\ s.retry_pending = e.retry_pending
      /\ s.phase = "ACK_WAIT" /\ s.outcome = e.outcome
  BY DEF Control, TxFields
<1>2. Sent(e, stamp) = IF e.ack_requested THEN s
                       ELSE Stop(Spacing(s, stamp), "UNACKNOWLEDGED")
  BY DEF Sent
<1> HIDE DEF s
<1>3. s.transmissions \in Nat
  BY <1>1 DEF Control
<1>4. Control(s)
  BY <1>1, <1>3 DEF Control, Phases
<1>5. CASE e.ack_requested
  BY <1>1, <1>2, <1>4, <1>5
<1>6. CASE ~e.ack_requested
  <2> DEFINE p == Spacing(s, stamp)
  <2> DEFINE n == Stop(p, "UNACKNOWLEDGED")
  <2>1. Control(p) /\ SameAs(p, s)
    BY <1>4, SpacingLike
  <2> HIDE DEF p
  <2>2. /\ Control(n) /\ Like(n, p) /\ n.outcome = "UNACKNOWLEDGED"
        /\ n.phase = "STOPPING" /\ n.uncertain = p.uncertain
        /\ n.retry_pending = p.retry_pending
    BY <1>1, <2>1, StopLike DEF SameAs, Unsure, Outcomes
  <2>3. Sent(e, stamp) = n
    BY <1>2, <1>6 DEF p
  <2> HIDE DEF n
  <2> QED
    BY <1>1, <1>6, <2>1, <2>2, <2>3 DEF SameAs, Like
<1> QED
  BY <1>5, <1>6

\* The attempt's first report: CCA busy, frame sent, or too early to be true.
LEMMA RadioMoves ==
  ASSUME Control(tx), NEW event \in Deliverable, StepRadio(event)
  PROVE  Moves
<1> DEFINE kind == KindOf(event)
<1> DEFINE f == FaultWith(Worked, "ADAPTER_ERROR")
<1> DEFINE b == Busy(Worked)
<1> DEFINE s == Sent(Worked, Clock(event.stamp))
<1>1. Control(Worked) /\ SameAs(Worked, tx)
  BY TickedLike
<1>2. /\ tx.phase = "RADIO" /\ Active /\ UNCHANGED <<t, mail, air>> /\ QuiesceFor(tx')
      /\ \/ Save(f)
         \/ kind = "BUSY" /\ Save(b)
         \/ kind = "SENT" /\ Save(s)
  BY DEF StepRadio, Working, Polled
<1>3. (kind = "BUSY" => Named("BUSY")) /\ (kind = "SENT" => Named("SENT"))
  BY DeliveredNamed DEF Named
<1> HIDE DEF kind
<1>4. CASE Save(f)
  <2>1. /\ Control(f) /\ Like(f, Worked) /\ f.phase = "FAULT"
        /\ f.outcome = "ADAPTER_ERROR" /\ f.uncertain = Unsure(Worked)
    BY <1>1, FaultLike DEF Outcomes
  <2> HIDE DEF f
  <2>2. Control(tx') /\ SameAs(tx', f)
    BY <1>4, <2>1, SaveLike
  <2>3. Like(tx', tx) /\ tx'.phase = "FAULT" /\ tx'.outcome \in Failures
        /\ tx'.uncertain = Unsure(tx)
    BY <1>1, <2>1, <2>2 DEF SameAs, Like, Unsure, Failures, Outcomes
  <2>4. UNCHANGED radio
    BY <1>2, <2>3 DEF QuiesceFor
  <2> QED
    BY <1>2, <2>2, <2>3, <2>4 DEF Moves, Move, MoveFault
<1>5. CASE kind = "BUSY" /\ Save(b)
  <2>1. /\ Control(b) /\ b.generation = Worked.generation /\ b.retries = Worked.retries
        /\ b.nb = Worked.nb + 1 /\ b.ack_requested = Worked.ack_requested
        /\ b.transmissions = Worked.transmissions /\ b.uncertain = Worked.uncertain
        /\ b.retry_pending = Worked.retry_pending
        /\ \/ b.phase = "DRAW" /\ b.outcome = Worked.outcome
           \/ b.phase = "DONE" /\ b.outcome = "CHANNEL_ACCESS"
    BY <1>1, BusyLike
  <2> HIDE DEF b
  <2>2. Control(tx') /\ SameAs(tx', b)
    BY <1>5, <2>1, SaveLike
  <2>3. UNCHANGED radio
    BY <1>2, <2>1, <2>2 DEF QuiesceFor, SameAs
  <2>4. /\ tx'.phase \in {"DRAW", "DONE"}
        /\ tx'.outcome = IF tx'.phase = "DRAW" THEN tx.outcome ELSE "CHANNEL_ACCESS"
    BY <1>1, <2>1, <2>2 DEF SameAs
  <2> QED
    BY <1>1, <1>2, <1>3, <1>5, <2>1, <2>2, <2>3, <2>4 DEF Moves, Move, MoveBusy, SameAs,
       Like
<1>6. CASE kind = "SENT" /\ Save(s)
  <2>1. /\ Control(s) /\ s.generation = Worked.generation /\ s.retries = Worked.retries
        /\ s.nb = Worked.nb /\ s.ack_requested = Worked.ack_requested
        /\ s.transmissions = Worked.transmissions + 1 /\ s.uncertain = Worked.uncertain
        /\ s.retry_pending = Worked.retry_pending
        /\ \/ /\ Worked.ack_requested /\ s.phase = "ACK_WAIT"
              /\ s.outcome = Worked.outcome
           \/ /\ ~Worked.ack_requested /\ s.phase = "STOPPING"
              /\ s.outcome = "UNACKNOWLEDGED"
    BY <1>1, SentLike
  <2> HIDE DEF s
  <2>2. Control(tx') /\ SameAs(tx', s)
    BY <1>6, <2>1, SaveLike
  <2>3. \/ /\ tx.ack_requested /\ tx'.phase = "ACK_WAIT" /\ tx'.outcome = tx.outcome
           /\ UNCHANGED radio
        \/ /\ ~tx.ack_requested /\ tx'.phase = "STOPPING" /\ tx'.outcome = "UNACKNOWLEDGED"
           /\ radio' = [radio EXCEPT !.stop = TRUE]
    BY <1>1, <1>2, <2>1, <2>2 DEF QuiesceFor, SameAs, Like
  <2> QED
    BY <1>1, <1>2, <1>3, <1>6, <2>1, <2>2, <2>3 DEF Moves, Move, MoveSent, SameAs, Like
<1> QED
  BY <1>2, <1>4, <1>5, <1>6

\* In the acknowledgement window: settled, over, or still waiting.
LEMMA AckWaitMoves ==
  ASSUME Control(tx), NEW event \in Deliverable, StepAckWait(event)
  PROVE  Moves
<1> DEFINE p == Spacing(Worked, Clock(event.stamp))
<1> DEFINE a == Stop(p, "ACKED")
<1> DEFINE n == NoAck(Worked)
<1>1. Control(Worked) /\ SameAs(Worked, tx)
  BY TickedLike
<1>2. /\ tx.phase = "ACK_WAIT" /\ Active /\ UNCHANGED <<t, mail, air>> /\ QuiesceFor(tx')
      /\ \/ KindOf(event) = "ACK" /\ event.own /\ Save(a)
         \/ Save(n)
         \/ Save(Worked)
  BY DEF StepAckWait, Working, Polled, Accepts
<1>3. CASE KindOf(event) = "ACK" /\ event.own /\ Save(a)
  <2>1. NamedOwnAck
    BY <1>3, DeliveredNamed DEF NamedOwnAck
  <2>2. Control(p) /\ SameAs(p, Worked)
    BY <1>1, SpacingLike
  <2> HIDE DEF p
  <2>3. /\ Control(a) /\ Like(a, p) /\ a.outcome = "ACKED" /\ a.phase = "STOPPING"
        /\ a.uncertain = Unsure(p) /\ a.retry_pending = p.retry_pending
    BY <1>1, <1>2, <2>2, StopLike DEF SameAs, Outcomes
  <2> HIDE DEF a
  <2>4. Control(tx') /\ SameAs(tx', a)
    BY <1>3, <2>3, SaveLike
  <2>5. radio' = [radio EXCEPT !.stop = TRUE]
    BY <1>2, <2>3, <2>4 DEF QuiesceFor, SameAs
  <2> QED
    BY <1>1, <1>2, <2>1, <2>2, <2>3, <2>4, <2>5
    DEF Moves, Move, MoveStop, SameAs, Like, Unsure
<1>4. CASE Save(n)
  <2>1. /\ Control(n) /\ Like(n, Worked) /\ n.outcome = "NO_ACK" /\ n.phase = "STOPPING"
        /\ n.uncertain = Worked.uncertain
        /\ n.retry_pending = (Worked.retries < MAX_RETRIES)
    BY <1>1, <1>2, NoAckLike DEF SameAs
  <2> HIDE DEF n
  <2>2. Control(tx') /\ SameAs(tx', n)
    BY <1>4, <2>1, SaveLike
  <2>3. radio' = [radio EXCEPT !.stop = TRUE]
    BY <1>2, <2>1, <2>2 DEF QuiesceFor, SameAs
  <2> QED
    BY <1>1, <1>2, <2>1, <2>2, <2>3 DEF Moves, Move, MoveStop, SameAs, Like, Unsure
<1>5. CASE Save(Worked)
  <2>1. Control(tx') /\ SameAs(tx', Worked)
    BY <1>1, <1>5, SaveLike
  <2> QED
    BY <1>1, <1>2, <2>1 DEF Moves, Move, MoveStay, QuiesceFor, SameAs, Like
<1> QED
  BY <1>2, <1>3, <1>4, <1>5

\* A poll, whatever event it carries, makes one of the ten moves.
LEMMA StepMoves ==
  ASSUME Control(tx), StepClockError \/ \E event \in Deliverable : Step(event)
  PROVE  Moves
BY ClockErrorMoves, StoppingMoves, FailureMoves, ExpireMoves, IdleMoves, DrawMoves,
   RandomMoves, RadioMoves, AckWaitMoves DEF Step

-----------------------------------------------------------------------------
(* The inductive invariant                                                 *)

IdSet == [generation : Nat, retry : Nat, nb : Nat]

\* Attempts are numbered in the order they are made.
AtMost(a, b) ==
  \/ a.generation < b.generation
  \/ a.generation = b.generation /\ a.retry < b.retry
  \/ a.generation = b.generation /\ a.retry = b.retry /\ a.nb <= b.nb

Kept ==
  /\ Control(tx)
  /\ radio = [f \in {"op", "stop", "at", "end", "answered", "id"} |-> radio[f]]
  /\ radio.op \in {"idle", "attempt", "air", "listen"} /\ radio.id \in IdSet
  /\ radio.stop \in BOOLEAN
  /\ \A m \in mail : m.id \in IdSet
  /\ air = [f \in {"frames", "heard", "quiet", "withdrawn"} |-> air[f]]
  /\ air.frames \in Nat /\ air.heard \in BOOLEAN

\* Nothing in the radio or in the mail is newer than the current attempt.
Ordered == /\ AtMost(radio.id, Id(tx))
           /\ \A m \in mail : AtMost(m.id, Id(tx))

\* What the adapter has in hand is the current attempt, until it is retired.
InHand ==
  /\ radio.op # "idle" => /\ radio.id = Id(tx)
                          /\ tx.phase \in {"RADIO", "ACK_WAIT", "STOPPING", "FAULT"}
  /\ radio.stop => radio.id = Id(tx) /\ tx.phase \in {"STOPPING", "FAULT"}
  /\ tx.phase \in {"RADIO", "ACK_WAIT"} => radio.id = Id(tx)
  /\ tx.phase = "ACK_WAIT" => radio.op = "listen"

\* A report that names the current attempt is still true of the radio.
MailFits ==
  \A m \in mail :
    /\ m.id = Id(tx) =>
         /\ tx.phase \notin {"DRAW", "DRAW_WAIT"}
         /\ tx.phase = "RADIO" /\ m.kind = "BUSY" => radio.op = "idle"
         /\ tx.phase = "RADIO" /\ m.kind = "SENT" => radio.op = "listen"
         /\ m.kind = "QUIESCED" => /\ radio.op = "idle" /\ ~radio.stop
                                   /\ tx.phase \in {"STOPPING", "DONE", "FAULT", "IDLE"}
    /\ m.kind = "ACK" /\ m.own /\ m.id.generation = tx.generation => air.heard

\* The frames on the air, against those the engine knows of.
Counts ==
  /\ tx.transmissions <= air.frames
  /\ tx.phase \in {"DRAW", "DRAW_WAIT", "ACK_WAIT"} => air.frames = tx.transmissions
  /\ tx.phase = "RADIO" =>
       air.frames = tx.transmissions + (IF radio.op \in {"air", "listen"} THEN 1 ELSE 0)
  /\ tx.phase # "RADIO" => air.frames <= tx.transmissions + tx.uncertain
  /\ radio.op = "attempt" => /\ air.frames = tx.transmissions
                             /\ tx.phase = "RADIO" \/ tx.uncertain = 1

\* What the engine says of the frame.
Report ==
  /\ tx.phase \in {"DRAW", "DRAW_WAIT", "RADIO", "ACK_WAIT"} =>
       tx.uncertain = 0 /\ tx.outcome = "NONE" /\ ~tx.retry_pending
  /\ tx.phase = "ACK_WAIT" => tx.transmissions > 0 /\ tx.ack_requested
  /\ tx.phase = "STOPPING" /\ tx.retry_pending =>
       tx.uncertain = 0 /\ tx.outcome = "NO_ACK"
  /\ tx.outcome = "ACKED" => tx.ack_requested /\ tx.transmissions > 0 /\ air.heard
  /\ tx.outcome = "UNACKNOWLEDGED" => ~tx.ack_requested /\ tx.transmissions > 0

\* Every transmission, sure or not, has a retry to its name.
Limits ==
  /\ tx.retries <= MAX_RETRIES
  /\ tx.phase = "STOPPING" /\ tx.retry_pending => tx.retries < MAX_RETRIES
  /\ tx.transmissions + tx.uncertain <= tx.retries + 1
  /\ tx.phase \in {"DRAW", "DRAW_WAIT", "RADIO"} => tx.transmissions <= tx.retries

EngineInv == Kept /\ Ordered /\ InHand /\ MailFits /\ Counts /\ Report /\ Limits

-----------------------------------------------------------------------------
(* Every move keeps the invariant                                          *)

\* A poll that only waits.
LEMMA StayKeeps ==
  ASSUME EngineInv, Control(tx'), UNCHANGED <<mail, air>>, MoveStay
  PROVE  EngineInv'
<1>1. Id(tx)' = Id(tx)
  BY DEF MoveStay, Id, SameAs, Like
<1>2. Kept'
  BY DEF MoveStay, EngineInv, Kept
<1>3. Ordered'
  BY <1>1 DEF MoveStay, EngineInv, Ordered
<1>4. InHand'
  BY <1>1 DEF MoveStay, EngineInv, InHand, Kept, Control, Active, SameAs
<1>5. MailFits'
  BY <1>1 DEF MoveStay, EngineInv, MailFits, Active, SameAs, Like
<1>6. Counts'
  BY DEF MoveStay, EngineInv, Counts, Report, Kept, Control, Active, SameAs, Like, Unsure
<1>7. Report'
  BY DEF MoveStay, EngineInv, Report, Kept, Control, Active, SameAs, Like, Failures,
     Outcomes
<1>8. Limits'
  BY DEF MoveStay, EngineInv, Limits, Report, Kept, Control, Active, SameAs, Like, Unsure
<1> QED
  BY <1>2, <1>3, <1>4, <1>5, <1>6, <1>7, <1>8 DEF EngineInv

\* An attempt in the radio becomes uncertain, and the slot is kept.
LEMMA FaultKeeps ==
  ASSUME EngineInv, Control(tx'), UNCHANGED <<mail, air>>, MoveFault
  PROVE  EngineInv'
<1>1. Id(tx)' = Id(tx)
  BY DEF MoveFault, Id, SameAs, Like
<1>2. Kept'
  BY DEF MoveFault, EngineInv, Kept
<1>3. Ordered'
  BY <1>1 DEF MoveFault, EngineInv, Ordered
<1>4. InHand'
  BY <1>1 DEF MoveFault, EngineInv, InHand, Kept, Control, Active, SameAs
<1>5. MailFits'
  BY <1>1 DEF MoveFault, EngineInv, MailFits, Active, SameAs, Like
<1>6. Counts'
  BY DEF MoveFault, EngineInv, Counts, Report, Kept, Control, Active, SameAs, Like, Unsure
<1>7. Report'
  BY DEF MoveFault, EngineInv, Report, Kept, Control, Active, SameAs, Like, Failures,
     Outcomes
<1>8. Limits'
  BY DEF MoveFault, EngineInv, Limits, Report, Kept, Control, Active, SameAs, Like, Unsure
<1> QED
  BY <1>2, <1>3, <1>4, <1>5, <1>6, <1>7, <1>8 DEF EngineInv

\* The retry is given up during the retirement.
LEMMA LoseRetryKeeps ==
  ASSUME EngineInv, Control(tx'), UNCHANGED <<mail, air>>, MoveLoseRetry
  PROVE  EngineInv'
<1>1. Id(tx)' = Id(tx)
  BY DEF MoveLoseRetry, Id, SameAs, Like
<1>2. Kept'
  BY DEF MoveLoseRetry, EngineInv, Kept
<1>3. Ordered'
  BY <1>1 DEF MoveLoseRetry, EngineInv, Ordered
<1>4. InHand'
  BY <1>1 DEF MoveLoseRetry, EngineInv, InHand, Kept, Control, Active, SameAs
<1>5. MailFits'
  BY <1>1 DEF MoveLoseRetry, EngineInv, MailFits, Active, SameAs, Like
<1>6. Counts'
  BY DEF MoveLoseRetry, EngineInv, Counts, Report, Kept, Control, Active, SameAs, Like,
     Unsure
<1>7. Report'
  BY DEF MoveLoseRetry, EngineInv, Report, Kept, Control, Active, SameAs, Like, Failures,
     Outcomes
<1>8. Limits'
  BY DEF MoveLoseRetry, EngineInv, Limits, Report, Kept, Control, Active, SameAs, Like,
     Unsure
<1> QED
  BY <1>2, <1>3, <1>4, <1>5, <1>6, <1>7, <1>8 DEF EngineInv

\* The frame is done only once the radio is idle.
LEMMA RetireKeeps ==
  ASSUME EngineInv, Control(tx'), UNCHANGED <<mail, air>>, MoveRetire
  PROVE  EngineInv'
<1>1. Id(tx)' = Id(tx)
  BY DEF MoveRetire, Id, SameAs, Like
<1>2. Kept'
  BY DEF MoveRetire, EngineInv, Kept
<1>3. Ordered'
  BY <1>1 DEF MoveRetire, EngineInv, Ordered
<1>4. InHand'
  BY <1>1 DEF MoveRetire, EngineInv, InHand, Kept, Control, Active, SameAs, Named,
     InHand, MailFits
<1>5. MailFits'
  BY <1>1 DEF MoveRetire, EngineInv, MailFits, Active, SameAs, Like, Named, InHand, MailFits
<1>6. Counts'
  BY DEF MoveRetire, EngineInv, Counts, Report, Kept, Control, Active, SameAs, Like,
     Unsure, Named, InHand, MailFits
<1>7. Report'
  BY DEF MoveRetire, EngineInv, Report, Kept, Control, Active, SameAs, Like, Failures,
     Outcomes, Named, InHand, MailFits
<1>8. Limits'
  BY DEF MoveRetire, EngineInv, Limits, Report, Kept, Control, Active, SameAs, Like,
     Unsure, Named, InHand, MailFits
<1> QED
  BY <1>2, <1>3, <1>4, <1>5, <1>6, <1>7, <1>8 DEF EngineInv

\* Nothing was handed to the radio.
LEMMA GiveUpKeeps ==
  ASSUME EngineInv, Control(tx'), UNCHANGED <<mail, air>>, MoveGiveUp
  PROVE  EngineInv'
<1>1. Id(tx)' = Id(tx)
  BY DEF MoveGiveUp, Id, SameAs, Like
<1>2. Kept'
  BY DEF MoveGiveUp, EngineInv, Kept
<1>3. Ordered'
  BY <1>1 DEF MoveGiveUp, EngineInv, Ordered
<1>4. InHand'
  BY <1>1 DEF MoveGiveUp, EngineInv, InHand, Kept, Control, Active, SameAs, InHand
<1>5. MailFits'
  BY <1>1 DEF MoveGiveUp, EngineInv, MailFits, Active, SameAs, Like, InHand
<1>6. Counts'
  BY DEF MoveGiveUp, EngineInv, Counts, Report, Kept, Control, Active, SameAs, Like,
     Unsure, InHand
<1>7. Report'
  BY DEF MoveGiveUp, EngineInv, Report, Kept, Control, Active, SameAs, Like, Failures,
     Outcomes, InHand
<1>8. Limits'
  BY DEF MoveGiveUp, EngineInv, Limits, Report, Kept, Control, Active, SameAs, Like,
     Unsure, InHand
<1> QED
  BY <1>2, <1>3, <1>4, <1>5, <1>6, <1>7, <1>8 DEF EngineInv

\* A new attempt meets no report that names it.
LEMMA DrawKeeps ==
  ASSUME EngineInv, Control(tx'), UNCHANGED <<mail, air>>, MoveDraw
  PROVE  EngineInv'
<1>1. Id(tx)' = Id(tx)
  BY DEF MoveDraw, Id, Like
<1>2. CASE tx.phase = "DRAW" /\ tx'.phase = "DRAW_WAIT" /\ UNCHANGED radio
  <2>1. Kept' /\ Ordered' /\ InHand' /\ MailFits'
    BY <1>1, <1>2 DEF MoveDraw, EngineInv, Kept, Ordered, InHand, MailFits, Like
  <2>2. Counts' /\ Report' /\ Limits'
    BY <1>2 DEF MoveDraw, EngineInv, Kept, Counts, Report, Limits, Control, Like
  <2> QED
    BY <2>1, <2>2 DEF EngineInv
<1>3. CASE /\ tx.phase = "DRAW_WAIT" /\ tx'.phase = "RADIO"
           /\ radio' = [IdleRadio EXCEPT !.op = "attempt", !.at = radio'.at, !.id = Id(tx)]
  <2>1. /\ radio' = [f \in {"op", "stop", "at", "end", "answered", "id"} |-> radio'[f]]
        /\ radio'.op = "attempt" /\ radio'.id = Id(tx) /\ radio'.stop = FALSE
    BY <1>3 DEF IdleRadio
  <2>2. Id(tx) \in IdSet
    BY DEF EngineInv, Kept, Control, Id, IdSet
  <2>3. Kept'
    BY <2>1, <2>2 DEF EngineInv, Kept
  <2>4. AtMost(Id(tx), Id(tx))
    BY <2>2 DEF AtMost, IdSet
  <2>5. Ordered'
    BY <1>1, <2>1, <2>4 DEF EngineInv, Ordered
  <2>6. InHand'
    BY <1>1, <1>3, <2>1 DEF EngineInv, InHand
  <2>7. MailFits'
    BY <1>1, <1>3, <2>1 DEF MoveDraw, EngineInv, MailFits, Like
  <2>8. Counts' /\ Report' /\ Limits'
    BY <1>3, <2>1 DEF MoveDraw, EngineInv, Kept, Counts, Report, Limits, Control, Like
  <2> QED
    BY <2>3, <2>5, <2>6, <2>7, <2>8 DEF EngineInv
<1> QED
  BY <1>2, <1>3 DEF MoveDraw

\* SENT is counted once the frame is out.
LEMMA SentKeeps ==
  ASSUME EngineInv, Control(tx'), UNCHANGED <<mail, air>>, MoveSent
  PROVE  EngineInv'
<1>1. Id(tx)' = Id(tx)
  BY DEF MoveSent, Id, SameAs, Like
<1>2. Kept'
  BY DEF MoveSent, EngineInv, Kept
<1>3. Ordered'
  BY <1>1 DEF MoveSent, EngineInv, Ordered, Kept
<1>4. InHand'
  BY <1>1 DEF MoveSent, EngineInv, InHand, Kept, Control, Active, SameAs, Named, InHand,
     MailFits
<1>5. MailFits'
  BY <1>1 DEF MoveSent, EngineInv, MailFits, Active, SameAs, Like, Named, InHand, MailFits
<1>6. Counts'
  BY DEF MoveSent, EngineInv, Counts, Report, Kept, Control, Active, SameAs, Like,
     Unsure, Named, InHand, MailFits
<1>7. Report'
  BY DEF MoveSent, EngineInv, Report, Kept, Control, Active, SameAs, Like, Failures,
     Outcomes, Named, InHand, MailFits
<1>8. Limits'
  BY DEF MoveSent, EngineInv, Limits, Report, Kept, Control, Active, SameAs, Like,
     Unsure, Named, InHand, MailFits
<1> QED
  BY <1>2, <1>3, <1>4, <1>5, <1>6, <1>7, <1>8 DEF EngineInv

\* The attempt in the radio is retired, ACKED only if the peer heard it.
LEMMA StopKeeps ==
  ASSUME EngineInv, Control(tx'), UNCHANGED <<mail, air>>, MoveStop
  PROVE  EngineInv'
<1>1. Id(tx)' = Id(tx)
  BY DEF MoveStop, Id, SameAs, Like
<1>2. Kept'
  BY DEF MoveStop, EngineInv, Kept
<1>3. Ordered'
  BY <1>1 DEF MoveStop, EngineInv, Ordered
<1>4. InHand'
  BY <1>1 DEF MoveStop, EngineInv, InHand, Kept, Control
<1>5. MailFits'
  BY <1>1 DEF MoveStop, EngineInv, MailFits, Active, SameAs, Like
<1>6. Counts'
  BY DEF MoveStop, EngineInv, Counts, Report, Kept, Control, Active, SameAs, Like, Unsure
<1>7. Report'
  <2>1. NamedOwnAck => air.heard
    BY DEF NamedOwnAck, EngineInv, MailFits, Id
  <2> QED
    BY <2>1 DEF MoveStop, EngineInv, Report, Kept, Control, Active, SameAs, Like,
       Failures, Outcomes, Unsure
<1>8. Limits'
  BY DEF MoveStop, EngineInv, Limits, Report, Kept, Control, Active, SameAs, Like, Unsure
<1> QED
  BY <1>2, <1>3, <1>4, <1>5, <1>6, <1>7, <1>8 DEF EngineInv

\* A new attempt has a number that nothing in the radio or the mail has.
Newer ==
  /\ tx'.generation >= tx.generation
  /\ tx'.generation = tx.generation => /\ tx'.retries >= tx.retries
                                       /\ tx'.retries = tx.retries => tx'.nb > tx.nb

\* With a new number and an idle radio, every older report is stale.
LEMMA NewerFits ==
  ASSUME EngineInv, Control(tx'), UNCHANGED mail, Newer,
         UNCHANGED radio, radio.op = "idle", ~radio.stop,
         tx'.phase \in {"DRAW", "DONE"},
         (air' = air /\ tx'.generation = tx.generation) \/ tx'.generation > tx.generation
  PROVE  Ordered' /\ InHand' /\ MailFits'
<1>1. ASSUME NEW id \in IdSet, AtMost(id, Id(tx))
      PROVE  AtMost(id, Id(tx)') /\ id # Id(tx)'
  BY <1>1 DEF AtMost, Id, IdSet, Newer, EngineInv, Kept, Control
<1>2. Ordered'
  BY <1>1 DEF Ordered, EngineInv, Kept
<1>3. InHand'
  BY DEF InHand
<1>4. MailFits'
  <2> SUFFICES ASSUME NEW m \in mail
               PROVE  /\ m.id # Id(tx)'
                      /\ m.kind = "ACK" /\ m.own /\ m.id.generation = tx'.generation => air'.heard
    BY DEF MailFits
  <2>1. m.id # Id(tx)'
    BY <1>1 DEF Ordered, EngineInv, Kept
  <2>2. CASE air' = air /\ tx'.generation = tx.generation
    BY <2>1, <2>2 DEF EngineInv, MailFits
  <2>3. CASE tx'.generation > tx.generation
    <3>1. m.id.generation <= tx.generation
      BY DEF Ordered, EngineInv, Kept, AtMost, Id, IdSet, Control
    <3>2. m.id.generation # tx'.generation
      BY <2>3, <3>1 DEF EngineInv, Kept, Control, IdSet
    <3> QED
      BY <2>1, <3>2
  <2> QED
    BY <2>1, <2>2, <2>3
<1> QED
  BY <1>2, <1>3, <1>4

\* BUSY: the radio is idle and nothing was sent.
LEMMA BusyKeeps ==
  ASSUME EngineInv, Control(tx'), UNCHANGED <<mail, air>>, MoveBusy
  PROVE  EngineInv'
<1>1. Newer
  BY DEF MoveBusy, Newer, EngineInv, Kept, Control
<1>2. radio.op = "idle" /\ ~radio.stop
  BY DEF MoveBusy, Named, EngineInv, MailFits, InHand
<1>3. Kept'
  BY DEF MoveBusy, EngineInv, Kept
<1>4. Ordered' /\ InHand' /\ MailFits'
  BY <1>1, <1>2, NewerFits DEF MoveBusy
<1>5. Counts'
  BY <1>2 DEF MoveBusy, EngineInv, Counts, Report, Kept, Control
<1>6. Report'
  BY DEF MoveBusy, EngineInv, Report, Kept, Control
<1>7. Limits'
  BY TxConstants DEF MoveBusy, EngineInv, Limits, Report, Kept, Control
<1> QED
  BY <1>3, <1>4, <1>5, <1>6, <1>7 DEF EngineInv

\* QUIESCED with a retry pending: the radio is idle and every frame is counted.
LEMMA RetryKeeps ==
  ASSUME EngineInv, Control(tx'), UNCHANGED <<mail, air>>, MoveRetry
  PROVE  EngineInv'
<1>1. Newer
  BY DEF MoveRetry, Newer, EngineInv, Kept, Control
<1>2. radio.op = "idle" /\ ~radio.stop
  BY DEF MoveRetry, Named, EngineInv, MailFits, InHand
<1>3. Kept'
  BY DEF MoveRetry, EngineInv, Kept
<1>4. Ordered' /\ InHand' /\ MailFits'
  BY <1>1, <1>2, NewerFits DEF MoveRetry
<1>5. Counts'
  BY <1>2 DEF MoveRetry, EngineInv, Counts, Report, Kept, Control
<1>6. Report'
  BY DEF MoveRetry, EngineInv, Report, Kept, Control
<1>7. Limits'
  BY TxConstants DEF MoveRetry, EngineInv, Limits, Report, Kept, Control
<1> QED
  BY <1>3, <1>4, <1>5, <1>6, <1>7 DEF EngineInv

-----------------------------------------------------------------------------
(* mac_tx_submit, mac_tx_release and the world around the engine           *)

\* The next frame starts with a new generation and an idle radio.
LEMMA SubmitKeeps ==
  ASSUME EngineInv, NEW length, NEW ack \in BOOLEAN, NEW lifetime, NEW work,
         Submit(length, ack, lifetime, work)
  PROVE  EngineInv'
<1> DEFINE c == Cleared(tx)
<1>1. /\ c = [f \in TxFields |-> c[f]] /\ c.generation = tx.generation
      /\ c.retries = 0 /\ c.nb = 0 /\ c.transmissions = 0 /\ c.uncertain = 0
      /\ c.outcome = "NONE" /\ c.retry_pending = FALSE
  BY DEF EngineInv, Kept, Control, TxFields, Cleared
<1>2. /\ tx' = [f \in TxFields |-> tx'[f]] /\ tx'.generation = tx.generation + 1
      /\ tx'.retries = 0 /\ tx'.nb = 0 /\ tx'.transmissions = 0 /\ tx'.uncertain = 0
      /\ tx'.outcome = "NONE" /\ tx'.retry_pending = FALSE /\ tx'.phase = "DRAW"
      /\ tx'.ack_requested = ack
  <2> HIDE DEF c
  <2>1. PICK ready, last, deadline : tx' = [c EXCEPT
          !.phase = "DRAW", !.length = length, !.ack_requested = ack,
          !.generation = @ + 1, !.ready_at = ready,
          !.last = last, !.deadline = deadline, !.steps = work]
    BY DEF Submit, c
  <2> QED
    BY <1>1, <2>1 DEF TxFields
<1>3. /\ tx.phase = "IDLE" /\ radio' = radio /\ mail' = mail
      /\ air' = [air EXCEPT !.frames = 0, !.heard = FALSE]
  BY DEF Submit
<1>4. tx'.generation \in Nat /\ tx'.generation > tx.generation
  BY <1>2 DEF EngineInv, Kept, Control
<1>5. Control(tx')
  <2>1. /\ tx'.generation \in Nat /\ tx'.retries \in Nat /\ tx'.nb \in Nat
        /\ tx'.transmissions \in Nat /\ tx'.uncertain \in {0, 1}
    BY <1>2, <1>4
  <2>2. /\ tx'.phase \in Phases /\ tx'.outcome \in Outcomes
        /\ tx'.ack_requested \in BOOLEAN /\ tx'.retry_pending \in BOOLEAN
    BY <1>2 DEF Phases, Outcomes
  <2> QED
    BY <1>2, <2>1, <2>2 DEF Control
<1>6. /\ air' = [f \in {"frames", "heard", "quiet", "withdrawn"} |-> air'[f]]
      /\ air'.frames = 0 /\ air'.heard = FALSE
  BY <1>3 DEF EngineInv, Kept
<1>7. Kept'
  BY <1>3, <1>5, <1>6 DEF EngineInv, Kept
<1>8. radio.op = "idle" /\ ~radio.stop
  BY <1>3 DEF EngineInv, InHand
<1>9. Newer
  BY <1>2, <1>4 DEF Newer, EngineInv, Kept, Control
<1>10. Ordered' /\ InHand' /\ MailFits'
  BY <1>2, <1>3, <1>4, <1>5, <1>8, <1>9, NewerFits
<1>11. Counts' /\ Report'
  BY <1>2, <1>3, <1>6, <1>8 DEF Counts, Report
<1>12. Limits'
  BY <1>2, TxConstants DEF Limits
<1> QED
  BY <1>7, <1>10, <1>11, <1>12 DEF EngineInv

\* Releasing the slot only frees it.
LEMMA ReleaseKeeps ==
  ASSUME EngineInv, Release
  PROVE  EngineInv'
<1>1. /\ Control(tx') /\ Like(tx', tx) /\ tx'.phase = "IDLE" /\ tx'.outcome = tx.outcome
      /\ tx'.uncertain = tx.uncertain /\ tx'.retry_pending = tx.retry_pending
  BY DEF Release, EngineInv, Kept, Control, TxFields, Like, Phases
<1>2. tx.phase = "DONE" /\ UNCHANGED <<radio, mail, air>>
  BY DEF Release
<1>3. Id(tx)' = Id(tx)
  BY <1>1 DEF Id, Like
<1>4. Kept' /\ Ordered' /\ InHand'
  BY <1>1, <1>2, <1>3 DEF EngineInv, Kept, Ordered, InHand
<1>5. MailFits'
  BY <1>1, <1>2, <1>3 DEF EngineInv, MailFits, Like
<1>6. Counts' /\ Report' /\ Limits'
  BY <1>1, <1>2 DEF EngineInv, Counts, Report, Limits, Like
<1> QED
  BY <1>4, <1>5, <1>6 DEF EngineInv

\* A report of the attempt in the radio that is true of the radio's new state
\* keeps the invariant's parts about the mail.
LEMMA PostKeeps ==
  ASSUME EngineInv, NEW event, Post(event), event.id = Id(tx), UNCHANGED tx,
         tx.phase \in {"RADIO", "ACK_WAIT", "STOPPING", "FAULT"},
         radio'.id = Id(tx) \/ radio'.id = IdleRadio.id,
         air.heard => air'.heard,
         \A m \in mail \cup {event} : m.id = Id(tx) =>
           /\ tx.phase = "RADIO" /\ m.kind = "BUSY" => radio'.op = "idle"
           /\ tx.phase = "RADIO" /\ m.kind = "SENT" => radio'.op = "listen"
           /\ m.kind = "QUIESCED" => /\ radio'.op = "idle" /\ ~radio'.stop
                                     /\ tx.phase \in {"STOPPING", "FAULT"},
         event.own => air'.heard
  PROVE  Ordered' /\ MailFits' /\ \A m \in mail' : m.id \in IdSet
<1>1. PICK kept \in SUBSET mail : mail' = kept \cup {event}
  BY DEF Post
<1>2. Id(tx) \in IdSet /\ IdleRadio.id \in IdSet /\ Id(tx)' = Id(tx)
  BY DEF EngineInv, Kept, Control, Id, IdSet, IdleRadio
<1>3. AtMost(Id(tx), Id(tx)) /\ AtMost(IdleRadio.id, Id(tx))
  BY DEF AtMost, Id, IdleRadio, EngineInv, Kept, Control
<1>4. \A m \in mail' : m.id \in IdSet /\ AtMost(m.id, Id(tx))
  BY <1>1, <1>2, <1>3 DEF EngineInv, Kept, Ordered
<1>5. Ordered'
  BY <1>2, <1>3, <1>4 DEF Ordered
<1>6. MailFits'
  <2> SUFFICES ASSUME NEW m \in mail'
               PROVE  /\ m.id = Id(tx) =>
                          /\ tx.phase \notin {"DRAW", "DRAW_WAIT"}
                          /\ tx.phase = "RADIO" /\ m.kind = "BUSY" => radio'.op = "idle"
                          /\ tx.phase = "RADIO" /\ m.kind = "SENT" => radio'.op = "listen"
                          /\ m.kind = "QUIESCED" =>
                               /\ radio'.op = "idle" /\ ~radio'.stop
                               /\ tx.phase \in {"STOPPING", "DONE", "FAULT", "IDLE"}
                      /\ m.kind = "ACK" /\ m.own /\ m.id.generation = tx.generation
                           => air'.heard
    BY <1>2 DEF MailFits
  <2>1. m \in mail \/ m = event
    BY <1>1
  <2>2. m \in mail /\ m.kind = "ACK" /\ m.own /\ m.id.generation = tx.generation => air'.heard
    BY DEF EngineInv, MailFits
  <2>3. m.id = Id(tx) =>
          /\ tx.phase \notin {"DRAW", "DRAW_WAIT"}
          /\ tx.phase = "RADIO" /\ m.kind = "BUSY" => radio'.op = "idle"
          /\ tx.phase = "RADIO" /\ m.kind = "SENT" => radio'.op = "listen"
          /\ m.kind = "QUIESCED" => /\ radio'.op = "idle" /\ ~radio'.stop
                                    /\ tx.phase \in {"STOPPING", "DONE", "FAULT", "IDLE"}
    BY <2>1
  <2> QED
    BY <2>1, <2>2, <2>3
<1> QED
  BY <1>4, <1>5, <1>6

\* CCA found the channel busy.
LEMMA ChannelBusyKeeps ==
  ASSUME EngineInv, ChannelBusy
  PROVE  EngineInv'
<1> DEFINE event == Event("BUSY", radio.id, t)
<1>1. event.kind = "BUSY" /\ event.id = radio.id /\ event.own = FALSE
  BY DEF Event
<1>2. radio.op = "attempt" /\ Post(event) /\ UNCHANGED <<tx, air>>
  BY DEF ChannelBusy
<1>3. /\ radio' = [f \in {"op", "stop", "at", "end", "answered", "id"} |-> radio'[f]]
      /\ radio'.op = "idle" /\ radio'.stop = radio.stop /\ radio'.id = radio.id
  BY DEF ChannelBusy, IdleRadio
<1> HIDE DEF event
<1>4. radio.id = Id(tx) /\ tx.phase \in {"RADIO", "STOPPING", "FAULT"}
  BY <1>2 DEF EngineInv, InHand
<1>5. \A m \in mail \cup {event} : m.id = Id(tx) =>
        /\ tx.phase = "RADIO" /\ m.kind = "BUSY" => radio'.op = "idle"
        /\ tx.phase = "RADIO" /\ m.kind = "SENT" => radio'.op = "listen"
        /\ m.kind = "QUIESCED" => /\ radio'.op = "idle" /\ ~radio'.stop
                                  /\ tx.phase \in {"STOPPING", "FAULT"}
  BY <1>1, <1>2, <1>3 DEF EngineInv, MailFits
<1>6. Ordered' /\ MailFits' /\ \A m \in mail' : m.id \in IdSet
  BY <1>1, <1>2, <1>3, <1>4, <1>5, PostKeeps
<1>7. Kept'
  BY <1>2, <1>3, <1>6 DEF EngineInv, Kept
<1>8. InHand'
  BY <1>2, <1>3, <1>4 DEF EngineInv, InHand, Id
<1>9. Counts' /\ Report' /\ Limits'
  BY <1>2, <1>3 DEF EngineInv, Counts, Report, Limits
<1> QED
  BY <1>6, <1>7, <1>8, <1>9 DEF EngineInv

\* The frame goes on the air: one more than the engine has counted.
LEMMA AirStartKeeps ==
  ASSUME EngineInv, AirStart
  PROVE  EngineInv'
<1>1. radio.op = "attempt" /\ UNCHANGED <<tx, mail>>
  BY DEF AirStart
<1>2. /\ radio' = [f \in {"op", "stop", "at", "end", "answered", "id"} |-> radio'[f]]
      /\ radio'.op = "air" /\ radio'.stop = radio.stop /\ radio'.id = radio.id
  BY DEF AirStart, EngineInv, Kept
<1>3. /\ air' = [f \in {"frames", "heard", "quiet", "withdrawn"} |-> air'[f]]
      /\ air'.frames = air.frames + 1 /\ air'.heard = air.heard
  BY DEF AirStart, EngineInv, Kept
<1>4. radio.id = Id(tx) /\ tx.phase \in {"RADIO", "STOPPING", "FAULT"}
  BY <1>1 DEF EngineInv, InHand
<1>5. air'.frames \in Nat
  BY <1>3 DEF EngineInv, Kept
<1>6. Kept'
  BY <1>1, <1>2, <1>3, <1>5 DEF EngineInv, Kept
<1>7. Ordered' /\ InHand'
  BY <1>1, <1>2, <1>4 DEF EngineInv, Ordered, InHand, Id
<1>8. MailFits'
  BY <1>1, <1>2, <1>3 DEF EngineInv, MailFits, Id
<1>9. Counts'
  BY <1>1, <1>2, <1>3, <1>4 DEF EngineInv, Kept, Control, Counts
<1>10. Report' /\ Limits'
  BY <1>1, <1>3 DEF EngineInv, Report, Limits
<1> QED
  BY <1>6, <1>7, <1>8, <1>9, <1>10 DEF EngineInv

\* The frame is out, heard or not.
LEMMA AirEndKeeps ==
  ASSUME EngineInv, AirEnd
  PROVE  EngineInv'
<1> DEFINE event == Event("SENT", radio.id, t)
<1>1. event.kind = "SENT" /\ event.id = radio.id /\ event.own = FALSE
  BY DEF Event
<1>2. radio.op = "air" /\ Post(event) /\ UNCHANGED tx
  BY DEF AirEnd
<1>3. /\ radio' = [f \in {"op", "stop", "at", "end", "answered", "id"} |-> radio'[f]]
      /\ radio'.op = "listen" /\ radio'.stop = radio.stop /\ radio'.id = radio.id
  BY DEF AirEnd, EngineInv, Kept
<1>4. /\ air' = [f \in {"frames", "heard", "quiet", "withdrawn"} |-> air'[f]]
      /\ air'.frames = air.frames /\ air'.heard \in {air.heard, TRUE}
  BY DEF AirEnd, EngineInv, Kept
<1> HIDE DEF event
<1>5. radio.id = Id(tx) /\ tx.phase \in {"RADIO", "STOPPING", "FAULT"}
  BY <1>2 DEF EngineInv, InHand
<1>6. \A m \in mail \cup {event} : m.id = Id(tx) =>
        /\ tx.phase = "RADIO" /\ m.kind = "BUSY" => radio'.op = "idle"
        /\ tx.phase = "RADIO" /\ m.kind = "SENT" => radio'.op = "listen"
        /\ m.kind = "QUIESCED" => /\ radio'.op = "idle" /\ ~radio'.stop
                                  /\ tx.phase \in {"STOPPING", "FAULT"}
  BY <1>1, <1>2, <1>3 DEF EngineInv, MailFits
<1>7. air'.heard \in BOOLEAN /\ (air.heard => air'.heard)
  BY <1>4 DEF EngineInv, Kept
<1>8. Ordered' /\ MailFits' /\ \A m \in mail' : m.id \in IdSet
  BY <1>1, <1>2, <1>3, <1>5, <1>6, <1>7, PostKeeps
<1>9. Kept'
  BY <1>2, <1>3, <1>4, <1>7, <1>8 DEF EngineInv, Kept
<1>10. InHand'
  BY <1>2, <1>3, <1>5 DEF EngineInv, InHand, Id
<1>11. Counts' /\ Limits'
  BY <1>2, <1>3, <1>4 DEF EngineInv, Counts, Limits
<1>12. Report'
  BY <1>2, <1>7 DEF EngineInv, Report
<1> QED
  BY <1>8, <1>9, <1>10, <1>11, <1>12 DEF EngineInv

\* The peer acknowledges a frame it heard.
LEMMA PeerAckKeeps ==
  ASSUME EngineInv, PeerAck
  PROVE  EngineInv'
<1> DEFINE event == [Event("ACK", radio.id, t) EXCEPT !.own = TRUE]
<1>1. event.kind = "ACK" /\ event.id = radio.id
  BY DEF Event
<1>2. radio.op = "listen" /\ air.heard /\ Post(event) /\ UNCHANGED tx
  BY DEF PeerAck
<1>3. /\ radio' = [f \in {"op", "stop", "at", "end", "answered", "id"} |-> radio'[f]]
      /\ radio'.op = radio.op /\ radio'.stop = radio.stop /\ radio'.id = radio.id
  BY DEF PeerAck, EngineInv, Kept
<1>4. /\ air' = [f \in {"frames", "heard", "quiet", "withdrawn"} |-> air'[f]]
      /\ air'.frames = air.frames /\ air'.heard = air.heard
  BY DEF PeerAck, EngineInv, Kept
<1> HIDE DEF event
<1>5. radio.id = Id(tx) /\ tx.phase \in {"RADIO", "ACK_WAIT", "STOPPING", "FAULT"}
  BY <1>2 DEF EngineInv, InHand
<1>6. \A m \in mail \cup {event} : m.id = Id(tx) =>
        /\ tx.phase = "RADIO" /\ m.kind = "BUSY" => radio'.op = "idle"
        /\ tx.phase = "RADIO" /\ m.kind = "SENT" => radio'.op = "listen"
        /\ m.kind = "QUIESCED" => /\ radio'.op = "idle" /\ ~radio'.stop
                                  /\ tx.phase \in {"STOPPING", "FAULT"}
  BY <1>1, <1>2, <1>3 DEF EngineInv, MailFits
<1>7. Ordered' /\ MailFits' /\ \A m \in mail' : m.id \in IdSet
  BY <1>1, <1>2, <1>3, <1>4, <1>5, <1>6, PostKeeps
<1>8. Kept'
  BY <1>2, <1>3, <1>4, <1>7 DEF EngineInv, Kept
<1>9. InHand'
  BY <1>2, <1>3, <1>5 DEF EngineInv, InHand, Id
<1>10. Counts' /\ Report' /\ Limits'
  BY <1>2, <1>3, <1>4 DEF EngineInv, Counts, Report, Limits
<1> QED
  BY <1>7, <1>8, <1>9, <1>10 DEF EngineInv

\* An acknowledgement of somebody else's frame.
LEMMA StrayAckKeeps ==
  ASSUME EngineInv, StrayAck
  PROVE  EngineInv'
<1> DEFINE event == Event("ACK", radio.id, t)
<1>1. event.kind = "ACK" /\ event.id = radio.id /\ event.own = FALSE
  BY DEF Event
<1>2. radio.op = "listen" /\ Post(event) /\ UNCHANGED <<tx, radio, air>>
  BY DEF StrayAck
<1> HIDE DEF event
<1>3. radio.id = Id(tx) /\ tx.phase \in {"RADIO", "ACK_WAIT", "STOPPING", "FAULT"}
  BY <1>2 DEF EngineInv, InHand
<1>4. \A m \in mail \cup {event} : m.id = Id(tx) =>
        /\ tx.phase = "RADIO" /\ m.kind = "BUSY" => radio'.op = "idle"
        /\ tx.phase = "RADIO" /\ m.kind = "SENT" => radio'.op = "listen"
        /\ m.kind = "QUIESCED" => /\ radio'.op = "idle" /\ ~radio'.stop
                                  /\ tx.phase \in {"STOPPING", "FAULT"}
  BY <1>1, <1>2 DEF EngineInv, MailFits
<1>5. Ordered' /\ MailFits' /\ \A m \in mail' : m.id \in IdSet
  BY <1>1, <1>2, <1>3, <1>4, PostKeeps
<1>6. Kept'
  BY <1>2, <1>5 DEF EngineInv, Kept
<1>7. InHand' /\ Counts' /\ Report' /\ Limits'
  BY <1>2 DEF EngineInv, InHand, Id, Counts, Report, Limits
<1> QED
  BY <1>5, <1>6, <1>7 DEF EngineInv

\* The adapter retires the attempt; the engine is stopping or at fault.
LEMMA QuiescedKeeps ==
  ASSUME EngineInv, Quiesced
  PROVE  EngineInv'
<1> DEFINE event == Event("QUIESCED", radio.id, t)
<1>1. event.kind = "QUIESCED" /\ event.id = radio.id /\ event.own = FALSE
  BY DEF Event
<1>2. radio.stop /\ Post(event) /\ UNCHANGED tx /\ radio' = IdleRadio
  BY DEF Quiesced
<1>3. /\ radio' = [f \in {"op", "stop", "at", "end", "answered", "id"} |-> radio'[f]]
      /\ radio'.op = "idle" /\ radio'.stop = FALSE /\ radio'.id = IdleRadio.id
      /\ radio'.id \in IdSet
  BY <1>2 DEF IdleRadio, IdSet
<1>4. /\ air' = [f \in {"frames", "heard", "quiet", "withdrawn"} |-> air'[f]]
      /\ air'.frames = air.frames /\ air'.heard = air.heard
  BY DEF Quiesced, EngineInv, Kept
<1> HIDE DEF event
<1>5. radio.id = Id(tx) /\ tx.phase \in {"STOPPING", "FAULT"}
  BY <1>2 DEF EngineInv, InHand
<1>6. \A m \in mail \cup {event} : m.id = Id(tx) =>
        /\ tx.phase = "RADIO" /\ m.kind = "BUSY" => radio'.op = "idle"
        /\ tx.phase = "RADIO" /\ m.kind = "SENT" => radio'.op = "listen"
        /\ m.kind = "QUIESCED" => /\ radio'.op = "idle" /\ ~radio'.stop
                                  /\ tx.phase \in {"STOPPING", "FAULT"}
  BY <1>3, <1>5
<1>7. Ordered' /\ MailFits' /\ \A m \in mail' : m.id \in IdSet
  BY <1>1, <1>2, <1>3, <1>4, <1>5, <1>6, PostKeeps
<1>8. Kept'
  BY <1>2, <1>3, <1>4, <1>7 DEF EngineInv, Kept
<1>9. InHand'
  BY <1>2, <1>3, <1>5 DEF InHand
<1>10. Counts' /\ Report' /\ Limits'
  BY <1>2, <1>3, <1>4, <1>5 DEF EngineInv, Counts, Report, Limits
<1> QED
  BY <1>7, <1>8, <1>9, <1>10 DEF EngineInv

\* Time passes.
LEMMA TickKeeps ==
  ASSUME EngineInv, Tick
  PROVE  EngineInv'
<1>1. /\ air' = [f \in {"frames", "heard", "quiet", "withdrawn"} |-> air'[f]]
      /\ air'.frames = air.frames /\ air'.heard = air.heard
  BY DEF Tick, EngineInv, Kept
<1>2. UNCHANGED <<tx, radio, mail>>
  BY DEF Tick
<1>3. Kept' /\ Ordered' /\ InHand' /\ MailFits'
  BY <1>1, <1>2 DEF EngineInv, Kept, Ordered, InHand, MailFits, Id
<1>4. Counts' /\ Report' /\ Limits'
  BY <1>1, <1>2 DEF EngineInv, Counts, Report, Limits
<1> QED
  BY <1>3, <1>4 DEF EngineInv

-----------------------------------------------------------------------------
(* The theorems                                                            *)

\* mac_tx_init
LEMMA InitHolds == Init => EngineInv
<1> SUFFICES ASSUME Init PROVE EngineInv
  OBVIOUS
<1>1. Control(tx)
  BY DEF Init, Control, TxFields, Phases, Outcomes
<1>2. radio.id \in IdSet /\ AtMost(radio.id, Id(tx))
  BY DEF Init, IdleRadio, IdSet, AtMost, Id
<1>3. Kept /\ Ordered /\ InHand /\ MailFits
  BY <1>1, <1>2 DEF Init, Kept, Ordered, InHand, MailFits, IdleRadio
<1>4. Counts /\ Report
  BY DEF Init, Counts, Report, IdleRadio
<1>5. Limits
  BY TxConstants DEF Init, Limits
<1> QED
  BY <1>3, <1>4, <1>5 DEF EngineInv

\* A poll keeps the invariant.
LEMMA MovesKeep ==
  ASSUME EngineInv, Moves
  PROVE  EngineInv'
BY StayKeeps, FaultKeeps, LoseRetryKeeps, RetireKeeps, RetryKeeps, GiveUpKeeps,
   DrawKeeps, BusyKeeps, SentKeeps, StopKeeps DEF Moves, Move

\* What a step of the engine is, to the layer above and to the invariant.
LEMMA EngineSteps ==
  ASSUME EngineInv, Engine
  PROVE  \/ \E length, lifetime, work : \E ack \in BOOLEAN :
              Submit(length, ack, lifetime, work)
         \/ Release
         \/ Moves
<1>1. Control(tx)
  BY DEF EngineInv, Kept
<1> QED
  BY <1>1, StepMoves DEF Engine

\* Every step keeps the invariant.
LEMMA NextKeeps == EngineInv /\ [Next]_txVars => EngineInv'
<1> SUFFICES ASSUME EngineInv, [Next]_txVars PROVE EngineInv'
  OBVIOUS
<1>1. CASE Engine
  BY <1>1, EngineSteps, SubmitKeeps, ReleaseKeeps, MovesKeep
<1>2. CASE World
  BY <1>2, ChannelBusyKeeps, AirStartKeeps, AirEndKeeps, PeerAckKeeps, StrayAckKeeps,
     QuiescedKeeps DEF World
<1>3. CASE Tick
  BY <1>3, TickKeeps
<1>4. CASE UNCHANGED txVars
  BY <1>4 DEF txVars, EngineInv, Kept, Ordered, InHand, MailFits, Counts, Report, Limits,
     Control, Id
<1> QED
  BY <1>1, <1>2, <1>3, <1>4 DEF Next

\* The invariant is inductive.
THEOREM EngineInductive == Spec => []EngineInv
BY InitHolds, NextKeeps, PTL DEF Spec

\* The radio has one user (RadioExclusive): when the engine draws a backoff,
\* is done or is free, the adapter has nothing in hand, whatever stale,
\* repeated or lost events mac_tx_step was given.
THEOREM RadioHasOneUser == Spec => []RadioExclusive
<1>1. EngineInv => RadioExclusive
  BY DEF EngineInv, InHand, RadioExclusive
<1> QED
  BY <1>1, EngineInductive, PTL

\* The report of mac_tx_step is true (ReportIsTrue): it counts the frames that
\* went out up to one it calls uncertain, and ACKED means received.
THEOREM ReportsAreTrue == Spec => []ReportIsTrue
<1>1. EngineInv => ReportIsTrue
  BY DEF EngineInv, Counts, Report, ReportIsTrue, SentIsReported, AckedWasHeard
<1> QED
  BY <1>1, EngineInductive, PTL

\* A frame is on the air at most once more than it may be retried, the
\* attempts whose fate is unknown included (no_ack(), mac_tx_step).
THEOREM FramesAreBounded == Spec => [](air.frames <= MAX_RETRIES + 1)
<1>1. EngineInv => air.frames <= MAX_RETRIES + 1
  <2> SUFFICES ASSUME EngineInv PROVE air.frames <= MAX_RETRIES + 1
    OBVIOUS
  <2>1. air.frames <= tx.retries + 1
    BY DEF EngineInv, Kept, Control, Counts, Limits
  <2> QED
    BY <2>1, TxConstants DEF EngineInv, Kept, Control, Limits
<1> QED
  BY <1>1, EngineInductive, PTL

-----------------------------------------------------------------------------
(* The engine implements the slot of MacSlot                               *)

\* SlotOf is a slot; its fields, by phase.
LEMMA SlotFields ==
  ASSUME NEW e, Control(e), e.phase # "IDLE"
  PROVE  LET s == SlotOf(e)
         IN /\ s = [phase |-> s.phase, ack |-> e.ack_requested, outcome |-> s.outcome,
                    sent |-> e.transmissions > 0,
                    retry |-> (e.phase = "STOPPING" /\ e.retry_pending)]
            /\ s.phase = IF e.phase \in {"DRAW_WAIT", "RADIO", "ACK_WAIT"}
                         THEN "BUSY" ELSE e.phase
            /\ s.outcome = IF e.outcome \in {"NONE", "ACKED", "UNACKNOWLEDGED"}
                           THEN e.outcome ELSE "FAILED"
<1>1. e.ack_requested \in BOOLEAN
  BY DEF Control
<1>2. SlotOf(e).ack = e.ack_requested
  BY <1>1 DEF SlotOf
<1>3. SlotOf(e).phase = IF e.phase \in {"DRAW_WAIT", "RADIO", "ACK_WAIT"}
                        THEN "BUSY" ELSE e.phase
  BY DEF SlotOf
<1>4. SlotOf(e).outcome = IF e.outcome \in {"NONE", "ACKED", "UNACKNOWLEDGED"}
                          THEN e.outcome ELSE "FAILED"
  BY DEF SlotOf
<1>5. SlotOf(e).sent = (e.transmissions > 0)
      /\ SlotOf(e).retry = (e.phase = "STOPPING" /\ e.retry_pending)
  BY DEF SlotOf
<1>6. SlotOf(e) = [phase |-> SlotOf(e).phase, ack |-> SlotOf(e).ack,
                   outcome |-> SlotOf(e).outcome, sent |-> SlotOf(e).sent,
                   retry |-> SlotOf(e).retry]
  BY DEF SlotOf
<1> QED
  BY <1>2, <1>3, <1>4, <1>5, <1>6

\* Every move of a poll is a poll of the slot.
LEMMA MoveIsPoll ==
  ASSUME EngineInv, EngineInv', Moves
  PROVE  Slot!SlotPoll
<1> DEFINE s == SlotOf(tx)
<1> DEFINE n == SlotOf(tx')
<1>1. Control(tx) /\ Control(tx')
  BY DEF EngineInv, Kept
<1>2. /\ Active /\ tx'.phase # "IDLE" /\ tx'.ack_requested = tx.ack_requested
      /\ \/ tx'.transmissions = tx.transmissions
         \/ /\ tx'.transmissions = tx.transmissions + 1
            /\ tx.phase = "RADIO" /\ tx'.phase \in {"ACK_WAIT", "STOPPING"}
  BY DEF Moves, Move, MoveStay, MoveFault, MoveLoseRetry, MoveRetire, MoveRetry, MoveGiveUp,
     MoveDraw, MoveBusy, MoveSent, MoveStop, Active, SameAs, Like
<1>3. tx.phase \in {"DRAW", "DRAW_WAIT", "RADIO", "ACK_WAIT", "STOPPING"}
  BY <1>1, <1>2 DEF Active, Control, Phases
<1>4. /\ s.ack = tx.ack_requested /\ s.sent = (tx.transmissions > 0)
      /\ s.retry = (tx.phase = "STOPPING" /\ tx.retry_pending)
      /\ s.phase = IF tx.phase \in {"DRAW_WAIT", "RADIO", "ACK_WAIT"}
                   THEN "BUSY" ELSE tx.phase
      /\ s.outcome = IF tx.outcome \in {"NONE", "ACKED", "UNACKNOWLEDGED"}
                     THEN tx.outcome ELSE "FAILED"
  BY <1>1, <1>3, SlotFields
<1>5. /\ n = [phase |-> n.phase, ack |-> tx'.ack_requested, outcome |-> n.outcome,
              sent |-> tx'.transmissions > 0,
              retry |-> (tx'.phase = "STOPPING" /\ tx'.retry_pending)]
      /\ n.phase = IF tx'.phase \in {"DRAW_WAIT", "RADIO", "ACK_WAIT"}
                   THEN "BUSY" ELSE tx'.phase
      /\ n.outcome = IF tx'.outcome \in {"NONE", "ACKED", "UNACKNOWLEDGED"}
                     THEN tx'.outcome ELSE "FAILED"
  BY <1>1, <1>2, SlotFields
<1> HIDE DEF s, n
<1>6. /\ n.ack = tx'.ack_requested /\ n.sent = (tx'.transmissions > 0)
      /\ n.retry = (tx'.phase = "STOPPING" /\ tx'.retry_pending)
  BY <1>5
<1>7. n \in [phase : Slot!SlotPhases, ack : {s.ack}, outcome : Slot!SlotOutcomes,
            sent : {s.sent, TRUE}, retry : BOOLEAN]
  <2>1. n.phase \in Slot!SlotPhases /\ n.outcome \in Slot!SlotOutcomes
    BY <1>1, <1>5 DEF Control, Phases, Outcomes, Slot!SlotPhases, Slot!SlotOutcomes
  <2>2. (tx'.transmissions > 0) = (tx.transmissions > 0) \/ (tx'.transmissions > 0) = TRUE
    BY <1>1, <1>2 DEF Control
  <2>3. n.ack = s.ack /\ n.sent \in {s.sent, TRUE}
    BY <1>2, <1>4, <1>6, <2>2
  <2>4. n.retry \in BOOLEAN
    BY <1>6
  <2>5. n = [phase |-> n.phase, ack |-> n.ack, outcome |-> n.outcome,
             sent |-> n.sent, retry |-> n.retry]
    BY <1>5, <1>6
  <2> QED
    BY <2>1, <2>3, <2>4, <2>5
<1>8. Slot!Honest(n)
  BY <1>5, <1>6 DEF EngineInv, Report, Slot!Honest
<1>9. n.retry => n.phase = "STOPPING" /\ n.outcome = "FAILED"
  BY <1>5, <1>6 DEF EngineInv, Report
<1>10. n.sent # s.sent => s.phase = "BUSY" /\ n.phase \in {"BUSY", "STOPPING"}
  BY <1>1, <1>2, <1>4, <1>5, <1>6 DEF Control
<1>11. \/ n.phase = "FAULT" /\ n.outcome = "FAILED"
       \/ n.phase = "DRAW" /\ (s.phase = "BUSY" \/ s.retry) /\ n.outcome = "NONE"
       \/ n.phase = "BUSY" /\ s.phase \in {"DRAW", "BUSY"} /\ n.outcome = "NONE"
       \/ n.phase = "STOPPING" /\ s.phase = "BUSY" /\ n.outcome # "NONE"
       \/ /\ n.phase = "STOPPING" /\ s.phase = "STOPPING"
          /\ n.outcome = s.outcome /\ (n.retry => s.retry)
       \/ n.phase = "DONE" /\ s.phase \in {"DRAW", "BUSY"} /\ n.outcome = "FAILED"
       \/ n.phase = "DONE" /\ s.phase = "STOPPING" /\ n.outcome = s.outcome
  <2>1. /\ tx.phase \in {"DRAW", "DRAW_WAIT", "RADIO", "ACK_WAIT"} => tx.outcome = "NONE"
        /\ tx.phase = "STOPPING" /\ tx.retry_pending => tx.outcome = "NO_ACK"
    BY DEF EngineInv, Report
  <2>2. CASE MoveStay
    <3>1. tx'.phase = tx.phase /\ tx'.outcome = tx.outcome /\ tx'.retry_pending = tx.retry_pending
      BY <2>2 DEF MoveStay, SameAs
    <3>2. n.phase = s.phase /\ n.outcome = s.outcome /\ n.retry = s.retry
      BY <1>4, <1>5, <1>6, <3>1
    <3>3. \/ s.phase \in {"DRAW", "BUSY"} /\ s.outcome = "NONE"
          \/ s.phase = "STOPPING"
      BY <1>3, <1>4, <2>1
    <3>4. s.phase # "DRAW"
      BY <1>4, <2>2 DEF MoveStay
    <3> QED
      BY <3>2, <3>3, <3>4
  <2>3. CASE MoveFault
    BY <1>5, <2>3 DEF MoveFault, Failures
  <2>4. CASE MoveLoseRetry
    BY <1>4, <1>5, <1>6, <2>1, <2>4 DEF MoveLoseRetry, Failures
  <2>5. CASE MoveRetire
    BY <1>4, <1>5, <2>1, <2>5 DEF MoveRetire, Failures
  <2>6. CASE MoveRetry
    BY <1>4, <1>5, <2>6 DEF MoveRetry
  <2>7. CASE MoveGiveUp
    BY <1>4, <1>5, <2>7 DEF MoveGiveUp, Failures
  <2>8. CASE MoveDraw
    BY <1>4, <1>5, <2>1, <2>8 DEF MoveDraw
  <2>9. CASE MoveBusy
    BY <1>4, <1>5, <2>1, <2>9 DEF MoveBusy
  <2>10. CASE MoveSent
    BY <1>4, <1>5, <2>1, <2>10 DEF MoveSent
  <2>11. CASE MoveStop
    BY <1>4, <1>5, <2>11 DEF MoveStop, Failures
  <2> QED
    BY <2>2, <2>3, <2>4, <2>5, <2>6, <2>7, <2>8, <2>9, <2>10, <2>11 DEF Moves, Move
<1>12. n \in Slot!Polled(s)
  BY <1>7, <1>8, <1>9, <1>10, <1>11 DEF Slot!Polled
<1>13. s.phase \in {"DRAW", "BUSY", "STOPPING"}
  BY <1>3, <1>4
<1> QED
  BY <1>12, <1>13 DEF Slot!SlotPoll, s, n

\* A frame is taken only when the slot is free.
LEMMA SubmitIsSubmit ==
  ASSUME EngineInv, EngineInv', NEW length, NEW ack \in BOOLEAN, NEW lifetime, NEW work,
         Submit(length, ack, lifetime, work)
  PROVE  Slot!SlotSubmit
<1>1. tx.phase = "IDLE"
  BY DEF Submit
<1>2. /\ tx'.phase = "DRAW" /\ tx'.outcome = "NONE" /\ tx'.transmissions = 0
      /\ tx'.ack_requested = ack
  BY DEF Submit, Cleared, EngineInv, Kept, Control, TxFields
<1>3. SlotOf(tx).phase = "IDLE"
  BY <1>1 DEF SlotOf
<1>4. SlotOf(tx') = [phase |-> "DRAW", ack |-> ack, outcome |-> "NONE",
                     sent |-> FALSE, retry |-> FALSE]
  <2> DEFINE n == SlotOf(tx')
  <2>1. Control(tx') /\ tx'.phase # "IDLE"
    BY <1>2 DEF EngineInv, Kept
  <2>2. /\ n = [phase |-> n.phase, ack |-> tx'.ack_requested, outcome |-> n.outcome,
              sent |-> tx'.transmissions > 0,
              retry |-> (tx'.phase = "STOPPING" /\ tx'.retry_pending)]
        /\ n.phase = "DRAW" /\ n.outcome = "NONE"
    BY <1>2, <2>1, SlotFields
  <2> HIDE DEF n
  <2>3. (tx'.transmissions > 0) = FALSE
        /\ (tx'.phase = "STOPPING" /\ tx'.retry_pending) = FALSE
    BY <1>2
  <2> QED
    BY <1>2, <2>2, <2>3 DEF n
<1>5. Slot!Accepted(ack) = [phase |-> "DRAW", ack |-> ack, outcome |-> "NONE",
                            sent |-> FALSE, retry |-> FALSE]
  <2> DEFINE a == Slot!Accepted(ack)
  <2>1. /\ a = [f \in {"phase", "ack", "outcome", "sent", "retry"} |-> a[f]]
        /\ a.phase = "DRAW" /\ a.ack = ack /\ a.outcome = "NONE"
        /\ a.sent = FALSE /\ a.retry = FALSE
    BY DEF Slot!Accepted, Slot!EmptySlot
  <2> HIDE DEF a
  <2>2. a = [phase |-> "DRAW", ack |-> ack, outcome |-> "NONE", sent |-> FALSE, retry |-> FALSE]
    BY <2>1
  <2> QED
    BY <2>2 DEF a
<1> QED
  BY <1>3, <1>4, <1>5 DEF Slot!SlotSubmit

\* A free engine is the empty slot.
LEMMA IdleIsEmpty ==
  ASSUME NEW e, e.phase = "IDLE"
  PROVE  SlotOf(e) = Slot!EmptySlot
BY DEF SlotOf, Slot!EmptySlot

\* Only mac_tx_release frees the slot.
LEMMA ReleaseIsRelease ==
  ASSUME EngineInv, Release
  PROVE  Slot!SlotRelease
<1>1. tx.phase = "DONE" /\ tx'.phase = "IDLE"
  BY DEF Release, EngineInv, Kept, Control, TxFields
<1>2. SlotOf(tx).phase = "DONE"
  BY <1>1 DEF SlotOf
<1>3. SlotOf(tx') = Slot!EmptySlot
  BY <1>1, IdleIsEmpty
<1> QED
  BY <1>2, <1>3 DEF Slot!SlotRelease

\* The engine is the slot that NwkAps relies on (ImplementsSlot).
THEOREM EngineIsSlot == Spec => ImplementsSlot
<1>1. Init => Slot!SlotInit
  BY IdleIsEmpty DEF Init, Slot!SlotInit
<1>2. EngineInv /\ EngineInv' /\ [Next]_txVars =>
        [Slot!SlotSubmit \/ Slot!SlotPoll \/ Slot!SlotRelease]_(SlotOf(tx))
  <2> SUFFICES ASSUME EngineInv, EngineInv', [Next]_txVars
               PROVE  \/ Slot!SlotSubmit \/ Slot!SlotPoll \/ Slot!SlotRelease
                      \/ SlotOf(tx)' = SlotOf(tx)
    OBVIOUS
  <2>1. CASE Engine
    BY <2>1, EngineSteps, SubmitIsSubmit, ReleaseIsRelease, MoveIsPoll
  <2>2. CASE World \/ Tick \/ UNCHANGED txVars
    <3>1. tx' = tx
      BY <2>2 DEF World, Tick, txVars, ChannelBusy, AirStart, AirEnd, PeerAck, StrayAck,
         Quiesced
    <3> QED
      BY <3>1
  <2> QED
    BY <2>1, <2>2 DEF Next
<1> QED
  BY <1>1, <1>2, EngineInductive, PTL DEF Spec, ImplementsSlot, Slot!SlotSpec

-----------------------------------------------------------------------------
(* The wrapping counter                                                    *)

\* Quotient and remainder.
LEMMA Remainder ==
  ASSUME NEW x \in Int, NEW n \in Nat, n > 0
  PROVE  x % n \in 0..(n - 1) /\ x \div n \in Int /\ x = n * (x \div n) + (x % n)
BY SMT

\* A remainder is what is left of a multiple.
LEMMA RemainderOf ==
  ASSUME NEW n \in Nat, n > 0, NEW q \in Int, NEW r \in 0..(n - 1)
  PROVE  (n * q + r) % n = r
BY SMT

\* The counter's range; HALF is at most the other half of it.
LEMMA Counter == MOD \in Nat /\ MOD > 0 /\ HALF \in Nat /\ HALF + HALF <= MOD /\ HALF > 0
                 /\ Start \in Int
<1>1. MOD \in Nat /\ MOD >= 2 /\ Start \in Int
  BY TxConstants
<1>2. MOD % 2 \in 0..1 /\ MOD \div 2 \in Int /\ MOD = 2 * (MOD \div 2) + (MOD % 2)
  BY <1>1, Remainder
<1> QED
  BY <1>1, <1>2 DEF HALF

\* Two readings that differ by a turn or more are as far apart as the rest.
LEMMA SubIs ==
  ASSUME NEW a \in Int, NEW b \in Int, NEW d \in 0..(MOD - 1), NEW q \in Int,
         a - b = MOD * q + d
  PROVE  Sub(a, b) = d
BY Counter, RemainderOf DEF Sub

\* A distance on the counter, and the turns it leaves out.
LEMMA SubTurns ==
  ASSUME NEW a \in Int, NEW b \in Int
  PROVE  /\ Sub(a, b) \in 0..(MOD - 1)
         /\ \E q \in Int : a - b = MOD * q + Sub(a, b)
<1> DEFINE x == a - b
<1>1. x \in Int
  OBVIOUS
<1> HIDE DEF x
<1>2. x % MOD \in 0..(MOD - 1) /\ x \div MOD \in Int /\ x = MOD * (x \div MOD) + (x % MOD)
  BY <1>1, Counter, Remainder
<1>3. Sub(a, b) = x % MOD
  BY DEF Sub, x
<1> QED
  BY <1>2, <1>3 DEF x

\* Multiples of the counter's range.
LEMMA Turns ==
  ASSUME NEW p \in Int, NEW q \in Int
  PROVE  /\ MOD * p \in Int /\ MOD * q \in Int
         /\ MOD * (p + q) = MOD * p + MOD * q
         /\ MOD * (p + q + 1) = MOD * p + MOD * q + MOD
         /\ MOD * (p - q) = MOD * p - MOD * q
<1>1. MOD \in Int
  BY Counter
<1> QED
  BY <1>1, SMT

\* Distances add up, less a turn where they exceed one.
LEMMA SubAdds ==
  ASSUME NEW a \in Int, NEW b \in Int, NEW c \in Int
  PROVE  Sub(a, c) = IF Sub(a, b) + Sub(b, c) < MOD THEN Sub(a, b) + Sub(b, c)
                                                   ELSE Sub(a, b) + Sub(b, c) - MOD
<1>1. PICK p \in Int : a - b = MOD * p + Sub(a, b)
  BY SubTurns
<1>2. PICK q \in Int : b - c = MOD * q + Sub(b, c)
  BY SubTurns
<1> DEFINE x == Sub(a, b)  y == Sub(b, c)
<1>3. x \in 0..(MOD - 1) /\ y \in 0..(MOD - 1)
  BY SubTurns
<1>4. a - b = MOD * p + x /\ b - c = MOD * q + y
  BY <1>1, <1>2
<1> HIDE DEF x, y
<1> DEFINE P == MOD * p  Q == MOD * q  S == MOD * (p + q)  U == MOD * (p + q + 1)
<1>7. P \in Int /\ Q \in Int /\ S = P + Q /\ U = P + Q + MOD
  BY Turns
<1>8. a - b = P + x /\ b - c = Q + y
  BY <1>4
<1> HIDE DEF P, Q, S, U
<1>5. CASE x + y < MOD
  <2>1. a - c = S + (x + y) /\ p + q \in Int
    BY <1>3, <1>7, <1>8
  <2>2. x + y \in 0..(MOD - 1)
    BY <1>3, <1>5, Counter
  <2> QED
    BY <1>5, <2>1, <2>2, SubIs DEF x, y, S
<1>6. CASE ~(x + y < MOD)
  <2>1. a - c = U + (x + y - MOD) /\ p + q + 1 \in Int
    BY <1>3, <1>7, <1>8, Counter
  <2>2. x + y - MOD \in 0..(MOD - 1)
    BY <1>3, <1>6, Counter
  <2> QED
    BY <1>6, <2>1, <2>2, SubIs DEF x, y, U
<1> QED
  BY <1>5, <1>6

\* The way back is the rest of the turn.
LEMMA SubBack ==
  ASSUME NEW a \in Int, NEW b \in Int
  PROVE  Sub(b, a) = IF Sub(a, b) = 0 THEN 0 ELSE MOD - Sub(a, b)
<1>1. Sub(a, a) = 0
  <2>1. a - a = MOD * 0 + 0 /\ 0 \in 0..(MOD - 1)
    BY Counter
  <2> QED
    BY <2>1, SubIs
<1>2. Sub(a, b) \in 0..(MOD - 1) /\ Sub(b, a) \in 0..(MOD - 1)
  BY SubTurns
<1>3. Sub(a, a) = IF Sub(a, b) + Sub(b, a) < MOD THEN Sub(a, b) + Sub(b, a)
                                                ELSE Sub(a, b) + Sub(b, a) - MOD
  BY SubAdds
<1> QED
  BY <1>1, <1>2, <1>3, Counter

\* The counter's reading is a number.
LEMMA ClockIsInt == \A x \in Int : Clock(x) \in Int
  BY Counter, Remainder DEF Clock

\* Moments less than a turn apart are that far apart on the counter.
LEMMA ClockSub ==
  ASSUME NEW a \in Int, NEW b \in Int, a - b \in 0..(MOD - 1)
  PROVE  Sub(Clock(a), Clock(b)) = a - b
<1> DEFINE x == Start + a  y == Start + b
<1>1. x \in Int /\ y \in Int /\ x - y = a - b
  BY Counter
<1> HIDE DEF x, y
<1> DEFINE u == x % MOD  v == y % MOD
<1>2. u \in 0..(MOD - 1) /\ x \div MOD \in Int /\ x = MOD * (x \div MOD) + u
  BY <1>1, Counter, Remainder
<1>3. v \in 0..(MOD - 1) /\ y \div MOD \in Int /\ y = MOD * (y \div MOD) + v
  BY <1>1, Counter, Remainder
<1> HIDE DEF u, v
<1>4. PICK p \in Int : x = MOD * p + u
  BY <1>2
<1>5. PICK q \in Int : y = MOD * q + v
  BY <1>3
<1> DEFINE P == MOD * p  Q == MOD * q  S == MOD * (q - p)
<1>6. P \in Int /\ Q \in Int /\ S = Q - P
  BY Turns
<1>7. q - p \in Int
  OBVIOUS
<1>8. x = P + u /\ y = Q + v
  BY <1>4, <1>5
<1> HIDE DEF P, Q, S
<1>9. u - v = S + (a - b) /\ u \in Int /\ v \in Int
  BY <1>1, <1>2, <1>3, <1>6, <1>8
<1>10. Sub(u, v) = a - b
  BY <1>7, <1>9, SubIs DEF S
<1> QED
  BY <1>10 DEF Clock, u, v, x, y

\* A reading moved on is the reading of the later moment.
LEMMA ClockAdds ==
  ASSUME NEW s \in Int, NEW c \in Int, NEW x \in Int
  PROVE  Add(Clock(s) + c, x) = Clock(s + c + x)
<1> DEFINE y == Start + s  z == Start + (s + c + x)
<1>1. y \in Int /\ z \in Int /\ z = y + c + x
  BY Counter
<1> HIDE DEF y, z
<1> DEFINE u == y % MOD
<1>2. u \in 0..(MOD - 1) /\ y \div MOD \in Int /\ y = MOD * (y \div MOD) + u
  BY <1>1, Counter, Remainder
<1> HIDE DEF u
<1>3. PICK p \in Int : y = MOD * p + u
  BY <1>2
<1> DEFINE w == u + c + x
<1>4. w \in Int
  BY <1>2, Counter
<1> DEFINE v == w % MOD
<1>5. v \in 0..(MOD - 1) /\ w \div MOD \in Int /\ w = MOD * (w \div MOD) + v
  BY <1>4, Counter, Remainder
<1> HIDE DEF v
<1>6. PICK q \in Int : w = MOD * q + v
  BY <1>5
<1> HIDE DEF w
<1> DEFINE P == MOD * p  Q == MOD * q  S == MOD * (p + q)
<1>7. P \in Int /\ Q \in Int /\ S = P + Q /\ p + q \in Int
  BY Turns
<1>8. y = P + u /\ w = Q + v /\ w = u + c + x
  BY <1>3, <1>6 DEF w
<1> HIDE DEF P, Q, S
<1>9. z = S + v
  BY <1>1, <1>2, <1>5, <1>7, <1>8
<1>10. z % MOD = v
  BY <1>5, <1>7, <1>9, Counter, RemainderOf DEF S
<1> QED
  BY <1>10 DEF Clock, Add, y, z, u, v, w

\* Moving a reading on moves it away from an earlier one, until it has gone round.
LEMMA SubLater ==
  ASSUME NEW a \in Int, NEW b \in Int, NEW k \in Nat
  PROVE  /\ Add(a, k) \in Int
         /\ Sub(Add(a, k), b) <= Sub(a, b) + k
         /\ Sub(a, b) + k < MOD => Sub(Add(a, k), b) = Sub(a, b) + k
<1> DEFINE w == a + k
<1>1. w \in Int /\ w = a + k
  OBVIOUS
<1> HIDE DEF w
<1> DEFINE v == w % MOD
<1>2. v \in 0..(MOD - 1) /\ w \div MOD \in Int /\ w = MOD * (w \div MOD) + v
  BY <1>1, Counter, Remainder
<1> HIDE DEF v
<1>3. PICK p \in Int : w = MOD * p + v
  BY <1>2
<1>4. PICK q \in Int : a - b = MOD * q + Sub(a, b)
  BY SubTurns
<1> DEFINE x == Sub(a, b)  g == Sub(v, b)
<1>15. v \in Int
  BY <1>2, Counter
<1>5. x \in 0..(MOD - 1) /\ g \in 0..(MOD - 1)
  BY <1>15, SubTurns
<1>6. PICK j \in Int : v - b = MOD * j + g
  BY <1>15, SubTurns
<1>7. a - b = MOD * q + x
  BY <1>4
<1> HIDE DEF x, g
<1> DEFINE P == MOD * p  Q == MOD * q  J == MOD * j  D == MOD * (q - p)
<1>8. P \in Int /\ Q \in Int /\ D = Q - P /\ q - p \in Int
  BY Turns
<1>9. J \in Int
  BY Turns
<1>10. w = P + v /\ a - b = Q + x /\ v - b = J + g
  BY <1>3, <1>6, <1>7
<1> HIDE DEF P, Q, J, D
<1>11. v - b = D + (x + k) /\ v - b = J + g
  BY <1>1, <1>2, <1>5, <1>8, <1>9, <1>10
<1>12. x + k < MOD => g = x + k
  <2> HAVE x + k < MOD
  <2>1. x + k \in 0..(MOD - 1)
    BY <1>5, Counter
  <2>2. v \in Int /\ v - b = MOD * (q - p) + (x + k)
    BY <1>2, <1>11, Counter DEF D
  <2> QED
    BY <2>1, <2>2, <1>8, SubIs DEF g
<1>13. g <= x + k
  <2>1. CASE x + k < MOD
    BY <2>1, <1>12, <1>5, Counter
  <2>2. CASE ~(x + k < MOD)
    BY <2>2, <1>5, Counter
  <2> QED
    BY <2>1, <2>2
<1>14. Add(a, k) = v
  BY DEF Add, v, w
<1> QED
  BY <1>2, <1>12, <1>13, <1>14, Counter DEF x, g

-----------------------------------------------------------------------------
(* Waiting times on the counter                                            *)

\* The longest wait for an acknowledgement and the spacing after it, and the
\* longest backoff.
Span    == ACK_SYMBOLS + LIFS
Longest == (2^MAX_BE - 1) * BACKOFF_SYMBOLS

\* How long the air must stay quiet after a frame of e.
Wait(e) == (IF e.ack_requested THEN ACK_SYMBOLS ELSE 0) + IFS(e.length)

\* ready_at, as a poll moves it along.
Ratchet == IF reached(tx.last, tx.ready_at) \/ reached(now, tx.ready_at)
           THEN now ELSE tx.ready_at

\* r lies no earlier than the end of the quiet time and not far ahead, as seen
\* now and from the last poll, unless the quiet time is over or was given up.
Covers(r, last) ==
  \/ air.withdrawn
  \/ air.quiet <= t
  \/ /\ air.quiet - t <= Sub(r, now)
     /\ Sub(r, now) <= Sub(r, last)
     /\ Sub(r, last) <= Span

\* r is in the past of last, or not far ahead of it.
Near(r, last) == Sub(last, r) < HALF \/ Sub(r, last) <= Span

\* The waits are short against the counter's range.
LEMMA WaitsAreShort ==
  /\ Span \in Nat /\ Longest \in Nat /\ Span + Longest < HALF
  /\ ACK_SYMBOLS \in Nat /\ ACK_SYMBOLS <= Span
  /\ \A length : IFS(length) \in Nat /\ IFS(length) <= LIFS
<1>1. ACK_SYMBOLS \in Nat /\ LIFS \in Nat /\ SIFS \in Nat /\ SIFS <= LIFS
  BY TxConstants
<1>2. BACKOFF_SYMBOLS \in Nat /\ MAX_BE \in Nat
  BY TxConstants
<1> DEFINE w == 2^MAX_BE
<1>3. w > 0 /\ w \in Int
  <2>1. MAX_BE \in 0..MAX_BE
    BY <1>2
  <2>2. w > 0
    BY <2>1, TxConstants
  <2>3. w \in Int
    BY <1>2, SMT
  <2> QED
    BY <2>2, <2>3
<1>4. ACK_SYMBOLS + LIFS + (w - 1) * BACKOFF_SYMBOLS < HALF
  BY TxConstants
<1> HIDE DEF w
<1>5. (w - 1) * BACKOFF_SYMBOLS \in Nat
  <2>1. w - 1 \in Nat
    BY <1>3
  <2> HIDE DEF w
  <2> QED
    BY <2>1, <1>2, SMT
<1>6. Longest \in Nat /\ Longest = (w - 1) * BACKOFF_SYMBOLS
  BY <1>5 DEF Longest, w
<1> QED
  BY <1>1, <1>4, <1>5, <1>6 DEF Span, IFS

\* A reservation that is still needed is not moved by a poll.
LEMMA RatchetCovers ==
  ASSUME tx.last \in Int, tx.ready_at \in Int, t \in Nat, air.quiet \in Nat,
         Covers(tx.ready_at, tx.last)
  PROVE  Ratchet \in Int /\ Covers(Ratchet, now)
<1> DEFINE r == tx.ready_at  l == tx.last  n == now
<1>1. r \in Int /\ l \in Int /\ n \in Int
  BY ClockIsInt DEF now
<1>2. Ratchet \in Int
  BY <1>1 DEF Ratchet
<1>3. Ratchet = IF Sub(l, r) < HALF \/ Sub(n, r) < HALF THEN n ELSE r
  BY DEF Ratchet, reached
<1>4. CASE air.withdrawn \/ air.quiet <= t
  BY <1>2, <1>4 DEF Covers
<1>5. CASE ~(air.withdrawn \/ air.quiet <= t)
  <2>1. air.quiet - t <= Sub(r, n) /\ Sub(r, n) <= Sub(r, l) /\ Sub(r, l) <= Span
    BY <1>5 DEF Covers
  <2> HIDE DEF r, l, n
  <2>2. Sub(r, n) \in Int /\ Sub(r, l) \in Int
    <3>1. Sub(r, n) \in 0..(MOD - 1) /\ Sub(r, l) \in 0..(MOD - 1)
      BY <1>1, SubTurns
    <3> QED
      BY <3>1, Counter
  <2>3. Sub(r, n) > 0 /\ Sub(r, l) > 0
    BY <1>5, <2>1, <2>2
  <2>4. Sub(n, r) = MOD - Sub(r, n) /\ Sub(l, r) = MOD - Sub(r, l)
    BY <1>1, <2>3, SubBack
  <2>5. ~(Sub(l, r) < HALF) /\ ~(Sub(n, r) < HALF)
    BY <2>1, <2>2, <2>4, Counter, WaitsAreShort
  <2>6. Ratchet = r
    BY <1>3, <2>5
  <2> QED
    BY <1>2, <2>1, <2>2, <2>6, WaitsAreShort DEF Covers, n
<1> QED
  BY <1>4, <1>5

\* A poll leaves ready_at in the past or not far ahead.
LEMMA RatchetNear ==
  ASSUME tx.last \in Int, tx.ready_at \in Int, t \in Nat,
         Near(tx.ready_at, tx.last), Sub(now, tx.last) < HALF
  PROVE  Near(Ratchet, now)
<1> DEFINE r == tx.ready_at  l == tx.last  n == now
<1>1. r \in Int /\ l \in Int /\ n \in Int /\ Sub(n, l) < HALF
  BY ClockIsInt DEF now
<1>2. Ratchet = IF Sub(l, r) < HALF \/ Sub(n, r) < HALF THEN n ELSE r
  BY DEF Ratchet, reached
<1>3. Sub(l, r) < HALF \/ Sub(r, l) <= Span
  BY DEF Near
<1> HIDE DEF r, l, n
<1>4. /\ Sub(n, l) \in 0..(MOD - 1) /\ Sub(l, r) \in 0..(MOD - 1)
      /\ Sub(n, r) \in 0..(MOD - 1) /\ Sub(r, l) \in 0..(MOD - 1)
      /\ Sub(r, n) \in 0..(MOD - 1)
  BY <1>1, SubTurns
<1>5. CASE Sub(l, r) < HALF \/ Sub(n, r) < HALF
  <2>1. Sub(n, n) = 0
    <3>1. n - n = MOD * 0 + 0 /\ 0 \in 0..(MOD - 1)
      BY <1>1, Counter
    <3> QED
      BY <1>1, <3>1, SubIs
  <2>2. Ratchet = n
    BY <1>2, <1>5
  <2> QED
    BY <2>1, <2>2, Counter DEF Near, n
<1>6. CASE ~(Sub(l, r) < HALF) /\ ~(Sub(n, r) < HALF)
  <2>1. Ratchet = r
    BY <1>2, <1>6
  <2>2. Sub(r, l) <= Span
    BY <1>3, <1>6
  <2>3. Sub(r, l) = IF Sub(r, n) + Sub(n, l) < MOD THEN Sub(r, n) + Sub(n, l)
                                                 ELSE Sub(r, n) + Sub(n, l) - MOD
    BY <1>1, SubAdds
  <2>4. Sub(n, r) = IF Sub(r, n) = 0 THEN 0 ELSE MOD - Sub(r, n)
    BY <1>1, SubBack
  <2>5. Sub(r, n) + Sub(n, l) < MOD
    BY <1>1, <1>4, <1>6, <2>4, Counter
  <2>6. Sub(r, n) <= Span
    BY <1>4, <2>2, <2>3, <2>5, WaitsAreShort
  <2> QED
    BY <2>1, <2>6 DEF Near, n
<1> QED
  BY <1>5, <1>6

\* A reservation made from a moment s that has passed.
LEMMA ReserveCovers ==
  ASSUME t \in Nat, air.quiet \in Nat, NEW s \in Nat, s <= t,
         NEW c \in Nat, NEW x \in Nat, c + x <= Span, air.quiet <= s + c + x
  PROVE  Add(Clock(s) + c, x) \in Int /\ Covers(Add(Clock(s) + c, x), now)
<1> DEFINE R == s + c + x
<1>1. R \in Int /\ Add(Clock(s) + c, x) = Clock(R)
  BY ClockAdds
<1>2. Clock(R) \in Int
  BY <1>1, ClockIsInt
<1>3. CASE air.quiet <= t
  BY <1>1, <1>2, <1>3 DEF Covers
<1>4. CASE ~(air.quiet <= t)
  <2>1. R - t \in 0..(MOD - 1) /\ R - t <= Span /\ air.quiet - t <= R - t
    BY <1>4, Counter, WaitsAreShort
  <2> HIDE DEF R
  <2>2. Sub(Clock(R), Clock(t)) = R - t
    BY <1>1, <2>1, ClockSub
  <2>3. Sub(Clock(R), now) = R - t
    BY <2>2 DEF now
  <2> QED
    BY <1>1, <1>2, <2>1, <2>3, WaitsAreShort DEF Covers
<1> QED
  BY <1>3, <1>4

\* A reservation made from a reading that is not half the range old.
LEMMA ReserveNear ==
  ASSUME t \in Nat, NEW a \in Int, Sub(now, a) < HALF,
         NEW c \in Nat, NEW x \in Nat, c + x <= Span
  PROVE  Near(Add(a + c, x), now)
<1> DEFINE k == c + x  n == now  r == Add(a, k)
<1>1. k \in Nat /\ k <= Span /\ n \in Int /\ Sub(n, a) < HALF
  BY ClockIsInt DEF now
<1>2. Add(a + c, x) = r
  <2>1. (a + c) + x = a + (c + x)
    OBVIOUS
  <2> QED
    BY <2>1 DEF Add
<1> HIDE DEF n, k
<1>3. Sub(a, a) = 0
  <2>1. a - a = MOD * 0 + 0 /\ 0 \in 0..(MOD - 1)
    BY Counter
  <2> QED
    BY <2>1, SubIs
<1>4. r \in Int /\ Sub(r, a) = k
  <2>1. Sub(a, a) + k < MOD
    BY <1>1, <1>3, Counter, WaitsAreShort
  <2> QED
    BY <1>1, <1>3, <2>1, SubLater
<1> HIDE DEF r
<1>5. /\ Sub(n, a) \in 0..(MOD - 1) /\ Sub(r, n) \in 0..(MOD - 1)
      /\ Sub(n, r) \in 0..(MOD - 1)
  BY <1>1, <1>4, SubTurns
<1>6. Sub(n, a) = IF Sub(n, r) + Sub(r, a) < MOD THEN Sub(n, r) + Sub(r, a)
                                                ELSE Sub(n, r) + Sub(r, a) - MOD
  BY <1>1, <1>4, SubAdds
<1>7. Sub(r, n) = IF Sub(n, r) = 0 THEN 0 ELSE MOD - Sub(n, r)
  BY <1>1, <1>4, SubBack
<1>8. Sub(n, r) < HALF \/ Sub(r, n) <= Span
  BY <1>1, <1>4, <1>5, <1>6, <1>7, Counter, WaitsAreShort
<1> QED
  BY <1>2, <1>8 DEF Near, n

\* An attempt drawn from a reservation.
LEMMA AttemptAfter ==
  ASSUME t \in Nat, air.quiet \in Nat, NEW r \in Int, NEW k \in 0..Longest
  PROVE  LET at == Add(IF reached(now, r) THEN now ELSE r, k)
         IN /\ t + Sub(at, now) \in Nat
            /\ Covers(r, now) => air.withdrawn \/ air.quiet <= t + Sub(at, now)
            /\ Near(r, now) => Sub(at, now) <= Span + Longest
<1> DEFINE n == now  b == IF reached(n, r) THEN n ELSE r  at == Add(b, k)
<1>1. n \in Int /\ b \in Int /\ k \in Nat /\ k <= Longest
  BY ClockIsInt, WaitsAreShort DEF now
<1>2. b = IF Sub(n, r) < HALF THEN n ELSE r
  BY DEF reached
<1> HIDE DEF n, b
<1>3. /\ at \in Int
      /\ Sub(at, n) <= Sub(b, n) + k
      /\ Sub(b, n) + k < MOD => Sub(at, n) = Sub(b, n) + k
  BY <1>1, SubLater
<1> HIDE DEF at
<1>4. /\ Sub(at, n) \in 0..(MOD - 1) /\ Sub(b, n) \in 0..(MOD - 1)
      /\ Sub(r, n) \in 0..(MOD - 1)
  BY <1>1, <1>3, SubTurns
<1>5. Sub(n, r) = IF Sub(r, n) = 0 THEN 0 ELSE MOD - Sub(r, n)
  BY <1>1, SubBack
<1>6. Sub(n, n) = 0
  <2>1. n - n = MOD * 0 + 0 /\ 0 \in 0..(MOD - 1)
    BY <1>1, Counter
  <2> QED
    BY <1>1, <2>1, SubIs
<1>7. ASSUME Covers(r, n), ~air.withdrawn
      PROVE  air.quiet <= t + Sub(at, n)
  <2>1. CASE air.quiet <= t
    BY <2>1, <1>4, Counter
  <2>2. CASE ~(air.quiet <= t)
    <3>1. air.quiet - t <= Sub(r, n) /\ Sub(r, n) <= Span
      BY <1>7, <2>2, <1>4, WaitsAreShort DEF Covers, n
    <3>2. ~(Sub(n, r) < HALF)
      BY <3>1, <2>2, <1>4, <1>5, Counter, WaitsAreShort
    <3>3. Sub(b, n) = Sub(r, n)
      BY <1>2, <3>2
    <3> QED
      BY <1>1, <1>3, <1>4, <3>1, <3>3, Counter, WaitsAreShort
  <2> QED
    BY <2>1, <2>2
<1>8. ASSUME Near(r, n)
      PROVE  Sub(at, n) <= Span + Longest
  <2>1. Sub(b, n) <= Span
    BY <1>2, <1>6, <1>8, WaitsAreShort DEF Near
  <2> QED
    BY <1>1, <1>3, <1>4, <2>1, WaitsAreShort
<1>9. t + Sub(at, n) \in Nat
  BY <1>4, Counter
<1> QED
  BY <1>7, <1>8, <1>9 DEF at, b, n

-----------------------------------------------------------------------------
(* What a poll does to the timers                                          *)

\* The adapter's reports and its clock.
WorldTyped ==
  /\ t \in Nat /\ radio.at \in Nat /\ radio.end \in Nat /\ radio.answered \in BOOLEAN
  /\ air.quiet \in Nat /\ air.withdrawn \in BOOLEAN
  /\ \A m \in mail : /\ m.kind \in {"BUSY", "SENT", "ACK", "QUIESCED"}
                     /\ m.stamp \in Nat /\ m.stamp <= t

\* The engine's timers.
TxTyped == /\ tx.last \in Int /\ tx.ready_at \in Int /\ tx.tx_end \in Int
           /\ tx.be \in 0..MAX_BE

\* A record a poll works on: ready_at is r.
TimesOf(e, r) ==
  /\ e.last = now /\ e.length = tx.length /\ e.ack_requested = tx.ack_requested
  /\ e.ready_at = r /\ e.be \in 0..MAX_BE /\ e.tx_end \in Int

\* The record after the poll.
Polling(r) ==
  /\ TimesOf(tx', r)
  /\ Sub(now, tx.last) < HALF

\* A report that names the attempt and lies between the polls.
Reported(m, kind) ==
  /\ m \in mail /\ m.kind = kind /\ m.id = Id(tx)
  /\ Sub(now, Clock(m.stamp)) < HALF /\ Sub(Clock(m.stamp), tx.last) < HALF

SameAttempt == Id(tx') = Id(tx)
RadioStays  == radio' = radio \/ radio' = [radio EXCEPT !.stop = TRUE]

TimedWait ==
  /\ tx.phase \in {"DRAW_WAIT", "RADIO", "ACK_WAIT", "STOPPING"} /\ tx'.phase = tx.phase
  /\ tx'.uncertain = tx.uncertain /\ SameAttempt /\ radio' = radio
  /\ Polling(Ratchet) /\ tx'.tx_end = tx.tx_end
  /\ tx.phase = "ACK_WAIT" => ~reached(now, Add(tx.tx_end, ACK_SYMBOLS))

TimedDraw ==
  /\ tx.phase \in {"DRAW", "DRAW_WAIT"} /\ tx'.phase \in {"DRAW_WAIT", "DONE"}
  /\ SameAttempt /\ radio' = radio /\ Polling(Ratchet)

TimedAttempt ==
  /\ tx.phase = "DRAW_WAIT" /\ tx'.phase = "RADIO" /\ SameAttempt /\ Polling(Ratchet)
  /\ \E k \in 0..Longest :
       radio' = [IdleRadio EXCEPT
         !.op = "attempt", !.id = Id(tx),
         !.at = t + Sub(Add(IF reached(now, Ratchet) THEN now ELSE Ratchet, k), now)]

TimedBusy ==
  /\ tx.phase = "RADIO" /\ tx'.phase \in {"DRAW", "DONE"} /\ radio' = radio
  /\ Polling(Ratchet)
  /\ \E m : Reported(m, "BUSY")

TimedSent ==
  /\ tx.phase = "RADIO" /\ SameAttempt /\ RadioStays
  /\ \E m : /\ Reported(m, "SENT")
            /\ \/ /\ tx.ack_requested /\ tx'.phase = "ACK_WAIT"
                  /\ Polling(Ratchet) /\ tx'.tx_end = Clock(m.stamp)
               \/ /\ ~tx.ack_requested /\ tx'.phase = "STOPPING" /\ tx'.uncertain = 0
                  /\ Polling(Add(Clock(m.stamp), IFS(tx.length)))

TimedStop ==
  /\ tx.phase = "RADIO" /\ tx'.phase = "STOPPING" /\ tx'.uncertain = 1
  /\ SameAttempt /\ RadioStays /\ Polling(Ratchet)

TimedLate ==
  /\ tx.phase = "ACK_WAIT" /\ tx'.phase = "STOPPING" /\ tx'.uncertain = 0
  /\ SameAttempt /\ RadioStays
  /\ Polling(Add(tx.tx_end + ACK_SYMBOLS, IFS(tx.length)))

TimedAcked ==
  /\ tx.phase = "ACK_WAIT" /\ tx'.phase = "STOPPING" /\ tx'.uncertain = 0
  /\ SameAttempt /\ RadioStays
  /\ \E m : Reported(m, "ACK") /\ m.own /\ Polling(Add(Clock(m.stamp), IFS(tx.length)))

TimedRetire ==
  /\ tx.phase = "STOPPING" /\ tx'.phase \in {"DRAW", "DONE"} /\ radio' = radio
  /\ \E m : /\ Reported(m, "QUIESCED")
            /\ Polling(IF tx.uncertain = 1
                       THEN Add(Clock(m.stamp)
                                + (IF tx.ack_requested THEN ACK_SYMBOLS ELSE 0), IFS(tx.length))
                       ELSE Ratchet)

TimedFault == tx'.phase = "FAULT" /\ radio' = radio

TimedMove ==
  \/ TimedWait \/ TimedDraw \/ TimedAttempt \/ TimedBusy \/ TimedSent \/ TimedStop
  \/ TimedLate \/ TimedAcked \/ TimedRetire \/ TimedFault

\* Two records with the same timers, but for ready_at.
SameTimes(e, d) ==
  e.last = d.last /\ e.length = d.length /\ e.tx_end = d.tx_end /\ e.be = d.be

\* spacing()
LEMMA SpacingTimes ==
  ASSUME NEW e, NEW end, Control(e)
  PROVE  /\ SameTimes(Spacing(e, end), e)
         /\ Spacing(e, end).ready_at = Add(end, IFS(e.length))
BY DEF Control, TxFields, SameTimes, Spacing

\* The start of a poll.
LEMMA TickedTimes ==
  ASSUME Control(tx), TxTyped
  PROVE  /\ TimesOf(Ticked, Ratchet) /\ Ticked.tx_end = tx.tx_end
         /\ TimesOf(Worked, Ratchet) /\ Worked.tx_end = tx.tx_end
         /\ Ticked.be = tx.be /\ Worked.be = tx.be
<1>1. /\ Ticked.last = now /\ Ticked.length = tx.length /\ Ticked.tx_end = tx.tx_end
      /\ Ticked.ack_requested = tx.ack_requested /\ Ticked.be = tx.be
      /\ Ticked.ready_at = Ratchet
  BY DEF Control, TxFields, Ticked, Ratchet
<1>2. Control(Ticked)
  BY TickedLike
<1>3. /\ Worked.last = Ticked.last /\ Worked.length = Ticked.length
      /\ Worked.tx_end = Ticked.tx_end /\ Worked.ack_requested = Ticked.ack_requested
      /\ Worked.be = Ticked.be /\ Worked.ready_at = Ticked.ready_at
  BY <1>2 DEF Control, TxFields, Worked
<1> QED
  BY <1>1, <1>3 DEF TimesOf, TxTyped

\* stop()
LEMMA StopTimes ==
  ASSUME NEW e, Control(e), NEW outcome
  PROVE  /\ SameTimes(Stop(e, outcome), e)
         /\ Stop(e, outcome).ready_at =
              IF e.phase = "ACK_WAIT" /\ e.ack_requested
                 /\ outcome \notin {"ACKED", "NO_ACK"}
              THEN Add(e.tx_end + ACK_SYMBOLS, IFS(e.length)) ELSE e.ready_at
<1>1. CASE e.phase \in {"DRAW", "DRAW_WAIT"}
  BY <1>1 DEF Control, TxFields, SameTimes, Stop
<1>2. CASE e.phase \notin {"DRAW", "DRAW_WAIT"}
  <2> DEFINE late == e.phase = "ACK_WAIT" /\ e.ack_requested
                     /\ outcome \notin {"ACKED", "NO_ACK"}
  <2> DEFINE d == IF late THEN Spacing(e, e.tx_end + ACK_SYMBOLS) ELSE e
  <2> DEFINE n == [d EXCEPT
                     !.outcome = outcome, !.phase = "STOPPING",
                     !.uncertain = IF e.phase = "RADIO" THEN 1 ELSE @,
                     !.stop_at = Add(now, STOP_SYMBOLS), !.stop_steps = STOP_STEPS]
  <2>1. Control(d)
    BY SpacingLike
  <2>2. SameTimes(d, e) /\ d.ready_at = IF late THEN Add(e.tx_end + ACK_SYMBOLS, IFS(e.length))
                                                ELSE e.ready_at
    BY SpacingTimes DEF SameTimes
  <2>3. Stop(e, outcome) = n
    BY <1>2 DEF Stop
  <2> HIDE DEF d
  <2>4. SameTimes(n, d) /\ n.ready_at = d.ready_at
    BY <2>1 DEF Control, TxFields, SameTimes
  <2> HIDE DEF n
  <2> QED
    BY <2>2, <2>3, <2>4 DEF SameTimes
<1> QED
  BY <1>1, <1>2

\* save_control()
LEMMA SaveTimes ==
  ASSUME NEW e, NEW r, Control(e), Save(e), TimesOf(e, r), Sub(now, tx.last) < HALF
  PROVE  /\ Polling(r)
         /\ e.phase \notin {"DONE", "FAULT"} => tx'.tx_end = e.tx_end
<1>1. CASE e.phase \notin {"DONE", "FAULT"}
  BY <1>1 DEF Save, Polling, TimesOf
<1>2. CASE e.phase \in {"DONE", "FAULT"}
  <2>1. /\ tx'.last = e.last /\ tx'.length = e.length /\ tx'.be = e.be
        /\ tx'.ack_requested = e.ack_requested /\ tx'.ready_at = e.ready_at /\ tx'.tx_end = 0
    BY <1>2 DEF Save, Control, TxFields
  <2> QED
    BY <1>2, <2>1 DEF Polling, TimesOf
<1> QED
  BY <1>1, <1>2

\* A record that stands for the same attempt has the same number.
LEMMA LikeSame ==
  ASSUME NEW e, NEW d, Like(e, d)
  PROVE  Id(e) = Id(d) /\ e.ack_requested = d.ack_requested
BY DEF Like, Id

\* A report the poll acts on.
LEMMA EventReported ==
  ASSUME NEW event \in Deliverable, NEW kind, KindOf(event) = kind,
         kind \in {"BUSY", "SENT", "ACK", "QUIESCED"}
  PROVE  Reported(event, kind)
<1>1. event \in mail /\ event.kind = kind /\ event.id = Id(tx)
  BY DeliveredNamed
<1>2. Fresh(event)
  BY DEF KindOf
<1> QED
  BY <1>1, <1>2 DEF Fresh, Reported

\* mac_tx_step gives up the frame.
LEMMA ExpireTimed ==
  ASSUME EngineInv, TxTyped, NEW event, StepExpire(event)
  PROVE  TimedMove
<1> DEFINE why == Reason(KindOf(event))  n == Stop(Ticked, why)
<1>1. Control(tx) /\ Control(Ticked) /\ SameAs(Ticked, tx)
  BY TickedLike DEF EngineInv, Kept
<1>2. why \in Outcomes /\ why \notin {"ACKED", "NO_ACK"}
  BY DEF Reason, Outcomes
<1>3. TimesOf(Ticked, Ratchet) /\ Ticked.tx_end = tx.tx_end
  BY <1>1, TickedTimes
<1>4. Save(n) /\ QuiesceFor(tx') /\ Sub(now, tx.last) < HALF /\ Active /\ tx.phase # "STOPPING"
  BY DEF StepExpire, Polled
<1> HIDE DEF why
<1>5. /\ Control(n) /\ Like(n, Ticked) /\ n.outcome = why
      /\ n.phase = IF Ticked.phase \in {"DRAW", "DRAW_WAIT"} THEN "DONE" ELSE "STOPPING"
      /\ n.uncertain = Unsure(Ticked)
  BY <1>1, <1>2, StopLike
<1>6. /\ SameTimes(n, Ticked)
      /\ n.ready_at = IF Ticked.phase = "ACK_WAIT" /\ Ticked.ack_requested
                         /\ why \notin {"ACKED", "NO_ACK"}
                      THEN Add(Ticked.tx_end + ACK_SYMBOLS, IFS(Ticked.length))
                      ELSE Ticked.ready_at
  BY <1>1, StopTimes
<1> HIDE DEF n
<1>7. Control(tx') /\ SameAs(tx', n)
  BY <1>4, <1>5, SaveLike
<1>8. SameAttempt
  BY <1>1, <1>5, <1>7, LikeSame DEF SameAttempt, SameAs
<1>9. tx.phase \in {"DRAW", "DRAW_WAIT", "RADIO", "ACK_WAIT"} /\ Ticked.phase = tx.phase
      /\ Ticked.uncertain = tx.uncertain /\ Ticked.ack_requested = tx.ack_requested
  BY <1>1, <1>4 DEF Active, SameAs, Like, Control, Phases
<1>10. tx'.phase = n.phase /\ tx'.uncertain = n.uncertain
  BY <1>7 DEF SameAs
<1>11. CASE tx.phase \in {"DRAW", "DRAW_WAIT"}
  <2>1. TimesOf(n, Ratchet)
    BY <1>3, <1>5, <1>6, <1>9, <1>11 DEF TimesOf, SameTimes, Like
  <2>2. Polling(Ratchet)
    BY <1>4, <1>5, <2>1, SaveTimes
  <2>3. tx'.phase = "DONE"
    BY <1>5, <1>9, <1>10, <1>11
  <2>4. radio' = radio
    BY <1>4, <2>3 DEF QuiesceFor
  <2> QED
    BY <1>8, <1>11, <2>2, <2>3, <2>4 DEF TimedMove, TimedDraw
<1>12. CASE tx.phase = "RADIO"
  <2>1. TimesOf(n, Ratchet)
    BY <1>3, <1>5, <1>6, <1>9, <1>12 DEF TimesOf, SameTimes, Like
  <2>2. Polling(Ratchet)
    BY <1>4, <1>5, <2>1, SaveTimes
  <2>3. tx'.phase = "STOPPING" /\ tx'.uncertain = 1
    BY <1>5, <1>9, <1>10, <1>12 DEF Unsure
  <2>4. RadioStays
    BY <1>4, <2>3 DEF QuiesceFor, RadioStays
  <2> QED
    BY <1>8, <1>12, <2>2, <2>3, <2>4 DEF TimedMove, TimedStop
<1>13. CASE tx.phase = "ACK_WAIT"
  <2>1. tx.ack_requested /\ tx.uncertain = 0
    BY <1>13 DEF EngineInv, Report
  <2>2. TimesOf(n, Add(tx.tx_end + ACK_SYMBOLS, IFS(tx.length)))
    BY <1>2, <1>3, <1>5, <1>6, <1>9, <1>13, <2>1 DEF TimesOf, SameTimes, Like
  <2>3. Polling(Add(tx.tx_end + ACK_SYMBOLS, IFS(tx.length)))
    BY <1>4, <1>5, <2>2, SaveTimes
  <2>4. tx'.phase = "STOPPING" /\ tx'.uncertain = 0
    BY <1>5, <1>9, <1>10, <1>13, <2>1 DEF Unsure
  <2>5. RadioStays
    BY <1>4, <2>4 DEF QuiesceFor, RadioStays
  <2> QED
    BY <1>8, <1>13, <2>3, <2>4, <2>5 DEF TimedMove, TimedLate
<1> QED
  BY <1>9, <1>11, <1>12, <1>13

\* A poll that only spends work.
LEMMA IdleTimed ==
  ASSUME EngineInv, TxTyped, NEW event, StepIdle(event)
  PROVE  TimedMove
<1>1. Control(tx) /\ Control(Worked) /\ SameAs(Worked, tx)
  BY TickedLike DEF EngineInv, Kept
<1>2. TimesOf(Worked, Ratchet) /\ Worked.tx_end = tx.tx_end
  BY <1>1, TickedTimes
<1>3. /\ Save(Worked) /\ Sub(now, tx.last) < HALF /\ radio' = radio
      /\ tx.phase \in {"DRAW_WAIT", "RADIO"}
  BY DEF StepIdle, Working, Polled
<1>4. Control(tx') /\ SameAs(tx', Worked)
  BY <1>1, <1>3, SaveLike
<1>5. Polling(Ratchet) /\ (Worked.phase \notin {"DONE", "FAULT"} => tx'.tx_end = Worked.tx_end)
  BY <1>1, <1>2, <1>3, SaveTimes
<1>6. SameAttempt
  BY <1>1, <1>4, LikeSame DEF SameAttempt, SameAs
<1> QED
  BY <1>1, <1>2, <1>3, <1>4, <1>5, <1>6 DEF TimedMove, TimedWait, SameAs

\* The random byte is asked for.
LEMMA DrawTimed ==
  ASSUME EngineInv, TxTyped, NEW event, StepDraw(event)
  PROVE  TimedMove
<1> DEFINE n == [Worked EXCEPT !.phase = "DRAW_WAIT"]
<1>1. Control(tx) /\ Control(Worked) /\ SameAs(Worked, tx)
  BY TickedLike DEF EngineInv, Kept
<1>2. TimesOf(Worked, Ratchet)
  BY <1>1, TickedTimes
<1>3. Control(n) /\ Like(n, Worked) /\ n.phase = "DRAW_WAIT" /\ TimesOf(n, Ratchet)
  BY <1>1, <1>2 DEF Control, TxFields, Like, TimesOf, Phases
<1>4. /\ Save(n) /\ Sub(now, tx.last) < HALF /\ radio' = radio /\ tx.phase = "DRAW"
  BY DEF StepDraw, Working, Polled
<1> HIDE DEF n
<1>5. Control(tx') /\ SameAs(tx', n)
  BY <1>3, <1>4, SaveLike
<1>6. Polling(Ratchet)
  BY <1>3, <1>4, SaveTimes
<1>7. SameAttempt
  BY <1>1, <1>3, <1>5, LikeSame DEF SameAttempt, SameAs
<1> QED
  BY <1>3, <1>4, <1>5, <1>6, <1>7 DEF TimedMove, TimedDraw, SameAs

\* A drawn backoff is one of the longest or less.
LEMMA BackoffFits ==
  ASSUME TxTyped, WorldTyped, NEW event \in Deliverable, KindOf(event) = "RANDOM"
  PROVE  (event.value % 2^tx.be) * BACKOFF_SYMBOLS \in 0..Longest
<1> DEFINE m == 2^tx.be  w == 2^MAX_BE
<1>1. event.kind = "RANDOM"
  BY DEF KindOf, Fresh
<1>2. \A id, stamp, k : Event(k, id, stamp).kind = k
  BY DEF Event
<1>3. \/ event \in mail \/ event = NoEvent
      \/ \E id : \E v \in 0..(w - 1) : event = [Event("RANDOM", id, t) EXCEPT !.value = v]
      \/ \E k \in {"FAILURE", "CANCEL"} : \E id : event = Event(k, id, t)
  BY DEF Deliverable
<1>4. event \notin mail /\ event # NoEvent
      /\ ~\E k \in {"FAILURE", "CANCEL"} : \E id : event = Event(k, id, t)
  BY <1>1, <1>2 DEF WorldTyped, NoEvent
<1>5. \A id, v : [Event("RANDOM", id, t) EXCEPT !.value = v].value = v
  BY DEF Event
<1>6. event.value \in 0..(w - 1)
  BY <1>3, <1>4, <1>5
<1>7. MAX_BE \in Nat /\ BACKOFF_SYMBOLS \in Nat /\ tx.be \in Nat /\ tx.be \in 0..MAX_BE
  BY TxConstants DEF TxTyped
<1>8. m \in Int /\ w \in Int
  BY <1>7, SMT
<1>9. m > 0
  BY <1>7, TxConstants
<1> DEFINE v == event.value  u == v % m
<1> HIDE DEF m, w, v
<1>10. v \in Nat /\ v <= w - 1 /\ m \in Nat \ {0}
  BY <1>6, <1>8, <1>9 DEF v
<1>11. u \in 0..v
  BY <1>10, SMT
<1> HIDE DEF u
<1>12. u \in Nat /\ u <= w - 1 /\ w - 1 \in Nat
  BY <1>8, <1>10, <1>11
<1>13. u * BACKOFF_SYMBOLS \in Nat /\ u * BACKOFF_SYMBOLS <= (w - 1) * BACKOFF_SYMBOLS
  BY <1>7, <1>12, SMT
<1>14. Longest = (w - 1) * BACKOFF_SYMBOLS
  BY DEF Longest, w
<1>15. u * BACKOFF_SYMBOLS \in 0..Longest
  BY <1>13, <1>14, WaitsAreShort
<1> QED
  BY <1>15 DEF u, v, m

\* The backoff is drawn: the attempt is scheduled, or comes too late.
LEMMA RandomTimed ==
  ASSUME EngineInv, TxTyped, WorldTyped, NEW event \in Deliverable, StepRandom(event)
  PROVE  TimedMove
<1> DEFINE k == (event.value % 2^tx.be) * BACKOFF_SYMBOLS
           at == Add(IF reached(now, Ratchet) THEN now ELSE Ratchet, k)
           e == [Worked EXCEPT !.at = at]
           d == [e EXCEPT !.phase = "DONE", !.outcome = "LIFETIME"]
           a == [e EXCEPT !.phase = "RADIO"]
<1>1. Control(tx) /\ Control(Worked) /\ SameAs(Worked, tx)
  BY TickedLike DEF EngineInv, Kept
<1>2. TimesOf(Worked, Ratchet) /\ Ticked.ready_at = Ratchet
  BY <1>1, TickedTimes DEF TimesOf
<1>3. /\ Sub(now, tx.last) < HALF /\ tx.phase = "DRAW_WAIT" /\ KindOf(event) = "RANDOM"
  BY DEF StepRandom, Working, Polled
<1>4. k \in 0..Longest
  BY <1>3, BackoffFits
<1>5. \/ Save(d) /\ radio' = radio
      \/ /\ Save(a)
         /\ radio' = [IdleRadio EXCEPT !.op = "attempt", !.at = t + Sub(e.at, now), !.id = Id(e)]
  BY <1>2 DEF StepRandom, Attempt
<1> HIDE DEF k, at
<1>6. /\ Control(e) /\ Like(e, tx) /\ e.at = at /\ TimesOf(e, Ratchet)
  BY <1>1, <1>2 DEF Control, TxFields, Like, SameAs, TimesOf
<1> HIDE DEF e
<1>7. /\ Control(d) /\ Like(d, e) /\ d.phase = "DONE" /\ TimesOf(d, Ratchet)
  BY <1>6 DEF Control, TxFields, Like, TimesOf, Phases, Outcomes
<1>8. /\ Control(a) /\ Like(a, e) /\ a.phase = "RADIO" /\ TimesOf(a, Ratchet)
  BY <1>6 DEF Control, TxFields, Like, TimesOf, Phases
<1> HIDE DEF a, d
<1>9. CASE Save(d) /\ radio' = radio
  <2>1. Control(tx') /\ SameAs(tx', d)
    BY <1>7, <1>9, SaveLike
  <2>2. Polling(Ratchet)
    BY <1>3, <1>7, <1>9, SaveTimes
  <2>3. SameAttempt
    BY <1>6, <1>7, <2>1, LikeSame DEF SameAttempt, SameAs
  <2> QED
    BY <1>3, <1>7, <1>9, <2>1, <2>2, <2>3 DEF TimedMove, TimedDraw, SameAs
<1>10. CASE Save(a) /\ radio' = [IdleRadio EXCEPT !.op = "attempt",
                                   !.at = t + Sub(e.at, now), !.id = Id(e)]
  <2>1. Control(tx') /\ SameAs(tx', a)
    BY <1>8, <1>10, SaveLike
  <2>2. Polling(Ratchet)
    BY <1>3, <1>8, <1>10, SaveTimes
  <2>3. SameAttempt
    BY <1>6, <1>8, <2>1, LikeSame DEF SameAttempt, SameAs
  <2>4. radio' = [IdleRadio EXCEPT !.op = "attempt", !.id = Id(tx), !.at = t + Sub(at, now)]
    <3>1. Id(e) = Id(tx)
      BY <1>6, LikeSame
    <3> QED
      BY <1>6, <1>10, <3>1 DEF IdleRadio
  <2>5. tx'.phase = "RADIO"
    BY <1>8, <2>1 DEF SameAs
  <2> QED
    BY <1>3, <1>4, <2>2, <2>3, <2>4, <2>5 DEF TimedMove, TimedAttempt, at
<1> QED
  BY <1>5, <1>9, <1>10

\* BUSY keeps the timers; the exponent stays in range.
LEMMA BusyTimes ==
  ASSUME NEW e, NEW r, Control(e), TimesOf(e, r)
  PROVE  TimesOf(Busy(e), r)
<1> DEFINE b == [e EXCEPT !.nb = @ + 1, !.be = IF @ < MAX_BE THEN @ + 1 ELSE @]
<1>1. /\ b = [f \in TxFields |-> b[f]] /\ b.last = e.last /\ b.length = e.length
      /\ b.ack_requested = e.ack_requested /\ b.ready_at = e.ready_at
      /\ b.tx_end = e.tx_end /\ b.be = IF e.be < MAX_BE THEN e.be + 1 ELSE e.be
  BY DEF Control, TxFields
<1>2. Busy(e) = IF b.nb > MAX_BACKOFFS
                THEN [b EXCEPT !.phase = "DONE", !.outcome = "CHANNEL_ACCESS"]
                ELSE [b EXCEPT !.phase = "DRAW"]
  BY DEF Busy
<1> HIDE DEF b
<1>3. b.be \in 0..MAX_BE
  <2>1. MAX_BE \in Nat /\ e.be \in 0..MAX_BE
    BY TxConstants DEF TimesOf
  <2> QED
    BY <1>1, <2>1
<1>4. CASE Busy(e) = [b EXCEPT !.phase = "DONE", !.outcome = "CHANNEL_ACCESS"]
  BY <1>1, <1>3, <1>4 DEF TxFields, TimesOf
<1>5. CASE Busy(e) = [b EXCEPT !.phase = "DRAW"]
  BY <1>1, <1>3, <1>5 DEF TxFields, TimesOf
<1> QED
  BY <1>2, <1>4, <1>5

\* SENT notes the end of the frame, and reserves the spacing if that is all.
LEMMA SentTimes ==
  ASSUME NEW e, NEW r, NEW stamp \in Int, Control(e), TimesOf(e, r)
  PROVE  /\ TimesOf(Sent(e, stamp), IF e.ack_requested THEN r ELSE Add(stamp, IFS(e.length)))
         /\ Sent(e, stamp).tx_end = stamp
<1> DEFINE s == [e EXCEPT !.transmissions = @ + 1, !.tx_end = stamp, !.phase = "ACK_WAIT"]
<1>1. /\ s = [f \in TxFields |-> s[f]] /\ s.last = e.last /\ s.length = e.length
      /\ s.ack_requested = e.ack_requested /\ s.ready_at = e.ready_at
      /\ s.tx_end = stamp /\ s.be = e.be /\ s.phase = "ACK_WAIT"
      /\ s.outcome = e.outcome /\ s.generation = e.generation /\ s.retries = e.retries
      /\ s.nb = e.nb /\ s.transmissions = e.transmissions + 1 /\ s.uncertain = e.uncertain
      /\ s.retry_pending = e.retry_pending
  BY DEF Control, TxFields
<1>2. Sent(e, stamp) = IF e.ack_requested THEN s
                       ELSE Stop(Spacing(s, stamp), "UNACKNOWLEDGED")
  BY DEF Sent
<1> HIDE DEF s
<1>3. s.transmissions \in Nat
  BY <1>1 DEF Control
<1>4. Control(s)
  BY <1>1, <1>3 DEF Control, Phases
<1>5. CASE e.ack_requested
  BY <1>1, <1>2, <1>5 DEF TimesOf
<1>6. CASE ~e.ack_requested
  <2> DEFINE p == Spacing(s, stamp)
  <2> DEFINE n == Stop(p, "UNACKNOWLEDGED")
  <2>1. Control(p) /\ SameAs(p, s)
    BY <1>4, SpacingLike
  <2>2. SameTimes(p, s) /\ p.ready_at = Add(stamp, IFS(s.length))
    BY <1>4, SpacingTimes
  <2> HIDE DEF p
  <2>3. p.ack_requested = e.ack_requested
    BY <1>1, <2>1 DEF SameAs, Like
  <2>4. SameTimes(n, p) /\ n.ready_at = p.ready_at
    BY <1>6, <2>1, <2>3, StopTimes
  <2>5. Like(n, p)
    BY <2>1, StopLike DEF Outcomes
  <2>6. Sent(e, stamp) = n
    BY <1>2, <1>6 DEF p
  <2> HIDE DEF n
  <2> QED
    BY <1>1, <1>6, <2>2, <2>3, <2>4, <2>5, <2>6 DEF SameTimes, TimesOf, Like
<1> QED
  BY <1>5, <1>6

\* The attempt's first report.
LEMMA RadioTimed ==
  ASSUME EngineInv, TxTyped, WorldTyped, NEW event \in Deliverable, StepRadio(event)
  PROVE  TimedMove
<1> DEFINE kind == KindOf(event)  stamp == Clock(event.stamp)
           f == FaultWith(Worked, "ADAPTER_ERROR")  b == Busy(Worked)  s == Sent(Worked, stamp)
<1>1. Control(tx) /\ Control(Worked) /\ SameAs(Worked, tx)
  BY TickedLike DEF EngineInv, Kept
<1>2. TimesOf(Worked, Ratchet)
  BY <1>1, TickedTimes
<1>3. /\ Sub(now, tx.last) < HALF /\ tx.phase = "RADIO" /\ kind \in {"BUSY", "SENT"}
      /\ QuiesceFor(tx')
      /\ \/ Save(f)
         \/ kind = "BUSY" /\ Save(b)
         \/ kind = "SENT" /\ Save(s)
  BY DEF StepRadio, Working, Polled
<1>4. Reported(event, kind)
  BY <1>3, EventReported
<1>5. stamp \in Int
  <2>1. event.stamp \in Int
    BY <1>4 DEF Reported, WorldTyped
  <2> QED
    BY <2>1, ClockIsInt
<1>6. /\ Worked.length = tx.length /\ Worked.ack_requested = tx.ack_requested
      /\ Worked.uncertain = tx.uncertain
  BY <1>1, <1>2 DEF TimesOf, SameAs
<1> HIDE DEF kind, stamp
<1>7. CASE Save(f)
  <2>1. Control(f) /\ f.phase = "FAULT"
    BY <1>1, FaultLike DEF Outcomes
  <2> HIDE DEF f
  <2>2. tx'.phase = "FAULT"
    BY <1>7, <2>1, SaveLike DEF SameAs
  <2> QED
    BY <1>3, <2>2 DEF QuiesceFor, TimedMove, TimedFault
<1>8. CASE kind = "BUSY" /\ Save(b)
  <2>1. Control(b) /\ b.phase \in {"DRAW", "DONE"}
    BY <1>1, BusyLike
  <2>2. TimesOf(b, Ratchet)
    BY <1>1, <1>2, BusyTimes
  <2> HIDE DEF b
  <2>3. tx'.phase \in {"DRAW", "DONE"}
    BY <1>8, <2>1, SaveLike DEF SameAs
  <2>4. Polling(Ratchet)
    BY <1>3, <1>8, <2>1, <2>2, SaveTimes
  <2>5. radio' = radio
    BY <1>3, <2>3 DEF QuiesceFor
  <2> QED
    BY <1>3, <1>4, <1>8, <2>3, <2>4, <2>5 DEF TimedMove, TimedBusy
<1>9. CASE kind = "SENT" /\ Save(s)
  <2>1. /\ Control(s) /\ s.generation = Worked.generation /\ s.retries = Worked.retries
        /\ s.nb = Worked.nb /\ s.uncertain = Worked.uncertain
        /\ \/ Worked.ack_requested /\ s.phase = "ACK_WAIT"
           \/ ~Worked.ack_requested /\ s.phase = "STOPPING"
    BY <1>1, SentLike
  <2>2. /\ TimesOf(s, IF Worked.ack_requested THEN Ratchet ELSE Add(stamp, IFS(Worked.length)))
        /\ s.tx_end = stamp
    BY <1>1, <1>2, <1>5, SentTimes
  <2> HIDE DEF s
  <2>3. Control(tx') /\ SameAs(tx', s)
    BY <1>9, <2>1, SaveLike
  <2>4. /\ Polling(IF tx.ack_requested THEN Ratchet ELSE Add(stamp, IFS(tx.length)))
        /\ tx'.tx_end = stamp
    BY <1>3, <1>6, <1>9, <2>1, <2>2, SaveTimes
  <2>5. SameAttempt
    BY <1>1, <2>1, <2>3 DEF SameAttempt, SameAs, Like, Id
  <2>6. tx.uncertain = 0
    BY <1>3 DEF EngineInv, Report
  <2>7. tx'.phase = s.phase /\ tx'.uncertain = 0
    BY <1>6, <2>1, <2>3, <2>6 DEF SameAs
  <2>8. RadioStays
    BY <1>3 DEF QuiesceFor, RadioStays
  <2>9. CASE tx.ack_requested
    BY <1>3, <1>4, <1>6, <1>9, <2>1, <2>4, <2>5, <2>7, <2>8, <2>9
       DEF TimedMove, TimedSent, stamp
  <2>10. CASE ~tx.ack_requested
    BY <1>3, <1>4, <1>6, <1>9, <2>1, <2>4, <2>5, <2>7, <2>8, <2>10
       DEF TimedMove, TimedSent, stamp
  <2> QED
    BY <2>9, <2>10
<1> QED
  BY <1>3, <1>7, <1>8, <1>9

\* no_ack()
LEMMA NoAckTimes ==
  ASSUME NEW e, Control(e), e.phase = "ACK_WAIT"
  PROVE  /\ SameTimes(NoAck(e), e)
         /\ NoAck(e).ready_at = Add(e.tx_end + ACK_SYMBOLS, IFS(e.length))
<1> DEFINE s == Spacing(e, e.tx_end + ACK_SYMBOLS)
<1> DEFINE d == [s EXCEPT !.retry_pending = e.retries < MAX_RETRIES]
<1>1. /\ Control(s) /\ SameAs(s, e) /\ SameTimes(s, e)
      /\ s.ready_at = Add(e.tx_end + ACK_SYMBOLS, IFS(e.length))
  BY SpacingLike, SpacingTimes
<1> HIDE DEF s
<1>2. Control(d) /\ SameTimes(d, s) /\ d.ready_at = s.ready_at
  BY <1>1 DEF Control, TxFields, SameTimes
<1>3. NoAck(e) = Stop(d, "NO_ACK")
  BY DEF NoAck, s
<1> HIDE DEF d
<1>4. SameTimes(Stop(d, "NO_ACK"), d) /\ Stop(d, "NO_ACK").ready_at = d.ready_at
  BY <1>2, StopTimes
<1> QED
  BY <1>1, <1>2, <1>3, <1>4 DEF SameTimes

\* In the acknowledgement window: settled, over, or still waiting.
LEMMA AckWaitTimed ==
  ASSUME EngineInv, TxTyped, WorldTyped, NEW event \in Deliverable, StepAckWait(event)
  PROVE  TimedMove
<1> DEFINE p == Spacing(Worked, Clock(event.stamp))  a == Stop(p, "ACKED")  n == NoAck(Worked)
<1>1. Control(tx) /\ Control(Worked) /\ SameAs(Worked, tx)
  BY TickedLike DEF EngineInv, Kept
<1>2. TimesOf(Worked, Ratchet) /\ Worked.tx_end = tx.tx_end
  BY <1>1, TickedTimes
<1>3. /\ Sub(now, tx.last) < HALF /\ tx.phase = "ACK_WAIT" /\ QuiesceFor(tx')
      /\ \/ KindOf(event) = "ACK" /\ event.own /\ Save(a)
         \/ Save(n)
         \/ Save(Worked) /\ ~reached(now, Add(tx.tx_end, ACK_SYMBOLS))
  BY DEF StepAckWait, Working, Polled, Accepts
<1>4. Worked.phase = "ACK_WAIT" /\ Worked.uncertain = tx.uncertain /\ Like(Worked, tx)
      /\ tx.uncertain = 0
  BY <1>1, <1>3 DEF SameAs, EngineInv, Report
<1>5. CASE KindOf(event) = "ACK" /\ event.own /\ Save(a)
  <2>1. Reported(event, "ACK")
    BY <1>5, EventReported
  <2>2. /\ Control(p) /\ SameAs(p, Worked) /\ SameTimes(p, Worked)
        /\ p.ready_at = Add(Clock(event.stamp), IFS(Worked.length))
    BY <1>1, SpacingLike, SpacingTimes
  <2> HIDE DEF p
  <2>3. /\ Control(a) /\ Like(a, p) /\ a.outcome = "ACKED" /\ a.phase = "STOPPING"
        /\ a.uncertain = 0
    BY <1>4, <2>2, StopLike DEF SameAs, Outcomes, Unsure
  <2>4. SameTimes(a, p) /\ a.ready_at = p.ready_at
    BY <2>2, StopTimes
  <2> HIDE DEF a
  <2>5. TimesOf(a, Add(Clock(event.stamp), IFS(tx.length)))
    BY <1>2, <2>2, <2>3, <2>4 DEF TimesOf, SameTimes, SameAs, Like
  <2>6. Control(tx') /\ SameAs(tx', a)
    BY <1>5, <2>3, SaveLike
  <2>7. Polling(Add(Clock(event.stamp), IFS(tx.length)))
    BY <1>3, <1>5, <2>3, <2>5, SaveTimes
  <2>8. SameAttempt
    BY <1>4, <2>2, <2>3, <2>6, LikeSame DEF SameAttempt, SameAs
  <2>9. tx'.phase = "STOPPING" /\ tx'.uncertain = 0 /\ RadioStays
    BY <1>3, <2>3, <2>6 DEF SameAs, QuiesceFor, RadioStays
  <2> QED
    BY <1>3, <1>5, <2>1, <2>7, <2>8, <2>9 DEF TimedMove, TimedAcked
<1>6. CASE Save(n)
  <2>1. /\ Control(n) /\ Like(n, Worked) /\ n.phase = "STOPPING"
        /\ n.uncertain = Worked.uncertain
    BY <1>1, <1>4, NoAckLike
  <2>2. /\ SameTimes(n, Worked)
        /\ n.ready_at = Add(Worked.tx_end + ACK_SYMBOLS, IFS(Worked.length))
    BY <1>1, <1>4, NoAckTimes
  <2> HIDE DEF n
  <2>3. TimesOf(n, Add(tx.tx_end + ACK_SYMBOLS, IFS(tx.length)))
    BY <1>2, <2>1, <2>2 DEF TimesOf, SameTimes, Like
  <2>4. Control(tx') /\ SameAs(tx', n)
    BY <1>6, <2>1, SaveLike
  <2>5. Polling(Add(tx.tx_end + ACK_SYMBOLS, IFS(tx.length)))
    BY <1>3, <1>6, <2>1, <2>3, SaveTimes
  <2>6. SameAttempt
    BY <1>4, <2>1, <2>4, LikeSame DEF SameAttempt, SameAs
  <2>7. tx'.phase = "STOPPING" /\ tx'.uncertain = 0 /\ RadioStays
    BY <1>3, <1>4, <2>1, <2>4 DEF SameAs, QuiesceFor, RadioStays
  <2> QED
    BY <1>3, <2>5, <2>6, <2>7 DEF TimedMove, TimedLate
<1>7. CASE Save(Worked) /\ ~reached(now, Add(tx.tx_end, ACK_SYMBOLS))
  <2>1. Control(tx') /\ SameAs(tx', Worked)
    BY <1>1, <1>7, SaveLike
  <2>2. Polling(Ratchet) /\ tx'.tx_end = tx.tx_end
    BY <1>1, <1>2, <1>3, <1>4, <1>7, SaveTimes
  <2>3. SameAttempt
    BY <1>4, <2>1, LikeSame DEF SameAttempt, SameAs
  <2>4. tx'.phase = "ACK_WAIT" /\ tx'.uncertain = tx.uncertain /\ radio' = radio
    BY <1>3, <1>4, <2>1 DEF SameAs, QuiesceFor
  <2> QED
    BY <1>3, <1>7, <2>2, <2>3, <2>4 DEF TimedMove, TimedWait
<1> QED
  BY <1>3, <1>5, <1>6, <1>7

\* The control record of a poll in STOPPING, before its event is looked at.
LEMMA StoppingTimes ==
  ASSUME Control(tx), TxTyped, tx.phase = "STOPPING", NEW kind
  PROVE  TimesOf(Stopping(kind), Ratchet) /\ Stopping(kind).tx_end = tx.tx_end
<1> DEFINE lost == [Ticked EXCEPT !.retry_pending = FALSE, !.outcome = Reason(kind)]
<1> DEFINE e == IF tx.retry_pending /\ Expired(kind) THEN lost ELSE Ticked
<1> DEFINE n == [e EXCEPT !.stop_steps = @ - 1]
<1> DEFINE f == FaultWith(e, "STOP_FAILED")
<1>1. Control(Ticked) /\ TimesOf(Ticked, Ratchet) /\ Ticked.tx_end = tx.tx_end
  BY TickedLike, TickedTimes
<1>2. lost = [g \in TxFields |-> lost[g]] /\ TimesOf(lost, Ratchet) /\ lost.tx_end = tx.tx_end
  BY <1>1 DEF Control, TxFields, TimesOf
<1>3. Ticked = [g \in TxFields |-> Ticked[g]]
  BY <1>1 DEF Control
<1> HIDE DEF lost
<1>4. e = [g \in TxFields |-> e[g]] /\ TimesOf(e, Ratchet) /\ e.tx_end = tx.tx_end
  BY <1>1, <1>2, <1>3
<1>5. Stopping(kind) = IF reached(now, tx.stop_at) \/ tx.stop_steps = 0 THEN f ELSE n
  BY DEF Stopping, lost
<1> HIDE DEF e
<1>6. TimesOf(n, Ratchet) /\ n.tx_end = tx.tx_end
  BY <1>4 DEF TxFields, TimesOf
<1>7. TimesOf(f, Ratchet) /\ f.tx_end = tx.tx_end
  BY <1>4 DEF TxFields, TimesOf, FaultWith
<1> QED
  BY <1>5, <1>6, <1>7

\* QUIESCED reserves from its stamp for a frame that may have gone out.
LEMMA RetiredTimes ==
  ASSUME NEW e, NEW r, NEW stamp, Control(e), TimesOf(e, r)
  PROVE  TimesOf(Retired(e, stamp),
                 IF e.uncertain = 1
                 THEN Add(stamp + (IF e.ack_requested THEN ACK_SYMBOLS ELSE 0), IFS(e.length))
                 ELSE r)
<1> DEFINE end == stamp + (IF e.ack_requested THEN ACK_SYMBOLS ELSE 0)
<1> DEFINE s == IF e.uncertain = 1 THEN Spacing(e, end) ELSE e
<1> DEFINE u == IF e.uncertain = 1 THEN Add(end, IFS(e.length)) ELSE r
<1>1. /\ Control(Spacing(e, end)) /\ SameTimes(Spacing(e, end), e)
      /\ Like(Spacing(e, end), e)
      /\ Spacing(e, end).ready_at = Add(end, IFS(e.length))
  BY SpacingLike, SpacingTimes DEF SameAs
<1>2. Retired(e, stamp) =
        IF e.retry_pending
        THEN [s EXCEPT !.retry_pending = FALSE, !.retries = @ + 1, !.nb = 0,
                       !.be = MIN_BE, !.outcome = "NONE", !.phase = "DRAW"]
        ELSE [s EXCEPT !.phase = "DONE"]
  BY DEF Retired
<1> HIDE DEF end
<1>3. Control(s) /\ TimesOf(s, u)
  BY <1>1 DEF SameTimes, TimesOf, Like
<1>4. MIN_BE \in 0..MAX_BE
  BY TxConstants
<1> HIDE DEF s, u
<1>5. CASE e.retry_pending
  <2> DEFINE n == [s EXCEPT !.retry_pending = FALSE, !.retries = @ + 1, !.nb = 0,
                            !.be = MIN_BE, !.outcome = "NONE", !.phase = "DRAW"]
  <2>1. /\ n.last = s.last /\ n.length = s.length /\ n.ack_requested = s.ack_requested
        /\ n.ready_at = s.ready_at /\ n.be = MIN_BE /\ n.tx_end = s.tx_end
    BY <1>3 DEF Control, TxFields
  <2>2. Retired(e, stamp) = n
    BY <1>2, <1>5
  <2> HIDE DEF n
  <2> QED
    BY <1>3, <1>4, <2>1, <2>2 DEF TimesOf, u, end
<1>6. CASE ~e.retry_pending
  <2> DEFINE n == [s EXCEPT !.phase = "DONE"]
  <2>1. /\ n.last = s.last /\ n.length = s.length /\ n.ack_requested = s.ack_requested
        /\ n.ready_at = s.ready_at /\ n.be = s.be /\ n.tx_end = s.tx_end
    BY <1>3 DEF Control, TxFields
  <2>2. Retired(e, stamp) = n
    BY <1>2, <1>6
  <2> HIDE DEF n
  <2> QED
    BY <1>3, <2>1, <2>2 DEF TimesOf, u, end
<1> QED
  BY <1>5, <1>6

\* A poll in STOPPING waits, retires the attempt or faults.
LEMMA StoppingTimed ==
  ASSUME EngineInv, TxTyped, WorldTyped, NEW event \in Deliverable, StepStopping(event)
  PROVE  TimedMove
<1> DEFINE kind == KindOf(event)  e == Stopping(kind)  f == FaultWith(e, "ADAPTER_ERROR")
           stamp == Clock(event.stamp)  r == Retired(e, stamp)
<1>1. Control(tx) /\ Sub(now, tx.last) < HALF /\ tx.phase = "STOPPING" /\ radio' = radio
  BY DEF StepStopping, Polled, EngineInv, Kept
<1>2. Save(IF e.phase = "FAULT" THEN e ELSE IF kind = "FAILURE" THEN f
           ELSE IF kind = "QUIESCED" THEN r ELSE e)
  BY DEF StepStopping
<1>3. /\ Control(e) /\ Like(e, tx) /\ e.uncertain = tx.uncertain
      /\ e.phase \in {"FAULT", "STOPPING"}
  BY <1>1, StoppingLike
<1>4. TimesOf(e, Ratchet) /\ e.tx_end = tx.tx_end
  BY <1>1, StoppingTimes
<1>5. kind = "QUIESCED" => Reported(event, "QUIESCED")
  BY EventReported
<1> HIDE DEF kind, e, stamp
<1>6. CASE e.phase = "FAULT"
  <2>1. Save(e)
    BY <1>2, <1>6
  <2>2. tx'.phase = "FAULT"
    BY <1>3, <1>6, <2>1, SaveLike DEF SameAs
  <2> QED
    BY <1>1, <2>2 DEF TimedMove, TimedFault
<1>7. CASE e.phase = "STOPPING" /\ kind = "FAILURE"
  <2>1. Control(f) /\ f.phase = "FAULT"
    BY <1>3, FaultLike DEF Outcomes
  <2> HIDE DEF f
  <2>2. Save(f)
    BY <1>2, <1>7
  <2>3. tx'.phase = "FAULT"
    BY <2>1, <2>2, SaveLike DEF SameAs
  <2> QED
    BY <1>1, <2>3 DEF TimedMove, TimedFault
<1>8. CASE e.phase = "STOPPING" /\ kind = "QUIESCED"
  <2>1. Control(r) /\ r.phase \in {"DRAW", "DONE"}
    BY <1>3, <1>8, RetiredLike
  <2>2. TimesOf(r, IF e.uncertain = 1
                   THEN Add(stamp + (IF e.ack_requested THEN ACK_SYMBOLS ELSE 0), IFS(e.length))
                   ELSE Ratchet)
    BY <1>3, <1>4, RetiredTimes
  <2> HIDE DEF r
  <2>3. Save(r)
    BY <1>2, <1>8
  <2>4. tx'.phase \in {"DRAW", "DONE"}
    BY <2>1, <2>3, SaveLike DEF SameAs
  <2>5. e.length = tx.length /\ e.ack_requested = tx.ack_requested
    BY <1>3, <1>4 DEF TimesOf
  <2>6. TimesOf(r, IF tx.uncertain = 1
                   THEN Add(stamp + (IF tx.ack_requested THEN ACK_SYMBOLS ELSE 0),
                            IFS(tx.length))
                   ELSE Ratchet)
    BY <1>3, <2>2, <2>5
  <2>7. Polling(IF tx.uncertain = 1
                THEN Add(stamp + (IF tx.ack_requested THEN ACK_SYMBOLS ELSE 0),
                         IFS(tx.length))
                ELSE Ratchet)
    BY <1>1, <2>1, <2>3, <2>6, SaveTimes
  <2> QED
    BY <1>1, <1>5, <1>8, <2>4, <2>7 DEF TimedMove, TimedRetire, stamp
<1>9. CASE e.phase = "STOPPING" /\ kind \notin {"FAILURE", "QUIESCED"}
  <2>1. Save(e)
    BY <1>2, <1>9
  <2>2. Control(tx') /\ SameAs(tx', e)
    BY <1>3, <2>1, SaveLike
  <2>3. Polling(Ratchet) /\ tx'.tx_end = tx.tx_end
    BY <1>1, <1>3, <1>4, <1>9, <2>1, SaveTimes
  <2>4. SameAttempt
    BY <1>3, <2>2, LikeSame DEF SameAttempt, SameAs
  <2> QED
    BY <1>1, <1>3, <1>9, <2>2, <2>3, <2>4 DEF TimedMove, TimedWait, SameAs
<1> QED
  BY <1>3, <1>6, <1>7, <1>8, <1>9

\* A failure, or a poll that comes too late, faults the slot.
LEMMA FaultTimed ==
  ASSUME EngineInv, StepClockError \/ \E event : StepFailure(event)
  PROVE  TimedMove
<1>1. Control(tx) /\ Control(Ticked)
  BY TickedLike DEF EngineInv, Kept
<1>2. CASE StepClockError
  <2> DEFINE f == FaultWith(tx, "CLOCK_ERROR")
  <2>1. Control(f) /\ f.phase = "FAULT"
    BY <1>1, FaultLike DEF Outcomes
  <2>2. Save(f) /\ radio' = radio
    BY <1>2 DEF StepClockError
  <2> HIDE DEF f
  <2>3. tx'.phase = "FAULT"
    BY <2>1, <2>2, SaveLike DEF SameAs
  <2> QED
    BY <2>2, <2>3 DEF TimedMove, TimedFault
<1>3. ASSUME NEW event, StepFailure(event) PROVE TimedMove
  <2> DEFINE f == FaultWith(Ticked, "ADAPTER_ERROR")
  <2>1. Control(f) /\ f.phase = "FAULT"
    BY <1>1, FaultLike DEF Outcomes
  <2>2. Save(f) /\ radio' = radio
    BY <1>3 DEF StepFailure
  <2> HIDE DEF f
  <2>3. tx'.phase = "FAULT"
    BY <2>1, <2>2, SaveLike DEF SameAs
  <2> QED
    BY <2>2, <2>3 DEF TimedMove, TimedFault
<1> QED
  BY <1>2, <1>3

\* A poll, whatever event it carries, moves the timers in one of these ways.
LEMMA StepTimed ==
  ASSUME EngineInv, TxTyped, WorldTyped,
         StepClockError \/ \E event \in Deliverable : Step(event)
  PROVE  TimedMove
BY FaultTimed, StoppingTimed, ExpireTimed, IdleTimed, DrawTimed, RandomTimed, RadioTimed,
   AckWaitTimed DEF Step

-----------------------------------------------------------------------------
(* The quiet time is kept                                                  *)

\* What the adapter has in hand against the quiet time.
OnAir ==
  /\ radio.op = "air" => air.quiet <= t \/ air.withdrawn
  /\ radio.op = "idle" /\ (tx.phase = "RADIO" \/ radio.stop) => air.quiet <= t \/ air.withdrawn
  /\ radio.op = "listen" =>
       /\ radio.end <= t
       /\ air.quiet <= radio.end + Wait(tx)
       /\ ~radio.answered => \/ air.quiet = radio.end + Wait(tx)
                             \/ radio.end + Wait(tx) <= t

\* What the stamps of the reports on the current attempt stand for.
Stamped ==
  \A m \in mail : m.id = Id(tx) =>
    /\ radio.op \notin {"attempt", "air"}
    /\ radio.op = "listen" /\ m.kind = "SENT" => m.stamp = radio.end
    /\ radio.op = "listen" /\ m.kind = "ACK" /\ m.own =>
         radio.answered /\ air.quiet <= m.stamp + IFS(tx.length)
    /\ m.kind = "QUIESCED" /\ tx.phase = "STOPPING" /\ tx.uncertain = 1 =>
         air.withdrawn \/ air.quiet <= m.stamp + Wait(tx)

\* Between attempts, ready_at reserves the quiet time.
Reserved ==
  /\ \/ tx.phase \in {"IDLE", "DRAW", "DRAW_WAIT", "DONE"}
     \/ tx.phase = "STOPPING" /\ tx.uncertain = 0
     => Covers(tx.ready_at, tx.last)
  /\ tx.phase = "STOPPING" /\ tx.uncertain = 0 => radio.op \in {"listen", "idle"}
  /\ tx.phase = "ACK_WAIT" => tx.tx_end = Clock(radio.end)

Timed == TxTyped /\ OnAir /\ Stamped /\ Reserved

TimeInv == WorldTyped /\ AttemptSpacing /\ (tx.phase # "FAULT" => Timed)

\* The quiet time after a frame, in numbers.
LEMMA WaitIsShort ==
  /\ Wait(tx) \in Nat /\ Wait(tx) <= Span
  /\ IFS(tx.length) \in Nat /\ IFS(tx.length) <= Span
  /\ tx.ack_requested => Wait(tx) = ACK_SYMBOLS + IFS(tx.length)
  /\ ~tx.ack_requested => Wait(tx) = IFS(tx.length)
<1>1. ACK_SYMBOLS \in Nat /\ LIFS \in Nat
  BY TxConstants
<1>2. IFS(tx.length) \in Nat /\ IFS(tx.length) <= LIFS
  BY WaitsAreShort
<1> QED
  BY <1>1, <1>2 DEF Wait, Span

\* Between the polls the reserved time does not change.
LEMMA PollCovers ==
  ASSUME UNCHANGED <<t, air>>, NEW r, Polling(r), Covers(r, now)
  PROVE  Covers(tx.ready_at, tx.last)'
BY DEF Covers, Polling, TimesOf, now

\* The timers stay counter readings.
LEMMA PollTyped ==
  ASSUME WorldTyped, NEW r \in Int, Polling(r)
  PROVE  TxTyped'
<1>1. now \in Int
  BY ClockIsInt DEF WorldTyped, now
<1> QED
  BY <1>1 DEF Polling, TimesOf, TxTyped

\* The adapter is left alone, or told to stop.
LEMMA StaysTyped ==
  ASSUME EngineInv, WorldTyped, AttemptSpacing, UNCHANGED <<t, mail, air>>, RadioStays
  PROVE  /\ WorldTyped' /\ AttemptSpacing'
         /\ radio'.op = radio.op /\ radio'.end = radio.end /\ radio'.answered = radio.answered
         /\ radio.stop => radio'.stop
<1>1. /\ radio'.op = radio.op /\ radio'.end = radio.end /\ radio'.answered = radio.answered
      /\ radio'.at = radio.at /\ (radio.stop => radio'.stop)
  BY DEF RadioStays, EngineInv, Kept
<1> QED
  BY <1>1 DEF WorldTyped, AttemptSpacing

\* A poll that keeps the attempt keeps what is known of the air.
LEMMA StaysTimed ==
  ASSUME EngineInv, TimeInv, tx.phase # "FAULT", UNCHANGED <<t, mail, air>>,
         RadioStays, SameAttempt, NEW r \in Int, Polling(r),
         tx.phase # "STOPPING" => tx.phase = "RADIO" \/ radio' = radio \/ radio.op = "listen",
         tx'.phase = "RADIO" => tx.phase = "RADIO",
         tx'.phase = "STOPPING" /\ tx'.uncertain = 1 =>
           tx.phase = "RADIO" \/ (tx.phase = "STOPPING" /\ tx.uncertain = 1),
         radio'.stop => radio.stop \/ tx.phase = "RADIO" \/ radio.op = "listen",
         Reserved'
  PROVE  TimeInv'
<1>1. Timed /\ WorldTyped /\ AttemptSpacing
  BY DEF TimeInv
<1>2. /\ WorldTyped' /\ AttemptSpacing'
      /\ radio'.op = radio.op /\ radio'.end = radio.end /\ radio'.answered = radio.answered
  BY <1>1, StaysTyped
<1>3. TxTyped'
  BY <1>1, PollTyped
<1>4. Wait(tx)' = Wait(tx) /\ tx'.length = tx.length
  BY DEF Polling, TimesOf, Wait
<1>5. OnAir'
  BY <1>1, <1>2, <1>4 DEF Timed, OnAir
<1>6. Stamped'
  <2> SUFFICES ASSUME NEW m \in mail, m.id = Id(tx)
               PROVE  /\ radio'.op \notin {"attempt", "air"}
                      /\ radio'.op = "listen" /\ m.kind = "SENT" => m.stamp = radio'.end
                      /\ radio'.op = "listen" /\ m.kind = "ACK" /\ m.own =>
                           radio'.answered /\ air.quiet <= m.stamp + IFS(tx.length)
                      /\ m.kind = "QUIESCED" /\ tx'.phase = "STOPPING" /\ tx'.uncertain = 1 =>
                           air.withdrawn \/ air.quiet <= m.stamp + Wait(tx)
    BY <1>4 DEF Stamped, SameAttempt
  <2>1. m.kind = "QUIESCED" => tx.phase # "RADIO"
    BY DEF EngineInv, MailFits
  <2> QED
    BY <1>1, <1>2, <2>1 DEF Timed, Stamped
<1> QED
  BY <1>2, <1>3, <1>5, <1>6 DEF TimeInv, Timed

\* A poll that leaves an idle radio with the next attempt still to come.
LEMMA IdleTimedNext ==
  ASSUME EngineInv, TimeInv, UNCHANGED <<t, mail, air, radio>>, radio.op = "idle", ~radio.stop,
         tx'.phase \in {"IDLE", "DRAW", "DRAW_WAIT", "DONE"}, TxTyped',
         Covers(tx.ready_at, tx.last)'
  PROVE  TimeInv'
<1>1. WorldTyped' /\ AttemptSpacing'
  BY DEF TimeInv, WorldTyped, AttemptSpacing
<1>2. OnAir' /\ Stamped' /\ Reserved'
  BY DEF OnAir, Stamped, Reserved
<1> QED
  BY <1>1, <1>2 DEF TimeInv, Timed

\* A poll that waits keeps the reservation, if there is one.
LEMMA WaitKeepsTime ==
  ASSUME EngineInv, TimeInv, tx.phase # "FAULT", UNCHANGED <<t, mail, air>>, TimedWait
  PROVE  TimeInv'
<1>1. Timed /\ WorldTyped
  BY DEF TimeInv
<1>2. Ratchet \in Int
  BY <1>1, ClockIsInt DEF Timed, TxTyped, WorldTyped, Ratchet, now
<1>3. RadioStays /\ radio' = radio
  BY DEF TimedWait, RadioStays
<1>4. Covers(tx.ready_at, tx.last) => Covers(Ratchet, now)
  BY <1>1, RatchetCovers DEF Timed, TxTyped, WorldTyped
<1>5. Reserved'
  BY <1>1, <1>3, <1>4, PollCovers DEF Timed, Reserved, TimedWait
<1> QED
  BY <1>2, <1>3, <1>5, StaysTimed DEF TimedWait

\* While drawing, the reservation is kept.
LEMMA DrawKeepsTime ==
  ASSUME EngineInv, TimeInv, UNCHANGED <<t, mail, air>>, TimedDraw
  PROVE  TimeInv'
<1>1. Timed /\ WorldTyped
  BY DEF TimeInv, TimedDraw
<1>2. radio.op = "idle" /\ ~radio.stop
  BY DEF TimedDraw, EngineInv, InHand
<1>3. Covers(tx.ready_at, tx.last)
  BY <1>1 DEF Timed, Reserved, TimedDraw
<1>4. Ratchet \in Int /\ Covers(Ratchet, now)
  BY <1>1, <1>3, RatchetCovers DEF Timed, TxTyped, WorldTyped
<1>5. TxTyped' /\ Covers(tx.ready_at, tx.last)'
  BY <1>1, <1>4, PollCovers, PollTyped DEF TimedDraw
<1> QED
  BY <1>2, <1>5, IdleTimedNext DEF TimedDraw

\* The attempt is scheduled at or after the reservation.
LEMMA AttemptKeepsTime ==
  ASSUME EngineInv, TimeInv, UNCHANGED <<t, mail, air>>, TimedAttempt
  PROVE  TimeInv'
<1>1. Timed /\ WorldTyped
  BY DEF TimeInv, TimedAttempt
<1>2. Covers(tx.ready_at, tx.last)
  BY <1>1 DEF Timed, Reserved, TimedAttempt
<1>3. Ratchet \in Int /\ Covers(Ratchet, now)
  BY <1>1, <1>2, RatchetCovers DEF Timed, TxTyped, WorldTyped
<1>4. TxTyped'
  BY <1>1, <1>3, PollTyped DEF TimedAttempt
<1>5. PICK k \in 0..Longest :
        radio' = [IdleRadio EXCEPT
          !.op = "attempt", !.id = Id(tx),
          !.at = t + Sub(Add(IF reached(now, Ratchet) THEN now ELSE Ratchet, k), now)]
  BY DEF TimedAttempt
<1> DEFINE at == t + Sub(Add(IF reached(now, Ratchet) THEN now ELSE Ratchet, k), now)
<1>6. at \in Nat /\ (air.withdrawn \/ air.quiet <= at)
  BY <1>1, <1>3, AttemptAfter DEF WorldTyped
<1> HIDE DEF at
<1>7. radio' = [IdleRadio EXCEPT !.op = "attempt", !.id = Id(tx), !.at = at]
  BY <1>5 DEF at
<1>8. /\ radio'.op = "attempt" /\ radio'.at = at /\ radio'.end = 0
      /\ radio'.answered = FALSE
  BY <1>7 DEF IdleRadio
<1>9. WorldTyped' /\ AttemptSpacing'
  <2>1. WorldTyped'
    <3>1. radio'.at \in Nat /\ radio'.end \in Nat
      BY <1>6, <1>8
    <3>2. radio'.answered \in BOOLEAN
      BY <1>8
    <3> QED
      BY <1>1, <3>1, <3>2 DEF WorldTyped
  <2>2. air.withdrawn \/ at >= air.quiet
    BY <1>1, <1>6 DEF WorldTyped
  <2>3. air' = air
    OBVIOUS
  <2>4. radio'.at >= air'.quiet \/ air'.withdrawn
    BY <1>8, <2>2, <2>3
  <2> QED
    BY <2>1, <2>4 DEF AttemptSpacing
<1>10. OnAir'
  BY <1>8 DEF OnAir
<1>11. Stamped'
  <2>1. \A m \in mail : m.id # Id(tx)
    BY DEF EngineInv, MailFits, TimedAttempt
  <2> QED
    BY <2>1 DEF Stamped, TimedAttempt, SameAttempt
<1>12. Reserved'
  BY DEF Reserved, TimedAttempt
<1> QED
  BY <1>4, <1>9, <1>10, <1>11, <1>12 DEF TimeInv, Timed

\* A busy channel is reported after the attempt could start: the quiet time is over.
LEMMA BusyKeepsTime ==
  ASSUME EngineInv, TimeInv, UNCHANGED <<t, mail, air>>, TimedBusy
  PROVE  TimeInv'
<1>1. Timed /\ WorldTyped
  BY DEF TimeInv, TimedBusy
<1>2. radio.op = "idle" /\ ~radio.stop
  BY DEF TimedBusy, Reported, EngineInv, InHand, MailFits
<1>3. air.quiet <= t \/ air.withdrawn
  BY <1>1, <1>2 DEF Timed, OnAir, TimedBusy
<1>4. Ratchet \in Int /\ Covers(Ratchet, now)
  BY <1>1, <1>3, ClockIsInt DEF Timed, TxTyped, WorldTyped, Ratchet, now, Covers
<1>5. TxTyped' /\ Covers(tx.ready_at, tx.last)'
  BY <1>1, <1>4, PollCovers, PollTyped DEF TimedBusy
<1> QED
  BY <1>2, <1>5, IdleTimedNext DEF TimedBusy

\* SENT fixes the end of the frame, from which the quiet time is reserved at
\* once or when the window has closed.
LEMMA SentKeepsTime ==
  ASSUME EngineInv, TimeInv, UNCHANGED <<t, mail, air>>, TimedSent
  PROVE  TimeInv'
<1>1. Timed /\ WorldTyped
  BY DEF TimeInv, TimedSent
<1>2. PICK m : /\ Reported(m, "SENT")
               /\ \/ /\ tx.ack_requested /\ tx'.phase = "ACK_WAIT"
                     /\ Polling(Ratchet) /\ tx'.tx_end = Clock(m.stamp)
                  \/ /\ ~tx.ack_requested /\ tx'.phase = "STOPPING" /\ tx'.uncertain = 0
                     /\ Polling(Add(Clock(m.stamp), IFS(tx.length)))
  BY DEF TimedSent
<1>3. tx.phase = "RADIO" /\ m \in mail /\ m.kind = "SENT" /\ m.id = Id(tx)
  BY <1>2 DEF TimedSent, Reported
<1>4. radio.op = "listen"
  BY <1>3 DEF EngineInv, MailFits
<1>5. m.stamp = radio.end /\ radio.end <= t /\ air.quiet <= radio.end + Wait(tx)
  BY <1>1, <1>3, <1>4 DEF Timed, Stamped, OnAir
<1>6. radio'.op = radio.op /\ radio'.end = radio.end
  BY <1>1, StaysTyped DEF TimedSent, TimeInv
<1>7. CASE tx'.phase = "ACK_WAIT" /\ Polling(Ratchet) /\ tx'.tx_end = Clock(m.stamp)
  <2>1. Ratchet \in Int
    BY <1>1, ClockIsInt DEF Timed, TxTyped, WorldTyped, Ratchet, now
  <2>2. Reserved'
    BY <1>5, <1>6, <1>7 DEF Reserved
  <2> QED
    BY <1>3, <1>4, <1>7, <2>1, <2>2, StaysTimed DEF TimedSent
<1>8. CASE /\ ~tx.ack_requested /\ tx'.phase = "STOPPING" /\ tx'.uncertain = 0
           /\ Polling(Add(Clock(m.stamp), IFS(tx.length)))
  <2> DEFINE s == radio.end  x == IFS(tx.length)  r == Add(Clock(s) + 0, x)
  <2>1. s \in Nat /\ s <= t /\ x \in Nat /\ 0 + x <= Span /\ air.quiet <= s + 0 + x
        /\ t \in Nat /\ air.quiet \in Nat
    BY <1>1, <1>5, <1>8, WaitIsShort, WaitsAreShort DEF WorldTyped
  <2> HIDE DEF s, x
  <2>2. r \in Int /\ Covers(r, now)
    BY <2>1, ReserveCovers
  <2>3. Add(Clock(m.stamp), IFS(tx.length)) = r
    <3>1. Clock(s) \in Int
      BY <2>1, ClockIsInt
    <3>2. Clock(s) + 0 = Clock(s)
      BY <3>1
    <3> QED
      BY <1>5, <3>2 DEF s, x
  <2>4. Polling(r)
    BY <1>8, <2>3
  <2> HIDE DEF r
  <2>5. Covers(tx.ready_at, tx.last)'
    BY <2>2, <2>4, PollCovers
  <2>6. Reserved'
    BY <1>4, <1>6, <1>8, <2>5 DEF Reserved
  <2> QED
    BY <1>3, <1>4, <1>8, <2>2, <2>4, <2>6, StaysTimed DEF TimedSent
<1> QED
  BY <1>2, <1>7, <1>8

\* An attempt whose fate is unknown reserves nothing yet.
LEMMA StopKeepsTime ==
  ASSUME EngineInv, TimeInv, UNCHANGED <<t, mail, air>>, TimedStop
  PROVE  TimeInv'
<1>1. Timed /\ WorldTyped
  BY DEF TimeInv, TimedStop
<1>2. Ratchet \in Int
  BY <1>1, ClockIsInt DEF Timed, TxTyped, WorldTyped, Ratchet, now
<1>3. Reserved'
  BY DEF Reserved, TimedStop
<1> QED
  BY <1>2, <1>3, StaysTimed DEF TimedStop

\* The window and the spacing are reserved from the end of the frame.
LEMMA LateKeepsTime ==
  ASSUME EngineInv, TimeInv, UNCHANGED <<t, mail, air>>, TimedLate
  PROVE  TimeInv'
<1>1. Timed /\ WorldTyped
  BY DEF TimeInv, TimedLate
<1>2. radio.op = "listen" /\ tx.ack_requested /\ tx.phase = "ACK_WAIT"
  BY DEF EngineInv, InHand, Report, TimedLate
<1>3. tx.tx_end = Clock(radio.end) /\ radio.end <= t /\ air.quiet <= radio.end + Wait(tx)
  BY <1>1, <1>2 DEF Timed, OnAir, Reserved
<1>4. radio'.op = radio.op
  BY <1>1, StaysTyped DEF TimedLate, TimeInv
<1> DEFINE s == radio.end  x == IFS(tx.length)  r == Add(Clock(s) + ACK_SYMBOLS, x)
<1>5. /\ s \in Nat /\ s <= t /\ x \in Nat /\ ACK_SYMBOLS \in Nat /\ ACK_SYMBOLS + x <= Span
      /\ air.quiet <= s + ACK_SYMBOLS + x /\ t \in Nat /\ air.quiet \in Nat
  BY <1>1, <1>2, <1>3, WaitIsShort, WaitsAreShort DEF WorldTyped
<1> HIDE DEF s, x
<1>6. r \in Int /\ Covers(r, now)
  BY <1>5, ReserveCovers
<1>7. Polling(r)
  BY <1>3 DEF TimedLate, r, s, x
<1> HIDE DEF r
<1>8. Covers(tx.ready_at, tx.last)'
  BY <1>6, <1>7, PollCovers
<1>9. Reserved'
  BY <1>2, <1>4, <1>8 DEF Reserved, TimedLate
<1> QED
  BY <1>2, <1>6, <1>7, <1>9, StaysTimed DEF TimedLate

\* An acknowledgement leaves only the spacing after it.
LEMMA AckedKeepsTime ==
  ASSUME EngineInv, TimeInv, UNCHANGED <<t, mail, air>>, TimedAcked
  PROVE  TimeInv'
<1>1. Timed /\ WorldTyped
  BY DEF TimeInv, TimedAcked
<1>2. radio.op = "listen" /\ tx.phase = "ACK_WAIT"
  BY DEF EngineInv, InHand, TimedAcked
<1>3. PICK m : Reported(m, "ACK") /\ m.own /\ Polling(Add(Clock(m.stamp), IFS(tx.length)))
  BY DEF TimedAcked
<1>4. m.stamp \in Nat /\ m.stamp <= t /\ air.quiet <= m.stamp + IFS(tx.length)
  BY <1>1, <1>2, <1>3 DEF Timed, Stamped, WorldTyped, Reported
<1>5. radio'.op = radio.op
  BY <1>1, StaysTyped DEF TimedAcked, TimeInv
<1> DEFINE s == m.stamp  x == IFS(tx.length)  r == Add(Clock(s) + 0, x)
<1>6. /\ s \in Nat /\ s <= t /\ x \in Nat /\ 0 + x <= Span /\ air.quiet <= s + 0 + x
      /\ t \in Nat /\ air.quiet \in Nat
  BY <1>1, <1>4, WaitIsShort, WaitsAreShort DEF WorldTyped
<1>7. Polling(Add(Clock(s), x))
  BY <1>3
<1> HIDE DEF s, x
<1>8. r \in Int /\ Covers(r, now)
  BY <1>6, ReserveCovers
<1>9. Polling(r)
  <2>1. Clock(s) \in Int
    BY <1>6, ClockIsInt
  <2>2. Clock(s) + 0 = Clock(s)
    BY <2>1
  <2> QED
    BY <1>7, <2>2
<1> HIDE DEF r
<1>10. Covers(tx.ready_at, tx.last)'
  BY <1>8, <1>9, PollCovers
<1>11. Reserved'
  BY <1>2, <1>5, <1>10 DEF Reserved, TimedAcked
<1> QED
  BY <1>2, <1>8, <1>9, <1>11, StaysTimed DEF TimedAcked

\* A retired attempt may have ended as late as its report, and reserves from there.
LEMMA RetireKeepsTime ==
  ASSUME EngineInv, TimeInv, UNCHANGED <<t, mail, air>>, TimedRetire
  PROVE  TimeInv'
<1>1. Timed /\ WorldTyped
  BY DEF TimeInv, TimedRetire
<1>2. PICK m : /\ Reported(m, "QUIESCED")
               /\ Polling(IF tx.uncertain = 1
                          THEN Add(Clock(m.stamp)
                                   + (IF tx.ack_requested THEN ACK_SYMBOLS ELSE 0), IFS(tx.length))
                          ELSE Ratchet)
  BY DEF TimedRetire
<1>3. radio.op = "idle" /\ ~radio.stop /\ radio' = radio /\ tx.phase = "STOPPING"
  BY <1>2 DEF TimedRetire, Reported, EngineInv, MailFits
<1>4. m.stamp \in Nat /\ m.stamp <= t
  BY <1>1, <1>2 DEF WorldTyped, Reported
<1>5. CASE tx.uncertain = 1
  <2> DEFINE s == m.stamp  x == IFS(tx.length)
             c == IF tx.ack_requested THEN ACK_SYMBOLS ELSE 0  r == Add(Clock(s) + c, x)
  <2>1. Polling(r)
    BY <1>2, <1>5
  <2>2. air.withdrawn \/ air.quiet <= s + Wait(tx)
    BY <1>1, <1>2, <1>3, <1>5 DEF Timed, Stamped, Reported
  <2>3. /\ s \in Nat /\ s <= t /\ x \in Nat /\ c \in Nat /\ c + x <= Span
        /\ Wait(tx) = c + x /\ t \in Nat /\ air.quiet \in Nat
    BY <1>1, <1>4, WaitIsShort, WaitsAreShort DEF WorldTyped, Wait
  <2> HIDE DEF s, x, c
  <2>4. r \in Int /\ Covers(r, now)
    <3>1. CASE air.withdrawn
      <4>1. s + c + x \in Int /\ s \in Int /\ c \in Int /\ x \in Int
        BY <2>3
      <4>2. r = Clock(s + c + x)
        BY <4>1, ClockAdds
      <4>3. Clock(s + c + x) \in Int
        BY <4>1, ClockIsInt
      <4> QED
        BY <3>1, <4>2, <4>3 DEF Covers
    <3>2. CASE air.quiet <= s + Wait(tx)
      <4>1. air.quiet <= s + c + x
        BY <2>3, <3>2
      <4> QED
        BY <2>3, <4>1, ReserveCovers
    <3> QED
      BY <2>2, <3>1, <3>2
  <2> HIDE DEF r
  <2>5. TxTyped' /\ Covers(tx.ready_at, tx.last)'
    BY <1>1, <2>1, <2>4, PollCovers, PollTyped
  <2> QED
    BY <1>3, <2>5, IdleTimedNext DEF TimedRetire
<1>6. CASE tx.uncertain # 1
  <2>1. tx.uncertain = 0
    BY <1>6 DEF EngineInv, Kept, Control
  <2>2. Covers(tx.ready_at, tx.last)
    BY <1>1, <1>3, <2>1 DEF Timed, Reserved
  <2>3. Ratchet \in Int /\ Covers(Ratchet, now)
    BY <1>1, <2>2, RatchetCovers DEF Timed, TxTyped, WorldTyped
  <2>4. Polling(Ratchet)
    BY <1>2, <1>6
  <2>5. TxTyped' /\ Covers(tx.ready_at, tx.last)'
    BY <1>1, <2>3, <2>4, PollCovers, PollTyped
  <2> QED
    BY <1>3, <2>5, IdleTimedNext DEF TimedRetire
<1> QED
  BY <1>5, <1>6

\* A fault starts no attempt.
LEMMA FaultKeepsTime ==
  ASSUME EngineInv, TimeInv, UNCHANGED <<t, mail, air>>, TimedFault
  PROVE  TimeInv'
BY DEF TimeInv, TimedFault, WorldTyped, AttemptSpacing

\* A poll keeps the quiet time.
LEMMA PollKeepsTime ==
  ASSUME EngineInv, TimeInv, StepClockError \/ \E event \in Deliverable : Step(event)
  PROVE  TimeInv'
<1>1. Moves /\ tx.phase # "FAULT"
  BY StepMoves DEF EngineInv, Kept, Step, StepClockError, StepStopping, StepFailure, StepExpire,
     StepIdle, StepDraw, StepRandom, StepRadio, StepAckWait, Working, Polled, Active
<1>2. UNCHANGED <<t, mail, air>>
  BY <1>1 DEF Moves
<1>3. TxTyped /\ WorldTyped
  BY <1>1 DEF TimeInv, Timed
<1>4. TimedMove
  BY <1>3, StepTimed
<1> QED
  BY <1>1, <1>2, <1>4, WaitKeepsTime, DrawKeepsTime, AttemptKeepsTime, BusyKeepsTime,
     SentKeepsTime, StopKeepsTime, LateKeepsTime, AckedKeepsTime, RetireKeepsTime,
     FaultKeepsTime DEF TimedMove

\* mac_tx_submit keeps the reservation of the frame before.
LEMMA SubmitKeepsTime ==
  ASSUME EngineInv, TimeInv, NEW length, NEW ack \in BOOLEAN, NEW lifetime, NEW work,
         Submit(length, ack, lifetime, work)
  PROVE  TimeInv'
<1> DEFINE c == Cleared(tx)
<1>1. /\ tx.phase = "IDLE" /\ t' = t /\ radio' = radio /\ mail' = mail
      /\ air' = [air EXCEPT !.frames = 0, !.heard = FALSE]
  BY DEF Submit
<1>2. Timed /\ WorldTyped
  BY <1>1 DEF TimeInv
<1>3. /\ c = [f \in TxFields |-> c[f]] /\ c.ready_at = tx.ready_at /\ c.tx_end = tx.tx_end
      /\ c.be = MIN_BE
  BY DEF EngineInv, Kept, Control, TxFields, Cleared
<1>4. /\ tx'.phase = "DRAW" /\ tx'.last = now /\ tx'.ready_at = Ratchet
      /\ tx'.tx_end = tx.tx_end /\ tx'.be = MIN_BE
  <2>1. tx' = [c EXCEPT
          !.phase = "DRAW", !.length = length, !.ack_requested = ack,
          !.generation = @ + 1,
          !.ready_at = IF reached(tx.last, c.ready_at) \/ reached(now, c.ready_at)
                       THEN now ELSE c.ready_at,
          !.last = now, !.deadline = Add(now, lifetime), !.steps = work]
    BY DEF Submit
  <2> HIDE DEF c
  <2> QED
    BY <1>3, <2>1 DEF TxFields, Ratchet
<1>5. air'.quiet = air.quiet /\ air'.withdrawn = air.withdrawn
  BY <1>1 DEF EngineInv, Kept
<1>6. Covers(tx.ready_at, tx.last)
  BY <1>1, <1>2 DEF Timed, Reserved
<1>7. Ratchet \in Int /\ Covers(Ratchet, now)
  BY <1>2, <1>6, RatchetCovers DEF Timed, TxTyped, WorldTyped
<1>8. now \in Int /\ MIN_BE \in 0..MAX_BE
  BY <1>2, ClockIsInt, TxConstants DEF WorldTyped, now
<1>9. TxTyped'
  BY <1>2, <1>4, <1>7, <1>8 DEF Timed, TxTyped
<1>10. Covers(tx.ready_at, tx.last)'
  BY <1>1, <1>4, <1>5, <1>7 DEF Covers, now
<1>11. radio.op = "idle" /\ ~radio.stop
  BY <1>1 DEF EngineInv, InHand
<1>12. WorldTyped' /\ AttemptSpacing'
  BY <1>1, <1>2, <1>5, <1>11 DEF WorldTyped, AttemptSpacing
<1>13. OnAir' /\ Stamped' /\ Reserved'
  BY <1>1, <1>4, <1>10, <1>11 DEF OnAir, Stamped, Reserved
<1> QED
  BY <1>9, <1>12, <1>13 DEF TimeInv, Timed

\* mac_tx_release changes no timer.
LEMMA ReleaseKeepsTime ==
  ASSUME EngineInv, TimeInv, Release
  PROVE  TimeInv'
<1>1. /\ tx.phase = "DONE" /\ UNCHANGED <<t, radio, mail, air>>
  BY DEF Release
<1>2. /\ tx'.phase = "IDLE" /\ tx'.last = tx.last /\ tx'.ready_at = tx.ready_at
      /\ tx'.tx_end = tx.tx_end /\ tx'.be = tx.be
  BY DEF Release, EngineInv, Kept, Control, TxFields
<1>3. Timed
  BY <1>1 DEF TimeInv
<1>4. TxTyped' /\ Covers(tx.ready_at, tx.last)'
  BY <1>1, <1>2, <1>3 DEF Timed, TxTyped, Reserved, Covers, now
<1>5. radio.op = "idle" /\ ~radio.stop
  BY <1>1 DEF EngineInv, InHand
<1> QED
  BY <1>1, <1>2, <1>4, <1>5, IdleTimedNext

\* A report of the attempt in the radio, made now.
LEMMA PostTyped ==
  ASSUME WorldTyped, NEW event, Post(event), t' = t, event.stamp = t,
         event.kind \in {"BUSY", "SENT", "ACK", "QUIESCED"}
  PROVE  \A m \in mail' : /\ m \in mail \/ m = event
                          /\ m.kind \in {"BUSY", "SENT", "ACK", "QUIESCED"}
                          /\ m.stamp \in Nat /\ m.stamp <= t'
BY DEF Post, WorldTyped

\* CCA found the channel busy.
LEMMA ChannelBusyKeepsTime ==
  ASSUME EngineInv, TimeInv, ChannelBusy
  PROVE  TimeInv'
<1> DEFINE event == Event("BUSY", radio.id, t)
<1>1. event.kind = "BUSY" /\ event.stamp = t
  BY DEF Event
<1>2. /\ radio.op = "attempt" /\ t >= radio.at + CCA_SYMBOLS /\ Post(event)
      /\ UNCHANGED <<t, tx, air>>
      /\ radio' = [IdleRadio EXCEPT !.stop = radio.stop, !.id = radio.id]
  BY DEF ChannelBusy
<1> HIDE DEF event
<1>3. /\ radio'.op = "idle" /\ radio'.at = 0 /\ radio'.end = 0 /\ radio'.answered = FALSE
  BY <1>2 DEF IdleRadio
<1>4. WorldTyped
  BY DEF TimeInv
<1>5. \A m \in mail' : /\ m \in mail \/ m = event
                       /\ m.kind \in {"BUSY", "SENT", "ACK", "QUIESCED"}
                       /\ m.stamp \in Nat /\ m.stamp <= t'
  BY <1>1, <1>2, <1>4, PostTyped
<1>6. WorldTyped' /\ AttemptSpacing'
  <2>1. radio'.at \in Nat /\ radio'.end \in Nat
    BY <1>3
  <2>2. radio'.answered \in BOOLEAN
    BY <1>3
  <2> QED
    BY <1>2, <1>3, <1>4, <1>5, <2>1, <2>2 DEF WorldTyped, AttemptSpacing
<1>7. air.quiet <= t \/ air.withdrawn
  <2>1. CCA_SYMBOLS \in Nat
    BY TxConstants
  <2> QED
    BY <1>2, <1>4, <2>1 DEF TimeInv, AttemptSpacing, WorldTyped
<1>8. ASSUME tx.phase # "FAULT" PROVE Timed'
  <2>1. Timed
    BY <1>8 DEF TimeInv
  <2>2. tx.phase = "RADIO" \/ (tx.phase = "STOPPING" /\ tx.uncertain = 1)
    BY <1>2, <1>8 DEF EngineInv, Counts, InHand
  <2>3. \A m \in mail : m.id # Id(tx)
    BY <1>2, <2>1 DEF Timed, Stamped
  <2>4. TxTyped' /\ OnAir' /\ Reserved'
    BY <1>2, <1>3, <1>7, <2>1, <2>2 DEF Timed, TxTyped, OnAir, Reserved
  <2>5. Stamped'
    BY <1>1, <1>2, <1>3, <1>5, <2>3 DEF Stamped, Id
  <2> QED
    BY <2>4, <2>5 DEF Timed
<1> QED
  BY <1>2, <1>6, <1>8 DEF TimeInv

\* The frame goes on the air, after the quiet time of the one before.
LEMMA AirStartKeepsTime ==
  ASSUME EngineInv, TimeInv, AirStart
  PROVE  TimeInv'
<1>1. /\ radio.op = "attempt" /\ t >= radio.at + CCA_SYMBOLS /\ UNCHANGED <<t, tx, mail>>
  BY DEF AirStart
<1>2. /\ radio'.op = "air" /\ radio'.at = radio.at /\ radio'.end = radio.end
      /\ radio'.answered = radio.answered
      /\ air'.quiet = air.quiet /\ air'.withdrawn = air.withdrawn
  BY DEF AirStart, EngineInv, Kept
<1>3. WorldTyped
  BY DEF TimeInv
<1>4. WorldTyped' /\ AttemptSpacing'
  BY <1>1, <1>2, <1>3 DEF WorldTyped, AttemptSpacing
<1>5. air.quiet <= t \/ air.withdrawn
  <2>1. CCA_SYMBOLS \in Nat
    BY TxConstants
  <2> QED
    BY <1>1, <1>3, <2>1 DEF TimeInv, AttemptSpacing, WorldTyped
<1>6. ASSUME tx.phase # "FAULT" PROVE Timed'
  <2>1. Timed
    BY <1>6 DEF TimeInv
  <2>2. tx.phase = "RADIO" \/ (tx.phase = "STOPPING" /\ tx.uncertain = 1)
    BY <1>1, <1>6 DEF EngineInv, Counts, InHand
  <2>3. \A m \in mail : m.id # Id(tx)
    BY <1>1, <2>1 DEF Timed, Stamped
  <2> QED
    BY <1>1, <1>2, <1>5, <2>1, <2>2, <2>3 DEF Timed, TxTyped, OnAir, Reserved, Stamped, Id
<1> QED
  BY <1>1, <1>4, <1>6 DEF TimeInv

\* The frame is out: its quiet time begins.
LEMMA AirEndKeepsTime ==
  ASSUME EngineInv, TimeInv, AirEnd
  PROVE  TimeInv'
<1> DEFINE event == Event("SENT", radio.id, t)
<1>1. event.kind = "SENT" /\ event.stamp = t
  BY DEF Event
<1>2. radio.op = "air" /\ Post(event) /\ UNCHANGED <<t, tx>>
  BY DEF AirEnd
<1>3. /\ radio'.op = "listen" /\ radio'.at = radio.at /\ radio'.end = t
      /\ radio'.answered = radio.answered
      /\ air'.quiet = QuietAfter(t) /\ air'.withdrawn = FALSE
  BY DEF AirEnd, EngineInv, Kept
<1> HIDE DEF event
<1>4. WorldTyped
  BY DEF TimeInv
<1>5. \A m \in mail' : /\ m \in mail \/ m = event
                       /\ m.kind \in {"BUSY", "SENT", "ACK", "QUIESCED"}
                       /\ m.stamp \in Nat /\ m.stamp <= t'
  BY <1>1, <1>2, <1>4, PostTyped
<1>6. air'.quiet = t + Wait(tx) /\ air'.quiet \in Nat
  BY <1>3, <1>4, WaitIsShort, WaitsAreShort DEF WorldTyped, QuietAfter, Wait
<1>7. air'.withdrawn \in BOOLEAN
  BY <1>3
<1>8. WorldTyped' /\ AttemptSpacing'
  BY <1>2, <1>3, <1>4, <1>5, <1>6, <1>7 DEF WorldTyped, AttemptSpacing
<1>9. ASSUME tx.phase # "FAULT" PROVE Timed'
  <2>1. Timed
    BY <1>9 DEF TimeInv
  <2>2. tx.phase \in {"RADIO", "STOPPING"} /\ ~(tx.phase = "STOPPING" /\ tx.uncertain = 0)
    BY <1>2, <1>9, <2>1 DEF EngineInv, InHand, Timed, Reserved
  <2>3. \A m \in mail : m.id # Id(tx)
    BY <1>2, <2>1 DEF Timed, Stamped
  <2>4. TxTyped' /\ Reserved'
    BY <1>2, <2>1, <2>2 DEF Timed, TxTyped, Reserved
  <2>5. Wait(tx)' = Wait(tx)
    BY <1>2
  <2>6. OnAir'
    BY <1>2, <1>3, <1>4, <1>6, <2>5 DEF OnAir, WorldTyped
  <2>7. Stamped'
    BY <1>1, <1>2, <1>3, <1>5, <2>3 DEF Stamped, Id
  <2> QED
    BY <2>4, <2>6, <2>7 DEF Timed
<1> QED
  BY <1>2, <1>8, <1>9 DEF TimeInv

\* Somebody else's acknowledgement changes no time.
LEMMA StrayAckKeepsTime ==
  ASSUME EngineInv, TimeInv, StrayAck
  PROVE  TimeInv'
<1> DEFINE event == Event("ACK", radio.id, t)
<1>1. event.kind = "ACK" /\ event.stamp = t /\ event.own = FALSE
  BY DEF Event
<1>2. radio.op = "listen" /\ Post(event) /\ UNCHANGED <<t, tx, radio, air>>
  BY DEF StrayAck
<1> HIDE DEF event
<1>3. WorldTyped
  BY DEF TimeInv
<1>4. \A m \in mail' : /\ m \in mail \/ m = event
                       /\ m.kind \in {"BUSY", "SENT", "ACK", "QUIESCED"}
                       /\ m.stamp \in Nat /\ m.stamp <= t'
  BY <1>1, <1>2, <1>3, PostTyped
<1>5. WorldTyped' /\ AttemptSpacing'
  BY <1>2, <1>3, <1>4 DEF WorldTyped, AttemptSpacing, TimeInv
<1>6. ASSUME tx.phase # "FAULT" PROVE Timed'
  <2>1. Timed
    BY <1>6 DEF TimeInv
  <2>2. TxTyped' /\ OnAir' /\ Reserved'
    BY <1>2, <2>1 DEF Timed, TxTyped, OnAir, Reserved, Covers, now, Wait
  <2>3. Stamped'
    BY <1>1, <1>2, <1>4, <2>1 DEF Timed, Stamped, Id, Wait
  <2> QED
    BY <2>2, <2>3 DEF Timed
<1> QED
  BY <1>2, <1>5, <1>6 DEF TimeInv

\* Less quiet time leaves a reservation that is enough.
LEMMA CoversLess ==
  ASSUME WorldTyped, TxTyped, Covers(tx.ready_at, tx.last), UNCHANGED <<t, tx>>,
         air'.quiet \in Nat, air'.quiet <= air.quiet \/ air'.quiet <= t,
         air'.withdrawn = air.withdrawn
  PROVE  Covers(tx.ready_at, tx.last)'
<1>1. Sub(tx.ready_at, now) \in Int /\ Sub(tx.ready_at, tx.last) \in Int
  <2>1. tx.ready_at \in Int /\ tx.last \in Int /\ now \in Int
    BY ClockIsInt DEF WorldTyped, TxTyped, now
  <2>2. /\ Sub(tx.ready_at, now) \in 0..(MOD - 1)
        /\ Sub(tx.ready_at, tx.last) \in 0..(MOD - 1)
    BY <2>1, SubTurns
  <2> QED
    BY <2>2, Counter
<1>2. now' = now
  BY DEF now
<1> QED
  BY <1>1, <1>2 DEF Covers, WorldTyped

\* The peer's acknowledgement shortens the quiet time.
LEMMA PeerAckKeepsTime ==
  ASSUME EngineInv, TimeInv, PeerAck
  PROVE  TimeInv'
<1> DEFINE event == [Event("ACK", radio.id, t) EXCEPT !.own = TRUE]
<1>1. event.kind = "ACK" /\ event.stamp = t
  BY DEF Event
<1>2. /\ radio.op = "listen" /\ tx.ack_requested /\ ~radio.answered /\ t > radio.end
      /\ Post(event) /\ UNCHANGED <<t, tx>>
  BY DEF PeerAck
<1>3. /\ radio'.op = "listen" /\ radio'.at = radio.at /\ radio'.end = radio.end
      /\ radio'.answered = TRUE /\ air'.withdrawn = air.withdrawn
      /\ air'.quiet = IF t <= radio.end + ACK_SYMBOLS THEN t + IFS(tx.length) ELSE air.quiet
  BY DEF PeerAck, EngineInv, Kept
<1> HIDE DEF event
<1>4. WorldTyped
  BY DEF TimeInv
<1>5. \A m \in mail' : /\ m \in mail \/ m = event
                       /\ m.kind \in {"BUSY", "SENT", "ACK", "QUIESCED"}
                       /\ m.stamp \in Nat /\ m.stamp <= t'
  BY <1>1, <1>2, <1>4, PostTyped
<1> DEFINE x == IFS(tx.length)  w == Wait(tx)
<1>6. x \in Nat /\ w \in Nat /\ w = ACK_SYMBOLS + x /\ ACK_SYMBOLS \in Nat
  BY <1>2, WaitIsShort, WaitsAreShort
<1>7. air'.quiet = IF t <= radio.end + ACK_SYMBOLS THEN t + x ELSE air.quiet
  BY <1>3
<1> HIDE DEF x, w
<1>8. air'.quiet \in Nat
  BY <1>4, <1>6, <1>7 DEF WorldTyped
<1>9. WorldTyped' /\ AttemptSpacing'
  <2>1. radio'.answered \in BOOLEAN
    BY <1>3
  <2> QED
    BY <1>2, <1>3, <1>4, <1>5, <1>8, <2>1 DEF WorldTyped, AttemptSpacing
<1>10. ASSUME tx.phase # "FAULT" PROVE Timed'
  <2>1. Timed
    BY <1>10 DEF TimeInv
  <2>2. /\ radio.end <= t /\ air.quiet <= radio.end + w
        /\ air.quiet = radio.end + w \/ radio.end + w <= t
    BY <1>2, <2>1 DEF Timed, OnAir, w
  <2>3. /\ air'.quiet <= radio.end + w /\ air'.quiet <= t + x
        /\ air'.quiet <= air.quiet \/ air'.quiet <= t
    BY <1>4, <1>6, <1>7, <2>2 DEF WorldTyped
  <2>4. Wait(tx)' = w /\ tx'.length = tx.length
    BY <1>2 DEF w
  <2>5. OnAir'
    BY <1>2, <1>3, <2>2, <2>3, <2>4 DEF OnAir
  <2>6. TxTyped'
    BY <1>2, <2>1 DEF Timed, TxTyped
  <2>7. Covers(tx.ready_at, tx.last) => Covers(tx.ready_at, tx.last)'
    BY <1>2, <1>3, <1>4, <1>8, <2>1, <2>3, CoversLess DEF Timed
  <2>8. Reserved'
    BY <1>2, <1>3, <2>1, <2>7 DEF Timed, Reserved
  <2>9. Stamped'
    <3> SUFFICES ASSUME NEW m \in mail', m.id = Id(tx)
                 PROVE  /\ m.kind = "SENT" => m.stamp = radio.end
                        /\ m.kind = "ACK" /\ m.own => air'.quiet <= m.stamp + x
                        /\ m.kind # "QUIESCED"
      BY <1>2, <1>3 DEF Stamped, Id, x
    <3>1. CASE m = event
      BY <1>1, <2>3, <3>1
    <3>2. CASE m \in mail
      <4>1. m.kind # "QUIESCED"
        BY <1>2, <3>2 DEF EngineInv, MailFits
      <4> QED
        BY <1>2, <2>1, <3>2, <4>1 DEF Timed, Stamped
    <3> QED
      BY <1>5, <3>1, <3>2
  <2> QED
    BY <2>5, <2>6, <2>8, <2>9 DEF Timed
<1> QED
  BY <1>2, <1>9, <1>10 DEF TimeInv

\* A retired attempt's quiet time is covered by its report, or given up.
LEMMA QuiescedKeepsTime ==
  ASSUME EngineInv, TimeInv, Quiesced
  PROVE  TimeInv'
<1> DEFINE event == Event("QUIESCED", radio.id, t)
<1>1. event.kind = "QUIESCED" /\ event.stamp = t
  BY DEF Event
<1>2. radio.stop /\ Post(event) /\ UNCHANGED <<t, tx>> /\ radio' = IdleRadio
  BY DEF Quiesced
<1>3. /\ radio'.op = "idle" /\ radio'.at = 0 /\ radio'.end = 0 /\ radio'.answered = FALSE
      /\ radio'.stop = FALSE
  BY <1>2 DEF IdleRadio
<1> HIDE DEF event
<1>4. WorldTyped
  BY DEF TimeInv, WorldTyped
<1> DEFINE w == Wait(tx)
<1>5. w \in Nat /\ QuietAfter(t) = t + w
  BY <1>4, WaitIsShort, WaitsAreShort DEF WorldTyped, QuietAfter, Wait
<1> HIDE DEF w
<1>6. \/ radio.op = "air" /\ air'.quiet = t + w /\ air'.withdrawn = FALSE
      \/ radio.op = "attempt" /\ air'.quiet = air.quiet /\ air'.withdrawn = TRUE
      \/ radio.op = "attempt" /\ air' = air /\ air.quiet <= t + w
      \/ radio.op \in {"idle", "listen"} /\ air' = air
  <2>1. CASE radio.op = "air"
    BY <1>5, <2>1 DEF Quiesced, EngineInv, Kept
  <2>2. CASE radio.op = "attempt" /\ QuietAfter(t) < air.quiet
    BY <2>2 DEF Quiesced, EngineInv, Kept
  <2>3. CASE radio.op = "attempt" /\ ~(QuietAfter(t) < air.quiet)
    <3>1. air' = air
      BY <2>3 DEF Quiesced
    <3> QED
      BY <1>4, <1>5, <2>3, <3>1 DEF WorldTyped
  <2>4. CASE radio.op \in {"idle", "listen"}
    BY <2>4 DEF Quiesced
  <2> QED
    BY <2>1, <2>2, <2>3, <2>4 DEF EngineInv, Kept
<1>7. \A m \in mail' : /\ m \in mail \/ m = event
                       /\ m.kind \in {"BUSY", "SENT", "ACK", "QUIESCED"}
                       /\ m.stamp \in Nat /\ m.stamp <= t'
  BY <1>1, <1>2, <1>4, PostTyped
<1>8. air'.quiet \in Nat /\ air'.withdrawn \in BOOLEAN
  <2>1. air'.quiet \in Nat
    BY <1>4, <1>5, <1>6 DEF WorldTyped
  <2>2. air.withdrawn \in BOOLEAN
    BY <1>4 DEF WorldTyped
  <2>3. air'.withdrawn \in BOOLEAN
    BY <1>6, <2>2
  <2> QED
    BY <2>1, <2>3
<1>9. WorldTyped' /\ AttemptSpacing'
  <2>1. radio'.at \in Nat /\ radio'.end \in Nat
    BY <1>3
  <2>2. radio'.answered \in BOOLEAN
    BY <1>3
  <2> QED
    BY <1>2, <1>3, <1>4, <1>7, <1>8, <2>1, <2>2 DEF WorldTyped, AttemptSpacing
<1>10. ASSUME tx.phase # "FAULT" PROVE Timed'
  <2>1. Timed /\ tx.phase = "STOPPING"
    BY <1>2, <1>10 DEF TimeInv, EngineInv, InHand
  <2>2. TxTyped' /\ OnAir'
    BY <1>2, <1>3, <2>1 DEF Timed, TxTyped, OnAir
  <2>3. tx.uncertain = 0 => air' = air
    BY <1>6, <2>1 DEF Timed, Reserved
  <2>4. Reserved'
    BY <1>2, <1>3, <2>1, <2>3 DEF Timed, Reserved, Covers, now
  <2>5. air'.withdrawn \/ air'.quiet <= t + w
    <3>1. radio.op = "listen" => air.quiet <= t + w
      BY <1>4, <1>5, <2>1 DEF Timed, OnAir, w, WorldTyped
    <3>2. radio.op = "idle" => air.withdrawn \/ air.quiet <= t + w
      BY <1>2, <1>4, <1>5, <2>1 DEF Timed, OnAir, WorldTyped
    <3> QED
      BY <1>4, <1>5, <1>6, <3>1, <3>2 DEF WorldTyped
  <2>6. Stamped'
    <3> SUFFICES ASSUME NEW m \in mail', m.id = Id(tx), m.kind = "QUIESCED"
                 PROVE  air'.withdrawn \/ air'.quiet <= m.stamp + w
      BY <1>2, <1>3 DEF Stamped, Id, w
    <3>1. m = event
      BY <1>2, <1>7 DEF EngineInv, MailFits
    <3> QED
      BY <1>1, <2>5, <3>1
  <2> QED
    BY <2>2, <2>4, <2>6 DEF Timed
<1> QED
  BY <1>2, <1>9, <1>10 DEF TimeInv

\* As time passes, what is left of the quiet time and of the reservation
\* shrinks alike.
LEMMA CoversLater ==
  ASSUME WorldTyped, TxTyped, Covers(tx.ready_at, tx.last), tx' = tx, t' = t + 1,
         \/ air'.quiet <= t + 1
         \/ air.quiet > t + 1 /\ air'.quiet = air.quiet /\ air'.withdrawn = air.withdrawn
  PROVE  Covers(tx.ready_at, tx.last)'
<1> DEFINE r == tx.ready_at  l == tx.last  n == now  n2 == now'
<1>1. CASE air'.quiet <= t + 1
  BY <1>1 DEF Covers
<1>2. CASE /\ air.quiet > t + 1 /\ air'.quiet = air.quiet /\ air'.withdrawn = air.withdrawn
           /\ ~air.withdrawn
  <2>1. r \in Int /\ l \in Int /\ n \in Int /\ n2 \in Int
    <3>1. t + 1 \in Int /\ t \in Int
      BY DEF WorldTyped
    <3> QED
      BY <3>1, ClockIsInt DEF WorldTyped, TxTyped, now
  <2>2. air.quiet - t <= Sub(r, n) /\ Sub(r, n) <= Sub(r, l) /\ Sub(r, l) <= Span
    BY <1>2 DEF Covers, WorldTyped
  <2>3. Sub(n2, n) = 1
    <3>1. (t + 1) - t \in 0..(MOD - 1) /\ (t + 1) - t = 1 /\ t + 1 \in Int /\ t \in Int
      BY TxConstants DEF WorldTyped
    <3>2. Sub(Clock(t + 1), Clock(t)) = (t + 1) - t
      BY <3>1, ClockSub
    <3> QED
      BY <3>1, <3>2 DEF now
  <2> HIDE DEF r, l, n, n2
  <2>4. Sub(r, n) = IF Sub(r, n2) + Sub(n2, n) < MOD THEN Sub(r, n2) + Sub(n2, n)
                                                   ELSE Sub(r, n2) + Sub(n2, n) - MOD
    BY <2>1, SubAdds
  <2>5. /\ Sub(r, n) \in 0..(MOD - 1) /\ Sub(r, n2) \in 0..(MOD - 1)
        /\ Sub(r, l) \in 0..(MOD - 1)
    BY <2>1, SubTurns
  <2>6. t \in Nat /\ air.quiet \in Nat
    BY DEF WorldTyped
  <2>7. Sub(r, n2) = Sub(r, n) - 1
    BY <1>2, <2>2, <2>3, <2>4, <2>5, <2>6, Counter
  <2>8. /\ air.quiet - (t + 1) <= Sub(r, n2) /\ Sub(r, n2) <= Sub(r, l)
        /\ Sub(r, l) <= Span
    BY <2>2, <2>5, <2>6, <2>7, Counter
  <2> QED
    BY <1>2, <2>8 DEF Covers, r, l, n2
<1>3. CASE /\ air'.withdrawn = air.withdrawn /\ air.withdrawn
  BY <1>3 DEF Covers
<1> QED
  BY <1>1, <1>2, <1>3

\* Time passes.
LEMMA TickKeepsTime ==
  ASSUME EngineInv, TimeInv, Tick
  PROVE  TimeInv'
<1>1. t' = t + 1 /\ UNCHANGED <<tx, radio, mail>>
  BY DEF Tick
<1>2. WorldTyped
  BY DEF TimeInv
<1>3. \/ air.quiet <= t + 1 /\ air'.quiet = 0 /\ air'.withdrawn = FALSE
      \/ air.quiet > t + 1 /\ air' = air
  <2>1. CASE air.quiet <= t + 1
    BY <2>1 DEF Tick, EngineInv, Kept
  <2>2. CASE ~(air.quiet <= t + 1)
    <3>1. air' = air
      BY <2>2 DEF Tick
    <3> QED
      BY <1>2, <2>2, <3>1 DEF WorldTyped
  <2> QED
    BY <2>1, <2>2
<1>4. air'.quiet \in Nat /\ air'.withdrawn \in BOOLEAN /\ t' \in Nat /\ air'.quiet <= air.quiet
  <2>1. air'.quiet \in Nat /\ t' \in Nat /\ air'.quiet <= air.quiet
    BY <1>1, <1>2, <1>3 DEF WorldTyped
  <2>2. air.withdrawn \in BOOLEAN
    BY <1>2 DEF WorldTyped
  <2>3. air'.withdrawn \in BOOLEAN
    BY <1>3, <2>2
  <2> QED
    BY <2>1, <2>3
<1>5. \A m \in mail' : /\ m.kind \in {"BUSY", "SENT", "ACK", "QUIESCED"}
                       /\ m.stamp \in Nat /\ m.stamp <= t'
  BY <1>1, <1>2 DEF WorldTyped
<1>6. WorldTyped'
  BY <1>1, <1>2, <1>4, <1>5 DEF WorldTyped
<1>7. air.withdrawn => air'.withdrawn \/ air'.quiet = 0
  BY <1>3
<1>8. AttemptSpacing'
  BY <1>1, <1>2, <1>4, <1>7 DEF AttemptSpacing, TimeInv, WorldTyped
<1>9. ASSUME tx.phase # "FAULT" PROVE Timed'
  <2>1. Timed
    BY <1>9 DEF TimeInv
  <2>2. TxTyped'
    BY <1>1, <2>1 DEF Timed, TxTyped
  <2> DEFINE w == Wait(tx)  x == IFS(tx.length)
  <2>3. w \in Nat /\ x \in Nat /\ Wait(tx)' = w /\ IFS(tx.length)' = x
    BY <1>1, WaitIsShort
  <2> HIDE DEF w, x
  <2>4. OnAir'
    <3>1. air.quiet <= t \/ air.withdrawn => air'.quiet <= t' \/ air'.withdrawn
      BY <1>1, <1>2, <1>4, <1>7 DEF WorldTyped
    <3>2. radio.op = "listen" =>
            /\ radio.end <= t' /\ air'.quiet <= radio.end + w
            /\ ~radio.answered => air'.quiet = radio.end + w \/ radio.end + w <= t'
      BY <1>1, <1>2, <1>3, <1>4, <2>1, <2>3 DEF Timed, OnAir, WorldTyped, w
    <3> QED
      BY <1>1, <2>1, <2>3, <3>1, <3>2 DEF Timed, OnAir
  <2>5. Stamped'
    <3> SUFFICES ASSUME NEW m \in mail, m.id = Id(tx)
                 PROVE  /\ radio.op \notin {"attempt", "air"}
                        /\ radio.op = "listen" /\ m.kind = "SENT" => m.stamp = radio.end
                        /\ radio.op = "listen" /\ m.kind = "ACK" /\ m.own =>
                             radio.answered /\ air'.quiet <= m.stamp + x
                        /\ m.kind = "QUIESCED" /\ tx.phase = "STOPPING" /\ tx.uncertain = 1 =>
                             air'.withdrawn \/ air'.quiet <= m.stamp + w
      BY <1>1, <2>3 DEF Stamped, Id
    <3>1. m.stamp \in Nat
      BY <1>2 DEF WorldTyped
    <3>2. air.withdrawn \/ air.quiet <= m.stamp + w
            => air'.withdrawn \/ air'.quiet <= m.stamp + w
      BY <1>2, <1>4, <1>7, <2>3, <3>1 DEF WorldTyped
    <3>3. air.quiet <= m.stamp + x => air'.quiet <= m.stamp + x
      BY <1>2, <1>4, <2>3, <3>1 DEF WorldTyped
    <3> QED
      BY <2>1, <3>2, <3>3 DEF Timed, Stamped, w, x
  <2>6. Covers(tx.ready_at, tx.last) => Covers(tx.ready_at, tx.last)'
    <3>1. \/ air'.quiet <= t + 1
          \/ air.quiet > t + 1 /\ air'.quiet = air.quiet /\ air'.withdrawn = air.withdrawn
      BY <1>2, <1>3 DEF WorldTyped
    <3> QED
      BY <1>1, <1>2, <2>1, <3>1, CoversLater DEF Timed
  <2>7. Reserved'
    BY <1>1, <2>1, <2>6 DEF Timed, Reserved
  <2> QED
    BY <2>2, <2>4, <2>5, <2>7 DEF Timed
<1> QED
  BY <1>1, <1>6, <1>8, <1>9 DEF TimeInv

\* mac_tx_init
LEMMA InitTimed == Init => TimeInv
<1> SUFFICES ASSUME Init PROVE TimeInv
  OBVIOUS
<1>1. WorldTyped /\ AttemptSpacing
  BY DEF Init, WorldTyped, AttemptSpacing, IdleRadio
<1>2. TxTyped
  BY Counter, TxConstants DEF Init, TxTyped
<1>3. OnAir /\ Stamped
  BY DEF Init, OnAir, Stamped, IdleRadio
<1>4. Reserved
  BY DEF Init, Reserved, Covers
<1> QED
  BY <1>1, <1>2, <1>3, <1>4 DEF TimeInv, Timed

\* Every step keeps the quiet time.
LEMMA NextKeepsTime == EngineInv /\ TimeInv /\ [Next]_txVars => TimeInv'
<1> SUFFICES ASSUME EngineInv, TimeInv, [Next]_txVars PROVE TimeInv'
  OBVIOUS
<1>1. CASE Engine
  BY <1>1, SubmitKeepsTime, ReleaseKeepsTime, PollKeepsTime DEF Engine
<1>2. CASE World
  BY <1>2, ChannelBusyKeepsTime, AirStartKeepsTime, AirEndKeepsTime, PeerAckKeepsTime,
     StrayAckKeepsTime, QuiescedKeepsTime DEF World
<1>3. CASE Tick
  BY <1>3, TickKeepsTime
<1>4. CASE UNCHANGED txVars
  BY <1>4 DEF txVars, TimeInv, WorldTyped, AttemptSpacing, Timed, TxTyped, OnAir, Stamped,
     Reserved, Covers, now, Wait, Id
<1> QED
  BY <1>1, <1>2, <1>3, <1>4 DEF Next

\* An attempt starts neither inside the last frame's acknowledgement window nor
\* inside the spacing after it, over any number of wraps of the symbol counter
\* and however late, often or seldom mac_tx_step is polled, unless an attempt
\* that asked for less was withdrawn in between (AttemptSpacing).
THEOREM AttemptsKeepQuiet == Spec => []AttemptSpacing
<1>1. TimeInv => AttemptSpacing
  BY DEF TimeInv
<1> QED
  BY <1>1, InitTimed, NextKeepsTime, EngineInductive, PTL DEF Spec

-----------------------------------------------------------------------------
(* No attempt is put off for long                                          *)

\* The frame on whose acknowledgement the engine waits ended not long ago.
Recent == 2 * Sub(tx.last, tx.tx_end) < HALF \/ Sub(tx.last, tx.tx_end) < ACK_SYMBOLS

PromptInv ==
  /\ AttemptPrompt
  /\ tx.phase # "FAULT" => Near(tx.ready_at, tx.last) /\ (tx.phase = "ACK_WAIT" => Recent)

\* A poll soon after the last one sees the end of the frame in the past, and
\* the window still open only when it is.
LEMMA RecentReached ==
  ASSUME 2 * ACK_SYMBOLS <= HALF, t \in Nat, TxTyped, Recent, 2 * Sub(now, tx.last) < HALF
  PROVE  /\ Sub(now, tx.tx_end) < HALF
         /\ ~reached(now, Add(tx.tx_end, ACK_SYMBOLS)) => Sub(now, tx.tx_end) < ACK_SYMBOLS
<1> DEFINE n == now  l == tx.last  e == tx.tx_end  r == Add(e, ACK_SYMBOLS)
<1>1. n \in Int /\ l \in Int /\ e \in Int /\ ACK_SYMBOLS \in Nat
  BY ClockIsInt, WaitsAreShort DEF now, TxTyped
<1>2. 2 * Sub(l, e) < HALF \/ Sub(l, e) < ACK_SYMBOLS
  BY DEF Recent
<1>3. 2 * Sub(n, l) < HALF
  OBVIOUS
<1>4. reached(n, r) = (Sub(n, r) < HALF)
  BY DEF reached
<1> HIDE DEF n, l, e
<1>5. Sub(e, e) = 0
  <2>1. e - e = MOD * 0 + 0 /\ 0 \in 0..(MOD - 1)
    BY <1>1, Counter
  <2> QED
    BY <1>1, <2>1, SubIs
<1>6. r \in Int /\ Sub(r, e) = ACK_SYMBOLS
  <2>1. Sub(e, e) + ACK_SYMBOLS < MOD
    BY <1>1, <1>5, Counter
  <2> QED
    BY <1>1, <1>5, <2>1, SubLater
<1> HIDE DEF r
<1>7. /\ Sub(n, l) \in 0..(MOD - 1) /\ Sub(l, e) \in 0..(MOD - 1)
      /\ Sub(n, e) \in 0..(MOD - 1) /\ Sub(n, r) \in 0..(MOD - 1)
  BY <1>1, <1>6, SubTurns
<1>8. Sub(n, e) = IF Sub(n, l) + Sub(l, e) < MOD THEN Sub(n, l) + Sub(l, e)
                                                ELSE Sub(n, l) + Sub(l, e) - MOD
  BY <1>1, SubAdds
<1>9. Sub(n, e) = IF Sub(n, r) + Sub(r, e) < MOD THEN Sub(n, r) + Sub(r, e)
                                                ELSE Sub(n, r) + Sub(r, e) - MOD
  BY <1>1, <1>6, SubAdds
<1>10. Sub(n, e) < HALF
  BY <1>1, <1>2, <1>3, <1>7, <1>8, Counter
<1>11. ~(Sub(n, r) < HALF) => Sub(n, e) < ACK_SYMBOLS
  BY <1>1, <1>6, <1>7, <1>9, <1>10, Counter
<1> QED
  BY <1>4, <1>10, <1>11 DEF n, e, r

\* A report that lies between two polls is no older than the first of them.
LEMMA FreshIsRecent ==
  ASSUME t \in Nat, tx.last \in Int, NEW s \in Int, Sub(s, tx.last) < HALF, Sub(now, s) < HALF,
         2 * Sub(now, tx.last) < HALF
  PROVE  2 * Sub(now, s) < HALF
<1> DEFINE n == now  l == tx.last
<1>1. n \in Int /\ l \in Int /\ Sub(s, l) < HALF /\ Sub(n, s) < HALF /\ 2 * Sub(n, l) < HALF
  BY ClockIsInt DEF now
<1> HIDE DEF n, l
<1>2. /\ Sub(n, l) \in 0..(MOD - 1) /\ Sub(s, l) \in 0..(MOD - 1)
      /\ Sub(n, s) \in 0..(MOD - 1)
  BY <1>1, SubTurns
<1>3. Sub(n, l) = IF Sub(n, s) + Sub(s, l) < MOD THEN Sub(n, s) + Sub(s, l)
                                                ELSE Sub(n, s) + Sub(s, l) - MOD
  BY <1>1, SubAdds
<1>4. 2 * Sub(n, s) < HALF
  BY <1>1, <1>2, <1>3, Counter
<1> QED
  BY <1>4 DEF n

\* What a poll leaves of the reservation.
LEMMA PollNear ==
  ASSUME NEW r, Polling(r), Near(r, now)
  PROVE  Near(tx.ready_at, tx.last)'
BY DEF Polling, TimesOf, Near

\* A poll keeps the attempts prompt, if the last one was not too long ago.
LEMMA PollKeepsPrompt ==
  ASSUME 2 * ACK_SYMBOLS <= HALF, EngineInv, TimeInv, PromptInv, PolledOften,
         StepClockError \/ \E event \in Deliverable : Step(event)
  PROVE  PromptInv'
<1>1. Moves /\ Active
  BY StepMoves DEF EngineInv, Kept, Step, StepClockError, StepStopping, StepFailure, StepExpire,
     StepIdle, StepDraw, StepRandom, StepRadio, StepAckWait, Working, Polled
<1>2. UNCHANGED <<t, mail, air>>
  BY <1>1 DEF Moves
<1>3. tx.phase # "FAULT" /\ TxTyped /\ WorldTyped
  BY <1>1 DEF TimeInv, Timed, Active
<1>4. TimedMove
  BY <1>3, StepTimed
<1>5. t \in Nat /\ now \in Int /\ tx.last \in Int /\ tx.ready_at \in Int
  BY <1>3, ClockIsInt DEF WorldTyped, TxTyped, now
<1>6. 2 * Sub(now, tx.last) < HALF
  BY <1>1 DEF PolledOften
<1>7. Near(tx.ready_at, tx.last) /\ (tx.phase = "ACK_WAIT" => Recent)
  BY <1>3 DEF PromptInv
<1>8. Sub(now, tx.last) < HALF => Ratchet \in Int /\ Near(Ratchet, now)
  BY <1>5, <1>7, RatchetNear DEF Ratchet
<1>9. RadioStays => AttemptPrompt'
  <2>1. RadioStays => radio'.op = radio.op /\ radio'.at = radio.at
    BY DEF RadioStays, EngineInv, Kept
  <2> QED
    BY <1>2, <2>1 DEF AttemptPrompt, PromptInv
<1>10. CASE TimedFault
  BY <1>9, <1>10 DEF TimedFault, RadioStays, PromptInv
<1>11. CASE TimedWait
  <2>1. RadioStays /\ Polling(Ratchet) /\ Sub(now, tx.last) < HALF
    BY <1>11 DEF TimedWait, RadioStays, Polling
  <2>2. Near(tx.ready_at, tx.last)'
    BY <1>8, <2>1, PollNear
  <2>3. tx'.phase = "ACK_WAIT" => Recent'
    <3> HAVE tx'.phase = "ACK_WAIT"
    <3>1. tx.phase = "ACK_WAIT" /\ ~reached(now, Add(tx.tx_end, ACK_SYMBOLS))
          /\ tx'.tx_end = tx.tx_end /\ tx'.last = now
      BY <1>11 DEF TimedWait, Polling, TimesOf
    <3>2. Sub(now, tx.tx_end) < ACK_SYMBOLS
      BY <1>3, <1>5, <1>6, <1>7, <3>1, RecentReached
    <3> QED
      BY <3>1, <3>2 DEF Recent
  <2> QED
    BY <1>9, <2>1, <2>2, <2>3 DEF PromptInv
<1>12. CASE TimedDraw \/ TimedBusy
  <2>1. /\ RadioStays /\ Polling(Ratchet) /\ Sub(now, tx.last) < HALF
        /\ tx'.phase # "ACK_WAIT"
    BY <1>12 DEF TimedDraw, TimedBusy, RadioStays, Polling
  <2>2. Near(tx.ready_at, tx.last)'
    BY <1>8, <2>1, PollNear
  <2> QED
    BY <1>9, <2>1, <2>2 DEF PromptInv
<1>13. CASE TimedStop
  <2>1. /\ RadioStays /\ Polling(Ratchet) /\ Sub(now, tx.last) < HALF
        /\ tx'.phase # "ACK_WAIT"
    BY <1>13 DEF TimedStop, Polling
  <2>2. Near(tx.ready_at, tx.last)'
    BY <1>8, <2>1, PollNear
  <2> QED
    BY <1>9, <2>1, <2>2 DEF PromptInv
<1>14. CASE TimedAttempt
  <2>1. /\ Polling(Ratchet) /\ Sub(now, tx.last) < HALF /\ tx'.phase = "RADIO"
    BY <1>14 DEF TimedAttempt, Polling
  <2>2. Near(tx.ready_at, tx.last)'
    BY <1>8, <2>1, PollNear
  <2>3. PICK k \in 0..Longest :
          radio' = [IdleRadio EXCEPT
            !.op = "attempt", !.id = Id(tx),
            !.at = t + Sub(Add(IF reached(now, Ratchet) THEN now ELSE Ratchet, k), now)]
    BY <1>14 DEF TimedAttempt
  <2> DEFINE d == Sub(Add(IF reached(now, Ratchet) THEN now ELSE Ratchet, k), now)
  <2>4. t + d \in Nat /\ d <= Span + Longest
    BY <1>3, <1>8, <2>1, AttemptAfter DEF WorldTyped
  <2> HIDE DEF d
  <2>5. radio'.at = t + d
    BY <2>3 DEF IdleRadio, d
  <2>6. AttemptPrompt'
    <3> DEFINE b == (2^MAX_BE - 1) * BACKOFF_SYMBOLS
    <3>1. b \in Nat /\ ACK_SYMBOLS \in Nat /\ LIFS \in Nat
          /\ Span + Longest = ACK_SYMBOLS + LIFS + b
      <4>1. b \in Nat /\ Longest = b
        BY WaitsAreShort DEF Longest
      <4> HIDE DEF b
      <4> QED
        BY <4>1, TxConstants DEF Span
    <3> HIDE DEF b
    <3>2. t + d <= t + ACK_SYMBOLS + LIFS + b
      <4>1. t \in Int /\ t + d \in Int /\ d \in Int
        <5>1. d \in 0..(MOD - 1)
          <6>1. (IF reached(now, Ratchet) THEN now ELSE Ratchet) \in Int /\ k \in Nat
            BY <1>5, <1>8, <2>1, WaitsAreShort
          <6>2. Add(IF reached(now, Ratchet) THEN now ELSE Ratchet, k) \in Int
            BY <1>5, <6>1, SubLater
          <6> QED
            BY <1>5, <6>2, SubTurns DEF d
        <5> QED
          BY <1>5, <2>4, <5>1, Counter
      <4> QED
        BY <2>4, <3>1, <4>1
    <3>3. radio'.at <= t' + ACK_SYMBOLS + LIFS + b
      BY <1>2, <2>5, <3>2
    <3> QED
      BY <3>3 DEF AttemptPrompt, b
  <2> QED
    BY <2>1, <2>2, <2>6 DEF PromptInv
<1>15. CASE TimedSent
  <2>1. PICK m : /\ Reported(m, "SENT")
                 /\ \/ /\ tx.ack_requested /\ tx'.phase = "ACK_WAIT"
                       /\ Polling(Ratchet) /\ tx'.tx_end = Clock(m.stamp)
                    \/ /\ ~tx.ack_requested /\ tx'.phase = "STOPPING" /\ tx'.uncertain = 0
                       /\ Polling(Add(Clock(m.stamp), IFS(tx.length)))
    BY <1>15 DEF TimedSent
  <2>2. RadioStays
    BY <1>15 DEF TimedSent
  <2> DEFINE s == Clock(m.stamp)  x == IFS(tx.length)
  <2>3. s \in Int /\ Sub(s, tx.last) < HALF /\ Sub(now, s) < HALF
    <3>1. m.stamp \in Int
      BY <1>3, <2>1 DEF Reported, WorldTyped
    <3> QED
      BY <2>1, <3>1, ClockIsInt DEF Reported
  <2> HIDE DEF s
  <2>4. CASE tx'.phase = "ACK_WAIT" /\ Polling(Ratchet) /\ tx'.tx_end = Clock(m.stamp)
    <3>1. Near(tx.ready_at, tx.last)'
      BY <1>8, <2>4, PollNear DEF Polling
    <3>2. 2 * Sub(now, s) < HALF
      BY <1>5, <1>6, <2>3, FreshIsRecent
    <3>3. tx'.last = now /\ tx'.tx_end = s
      BY <2>4 DEF Polling, TimesOf, s
    <3>4. Recent'
      BY <3>2, <3>3 DEF Recent
    <3> QED
      BY <1>9, <2>2, <3>1, <3>4 DEF PromptInv
  <2>5. CASE tx'.phase = "STOPPING" /\ Polling(Add(Clock(m.stamp), IFS(tx.length)))
    <3>1. x \in Nat /\ 0 + x <= Span
      BY WaitIsShort
    <3> HIDE DEF x
    <3>2. Near(Add(s + 0, x), now)
      BY <1>5, <2>3, <3>1, ReserveNear
    <3>3. s + 0 = s
      BY <2>3
    <3>4. Near(tx.ready_at, tx.last)'
      BY <2>5, <3>2, <3>3, PollNear DEF s, x
    <3> QED
      BY <1>9, <2>2, <2>5, <3>4 DEF PromptInv
  <2> QED
    BY <2>1, <2>4, <2>5
<1>16. CASE TimedAcked
  <2>1. PICK m : Reported(m, "ACK") /\ m.own /\ Polling(Add(Clock(m.stamp), IFS(tx.length)))
    BY <1>16 DEF TimedAcked
  <2>2. RadioStays /\ tx'.phase = "STOPPING"
    BY <1>16 DEF TimedAcked
  <2> DEFINE s == Clock(m.stamp)  x == IFS(tx.length)
  <2>3. s \in Int /\ Sub(now, s) < HALF
    <3>1. m.stamp \in Int
      BY <1>3, <2>1 DEF Reported, WorldTyped
    <3> QED
      BY <2>1, <3>1, ClockIsInt DEF Reported
  <2>4. x \in Nat /\ 0 + x <= Span
    BY WaitIsShort
  <2> HIDE DEF s, x
  <2>5. Near(Add(s + 0, x), now)
    BY <1>5, <2>3, <2>4, ReserveNear
  <2>6. s + 0 = s
    BY <2>3
  <2>7. Near(tx.ready_at, tx.last)'
    BY <2>1, <2>5, <2>6, PollNear DEF s, x
  <2> QED
    BY <1>9, <2>2, <2>7 DEF PromptInv
<1>17. CASE TimedLate
  <2>1. /\ RadioStays /\ tx'.phase = "STOPPING" /\ tx.phase = "ACK_WAIT"
        /\ Polling(Add(tx.tx_end + ACK_SYMBOLS, IFS(tx.length)))
    BY <1>17 DEF TimedLate
  <2>2. Sub(now, tx.tx_end) < HALF
    BY <1>3, <1>5, <1>6, <1>7, <2>1, RecentReached
  <2>3. tx.tx_end \in Int
    BY <1>3 DEF TxTyped
  <2>4. ACK_SYMBOLS \in Nat /\ IFS(tx.length) \in Nat /\ ACK_SYMBOLS + IFS(tx.length) <= Span
    <3>1. LIFS \in Nat
      BY TxConstants
    <3> QED
      BY <3>1, WaitsAreShort DEF Span
  <2>5. Near(Add(tx.tx_end + ACK_SYMBOLS, IFS(tx.length)), now)
    BY <1>5, <2>2, <2>3, <2>4, ReserveNear
  <2>6. Near(tx.ready_at, tx.last)'
    BY <2>1, <2>5, PollNear
  <2> QED
    BY <1>9, <2>1, <2>6 DEF PromptInv
<1>18. CASE TimedRetire
  <2>1. PICK m : /\ Reported(m, "QUIESCED")
                 /\ Polling(IF tx.uncertain = 1
                            THEN Add(Clock(m.stamp)
                                     + (IF tx.ack_requested THEN ACK_SYMBOLS ELSE 0), IFS(tx.length))
                            ELSE Ratchet)
    BY <1>18 DEF TimedRetire
  <2>2. RadioStays /\ tx'.phase \in {"DRAW", "DONE"}
    BY <1>18 DEF TimedRetire, RadioStays
  <2> DEFINE s == Clock(m.stamp)  x == IFS(tx.length)
             c == IF tx.ack_requested THEN ACK_SYMBOLS ELSE 0
  <2>3. s \in Int /\ Sub(now, s) < HALF
    <3>1. m.stamp \in Int
      BY <1>3, <2>1 DEF Reported, WorldTyped
    <3> QED
      BY <2>1, <3>1, ClockIsInt DEF Reported
  <2>4. c \in Nat /\ x \in Nat /\ c + x <= Span
    BY WaitIsShort, WaitsAreShort DEF Wait
  <2>5. Polling(IF tx.uncertain = 1 THEN Add(s + c, x) ELSE Ratchet)
    BY <2>1
  <2> HIDE DEF s, x, c
  <2>6. Near(Add(s + c, x), now)
    BY <1>5, <2>3, <2>4, ReserveNear
  <2>7. Near(Ratchet, now)
    BY <1>8, <2>5 DEF Polling
  <2>8. Near(tx.ready_at, tx.last)'
    BY <2>5, <2>6, <2>7, PollNear
  <2> QED
    BY <1>9, <2>2, <2>8 DEF PromptInv
<1> QED
  BY <1>4, <1>10, <1>11, <1>12, <1>13, <1>14, <1>15, <1>16, <1>17, <1>18 DEF TimedMove

\* A submitted frame finds the reservation of the one before it.
LEMMA SubmitKeepsPrompt ==
  ASSUME EngineInv, TimeInv, PromptInv, NEW length, NEW ack \in BOOLEAN, NEW lifetime, NEW work,
         Submit(length, ack, lifetime, work)
  PROVE  PromptInv'
<1> DEFINE c == Cleared(tx)
<1>1. /\ tx.phase = "IDLE" /\ t' = t /\ radio' = radio /\ Sub(now, tx.last) < HALF
  BY DEF Submit
<1>2. Timed /\ WorldTyped /\ Near(tx.ready_at, tx.last)
  BY <1>1 DEF TimeInv, PromptInv
<1>3. c = [f \in TxFields |-> c[f]] /\ c.ready_at = tx.ready_at
  BY DEF EngineInv, Kept, Control, TxFields, Cleared
<1>4. tx'.phase = "DRAW" /\ tx'.last = now /\ tx'.ready_at = Ratchet
  <2>1. tx' = [c EXCEPT
          !.phase = "DRAW", !.length = length, !.ack_requested = ack,
          !.generation = @ + 1,
          !.ready_at = IF reached(tx.last, c.ready_at) \/ reached(now, c.ready_at)
                       THEN now ELSE c.ready_at,
          !.last = now, !.deadline = Add(now, lifetime), !.steps = work]
    BY DEF Submit
  <2> HIDE DEF c
  <2> QED
    BY <1>3, <2>1 DEF TxFields, Ratchet
<1>5. Near(Ratchet, now)
  BY <1>1, <1>2, RatchetNear DEF Timed, TxTyped, WorldTyped
<1> QED
  BY <1>1, <1>4, <1>5 DEF PromptInv, AttemptPrompt, Near

\* Neither the adapter nor the passing of time puts an attempt off.
LEMMA WorldKeepsPrompt ==
  ASSUME EngineInv, TimeInv, PromptInv, World \/ Tick
  PROVE  PromptInv'
<1>1. tx' = tx
  BY DEF World, ChannelBusy, AirStart, AirEnd, PeerAck, StrayAck, Quiesced, Tick
<1>2. (t' = t \/ t' = t + 1) /\ t \in Nat /\ radio.at \in Nat
  BY DEF World, ChannelBusy, AirStart, AirEnd, PeerAck, StrayAck, Quiesced, Tick, TimeInv,
     WorldTyped
<1>3. radio'.op = "attempt" => radio' = radio
  <2>1. CASE ChannelBusy \/ Quiesced
    <3>1. CASE ChannelBusy
      BY <3>1 DEF ChannelBusy, IdleRadio
    <3>2. CASE Quiesced
      BY <3>2 DEF Quiesced, IdleRadio
    <3> QED
      BY <2>1, <3>1, <3>2
  <2>2. CASE AirStart
    <3>1. radio'.op = "air"
      BY <2>2 DEF AirStart, EngineInv, Kept
    <3> QED
      BY <3>1
  <2>3. CASE AirEnd \/ PeerAck
    <3>1. radio'.op = "listen"
      BY <2>3 DEF AirEnd, PeerAck, EngineInv, Kept
    <3> QED
      BY <3>1
  <2>4. CASE StrayAck \/ Tick
    BY <2>4 DEF StrayAck, Tick
  <2> QED
    BY <2>1, <2>2, <2>3, <2>4 DEF World
<1>4. AttemptPrompt'
  <2> DEFINE b == (2^MAX_BE - 1) * BACKOFF_SYMBOLS
  <2>1. b \in Nat /\ ACK_SYMBOLS \in Nat /\ LIFS \in Nat
    BY WaitsAreShort, TxConstants DEF Longest
  <2>2. radio.op = "attempt" => radio.at <= t + ACK_SYMBOLS + LIFS + b
    BY DEF PromptInv, AttemptPrompt
  <2> HIDE DEF b
  <2>3. radio'.op = "attempt" => radio'.at <= t' + ACK_SYMBOLS + LIFS + b
    BY <1>2, <1>3, <2>1, <2>2
  <2> QED
    BY <2>3 DEF AttemptPrompt, b
<1> QED
  BY <1>1, <1>4 DEF PromptInv, Near, Recent

\* Every step keeps the attempts prompt.
LEMMA NextKeepsPrompt ==
  ASSUME 2 * ACK_SYMBOLS <= HALF
  PROVE  EngineInv /\ TimeInv /\ PromptInv /\ PolledOften /\ [Next]_txVars => PromptInv'
<1> SUFFICES ASSUME EngineInv, TimeInv, PromptInv, PolledOften, [Next]_txVars
             PROVE  PromptInv'
  OBVIOUS
<1>1. CASE Release
  <2>1. /\ tx'.phase = "IDLE" /\ tx'.last = tx.last /\ tx'.ready_at = tx.ready_at
    BY <1>1 DEF Release, EngineInv, Kept, Control, TxFields
  <2>2. tx.phase = "DONE" /\ UNCHANGED <<t, radio>>
    BY <1>1 DEF Release
  <2> QED
    BY <2>1, <2>2 DEF PromptInv, AttemptPrompt, Near
<1>2. CASE Engine /\ ~Release
  BY <1>2, SubmitKeepsPrompt, PollKeepsPrompt DEF Engine
<1>3. CASE World \/ Tick
  BY <1>3, WorldKeepsPrompt
<1>4. CASE UNCHANGED txVars
  BY <1>4 DEF txVars, PromptInv, AttemptPrompt, Near, Recent
<1> QED
  BY <1>1, <1>2, <1>3, <1>4 DEF Next

\* mac_tx_init
LEMMA InitPrompt == Init => PromptInv
<1> SUFFICES ASSUME Init PROVE PromptInv
  OBVIOUS
<1>1. Sub(Start, Start) = 0
  <2>1. Start - Start = MOD * 0 + 0 /\ 0 \in 0..(MOD - 1)
    BY Counter
  <2> QED
    BY <2>1, Counter, SubIs
<1> QED
  BY <1>1, Counter DEF Init, PromptInv, AttemptPrompt, Near, IdleRadio

\* When mac_tx_step is polled before a quarter of the counter's range has passed,
\* every attempt starts within an acknowledgement window, a spacing and a backoff:
\* a reservation that has passed never looks as if it lay ahead (AttemptPrompt).
THEOREM AttemptsArePrompt ==
  ASSUME 2 * ACK_SYMBOLS <= HALF
  PROVE  Spec /\ []PolledOften => []AttemptPrompt
<1>1. PromptInv => AttemptPrompt
  BY DEF PromptInv
<1>2. EngineInv /\ TimeInv /\ PromptInv /\ PolledOften /\ [Next]_txVars => PromptInv'
  BY NextKeepsPrompt
<1> QED
  BY <1>1, <1>2, InitPrompt, InitTimed, NextKeepsTime, EngineInductive, PTL DEF Spec
=============================================================================
