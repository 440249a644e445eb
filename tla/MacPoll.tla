-------------------------------- MODULE MacPoll --------------------------------
(* mac_poll.c: a data request to the parent, the wait for its answer, and the  *)
(* closing of the receive window, as the step that MacJoin takes.              *)
(*                                                                             *)
(* A poll p is mac_poll_control_t and its receipt, a transmitter t is the      *)
(* engine as its clients see it, an event e is mac_poll_event_t with time and  *)
(* content reduced to what the code asks of them.                              *)
EXTENDS Integers

\* Tokens count grants; no two that differ by this much are ever about.
TOKENS == 3
Next1(token) == (token + 1) % TOKENS

Engine(phase, outcome, sent, pending) ==
  [phase |-> phase, outcome |-> outcome, sent |-> sent, pending |-> pending]
IdleEngine == Engine("IDLE", "NONE", FALSE, FALSE)
Resting(t) == t.phase \in {"DONE", "FAULT"}

NoReceipt == [protocol |-> "NO_CONFIRM", cause |-> "NONE", body |-> "NONE"]
IdlePoll ==
  [phase |-> "IDLE", submitted |-> FALSE, token |-> 0, txIssued |-> FALSE, txToken |-> 0,
   txPhase |-> "IDLE", closeIssued |-> FALSE, closeToken |-> 0, closed |-> FALSE,
   ackSeen |-> FALSE, window |-> "shut", timeout |-> FALSE, ready |-> FALSE, taken |-> FALSE,
   reason |-> "NONE", cleanup |-> FALSE, uncertain |-> FALSE, serial |-> 0, record |-> NoReceipt]
PollEvent == [kind |-> "NONE", token |-> 0, serial |-> 0, ordered |-> TRUE, frame |-> "NONE",
              source |-> "NONE", sound |-> TRUE, covers |-> TRUE, admitted |-> TRUE]

\* mac_poll_start on an idle context.
PollStart == [IdlePoll EXCEPT !.phase = "ARM"]

\* The first local reason is kept, and without a decision it is the receipt.
PollDrain(p, reason) ==
  LET q == [p EXCEPT !.reason = IF @ = "NONE" THEN reason ELSE @, !.phase = "DRAIN",
              !.uncertain = @ \/ reason \in {"ADAPTER_ERROR", "ORDER_ERROR", "TX_ERROR"}]
  IN IF reason = "NONE" \/ p.ready THEN q ELSE [q EXCEPT !.timeout = FALSE, !.ready = TRUE]
PollFault(p, reason) ==
  [PollDrain([p EXCEPT !.cleanup = @ \/ p.reason # "NONE"], reason)
     EXCEPT !.uncertain = TRUE, !.phase = "FAULT"]
Decide(p, protocol, cause, body) ==
  PollDrain([p EXCEPT !.record = [protocol |-> protocol, cause |-> cause, body |-> body],
                      !.ready = TRUE], "NONE")

(*** The stages of a step, in their order. ***)

\* A frame out of order spoils the lease, a repeated one is not seen again.
Admit(p, e) ==
  IF e.kind = "FRAME" /\ e.serial > p.serial /\ ~e.ordered THEN PollDrain(p, "ORDER_ERROR") ELSE p
Heeded(p, e) ==
  IF e.kind = "FRAME" /\ (e.serial <= p.serial \/ ~e.ordered) THEN "NONE" ELSE e.kind

\* Work and time are bounded: first for the exchange, then for its cleanup.
Budget(p, kind, spent) ==
  LET q == CASE p.phase = "DRAIN" -> p
             [] p.phase # "DRAIN" /\ kind = "CANCEL" -> PollDrain(p, "CANCELLED")
             [] p.phase # "DRAIN" /\ kind # "CANCEL" /\ spent -> PollDrain(p, "LIFETIME")
             [] OTHER -> p
  IN IF kind = "FAILURE" THEN PollDrain(q, "ADAPTER_ERROR") ELSE q

OnPrepared(p, kind, e) ==
  IF ~(kind = "PREPARED" /\ p.phase = "ARM" /\ p.token # 0 /\ e.token = p.token) THEN p
  ELSE IF e.admitted THEN [p EXCEPT !.submitted = TRUE, !.phase = "REQUEST"]
       ELSE PollDrain(p, "TX_ERROR")

\* accept_ack: the acknowledgment is believed only from the event that the
\* engine itself took in its acknowledgment window.
AcceptAck(p, t, e) ==
  IF ~(p.txPhase = "ACK_WAIT" /\ t.phase = "STOPPING" /\ e.source = "ACK" /\ e.sound)
  THEN PollDrain(p, "TX_ERROR")
  ELSE LET q == [p EXCEPT !.ackSeen = TRUE, !.window = "open"] IN
       CASE p.phase = "DRAIN" -> q
         [] p.phase # "DRAIN" /\ t.pending -> [q EXCEPT !.phase = "RECEIVE"]
         [] OTHER -> Decide(q, "NO_DATA", "PENDING_ZERO", "NONE")

OnTx(p, t, kind, e) ==
  LET q == [p EXCEPT !.txIssued = FALSE]
      lost == t.phase \in {"IDLE", "FAULT"}
      sure == ~lost /\ t.outcome # "TIMING_UNCERTAIN"
      open == t.phase = "DONE" /\ ~p.ackSeen /\ p.phase # "DRAIN" /\ t.outcome # "ACKED"
      failed == t.outcome \in {"NO_ACK", "CHANNEL_ACCESS"}
  IN IF ~(kind = "TX" /\ p.txIssued /\ e.token = p.txToken) THEN p ELSE
     CASE lost -> PollDrain(q, "TX_ERROR")
       [] ~lost /\ ~sure -> PollDrain(q, "TIMING_UNCERTAIN")
       [] sure /\ ~p.ackSeen /\ t.outcome = "ACKED" -> AcceptAck(q, t, e)
       [] sure /\ open /\ failed -> Decide(q, t.outcome, "TX_RESULT", "NONE")
       [] sure /\ open /\ ~failed -> PollDrain(q, "TX_ABORT")
       [] OTHER -> q

\* Fault: what the closing radio still delivers after the time-out is dropped.
Listening_NotDraining(p, t) ==
  p.phase = "RECEIVE" \/ (p.phase = "REQUEST" /\ ~p.ackSeen /\ t.sent)

\* A frame counts in the window, until the window is confirmed closed, and
\* already before the acknowledgment once the request has been on the air.
Listening(p, t) ==
  \/ p.phase = "RECEIVE"
  \/ p.phase = "DRAIN" /\ p.timeout
  \/ p.phase = "REQUEST" /\ ~p.ackSeen /\ t.sent

OnFrame(p, t, kind, e) ==
  LET q == [p EXCEPT !.serial = e.serial]
      d == [q EXCEPT !.timeout = FALSE]
  IN CASE kind # "FRAME" -> p
       [] kind = "FRAME" /\ (~Listening(p, t) \/ e.frame = "FOREIGN") -> q
       [] kind = "FRAME" /\ Listening(p, t) /\ e.frame = "UNSUPPORTED" -> PollDrain(q, "UNSUPPORTED")
       [] kind = "FRAME" /\ Listening(p, t) /\ e.frame = "DATA" -> Decide(d, "SUCCESS", "DATA", "DATA")
       [] OTHER -> Decide(d, "NO_DATA", IF e.frame = "EMPTY" THEN "EMPTY" ELSE "COMMAND", e.frame)

OnTimeout(p) ==
  IF p.phase = "RECEIVE" /\ p.window = "over" THEN PollDrain([p EXCEPT !.timeout = TRUE], "NONE") ELSE p

\* The closing has to cover what was concluded from silence.
OnClosed(p, kind, e) ==
  IF ~(kind = "CLOSED" /\ p.closeIssued /\ e.token = p.closeToken) THEN p
  ELSE IF ~e.covers /\ (p.timeout \/ (p.ready /\ p.record.cause = "PENDING_ZERO"))
       THEN PollDrain(p, "ADAPTER_ERROR")
       ELSE [p EXCEPT !.closed = TRUE]

Settle(p, t) ==
  IF ~(p.phase = "DRAIN" /\ p.closed /\ ~p.txIssued /\ (~p.submitted \/ Resting(t))) THEN p
  ELSE IF p.uncertain \/ t.phase = "FAULT" THEN PollFault(p, "CLEANUP_FAILED")
       ELSE [(IF p.timeout THEN Decide(p, "NO_DATA", "TIMEOUT", "NONE") ELSE p) EXCEPT !.phase = "DONE"]

NoAction == [kind |-> "NONE", cancel |-> FALSE]
\* What the step asks of the adapter next.
PollAction(p, t) ==
  CASE p.phase = "ARM" /\ p.token = 0 -> [kind |-> "PREPARE", cancel |-> FALSE]
    [] (p.phase = "ARM" => p.token # 0) /\ p.phase \in {"ARM", "REQUEST", "RECEIVE", "DRAIN"}
         /\ p.submitted /\ ~p.txIssued /\ ~Resting(t) ->
         [kind |-> "TX", cancel |-> p.phase = "DRAIN" /\ t.phase # "STOPPING"]
    [] p.phase = "DRAIN" /\ ~p.closeIssued /\ ~p.txIssued /\ (~p.submitted \/ Resting(t)) ->
         [kind |-> "CLOSE", cancel |-> FALSE]
    [] OTHER -> NoAction
PollIssue(p, t) ==
  LET k == PollAction(p, t).kind
      q == [p EXCEPT !.token = IF k = "NONE" THEN @ ELSE Next1(@)]
  IN CASE k = "TX" -> [q EXCEPT !.txIssued = TRUE, !.txPhase = t.phase, !.txToken = q.token]
       [] k = "CLOSE" -> [q EXCEPT !.closeIssued = TRUE, !.closeToken = q.token]
       [] OTHER -> q

\* The engine after the step: submission is the only change the poll makes.
Submitted(p, q, t) ==
  IF q.submitted /\ ~p.submitted THEN Engine("DRAW", "NONE", FALSE, FALSE) ELSE t

\* The stages between the preparation and the settling.
Stages(c, u, k, e) ==
  Settle(OnClosed(OnTimeout(OnFrame(OnTx(c, u, k, e), u, k, e)), k, e), u)
Outcome(s, u) == [poll |-> PollIssue(s, u), tx |-> u, action |-> PollAction(s, u)]
Proceeded(p, t, b, k, e) ==
  LET c == OnPrepared(b, k, e)
      u == Submitted(p, c, t)
  IN IF b.phase = "FAULT" THEN Outcome(b, u) ELSE Outcome(Stages(c, u, k, e), u)

\* mac_poll_step with the lifetime or the cleanup's budget spent or not.
PollStep(p, t, e, spent) ==
  LET a == Admit(p, e)
      k == Heeded(p, e)
  IN CASE p.phase \in {"DONE", "FAULT"} -> Outcome(p, t)
       [] p.phase \notin {"DONE", "FAULT"} /\ ~p.submitted /\ t.phase # "IDLE" ->
            Outcome(PollFault(a, "TX_ERROR"), t)
       [] OTHER -> Proceeded(p, t, IF p.phase = "DRAIN" /\ spent THEN PollFault(a, "CLEANUP_FAILED")
                                   ELSE Budget(a, k, spent), k, e)

PollTake(p) == [p EXCEPT !.taken = TRUE]
\* mac_poll_release of a poll that is done and taken; all that is read before
\* the next start is its receipt.
PollRelease(p) == [IdlePoll EXCEPT !.record = p.record]
=============================================================================
