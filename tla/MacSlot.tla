------------------------------- MODULE MacSlot -------------------------------
(***************************************************************************)
(* What the MAC transmit engine promises the layer above it: one slot that *)
(* takes a frame, may put it on the air, and ends as DONE with an outcome  *)
(* or as FAULT.  DRAW is the state between attempts, in which nothing is   *)
(* in the radio; BUSY and STOPPING are an attempt and its retirement, and  *)
(* retry says that another attempt is to follow it.                        *)
(*                                                                         *)
(* MacTx implements this module, and NwkAps builds on it.                  *)
(***************************************************************************)

VARIABLE slot

SlotPhases   == {"IDLE", "DRAW", "BUSY", "STOPPING", "DONE", "FAULT"}
SlotOutcomes == {"NONE", "ACKED", "UNACKNOWLEDGED", "FAILED"}

EmptySlot == [phase |-> "IDLE", ack |-> FALSE, outcome |-> "NONE", sent |-> FALSE,
              retry |-> FALSE]

\* A success is claimed only for a frame that was sent, and for the kind of
\* confirmation that was asked for.
Honest(s) == /\ s.outcome = "ACKED" => s.ack /\ s.sent
             /\ s.outcome = "UNACKNOWLEDGED" => ~s.ack /\ s.sent

\* The slot s as one poll without a cancellation may leave it.
Polled(s) ==
  {n \in [phase : SlotPhases, ack : {s.ack}, outcome : SlotOutcomes,
          sent : {s.sent, TRUE}, retry : BOOLEAN] :
     /\ Honest(n)
     /\ n.retry => n.phase = "STOPPING" /\ n.outcome = "FAILED"
     /\ n.sent # s.sent => s.phase = "BUSY" /\ n.phase \in {"BUSY", "STOPPING"}
     /\ \/ n.phase = "FAULT" /\ n.outcome = "FAILED"
        \/ n.phase = "DRAW" /\ (s.phase = "BUSY" \/ s.retry) /\ n.outcome = "NONE"
        \/ n.phase = "BUSY" /\ s.phase \in {"DRAW", "BUSY"} /\ n.outcome = "NONE"
        \/ n.phase = "STOPPING" /\ s.phase = "BUSY" /\ n.outcome # "NONE"
        \/ /\ n.phase = "STOPPING" /\ s.phase = "STOPPING"
           /\ n.outcome = s.outcome /\ (n.retry => s.retry)
        \/ n.phase = "DONE" /\ s.phase \in {"DRAW", "BUSY"} /\ n.outcome = "FAILED"
        \/ n.phase = "DONE" /\ s.phase = "STOPPING" /\ n.outcome = s.outcome}

\* The same for a poll that carries a cancellation: no further attempt.
Cancelled(s) ==
  {n \in Polled(s) : /\ n.phase \notin {"DRAW", "BUSY"} /\ ~n.retry
                     /\ s.phase = "BUSY" => n.outcome = "FAILED"}

Accepted(ack) == [EmptySlot EXCEPT !.phase = "DRAW", !.ack = ack]

SlotInit == slot = EmptySlot

SlotSubmit  == slot.phase = "IDLE" /\ \E ack \in BOOLEAN : slot' = Accepted(ack)
SlotPoll    == slot.phase \in {"DRAW", "BUSY", "STOPPING"} /\ slot' \in Polled(slot)
SlotRelease == slot.phase = "DONE" /\ slot' = EmptySlot

SlotSpec == SlotInit /\ [][SlotSubmit \/ SlotPoll \/ SlotRelease]_slot
=============================================================================
