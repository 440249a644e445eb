-------------------------------- MODULE NwkAps --------------------------------
(***************************************************************************)
(* The bounded NWK/APS transport of src/src/nwk_aps.c (link build): one    *)
(* outgoing transaction with APS retries, one priority acknowledgement,    *)
(* one parent poll and one receive record share a single MAC slot.         *)
(*                                                                         *)
(* nwk_aps_step is polled; requests, cancellations, a stop and received    *)
(* frames come between polls in any order.  The MAC slot is MacSlot, which *)
(* MacTx implements.  Before every attempt the adapter must confirm ARM,   *)
(* and before a slot is released DISARM.                                   *)
(*                                                                         *)
(* A packet is abstracted to its kind.  The two deadlines are flags that   *)
(* the passing of time raises, and attempts are told apart as the current  *)
(* one and all earlier ones.  cancel holds the code's cancel together with *)
(* cancel_result, completed holds completed together with result: "no", or *)
(* the result.                                                             *)
(***************************************************************************)
EXTENDS Naturals

CONSTANTS RETRIES,               \* NWK_APS_RETRIES
          Requested,             \* the kinds of request the caller makes
          Opened,                \* announcement and permit were sent before
          MaxTransactions        \* bound on the requests of a behaviour

VARIABLES ctx,                   \* nwk_aps_t
          slot,                  \* the MAC slot of ctx->owner
          time,                  \* which deadlines have been reached
          adapter,               \* external: the link driver's preparation
          h                      \* history of the transactions

apsVars == <<ctx, slot, time, adapter, h>>

Mac == INSTANCE MacSlot

-----------------------------------------------------------------------------
(* Requests.  "announce" and "permit" are the broadcasts that open the     *)
(* network (a permit counts once the link key is verified), "zdo" any      *)
(* other endpoint-0 request, "app" and "ackapp" application data without   *)
(* and with an APS acknowledgement, "rejoin" the NWK command, "key" a key  *)
(* exchange and "leave" the NWK leave.                                     *)

Kinds == {"announce", "permit", "zdo", "app", "ackapp", "rejoin", "key", "leave"}

ASSUME ApsConstants ==
  /\ RETRIES \in Nat /\ MaxTransactions \in Nat
  /\ Requested \subseteq Kinds
  /\ Opened \in BOOLEAN

\* NWK broadcasts go out without a MAC acknowledgement.
MacAck(kind) == kind \notin {"announce", "permit", "leave"}

\* reserve(): one transaction at a time, confirmed before the next.
Reserve == ~ctx.queued /\ ctx.completed = "no" /\ ~ctx.stopping

\* nwk_aps_queue, nwk_aps_key_exchange and nwk_aps_rejoin with allocated().
\* Application data is refused until the transport is ready.
Queue(kind) ==
  /\ Reserve
  /\ kind \in {"app", "ackapp"} => ctx.ready
  /\ h.transaction < MaxTransactions
  /\ ctx' = [ctx EXCEPT !.kind = kind, !.queued = TRUE, !.retries = 0,
                        !.seen_ack = FALSE, !.sent = FALSE]
  /\ time' = [time EXCEPT !.transaction = FALSE]
  /\ h' = [h EXCEPT !.transaction = @ + 1, !.onair = FALSE, !.quiet = FALSE,
                    !.cancelled = FALSE]
  /\ UNCHANGED <<slot, adapter>>

\* nwk_aps_poll
Poll ==
  /\ ~ctx.stopping
  /\ ctx' = [ctx EXCEPT !.poll = TRUE]
  /\ UNCHANGED <<slot, time, adapter, h>>

\* nwk_aps_cancel
Cancel ==
  /\ ctx.queued
  /\ ctx' = [ctx EXCEPT !.cancel = "CANCELLED"]
  /\ h' = [h EXCEPT !.cancelled = TRUE]
  /\ UNCHANGED <<slot, time, adapter>>

\* Fault: a stop leaves the transaction in flight to end as it may.
StopCall_KeepsTransaction ==
  /\ ctx' = [ctx EXCEPT !.ready = FALSE, !.stopping = TRUE]
  /\ h' = [h EXCEPT !.cancelled = @ \/ ctx.queued]
  /\ UNCHANGED <<slot, time, adapter>>

\* nwk_aps_stop
StopCall ==
  /\ ctx' = [ctx EXCEPT !.ready = FALSE, !.stopping = TRUE,
                        !.cancel = IF ctx.queued THEN "CANCELLED" ELSE @]
  /\ h' = [h EXCEPT !.cancelled = @ \/ ctx.queued]
  /\ UNCHANGED <<slot, time, adapter>>

\* nwk_aps_take
Take ==
  /\ ctx.receive_ready
  /\ ctx' = [ctx EXCEPT !.receive_ready = FALSE]
  /\ UNCHANGED <<slot, time, adapter, h>>

\* nwk_aps_confirm
Confirm ==
  /\ ctx.completed # "no"
  /\ ctx' = [ctx EXCEPT !.completed = "no"]
  /\ h' = [h EXCEPT !.confirmed = @ + 1]
  /\ UNCHANGED <<slot, time, adapter>>

-----------------------------------------------------------------------------
(* Completion and deadlines                                                *)

\* nwk_aps_complete(): the announcement and then the permit make it ready.
Complete(c, result) ==
  [c EXCEPT !.queued = FALSE, !.waiting = FALSE, !.completed = result,
            !.cancel = "no", !.cancel_sent = FALSE,
            !.announced = @ \/ (result = "OK" /\ c.kind = "announce"),
            !.ready = @ \/ (result = "OK" /\ c.kind = "permit" /\ c.announced)]

\* Fault: nothing but the acknowledgement timer ends a transaction.
Timed_Never == ctx

\* Every step first: an absolute deadline bounds the whole transaction.
Timed == IF ctx.queued /\ ctx.cancel = "no" /\ time.transaction
         THEN [ctx EXCEPT !.cancel = "TIMEOUT"]
         ELSE ctx

\* The transmission in the slot is one that is being cancelled.
Cancelling(c) == c.stopping \/ (c.cancel # "no" /\ c.active = "tx")

-----------------------------------------------------------------------------
(* The ARM and DISARM handshakes with the adapter.                         *)

\* arm(): ask the adapter to prepare the attempt the slot is about to make.
AskedArm(c) == [c EXCEPT !.armed = FALSE, !.disarmed = FALSE, !.arm_issued = 1]

\* External: from now on everything prepared or reported is for an earlier
\* attempt; request is what the adapter is asked to do next.
NewAttempt(request) ==
  adapter' = [request  |-> request,
              prepared |-> IF adapter.prepared = "none" THEN "none" ELSE "stale",
              reports  |-> {[r EXCEPT !.current = FALSE] : r \in adapter.reports}]

Report(kind) == [kind |-> kind, current |-> TRUE]

\* External: the adapter does what it was asked and reports it; the report
\* may come late, more than once or never.
AdapterPrepares ==
  /\ adapter.request = "arm"
  /\ adapter' = [request |-> "none", prepared |-> "current",
                 reports |-> adapter.reports \cup {Report("arm")}]
  /\ UNCHANGED <<ctx, slot, time, h>>

AdapterRetires ==
  /\ adapter.request = "disarm"
  /\ adapter' = [request |-> "none", prepared |-> "none",
                 reports |-> adapter.reports \cup {Report("disarm")}]
  /\ UNCHANGED <<ctx, slot, time, h>>

\* Fault: any report confirms the current attempt.
Names_AnyAttempt(r) == TRUE

\* The report names the slot's generation, retry and backoff.
Names(r) == r.current

\* nwk_aps_armed
Armed(r) ==
  /\ r.kind = "arm" /\ Names(r)
  /\ ctx.active # "none" /\ ctx.arm_issued = 1 /\ ~ctx.armed
  /\ slot.phase = "DRAW"
  /\ ctx' = [ctx EXCEPT !.armed = TRUE, !.arm_issued = 0]
  /\ UNCHANGED <<slot, time, adapter, h>>

\* nwk_aps_disarmed
Disarmed(r) ==
  /\ r.kind = "disarm" /\ Names(r)
  /\ ctx.active # "none" /\ ctx.arm_issued = 2 /\ ~ctx.disarmed
  /\ slot.phase = "DONE"
  /\ ctx' = [ctx EXCEPT !.disarmed = TRUE, !.arm_issued = 0]
  /\ UNCHANGED <<slot, time, adapter, h>>

-----------------------------------------------------------------------------
(* nwk_aps_step while a transmission holds the slot.                       *)

\* Not armed yet: the attempt waits, unless it is cancelled or expired.
Unarmed(c) == ~c.armed /\ slot.phase = "DRAW" /\ ~Cancelling(c)

StepUnarmed ==
  /\ ctx.active # "none"
  /\ Unarmed(Timed)
  /\ IF Timed.arm_issued = 0
     THEN /\ ctx' = AskedArm(Timed)
          /\ adapter' = [adapter EXCEPT !.request = "arm"]
     ELSE /\ ctx' = Timed
          /\ UNCHANGED adapter
  /\ UNCHANGED <<slot, time, h>>

\* An ordinary frame that has been on the air can be acknowledged from now on.
Noted(c, s) == IF c.active = "tx" /\ s.sent THEN [c EXCEPT !.sent = TRUE] ELSE c

\* One poll of a MAC slot that has not finished, with an adapter event (there
\* is none in DRAW) or, if it is to be given up, a cancellation.  An unarmed
\* attempt gets here only past its deadline.  A MAC retry is a new attempt
\* and is armed again; a finished slot is disarmed.
StepMac ==
  /\ ctx.active # "none"
  /\ slot.phase \in {"DRAW", "BUSY", "STOPPING"}
  /\ \E event \in BOOLEAN :
       /\ event => slot.phase # "DRAW"
       /\ LET send == Cancelling(Timed) /\ ~Timed.cancel_sent /\ ~event
          IN \E n \in IF send THEN Mac!Cancelled(slot) ELSE Mac!Polled(slot) :
               /\ Unarmed(Timed) => n.phase \in {"DONE", "FAULT"}
               /\ slot' = n
               /\ LET c == [Noted(Timed, n) EXCEPT !.cancel_sent = @ \/ send]
                  IN \/ /\ n.phase = "DRAW" /\ ~Cancelling(c)
                        /\ ctx' = AskedArm(c) /\ NewAttempt("arm")
                     \/ /\ n.phase = "DRAW" /\ Cancelling(c)
                        /\ ctx' = c /\ NewAttempt("none")
                     \/ /\ n.phase \in {"BUSY", "STOPPING"}
                        /\ ctx' = c /\ UNCHANGED adapter
                     \/ /\ n.phase = "FAULT"
                        /\ ctx' = [c EXCEPT !.ready = FALSE] /\ UNCHANGED adapter
                     \/ /\ n.phase = "DONE"
                        /\ ctx' = [c EXCEPT !.arm_issued = 2]
                        /\ adapter' = [adapter EXCEPT !.request = "disarm"]
               /\ h' = [h EXCEPT !.onair = @ \/ (ctx.active = "tx" /\ n.sent)]
  /\ UNCHANGED time

\* A finished slot waits for DISARM; a faulted one is kept for good.
StepHeld ==
  /\ ctx.active # "none"
  /\ slot.phase = "FAULT" \/ (slot.phase = "DONE" /\ ~ctx.disarmed)
  /\ ctx' = [Timed EXCEPT !.cancel_sent = @ \/ Cancelling(Timed)]
  /\ UNCHANGED <<slot, time, adapter, h>>

\* The transaction after its frame: given up, failed, waiting for the peer's
\* acknowledgement unless that came first, or done.
Finished(c) ==
  IF c.cancel # "no" THEN Complete(c, c.cancel)
  ELSE IF slot.outcome = "FAILED" THEN Complete(c, "RADIO")
  ELSE IF c.kind = "ackapp" /\ ~c.seen_ack THEN [c EXCEPT !.waiting = TRUE]
  ELSE Complete(c, "OK")

\* The slot is released.
StepFinish ==
  /\ ctx.active # "none"
  /\ slot.phase = "DONE" /\ ctx.disarmed
  /\ slot' = Mac!EmptySlot
  /\ LET c == [Timed EXCEPT !.active = "none", !.armed = FALSE, !.arm_issued = 0,
                            !.cancel_sent = @ \/ Cancelling(Timed)]
     IN ctx' = CASE ctx.active = "ack"  -> [c EXCEPT !.reply = FALSE, !.cancel_sent = FALSE]
                 [] ctx.active = "poll" -> c
                 [] ctx.active = "tx"   -> Finished(c)
  /\ time' = [time EXCEPT !.ack = @ /\ ctx.active # "tx"]
  /\ UNCHANGED <<adapter, h>>

-----------------------------------------------------------------------------
(* nwk_aps_step while the slot is free.                                    *)

\* A stop drops what has not been started.
StepStopped ==
  /\ ctx.active = "none" /\ ctx.stopping
  /\ ctx' = [(IF ctx.queued THEN Complete(ctx, "CANCELLED") ELSE ctx) EXCEPT
               !.reply = FALSE, !.poll = FALSE, !.stopping = FALSE,
               !.cancel = "no", !.cancel_sent = FALSE]
  /\ UNCHANGED <<slot, time, adapter, h>>

\* The acknowledgement wait is over: one more copy, or give up.
Again(c) ==
  IF c.waiting /\ time.ack
  THEN IF c.retries = RETRIES
       THEN Complete(c, "TIMEOUT")
       ELSE [c EXCEPT !.waiting = FALSE, !.retries = @ + 1,
                      !.sent = FALSE, !.seen_ack = FALSE]
  ELSE c

\* Cancelled, acknowledged, timed out: in this order.
Settled(c) ==
  LET c1 == IF c.cancel # "no" /\ c.queued THEN Complete(c, c.cancel) ELSE c
      c2 == IF c1.waiting /\ c1.seen_ack THEN Complete(c1, "OK") ELSE c1
  IN Again(c2)

Free == ctx.active = "none" /\ ~ctx.stopping

\* The acknowledgement goes first, then the transaction, then the poll.
Choice(c) == IF c.reply THEN "ack"
             ELSE IF c.queued /\ ~c.waiting THEN "tx"
             ELSE IF c.poll THEN "poll" ELSE "none"

\* Nothing to send.
StepRest ==
  /\ Free
  /\ Choice(Settled(Timed)) = "none"
  /\ ctx' = Settled(Timed)
  /\ UNCHANGED <<slot, time, adapter, h>>

\* nwk_aps_transmit, nwk_aps_transmit_poll: the frame is secured and handed to
\* the MAC, and the adapter is asked to arm the attempt.
StepTransmit ==
  /\ Free
  /\ LET c    == Settled(Timed)
         what == Choice(c)
     IN /\ what # "none"
        /\ slot' = Mac!Accepted(what # "tx" \/ MacAck(c.kind))
        /\ ctx' = AskedArm([c EXCEPT !.active = what,
                                     !.poll = @ /\ what # "poll",
                                     !.sent = @ /\ what # "tx"])
        /\ NewAttempt("arm")
  /\ UNCHANGED <<time, h>>

\* It cannot be secured or the MAC does not take it: a transaction fails, a
\* poll is dropped, and an acknowledgement is tried again by the next step.
StepRefused ==
  /\ Free
  /\ LET c == Settled(Timed)
     IN /\ Choice(c) # "none"
        /\ ctx' = CASE Choice(c) = "ack"  -> c
                    [] Choice(c) = "tx"   -> Complete(c, "ERROR")
                    [] Choice(c) = "poll" -> [c EXCEPT !.poll = FALSE]
  /\ UNCHANGED <<slot, time, adapter, h>>

\* The leave of a device that is not on a network needs no frame.
StepQuietLeave ==
  /\ Free
  /\ LET c == Settled(Timed)
     IN /\ Choice(c) = "tx" /\ c.kind = "leave"
        /\ ctx' = Complete(c, "OK")
  /\ h' = [h EXCEPT !.quiet = TRUE]
  /\ UNCHANGED <<slot, time, adapter>>

-----------------------------------------------------------------------------
(* nwk_aps_receive.  One record and one acknowledgement at a time.         *)

CanReceive == ~ctx.stopping /\ ~ctx.receive_ready /\ ~ctx.reply

\* Data, new or a duplicate: a duplicate is acknowledged again, not delivered.
ReceiveData(new, asks) ==
  /\ CanReceive
  /\ ctx' = [ctx EXCEPT !.receive_ready = new, !.reply = asks]
  /\ UNCHANGED <<slot, time, adapter, h>>

\* A leave, a network update or the answer to our rejoin ends the session and
\* the transaction in hand; any other control frame is only delivered.
ReceiveControl(ends, asks) ==
  /\ CanReceive
  /\ LET cancels == ends /\ ctx.queued
     IN /\ ctx' = [ctx EXCEPT !.receive_ready = TRUE, !.reply = asks,
                              !.ready = @ /\ ~ends,
                              !.cancel = IF cancels THEN "CANCELLED" ELSE @]
        /\ h' = [h EXCEPT !.cancelled = @ \/ cancels]
  /\ UNCHANGED <<slot, time, adapter>>

\* The key owner could not accept the frame durably: no longer ready.
ReceiveFails ==
  /\ CanReceive
  /\ ctx' = [ctx EXCEPT !.ready = FALSE]
  /\ UNCHANGED <<slot, time, adapter, h>>

\* Fault: an acknowledgement is matched without its APS counter.
Matches_AnyCounter(n) ==
  /\ ctx.queued /\ ctx.sent /\ ctx.kind = "ackapp" /\ ctx.cancel = "no"
  /\ ~time.transaction
  /\ ~(ctx.waiting /\ time.ack)

\* acknowledgment_matches(): of this transaction, by its APS counter, after
\* its frame was sent and before either deadline.
Matches(n) ==
  /\ ctx.queued /\ ctx.sent /\ ctx.kind = "ackapp" /\ ctx.cancel = "no"
  /\ ~time.transaction
  /\ ~(ctx.waiting /\ time.ack)
  /\ n = h.transaction

ReceiveAck(n) ==
  /\ CanReceive
  /\ Matches(n)
  /\ ctx' = [ctx EXCEPT !.seen_ack = TRUE]
  /\ UNCHANGED <<slot, time, adapter, h>>

-----------------------------------------------------------------------------
(* External: the peer's acknowledgements stay on the way for any time, and  *)
(* the two deadlines pass.                                                 *)

PeerAcks ==
  /\ ctx.kind = "ackapp" /\ h.onair
  /\ h' = [h EXCEPT !.acks = @ \cup {h.transaction}]
  /\ UNCHANGED <<ctx, slot, time, adapter>>

AckTimeout ==
  /\ ctx.waiting
  /\ time' = [time EXCEPT !.ack = TRUE]
  /\ UNCHANGED <<ctx, slot, adapter, h>>

TransactionTimeout ==
  /\ ctx.queued
  /\ time' = [time EXCEPT !.transaction = TRUE]
  /\ UNCHANGED <<ctx, slot, adapter, h>>

-----------------------------------------------------------------------------
\* nwk_aps_init, or the idle transport once the network has been opened.
Init ==
  /\ ctx = [kind |-> "zdo", queued |-> FALSE, completed |-> "no",
            retries |-> 0, seen_ack |-> FALSE, sent |-> FALSE, waiting |-> FALSE,
            cancel |-> "no", cancel_sent |-> FALSE,
            active |-> "none", reply |-> FALSE, poll |-> FALSE, armed |-> FALSE,
            disarmed |-> FALSE, arm_issued |-> 0, ready |-> Opened,
            announced |-> Opened, stopping |-> FALSE, receive_ready |-> FALSE]
  /\ slot = Mac!EmptySlot
  /\ time = [ack |-> FALSE, transaction |-> FALSE]
  /\ adapter = [request |-> "none", prepared |-> "none", reports |-> {}]
  /\ h = [transaction |-> 0, confirmed |-> 0, onair |-> FALSE, quiet |-> FALSE,
          cancelled |-> FALSE, acks |-> {}]

Requests == \/ \E kind \in Requested : Queue(kind)
            \/ Poll \/ Cancel \/ StopCall \/ Take \/ Confirm

Step == \/ StepUnarmed \/ StepMac \/ StepHeld \/ StepFinish
        \/ StepStopped \/ StepRest \/ StepTransmit \/ StepRefused \/ StepQuietLeave

Receive == \/ \E new, asks \in BOOLEAN : ReceiveData(new, asks)
           \/ \E ends, asks \in BOOLEAN : ReceiveControl(ends, asks)
           \/ \E n \in h.acks : ReceiveAck(n)
           \/ ReceiveFails

Driver == \/ AdapterPrepares \/ AdapterRetires
          \/ \E r \in adapter.reports : Armed(r) \/ Disarmed(r)

World == PeerAcks \/ AckTimeout \/ TransactionTimeout

Next == Requests \/ Step \/ Receive \/ Driver \/ World

Spec == Init /\ [][Next]_apsVars

\* What is relied on: the foreground loop polls the step function and the
\* driver carries out DISARM and reports it; the MAC finishes every slot it is
\* polled for (MacTx!Finishes); the clock runs.  Nothing is assumed of ARM, of
\* the peer, of the caller or of whether a frame can be secured.
MacFinishes == StepMac /\ slot'.phase \in {"DONE", "FAULT"}

Settles == (StepRest \/ StepTransmit \/ StepRefused \/ StepQuietLeave)
           /\ Timed.queued /\ Timed.cancel # "no"

FairSpec ==
  /\ Spec
  /\ WF_apsVars(MacFinishes) /\ WF_apsVars(StepFinish)
  /\ WF_apsVars(StepStopped) /\ WF_apsVars(Settles)
  /\ WF_apsVars(AdapterRetires)
  /\ WF_apsVars(\E r \in adapter.reports : Disarmed(r))
  /\ WF_apsVars(TransactionTimeout)

-----------------------------------------------------------------------------
(* Properties                                                              *)

Results == {"OK", "TIMEOUT", "CANCELLED", "RADIO", "ERROR"}

\* Every variable has its type; at most RETRIES copies follow the first.
TypeOK ==
  /\ ctx \in [kind : Kinds, queued : BOOLEAN, completed : {"no"} \cup Results,
              retries : 0..RETRIES, seen_ack : BOOLEAN, sent : BOOLEAN,
              waiting : BOOLEAN, cancel : {"no", "TIMEOUT", "CANCELLED"},
              cancel_sent : BOOLEAN, active : {"none", "tx", "ack", "poll"},
              reply : BOOLEAN, poll : BOOLEAN, armed : BOOLEAN, disarmed : BOOLEAN,
              arm_issued : 0..2, ready : BOOLEAN, announced : BOOLEAN,
              stopping : BOOLEAN, receive_ready : BOOLEAN]
  /\ slot \in [phase : Mac!SlotPhases, ack : BOOLEAN, outcome : Mac!SlotOutcomes,
               sent : BOOLEAN, retry : BOOLEAN]
  /\ time \in [ack : BOOLEAN, transaction : BOOLEAN]
  /\ adapter \in [request : {"none", "arm", "disarm"},
                  prepared : {"none", "current", "stale"},
                  reports : SUBSET [kind : {"arm", "disarm"}, current : BOOLEAN]]
  /\ h \in [transaction : 0..MaxTransactions, confirmed : 0..MaxTransactions,
            onair : BOOLEAN, quiet : BOOLEAN, cancelled : BOOLEAN,
            acks : SUBSET (1..MaxTransactions)]

\* OK is confirmed only for a transaction that really went out, and for one
\* that asked for an APS acknowledgement only if the peer acknowledged that
\* very transaction, however late an earlier one's acknowledgement arrives
\* (nwk_aps_step, acknowledgment_matches; a quiet leave sends nothing).
OkMeansDelivered ==
  ctx.completed = "OK" =>
    h.quiet \/ (h.onair /\ (ctx.kind = "ackapp" => h.transaction \in h.acks))

\* CANCELLED is confirmed only for a transaction that was itself cancelled, by
\* its caller, a stop or a received control frame: a cancellation that comes
\* too late for one transaction never hits the next (nwk_aps_complete).
CancelledWasAsked ==
  ctx.completed = "CANCELLED" => h.cancelled

\* Every accepted request is answered exactly once: it is in hand, waiting to
\* be confirmed, or confirmed (reserve, nwk_aps_complete, nwk_aps_confirm).
AnsweredOnce ==
  h.transaction = h.confirmed + (IF ctx.queued THEN 1 ELSE 0)
                              + (IF ctx.completed # "no" THEN 1 ELSE 0)

\* What the caller is told of a transaction is true: all three of the above,
\* over retries, late acknowledgements, cancellations and stops.
ConfirmIsTrue == OkMeansDelivered /\ CancelledWasAsked /\ AnsweredOnce

\* Application traffic is shut off while a stop is under way and after a MAC
\* fault, even if the permit that would open it is in flight.
ShutOff == ctx.stopping \/ slot.phase = "FAULT" => ~ctx.ready

\* The MAC starts an attempt only when the adapter is prepared for exactly
\* that attempt, and the slot is released only when the adapter holds nothing
\* for it, whatever late reports of earlier attempts arrive (nwk_aps_armed,
\* nwk_aps_disarmed, the gates in nwk_aps_step).
AdapterInStep ==
  [][ /\ slot.phase = "DRAW" /\ slot'.phase = "BUSY" => adapter.prepared = "current"
      /\ slot.phase = "DONE" /\ slot'.phase = "IDLE" => adapter.prepared = "none"
    ]_apsVars

\* Every transaction is completed unless the MAC faults: with acknowledgements
\* lost, an adapter that never arms and an acknowledgement of ours that can
\* never be secured standing in front of it.
TransactionEnds == ctx.queued ~> (ctx.completed # "no" \/ slot.phase = "FAULT")

=============================================================================
