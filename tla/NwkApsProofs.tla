----------------------------- MODULE NwkApsProofs -----------------------------
(***************************************************************************)
(* Proofs about the transport of NwkAps, for any number of transactions,   *)
(* retries and kinds of request: ConfirmIsTrue, ShutOff and AdapterInStep.  *)
(*                                                                         *)
(* nwk_aps_step works on a record in several stages (the deadline, the     *)
(* settlement, the completion), so the parts of the invariant that speak   *)
(* of the transaction are operators on such a record: each stage keeps     *)
(* them, and an action's own changes come last.                            *)
(***************************************************************************)
EXTENDS NwkAps, TLAPS

CtxFields == {"kind", "queued", "completed", "retries", "seen_ack", "sent", "waiting",
              "cancel", "cancel_sent", "active", "reply", "poll", "armed", "disarmed",
              "arm_issued", "ready", "announced", "stopping", "receive_ready"}

\* A transport record, with types for the fields the argument needs.
Record(c) ==
  /\ c = [f \in CtxFields |-> c[f]]
  /\ c.completed \in {"no"} \cup Results /\ c.cancel \in {"no", "TIMEOUT", "CANCELLED"}
  /\ c.active \in {"none", "tx", "ack", "poll"}
  /\ c.queued \in BOOLEAN /\ c.waiting \in BOOLEAN /\ c.seen_ack \in BOOLEAN
  /\ c.cancel_sent \in BOOLEAN /\ c.armed \in BOOLEAN /\ c.disarmed \in BOOLEAN
  /\ c.ready \in BOOLEAN /\ c.stopping \in BOOLEAN

History ==
  /\ h = [f \in {"transaction", "confirmed", "onair", "quiet", "cancelled", "acks"} |-> h[f]]
  /\ h.transaction \in Nat /\ h.confirmed \in Nat
  /\ h.onair \in BOOLEAN /\ h.quiet \in BOOLEAN /\ h.cancelled \in BOOLEAN

\* The transaction in hand, and the one to be confirmed.
Transaction(c) ==
  /\ c.queued => c.completed = "no"
  /\ c.waiting => c.queued /\ h.onair
  /\ c.cancel # "no" => c.queued
  /\ c.cancel = "CANCELLED" => h.cancelled
  /\ c.stopping /\ c.queued => c.cancel = "CANCELLED"
  /\ c.seen_ack /\ c.queued => h.transaction \in h.acks
  /\ c.active = "tx" => c.queued /\ ~c.waiting

\* What the caller is told: ConfirmIsTrue of a staged record.
Told(c) ==
  /\ c.completed = "OK" =>
       h.quiet \/ (h.onair /\ (c.kind = "ackapp" => h.transaction \in h.acks))
  /\ c.completed = "CANCELLED" => h.cancelled
  /\ h.transaction = h.confirmed + (IF c.queued THEN 1 ELSE 0)
                                 + (IF c.completed # "no" THEN 1 ELSE 0)

\* The MAC slot, between the transport and the frame it carries.
SlotFits ==
  /\ slot.phase \in Mac!SlotPhases
  /\ ctx.active = "none" <=> slot.phase = "IDLE"
  /\ slot.phase \in {"STOPPING", "DONE"} => slot.outcome # "NONE"
  /\ slot.retry => slot.phase = "STOPPING"
  /\ slot.outcome \in Mac!SlotOutcomes
  /\ Mac!Honest(slot)
  /\ ctx.active = "tx" /\ slot.sent => h.onair

\* A cancellation is sent for what is being given up, and ends its attempts.
CancelSent ==
  ctx.cancel_sent => /\ Cancelling(ctx) /\ ~slot.retry
                     /\ slot.phase \notin {"DRAW", "BUSY"}

\* What the adapter holds and has been asked, by the phase of the slot.
Prepared ==
  /\ adapter = [f \in {"request", "prepared", "reports"} |-> adapter[f]]
  /\ slot.phase = "IDLE" => adapter.prepared = "none" /\ adapter.request = "none"
  /\ slot.phase = "DONE" => adapter.request # "arm"
  /\ adapter.request = "disarm" => slot.phase = "DONE"
  /\ slot.phase = "DRAW" /\ ctx.armed => adapter.prepared = "current" \/ Cancelling(ctx)
  /\ ctx.disarmed => /\ slot.phase \in {"DONE", "IDLE"}
                     /\ adapter.prepared = "none" /\ adapter.request = "none"
  /\ \A r \in adapter.reports :
       /\ r = [f \in {"kind", "current"} |-> r[f]]
       /\ r.current /\ r.kind = "arm" /\ slot.phase = "DRAW" => adapter.prepared = "current"
       /\ r.current /\ r.kind = "disarm" =>
            /\ slot.phase \in {"DONE", "IDLE"}
            /\ adapter.prepared = "none" /\ adapter.request = "none"

ApsInv == /\ Record(ctx) /\ History /\ Transaction(ctx) /\ Told(ctx)
          /\ SlotFits /\ CancelSent /\ Prepared /\ ShutOff

-----------------------------------------------------------------------------
(* The stages of a step                                                    *)

\* The fields that no stage changes.
Keeps(n, c) ==
  /\ n.kind = c.kind /\ n.seen_ack = c.seen_ack /\ n.active = c.active
  /\ n.armed = c.armed /\ n.disarmed = c.disarmed /\ n.stopping = c.stopping

\* nwk_aps_complete() ends the transaction with its result.
LEMMA CompleteIs ==
  ASSUME NEW c, Record(c), NEW r \in Results
  PROVE  LET n == Complete(c, r)
         IN /\ Record(n) /\ Keeps(n, c)
            /\ ~n.queued /\ ~n.waiting /\ n.completed = r
            /\ n.cancel = "no" /\ ~n.cancel_sent
            /\ n.ready => c.ready \/ r = "OK"
<1> DEFINE n == Complete(c, r)
<1>1. /\ n = [f \in CtxFields |-> n[f]] /\ Keeps(n, c)
      /\ n.queued = FALSE /\ n.waiting = FALSE /\ n.completed = r
      /\ n.cancel = "no" /\ n.cancel_sent = FALSE
      /\ n.ready = (c.ready \/ (r = "OK" /\ c.kind = "permit" /\ c.announced))
  BY DEF Record, CtxFields, Complete, Keeps
<1> HIDE DEF n
<1>2. n.ready \in BOOLEAN
  BY <1>1 DEF Record
<1>3. Record(n)
  BY <1>1, <1>2 DEF Record, Keeps, Results
<1> QED
  BY <1>1, <1>3 DEF n

\* The deadline turns a transaction without a cancellation into a timeout.
LEMMA TimedIs ==
  ASSUME Record(ctx)
  PROVE  /\ Record(Timed) /\ Keeps(Timed, ctx)
         /\ Timed.queued = ctx.queued /\ Timed.waiting = ctx.waiting
         /\ Timed.completed = ctx.completed /\ Timed.cancel_sent = ctx.cancel_sent
         /\ Timed.ready = ctx.ready
         /\ \/ Timed.cancel = ctx.cancel
            \/ ctx.queued /\ ctx.cancel = "no" /\ Timed.cancel = "TIMEOUT"
<1>1. CASE Timed = ctx
  BY <1>1 DEF Keeps
<1>2. CASE ctx.queued /\ ctx.cancel = "no" /\ Timed = [ctx EXCEPT !.cancel = "TIMEOUT"]
  BY <1>2 DEF Record, CtxFields, Keeps
<1> QED
  BY <1>1, <1>2 DEF Timed

\* What is being given up stays so, and the deadline may add to it.
LEMMA TimedCancels == ASSUME Record(ctx), Cancelling(ctx) PROVE Cancelling(Timed)
BY TimedIs DEF Cancelling, Keeps

\* The deadline touches neither the transaction nor what was confirmed.
LEMMA TimedFits ==
  ASSUME Record(ctx), Transaction(ctx), Told(ctx)
  PROVE  Transaction(Timed) /\ Told(Timed)
<1>1. /\ Record(Timed) /\ Keeps(Timed, ctx)
      /\ Timed.queued = ctx.queued /\ Timed.waiting = ctx.waiting
      /\ Timed.completed = ctx.completed
      /\ \/ Timed.cancel = ctx.cancel
         \/ ctx.queued /\ ctx.cancel = "no" /\ Timed.cancel = "TIMEOUT"
  BY TimedIs
<1>2. Transaction(Timed)
  BY <1>1 DEF Transaction, Keeps
<1>3. Told(Timed)
  BY <1>1 DEF Told, Keeps
<1> QED
  BY <1>2, <1>3

\* A completion is true if its result is.
LEMMA CompleteFits ==
  ASSUME NEW c, Record(c), History, Transaction(c), Told(c), NEW r \in Results,
         c.queued, c.active # "tx",
         r = "OK" => h.quiet \/ (h.onair /\ (c.kind = "ackapp" => h.transaction \in h.acks)),
         r = "CANCELLED" => h.cancelled
  PROVE  Transaction(Complete(c, r)) /\ Told(Complete(c, r))
<1> DEFINE n == Complete(c, r)
<1>1. /\ Record(n) /\ Keeps(n, c)
      /\ ~n.queued /\ ~n.waiting /\ n.completed = r /\ n.cancel = "no"
  BY CompleteIs
<1> HIDE DEF n
<1>2. Transaction(n)
  BY <1>1 DEF Transaction, Keeps
<1>3. r # "no" /\ c.completed = "no"
  BY DEF Results, Transaction
<1>4. h.transaction = h.confirmed + (IF n.queued THEN 1 ELSE 0)
                                  + (IF n.completed # "no" THEN 1 ELSE 0)
  BY <1>1, <1>3 DEF Told, History
<1>5. Told(n)
  BY <1>1, <1>4 DEF Told, Keeps
<1> QED
  BY <1>2, <1>5 DEF n

\* The settlement of a free slot: cancelled, acknowledged or timed out.
LEMMA SettledFits ==
  ASSUME Record(ctx), History, Transaction(ctx), Told(ctx), CancelSent, Free
  PROVE  LET c == Settled(Timed)
         IN /\ Record(c) /\ Transaction(c) /\ Told(c)
            /\ c.active = "none" /\ ~c.stopping /\ ~c.cancel_sent
            /\ c.armed = ctx.armed /\ c.disarmed = ctx.disarmed
<1> DEFINE Good(c) == /\ Record(c) /\ Transaction(c) /\ Told(c)
                      /\ c.active = "none" /\ ~c.stopping /\ ~c.cancel_sent
                      /\ c.armed = ctx.armed /\ c.disarmed = ctx.disarmed
<1>1. Good(Timed)
  <2>1. ctx.active = "none" /\ ~ctx.stopping /\ ~ctx.cancel_sent
    BY DEF Free, CancelSent, Cancelling
  <2> QED
    BY <2>1, TimedIs, TimedFits DEF Keeps
<1>2. ASSUME NEW c, Good(c), c.queued, NEW r \in Results,
             r = "OK" => h.onair /\ h.transaction \in h.acks,
             r = "CANCELLED" => h.cancelled
      PROVE  Good(Complete(c, r))
  BY <1>2, CompleteIs, CompleteFits DEF Keeps
<1> DEFINE c1 == IF Timed.cancel # "no" /\ Timed.queued THEN Complete(Timed, Timed.cancel)
                 ELSE Timed
<1> DEFINE c2 == IF c1.waiting /\ c1.seen_ack THEN Complete(c1, "OK") ELSE c1
<1>3. Good(c1)
  <2>1. CASE Timed.cancel # "no" /\ Timed.queued
    <3>1. Timed.cancel \in Results /\ Timed.cancel # "OK"
          /\ (Timed.cancel = "CANCELLED" => h.cancelled)
      BY <1>1, <2>1 DEF Record, Transaction, Results
    <3> HIDE DEF Good
    <3> QED
      BY <1>1, <1>2, <2>1, <3>1
  <2>2. CASE ~(Timed.cancel # "no" /\ Timed.queued)
    BY <1>1, <2>2
  <2> QED
    BY <2>1, <2>2
<1> HIDE DEF c1
<1>4. Good(c2)
  <2>1. CASE c1.waiting /\ c1.seen_ack
    <3>1. c1.queued /\ h.onair /\ h.transaction \in h.acks /\ "OK" \in Results
      BY <1>3, <2>1 DEF Transaction, Results
    <3> HIDE DEF Good
    <3> QED
      BY <1>2, <1>3, <2>1, <3>1
  <2>2. CASE ~(c1.waiting /\ c1.seen_ack)
    BY <1>3, <2>2
  <2> QED
    BY <2>1, <2>2
<1> HIDE DEF c2
<1>5. Good(Again(c2))
  <2>1. CASE c2.waiting /\ time.ack /\ c2.retries = RETRIES
    <3>1. c2.queued /\ "TIMEOUT" \in Results
      BY <1>4, <2>1 DEF Transaction, Results
    <3>2. Again(c2) = Complete(c2, "TIMEOUT")
      BY <2>1 DEF Again
    <3> HIDE DEF Good
    <3> QED
      BY <1>2, <1>4, <3>1, <3>2
  <2>2. CASE c2.waiting /\ time.ack /\ c2.retries # RETRIES
    <3> DEFINE n == [c2 EXCEPT !.waiting = FALSE, !.retries = @ + 1,
                               !.sent = FALSE, !.seen_ack = FALSE]
    <3>1. Again(c2) = n
      BY <2>2 DEF Again
    <3>2. /\ n = [f \in CtxFields |-> n[f]]
          /\ n.waiting = FALSE /\ n.seen_ack = FALSE /\ n.kind = c2.kind
          /\ n.queued = c2.queued /\ n.completed = c2.completed /\ n.cancel = c2.cancel
          /\ n.cancel_sent = c2.cancel_sent /\ n.active = c2.active
          /\ n.armed = c2.armed /\ n.disarmed = c2.disarmed /\ n.ready = c2.ready
          /\ n.stopping = c2.stopping
      BY <1>4 DEF Record, CtxFields
    <3> HIDE DEF n
    <3>3. Record(n) /\ Transaction(n) /\ Told(n)
      BY <1>4, <3>2 DEF Record, Transaction, Told
    <3> QED
      BY <1>4, <3>1, <3>2, <3>3
  <2>3. CASE ~(c2.waiting /\ time.ack)
    BY <1>4, <2>3 DEF Again
  <2> QED
    BY <2>1, <2>2, <2>3
<1>6. Settled(Timed) = Again(c2)
  BY DEF Settled, c1, c2
<1> QED
  BY <1>5, <1>6

-----------------------------------------------------------------------------
(* Requests                                                                *)

\* Two records that the invariant cannot tell apart.
Alike(n, c) ==
  /\ Record(n) /\ Keeps(n, c) /\ n.queued = c.queued /\ n.waiting = c.waiting
  /\ n.completed = c.completed /\ n.cancel = c.cancel
  /\ n.cancel_sent = c.cancel_sent /\ n.ready = c.ready

\* Steps that leave the transaction, the slot and the adapter as they were.
LEMMA AlikeKeeps ==
  ASSUME ApsInv, Alike(ctx', ctx), UNCHANGED <<slot, adapter, h>>
  PROVE  ApsInv'
<1>1. Record(ctx)' /\ History'
  BY DEF ApsInv, Alike, History
<1>2. Transaction(ctx)' /\ Told(ctx)'
  BY DEF ApsInv, Alike, Keeps, Transaction, Told
<1>3. SlotFits' /\ CancelSent' /\ ShutOff'
  BY DEF ApsInv, Alike, Keeps, SlotFits, CancelSent, Cancelling, ShutOff
<1>4. Prepared'
  BY DEF ApsInv, Alike, Keeps, Prepared, Cancelling
<1> QED
  BY <1>1, <1>2, <1>3, <1>4 DEF ApsInv

\* A request is accepted only after the last one was confirmed.
LEMMA QueueKeeps ==
  ASSUME ApsInv, NEW kind, Queue(kind)
  PROVE  ApsInv'
<1>1. ~ctx.queued /\ ctx.completed = "no" /\ ~ctx.stopping /\ UNCHANGED <<slot, adapter>>
  BY DEF Queue, Reserve
<1>2. /\ ctx' = [f \in CtxFields |-> ctx'[f]] /\ ctx'.queued = TRUE /\ ctx'.seen_ack = FALSE
      /\ ctx'.waiting = ctx.waiting /\ ctx'.completed = ctx.completed
      /\ ctx'.cancel = ctx.cancel /\ ctx'.cancel_sent = ctx.cancel_sent
      /\ ctx'.active = ctx.active /\ ctx'.armed = ctx.armed /\ ctx'.disarmed = ctx.disarmed
      /\ ctx'.ready = ctx.ready /\ ctx'.stopping = ctx.stopping
  BY DEF Queue, ApsInv, Record, CtxFields
<1>3. /\ h' = [f \in {"transaction", "confirmed", "onair", "quiet", "cancelled", "acks"}
                 |-> h'[f]]
      /\ h'.transaction = h.transaction + 1 /\ h'.confirmed = h.confirmed
      /\ h'.onair = FALSE /\ h'.quiet = FALSE /\ h'.cancelled = FALSE
  BY DEF Queue, ApsInv, History
<1>4. Record(ctx)'
  BY <1>2 DEF ApsInv, Record
<1>5. History'
  <2>1. h'.transaction \in Nat
    BY <1>3 DEF ApsInv, History
  <2> QED
    BY <1>3, <2>1 DEF ApsInv, History
<1>6. ctx.cancel = "no" /\ ~ctx.waiting /\ ctx.active # "tx"
  BY <1>1 DEF ApsInv, Transaction
<1>7. Transaction(ctx)'
  BY <1>1, <1>2, <1>6 DEF Transaction
<1>8. Told(ctx)'
  BY <1>1, <1>2, <1>3 DEF ApsInv, Told, History
<1>9. SlotFits' /\ CancelSent' /\ ShutOff'
  BY <1>1, <1>2, <1>6 DEF ApsInv, SlotFits, CancelSent, Cancelling, ShutOff
<1>10. Prepared'
  BY <1>1, <1>2, <1>6 DEF ApsInv, Prepared, Cancelling
<1> QED
  BY <1>4, <1>5, <1>7, <1>8, <1>9, <1>10 DEF ApsInv

\* A cancellation of the transaction in hand, by the caller, by a stop or by a
\* received control frame.
LEMMA CancelKeeps ==
  ASSUME ApsInv, Record(ctx)', Keeps(ctx', [ctx EXCEPT !.stopping = ctx'.stopping]),
         ctx'.queued = ctx.queued, ctx'.waiting = ctx.waiting,
         ctx'.completed = ctx.completed, ctx'.cancel_sent = ctx.cancel_sent,
         ctx'.ready => ctx.ready, ctx'.stopping => ctx.stopping \/ ~ctx'.ready,
         ctx.stopping => ctx'.stopping,
         ctx'.stopping /\ ctx.queued => ctx'.cancel = "CANCELLED",
         \/ ctx'.cancel = ctx.cancel
         \/ ctx.queued /\ ctx'.cancel = "CANCELLED" /\ h'.cancelled,
         h' = [h EXCEPT !.cancelled = h'.cancelled], h'.cancelled \in BOOLEAN,
         h.cancelled => h'.cancelled,
         UNCHANGED <<slot, adapter>>
  PROVE  ApsInv'
<1>1. /\ ctx'.kind = ctx.kind /\ ctx'.seen_ack = ctx.seen_ack /\ ctx'.active = ctx.active
      /\ ctx'.armed = ctx.armed /\ ctx'.disarmed = ctx.disarmed
  BY DEF Keeps, ApsInv, Record, CtxFields
<1>2. /\ h' = [f \in {"transaction", "confirmed", "onair", "quiet", "cancelled", "acks"}
                 |-> h'[f]]
      /\ h'.transaction = h.transaction /\ h'.confirmed = h.confirmed
      /\ h'.onair = h.onair /\ h'.quiet = h.quiet /\ h'.acks = h.acks
  BY DEF ApsInv, History
<1>3. History'
  BY <1>2 DEF ApsInv, History
<1>4. Transaction(ctx)'
  BY <1>1, <1>2 DEF ApsInv, Transaction
<1>5. Told(ctx)'
  BY <1>1, <1>2 DEF ApsInv, Told
<1>6. Cancelling(ctx) => Cancelling(ctx)'
  BY <1>1 DEF Cancelling
<1>7. SlotFits' /\ CancelSent' /\ ShutOff'
  BY <1>1, <1>2, <1>6 DEF ApsInv, SlotFits, CancelSent, ShutOff
<1>8. Prepared'
  BY <1>1, <1>6 DEF ApsInv, Prepared
<1> QED
  BY <1>3, <1>4, <1>5, <1>7, <1>8 DEF ApsInv

\* nwk_aps_cancel
LEMMA CancelCallKeeps == ASSUME ApsInv, Cancel PROVE ApsInv'
<1>1. /\ Record(ctx)' /\ Keeps(ctx', [ctx EXCEPT !.stopping = ctx'.stopping])
      /\ ctx'.queued = ctx.queued /\ ctx'.waiting = ctx.waiting
      /\ ctx'.completed = ctx.completed /\ ctx'.cancel_sent = ctx.cancel_sent
      /\ ctx'.ready = ctx.ready /\ ctx'.stopping = ctx.stopping
      /\ ctx'.cancel = "CANCELLED"
  BY DEF Cancel, ApsInv, Record, CtxFields, Keeps
<1>2. h' = [h EXCEPT !.cancelled = h'.cancelled] /\ h'.cancelled = TRUE
  BY DEF Cancel, ApsInv, History
<1>3. ctx.queued /\ UNCHANGED <<slot, adapter>>
  BY DEF Cancel
<1> QED
  BY <1>1, <1>2, <1>3, CancelKeeps

\* nwk_aps_stop
LEMMA StopCallKeeps == ASSUME ApsInv, StopCall PROVE ApsInv'
<1>1. /\ Record(ctx)' /\ Keeps(ctx', [ctx EXCEPT !.stopping = ctx'.stopping])
      /\ ctx'.queued = ctx.queued /\ ctx'.waiting = ctx.waiting
      /\ ctx'.completed = ctx.completed /\ ctx'.cancel_sent = ctx.cancel_sent
      /\ ctx'.ready = FALSE /\ ctx'.stopping = TRUE
      /\ ctx'.cancel = IF ctx.queued THEN "CANCELLED" ELSE ctx.cancel
  BY DEF StopCall, ApsInv, Record, CtxFields, Keeps
<1>2. /\ h' = [h EXCEPT !.cancelled = h'.cancelled]
      /\ h'.cancelled = (h.cancelled \/ ctx.queued)
  BY DEF StopCall, ApsInv, History
<1>3. UNCHANGED <<slot, adapter>>
  BY DEF StopCall
<1>4. /\ h'.cancelled \in BOOLEAN /\ (h.cancelled => h'.cancelled)
      /\ (ctx.queued => h'.cancelled)
  BY <1>2
<1> QED
  BY <1>1, <1>2, <1>3, <1>4, CancelKeeps

\* nwk_aps_poll and nwk_aps_take
LEMMA PollTakeKeep == ASSUME ApsInv, Poll \/ Take PROVE ApsInv'
<1>1. CASE Poll
  <2>1. Alike(ctx', ctx) /\ UNCHANGED <<slot, adapter, h>>
    BY <1>1 DEF Poll, ApsInv, Record, CtxFields, Keeps, Alike
  <2> QED
    BY <2>1, AlikeKeeps
<1>2. CASE Take
  <2>1. Alike(ctx', ctx) /\ UNCHANGED <<slot, adapter, h>>
    BY <1>2 DEF Take, ApsInv, Record, CtxFields, Keeps, Alike
  <2> QED
    BY <2>1, AlikeKeeps
<1> QED
  BY <1>1, <1>2

\* nwk_aps_confirm
LEMMA ConfirmKeeps == ASSUME ApsInv, Confirm PROVE ApsInv'
<1>1. /\ ctx' = [f \in CtxFields |-> ctx'[f]] /\ Keeps(ctx', ctx)
      /\ ctx'.queued = ctx.queued /\ ctx'.waiting = ctx.waiting
      /\ ctx'.completed = "no" /\ ctx'.cancel = ctx.cancel
      /\ ctx'.cancel_sent = ctx.cancel_sent /\ ctx'.ready = ctx.ready
  BY DEF Confirm, ApsInv, Record, CtxFields, Keeps
<1>2. /\ h' = [f \in {"transaction", "confirmed", "onair", "quiet", "cancelled", "acks"}
                 |-> h'[f]]
      /\ h'.transaction = h.transaction /\ h'.confirmed = h.confirmed + 1
      /\ h'.onair = h.onair /\ h'.quiet = h.quiet /\ h'.cancelled = h.cancelled
      /\ h'.acks = h.acks
  BY DEF Confirm, ApsInv, History
<1>3. ctx.completed # "no" /\ UNCHANGED <<slot, adapter>>
  BY DEF Confirm
<1>4. Record(ctx)'
  BY <1>1 DEF ApsInv, Record, Keeps
<1>5. History'
  <2>1. h'.confirmed \in Nat
    BY <1>2 DEF ApsInv, History
  <2> QED
    BY <1>2, <2>1 DEF ApsInv, History
<1>6. Transaction(ctx)'
  BY <1>1, <1>2 DEF ApsInv, Transaction, Keeps
<1>7. ~ctx.queued
  BY <1>3 DEF ApsInv, Transaction
<1>8. Told(ctx)'
  BY <1>1, <1>2, <1>3, <1>7 DEF ApsInv, Told, History
<1>9. SlotFits' /\ CancelSent' /\ ShutOff'
  BY <1>1, <1>2, <1>3 DEF ApsInv, SlotFits, CancelSent, Cancelling, ShutOff, Keeps
<1>10. Prepared'
  BY <1>1, <1>3 DEF ApsInv, Prepared, Cancelling, Keeps
<1> QED
  BY <1>4, <1>5, <1>6, <1>8, <1>9, <1>10 DEF ApsInv

-----------------------------------------------------------------------------
(* nwk_aps_receive, and the world                                          *)

\* Data is delivered and acknowledged beside the transaction.
LEMMA ReceiveDataKeeps ==
  ASSUME ApsInv, NEW new \in BOOLEAN, NEW asks \in BOOLEAN, ReceiveData(new, asks)
  PROVE  ApsInv'
<1>1. Alike(ctx', ctx) /\ UNCHANGED <<slot, adapter, h>>
  BY DEF ReceiveData, ApsInv, Record, CtxFields, Keeps, Alike
<1> QED
  BY <1>1, AlikeKeeps

\* A control frame that ends the session cancels the transaction in hand.
LEMMA ReceiveControlKeeps ==
  ASSUME ApsInv, NEW ends \in BOOLEAN, NEW asks \in BOOLEAN, ReceiveControl(ends, asks)
  PROVE  ApsInv'
<1>1. ~ctx.stopping /\ UNCHANGED <<slot, adapter>>
  BY DEF ReceiveControl, CanReceive
<1>2. /\ ctx' = [f \in CtxFields |-> ctx'[f]]
      /\ Keeps(ctx', ctx)
      /\ ctx'.queued = ctx.queued /\ ctx'.waiting = ctx.waiting
      /\ ctx'.completed = ctx.completed /\ ctx'.cancel_sent = ctx.cancel_sent
      /\ ctx'.ready = (ctx.ready /\ ~ends)
      /\ ctx'.cancel = IF ends /\ ctx.queued THEN "CANCELLED" ELSE ctx.cancel
  BY DEF ReceiveControl, ApsInv, Record, CtxFields, Keeps
<1>3. /\ h' = [h EXCEPT !.cancelled = h'.cancelled]
      /\ h'.cancelled = (h.cancelled \/ (ends /\ ctx.queued))
  BY DEF ReceiveControl, ApsInv, History
<1>4. /\ h'.cancelled \in BOOLEAN /\ (h.cancelled => h'.cancelled)
      /\ (ends /\ ctx.queued => h'.cancelled)
  BY <1>3
<1>5. ctx'.ready \in BOOLEAN /\ (ctx'.ready => ctx.ready)
  BY <1>2
<1>6. Record(ctx)'
  BY <1>2, <1>5 DEF ApsInv, Record, Keeps
<1>7. Keeps(ctx', [ctx EXCEPT !.stopping = ctx'.stopping])
  BY <1>2 DEF Keeps, ApsInv, Record, CtxFields
<1>8. ctx'.stopping = ctx.stopping
  BY <1>2 DEF Keeps
<1> QED
  BY <1>1, <1>2, <1>3, <1>4, <1>5, <1>6, <1>7, <1>8, CancelKeeps

\* A frame the key owner could not accept closes the transport.
LEMMA ReceiveFailsKeeps == ASSUME ApsInv, ReceiveFails PROVE ApsInv'
<1>1. /\ Record(ctx)' /\ Keeps(ctx', ctx)
      /\ ctx'.queued = ctx.queued /\ ctx'.waiting = ctx.waiting
      /\ ctx'.completed = ctx.completed /\ ctx'.cancel_sent = ctx.cancel_sent
      /\ ctx'.ready = FALSE /\ ctx'.cancel = ctx.cancel
  BY DEF ReceiveFails, ApsInv, Record, CtxFields, Keeps
<1>2. ~ctx.stopping /\ UNCHANGED <<slot, adapter, h>>
  BY DEF ReceiveFails, CanReceive
<1>3. History' /\ Transaction(ctx)' /\ Told(ctx)'
  BY <1>1, <1>2 DEF ApsInv, History, Transaction, Told, Keeps
<1>4. SlotFits' /\ CancelSent' /\ ShutOff' /\ Prepared'
  BY <1>1, <1>2 DEF ApsInv, SlotFits, CancelSent, ShutOff, Prepared, Cancelling, Keeps
<1> QED
  BY <1>1, <1>3, <1>4 DEF ApsInv

\* An acknowledgement that matches the transaction is the peer's for it.
LEMMA ReceiveAckKeeps ==
  ASSUME ApsInv, NEW n \in h.acks, ReceiveAck(n)
  PROVE  ApsInv'
<1>1. h.transaction \in h.acks /\ UNCHANGED <<slot, adapter, h>>
  BY DEF ReceiveAck, Matches
<1>2. /\ ctx' = [f \in CtxFields |-> ctx'[f]] /\ ctx'.seen_ack = TRUE
      /\ ctx'.kind = ctx.kind /\ ctx'.active = ctx.active /\ ctx'.armed = ctx.armed
      /\ ctx'.disarmed = ctx.disarmed /\ ctx'.stopping = ctx.stopping
      /\ ctx'.queued = ctx.queued /\ ctx'.waiting = ctx.waiting
      /\ ctx'.completed = ctx.completed /\ ctx'.cancel = ctx.cancel
      /\ ctx'.cancel_sent = ctx.cancel_sent /\ ctx'.ready = ctx.ready
  BY DEF ReceiveAck, ApsInv, Record, CtxFields
<1>3. Record(ctx)'
  BY <1>2 DEF ApsInv, Record
<1>4. History' /\ Transaction(ctx)' /\ Told(ctx)'
  BY <1>1, <1>2 DEF ApsInv, History, Transaction, Told
<1>5. SlotFits' /\ CancelSent' /\ ShutOff' /\ Prepared'
  BY <1>1, <1>2 DEF ApsInv, SlotFits, CancelSent, ShutOff, Prepared, Cancelling
<1> QED
  BY <1>3, <1>4, <1>5 DEF ApsInv

\* The peer acknowledges what was on the air; the deadlines pass.
LEMMA WorldKeeps == ASSUME ApsInv, World PROVE ApsInv'
<1>1. CASE PeerAcks
  <2>1. /\ h' = [f \in {"transaction", "confirmed", "onair", "quiet", "cancelled", "acks"}
                   |-> h'[f]]
        /\ h'.transaction = h.transaction /\ h'.confirmed = h.confirmed
        /\ h'.onair = h.onair /\ h'.quiet = h.quiet /\ h'.cancelled = h.cancelled
        /\ h'.acks = h.acks \cup {h.transaction}
    BY <1>1 DEF PeerAcks, ApsInv, History
  <2>2. UNCHANGED <<ctx, slot, adapter>>
    BY <1>1 DEF PeerAcks
  <2>3. Record(ctx)' /\ History'
    BY <2>1, <2>2 DEF ApsInv, History, Record
  <2>4. Transaction(ctx)' /\ Told(ctx)'
    BY <2>1, <2>2 DEF ApsInv, Transaction, Told
  <2>5. SlotFits' /\ CancelSent' /\ ShutOff' /\ Prepared'
    BY <2>1, <2>2 DEF ApsInv, SlotFits, CancelSent, ShutOff, Prepared, Cancelling
  <2> QED
    BY <2>3, <2>4, <2>5 DEF ApsInv
<1>2. CASE AckTimeout \/ TransactionTimeout
  <2>1. UNCHANGED <<ctx, slot, adapter, h>>
    BY <1>2 DEF AckTimeout, TransactionTimeout
  <2>2. Alike(ctx', ctx)
    BY <2>1 DEF ApsInv, Alike, Keeps
  <2> QED
    BY <2>1, <2>2, AlikeKeeps
<1> QED
  BY <1>1, <1>2 DEF World

-----------------------------------------------------------------------------
(* The ARM and DISARM handshakes                                           *)

\* A change of the adapter that fits the slot.
LEMMA AdapterKeeps ==
  ASSUME ApsInv, Prepared', UNCHANGED <<ctx, slot, h>>
  PROVE  ApsInv'
<1>1. Record(ctx)' /\ History' /\ Transaction(ctx)' /\ Told(ctx)'
  BY DEF ApsInv, Record, History, Transaction, Told
<1>2. SlotFits' /\ CancelSent' /\ ShutOff'
  BY DEF ApsInv, SlotFits, CancelSent, Cancelling, ShutOff
<1> QED
  BY <1>1, <1>2 DEF ApsInv

\* The adapter takes the attempt it was armed for.
LEMMA AdapterPreparesKeeps == ASSUME ApsInv, AdapterPrepares PROVE ApsInv'
<1>1. adapter.request = "arm" /\ UNCHANGED <<ctx, slot, h>>
  BY DEF AdapterPrepares
<1>2. /\ adapter' = [f \in {"request", "prepared", "reports"} |-> adapter'[f]]
      /\ adapter'.request = "none" /\ adapter'.prepared = "current"
      /\ adapter'.reports = adapter.reports \cup {Report("arm")}
  BY DEF AdapterPrepares
<1>3. /\ Report("arm") = [f \in {"kind", "current"} |-> Report("arm")[f]]
      /\ Report("arm").kind = "arm"
  BY DEF Report
<1>4. ~ctx.disarmed /\ slot.phase \notin {"IDLE", "DONE"}
  BY <1>1 DEF ApsInv, Prepared
<1>5. \A r \in adapter.reports : r.current => r.kind # "disarm"
  BY <1>1 DEF ApsInv, Prepared
<1>6. Prepared'
  BY <1>1, <1>2, <1>3, <1>4, <1>5 DEF ApsInv, Prepared, Cancelling
<1> QED
  BY <1>1, <1>6, AdapterKeeps

\* The adapter gives back what it held for the slot.
LEMMA AdapterRetiresKeeps == ASSUME ApsInv, AdapterRetires PROVE ApsInv'
<1>1. adapter.request = "disarm" /\ UNCHANGED <<ctx, slot, h>>
  BY DEF AdapterRetires
<1>2. /\ adapter' = [f \in {"request", "prepared", "reports"} |-> adapter'[f]]
      /\ adapter'.request = "none" /\ adapter'.prepared = "none"
      /\ adapter'.reports = adapter.reports \cup {Report("disarm")}
  BY DEF AdapterRetires
<1>3. /\ Report("disarm") = [f \in {"kind", "current"} |-> Report("disarm")[f]]
      /\ Report("disarm").kind = "disarm"
  BY DEF Report
<1>4. slot.phase = "DONE"
  BY <1>1 DEF ApsInv, Prepared
<1>5. Prepared'
  BY <1>1, <1>2, <1>3, <1>4 DEF ApsInv, Prepared, Cancelling
<1> QED
  BY <1>1, <1>5, AdapterKeeps

\* nwk_aps_armed and nwk_aps_disarmed take only reports of this attempt.
LEMMA ArmedKeeps ==
  ASSUME ApsInv, NEW r \in adapter.reports, Armed(r) \/ Disarmed(r)
  PROVE  ApsInv'
<1> DEFINE Same == /\ ctx' = [f \in CtxFields |-> ctx'[f]]
                   /\ ctx'.kind = ctx.kind /\ ctx'.seen_ack = ctx.seen_ack
                   /\ ctx'.active = ctx.active /\ ctx'.stopping = ctx.stopping
                   /\ ctx'.queued = ctx.queued /\ ctx'.waiting = ctx.waiting
                   /\ ctx'.completed = ctx.completed /\ ctx'.cancel = ctx.cancel
                   /\ ctx'.cancel_sent = ctx.cancel_sent /\ ctx'.ready = ctx.ready
<1>1. CASE Armed(r)
  <2>1. r.kind = "arm" /\ r.current /\ slot.phase = "DRAW" /\ UNCHANGED <<slot, adapter, h>>
    BY <1>1 DEF Armed, Names
  <2>2. Same /\ ctx'.armed = TRUE /\ ctx'.disarmed = ctx.disarmed
    BY <1>1 DEF Armed, ApsInv, Record, CtxFields
  <2>3. adapter.prepared = "current"
    BY <2>1 DEF ApsInv, Prepared
  <2>4. Record(ctx)'
    BY <2>2 DEF ApsInv, Record
  <2>5. History' /\ Transaction(ctx)' /\ Told(ctx)'
    BY <2>1, <2>2 DEF ApsInv, History, Transaction, Told
  <2>6. SlotFits' /\ CancelSent' /\ ShutOff'
    BY <2>1, <2>2 DEF ApsInv, SlotFits, CancelSent, ShutOff, Cancelling
  <2>7. Prepared'
    BY <2>1, <2>2, <2>3 DEF ApsInv, Prepared
  <2> QED
    BY <2>4, <2>5, <2>6, <2>7 DEF ApsInv
<1>2. CASE Disarmed(r)
  <2>1. r.kind = "disarm" /\ r.current /\ slot.phase = "DONE"
        /\ UNCHANGED <<slot, adapter, h>>
    BY <1>2 DEF Disarmed, Names
  <2>2. Same /\ ctx'.armed = ctx.armed /\ ctx'.disarmed = TRUE
    BY <1>2 DEF Disarmed, ApsInv, Record, CtxFields
  <2>3. adapter.prepared = "none" /\ adapter.request = "none"
    BY <2>1 DEF ApsInv, Prepared
  <2>4. Record(ctx)'
    BY <2>2 DEF ApsInv, Record
  <2>5. History' /\ Transaction(ctx)' /\ Told(ctx)'
    BY <2>1, <2>2 DEF ApsInv, History, Transaction, Told
  <2>6. SlotFits' /\ CancelSent' /\ ShutOff'
    BY <2>1, <2>2 DEF ApsInv, SlotFits, CancelSent, ShutOff, Cancelling
  <2>7. Prepared'
    BY <2>1, <2>2, <2>3 DEF ApsInv, Prepared
  <2> QED
    BY <2>4, <2>5, <2>6, <2>7 DEF ApsInv
<1> QED
  BY <1>1, <1>2

-----------------------------------------------------------------------------
(* nwk_aps_step while a transmission holds the slot                        *)

\* arm() only touches the handshake.
LEMMA AskedArmIs ==
  ASSUME NEW c, Record(c)
  PROVE  LET n == AskedArm(c)
         IN /\ Record(n) /\ n.armed = FALSE /\ n.disarmed = FALSE
            /\ n.kind = c.kind /\ n.seen_ack = c.seen_ack /\ n.active = c.active
            /\ n.stopping = c.stopping /\ n.queued = c.queued /\ n.waiting = c.waiting
            /\ n.completed = c.completed /\ n.cancel = c.cancel
            /\ n.cancel_sent = c.cancel_sent /\ n.ready = c.ready
BY DEF AskedArm, Record, CtxFields

\* The transaction does not depend on the handshake or the readiness.
SameTransaction(n, c) ==
  /\ n.kind = c.kind /\ n.seen_ack = c.seen_ack /\ n.active = c.active
  /\ n.stopping = c.stopping /\ n.queued = c.queued /\ n.waiting = c.waiting
  /\ n.completed = c.completed /\ n.cancel = c.cancel

\* Transaction and Told depend on the transaction's own fields only.
LEMMA SameFits ==
  ASSUME NEW n, NEW c, SameTransaction(n, c), Transaction(c), Told(c)
  PROVE  Transaction(n) /\ Told(n)
BY DEF SameTransaction, Transaction, Told

\* The attempt waits for the adapter.
LEMMA StepUnarmedKeeps == ASSUME ApsInv, StepUnarmed PROVE ApsInv'
<1>1. Record(Timed) /\ Keeps(Timed, ctx) /\ Transaction(Timed) /\ Told(Timed)
      /\ Timed.cancel_sent = ctx.cancel_sent /\ Timed.ready = ctx.ready
  BY TimedIs, TimedFits DEF ApsInv
<1>2. slot.phase = "DRAW" /\ ~Timed.armed /\ UNCHANGED <<slot, h>>
  BY DEF StepUnarmed, Unarmed
<1>3. \/ ctx' = AskedArm(Timed) /\ adapter' = [adapter EXCEPT !.request = "arm"]
      \/ ctx' = Timed /\ UNCHANGED adapter
  BY DEF StepUnarmed
<1>4. /\ Record(ctx') /\ SameTransaction(ctx', Timed) /\ ~ctx'.armed
      /\ (ctx'.disarmed => ctx.disarmed)
      /\ ctx'.cancel_sent = ctx.cancel_sent /\ ctx'.ready = ctx.ready
      /\ ctx'.active = ctx.active /\ ctx'.stopping = ctx.stopping
  <2>1. CASE ctx' = AskedArm(Timed)
    BY <1>1, <2>1, AskedArmIs DEF SameTransaction, Keeps
  <2>2. CASE ctx' = Timed
    BY <1>1, <1>2, <2>2 DEF SameTransaction, Keeps
  <2> QED
    BY <1>3, <2>1, <2>2
<1>5. Transaction(ctx') /\ Told(ctx')
  BY <1>1, <1>4, SameFits
<1>6. Record(ctx)' /\ History' /\ Transaction(ctx)' /\ Told(ctx)'
  BY <1>2, <1>4, <1>5 DEF ApsInv, Record, History, Transaction, Told
<1>7. ~ctx.cancel_sent
  BY <1>2 DEF ApsInv, CancelSent
<1>8. SlotFits' /\ CancelSent' /\ ShutOff'
  BY <1>2, <1>4, <1>7 DEF ApsInv, SlotFits, CancelSent, ShutOff
<1>9. Prepared'
  <2>1. /\ adapter' = [f \in {"request", "prepared", "reports"} |-> adapter'[f]]
        /\ adapter'.request \in {"arm", adapter.request}
        /\ adapter'.prepared = adapter.prepared /\ adapter'.reports = adapter.reports
    BY <1>3 DEF ApsInv, Prepared
  <2>2. ~ctx.disarmed /\ \A r \in adapter.reports : r.current => r.kind # "disarm"
    BY <1>2 DEF ApsInv, Prepared
  <2> QED
    BY <1>2, <1>4, <2>1, <2>2 DEF ApsInv, Prepared
<1> QED
  BY <1>6, <1>8, <1>9 DEF ApsInv

\* What a poll of the MAC can make of its slot.
LEMMA PolledSlot ==
  ASSUME ApsInv, slot.phase \in {"DRAW", "BUSY", "STOPPING"}, NEW n \in Mac!Polled(slot)
  PROVE  /\ n.phase \in Mac!SlotPhases /\ n.phase # "IDLE" /\ n.outcome \in Mac!SlotOutcomes
         /\ Mac!Honest(n) /\ (n.retry => n.phase = "STOPPING")
         /\ n.phase \in {"STOPPING", "DONE"} => n.outcome # "NONE"
         /\ slot.phase = "STOPPING" /\ ~slot.retry => n.phase \notin {"DRAW", "BUSY"} /\ ~n.retry
<1>1. /\ n.phase \in Mac!SlotPhases /\ n.outcome \in Mac!SlotOutcomes /\ Mac!Honest(n)
      /\ n.retry => n.phase = "STOPPING" /\ n.outcome = "FAILED"
      /\ \/ n.phase = "FAULT" /\ n.outcome = "FAILED"
         \/ n.phase = "DRAW" /\ (slot.phase = "BUSY" \/ slot.retry) /\ n.outcome = "NONE"
         \/ n.phase = "BUSY" /\ slot.phase \in {"DRAW", "BUSY"} /\ n.outcome = "NONE"
         \/ n.phase = "STOPPING" /\ slot.phase = "BUSY" /\ n.outcome # "NONE"
         \/ /\ n.phase = "STOPPING" /\ slot.phase = "STOPPING"
            /\ n.outcome = slot.outcome /\ (n.retry => slot.retry)
         \/ n.phase = "DONE" /\ slot.phase \in {"DRAW", "BUSY"} /\ n.outcome = "FAILED"
         \/ n.phase = "DONE" /\ slot.phase = "STOPPING" /\ n.outcome = slot.outcome
  BY DEF Mac!Polled
<1>2. slot.phase = "STOPPING" => slot.outcome # "NONE"
  BY DEF ApsInv, SlotFits
<1> QED
  BY <1>1, <1>2

\* A poll of the MAC: the slot, the cancellation and the handshake move on
\* together.
LEMMA StepMacKeeps == ASSUME ApsInv, StepMac PROVE ApsInv'
<1>a. PICK event \in BOOLEAN :
        LET send == Cancelling(Timed) /\ ~Timed.cancel_sent /\ ~event
        IN \E n \in IF send THEN Mac!Cancelled(slot) ELSE Mac!Polled(slot) :
             /\ slot' = n
             /\ LET c == [Noted(Timed, n) EXCEPT !.cancel_sent = @ \/ send]
                IN \/ n.phase = "DRAW" /\ ~Cancelling(c) /\ ctx' = AskedArm(c) /\ NewAttempt("arm")
                   \/ n.phase = "DRAW" /\ Cancelling(c) /\ ctx' = c /\ NewAttempt("none")
                   \/ n.phase \in {"BUSY", "STOPPING"} /\ ctx' = c /\ UNCHANGED adapter
                   \/ n.phase = "FAULT" /\ ctx' = [c EXCEPT !.ready = FALSE] /\ UNCHANGED adapter
                   \/ /\ n.phase = "DONE" /\ ctx' = [c EXCEPT !.arm_issued = 2]
                      /\ adapter' = [adapter EXCEPT !.request = "disarm"]
             /\ h' = [h EXCEPT !.onair = @ \/ (ctx.active = "tx" /\ n.sent)]
  BY Zenon DEF StepMac
<1> DEFINE send == Cancelling(Timed) /\ ~Timed.cancel_sent /\ ~event
<1>1. PICK n \in IF send THEN Mac!Cancelled(slot) ELSE Mac!Polled(slot) :
        /\ slot' = n
        /\ LET c == [Noted(Timed, n) EXCEPT !.cancel_sent = @ \/ send]
           IN \/ n.phase = "DRAW" /\ ~Cancelling(c) /\ ctx' = AskedArm(c) /\ NewAttempt("arm")
              \/ n.phase = "DRAW" /\ Cancelling(c) /\ ctx' = c /\ NewAttempt("none")
              \/ n.phase \in {"BUSY", "STOPPING"} /\ ctx' = c /\ UNCHANGED adapter
              \/ n.phase = "FAULT" /\ ctx' = [c EXCEPT !.ready = FALSE] /\ UNCHANGED adapter
              \/ /\ n.phase = "DONE" /\ ctx' = [c EXCEPT !.arm_issued = 2]
                 /\ adapter' = [adapter EXCEPT !.request = "disarm"]
        /\ h' = [h EXCEPT !.onair = @ \/ (ctx.active = "tx" /\ n.sent)]
  BY <1>a, Zenon
<1>b. n \in Mac!Polled(slot) /\ (send => n \in Mac!Cancelled(slot))
  <2>1. n \in IF send THEN Mac!Cancelled(slot) ELSE Mac!Polled(slot)
    OBVIOUS
  <2>2. Mac!Cancelled(slot) \subseteq Mac!Polled(slot)
    BY DEF Mac!Cancelled
  <2> HIDE DEF send
  <2> QED
    BY <2>1, <2>2
<1> DEFINE m == Noted(Timed, n)
<1> DEFINE c == [m EXCEPT !.cancel_sent = @ \/ send]
<1>2. /\ Record(Timed) /\ Keeps(Timed, ctx) /\ Transaction(Timed) /\ Told(Timed)
      /\ Timed.cancel_sent = ctx.cancel_sent /\ Timed.ready = ctx.ready
  BY TimedIs, TimedFits DEF ApsInv
<1>3. ctx.active # "none" /\ slot.phase \in {"DRAW", "BUSY", "STOPPING"}
  BY DEF StepMac
<1>4. /\ n.phase \in Mac!SlotPhases /\ n.phase # "IDLE" /\ n.outcome \in Mac!SlotOutcomes
      /\ Mac!Honest(n) /\ (n.retry => n.phase = "STOPPING")
      /\ n.phase \in {"STOPPING", "DONE"} => n.outcome # "NONE"
      /\ slot.phase = "STOPPING" /\ ~slot.retry => n.phase \notin {"DRAW", "BUSY"} /\ ~n.retry
  BY <1>3, <1>b, PolledSlot
<1>5. send => n.phase \notin {"DRAW", "BUSY"} /\ ~n.retry
  BY <1>b DEF Mac!Cancelled
<1>6. slot' = n /\ h' = [h EXCEPT !.onair = @ \/ (ctx.active = "tx" /\ n.sent)]
  BY <1>1
<1>7. Record(m) /\ SameTransaction(m, Timed) /\ Keeps(m, Timed)
      /\ m.cancel_sent = Timed.cancel_sent /\ m.ready = Timed.ready
  <2>1. CASE m = Timed
    BY <1>2, <2>1 DEF SameTransaction, Keeps
  <2>2. CASE m = [Timed EXCEPT !.sent = TRUE]
    BY <1>2, <2>2 DEF Record, CtxFields, SameTransaction, Keeps
  <2> QED
    BY <2>1, <2>2 DEF Noted
<1>8. \/ n.phase = "DRAW" /\ ~Cancelling(c) /\ ctx' = AskedArm(c) /\ NewAttempt("arm")
      \/ n.phase = "DRAW" /\ Cancelling(c) /\ ctx' = c /\ NewAttempt("none")
      \/ n.phase \in {"BUSY", "STOPPING"} /\ ctx' = c /\ UNCHANGED adapter
      \/ n.phase = "FAULT" /\ ctx' = [c EXCEPT !.ready = FALSE] /\ UNCHANGED adapter
      \/ /\ n.phase = "DONE" /\ ctx' = [c EXCEPT !.arm_issued = 2]
         /\ adapter' = [adapter EXCEPT !.request = "disarm"]
  BY <1>1
<1> HIDE DEF send, m
<1>9. /\ Record(c) /\ SameTransaction(c, Timed) /\ Keeps(c, Timed)
      /\ c.cancel_sent = (ctx.cancel_sent \/ send) /\ c.ready = ctx.ready
  <2>1. /\ c = [f \in CtxFields |-> c[f]] /\ SameTransaction(c, m) /\ Keeps(c, m)
        /\ c.cancel_sent = (m.cancel_sent \/ send) /\ c.ready = m.ready
    BY <1>7 DEF Record, CtxFields, SameTransaction, Keeps
  <2> HIDE DEF c
  <2>2. c.cancel_sent \in BOOLEAN
    BY <2>1
  <2>3. Record(c)
    BY <1>7, <2>1, <2>2 DEF Record, SameTransaction, Keeps
  <2> QED
    BY <1>2, <1>7, <2>1, <2>3 DEF SameTransaction, Keeps
<1> HIDE DEF c
<1>10. /\ Record(ctx') /\ SameTransaction(ctx', Timed)
       /\ ctx'.cancel_sent = (ctx.cancel_sent \/ send)
       /\ ctx'.active = ctx.active /\ ctx'.stopping = ctx.stopping
       /\ (ctx'.ready => ctx.ready) /\ (n.phase = "FAULT" => ~ctx'.ready)
       /\ (ctx'.disarmed => ctx.disarmed)
       /\ n.phase = "DRAW" => ~ctx'.armed \/ Cancelling(ctx')
  <2>1. CASE n.phase = "DRAW" /\ ctx' = AskedArm(c)
    BY <1>2, <1>9, <2>1, AskedArmIs DEF SameTransaction, Keeps
  <2>2. CASE n.phase = "DRAW" /\ Cancelling(c) /\ ctx' = c
    BY <1>2, <1>9, <2>2 DEF SameTransaction, Keeps
  <2>3. CASE n.phase \in {"BUSY", "STOPPING"} /\ ctx' = c
    BY <1>2, <1>9, <2>3 DEF SameTransaction, Keeps
  <2>4. CASE n.phase = "FAULT" /\ ctx' = [c EXCEPT !.ready = FALSE]
    BY <1>2, <1>9, <2>4 DEF SameTransaction, Keeps, Record, CtxFields
  <2>5. CASE n.phase = "DONE" /\ ctx' = [c EXCEPT !.arm_issued = 2]
    BY <1>2, <1>9, <2>5 DEF SameTransaction, Keeps, Record, CtxFields
  <2> QED
    BY <1>8, <2>1, <2>2, <2>3, <2>4, <2>5
<1>11. Transaction(ctx') /\ Told(ctx')
  BY <1>2, <1>10, SameFits
<1>12. /\ h' = [f \in {"transaction", "confirmed", "onair", "quiet", "cancelled", "acks"}
                  |-> h'[f]]
       /\ h'.transaction = h.transaction /\ h'.confirmed = h.confirmed
       /\ h'.onair = (h.onair \/ (ctx.active = "tx" /\ n.sent))
       /\ h'.quiet = h.quiet /\ h'.cancelled = h.cancelled /\ h'.acks = h.acks
  BY <1>6 DEF ApsInv, History
<1>13. /\ h'.onair \in BOOLEAN /\ (h.onair => h'.onair)
       /\ (ctx.active = "tx" /\ n.sent => h'.onair)
  BY <1>12
<1>14. Record(ctx)' /\ History'
  BY <1>10, <1>12, <1>13 DEF ApsInv, Record, History
<1>15. Transaction(ctx)' /\ Told(ctx)'
  BY <1>11, <1>12, <1>13 DEF Transaction, Told
<1>16. SlotFits'
  BY <1>3, <1>4, <1>6, <1>10, <1>13 DEF SlotFits
<1>17. ShutOff'
  BY <1>3, <1>6, <1>10 DEF ApsInv, ShutOff
<1>18. CancelSent'
  <2>1. Cancelling(ctx) => Cancelling(ctx')
    <3>1. Cancelling(ctx) => Cancelling(Timed)
      BY TimedCancels DEF ApsInv
    <3> QED
      BY <1>10, <3>1 DEF Cancelling, SameTransaction
  <2>2. CASE ctx.cancel_sent
    <3>1. slot.phase = "STOPPING" /\ ~slot.retry /\ Cancelling(ctx)
      BY <1>3, <2>2 DEF ApsInv, CancelSent
    <3> QED
      BY <1>4, <1>6, <2>1, <3>1 DEF CancelSent, Cancelling
  <2>3. CASE send
    <3>1. Cancelling(ctx')
      BY <1>10, <2>3 DEF send, Cancelling, SameTransaction
    <3> QED
      BY <1>5, <1>6, <2>3, <3>1 DEF CancelSent, Cancelling
  <2>4. CASE ~ctx.cancel_sent /\ ~send
    BY <1>10, <2>4 DEF CancelSent
  <2> QED
    BY <2>2, <2>3, <2>4
<1>19. Prepared'
  <2>1. ~ctx.disarmed /\ ~ctx'.disarmed /\ adapter.request # "disarm"
    BY <1>3, <1>10 DEF ApsInv, Prepared
  <2>2. \A r \in adapter.reports : r = [f \in {"kind", "current"} |-> r[f]]
                                  /\ (r.current => r.kind # "disarm")
    BY <1>3 DEF ApsInv, Prepared
  <2>3. CASE n.phase = "DRAW"
    <3>1. \E request \in {"arm", "none"} : NewAttempt(request)
      BY <1>8, <2>3
    <3>2. /\ adapter' = [f \in {"request", "prepared", "reports"} |-> adapter'[f]]
          /\ adapter'.request \in {"arm", "none"}
          /\ adapter'.reports = {[r EXCEPT !.current = FALSE] : r \in adapter.reports}
      BY <3>1 DEF NewAttempt
    <3>3. \A r \in adapter'.reports : r = [f \in {"kind", "current"} |-> r[f]]
                                      /\ r.current = FALSE
      BY <2>2, <3>2
    <3> QED
      BY <1>6, <1>10, <2>1, <2>3, <3>2, <3>3 DEF Prepared, Cancelling
  <2>4. CASE n.phase \in {"BUSY", "STOPPING", "FAULT"}
    <3>1. UNCHANGED adapter
      BY <1>8, <2>4
    <3> QED
      BY <1>6, <2>1, <2>2, <2>4, <3>1 DEF ApsInv, Prepared
  <2>5. CASE n.phase = "DONE"
    <3>1. /\ adapter' = [f \in {"request", "prepared", "reports"} |-> adapter'[f]]
          /\ adapter'.request = "disarm" /\ adapter'.reports = adapter.reports
      BY <1>8, <2>5 DEF ApsInv, Prepared
    <3> QED
      BY <1>6, <2>1, <2>2, <2>5, <3>1 DEF Prepared
  <2> QED
    BY <1>4, <2>3, <2>4, <2>5 DEF Mac!SlotPhases
<1> QED
  BY <1>14, <1>15, <1>16, <1>17, <1>18, <1>19 DEF ApsInv

\* A finished or faulted slot is held.
LEMMA StepHeldKeeps == ASSUME ApsInv, StepHeld PROVE ApsInv'
<1>1. /\ Record(Timed) /\ Keeps(Timed, ctx) /\ Transaction(Timed) /\ Told(Timed)
      /\ Timed.cancel_sent = ctx.cancel_sent /\ Timed.ready = ctx.ready
  BY TimedIs, TimedFits DEF ApsInv
<1>2. slot.phase \in {"FAULT", "DONE"} /\ UNCHANGED <<slot, adapter, h>>
  BY DEF StepHeld
<1>3. /\ ctx' = [f \in CtxFields |-> ctx'[f]] /\ SameTransaction(ctx', Timed)
      /\ ctx'.cancel_sent = (ctx.cancel_sent \/ Cancelling(Timed))
      /\ ctx'.active = ctx.active /\ ctx'.stopping = ctx.stopping
      /\ ctx'.ready = ctx.ready /\ ctx'.armed = ctx.armed /\ ctx'.disarmed = ctx.disarmed
  BY <1>1 DEF StepHeld, Record, CtxFields, SameTransaction, Keeps
<1>4. ctx'.cancel_sent \in BOOLEAN
  BY <1>3
<1>5. Record(ctx')
  BY <1>1, <1>3, <1>4 DEF Record, SameTransaction, Keeps
<1>6. Transaction(ctx') /\ Told(ctx')
  BY <1>1, <1>3, SameFits
<1>7. Record(ctx)' /\ History' /\ Transaction(ctx)' /\ Told(ctx)'
  BY <1>2, <1>5, <1>6 DEF ApsInv, Record, History, Transaction, Told
<1>8. CancelSent'
  <2>1. Cancelling(ctx) => Cancelling(Timed)
    BY TimedCancels DEF ApsInv
  <2>2. Cancelling(Timed) => Cancelling(ctx')
    BY <1>3 DEF Cancelling, SameTransaction
  <2>3. ctx'.cancel_sent => Cancelling(ctx')
    BY <1>3, <2>1, <2>2 DEF ApsInv, CancelSent
  <2>4. ~slot.retry
    BY <1>2 DEF ApsInv, SlotFits
  <2> QED
    BY <1>2, <2>3, <2>4 DEF CancelSent, Cancelling
<1>9. SlotFits' /\ ShutOff'
  BY <1>2, <1>3 DEF ApsInv, SlotFits, ShutOff
<1>10. Prepared'
  BY <1>2, <1>3 DEF ApsInv, Prepared
<1> QED
  BY <1>7, <1>8, <1>9, <1>10 DEF ApsInv

\* The transaction after its frame.  Given up is given up even if the frame
\* was delivered, so OK is never told while a stop is under way.
LEMMA FinishedFits ==
  ASSUME ApsInv, NEW c, Record(c), Transaction(c), Told(c), c.active = "none",
         c.queued, ~c.waiting, slot.phase = "DONE", slot.sent => h.onair
  PROVE  LET n == Finished(c)
         IN /\ Record(n) /\ Transaction(n) /\ Told(n)
            /\ n.active = "none" /\ n.stopping = c.stopping /\ n.disarmed = c.disarmed
            /\ n.cancel_sent => c.cancel_sent /\ c.cancel = "no"
            /\ n.ready => c.ready \/ c.cancel = "no"
<1>1. CASE c.cancel # "no"
  <2>1. c.cancel \in Results /\ c.cancel # "OK" /\ (c.cancel = "CANCELLED" => h.cancelled)
    BY <1>1 DEF Record, Transaction, Results
  <2>2. Finished(c) = Complete(c, c.cancel)
    BY <1>1 DEF Finished
  <2> QED
    BY <1>1, <2>1, <2>2, CompleteIs, CompleteFits DEF ApsInv, Keeps
<1>2. CASE c.cancel = "no" /\ slot.outcome = "FAILED"
  <2>1. Finished(c) = Complete(c, "RADIO") /\ "RADIO" \in Results
    BY <1>2 DEF Finished, Results
  <2> QED
    BY <1>2, <2>1, CompleteIs, CompleteFits DEF ApsInv, Keeps
<1>3. CASE c.cancel = "no" /\ slot.outcome # "FAILED"
  <2>1. h.onair
    <3>1. slot.outcome \in {"ACKED", "UNACKNOWLEDGED"}
      BY <1>3 DEF ApsInv, SlotFits, Mac!SlotOutcomes
    <3> QED
      BY <3>1 DEF ApsInv, SlotFits, Mac!Honest
  <2>2. CASE c.kind = "ackapp" /\ ~c.seen_ack
    <3> DEFINE n == [c EXCEPT !.waiting = TRUE]
    <3>1. Finished(c) = n
      BY <1>3, <2>2 DEF Finished
    <3>2. /\ n = [f \in CtxFields |-> n[f]] /\ Keeps(n, c) /\ n.waiting = TRUE
          /\ n.queued = c.queued /\ n.completed = c.completed /\ n.cancel = c.cancel
          /\ n.cancel_sent = c.cancel_sent /\ n.ready = c.ready
      BY DEF Record, CtxFields, Keeps
    <3> HIDE DEF n
    <3>3. Record(n)
      BY <3>2 DEF Record, Keeps
    <3>4. Transaction(n)
      BY <2>1, <3>2 DEF Transaction, Keeps
    <3>5. Told(n)
      BY <3>2 DEF Told, Keeps
    <3> QED
      BY <1>3, <3>1, <3>2, <3>3, <3>4, <3>5 DEF Keeps
  <2>3. CASE ~(c.kind = "ackapp" /\ ~c.seen_ack)
    <3>1. Finished(c) = Complete(c, "OK") /\ "OK" \in Results
      BY <1>3, <2>3 DEF Finished, Results
    <3>2. h.onair /\ (c.kind = "ackapp" => h.transaction \in h.acks)
      BY <2>1, <2>3 DEF Transaction
    <3> QED
      BY <1>3, <3>1, <3>2, CompleteIs, CompleteFits DEF ApsInv, Keeps
  <2> QED
    BY <2>2, <2>3
<1> QED
  BY <1>1, <1>2, <1>3

\* The slot is released once the adapter holds nothing for it.
LEMMA StepFinishKeeps == ASSUME ApsInv, StepFinish PROVE ApsInv'
<1> DEFINE c == [Timed EXCEPT !.active = "none", !.armed = FALSE, !.arm_issued = 0,
                              !.cancel_sent = @ \/ Cancelling(Timed)]
<1>1. /\ Record(Timed) /\ Keeps(Timed, ctx) /\ Transaction(Timed) /\ Told(Timed)
      /\ Timed.queued = ctx.queued /\ Timed.waiting = ctx.waiting
      /\ Timed.cancel_sent = ctx.cancel_sent /\ Timed.ready = ctx.ready
  BY TimedIs, TimedFits DEF ApsInv
<1>2. /\ ctx.active # "none" /\ slot.phase = "DONE" /\ ctx.disarmed
      /\ slot' = Mac!EmptySlot /\ UNCHANGED <<adapter, h>>
      /\ \/ ctx.active = "ack" /\ ctx' = [c EXCEPT !.reply = FALSE, !.cancel_sent = FALSE]
         \/ ctx.active = "poll" /\ ctx' = c
         \/ ctx.active = "tx" /\ ctx' = Finished(c)
  <2>1. ctx.active \in {"ack", "poll", "tx"}
    BY DEF StepFinish, ApsInv, Record
  <2> QED
    BY <2>1 DEF StepFinish
<1>3. /\ Record(c) /\ c.active = "none" /\ c.armed = FALSE /\ c.disarmed = ctx.disarmed
      /\ c.stopping = ctx.stopping /\ c.ready = ctx.ready
      /\ c.kind = Timed.kind /\ c.seen_ack = Timed.seen_ack /\ c.queued = Timed.queued
      /\ c.waiting = Timed.waiting /\ c.completed = Timed.completed
      /\ c.cancel = Timed.cancel
      /\ c.cancel_sent = (ctx.cancel_sent \/ Cancelling(Timed))
  <2>1. /\ c = [f \in CtxFields |-> c[f]]
        /\ c.active = "none" /\ c.armed = FALSE /\ c.disarmed = ctx.disarmed
        /\ c.stopping = ctx.stopping /\ c.ready = ctx.ready
        /\ c.kind = Timed.kind /\ c.seen_ack = Timed.seen_ack /\ c.queued = Timed.queued
        /\ c.waiting = Timed.waiting /\ c.completed = Timed.completed
        /\ c.cancel = Timed.cancel
        /\ c.cancel_sent = (ctx.cancel_sent \/ Cancelling(Timed))
    BY <1>1 DEF Record, CtxFields, Keeps
  <2> HIDE DEF c
  <2>2. c.cancel_sent \in BOOLEAN
    BY <2>1
  <2>3. Record(c)
    BY <1>1, <2>1, <2>2 DEF Record, Keeps
  <2> QED
    BY <2>1, <2>3
<1> HIDE DEF c
<1>4. Transaction(c) /\ Told(c)
  BY <1>1, <1>3 DEF Transaction, Told, Keeps
<1>5. c.cancel_sent => c.stopping \/ (ctx.active = "tx" /\ c.cancel # "no")
  <2>1. Cancelling(ctx) => Cancelling(Timed)
    BY TimedCancels DEF ApsInv
  <2>2. c.cancel_sent => Cancelling(Timed)
    BY <1>3, <2>1 DEF ApsInv, CancelSent
  <2>3. Timed.stopping = ctx.stopping /\ Timed.active = ctx.active
    BY <1>1 DEF Keeps
  <2>4. Cancelling(Timed) => ctx.stopping \/ (ctx.active = "tx" /\ Timed.cancel # "no")
    BY <2>3 DEF Cancelling
  <2>5. c.stopping = ctx.stopping /\ c.cancel = Timed.cancel
    BY <1>3
  <2> QED
    BY <2>2, <2>4, <2>5
<1>6. /\ Record(ctx') /\ Transaction(ctx') /\ Told(ctx') /\ ctx'.active = "none"
      /\ ctx'.stopping = ctx.stopping /\ ctx'.disarmed = ctx.disarmed
      /\ (ctx'.cancel_sent => ctx'.stopping)
      /\ (ctx'.ready => ctx.ready \/ ~ctx.stopping)
  <2>1. CASE ctx.active = "ack" /\ ctx' = [c EXCEPT !.reply = FALSE, !.cancel_sent = FALSE]
    <3>1. /\ Record(ctx') /\ SameTransaction(ctx', c) /\ ctx'.disarmed = c.disarmed
          /\ ctx'.cancel_sent = FALSE /\ ctx'.ready = c.ready
      BY <1>3, <2>1 DEF Record, CtxFields, SameTransaction
    <3> QED
      BY <1>3, <1>4, <3>1, SameFits DEF SameTransaction
  <2>2. CASE ctx.active = "poll" /\ ctx' = c
    BY <1>3, <1>4, <1>5, <2>2
  <2>3. CASE ctx.active = "tx" /\ ctx' = Finished(c)
    <3>1. c.queued /\ ~c.waiting /\ (slot.sent => h.onair)
      BY <1>1, <1>3, <2>3 DEF ApsInv, Transaction, SlotFits
    <3>2. /\ Record(ctx') /\ Transaction(ctx') /\ Told(ctx') /\ ctx'.active = "none"
          /\ ctx'.stopping = c.stopping /\ ctx'.disarmed = c.disarmed
          /\ ctx'.cancel_sent => c.cancel_sent /\ c.cancel = "no"
          /\ ctx'.ready => c.ready \/ c.cancel = "no"
      BY <1>2, <1>3, <1>4, <2>3, <3>1, FinishedFits
    <3>3. c.cancel = "no" => ~c.stopping
      BY <1>4, <3>1 DEF Transaction
    <3> QED
      BY <1>3, <1>5, <3>2, <3>3
  <2> QED
    BY <1>2, <2>1, <2>2, <2>3
<1>7. Record(ctx)' /\ History' /\ Transaction(ctx)' /\ Told(ctx)'
  BY <1>2, <1>6 DEF ApsInv, Record, History, Transaction, Told
<1>8. /\ slot'.phase = "IDLE" /\ slot'.outcome = "NONE" /\ slot'.sent = FALSE
      /\ slot'.retry = FALSE
  BY <1>2 DEF Mac!EmptySlot
<1>9. SlotFits'
  BY <1>6, <1>8 DEF SlotFits, Mac!SlotPhases, Mac!SlotOutcomes, Mac!Honest
<1>10. CancelSent' /\ ShutOff'
  BY <1>6, <1>8 DEF ApsInv, CancelSent, Cancelling, ShutOff
<1>11. Prepared'
  BY <1>2, <1>8 DEF ApsInv, Prepared
<1> QED
  BY <1>7, <1>9, <1>10, <1>11 DEF ApsInv

-----------------------------------------------------------------------------
(* nwk_aps_step while the slot is free                                     *)

\* A free slot that stays free, with a record that fits.
LEMMA FreeKeeps ==
  ASSUME ApsInv, ctx.active = "none", Record(ctx'), Transaction(ctx)', Told(ctx)', History',
         ctx'.active = "none", ~ctx'.stopping, ~ctx'.cancel_sent,
         ctx'.disarmed = ctx.disarmed, UNCHANGED <<slot, adapter>>
  PROVE  ApsInv'
<1>1. slot.phase = "IDLE"
  BY DEF ApsInv, SlotFits
<1>2. SlotFits' /\ CancelSent' /\ ShutOff'
  BY <1>1 DEF ApsInv, SlotFits, CancelSent, ShutOff
<1>3. Prepared'
  BY <1>1 DEF ApsInv, Prepared
<1>4. Record(ctx)'
  BY DEF Record
<1> QED
  BY <1>2, <1>3, <1>4 DEF ApsInv

\* A stop drops what has not been started.
LEMMA StepStoppedKeeps == ASSUME ApsInv, StepStopped PROVE ApsInv'
<1> DEFINE c == IF ctx.queued THEN Complete(ctx, "CANCELLED") ELSE ctx
<1>1. ctx.active = "none" /\ ctx.stopping /\ UNCHANGED <<slot, adapter, h>>
  BY DEF StepStopped
<1>2. /\ Record(c) /\ Transaction(c) /\ Told(c) /\ Keeps(c, ctx) /\ ~c.queued
  <2>1. CASE ctx.queued
    <3>1. h.cancelled /\ "CANCELLED" \in Results
      BY <1>1, <2>1 DEF ApsInv, Transaction, Results
    <3> QED
      BY <1>1, <2>1, <3>1, CompleteIs, CompleteFits DEF ApsInv
  <2>2. CASE ~ctx.queued
    BY <2>2 DEF ApsInv, Keeps
  <2> QED
    BY <2>1, <2>2
<1>3. ctx' = [c EXCEPT !.reply = FALSE, !.poll = FALSE, !.stopping = FALSE,
                       !.cancel = "no", !.cancel_sent = FALSE]
  BY DEF StepStopped
<1> HIDE DEF c
<1>4. /\ Record(ctx') /\ ctx'.kind = c.kind /\ ctx'.seen_ack = c.seen_ack
      /\ ctx'.active = c.active /\ ctx'.armed = c.armed /\ ctx'.disarmed = c.disarmed
      /\ ctx'.stopping = FALSE /\ ctx'.cancel = "no" /\ ctx'.cancel_sent = FALSE
      /\ ctx'.queued = c.queued /\ ctx'.waiting = c.waiting /\ ctx'.completed = c.completed
  BY <1>2, <1>3 DEF Record, CtxFields
<1>5. Transaction(ctx)' /\ Told(ctx)' /\ History'
  BY <1>1, <1>2, <1>4 DEF ApsInv, Transaction, Told, History
<1> QED
  BY <1>1, <1>2, <1>4, <1>5, FreeKeeps DEF Keeps

\* The settled record, as the four steps on a free slot use it.
LEMMA SettledStep ==
  ASSUME ApsInv, Free
  PROVE  LET c == Settled(Timed)
         IN /\ Record(c) /\ Transaction(c) /\ Told(c)
            /\ c.active = "none" /\ ~c.stopping /\ ~c.cancel_sent
            /\ c.armed = ctx.armed /\ c.disarmed = ctx.disarmed
BY SettledFits DEF ApsInv

\* A poll with nothing to do.
LEMMA StepRestKeeps == ASSUME ApsInv, StepRest PROVE ApsInv'
<1>1. Free /\ ctx' = Settled(Timed) /\ UNCHANGED <<slot, adapter, h>>
  BY DEF StepRest
<1>2. /\ Record(ctx') /\ Transaction(ctx') /\ Told(ctx') /\ ctx'.active = "none"
      /\ ~ctx'.stopping /\ ~ctx'.cancel_sent /\ ctx'.disarmed = ctx.disarmed
  BY <1>1, SettledStep
<1>3. Transaction(ctx)' /\ Told(ctx)' /\ History'
  BY <1>1, <1>2 DEF ApsInv, Transaction, Told, History
<1> QED
  BY <1>1, <1>2, <1>3, FreeKeeps DEF Free

\* What the MAC refuses: a transaction ends in an error, a poll is dropped.
LEMMA StepRefusedKeeps == ASSUME ApsInv, StepRefused PROVE ApsInv'
<1> DEFINE c == Settled(Timed)
<1>1. /\ Free /\ Choice(c) # "none" /\ UNCHANGED <<slot, adapter, h>>
      /\ ctx' = CASE Choice(c) = "ack"  -> c
                  [] Choice(c) = "tx"   -> Complete(c, "ERROR")
                  [] Choice(c) = "poll" -> [c EXCEPT !.poll = FALSE]
  BY DEF StepRefused
<1>2. /\ Record(c) /\ Transaction(c) /\ Told(c) /\ c.active = "none"
      /\ ~c.stopping /\ ~c.cancel_sent /\ c.disarmed = ctx.disarmed
  BY <1>1, SettledStep
<1> HIDE DEF c
<1>3. Choice(c) \in {"ack", "tx", "poll"} /\ (Choice(c) = "tx" => c.queued)
  BY <1>1 DEF Choice
<1>4. /\ Record(ctx') /\ Transaction(ctx') /\ Told(ctx') /\ ctx'.active = "none"
      /\ ~ctx'.stopping /\ ~ctx'.cancel_sent /\ ctx'.disarmed = ctx.disarmed
  <2>1. CASE Choice(c) = "ack"
    BY <1>1, <1>2, <2>1
  <2>2. CASE Choice(c) = "tx"
    <3>1. ctx' = Complete(c, "ERROR") /\ "ERROR" \in Results /\ c.queued
      BY <1>1, <1>3, <2>2 DEF Results
    <3> QED
      BY <1>2, <3>1, CompleteIs, CompleteFits DEF ApsInv, Keeps
  <2>3. CASE Choice(c) = "poll"
    <3>1. ctx' = [c EXCEPT !.poll = FALSE]
      BY <1>1, <2>3
    <3>2. /\ Record(ctx') /\ SameTransaction(ctx', c)
          /\ ctx'.cancel_sent = c.cancel_sent /\ ctx'.disarmed = c.disarmed
      BY <1>2, <3>1 DEF Record, CtxFields, SameTransaction
    <3> QED
      BY <1>2, <3>2, SameFits DEF SameTransaction
  <2> QED
    BY <1>3, <2>1, <2>2, <2>3
<1>5. Transaction(ctx)' /\ Told(ctx)' /\ History'
  BY <1>1, <1>4 DEF ApsInv, Transaction, Told, History
<1> QED
  BY <1>1, <1>4, <1>5, FreeKeeps DEF Free

\* A leave that needs no frame on the air is completed at once.
LEMMA StepQuietLeaveKeeps == ASSUME ApsInv, StepQuietLeave PROVE ApsInv'
<1> DEFINE c == Settled(Timed)
<1> DEFINE n == Complete(c, "OK")
<1>1. /\ Free /\ Choice(c) = "tx" /\ ctx' = n /\ UNCHANGED <<slot, adapter>>
      /\ h' = [h EXCEPT !.quiet = TRUE]
  BY DEF StepQuietLeave
<1>2. /\ Record(c) /\ Transaction(c) /\ Told(c) /\ c.active = "none"
      /\ ~c.stopping /\ ~c.cancel_sent /\ c.disarmed = ctx.disarmed
  BY <1>1, SettledStep
<1> HIDE DEF c
<1>3. c.queued /\ "OK" \in Results
  BY <1>1 DEF Choice, Results
<1>4. /\ Record(n) /\ Keeps(n, c) /\ ~n.queued /\ ~n.waiting /\ n.completed = "OK"
      /\ n.cancel = "no" /\ ~n.cancel_sent
  BY <1>2, <1>3, CompleteIs
<1> HIDE DEF n
<1>5. /\ h' = [f \in {"transaction", "confirmed", "onair", "quiet", "cancelled", "acks"}
                 |-> h'[f]]
      /\ h'.transaction = h.transaction /\ h'.confirmed = h.confirmed
      /\ h'.onair = h.onair /\ h'.quiet = TRUE /\ h'.cancelled = h.cancelled
      /\ h'.acks = h.acks
  BY <1>1 DEF ApsInv, History
<1>6. History'
  BY <1>5 DEF ApsInv, History
<1>7. Transaction(ctx)'
  BY <1>1, <1>2, <1>4 DEF Transaction, Keeps
<1>8. c.completed = "no"
  BY <1>2, <1>3 DEF Transaction
<1>9. h'.transaction = h'.confirmed + (IF ctx'.queued THEN 1 ELSE 0)
                                    + (IF ctx'.completed # "no" THEN 1 ELSE 0)
  BY <1>1, <1>2, <1>3, <1>4, <1>5, <1>8 DEF Told, ApsInv, History
<1>10. Told(ctx)'
  BY <1>1, <1>4, <1>5, <1>9 DEF Told
<1>11. ctx'.active = "none" /\ ~ctx'.stopping /\ ctx'.disarmed = ctx.disarmed
  BY <1>1, <1>2, <1>4 DEF Keeps
<1> QED
  BY <1>1, <1>4, <1>6, <1>7, <1>10, <1>11, FreeKeeps DEF Free

\* A frame is handed to the free MAC slot as a new attempt.
LEMMA StepTransmitKeeps == ASSUME ApsInv, StepTransmit PROVE ApsInv'
<1> DEFINE c == Settled(Timed)
<1> DEFINE what == Choice(c)
<1> DEFINE d == [c EXCEPT !.active = what, !.poll = @ /\ what # "poll",
                          !.sent = @ /\ what # "tx"]
<1>1. /\ Free /\ what # "none" /\ UNCHANGED h /\ NewAttempt("arm")
      /\ slot' = Mac!Accepted(what # "tx" \/ MacAck(c.kind))
      /\ ctx' = AskedArm(d)
  BY DEF StepTransmit
<1>2. /\ Record(c) /\ Transaction(c) /\ Told(c) /\ c.active = "none"
      /\ ~c.stopping /\ ~c.cancel_sent /\ c.disarmed = ctx.disarmed
  BY <1>1, SettledStep
<1> HIDE DEF c
<1>3. what \in {"ack", "tx", "poll"} /\ (what = "tx" => c.queued /\ ~c.waiting)
  BY <1>1 DEF Choice
<1> HIDE DEF what
<1>4. /\ Record(d) /\ d.active = what /\ d.kind = c.kind /\ d.seen_ack = c.seen_ack
      /\ d.stopping = c.stopping /\ d.queued = c.queued /\ d.waiting = c.waiting
      /\ d.completed = c.completed /\ d.cancel = c.cancel /\ d.cancel_sent = c.cancel_sent
  BY <1>2, <1>3 DEF Record, CtxFields
<1> HIDE DEF d
<1>5. /\ Record(ctx') /\ ctx'.active = what /\ ctx'.kind = c.kind
      /\ ctx'.seen_ack = c.seen_ack /\ ctx'.stopping = c.stopping
      /\ ctx'.queued = c.queued /\ ctx'.waiting = c.waiting
      /\ ctx'.completed = c.completed /\ ctx'.cancel = c.cancel
      /\ ctx'.cancel_sent = c.cancel_sent /\ ctx'.armed = FALSE /\ ctx'.disarmed = FALSE
  BY <1>1, <1>4, AskedArmIs
<1>6. Record(ctx)' /\ History'
  BY <1>1, <1>5 DEF ApsInv, Record, History
<1>7. Transaction(ctx)' /\ Told(ctx)'
  BY <1>1, <1>2, <1>3, <1>5 DEF Transaction, Told
<1>8. /\ slot'.phase = "DRAW" /\ slot'.outcome = "NONE" /\ slot'.sent = FALSE
      /\ slot'.retry = FALSE
  BY <1>1 DEF Mac!Accepted, Mac!EmptySlot
<1>9. SlotFits'
  BY <1>3, <1>5, <1>8 DEF SlotFits, Mac!SlotPhases, Mac!SlotOutcomes, Mac!Honest
<1>10. CancelSent' /\ ShutOff'
  BY <1>2, <1>5, <1>8 DEF CancelSent, ShutOff
<1>11. Prepared'
  <2>1. /\ adapter' = [f \in {"request", "prepared", "reports"} |-> adapter'[f]]
        /\ adapter'.request = "arm"
        /\ adapter'.reports = {[r EXCEPT !.current = FALSE] : r \in adapter.reports}
    BY <1>1 DEF NewAttempt
  <2>2. \A r \in adapter.reports : r = [f \in {"kind", "current"} |-> r[f]]
    BY DEF ApsInv, Prepared
  <2>3. \A r \in adapter'.reports : r = [f \in {"kind", "current"} |-> r[f]]
                                    /\ r.current = FALSE
    BY <2>1, <2>2
  <2> QED
    BY <1>5, <1>8, <2>1, <2>3 DEF Prepared
<1> QED
  BY <1>6, <1>7, <1>9, <1>10, <1>11 DEF ApsInv

-----------------------------------------------------------------------------
(* The theorems                                                            *)

\* The initial state satisfies the invariant.
LEMMA InitHolds == Init => ApsInv
<1> SUFFICES ASSUME Init PROVE ApsInv
  OBVIOUS
<1>1. Record(ctx)
  BY ApsConstants DEF Init, Record, CtxFields, Results
<1>2. History
  BY DEF Init, History
<1>3. Transaction(ctx) /\ Told(ctx)
  BY DEF Init, Transaction, Told
<1>4. slot.phase = "IDLE" /\ slot.outcome = "NONE" /\ slot.sent = FALSE /\ slot.retry = FALSE
  BY DEF Init, Mac!EmptySlot
<1>5. SlotFits /\ CancelSent /\ ShutOff /\ Prepared
  BY <1>4 DEF Init, SlotFits, CancelSent, ShutOff, Prepared, Mac!SlotPhases,
     Mac!SlotOutcomes, Mac!Honest
<1> QED
  BY <1>1, <1>2, <1>3, <1>5 DEF ApsInv

\* Every step, and a stuttering one, preserves it.
LEMMA NextKeeps == ApsInv /\ [Next]_apsVars => ApsInv'
<1> SUFFICES ASSUME ApsInv, [Next]_apsVars PROVE ApsInv'
  OBVIOUS
<1>1. CASE Requests
  BY <1>1, QueueKeeps, PollTakeKeep, CancelCallKeeps, StopCallKeeps, ConfirmKeeps
  DEF Requests
<1>2. CASE Step
  BY <1>2, StepUnarmedKeeps, StepMacKeeps, StepHeldKeeps, StepFinishKeeps, StepStoppedKeeps,
     StepRestKeeps, StepTransmitKeeps, StepRefusedKeeps, StepQuietLeaveKeeps DEF Step
<1>3. CASE Receive
  BY <1>3, ReceiveDataKeeps, ReceiveControlKeeps, ReceiveAckKeeps, ReceiveFailsKeeps
  DEF Receive
<1>4. CASE Driver
  BY <1>4, AdapterPreparesKeeps, AdapterRetiresKeeps, ArmedKeeps DEF Driver
<1>5. CASE World
  BY <1>5, WorldKeeps
<1>6. CASE UNCHANGED apsVars
  <2>1. UNCHANGED <<ctx, slot, adapter, h>> /\ Alike(ctx', ctx)
    BY <1>6 DEF apsVars, ApsInv, Alike, Keeps
  <2> QED
    BY <2>1, AlikeKeeps
<1> QED
  BY <1>1, <1>2, <1>3, <1>4, <1>5, <1>6 DEF Next

\* The invariant is inductive.
THEOREM ApsInductive == Spec => []ApsInv
BY InitHolds, NextKeeps, PTL DEF Spec

\* What nwk_aps_confirm tells the caller is true (ConfirmIsTrue): OK for what
\* was delivered, CANCELLED for what was cancelled, one answer per request.
THEOREM ConfirmsAreTrue == Spec => []ConfirmIsTrue
<1>1. ApsInv => ConfirmIsTrue
  BY DEF ApsInv, Told, ConfirmIsTrue, OkMeansDelivered, CancelledWasAsked, AnsweredOnce
<1> QED
  BY <1>1, ApsInductive, PTL

\* Application traffic is shut off during a stop and after a MAC fault
\* (ShutOff), even with the permit that would open it in flight.
THEOREM TrafficShutOff == Spec => []ShutOff
<1>1. ApsInv => ShutOff
  BY DEF ApsInv
<1> QED
  BY <1>1, ApsInductive, PTL

\* The MAC starts only attempts the adapter is prepared for, and a slot is
\* released only when the adapter holds nothing for it (AdapterInStep).
THEOREM AdapterKeepsStep == Spec => AdapterInStep
<1> DEFINE InStep ==
      /\ slot.phase = "DRAW" /\ slot'.phase = "BUSY" => adapter.prepared = "current"
      /\ slot.phase = "DONE" /\ slot'.phase = "IDLE" => adapter.prepared = "none"
<1>1. ASSUME ApsInv, Next PROVE InStep
  <2>1. CASE StepMac
    <3>1. PICK event \in BOOLEAN :
            /\ event => slot.phase # "DRAW"
            /\ LET send == Cancelling(Timed) /\ ~Timed.cancel_sent /\ ~event
               IN \E n \in IF send THEN Mac!Cancelled(slot) ELSE Mac!Polled(slot) :
                    /\ Unarmed(Timed) => n.phase \in {"DONE", "FAULT"}
                    /\ slot' = n
      BY <2>1, Zenon DEF StepMac
    <3> DEFINE send == Cancelling(Timed) /\ ~Timed.cancel_sent /\ ~event
    <3>2. (Unarmed(Timed) => slot'.phase \in {"DONE", "FAULT"})
          /\ slot' \in IF send THEN Mac!Cancelled(slot) ELSE Mac!Polled(slot)
      BY <3>1
    <3> HIDE DEF send
    <3>3. send => slot'.phase # "BUSY"
      BY <3>2 DEF Mac!Cancelled
    <3>4. slot.phase = "DRAW" /\ Cancelling(Timed) => send
      BY <1>1, <3>1, TimedIs DEF send, ApsInv, CancelSent
    <3>5. slot.phase = "DRAW" /\ slot'.phase = "BUSY" => adapter.prepared = "current"
      <4> SUFFICES ASSUME slot.phase = "DRAW", slot'.phase = "BUSY"
                   PROVE  adapter.prepared = "current"
        OBVIOUS
      <4>1. ~Cancelling(Timed) /\ ~Cancelling(ctx)
        BY <1>1, <3>3, <3>4, TimedCancels DEF ApsInv
      <4>2. Timed.armed
        BY <3>2, <4>1 DEF Unarmed
      <4>3. ctx.armed
        BY <1>1, <4>2, TimedIs DEF ApsInv, Keeps
      <4> QED
        BY <1>1, <4>1, <4>3 DEF ApsInv, Prepared
    <3> QED
      BY <2>1, <3>5 DEF StepMac
  <2>2. CASE StepFinish
    BY <1>1, <2>2 DEF StepFinish, ApsInv, Prepared
  <2>3. CASE StepTransmit
    <3>1. slot.phase = "IDLE"
      BY <1>1, <2>3 DEF StepTransmit, Free, ApsInv, SlotFits
    <3> QED
      BY <3>1
  <2>4. CASE UNCHANGED slot
    BY <2>4
  <2>5. UNCHANGED slot \/ StepMac \/ StepFinish \/ StepTransmit
    BY <1>1 DEF Next, Requests, Step, Receive, Driver, World, Queue, Poll, Cancel, StopCall,
       Take, Confirm, StepUnarmed, StepHeld, StepStopped, StepRest, StepRefused,
       StepQuietLeave, ReceiveData, ReceiveControl, ReceiveAck, ReceiveFails,
       AdapterPrepares, AdapterRetires, Armed, Disarmed, PeerAcks, AckTimeout,
       TransactionTimeout
  <2> QED
    BY <2>1, <2>2, <2>3, <2>4, <2>5
<1>2. ApsInv /\ [Next]_apsVars => [InStep]_apsVars
  BY <1>1
<1> QED
  BY <1>2, ApsInductive, PTL DEF Spec, AdapterInStep
=============================================================================
