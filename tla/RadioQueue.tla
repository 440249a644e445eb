----------------------------- MODULE RadioQueue -----------------------------
(* radio_queue.c: requests to listen, published by interrupt handlers or the   *)
(* foreground, served one at a time by the foreground into two frame slots,    *)
(* and one frame waiting to be sent.                                           *)
EXTENDS Integers, Sequences

CONSTANTS
  EVENTS,       \* RADIO_QUEUE_EVENTS
  WRAP,         \* event_head and event_tail count modulo this, 256 in the code
  SAT,          \* where the loss counters stick, 255 in the code
  MaxRequests   \* bound: requests made in a behaviour

QueueConstants ==
  /\ EVENTS \in Nat \ {0} /\ WRAP \in Nat /\ WRAP > EVENTS /\ WRAP % EVENTS = 0
  /\ SAT \in Nat \ {0} /\ MaxRequests \in Nat
ASSUME QueueAssumption == QueueConstants

VARIABLES
  queue_fault,                     \* radio_queue_fault
  event_head, event_tail, events,  \* ring of cookies
  dropped, cancelled, bad_crc,
  rx_head, rx_tail, rx_count, rx,  \* two received frames
  tx_count,                        \* the frame to send, 0 when there is none
  ien,                             \* interrupts enabled
  seen,                            \* count read by a service in progress, -1 none
  made, owed, kept                 \* history: cookies made, accepted, frames unread

counters == <<dropped, cancelled, bad_crc>>
slots == <<rx_head, rx_tail, rx_count, rx>>
qvars == <<queue_fault, event_head, event_tail, events, counters, slots, tx_count, ien, seen,
           made, owed, kept>>

RX_SLOTS == 2
Bump(n, by) == IF n + by > SAT THEN SAT ELSE n + by
Pending == (event_head - event_tail) % WRAP
RxValid == rx_count <= RX_SLOTS /\ rx_tail = (rx_head + rx_count) % RX_SLOTS
Waiting == [i \in 1..Pending |-> events[(event_tail + i - 1) % EVENTS]]
Frames == [i \in 1..rx_count |-> rx[(rx_head + i - 1) % RX_SLOTS]]
Latch(why) == queue_fault' = IF queue_fault = "none" THEN why ELSE queue_fault

QInit ==
  /\ queue_fault = "none"
  /\ event_head = 0 /\ event_tail = 0 /\ events = [i \in 0..EVENTS-1 |-> 0]
  /\ dropped = 0 /\ cancelled = 0 /\ bad_crc = 0
  /\ rx_head = 0 /\ rx_tail = 0 /\ rx_count = 0 /\ rx = [i \in 0..RX_SLOTS-1 |-> 0]
  /\ tx_count = 0 /\ ien = FALSE /\ seen = -1
  /\ made = 0 /\ owed = <<>> /\ kept = <<>>

(* A request is published with interrupts off, from the handler (between any   *)
(* two foreground steps while they are on) or from the idle foreground.        *)
RequestRx_OverwritesWhenFull ==
  /\ queue_fault = "none" /\ made < MaxRequests /\ (ien \/ seen = -1)
  /\ made' = made + 1
  /\ IF Pending > EVENTS
     THEN Latch("CORRUPT") /\ UNCHANGED <<event_head, events, dropped, owed>>
     ELSE /\ events' = [events EXCEPT ![event_head % EVENTS] = made + 1]
          /\ event_head' = (event_head + 1) % WRAP
          /\ owed' = Append(owed, made + 1)
          /\ UNCHANGED <<queue_fault, dropped>>
  /\ UNCHANGED <<event_tail, cancelled, bad_crc, slots, tx_count, ien, seen, kept>>

RequestRx ==
  /\ queue_fault = "none" /\ made < MaxRequests /\ (ien \/ seen = -1)
  /\ made' = made + 1
  /\ CASE Pending > EVENTS ->
            Latch("CORRUPT") /\ UNCHANGED <<event_head, events, dropped, owed>>
       [] Pending = EVENTS ->
            dropped' = Bump(dropped, 1) /\ UNCHANGED <<queue_fault, event_head, events, owed>>
       [] OTHER ->
            /\ events' = [events EXCEPT ![event_head % EVENTS] = made + 1]
            /\ event_head' = (event_head + 1) % WRAP
            /\ owed' = Append(owed, made + 1)
            /\ UNCHANGED <<queue_fault, dropped>>
  /\ UNCHANGED <<event_tail, cancelled, bad_crc, slots, tx_count, ien, seen, kept>>

SetInterrupts ==
  /\ seen = -1 /\ ien' = ~ien
  /\ UNCHANGED <<queue_fault, event_head, event_tail, events, counters, slots, tx_count, seen,
                 made, owed, kept>>

(* Service reads the number of requests with interrupts still possible ... *)
ServiceCount ==
  /\ seen = -1 /\ queue_fault = "none"
  /\ seen' = Pending
  /\ UNCHANGED <<queue_fault, event_head, event_tail, events, counters, slots, tx_count, ien,
                 made, owed, kept>>

ServiceRefused ==
  /\ seen >= 0 /\ seen' = -1
  /\ IF ~RxValid \/ seen > EVENTS
     THEN Latch("CORRUPT")
     ELSE (seen = 0 \/ rx_count = RX_SLOTS \/ ien) /\ UNCHANGED queue_fault
  /\ UNCHANGED <<event_head, event_tail, events, counters, slots, tx_count, ien, made, owed, kept>>

(* ... and takes the oldest one, and a frame, with interrupts off. *)
Serve(result) ==
  /\ seen > 0 /\ seen <= EVENTS /\ RxValid /\ rx_count < RX_SLOTS /\ ~ien
  /\ seen' = -1
  /\ event_tail' = (event_tail + 1) % WRAP
  /\ owed' = Tail(owed)
  /\ rx' = IF result = "OK" THEN [rx EXCEPT ![rx_tail] = events[event_tail % EVENTS]] ELSE rx
  /\ kept' = IF result = "OK" THEN Append(kept, Head(owed)) ELSE kept
  /\ rx_tail' = IF result = "OK" THEN 1 - rx_tail ELSE rx_tail
  /\ rx_count' = IF result = "OK" THEN rx_count + 1 ELSE rx_count
  /\ bad_crc' = IF result = "BAD_CRC" THEN Bump(bad_crc, 1) ELSE bad_crc
  /\ IF result = "FAILED" THEN Latch("RADIO_FAILED") ELSE UNCHANGED queue_fault
  /\ UNCHANGED <<event_head, events, dropped, cancelled, rx_head, tx_count, ien, made>>

RxRead ==
  /\ seen = -1 /\ RxValid /\ rx_count > 0
  /\ rx_head' = 1 - rx_head /\ rx_count' = rx_count - 1
  /\ kept' = Tail(kept)
  /\ UNCHANGED <<queue_fault, event_head, event_tail, events, counters, rx_tail, rx, tx_count, ien,
                 seen, made, owed>>

(* The frame to send is copied in when there is none, copied out or cancelled. *)
TxSubmit ==
  /\ seen = -1 /\ queue_fault = "none" /\ tx_count = 0 /\ tx_count' = 1
  /\ UNCHANGED <<queue_fault, event_head, event_tail, events, counters, slots, ien, seen,
                 made, owed, kept>>

TxTake ==
  /\ seen = -1 /\ tx_count = 1 /\ tx_count' = 0
  /\ UNCHANGED <<queue_fault, event_head, event_tail, events, counters, slots, ien, seen,
                 made, owed, kept>>

CancelRequests ==
  /\ seen = -1 /\ Pending > 0
  /\ IF Pending > EVENTS
     THEN Latch("CORRUPT") /\ UNCHANGED <<event_tail, cancelled, owed>>
     ELSE /\ event_tail' = event_head /\ cancelled' = Bump(cancelled, Pending)
          /\ owed' = <<>> /\ UNCHANGED queue_fault
  /\ UNCHANGED <<event_head, events, dropped, bad_crc, slots, tx_count, ien, seen, made, kept>>

QNext ==
  \/ RequestRx \/ SetInterrupts \/ ServiceCount \/ ServiceRefused
  \/ \E result \in {"OK", "BAD_CRC", "FAILED"} : Serve(result)
  \/ RxRead \/ TxSubmit \/ TxTake \/ CancelRequests

QSpec == QInit /\ [][QNext]_qvars

(* Every accepted request is served or cancelled exactly once and in order,    *)
(* every frame is read in the order of reception, and the queue never finds    *)
(* itself corrupt, wherever the interrupt falls in a service and across the    *)
(* wrap of the counters (the critical sections at radio_queue.c:48 and :154).  *)
RequestsInOrder == queue_fault # "CORRUPT" /\ Waiting = owed /\ Frames = kept
=============================================================================
