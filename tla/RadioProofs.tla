------------------------------ MODULE RadioProofs ------------------------------
(* Theorems of four parts that share the radio.  RadioQueue, for every ring     *)
(* size, every wrap of its two cursors and any number of requests:              *)
(* RequestsInOrder holds wherever the interrupt falls.  MacTime, for every      *)
(* width of the counters: StampIsTrue.  MacScan, for any channels, retries and  *)
(* beacons: ScanIsHonest and ChosenIsNewest.  MacLink, for any retries,         *)
(* backoffs, stop budget and frames: AckIsOwn and DriverInStep.                 *)
EXTENDS RadioQueue, MacTime, MacScan, MacLink, WellFoundedInduction, TLAPS

(* Arithmetic of cursors that wrap at a multiple of the ring size.              *)

\* Division with remainder.
LEMMA DivMod ==
  ASSUME NEW x \in Int, NEW n \in Nat, n > 0
  PROVE  /\ x % n \in 0..(n - 1)
         /\ x \div n \in Int
         /\ x = n * (x \div n) + (x % n)
BY SMT

\* A remainder is what is left of a multiple.
LEMMA ModOf ==
  ASSUME NEW n \in Nat, n > 0, NEW q \in Int, NEW r \in 0..(n - 1)
  PROVE  (n * q + r) % n = r
BY SMT

\* Multiples are a whole step apart.
LEMMA Multiples ==
  ASSUME NEW n \in Nat, n > 0, NEW p \in Int, NEW q \in Int, p < q
  PROVE  n * p + n <= n * q
BY SMT

\* Whole turns do not change a remainder.
LEMMA ModShift ==
  ASSUME NEW n \in Nat, n > 0, NEW x \in Int, NEW k \in Int, k % n = 0
  PROVE  (x + k) % n = x % n
<1> DEFINE q == x \div n  r == x % n  j == k \div n
<1>1. r \in 0..(n - 1) /\ q \in Int /\ x = n * q + r
  BY DivMod
<1>2. j \in Int /\ k = n * j
  BY DivMod
<1> HIDE DEF q, r, j
<1>3. x + k = n * (q + j) + r /\ q + j \in Int
  BY <1>1, <1>2
<1> QED
  BY <1>1, <1>3, ModOf DEF r

\* Two cursors less than a ring apart never meet in a slot.
LEMMA SlotsDiffer ==
  ASSUME NEW n \in Nat, n > 0, NEW x \in Int, NEW y \in Int, x < y, y < x + n
  PROVE  x % n # y % n
<1> DEFINE p == x \div n  q == y \div n
<1> SUFFICES ASSUME x % n = y % n PROVE FALSE
  OBVIOUS
<1>1. p \in Int /\ q \in Int /\ x = n * p + (x % n) /\ y = n * q + (x % n) /\ x % n \in Int
  BY DivMod
<1> HIDE DEF p, q
<1>2. CASE p < q
  BY <1>1, <1>2, Multiples
<1>3. CASE q < p
  <2>1. n * q + n <= n * p
    BY <1>1, <1>3, Multiples
  <2> QED
    BY <1>1, <2>1
<1>4. CASE p = q
  BY <1>1, <1>4
<1> QED
  BY <1>1, <1>2, <1>3, <1>4

(* What Pending says of the two cursors.                                        *)
Gap(h, t) == (h - t) % WRAP

LEMMA GapIs ==
  ASSUME QueueConstants, NEW h \in 0..(WRAP - 1), NEW t \in 0..(WRAP - 1)
  PROVE  /\ Gap(h, t) \in 0..(WRAP - 1)
         /\ Gap(h, t) = IF h >= t THEN h - t ELSE (h - t) + WRAP
<1>1. WRAP \in Nat /\ WRAP > 0
  BY DEF QueueConstants
<1>2. Gap(h, t) \in 0..(WRAP - 1)
  BY <1>1, DivMod DEF Gap
<1>3. ASSUME h >= t PROVE Gap(h, t) = h - t
  <2>1. h - t \in 0..(WRAP - 1) /\ h - t = WRAP * 0 + (h - t)
    BY <1>1, <1>3
  <2> QED
    BY <1>1, <2>1, ModOf DEF Gap
<1>4. ASSUME ~(h >= t) PROVE Gap(h, t) = (h - t) + WRAP
  <2> DEFINE r == (h - t) + WRAP
  <2>1. r \in 0..(WRAP - 1) /\ h - t = WRAP * (-1) + r
    BY <1>1, <1>4
  <2> HIDE DEF r
  <2>2. (h - t) % WRAP = r
    BY <1>1, <2>1, ModOf
  <2> QED
    BY <2>2 DEF Gap, r
<1> QED
  BY <1>2, <1>3, <1>4

LEMMA NextCursor ==
  ASSUME QueueConstants, NEW h \in 0..(WRAP - 1)
  PROVE  /\ (h + 1) % WRAP \in 0..(WRAP - 1)
         /\ (h + 1) % WRAP = IF h + 1 = WRAP THEN 0 ELSE h + 1
<1>1. WRAP \in Nat /\ WRAP > 0
  BY DEF QueueConstants
<1>2. CASE h + 1 = WRAP
  <2>1. h + 1 = WRAP * 1 + 0 /\ 0 \in 0..(WRAP - 1)
    BY <1>1, <1>2
  <2>2. (h + 1) % WRAP = 0
    BY <1>1, <2>1, ModOf
  <2> QED
    BY <1>1, <1>2, <2>2
<1>3. CASE h + 1 # WRAP
  <2>1. h + 1 = WRAP * 0 + (h + 1) /\ h + 1 \in 0..(WRAP - 1)
    BY <1>1, <1>3
  <2>2. (h + 1) % WRAP = h + 1
    BY <1>1, <2>1, ModOf
  <2> QED
    BY <1>1, <1>3, <2>1, <2>2
<1> QED
  BY <1>2, <1>3

\* A publication adds one to the gap, a service takes one from it.
LEMMA HeadAdvances ==
  ASSUME QueueConstants, NEW h \in 0..(WRAP - 1), NEW t \in 0..(WRAP - 1), Gap(h, t) < EVENTS
  PROVE  Gap((h + 1) % WRAP, t) = Gap(h, t) + 1
<1>1. WRAP \in Nat /\ EVENTS \in Nat /\ WRAP > EVENTS /\ EVENTS > 0
  BY DEF QueueConstants
<1> DEFINE g == (h + 1) % WRAP
<1>2. g \in 0..(WRAP - 1) /\ g = IF h + 1 = WRAP THEN 0 ELSE h + 1
  BY NextCursor
<1> HIDE DEF g
<1>3. Gap(g, t) = IF g >= t THEN g - t ELSE (g - t) + WRAP
  BY <1>2, GapIs
<1>4. Gap(h, t) = IF h >= t THEN h - t ELSE (h - t) + WRAP
  BY GapIs
<1>5. Gap(g, t) = Gap(h, t) + 1
  BY <1>1, <1>2, <1>3, <1>4
<1> QED
  BY <1>5 DEF g

LEMMA TailAdvances ==
  ASSUME QueueConstants, NEW h \in 0..(WRAP - 1), NEW t \in 0..(WRAP - 1), Gap(h, t) > 0
  PROVE  Gap(h, (t + 1) % WRAP) = Gap(h, t) - 1
<1>1. WRAP \in Nat /\ WRAP > 0
  BY DEF QueueConstants
<1> DEFINE g == (t + 1) % WRAP
<1>2. g \in 0..(WRAP - 1) /\ g = IF t + 1 = WRAP THEN 0 ELSE t + 1
  BY NextCursor
<1> HIDE DEF g
<1>3. Gap(h, g) = IF h >= g THEN h - g ELSE (h - g) + WRAP
  BY <1>2, GapIs
<1>4. Gap(h, t) = IF h >= t THEN h - t ELSE (h - t) + WRAP
  BY GapIs
<1>5. Gap(h, g) = Gap(h, t) - 1
  BY <1>1, <1>2, <1>3, <1>4
<1> QED
  BY <1>5 DEF g

\* The slot at the head is the one behind the last waiting request, and the
\* slots keep their order when the tail wraps.
LEMMA HeadSlot ==
  ASSUME QueueConstants, NEW h \in 0..(WRAP - 1), NEW t \in 0..(WRAP - 1)
  PROVE  h % EVENTS = (t + Gap(h, t)) % EVENTS
<1>1. WRAP \in Nat /\ EVENTS \in Nat /\ EVENTS > 0 /\ WRAP % EVENTS = 0
  BY DEF QueueConstants
<1>2. Gap(h, t) = IF h >= t THEN h - t ELSE (h - t) + WRAP
  BY GapIs
<1>3. CASE h >= t
  <2>1. t + Gap(h, t) = h
    BY <1>1, <1>2, <1>3
  <2> QED
    BY <2>1
<1>4. CASE h < t
  <2>1. t + Gap(h, t) = h + WRAP
    BY <1>1, <1>2, <1>4
  <2>2. h \in Int /\ WRAP \in Int
    BY <1>1
  <2>3. (h + WRAP) % EVENTS = h % EVENTS
    BY <1>1, <2>2, ModShift
  <2> QED
    BY <2>1, <2>3
<1> QED
  BY <1>1, <1>3, <1>4

LEMMA TailSlot ==
  ASSUME QueueConstants, NEW t \in 0..(WRAP - 1), NEW i \in Int
  PROVE  (((t + 1) % WRAP) + i) % EVENTS = (t + (i + 1)) % EVENTS
<1>1. WRAP \in Nat /\ EVENTS \in Nat /\ EVENTS > 0 /\ WRAP % EVENTS = 0
  BY DEF QueueConstants
<1>2. CASE t + 1 # WRAP
  <2>1. (t + 1) % WRAP = t + 1
    BY <1>2, NextCursor
  <2>2. ((t + 1) % WRAP) + i = t + (i + 1)
    BY <1>1, <2>1
  <2> QED
    BY <2>2
<1>3. CASE t + 1 = WRAP
  <2>1. (t + 1) % WRAP = 0
    BY <1>3, NextCursor
  <2>2. t + (i + 1) = i + WRAP
    BY <1>1, <1>3
  <2>3. WRAP \in Int
    BY <1>1
  <2>4. (i + WRAP) % EVENTS = i % EVENTS
    BY <1>1, <2>3, ModShift
  <2> QED
    BY <1>1, <2>1, <2>2, <2>4
<1> QED
  BY <1>2, <1>3

(* The inductive invariant: the two cursors are at most a ring apart, the slots *)
(* between them hold what is owed and in that order, the two frame slots hold   *)
(* what was received and not read, and the count a service has read is never    *)
(* more than what is still waiting: only the service takes requests away.       *)
QueueTypes ==
  /\ queue_fault \in {"none", "RADIO_FAILED"}
  /\ event_head \in 0..(WRAP - 1) /\ event_tail \in 0..(WRAP - 1)
  /\ events \in [0..(EVENTS - 1) -> Nat]
  /\ rx_head \in 0..1 /\ rx_tail \in 0..1 /\ rx_count \in 0..2 /\ rx \in [0..1 -> Nat]
  /\ ien \in BOOLEAN /\ made \in Nat
  /\ owed \in Seq(Nat) /\ kept \in Seq(Nat)

RingHoldsOwed ==
  /\ Gap(event_head, event_tail) <= EVENTS
  /\ Len(owed) = Gap(event_head, event_tail)
  /\ \A i \in 0..(EVENTS - 1) :
       i < Len(owed) => owed[i + 1] = events[(event_tail + i) % EVENTS]

SlotsHoldKept ==
  /\ rx_tail = (rx_head + rx_count) % 2
  /\ Len(kept) = rx_count
  /\ \A i \in 0..1 : i < rx_count => kept[i + 1] = rx[(rx_head + i) % 2]

CountIsOld == seen \in -1..EVENTS /\ seen <= Len(owed)

QueueInv == QueueTypes /\ RingHoldsOwed /\ SlotsHoldKept /\ CountIsOld

\* The number of requests that wait.
LEMMA PendingIsGap == Pending = Gap(event_head, event_tail)
BY DEF Pending, Gap

\* radio_queue_init.
LEMMA QueueInit == QueueConstants /\ QInit => QueueInv
<1> SUFFICES ASSUME QueueConstants, QInit PROVE QueueInv
  OBVIOUS
<1>1. WRAP \in Nat /\ EVENTS \in Nat /\ EVENTS > 0 /\ WRAP > EVENTS
  BY DEF QueueConstants
<1>2. Gap(0, 0) = 0
  <2>1. 0 \in 0..(WRAP - 1)
    BY <1>1
  <2>2. Gap(0, 0) = IF 0 >= 0 THEN 0 - 0 ELSE (0 - 0) + WRAP
    BY <2>1, GapIs
  <2> QED
    BY <2>2
<1>3. QueueTypes
  <2>1. events \in [0..(EVENTS - 1) -> Nat] /\ rx \in [0..1 -> Nat]
    BY DEF QInit, RX_SLOTS
  <2>2. <<>> \in Seq(Nat)
    OBVIOUS
  <2>3. ien \in BOOLEAN
    BY DEF QInit
  <2>4. /\ event_head \in 0..(WRAP - 1) /\ event_tail \in 0..(WRAP - 1)
        /\ rx_head \in 0..1 /\ rx_tail \in 0..1 /\ rx_count \in 0..2 /\ made \in Nat
    BY <1>1 DEF QInit
  <2> QED
    BY <2>1, <2>2, <2>3, <2>4 DEF QInit, QueueTypes
<1>4. RingHoldsOwed
  BY <1>1, <1>2 DEF QInit, RingHoldsOwed
<1>5. SlotsHoldKept /\ CountIsOld
  BY <1>1 DEF QInit, SlotsHoldKept, CountIsOld
<1> QED
  BY <1>3, <1>4, <1>5 DEF QueueInv

\* Steps that touch neither ring, frames nor the count of a service.
LEMMA QueueUntouched ==
  ASSUME QueueInv, ien' \in BOOLEAN, made' \in Nat,
         UNCHANGED <<queue_fault, event_head, event_tail, events, slots, seen, owed, kept>>
  PROVE  QueueInv'
<1>1. QueueTypes'
  BY DEF QueueInv, QueueTypes, slots
<1>2. RingHoldsOwed'
  BY DEF QueueInv, RingHoldsOwed
<1>3. SlotsHoldKept' /\ CountIsOld'
  BY DEF QueueInv, SlotsHoldKept, CountIsOld, slots
<1> QED
  BY <1>1, <1>2, <1>3 DEF QueueInv

\* A publication fills the slot behind the last request, which no waiting
\* request is in.
LEMMA RequestKeeps ==
  ASSUME QueueConstants, QueueInv, RequestRx
  PROVE  QueueInv'
<1> DEFINE gap == Gap(event_head, event_tail)
<1>1. WRAP \in Nat /\ EVENTS \in Nat /\ EVENTS > 0 /\ WRAP > EVENTS
  BY DEF QueueConstants
<1>2. Pending = gap /\ gap <= EVENTS /\ gap \in Int /\ gap >= 0
  BY <1>1, PendingIsGap, GapIs DEF QueueInv, QueueTypes, RingHoldsOwed
<1>3. CASE Pending = EVENTS
  <2>1. UNCHANGED <<queue_fault, event_head, event_tail, events, slots, seen, owed, kept, ien>>
    BY <1>1, <1>2, <1>3 DEF RequestRx
  <2>2. ien' \in BOOLEAN /\ made' \in Nat
    BY <2>1 DEF RequestRx, QueueInv, QueueTypes
  <2> QED
    BY <2>1, <2>2, QueueUntouched
<1>4. CASE Pending < EVENTS
  <2> DEFINE slot == event_head % EVENTS
  <2>1. /\ events' = [events EXCEPT ![slot] = made + 1]
        /\ event_head' = (event_head + 1) % WRAP /\ event_tail' = event_tail
        /\ owed' = Append(owed, made + 1) /\ queue_fault' = queue_fault
        /\ made' = made + 1
    BY <1>1, <1>2, <1>4 DEF RequestRx
  <2>2. event_head \in 0..(WRAP - 1) /\ event_tail \in 0..(WRAP - 1) /\ Len(owed) = gap
    BY DEF QueueInv, QueueTypes, RingHoldsOwed
  <2>3. event_head' \in 0..(WRAP - 1)
    BY <2>1, <2>2, NextCursor
  <2>4. Gap(event_head', event_tail') = gap + 1
    BY <1>2, <1>4, <2>1, <2>2, HeadAdvances
  <2>5. slot = (event_tail + gap) % EVENTS
    BY <2>2, HeadSlot
  <2>6. slot \in 0..(EVENTS - 1)
    BY <1>1, <2>2, DivMod
  <2>7. events' \in [0..(EVENTS - 1) -> Nat] /\ events'[slot] = made + 1 /\ made' \in Nat
    BY <2>1, <2>6 DEF QueueInv, QueueTypes
  <2>8. owed' \in Seq(Nat) /\ Len(owed') = gap + 1 /\ owed'[gap + 1] = made + 1
    BY <2>1, <2>2 DEF QueueInv, QueueTypes
  <2>9. ASSUME NEW i \in 0..(EVENTS - 1), i < Len(owed')
        PROVE  owed'[i + 1] = events'[(event_tail' + i) % EVENTS]
    <3>1. CASE i = gap
      <4>1. (event_tail' + i) % EVENTS = slot
        BY <2>1, <2>5, <3>1
      <4> QED
        BY <2>7, <2>8, <3>1, <4>1
    <3>2. CASE i < gap
      <4> DEFINE at == (event_tail + i) % EVENTS
      <4>1. at # slot
        <5>1. /\ event_tail + i \in Int /\ event_tail + gap \in Int
              /\ event_tail + i < event_tail + gap
              /\ event_tail + gap < (event_tail + i) + EVENTS
          BY <1>1, <1>2, <1>4, <2>2, <3>2
        <5> QED
          BY <1>1, <2>5, <5>1, SlotsDiffer
      <4>2. owed[i + 1] = events[at]
        BY <1>2, <2>2, <3>2 DEF QueueInv, RingHoldsOwed
      <4>3. owed'[i + 1] = owed[i + 1]
        BY <1>2, <2>1, <2>2, <3>2 DEF QueueInv, QueueTypes
      <4>4. at \in 0..(EVENTS - 1)
        BY <1>1, <2>2, DivMod
      <4> HIDE DEF at, slot
      <4>5. events'[at] = events[at]
        BY <2>1, <4>1, <4>4 DEF QueueInv, QueueTypes
      <4> QED
        BY <2>1, <4>2, <4>3, <4>5 DEF at
    <3> QED
      BY <1>2, <2>8, <2>9, <3>1, <3>2
  <2>10. RingHoldsOwed'
    BY <1>1, <1>2, <1>4, <2>4, <2>8, <2>9 DEF RingHoldsOwed
  <2>11. CountIsOld'
    BY <1>2, <2>2, <2>8 DEF RequestRx, QueueInv, CountIsOld
  <2>12. SlotsHoldKept'
    BY DEF RequestRx, slots, QueueInv, SlotsHoldKept
  <2>13. QueueTypes'
    BY <2>1, <2>3, <2>7, <2>8 DEF RequestRx, slots, QueueInv, QueueTypes
  <2> QED
    BY <2>10, <2>11, <2>12, <2>13 DEF QueueInv
<1> QED
  BY <1>1, <1>2, <1>3, <1>4

\* Reading the count, and giving a service up, change the count alone.
LEMMA CountKeeps ==
  ASSUME QueueConstants, QueueInv, ServiceCount \/ ServiceRefused
  PROVE  QueueInv'
<1>1. WRAP \in Nat /\ EVENTS \in Nat /\ EVENTS > 0 /\ RX_SLOTS = 2
  BY DEF QueueConstants, RX_SLOTS
<1>2. Pending = Len(owed) /\ Len(owed) \in 0..EVENTS
  BY <1>1, PendingIsGap DEF QueueInv, QueueTypes, RingHoldsOwed
<1>3. RxValid
  BY <1>1 DEF RxValid, QueueInv, QueueTypes, SlotsHoldKept
<1>4. UNCHANGED <<event_head, event_tail, events, slots, owed, kept, ien, made, queue_fault>>
  BY <1>1, <1>3 DEF ServiceCount, ServiceRefused, QueueInv, CountIsOld
<1>5. seen' \in -1..EVENTS /\ seen' <= Len(owed)
  BY <1>1, <1>2 DEF ServiceCount, ServiceRefused
<1>6. QueueTypes'
  BY <1>4 DEF QueueInv, QueueTypes, slots
<1>7. RingHoldsOwed'
  BY <1>4 DEF QueueInv, RingHoldsOwed
<1>8. SlotsHoldKept' /\ CountIsOld'
  BY <1>4, <1>5 DEF QueueInv, SlotsHoldKept, CountIsOld, slots
<1> QED
  BY <1>6, <1>7, <1>8 DEF QueueInv

\* A service takes the oldest request, whichever the interrupt added since it
\* was counted.
LEMMA ServeKeeps ==
  ASSUME QueueConstants, QueueInv, NEW result \in {"OK", "BAD_CRC", "FAILED"}, Serve(result)
  PROVE  QueueInv'
<1> DEFINE gap == Gap(event_head, event_tail)
<1>1. WRAP \in Nat /\ EVENTS \in Nat /\ EVENTS > 0 /\ RX_SLOTS = 2
  BY DEF QueueConstants, RX_SLOTS
<1>2. /\ gap = Len(owed) /\ gap > 0 /\ gap <= EVENTS /\ gap \in Int
      /\ event_head \in 0..(WRAP - 1) /\ event_tail \in 0..(WRAP - 1)
  BY DEF Serve, QueueInv, QueueTypes, RingHoldsOwed, CountIsOld
<1>3. /\ event_tail' = (event_tail + 1) % WRAP /\ event_head' = event_head
      /\ events' = events /\ owed' = Tail(owed) /\ seen' = -1
      /\ ien' = ien /\ made' = made
  BY DEF Serve
<1>4. event_tail' \in 0..(WRAP - 1)
  BY <1>2, <1>3, NextCursor
<1>5. Gap(event_head', event_tail') = gap - 1
  BY <1>2, <1>3, TailAdvances
<1>6. owed \in Seq(Nat) /\ owed' \in Seq(Nat) /\ Len(owed') = gap - 1
  BY <1>2, <1>3 DEF QueueInv, QueueTypes
<1>7. ASSUME NEW i \in 0..(EVENTS - 1), i < Len(owed')
      PROVE  owed'[i + 1] = events'[(event_tail' + i) % EVENTS]
  <2>1. i \in Int /\ i + 1 \in 0..(EVENTS - 1) /\ i + 1 < Len(owed)
    BY <1>1, <1>2, <1>6, <1>7
  <2>2. owed'[i + 1] = owed[(i + 1) + 1]
    BY <1>2, <1>3, <1>6, <1>7
  <2>3. owed[(i + 1) + 1] = events[(event_tail + (i + 1)) % EVENTS]
    BY <2>1 DEF QueueInv, RingHoldsOwed
  <2>4. (((event_tail + 1) % WRAP) + i) % EVENTS = (event_tail + (i + 1)) % EVENTS
    BY <1>2, <2>1, TailSlot
  <2> QED
    BY <1>3, <2>2, <2>3, <2>4
<1>8. RingHoldsOwed'
  BY <1>1, <1>2, <1>5, <1>6, <1>7 DEF RingHoldsOwed
<1>9. CountIsOld'
  BY <1>1, <1>2, <1>3, <1>6 DEF CountIsOld
<1>10. queue_fault' \in {"none", "RADIO_FAILED"}
  BY DEF Serve, Latch, QueueInv, QueueTypes
<1>11. Head(owed) = events[event_tail % EVENTS] /\ Head(owed) \in Nat
  <2>1. 0 \in 0..(EVENTS - 1) /\ 0 < Len(owed)
    BY <1>1, <1>2
  <2>2. owed[0 + 1] = events[(event_tail + 0) % EVENTS]
    BY <2>1 DEF QueueInv, RingHoldsOwed
  <2>3. owed[0 + 1] = owed[1] /\ event_tail + 0 = event_tail
    BY <1>2
  <2>4. Head(owed) = owed[1] /\ owed[1] \in Nat
    BY <1>2, <1>6
  <2> QED
    BY <2>2, <2>3, <2>4
<1>12. /\ rx_head \in 0..1 /\ rx_count \in 0..1 /\ rx_tail = (rx_head + rx_count) % 2
       /\ rx \in [0..1 -> Nat] /\ kept \in Seq(Nat) /\ Len(kept) = rx_count
       /\ \A i \in 0..1 : i < rx_count => kept[i + 1] = rx[(rx_head + i) % 2]
  BY <1>1 DEF Serve, QueueInv, QueueTypes, SlotsHoldKept
<1>13. CASE result = "OK"
  <2>1. /\ rx' = [rx EXCEPT ![rx_tail] = Head(owed)] /\ kept' = Append(kept, Head(owed))
        /\ rx_tail' = 1 - rx_tail /\ rx_count' = rx_count + 1 /\ rx_head' = rx_head
    BY <1>11, <1>13 DEF Serve
  <2>2. SlotsHoldKept' /\ kept' \in Seq(Nat) /\ rx_tail' \in 0..1 /\ rx' \in [0..1 -> Nat]
    BY <1>11, <1>12, <2>1 DEF SlotsHoldKept
  <2>3. QueueTypes'
    <3>1. events' \in [0..(EVENTS - 1) -> Nat] /\ event_head' \in 0..(WRAP - 1) /\ ien' \in BOOLEAN /\ made' \in Nat
      BY <1>2, <1>3 DEF QueueInv, QueueTypes
    <3>2. rx_count' \in 0..2 /\ rx_head' \in 0..1
      BY <1>12, <2>1
    <3> QED
      BY <1>4, <1>6, <1>10, <2>2, <3>1, <3>2 DEF QueueTypes
  <2> QED
    BY <1>8, <1>9, <2>2, <2>3 DEF QueueInv
<1>14. CASE result # "OK"
  <2>1. UNCHANGED <<rx, kept, rx_tail, rx_count, rx_head>>
    BY <1>14 DEF Serve
  <2>2. SlotsHoldKept'
    BY <2>1 DEF QueueInv, SlotsHoldKept
  <2>3. QueueTypes'
    BY <1>3, <1>4, <1>6, <1>10, <2>1 DEF QueueInv, QueueTypes
  <2> QED
    BY <1>8, <1>9, <2>2, <2>3 DEF QueueInv
<1> QED
  BY <1>13, <1>14

\* Frames are read in the order of reception.
LEMMA ReadKeeps ==
  ASSUME QueueInv, RxRead
  PROVE  QueueInv'
<1>1. /\ rx_head \in 0..1 /\ rx_count \in 1..2 /\ rx_tail = (rx_head + rx_count) % 2
      /\ kept \in Seq(Nat) /\ Len(kept) = rx_count
      /\ \A i \in 0..1 : i < rx_count => kept[i + 1] = rx[(rx_head + i) % 2]
  BY DEF RxRead, QueueInv, QueueTypes, SlotsHoldKept
<1>2. /\ rx_head' = 1 - rx_head /\ rx_count' = rx_count - 1 /\ kept' = Tail(kept)
      /\ UNCHANGED <<queue_fault, event_head, event_tail, events, rx_tail, rx, ien, seen,
                     made, owed>>
  BY DEF RxRead
<1>3. kept' \in Seq(Nat) /\ Len(kept') = rx_count - 1
      /\ \A i \in 1..(rx_count - 1) : kept'[i] = kept[i + 1]
  BY <1>1, <1>2
<1>4. SlotsHoldKept'
  BY <1>1, <1>2, <1>3 DEF SlotsHoldKept
<1>5. QueueTypes'
  BY <1>1, <1>2, <1>3 DEF QueueInv, QueueTypes
<1>6. RingHoldsOwed' /\ CountIsOld'
  BY <1>2 DEF QueueInv, RingHoldsOwed, CountIsOld
<1> QED
  BY <1>4, <1>5, <1>6 DEF QueueInv

\* A cancellation leaves nothing owed.
LEMMA CancelKeeps ==
  ASSUME QueueConstants, QueueInv, CancelRequests
  PROVE  QueueInv'
<1>1. WRAP \in Nat /\ EVENTS \in Nat /\ EVENTS > 0
  BY DEF QueueConstants
<1>2. Pending <= EVENTS /\ Pending \in Int
  BY <1>1, PendingIsGap DEF QueueInv, QueueTypes, RingHoldsOwed
<1>3. /\ event_tail' = event_head /\ owed' = <<>>
      /\ UNCHANGED <<queue_fault, event_head, events, slots, ien, seen, made, kept>>
  BY <1>1, <1>2 DEF CancelRequests
<1>4. event_head \in 0..(WRAP - 1) /\ seen' = -1
  BY <1>3 DEF QueueInv, QueueTypes, CancelRequests
<1>5. Gap(event_head', event_tail') = 0
  <2>1. Gap(event_head, event_head)
          = IF event_head >= event_head THEN event_head - event_head
            ELSE (event_head - event_head) + WRAP
    BY <1>4, GapIs
  <2> QED
    BY <1>3, <1>4, <2>1
<1>6. RingHoldsOwed'
  BY <1>1, <1>3, <1>5 DEF RingHoldsOwed
<1>7. CountIsOld'
  BY <1>1, <1>3, <1>4 DEF CountIsOld
<1>8. QueueTypes'
  BY <1>3, <1>4 DEF QueueInv, QueueTypes, slots
<1>9. SlotsHoldKept'
  BY <1>3 DEF QueueInv, SlotsHoldKept, slots
<1> QED
  BY <1>6, <1>7, <1>8, <1>9 DEF QueueInv

LEMMA QueueStep ==
  ASSUME QueueConstants, QueueInv, [QNext]_qvars
  PROVE  QueueInv'
<1>0. ien \in BOOLEAN /\ made \in Nat
  BY DEF QueueInv, QueueTypes
<1>1. CASE RequestRx
  BY <1>1, RequestKeeps
<1>2. CASE SetInterrupts \/ TxSubmit \/ TxTake
  <2>1. UNCHANGED <<queue_fault, event_head, event_tail, events, slots, seen, owed, kept, made>>
    BY <1>2 DEF SetInterrupts, TxSubmit, TxTake
  <2>2. ien' \in BOOLEAN
    BY <1>0, <1>2 DEF SetInterrupts, TxSubmit, TxTake
  <2> QED
    BY <1>0, <2>1, <2>2, QueueUntouched
<1>3. CASE ServiceCount \/ ServiceRefused
  BY <1>3, CountKeeps
<1>4. CASE \E result \in {"OK", "BAD_CRC", "FAILED"} : Serve(result)
  BY <1>4, ServeKeeps
<1>5. CASE RxRead
  BY <1>5, ReadKeeps
<1>6. CASE CancelRequests
  BY <1>6, CancelKeeps
<1>7. CASE UNCHANGED qvars
  BY <1>0, <1>7, QueueUntouched DEF qvars
<1> QED
  BY <1>1, <1>2, <1>3, <1>4, <1>5, <1>6, <1>7 DEF QNext

LEMMA InvInOrder == QueueConstants /\ QueueInv => RequestsInOrder
<1> SUFFICES ASSUME QueueConstants, QueueInv PROVE RequestsInOrder
  OBVIOUS
<1>1. queue_fault # "CORRUPT"
  BY DEF QueueInv, QueueTypes
<1>2. EVENTS \in Nat /\ Pending = Len(owed) /\ Len(owed) <= EVENTS /\ event_tail \in Int
  BY PendingIsGap DEF QueueConstants, QueueInv, QueueTypes, RingHoldsOwed
<1>3. Waiting = owed
  <2>1. owed \in Seq(Nat) /\ owed = [i \in 1..Len(owed) |-> owed[i]]
    BY DEF QueueInv, QueueTypes
  <2>2. ASSUME NEW i \in 1..Len(owed)
        PROVE  events[(event_tail + (i - 1)) % EVENTS] = owed[i]
    <3>1. i - 1 \in 0..(EVENTS - 1) /\ i - 1 < Len(owed) /\ (i - 1) + 1 = i
      BY <1>2, <2>1, <2>2
    <3>2. owed[(i - 1) + 1] = events[(event_tail + (i - 1)) % EVENTS]
      BY <3>1 DEF QueueInv, RingHoldsOwed
    <3> QED
      BY <3>1, <3>2
  <2> QED
    BY <1>2, <2>1, <2>2 DEF Waiting
<1>4. Frames = kept
  <2>1. kept \in Seq(Nat) /\ kept = [i \in 1..Len(kept) |-> kept[i]]
    BY DEF QueueInv, QueueTypes
  <2>2. rx_count \in 0..2 /\ Len(kept) = rx_count /\ rx_head \in 0..1
    BY DEF QueueInv, QueueTypes, SlotsHoldKept
  <2>3. ASSUME NEW i \in 1..rx_count
        PROVE  rx[(rx_head + (i - 1)) % 2] = kept[i]
    <3>1. i - 1 \in 0..1 /\ i - 1 < rx_count /\ (i - 1) + 1 = i
      BY <2>2, <2>3
    <3>2. kept[(i - 1) + 1] = rx[(rx_head + (i - 1)) % 2]
      BY <3>1 DEF QueueInv, SlotsHoldKept
    <3> QED
      BY <3>1, <3>2
  <2>4. Frames = [i \in 1..rx_count |-> rx[(rx_head + (i - 1)) % 2]]
    BY DEF Frames, RX_SLOTS
  <2>5. [i \in 1..rx_count |-> rx[(rx_head + (i - 1)) % 2]] = [i \in 1..rx_count |-> kept[i]]
    BY <2>3, Zenon
  <2> QED
    BY <2>1, <2>2, <2>4, <2>5
<1> QED
  BY <1>1, <1>3, <1>4 DEF RequestsInOrder

\* For any ring size, any wrap of the cursors that is a multiple of it, and any
\* number of requests: every accepted request is served or cancelled exactly once
\* and in order, frames are read in the order of reception, and the queue never
\* takes itself for corrupt, wherever the interrupt falls between the count that
\* radio_queue_service reads and its critical section (radio_queue.c).
THEOREM QueueInOrder == QSpec => []RequestsInOrder
<1>1. QInit => QueueInv
  BY QueueInit, QueueAssumption
<1>2. QueueInv /\ [QNext]_qvars => QueueInv'
  BY QueueStep, QueueAssumption
<1>3. QueueInv => RequestsInOrder
  BY InvInOrder, QueueAssumption
<1> QED
  BY <1>1, <1>2, <1>3, PTL DEF QSpec

-------------------------------------------------------------------------------
(*** MacTime: the symbol clock.                                               ***)

\* The low byte and the bits above it, of one moment, make the fine counter.
LEMMA FineIs ==
  ASSUME NEW c \in Nat, BYTE \in Nat \ {0}
  PROVE  (Fine(c) \div BYTE) * BYTE + (c % BYTE) = Fine(c)
<1> DEFINE f == c % FINE
           q == c \div FINE
           h == f \div BYTE
           t == f % BYTE
<1>1. FINE \in Nat /\ FINE > 0 /\ FINE = 2 * BYTE
  BY DEF FINE
<1> HIDE DEF f, q
<1>2. f \in Nat /\ q \in Int /\ c = FINE * q + f
  BY <1>1, DivMod DEF f, q
<1>3. h \in Int /\ t \in 0..(BYTE - 1) /\ f = BYTE * h + t
  BY <1>2, DivMod
<1> HIDE DEF h, t
<1>4. c = BYTE * (2 * q + h) + t /\ 2 * q + h \in Int
  <2>1. (2 * BYTE) * q = BYTE * (2 * q)
    BY <1>2
  <2>2. BYTE * (2 * q + h) = BYTE * (2 * q) + BYTE * h
    BY <1>2, <1>3
  <2>3. c = (2 * BYTE) * q + f
    BY <1>1, <1>2
  <2> QED
    BY <1>2, <1>3, <2>1, <2>2, <2>3
<1>5. c % BYTE = t
  <2> DEFINE j == 2 * q + h
  <2>1. j \in Int /\ c = BYTE * j + t /\ BYTE \in Nat /\ BYTE > 0
    BY <1>4
  <2> HIDE DEF j
  <2> QED
    BY <1>3, <2>1, ModOf
<1>6. h * BYTE + t = f
  BY <1>3
<1> QED
  BY <1>5, <1>6 DEF Fine, f, h

\* The timer runs, and no call has it stopping or starting.
On == t2.run /\ t2.control = 9
Reading == {"LATCH", "RELATCH", "BYTES", "CHECK", "AGAIN"}
Movers == {"INIT", "PAUSE", "RESUME"}

ClockTypes ==
  /\ clk \in Nat
  /\ t2 \in [control : Nat, run : BOOLEAN, stopped : Nat]
  /\ state \in [fault : BOOLEAN, ready : BOOLEAN, active : BOOLEAN, paused : BOOLEAN]
  /\ op \in [kind : Kinds \cup {"NONE"}, control : Nat, polls : Nat, from : Nat, low : Int, upper : Int,
             at : Reading \cup {"NONE", "ENTER", "POLL", "START", "STOP"}]
  /\ op.from <= clk

\* A call that reads the timer finds it running, and none that stops it runs
\* during an attempt.
ClockRuns ==
  /\ op.at \in Reading => On
  /\ op.at = "POLL" /\ op.kind \notin Movers => On
  /\ op.at = "ENTER" /\ op.kind \notin {"INIT", "RESUME"} => op.control = 9
  /\ op.at = "START" /\ op.kind = "INIT" => op.control = 9
  /\ op.at = "START" => op.kind \in {"INIT", "RESUME"}
  /\ op.at = "STOP" => op.kind = "PAUSE"
  /\ op.kind \in {"READ", "HANDOFF"} => state.active
  /\ state.active => state.ready /\ On /\ op.kind \notin Movers

\* What is staged is one moment of the call.
Staged ==
  op.at \in {"BYTES", "CHECK"} =>
    op.upper \in Nat /\ op.from <= op.upper /\ op.upper <= clk /\ op.low = op.upper % BYTE

\* The inductive invariant.
ClockInv == ClockTypes /\ ClockRuns /\ Staged /\ StampIsTrue

\* mac_time.c before its first call.
LEMMA ClockInit == TimeInit => ClockInv
<1> SUFFICES ASSUME TimeInit PROVE ClockInv
  OBVIOUS
<1>1. ClockTypes
  BY DEF TimeInit, ClockTypes, NoCall, Kinds, Full, Reading
<1>2. ClockRuns /\ Staged /\ StampIsTrue
  BY DEF TimeInit, ClockRuns, Staged, StampIsTrue, NoCall, NoStamp, Reading, On
<1> QED
  BY <1>1, <1>2 DEF ClockInv

\* The stamp a call publishes is the moment it staged.
LEMMA StampHolds ==
  ASSUME ClockTypes, Staged, op.at \in {"BYTES", "CHECK"}, BYTE \in Nat \ {0}, out' = Stamp
  PROVE  StampIsTrue'
<1>1. op.upper \in Nat /\ op.from <= op.upper /\ op.upper <= clk /\ op.low = op.upper % BYTE
  BY DEF Staged
<1>2. out'.fine = Fine(op.upper) /\ out'.periods = Periods(op.upper)
  <2>1. (Fine(op.upper) \div BYTE) * BYTE + op.low = Fine(op.upper)
    BY <1>1, FineIs
  <2> QED
    BY <2>1 DEF Stamp
<1>3. out'.from = op.from /\ out'.to = clk
  BY DEF Stamp
<1>4. op.upper \in out'.from..out'.to
  BY <1>1, <1>3 DEF ClockTypes
<1> QED
  BY <1>2, <1>4 DEF StampIsTrue, Fine, Periods

\* A call comes to its end, or fails, and gives nothing.
LEMMA ClockEnds ==
  ASSUME ClockInv, op' = NoCall, UNCHANGED <<clk, t2, out>>,
         state' \in [fault : BOOLEAN, ready : BOOLEAN, active : BOOLEAN, paused : BOOLEAN],
         state'.active => state'.ready /\ On
  PROVE  ClockInv'
<1>1. ClockTypes'
  BY DEF ClockInv, ClockTypes, NoCall, Kinds, Full, Reading
<1>2. ClockRuns' /\ Staged'
  BY DEF ClockInv, ClockRuns, Staged, NoCall, Reading, On, Movers
<1>3. StampIsTrue'
  BY DEF ClockInv, StampIsTrue, Fine, Periods
<1> QED
  BY <1>1, <1>2, <1>3 DEF ClockInv

\* A call that fails latches the fault and nothing else.
LEMMA FailureKeeps ==
  ASSUME ClockInv, TimeFailed, UNCHANGED <<clk, t2, out>>
  PROVE  ClockInv'
<1>1. op' = NoCall /\ state' = [state EXCEPT !.fault = TRUE]
  BY DEF TimeFailed
<1>2. /\ state' \in [fault : BOOLEAN, ready : BOOLEAN, active : BOOLEAN, paused : BOOLEAN]
      /\ state'.active = state.active /\ state'.ready = state.ready
  BY <1>1 DEF ClockInv, ClockTypes
<1>3. state'.active => state'.ready /\ On
  BY <1>2 DEF ClockInv, ClockRuns
<1> QED
  BY <1>1, <1>2, <1>3, ClockEnds

\* A call is entered: what stops the timer only outside an attempt.
LEMMA CallKeeps == ASSUME ClockInv, NEW kind \in Kinds, Call(kind) PROVE ClockInv'
<1>1. op.kind = "NONE" /\ Admitted(kind) /\ out' = NoStamp /\ UNCHANGED <<clk, t2, state>>
  BY DEF Call
<1> DEFINE k == IF kind = "INIT" THEN 2 ELSE IF kind = "RESUME" THEN 10 ELSE 9
           a == IF kind \in {"READ", "HANDOFF"} THEN "LATCH" ELSE "ENTER"
<1>a. op' = [kind |-> kind, at |-> a, control |-> k, polls |-> 0, from |-> clk, low |-> 0, upper |-> 0]
  BY DEF Call, NoCall
<1>b. k \in Nat /\ a \in Reading \cup {"NONE", "ENTER", "POLL", "START", "STOP"} /\ clk \in Nat
  BY DEF Reading, ClockInv, ClockTypes
<1>2. /\ op'.kind = kind /\ op'.from = clk
      /\ op'.at = IF kind \in {"READ", "HANDOFF"} THEN "LATCH" ELSE "ENTER"
      /\ op'.control = IF kind = "INIT" THEN 2 ELSE IF kind = "RESUME" THEN 10 ELSE 9
      /\ op' \in [kind : Kinds \cup {"NONE"}, control : Nat, polls : Nat, from : Nat, low : Int,
                  upper : Int, at : Reading \cup {"NONE", "ENTER", "POLL", "START", "STOP"}]
  <2> HIDE DEF k, a
  <2>1. /\ op'.kind = kind /\ op'.from = clk /\ op'.at = a /\ op'.control = k
        /\ op' \in [kind : Kinds \cup {"NONE"}, control : Nat, polls : Nat, from : Nat, low : Int,
                    upper : Int, at : Reading \cup {"NONE", "ENTER", "POLL", "START", "STOP"}]
    BY <1>a, <1>b
  <2> QED
    BY <2>1 DEF k, a
<1>3. kind \in Movers => ~state.active
  BY <1>1 DEF Admitted, Movers, ClockInv, ClockRuns, Kinds, Full
<1>4. kind \in {"READ", "HANDOFF"} => state.active
  BY <1>1 DEF Admitted
<1>5. ClockTypes'
  BY <1>1, <1>2 DEF ClockInv, ClockTypes
<1>6. ClockRuns'
  BY <1>1, <1>2, <1>3, <1>4 DEF ClockInv, ClockRuns, On, Reading, Movers
<1>7. Staged' /\ StampIsTrue'
  BY <1>1, <1>2 DEF Staged, StampIsTrue, NoStamp
<1> QED
  BY <1>5, <1>6, <1>7 DEF ClockInv

\* A call goes on with what it reads, the timer left alone.
LEMMA ReadingGoesOn ==
  ASSUME ClockInv, UNCHANGED <<clk, t2, state, out>>, op' = [op EXCEPT !.at = op'.at, !.polls = op'.polls],
         op'.at \in Reading \cup {"POLL"}, op'.polls \in Nat,
         op'.at \in Reading => On, op'.at = "POLL" /\ op.kind \notin Movers => On,
         op'.at \in {"BYTES", "CHECK"} => op.at \in {"BYTES", "CHECK"}
  PROVE  ClockInv'
<1>1. /\ op'.kind = op.kind /\ op'.from = op.from /\ op'.low = op.low /\ op'.upper = op.upper
      /\ op' \in [kind : Kinds \cup {"NONE"}, control : Nat, polls : Nat, from : Nat, low : Int,
                  upper : Int, at : Reading \cup {"NONE", "ENTER", "POLL", "START", "STOP"}]
  BY DEF ClockInv, ClockTypes
<1>2. ClockTypes'
  BY <1>1 DEF ClockInv, ClockTypes
<1>3. ClockRuns'
  BY <1>1 DEF ClockInv, ClockRuns, On, Reading, Movers
<1>4. Staged'
  BY <1>1 DEF ClockInv, Staged
<1>5. StampIsTrue'
  BY DEF ClockInv, StampIsTrue, Fine, Periods
<1> QED
  BY <1>2, <1>3, <1>4, <1>5 DEF ClockInv

\* The first observation finds the timer running for every call but those that start it.
LEMMA EnterKeeps == ClockInv /\ Enter => ClockInv'
<1> SUFFICES ASSUME ClockInv, Enter PROVE ClockInv'
  OBVIOUS
<1>1. CASE TimeFailed
  BY <1>1, FailureKeeps DEF Enter
<1>2. CASE ~TimeFailed
  <2>1. /\ op.at = "ENTER" /\ Observed /\ t2.run = (op.kind \notin {"INIT", "RESUME"})
        /\ op' = [op EXCEPT !.at = "POLL"] /\ UNCHANGED <<clk, t2, state, out>>
    BY <1>2 DEF Enter
  <2>2. op'.at = "POLL" /\ op'.polls = op.polls /\ op.polls \in Nat
    BY <2>1 DEF ClockInv, ClockTypes
  <2>3. op' = [op EXCEPT !.at = op'.at, !.polls = op'.polls]
    BY <2>1, <2>2 DEF ClockInv, ClockTypes
  <2>4. op.kind \notin Movers => On
    BY <2>1 DEF ClockInv, ClockRuns, Observed, On, Movers
  <2> QED
    BY <2>1, <2>2, <2>3, <2>4, ReadingGoesOn DEF Reading
<1> QED
  BY <1>1, <1>2

\* A call that starts or stops the timer outside an attempt.
LEMMA MovesKeep ==
  ASSUME ClockInv, op.kind \in Movers, op.at \in {"POLL", "START", "STOP"},
         UNCHANGED <<clk, state, out>>,
         t2' = [t2 EXCEPT !.control = t2'.control], t2'.control \in Nat,
         op' = [op EXCEPT !.at = op'.at, !.polls = op'.polls, !.control = op'.control],
         op'.polls \in Nat, op'.control \in Nat, op'.at \in {"POLL", "START", "STOP"},
         op'.at = "START" => op.kind \in {"INIT", "RESUME"}, op'.at = "STOP" => op.kind = "PAUSE",
         op'.at = "START" /\ op.kind = "INIT" => op'.control = 9
  PROVE  ClockInv'
<1>1. /\ op'.kind = op.kind /\ op'.from = op.from
      /\ op' \in [kind : Kinds \cup {"NONE"}, control : Nat, polls : Nat, from : Nat, low : Int,
                  upper : Int, at : Reading \cup {"NONE", "ENTER", "POLL", "START", "STOP"}]
  BY DEF ClockInv, ClockTypes
<1>2. t2' \in [control : Nat, run : BOOLEAN, stopped : Nat]
  BY DEF ClockInv, ClockTypes
<1>3. ClockTypes'
  BY <1>1, <1>2 DEF ClockInv, ClockTypes
<1>4. ClockRuns'
  BY <1>1 DEF ClockInv, ClockRuns, Reading, Movers
<1>5. Staged'
  BY DEF Staged
<1>6. StampIsTrue'
  BY DEF ClockInv, StampIsTrue, Fine, Periods
<1> QED
  BY <1>3, <1>4, <1>5, <1>6 DEF ClockInv

\* The first poll.
LEMMA BeginsKeeps == ClockInv /\ Begins => ClockInv'
<1> SUFFICES ASSUME ClockInv, Begins PROVE ClockInv'
  OBVIOUS
<1>0. /\ op.polls \in Nat /\ op.polls + 1 \in Nat /\ op.at = "POLL" /\ UNCHANGED <<clk, state, out>>
      /\ t2.control \in Nat
  BY DEF ClockInv, ClockTypes, Begins, Polled
<1>1. CASE op.kind \in Movers
  <2> DEFINE Moved(k, a) == /\ t2' = [t2 EXCEPT !.control = k]
                            /\ op' = [op EXCEPT !.polls = op.polls + 1, !.control = k, !.at = a]
  <2>1. \/ op.kind = "INIT" /\ (Moved(8, "POLL") \/ Moved(9, "START"))
        \/ op.kind = "PAUSE" /\ (Moved(11, "POLL") \/ Moved(10, "STOP"))
        \/ op.kind = "RESUME" /\ Moved(11, "START")
    <3>1. [op EXCEPT !.at = "POLL"] = op
      BY <1>0 DEF ClockInv, ClockTypes
    <3>2. \A k : [[op EXCEPT !.polls = @ + 1] EXCEPT !.control = k]
               = [op EXCEPT !.polls = op.polls + 1, !.control = k, !.at = "POLL"]
      BY <1>0 DEF ClockInv, ClockTypes
    <3>3. \A k, a : [[op EXCEPT !.polls = @ + 1] EXCEPT !.control = k, !.at = a]
               = [op EXCEPT !.polls = op.polls + 1, !.control = k, !.at = a]
      BY <1>0 DEF ClockInv, ClockTypes
    <3>4. CASE op.kind = "INIT"
      BY <3>2, <3>3, <3>4 DEF Begins, Write, Counted
    <3>5. CASE op.kind = "PAUSE"
      BY <3>2, <3>3, <3>5 DEF Begins, Write, Counted
    <3>6. CASE op.kind = "RESUME"
      BY <3>2, <3>3, <3>6 DEF Begins, Write, Counted
    <3> QED
      BY <1>1, <3>4, <3>5, <3>6 DEF Movers
  <2>2. PICK k \in {8, 9, 10, 11}, a \in {"POLL", "START", "STOP"} :
          /\ Moved(k, a)
          /\ a = "START" => op.kind \in {"INIT", "RESUME"} /\ (op.kind = "INIT" => k = 9)
          /\ a = "STOP" => op.kind = "PAUSE"
    <3> HIDE DEF Moved
    <3> QED
      BY <2>1
  <2>3. op'.polls = op.polls + 1 /\ op'.control = k /\ op'.at = a /\ t2'.control = k
    BY <2>2 DEF ClockInv, ClockTypes
  <2>4. /\ op' = [op EXCEPT !.at = op'.at, !.polls = op'.polls, !.control = op'.control]
        /\ t2' = [t2 EXCEPT !.control = t2'.control]
    BY <2>2, <2>3 DEF ClockInv, ClockTypes
  <2> QED
    BY <1>0, <1>1, <2>2, <2>3, <2>4, MovesKeep
<1>2. CASE op.kind \notin Movers
  <2>1. t2' = t2 /\ op' = [op EXCEPT !.polls = op.polls + 1, !.at = "LATCH"]
    BY <1>2 DEF Begins, Counted, Movers, ClockInv, ClockTypes
  <2>2. op'.at = "LATCH" /\ op'.polls = op.polls + 1
    BY <2>1 DEF ClockInv, ClockTypes
  <2>3. op' = [op EXCEPT !.at = op'.at, !.polls = op'.polls]
    BY <2>1, <2>2 DEF ClockInv, ClockTypes
  <2>4. On
    BY <1>0, <1>2 DEF ClockInv, ClockRuns
  <2> QED
    BY <1>0, <2>1, <2>2, <2>3, <2>4, ReadingGoesOn DEF Reading
<1> QED
  BY <1>1, <1>2

\* Polling until the timer runs.
LEMMA StartsKeeps == ClockInv /\ Starts => ClockInv'
<1> SUFFICES ASSUME ClockInv, Starts PROVE ClockInv'
  OBVIOUS
<1>0. /\ op.polls \in Nat /\ op.polls + 1 \in Nat /\ op.at = "START" /\ UNCHANGED <<clk, out>>
      /\ t2.control \in Nat /\ op.control \in Nat /\ Observed
  BY DEF ClockInv, ClockTypes, Starts, Polled, ClockRuns
<1>a. op.kind \in {"INIT", "RESUME"} /\ op.kind \in Movers /\ ~state.active
  BY <1>0 DEF ClockInv, ClockRuns, Movers
<1>1. CASE ~t2.run
  <2>1. op' = [op EXCEPT !.polls = op.polls + 1] /\ UNCHANGED <<t2, state>>
    BY <1>1 DEF Starts, Counted
  <2>2. op'.polls = op.polls + 1 /\ op'.control = op.control /\ op'.at = op.at
    BY <2>1 DEF ClockInv, ClockTypes
  <2>3. /\ op' = [op EXCEPT !.at = op'.at, !.polls = op'.polls, !.control = op'.control]
        /\ t2' = [t2 EXCEPT !.control = t2'.control]
    BY <2>1, <2>2 DEF ClockInv, ClockTypes
  <2>4. op.kind = "INIT" => op.control = 9
    BY <1>0 DEF ClockInv, ClockRuns
  <2> QED
    BY <1>0, <1>a, <2>1, <2>2, <2>3, <2>4, MovesKeep
<1>2. CASE t2.run /\ op.kind = "INIT"
  <2>1. op' = [op EXCEPT !.polls = op.polls + 1, !.at = "LATCH"] /\ UNCHANGED <<t2, state>>
    BY <1>2 DEF Starts, Counted, ClockInv, ClockTypes
  <2>2. op'.at = "LATCH" /\ op'.polls = op.polls + 1
    BY <2>1 DEF ClockInv, ClockTypes
  <2>3. op' = [op EXCEPT !.at = op'.at, !.polls = op'.polls]
    BY <2>1, <2>2 DEF ClockInv, ClockTypes
  <2>4. On
    BY <1>0, <1>2 DEF ClockInv, ClockRuns, Observed, On
  <2> QED
    BY <1>0, <2>1, <2>2, <2>3, <2>4, ReadingGoesOn DEF Reading
<1>3. CASE t2.run /\ op.kind = "RESUME" /\ t2.control = 11
  <2>1. /\ op' = [op EXCEPT !.polls = op.polls + 1, !.control = 9] /\ UNCHANGED state
        /\ t2' = [t2 EXCEPT !.control = 9]
    BY <1>3 DEF Starts, Counted, Write, ClockInv, ClockTypes
  <2>2. op'.polls = op.polls + 1 /\ op'.control = 9 /\ op'.at = op.at /\ t2'.control = 9
    BY <2>1 DEF ClockInv, ClockTypes
  <2>3. /\ op' = [op EXCEPT !.at = op'.at, !.polls = op'.polls, !.control = op'.control]
        /\ t2' = [t2 EXCEPT !.control = t2'.control]
    BY <2>1, <2>2 DEF ClockInv, ClockTypes
  <2> QED
    BY <1>0, <1>a, <2>1, <2>2, <2>3, MovesKeep
<1>4. CASE t2.run /\ op.kind = "RESUME" /\ t2.control # 11
  <2>1. op' = NoCall /\ state' = [state EXCEPT !.paused = FALSE] /\ UNCHANGED t2
    BY <1>4 DEF Starts
  <2>2. state' \in [fault : BOOLEAN, ready : BOOLEAN, active : BOOLEAN, paused : BOOLEAN]
        /\ ~state'.active
    BY <1>a, <2>1 DEF ClockInv, ClockTypes
  <2> QED
    BY <1>0, <2>1, <2>2, ClockEnds
<1> QED
  BY <1>a, <1>1, <1>2, <1>3, <1>4

\* Polling until the timer has stopped.
LEMMA StopsKeeps == ClockInv /\ Stops => ClockInv'
<1> SUFFICES ASSUME ClockInv, Stops PROVE ClockInv'
  OBVIOUS
<1>0. /\ op.polls \in Nat /\ op.polls + 1 \in Nat /\ op.at = "STOP" /\ UNCHANGED <<clk, t2, out>>
      /\ t2.control \in Nat /\ op.control \in Nat
  BY DEF ClockInv, ClockTypes, Stops, Polled
<1>a. op.kind = "PAUSE" /\ op.kind \in Movers /\ ~state.active
  BY <1>0 DEF ClockInv, ClockRuns, Movers
<1>1. CASE t2.run
  <2>1. op' = [op EXCEPT !.polls = op.polls + 1] /\ UNCHANGED state
    BY <1>1 DEF Stops, Counted
  <2>2. op'.polls = op.polls + 1 /\ op'.control = op.control /\ op'.at = op.at
    BY <2>1 DEF ClockInv, ClockTypes
  <2>3. /\ op' = [op EXCEPT !.at = op'.at, !.polls = op'.polls, !.control = op'.control]
        /\ t2' = [t2 EXCEPT !.control = t2'.control]
    BY <1>0, <2>1, <2>2 DEF ClockInv, ClockTypes
  <2> QED
    BY <1>0, <1>a, <2>1, <2>2, <2>3, MovesKeep
<1>2. CASE ~t2.run
  <2>1. op' = NoCall /\ state' = [state EXCEPT !.paused = TRUE]
    BY <1>2 DEF Stops
  <2>2. /\ state' \in [fault : BOOLEAN, ready : BOOLEAN, active : BOOLEAN, paused : BOOLEAN]
        /\ ~state'.active
    BY <1>a, <2>1 DEF ClockInv, ClockTypes
  <2> QED
    BY <1>0, <2>1, <2>2, ClockEnds
<1> QED
  BY <1>1, <1>2

\* The latch: a low byte that is not the last of its range belongs to the upper bytes.
LEMMA LatchKeeps == ASSUME ClockInv, LatchBytes, BYTE \in Nat \ {0} PROVE ClockInv'
<1>0. op.at \in {"LATCH", "RELATCH"} /\ UNCHANGED <<clk, t2, state, out>> /\ On /\ clk \in Nat
  BY DEF LatchBytes, ClockInv, ClockRuns, ClockTypes, Reading
<1> DEFINE low == clk % BYTE
<1>1. \/ op' = NoCall
      \/ \E a \in {"RELATCH", "AGAIN"} : op' = [op EXCEPT !.at = a]
      \/ op' = [op EXCEPT !.at = "BYTES", !.low = low, !.upper = clk]
  BY <1>0 DEF LatchBytes, Coherent, On
<1>2. low \in Int
  BY <1>0
<1> HIDE DEF low
<1>3. CASE op' = NoCall
  <2>1. /\ state' \in [fault : BOOLEAN, ready : BOOLEAN, active : BOOLEAN, paused : BOOLEAN]
        /\ state'.active => state'.ready /\ On
    BY <1>0 DEF ClockInv, ClockRuns, ClockTypes
  <2> QED
    BY <1>0, <1>3, <2>1, ClockEnds
<1>4. CASE \E a \in {"RELATCH", "AGAIN"} : op' = [op EXCEPT !.at = a]
  <2>1. PICK a \in {"RELATCH", "AGAIN"} : op' = [op EXCEPT !.at = a]
    BY <1>4
  <2>2. op'.at = a /\ op'.polls = op.polls /\ op.polls \in Nat
    BY <2>1 DEF ClockInv, ClockTypes
  <2>3. op' = [op EXCEPT !.at = op'.at, !.polls = op'.polls]
    BY <2>1, <2>2 DEF ClockInv, ClockTypes
  <2> QED
    BY <1>0, <2>2, <2>3, ReadingGoesOn DEF Reading
<1>5. CASE op' = [op EXCEPT !.at = "BYTES", !.low = low, !.upper = clk]
  <2>1. /\ op'.at = "BYTES" /\ op'.low = low /\ op'.upper = clk /\ op'.kind = op.kind
        /\ op'.from = op.from
        /\ op' \in [kind : Kinds \cup {"NONE"}, control : Nat, polls : Nat, from : Nat, low : Int,
                    upper : Int, at : Reading \cup {"NONE", "ENTER", "POLL", "START", "STOP"}]
    <3>1. /\ op \in [kind : Kinds \cup {"NONE"}, control : Nat, polls : Nat, from : Nat, low : Int,
                     upper : Int, at : Reading \cup {"NONE", "ENTER", "POLL", "START", "STOP"}]
          /\ clk \in Int /\ "BYTES" \in Reading
      BY DEF ClockInv, ClockTypes, Reading
    <3> QED
      BY <1>2, <1>5, <3>1
  <2>2. ClockTypes'
    BY <1>0, <2>1 DEF ClockInv, ClockTypes
  <2>3. ClockRuns'
    BY <1>0, <2>1 DEF ClockInv, ClockRuns, On, Reading, Movers
  <2>4. Staged'
    BY <1>0, <2>1 DEF ClockInv, ClockTypes, Staged, low
  <2>5. StampIsTrue'
    BY <1>0 DEF ClockInv, StampIsTrue, Fine, Periods
  <2> QED
    BY <2>2, <2>3, <2>4, <2>5 DEF ClockInv
<1> QED
  BY <1>1, <1>3, <1>4, <1>5

\* The call ends with the stamp it staged.
LEMMA StampedEnds ==
  ASSUME ClockInv, op.at \in {"BYTES", "CHECK"}, op' = NoCall, UNCHANGED <<clk, t2>>, out' = Stamp,
         BYTE \in Nat \ {0},
         state' \in [fault : BOOLEAN, ready : BOOLEAN, active : BOOLEAN, paused : BOOLEAN],
         state'.active => state'.ready
  PROVE  ClockInv'
<1>0. On
  BY DEF ClockInv, ClockRuns, Reading
<1>1. ClockTypes'
  BY DEF ClockInv, ClockTypes, NoCall, Kinds, Full, Reading
<1>2. ClockRuns' /\ Staged'
  BY <1>0 DEF ClockInv, ClockRuns, Staged, NoCall, Reading, On, Movers
<1>3. StampIsTrue'
  BY StampHolds DEF ClockInv
<1> QED
  BY <1>1, <1>2, <1>3 DEF ClockInv

\* The upper bytes.
LEMMA BytesKeeps == ASSUME ClockInv, Bytes, BYTE \in Nat \ {0} PROVE ClockInv'
<1>0. op.at = "BYTES" /\ UNCHANGED <<clk, t2, state>> /\ On
  BY DEF Bytes, ClockInv, ClockRuns, Reading
<1>1. CASE op.kind = "HANDOFF"
  BY <1>0, <1>1, StampedEnds DEF Bytes, ClockInv, ClockTypes, ClockRuns
<1>2. CASE op.kind # "HANDOFF"
  <2>1. out' = out /\ op' = [op EXCEPT !.at = "CHECK"]
    BY <1>2 DEF Bytes
  <2>2. op'.at = "CHECK" /\ op'.polls = op.polls /\ op.polls \in Nat
    BY <2>1 DEF ClockInv, ClockTypes
  <2>3. op' = [op EXCEPT !.at = op'.at, !.polls = op'.polls]
    BY <2>1, <2>2 DEF ClockInv, ClockTypes
  <2> QED
    BY <1>0, <2>1, <2>2, <2>3, ReadingGoesOn DEF Reading
<1> QED
  BY <1>1, <1>2

\* Another poll for another latch.
LEMMA AgainKeeps == ClockInv /\ Again => ClockInv'
<1> SUFFICES ASSUME ClockInv, Again PROVE ClockInv'
  OBVIOUS
<1>0. op.at = "AGAIN" /\ UNCHANGED <<clk, t2, out>> /\ On /\ op.polls + 1 \in Nat
  BY DEF Again, Polled, ClockInv, ClockRuns, ClockTypes, Reading
<1>2. op' = [op EXCEPT !.polls = op.polls + 1, !.at = "LATCH"] /\ UNCHANGED state
  BY <1>0 DEF Again, Counted, On, ClockInv, ClockTypes
<1>3. op'.at = "LATCH" /\ op'.polls = op.polls + 1
  BY <1>2 DEF ClockInv, ClockTypes
<1>4. op' = [op EXCEPT !.at = op'.at, !.polls = op'.polls]
  BY <1>2, <1>3 DEF ClockInv, ClockTypes
<1> QED
  BY <1>0, <1>2, <1>3, <1>4, ReadingGoesOn DEF Reading

\* The stamp is published.
LEMMA PublishesKeeps == ASSUME ClockInv, Publishes, BYTE \in Nat \ {0} PROVE ClockInv'
<1>0. op.at = "CHECK" /\ UNCHANGED <<clk, t2>> /\ On
  BY DEF Publishes, Polled, ClockInv, ClockRuns, Reading
<1>1. /\ op' = NoCall /\ out' = (IF op.kind = "INIT" THEN out ELSE Stamp)
      /\ state' = [state EXCEPT !.ready = TRUE,
                     !.active = op.kind = "BEGIN" \/ (@ /\ op.kind # "END")]
  BY <1>0 DEF Publishes, On
<1>2. /\ state' \in [fault : BOOLEAN, ready : BOOLEAN, active : BOOLEAN, paused : BOOLEAN]
      /\ state'.ready
  BY <1>1 DEF ClockInv, ClockTypes
<1>3. CASE op.kind = "INIT"
  BY <1>0, <1>1, <1>2, <1>3, ClockEnds
<1>4. CASE op.kind # "INIT"
  BY <1>0, <1>1, <1>2, <1>4, StampedEnds
<1> QED
  BY <1>3, <1>4

\* The timer goes on, and settles only where no call reads it.
LEMMA TimerKeeps == ClockInv /\ (Ticks \/ Settles) => ClockInv'
<1> SUFFICES ASSUME ClockInv, Ticks \/ Settles PROVE ClockInv'
  OBVIOUS
<1>1. CASE Ticks
  <2>1. clk' = clk + 1 /\ UNCHANGED <<t2, state, op, out>> /\ clk \in Nat
    BY <1>1 DEF Ticks, ClockInv, ClockTypes
  <2>2. ClockTypes'
    BY <2>1 DEF ClockInv, ClockTypes
  <2>3. ClockRuns'
    BY <2>1 DEF ClockInv, ClockRuns, On
  <2>4. Staged'
    BY <2>1 DEF ClockInv, Staged
  <2>5. StampIsTrue'
    BY <2>1 DEF ClockInv, StampIsTrue, Fine, Periods
  <2> QED
    BY <2>2, <2>3, <2>4, <2>5 DEF ClockInv
<1>2. CASE Settles
  <2>1. /\ t2.run # (t2.control \in {9, 11}) /\ UNCHANGED <<clk, state, op, out>>
        /\ t2' = [t2 EXCEPT !.run = ~@, !.stopped = IF t2.run THEN clk ELSE 0]
    BY <1>2 DEF Settles
  <2>2. ~On
    <3>1. CASE t2.control = 9
      <4>1. t2.control \in {9, 11}
        BY <3>1
      <4>2. ~t2.run
        BY <2>1, <4>1, Zenon DEF ClockInv, ClockTypes
      <4> QED
        BY <4>2 DEF On
    <3> QED
      BY <3>1 DEF On
  <2>3. t2' \in [control : Nat, run : BOOLEAN, stopped : Nat]
    BY <2>1 DEF ClockInv, ClockTypes
  <2>4. ClockTypes'
    BY <2>1, <2>3 DEF ClockInv, ClockTypes
  <2>5. ClockRuns'
    BY <2>1, <2>2 DEF ClockInv, ClockRuns
  <2>6. Staged' /\ StampIsTrue'
    BY <2>1 DEF ClockInv, Staged, StampIsTrue, Fine, Periods
  <2> QED
    BY <2>4, <2>5, <2>6 DEF ClockInv
<1> QED
  BY <1>1, <1>2

\* Every step of the clock keeps the invariant.
LEMMA ClockStep == BYTE \in Nat \ {0} /\ ClockInv /\ [TimeNext]_timeVars => ClockInv'
<1> SUFFICES ASSUME BYTE \in Nat \ {0}, ClockInv, [TimeNext]_timeVars PROVE ClockInv'
  OBVIOUS
<1>1. CASE \E kind \in Kinds : Call(kind)
  BY <1>1, CallKeeps
<1>2. CASE TimePollFault \/ LatchLimit
  BY <1>2, FailureKeeps DEF TimePollFault, LatchLimit
<1>3. CASE LatchBytes \/ Bytes \/ Publishes
  BY <1>3, LatchKeeps, BytesKeeps, PublishesKeeps
<1>4. CASE UNCHANGED timeVars
  BY <1>4 DEF timeVars, ClockInv, ClockTypes, ClockRuns, On, Staged, StampIsTrue, Fine, Periods
<1> QED
  BY <1>1, <1>2, <1>3, <1>4, EnterKeeps, BeginsKeeps, StartsKeeps, StopsKeeps, AgainKeeps, TimerKeeps
     DEF TimeNext

(* The reads of mac_time.c (operate, mac_time_attempt_read and                  *)
(* mac_time_handoff_read): a stamp is one moment of the call, for every width   *)
(* of the low byte and every number of periods, whatever the timer does between *)
(* two register accesses.                                                       *)
THEOREM StampsAreTrue == ASSUME BYTE \in Nat \ {0} PROVE TimeSpec => []StampIsTrue
<1>1. TimeInit => ClockInv
  BY ClockInit
<1>2. ClockInv /\ [TimeNext]_timeVars => ClockInv'
  BY ClockStep
<1>3. ClockInv => StampIsTrue
  BY DEF ClockInv
<1> QED
  BY <1>1, <1>2, <1>3, PTL DEF TimeSpec

-------------------------------------------------------------------------------
(*** Sets of numbers.                                                         ***)

\* A set of naturals that is not empty has a least element.
LEMMA LeastExists ==
  ASSUME NEW T, T \subseteq Nat, T # {}
  PROVE  \E x \in T : \A y \in T : x <= y
<1>1. \E x \in T : \A y \in T : ~(<<y, x>> \in OpToRel(<, Nat))
  BY NatLessThanWellFounded, WFMin
<1>2. PICK x \in T : \A y \in T : ~(<<y, x>> \in OpToRel(<, Nat))
  BY <1>1
<1>3. \A y \in T : <<y, x>> \in Nat \X Nat
  OBVIOUS
<1>4. \A y \in T : ~(y < x)
  BY <1>2, <1>3 DEF OpToRel
<1>5. \A y \in T : x <= y
  BY <1>4
<1> QED
  BY <1>5

-------------------------------------------------------------------------------
(*** MacScan: the choice of a parent.                                         ***)

\* In the wrapping order, of two ids that are not older than a third the one the
\* other does not follow is at least as far from it.
LEMMA WrappingOrder ==
  ASSUME UPDATES \in Nat \ {0}, NEW x \in Int, NEW y \in Int, NEW m \in Int,
         Newer(x, m) < HALF, Newer(y, m) < HALF, Newer(x, y) < HALF
  PROVE  Newer(y, m) <= Newer(x, m)
<1> DEFINE a == (x - m) % UPDATES
           p == (x - m) \div UPDATES
           b == (y - m) % UPDATES
           q == (y - m) \div UPDATES
           h == UPDATES \div 2
           k == p - q - 1
<1>1. a \in 0..(UPDATES - 1) /\ p \in Int /\ x - m = UPDATES * p + a
  BY DivMod
<1>2. b \in 0..(UPDATES - 1) /\ q \in Int /\ y - m = UPDATES * q + b
  BY DivMod
<1>3. h \in Int /\ 2 * h <= UPDATES
  OBVIOUS
<1>4. a < h /\ b < h /\ (x - y) % UPDATES < h
  BY DEF Newer, HALF
<1> HIDE DEF a, p, b, q, h
<1>5. CASE a < b
  <2>1. k \in Int /\ UPDATES * p - UPDATES * q = UPDATES * k + UPDATES
    BY <1>1, <1>2
  <2> HIDE DEF k
  <2> DEFINE r == a - b + UPDATES
  <2>2. r \in 0..(UPDATES - 1) /\ r > h
    BY <1>1, <1>2, <1>3, <1>4, <1>5
  <2>3. x - y = UPDATES * k + r
    <3>1. x - y = (UPDATES * p + a) - (UPDATES * q + b)
      BY <1>1, <1>2
    <3>2. UPDATES * p \in Int /\ UPDATES * q \in Int /\ UPDATES * k \in Int
      BY <1>1, <1>2, <2>1
    <3> QED
      BY <1>1, <1>2, <2>1, <3>1, <3>2
  <2> HIDE DEF r
  <2>4. (x - y) % UPDATES = r
    BY <2>1, <2>2, <2>3, ModOf
  <2> QED
    BY <1>3, <1>4, <2>2, <2>4
<1>6. CASE ~(a < b)
  BY <1>1, <1>2, <1>6 DEF Newer, a, b
<1> QED
  BY <1>5, <1>6

\* The networks in the table have an update id.
IsTable(t) == \E S : t \in Seq(S) /\ \A c \in S : c.update \in Int

\* The empty table.
LEMMA TableInit == IsTable(<<>>)
<1> DEFINE S == {c \in {} : TRUE}
<1>1. <<>> \in Seq(S) /\ \A c \in S : c.update \in Int
  OBVIOUS
<1> HIDE DEF S
<1> QED
  BY <1>1 DEF IsTable

\* nwk_candidates_consider keeps it a table.
LEMMA ConsiderKeeps ==
  ASSUME NEW t, IsTable(t), NEW c, c.update \in Int
  PROVE  IsTable(Consider(t, c))
<1>1. PICK S : t \in Seq(S) /\ \A x \in S : x.update \in Int
  BY DEF IsTable
<1> DEFINE U == S \cup {c}
<1>2. t \in Seq(U) /\ c \in U /\ \A x \in U : x.update \in Int
  BY <1>1
<1> HIDE DEF U
<1>3. ASSUME NEW i PROVE [t EXCEPT ![i] = c] \in Seq(U)
  <2> DEFINE n == Len(t)
             r == [t EXCEPT ![i] = c]
  <2>1. n \in Nat /\ t \in [1..n -> U]
    BY <1>2
  <2> HIDE DEF n
  <2>2. r \in [1..n -> U]
    BY <1>2, <2>1
  <2> HIDE DEF r
  <2>3. r \in Seq(U)
    BY <2>1, <2>2
  <2> QED
    BY <2>3 DEF r
<1>4. Append(t, c) \in Seq(U)
  BY <1>2
<1>5. ASSUME Known(t, c.id)
      PROVE  Without(t, At(t, c.id)) \in Seq(U)
  <2> DEFINE i == At(t, c.id)
  <2>1. i \in DOMAIN t
    BY <1>5 DEF Known, At
  <2> HIDE DEF i
  <2>2. i \in 1..Len(t) /\ Len(t) \in Nat
    BY <1>2, <2>1
  <2>3. SubSeq(t, 1, i - 1) \in Seq(U)
    BY <1>2, <2>2
  <2>4. SubSeq(t, i + 1, Len(t)) \in Seq(U)
    BY <1>2, <2>2
  <2> QED
    BY <2>3, <2>4 DEF Without, i
<1>6. Consider(t, c) \in Seq(U)
  <2>1. CASE Known(t, c.id) /\ ~c.eligible
    BY <1>5, <2>1 DEF Consider
  <2>2. CASE ~(Known(t, c.id) /\ ~c.eligible)
    BY <1>2, <1>3, <1>4, <2>2 DEF Consider
  <2> QED
    BY <2>1, <2>2
<1> QED
  BY <1>2, <1>6 DEF IsTable

\* nwk_parent_select takes one of the dominating candidates.
LEMMA SelectedDominates ==
  ASSUME IsTable(table), NEW cost \in [DOMAIN table -> {1, 4}], NEW minimum,
         Select(table, cost, minimum) # 0
  PROVE  Select(table, cost, minimum) \in Dominating(table, Potential(table, cost, minimum))
<1> DEFINE p == Potential(table, cost, minimum)
           d == Dominating(table, p)
<1>1. d # {} /\ Select(table, cost, minimum) =
        CHOOSE i \in d : \A j \in d : cost[i] < cost[j] \/ (cost[i] = cost[j] /\ i <= j)
  BY DEF Select
<1>2. DOMAIN table \subseteq Nat
  <2>1. PICK S : table \in Seq(S)
    BY DEF IsTable
  <2> QED
    BY <2>1
<1>3. d \subseteq DOMAIN table /\ \A i \in d : cost[i] <= 3
  BY DEF Dominating, Potential
<1> HIDE DEF d, p
<1>4. \A i \in d : cost[i] = 1
  BY <1>3
<1>5. PICK i \in d : \A j \in d : i <= j
  BY <1>1, <1>2, <1>3, LeastExists
<1>6. \E e \in d : \A j \in d : cost[e] < cost[j] \/ (cost[e] = cost[j] /\ e <= j)
  BY <1>4, <1>5
<1> QED
  BY <1>1, <1>6 DEF d, p

\* Of such a table the newest is chosen.
LEMMA TableChoice == UPDATES \in Nat \ {0} /\ IsTable(table) => ChosenIsNewest
<1> SUFFICES ASSUME UPDATES \in Nat \ {0}, IsTable(table),
                    NEW cost \in [DOMAIN table -> {1, 4}], NEW minimum \in 0..UPDATES-1,
                    Select(table, cost, minimum) # 0
             PROVE  LET c == Select(table, cost, minimum) IN
                    /\ Newer(table[c].update, minimum) < HALF
                    /\ \A j \in DOMAIN table :
                         /\ cost[j] <= 3
                         /\ Newer(table[j].update, minimum) < HALF
                         => Newer(table[j].update, minimum) <= Newer(table[c].update, minimum)
  BY DEF ChosenIsNewest
<1> DEFINE c == Select(table, cost, minimum)
<1>1. c \in Dominating(table, Potential(table, cost, minimum))
  BY SelectedDominates
<1> HIDE DEF c
<1>2. /\ c \in DOMAIN table /\ Newer(table[c].update, minimum) < HALF
      /\ \A j \in DOMAIN table : cost[j] <= 3 /\ Newer(table[j].update, minimum) < HALF =>
           Newer(table[c].update, table[j].update) < HALF
  BY <1>1 DEF Dominating, Potential
<1>3. \A j \in DOMAIN table : table[j].update \in Int
  <2>1. PICK S : table \in Seq(S) /\ \A x \in S : x.update \in Int
    BY DEF IsTable
  <2>2. \A j \in DOMAIN table : table[j] \in S
    BY <2>1
  <2> QED
    BY <2>1, <2>2
<1>4. minimum \in Int
  OBVIOUS
<1>5. \A j \in DOMAIN table : cost[j] <= 3 /\ Newer(table[j].update, minimum) < HALF
        => Newer(table[j].update, minimum) <= Newer(table[c].update, minimum)
  BY <1>2, <1>3, <1>4, WrappingOrder
<1> QED
  BY <1>2, <1>5 DEF c

-------------------------------------------------------------------------------
(*** MacScan: the sweep.                                                      ***)

ScanFields == {"phase", "channel", "issued", "token", "reason", "cleanup", "stopping", "asked",
               "remaining", "unscanned", "sent", "lossy", "retries", "busy"}
RadioFields == {"channel", "beacons", "rx"}

\* The channel at hand has not been scanned and does not come again.
Ahead(s) ==
  s.phase \in {"CONFIG", "SUBMIT", "TX", "OPEN", "RX"} =>
    s.channel \in s.unscanned /\ s.channel \notin s.remaining
\* What was granted is for the phase, and apart from the restoration, which may
\* overtake a report, a grant and a report are never out together.
Granted(s, g, m) ==
  /\ g.kind # "NONE" =>
       /\ g.kind = GrantKind(s.phase) /\ s.phase \in {"CONFIG", "TX", "OPEN", "RESTORE"}
       /\ s.phase # "RESTORE" => m.kind = "NONE" /\ s.issued
  /\ ~s.issued /\ s.phase \in {"CONFIG", "TX", "OPEN"} => m.kind = "NONE" /\ g.kind = "NONE"
  /\ s.phase \in {"IDLE", "SUBMIT", "DONE"} => m.kind = "NONE"
\* A report tells the state the radio is still in, and of the end of a window
\* only after the sweep.
Told(m, r, w) ==
  /\ m.kind \notin {"NONE", "TX"} => m.state = r
  /\ m.kind = "CLOSED" /\ m.ended => m.state.channel \in w
\* The radio is where the request is sent, and in the end where it was.
Placed(s, r, t) ==
  /\ s.phase \in {"SUBMIT", "TX"} => r.channel = s.channel
  /\ s.phase = "DONE" => r = Saved /\ t.phase = "IDLE"
\* What holds in every phase.
Swept(s, m, r, w) ==
  /\ s = [f \in ScanFields |-> s[f]] /\ r = [f \in RadioFields |-> r[f]]
  /\ s.remaining \subseteq s.unscanned /\ s.unscanned \subseteq s.asked /\ s.asked \subseteq Channels
  /\ s.asked \ s.unscanned \subseteq w /\ Told(m, r, w)
ScanOk(s, g, m, r, w, t) == Swept(s, m, r, w) /\ Ahead(s) /\ Granted(s, g, m) /\ Placed(s, r, t)

\* The inductive invariant.
ScanInv == ScanOk(scan, grant, report, receiver, swept, engine) /\ IsTable(table)

\* mac_scan_init, before any scan.
LEMMA ScanInitHolds == ScanInit => ScanInv
<1> SUFFICES ASSUME ScanInit PROVE ScanInv
  OBVIOUS
<1>1. /\ scan = [f \in ScanFields |-> scan[f]] /\ receiver = [f \in RadioFields |-> receiver[f]]
      /\ scan.phase = "IDLE" /\ scan.asked = {} /\ scan.remaining = {} /\ scan.unscanned = {}
      /\ report.kind = "NONE" /\ grant.kind = "NONE" /\ table = <<>>
  BY DEF ScanInit, ScanFields, RadioFields, Saved, NoMail, NoGrant
<1>2. ScanOk(scan, grant, report, receiver, swept, engine)
  BY <1>1 DEF ScanOk, Swept, Ahead, Granted, Told, Placed
<1> QED
  BY <1>1, <1>2, TableInit DEF ScanInv

\* Only these fields matter.
Alike(s, c) ==
  /\ s = [f \in ScanFields |-> s[f]]
  /\ s.phase = c.phase /\ s.channel = c.channel /\ s.issued = c.issued
  /\ s.asked = c.asked /\ s.remaining = c.remaining /\ s.unscanned = c.unscanned
\* Two scans that are alike are both good.
LEMMA AlikeOk ==
  ASSUME NEW s, NEW c, NEW g, NEW m, NEW r, NEW w, NEW t, Alike(s, c), ScanOk(c, g, m, r, w, t)
  PROVE  ScanOk(s, g, m, r, w, t)
<1>1. Ahead(s)
  BY DEF Alike, ScanOk, Ahead
<1>2. Granted(s, g, m)
  BY DEF Alike, ScanOk, Granted
<1>3. Placed(s, r, t)
  BY DEF Alike, ScanOk, Placed
<1> QED
  BY <1>1, <1>2, <1>3 DEF Alike, ScanOk, Swept

\* What a step hands to the publication: the restoration about to be granted, the
\* end, or a state that the present grant fits.
Publishable(s, m, r, w, t) ==
  /\ ScanOk(s, NoGrant, m, r, w, t)
  /\ (s.phase = "RESTORE" /\ ~s.issued) \/ s.phase \in {"DONE", "FAULT"} \/ ScanOk(s, grant, m, r, w, t)

\* A grant is for the phase the scan is in.
LEMMA GrantKeeps ==
  ASSUME NEW s, Grant(s), NEW m, NEW r, NEW w, NEW t, ScanOk(s, NoGrant, m, r, w, t), ~s.issued,
         s.phase \in {"CONFIG", "TX", "OPEN", "RESTORE"}
  PROVE  ScanOk(scan', grant', m, r, w, t)
<1>1. scan' = [[s EXCEPT !.issued = TRUE] EXCEPT !.token = (@ + 1) % ScanTokens] /\ grant'.kind = GrantKind(s.phase)
  BY DEF Grant, Tick
<1>2. s = [f \in ScanFields |-> s[f]]
  BY DEF ScanOk, Swept
<1>3. /\ scan' = [f \in ScanFields |-> scan'[f]] /\ scan'.phase = s.phase
      /\ scan'.channel = s.channel /\ scan'.issued = TRUE /\ scan'.asked = s.asked
      /\ scan'.remaining = s.remaining /\ scan'.unscanned = s.unscanned
  BY <1>1, <1>2 DEF ScanFields
<1>4. Ahead(scan') /\ Placed(scan', r, t)
  BY <1>3 DEF ScanOk, Ahead, Placed
<1>5. Granted(scan', grant', m)
  BY <1>1, <1>3 DEF ScanOk, Granted
<1>6. Swept(scan', m, r, w)
  BY <1>3 DEF ScanOk, Swept
<1> QED
  BY <1>4, <1>5, <1>6 DEF ScanOk

\* A state that is published is a good one.
LEMMA PublishKeeps ==
  ASSUME NEW s, Publish(s), NEW m, NEW r, NEW w, NEW t, Publishable(s, m, r, w, t)
  PROVE  ScanOk(scan', grant', m, r, w, t)
<1>1. CASE ~s.issued /\ (s.phase = "RESTORE" \/ (s.phase = "TX" /\ scan.phase = "TX"))
  <2>1. Grant(s)
    BY <1>1 DEF Publish
  <2> QED
    BY <1>1, <2>1, GrantKeeps DEF Publishable
<1>2. CASE ~(~s.issued /\ (s.phase = "RESTORE" \/ (s.phase = "TX" /\ scan.phase = "TX")))
  <2>1. scan' = s /\ grant' = IF s.phase \in {"DONE", "FAULT"} THEN NoGrant ELSE grant
    BY <1>2 DEF Publish
  <2> QED
    BY <1>2, <2>1 DEF Publishable
<1> QED
  BY <1>1, <1>2

\* A scan that gives up restores at once, or when the engine is done.
LEMMA StopOk ==
  ASSUME NEW c, NEW reason, NEW m, NEW r, NEW w, NEW t, Swept(c, m, r, w),
         c.phase = "TX" => ScanOk(c, NoGrant, m, r, w, t) /\ ScanOk(c, grant, m, r, w, t)
  PROVE  Publishable(Stop(c, reason), m, r, w, t)
<1> DEFINE s == Stop(c, reason)
<1>0. c = [f \in ScanFields |-> c[f]]
  BY DEF Swept
<1>1. CASE c.phase = "TX"
  <2>1. Alike(s, c)
    BY <1>0, <1>1 DEF Stop, Alike, ScanFields
  <2> QED
    BY <1>1, <2>1, AlikeOk DEF Publishable
<1>2. CASE c.phase # "TX"
  <2>1. /\ s = [f \in ScanFields |-> s[f]] /\ s.phase = "RESTORE" /\ ~s.issued
        /\ s.asked = c.asked /\ s.remaining = c.remaining /\ s.unscanned = c.unscanned
    BY <1>0, <1>2 DEF Stop, ScanFields
  <2> HIDE DEF s
  <2>2. ScanOk(s, NoGrant, m, r, w, t)
    BY <2>1 DEF ScanOk, Swept, Ahead, Granted, Placed, NoGrant
  <2> QED
    BY <2>1, <2>2 DEF Publishable, s
<1> QED
  BY <1>1, <1>2

\* A scan that fails changes nothing else.
LEMMA FaultOk ==
  ASSUME NEW c, NEW reason, NEW m, NEW r, NEW w, NEW t, Swept(c, m, r, w)
  PROVE  Publishable(ScanFault(c, reason), m, r, w, t)
<1> DEFINE s == ScanFault(c, reason)
<1>0. c = [f \in ScanFields |-> c[f]]
  BY DEF Swept
<1>1. /\ s = [f \in ScanFields |-> s[f]] /\ s.phase = "FAULT"
      /\ s.asked = c.asked /\ s.remaining = c.remaining /\ s.unscanned = c.unscanned
  BY <1>0 DEF ScanFault, ScanFields
<1> HIDE DEF s
<1>2. ScanOk(s, NoGrant, m, r, w, t)
  BY <1>1 DEF ScanOk, Swept, Ahead, Granted, Placed, NoGrant
<1> QED
  BY <1>1, <1>2 DEF Publishable, s

\* The lowest of the channels that remain is one of them.
LEMMA LowestRemains ==
  ASSUME NEW T, T \subseteq Nat, T # {}
  PROVE  Lowest(T) \in T
  BY LeastExists DEF Lowest

\* The next channel, or the restoration.
LEMMA NextOk ==
  ASSUME Channels \subseteq Nat, NEW c, NEW m, NEW r, NEW w, NEW t, Swept(c, m, r, w),
         m.kind = "NONE", grant.kind = "NONE", c.phase # "TX"
  PROVE  Publishable(NextChannel(c), m, r, w, t)
<1> DEFINE s == NextChannel(c)
           l == Lowest(c.remaining)
<1>0. c = [f \in ScanFields |-> c[f]]
  BY DEF Swept
<1>1. CASE c.remaining = {}
  BY <1>1, StopOk DEF NextChannel
<1>2. CASE c.remaining # {}
  <2>1. /\ s = [f \in ScanFields |-> s[f]] /\ s.phase = "CONFIG" /\ ~s.issued
        /\ s.asked = c.asked /\ s.remaining = c.remaining \ {l} /\ s.unscanned = c.unscanned
        /\ s.channel = l
    BY <1>0, <1>2 DEF NextChannel, ScanFields
  <2>2. l \in c.remaining
    BY <1>2, LowestRemains DEF Swept
  <2> HIDE DEF s, l
  <2>3. Ahead(s) /\ Swept(s, m, r, w)
    BY <2>1, <2>2 DEF Swept, Ahead
  <2>4. Granted(s, NoGrant, m) /\ Granted(s, grant, m) /\ Placed(s, r, t)
    BY <2>1 DEF Granted, Placed, NoGrant
  <2>5. ScanOk(s, NoGrant, m, r, w, t) /\ ScanOk(s, grant, m, r, w, t)
    BY <2>3, <2>4 DEF ScanOk
  <2> QED
    BY <2>5 DEF Publishable, s
<1> QED
  BY <1>1, <1>2

\* Without its grant the present state is a good one too, and without its report.
LEMMA Lighter ==
  ASSUME NEW s, NEW g, NEW m, NEW r, NEW w, NEW t, ScanOk(s, g, m, r, w, t), NEW n, n \in {m, NoMail}
  PROVE  /\ ScanOk(s, NoGrant, n, r, w, t)
         /\ ScanOk(s, g, n, r, w, t)
<1>1. Granted(s, NoGrant, n) /\ Granted(s, g, n)
  BY DEF ScanOk, Granted, NoGrant, NoMail
<1>2. Swept(s, n, r, w)
  BY DEF ScanOk, Swept, Told, NoMail
<1> QED
  BY <1>1, <1>2 DEF ScanOk

-------------------------------------------------------------------------------
(*** The steps of the scan.                                                   ***)

\* The state as it is, with or without its report.
LEMMA Present ==
  ASSUME ScanInv, NEW n, n \in {report, NoMail}
  PROVE  /\ ScanOk(scan, NoGrant, n, receiver, swept, engine) /\ ScanOk(scan, grant, n, receiver, swept, engine)
         /\ Swept(scan, n, receiver, swept)
         /\ scan = [f \in ScanFields |-> scan[f]]
<1>1. ScanOk(scan, grant, report, receiver, swept, engine)
  BY DEF ScanInv
<1>2. ScanOk(scan, NoGrant, n, receiver, swept, engine) /\ ScanOk(scan, grant, n, receiver, swept, engine)
  BY <1>1, Lighter
<1>3. Swept(scan, n, receiver, swept) /\ scan = [f \in ScanFields |-> scan[f]]
  BY <1>2 DEF ScanOk, Swept
<1> QED
  BY <1>2, <1>3

\* While a report is out, and before the restoration, nothing is granted.
LEMMA OneOut ==
  ASSUME ScanInv
  PROVE  /\ report.kind # "NONE" /\ scan.phase # "RESTORE" => grant.kind = "NONE"
         /\ scan.phase \in {"SUBMIT", "RX", "IDLE", "DONE", "FAULT"} => grant.kind = "NONE"
  BY DEF ScanInv, ScanOk, Granted

\* A step that publishes keeps the invariant.
LEMMA Published ==
  ASSUME ScanInv, NEW s, Publish(s), UNCHANGED <<table, receiver, swept>>,
         Publishable(s, report', receiver, swept, engine')
  PROVE  ScanInv'
<1>1. ScanOk(scan', grant', report', receiver, swept, engine')
  BY PublishKeeps
<1> QED
  BY <1>1 DEF ScanInv

\* mac_scan_start.
LEMMA StartKeeps == ASSUME Channels \subseteq Nat, ScanInv, ScanStart PROVE ScanInv'
<1>1. PICK asked \in (SUBSET Channels) \ {{}} :
        scan' = NextChannel([scan EXCEPT !.asked = asked, !.remaining = asked, !.unscanned = asked])
  BY DEF ScanStart
<1>2. scan.phase = "IDLE" /\ UNCHANGED <<table, engine, grant, report, receiver, swept>>
  BY DEF ScanStart
<1> DEFINE c == [scan EXCEPT !.asked = asked, !.remaining = asked, !.unscanned = asked]
<1>3. /\ c = [f \in ScanFields |-> c[f]] /\ c.asked = asked /\ c.remaining = asked
      /\ c.unscanned = asked /\ c.phase = "IDLE"
  BY <1>2, Present DEF ScanFields
<1> HIDE DEF c
<1>4. Swept(c, report, receiver, swept)
  BY <1>3 DEF ScanInv, ScanOk, Swept
<1>5. report.kind = "NONE" /\ grant.kind = "NONE"
  BY <1>2, OneOut DEF ScanInv, ScanOk, Granted
<1>6. Publishable(NextChannel(c), report, receiver, swept, engine)
  BY <1>3, <1>4, <1>5, NextOk
<1>7. NextChannel(c).phase = "CONFIG"
  BY <1>3 DEF NextChannel, ScanFields
<1>8. ScanOk(NextChannel(c), grant, report, receiver, swept, engine)
  BY <1>6, <1>7 DEF Publishable
<1> QED
  BY <1>1, <1>2, <1>8 DEF ScanInv, c

\* The request is submitted, or refused.
LEMMA SubmitKeeps == ScanInv /\ StepSubmit => ScanInv'
<1> SUFFICES ASSUME ScanInv, StepSubmit PROVE ScanInv'
  OBVIOUS
<1>0. scan.phase = "SUBMIT" /\ UNCHANGED <<table, report, receiver, swept>>
  BY DEF StepSubmit
<1> DEFINE s == Tick([scan EXCEPT !.phase = "TX", !.issued = FALSE])
<1>1. CASE engine' = engine /\ Publish(Stop(scan, "TX_ERROR"))
  <2>1. Publishable(Stop(scan, "TX_ERROR"), report, receiver, swept, engine)
    BY <1>0, Present, StopOk
  <2> QED
    BY <1>0, <1>1, <2>1, Published
<1>2. CASE Publish(s)
  <2>1. /\ s = [f \in ScanFields |-> s[f]] /\ s.phase = "TX" /\ ~s.issued /\ s.channel = scan.channel
        /\ s.asked = scan.asked /\ s.remaining = scan.remaining /\ s.unscanned = scan.unscanned
    BY Present DEF Tick, ScanFields
  <2> HIDE DEF s
  <2>2. report.kind = "NONE" /\ grant.kind = "NONE"
    BY <1>0, OneOut DEF ScanInv, ScanOk, Granted
  <2>3. Ahead(s) /\ Placed(s, receiver, engine') /\ Swept(s, report, receiver, swept)
    BY <1>0, <2>1 DEF ScanInv, ScanOk, Ahead, Placed, Swept
  <2>4. Granted(s, NoGrant, report) /\ Granted(s, grant, report)
    BY <2>1, <2>2 DEF Granted, NoGrant
  <2>5. Publishable(s, report, receiver, swept, engine')
    BY <2>3, <2>4 DEF Publishable, ScanOk
  <2> QED
    BY <1>0, <1>2, <2>5, Published
<1> QED
  BY <1>1, <1>2 DEF StepSubmit

\* A cancellation, a deadline, or the end of the grace.
LEMMA TerminatesKeeps == ScanInv /\ (StepTerminates \/ StepOverdue) => ScanInv'
<1> SUFFICES ASSUME ScanInv, StepTerminates \/ StepOverdue PROVE ScanInv'
  OBVIOUS
<1>0. UNCHANGED <<table, report, receiver, swept, engine>>
  BY DEF StepTerminates, StepOverdue
<1>1. \E why : Publish(Stop(scan, why)) \/ Publish(ScanFault(scan, why))
  BY DEF StepTerminates, StepOverdue
<1>2. PICK why : Publish(Stop(scan, why)) \/ Publish(ScanFault(scan, why))
  BY <1>1
<1>3. /\ Publishable(Stop(scan, why), report, receiver, swept, engine)
      /\ Publishable(ScanFault(scan, why), report, receiver, swept, engine)
  BY Present, StopOk, FaultOk
<1> QED
  BY <1>0, <1>2, <1>3, Published

\* The next action is granted.
LEMMA GrantsKeeps == ScanInv /\ StepGrants => ScanInv'
<1> SUFFICES ASSUME ScanInv, StepGrants PROVE ScanInv'
  OBVIOUS
<1>1. /\ scan.phase \in {"CONFIG", "TX", "OPEN"} /\ ~scan.issued /\ Grant(scan)
      /\ UNCHANGED <<table, report, receiver, swept, engine>>
  BY DEF StepGrants
<1>2. ScanOk(scan', grant', report, receiver, swept, engine)
  BY <1>1, Present, GrantKeeps
<1> QED
  BY <1>1, <1>2 DEF ScanInv

\* A report of an earlier grant is dropped.
LEMMA StaleKeeps == ScanInv /\ StepStale => ScanInv'
<1> SUFFICES ASSUME ScanInv, StepStale PROVE ScanInv'
  OBVIOUS
<1>1. report' = NoMail /\ Publish(scan) /\ UNCHANGED <<table, receiver, swept, engine>>
  BY DEF StepStale
<1>2. Publishable(scan, NoMail, receiver, swept, engine)
  BY Present DEF Publishable
<1> QED
  BY <1>1, <1>2, Published

\* The channel is configured, or was not.
LEMMA ConfiguredKeeps == ScanInv /\ StepConfigured => ScanInv'
<1> SUFFICES ASSUME ScanInv, StepConfigured PROVE ScanInv'
  OBVIOUS
<1>0. /\ report.kind = "CONFIG" /\ report' = NoMail /\ scan.phase = "CONFIG"
      /\ UNCHANGED <<table, receiver, swept, engine>>
  BY DEF StepConfigured, Reported
<1> DEFINE s == [scan EXCEPT !.phase = "SUBMIT"]
<1>1. CASE report.state # State(scan.channel, FALSE)
  <2>1. Publish(Stop(scan, "ADAPTER_ERROR"))
    BY <1>1 DEF StepConfigured
  <2>2. Publishable(Stop(scan, "ADAPTER_ERROR"), NoMail, receiver, swept, engine)
    BY <1>0, Present, StopOk
  <2> QED
    BY <1>0, <2>1, <2>2, Published
<1>2. CASE report.state = State(scan.channel, FALSE)
  <2>1. Publish(s)
    BY <1>2 DEF StepConfigured
  <2>2. /\ s = [f \in ScanFields |-> s[f]] /\ s.phase = "SUBMIT" /\ s.channel = scan.channel
        /\ s.asked = scan.asked /\ s.remaining = scan.remaining /\ s.unscanned = scan.unscanned
    BY Present DEF ScanFields
  <2> HIDE DEF s
  <2>3. receiver.channel = scan.channel
    BY <1>0, <1>2 DEF ScanInv, ScanOk, Swept, Told, State
  <2>4. grant.kind = "NONE"
    BY <1>0, OneOut
  <2>5. Swept(scan, NoMail, receiver, swept)
    BY Present
  <2>6. Ahead(s) /\ Placed(s, receiver, engine) /\ Swept(s, NoMail, receiver, swept)
    BY <1>0, <2>2, <2>3, <2>5 DEF ScanInv, ScanOk, Ahead, Placed, Swept
  <2>7. Granted(s, NoGrant, NoMail) /\ Granted(s, grant, NoMail)
    BY <2>2, <2>4 DEF Granted, NoGrant, NoMail
  <2>8. Publishable(s, NoMail, receiver, swept, engine)
    BY <2>6, <2>7 DEF Publishable, ScanOk
  <2> QED
    BY <1>0, <2>1, <2>8, Published
<1> QED
  BY <1>1, <1>2

\* One engine of the engine: the scan goes on from the phase at hand.
LEMMA TxKeeps == ASSUME Channels \subseteq Nat, ScanInv, StepTx PROVE ScanInv'
<1>0. /\ report.kind = "TX" /\ report' = NoMail /\ scan.phase = "TX" /\ UNCHANGED <<table, receiver, swept>>
  BY DEF StepTx, Reported
<1> DEFINE s == [scan EXCEPT !.issued = FALSE, !.sent = IF engine.sent THEN @ \cup {scan.channel} ELSE @]
           o == [s EXCEPT !.phase = "OPEN"]
           d == [s EXCEPT !.busy = @ + 1, !.phase = "CONFIG"]
<1>1. \/ \E why : Publish(ScanFault(s, why)) \/ Publish(Stop(o, why))
      \/ Publish(d) \/ Publish(NextChannel(o)) \/ Publish(o) \/ Publish(s)
  BY DEF StepTx
<1>2. /\ s = [f \in ScanFields |-> s[f]] /\ s.phase = "TX" /\ ~s.issued /\ s.channel = scan.channel
      /\ s.asked = scan.asked /\ s.remaining = scan.remaining /\ s.unscanned = scan.unscanned
  BY <1>0, Present DEF ScanFields
<1> HIDE DEF s
<1>3. /\ o = [f \in ScanFields |-> o[f]] /\ o.phase = "OPEN" /\ ~o.issued /\ o.channel = scan.channel
      /\ o.asked = scan.asked /\ o.remaining = scan.remaining /\ o.unscanned = scan.unscanned
  BY <1>2 DEF ScanFields
<1>4. /\ d = [f \in ScanFields |-> d[f]] /\ d.phase = "CONFIG" /\ ~d.issued /\ d.channel = scan.channel
      /\ d.asked = scan.asked /\ d.remaining = scan.remaining /\ d.unscanned = scan.unscanned
  BY <1>2 DEF ScanFields
<1> HIDE DEF o, d
<1>5. grant.kind = "NONE"
  BY <1>0, OneOut
<1>6. Swept(scan, NoMail, receiver, swept)
  BY Present
<1>7. Swept(s, NoMail, receiver, swept) /\ Swept(o, NoMail, receiver, swept) /\ Swept(d, NoMail, receiver, swept)
  BY <1>2, <1>3, <1>4, <1>6 DEF Swept
<1>8. Ahead(s) /\ Ahead(o) /\ Ahead(d)
  BY <1>0, <1>2, <1>3, <1>4 DEF ScanInv, ScanOk, Ahead
<1>9. Placed(s, receiver, engine') /\ Placed(o, receiver, engine') /\ Placed(d, receiver, engine')
  BY <1>0, <1>2, <1>3, <1>4 DEF ScanInv, ScanOk, Placed
<1>10. /\ Granted(s, NoGrant, NoMail) /\ Granted(s, grant, NoMail)
       /\ Granted(o, NoGrant, NoMail) /\ Granted(o, grant, NoMail)
       /\ Granted(d, NoGrant, NoMail) /\ Granted(d, grant, NoMail)
  BY <1>2, <1>3, <1>4, <1>5 DEF Granted, NoGrant, NoMail
<1>11. /\ Publishable(s, NoMail, receiver, swept, engine') /\ Publishable(o, NoMail, receiver, swept, engine')
       /\ Publishable(d, NoMail, receiver, swept, engine')
  BY <1>7, <1>8, <1>9, <1>10 DEF Publishable, ScanOk
<1>12. Publishable(NextChannel(o), NoMail, receiver, swept, engine')
  <2>1. NoMail.kind = "NONE"
    BY DEF NoMail
  <2> QED
    BY <1>3, <1>5, <1>7, <2>1, NextOk
<1>13. \A why : /\ Publishable(ScanFault(s, why), NoMail, receiver, swept, engine')
                /\ Publishable(Stop(o, why), NoMail, receiver, swept, engine')
  BY <1>3, <1>7, FaultOk, StopOk
<1> QED
  BY <1>0, <1>1, <1>11, <1>12, <1>13, Published

\* The window is open, or is not.
LEMMA OpenedKeeps == ScanInv /\ StepOpened => ScanInv'
<1> SUFFICES ASSUME ScanInv, StepOpened PROVE ScanInv'
  OBVIOUS
<1>0. /\ report.kind = "RECEIVE" /\ report' = NoMail /\ scan.phase = "OPEN"
      /\ UNCHANGED <<table, receiver, swept, engine>>
  BY DEF StepOpened, Reported
<1> DEFINE s == [scan EXCEPT !.phase = "RX"]
<1>1. CASE Publish(Stop(scan, "ADAPTER_ERROR"))
  <2>1. Publishable(Stop(scan, "ADAPTER_ERROR"), NoMail, receiver, swept, engine)
    BY <1>0, Present, StopOk
  <2> QED
    BY <1>0, <1>1, <2>1, Published
<1>2. CASE Publish(s)
  <2>1. /\ s = [f \in ScanFields |-> s[f]] /\ s.phase = "RX" /\ s.channel = scan.channel
        /\ s.asked = scan.asked /\ s.remaining = scan.remaining /\ s.unscanned = scan.unscanned
    BY Present DEF ScanFields
  <2> HIDE DEF s
  <2>2. grant.kind = "NONE"
    BY <1>0, OneOut
  <2>3. Swept(scan, NoMail, receiver, swept)
    BY Present
  <2>4. Ahead(s) /\ Placed(s, receiver, engine) /\ Swept(s, NoMail, receiver, swept)
    BY <1>0, <2>1, <2>3 DEF ScanInv, ScanOk, Ahead, Placed, Swept
  <2>5. Granted(s, NoGrant, NoMail) /\ Granted(s, grant, NoMail)
    BY <2>1, <2>2 DEF Granted, NoGrant, NoMail
  <2>6. Publishable(s, NoMail, receiver, swept, engine)
    BY <2>4, <2>5 DEF Publishable, ScanOk
  <2> QED
    BY <1>0, <1>2, <2>6, Published
<1> QED
  BY <1>1, <1>2 DEF StepOpened

\* The close of a window: a channel counts as scanned when the report says that
\* its window was whole.
LEMMA ClosedKeeps == ASSUME Channels \subseteq Nat, ScanInv, StepClosed PROVE ScanInv'
<1>0. /\ report.kind = "CLOSED" /\ report' = NoMail /\ scan.phase = "RX" /\ Publish(Closed(report))
      /\ UNCHANGED <<table, receiver, swept, engine>>
  BY DEF StepClosed, Reported
<1>a. grant.kind = "NONE" /\ NoMail.kind = "NONE"
  BY <1>0, OneOut DEF NoMail
<1>b. Swept(scan, NoMail, receiver, swept) /\ scan = [f \in ScanFields |-> scan[f]]
  BY Present
<1>1. CASE ~report.ended \/ report.state # State(scan.channel, FALSE)
  <2>1. Closed(report) = Stop(scan, "ADAPTER_ERROR")
    BY <1>1 DEF Closed
  <2>2. Publishable(Stop(scan, "ADAPTER_ERROR"), NoMail, receiver, swept, engine)
    BY <1>0, <1>b, StopOk
  <2> QED
    BY <1>0, <2>1, <2>2, Published
<1>2. CASE /\ report.ended /\ report.state = State(scan.channel, FALSE) /\ report.lossy
           /\ scan.retries < LOSSY_RETRIES
  <2> DEFINE s == [scan EXCEPT !.lossy = @ \cup {scan.channel}, !.retries = @ + 1, !.phase = "CONFIG",
                               !.issued = FALSE]
  <2>1. Closed(report) = s
    BY <1>2 DEF Closed
  <2>2. /\ s = [f \in ScanFields |-> s[f]] /\ s.phase = "CONFIG" /\ s.channel = scan.channel
        /\ s.asked = scan.asked /\ s.remaining = scan.remaining /\ s.unscanned = scan.unscanned
    BY <1>b DEF ScanFields
  <2> HIDE DEF s
  <2>3. Ahead(s) /\ Placed(s, receiver, engine) /\ Swept(s, NoMail, receiver, swept)
    BY <1>0, <1>b, <2>2 DEF ScanInv, ScanOk, Ahead, Placed, Swept
  <2>4. Granted(s, NoGrant, NoMail) /\ Granted(s, grant, NoMail)
    BY <1>a, <2>2 DEF Granted, NoGrant, NoMail
  <2>5. Publishable(s, NoMail, receiver, swept, engine)
    BY <2>3, <2>4 DEF Publishable, ScanOk
  <2> QED
    BY <1>0, <2>1, <2>5, Published
<1>3. CASE /\ report.ended /\ report.state = State(scan.channel, FALSE)
           /\ ~(report.lossy /\ scan.retries < LOSSY_RETRIES)
  <2> DEFINE c == [scan EXCEPT !.lossy = IF report.lossy THEN @ \cup {scan.channel} ELSE @ \ {scan.channel},
                               !.unscanned = @ \ {scan.channel}]
  <2>1. Closed(report) = NextChannel(c)
    BY <1>3 DEF Closed
  <2>2. /\ c = [f \in ScanFields |-> c[f]] /\ c.phase = "RX" /\ c.asked = scan.asked
        /\ c.remaining = scan.remaining /\ c.unscanned = scan.unscanned \ {scan.channel}
    BY <1>0, <1>b DEF ScanFields
  <2> HIDE DEF c
  <2>3. scan.channel \in swept
    BY <1>0, <1>3 DEF ScanInv, ScanOk, Swept, Told, State
  <2>4. scan.channel \notin scan.remaining
    BY <1>0 DEF ScanInv, ScanOk, Ahead
  <2>5. Swept(c, NoMail, receiver, swept)
    BY <1>b, <2>2, <2>3, <2>4 DEF Swept
  <2>6. Publishable(NextChannel(c), NoMail, receiver, swept, engine)
    BY <1>a, <2>2, <2>5, NextOk
  <2> QED
    BY <1>0, <2>1, <2>6, Published
<1> QED
  BY <1>1, <1>2, <1>3

\* The radio is as it was, or the scan failed.
LEMMA RestoredKeeps == ScanInv /\ StepRestored => ScanInv'
<1> SUFFICES ASSUME ScanInv, StepRestored PROVE ScanInv'
  OBVIOUS
<1>0. /\ report.kind = "RESTORE" /\ report' = NoMail /\ scan.phase = "RESTORE" /\ engine.phase = "IDLE"
      /\ UNCHANGED <<table, receiver, swept, engine>>
  BY DEF StepRestored, Reported, LeaseBroken
<1>b. Swept(scan, NoMail, receiver, swept) /\ scan = [f \in ScanFields |-> scan[f]]
  BY Present
<1>1. CASE report.state # Saved
  <2>1. Publish(ScanFault(scan, "CLEANUP_FAILED"))
    BY <1>1 DEF StepRestored
  <2>2. Publishable(ScanFault(scan, "CLEANUP_FAILED"), NoMail, receiver, swept, engine)
    BY <1>b, FaultOk
  <2> QED
    BY <1>0, <2>1, <2>2, Published
<1>2. CASE report.state = Saved
  <2> DEFINE s == [scan EXCEPT !.phase = "DONE"]
  <2>1. Publish(s)
    BY <1>2 DEF StepRestored
  <2>2. /\ s = [f \in ScanFields |-> s[f]] /\ s.phase = "DONE"
        /\ s.asked = scan.asked /\ s.remaining = scan.remaining /\ s.unscanned = scan.unscanned
    BY <1>b DEF ScanFields
  <2> HIDE DEF s
  <2>3. receiver = Saved
    BY <1>0, <1>2 DEF ScanInv, ScanOk, Swept, Told
  <2>4. Ahead(s) /\ Placed(s, receiver, engine) /\ Swept(s, NoMail, receiver, swept)
    BY <1>0, <1>b, <2>2, <2>3 DEF Ahead, Placed, Swept
  <2>5. Granted(s, NoGrant, NoMail)
    BY <2>2 DEF Granted, NoGrant, NoMail
  <2>6. Publishable(s, NoMail, receiver, swept, engine)
    BY <2>2, <2>4, <2>5 DEF Publishable, ScanOk
  <2> QED
    BY <1>0, <2>1, <2>6, Published
<1> QED
  BY <1>1, <1>2

\* mac_scan_release.
LEMMA ReleaseKeeps == ScanInv /\ ScanRelease => ScanInv'
<1> SUFFICES ASSUME ScanInv, ScanRelease PROVE ScanInv'
  OBVIOUS
<1>0. /\ scan.phase = "DONE" /\ scan' = [scan EXCEPT !.phase = "IDLE"]
      /\ UNCHANGED <<table, engine, grant, report, receiver, swept>>
  BY DEF ScanRelease
<1>1. /\ scan' = [f \in ScanFields |-> scan'[f]] /\ scan'.phase = "IDLE"
      /\ scan'.asked = scan.asked /\ scan'.remaining = scan.remaining /\ scan'.unscanned = scan.unscanned
  BY <1>0, Present DEF ScanFields
<1>2. grant.kind = "NONE" /\ report.kind = "NONE"
  BY <1>0, OneOut DEF ScanInv, ScanOk, Granted
<1>3. Ahead(scan') /\ Placed(scan', receiver, engine) /\ Swept(scan', report, receiver, swept)
  BY <1>1 DEF ScanInv, ScanOk, Ahead, Placed, Swept
<1>4. Granted(scan', grant, report)
  BY <1>1, <1>2 DEF Granted
<1> QED
  BY <1>0, <1>3, <1>4 DEF ScanInv, ScanOk

-------------------------------------------------------------------------------
(*** The adapter and the radio.                                               ***)

\* A grant is carried out, and reported with the state of the radio.
LEMMA ConfiguresKeeps == ScanInv /\ Configures => ScanInv'
<1> SUFFICES ASSUME ScanInv, Configures PROVE ScanInv'
  OBVIOUS
<1>0. /\ grant.kind = "CONFIG" /\ grant' = NoGrant /\ UNCHANGED <<scan, table, engine, swept>>
      /\ receiver' \in {State(scan.channel, FALSE), receiver} /\ report' = Report("CONFIG", receiver')
  BY DEF Configures
<1>1. scan.phase = "CONFIG" /\ scan.issued
  BY <1>0 DEF ScanInv, ScanOk, Granted, GrantKind
<1>2. report'.kind = "CONFIG" /\ report'.state = receiver'
  BY <1>0 DEF Report, NoMail
<1>3. receiver' = [f \in RadioFields |-> receiver'[f]]
  BY <1>0 DEF ScanInv, ScanOk, Swept, State, RadioFields
<1>4. Swept(scan, report', receiver', swept) /\ Ahead(scan) /\ Placed(scan, receiver', engine)
  BY <1>1, <1>2, <1>3 DEF ScanInv, ScanOk, Swept, Told, Placed
<1>5. Granted(scan, NoGrant, report')
  BY <1>1, <1>2 DEF Granted, NoGrant
<1> QED
  BY <1>0, <1>4, <1>5 DEF ScanInv, ScanOk

\* The engine may send, on the channel at hand alone.
LEMMA PumpsKeeps == ScanInv /\ Pumps => ScanInv'
<1> SUFFICES ASSUME ScanInv, Pumps PROVE ScanInv'
  OBVIOUS
<1>0. /\ grant.kind = "TX" /\ grant' = NoGrant /\ UNCHANGED <<scan, table>> /\ report' = Report("TX", receiver)
      /\ receiver' = receiver \/ receiver' = [receiver EXCEPT !.rx = TRUE]
      /\ swept' = swept \/ swept' = swept \ {receiver.channel}
  BY DEF Pumps
<1>1. scan.phase = "TX" /\ scan.issued
  BY <1>0 DEF ScanInv, ScanOk, Granted, GrantKind
<1>2. report'.kind = "TX"
  BY <1>0 DEF Report, NoMail
<1>3. receiver' = [f \in RadioFields |-> receiver'[f]] /\ receiver'.channel = receiver.channel
  <2>1. receiver = [f \in RadioFields |-> receiver[f]]
    BY DEF ScanInv, ScanOk, Swept
  <2> QED
    BY <1>0, <2>1 DEF RadioFields
<1>4. receiver.channel = scan.channel /\ scan.channel \in scan.unscanned
  BY <1>1 DEF ScanInv, ScanOk, Placed, Ahead
<1>5. Swept(scan, report', receiver', swept') /\ Ahead(scan) /\ Placed(scan, receiver', engine')
  BY <1>0, <1>1, <1>2, <1>3, <1>4 DEF ScanInv, ScanOk, Swept, Told, Placed
<1>6. Granted(scan, NoGrant, report')
  BY <1>1, <1>2 DEF Granted, NoGrant
<1> QED
  BY <1>0, <1>5, <1>6 DEF ScanInv, ScanOk

\* The receiver is opened.
LEMMA OpensKeeps == ScanInv /\ Opens => ScanInv'
<1> SUFFICES ASSUME ScanInv, Opens PROVE ScanInv'
  OBVIOUS
<1>0. /\ grant.kind = "RECEIVE" /\ grant' = NoGrant /\ UNCHANGED <<scan, table, engine, receiver, swept>>
      /\ report' = Report("RECEIVE", receiver)
  BY DEF Opens
<1>1. scan.phase = "OPEN" /\ scan.issued
  BY <1>0 DEF ScanInv, ScanOk, Granted, GrantKind
<1>2. report'.kind = "RECEIVE" /\ report'.state = receiver
  BY <1>0 DEF Report, NoMail
<1>4. Swept(scan, report', receiver, swept) /\ Ahead(scan) /\ Placed(scan, receiver, engine)
  BY <1>2 DEF ScanInv, ScanOk, Swept, Told
<1>5. Granted(scan, NoGrant, report')
  BY <1>1, <1>2 DEF Granted, NoGrant
<1> QED
  BY <1>0, <1>4, <1>5 DEF ScanInv, ScanOk

\* A window closes, and counts as a sweep when it was whole.
LEMMA ClosesKeeps == ScanInv /\ Closes => ScanInv'
<1> SUFFICES ASSUME ScanInv, Closes PROVE ScanInv'
  OBVIOUS
<1>0. /\ scan.phase = "RX" /\ grant = NoGrant /\ UNCHANGED <<scan, table, engine, grant>>
      /\ receiver' = [receiver EXCEPT !.rx = FALSE]
      /\ swept' = IF window # "open" THEN swept \cup {receiver.channel} ELSE swept
  BY DEF Closes
<1>1. /\ report'.kind = "CLOSED" /\ report'.state = receiver' /\ report'.ended = (window # "open")
  BY DEF Closes, Report, NoMail
<1>2. receiver' = [f \in RadioFields |-> receiver'[f]] /\ receiver'.channel = receiver.channel
  <2>1. receiver = [f \in RadioFields |-> receiver[f]]
    BY DEF ScanInv, ScanOk, Swept
  <2> QED
    BY <1>0, <2>1 DEF RadioFields
<1>3. Swept(scan, report', receiver', swept') /\ Ahead(scan) /\ Placed(scan, receiver', engine)
  BY <1>0, <1>1, <1>2 DEF ScanInv, ScanOk, Swept, Told, Placed
<1>4. Granted(scan, grant, report')
  BY <1>0, <1>1 DEF Granted, NoGrant, ScanInv, ScanOk
<1> QED
  BY <1>0, <1>3, <1>4 DEF ScanInv, ScanOk

\* The radio is restored, or fails to be.
LEMMA RestoresKeeps == ScanInv /\ Restores => ScanInv'
<1> SUFFICES ASSUME ScanInv, Restores PROVE ScanInv'
  OBVIOUS
<1>0. /\ grant.kind = "RESTORE" /\ grant' = NoGrant /\ UNCHANGED <<scan, table, engine, swept>>
      /\ receiver' \in {Saved, receiver} /\ report' = Report("RESTORE", receiver')
  BY DEF Restores
<1>1. scan.phase = "RESTORE"
  BY <1>0 DEF ScanInv, ScanOk, Granted, GrantKind
<1>2. report'.kind = "RESTORE" /\ report'.state = receiver'
  BY <1>0 DEF Report, NoMail
<1>3. receiver' = [f \in RadioFields |-> receiver'[f]]
  BY <1>0 DEF ScanInv, ScanOk, Swept, Saved, RadioFields
<1>4. Swept(scan, report', receiver', swept) /\ Ahead(scan) /\ Placed(scan, receiver', engine)
  BY <1>1, <1>2, <1>3 DEF ScanInv, ScanOk, Swept, Told, Placed
<1>5. Granted(scan, NoGrant, report')
  BY <1>1, <1>2 DEF Granted, NoGrant
<1> QED
  BY <1>0, <1>4, <1>5 DEF ScanInv, ScanOk

\* A beacon changes the table alone.
LEMMA BeaconKeeps == ASSUME UPDATES \in Nat \ {0}, ScanInv, Beacon PROVE ScanInv'
<1>1. PICK c \in Beacons(table) : table' = Consider(table, c)
  BY DEF Beacon
<1>2. UNCHANGED <<scan, engine, grant, report, receiver, swept>>
  BY DEF Beacon
<1>3. c.update \in Int
  BY DEF Beacons, Candidate
<1>4. IsTable(table')
  BY <1>1, <1>3, ConsiderKeeps DEF ScanInv
<1> QED
  BY <1>2, <1>4 DEF ScanInv

\* Every step of the scan keeps the invariant.
LEMMA ScanStep ==
  ASSUME Channels \subseteq Nat, UPDATES \in Nat \ {0}, ScanInv, [ScanNext]_scanVars
  PROVE  ScanInv'
<1>1. CASE WindowPasses \/ UNCHANGED scanVars
  BY <1>1 DEF WindowPasses, scanVars, ScanInv
<1>2. CASE ScanStart \/ StepTx \/ StepClosed \/ Beacon
  BY <1>2, StartKeeps, TxKeeps, ClosedKeeps, BeaconKeeps
<1> QED
  BY <1>1, <1>2, SubmitKeeps, TerminatesKeeps, GrantsKeeps, StaleKeeps, ConfiguredKeeps, OpenedKeeps,
     RestoredKeeps, ReleaseKeeps, ConfiguresKeeps, PumpsKeeps, OpensKeeps, ClosesKeeps, RestoresKeeps
     DEF ScanNext

(* mac_scan.c:290-360: a channel counts as scanned only for a whole window      *)
(* after the last request sent on it, and a finished scan has restored the      *)
(* radio, for any channels, retries and beacons.                                *)
THEOREM SweepIsHonest ==
  ASSUME Channels \subseteq Nat, UPDATES \in Nat \ {0}
  PROVE  ScanSpec => []ScanIsHonest
<1>1. ScanInv /\ [ScanNext]_scanVars => ScanInv'
  BY ScanStep
<1>2. ScanInv => ScanIsHonest
  BY DEF ScanInv, ScanOk, Swept, Placed, ScanIsHonest
<1> QED
  BY ScanInitHolds, <1>1, <1>2, PTL DEF ScanSpec

(* nwk_parent.c:55-107: the chosen parent is no older than what the device      *)
(* holds and no usable candidate is newer, in the wrapping order, for every     *)
(* range of update ids, capacity of the table and sequence of beacons.          *)
THEOREM ParentIsNewest ==
  ASSUME Channels \subseteq Nat, UPDATES \in Nat \ {0}
  PROVE  ScanSpec => []ChosenIsNewest
<1>1. ScanInv /\ [ScanNext]_scanVars => ScanInv'
  BY ScanStep
<1>2. ScanInv => ChosenIsNewest
  BY TableChoice DEF ScanInv
<1> QED
  BY ScanInitHolds, <1>1, <1>2, PTL DEF ScanSpec

(* ------------------------------------------------------------------------- *)
(* The link driver of MacLink, with engine, adapter and radio.  AckIsOwn: of  *)
(* which attempt the frames are that wait in the radio or in the adapter, and *)
(* what the bound on their arrival is worth.                                  *)
(* ------------------------------------------------------------------------- *)

EngineFields == {"phase", "gen", "retries", "nb", "outcome", "again", "ack", "stop_steps", "by"}
AdapterFields == {"phase", "goal", "stop", "wait", "held", "sure", "bound", "normal", "lossy",
                  "trans", "policy", "id", "req", "obs"}
EtherFields == {"phase", "heads", "lost", "tx", "count"}
DriverFields == {"action", "radio", "random", "fault", "held"}
Heard == [kind : FrameKinds, at : Nat \X Nat, win : {"in", "unsure", "past"}]
Goals == {"NONE", "BUSY", "ACK_WINDOW", "RETIRE", "USER"}

EngineShape(e) == /\ e = [f \in EngineFields |-> e[f]] /\ e.gen \in Nat /\ e.retries \in Nat
AdapterShape(a) == a = [f \in AdapterFields |-> a[f]] /\ a.goal \in Goals
EtherShape(r) == /\ r = [f \in EtherFields |-> r[f]]
                 /\ r.heads \in Seq(Heard) /\ r.tx \in Nat \X Nat

OnAir == {"REPORT", "WAIT_MAC", "COLLECT"}
Airborne == {"RADIO", "ACK_WAIT", "STOPPING"}
Current(e) == <<e.gen, e.retries>>
OwnAck(e) == e.outcome = "ACKED" => e.by.at = Current(e) /\ e.by.win = "in"

(* The frames that wait in the radio, and the one the adapter holds.           *)
OwnHeads(r, w, e) == \A i \in 1..Len(r.heads) :
  r.heads[i].at = Current(e) /\ (w = "in" => r.heads[i].win = "in")
OwnHeld(a, w, e) ==
  a.held # Nothing => /\ a.held.at = Current(e)
                      /\ (IF a.bound THEN a.sure ELSE w = "in") => a.held.win = "in"
OwnFrames(a, r, w, e) ==
  a.phase \in OnAir => r.tx = Current(e) /\ OwnHeads(r, w, e) /\ OwnHeld(a, w, e)

OwnAttempt(a, r, w, e) ==
  /\ AdapterShape(a) /\ EtherShape(r) /\ w \in {"in", "unsure", "past"}
  /\ r.phase \in {"OFF", "PREP"} => r.heads = <<>>
  /\ a.phase \in {"PREPARED", "SCHEDULED"} => r.phase = "PREP"
  /\ a.phase \in {"SCHEDULED"} \cup OnAir => e.phase \in Airborne
  /\ OwnFrames(a, r, w, e)

AckInv ==
  /\ EngineShape(eng) /\ drv = [f \in DriverFields |-> drv[f]]
  /\ AckIsOwn
  /\ Running => adp.obs = NoObservation /\ OwnAttempt(adp, ether, win, eng)

(* What an event says of the current attempt, and where the adapter stands     *)
(* when it has one to give.                                                    *)
OwnEvent(ev, e) ==
  ev.kind = "ACK_INTERVAL" => ev.frame.at = Current(e) /\ (ev.sure => ev.frame.win = "in")
Offered(a, e) ==
  /\ OwnEvent(a.obs, e)
  /\ a.obs.kind \in {"BUSY_INTERVAL", "RETIRED"} =>
       a.phase \notin {"PREPARED", "SCHEDULED"} \cup OnAir
  /\ a.obs.kind = "SENT_INTERVAL" => a.phase = "REPORT"
EngineKept(e, d) ==
  /\ EngineShape(d) /\ OwnAck(d) /\ Current(d) = Current(e)
  /\ e.phase \in Airborne => d.phase \in Airborne \cup {"FAULT"}

(* interval_stop changes neither the frame nor its attempt.                    *)
LEMMA StopKeepsAttempt ==
  ASSUME NEW e, EngineShape(e), NEW outcome, outcome = "ACKED" => e.by.at = Current(e) /\ e.by.win = "in"
  PROVE  EngineKept(e, IntervalStop(e, outcome).eng)
<1>1. CASE e.phase \in {"DRAW", "DRAW_WAIT"}
  BY <1>1 DEF EngineShape, EngineFields, IntervalStop, Result, EngineKept, OwnAck, Current, Airborne
<1>2. CASE e.phase \notin {"DRAW", "DRAW_WAIT"}
  BY <1>2 DEF EngineShape, EngineFields, IntervalStop, Result, EngineKept, OwnAck, Current, Airborne
<1> QED
  BY <1>1, <1>2

(* So does every plain step of the engine; only this attempt's acknowledgement *)
(* makes it ACKED.                                                             *)
LEMMA IntervalKeepsAttempt ==
  ASSUME NEW e, EngineShape(e), OwnAck(e), NEW ev, OwnEvent(ev, e), NEW expired
  PROVE  EngineKept(e, IntervalStep(e, ev, expired).eng)
<1> DEFINE gone == expired \/ ev.kind = "CANCEL"
           R == IntervalStep(e, ev, expired)
<1>0. Why(ev.kind) # "ACKED"
  BY DEF Why
<1>1. CASE e.phase = "STOPPING"
  <2> DEFINE d == IF e.again /\ gone
                  THEN [e EXCEPT !.again = FALSE, !.outcome = Why(ev.kind)] ELSE e
  <2>1. EngineShape(d) /\ OwnAck(d) /\ Current(d) = Current(e) /\ d.phase = "STOPPING"
    BY <1>0, <1>1 DEF EngineShape, EngineFields, OwnAck, Current
  <2>2. R.eng = IF e.stop_steps = 0 THEN [d EXCEPT !.phase = "FAULT", !.outcome = "STOP_FAILED"]
                ELSE [d EXCEPT !.stop_steps = @ - 1]
    BY <1>1 DEF IntervalStep, Result
  <2> HIDE DEF d, R
  <2> QED
    BY <2>1, <2>2 DEF EngineShape, EngineFields, EngineKept, OwnAck, Current, Airborne, R
<1>2. CASE e.phase # "STOPPING" /\ gone
  <2>1. R = IntervalStop(e, Why(ev.kind))
    BY <1>2 DEF IntervalStep
  <2> QED
    BY <2>1, <1>0, StopKeepsAttempt
<1>3. CASE e.phase = "DRAW" /\ ~gone
  <2>1. R.eng = [e EXCEPT !.phase = "DRAW_WAIT"]
    BY <1>3 DEF IntervalStep, Result
  <2> QED
    BY <2>1, <1>3 DEF EngineShape, EngineFields, EngineKept, OwnAck, Current, Airborne
<1>4. CASE e.phase = "DRAW_WAIT" /\ ev.kind = "RANDOM" /\ ~gone
  <2>1. \/ R.eng = [e EXCEPT !.phase = "RADIO"]
        \/ R.eng = [e EXCEPT !.phase = "DONE", !.outcome = "LIFETIME"]
    BY <1>4 DEF IntervalStep, Result
  <2> QED
    BY <2>1, <1>4 DEF EngineShape, EngineFields, EngineKept, OwnAck, Current, Airborne
<1>5. CASE e.phase = "RADIO" /\ ev.kind = "SENT_INTERVAL" /\ ~gone
  <2> DEFINE d == [e EXCEPT !.phase = "ACK_WAIT"]
  <2>1. EngineKept(e, d) /\ d.phase = "ACK_WAIT"
    BY <1>5 DEF EngineShape, EngineFields, EngineKept, OwnAck, Current, Airborne
  <2>2. EngineKept(d, IntervalStop(d, "UNACKNOWLEDGED").eng)
    BY <2>1, StopKeepsAttempt DEF EngineKept
  <2>3. R.eng = d \/ R.eng = IntervalStop(d, "UNACKNOWLEDGED").eng
    BY <1>5 DEF IntervalStep, Result
  <2> QED
    BY <2>1, <2>2, <2>3, <1>5 DEF EngineKept, Airborne
<1>6. CASE e.phase = "ACK_WAIT" /\ ev.kind \in {"ACK_INTERVAL", "RX_CLOSED"} /\ ~gone
  <2> DEFINE d == [e EXCEPT !.again = e.retries < RETRIES]
             b == [e EXCEPT !.by = ev.frame]
  <2>1. EngineKept(e, d) /\ d.phase = "ACK_WAIT"
    BY <1>6 DEF EngineShape, EngineFields, EngineKept, OwnAck, Current, Airborne
  <2>2. EngineKept(d, IntervalStop(d, "NO_ACK").eng)
    BY <2>1, StopKeepsAttempt DEF EngineKept
  <2>3. EngineKept(e, IntervalNoAck(e).eng)
    BY <2>1, <2>2, <1>6 DEF EngineKept, Airborne, IntervalNoAck
  <2>4. EngineKept(e, IntervalStop(e, "TIMING_UNCERTAIN").eng)
    BY StopKeepsAttempt
  <2>5. ASSUME ev.kind = "ACK_INTERVAL", ev.sure
        PROVE  EngineKept(e, IntervalStop(b, "ACKED").eng)
    <3>1. /\ EngineShape(b) /\ b.phase = "ACK_WAIT" /\ Current(b) = Current(e)
          /\ b.by.at = Current(b) /\ b.by.win = "in"
      BY <1>6, <2>5 DEF EngineShape, EngineFields, Current, OwnEvent
    <3>2. EngineKept(b, IntervalStop(b, "ACKED").eng)
      BY <3>1, StopKeepsAttempt
    <3> QED
      BY <3>1, <3>2 DEF EngineKept, Airborne
  <2>6. CASE ev.kind = "RX_CLOSED"
    <3>1. R = IntervalNoAck(e)
      BY <1>6, <2>6 DEF IntervalStep
    <3> QED
      BY <3>1, <2>3
  <2>7. CASE ev.kind = "ACK_INTERVAL"
    <3>1. R = IF ~ev.sure THEN IntervalStop(e, "TIMING_UNCERTAIN")
              ELSE IF ev.frame.kind = "match" THEN IntervalStop(b, "ACKED") ELSE IntervalNoAck(e)
      BY <1>6, <2>7 DEF IntervalStep
    <3> QED
      BY <3>1, <2>3, <2>4, <2>5, <2>7
  <2> QED
    BY <1>6, <2>6, <2>7
<1>7. CASE /\ e.phase # "STOPPING" /\ ~gone /\ e.phase # "DRAW"
           /\ ~(e.phase = "DRAW_WAIT" /\ ev.kind = "RANDOM")
           /\ ~(e.phase = "RADIO" /\ ev.kind = "SENT_INTERVAL")
           /\ ~(e.phase = "ACK_WAIT" /\ ev.kind \in {"ACK_INTERVAL", "RX_CLOSED"})
  <2>1. R.eng = e
    BY <1>7 DEF IntervalStep, Result
  <2> QED
    BY <2>1 DEF EngineKept
<1> QED
  BY <1>1, <1>2, <1>3, <1>4, <1>5, <1>6, <1>7

(* The observed step leaves the attempt only for BUSY_INTERVAL or RETIRED.     *)
LEMMA ObservedKeepsAttempt ==
  ASSUME NEW e, EngineShape(e), OwnAck(e), NEW ev, OwnEvent(ev, e), NEW expired
  PROVE  LET d == ObservedStep(e, ev, expired).eng IN
         /\ EngineShape(d) /\ OwnAck(d)
         /\ ev.kind \notin {"BUSY_INTERVAL", "RETIRED"} => EngineKept(e, d)
<1> DEFINE fresh == IF ev.id = LinkId(e) THEN ev ELSE NoObservation
           plain == IF fresh.kind \in {"BUSY_INTERVAL", "RETIRED"} THEN NoObservation ELSE fresh
           r == IntervalStep(e, plain, expired)
           d == r.eng
           D == ObservedStep(e, ev, expired)
<1>1. NoObservation.kind = "none" /\ OwnEvent(plain, e)
  BY DEF NoObservation, OwnEvent
<1>2. EngineKept(e, d)
  BY <1>1, IntervalKeepsAttempt
<1>3. fresh.kind \in {"BUSY_INTERVAL", "RETIRED"} => ev.kind \in {"BUSY_INTERVAL", "RETIRED"}
  BY <1>1
<1>4. CASE fresh.kind = "BUSY_INTERVAL" /\ e.phase = "RADIO" /\ d.phase = "RADIO"
  <2>1. \/ D.eng = [d EXCEPT !.nb = @ + 1, !.phase = "DONE", !.outcome = "CHANNEL_ACCESS"]
        \/ D.eng = [d EXCEPT !.nb = @ + 1, !.phase = "DRAW"]
    BY <1>4 DEF ObservedStep, Result
  <2> HIDE DEF d, D, fresh
  <2>2. EngineShape(D.eng) /\ OwnAck(D.eng)
    BY <2>1, <1>2 DEF EngineShape, EngineFields, OwnAck, Current, EngineKept
  <2> QED
    BY <2>2, <1>3, <1>4 DEF D
<1>5. CASE fresh.kind = "RETIRED" /\ e.phase = "STOPPING" /\ d.phase = "STOPPING"
  <2>1. \/ D.eng = [d EXCEPT !.again = FALSE, !.retries = @ + 1, !.nb = 0,
                             !.outcome = "NONE", !.phase = "DRAW"]
        \/ D.eng = [d EXCEPT !.phase = "DONE"]
    BY <1>5 DEF ObservedStep, Result
  <2> HIDE DEF d, D, fresh
  <2>2. ASSUME D.eng = [d EXCEPT !.again = FALSE, !.retries = @ + 1, !.nb = 0,
                                 !.outcome = "NONE", !.phase = "DRAW"]
        PROVE  EngineShape(D.eng) /\ OwnAck(D.eng)
    <3>1. d.retries \in Nat /\ d.gen \in Nat /\ d = [f \in EngineFields |-> d[f]]
      BY <1>2 DEF EngineKept, EngineShape
    <3>2. D.eng = [f \in EngineFields |-> D.eng[f]]
      BY <2>2, <3>1 DEF EngineFields
    <3>3. D.eng.retries = d.retries + 1 /\ D.eng.gen = d.gen /\ D.eng.outcome = "NONE"
      BY <2>2, <3>1 DEF EngineFields
    <3> QED
      BY <3>1, <3>2, <3>3 DEF EngineShape, OwnAck
  <2>3. ASSUME D.eng = [d EXCEPT !.phase = "DONE"]
        PROVE  EngineShape(D.eng) /\ OwnAck(D.eng)
    BY <2>3, <1>2 DEF EngineShape, EngineFields, OwnAck, Current, EngineKept
  <2> QED
    BY <2>1, <2>2, <2>3, <1>3, <1>5 DEF D
<1>6. CASE /\ ~(fresh.kind = "BUSY_INTERVAL" /\ e.phase = "RADIO" /\ d.phase = "RADIO")
           /\ ~(fresh.kind = "RETIRED" /\ e.phase = "STOPPING" /\ d.phase = "STOPPING")
  <2>1. D = r
    BY <1>6 DEF ObservedStep
  <2> QED
    BY <2>1, <1>2 DEF EngineKept
<1> QED
  BY <1>4, <1>5, <1>6
(* An attempt starts on an empty radio, with its window.                       *)
LEMMA AttemptStartsOwn ==
  ASSUME NEW a, NEW r, NEW e, NEW s, EngineShape(e), OwnAttempt(a, r, win, e),
         a.phase = "SCHEDULED", a.obs = NoObservation, s \in AttemptRun(a, r, e)
  PROVE  OwnAttempt(s.adp, s.ether, s.win, e) /\ s.adp.obs = NoObservation /\ s.adp.id = a.id
<1>1. /\ r.phase = "PREP" /\ r.heads = <<>> /\ e.phase \in Airborne
      /\ AdapterShape(a) /\ EtherShape(r) /\ win \in {"in", "unsure", "past"}
  BY DEF OwnAttempt
<1>2. Current(e) \in Nat \X Nat
  BY DEF EngineShape, Current
<1>3. CASE s = BusyAttempt(a, r)
  <2>1. AdapterShape(s.adp) /\ s.adp.phase = "CLOSING" /\ s.adp.obs = a.obs /\ s.adp.id = a.id
    BY <1>1, <1>3 DEF AdapterShape, AdapterFields, After, BusyAttempt, Goals
  <2>2. EtherShape(s.ether) /\ s.ether.phase = "RX" /\ s.win = win
    BY <1>1, <1>3 DEF EtherShape, EtherFields, RadioAttempted, After, BusyAttempt
  <2> QED
    BY <2>1, <2>2, <1>1 DEF OwnAttempt, OwnFrames, OnAir
<1>4. ASSUME NEW k \in FrameKinds \cup {"none"}, NEW sure \in BOOLEAN,
             s = Transmitted(a, r, e, k, sure)
      PROVE  OwnAttempt(s.adp, s.ether, s.win, e) /\ s.adp.obs = NoObservation /\ s.adp.id = a.id
  <2>1. AdapterShape(s.adp) /\ s.adp.phase = "REPORT" /\ s.adp.obs = a.obs /\ s.adp.id = a.id
    BY <1>1, <1>4 DEF AdapterShape, AdapterFields, After, Transmitted, Goals
  <2>2. s.adp.bound = TRUE /\ s.adp.sure = sure /\ (s.adp.held = Nothing \/
           s.adp.held = [kind |-> k, at |-> Current(e), win |-> IF sure THEN "in" ELSE "unsure"])
    BY <1>1, <1>4 DEF AdapterShape, AdapterFields, After, Transmitted, Current
  <2>3. EtherShape(s.ether) /\ s.ether.phase = "RX" /\ s.win = "in" /\ s.ether.heads = <<>>
        /\ s.ether.tx = Current(e)
    BY <1>1, <1>2, <1>4 DEF EtherShape, EtherFields, RadioAttempted, After, Transmitted, Current
  <2>4. OwnHeld(s.adp, s.win, e)
    BY <2>2 DEF OwnHeld
  <2>5. OwnHeads(s.ether, s.win, e)
    BY <2>3 DEF OwnHeads
  <2> QED
    BY <2>1, <2>3, <2>4, <2>5, <1>1 DEF OwnAttempt, OwnFrames, OnAir
<1> QED
  BY <1>3, <1>4 DEF AttemptRun

(* A published observation changes nothing else of the adapter.                *)
LEMMA PublishKeepsOwn ==
  ASSUME NEW a, NEW r, NEW w, NEW e, OwnAttempt(a, r, w, e), NEW kind,
         kind # "ACK_INTERVAL", kind = "SENT_INTERVAL" => a.phase = "REPORT",
         kind \in {"BUSY_INTERVAL", "RETIRED"} => a.phase \notin {"PREPARED", "SCHEDULED"} \cup OnAir
  PROVE  OwnAttempt(PublishEvent(a, kind), r, w, e) /\ Offered(PublishEvent(a, kind), e)
<1> DEFINE p == PublishEvent(a, kind)
<1>1. /\ AdapterShape(p) /\ p.phase = a.phase /\ p.held = a.held /\ p.bound = a.bound
      /\ p.sure = a.sure /\ p.obs.kind = kind
  BY DEF PublishEvent, OwnAttempt, AdapterShape, AdapterFields
<1> HIDE DEF p
<1> QED
  BY <1>1 DEF OwnAttempt, OwnFrames, OwnHeld, Offered, OwnEvent, p

(* The frame the adapter names an acknowledgement is the current attempt's.    *)
LEMMA PublishFrameOwn ==
  ASSUME NEW a, NEW r, NEW w, NEW e, OwnAttempt(a, r, w, e), a.held # Nothing
  PROVE  OwnAttempt(PublishFrame(a, w), r, w, e) /\ Offered(PublishFrame(a, w), e)
<1> DEFINE p == PublishFrame(a, w)
           sure == IF a.bound THEN a.sure ELSE w = "in"
           kind == IF a.phase = "COLLECT" /\ a.held.kind \in {"match", "wrong"}
                   THEN "ACK_INTERVAL" ELSE "FRAME"
<1>1. /\ AdapterShape(p) /\ p.phase = a.phase /\ p.held = a.held /\ p.bound = TRUE
      /\ p.sure = sure /\ p.obs = [kind |-> kind, id |-> a.id, frame |-> a.held, sure |-> sure]
  BY DEF PublishFrame, OwnAttempt, AdapterShape, AdapterFields
<1> HIDE DEF p
<1>2. OwnHeld(a, w, e) => OwnHeld(p, w, e)
  BY <1>1 DEF OwnHeld
<1>3. p.obs.kind = kind /\ p.obs.frame = a.held /\ p.obs.sure = sure
  BY <1>1
<1>4. OwnAttempt(p, r, w, e)
  BY <1>1, <1>2 DEF OwnAttempt, OwnFrames
<1>5. kind = "ACK_INTERVAL" => OwnHeld(a, w, e)
  BY DEF OwnAttempt, OwnFrames, OnAir
<1>6. OwnEvent(p.obs, e)
  BY <1>3, <1>5 DEF OwnEvent, OwnHeld
<1> QED
  BY <1>3, <1>4, <1>6 DEF Offered, p

(* mac_attempt_stop leaves no frame behind in a radio it switches off.         *)
LEMMA StopRadioOwn ==
  ASSUME NEW a, NEW r, NEW w, NEW e, OwnAttempt(a, r, w, e)
  PROVE  /\ OwnAttempt(StopRadio(a, r)[1], StopRadio(a, r)[2], w, e)
         /\ StopRadio(a, r)[1].obs = a.obs /\ StopRadio(a, r)[1].phase \in {"OFF", "DRAINING"}
<1>1. CASE r.heads = <<>> /\ ~r.lost
  <2> DEFINE b == [a EXCEPT !.stop = TRUE, !.phase = "OFF"]
             q == [r EXCEPT !.phase = "OFF"]
  <2>1. AdapterShape(b) /\ b.phase = "OFF" /\ b.obs = a.obs
    BY DEF OwnAttempt, AdapterShape, AdapterFields
  <2>2. EtherShape(q) /\ q.phase = "OFF" /\ q.heads = <<>>
    BY <1>1 DEF OwnAttempt, EtherShape, EtherFields
  <2>3. OwnAttempt(b, q, w, e)
    BY <2>1, <2>2 DEF OwnAttempt, OwnFrames, OnAir
  <2>4. StopRadio(a, r) = <<b, q>>
    BY <1>1 DEF StopRadio
  <2> HIDE DEF b, q
  <2> QED
    BY <2>1, <2>3, <2>4
<1>2. CASE ~(r.heads = <<>> /\ ~r.lost)
  <2> DEFINE b == [a EXCEPT !.stop = TRUE, !.phase = "DRAINING"]
             q == [r EXCEPT !.phase = "DRAIN"]
  <2>1. AdapterShape(b) /\ b.phase = "DRAINING" /\ b.obs = a.obs
    BY DEF OwnAttempt, AdapterShape, AdapterFields
  <2>2. EtherShape(q) /\ q.phase = "DRAIN"
    BY DEF OwnAttempt, EtherShape, EtherFields
  <2>3. OwnAttempt(b, q, w, e)
    BY <2>1, <2>2 DEF OwnAttempt, OwnFrames, OnAir
  <2>4. StopRadio(a, r) = <<b, q>>
    BY <1>2 DEF StopRadio
  <2> HIDE DEF b, q
  <2> QED
    BY <2>1, <2>3, <2>4
<1> QED
  BY <1>1, <1>2
(* mac_attempt_receive hands over the oldest unread frame, unbounded.          *)
LEMMA ReceiveOwn ==
  ASSUME NEW a, NEW r, NEW w, NEW e, OwnAttempt(a, r, w, e)
  PROVE  /\ OwnAttempt(Receive(a, r)[1], Receive(a, r)[2], w, e)
         /\ Receive(a, r)[1].obs = a.obs
<1> DEFINE tolerated == /\ a.normal \/ (a.goal \in {"NONE", "USER"} /\ a.phase # "COLLECT")
                        /\ a.phase \in {"RX", "COLLECT", "CLOSING", "DRAINING"}
           b == IF a.phase = "DRAINING" THEN [a EXCEPT !.phase = "CLOSING", !.wait = FALSE] ELSE a
<1>0. AdapterShape(a) /\ EtherShape(r)
  BY DEF OwnAttempt
<1>1. CASE r.heads # <<>>
  <2> DEFINE c == [a EXCEPT !.held = Head(r.heads), !.bound = FALSE]
             q == [r EXCEPT !.heads = Tail(r.heads)]
  <2>1. AdapterShape(c) /\ c.phase = a.phase /\ c.obs = a.obs
    BY <1>0 DEF AdapterShape, AdapterFields
  <2>2. c.held = Head(r.heads) /\ c.bound = FALSE
    BY <1>0 DEF AdapterShape, AdapterFields
  <2>3. q = [f \in EtherFields |-> q[f]] /\ q.heads = Tail(r.heads) /\ q.tx = r.tx /\ q.phase = r.phase
    BY <1>0 DEF EtherShape, EtherFields
  <2>4. /\ Tail(r.heads) \in Seq(Heard) /\ Len(r.heads) \in Nat /\ Len(r.heads) > 0
        /\ Len(Tail(r.heads)) = Len(r.heads) - 1
        /\ \A i \in 1..Len(Tail(r.heads)) : Tail(r.heads)[i] = r.heads[i + 1]
        /\ Head(r.heads) = r.heads[1]
    BY <1>0, <1>1 DEF EtherShape
  <2>5. EtherShape(q)
    BY <1>0, <2>3, <2>4 DEF EtherShape
  <2> HIDE DEF c, q
  <2>6. ASSUME OwnHeads(r, w, e) PROVE OwnHeads(q, w, e) /\ OwnHeld(c, w, e)
    <3>1. \A i \in 1..Len(q.heads) : i + 1 \in 1..Len(r.heads) /\ q.heads[i] = r.heads[i + 1]
      <4>1. Len(q.heads) = Len(r.heads) - 1 /\ Len(r.heads) \in Nat
        BY <2>3, <2>4
      <4>2. \A i \in 1..Len(q.heads) : q.heads[i] = r.heads[i + 1]
        BY <2>3, <2>4
      <4> QED
        BY <4>1, <4>2
    <3>2. OwnHeads(q, w, e)
      BY <2>6, <3>1 DEF OwnHeads
    <3>3. c.held = r.heads[1] /\ 1 \in 1..Len(r.heads)
      BY <2>2, <2>4
    <3>4. c.held.at = Current(e) /\ (w = "in" => c.held.win = "in")
      BY <2>6, <3>3 DEF OwnHeads
    <3> QED
      BY <2>2, <3>2, <3>4 DEF OwnHeld
  <2>7. OwnAttempt(c, q, w, e)
    BY <1>1, <2>1, <2>3, <2>5, <2>6 DEF OwnAttempt, OwnFrames
  <2>8. Receive(a, r) = <<c, q>>
    BY <1>1 DEF Receive, c, q
  <2> QED
    BY <2>1, <2>7, <2>8
<1>2. CASE r.heads = <<>> /\ r.lost /\ ~tolerated
  <2>1. AdapterShape(Faulty(a)) /\ Faulty(a).phase = "FAULT" /\ Faulty(a).obs = a.obs
    BY <1>0 DEF AdapterShape, AdapterFields, Faulty
  <2>2. OwnAttempt(Faulty(a), r, w, e)
    BY <2>1 DEF OwnAttempt, OwnFrames, OnAir
  <2>3. Receive(a, r) = <<Faulty(a), r>>
    BY <1>2 DEF Receive
  <2> QED
    BY <2>1, <2>2, <2>3
<1>3. CASE r.heads = <<>> /\ ~(r.lost /\ ~tolerated)
  <2> DEFINE c == [b EXCEPT !.lossy = a.lossy \/ r.lost]
             q == [r EXCEPT !.lost = FALSE]
  <2>1. AdapterShape(b) /\ b.phase = (IF a.phase = "DRAINING" THEN "CLOSING" ELSE a.phase)
        /\ b.obs = a.obs /\ b.held = a.held /\ b.bound = a.bound /\ b.sure = a.sure
    BY <1>0 DEF AdapterShape, AdapterFields
  <2>a. Receive(a, r) = <<c, q>>
    BY <1>3 DEF Receive
  <2> HIDE DEF b
  <2>2. AdapterShape(c) /\ c.phase = (IF a.phase = "DRAINING" THEN "CLOSING" ELSE a.phase)
        /\ c.obs = a.obs /\ c.held = a.held /\ c.bound = a.bound /\ c.sure = a.sure
    BY <2>1 DEF AdapterShape, AdapterFields
  <2>3. EtherShape(q) /\ q.phase = r.phase /\ q.heads = r.heads /\ q.tx = r.tx
    BY <1>0 DEF EtherShape, EtherFields
  <2> HIDE DEF c, q
  <2>4. OwnFrames(c, q, w, e)
    BY <2>2, <2>3 DEF OwnAttempt, OwnFrames, OwnHeads, OwnHeld, OnAir
  <2>5. OwnAttempt(c, q, w, e)
    BY <2>2, <2>3, <2>4 DEF OwnAttempt, OnAir
  <2> QED
    BY <2>2, <2>5, <2>a
<1> QED
  BY <1>1, <1>2, <1>3

(* What the end of an adapter step leaves and offers.                          *)
LEMMA ConcludeOwn ==
  ASSUME NEW a, NEW r, NEW w, NEW e, OwnAttempt(a, r, w, e), a.obs = NoObservation
  PROVE  LET s == Conclude(a, r, w) IN OwnAttempt(s.adp, s.ether, s.win, e) /\ Offered(s.adp, e) /\ s.win = w
<1> DEFINE stays == \/ a.req = "ACKED" /\ a.policy = "KEEP_AUTOACK" /\ a.normal
                    \/ a.trans /\ a.policy = "KEEP_RAW" /\ a.req = "UNACKNOWLEDGED"
           closing == [a EXCEPT !.phase = "CLOSING", !.wait = FALSE]
           shut == [a EXCEPT !.goal = "ACK_WINDOW", !.phase = "CLOSING", !.wait = FALSE]
           b == CASE a.phase = "RETIRING" /\ ~a.stop -> closing
                  [] a.phase = "COLLECT" /\ w = "past" -> shut
                  [] OTHER -> a
           pair == IF b.phase = "CLOSING" /\ (~b.wait \/ w = "past") THEN StopRadio(b, r) ELSE Receive(b, r)
           S == Conclude(a, r, w)
<1>0. AdapterShape(a) /\ EtherShape(r) /\ NoObservation.kind = "none"
  BY DEF OwnAttempt, NoObservation
<1>o. ASSUME NEW c, c.obs = NoObservation PROVE Offered(c, e)
  BY <1>o, <1>0 DEF Offered, OwnEvent
<1>1. CASE a.phase = "RETIRING" /\ ~a.stop /\ stays
  <2> DEFINE c == [a EXCEPT !.normal = IF a.req = "ACKED" THEN TRUE ELSE @,
                            !.phase = "RX", !.goal = "RETIRE"]
  <2>1. AdapterShape(c) /\ c.phase = "RX" /\ c.obs = a.obs
    BY <1>0 DEF AdapterShape, AdapterFields, Goals
  <2>2. OwnAttempt(c, r, w, e)
    BY <2>1 DEF OwnAttempt, OwnFrames, OnAir
  <2>3. S = After(c, r, w)
    BY <1>1 DEF Conclude
  <2> HIDE DEF c
  <2> QED
    BY <2>1, <2>2, <2>3, <1>o DEF After
<1>2. CASE a.phase = "RX" /\ a.goal = "RETIRE"
  <2>1. S = After(PublishEvent(a, "RETIRED"), r, w)
    BY <1>2 DEF Conclude
  <2>2. OwnAttempt(PublishEvent(a, "RETIRED"), r, w, e) /\ Offered(PublishEvent(a, "RETIRED"), e)
    BY <1>2, PublishKeepsOwn DEF OnAir
  <2> QED
    BY <2>1, <2>2 DEF After
<1>3. CASE a.phase = "OFF"
  <2>1. \A kind \in {"BUSY_INTERVAL", "RX_CLOSED", "RETIRED", "CLOSED"} :
           OwnAttempt(PublishEvent(a, kind), r, w, e) /\ Offered(PublishEvent(a, kind), e)
    BY <1>3, PublishKeepsOwn DEF OnAir
  <2>2. \/ S = After(a, r, w)
        \/ \E kind \in {"BUSY_INTERVAL", "RX_CLOSED", "RETIRED", "CLOSED"} :
             S = After(PublishEvent(a, kind), r, w)
    BY <1>0, <1>3 DEF Conclude, AdapterShape, Goals
  <2> QED
    BY <2>1, <2>2, <1>o DEF After
<1>4. CASE /\ ~(a.phase = "RETIRING" /\ ~a.stop /\ stays)
           /\ ~(a.phase = "RX" /\ a.goal = "RETIRE") /\ a.phase # "OFF"
  <2>0. S = After(pair[1], pair[2], w)
    BY <1>4 DEF Conclude
  <2>1. OwnAttempt(closing, r, w, e) /\ closing.obs = a.obs
    BY <1>0 DEF AdapterShape, AdapterFields, OwnAttempt, OwnFrames, OnAir
  <2>2. OwnAttempt(shut, r, w, e) /\ shut.obs = a.obs
    BY <1>0 DEF AdapterShape, AdapterFields, OwnAttempt, OwnFrames, OnAir, Goals
  <2>3. b \in {closing, shut, a}
    OBVIOUS
  <2> HIDE DEF closing, shut, b
  <2>4. OwnAttempt(b, r, w, e) /\ b.obs = NoObservation
    BY <2>1, <2>2, <2>3
  <2>5. pair = StopRadio(b, r) \/ pair = Receive(b, r)
    OBVIOUS
  <2>6. OwnAttempt(pair[1], pair[2], w, e) /\ pair[1].obs = NoObservation
    BY <2>4, <2>5, StopRadioOwn, ReceiveOwn
  <2> HIDE DEF pair
  <2> QED
    BY <2>0, <2>6, <1>o DEF After
<1> QED
  BY <1>1, <1>2, <1>3, <1>4

(* So every adapter step keeps the attempt's frames and offers only its own.   *)
LEMMA AdapterStepOwn ==
  ASSUME NEW a, NEW r, NEW e, NEW s, EngineShape(e), OwnAttempt(a, r, win, e),
         a.obs = NoObservation, s \in AdapterStep(a, r, win, e)
  PROVE  OwnAttempt(s.adp, s.ether, s.win, e) /\ Offered(s.adp, e)
<1>0. ~Ready(a) /\ NoObservation.kind = "none"
  BY DEF Ready, NoObservation
<1>o. ASSUME NEW c, c.obs = NoObservation PROVE Offered(c, e)
  BY <1>o, <1>0 DEF Offered, OwnEvent
<1>s. CASE s = After(a, r, win)
  BY <1>s, <1>o DEF After
<1>1. CASE a.phase \in {"WAIT_MAC", "PREPARED"}
  BY <1>0, <1>1, <1>s DEF AdapterStep
<1>2. CASE a.phase = "SCHEDULED"
  <2>1. s = After(a, r, win) \/ s \in AttemptRun(a, r, e)
    BY <1>0, <1>2 DEF AdapterStep
  <2> QED
    BY <2>1, <1>2, <1>s, <1>o, AttemptStartsOwn
<1>3. CASE a.phase = "REPORT"
  <2>1. s = After(PublishEvent(a, "SENT_INTERVAL"), r, win)
    BY <1>0, <1>3 DEF AdapterStep
  <2>2. OwnAttempt(PublishEvent(a, "SENT_INTERVAL"), r, win, e) /\ Offered(PublishEvent(a, "SENT_INTERVAL"), e)
    BY <1>3, PublishKeepsOwn
  <2> QED
    BY <2>1, <2>2 DEF After
<1>4. CASE a.phase \notin {"WAIT_MAC", "PREPARED", "SCHEDULED", "REPORT"} /\ a.held # Nothing
  <2>1. s = After(PublishFrame(a, win), r, win)
    BY <1>0, <1>4 DEF AdapterStep
  <2>2. OwnAttempt(PublishFrame(a, win), r, win, e) /\ Offered(PublishFrame(a, win), e)
    BY <1>4, PublishFrameOwn
  <2> QED
    BY <2>1, <2>2 DEF After
<1>5. CASE a.phase \notin {"WAIT_MAC", "PREPARED", "SCHEDULED", "REPORT"} /\ a.held = Nothing
  <2>1. s = Conclude(a, r, win)
    BY <1>0, <1>5 DEF AdapterStep
  <2> QED
    BY <2>1, ConcludeOwn
<1> QED
  BY <1>1, <1>2, <1>3, <1>4, <1>5

(* mac_adapter_consume: the attempt's next phase, with nothing on offer.       *)
LEMMA ConsumeOwn ==
  ASSUME NEW a, NEW r, NEW w, NEW e, OwnAttempt(a, r, w, e), Offered(a, e)
  PROVE  /\ OwnAttempt(Consume(a), r, w, e) /\ Consume(a).obs = NoObservation
         /\ Consume(a).phase \in {"SCHEDULED"} \cup OnAir => a.phase \in {"SCHEDULED"} \cup OnAir
<1> DEFINE c == Consume(a)
<1>1. /\ AdapterShape(c) /\ c.obs = NoObservation /\ c.bound = a.bound /\ c.sure = a.sure
      /\ c.held \in {Nothing, a.held}
      /\ c.phase = IF a.obs.kind = "SENT_INTERVAL" THEN "WAIT_MAC" ELSE a.phase
  BY DEF OwnAttempt, AdapterShape, AdapterFields, Consume, Goals
<1>2. c.phase \in OnAir <=> a.phase \in OnAir
  BY <1>1 DEF Offered, OnAir
<1>3. c.phase \in {"PREPARED", "SCHEDULED"} => c.phase = a.phase
  BY <1>1
<1> HIDE DEF c
<1>4. OwnHeld(a, w, e) => OwnHeld(c, w, e)
  BY <1>1 DEF OwnHeld
<1>5. OwnAttempt(c, r, w, e)
  BY <1>1, <1>2, <1>3, <1>4 DEF OwnAttempt, OwnFrames
<1> QED
  BY <1>1, <1>2, <1>3, <1>5 DEF c
(* An engine that has left the attempt's phases has no attempt in the adapter. *)
LEMMA OtherEngineOwn ==
  ASSUME NEW a, NEW r, NEW w, NEW e, NEW d, OwnAttempt(a, r, w, e),
         a.phase \notin {"SCHEDULED"} \cup OnAir \/ (Current(d) = Current(e) /\ d.phase \in Airborne)
  PROVE  OwnAttempt(a, r, w, d)
<1>1. OwnFrames(a, r, w, d)
  BY DEF OwnAttempt, OwnFrames, OwnHeads, OwnHeld
<1> QED
  BY <1>1 DEF OwnAttempt

(* The receiver tended before a step: no attempt is in progress.               *)
LEMMA TendedOwn ==
  ASSUME OwnAttempt(adp, ether, win, eng), adp.obs = NoObservation, Tended(adp, ether) # Refused
  PROVE  LET t == Tended(adp, ether) IN
         OwnAttempt(t, TendedRadio(t, ether), win, eng) /\ t.obs = NoObservation
<1> DEFINE t == Tended(adp, ether)
<1>0. AdapterShape(adp) /\ EtherShape(ether)
  BY DEF OwnAttempt
<1>1. CASE t = adp
  <2>1. TendedRadio(adp, ether) = ether
    BY DEF TendedRadio
  <2> QED
    BY <1>1, <2>1
<1>2. ASSUME NEW wait, adp.phase = "RX", t = Close(adp, wait)
      PROVE  OwnAttempt(t, TendedRadio(t, ether), win, eng) /\ t.obs = NoObservation
  <2>1. t = [adp EXCEPT !.wait = wait, !.stop = FALSE, !.goal = "USER", !.phase = "CLOSING"]
    BY <1>2 DEF Close
  <2>2. AdapterShape(t) /\ t.phase = "CLOSING" /\ t.obs = adp.obs
    BY <1>0, <2>1 DEF AdapterShape, AdapterFields, Goals
  <2>3. TendedRadio(t, ether) = ether
    BY <2>2 DEF TendedRadio
  <2> QED
    BY <2>2, <2>3 DEF OwnAttempt, OwnFrames, OnAir
<1>3. CASE adp.phase = "OFF" /\ t = Open(adp, ether)
  <2>1. t = [adp EXCEPT !.phase = "RX", !.normal = TRUE, !.stop = FALSE, !.wait = FALSE, !.lossy = FALSE]
    BY <1>3 DEF Open
  <2>2. AdapterShape(t) /\ t.phase = "RX" /\ t.obs = adp.obs
    BY <1>0, <2>1 DEF AdapterShape, AdapterFields
  <2>3. LET q == TendedRadio(t, ether) IN EtherShape(q) /\ q.phase = "RX"
    BY <1>0, <1>3, <2>2 DEF TendedRadio, RadioOpened, EtherShape, EtherFields
  <2> QED
    BY <2>2, <2>3 DEF OwnAttempt, OwnFrames, OnAir
<1>4. \/ t = adp
      \/ adp.phase = "RX" /\ \E wait \in BOOLEAN : t = Close(adp, wait)
      \/ adp.phase = "OFF" /\ t = Open(adp, ether)
  BY DEF Tended
<1> QED
  BY <1>1, <1>2, <1>3, <1>4

(* The engine and the grant a client call returns.                             *)
LEMMA ClientStepOwn ==
  ASSUME NEW ev, EngineShape(eng), OwnAck(eng), OwnEvent(ev, eng)
  PROVE  LET d == ClientStep(ev).eng IN
         /\ EngineShape(d) /\ OwnAck(d)
         /\ eng.phase \in Airborne /\ ev.kind \notin {"BUSY_INTERVAL", "RETIRED"} =>
              Current(d) = Current(eng) /\ d.phase \in Airborne \cup {"FAULT"}
<1> DEFINE giveup == up.cancel /\ ~up.cancel_sent /\ ev = NoObservation
           given == [NoObservation EXCEPT !.kind = "CANCEL", !.id = LinkId(eng)]
           told == IF giveup THEN given ELSE ev
           d == ObservedStep(eng, told, late).eng
           C == ClientStep(ev)
<1>1. given.kind = "CANCEL" /\ OwnEvent(told, eng)
  BY DEF NoObservation, OwnEvent
<1>2. /\ EngineShape(d) /\ OwnAck(d)
      /\ told.kind \notin {"BUSY_INTERVAL", "RETIRED"} => EngineKept(eng, d)
  BY <1>1, ObservedKeepsAttempt
<1>3. \/ C.eng = eng \/ C.eng = d
      \/ eng.phase = "DONE" /\ C.eng = IdleEngine(eng.gen)
  <2>1. CASE Arms(up.flow)
    <3>1. C = ArmingStep(ev)
      BY <2>1 DEF ClientStep, Arms
    <3> QED
      BY <3>1 DEF ArmingStep, Client
  <2>2. CASE ~Arms(up.flow)
    BY <2>2 DEF ClientStep, Client
  <2> QED
    BY <2>1, <2>2
<1>4. EngineShape(IdleEngine(eng.gen)) /\ OwnAck(IdleEngine(eng.gen))
  BY DEF EngineShape, EngineFields, IdleEngine, OwnAck
<1> HIDE DEF d, C
<1>5. ev.kind \notin {"BUSY_INTERVAL", "RETIRED"} => told.kind \notin {"BUSY_INTERVAL", "RETIRED"}
  BY <1>1
<1> HIDE DEF told
<1>6. EngineShape(C.eng) /\ OwnAck(C.eng)
  BY <1>2, <1>3, <1>4
<1>7. ASSUME eng.phase \in Airborne, ev.kind \notin {"BUSY_INTERVAL", "RETIRED"}
      PROVE  Current(C.eng) = Current(eng) /\ C.eng.phase \in Airborne \cup {"FAULT"}
  BY <1>2, <1>3, <1>5, <1>7 DEF EngineKept, Airborne
<1> QED
  BY <1>6, <1>7 DEF C
(* One event reaches the engine; what the adapter keeps is the engine's own.   *)
LEMMA DeliverOwn ==
  ASSUME AckInv, Running, NEW ev, NEW s, OwnAttempt(s.adp, s.ether, s.win, eng), Offered(s.adp, eng),
         OwnEvent(ev, eng), Deliver(ev, s),
         ev.kind \in {"BUSY_INTERVAL", "RETIRED"} => s.adp.phase \notin {"SCHEDULED"} \cup OnAir
  PROVE  AckInv'
<1> DEFINE pump == drv.action = "TX"
           cancels == pump /\ up.cancel /\ eng.phase # "STOPPING"
           given == [NoObservation EXCEPT !.kind = "CANCEL", !.id = LinkId(eng)]
           told == IF cancels THEN given ELSE ev
           r == ObservedStep(eng, told, late)
           done == pump /\ r.eng.phase = "DONE"
           a == IF done /\ s.adp.phase = "PREPARED" THEN Unprepare(s.adp, r.eng) ELSE s.adp
           c == IF done THEN PumpEnds(r.eng)
                ELSE IF pump THEN Client(up, r.eng, "TX") ELSE ClientStep(ev)
           Engaged == {"SCHEDULED"} \cup OnAir
<1>0. EngineShape(eng) /\ OwnAck(eng) /\ drv = [f \in DriverFields |-> drv[f]]
  BY DEF AckInv, AckIsOwn, OwnAck, Current
<1>1. /\ eng' = c.eng /\ win' = s.win
      /\ ether' = IF a # Refused /\ a.phase = "OFF" /\ s.ether.phase = "PREP"
                  THEN RadioUnprepared(s.ether) ELSE s.ether
      /\ adp' = IF a = Refused THEN s.adp ELSE IF Ready(a) THEN Consume(a) ELSE a
      /\ drv' = [drv EXCEPT !.action = c.action, !.random = "no",
                            !.radio = IF pump THEN r.emit ELSE "none",
                            !.fault = IF a = Refused THEN "refused"
                                      ELSE IF c.eng.phase = "FAULT" THEN "consumer" ELSE "none"]
  BY DEF Deliver
<1>2. OwnEvent(told, eng) /\ (told.kind \in {"BUSY_INTERVAL", "RETIRED"} => s.adp.phase \notin Engaged)
  BY DEF NoObservation, OwnEvent
<1>3. /\ EngineShape(r.eng) /\ OwnAck(r.eng)
      /\ told.kind \notin {"BUSY_INTERVAL", "RETIRED"} => EngineKept(eng, r.eng)
  BY <1>0, <1>2, ObservedKeepsAttempt
<1>4. s.adp.phase \in Engaged => eng.phase \in Airborne
  BY DEF OwnAttempt
<1>5. s.adp.phase \in Engaged =>
        Current(r.eng) = Current(eng) /\ r.eng.phase \in Airborne \cup {"FAULT"}
  BY <1>2, <1>3, <1>4 DEF EngineKept
<1>6. s.adp.phase \in Engaged => ~done
  BY <1>5 DEF Airborne
<1> HIDE DEF r, told
<1>7. /\ EngineShape(c.eng) /\ OwnAck(c.eng)
      /\ s.adp.phase \in Engaged =>
           Current(c.eng) = Current(eng) /\ c.eng.phase \in Airborne \cup {"FAULT"}
  <2>1. CASE done
    <3>1. c.eng \in {r.eng, IdleEngine(r.eng.gen)}
      BY <2>1 DEF PumpEnds, Client
    <3>2. EngineShape(IdleEngine(r.eng.gen)) /\ OwnAck(IdleEngine(r.eng.gen))
      BY <1>3 DEF EngineShape, EngineFields, IdleEngine, OwnAck
    <3> QED
      BY <2>1, <3>1, <3>2, <1>3, <1>6
  <2>2. CASE ~done /\ pump
    <3>1. c.eng = r.eng
      BY <2>2 DEF Client
    <3> QED
      BY <3>1, <1>3, <1>5
  <2>3. CASE ~done /\ ~pump
    <3>1. c = ClientStep(ev)
      BY <2>3
    <3> QED
      BY <3>1, <1>0, <1>4, ClientStepOwn
  <2> QED
    BY <2>1, <2>2, <2>3
<1> HIDE DEF c
<1>8. EngineShape(eng') /\ AckIsOwn'
  BY <1>1, <1>7 DEF AckIsOwn, OwnAck, Current
<1>9. /\ drv' = [f \in DriverFields |-> drv'[f]]
      /\ drv'.fault = IF a = Refused THEN "refused"
                      ELSE IF c.eng.phase = "FAULT" THEN "consumer" ELSE "none"
  BY <1>0, <1>1 DEF DriverFields
<1>10. ASSUME a # Refused, c.eng.phase # "FAULT"
       PROVE  adp'.obs = NoObservation /\ OwnAttempt(adp', ether', win', eng')
  <2>1. \/ a = s.adp
        \/ s.adp.phase = "PREPARED" /\ ~Ready(s.adp) /\ a = [s.adp EXCEPT !.phase = "OFF"]
    BY <1>10 DEF Unprepare
  <2>2. AdapterShape(s.adp) /\ EtherShape(s.ether)
    BY DEF OwnAttempt
  <2>3. AdapterShape(a) /\ (a = s.adp \/ (s.adp.phase = "PREPARED" /\ a.phase = "OFF" /\ a.obs = NoObservation))
    BY <2>1, <2>2 DEF AdapterShape, AdapterFields, Ready
  <2> HIDE DEF a
  <2>4. OwnAttempt(a, s.ether, s.win, eng)
    BY <2>3 DEF OwnAttempt, OwnFrames, OnAir
  <2>5. Offered(a, eng)
    BY <2>3 DEF Offered, OwnEvent, NoObservation
  <2>6. ether' = s.ether \/ (a.phase = "OFF" /\ s.ether.phase = "PREP" /\ ether' = [s.ether EXCEPT !.phase = "OFF"])
    BY <1>1 DEF RadioUnprepared
  <2>7. OwnAttempt(a, ether', s.win, eng)
    <3>1. CASE ether' = s.ether
      BY <3>1, <2>4
    <3>2. CASE a.phase = "OFF" /\ s.ether.phase = "PREP" /\ ether' = [s.ether EXCEPT !.phase = "OFF"]
      <4>1. EtherShape(ether') /\ ether'.heads = s.ether.heads
        BY <2>2, <3>2 DEF EtherShape, EtherFields
      <4>2. s.ether.heads = <<>>
        BY <2>4, <3>2 DEF OwnAttempt
      <4> QED
        BY <2>4, <3>2, <4>1, <4>2 DEF OwnAttempt, OwnFrames, OnAir
    <3> QED
      BY <2>6, <3>1, <3>2
  <2>8. /\ OwnAttempt(adp', ether', win', eng) /\ adp'.obs = NoObservation
        /\ adp'.phase \in Engaged => a.phase \in Engaged
    <3>1. CASE Ready(a)
      BY <3>1, <1>1, <1>10, <2>5, <2>7, ConsumeOwn
    <3>2. CASE ~Ready(a)
      BY <3>2, <1>1, <1>10, <2>7 DEF Ready
    <3> QED
      BY <3>1, <3>2
  <2>9. a.phase \in Engaged => s.adp.phase \in Engaged
    BY <2>3 DEF OnAir
  <2>10. adp'.phase \notin Engaged \/ (Current(eng') = Current(eng) /\ eng'.phase \in Airborne)
    BY <1>1, <1>7, <1>10, <2>8, <2>9
  <2> QED
    BY <2>8, <2>10, OtherEngineOwn
<1> QED
  BY <1>8, <1>9, <1>10 DEF AckInv, Running
(* A step that changes neither the engine nor the driver's fault, or that ends *)
(* the run with one, has only the adapter's side to keep.                      *)
LEMMA QuietStepOwn ==
  ASSUME AckInv, eng' = eng, drv' = [f \in DriverFields |-> drv'[f]],
         Running' => adp'.obs = NoObservation /\ OwnAttempt(adp', ether', win', eng)
  PROVE  AckInv'
BY DEF AckInv, AckIsOwn

LEMMA FailEnds ==
  ASSUME AckInv, NEW why, why # "none", Fail(why)
  PROVE  drv' = [f \in DriverFields |-> drv'[f]] /\ ~Running'
BY DEF AckInv, Fail, Running, DriverFields

(* Every step of the link keeps the invariant.                                 *)
LEMMA AcceptRadioOwn ==
  ASSUME AckInv, AcceptRadio
  PROVE  AckInv'
<1>0. Running /\ adp.obs = NoObservation /\ OwnAttempt(adp, ether, win, eng) /\ AdapterShape(adp)
      /\ drv = [f \in DriverFields |-> drv[f]] /\ UNCHANGED <<eng, ether, win>>
  BY DEF AckInv, AcceptRadio, OwnAttempt
<1>1. CASE drv.radio = "RANDOM"
  <2>1. drv' = [f \in DriverFields |-> drv'[f]] /\ adp' = adp
    BY <1>0, <1>1 DEF AcceptRadio, DriverFields
  <2> QED
    BY <1>0, <2>1, QuietStepOwn
<1>2. CASE drv.radio # "RANDOM"
  <2> DEFINE a == Accept(adp, eng, drv.radio)
  <2>1. CASE a = Refused
    BY <1>0, <1>2, <2>1, FailEnds, QuietStepOwn DEF AcceptRadio
  <2>2. CASE a # Refused
    <3>1. adp' = a /\ drv' = [drv EXCEPT !.radio = "none"]
      BY <1>2, <2>2 DEF AcceptRadio
    <3>2. drv' = [f \in DriverFields |-> drv'[f]]
      BY <1>0, <3>1 DEF DriverFields
    <3>3. \/ adp.phase = "PREPARED" /\ eng.phase = "RADIO" /\ adp' = [adp EXCEPT !.phase = "SCHEDULED"]
          \/ adp.phase = "WAIT_MAC" /\ eng.phase = "ACK_WAIT" /\ adp' = [adp EXCEPT !.phase = "COLLECT"]
          \/ adp' = [adp EXCEPT !.goal = "RETIRE", !.req = eng.outcome,
                       !.phase = IF @ \in {"DRAINING", "OFF"} THEN @ ELSE "RETIRING"]
      BY <2>2, <3>1 DEF Accept
    <3>4. AdapterShape(adp') /\ adp'.obs = NoObservation /\ adp'.held = adp.held
          /\ adp'.bound = adp.bound /\ adp'.sure = adp.sure
      BY <1>0, <3>3 DEF AdapterShape, AdapterFields, Goals
    <3>5. \/ adp.phase = "PREPARED" /\ eng.phase = "RADIO" /\ adp'.phase = "SCHEDULED"
          \/ adp.phase = "WAIT_MAC" /\ eng.phase = "ACK_WAIT" /\ adp'.phase = "COLLECT"
          \/ adp'.phase \in {"DRAINING", "OFF", "RETIRING"}
      BY <1>0, <3>3 DEF AdapterShape, AdapterFields
    <3>6. OwnAttempt(adp', ether, win, eng)
      BY <1>0, <3>4, <3>5 DEF OwnAttempt, OwnFrames, OwnHeld, OnAir, Airborne
    <3> QED
      BY <1>0, <3>2, <3>4, <3>6, QuietStepOwn
  <2> QED
    BY <2>1, <2>2
<1> QED
  BY <1>1, <1>2

LEMMA GrantDrainsOwn ==
  ASSUME AckInv, GrantDrains
  PROVE  AckInv'
<1>0. Running /\ adp.obs = NoObservation /\ OwnAttempt(adp, ether, win, eng) /\ EngineShape(eng)
      /\ drv = [f \in DriverFields |-> drv[f]] /\ eng' = eng
  BY DEF AckInv, GrantDrains, Stepping
<1>1. PICK s \in AdapterStep(adp, ether, win, eng) :
       /\ ether' = s.ether /\ win' = s.win
       /\ CASE s.adp.phase = "FAULT" -> adp' = s.adp /\ Fail("radio")
            [] Ready(s.adp) /\ s.adp.obs.kind \notin {"FRAME", "CLOSED"} ->
                 adp' = s.adp /\ Fail("STATE")
            [] OTHER -> adp' = (IF Ready(s.adp) THEN Consume(s.adp) ELSE s.adp) /\ UNCHANGED drv
  BY DEF GrantDrains
<1>2. OwnAttempt(s.adp, s.ether, s.win, eng) /\ Offered(s.adp, eng)
  BY <1>0, AdapterStepOwn
<1>3. \/ Fail("radio") \/ Fail("STATE")
      \/ drv' = drv /\ adp' = IF Ready(s.adp) THEN Consume(s.adp) ELSE s.adp
  BY <1>1
<1>4. CASE Fail("radio") \/ Fail("STATE")
  BY <1>0, <1>4, FailEnds, QuietStepOwn
<1>5. CASE drv' = drv /\ adp' = IF Ready(s.adp) THEN Consume(s.adp) ELSE s.adp
  <2>1. adp'.obs = NoObservation /\ OwnAttempt(adp', ether', win', eng)
    BY <1>1, <1>2, <1>5, ConsumeOwn DEF Ready
  <2> QED
    BY <1>0, <1>5, <2>1, QuietStepOwn
<1> QED
  BY <1>3, <1>4, <1>5

LEMMA DriverPollOwn ==
  ASSUME AckInv, DriverPoll
  PROVE  AckInv'
<1> DEFINE t == Tended(adp, ether)
           q == TendedRadio(t, ether)
<1>0. Running /\ adp.obs = NoObservation /\ OwnAttempt(adp, ether, win, eng) /\ EngineShape(eng)
      /\ drv = [f \in DriverFields |-> drv[f]]
  BY DEF AckInv, DriverPoll, Stepping
<1>1. CASE t = Refused
  <2>1. Fail("refused") /\ eng' = eng
    BY <1>1 DEF DriverPoll
  <2> QED
    BY <2>1, FailEnds, QuietStepOwn
<1>2. CASE t # Refused /\ drv.random # "no"
  <2>1. PICK sure \in BOOLEAN :
          Deliver(IF drv.random = "late" THEN NoObservation
                  ELSE [NoObservation EXCEPT !.kind = "RANDOM", !.id = LinkId(eng), !.sure = sure],
                  After(t, q, win))
    BY <1>2 DEF DriverPoll
  <2> DEFINE ev == IF drv.random = "late" THEN NoObservation
                   ELSE [NoObservation EXCEPT !.kind = "RANDOM", !.id = LinkId(eng), !.sure = sure]
             s == After(t, q, win)
  <2>2. OwnAttempt(t, q, win, eng) /\ t.obs = NoObservation
    BY <1>0, <1>2, TendedOwn
  <2>3. ev.kind \in {"none", "RANDOM"} /\ OwnEvent(ev, eng) /\ NoObservation.kind = "none"
    BY DEF NoObservation, OwnEvent
  <2> HIDE DEF t, q
  <2>4. s.adp = t /\ s.ether = q /\ s.win = win
    BY DEF After
  <2>5. OwnAttempt(s.adp, s.ether, s.win, eng) /\ Offered(s.adp, eng)
    BY <2>2, <2>3, <2>4 DEF Offered, OwnEvent
  <2> HIDE DEF ev, s
  <2>6. Deliver(ev, s)
    BY <2>1 DEF ev, s
  <2> QED
    BY <1>0, <2>3, <2>5, <2>6, DeliverOwn
<1>3. CASE t # Refused /\ drv.random = "no"
  <2>1. PICK s \in AdapterStep(t, q, win, eng) :
            CASE s.adp.phase = "FAULT" ->
                   adp' = s.adp /\ ether' = s.ether /\ win' = s.win /\ Fail("radio") /\ UNCHANGED <<up, eng>>
              [] s.adp.obs.kind = "FRAME" ->
                   adp' = Consume(s.adp) /\ ether' = s.ether /\ win' = s.win /\ UNCHANGED <<up, eng, drv>>
              [] OTHER -> Deliver(IF s.adp.obs.kind = "CLOSED" /\ Arms(up.flow)
                                  THEN NoObservation ELSE s.adp.obs, s)
    BY <1>3 DEF DriverPoll
  <2>2. OwnAttempt(t, q, win, eng) /\ t.obs = NoObservation
    BY <1>0, <1>3, TendedOwn
  <2> HIDE DEF t, q
  <2>3. OwnAttempt(s.adp, s.ether, s.win, eng) /\ Offered(s.adp, eng)
    BY <1>0, <2>1, <2>2, AdapterStepOwn
  <2>4. \/ Fail("radio") /\ eng' = eng
        \/ adp' = Consume(s.adp) /\ ether' = s.ether /\ win' = s.win /\ eng' = eng /\ drv' = drv
        \/ Deliver(IF s.adp.obs.kind = "CLOSED" /\ Arms(up.flow) THEN NoObservation ELSE s.adp.obs, s)
    BY <2>1
  <2>5. CASE Fail("radio") /\ eng' = eng
    BY <2>5, FailEnds, QuietStepOwn
  <2>6. CASE adp' = Consume(s.adp) /\ ether' = s.ether /\ win' = s.win /\ eng' = eng /\ drv' = drv
    BY <1>0, <2>3, <2>6, ConsumeOwn, QuietStepOwn
  <2>7. CASE Deliver(IF s.adp.obs.kind = "CLOSED" /\ Arms(up.flow) THEN NoObservation ELSE s.adp.obs, s)
    <3> DEFINE ev == IF s.adp.obs.kind = "CLOSED" /\ Arms(up.flow) THEN NoObservation ELSE s.adp.obs
    <3>1. OwnEvent(ev, eng) /\ (ev.kind \in {"BUSY_INTERVAL", "RETIRED"} =>
                                  s.adp.phase \notin {"SCHEDULED"} \cup OnAir)
      BY <2>3 DEF Offered, OwnEvent, NoObservation
    <3> HIDE DEF ev
    <3>2. Deliver(ev, s)
      BY <2>7 DEF ev
    <3> QED
      BY <1>0, <2>3, <3>1, <3>2, DeliverOwn
  <2> QED
    BY <2>4, <2>5, <2>6, <2>7
<1> QED
  BY <1>1, <1>2, <1>3
LEMMA GrantsOwn ==
  ASSUME AckInv,
         \/ GrantClosesRadio \/ GrantConfig \/ GrantPrepares \/ GrantCloses
         \/ GrantDisarms \/ GrantRadio \/ GrantReceive
  PROVE  AckInv'
<1>0. Running /\ adp.obs = NoObservation /\ OwnAttempt(adp, ether, win, eng) /\ EngineShape(eng)
      /\ drv = [f \in DriverFields |-> drv[f]] /\ AdapterShape(adp) /\ EtherShape(ether)
  BY DEF AckInv, GrantClosesRadio, GrantConfig, GrantPrepares, GrantCloses, GrantDisarms, GrantRadio,
         GrantReceive, Stepping, OwnAttempt
<1>1. CASE GrantClosesRadio
  <2>1. adp' = [adp EXCEPT !.wait = FALSE, !.stop = FALSE, !.goal = "USER", !.phase = "CLOSING"]
        /\ UNCHANGED <<eng, drv, ether, win>>
    BY <1>1 DEF GrantClosesRadio, Close
  <2>2. AdapterShape(adp') /\ adp'.phase = "CLOSING" /\ adp'.obs = NoObservation
    BY <1>0, <2>1 DEF AdapterShape, AdapterFields, Goals
  <2>3. OwnAttempt(adp', ether, win, eng)
    BY <1>0, <2>2 DEF OwnAttempt, OwnFrames, OnAir
  <2> QED
    BY <1>0, <2>1, <2>2, <2>3, QuietStepOwn
<1>2. CASE GrantConfig
  <2> DEFINE a == IF mode \in {"runtime", "sleepy"} THEN Open(adp, ether)
                  ELSE IF IdleOff(adp, ether) THEN adp ELSE Refused
  <2>1. CASE a = Refused
    BY <1>2, <2>1, FailEnds, QuietStepOwn DEF GrantConfig
  <2>2. CASE a # Refused
    <3>1. /\ adp' = a /\ drv' = [drv EXCEPT !.action = "none"] /\ UNCHANGED <<eng, win>>
          /\ ether' = IF a.phase = "RX" THEN RadioOpened(ether) ELSE ether
      BY <1>2, <2>2 DEF GrantConfig
    <3>2. adp.phase = "OFF"
      BY <1>2 DEF GrantConfig, Settled
    <3>3. \/ adp' = adp
          \/ adp' = [adp EXCEPT !.phase = "RX", !.normal = TRUE, !.stop = FALSE, !.wait = FALSE, !.lossy = FALSE]
      BY <2>2, <3>1 DEF Open
    <3>4. AdapterShape(adp') /\ adp'.phase \in {"OFF", "RX"} /\ adp'.obs = NoObservation
      BY <1>0, <3>2, <3>3 DEF AdapterShape, AdapterFields
    <3>5. ether' = ether \/ (EtherShape(ether') /\ ether'.phase = "RX")
      BY <1>0, <3>1 DEF RadioOpened, EtherShape, EtherFields
    <3>6. OwnAttempt(adp', ether', win, eng)
      BY <1>0, <3>4, <3>5 DEF OwnAttempt, OwnFrames, OnAir
    <3>7. drv' = [f \in DriverFields |-> drv'[f]]
      BY <1>0, <3>1 DEF DriverFields
    <3> QED
      BY <3>1, <3>4, <3>6, <3>7, QuietStepOwn
  <2> QED
    BY <2>1, <2>2
<1>3. CASE GrantPrepares
  <2> DEFINE a == Prepare(adp, ether, eng, up.flow)
  <2>1. CASE a = Refused
    BY <1>3, <2>1, FailEnds, QuietStepOwn DEF GrantPrepares
  <2>2. CASE a # Refused
    <3>1. /\ adp' = a /\ ether' = [ether EXCEPT !.phase = "PREP"] /\ UNCHANGED <<eng, win>>
          /\ drv' = [drv EXCEPT !.action = IF @ = "ARM" THEN "none" ELSE @]
      BY <1>3, <2>2 DEF GrantPrepares, RadioPrepared
    <3>2. /\ ether.phase = "OFF"
          /\ adp' = [adp EXCEPT !.id = LinkId(eng), !.policy = Policy(up.flow), !.normal = FALSE,
                       !.trans = FALSE, !.stop = FALSE, !.wait = FALSE, !.lossy = FALSE, !.goal = "NONE",
                       !.phase = "PREPARED"]
      BY <2>2, <3>1 DEF Prepare
    <3>3. AdapterShape(adp') /\ adp'.phase = "PREPARED" /\ adp'.obs = NoObservation
      BY <1>0, <3>2 DEF AdapterShape, AdapterFields, Goals
    <3>4. EtherShape(ether') /\ ether'.phase = "PREP" /\ ether'.heads = ether.heads
      BY <1>0, <3>1 DEF EtherShape, EtherFields
    <3>5. OwnAttempt(adp', ether', win, eng)
      BY <1>0, <3>2, <3>3, <3>4 DEF OwnAttempt, OwnFrames, OnAir
    <3>6. drv' = [f \in DriverFields |-> drv'[f]]
      BY <1>0, <3>1 DEF DriverFields
    <3> QED
      BY <3>1, <3>3, <3>5, <3>6, QuietStepOwn
  <2> QED
    BY <2>1, <2>2
<1>4. CASE GrantCloses
  <2>1. /\ adp.phase = "OFF" /\ eng' = IdleEngine(eng.gen) /\ drv' = [drv EXCEPT !.action = "none"]
        /\ UNCHANGED <<adp, ether, win>>
    BY <1>4 DEF GrantCloses, Settled
  <2>2. EngineShape(eng') /\ AckIsOwn'
    BY <1>0, <2>1 DEF EngineShape, EngineFields, IdleEngine, AckIsOwn
  <2>3. OwnAttempt(adp, ether, win, eng')
    BY <1>0, <2>1, OtherEngineOwn DEF OnAir
  <2>4. drv' = [f \in DriverFields |-> drv'[f]]
    BY <1>0, <2>1 DEF DriverFields
  <2> QED
    BY <1>0, <2>1, <2>2, <2>3, <2>4 DEF AckInv
<1>5. CASE GrantDisarms
  <2> DEFINE a == IF adp.phase = "PREPARED" THEN Unprepare(adp, eng) ELSE adp
             rest == adp.phase \in {"OFF", "RX"} /\ ~Ready(adp) /\ adp.goal = "NONE"
  <2>0. eng' = eng /\ win' = win
    BY <1>5 DEF GrantDisarms
  <2>1. CASE a = Refused
    <3>1. Fail("refused") \/ Fail("STATE")
      BY <1>5, <2>1 DEF GrantDisarms
    <3> QED
      BY <2>0, <3>1, FailEnds, QuietStepOwn
  <2>2. CASE a # Refused /\ adp.phase # "PREPARED" /\ ~rest
    <3>1. Fail("STATE")
      BY <1>5, <2>2 DEF GrantDisarms
    <3> QED
      BY <2>0, <3>1, FailEnds, QuietStepOwn
  <2>3. CASE a # Refused /\ ~(adp.phase # "PREPARED" /\ ~rest)
    <3>1. /\ adp' = a
          /\ ether' = IF adp.phase = "PREPARED" THEN RadioUnprepared(ether) ELSE ether
          /\ \E hold \in BOOLEAN : drv' = [drv EXCEPT !.action = "none", !.held = @ \/ hold]
      BY <1>5, <2>3 DEF GrantDisarms
    <3>2. drv' = [f \in DriverFields |-> drv'[f]]
      BY <1>0, <3>1 DEF DriverFields
    <3>3. CASE adp.phase # "PREPARED"
      BY <1>0, <2>0, <3>1, <3>2, <3>3, QuietStepOwn
    <3>4. CASE adp.phase = "PREPARED"
      <4>1. adp' = [adp EXCEPT !.phase = "OFF"] /\ ether' = [ether EXCEPT !.phase = "OFF"]
        BY <2>3, <3>1, <3>4 DEF Unprepare, RadioUnprepared
      <4>2. AdapterShape(adp') /\ adp'.phase = "OFF" /\ adp'.obs = NoObservation
        BY <1>0, <4>1 DEF AdapterShape, AdapterFields
      <4>3. EtherShape(ether') /\ ether'.phase = "OFF" /\ ether'.heads = ether.heads
        BY <1>0, <4>1 DEF EtherShape, EtherFields
      <4>4. OwnAttempt(adp', ether', win, eng)
        BY <1>0, <3>4, <4>2, <4>3 DEF OwnAttempt, OwnFrames, OnAir
      <4> QED
        BY <2>0, <3>2, <4>2, <4>4, QuietStepOwn
    <3> QED
      BY <3>3, <3>4
  <2> QED
    BY <2>1, <2>2, <2>3
<1>6. CASE GrantRadio
  <2>1. drv' = [f \in DriverFields |-> drv'[f]] /\ UNCHANGED <<eng, adp, ether, win>>
    BY <1>0, <1>6 DEF GrantRadio, DriverFields
  <2> QED
    BY <1>0, <2>1, QuietStepOwn
<1>7. CASE GrantReceive
  <2>1. CASE adp.phase # "RX" \/ adp.normal
    BY <1>7, <2>1, FailEnds, QuietStepOwn DEF GrantReceive
  <2>2. CASE ~(adp.phase # "RX" \/ adp.normal)
    <3>1. drv' = [f \in DriverFields |-> drv'[f]] /\ UNCHANGED <<eng, adp, ether>> /\ win' = "in"
      BY <1>0, <1>7, <2>2 DEF GrantReceive, DriverFields
    <3>2. OwnAttempt(adp, ether, win', eng)
      BY <1>0, <2>2, <3>1 DEF OwnAttempt, OwnFrames, OnAir
    <3> QED
      BY <1>0, <3>1, <3>2, QuietStepOwn
  <2> QED
    BY <2>1, <2>2
<1> QED
  BY <1>1, <1>2, <1>3, <1>4, <1>5, <1>6, <1>7

(* A frame that arrives carries the transmission it follows and its window.    *)
LEMMA FrameArrivesOwn ==
  ASSUME AckInv, FrameArrives
  PROVE  AckInv'
<1>0. Running /\ adp.obs = NoObservation /\ OwnAttempt(adp, ether, win, eng)
      /\ drv = [f \in DriverFields |-> drv[f]] /\ EtherShape(ether) /\ ether.phase = "RX"
      /\ UNCHANGED <<eng, drv, adp, win>> /\ win \in {"in", "unsure", "past"}
  BY DEF AckInv, FrameArrives, OwnAttempt
<1>1. CASE ether' = [ether EXCEPT !.lost = TRUE]
  <2>1. EtherShape(ether') /\ ether'.phase = "RX" /\ ether'.heads = ether.heads /\ ether'.tx = ether.tx
    BY <1>0, <1>1 DEF EtherShape, EtherFields
  <2>2. OwnAttempt(adp, ether', win, eng)
    BY <1>0, <2>1 DEF OwnAttempt, OwnFrames, OwnHeads
  <2> QED
    BY <1>0, <2>2, QuietStepOwn
<1>2. ASSUME NEW k \in FrameKinds,
             ether' = [ether EXCEPT !.count = @ + 1,
                       !.heads = Append(@, [kind |-> k, at |-> ether.tx, win |-> win])]
      PROVE  AckInv'
  <2> DEFINE h == [kind |-> k, at |-> ether.tx, win |-> win]
             hs == Append(ether.heads, h)
  <2>1. ether' = [f \in EtherFields |-> ether'[f]] /\ ether'.heads = hs
        /\ ether'.tx = ether.tx /\ ether'.phase = "RX"
    BY <1>0, <1>2 DEF EtherShape, EtherFields
  <2>2. h \in Heard
    BY <1>0 DEF EtherShape, Heard
  <2>3. h.at = ether.tx /\ h.win = win
    OBVIOUS
  <2> HIDE DEF h
  <2>4. /\ hs \in Seq(Heard) /\ Len(hs) = Len(ether.heads) + 1 /\ Len(ether.heads) \in Nat
        /\ hs[Len(ether.heads) + 1] = h
        /\ \A i \in 1..Len(ether.heads) : hs[i] = ether.heads[i]
    BY <1>0, <2>2 DEF EtherShape
  <2> HIDE DEF hs
  <2>5. EtherShape(ether')
    BY <1>0, <2>1, <2>4 DEF EtherShape
  <2>6. ASSUME ether.tx = Current(eng), OwnHeads(ether, win, eng)
        PROVE  OwnHeads(ether', win, eng)
    <3> SUFFICES ASSUME NEW i \in 1..Len(hs)
                 PROVE  hs[i].at = Current(eng) /\ (win = "in" => hs[i].win = "in")
      BY <2>1 DEF OwnHeads
    <3>1. i = Len(ether.heads) + 1 \/ i \in 1..Len(ether.heads)
      BY <2>4
    <3>2. CASE i = Len(ether.heads) + 1
      BY <2>3, <2>4, <2>6, <3>2
    <3>3. CASE i \in 1..Len(ether.heads)
      BY <2>4, <2>6, <3>3 DEF OwnHeads
    <3> QED
      BY <3>1, <3>2, <3>3
  <2>7. OwnFrames(adp, ether', win, eng)
    BY <1>0, <2>1, <2>6 DEF OwnAttempt, OwnFrames
  <2>8. OwnAttempt(adp, ether', win, eng)
    BY <1>0, <2>1, <2>5, <2>7 DEF OwnAttempt
  <2> QED
    BY <1>0, <2>8, QuietStepOwn
<1> QED
  BY <1>1, <1>2 DEF FrameArrives

(* The clients, the clock and the random byte touch no frame.                  *)
LEMMA OthersOwn ==
  ASSUME AckInv,
         \/ Random \/ ClientSubmit \/ Cancel \/ Reconfigure \/ HoldEnds \/ AckWindowPasses
         \/ DeadlinePasses \/ RadioFails
  PROVE  AckInv'
<1>0. Running /\ adp.obs = NoObservation /\ OwnAttempt(adp, ether, win, eng) /\ EngineShape(eng)
      /\ drv = [f \in DriverFields |-> drv[f]]
  BY DEF AckInv, Random, ClientSubmit, Cancel, Reconfigure, HoldEnds, AckWindowPasses, DeadlinePasses,
         RadioFails, LinkIdle
<1>1. CASE Random \/ Cancel \/ Reconfigure \/ HoldEnds \/ DeadlinePasses
  <2>1. UNCHANGED <<eng, adp, ether, win>> /\ drv' = [f \in DriverFields |-> drv'[f]]
    BY <1>0, <1>1 DEF Random, Cancel, Reconfigure, HoldEnds, DeadlinePasses, DriverFields
  <2> QED
    BY <1>0, <2>1, QuietStepOwn
<1>2. CASE RadioFails
  <2>1. Fail("radio") /\ eng' = eng
    BY <1>2 DEF RadioFails
  <2> QED
    BY <2>1, FailEnds, QuietStepOwn
<1>3. CASE AckWindowPasses
  <2>1. UNCHANGED <<eng, drv, adp, ether>> /\ win' \in {"unsure", "past"}
    BY <1>3 DEF AckWindowPasses
  <2>2. OwnHeads(ether, win, eng) => OwnHeads(ether, win', eng)
    BY <2>1 DEF OwnHeads
  <2>3. OwnHeld(adp, win, eng) => OwnHeld(adp, win', eng)
    BY <2>1 DEF OwnHeld
  <2>4. OwnAttempt(adp, ether, win', eng)
    BY <1>0, <2>1, <2>2, <2>3 DEF OwnAttempt, OwnFrames
  <2> QED
    BY <1>0, <2>1, <2>4, QuietStepOwn
<1>4. CASE ClientSubmit
  <2>1. PICK flow \in Flows(mode) :
          /\ eng' = [IdleEngine(eng.gen + 1) EXCEPT !.phase = "DRAW", !.ack = flow \notin {"bcast", "scan"}]
          /\ drv' = [drv EXCEPT !.action = IF Arms(flow) THEN "ARM" ELSE "TX"]
    BY <1>4 DEF ClientSubmit
  <2>2. eng.phase = "IDLE" /\ UNCHANGED <<adp, ether, win>>
    BY <1>4 DEF ClientSubmit
  <2>3. EngineShape(eng') /\ AckIsOwn'
    <3>1. /\ eng' = [f \in EngineFields |-> eng'[f]]
          /\ eng'.gen = eng.gen + 1 /\ eng'.retries = 0 /\ eng'.outcome = "NONE"
      BY <2>1 DEF IdleEngine, EngineFields
    <3> QED
      BY <1>0, <3>1 DEF EngineShape, AckIsOwn
  <2>4. OwnAttempt(adp, ether, win, eng')
    <3>1. adp.phase \notin {"SCHEDULED"} \cup OnAir
      BY <1>0, <2>2 DEF OwnAttempt, Airborne
    <3> QED
      BY <1>0, <3>1, OtherEngineOwn
  <2>5. drv' = [f \in DriverFields |-> drv'[f]]
    BY <1>0, <2>1 DEF DriverFields
  <2> QED
    BY <1>0, <2>2, <2>3, <2>4, <2>5 DEF AckInv
<1> QED
  BY <1>1, <1>2, <1>3, <1>4

\* The frames stay those of their attempts.
LEMMA LinkKeepsOwn == LinkSpec => []AckInv
<1>1. LinkInit => AckInv
  <2> SUFFICES ASSUME LinkInit PROVE AckInv
    OBVIOUS
  <2>1. EngineShape(eng) /\ AckIsOwn
    BY DEF LinkInit, EngineShape, EngineFields, IdleEngine, AckIsOwn
  <2>2. drv = [f \in DriverFields |-> drv[f]]
    BY DEF LinkInit, DriverFields
  <2>3. AdapterShape(adp) /\ adp.phase = "OFF" /\ adp.obs = NoObservation
    BY DEF LinkInit, AdapterShape, AdapterFields, Goals
  <2>4. EtherShape(ether) /\ ether.heads = <<>> /\ win = "in"
    BY DEF LinkInit, EtherShape, EtherFields
  <2> QED
    BY <2>1, <2>2, <2>3, <2>4 DEF AckInv, OwnAttempt, OwnFrames, OnAir
<1>2. AckInv /\ [LinkNext]_linkVars => AckInv'
  <2> SUFFICES ASSUME AckInv, [LinkNext]_linkVars PROVE AckInv'
    OBVIOUS
  <2>1. CASE UNCHANGED linkVars
    BY <2>1 DEF linkVars, AckInv, AckIsOwn, Running
  <2>2. CASE LinkNext
    BY <2>2, AcceptRadioOwn, GrantDrainsOwn, DriverPollOwn, GrantsOwn, FrameArrivesOwn, OthersOwn
       DEF LinkNext, DriverStep
  <2> QED
    BY <2>1, <2>2
<1> QED
  BY <1>1, <1>2, PTL DEF LinkSpec

(* A frame counts as acknowledged only for an acknowledgement that reached the *)
(* radio after this very attempt's transmission and within its window.         *)
THEOREM AcknowledgementsAreOwn == LinkSpec => []AckIsOwn
<1>1. AckInv => AckIsOwn
  BY DEF AckInv
<1> QED
  BY <1>1, LinkKeepsOwn, PTL

(* ------------------------------------------------------------------------- *)
(* DriverInStep: where adapter, client and grant stand for each phase of the  *)
(* engine.                                                                    *)
(* ------------------------------------------------------------------------- *)
ClientFields == {"flow", "stage", "armed", "issued", "disarmed", "cancel", "cancel_sent"}
Commands == {"RANDOM", "ATTEMPT", "COLLECT", "QUIESCE"}
Commanded(d) == IF d.radio # "none" THEN d.radio
              ELSE IF d.action \in Commands THEN d.action ELSE "none"

(* Where the adapter stands for each phase of the engine and each command that *)
(* is still on its way to it.                                                  *)
Calm(a) == \/ a.phase \in {"OFF", "RX"} /\ a.goal = "NONE"
           \/ a.phase \in {"CLOSING", "DRAINING", "OFF"} /\ a.goal = "USER"
Armed(a, e) == a.phase = "PREPARED" /\ a.goal = "NONE" /\ a.id = LinkId(e)
Winding(a, goal) == a.phase \in {"CLOSING", "DRAINING", "OFF"} /\ a.goal = goal
Scheduled(a) == (a.phase \in {"SCHEDULED", "REPORT"} /\ a.goal = "NONE") \/ Winding(a, "BUSY")
Collecting(a) == (a.phase = "COLLECT" /\ a.goal = "NONE") \/ Winding(a, "ACK_WINDOW")
Stoppable(a) ==
  \/ a.phase \in {"SCHEDULED", "REPORT", "WAIT_MAC", "COLLECT", "OFF"} /\ a.goal = "NONE"
  \/ Winding(a, "BUSY") \/ Winding(a, "ACK_WINDOW")
Retiring(a) == a.phase \in {"RETIRING", "CLOSING", "DRAINING", "OFF", "RX"} /\ a.goal = "RETIRE"

Stands(a, e, p) ==
  CASE e.phase = "IDLE" -> p = "none" /\ Calm(a)
    [] e.phase = "DONE" ->
         p = "none" /\ (Calm(a) \/ (a.phase = "PREPARED" /\ a.goal = "NONE" /\ a.id[1] = e.gen))
    [] e.phase = "DRAW" -> p = "none" /\ (Calm(a) \/ Armed(a, e))
    [] e.phase = "DRAW_WAIT" -> p \in {"none", "RANDOM"} /\ Armed(a, e)
    [] e.phase = "RADIO" ->
         a.id = LinkId(e) /\ ((p = "ATTEMPT" /\ Armed(a, e)) \/ (p = "none" /\ Scheduled(a)))
    [] e.phase = "ACK_WAIT" ->
         /\ a.id = LinkId(e)
         /\ \/ p = "COLLECT" /\ a.phase = "WAIT_MAC" /\ a.goal = "NONE"
            \/ p = "none" /\ Collecting(a)
    [] e.phase = "STOPPING" ->
         a.id = LinkId(e) /\ ((p = "QUIESCE" /\ Stoppable(a)) \/ (p = "none" /\ Retiring(a)))
    [] OTHER -> FALSE

(* What the adapter keeps of the frame it has in hand.                         *)
Carries(a, r, e, flow) ==
  /\ a.phase = "OFF" => r.phase = "OFF"
  /\ a.phase \in {"OFF", "PREPARED", "SCHEDULED"} => a.held = Nothing
  /\ a.phase \in {"PREPARED", "SCHEDULED", "REPORT", "WAIT_MAC"} => ~a.stop /\ a.policy = Policy(flow)
  /\ a.phase \in OnAir => a.trans /\ (flow = "scan" => ~a.normal)

(* A scan's broadcast leaves the receiver open, and open to every frame.       *)
LeavesOpen(a, e, p, flow) ==
  flow = "scan" /\ e.phase = "STOPPING" /\ e.outcome = "UNACKNOWLEDGED" =>
    /\ a.trans /\ ~a.normal /\ a.policy = "KEEP_RAW"
    /\ \/ p = "QUIESCE" /\ a.phase = "WAIT_MAC" /\ ~a.stop
       \/ /\ p = "none" /\ a.req = "UNACKNOWLEDGED"
          /\ (a.phase = "RETIRING" /\ ~a.stop) \/ a.phase = "RX"

(* Which grant is out at which point of a client's flow.                       *)
FlowStands(m, u, e, d, a) ==
  /\ u.flow \in {"none"} \cup Flows(m)
  /\ u.flow = "none" => u = IdleClient /\ e.phase = "IDLE" /\ d.action \in {"none", "CONFIG"}
  /\ Arms(u.flow) => u.stage = "tx" /\ e.phase # "IDLE" /\ d.action \in {"none", "ARM", "DISARM"} \cup Commands
  /\ u.flow \in {"scan", "poll"} =>
       \/ u.stage = "tx" /\ d.action = "TX" /\ e.phase \notin {"IDLE", "DONE"}
       \/ /\ u.flow = "scan" /\ u.stage = "open" /\ d.action = "RECEIVE" /\ e.phase = "IDLE"
          /\ a.phase = "RX" /\ a.goal = "NONE" /\ ~a.normal
       \/ u.flow = "scan" /\ u.stage = "window" /\ d.action = "none" /\ e.phase = "IDLE"
       \/ u.flow = "poll" /\ u.stage = "rx" /\ d.action = "none" /\ e.phase = "DONE"
       \/ u.flow = "poll" /\ u.stage = "close" /\ d.action = "CLOSE" /\ e.phase = "DONE"
  /\ d.radio # "none" => d.radio \in Commands /\ d.action \in {"none", "TX"}
  /\ e.phase # "IDLE" => (e.ack <=> u.flow \notin {"bcast", "scan"})

ArmStands(u, e, d, a) ==
  Arms(u.flow) =>
    /\ d.action = "ARM" => e.phase = "DRAW"
    /\ d.action = "DISARM" => e.phase = "DONE"
    /\ e.phase = "DONE" => d.action = "DISARM" \/ (u.disarmed /\ a.phase # "PREPARED")
    /\ u.disarmed \/ u.issued = 2 => e.phase = "DONE"
    /\ e.phase = "DRAW" /\ d.action = "none" /\ a.phase # "PREPARED" => u.cancel /\ ~u.cancel_sent
    /\ u.cancel_sent => e.phase = "DONE" \/ (e.phase = "STOPPING" /\ ~e.again)

RandomStands(e, d, l) ==
  /\ d.random # "no" <=> (e.phase = "DRAW_WAIT" /\ Commanded(d) = "none")
  /\ d.random = "late" => l
  /\ e.again => e.phase = "STOPPING"

ClosureStands(m, u, e, d, a) ==
  a.goal = "USER" =>
    \/ d.action \in {"CONFIG", "ARM", "CLOSE"}
    \/ d.action = "TX" /\ e.phase = "DRAW"
    \/ u.flow = "scan" /\ u.stage = "window"
    \/ u.flow = "none" /\ m = "sleepy"

Coupled(m, u, e, d, a, r, x) ==
  /\ Stands(a, e, Commanded(d)) /\ Carries(a, r, e, u.flow) /\ LeavesOpen(a, e, Commanded(d), u.flow)
  /\ FlowStands(m, u, e, d, a) /\ ArmStands(u, e, d, a)
  /\ RandomStands(e, d, x) /\ ClosureStands(m, u, e, d, a)

StepInv ==
  /\ DriverInStep /\ up = [f \in ClientFields |-> up[f]]
  /\ mode \in Modes
  /\ Running => Coupled(mode, up, eng, drv, adp, ether, late)

(* One step of the adapter, by the fields the coupling speaks of.              *)
Same(a, b) ==
  /\ b.phase = a.phase /\ b.goal = a.goal /\ b.stop = a.stop /\ b.trans = a.trans
  /\ b.normal = a.normal /\ b.held = a.held
Still == {"WAIT_MAC", "PREPARED", "SCHEDULED", "REPORT"}
MovesRest(a, r, b, q) ==
  b = a /\ q = r /\ (a.phase \in {"WAIT_MAC", "PREPARED", "SCHEDULED"} \/ (a.phase = "OFF" /\ a.goal = "NONE"))
MovesBusy(a, b, q) ==
  /\ a.phase = "SCHEDULED" /\ b.phase = "CLOSING" /\ b.goal = "BUSY" /\ b.obs = NoObservation
MovesSent(a, e, b, q) ==
  /\ a.phase = "SCHEDULED" /\ b.phase = "REPORT" /\ b.goal = a.goal /\ b.trans = TRUE
  /\ b.normal = e.ack /\ b.stop = a.stop /\ b.obs = NoObservation
MovesReport(a, r, b, q) ==
  a.phase = "REPORT" /\ Same(a, b) /\ q = r /\ b.obs.kind = "SENT_INTERVAL" /\ b.obs.id = a.id
MovesFrame(a, r, b, q) ==
  /\ a.phase \notin Still /\ a.held # Nothing /\ Same(a, b) /\ q = r /\ b.obs.id = a.id
  /\ b.obs.kind = "FRAME" \/ (b.obs.kind = "ACK_INTERVAL" /\ a.phase = "COLLECT")
MovesOpen(a, r, b, q) ==
  /\ a.phase = "RETIRING" /\ b.phase = "RX" /\ b.goal = "RETIRE" /\ q = r /\ b.obs = NoObservation
  /\ b.trans = a.trans /\ (a.req # "ACKED" => b.normal = a.normal)
MovesClosed(a, r, b, q) ==
  /\ Same(a, b) /\ q = r /\ b.obs.id = a.id
  /\ \/ a.phase = "RX" /\ a.goal = "RETIRE" /\ b.obs.kind = "RETIRED"
     \/ a.phase = "OFF" /\ a.goal = "BUSY" /\ b.obs.kind = "BUSY_INTERVAL"
     \/ a.phase = "OFF" /\ a.goal = "ACK_WINDOW" /\ b.obs.kind = "RX_CLOSED"
     \/ a.phase = "OFF" /\ a.goal = "RETIRE" /\ b.obs.kind = "RETIRED"
     \/ a.phase = "OFF" /\ a.goal = "USER" /\ b.obs.kind = "CLOSED"
\* The step on from RX, COLLECT, CLOSING, DRAINING or RETIRING.
Winds(a) == (a.phase = "RETIRING" /\ ~a.stop) \/ a.phase \in {"COLLECT", "CLOSING", "DRAINING"}
MovesOn(a, r, b, q) ==
  /\ a.phase \notin Still \cup {"OFF"} /\ ~(a.phase = "RX" /\ a.goal = "RETIRE") /\ b.obs = NoObservation
  /\ ~(a.phase = "RETIRING" /\ ~a.stop /\ a.trans /\ a.policy = "KEEP_RAW" /\ a.req = "UNACKNOWLEDGED")
  /\ b.trans = a.trans /\ b.normal = a.normal
  /\ b.goal = a.goal \/ (b.goal = "ACK_WINDOW" /\ a.phase = "COLLECT" /\ b.phase # "COLLECT")
  /\ \/ b.phase = "FAULT"
     \/ b.phase = a.phase /\ b.goal = a.goal
     \/ Winds(a) /\ b.phase \in {"CLOSING", "DRAINING", "OFF"} /\ (a.phase = "COLLECT" => b.goal = "ACK_WINDOW")
  /\ b.phase = "OFF" => q.phase = "OFF" /\ b.held = Nothing
Moves(a, r, e, b, q) ==
  /\ b.id = a.id /\ b.policy = a.policy /\ b.req = a.req
  /\ \/ MovesRest(a, r, b, q) \/ MovesBusy(a, b, q) \/ MovesSent(a, e, b, q) \/ MovesReport(a, r, b, q)
     \/ MovesFrame(a, r, b, q) \/ MovesOpen(a, r, b, q) \/ MovesClosed(a, r, b, q) \/ MovesOn(a, r, b, q)

LEMMA PublishMoves ==
  ASSUME NEW a, AdapterShape(a), NEW kind
  PROVE  LET b == PublishEvent(a, kind) IN
         /\ Same(a, b) /\ b.id = a.id /\ b.policy = a.policy /\ b.req = a.req
         /\ b.obs.kind = kind /\ b.obs.id = a.id
BY DEF PublishEvent, Same, AdapterShape, AdapterFields

\* The end of mac_adapter_step, by those fields.
LEMMA ConcludeMoves ==
  ASSUME NEW a, NEW r, NEW w, NEW e, AdapterShape(a), EtherShape(r), a.obs = NoObservation,
         a.phase \notin Still, a.held = Nothing
  PROVE  LET s == Conclude(a, r, w) IN Moves(a, r, e, s.adp, s.ether)
<1> DEFINE stays == \/ a.req = "ACKED" /\ a.policy = "KEEP_AUTOACK" /\ a.normal
                    \/ a.trans /\ a.policy = "KEEP_RAW" /\ a.req = "UNACKNOWLEDGED"
           closing == [a EXCEPT !.phase = "CLOSING", !.wait = FALSE]
           shut == [a EXCEPT !.goal = "ACK_WINDOW", !.phase = "CLOSING", !.wait = FALSE]
           b == CASE a.phase = "RETIRING" /\ ~a.stop -> closing
                  [] a.phase = "COLLECT" /\ w = "past" -> shut
                  [] OTHER -> a
           pair == IF b.phase = "CLOSING" /\ (~b.wait \/ w = "past") THEN StopRadio(b, r) ELSE Receive(b, r)
           S == Conclude(a, r, w)
<1>1. CASE a.phase = "RETIRING" /\ ~a.stop /\ stays
  <2> DEFINE c == [a EXCEPT !.normal = IF a.req = "ACKED" THEN TRUE ELSE @,
                            !.phase = "RX", !.goal = "RETIRE"]
  <2>1. S = After(c, r, w)
    BY <1>1 DEF Conclude
  <2>2. /\ c.phase = "RX" /\ c.goal = "RETIRE" /\ c.obs = a.obs /\ c.trans = a.trans
        /\ (a.req # "ACKED" => c.normal = a.normal)
        /\ c.id = a.id /\ c.policy = a.policy /\ c.req = a.req
    BY DEF AdapterShape, AdapterFields
  <2> HIDE DEF c
  <2> QED
    BY <1>1, <2>1, <2>2 DEF After, Moves, MovesOpen
<1>2. CASE a.phase = "RX" /\ a.goal = "RETIRE"
  <2>1. S = After(PublishEvent(a, "RETIRED"), r, w)
    BY <1>2 DEF Conclude
  <2> QED
    BY <1>2, <2>1, PublishMoves DEF After, Moves, MovesClosed
<1>3. CASE a.phase = "OFF"
  <2>1. CASE a.goal = "NONE"
    <3>1. S = After(a, r, w)
      BY <1>3, <2>1 DEF Conclude
    <3> QED
      BY <1>3, <2>1, <3>1 DEF After, Moves, MovesRest
  <2>2. ASSUME a.goal # "NONE"
        PROVE  \E kind : /\ S = After(PublishEvent(a, kind), r, w)
                         /\ \/ a.goal = "BUSY" /\ kind = "BUSY_INTERVAL"
                            \/ a.goal = "ACK_WINDOW" /\ kind = "RX_CLOSED"
                            \/ a.goal = "RETIRE" /\ kind = "RETIRED"
                            \/ a.goal = "USER" /\ kind = "CLOSED"
    <3>1. CASE a.goal = "BUSY"
      BY <1>3, <3>1 DEF Conclude
    <3>2. CASE a.goal = "ACK_WINDOW"
      BY <1>3, <3>2 DEF Conclude
    <3>3. CASE a.goal = "RETIRE"
      BY <1>3, <3>3 DEF Conclude
    <3>4. CASE a.goal = "USER"
      BY <1>3, <3>4 DEF Conclude
    <3> QED
      BY <2>2, <3>1, <3>2, <3>3, <3>4 DEF AdapterShape, Goals
  <2>3. CASE a.goal # "NONE"
    <3>1. PICK kind : /\ S = After(PublishEvent(a, kind), r, w)
                         /\ \/ a.goal = "BUSY" /\ kind = "BUSY_INTERVAL"
                            \/ a.goal = "ACK_WINDOW" /\ kind = "RX_CLOSED"
                            \/ a.goal = "RETIRE" /\ kind = "RETIRED"
                            \/ a.goal = "USER" /\ kind = "CLOSED"
      BY <2>2, <2>3
    <3> HIDE DEF S
    <3>2. LET p == PublishEvent(a, kind) IN
         /\ Same(a, p) /\ p.id = a.id /\ p.policy = a.policy /\ p.req = a.req
         /\ p.obs.kind = kind /\ p.obs.id = a.id
      BY PublishMoves
    <3> QED
      BY <1>3, <3>1, <3>2 DEF After, Moves, MovesClosed, S
  <2> QED
    BY <2>1, <2>3
<1>4. CASE /\ ~(a.phase = "RETIRING" /\ ~a.stop /\ stays)
           /\ ~(a.phase = "RX" /\ a.goal = "RETIRE") /\ a.phase # "OFF"
  <2>0. S = After(pair[1], pair[2], w)
    BY <1>4 DEF Conclude
  <2>1. /\ AdapterShape(b) /\ b.obs = NoObservation /\ b.held = Nothing
        /\ b.id = a.id /\ b.policy = a.policy /\ b.req = a.req /\ b.trans = a.trans /\ b.normal = a.normal
        /\ \/ b.phase = a.phase /\ b.goal = a.goal /\ (a.phase = "RETIRING" => a.stop)
           \/ b.phase = "CLOSING" /\ a.phase = "RETIRING" /\ ~a.stop /\ b.goal = a.goal
           \/ b.phase = "CLOSING" /\ a.phase = "COLLECT" /\ b.goal = "ACK_WINDOW"
    <3>1. CASE a.phase = "RETIRING" /\ ~a.stop
      <4>1. b = closing
        BY <3>1
      <4> QED
        BY <3>1, <4>1 DEF AdapterShape, AdapterFields
    <3>2. CASE a.phase = "COLLECT" /\ w = "past"
      <4>1. b = shut
        BY <3>2
      <4> QED
        BY <3>2, <4>1 DEF AdapterShape, AdapterFields, Goals
    <3>3. CASE ~(a.phase = "RETIRING" /\ ~a.stop) /\ ~(a.phase = "COLLECT" /\ w = "past")
      <4>1. b = a
        BY <3>3
      <4> QED
        BY <3>3, <4>1
    <3> QED
      BY <3>1, <3>2, <3>3
  <2> HIDE DEF b
  <2>2. CASE b.phase = "CLOSING" /\ pair = StopRadio(b, r)
    <3>1. LET c == pair[1] IN
          /\ c.obs = NoObservation /\ c.held = Nothing /\ c.goal = b.goal /\ c.id = b.id /\ c.policy = b.policy
          /\ c.req = b.req /\ c.trans = b.trans /\ c.normal = b.normal
          /\ c.phase = "DRAINING" \/ (c.phase = "OFF" /\ pair[2].phase = "OFF")
      <4> HIDE DEF pair
      <4>1. \/ /\ pair[1] = [b EXCEPT !.stop = TRUE, !.phase = "OFF"]
               /\ pair[2] = [r EXCEPT !.phase = "OFF"]
            \/ pair[1] = [b EXCEPT !.stop = TRUE, !.phase = "DRAINING"]
        BY <2>2 DEF StopRadio
      <4> QED
        BY <2>1, <4>1 DEF AdapterShape, AdapterFields, EtherShape, EtherFields
    <3> HIDE DEF pair
    <3> QED
      BY <1>4, <2>0, <2>1, <2>2, <3>1 DEF After, Moves, MovesOn, Winds, Still
  <2>3. CASE pair = Receive(b, r)
    <3>1. LET c == pair[1] IN
          /\ c.obs = NoObservation /\ c.goal = b.goal /\ c.id = b.id /\ c.policy = b.policy
          /\ c.req = b.req /\ c.trans = b.trans /\ c.normal = b.normal
          /\ \/ c.phase = b.phase \/ c.phase = "FAULT" \/ (b.phase = "DRAINING" /\ c.phase = "CLOSING")
      <4>1. CASE r.heads # <<>>
        <5>1. pair[1] = [b EXCEPT !.held = Head(r.heads), !.bound = FALSE]
          BY <2>3, <4>1 DEF Receive
        <5> HIDE DEF pair
        <5> QED
          BY <2>1, <5>1 DEF AdapterShape, AdapterFields
      <4>2. CASE r.heads = <<>>
        <5> DEFINE d == IF b.phase = "DRAINING" THEN [b EXCEPT !.phase = "CLOSING", !.wait = FALSE] ELSE b
        <5>1. pair[1] = Faulty(b) \/ pair[1] = [d EXCEPT !.lossy = b.lossy \/ r.lost]
          BY <2>3, <4>2 DEF Receive
        <5> HIDE DEF pair
        <5>2. /\ d.obs = NoObservation /\ d.goal = b.goal /\ d.id = b.id /\ d.policy = b.policy
              /\ d.req = b.req /\ d.trans = b.trans /\ d.normal = b.normal /\ AdapterShape(d)
              /\ (d.phase = b.phase \/ (b.phase = "DRAINING" /\ d.phase = "CLOSING"))
          BY <2>1 DEF AdapterShape, AdapterFields
        <5> HIDE DEF d
        <5> QED
          BY <2>1, <5>1, <5>2 DEF AdapterShape, AdapterFields, Faulty
      <4> QED
        BY <4>1, <4>2
    <3> HIDE DEF pair
    <3> QED
      BY <1>4, <2>0, <2>1, <2>3, <3>1 DEF After, Moves, MovesOn, Winds, Still
  <2> QED
    BY <2>2, <2>3
<1> QED
  BY <1>1, <1>2, <1>3, <1>4

\* So does the whole of mac_adapter_step.
LEMMA AdapterMoves ==
  ASSUME NEW a, NEW r, NEW e, NEW s, AdapterShape(a), EtherShape(r), a.obs = NoObservation,
         s \in AdapterStep(a, r, win, e)
  PROVE  Moves(a, r, e, s.adp, s.ether)
<1>0. ~Ready(a)
  BY DEF Ready
<1>1. CASE a.phase \in {"WAIT_MAC", "PREPARED"}
  <2>1. s = After(a, r, win)
    BY <1>0, <1>1 DEF AdapterStep
  <2> QED
    BY <1>1, <2>1 DEF After, Moves, MovesRest
<1>2. CASE a.phase = "SCHEDULED"
  <2>1. \/ s = After(a, r, win) \/ s = BusyAttempt(a, r)
        \/ \E k \in FrameKinds \cup {"none"}, sure \in BOOLEAN : s = Transmitted(a, r, e, k, sure)
    BY <1>0, <1>2 DEF AdapterStep, AttemptRun
  <2>2. CASE s = After(a, r, win)
    BY <1>2, <2>2 DEF After, Moves, MovesRest
  <2>3. CASE s = BusyAttempt(a, r)
    BY <1>2, <2>3 DEF BusyAttempt, After, Moves, MovesBusy, AdapterShape, AdapterFields
  <2>4. ASSUME NEW k \in FrameKinds \cup {"none"}, NEW sure \in BOOLEAN, s = Transmitted(a, r, e, k, sure)
        PROVE  Moves(a, r, e, s.adp, s.ether)
    BY <1>2, <2>4 DEF Transmitted, After, Moves, MovesSent, AdapterShape, AdapterFields
  <2> QED
    BY <2>1, <2>2, <2>3, <2>4
<1>3. CASE a.phase = "REPORT"
  <2>1. s = After(PublishEvent(a, "SENT_INTERVAL"), r, win)
    BY <1>0, <1>3 DEF AdapterStep
  <2> QED
    BY <1>3, <2>1, PublishMoves DEF After, Moves, MovesReport
<1>4. CASE a.phase \notin Still /\ a.held # Nothing
  <2>1. s = After(PublishFrame(a, win), r, win)
    BY <1>0, <1>4 DEF AdapterStep, Still
  <2>2. LET b == PublishFrame(a, win) IN
        /\ Same(a, b) /\ b.id = a.id /\ b.policy = a.policy /\ b.req = a.req /\ b.obs.id = a.id
        /\ b.obs.kind = "FRAME" \/ (b.obs.kind = "ACK_INTERVAL" /\ a.phase = "COLLECT")
    BY DEF PublishFrame, Same, AdapterShape, AdapterFields
  <2> QED
    BY <1>4, <2>1, <2>2 DEF After, Moves, MovesFrame
<1>5. CASE a.phase \notin Still /\ a.held = Nothing
  <2>1. s = Conclude(a, r, win)
    BY <1>0, <1>5 DEF AdapterStep, Still
  <2> QED
    BY <1>5, <2>1, ConcludeMoves
<1> QED
  BY <1>1, <1>2, <1>3, <1>4, <1>5 DEF Still

(* What the adapter has to tell in each phase of the engine.                   *)
Tells(b, e) ==
  \/ b.obs = NoObservation
  \/ b.obs.kind = "FRAME"
  \/ b.obs.kind = "CLOSED" /\ b.phase = "OFF" /\ b.goal = "USER"
  \/ /\ b.obs.id = LinkId(e)
     /\ \/ b.obs.kind = "SENT_INTERVAL" /\ b.phase = "REPORT" /\ b.goal = "NONE" /\ e.phase = "RADIO"
        \/ b.obs.kind = "BUSY_INTERVAL" /\ b.phase = "OFF" /\ b.goal = "BUSY" /\ e.phase = "RADIO"
        \/ b.obs.kind = "ACK_INTERVAL" /\ b.phase = "COLLECT" /\ b.goal = "NONE" /\ e.phase = "ACK_WAIT"
        \/ b.obs.kind = "RX_CLOSED" /\ b.phase = "OFF" /\ b.goal = "ACK_WINDOW" /\ e.phase = "ACK_WAIT"
        \/ b.obs.kind = "RETIRED" /\ b.phase \in {"OFF", "RX"} /\ b.goal = "RETIRE" /\ e.phase = "STOPPING"

(* The adapter's own step leaves it where the engine expects it.               *)
LEMMA MovesStand ==
  ASSUME NEW a, NEW r, NEW e, NEW b, NEW q, NEW flow, Moves(a, r, e, b, q), b.phase # "FAULT",
         a.obs = NoObservation, Stands(a, e, "none")
  PROVE  Stands(b, e, "none") /\ Tells(b, e)
<1>1. CASE e.phase \in {"IDLE", "DRAW", "DONE"}
  <2>1. CASE Calm(a)
    <3>1. Calm(b) /\ Tells(b, e)
      BY <2>1, <1>1 DEF Calm, Tells, Moves, MovesRest, MovesBusy, MovesSent, MovesReport, MovesFrame,
         MovesOpen, MovesClosed, MovesOn, Same, Still, Winds
    <3> QED
      BY <1>1, <3>1 DEF Stands
  <2>2. CASE a.phase = "PREPARED"
    <3>1. b = a
      BY <2>2 DEF Moves, MovesRest, MovesBusy, MovesSent, MovesReport, MovesFrame,
         MovesOpen, MovesClosed, MovesOn, Same, Still, Winds
    <3> QED
      BY <3>1 DEF Tells
  <2> QED
    BY <1>1, <2>1, <2>2 DEF Stands, Armed
<1>2. CASE e.phase = "DRAW_WAIT"
  <2>1. a.phase = "PREPARED"
    BY <1>2 DEF Stands, Armed
  <2>2. b = a
    BY <2>1 DEF Moves, MovesRest, MovesBusy, MovesSent, MovesReport, MovesFrame,
       MovesOpen, MovesClosed, MovesOn, Same, Still, Winds
  <2> QED
    BY <2>2 DEF Tells
<1>3. CASE e.phase = "RADIO"
  <2>1. a.id = LinkId(e) /\ Scheduled(a)
    BY <1>3 DEF Stands
  <2>2. b.id = LinkId(e) /\ Scheduled(b) /\ Tells(b, e)
    BY <1>3, <2>1 DEF Scheduled, Winding, Tells, Moves, MovesRest, MovesBusy, MovesSent, MovesReport,
       MovesFrame, MovesOpen, MovesClosed, MovesOn, Same, Still, Winds
  <2> QED
    BY <1>3, <2>2 DEF Stands
<1>4. CASE e.phase = "ACK_WAIT"
  <2>1. a.id = LinkId(e) /\ Collecting(a)
    BY <1>4 DEF Stands
  <2>2. b.id = LinkId(e) /\ Collecting(b) /\ Tells(b, e)
    BY <1>4, <2>1 DEF Collecting, Winding, Tells, Moves, MovesRest, MovesBusy, MovesSent, MovesReport,
       MovesFrame, MovesOpen, MovesClosed, MovesOn, Same, Still, Winds
  <2> QED
    BY <1>4, <2>2 DEF Stands
<1>5. CASE e.phase = "STOPPING"
  <2>1. a.id = LinkId(e) /\ Retiring(a)
    BY <1>5 DEF Stands
  <2>2. b.id = LinkId(e) /\ Retiring(b) /\ Tells(b, e)
    BY <1>5, <2>1 DEF Retiring, Tells, Moves, MovesRest, MovesBusy, MovesSent, MovesReport,
       MovesFrame, MovesOpen, MovesClosed, MovesOn, Same, Still, Winds
  <2> QED
    BY <1>5, <2>2 DEF Stands
<1> QED
  BY <1>1, <1>2, <1>3, <1>4, <1>5 DEF Stands

(* It keeps what it has in hand, prepares nothing and opens no closure.        *)
LEMMA MovesCarry ==
  ASSUME NEW a, NEW r, NEW e, NEW b, NEW q, NEW flow, Moves(a, r, e, b, q), b.phase # "FAULT",
         a.obs = NoObservation, Carries(a, r, e, flow), flow = "scan" /\ a.phase = "SCHEDULED" => ~e.ack
  PROVE  /\ Carries(b, q, e, flow)
         /\ b.phase = "PREPARED" <=> a.phase = "PREPARED"
         /\ b.goal = "USER" => a.goal = "USER"
<1>1. CASE MovesRest(a, r, b, q)
  BY <1>1 DEF MovesRest
<1>2. CASE MovesReport(a, r, b, q) \/ MovesFrame(a, r, b, q) \/ MovesClosed(a, r, b, q)
  <2>1. Same(a, b) /\ q = r /\ b.policy = a.policy
    BY <1>2 DEF MovesReport, MovesFrame, MovesClosed, Moves
  <2> QED
    BY <2>1 DEF Same, Carries
<1>3. CASE MovesBusy(a, b, q) \/ MovesOpen(a, r, b, q)
  BY <1>3 DEF MovesBusy, MovesOpen, Carries, OnAir
<1>4. CASE MovesSent(a, e, b, q)
  BY <1>4 DEF MovesSent, Carries, OnAir, Moves
<1>5. CASE MovesOn(a, r, b, q)
  BY <1>5 DEF MovesOn, Carries, OnAir, Still
<1> QED
  BY <1>1, <1>2, <1>3, <1>4, <1>5 DEF Moves

\* A receiver that is to stay open stays open.
LEMMA MovesLeaveOpen ==
  ASSUME NEW a, NEW r, NEW e, NEW b, NEW q, NEW flow, Moves(a, r, e, b, q), b.phase # "FAULT",
         a.obs = NoObservation, Stands(a, e, "none"), LeavesOpen(a, e, "none", flow)
  PROVE  LeavesOpen(b, e, "none", flow)
<1> SUFFICES ASSUME flow = "scan", e.phase = "STOPPING", e.outcome = "UNACKNOWLEDGED"
             PROVE  /\ b.trans /\ ~b.normal /\ b.policy = "KEEP_RAW" /\ b.req = "UNACKNOWLEDGED"
                    /\ (b.phase = "RETIRING" /\ ~b.stop) \/ b.phase = "RX"
  BY DEF LeavesOpen
<1>1. /\ a.trans /\ ~a.normal /\ a.policy = "KEEP_RAW" /\ a.req = "UNACKNOWLEDGED" /\ a.goal = "RETIRE"
      /\ (a.phase = "RETIRING" /\ ~a.stop) \/ a.phase = "RX"
  BY DEF LeavesOpen, Stands, Retiring
<1>2. MovesFrame(a, r, b, q) \/ MovesOpen(a, r, b, q) \/ MovesClosed(a, r, b, q)
  BY <1>1 DEF Moves, MovesRest, MovesBusy, MovesSent, MovesReport, MovesOn
<1>3. b.policy = a.policy /\ b.req = a.req
  BY DEF Moves
<1> QED
  BY <1>1, <1>2, <1>3 DEF MovesFrame, MovesOpen, MovesClosed, Same

(* The engine's step, by the phase and the command that come of it.            *)
SameAttempt(e, d) == LinkId(d) = LinkId(e) /\ d.gen = e.gen /\ d.ack = e.ack
Turns(e, o, phase, emit) ==
  o.eng.phase = phase /\ o.emit = emit /\ SameAttempt(e, o.eng)
Gone(e, ev, x) == x \/ (ev.kind = "CANCEL" /\ ev.id = LinkId(e))

\* interval_stop: with a frame in the radio it asks for quiescence.
LEMMA StopTurns ==
  ASSUME NEW e, EngineShape(e), NEW outcome
  PROVE  LET o == IntervalStop(e, outcome) IN
         /\ IF e.phase \in {"DRAW", "DRAW_WAIT"} THEN Turns(e, o, "DONE", "none")
            ELSE Turns(e, o, "STOPPING", "QUIESCE")
         /\ o.eng.outcome = outcome /\ o.eng.again = e.again
BY DEF IntervalStop, Result, Turns, SameAttempt, LinkId, EngineShape, EngineFields

\* What is seen of an event: only the current attempt's.
OfAttempt(e, ev) == IF ev.id = LinkId(e) THEN ev ELSE NoObservation
Plain(e, ev) == IF OfAttempt(e, ev).kind \in {"BUSY_INTERVAL", "RETIRED"} THEN NoObservation ELSE OfAttempt(e, ev)

\* Outside RADIO and STOPPING an observed step is a plain one.
LEMMA PlainObserved ==
  ASSUME NEW e, NEW ev, NEW x,
         ~(OfAttempt(e, ev).kind = "BUSY_INTERVAL" /\ e.phase = "RADIO"),
         ~(OfAttempt(e, ev).kind = "RETIRED" /\ e.phase = "STOPPING")
  PROVE  ObservedStep(e, ev, x) = IntervalStep(e, Plain(e, ev), x)
BY DEF ObservedStep, OfAttempt, Plain

LEMMA PlainGone ==
  ASSUME NEW e, NEW ev, NEW x
  PROVE  (x \/ Plain(e, ev).kind = "CANCEL") <=> Gone(e, ev, x)
BY DEF Plain, OfAttempt, Gone, NoObservation

\* A deadline or a cancellation stops the attempt in every phase.
LEMMA GoneTurns ==
  ASSUME NEW e, EngineShape(e), NEW ev, NEW x, Gone(e, ev, x), e.phase # "STOPPING",
         e.again => e.phase = "STOPPING"
  PROVE  LET o == ObservedStep(e, ev, x) IN
         /\ IF e.phase \in {"DRAW", "DRAW_WAIT"} THEN Turns(e, o, "DONE", "none")
            ELSE Turns(e, o, "STOPPING", "QUIESCE")
         /\ o.eng.outcome # "UNACKNOWLEDGED" /\ ~o.eng.again
<1> DEFINE p == Plain(e, ev)
           v == IntervalStop(e, Why(p.kind))
<1>1. IntervalStep(e, p, x) = v
  BY PlainGone DEF IntervalStep
<1>2. /\ IF e.phase \in {"DRAW", "DRAW_WAIT"} THEN Turns(e, v, "DONE", "none")
         ELSE Turns(e, v, "STOPPING", "QUIESCE")
      /\ v.eng.outcome = Why(p.kind) /\ v.eng.again = e.again
  BY StopTurns
<1>3. Why(p.kind) # "UNACKNOWLEDGED"
  BY DEF Why
<1>4. ObservedStep(e, ev, x) = v
  <2>1. v.eng.phase # "RADIO"
    BY <1>2 DEF Turns
  <2> HIDE DEF v, p
  <2> QED
    BY <1>1, <2>1 DEF ObservedStep, OfAttempt, Plain, p
<1> HIDE DEF v
<1> QED
  BY <1>2, <1>3, <1>4

\* A draw asks for the random byte.
LEMMA DrawTurns ==
  ASSUME NEW e, EngineShape(e), NEW ev, NEW x, ~Gone(e, ev, x), e.phase = "DRAW", ~e.again
  PROVE  LET o == ObservedStep(e, ev, x) IN Turns(e, o, "DRAW_WAIT", "RANDOM") /\ ~o.eng.again
<1> DEFINE o == ObservedStep(e, ev, x)
<1>1. o = Result([e EXCEPT !.phase = "DRAW_WAIT"], "RANDOM")
  BY PlainObserved, PlainGone DEF IntervalStep
<1> QED
  BY <1>1 DEF Result, Turns, SameAttempt, LinkId, EngineShape, EngineFields

LEMMA DrawWaitTurns ==
  ASSUME NEW e, EngineShape(e), NEW ev, NEW x, ~Gone(e, ev, x), e.phase = "DRAW_WAIT", ~e.again,
         ev.kind = "RANDOM", ev.id = LinkId(e)
  PROVE  LET o == ObservedStep(e, ev, x) IN
         /\ Turns(e, o, "RADIO", "ATTEMPT") \/ (Turns(e, o, "DONE", "none") /\ o.eng.outcome # "UNACKNOWLEDGED")
         /\ ~o.eng.again
<1> DEFINE o == ObservedStep(e, ev, x)
<1>1. Plain(e, ev) = ev /\ OfAttempt(e, ev) = ev
  BY DEF Plain, OfAttempt
<1>2. o = IntervalStep(e, ev, x)
  BY <1>1, PlainObserved
<1>3. ~(x \/ ev.kind = "CANCEL")
  BY <1>1, PlainGone
<1>4. IntervalStep(e, ev, x) = IF ev.sure THEN Result([e EXCEPT !.phase = "RADIO"], "ATTEMPT")
        ELSE Result([e EXCEPT !.phase = "DONE", !.outcome = "LIFETIME"], "none")
  BY <1>3 DEF IntervalStep
<1> HIDE DEF o
<1>5. CASE o = Result([e EXCEPT !.phase = "RADIO"], "ATTEMPT")
  <2>1. Turns(e, o, "RADIO", "ATTEMPT") /\ o.eng.again = e.again
    BY <1>5 DEF Result, Turns, SameAttempt, LinkId, EngineShape, EngineFields
  <2> QED
    BY <2>1 DEF o
<1>6. CASE o = Result([e EXCEPT !.phase = "DONE", !.outcome = "LIFETIME"], "none")
  <2>1. Turns(e, o, "DONE", "none") /\ o.eng.again = e.again /\ o.eng.outcome = "LIFETIME"
    BY <1>6 DEF Result, Turns, SameAttempt, LinkId, EngineShape, EngineFields
  <2> QED
    BY <2>1 DEF o
<1> QED
  BY <1>2, <1>4, <1>5, <1>6

\* An attempt that was sent, was busy, or is still on its way.
LEMMA RadioTurns ==
  ASSUME NEW e, EngineShape(e), NEW ev, NEW x, ~Gone(e, ev, x), e.phase = "RADIO", ~e.again,
         ev = NoObservation \/ (ev.id = LinkId(e) /\ ev.kind \in {"SENT_INTERVAL", "BUSY_INTERVAL"})
  PROVE  LET o == ObservedStep(e, ev, x) IN
         /\ ev.kind = "none" => Turns(e, o, "RADIO", "none") /\ ~o.eng.again
         /\ ev.kind = "SENT_INTERVAL" => /\ ~o.eng.again
                                         /\ IF e.ack THEN Turns(e, o, "ACK_WAIT", "COLLECT")
                                            ELSE Turns(e, o, "STOPPING", "QUIESCE")
         /\ ev.kind = "BUSY_INTERVAL" =>
              /\ o.eng.phase \in {"DRAW", "DONE"} /\ o.emit = "none" /\ o.eng.gen = e.gen /\ o.eng.ack = e.ack
              /\ o.eng.phase = "DONE" => o.eng.outcome # "UNACKNOWLEDGED"
              /\ ~o.eng.again
<1> DEFINE o == ObservedStep(e, ev, x)
<1>0. NoObservation.kind = "none"
  BY DEF NoObservation
<1>1. CASE ev = NoObservation
  <2>1. Plain(e, ev) = NoObservation
    BY <1>1, <1>0 DEF Plain, OfAttempt
  <2>2. OfAttempt(e, ev).kind = "none"
    BY <1>1, <1>0 DEF OfAttempt
  <2>3. o = Result(e, "none")
    BY <1>0, <2>1, <2>2, PlainObserved, PlainGone DEF IntervalStep
  <2> QED
    BY <1>0, <1>1, <2>3 DEF Result, Turns, SameAttempt
<1>2. CASE ev.kind = "SENT_INTERVAL" /\ ev.id = LinkId(e)
  <2>1. Plain(e, ev) = ev /\ OfAttempt(e, ev) = ev
    BY <1>2 DEF Plain, OfAttempt
  <2> DEFINE d == [e EXCEPT !.phase = "ACK_WAIT"]
  <2>2. o = IF e.ack THEN Result(d, "COLLECT") ELSE IntervalStop(d, "UNACKNOWLEDGED")
    BY <1>2, <2>1, PlainObserved, PlainGone DEF IntervalStep
  <2>3. EngineShape(d) /\ d.phase = "ACK_WAIT" /\ SameAttempt(e, d) /\ d.again = e.again
    BY DEF SameAttempt, LinkId, EngineShape, EngineFields
  <2> HIDE DEF d
  <2>4. Turns(d, IntervalStop(d, "UNACKNOWLEDGED"), "STOPPING", "QUIESCE")
        /\ IntervalStop(d, "UNACKNOWLEDGED").eng.again = d.again
    BY <2>3, StopTurns
  <2> QED
    BY <1>2, <2>2, <2>3, <2>4 DEF Turns, SameAttempt, Result
<1>3. CASE ev.kind = "BUSY_INTERVAL" /\ ev.id = LinkId(e)
  <2>1. Plain(e, ev) = NoObservation /\ OfAttempt(e, ev) = ev
    BY <1>3 DEF Plain, OfAttempt
  <2>2. IntervalStep(e, NoObservation, x) = Result(e, "none")
    BY <1>0, <1>3, <2>1, PlainGone DEF IntervalStep
  <2>3. Result(e, "none").eng = e
    BY DEF Result
  <2>4. \/ o = Result([e EXCEPT !.nb = @ + 1, !.phase = "DONE", !.outcome = "CHANNEL_ACCESS"], "none")
        \/ o = Result([e EXCEPT !.nb = @ + 1, !.phase = "DRAW"], "none")
    BY <1>3, <2>1, <2>2, <2>3 DEF ObservedStep, OfAttempt
  <2> HIDE DEF o
  <2>5. /\ o.eng.phase \in {"DRAW", "DONE"} /\ o.emit = "none" /\ o.eng.gen = e.gen /\ o.eng.ack = e.ack
        /\ o.eng.phase = "DONE" => o.eng.outcome # "UNACKNOWLEDGED"
        /\ o.eng.again = e.again
    <3>1. CASE o = Result([e EXCEPT !.nb = @ + 1, !.phase = "DONE", !.outcome = "CHANNEL_ACCESS"], "none")
      BY <3>1 DEF Result, EngineShape, EngineFields
    <3>2. CASE o = Result([e EXCEPT !.nb = @ + 1, !.phase = "DRAW"], "none")
      BY <3>2 DEF Result, EngineShape, EngineFields
    <3> QED
      BY <2>4, <3>1, <3>2
  <2> QED
    BY <1>3, <2>5 DEF o
<1> QED
  BY <1>1, <1>2, <1>3

\* An acknowledgement, the end of its window, or nothing yet.
LEMMA AckWaitTurns ==
  ASSUME NEW e, EngineShape(e), NEW ev, NEW x, ~Gone(e, ev, x), e.phase = "ACK_WAIT", ~e.again,
         ev = NoObservation \/ (ev.id = LinkId(e) /\ ev.kind \in {"ACK_INTERVAL", "RX_CLOSED"})
  PROVE  LET o == ObservedStep(e, ev, x) IN
         /\ ev.kind = "none" => Turns(e, o, "ACK_WAIT", "none") /\ ~o.eng.again
         /\ ev.kind # "none" => Turns(e, o, "STOPPING", "QUIESCE") /\ o.eng.outcome # "UNACKNOWLEDGED"
<1> DEFINE o == ObservedStep(e, ev, x)
<1>0. NoObservation.kind = "none"
  BY DEF NoObservation
<1>1. CASE ev = NoObservation
  <2>1. Plain(e, ev) = NoObservation
    BY <1>1, <1>0 DEF Plain, OfAttempt
  <2>2. OfAttempt(e, ev).kind = "none"
    BY <1>1, <1>0 DEF OfAttempt
  <2>3. o = Result(e, "none")
    BY <1>0, <2>1, <2>2, PlainObserved, PlainGone DEF IntervalStep
  <2> QED
    BY <1>0, <1>1, <2>3 DEF Result, Turns, SameAttempt
<1>2. CASE ev.id = LinkId(e) /\ ev.kind \in {"ACK_INTERVAL", "RX_CLOSED"}
  <2>1. Plain(e, ev) = ev /\ OfAttempt(e, ev) = ev
    BY <1>2 DEF Plain, OfAttempt
  <2> DEFINE d == [e EXCEPT !.again = e.retries < RETRIES]
             c == [e EXCEPT !.by = ev.frame]
  <2>2. \/ o = IntervalStop(d, "NO_ACK") \/ o = IntervalStop(c, "ACKED") \/ o = IntervalStop(e, "TIMING_UNCERTAIN")
    <3>1. CASE ev.kind = "ACK_INTERVAL"
      BY <1>2, <2>1, <3>1, PlainObserved, PlainGone DEF IntervalStep, IntervalNoAck
    <3>2. CASE ev.kind = "RX_CLOSED"
      BY <1>2, <2>1, <3>2, PlainObserved, PlainGone DEF IntervalStep, IntervalNoAck
    <3> QED
      BY <1>2, <3>1, <3>2
  <2>3. EngineShape(d) /\ d.phase = "ACK_WAIT" /\ SameAttempt(e, d)
    BY DEF SameAttempt, LinkId, EngineShape, EngineFields
  <2>4. EngineShape(c) /\ c.phase = "ACK_WAIT" /\ SameAttempt(e, c)
    BY DEF SameAttempt, LinkId, EngineShape, EngineFields
  <2>5. SameAttempt(e, e)
    BY DEF SameAttempt
  <2> HIDE DEF d, c
  <2>6. ASSUME NEW g, EngineShape(g), g.phase = "ACK_WAIT", SameAttempt(e, g), NEW what, what # "UNACKNOWLEDGED"
        PROVE  Turns(e, IntervalStop(g, what), "STOPPING", "QUIESCE")
               /\ IntervalStop(g, what).eng.outcome # "UNACKNOWLEDGED"
    BY <2>6, StopTurns DEF Turns, SameAttempt
  <2>7. o \in {IntervalStop(d, "NO_ACK"), IntervalStop(c, "ACKED"), IntervalStop(e, "TIMING_UNCERTAIN")}
    BY <2>2
  <2> HIDE DEF o
  <2>8. Turns(e, o, "STOPPING", "QUIESCE") /\ o.eng.outcome # "UNACKNOWLEDGED"
    BY <2>3, <2>4, <2>5, <2>6, <2>7
  <2> QED
    BY <1>2, <2>8 DEF o
<1> QED
  BY <1>1, <1>2

\* A stop waits for the retirement, and then tries again or is done.
LEMMA StoppingTurns ==
  ASSUME NEW e, EngineShape(e), NEW ev, NEW x, e.phase = "STOPPING",
         ev = NoObservation \/ ev.kind = "CANCEL" \/ (ev.id = LinkId(e) /\ ev.kind = "RETIRED")
  PROVE  LET o == ObservedStep(e, ev, x) IN
         /\ o.emit = "none" /\ o.eng.gen = e.gen /\ o.eng.ack = e.ack
         /\ \/ o.eng.phase = "FAULT"
            \/ /\ ev.kind # "RETIRED" /\ o.eng.phase = "STOPPING" /\ SameAttempt(e, o.eng)
               /\ o.eng.again => e.again /\ ~Gone(e, ev, x)
            \/ ev.kind = "RETIRED" /\ o.eng.phase = "DRAW" /\ e.again /\ ~o.eng.again
            \/ ev.kind = "RETIRED" /\ o.eng.phase = "DONE" /\ ~o.eng.again
         /\ o.eng.outcome = "UNACKNOWLEDGED" => e.outcome = "UNACKNOWLEDGED"
<1> DEFINE o == ObservedStep(e, ev, x)
           p == Plain(e, ev)
           d == IF e.again /\ (x \/ p.kind = "CANCEL")
                THEN [e EXCEPT !.again = FALSE, !.outcome = Why(p.kind)] ELSE e
           v == IntervalStep(e, p, x)
<1>0. NoObservation.kind = "none" /\ Why(p.kind) # "UNACKNOWLEDGED"
  BY DEF NoObservation, Why
<1>1. /\ EngineShape(d) /\ d.phase = "STOPPING" /\ SameAttempt(e, d)
      /\ d.again => e.again /\ ~(x \/ p.kind = "CANCEL")
      /\ d.outcome = "UNACKNOWLEDGED" => e.outcome = "UNACKNOWLEDGED"
  BY <1>0 DEF SameAttempt, LinkId, EngineShape, EngineFields
<1>2. \/ v = Result([d EXCEPT !.phase = "FAULT", !.outcome = "STOP_FAILED"], "none")
      \/ v = Result([d EXCEPT !.stop_steps = @ - 1], "none")
  BY DEF IntervalStep
<1> HIDE DEF d, v
<1>3. /\ v.emit = "none" /\ EngineShape(v.eng) /\ SameAttempt(e, v.eng)
      /\ \/ v.eng.phase = "FAULT"
         \/ v.eng.phase = "STOPPING" /\ (v.eng.again => e.again /\ ~(x \/ p.kind = "CANCEL"))
      /\ v.eng.outcome = "UNACKNOWLEDGED" => e.outcome = "UNACKNOWLEDGED"
  <2>1. CASE v = Result([d EXCEPT !.phase = "FAULT", !.outcome = "STOP_FAILED"], "none")
    BY <1>1, <2>1 DEF Result, SameAttempt, LinkId, EngineShape, EngineFields
  <2>2. CASE v = Result([d EXCEPT !.stop_steps = @ - 1], "none")
    <3>1. /\ v.emit = "none" /\ EngineShape(v.eng) /\ SameAttempt(d, v.eng)
          /\ v.eng.phase = d.phase /\ v.eng.again = d.again /\ v.eng.outcome = d.outcome
      BY <1>1, <2>2 DEF Result, SameAttempt, LinkId, EngineShape, EngineFields
    <3> QED
      BY <1>1, <3>1 DEF SameAttempt
  <2> QED
    BY <1>2, <2>1, <2>2
<1>4. CASE ev.kind = "RETIRED" /\ ev.id = LinkId(e)
  <2>1. OfAttempt(e, ev) = ev /\ p = NoObservation
    BY <1>4 DEF OfAttempt, Plain
  <2>2. o = IF v.eng.phase = "STOPPING"
            THEN Result(IF v.eng.again
                        THEN [v.eng EXCEPT !.again = FALSE, !.retries = @ + 1, !.nb = 0,
                                           !.outcome = "NONE", !.phase = "DRAW"]
                        ELSE [v.eng EXCEPT !.phase = "DONE"], "none")
            ELSE v
    BY <1>4, <2>1, <1>0 DEF ObservedStep, v, p, OfAttempt, Plain
  <2>3. CASE v.eng.phase # "STOPPING"
    <3>1. o = v
      BY <2>2, <2>3
    <3> QED
      BY <2>3, <3>1, <1>3 DEF SameAttempt
  <2>4. CASE v.eng.phase = "STOPPING" /\ v.eng.again
    <3>1. o = Result([v.eng EXCEPT !.again = FALSE, !.retries = @ + 1, !.nb = 0,
                                   !.outcome = "NONE", !.phase = "DRAW"], "none")
      BY <2>2, <2>4
    <3> HIDE DEF o
    <3>2. /\ o.emit = "none" /\ o.eng.gen = v.eng.gen /\ o.eng.ack = v.eng.ack
          /\ o.eng.phase = "DRAW" /\ o.eng.again = FALSE /\ o.eng.outcome = "NONE"
      BY <3>1, <1>3 DEF Result, EngineShape, EngineFields
    <3> QED
      BY <1>3, <1>4, <2>4, <3>2 DEF SameAttempt, o
  <2>5. CASE v.eng.phase = "STOPPING" /\ ~v.eng.again
    <3>1. o = Result([v.eng EXCEPT !.phase = "DONE"], "none")
      BY <2>2, <2>5
    <3> HIDE DEF o
    <3>2. /\ o.emit = "none" /\ o.eng.gen = v.eng.gen /\ o.eng.ack = v.eng.ack
          /\ o.eng.phase = "DONE" /\ o.eng.again = v.eng.again /\ o.eng.outcome = v.eng.outcome
      BY <3>1, <1>3 DEF Result, EngineShape, EngineFields
    <3> QED
      BY <1>3, <1>4, <2>5, <3>2 DEF SameAttempt, o
  <2> QED
    BY <2>3, <2>4, <2>5
<1>5. CASE ev = NoObservation \/ ev.kind = "CANCEL"
  <2>1. OfAttempt(e, ev).kind \in {"none", "CANCEL"} /\ ev.kind # "RETIRED"
    BY <1>0, <1>5 DEF OfAttempt
  <2>2. o = v
    BY <2>1, PlainObserved DEF v
  <2>3. (x \/ p.kind = "CANCEL") <=> Gone(e, ev, x)
    BY PlainGone
  <2> HIDE DEF o
  <2> QED
    BY <1>3, <2>1, <2>2, <2>3 DEF SameAttempt, o
<1> QED
  BY <1>4, <1>5

(* The adapter once its event has been taken.                                  *)
Taken(a) == IF Ready(a) THEN Consume(a) ELSE a
Consumed(a, b) ==
  /\ b.id = a.id /\ b.policy = a.policy /\ b.req = a.req /\ b.stop = a.stop /\ b.trans = a.trans
  /\ b.normal = a.normal /\ b.held \in {Nothing, a.held} /\ b.obs = NoObservation
  /\ b.phase = IF a.obs.kind = "SENT_INTERVAL" THEN "WAIT_MAC" ELSE a.phase
  /\ b.goal = IF a.obs.kind \in {"CLOSED", "RETIRED", "BUSY_INTERVAL", "RX_CLOSED"} THEN "NONE" ELSE a.goal

\* mac_adapter_consume, by those fields.
LEMMA TakenConsumed ==
  ASSUME NEW a, AdapterShape(a)
  PROVE  Consumed(a, Taken(a))
<1>1. CASE Ready(a)
  <2>1. Taken(a) = Consume(a)
    BY <1>1 DEF Taken
  <2> QED
    BY <2>1 DEF Consumed, Consume, AdapterShape, AdapterFields
<1>2. CASE ~Ready(a)
  <2>1. Taken(a) = a /\ a.obs = NoObservation /\ a.obs.kind = "none"
    BY <1>2 DEF Taken, Ready, NoObservation
  <2> QED
    BY <2>1 DEF Consumed
<1> QED
  BY <1>1, <1>2

LEMMA TakenCarries ==
  ASSUME NEW a, NEW b, NEW r, NEW e, NEW d, NEW flow, Consumed(a, b), Tells(a, e), Carries(a, r, e, flow)
  PROVE  Carries(b, r, d, flow)
<1>1. a.obs.kind = "SENT_INTERVAL" => a.phase = "REPORT"
  BY DEF Tells, NoObservation
<1> QED
  BY <1>1 DEF Consumed, Carries, OnAir

(* What a step of the engine leaves, with its event taken from the adapter.    *)
Answers(a, e, told, x) ==
  \/ told = a.obs
  \/ /\ told.kind = "CANCEL" /\ told.id = LinkId(e)
     /\ e.phase # "STOPPING" \/ a.obs = NoObservation
  \/ told.kind = "RANDOM" /\ told.id = LinkId(e) /\ e.phase = "DRAW_WAIT" /\ a.obs = NoObservation
Ends(e, o, told, x, b, flow) ==
  /\ Stands(b, o.eng, o.emit) /\ o.emit \in Commands \cup {"none"} /\ o.eng.phase # "IDLE"
  /\ o.eng.gen = e.gen /\ o.eng.ack = e.ack /\ (o.eng.again => o.eng.phase = "STOPPING")
  /\ b.goal # "USER"
  /\ o.eng.phase = "DRAW_WAIT" => o.emit = "RANDOM"
  /\ o.eng.phase = "DRAW" => o.emit = "none" /\ b.phase # "PREPARED" /\ (e.phase = "RADIO" \/ (e.phase = "STOPPING" /\ e.again))
  /\ o.eng.phase = "DONE" => o.emit = "none"
  /\ told.kind = "CANCEL" => o.eng.phase = "DONE" \/ (o.eng.phase = "STOPPING" /\ ~o.eng.again)
  /\ e.phase = "STOPPING" /\ ~e.again => o.eng.phase = "DONE" \/ (o.eng.phase = "STOPPING" /\ ~o.eng.again)
  /\ LeavesOpen(b, o.eng, o.emit, flow)
  /\ flow = "scan" /\ o.eng.phase = "DONE" /\ o.eng.outcome = "UNACKNOWLEDGED" =>
       b.phase = "RX" /\ b.goal = "NONE" /\ ~b.normal

\* Engine and adapter fit after the step as they did before.
LEMMA EngineEnds ==
  ASSUME NEW a, NEW b, NEW e, NEW told, NEW x, NEW flow, NEW r, EngineShape(e), AdapterShape(a), Consumed(a, b),
         Stands(a, e, "none"), Tells(a, e), Carries(a, r, e, flow), LeavesOpen(a, e, "none", flow),
         e.phase \notin {"IDLE", "DONE"}, a.obs.kind # "FRAME", a.goal # "USER",
         e.again => e.phase = "STOPPING", Answers(a, e, told, x),
         e.phase = "DRAW" /\ a.phase # "PREPARED" => Gone(e, told, x),
         e.phase = "DRAW_WAIT" => Gone(e, told, x) \/ told.kind = "RANDOM"
  PROVE  LET o == ObservedStep(e, told, x) IN
         o.eng.phase = "FAULT" \/ Ends(e, o, told, x, b, flow)
<1> DEFINE o == ObservedStep(e, told, x)
<1>0. NoObservation.kind = "none"
  BY DEF NoObservation
<1>1. CASE e.phase = "DRAW"
  <2>1. a.obs = NoObservation /\ (Calm(a) \/ Armed(a, e))
    BY <1>1 DEF Stands, Tells
  <2>2. /\ b.phase = a.phase /\ b.goal = a.goal /\ b.id = a.id /\ b.normal = a.normal
    BY <1>0, <2>1 DEF Consumed
  <2>3. CASE Gone(e, told, x)
    <3>1. /\ Turns(e, o, "DONE", "none") /\ o.eng.outcome # "UNACKNOWLEDGED" /\ ~o.eng.again
      BY <1>1, <2>3, GoneTurns
    <3> HIDE DEF o
    <3>2. Stands(b, o.eng, o.emit)
      BY <2>1, <2>2, <3>1 DEF Turns, SameAttempt, Stands, Calm, Armed, LinkId
    <3> QED
      BY <1>1, <2>2, <3>1, <3>2 DEF Ends, Turns, SameAttempt, LeavesOpen, o
  <2>4. CASE ~Gone(e, told, x)
    <3>1. Turns(e, o, "DRAW_WAIT", "RANDOM") /\ ~o.eng.again
      BY <1>1, <2>4, DrawTurns
    <3>2. Armed(a, e) /\ told.kind # "CANCEL"
      BY <1>0, <1>1, <2>1, <2>4 DEF Calm, Gone, Answers
    <3> HIDE DEF o
    <3>3. Stands(b, o.eng, o.emit)
      BY <2>2, <3>1, <3>2 DEF Turns, SameAttempt, Stands, Armed
    <3> QED
      BY <1>1, <2>2, <3>1, <3>2, <3>3 DEF Ends, Turns, SameAttempt, LeavesOpen, Commands, o
  <2> QED
    BY <2>3, <2>4
<1>2. CASE e.phase = "DRAW_WAIT"
  <2>1. a.obs = NoObservation /\ Armed(a, e)
    BY <1>2 DEF Stands, Tells, Armed
  <2>2. /\ b.phase = a.phase /\ b.goal = a.goal /\ b.id = a.id /\ b.normal = a.normal
    BY <1>0, <2>1 DEF Consumed
  <2>3. CASE Gone(e, told, x)
    <3>1. /\ Turns(e, o, "DONE", "none") /\ o.eng.outcome # "UNACKNOWLEDGED" /\ ~o.eng.again
      BY <1>2, <2>3, GoneTurns
    <3> HIDE DEF o
    <3>2. Stands(b, o.eng, o.emit)
      BY <2>1, <2>2, <3>1 DEF Turns, SameAttempt, Stands, Armed, LinkId
    <3> QED
      BY <1>2, <2>2, <3>1, <3>2 DEF Ends, Turns, SameAttempt, LeavesOpen, o
  <2>4. CASE ~Gone(e, told, x)
    <3>1. told.kind = "RANDOM" /\ told.id = LinkId(e)
      BY <1>0, <1>2, <2>1, <2>4 DEF Answers
    <3>2. /\ Turns(e, o, "RADIO", "ATTEMPT") \/ (Turns(e, o, "DONE", "none") /\ o.eng.outcome # "UNACKNOWLEDGED")
          /\ ~o.eng.again
      BY <1>2, <2>4, <3>1, DrawWaitTurns
    <3> HIDE DEF o
    <3>3. Stands(b, o.eng, o.emit)
      BY <2>1, <2>2, <3>2 DEF Turns, SameAttempt, Stands, Armed, LinkId
    <3> QED
      BY <1>2, <2>1, <2>2, <3>1, <3>2, <3>3 DEF Ends, Turns, SameAttempt, LeavesOpen, Commands, Armed, o
  <2> QED
    BY <2>3, <2>4
<1>3. CASE e.phase = "RADIO"
  <2>1. a.id = LinkId(e) /\ Scheduled(a)
    BY <1>3 DEF Stands
  <2>2. \/ a.obs = NoObservation
        \/ /\ a.obs.id = LinkId(e)
           /\ \/ a.obs.kind = "SENT_INTERVAL" /\ a.phase = "REPORT" /\ a.goal = "NONE"
              \/ a.obs.kind = "BUSY_INTERVAL" /\ a.phase = "OFF" /\ a.goal = "BUSY"
    BY <1>3 DEF Tells
  <2>3. CASE Gone(e, told, x)
    <3>1. /\ Turns(e, o, "STOPPING", "QUIESCE") /\ o.eng.outcome # "UNACKNOWLEDGED" /\ ~o.eng.again
      BY <1>3, <2>3, GoneTurns
    <3>2. b.id = LinkId(e) /\ Stoppable(b)
      BY <1>0, <2>1, <2>2 DEF Consumed, Stoppable, Scheduled, Winding
    <3> HIDE DEF o
    <3>3. Stands(b, o.eng, o.emit)
      BY <3>1, <3>2 DEF Turns, SameAttempt, Stands
    <3>4. b.goal # "USER"
      BY <3>2 DEF Stoppable, Winding
    <3> QED
      BY <1>3, <3>1, <3>3, <3>4 DEF Ends, Turns, SameAttempt, LeavesOpen, Commands, o
  <2>4. CASE ~Gone(e, told, x)
    <3>1. told = a.obs
      BY <1>0, <1>3, <2>4 DEF Answers, Gone
    <3>2. CASE a.obs = NoObservation
      <4>1. Turns(e, o, "RADIO", "none") /\ ~o.eng.again
        BY <1>0, <1>3, <2>4, <3>1, <3>2, RadioTurns
      <4>2. b.id = LinkId(e) /\ Scheduled(b) /\ b.goal # "USER"
        BY <1>0, <2>1, <3>2 DEF Consumed, Scheduled, Winding
      <4> HIDE DEF o
      <4>3. Stands(b, o.eng, o.emit)
        BY <4>1, <4>2 DEF Turns, SameAttempt, Stands
      <4> QED
        BY <1>0, <1>3, <3>1, <3>2, <4>1, <4>2, <4>3 DEF Ends, Turns, SameAttempt, LeavesOpen, o
    <3>3. CASE a.obs.kind = "SENT_INTERVAL" /\ a.phase = "REPORT" /\ a.goal = "NONE" /\ a.obs.id = LinkId(e)
      <4>1. /\ ~o.eng.again
            /\ Turns(e, o, "ACK_WAIT", "COLLECT") \/ Turns(e, o, "STOPPING", "QUIESCE")
        BY <1>3, <2>4, <3>1, <3>3, RadioTurns
      <4>2. b.id = LinkId(e) /\ b.phase = "WAIT_MAC" /\ b.goal = "NONE"
        BY <2>1, <3>3 DEF Consumed
      <4> HIDE DEF o
      <4>3. Stands(b, o.eng, o.emit)
        BY <4>1, <4>2 DEF Turns, SameAttempt, Stands, Stoppable
      <4>4. LeavesOpen(b, o.eng, o.emit, flow)
        <5>1. flow = "scan" => b.trans /\ ~b.normal /\ ~b.stop /\ b.policy = "KEEP_RAW"
          BY <3>3 DEF Consumed, Carries, OnAir, Policy
        <5> QED
          BY <4>1, <4>2, <5>1 DEF LeavesOpen, Turns
      <4> QED
        BY <1>3, <3>1, <3>3, <4>1, <4>2, <4>3, <4>4 DEF Ends, Turns, SameAttempt, Commands, o
    <3>4. CASE a.obs.kind = "BUSY_INTERVAL" /\ a.phase = "OFF" /\ a.goal = "BUSY" /\ a.obs.id = LinkId(e)
      <4>1. /\ o.eng.phase \in {"DRAW", "DONE"} /\ o.emit = "none" /\ o.eng.gen = e.gen /\ o.eng.ack = e.ack
            /\ o.eng.phase = "DONE" => o.eng.outcome # "UNACKNOWLEDGED"
            /\ ~o.eng.again
        BY <1>3, <2>4, <3>1, <3>4, RadioTurns
      <4>2. b.phase = "OFF" /\ b.goal = "NONE"
        BY <3>4 DEF Consumed
      <4> HIDE DEF o
      <4>3. Stands(b, o.eng, o.emit)
        BY <4>1, <4>2 DEF Stands, Calm
      <4> QED
        BY <1>3, <3>1, <3>4, <4>1, <4>2, <4>3 DEF Ends, LeavesOpen, o
    <3> QED
      BY <2>2, <3>2, <3>3, <3>4
  <2> QED
    BY <2>3, <2>4
<1>4. CASE e.phase = "ACK_WAIT"
  <2>1. a.id = LinkId(e) /\ Collecting(a)
    BY <1>4 DEF Stands
  <2>2. \/ a.obs = NoObservation
        \/ /\ a.obs.id = LinkId(e)
           /\ \/ a.obs.kind = "ACK_INTERVAL" /\ a.phase = "COLLECT" /\ a.goal = "NONE"
              \/ a.obs.kind = "RX_CLOSED" /\ a.phase = "OFF" /\ a.goal = "ACK_WINDOW"
    BY <1>4 DEF Tells
  <2>3. b.id = LinkId(e) /\ Stoppable(b) /\ b.goal # "USER"
    BY <1>0, <2>1, <2>2 DEF Consumed, Stoppable, Collecting, Winding
  <2>4. CASE Gone(e, told, x)
    <3>1. /\ Turns(e, o, "STOPPING", "QUIESCE") /\ o.eng.outcome # "UNACKNOWLEDGED" /\ ~o.eng.again
      BY <1>4, <2>4, GoneTurns
    <3> HIDE DEF o
    <3>2. Stands(b, o.eng, o.emit)
      BY <2>3, <3>1 DEF Turns, SameAttempt, Stands
    <3> QED
      BY <1>4, <2>3, <3>1, <3>2 DEF Ends, Turns, SameAttempt, LeavesOpen, Commands, o
  <2>5. CASE ~Gone(e, told, x)
    <3>1. told = a.obs
      BY <1>0, <1>4, <2>5 DEF Answers, Gone
    <3>2. CASE a.obs = NoObservation
      <4>1. Turns(e, o, "ACK_WAIT", "none") /\ ~o.eng.again
        BY <1>0, <1>4, <2>5, <3>1, <3>2, AckWaitTurns
      <4>2. Collecting(b)
        BY <1>0, <2>1, <3>2 DEF Consumed, Collecting, Winding
      <4> HIDE DEF o
      <4>3. Stands(b, o.eng, o.emit)
        BY <2>3, <4>1, <4>2 DEF Turns, SameAttempt, Stands
      <4> QED
        BY <1>0, <1>4, <2>3, <3>1, <3>2, <4>1, <4>3 DEF Ends, Turns, SameAttempt, LeavesOpen, o
    <3>3. CASE a.obs # NoObservation
      <4>1. Turns(e, o, "STOPPING", "QUIESCE") /\ o.eng.outcome # "UNACKNOWLEDGED" /\ told.kind # "CANCEL"
        BY <1>4, <2>2, <2>5, <3>1, <3>3, AckWaitTurns
      <4> HIDE DEF o
      <4>2. Stands(b, o.eng, o.emit)
        BY <2>3, <4>1 DEF Turns, SameAttempt, Stands
      <4> QED
        BY <1>4, <2>3, <4>1, <4>2 DEF Ends, Turns, SameAttempt, LeavesOpen, Commands, o
    <3> QED
      BY <3>2, <3>3
  <2> QED
    BY <2>4, <2>5
<1>5. CASE e.phase = "STOPPING"
  <2>1. a.id = LinkId(e) /\ Retiring(a)
    BY <1>5 DEF Stands
  <2>2. \/ a.obs = NoObservation
        \/ a.obs.id = LinkId(e) /\ a.obs.kind = "RETIRED" /\ a.phase \in {"OFF", "RX"}
    BY <1>5 DEF Tells
  <2>3. \/ told = NoObservation /\ a.obs = NoObservation
        \/ told.kind = "CANCEL" /\ told.id = LinkId(e) /\ a.obs = NoObservation
        \/ told = a.obs /\ told.id = LinkId(e) /\ told.kind = "RETIRED" /\ a.phase \in {"OFF", "RX"}
    BY <1>5, <2>2 DEF Answers
  <2>4. /\ o.emit = "none" /\ o.eng.gen = e.gen /\ o.eng.ack = e.ack
        /\ \/ o.eng.phase = "FAULT"
           \/ /\ told.kind # "RETIRED" /\ o.eng.phase = "STOPPING" /\ SameAttempt(e, o.eng)
              /\ o.eng.again => e.again /\ ~Gone(e, told, x)
           \/ told.kind = "RETIRED" /\ o.eng.phase = "DRAW" /\ e.again /\ ~o.eng.again
           \/ told.kind = "RETIRED" /\ o.eng.phase = "DONE" /\ ~o.eng.again
        /\ o.eng.outcome = "UNACKNOWLEDGED" => e.outcome = "UNACKNOWLEDGED"
    BY <1>5, <2>3, StoppingTurns
  <2> HIDE DEF o
  <2>5. CASE o.eng.phase = "STOPPING"
    <3>1. a.obs = NoObservation /\ SameAttempt(e, o.eng) /\ (told.kind = "CANCEL" => ~o.eng.again)
          /\ (o.eng.again => e.again)
      BY <1>0, <2>3, <2>4, <2>5 DEF Gone
    <3>2. b.phase = a.phase /\ b.goal = a.goal /\ b.id = a.id /\ b.stop = a.stop /\ b.trans = a.trans
          /\ b.normal = a.normal /\ b.policy = a.policy /\ b.req = a.req
      BY <1>0, <3>1 DEF Consumed
    <3>3. Stands(b, o.eng, o.emit)
      BY <2>1, <2>4, <2>5, <3>1, <3>2 DEF Stands, Retiring, SameAttempt
    <3>4. LeavesOpen(b, o.eng, o.emit, flow)
      BY <1>5, <2>4, <3>2 DEF LeavesOpen
    <3> QED
      BY <1>5, <2>4, <2>5, <3>1, <3>2, <3>3, <3>4 DEF Ends, o
  <2>6. CASE o.eng.phase \in {"DRAW", "DONE"}
    <3>1. a.obs.kind = "RETIRED" /\ a.phase \in {"OFF", "RX"} /\ told = a.obs /\ ~o.eng.again
          /\ (o.eng.phase = "DRAW" => e.again)
      BY <2>3, <2>4, <2>6, <1>0
    <3>2. b.phase = a.phase /\ b.goal = "NONE" /\ b.normal = a.normal
      BY <3>1 DEF Consumed
    <3>3. Stands(b, o.eng, o.emit)
      BY <2>4, <2>6, <3>1, <3>2 DEF Stands, Calm
    <3>4. flow = "scan" /\ o.eng.outcome = "UNACKNOWLEDGED" => b.phase = "RX" /\ ~b.normal
      BY <1>5, <2>4, <3>1, <3>2 DEF LeavesOpen
    <3> QED
      BY <1>5, <2>4, <2>6, <3>1, <3>2, <3>3, <3>4 DEF Ends, LeavesOpen, o
  <2> QED
    BY <2>4, <2>5, <2>6 DEF o
<1> QED
  BY <1>1, <1>2, <1>3, <1>4, <1>5 DEF Stands

(* The link's own steps.  What all of them start from.                         *)
InStep ==
  /\ EngineShape(eng) /\ drv = [f \in DriverFields |-> drv[f]] /\ up = [f \in ClientFields |-> up[f]]
  /\ mode \in Modes /\ Running /\ adp.obs = NoObservation /\ AdapterShape(adp) /\ EtherShape(ether)
  /\ Coupled(mode, up, eng, drv, adp, ether, late)

LEMMA StartsInStep ==
  ASSUME AckInv, StepInv, Running
  PROVE  InStep
BY DEF AckInv, StepInv, InStep, OwnAttempt

\* What is left to show of a step.
LEMMA StepKept ==
  ASSUME StepInv, mode' \in Modes, up' = [f \in ClientFields |-> up'[f]],
         drv'.fault \notin {"refused", "STATE", "COVERAGE"},
         drv'.fault = "none" => Coupled(mode', up', eng', drv', adp', ether', late')
  PROVE  StepInv'
BY DEF StepInv, DriverInStep, Running

\* A broken radio stops the link, which is no refusal.
LEMMA FailsInStep ==
  ASSUME StepInv, InStep, Fail("radio"), mode' = mode, up' = up
  PROVE  StepInv'
<1>1. drv'.fault = "radio"
  BY DEF Fail, InStep, DriverFields
<1> QED
  BY <1>1, StepKept DEF InStep

\* The adapter accepts each command the engine gives.
LEMMA AcceptRadioStep ==
  ASSUME AckInv, StepInv, AcceptRadio
  PROVE  StepInv'
<1>0. InStep /\ drv.radio # "none" /\ UNCHANGED <<mode, up, eng, ether, late>>
  BY StartsInStep DEF AcceptRadio
<1>1. /\ Commanded(drv) = drv.radio /\ drv.radio \in Commands /\ drv.action \in {"none", "TX"}
      /\ drv.fault = "none" /\ Coupled(mode, up, eng, drv, adp, ether, late)
  BY <1>0 DEF InStep, Coupled, Commanded, FlowStands, Running
<1>2. CASE drv.radio = "RANDOM"
  <2>1. eng.phase = "DRAW_WAIT" /\ Armed(adp, eng)
    BY <1>1, <1>2 DEF Coupled, Stands
  <2>2. adp' = adp /\ drv' = [drv EXCEPT !.radio = "none", !.random = "wait"]
    BY <1>2 DEF AcceptRadio
  <2>3. /\ drv'.radio = "none" /\ drv'.random = "wait" /\ drv'.action = drv.action /\ drv'.fault = "none"
    BY <1>0, <1>1, <2>2 DEF InStep, DriverFields
  <2>4. Commanded(drv') = "none"
    BY <1>1, <2>3 DEF Commanded, Commands
  <2>5. Coupled(mode, up, eng, drv', adp, ether, late)
    <3>1. Stands(adp, eng, "none") /\ LeavesOpen(adp, eng, "none", up.flow)
      BY <2>1 DEF Stands, LeavesOpen
    <3>2. RandomStands(eng, drv', late)
      BY <1>1, <2>1, <2>3, <2>4 DEF Coupled, RandomStands
    <3>3. FlowStands(mode, up, eng, drv', adp) /\ ArmStands(up, eng, drv', adp)
          /\ ClosureStands(mode, up, eng, drv', adp)
      BY <1>1, <2>3 DEF Coupled, FlowStands, ArmStands, ClosureStands
    <3> QED
      BY <1>1, <2>4, <3>1, <3>2, <3>3 DEF Coupled
  <2> QED
    BY <1>0, <2>2, <2>3, <2>5, StepKept DEF InStep
<1>3. CASE drv.radio # "RANDOM"
  <2> DEFINE a == Accept(adp, eng, drv.radio)
  <2>0. ~Ready(adp) /\ AdapterShape(adp) /\ Refused.phase = "refused"
    BY <1>0 DEF InStep, Ready, Refused
  <2>1. \/ /\ drv.radio = "ATTEMPT" /\ eng.phase = "RADIO" /\ Armed(adp, eng)
           /\ a = [adp EXCEPT !.phase = "SCHEDULED"]
        \/ /\ drv.radio = "COLLECT" /\ eng.phase = "ACK_WAIT" /\ adp.id = LinkId(eng)
           /\ adp.phase = "WAIT_MAC" /\ adp.goal = "NONE"
           /\ a = [adp EXCEPT !.phase = "COLLECT"]
        \/ /\ drv.radio = "QUIESCE" /\ eng.phase = "STOPPING" /\ adp.id = LinkId(eng) /\ Stoppable(adp)
           /\ a = [adp EXCEPT !.goal = "RETIRE", !.req = eng.outcome,
                   !.phase = IF @ \in {"DRAINING", "OFF"} THEN @ ELSE "RETIRING"]
    <3>1. CASE drv.radio = "ATTEMPT"
      <4>1. eng.phase = "RADIO" /\ Armed(adp, eng)
        BY <1>1, <3>1 DEF Coupled, Stands
      <4> QED
        BY <2>0, <3>1, <4>1 DEF Accept, Armed
    <3>2. CASE drv.radio = "COLLECT"
      <4>1. eng.phase = "ACK_WAIT" /\ adp.id = LinkId(eng) /\ adp.phase = "WAIT_MAC" /\ adp.goal = "NONE"
        BY <1>1, <3>2 DEF Coupled, Stands
      <4>2. adp.trans
        BY <1>1, <4>1 DEF Coupled, Carries, OnAir
      <4> QED
        BY <2>0, <3>2, <4>1, <4>2 DEF Accept
    <3>3. CASE drv.radio = "QUIESCE"
      <4>1. eng.phase = "STOPPING" /\ adp.id = LinkId(eng) /\ Stoppable(adp)
        BY <1>1, <3>3 DEF Coupled, Stands
      <4>2. adp.phase \notin {"RX", "RETIRING", "FAULT"}
        BY <4>1 DEF Stoppable, Winding
      <4> QED
        BY <2>0, <3>3, <4>1, <4>2 DEF Accept
    <3> QED
      BY <1>1, <1>3, <3>1, <3>2, <3>3 DEF Commands
  <2>2. /\ a.id = LinkId(eng) /\ a.held = adp.held /\ a.stop = adp.stop /\ a.trans = adp.trans
        /\ a.normal = adp.normal /\ a.policy = adp.policy
        /\ \/ /\ drv.radio = "ATTEMPT" /\ eng.phase = "RADIO" /\ adp.phase = "PREPARED" /\ adp.goal = "NONE"
              /\ a.phase = "SCHEDULED" /\ a.goal = "NONE"
           \/ /\ drv.radio = "COLLECT" /\ eng.phase = "ACK_WAIT" /\ adp.phase = "WAIT_MAC" /\ adp.goal = "NONE"
              /\ a.phase = "COLLECT" /\ a.goal = "NONE"
           \/ /\ drv.radio = "QUIESCE" /\ eng.phase = "STOPPING" /\ Stoppable(adp) /\ a.goal = "RETIRE"
              /\ a.req = eng.outcome
              /\ a.phase = IF adp.phase \in {"DRAINING", "OFF"} THEN adp.phase ELSE "RETIRING"
    BY <2>0, <2>1 DEF AdapterShape, AdapterFields, Armed
  <2> HIDE DEF a
  <2>3. a # Refused
    BY <2>0, <2>2
  <2>4. adp' = a /\ drv' = [drv EXCEPT !.radio = "none"]
    BY <1>3, <2>3 DEF AcceptRadio, a
  <2>5. drv'.radio = "none" /\ drv'.random = drv.random /\ drv'.action = drv.action /\ drv'.fault = "none"
    BY <1>0, <1>1, <2>4 DEF InStep, DriverFields
  <2>6. Commanded(drv') = "none"
    BY <1>1, <2>5 DEF Commanded, Commands
  <2>7. Coupled(mode, up, eng, drv', a, ether, late)
    <3>1. Stands(a, eng, "none")
      BY <2>2 DEF Stands, Scheduled, Collecting, Retiring, Stoppable, Winding
    <3>2. Carries(a, ether, eng, up.flow)
      BY <1>1, <2>2 DEF Coupled, Carries, OnAir, Stoppable, Winding
    <3>3. LeavesOpen(a, eng, "none", up.flow)
      BY <1>1, <2>2 DEF Coupled, LeavesOpen, Commands
    <3>4. RandomStands(eng, drv', late)
      BY <1>1, <2>2, <2>5, <2>6 DEF Coupled, RandomStands
    <3>5. FlowStands(mode, up, eng, drv', a) /\ ArmStands(up, eng, drv', a)
      BY <1>1, <2>2, <2>5 DEF Coupled, FlowStands, ArmStands
    <3>6. ClosureStands(mode, up, eng, drv', a)
      BY <2>2 DEF ClosureStands
    <3> QED
      BY <2>6, <3>1, <3>2, <3>3, <3>4, <3>5, <3>6 DEF Coupled
  <2> QED
    BY <1>0, <2>4, <2>5, <2>7, StepKept DEF InStep
<1> QED
  BY <1>2, <1>3

\* The random byte, or the deadline before it.
LEMMA RandomStep ==
  ASSUME AckInv, StepInv, Random
  PROVE  StepInv'
<1>0. InStep /\ drv.random = "wait" /\ UNCHANGED <<mode, up, eng, adp, ether, late>>
      /\ drv' = [drv EXCEPT !.random = IF late THEN "late" ELSE "ready"]
  BY StartsInStep DEF Random
<1>1. /\ drv'.radio = drv.radio /\ drv'.random \in {"late", "ready"} /\ (drv'.random = "late" => late)
      /\ drv'.action = drv.action /\ drv'.fault = "none" /\ Commanded(drv') = Commanded(drv)
  BY <1>0 DEF InStep, DriverFields, Running, Commanded
<1>2. Coupled(mode, up, eng, drv', adp, ether, late)
  <2>1. RandomStands(eng, drv', late)
    BY <1>0, <1>1 DEF InStep, Coupled, RandomStands
  <2>2. FlowStands(mode, up, eng, drv', adp) /\ ArmStands(up, eng, drv', adp)
        /\ ClosureStands(mode, up, eng, drv', adp)
    BY <1>0, <1>1 DEF InStep, Coupled, FlowStands, ArmStands, ClosureStands
  <2> QED
    BY <1>0, <1>1, <2>1, <2>2 DEF InStep, Coupled
<1> QED
  BY <1>0, <1>1, <1>2, StepKept DEF InStep

(* A grant that wants the radio off finds the engine with nothing in it.       *)
LEMMA OffGrant ==
  ASSUME InStep, drv.radio = "none", WantsRadioOff
  PROVE  /\ Commanded(drv) = "none" /\ eng.phase \in {"IDLE", "DRAW", "DONE"}
         /\ drv.action = "CONFIG" => up.flow = "none" /\ eng.phase = "IDLE"
         /\ drv.action = "ARM" => Arms(up.flow) /\ eng.phase = "DRAW"
         /\ drv.action = "CLOSE" => up.flow = "poll" /\ eng.phase = "DONE"
         /\ drv.action = "TX" => up.flow \in {"scan", "poll"} /\ eng.phase = "DRAW"
         /\ drv.action \in {"CONFIG", "ARM", "CLOSE", "TX"}
         /\ Calm(adp) \/ (adp.phase = "PREPARED" /\ adp.goal = "NONE")
<1>1. drv.action \in {"CONFIG", "ARM", "CLOSE"} \/ (drv.action = "TX" /\ eng.phase = "DRAW")
  BY DEF WantsRadioOff
<1>2. Commanded(drv) = "none"
  BY <1>1 DEF Commanded, Commands
<1>3. up.flow = "none" \/ Arms(up.flow) \/ up.flow \in {"scan", "poll"}
  BY DEF InStep, Coupled, FlowStands, Flows, Arms
<1>4. FlowStands(mode, up, eng, drv, adp) /\ ArmStands(up, eng, drv, adp) /\ Stands(adp, eng, "none")
  BY <1>2 DEF InStep, Coupled
<1>5. /\ drv.action = "CONFIG" => up.flow = "none" /\ eng.phase = "IDLE"
      /\ drv.action = "ARM" => Arms(up.flow) /\ eng.phase = "DRAW"
      /\ drv.action = "CLOSE" => up.flow = "poll" /\ eng.phase = "DONE"
      /\ drv.action = "TX" => up.flow \in {"scan", "poll"} /\ eng.phase = "DRAW"
  BY <1>1, <1>3, <1>4 DEF FlowStands, ArmStands, Arms, Commands
<1>6. Calm(adp) \/ (adp.phase = "PREPARED" /\ adp.goal = "NONE")
  BY <1>1, <1>4, <1>5 DEF Stands, Armed
<1> QED
  BY <1>1, <1>2, <1>5, <1>6

\* While it waits for the radio, it is enough that the adapter stays calm.
LEMMA OffWaits ==
  ASSUME InStep, drv.radio = "none", WantsRadioOff, NEW a, NEW r, Stands(a, eng, "none"),
         Carries(a, r, eng, up.flow), a.phase = "PREPARED" => adp.phase = "PREPARED"
  PROVE  Coupled(mode, up, eng, drv, a, r, late)
<1>1. Coupled(mode, up, eng, drv, adp, ether, late) /\ Commanded(drv) = "none"
  BY OffGrant DEF InStep
<1>2. LeavesOpen(a, eng, "none", up.flow) /\ ClosureStands(mode, up, eng, drv, a)
  BY OffGrant DEF LeavesOpen, ClosureStands, WantsRadioOff
<1>3. FlowStands(mode, up, eng, drv, a)
  BY <1>1, OffGrant DEF Coupled, FlowStands
<1>4. ArmStands(up, eng, drv, a)
  BY <1>1, OffGrant DEF Coupled, ArmStands
<1> QED
  BY <1>1, <1>2, <1>3, <1>4 DEF Coupled

LEMMA GrantClosesRadioStep ==
  ASSUME AckInv, StepInv, GrantClosesRadio
  PROVE  StepInv'
<1>0. InStep /\ drv.radio = "none" /\ WantsRadioOff /\ adp.phase = "RX" /\ ~Ready(adp)
      /\ UNCHANGED <<mode, up, eng, drv, ether, late>> /\ adp' = Close(adp, FALSE) /\ drv.fault = "none"
  BY StartsInStep DEF GrantClosesRadio, Stepping, Running
<1>1. adp' = [adp EXCEPT !.wait = FALSE, !.stop = FALSE, !.goal = "USER", !.phase = "CLOSING"]
  BY <1>0 DEF Close
<1>2. adp'.phase = "CLOSING" /\ adp'.goal = "USER"
  BY <1>0, <1>1 DEF InStep, AdapterShape, AdapterFields
<1>3. Stands(adp', eng, "none") /\ Carries(adp', ether, eng, up.flow)
  BY <1>0, <1>2, OffGrant DEF Stands, Calm, Carries, OnAir
<1>4. Coupled(mode, up, eng, drv, adp', ether, late)
  BY <1>0, <1>2, <1>3, OffWaits
<1> QED
  BY <1>0, <1>4, StepKept DEF InStep

\* In these phases of the engine only a frame or the asked-for closure is told.
LEMMA CalmTaken ==
  ASSUME NEW a, NEW b, NEW e, Consumed(a, b), Stands(a, e, "none"), Tells(a, e),
         e.phase \in {"IDLE", "DRAW", "DONE"}
  PROVE  /\ Stands(b, e, "none") /\ b.phase = a.phase /\ a.obs.kind \in {"none", "FRAME", "CLOSED"}
         /\ b.goal = "USER" => a.goal = "USER"
         /\ a.obs.kind = "none" => a.obs = NoObservation
<1>1. a.obs = NoObservation \/ a.obs.kind = "FRAME" \/ (a.obs.kind = "CLOSED" /\ a.phase = "OFF")
  BY DEF Tells
<1>2. /\ b.phase = a.phase /\ b.id = a.id
      /\ b.goal = a.goal \/ (b.goal = "NONE" /\ a.phase = "OFF")
  BY <1>1 DEF Consumed, NoObservation
<1>3. Stands(b, e, "none")
  BY <1>2 DEF Stands, Calm, Armed
<1> QED
  BY <1>1, <1>2, <1>3 DEF NoObservation

\* A broken receiver has nothing to tell.
LEMMA MovesFault ==
  ASSUME NEW a, NEW r, NEW e, NEW b, NEW q, Moves(a, r, e, b, q), b.phase = "FAULT", a.phase # "FAULT"
  PROVE  b.obs = NoObservation
BY DEF Moves, MovesRest, MovesBusy, MovesSent, MovesReport, MovesFrame, MovesOpen, MovesClosed, MovesOn, Same

\* close_off lets the adapter finish, and meets only frames and the closure.
LEMMA GrantDrainsStep ==
  ASSUME AckInv, StepInv, GrantDrains
  PROVE  StepInv'
<1>0. InStep /\ drv.radio = "none" /\ WantsRadioOff /\ UNCHANGED <<mode, up, eng, late>> /\ drv.fault = "none"
  BY StartsInStep DEF GrantDrains, Stepping, Running
<1>1. PICK s \in AdapterStep(adp, ether, win, eng) :
       /\ ether' = s.ether /\ win' = s.win
       /\ CASE s.adp.phase = "FAULT" -> adp' = s.adp /\ Fail("radio")
            [] Ready(s.adp) /\ s.adp.obs.kind \notin {"FRAME", "CLOSED"} ->
                 adp' = s.adp /\ Fail("STATE")
            [] OTHER -> adp' = (IF Ready(s.adp) THEN Consume(s.adp) ELSE s.adp) /\ UNCHANGED drv
  BY DEF GrantDrains
<1>2. CASE s.adp.phase = "FAULT"
  <2>0. ~Ready(s.adp)
    <3>1. Moves(adp, ether, eng, s.adp, s.ether)
      BY <1>0, AdapterMoves DEF InStep
    <3>2. adp.phase # "FAULT"
      BY <1>0, OffGrant DEF Calm
    <3> QED
      BY <1>2, <3>1, <3>2, MovesFault DEF Ready
  <2>1. Fail("radio")
    BY <1>1, <1>2, <2>0
  <2> QED
    BY <1>0, <2>1, FailsInStep
<1>3. CASE s.adp.phase # "FAULT"
  <2>1. Moves(adp, ether, eng, s.adp, s.ether)
    BY <1>0, AdapterMoves DEF InStep
  <2>2. Stands(adp, eng, "none") /\ Carries(adp, ether, eng, up.flow) /\ adp.phase # "SCHEDULED"
    BY <1>0, OffGrant DEF InStep, Coupled, Calm
  <2>3. Stands(s.adp, eng, "none") /\ Tells(s.adp, eng)
    BY <1>0, <1>3, <2>1, <2>2, MovesStand DEF InStep
  <2>4. Carries(s.adp, s.ether, eng, up.flow) /\ (s.adp.phase = "PREPARED" <=> adp.phase = "PREPARED")
    BY <1>0, <1>3, <2>1, <2>2, MovesCarry DEF InStep
  <2>5. AdapterShape(s.adp)
    BY <1>0, AdapterStepOwn DEF InStep, AckInv, OwnAttempt
  <2>6. Consumed(s.adp, Taken(s.adp))
    BY <2>5, TakenConsumed
  <2>7. /\ Stands(Taken(s.adp), eng, "none") /\ Taken(s.adp).phase = s.adp.phase
        /\ s.adp.obs.kind \in {"none", "FRAME", "CLOSED"} /\ (s.adp.obs.kind = "none" => s.adp.obs = NoObservation)
    BY <1>0, <2>3, <2>6, CalmTaken, OffGrant
  <2>8. Carries(Taken(s.adp), s.ether, eng, up.flow)
    BY <2>3, <2>4, <2>6, TakenCarries
  <2>9. adp' = Taken(s.adp) /\ drv' = drv
    BY <1>1, <1>3, <2>7 DEF Ready, Taken
  <2>10. Coupled(mode, up, eng, drv, Taken(s.adp), s.ether, late)
    BY <1>0, <2>4, <2>7, <2>8, OffWaits
  <2> QED
    BY <1>0, <1>1, <2>9, <2>10, StepKept DEF InStep
<1> QED
  BY <1>2, <1>3

\* A settled adapter has given everything back.
LEMMA SettledOff ==
  ASSUME InStep, Settled
  PROVE  /\ adp.phase = "OFF" /\ adp.goal = "NONE" /\ ~Ready(adp) /\ adp.held = Nothing /\ ether.phase = "OFF"
         /\ IdleOff(adp, ether)
BY DEF InStep, Settled, Coupled, Carries, IdleOff

\* mac_adapter_open and configure are asked only of a settled adapter.
LEMMA GrantConfigStep ==
  ASSUME AckInv, StepInv, GrantConfig
  PROVE  StepInv'
<1>0. InStep /\ drv.radio = "none" /\ WantsRadioOff /\ UNCHANGED <<mode, up, eng, late>> /\ drv.fault = "none"
      /\ drv.action = "CONFIG" /\ Settled
  BY StartsInStep DEF GrantConfig, Stepping, Running, WantsRadioOff
<1>1. up.flow = "none" /\ eng.phase = "IDLE" /\ Commanded(drv) = "none"
  BY <1>0, OffGrant
<1> DEFINE a == IF mode \in {"runtime", "sleepy"} THEN Open(adp, ether)
                ELSE IF IdleOff(adp, ether) THEN adp ELSE Refused
<1>2. \/ a = [adp EXCEPT !.phase = "RX", !.normal = TRUE, !.stop = FALSE, !.wait = FALSE, !.lossy = FALSE]
      \/ a = adp
  BY <1>0, SettledOff DEF Open
<1>3. a.phase \in {"OFF", "RX"} /\ a.goal = "NONE" /\ (a.phase = "OFF" => a = adp)
  BY <1>0, <1>2, SettledOff DEF InStep, AdapterShape, AdapterFields
<1> HIDE DEF a
<1>4. a # Refused
  BY <1>3 DEF Refused
<1>5. /\ adp' = a /\ drv' = [drv EXCEPT !.action = "none"]
      /\ ether' = IF a.phase = "RX" THEN RadioOpened(ether) ELSE ether
  BY <1>4 DEF GrantConfig, a
<1>6. /\ drv'.action = "none" /\ drv'.radio = "none" /\ drv'.random = drv.random /\ drv'.fault = "none"
      /\ Commanded(drv') = "none"
  BY <1>0, <1>5 DEF InStep, DriverFields, Commanded, Commands
<1>7. Coupled(mode, up, eng, drv', a, ether', late)
  <2>1. Stands(a, eng, "none")
    BY <1>1, <1>3 DEF Stands, Calm
  <2>2. Carries(a, ether', eng, up.flow)
    BY <1>0, <1>3, <1>5, SettledOff DEF Carries, OnAir
  <2>3. LeavesOpen(a, eng, "none", up.flow)
    BY <1>1 DEF LeavesOpen
  <2>4. FlowStands(mode, up, eng, drv', a) /\ ArmStands(up, eng, drv', a)
    BY <1>0, <1>1, <1>6 DEF InStep, Coupled, FlowStands, ArmStands, Arms
  <2>5. RandomStands(eng, drv', late) /\ ClosureStands(mode, up, eng, drv', a)
    BY <1>0, <1>1, <1>3, <1>6 DEF InStep, Coupled, RandomStands, ClosureStands
  <2> QED
    BY <1>6, <2>1, <2>2, <2>3, <2>4, <2>5 DEF Coupled
<1> QED
  BY <1>0, <1>5, <1>6, <1>7, StepKept DEF InStep

\* mac_adapter_prepare is asked only for a drawn frame.
LEMMA GrantPreparesStep ==
  ASSUME AckInv, StepInv, GrantPrepares
  PROVE  StepInv'
<1>0. InStep /\ drv.radio = "none" /\ WantsRadioOff /\ UNCHANGED <<mode, eng, late>> /\ drv.fault = "none"
      /\ drv.action \in {"ARM", "TX"} /\ Settled
  BY StartsInStep DEF GrantPrepares, Stepping, Running
<1>1. /\ eng.phase = "DRAW" /\ Commanded(drv) = "none"
      /\ IF drv.action = "ARM" THEN Arms(up.flow) ELSE drv.action = "TX" /\ up.flow \in {"scan", "poll"}
  BY <1>0, OffGrant
<1>2. Coupled(mode, up, eng, drv, adp, ether, late)
  BY <1>0 DEF InStep
<1>3. Policy(up.flow) = "KEEP_AUTOACK" => eng.ack
  BY <1>1, <1>2 DEF Policy, Coupled, FlowStands
<1> DEFINE a == Prepare(adp, ether, eng, up.flow)
<1>4. a = [adp EXCEPT !.id = LinkId(eng), !.policy = Policy(up.flow), !.normal = FALSE, !.trans = FALSE,
                 !.stop = FALSE, !.wait = FALSE, !.lossy = FALSE, !.goal = "NONE",
                 !.phase = "PREPARED"]
  BY <1>0, <1>1, <1>3, SettledOff DEF Prepare
<1>5. /\ a.phase = "PREPARED" /\ a.goal = "NONE" /\ a.id = LinkId(eng) /\ a.policy = Policy(up.flow)
      /\ a.stop = FALSE /\ a.held = Nothing
  BY <1>0, <1>4, SettledOff DEF InStep, AdapterShape, AdapterFields
<1> HIDE DEF a
<1>6. a # Refused
  BY <1>5 DEF Refused
<1>7. /\ adp' = a /\ ether' = RadioPrepared(ether)
      /\ drv' = [drv EXCEPT !.action = IF @ = "ARM" THEN "none" ELSE @]
      /\ up' = [up EXCEPT !.armed = drv.action = "ARM"]
  BY <1>6 DEF GrantPrepares, a
<1>8. /\ drv'.action = (IF drv.action = "ARM" THEN "none" ELSE "TX")
      /\ drv'.radio = "none" /\ drv'.random = drv.random /\ drv'.fault = "none"
      /\ Commanded(drv') = "none"
  BY <1>0, <1>7 DEF InStep, DriverFields, Commanded, Commands
<1>9. /\ up' = [f \in ClientFields |-> up'[f]] /\ up'.flow = up.flow /\ up'.stage = up.stage
      /\ up'.issued = up.issued /\ up'.disarmed = up.disarmed /\ up'.cancel = up.cancel
      /\ up'.cancel_sent = up.cancel_sent
  BY <1>0, <1>7 DEF InStep, ClientFields
<1>10. Coupled(mode, up', eng, drv', a, ether', late)
  <2>1. Stands(a, eng, "none") /\ LeavesOpen(a, eng, "none", up'.flow)
    BY <1>1, <1>5 DEF Stands, Armed, LeavesOpen
  <2>2. Carries(a, ether', eng, up'.flow)
    BY <1>5, <1>9 DEF Carries, OnAir
  <2>3. FlowStands(mode, up', eng, drv', a)
    BY <1>0, <1>1, <1>2, <1>8, <1>9 DEF Coupled, FlowStands, Arms
  <2>4. ArmStands(up', eng, drv', a)
    BY <1>1, <1>2, <1>5, <1>8, <1>9 DEF Coupled, ArmStands
  <2>5. RandomStands(eng, drv', late) /\ ClosureStands(mode, up', eng, drv', a)
    BY <1>1, <1>2, <1>5, <1>8 DEF Coupled, RandomStands, ClosureStands
  <2> QED
    BY <1>8, <2>1, <2>2, <2>3, <2>4, <2>5 DEF Coupled
<1> QED
  BY <1>0, <1>7, <1>8, <1>9, <1>10, StepKept DEF InStep

\* A poll that is over leaves the radio off.
LEMMA GrantClosesStep ==
  ASSUME AckInv, StepInv, GrantCloses
  PROVE  StepInv'
<1>0. InStep /\ drv.radio = "none" /\ WantsRadioOff /\ UNCHANGED <<mode, adp, ether, late>> /\ drv.fault = "none"
      /\ drv.action = "CLOSE" /\ Settled /\ drv' = [drv EXCEPT !.action = "none"] /\ up' = IdleClient
      /\ eng' = IdleEngine(eng.gen)
  BY StartsInStep DEF GrantCloses, Stepping, Running, WantsRadioOff
<1>1. up.flow = "poll" /\ eng.phase = "DONE" /\ Commanded(drv) = "none"
  BY <1>0, OffGrant
<1>2. drv'.action = "none" /\ drv'.radio = "none" /\ drv'.random = drv.random /\ drv'.fault = "none"
      /\ Commanded(drv') = "none"
  BY <1>0 DEF InStep, DriverFields, Commanded, Commands
<1>3. eng'.phase = "IDLE" /\ eng'.again = FALSE /\ up'.flow = "none" /\ up' = [f \in ClientFields |-> up'[f]]
  BY <1>0 DEF IdleEngine, IdleClient, ClientFields
<1>4. Coupled(mode, up', eng', drv', adp, ether, late)
  <2>1. Stands(adp, eng', "none") /\ LeavesOpen(adp, eng', "none", up'.flow)
    BY <1>0, <1>3, SettledOff DEF Stands, Calm, LeavesOpen
  <2>2. Carries(adp, ether, eng', up'.flow)
    BY <1>0, SettledOff DEF Carries, OnAir
  <2>3. FlowStands(mode, up', eng', drv', adp) /\ ArmStands(up', eng', drv', adp)
    BY <1>0, <1>2, <1>3 DEF FlowStands, ArmStands, Arms
  <2>4. RandomStands(eng', drv', late) /\ ClosureStands(mode, up', eng', drv', adp)
    BY <1>0, <1>1, <1>2, <1>3, SettledOff DEF InStep, Coupled, RandomStands, ClosureStands
  <2> QED
    BY <1>2, <2>1, <2>2, <2>3, <2>4 DEF Coupled
<1> QED
  BY <1>0, <1>2, <1>3, <1>4, StepKept DEF InStep

\* A finished frame is given back, or has left the adapter at rest.
LEMMA GrantDisarmsStep ==
  ASSUME AckInv, StepInv, GrantDisarms
  PROVE  StepInv'
<1>0. InStep /\ drv.radio = "none" /\ UNCHANGED <<mode, eng, late>> /\ drv.fault = "none" /\ drv.action = "DISARM"
      /\ Coupled(mode, up, eng, drv, adp, ether, late) /\ AdapterShape(adp)
  BY StartsInStep DEF GrantDisarms, Stepping, Running, InStep
<1>1. Commanded(drv) = "none" /\ Arms(up.flow) /\ eng.phase = "DONE"
  <2>1. up.flow = "none" \/ Arms(up.flow) \/ up.flow \in {"scan", "poll"}
    BY <1>0 DEF Coupled, FlowStands, Flows, Arms
  <2>2. Arms(up.flow)
    BY <1>0, <2>1 DEF Coupled, FlowStands
  <2> QED
    BY <1>0, <2>2 DEF Coupled, ArmStands, Commanded, Commands
<1>2. adp.goal # "USER"
  BY <1>0, <1>1 DEF Coupled, ClosureStands, Arms
<1> DEFINE a == IF adp.phase = "PREPARED" THEN Unprepare(adp, eng) ELSE adp
           rest == adp.phase \in {"OFF", "RX"} /\ ~Ready(adp) /\ adp.goal = "NONE"
<1>3. /\ a.phase \in {"OFF", "RX"} /\ a.goal = "NONE" /\ a.held = adp.held
      /\ adp.phase # "PREPARED" => rest /\ a = adp
      /\ adp.phase = "PREPARED" => a.phase = "OFF"
  <2>1. CASE adp.phase = "PREPARED"
    <3>1. adp.goal = "NONE" /\ adp.id[1] = eng.gen
      BY <1>0, <1>1, <2>1 DEF Coupled, Stands, Calm
    <3>2. a = [adp EXCEPT !.phase = "OFF"]
      BY <1>0, <1>1, <2>1, <3>1 DEF Unprepare, InStep, Ready
    <3> QED
      BY <1>0, <2>1, <3>1, <3>2 DEF AdapterShape, AdapterFields
  <2>2. CASE adp.phase # "PREPARED"
    <3>1. adp.phase \in {"OFF", "RX"} /\ adp.goal = "NONE"
      BY <1>0, <1>1, <1>2, <2>2 DEF Coupled, Stands, Calm
    <3> QED
      BY <1>0, <2>2, <3>1 DEF InStep, Ready
  <2> QED
    BY <2>1, <2>2
<1> HIDE DEF a
<1>4. a # Refused
  BY <1>3 DEF Refused
<1>5. /\ adp' = a
      /\ ether' = IF adp.phase = "PREPARED" THEN RadioUnprepared(ether) ELSE ether
      /\ \E hold \in BOOLEAN : drv' = [drv EXCEPT !.action = "none", !.held = @ \/ hold]
      /\ up' = [up EXCEPT !.disarmed = TRUE]
  BY <1>3, <1>4 DEF GrantDisarms, a
<1>6. drv'.action = "none" /\ drv'.radio = "none" /\ drv'.random = drv.random /\ drv'.fault = "none"
      /\ Commanded(drv') = "none"
  BY <1>0, <1>5 DEF InStep, DriverFields, Commanded, Commands
<1>7. /\ up' = [f \in ClientFields |-> up'[f]] /\ up'.flow = up.flow /\ up'.stage = up.stage
      /\ up'.disarmed = TRUE
  BY <1>0, <1>5 DEF InStep, ClientFields
<1>8. a.phase = "OFF" => a.held = Nothing /\ ether'.phase = "OFF"
  <2>1. CASE adp.phase = "PREPARED"
    <3>1. ether'.phase = "OFF"
      BY <1>0, <1>5, <2>1 DEF RadioUnprepared, InStep, EtherShape, EtherFields
    <3> QED
      BY <1>0, <1>3, <2>1, <3>1 DEF Coupled, Carries
  <2>2. CASE adp.phase # "PREPARED"
    BY <1>0, <1>3, <1>5, <2>2 DEF Coupled, Carries
  <2> QED
    BY <2>1, <2>2
<1>9. Coupled(mode, up', eng, drv', a, ether', late)
  <2>1. Stands(a, eng, "none") /\ LeavesOpen(a, eng, "none", up'.flow)
    BY <1>1, <1>3 DEF Stands, Calm, LeavesOpen
  <2>2. Carries(a, ether', eng, up'.flow)
    BY <1>3, <1>8 DEF Carries, OnAir
  <2>3. FlowStands(mode, up', eng, drv', a)
    BY <1>0, <1>1, <1>6, <1>7 DEF Coupled, FlowStands, Arms
  <2>4. ArmStands(up', eng, drv', a)
    BY <1>1, <1>3, <1>6, <1>7 DEF ArmStands
  <2>5. RandomStands(eng, drv', late) /\ ClosureStands(mode, up', eng, drv', a)
    BY <1>0, <1>1, <1>3, <1>6 DEF Coupled, RandomStands, ClosureStands
  <2> QED
    BY <1>6, <2>1, <2>2, <2>3, <2>4, <2>5 DEF Coupled
<1> QED
  BY <1>0, <1>5, <1>6, <1>7, <1>9, StepKept DEF InStep

\* A client's command goes on to the adapter.
LEMMA GrantRadioStep ==
  ASSUME AckInv, StepInv, GrantRadio
  PROVE  StepInv'
<1>0. InStep /\ drv.radio = "none" /\ UNCHANGED <<mode, up, eng, adp, ether, late>> /\ drv.fault = "none"
      /\ drv.action \in Commands /\ drv' = [drv EXCEPT !.radio = drv.action, !.action = "none"]
      /\ Coupled(mode, up, eng, drv, adp, ether, late)
  BY StartsInStep DEF GrantRadio, Stepping, Running, InStep, Commands
<1>1. /\ drv'.action = "none" /\ drv'.radio = drv.action /\ drv'.random = drv.random /\ drv'.fault = "none"
      /\ Commanded(drv') = drv.action /\ Commanded(drv) = drv.action
  BY <1>0 DEF InStep, DriverFields, Commanded, Commands
<1>2. Arms(up.flow)
  BY <1>0 DEF Coupled, FlowStands, Flows, Arms, Commands
<1>3. eng.phase \notin {"IDLE", "DONE", "DRAW"} /\ adp.goal # "USER"
  BY <1>0, <1>1, <1>2 DEF Coupled, Stands, Commands, ClosureStands, Arms
<1>4. Coupled(mode, up, eng, drv', adp, ether, late)
  <2>1. FlowStands(mode, up, eng, drv', adp) /\ ArmStands(up, eng, drv', adp)
    BY <1>0, <1>1, <1>2, <1>3 DEF Coupled, FlowStands, ArmStands, Arms
  <2>2. RandomStands(eng, drv', late) /\ ClosureStands(mode, up, eng, drv', adp)
    BY <1>0, <1>1, <1>3 DEF Coupled, RandomStands, ClosureStands
  <2> QED
    BY <1>0, <1>1, <2>1, <2>2 DEF Coupled
<1> QED
  BY <1>0, <1>1, <1>4, StepKept DEF InStep

\* The receiver is open, and to every frame, when a scan counts on it.
LEMMA GrantReceiveStep ==
  ASSUME AckInv, StepInv, GrantReceive
  PROVE  StepInv'
<1>0. InStep /\ drv.radio = "none" /\ UNCHANGED <<mode, eng, adp, ether, late>> /\ drv.fault = "none"
      /\ drv.action = "RECEIVE" /\ Coupled(mode, up, eng, drv, adp, ether, late)
  BY StartsInStep DEF GrantReceive, Stepping, Running, InStep
<1>1. /\ up.flow = "scan" /\ eng.phase = "IDLE" /\ adp.phase = "RX" /\ adp.goal = "NONE" /\ ~adp.normal
      /\ Commanded(drv) = "none"
  BY <1>0 DEF Coupled, FlowStands, Flows, Arms, Commanded, Commands
<1>2. drv' = [drv EXCEPT !.action = "none"] /\ up' = [up EXCEPT !.stage = "window"]
  BY <1>1 DEF GrantReceive
<1>3. /\ drv'.action = "none" /\ drv'.radio = "none" /\ drv'.random = drv.random /\ drv'.fault = "none"
      /\ Commanded(drv') = "none"
  BY <1>0, <1>2 DEF InStep, DriverFields, Commanded, Commands
<1>4. up' = [f \in ClientFields |-> up'[f]] /\ up'.flow = "scan" /\ up'.stage = "window"
  BY <1>0, <1>1, <1>2 DEF InStep, ClientFields
<1>5. Coupled(mode, up', eng, drv', adp, ether, late)
  <2>1. FlowStands(mode, up', eng, drv', adp) /\ ArmStands(up', eng, drv', adp)
    BY <1>0, <1>1, <1>3, <1>4 DEF Coupled, FlowStands, ArmStands, Arms
  <2>2. RandomStands(eng, drv', late) /\ ClosureStands(mode, up', eng, drv', adp)
    BY <1>0, <1>1, <1>3, <1>4 DEF Coupled, RandomStands, ClosureStands
  <2>3. Stands(adp, eng, "none") /\ LeavesOpen(adp, eng, "none", up'.flow) /\ Carries(adp, ether, eng, up'.flow)
    BY <1>0, <1>1 DEF Coupled, LeavesOpen, Carries, OnAir
  <2> QED
    BY <1>3, <2>1, <2>2, <2>3 DEF Coupled
<1> QED
  BY <1>0, <1>3, <1>4, <1>5, StepKept DEF InStep

(* The clients, the clock and the air.                                         *)
LEMMA ClientSubmitStep ==
  ASSUME AckInv, StepInv, ClientSubmit
  PROVE  StepInv'
<1>0. InStep /\ UNCHANGED <<mode, adp, ether>> /\ drv.fault = "none" /\ up.flow = "none" /\ drv.action = "none"
      /\ drv.radio = "none" /\ eng.phase = "IDLE" /\ late' = FALSE
      /\ Coupled(mode, up, eng, drv, adp, ether, late)
  BY StartsInStep DEF ClientSubmit, LinkIdle, Running, InStep
<1>1. PICK flow \in Flows(mode) :
       /\ up' = [IdleClient EXCEPT !.flow = flow, !.stage = "tx", !.issued = IF Arms(flow) THEN 1 ELSE 0]
       /\ eng' = [IdleEngine(eng.gen + 1) EXCEPT !.phase = "DRAW", !.ack = flow \notin {"bcast", "scan"}]
       /\ drv' = [drv EXCEPT !.action = IF Arms(flow) THEN "ARM" ELSE "TX"]
  BY DEF ClientSubmit
<1>2. Arms(flow) \/ flow \in {"scan", "poll"}
  BY DEF Flows, Arms
<1>3. /\ drv'.action = (IF Arms(flow) THEN "ARM" ELSE "TX") /\ drv'.radio = "none" /\ drv'.random = drv.random
      /\ drv'.fault = "none" /\ Commanded(drv') = "none"
  BY <1>0, <1>1 DEF InStep, DriverFields, Commanded, Commands
<1>4. /\ up' = [f \in ClientFields |-> up'[f]] /\ up'.flow = flow /\ up'.stage = "tx" /\ up'.issued # 2
      /\ up'.disarmed = FALSE /\ up'.cancel_sent = FALSE
  <2>1. /\ IdleClient = [f \in ClientFields |-> IdleClient[f]] /\ ~IdleClient.disarmed /\ ~IdleClient.cancel_sent
    BY DEF IdleClient, ClientFields
  <2>2. up' = [f \in ClientFields |-> up'[f]] /\ up'.flow = flow /\ up'.stage = "tx"
    BY <1>1, <2>1 DEF ClientFields
  <2>3. up'.issued = (IF Arms(flow) THEN 1 ELSE 0)
    BY <1>1, <2>1 DEF ClientFields
  <2>4. up'.disarmed = IdleClient.disarmed /\ up'.cancel_sent = IdleClient.cancel_sent
    BY <1>1, <2>1 DEF ClientFields
  <2>5. up'.disarmed = FALSE /\ up'.cancel_sent = FALSE
    BY <2>4 DEF IdleClient
  <2> QED
    BY <2>2, <2>3, <2>5
<1>5. eng'.phase = "DRAW" /\ eng'.ack = (flow \notin {"bcast", "scan"}) /\ eng'.again = FALSE
  BY <1>1 DEF IdleEngine
<1>6. Commanded(drv) = "none" /\ Calm(adp) /\ drv.random = "no"
  BY <1>0 DEF Coupled, Commanded, Commands, Stands, RandomStands
<1>7. Coupled(mode, up', eng', drv', adp, ether, FALSE)
  <2>1. Stands(adp, eng', "none") /\ LeavesOpen(adp, eng', "none", up'.flow)
    BY <1>5, <1>6 DEF Stands, LeavesOpen
  <2>2. Carries(adp, ether, eng', up'.flow)
    BY <1>0, <1>6 DEF Coupled, Carries, Calm, OnAir
  <2>3. FlowStands(mode, up', eng', drv', adp)
    BY <1>2, <1>3, <1>4, <1>5 DEF FlowStands, Arms
  <2>4. ArmStands(up', eng', drv', adp)
    BY <1>2, <1>3, <1>4, <1>5 DEF ArmStands, Arms
  <2>5. RandomStands(eng', drv', FALSE) /\ ClosureStands(mode, up', eng', drv', adp)
    BY <1>2, <1>3, <1>5, <1>6 DEF RandomStands, ClosureStands
  <2> QED
    BY <1>3, <2>1, <2>2, <2>3, <2>4, <2>5 DEF Coupled
<1> QED
  BY <1>0, <1>3, <1>4, <1>7, StepKept DEF InStep

LEMMA CancelStep ==
  ASSUME AckInv, StepInv, Cancel
  PROVE  StepInv'
<1>0. InStep /\ UNCHANGED <<mode, eng, drv, adp, ether, late>> /\ drv.fault = "none" /\ up.flow # "none"
      /\ ~up.cancel /\ up' = [up EXCEPT !.cancel = TRUE] /\ Coupled(mode, up, eng, drv, adp, ether, late)
  BY StartsInStep DEF Cancel, Running, InStep
<1>1. /\ up' = [f \in ClientFields |-> up'[f]] /\ up'.flow = up.flow /\ up'.stage = up.stage
      /\ up'.issued = up.issued /\ up'.disarmed = up.disarmed /\ up'.cancel_sent = up.cancel_sent
  BY <1>0 DEF InStep, ClientFields
<1>2. Coupled(mode, up', eng, drv, adp, ether, late)
  <2>1. FlowStands(mode, up', eng, drv, adp)
    BY <1>0, <1>1 DEF Coupled, FlowStands
  <2>2. ArmStands(up', eng, drv, adp) /\ ClosureStands(mode, up', eng, drv, adp)
    BY <1>0, <1>1 DEF Coupled, ArmStands, ClosureStands
  <2> QED
    BY <1>0, <1>1, <2>1, <2>2 DEF Coupled
<1> QED
  BY <1>0, <1>1, <1>2, StepKept DEF InStep

LEMMA ReconfigureStep ==
  ASSUME AckInv, StepInv, Reconfigure
  PROVE  StepInv'
<1>0. InStep /\ UNCHANGED <<up, eng, adp, ether, late>> /\ drv.fault = "none" /\ up.flow = "none" /\ drv.action = "none"
      /\ drv.radio = "none" /\ drv' = [drv EXCEPT !.action = "CONFIG"] /\ mode' \in Modes
      /\ Coupled(mode, up, eng, drv, adp, ether, late)
  BY StartsInStep DEF Reconfigure, LinkIdle, Running, InStep
<1>1. /\ drv'.action = "CONFIG" /\ drv'.radio = "none" /\ drv'.random = drv.random
      /\ drv'.fault = "none" /\ Commanded(drv') = "none" /\ Commanded(drv) = "none"
  BY <1>0 DEF InStep, DriverFields, Commanded, Commands
<1>2. Coupled(mode', up, eng, drv', adp, ether, late)
  <2>1. FlowStands(mode', up, eng, drv', adp) /\ ArmStands(up, eng, drv', adp)
    BY <1>0, <1>1 DEF Coupled, FlowStands, ArmStands, Arms
  <2>2. RandomStands(eng, drv', late) /\ ClosureStands(mode', up, eng, drv', adp)
    BY <1>0, <1>1 DEF Coupled, RandomStands, ClosureStands
  <2> QED
    BY <1>0, <1>1, <2>1, <2>2 DEF Coupled
<1> QED
  BY <1>0, <1>1, <1>2, StepKept DEF InStep

LEMMA HoldEndsStep ==
  ASSUME AckInv, StepInv, HoldEnds
  PROVE  StepInv'
<1>0. InStep /\ UNCHANGED <<mode, up, eng, adp, ether, late>> /\ drv.fault = "none"
      /\ drv' = [drv EXCEPT !.held = FALSE] /\ Coupled(mode, up, eng, drv, adp, ether, late)
  BY StartsInStep DEF HoldEnds, Running, InStep
<1>1. /\ drv'.action = drv.action /\ drv'.radio = drv.radio /\ drv'.random = drv.random
      /\ drv'.fault = "none" /\ Commanded(drv') = Commanded(drv)
  BY <1>0 DEF InStep, DriverFields, Commanded
<1>2. Coupled(mode, up, eng, drv', adp, ether, late)
  BY <1>0, <1>1 DEF Coupled, FlowStands, ArmStands, RandomStands, ClosureStands
<1> QED
  BY <1>0, <1>1, <1>2, StepKept DEF InStep

LEMMA TimePassesStep ==
  ASSUME AckInv, StepInv, AckWindowPasses \/ DeadlinePasses
  PROVE  StepInv'
<1>0. InStep /\ UNCHANGED <<mode, up, eng, drv, adp, ether>> /\ drv.fault = "none" /\ (late => late')
      /\ Coupled(mode, up, eng, drv, adp, ether, late)
  BY StartsInStep DEF AckWindowPasses, DeadlinePasses, Running, InStep
<1>1. Coupled(mode, up, eng, drv, adp, ether, late')
  BY <1>0 DEF Coupled, RandomStands
<1> QED
  BY <1>0, <1>1, StepKept DEF InStep

LEMMA FrameArrivesStep ==
  ASSUME AckInv, StepInv, FrameArrives
  PROVE  StepInv'
<1>0. InStep /\ UNCHANGED <<mode, up, eng, drv, adp, late>> /\ drv.fault = "none"
      /\ Coupled(mode, up, eng, drv, adp, ether, late)
  BY StartsInStep DEF FrameArrives, Running, InStep
<1>1. ether'.phase = ether.phase
  BY <1>0 DEF FrameArrives, InStep, EtherShape, EtherFields
<1>2. Coupled(mode, up, eng, drv, adp, ether', late)
  BY <1>0, <1>1 DEF Coupled, Carries
<1> QED
  BY <1>0, <1>2, StepKept DEF InStep

(* A poll: the radio is not wanted off, and the action is TX or none.          *)
Polling ==
  InStep /\ drv.radio = "none" /\ drv.random # "wait" /\ ~WantsRadioOff /\ drv.action \in {"none", "TX"}
OwnClosure(a) ==
  a.goal = "USER" => /\ eng.phase = "IDLE"
                     /\ (up.flow = "scan" /\ up.stage = "window") \/ (up.flow = "none" /\ mode = "sleepy")
\* The adapter that is polled: tended, before it steps, or stepped.
Tendable(a, r) ==
  /\ AdapterShape(a) /\ Stands(a, eng, "none") /\ Carries(a, r, eng, up.flow)
  /\ LeavesOpen(a, eng, "none", up.flow) /\ OwnClosure(a)
  /\ a.phase = "PREPARED" <=> adp.phase = "PREPARED"

\* Where a poll finds the link.
LEMMA PollStarts ==
  ASSUME Polling
  PROVE  /\ Commanded(drv) = "none" /\ Coupled(mode, up, eng, drv, adp, ether, late)
         /\ Tendable(adp, ether) /\ drv.fault = "none"
         /\ up.flow = "none" \/ Arms(up.flow) \/ up.flow \in {"scan", "poll"}
         /\ eng.phase = "DRAW" /\ drv.action = "TX" => adp.phase = "PREPARED"
         /\ drv.action = "TX" => up.flow \in {"scan", "poll"} /\ up.stage = "tx" /\ eng.phase \notin {"IDLE", "DONE"}
<1>1. Commanded(drv) = "none" /\ Coupled(mode, up, eng, drv, adp, ether, late)
  BY DEF Polling, Commanded, Commands, InStep
<1>2. up.flow = "none" \/ Arms(up.flow) \/ up.flow \in {"scan", "poll"}
  BY <1>1 DEF Coupled, FlowStands, Flows, Arms
<1>3. eng.phase = "DRAW" /\ drv.action = "TX" => adp.phase = "PREPARED"
  BY DEF Polling, WantsRadioOff
<1>4. adp.phase = "PREPARED" /\ eng.phase = "DRAW" => adp.goal = "NONE"
  BY <1>1 DEF Coupled, Stands, Calm, Armed
<1>5. OwnClosure(adp)
  BY <1>1, <1>3, <1>4 DEF Polling, OwnClosure, Coupled, ClosureStands, FlowStands
<1>6. drv.action = "TX" => up.flow \in {"scan", "poll"} /\ up.stage = "tx" /\ eng.phase \notin {"IDLE", "DONE"}
  BY <1>1, <1>2 DEF Coupled, FlowStands, Commands
<1> QED
  BY <1>1, <1>2, <1>3, <1>5, <1>6 DEF Tendable, Coupled, Polling, InStep, Running

(* What tending does, it may do: nothing is refused.                           *)
LEMMA TendedStep ==
  ASSUME Polling
  PROVE  LET t == Tended(adp, ether) IN
         t # Refused /\ Tendable(t, TendedRadio(t, ether)) /\ t.obs = NoObservation
                     /\ (t.phase = "SCHEDULED" => adp.phase = "SCHEDULED")
<1> DEFINE t == Tended(adp, ether)
<1>0. /\ Tendable(adp, ether) /\ Coupled(mode, up, eng, drv, adp, ether, late) /\ adp.obs = NoObservation
      /\ AdapterShape(adp) /\ EtherShape(ether) /\ ~Ready(adp)
      /\ up.flow = "none" \/ Arms(up.flow) \/ up.flow \in {"scan", "poll"}
  BY PollStarts DEF Polling, InStep, Ready
<1>1. ASSUME NEW wait, adp.phase = "RX", t = Close(adp, wait), eng.phase = "IDLE",
             (up.flow = "scan" /\ up.stage = "window") \/ (up.flow = "none" /\ mode = "sleepy")
      PROVE  t # Refused /\ Tendable(t, TendedRadio(t, ether)) /\ t.obs = NoObservation /\ t.phase = "CLOSING"
  <2>1. t = [adp EXCEPT !.wait = wait, !.stop = FALSE, !.goal = "USER", !.phase = "CLOSING"]
    BY <1>0, <1>1 DEF Close
  <2>2. AdapterShape(t) /\ t.phase = "CLOSING" /\ t.goal = "USER" /\ t.obs = adp.obs
    BY <1>0, <2>1 DEF AdapterShape, AdapterFields, Goals
  <2> HIDE DEF t
  <2>3. Stands(t, eng, "none") /\ LeavesOpen(t, eng, "none", up.flow) /\ OwnClosure(t)
    BY <1>1, <2>2 DEF Stands, Calm, LeavesOpen, OwnClosure
  <2>4. Carries(t, TendedRadio(t, ether), eng, up.flow)
    BY <2>2 DEF Carries, OnAir
  <2>5. t # Refused
    BY <2>2 DEF Refused
  <2> QED
    BY <1>0, <1>1, <2>2, <2>3, <2>4, <2>5 DEF Tendable
<1>2. ASSUME adp.phase = "OFF", t = Open(adp, ether), eng.phase = "IDLE", adp.goal = "NONE"
      PROVE  t # Refused /\ Tendable(t, TendedRadio(t, ether)) /\ t.obs = NoObservation /\ t.phase = "RX"
  <2>1. t = [adp EXCEPT !.phase = "RX", !.normal = TRUE, !.stop = FALSE, !.wait = FALSE, !.lossy = FALSE]
    BY <1>0, <1>2 DEF Open, IdleOff, Tendable, Carries
  <2>2. AdapterShape(t) /\ t.phase = "RX" /\ t.goal = "NONE" /\ t.obs = adp.obs
    BY <1>0, <1>2, <2>1 DEF AdapterShape, AdapterFields
  <2> HIDE DEF t
  <2>3. Stands(t, eng, "none") /\ LeavesOpen(t, eng, "none", up.flow) /\ OwnClosure(t)
    BY <1>2, <2>2 DEF Stands, Calm, LeavesOpen, OwnClosure
  <2>4. Carries(t, TendedRadio(t, ether), eng, up.flow)
    BY <2>2 DEF Carries, OnAir
  <2>5. t # Refused
    BY <2>2 DEF Refused
  <2> QED
    BY <1>0, <1>2, <2>2, <2>3, <2>4, <2>5 DEF Tendable
<1>3. CASE t = adp
  <2>1. TendedRadio(adp, ether) = ether
    BY DEF TendedRadio
  <2>2. adp # Refused
    BY <1>0 DEF Tendable, Stands, Calm, Armed, Scheduled, Collecting, Retiring, Winding, Refused
  <2> QED
    BY <1>0, <1>3, <2>1, <2>2
<1>4. \/ t = adp
      \/ /\ mode = "scan" /\ up.stage = "window" /\ adp.phase = "RX" /\ t = Close(adp, win # "past")
      \/ /\ mode = "runtime" /\ adp.phase = "OFF" /\ eng.phase = "IDLE" /\ t = Open(adp, ether)
      \/ /\ mode = "sleepy" /\ eng.phase = "IDLE" /\ adp.goal = "NONE" /\ adp.phase = "RX"
         /\ t = Close(adp, FALSE)
      \/ /\ mode = "sleepy" /\ eng.phase = "IDLE" /\ adp.goal = "NONE" /\ adp.phase = "OFF"
         /\ t = Open(adp, ether)
  BY DEF Tended
<1>5. mode = "scan" /\ up.stage = "window" => up.flow = "scan" /\ eng.phase = "IDLE"
  <2>1. IdleClient.stage # "window"
    BY DEF IdleClient
  <2> QED
    BY <1>0, <2>1 DEF Coupled, FlowStands
<1>6. mode = "runtime" /\ eng.phase = "IDLE" /\ adp.phase = "OFF" => adp.goal = "NONE"
  <2>1. mode = "runtime" => up.flow # "scan"
    BY <1>0 DEF Coupled, FlowStands, Flows
  <2> QED
    BY <1>0, <2>1 DEF Tendable, Stands, Calm, OwnClosure
<1>7. mode = "sleepy" /\ eng.phase = "IDLE" => up.flow = "none"
  BY <1>0 DEF Coupled, FlowStands, Flows, Arms
<1>8. CASE \E wait : /\ t = Close(adp, wait) /\ adp.phase = "RX" /\ eng.phase = "IDLE"
                     /\ (up.flow = "scan" /\ up.stage = "window") \/ (up.flow = "none" /\ mode = "sleepy")
  BY <1>1, <1>8
<1>9. CASE adp.phase = "OFF" /\ t = Open(adp, ether) /\ eng.phase = "IDLE" /\ adp.goal = "NONE"
  BY <1>2, <1>9
<1> QED
  BY <1>3, <1>4, <1>5, <1>6, <1>7, <1>8, <1>9

(* The adapter's step leaves it polled, and what it tells fits.                *)
LEMMA TendableSteps ==
  ASSUME Polling, NEW a, NEW r, NEW s, Tendable(a, r), EtherShape(r), a.obs = NoObservation,
         a.phase = "SCHEDULED" => adp.phase = "SCHEDULED", s \in AdapterStep(a, r, win, eng), AdapterShape(s.adp)
  PROVE  \/ s.adp.phase = "FAULT" /\ s.adp.obs = NoObservation
         \/ s.adp.phase # "FAULT" /\ Tendable(s.adp, s.ether) /\ Tells(s.adp, eng)
<1>1. Moves(a, r, eng, s.adp, s.ether)
  BY AdapterMoves DEF Tendable
<1>2. a.phase # "FAULT"
  BY DEF Tendable, Stands, Calm, Armed, Scheduled, Collecting, Retiring, Winding
<1>3. CASE s.adp.phase = "FAULT"
  BY <1>1, <1>2, <1>3, MovesFault
<1>4. CASE s.adp.phase # "FAULT"
  <2>1. Stands(s.adp, eng, "none") /\ Tells(s.adp, eng)
    BY <1>1, <1>4, MovesStand DEF Tendable
  <2>2. up.flow = "scan" /\ a.phase = "SCHEDULED" => ~eng.ack
    <3>1. a.phase = "SCHEDULED" => eng.phase # "IDLE"
      BY DEF Tendable, Stands, Calm
    <3> QED
      BY <3>1, PollStarts DEF Coupled, FlowStands
  <2>3. /\ Carries(s.adp, s.ether, eng, up.flow)
        /\ s.adp.phase = "PREPARED" <=> a.phase = "PREPARED"
        /\ s.adp.goal = "USER" => a.goal = "USER"
    BY <1>1, <1>4, <2>2, MovesCarry DEF Tendable
  <2>4. LeavesOpen(s.adp, eng, "none", up.flow)
    BY <1>1, <1>4, MovesLeaveOpen DEF Tendable
  <2> QED
    BY <1>4, <2>1, <2>3, <2>4 DEF Tendable, OwnClosure
<1> QED
  BY <1>3, <1>4

(* A frame nobody asked for is dropped, and nothing else changes.              *)
LEMMA FrameDropped ==
  ASSUME Polling, NEW a, NEW r, Tendable(a, r), Tells(a, eng), a.obs.kind = "FRAME"
  PROVE  Coupled(mode, up, eng, drv, Consume(a), r, late)
<1>0. /\ Coupled(mode, up, eng, drv, adp, ether, late) /\ Commanded(drv) = "none"
      /\ drv.action \in {"none", "TX"}
  BY PollStarts DEF Polling
<1>1. Ready(a)
  BY DEF Ready, NoObservation
<1>2. Taken(a) = Consume(a) /\ Consumed(a, Taken(a))
  BY <1>1, TakenConsumed DEF Tendable, Taken
<1> DEFINE b == Consume(a)
<1>3. /\ b.phase = a.phase /\ b.goal = a.goal /\ b.id = a.id /\ b.stop = a.stop /\ b.trans = a.trans
      /\ b.normal = a.normal /\ b.policy = a.policy /\ b.req = a.req
  BY <1>2 DEF Consumed
<1>4. Carries(b, r, eng, up.flow)
  BY <1>2, TakenCarries DEF Tendable
<1> HIDE DEF b
<1>5. Stands(b, eng, "none") /\ LeavesOpen(b, eng, "none", up.flow)
  <2>1. Stands(a, eng, "none") /\ LeavesOpen(a, eng, "none", up.flow)
    BY DEF Tendable
  <2>2. LeavesOpen(b, eng, "none", up.flow)
    BY <1>3, <2>1 DEF LeavesOpen
  <2>3. Stands(b, eng, "none")
    BY <1>3, <2>1 DEF Stands, Calm, Armed, Scheduled, Collecting, Retiring, Winding
  <2> QED
    BY <2>2, <2>3
<1>6. FlowStands(mode, up, eng, drv, b)
  BY <1>0 DEF Coupled, FlowStands
<1>7. ArmStands(up, eng, drv, b)
  BY <1>0, <1>3 DEF Coupled, ArmStands, Tendable
<1>8. ClosureStands(mode, up, eng, drv, b)
  BY <1>3 DEF ClosureStands, Tendable, OwnClosure
<1> QED
  BY <1>0, <1>4, <1>5, <1>6, <1>7, <1>8 DEF Coupled, b

(* The event that reaches the consumer of a poll.                              *)
Heeded(ev, a) ==
  IF drv.random = "no" THEN ev = a.obs
  ELSE /\ a.obs = NoObservation
       /\ IF drv.random = "late" THEN ev = NoObservation ELSE ev.kind = "RANDOM" /\ ev.id = LinkId(eng)
Ripe(ev, s) ==
  /\ Tendable(s.adp, s.ether) /\ Tells(s.adp, eng) /\ s.adp.obs.kind # "FRAME" /\ Heeded(ev, s.adp)
  /\ EtherShape(s.ether) /\ (s.adp.phase = "PREPARED" => s.ether.phase = "PREP")
CancelEvent(e) == [NoObservation EXCEPT !.kind = "CANCEL", !.id = LinkId(e)]

LEMMA CancelNamed ==
  ASSUME NEW e
  PROVE  CancelEvent(e).kind = "CANCEL" /\ CancelEvent(e).id = LinkId(e)
BY DEF CancelEvent, NoObservation

\* The event, a cancellation or the deadline reaches the engine in step.
LEMMA TellsEngine ==
  ASSUME Polling, NEW ev, NEW s, Ripe(ev, s), eng.phase \notin {"IDLE", "DONE"}, NEW told,
         told = ev \/ (told = CancelEvent(eng) /\ (eng.phase # "STOPPING" \/ ev = NoObservation)),
         eng.phase = "DRAW" /\ s.adp.phase # "PREPARED" => told = CancelEvent(eng)
  PROVE  LET o == ObservedStep(eng, told, late) IN
         o.eng.phase = "FAULT" \/ Ends(eng, o, told, late, Taken(s.adp), up.flow)
<1> DEFINE a == s.adp
<1>0. /\ AdapterShape(a) /\ Stands(a, eng, "none") /\ Tells(a, eng) /\ Carries(a, s.ether, eng, up.flow)
      /\ LeavesOpen(a, eng, "none", up.flow) /\ a.obs.kind # "FRAME" /\ a.goal # "USER"
  BY DEF Ripe, Tendable, OwnClosure
<1>1. /\ EngineShape(eng) /\ RandomStands(eng, drv, late) /\ Commanded(drv) = "none" /\ drv.random # "wait"
  BY PollStarts DEF Polling, InStep, Coupled
<1>2. Consumed(a, Taken(a))
  BY <1>0, TakenConsumed
<1>3. /\ drv.random # "no" <=> eng.phase = "DRAW_WAIT"
      /\ drv.random = "late" => late
      /\ eng.again => eng.phase = "STOPPING"
  BY <1>1 DEF RandomStands
<1>4. /\ drv.random = "no" => ev = a.obs
      /\ drv.random = "late" => a.obs = NoObservation /\ ev = NoObservation
      /\ drv.random \notin {"no", "late"} => a.obs = NoObservation /\ ev.kind = "RANDOM" /\ ev.id = LinkId(eng)
  BY DEF Ripe, Heeded
<1>5. Answers(a, eng, told, late)
  BY <1>3, <1>4, CancelNamed DEF Answers
<1>6. eng.phase = "DRAW" /\ a.phase # "PREPARED" => Gone(eng, told, late)
  BY CancelNamed DEF Gone
<1>7. eng.phase = "DRAW_WAIT" => Gone(eng, told, late) \/ told.kind = "RANDOM"
  BY <1>3, <1>4, CancelNamed DEF Gone
<1> QED
  BY <1>0, <1>1, <1>2, <1>3, <1>5, <1>6, <1>7, EngineEnds

\* How much of the adapter is left when its event is taken.
LEMMA RipeTaken ==
  ASSUME NEW ev, NEW s, Ripe(ev, s), NEW d
  PROVE  /\ Carries(Taken(s.adp), s.ether, d, up.flow) /\ s.adp # Refused
         /\ s.adp.phase = "OFF" => s.ether.phase = "OFF"
         /\ s.adp.phase = "PREPARED" => ~Ready(s.adp) /\ Taken(s.adp) = s.adp
<1>1. Consumed(s.adp, Taken(s.adp))
  BY TakenConsumed DEF Ripe, Tendable
<1>2. Carries(Taken(s.adp), s.ether, d, up.flow)
  BY <1>1, TakenCarries DEF Ripe, Tendable
<1>3. s.adp # Refused
  BY DEF Ripe, Tendable, Stands, Calm, Armed, Scheduled, Collecting, Retiring, Winding, Refused
<1>4. s.adp.phase = "PREPARED" => ~Ready(s.adp)
  BY DEF Ripe, Tells, Ready
<1> QED
  BY <1>2, <1>3, <1>4 DEF Ripe, Tendable, Carries, Taken

(* The driver's own transmission for a scan or a poll.                         *)
LEMMA PumpStep ==
  ASSUME AckInv, StepInv, Polling, drv.action = "TX", NEW ev, NEW s, Ripe(ev, s), Deliver(ev, s),
         mode' = mode, late' = late
  PROVE  StepInv'
<1> DEFINE told == IF up.cancel /\ eng.phase # "STOPPING" THEN CancelEvent(eng) ELSE ev
           o == ObservedStep(eng, told, late)
           done == o.eng.phase = "DONE"
           a == IF done /\ s.adp.phase = "PREPARED" THEN Unprepare(s.adp, o.eng) ELSE s.adp
           c == IF done THEN PumpEnds(o.eng) ELSE Client(up, o.eng, "TX")
           b == Taken(s.adp)
<1>0. /\ up.flow \in {"scan", "poll"} /\ up.stage = "tx" /\ eng.phase \notin {"IDLE", "DONE"}
      /\ eng.phase = "DRAW" => adp.phase = "PREPARED"
      /\ Coupled(mode, up, eng, drv, adp, ether, late) /\ drv = [f \in DriverFields |-> drv[f]]
      /\ up = [f \in ClientFields |-> up[f]] /\ mode \in Modes
  BY PollStarts DEF Polling, InStep
<1>1. /\ up' = c.up /\ eng' = c.eng
      /\ ether' = IF a # Refused /\ a.phase = "OFF" /\ s.ether.phase = "PREP"
                  THEN RadioUnprepared(s.ether) ELSE s.ether
      /\ adp' = IF a = Refused THEN s.adp ELSE Taken(a)
      /\ drv' = [drv EXCEPT !.action = c.action, !.random = "no", !.radio = o.emit,
                           !.fault = IF a = Refused THEN "refused"
                                     ELSE IF c.eng.phase = "FAULT" THEN "consumer" ELSE "none"]
  BY DEF Deliver, CancelEvent, Taken
<1>2. o.eng.phase = "FAULT" \/ Ends(eng, o, told, late, b, up.flow)
  <2>1. told = ev \/ (told = CancelEvent(eng) /\ eng.phase # "STOPPING")
    OBVIOUS
  <2>2. eng.phase = "DRAW" /\ s.adp.phase # "PREPARED" => told = CancelEvent(eng)
    BY <1>0 DEF Ripe, Tendable
  <2> HIDE DEF told
  <2> QED
    BY <1>0, <2>1, <2>2, TellsEngine
<1> HIDE DEF told, o
<1>3. drv'.action = c.action /\ drv'.random = "no" /\ drv'.radio = o.emit
      /\ drv'.fault = IF a = Refused THEN "refused" ELSE IF c.eng.phase = "FAULT" THEN "consumer" ELSE "none"
  <2> HIDE DEF a, c
  <2> QED
    BY <1>0, <1>1 DEF DriverFields
<1>4. CASE ~done
  <2>1. a = s.adp /\ a # Refused /\ c = Client(up, o.eng, "TX")
    BY <1>4, RipeTaken
  <2>2. c.up = up /\ c.eng = o.eng /\ c.action = "TX"
    BY <2>1 DEF Client
  <2>3. adp' = b /\ ether' = s.ether
    BY <1>1, <2>1, RipeTaken
  <2> HIDE DEF a, c
  <2>4. up' = up /\ eng' = o.eng /\ drv'.action = "TX"
        /\ drv'.fault = IF o.eng.phase = "FAULT" THEN "consumer" ELSE "none"
    BY <1>1, <1>3, <2>1, <2>2
  <2>5. CASE o.eng.phase = "FAULT"
    BY <1>0, <2>4, <2>5, StepKept
  <2>6. CASE o.eng.phase # "FAULT"
    <3>0. Ends(eng, o, told, late, b, up.flow)
      BY <1>2, <2>6
    <3>1. Commanded(drv') = o.emit
      BY <1>3, <2>4, <3>0 DEF Commanded, Commands, Ends
    <3> HIDE DEF b
    <3>2. Carries(b, s.ether, o.eng, up.flow)
      BY RipeTaken DEF b
    <3>3. Coupled(mode, up, o.eng, drv', b, s.ether, late)
      <4>1. Stands(b, o.eng, o.emit) /\ LeavesOpen(b, o.eng, o.emit, up.flow)
        BY <3>0 DEF Ends
      <4>2. FlowStands(mode, up, o.eng, drv', b)
        BY <1>0, <1>3, <1>4, <2>4, <3>0 DEF Coupled, FlowStands, Ends, Arms
      <4>3. ArmStands(up, o.eng, drv', b)
        BY <1>0 DEF ArmStands, Arms
      <4>4. RandomStands(o.eng, drv', late)
        BY <1>3, <3>0, <3>1 DEF RandomStands, Ends
      <4>5. ClosureStands(mode, up, o.eng, drv', b)
        BY <3>0 DEF ClosureStands, Ends
      <4> QED
        BY <3>1, <3>2, <4>1, <4>2, <4>3, <4>4, <4>5 DEF Coupled
    <3> QED
      BY <1>0, <2>3, <2>4, <2>6, <3>3, StepKept
  <2> QED
    BY <2>5, <2>6
<1>5. CASE done
  <2>0. Ends(eng, o, told, late, b, up.flow) /\ o.eng.phase = "DONE"
    BY <1>2, <1>5
  <2>1. /\ Stands(b, o.eng, "none") /\ o.emit = "none" /\ o.eng.gen = eng.gen /\ o.eng.ack = eng.ack
        /\ ~o.eng.again /\ b.goal # "USER"
        /\ up.flow = "scan" /\ o.eng.outcome = "UNACKNOWLEDGED" => b.phase = "RX" /\ b.goal = "NONE" /\ ~b.normal
    BY <2>0 DEF Ends
  <2>2. /\ a # Refused /\ adp'.phase \in {"OFF", "RX"} /\ adp'.goal = "NONE"
        /\ adp'.phase = "OFF" => adp'.held = Nothing /\ ether'.phase = "OFF"
        /\ b.phase = "RX" => adp' = b
    <3> HIDE DEF b, c
    <3>1. CASE s.adp.phase = "PREPARED"
      <4>1. b = s.adp /\ ~Ready(s.adp) /\ s.ether.phase = "PREP"
        BY <3>1, RipeTaken DEF b, Ripe
      <4>2. b.goal = "NONE" /\ b.id[1] = o.eng.gen
        BY <2>0, <2>1, <3>1, <4>1 DEF Stands, Calm
      <4>3. a = [s.adp EXCEPT !.phase = "OFF"]
        BY <1>5, <2>0, <3>1, <4>1, <4>2 DEF Unprepare
      <4>4. a.phase = "OFF" /\ a.goal = "NONE" /\ a.held = Nothing /\ ~Ready(a)
        BY <3>1, <4>1, <4>2, <4>3 DEF Ripe, Tendable, Carries, Ready, AdapterShape, AdapterFields
      <4> HIDE DEF a
      <4>5. a # Refused
        BY <4>4 DEF Refused
      <4>6. adp' = a /\ ether' = RadioUnprepared(s.ether)
        BY <1>1, <4>1, <4>4, <4>5 DEF Taken
      <4>7. ether'.phase = "OFF"
        BY <4>6 DEF RadioUnprepared, Ripe, EtherShape, EtherFields
      <4> QED
        BY <3>1, <4>1, <4>4, <4>5, <4>6, <4>7
    <3>2. CASE s.adp.phase # "PREPARED"
      <4>1. a = s.adp /\ a # Refused
        BY <3>2, RipeTaken
      <4> HIDE DEF a
      <4>2. adp' = b /\ ether' = s.ether
        BY <1>1, <4>1, RipeTaken DEF b
      <4>3. b.phase # "PREPARED" /\ Carries(b, s.ether, eng, up.flow)
        <5>1. Consumed(s.adp, b)
          BY TakenConsumed DEF Ripe, Tendable, b
        <5> QED
          BY <3>2, <5>1, RipeTaken DEF Consumed, b
      <4>4. b.phase \in {"OFF", "RX"} /\ b.goal = "NONE"
        BY <2>0, <2>1, <4>3 DEF Stands, Calm
      <4> QED
        BY <4>1, <4>2, <4>3, <4>4 DEF Carries
    <3> QED
      BY <3>1, <3>2
  <2> HIDE DEF a, b
  <2>3. c = PumpEnds(o.eng)
    BY <1>5
  <2>4. \/ /\ up.flow = "poll" /\ c.up = [up EXCEPT !.stage = "rx"] /\ c.eng = o.eng /\ c.action = "none"
        \/ /\ up.flow = "scan" /\ c.up = [up EXCEPT !.stage = "open"] /\ c.eng = IdleEngine(o.eng.gen)
           /\ c.action = "RECEIVE" /\ o.eng.outcome = "UNACKNOWLEDGED"
        \/ /\ c.up = IdleClient /\ c.eng = IdleEngine(o.eng.gen) /\ c.action = "none"
    BY <1>0, <2>3 DEF PumpEnds, Client
  <2> HIDE DEF c
  <2>5. /\ up' = [f \in ClientFields |-> up'[f]]
        /\ \/ /\ up.flow = "poll" /\ up'.flow = "poll" /\ up'.stage = "rx" /\ eng' = o.eng /\ drv'.action = "none"
           \/ /\ up.flow = "scan" /\ up'.flow = "scan" /\ up'.stage = "open" /\ eng'.phase = "IDLE"
              /\ drv'.action = "RECEIVE" /\ o.eng.outcome = "UNACKNOWLEDGED"
           \/ /\ up' = IdleClient /\ up'.flow = "none" /\ eng'.phase = "IDLE" /\ drv'.action = "none"
    BY <1>0, <1>1, <1>3, <2>4 DEF ClientFields, IdleClient, IdleEngine
  <2>6. eng'.phase \in {"IDLE", "DONE"} /\ ~eng'.again /\ (eng'.phase = "DONE" => eng' = o.eng)
    BY <1>1, <2>0, <2>1, <2>4 DEF IdleEngine
  <2>7. drv'.fault = "none" /\ drv'.radio = "none" /\ Commanded(drv') = "none"
    <3>1. c.eng.phase # "FAULT"
      BY <1>1, <2>6
    <3> QED
      BY <1>3, <2>1, <2>2, <2>5, <3>1 DEF Commanded, Commands
  <2>8. Coupled(mode, up', eng', drv', adp', ether', late)
    <3>1. Stands(adp', eng', "none") /\ LeavesOpen(adp', eng', "none", up'.flow)
      BY <2>2, <2>6 DEF Stands, Calm, LeavesOpen
    <3>2. Carries(adp', ether', eng', up'.flow)
      BY <2>2 DEF Carries, OnAir
    <3>3. FlowStands(mode, up', eng', drv', adp')
      <4>1. up.flow \in {"none"} \cup Flows(mode) /\ (eng.ack <=> up.flow \notin {"bcast", "scan"})
        BY <1>0 DEF Coupled, FlowStands
      <4>2. CASE up'.flow = "poll"
        BY <2>0, <2>1, <2>5, <2>6, <2>7, <4>1, <4>2 DEF FlowStands, Arms, IdleClient
      <4>3. CASE up'.flow = "scan"
        BY <2>1, <2>2, <2>5, <2>7, <4>1, <4>3 DEF FlowStands, Arms, IdleClient
      <4>4. CASE up'.flow = "none"
        BY <2>5, <2>7, <4>4 DEF FlowStands, Arms, IdleClient
      <4> QED
        BY <2>5, <4>2, <4>3, <4>4
    <3>4. ArmStands(up', eng', drv', adp')
      BY <2>5 DEF ArmStands, Arms
    <3>5. RandomStands(eng', drv', late) /\ ClosureStands(mode, up', eng', drv', adp')
      BY <1>3, <2>2, <2>6 DEF RandomStands, ClosureStands
    <3> QED
      BY <2>7, <3>1, <3>2, <3>3, <3>4, <3>5 DEF Coupled
  <2> QED
    BY <1>0, <2>5, <2>7, <2>8, StepKept
<1> QED
  BY <1>4, <1>5

\* A poll without a transmission of the driver's own: the client's step.
LEMMA DeliverClient ==
  ASSUME Polling, drv.action = "none", NEW ev, NEW s, Ripe(ev, s), Deliver(ev, s)
  PROVE  LET c == ClientStep(ev) IN
         /\ up' = c.up /\ eng' = c.eng /\ adp' = Taken(s.adp) /\ ether' = s.ether
         /\ drv'.action = c.action /\ drv'.random = "no" /\ drv'.radio = "none"
         /\ drv'.fault = IF c.eng.phase = "FAULT" THEN "consumer" ELSE "none"
<1> DEFINE c == ClientStep(ev)
<1>1. s.adp # Refused /\ (s.adp.phase = "OFF" => s.ether.phase = "OFF")
  BY RipeTaken
<1>2. /\ up' = c.up /\ eng' = c.eng /\ adp' = Taken(s.adp)
      /\ ether' = IF s.adp # Refused /\ s.adp.phase = "OFF" /\ s.ether.phase = "PREP"
                  THEN RadioUnprepared(s.ether) ELSE s.ether
      /\ drv' = [drv EXCEPT !.action = c.action, !.random = "no", !.radio = "none",
                           !.fault = IF s.adp = Refused THEN "refused"
                                     ELSE IF c.eng.phase = "FAULT" THEN "consumer" ELSE "none"]
  BY <1>1 DEF Deliver, Taken
<1> HIDE DEF c
<1>3. drv = [f \in DriverFields |-> drv[f]]
  BY DEF Polling, InStep
<1>4. /\ drv'.action = c.action /\ drv'.random = "no" /\ drv'.radio = "none"
      /\ drv'.fault = IF s.adp = Refused THEN "refused"
                      ELSE IF c.eng.phase = "FAULT" THEN "consumer" ELSE "none"
  BY <1>2, <1>3 DEF DriverFields
<1> QED
  BY <1>1, <1>2, <1>4 DEF c

(* Nothing to send, a scan's open window, or a poll that is over.              *)
LEMMA RestStep ==
  ASSUME AckInv, StepInv, Polling, drv.action = "none", ~Arms(up.flow), NEW ev, NEW s, Ripe(ev, s),
         Deliver(ev, s), mode' = mode, late' = late
  PROVE  StepInv'
<1> DEFINE c == ClientStep(ev)
           b == Taken(s.adp)
<1>0. /\ Coupled(mode, up, eng, drv, adp, ether, late) /\ mode \in Modes
      /\ up = [f \in ClientFields |-> up[f]] /\ Commanded(drv) = "none"
      /\ up.flow = "none" \/ Arms(up.flow) \/ up.flow \in {"scan", "poll"}
  BY PollStarts DEF Polling, InStep
<1>1. \/ up.flow = "none" /\ eng.phase = "IDLE" /\ up = IdleClient
      \/ up.flow = "scan" /\ up.stage = "window" /\ eng.phase = "IDLE"
      \/ up.flow = "poll" /\ up.stage = "rx" /\ eng.phase = "DONE"
  BY <1>0 DEF Coupled, FlowStands
<1>2. /\ up' = c.up /\ eng' = c.eng /\ adp' = b /\ ether' = s.ether
      /\ drv'.action = c.action /\ drv'.random = "no" /\ drv'.radio = "none"
      /\ drv'.fault = IF c.eng.phase = "FAULT" THEN "consumer" ELSE "none"
  BY DeliverClient
<1>3. \/ up.flow = "none" /\ c = Client(up, eng, "none")
      \/ up.flow = "scan" /\ c = Client(up, eng, "none") /\ ev.kind # "CLOSED"
      \/ up.flow = "scan" /\ c = Client(IdleClient, eng, "none") /\ ev.kind = "CLOSED"
      \/ up.flow = "poll" /\ c = Client([up EXCEPT !.stage = "close"], eng, "CLOSE")
  BY <1>1 DEF ClientStep
<1> HIDE DEF c
<1>4. /\ eng' = eng /\ drv'.fault = "none" /\ up' = [f \in ClientFields |-> up'[f]]
      /\ \/ up'.flow = "none" /\ up' = IdleClient /\ drv'.action = "none" /\ eng.phase = "IDLE" /\ up.flow = "none"
         \/ up'.flow = "none" /\ up' = IdleClient /\ drv'.action = "none" /\ eng.phase = "IDLE" /\ ev.kind = "CLOSED"
         \/ /\ up'.flow = "scan" /\ up'.stage = "window" /\ drv'.action = "none" /\ eng.phase = "IDLE"
            /\ up.flow = "scan"
         \/ /\ up'.flow = "poll" /\ up'.stage = "close" /\ drv'.action = "CLOSE" /\ eng.phase = "DONE"
            /\ up.flow = "poll"
  <2>1. c.eng = eng
    BY <1>3 DEF Client
  <2>2. eng' = eng /\ drv'.fault = "none"
    BY <1>1, <1>2, <2>1
  <2>3. /\ IdleClient.flow = "none" /\ IdleClient = [f \in ClientFields |-> IdleClient[f]]
    BY DEF IdleClient, ClientFields
  <2>4. CASE c = Client(up, eng, "none") /\ up.flow \in {"none", "scan"}
    BY <1>0, <1>1, <1>2, <2>2, <2>4 DEF Client
  <2>5. CASE up.flow = "scan" /\ c = Client(IdleClient, eng, "none") /\ ev.kind = "CLOSED"
    BY <1>1, <1>2, <2>2, <2>3, <2>5 DEF Client
  <2>6. CASE up.flow = "poll" /\ c = Client([up EXCEPT !.stage = "close"], eng, "CLOSE")
    <3>1. up' = [up EXCEPT !.stage = "close"] /\ drv'.action = "CLOSE"
      BY <1>2, <2>6 DEF Client
    <3>2. up' = [f \in ClientFields |-> up'[f]] /\ up'.flow = up.flow /\ up'.stage = "close"
      BY <1>0, <3>1 DEF ClientFields
    <3> QED
      BY <1>1, <2>2, <2>6, <3>1, <3>2
  <2> QED
    BY <1>3, <2>4, <2>5, <2>6
<1>5. /\ Stands(b, eng, "none") /\ (b.goal = "USER" => s.adp.goal = "USER")
      /\ Carries(b, s.ether, eng, up.flow) /\ OwnClosure(s.adp)
      /\ ev.kind = "CLOSED" => b.goal = "NONE"
  <2>1. Consumed(s.adp, b) /\ Stands(s.adp, eng, "none") /\ Tells(s.adp, eng) /\ OwnClosure(s.adp)
    BY TakenConsumed DEF Ripe, Tendable
  <2>2. Stands(b, eng, "none") /\ (b.goal = "USER" => s.adp.goal = "USER")
    BY <1>1, <2>1, CalmTaken
  <2>3. ev.kind = "CLOSED" => s.adp.obs.kind = "CLOSED"
    <3>1. NoObservation.kind # "CLOSED"
      BY DEF NoObservation
    <3> QED
      BY <3>1 DEF Ripe, Heeded
  <2> QED
    BY <2>1, <2>2, <2>3, RipeTaken DEF Consumed
<1> HIDE DEF b
<1>6. Commanded(drv') = "none"
  BY <1>2, <1>4 DEF Commanded, Commands
<1>7. Coupled(mode, up', eng, drv', b, s.ether, late)
  <2>1. LeavesOpen(b, eng, "none", up'.flow)
    BY <1>4 DEF LeavesOpen
  <2>2. Carries(b, s.ether, eng, up'.flow)
    <3>1. CASE eng.phase = "IDLE"
      BY <1>5, <3>1 DEF Carries, Stands, Calm, OnAir
    <3>2. CASE eng.phase = "DONE"
      BY <1>4, <1>5, <3>2
    <3> QED
      BY <1>1, <3>1, <3>2
  <2>3. FlowStands(mode, up', eng, drv', b)
    <3>1. up.flow \in {"none"} \cup Flows(mode) /\ (eng.phase # "IDLE" => (eng.ack <=> up.flow \notin {"bcast", "scan"}))
      BY <1>0 DEF Coupled, FlowStands
    <3> QED
      BY <1>2, <1>4, <3>1 DEF FlowStands, Arms
  <2>4. ArmStands(up', eng, drv', b)
    BY <1>4 DEF ArmStands, Arms
  <2>5. RandomStands(eng, drv', late)
    BY <1>0, <1>1, <1>2 DEF Coupled, RandomStands
  <2>6. ClosureStands(mode, up', eng, drv', b)
    BY <1>4, <1>5 DEF ClosureStands, OwnClosure
  <2> QED
    BY <1>5, <1>6, <2>1, <2>2, <2>3, <2>4, <2>5, <2>6 DEF Coupled
<1> QED
  BY <1>0, <1>2, <1>4, <1>7, StepKept

\* A finished engine does not draw again.
LEMMA DoneTurns ==
  ASSUME NEW e, EngineShape(e), e.phase = "DONE", NEW ev, NEW x
  PROVE  ObservedStep(e, ev, x).eng.phase # "DRAW"
<1> DEFINE p == Plain(e, ev)
<1>1. ObservedStep(e, ev, x) = IntervalStep(e, p, x)
  BY PlainObserved
<1>2. IntervalStep(e, p, x) = IntervalStop(e, Why(p.kind)) \/ IntervalStep(e, p, x) = Result(e, "none")
  BY DEF IntervalStep
<1>3. IntervalStop(e, Why(p.kind)).eng.phase = "STOPPING"
  BY StopTurns DEF Turns
<1>4. Result(e, "none").eng.phase = "DONE"
  BY DEF Result
<1> QED
  BY <1>1, <1>2, <1>3, <1>4

(* The step of a client that prepares before it draws.                         *)
Gives(ev) == up.cancel /\ ~up.cancel_sent /\ ev = NoObservation
Arming(ev) == ObservedStep(eng, IF Gives(ev) THEN CancelEvent(eng) ELSE ev, late)
CancelNoted(ev) == [up EXCEPT !.cancel_sent = @ \/ Gives(ev)]
\* The five ways nwk_aps_step goes.
LEMMA ArmingCases ==
  ASSUME NEW ev
  PROVE  LET o == Arming(ev)
             u == CancelNoted(ev)
             c == ArmingStep(ev)
         IN \/ /\ eng.phase = "DRAW" /\ ~up.armed /\ ~up.cancel /\ ~late
               /\ c = Client([up EXCEPT !.issued = 1], eng, IF up.issued = 0 THEN "ARM" ELSE "none")
            \/ /\ eng.phase = "DONE" /\ up.disarmed
               /\ c = Client(IdleClient, IdleEngine(eng.gen), "none")
            \/ /\ o.eng.phase = "DRAW" /\ ~up.cancel
               /\ c = Client([u EXCEPT !.armed = FALSE, !.disarmed = FALSE, !.issued = 1], o.eng, "ARM")
            \/ /\ o.eng.phase = "DONE" /\ ~up.disarmed
               /\ c = Client([u EXCEPT !.issued = 2], o.eng, IF up.issued = 2 THEN "none" ELSE "DISARM")
            \/ /\ ~(eng.phase = "DONE" /\ up.disarmed) /\ ~(o.eng.phase = "DRAW" /\ ~up.cancel)
               /\ ~(o.eng.phase = "DONE" /\ ~up.disarmed)
               /\ c = Client(u, o.eng, o.emit)
BY DEF ArmingStep, Arming, Gives, CancelNoted, CancelEvent

\* A client that prepares before it draws stays in step.
LEMMA ArmedStep ==
  ASSUME AckInv, StepInv, Polling, drv.action = "none", Arms(up.flow), NEW ev, NEW s, Ripe(ev, s),
         Deliver(ev, s), mode' = mode, late' = late
  PROVE  StepInv'
<1> DEFINE told == IF Gives(ev) THEN CancelEvent(eng) ELSE ev
           o == Arming(ev)
           u == CancelNoted(ev)
           c == ArmingStep(ev)
           b == Taken(s.adp)
<1>0. /\ Coupled(mode, up, eng, drv, adp, ether, late) /\ mode \in Modes /\ EngineShape(eng)
      /\ up = [f \in ClientFields |-> up[f]] /\ Commanded(drv) = "none"
  BY PollStarts DEF Polling, InStep
<1>1. /\ up' = c.up /\ eng' = c.eng /\ adp' = b /\ ether' = s.ether
      /\ drv'.action = c.action /\ drv'.random = "no" /\ drv'.radio = "none"
      /\ drv'.fault = IF c.eng.phase = "FAULT" THEN "consumer" ELSE "none"
  <2>1. ClientStep(ev) = c
    BY DEF ClientStep, Arms
  <2> QED
    BY <2>1, DeliverClient
<1>2. /\ up.flow \in Flows(mode) /\ up.stage = "tx" /\ eng.phase # "IDLE" /\ up.flow # "none"
      /\ eng.ack <=> up.flow \notin {"bcast", "scan"}
      /\ ArmStands(up, eng, drv, adp)
  BY <1>0 DEF Coupled, FlowStands, Arms
<1>3. /\ eng.phase = "DONE" => up.disarmed /\ adp.phase # "PREPARED"
      /\ up.disarmed \/ up.issued = 2 => eng.phase = "DONE"
      /\ eng.phase = "DRAW" /\ adp.phase # "PREPARED" => up.cancel /\ ~up.cancel_sent
      /\ up.cancel_sent => eng.phase = "DONE" \/ (eng.phase = "STOPPING" /\ ~eng.again)
  BY <1>2 DEF ArmStands
<1>4. /\ u = [f \in ClientFields |-> u[f]] /\ u.flow = up.flow /\ u.stage = up.stage /\ u.issued = up.issued
      /\ u.disarmed = up.disarmed /\ u.cancel = up.cancel /\ (u.cancel_sent => up.cancel_sent \/ Gives(ev))
  BY <1>0 DEF CancelNoted, ClientFields
<1>5. /\ s.adp.goal # "USER" /\ (s.adp.phase = "PREPARED" <=> adp.phase = "PREPARED")
      /\ Consumed(s.adp, b) /\ Stands(s.adp, eng, "none") /\ Tells(s.adp, eng)
      /\ Carries(b, s.ether, eng, up.flow)
  BY <1>2, TakenConsumed, RipeTaken DEF Ripe, Tendable, OwnClosure
<1> HIDE DEF c, u, b
<1>6. CASE eng.phase = "DONE"
  <2>1. o.eng.phase # "DRAW"
    BY <1>0, <1>6, DoneTurns DEF Arming
  <2>2. c = Client(IdleClient, IdleEngine(eng.gen), "none")
    BY <1>3, <1>6, <2>1, ArmingCases DEF c
  <2>3. up' = IdleClient /\ eng' = IdleEngine(eng.gen) /\ drv'.action = "none"
    BY <1>1, <2>2 DEF Client
  <2>4. /\ up'.flow = "none" /\ up' = [f \in ClientFields |-> up'[f]] /\ eng'.phase = "IDLE" /\ ~eng'.again
        /\ drv'.fault = "none" /\ Commanded(drv') = "none"
    BY <1>1, <2>3 DEF IdleClient, IdleEngine, ClientFields, Commanded, Commands
  <2>5. Calm(b) /\ b.goal # "USER" /\ b.phase \in {"OFF", "RX"}
    <3>1. Stands(b, eng, "none") /\ b.phase = s.adp.phase /\ b.goal # "USER"
      BY <1>5, <1>6, CalmTaken
    <3> QED
      BY <1>3, <1>5, <1>6, <3>1 DEF Stands, Calm
  <2>6. Coupled(mode, up', eng', drv', b, s.ether, late)
    <3>1. Stands(b, eng', "none") /\ LeavesOpen(b, eng', "none", up'.flow)
      BY <2>4, <2>5 DEF Stands, LeavesOpen
    <3>2. Carries(b, s.ether, eng', up'.flow)
      BY <1>5, <2>5 DEF Carries, OnAir
    <3>3. FlowStands(mode, up', eng', drv', b) /\ ArmStands(up', eng', drv', b)
      BY <1>1, <2>3, <2>4 DEF FlowStands, ArmStands, Arms
    <3>4. RandomStands(eng', drv', late) /\ ClosureStands(mode, up', eng', drv', b)
      BY <1>1, <2>4, <2>5 DEF RandomStands, ClosureStands
    <3> QED
      BY <2>4, <3>1, <3>2, <3>3, <3>4 DEF Coupled
  <2> QED
    BY <1>0, <1>1, <2>4, <2>6, StepKept
<1>7. CASE eng.phase # "DONE"
  <2>1. o.eng.phase = "FAULT" \/ Ends(eng, o, told, late, b, up.flow)
    <3>1. told = ev \/ (told = CancelEvent(eng) /\ ev = NoObservation)
      BY DEF Gives
    <3>2. eng.phase = "DRAW" /\ s.adp.phase # "PREPARED" => told = CancelEvent(eng)
      <4>1. SUFFICES ASSUME eng.phase = "DRAW", s.adp.phase # "PREPARED"
                     PROVE  Gives(ev)
        OBVIOUS
      <4>2. drv.random = "no"
        BY <1>0, <4>1 DEF Coupled, RandomStands
      <4>3. s.adp.obs = NoObservation
        BY <1>5, <4>1 DEF Tells, Ripe
      <4> QED
        BY <1>3, <1>5, <4>1, <4>2, <4>3 DEF Gives, Ripe, Heeded
    <3> HIDE DEF told
    <3>3. LET q == ObservedStep(eng, told, late) IN
          q.eng.phase = "FAULT" \/ Ends(eng, q, told, late, Taken(s.adp), up.flow)
      BY <1>2, <1>7, <3>1, <3>2, TellsEngine
    <3> QED
      BY <3>3 DEF Arming, told, b
  <2>2. ~up.disarmed /\ up.issued # 2
    BY <1>3, <1>7
  <2>3. /\ told.kind = "CANCEL" \/ ~Gives(ev)
    BY CancelNamed
  <2> HIDE DEF o, told
  <2>4. CASE /\ eng.phase = "DRAW" /\ ~up.armed /\ ~up.cancel /\ ~late
             /\ c = Client([up EXCEPT !.issued = 1], eng, IF up.issued = 0 THEN "ARM" ELSE "none")
    <3>1. up' = [up EXCEPT !.issued = 1] /\ eng' = eng /\ drv'.action \in {"ARM", "none"}
      BY <1>1, <2>4 DEF Client
    <3>2. /\ up' = [f \in ClientFields |-> up'[f]] /\ up'.flow = up.flow /\ up'.stage = up.stage /\ up'.issued = 1
          /\ up'.disarmed = up.disarmed /\ up'.cancel = up.cancel /\ up'.cancel_sent = up.cancel_sent
      BY <1>0, <3>1 DEF ClientFields
    <3>3. drv'.fault = "none" /\ Commanded(drv') = "none"
      BY <1>1, <2>4, <3>1 DEF Commanded, Commands
    <3>4. Stands(b, eng, "none") /\ b.phase = s.adp.phase /\ b.goal # "USER"
      BY <1>5, <2>4, CalmTaken
    <3>5. Coupled(mode, up', eng, drv', b, s.ether, late)
      <4>1. LeavesOpen(b, eng, "none", up'.flow)
        BY <2>4 DEF LeavesOpen
      <4>2. FlowStands(mode, up', eng, drv', b)
        BY <1>1, <1>2, <2>4, <3>1, <3>2 DEF FlowStands, Arms
      <4>3. ArmStands(up', eng, drv', b)
        BY <1>3, <1>5, <2>2, <2>4, <3>1, <3>2, <3>4 DEF ArmStands
      <4>4. RandomStands(eng, drv', late) /\ ClosureStands(mode, up', eng, drv', b)
        BY <1>0, <1>1, <2>4, <3>4 DEF Coupled, RandomStands, ClosureStands
      <4> QED
        BY <1>5, <3>2, <3>3, <3>4, <4>1, <4>2, <4>3, <4>4 DEF Coupled
    <3> QED
      BY <1>0, <1>1, <3>1, <3>2, <3>3, <3>5, StepKept
  <2>5. CASE o.eng.phase = "FAULT" /\ c = Client(u, o.eng, o.emit)
    <3>1. up' = u /\ drv'.fault = "consumer"
      BY <1>1, <2>5 DEF Client
    <3> QED
      BY <1>0, <1>4, <3>1, StepKept
  \* What is left: the engine has moved on, and the client with it.
  <2>6. ASSUME NEW n, n = [f \in ClientFields |-> n[f]], n.flow = up.flow, n.stage = up.stage,
               n.cancel_sent => up.cancel_sent \/ Gives(ev), NEW action, c = Client(n, o.eng, action),
               Ends(eng, o, told, late, b, up.flow),
               IF action \in {"ARM", "DISARM"} THEN o.emit = "none" ELSE action = o.emit,
               action = "ARM" => o.eng.phase = "DRAW",
               action = "DISARM" <=> o.eng.phase = "DONE",
               n.disarmed \/ n.issued = 2 => o.eng.phase = "DONE",
               o.eng.phase = "DRAW" /\ action # "ARM" => n.cancel
        PROVE  StepInv'
    <3>1. up' = n /\ eng' = o.eng /\ drv'.action = action
      BY <1>1, <2>6 DEF Client
    <3>2. o.emit \in Commands \cup {"none"} /\ o.eng.phase # "FAULT"
      BY <2>6 DEF Ends, Stands
    <3>3. drv'.fault = "none" /\ Commanded(drv') = o.emit
      BY <1>1, <2>6, <3>1, <3>2 DEF Commanded, Commands, Client
    <3>4. n.cancel_sent => o.eng.phase = "DONE" \/ (o.eng.phase = "STOPPING" /\ ~o.eng.again)
      BY <1>3, <1>7, <2>3, <2>6 DEF Ends
    <3>5. Coupled(mode, n, o.eng, drv', b, s.ether, late)
      <4>1. Stands(b, o.eng, o.emit) /\ LeavesOpen(b, o.eng, o.emit, up.flow)
        BY <2>6 DEF Ends
      <4>2. Carries(b, s.ether, o.eng, up.flow)
        BY <1>5 DEF Carries
      <4>3. FlowStands(mode, n, o.eng, drv', b)
        BY <1>1, <1>2, <2>6, <3>1, <3>2 DEF FlowStands, Arms, Ends
      <4>4. ArmStands(n, o.eng, drv', b)
        BY <2>6, <3>1, <3>4 DEF ArmStands
      <4>5. RandomStands(o.eng, drv', late) /\ ClosureStands(mode, n, o.eng, drv', b)
        BY <1>1, <2>6, <3>3 DEF RandomStands, ClosureStands, Ends
      <4> QED
        BY <2>6, <3>3, <4>1, <4>2, <4>3, <4>4, <4>5 DEF Coupled
    <3> QED
      BY <1>0, <1>1, <2>6, <3>1, <3>3, <3>5, StepKept
  <2>7. CASE /\ o.eng.phase = "DRAW" /\ ~up.cancel
             /\ c = Client([u EXCEPT !.armed = FALSE, !.disarmed = FALSE, !.issued = 1], o.eng, "ARM")
    <3> DEFINE n == [u EXCEPT !.armed = FALSE, !.disarmed = FALSE, !.issued = 1]
    <3>1. /\ n = [f \in ClientFields |-> n[f]] /\ n.flow = u.flow /\ n.stage = u.stage /\ n.issued = 1
          /\ n.disarmed = FALSE /\ n.cancel_sent = u.cancel_sent
      BY <1>4 DEF ClientFields
    <3> HIDE DEF n
    <3>2. c = Client(n, o.eng, "ARM")
      BY <2>7 DEF n
    <3>3. Ends(eng, o, told, late, b, up.flow) /\ o.emit = "none"
      BY <2>1, <2>7 DEF Ends
    <3>4. ~(n.disarmed \/ n.issued = 2) /\ o.eng.phase # "DONE"
      BY <2>7, <3>1
    <3>5. n.flow = up.flow /\ n.stage = up.stage /\ (n.cancel_sent => up.cancel_sent \/ Gives(ev))
      BY <1>4, <3>1
    <3> QED
      BY <2>6, <2>7, <3>1, <3>2, <3>3, <3>4, <3>5
  <2>8. CASE /\ o.eng.phase = "DONE" /\ ~up.disarmed
             /\ c = Client([u EXCEPT !.issued = 2], o.eng, IF up.issued = 2 THEN "none" ELSE "DISARM")
    <3> DEFINE n == [u EXCEPT !.issued = 2]
    <3>1. /\ n = [f \in ClientFields |-> n[f]] /\ n.flow = u.flow /\ n.stage = u.stage
          /\ n.cancel_sent = u.cancel_sent
      BY <1>4 DEF ClientFields
    <3> HIDE DEF n
    <3>2. c = Client(n, o.eng, "DISARM")
      BY <2>2, <2>8 DEF n
    <3>3. Ends(eng, o, told, late, b, up.flow) /\ o.emit = "none"
      BY <2>1, <2>8 DEF Ends
    <3> QED
      BY <1>4, <2>6, <2>8, <3>1, <3>2, <3>3
  <2>9. CASE /\ ~(o.eng.phase = "DRAW" /\ ~up.cancel) /\ ~(o.eng.phase = "DONE" /\ ~up.disarmed)
             /\ o.eng.phase # "FAULT" /\ c = Client(u, o.eng, o.emit)
    <3>1. Ends(eng, o, told, late, b, up.flow) /\ o.emit \notin {"ARM", "DISARM"}
      BY <2>1, <2>9 DEF Ends, Commands
    <3>2. o.eng.phase # "DONE"
      BY <2>2, <2>9
    <3> QED
      BY <1>4, <2>2, <2>6, <2>9, <3>1, <3>2
  <2> QED
    BY <1>7, <2>1, <2>4, <2>5, <2>7, <2>8, <2>9, ArmingCases DEF c, o, u
<1> QED
  BY <1>6, <1>7

LEMMA DeliverStep ==
  ASSUME AckInv, StepInv, Polling, NEW ev, NEW s, Ripe(ev, s), Deliver(ev, s), mode' = mode, late' = late
  PROVE  StepInv'
<1>1. drv.action \in {"none", "TX"}
  BY DEF Polling
<1> QED
  BY <1>1, PumpStep, ArmedStep, RestStep

\* A poll: tending, the adapter, the client, and the event taken.
LEMMA DriverPollStep ==
  ASSUME AckInv, StepInv, DriverPoll
  PROVE  StepInv'
<1> DEFINE t == Tended(adp, ether)
           q == TendedRadio(t, ether)
<1>0. /\ Polling /\ mode' = mode /\ late' = late /\ OwnAttempt(adp, ether, win, eng)
      /\ adp.obs = NoObservation /\ InStep /\ EngineShape(eng)
  BY StartsInStep DEF DriverPoll, Polling, Stepping, InStep, AckInv
<1>1. /\ t # Refused /\ Tendable(t, q) /\ t.obs = NoObservation
      /\ t.phase = "SCHEDULED" => adp.phase = "SCHEDULED"
  BY <1>0, TendedStep
<1>2. OwnAttempt(t, q, win, eng) /\ EtherShape(q)
  BY <1>0, <1>1, TendedOwn DEF OwnAttempt
<1>3. CASE drv.random # "no"
  <2>1. PICK sure \in BOOLEAN :
          Deliver(IF drv.random = "late" THEN NoObservation
                  ELSE [NoObservation EXCEPT !.kind = "RANDOM", !.id = LinkId(eng), !.sure = sure],
                  After(t, q, win))
    BY <1>1, <1>3 DEF DriverPoll
  <2> DEFINE ev == IF drv.random = "late" THEN NoObservation
                   ELSE [NoObservation EXCEPT !.kind = "RANDOM", !.id = LinkId(eng), !.sure = sure]
             s == After(t, q, win)
  <2>2. IF drv.random = "late" THEN ev = NoObservation ELSE ev.kind = "RANDOM" /\ ev.id = LinkId(eng)
    BY DEF NoObservation
  <2> HIDE DEF t, q
  <2>3. s.adp = t /\ s.ether = q
    BY DEF After
  <2> HIDE DEF ev, s
  <2>4. NoObservation.kind # "FRAME"
    BY DEF NoObservation
  <2>5. Ripe(ev, s)
    BY <1>1, <1>2, <1>3, <2>2, <2>3, <2>4 DEF Ripe, Tells, Heeded, OwnAttempt
  <2> QED
    BY <1>0, <2>1, <2>5, DeliverStep DEF ev, s
<1>4. CASE drv.random = "no"
  <2>1. PICK s \in AdapterStep(t, q, win, eng) :
            CASE s.adp.phase = "FAULT" ->
                   adp' = s.adp /\ ether' = s.ether /\ win' = s.win /\ Fail("radio") /\ UNCHANGED <<up, eng>>
              [] s.adp.obs.kind = "FRAME" ->
                   adp' = Consume(s.adp) /\ ether' = s.ether /\ win' = s.win /\ UNCHANGED <<up, eng, drv>>
              [] OTHER -> Deliver(IF s.adp.obs.kind = "CLOSED" /\ Arms(up.flow)
                                  THEN NoObservation ELSE s.adp.obs, s)
    BY <1>1, <1>4 DEF DriverPoll
  <2> HIDE DEF t, q
  <2>2. OwnAttempt(s.adp, s.ether, s.win, eng) /\ AdapterShape(s.adp)
    BY <1>0, <1>1, <1>2, AdapterStepOwn DEF OwnAttempt
  <2>3. \/ s.adp.phase = "FAULT" /\ s.adp.obs = NoObservation
        \/ s.adp.phase # "FAULT" /\ Tendable(s.adp, s.ether) /\ Tells(s.adp, eng)
    BY <1>0, <1>1, <1>2, <2>2, TendableSteps
  <2>4. CASE s.adp.phase = "FAULT"
    <3>1. s.adp.obs.kind # "FRAME"
      BY <2>3, <2>4 DEF NoObservation
    <3>2. Fail("radio") /\ up' = up
      BY <2>1, <2>4, <3>1
    <3> QED
      BY <1>0, <3>2, FailsInStep
  <2>5. CASE s.adp.phase # "FAULT" /\ s.adp.obs.kind = "FRAME"
    <3>1. adp' = Consume(s.adp) /\ ether' = s.ether /\ UNCHANGED <<up, eng, drv>>
      BY <2>1, <2>5
    <3>2. Coupled(mode, up, eng, drv, Consume(s.adp), s.ether, late)
      BY <1>0, <2>3, <2>5, FrameDropped
    <3>3. drv.fault = "none"
      BY <1>0, PollStarts
    <3> QED
      BY <1>0, <3>1, <3>2, <3>3, StepKept DEF InStep
  <2>6. CASE s.adp.phase # "FAULT" /\ s.adp.obs.kind # "FRAME"
    <3>1. ~(s.adp.obs.kind = "CLOSED" /\ Arms(up.flow))
      <4>1. s.adp.obs.kind = "CLOSED" => s.adp.goal = "USER"
        BY <2>3, <2>6 DEF Tells, NoObservation
      <4> QED
        BY <2>3, <2>6, <4>1 DEF Tendable, OwnClosure, Arms
    <3>2. Deliver(s.adp.obs, s)
      BY <2>1, <2>6, <3>1
    <3>3. Ripe(s.adp.obs, s)
      BY <1>4, <2>2, <2>3, <2>6 DEF Ripe, Heeded, OwnAttempt
    <3> QED
      BY <1>0, <3>2, <3>3, DeliverStep
  <2> QED
    BY <2>4, <2>5, <2>6
<1> QED
  BY <1>3, <1>4

LEMMA RadioFailsStep ==
  ASSUME AckInv, StepInv, RadioFails
  PROVE  StepInv'
BY StartsInStep, FailsInStep DEF RadioFails

\* Every step keeps the link in step.
LEMMA LinkKeepsStep ==
  ASSUME AckInv, StepInv, [LinkNext]_linkVars
  PROVE  StepInv'
<1>1. CASE LinkNext
  BY <1>1, AcceptRadioStep, GrantClosesRadioStep, GrantDrainsStep, GrantConfigStep, GrantPreparesStep,
     GrantClosesStep, GrantDisarmsStep, GrantRadioStep, GrantReceiveStep, DriverPollStep, RadioFailsStep,
     RandomStep, ClientSubmitStep, CancelStep, ReconfigureStep, HoldEndsStep, TimePassesStep, FrameArrivesStep
     DEF LinkNext, DriverStep
<1>2. CASE UNCHANGED linkVars
  BY <1>2 DEF linkVars, StepInv, DriverInStep, Running
<1> QED
  BY <1>1, <1>2

(* mac_link_driver.c:295, :395-405, :583 with mac_adapter_accept, prepare,     *)
(* unprepare, close and open: the driver never asks the adapter for what it    *)
(* refuses and never finds it where it does not expect it, for any number of   *)
(* frames sent and received, retries, backoffs and stop budget.                *)
THEOREM DriverStaysInStep == LinkSpec => []DriverInStep
<1>1. LinkInit => StepInv
  <2> SUFFICES ASSUME LinkInit PROVE StepInv
    OBVIOUS
  <2>1. up = [f \in ClientFields |-> up[f]] /\ up = IdleClient /\ up.flow = "none"
    BY DEF LinkInit, IdleClient, ClientFields
  <2>2. eng.phase = "IDLE" /\ ~eng.again
    BY DEF LinkInit, IdleEngine
  <2>3. /\ drv.action = "none" /\ drv.radio = "none" /\ drv.random = "no" /\ drv.fault = "none"
        /\ Commanded(drv) = "none"
    BY DEF LinkInit, Commanded, Commands
  <2>4. adp.phase = "OFF" /\ adp.goal = "NONE" /\ adp.held = Nothing /\ ether.phase = "OFF"
    BY DEF LinkInit
  <2>5. Stands(adp, eng, "none") /\ LeavesOpen(adp, eng, "none", up.flow) /\ Carries(adp, ether, eng, up.flow)
    BY <2>2, <2>4 DEF Stands, Calm, LeavesOpen, Carries, OnAir
  <2>6. FlowStands(mode, up, eng, drv, adp) /\ ArmStands(up, eng, drv, adp)
    BY <2>1, <2>2, <2>3 DEF FlowStands, ArmStands, Arms
  <2>7. RandomStands(eng, drv, late) /\ ClosureStands(mode, up, eng, drv, adp)
    BY <2>2, <2>3, <2>4 DEF RandomStands, ClosureStands
  <2> QED
    BY <2>1, <2>3, <2>5, <2>6, <2>7 DEF StepInv, DriverInStep, Running, Coupled, LinkInit
<1>2. StepInv => DriverInStep
  BY DEF StepInv
<1>3. AckInv /\ StepInv /\ [LinkNext]_linkVars => StepInv'
  BY LinkKeepsStep
<1> QED
  BY <1>1, <1>2, <1>3, LinkKeepsOwn, PTL DEF LinkSpec
=============================================================================
