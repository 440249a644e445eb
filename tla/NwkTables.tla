------------------------------ MODULE NwkTables ------------------------------
(***************************************************************************)
(* What the transport of src/src/nwk_aps.c remembers about frames: the     *)
(* table of APS duplicates, the table of broadcasts (received and our own) *)
(* and the quarantine of the APS counter when it wraps.                    *)
(*                                                                         *)
(* All expiry times are wrapping symbol counts compared by half range.     *)
(* Frames are abstract identities.  The receive record and the pending     *)
(* acknowledgement are taken as drained between frames (NwkAps has them).  *)
(***************************************************************************)
EXTENDS Integers, FiniteSets

CONSTANTS MOD,                   \* 2^32
          ENTRIES,               \* NWK_APS_DUPLICATES
          DUPLICATE_TIME,        \* ctx->duplicate_time
          BROADCAST_TIME,        \* ctx->broadcast_time
          COUNTERS,              \* 256: values of the APS counter
          Unicasts, Broadcasts,  \* frame identities
          Own,                   \* the broadcasts that this device sends
          Start,                 \* symbol count at nwk_aps_init
          MaxTime,               \* bound on the symbols of a behaviour
          MaxRequests            \* bound on the APS requests of a behaviour

HALF == MOD \div 2               \* MAC_TX_HALF

TableConstants ==
  /\ MOD \in Nat /\ MOD >= 2 /\ Start \in 0..(MOD - 1)
  /\ ENTRIES \in Nat \ {0} /\ COUNTERS \in Nat \ {0}
  /\ DUPLICATE_TIME \in 1..(HALF - 1) /\ BROADCAST_TIME \in 1..(HALF - 1)
  /\ Own \subseteq Broadcasts /\ Unicasts \cap Broadcasts = {}
  /\ MaxTime \in Nat /\ MaxRequests \in Nat

Frames == Unicasts \cup Broadcasts

VARIABLES t,                     \* true time, in symbols since nwk_aps_init
          last,                  \* ctx->last
          duplicate, broadcast,  \* the two tables
          counter,               \* next_aps, wrap_wait, counter_until
          result,                \* what the last call returned, if now
          h                      \* history: true times and counts

tableVars == <<t, last, duplicate, broadcast, counter, result, h>>

-----------------------------------------------------------------------------
now           == (Start + t) % MOD
Sub(a, b)     == (a - b) % MOD
Add(a, d)     == (a + d) % MOD
reached(a, b) == Sub(a, b) < HALF

\* advance(): a call after half the range or more is refused.
InTime  == Sub(now, last) < HALF
Advance == InTime /\ last' = now

Slots == 1..ENTRIES
Unused == [used |-> FALSE, frame |-> "none", until |-> 0]
Entry(f, lifetime) == [used |-> TRUE, frame |-> f, until |-> Add(now, lifetime)]

Highest(S) == CHOOSE i \in S : \A j \in S : j <= i
Lowest(S)  == CHOOSE i \in S : \A j \in S : i <= j

-----------------------------------------------------------------------------
(* nwk_aps_broadcast_slot and nwk_aps_broadcast_put                        *)

\* Records that are not in use any more, by the half-range comparison.
BroadcastFree ==
  {i \in Slots : ~broadcast[i].used \/ reached(now, broadcast[i].until)}

\* Fault: a full table gives up a record.
BroadcastVerdict_Evicts(f) ==
  IF \E i \in Slots \ BroadcastFree : broadcast[i].frame = f THEN "DUPLICATE" ELSE "OK"

BroadcastVerdict(f) ==
  IF \E i \in Slots \ BroadcastFree : broadcast[i].frame = f THEN "DUPLICATE"
  ELSE IF BroadcastFree = {} THEN "FULL" ELSE "OK"

BroadcastSlot == IF BroadcastFree = {} THEN 1 ELSE Highest(BroadcastFree)

BroadcastPut(f) == [broadcast EXCEPT ![BroadcastSlot] = Entry(f, BROADCAST_TIME)]

-----------------------------------------------------------------------------
(* The duplicate filter of nwk_aps_receive.                                *)

\* The scan drops what has expired.
Scanned == [i \in Slots |-> IF duplicate[i].used /\ reached(now, duplicate[i].until)
                            THEN [duplicate[i] EXCEPT !.used = FALSE] ELSE duplicate[i]]

IsDuplicate(f) == \E i \in Slots : Scanned[i].used /\ Scanned[i].frame = f

\* The entry that expires soonest.
Oldest ==
  Lowest({i \in Slots : \A j \in Slots :
            Sub(Scanned[i].until, now) <= Sub(Scanned[j].until, now)})

DuplicateSlot ==
  LET free == {i \in Slots : ~Scanned[i].used}
  IN IF free = {} THEN Oldest ELSE Highest(free)

DuplicatePut(f) == [Scanned EXCEPT ![DuplicateSlot] = Entry(f, DUPLICATE_TIME)]

-----------------------------------------------------------------------------
(* Calls                                                                   *)

\* Another delivery has entered the duplicate table (counted up to its size).
Older(since) == [f \in Unicasts |-> IF since[f] < ENTRIES THEN since[f] + 1 ELSE since[f]]

\* The history after frame f was taken up, and after it was delivered.
Accepted(f) == IF f \in Broadcasts THEN [h EXCEPT !.accepted[f] = t] ELSE h
Delivered(f) ==
  [Accepted(f) EXCEPT !.heard = t,
     !.delivered = [g \in Unicasts |-> IF g = f THEN t ELSE @[g]],
     !.since = [g \in Unicasts |-> IF g = f THEN 0 ELSE Older(@)[g]]]

\* nwk_aps_receive of an ordinary data frame: the broadcast table first,
\* before any cryptography, then the key owner, then the duplicate filter.
\* No two frames are received in one symbol: a frame is many symbols long.
Receive(f, authentic) ==
  /\ Advance
  /\ t # h.heard
  /\ LET verdict == IF f \in Broadcasts THEN BroadcastVerdict(f) ELSE "OK"
     IN \/ /\ verdict # "OK"
           /\ result' = verdict
           /\ UNCHANGED <<duplicate, broadcast, h>>
        \/ /\ verdict = "OK" /\ ~authentic
           /\ result' = "SECURITY"
           /\ UNCHANGED <<duplicate, broadcast, h>>
        \/ /\ verdict = "OK" /\ authentic
           /\ broadcast' = IF f \in Broadcasts THEN BroadcastPut(f) ELSE broadcast
           /\ IF IsDuplicate(f)
              THEN /\ result' = "DUPLICATE"
                   /\ duplicate' = Scanned
                   /\ h' = Accepted(f)
              ELSE /\ result' = "OK"
                   /\ duplicate' = DuplicatePut(f)
                   /\ h' = Delivered(f)
  /\ UNCHANGED <<t, counter>>

\* The broadcast part of nwk_aps_transmit: our own sequence number must be
\* free, too.
Transmit(f) ==
  /\ Advance
  /\ LET verdict == BroadcastVerdict(f)
     IN \/ /\ verdict # "OK"
           /\ result' = IF verdict = "DUPLICATE" THEN "EXHAUSTED" ELSE verdict
           /\ UNCHANGED <<broadcast, h>>
        \/ /\ verdict = "OK"
           /\ result' = "OK"
           /\ broadcast' = BroadcastPut(f)
           /\ h' = Accepted(f)
  /\ UNCHANGED <<t, duplicate, counter>>

\* Fault: the counter wraps without a quarantine.
Allocated_NoQuarantine(c) == [c EXCEPT !.next = (@ + 1) % COUNTERS, !.wait = FALSE]

\* allocated(): the next APS counter; past the last one a quarantine begins.
Allocated(c) ==
  LET next == (c.next + 1) % COUNTERS
  IN [next  |-> next,
      wait  |-> next = 0,
      until |-> IF next = 0 THEN Add(now, DUPLICATE_TIME) ELSE c.until]

\* reserve() and allocated() for a request that takes an APS counter.
Request ==
  /\ Advance
  /\ h.requests < MaxRequests
  /\ IF counter.wait /\ ~reached(now, counter.until)
     THEN /\ result' = "EXHAUSTED"
          /\ UNCHANGED <<counter, h>>
     ELSE /\ result' = "OK"
          /\ counter' = Allocated(counter)
          /\ h' = [h EXCEPT !.requests = @ + 1, !.used[counter.next] = t]
  /\ UNCHANGED <<t, duplicate, broadcast>>

\* Any other call, nwk_aps_step above all, only advances.
Step ==
  /\ Advance
  /\ result' = "OK"
  /\ UNCHANGED <<t, duplicate, broadcast, counter, h>>

\* NWK_APS_CLOCK: the call comes too late to tell the time.
ClockError ==
  /\ ~InTime
  /\ result' = "CLOCK"
  /\ UNCHANGED <<t, last, duplicate, broadcast, counter, h>>

Tick ==
  /\ t < MaxTime
  /\ t' = t + 1
  /\ result' = "none"
  /\ UNCHANGED <<last, duplicate, broadcast, counter, h>>

-----------------------------------------------------------------------------
Never == -1

Init ==
  /\ t = 0 /\ last = Start
  /\ duplicate = [i \in Slots |-> Unused]
  /\ broadcast = [i \in Slots |-> Unused]
  /\ counter = [next |-> 0, wait |-> FALSE, until |-> 0]
  /\ result = "none"
  /\ h = [accepted |-> [f \in Broadcasts |-> Never], heard |-> Never,
          delivered |-> [f \in Unicasts |-> Never], since |-> [f \in Unicasts |-> 0],
          used |-> [c \in 0..(COUNTERS - 1) |-> Never], requests |-> 0]

\* The tables and the counter have only the clock in common.
FrameNext == \/ \E f \in Frames, authentic \in BOOLEAN : Receive(f, authentic)
             \/ \E f \in Own : Transmit(f)
             \/ Step \/ ClockError \/ Tick

CounterNext == Request \/ Step \/ ClockError \/ Tick

Next == FrameNext \/ CounterNext

Spec == Init /\ [][Next]_tableVars

-----------------------------------------------------------------------------
(* Properties                                                              *)

\* When x happens again at t, the last time was at least gap symbols ago.
Apart(before, gap) == before = Never \/ t - before >= gap

\* A frame is taken up once. A broadcast that was received or sent is not taken
\* up again within the network's broadcast-delivery time: its own echo and every
\* relayed copy are dropped, and no pressure on the table makes it forget ("Eight
\* separate source/NWK-sequence BTRs are never silently evicted", nwk_aps.h:86).
\* A retried unicast is delivered twice within the duplicate window only if as
\* many others were delivered in between as the table has entries, for a full
\* table gives up its oldest entry (nwk_aps_receive).
TakenUpOnce ==
  [][ /\ \A f \in Broadcasts :
           h'.accepted[f] # h.accepted[f] => Apart(h.accepted[f], BROADCAST_TIME)
      /\ \A f \in Unicasts :
           h'.delivered[f] # h.delivered[f] =>
             Apart(h.delivered[f], DUPLICATE_TIME) \/ h.since[f] >= ENTRIES ]_tableVars

\* An APS counter is used again only after the duplicate window, so that no
\* late acknowledgement or duplicate filter can take one transaction for
\* another across a wrap of the counter.
CountersApart ==
  [][\A c \in 0..(COUNTERS - 1) :
       h'.used[c] # h.used[c] => Apart(h.used[c], DUPLICATE_TIME)]_tableVars

\* Broadcast records expire: FULL is returned only when as many broadcasts as
\* the table has records were really taken up within the delivery time.
BroadcastsExpire ==
  result = "FULL" =>
    Cardinality({f \in Broadcasts :
                   h.accepted[f] # Never /\ t - h.accepted[f] <= BROADCAST_TIME}) >= ENTRIES
=============================================================================
