----------------------------- MODULE RadioOwner -----------------------------
(* radio_autoack.c: the owner of the radio, in the profile of the joining       *)
(* device (MAC_LINK, MAC_ADAPTER, MAC_HANDOFF, MAC_RECONFIG, RADIO_RX_ISR).    *)
(*                                                                             *)
(* Received frames reach the foreground on two ways: an interrupt moves        *)
(* finished frames from the hardware FIFO to a small ring while the foreground *)
(* is busy elsewhere, and a receive operation reads the ring first and the     *)
(* FIFO after it.  Every operation switches the interrupt off at its beginning *)
(* and on again at its end, so the interrupt never runs inside an operation;   *)
(* the radio itself goes on receiving at all times.                            *)
EXTENDS Integers, Sequences

CONSTANTS
  SLOTS,      \* slots of the ring, RX_SLOTS
  WRAP,       \* the ring's counters count modulo this, 256 in the code
  FIFO,       \* frames the hardware FIFO holds before it overflows
  Configs,    \* configurations (PAN, short address, channel)
  MaxFrames   \* bound: frames that arrive in a behaviour

RadioConstants ==
  /\ SLOTS \in Nat \ {0} /\ WRAP \in Nat \ {0}
  /\ WRAP % SLOTS = 0 /\ WRAP > SLOTS
  /\ FIFO \in Nat /\ FIFO >= 2
  /\ Configs # {} /\ MaxFrames \in Nat

VARIABLES
  radio_autoack_state,
  profile,     \* work.profile: 0 "normal", 3 "raw", 15 "listen"
  owned,       \* configuration in the registers
  overflow,    \* work.overflow: the loss is known to the foreground
  rx_put, rx_get, rx_slot,   \* the ring
  rx_halt, rx_armed,         \* why the interrupt stopped; EA is set
  head_retry,  \* the last receive ended EMPTY on a complete head
  eligible,    \* radio_autoack_handoff_eligible
  fifo,        \* hardware: frames in the FIFO, only the last may be unfinished
  rferr,       \* hardware: RXOVERF, reception halted
  arrived,     \* frames begun so far
  pending      \* history: finished frames nobody was given yet, in order

ring == <<rx_put, rx_get, rx_slot>>
mode == <<radio_autoack_state, profile, owned>>
hardware == <<fifo, rferr, arrived>>
history == <<pending>>
vars == <<mode, overflow, ring, rx_halt, rx_armed, head_retry, eligible, hardware, history>>

States == {"COLD", "RX", "DRAINING", "OFF", "RX_NOACK", "DRAIN_NOACK", "OFF_NOACK",
           "ATTEMPT_PREPARED", "FAULT"}
Profiles == {"normal", "raw", "listen"}
Live == radio_autoack_state \in {"RX", "RX_NOACK"}
Draining == radio_autoack_state \in {"DRAINING", "DRAIN_NOACK"}
Off == radio_autoack_state \in {"OFF", "OFF_NOACK"}

Frame(id, runt, done) == [id |-> id, runt |-> runt, done |-> done]
NoFrame == 0

Queued == (rx_put - rx_get) % WRAP
InRing == [i \in 1..Queued |-> rx_slot[(rx_get + i - 1) % SLOTS]]
Whole(s) == SelectSeq(s, LAMBDA f : f.done /\ ~f.runt)
Ids(s) == [i \in DOMAIN s |-> s[i].id]

Init ==
  /\ radio_autoack_state = "COLD" /\ profile = "normal" /\ owned \in Configs
  /\ overflow = FALSE
  /\ rx_put = 0 /\ rx_get = 0 /\ rx_slot = [i \in 0..SLOTS-1 |-> NoFrame]
  /\ rx_halt = 0 /\ rx_armed = FALSE /\ head_retry = FALSE /\ eligible = FALSE
  /\ fifo = <<>> /\ rferr = FALSE /\ arrived = 0
  /\ pending = <<>>

(***************************************************************************)
(* The radio.                                                              *)
(***************************************************************************)

Unfinished == fifo # <<>> /\ ~fifo[Len(fifo)].done
Last(s) == s[Len(s)]

(* A frame begins behind what the FIFO holds.  A frame of fewer than five     *)
(* octets (a runt) is no MAC frame.                                           *)
RadioBegins(runt) ==
  /\ Live /\ ~rferr /\ ~Unfinished
  /\ arrived < MaxFrames /\ Len(fifo) < FIFO
  /\ arrived' = arrived + 1
  /\ fifo' = Append(fifo, Frame(arrived + 1, runt, FALSE))
  /\ UNCHANGED <<mode, overflow, ring, rx_halt, rx_armed, head_retry, eligible, rferr, history>>

(* The frame is complete; in the normal profile the radio may have acknowledged it. *)
RadioFinishes ==
  /\ Live /\ ~rferr /\ Unfinished
  /\ fifo' = [fifo EXCEPT ![Len(fifo)].done = TRUE]
  /\ pending' = IF Last(fifo).runt THEN pending ELSE Append(pending, Last(fifo).id)
  /\ UNCHANGED <<mode, overflow, ring, rx_halt, rx_armed, head_retry, eligible,
                 rferr, arrived>>

(* The filter rejects the frame and removes it from the FIFO. *)
RadioRejects ==
  /\ Live /\ ~rferr /\ Unfinished
  /\ fifo' = SubSeq(fifo, 1, Len(fifo) - 1)
  /\ UNCHANGED <<mode, overflow, ring, rx_halt, rx_armed, head_retry, eligible,
                 rferr, arrived, history>>

(* The frame does not fit.  Reception halts until the FIFO is flushed; what   *)
(* was complete stays readable.                                               *)
RadioOverflows ==
  /\ Live /\ ~rferr /\ Unfinished /\ Len(fifo) >= 2
  /\ rferr' = TRUE
  /\ UNCHANGED <<mode, overflow, ring, rx_halt, rx_armed, head_retry, eligible,
                 fifo, arrived, history>>

(***************************************************************************)
(* The interrupt, radio_autoack_rx_isr.                                    *)
(***************************************************************************)

(* Move a finished head to the ring, or drop a finished runt. *)
IsrMove_WhenFull ==
  /\ rx_armed /\ Queued <= SLOTS /\ ~rferr
  /\ fifo # <<>> /\ Head(fifo).done
  /\ fifo' = Tail(fifo)
  /\ IF Head(fifo).runt
     THEN UNCHANGED ring
     ELSE /\ rx_slot' = [rx_slot EXCEPT ![rx_put % SLOTS] = Head(fifo).id]
          /\ rx_put' = (rx_put + 1) % WRAP
          /\ UNCHANGED rx_get
  /\ UNCHANGED <<mode, overflow, rx_halt, rx_armed, head_retry, eligible, rferr, arrived, history>>

IsrMove ==
  /\ rx_armed /\ Queued < SLOTS /\ ~rferr
  /\ fifo # <<>> /\ Head(fifo).done
  /\ fifo' = Tail(fifo)
  /\ IF Head(fifo).runt
     THEN UNCHANGED ring
     ELSE /\ rx_slot' = [rx_slot EXCEPT ![rx_put % SLOTS] = Head(fifo).id]
          /\ rx_put' = (rx_put + 1) % WRAP
          /\ UNCHANGED rx_get
  /\ UNCHANGED <<mode, overflow, rx_halt, rx_armed, head_retry, eligible, rferr, arrived, history>>

(* Stop with the interrupt off: a controller error (1), or a head that is not *)
(* what it was announced to be (2).                                           *)
IsrHalt ==
  /\ rx_armed /\ Queued < SLOTS
  /\ rx_halt' \in (IF rferr THEN {1} ELSE {}) \cup
                  (IF ~rferr /\ fifo # <<>> /\ Head(fifo).done THEN {2} ELSE {})
  /\ rx_armed' = FALSE
  /\ UNCHANGED <<mode, overflow, ring, head_retry, eligible, hardware, history>>

(***************************************************************************)
(* The operations.                                                         *)
(***************************************************************************)

(* rx_release: arm only in a live state with nothing the next operation must  *)
(* see first.                                                                  *)
Release ==
  rx_armed' = /\ radio_autoack_state' \in {"RX", "RX_NOACK"}
              /\ rx_halt' = 0 /\ ~overflow' /\ ~eligible'

(* An observation finds the overflow the radio latched. *)
Loss == overflow \/ (Live /\ rferr)

Acquire ==
  /\ radio_autoack_state = "COLD"
  /\ radio_autoack_state' = "RX" /\ profile' = "normal"
  /\ overflow' = FALSE /\ rx_put' = 0 /\ rx_get' = 0 /\ rx_halt' = 0
  /\ UNCHANGED <<owned, rx_slot, head_retry, eligible, hardware, history>>
  /\ Release

Receiving == Live \/ Draining

(* The ring comes before everything that is still in the FIFO. *)
ReceiveQueued ==
  /\ Receiving /\ Queued # 0
  /\ overflow' = Loss /\ rx_get' = (rx_get + 1) % WRAP
  /\ pending' = Tail(pending)
  /\ head_retry' = FALSE /\ eligible' = FALSE
  /\ UNCHANGED <<mode, rx_put, rx_slot, rx_halt, hardware>>
  /\ Release

(* In a stopped radio finished runts before a frame are dropped by the same call. *)
Runts(s) == CHOOSE n \in 0..Len(s) :
              /\ \A i \in 1..n : s[i].runt /\ s[i].done
              /\ n = Len(s) \/ ~(s[n+1].runt /\ s[n+1].done)
Offered == IF Live \/ Loss THEN fifo ELSE SubSeq(fifo, Runts(fifo) + 1, Len(fifo))
Complete(s) == s # <<>> /\ Head(s).done /\ ~Head(s).runt

(* The head is read octet by octet and checked again before and after. *)
ReadHead == fifo' = Tail(Offered) /\ pending' = Tail(pending) /\ head_retry' = FALSE

ReceiveHead ==
  /\ Receiving /\ Queued = 0 /\ rx_halt # 2 /\ Complete(Offered)
  /\ overflow' = Loss
  /\ \/ ReadHead
     \/ (* the first recheck fails once with the head intact *)
        /\ Live /\ ~Loss /\ ~head_retry
        /\ head_retry' = TRUE /\ UNCHANGED <<fifo, pending>>
  /\ eligible' = FALSE
  /\ UNCHANGED <<mode, ring, rx_halt, rferr, arrived>>
  /\ Release

(* Nothing complete: EMPTY.  A live radio drops a finished runt first when the *)
(* FIFO signals it, and leaves it for later when not.                          *)
ReceiveEmpty ==
  /\ Receiving /\ Queued = 0 /\ rx_halt # 2 /\ ~Loss /\ ~Complete(Offered)
  /\ \/ fifo' = Offered
     \/ Live /\ fifo # <<>> /\ Head(fifo).done /\ fifo' = Tail(fifo)
  /\ head_retry' = FALSE /\ eligible' = FALSE
  /\ UNCHANGED <<mode, overflow, ring, rx_halt, rferr, arrived, history>>
  /\ Release

(* After an overflow the head is no complete frame: flush, and report the loss. *)
ReceiveLost ==
  /\ Receiving /\ Queued = 0 /\ rx_halt # 2 /\ Loss /\ ~Complete(fifo)
  /\ fifo' = <<>> /\ rferr' = FALSE /\ overflow' = FALSE /\ rx_halt' = 0
  /\ pending' = SubSeq(pending, 1, Len(pending) - Len(Whole(fifo)))
  /\ head_retry' = FALSE /\ eligible' = FALSE
  /\ UNCHANGED <<mode, ring, arrived>>
  /\ Release

DrainState == IF profile = "normal" THEN "DRAINING" ELSE "DRAIN_NOACK"
OffState == IF profile = "normal" THEN "OFF" ELSE "OFF_NOACK"

(* stopped() holds: OFF when nothing is left to read, else the caller drains. *)
Settle(f) ==
  IF f = <<>> /\ Queued = 0
  THEN /\ radio_autoack_state' = OffState
       /\ profile' = IF profile = "listen" THEN "raw" ELSE profile
       /\ rx_halt' = IF rx_halt = 1 THEN 0 ELSE rx_halt
  ELSE radio_autoack_state' = DrainState /\ UNCHANGED <<profile, rx_halt>>

(* A soft stop lets a frame in reception end: it completes or is rejected. *)
StopLive ==
  /\ Live /\ ~Loss
  /\ \/ /\ ~Unfinished /\ UNCHANGED <<fifo, pending>>
     \/ /\ Unfinished /\ UNCHANGED pending
        /\ fifo' = SubSeq(fifo, 1, Len(fifo) - 1)
     \/ /\ Unfinished
        /\ fifo' = [fifo EXCEPT ![Len(fifo)].done = TRUE]
        /\ pending' = IF Last(fifo).runt THEN pending ELSE Append(pending, Last(fifo).id)
  /\ Settle(fifo')
  /\ eligible' = FALSE
  /\ UNCHANGED <<owned, overflow, ring, head_retry, rferr, arrived>>
  /\ Release

(* The frame in reception overflows the FIFO during the soft stop. *)
StopOverflows ==
  /\ Live /\ ~Loss /\ Unfinished /\ Len(fifo) >= 2
  /\ rferr' = TRUE /\ overflow' = TRUE
  /\ radio_autoack_state' = DrainState
  /\ eligible' = FALSE
  /\ UNCHANGED <<profile, owned, ring, rx_halt, head_retry, fifo, arrived, history>>
  /\ Release

(* With a known loss the stop only reports DRAIN: receive salvages and flushes. *)
StopAfterLoss ==
  /\ Receiving /\ Loss
  /\ overflow' = TRUE
  /\ eligible' = FALSE
  /\ UNCHANGED <<mode, ring, rx_halt, head_retry, hardware, history>>
  /\ Release

StopDrained ==
  /\ Draining \/ radio_autoack_state = "ATTEMPT_PREPARED"
  /\ ~overflow
  /\ Settle(fifo)
  /\ eligible' = FALSE
  /\ UNCHANGED <<owned, overflow, ring, head_retry, hardware, history>>
  /\ Release

Resume ==
  /\ Off
  /\ radio_autoack_state' = "RX" /\ profile' = "normal"
  /\ eligible' = FALSE
  /\ UNCHANGED <<owned, overflow, ring, rx_halt, head_retry, hardware, history>>
  /\ Release

(* Load the frame to send, with symbol search off. *)
Prepare ==
  /\ Off
  /\ radio_autoack_state' = "ATTEMPT_PREPARED" /\ profile' = "raw"
  /\ eligible' = FALSE
  /\ UNCHANGED <<owned, overflow, ring, rx_halt, rx_armed, head_retry, hardware, history>>

(* Clear channel assessment fails: nothing is sent, the receiver stays on. *)
AttemptBusy ==
  /\ radio_autoack_state = "ATTEMPT_PREPARED"
  /\ radio_autoack_state' = "RX_NOACK"
  /\ eligible' = FALSE
  /\ UNCHANGED <<profile, owned, overflow, ring, rx_halt, head_retry, hardware, history>>
  /\ Release

(* radio_autoack_handoff_eligible, until the next operation clears its status. *)
HandoffEligible(got, p) == got = "ack" /\ p = "raw"

(* The frame is sent.  While it is on the air the profile changes: normal after *)
(* a frame that asks for an acknowledgement, beacons only after a Beacon        *)
(* Request.  The first frame in the window is part of the attempt's own result. *)
AttemptSent ==
  /\ radio_autoack_state = "ATTEMPT_PREPARED"
  /\ profile' \in Profiles
  /\ radio_autoack_state' = IF profile' = "normal" THEN "RX" ELSE "RX_NOACK"
  /\ \E got \in {"none", "ack", "frame"} :
       /\ got # "none" => arrived < MaxFrames
       /\ arrived' = IF got = "none" THEN arrived ELSE arrived + 1
       /\ eligible' = HandoffEligible(got, profile')
  /\ UNCHANGED <<owned, overflow, ring, rx_halt, head_retry, fifo, rferr, history>>
  /\ Release

(* Any operation may meet a register, timer or FIFO state it cannot explain;  *)
(* a receive always does after the interrupt lost the head.                   *)
OperationFails ==
  /\ radio_autoack_state # "FAULT"
  /\ radio_autoack_state' = "FAULT" /\ rx_armed' = FALSE
  /\ UNCHANGED <<profile, owned, overflow, ring, rx_halt, head_retry, eligible, hardware, history>>

(* The handoff from the raw to the normal receiver wants a sent frame that     *)
(* asked for an acknowledgement.  In this profile such a frame has left the    *)
(* raw receiver already, so whenever the handoff is eligible it fails.         *)
Handoff == eligible /\ OperationFails

Configure ==
  /\ Off
  /\ owned' \in Configs
  /\ eligible' = FALSE
  /\ UNCHANGED <<radio_autoack_state, profile, overflow, ring, rx_halt, rx_armed,
                 head_retry, hardware, history>>

Receive == ReceiveQueued \/ ReceiveHead \/ ReceiveEmpty \/ ReceiveLost
           \/ (Receiving /\ Queued = 0 /\ rx_halt = 2 /\ OperationFails)
Stop == StopLive \/ StopOverflows \/ StopAfterLoss \/ StopDrained

Next ==
  \/ \E runt \in BOOLEAN : RadioBegins(runt)
  \/ RadioFinishes \/ RadioRejects \/ RadioOverflows
  \/ IsrMove \/ IsrHalt
  \/ Acquire \/ Receive \/ Stop \/ Resume
  \/ Prepare \/ AttemptBusy \/ AttemptSent \/ Handoff \/ Configure
  \/ OperationFails

Spec == Init /\ [][Next]_vars

(* The MAC adapter alternates receive and stop until the radio reports STOPPED. *)
FairSpec == Spec /\ WF_vars(Draining /\ Receive) /\ WF_vars(Draining /\ Stop)

-----------------------------------------------------------------------------
TypeOK ==
  /\ radio_autoack_state \in States /\ profile \in Profiles
  /\ owned \in Configs /\ overflow \in BOOLEAN
  /\ rx_put \in 0..WRAP-1 /\ rx_get \in 0..WRAP-1
  /\ rx_slot \in [0..SLOTS-1 -> 0..MaxFrames]
  /\ rx_halt \in 0..2 /\ rx_armed \in BOOLEAN
  /\ head_retry \in BOOLEAN /\ eligible \in BOOLEAN /\ rferr \in BOOLEAN
  /\ fifo \in Seq([id : 1..MaxFrames, runt : BOOLEAN, done : BOOLEAN])
  /\ arrived \in 0..MaxFrames /\ pending \in Seq(1..MaxFrames)

(* Interrupt and foreground hand over every finished frame exactly once and in *)
(* the order of arrival: what is owed to the foreground is the ring followed   *)
(* by the finished frames of the FIFO.                                         *)
HandedOverInOrder ==
  radio_autoack_state # "FAULT" => pending = InRing \o Ids(Whole(fifo))

(* The radio is only reported off, and a transmission only prepared, when no   *)
(* received frame is left anywhere and no interrupt can add one.               *)
OffIsEmpty ==
  Off \/ radio_autoack_state = "ATTEMPT_PREPARED" =>
    /\ fifo = <<>> /\ pending = <<>> /\ ~rx_armed /\ ~overflow /\ ~rferr

(* A stopped radio is emptied: draining ends in OFF or in a fault, whatever    *)
(* the overflow, the ring and the interrupt left behind.                       *)
DrainEnds == Draining ~> ~Draining
=============================================================================
