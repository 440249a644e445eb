----------------------------- MODULE ZclIdentify -----------------------------
(* zcl_identify.c and zcl_write.c: the Identify server. Its caller passes the   *)
(* time, in milliseconds, with every call.                                      *)
EXTENDS Integers, Sequences, FiniteSetsExt, SequencesExt

CONSTANTS
  HALF,     \* 2^31: a longer step of the clock is refused
  SECOND,   \* 1000
  Requests, \* bound: the requests that arrive
  MaxTime   \* bound: milliseconds that pass in a behaviour, less than 2 * HALF

VARIABLES
  id,       \* zcl_id_t; since is now - stamp
  time,     \* history: milliseconds passed
  until     \* history: when the identification that was asked for ends

ivars == <<id, time, until>>

IInit == id = [remaining |-> 0, phase |-> 0, since |-> 0] /\ time = 0 /\ until = 0

(* advance(): whole seconds are taken off, the rest stays in phase.             *)
Advanced(x) ==
  LET elapsed == x.since + x.phase
      seconds == elapsed \div SECOND IN
  IF seconds >= x.remaining THEN [remaining |-> 0, phase |-> 0, since |-> 0]
  ELSE [remaining |-> x.remaining - seconds, phase |-> elapsed % SECOND, since |-> 0]
Timely == id.since < HALF

Pass ==
  /\ time < MaxTime /\ time' = time + 1
  /\ id' = [id EXCEPT !.since = @ + 1]
  /\ UNCHANGED until

Tick == Timely /\ id' = Advanced(id) /\ UNCHANGED <<time, until>>

(* zcl_wr_handle(): the last good write of IdentifyTime, or none: a request cut *)
(* short writes nothing, and neither does an undivided one with a bad record.   *)
Good(r) == r.id = "IDENTIFY_TIME" /\ r.typed
Writes(q) ==
  LET good == SelectSeq(q.records, Good) IN
  IF q.cut \/ (q.cmd = "WRITE_UNDIVIDED" /\ good # q.records) THEN <<>> ELSE good

(* What a request sets the remaining time to, if anything, and whether it is    *)
(* answered: an idle device is silent to a query.                               *)
Sets(q) ==
  IF q.cmd = "IDENTIFY" THEN (IF q.cut THEN <<>> ELSE <<q.value>>)
  ELSE IF q.cmd \in {"WRITE", "WRITE_UNDIVIDED", "WRITE_NO_RESPONSE"} /\ Writes(q) # <<>>
  THEN <<Last(Writes(q)).value>>
  ELSE <<>>
Silent(x, q) ==
  \/ q.cmd = "IDENTIFY" /\ ~q.cut /\ q.quiet
  \/ q.cmd = "QUERY" /\ x.remaining = 0
  \/ q.cmd = "WRITE_NO_RESPONSE"

(* zcl_id_rx(): nothing is stored unless the answer fits; a request without     *)
(* response that is cut short is an error and stores nothing.                   *)
Rx(q, room) ==
  LET next == Advanced(id)
      sets == Sets(q) IN
  /\ Timely /\ (room \/ Silent(next, q)) /\ ~(q.cmd = "WRITE_NO_RESPONSE" /\ q.cut)
  /\ id' = IF sets = <<>> THEN next ELSE [next EXCEPT !.remaining = sets[1], !.phase = 0]
  /\ until' = IF sets = <<>> THEN until ELSE time + sets[1] * SECOND
  /\ UNCHANGED time

INext == Pass \/ Tick \/ \E q \in Requests, room \in BOOLEAN : Rx(q, room)
ISpec == IInit /\ [][INext]_ivars

(* The device identifies until exactly when the last carried-out request said,  *)
(* however the calls cut the time up: what remains, less the part of a second   *)
(* already counted and the time not yet looked at, is the true time left.       *)
IdentifyOnTime ==
  Max({0, id.remaining * SECOND - id.phase - id.since}) = Max({0, until - time})
==============================================================================
