------------------------------- MODULE MacTime -------------------------------
(* mac_time.c: the symbol clock. Timer 2 counts on its own while the            *)
(* foreground starts it, reads it in bounded calls, brackets a radio attempt    *)
(* with two full reads, and stops it for a sleep.                               *)
(*                                                                              *)
(* A call is a sequence of register accesses, and the timer goes on between any *)
(* two of them. Arguments and storage that a call refuses without effect are    *)
(* left out.                                                                    *)
EXTENDS Integers

CONSTANTS
  BYTE,      \* values of the low byte, 256; a period is two of them
  PERIODS,   \* MAC_TIME_OVERFLOW_PERIOD
  POLLS,     \* a call's poll limit
  MaxTime    \* bound: time in clocks

VARIABLES
  clk,       \* true time
  t2,        \* Timer 2: the control that was written, whether it runs, where it stopped
  state,     \* mac_time_fault, ready, attempt_active and paused
  op,        \* the call in progress, with its staged stamp
  out        \* the stamp the last call gave its caller

timeVars == <<clk, t2, state, op, out>>

FINE == 2 * BYTE
Full == {"INIT", "LIVE", "RADIO", "BEGIN", "END"}    \* operate()
NoCall == [kind |-> "NONE", at |-> "NONE", control |-> 0, polls |-> 0, from |-> 0,
         low |-> 0, upper |-> 0]
NoStamp == [fine |-> 0, periods |-> 0, from |-> 0, to |-> 0, whole |-> FALSE]

\* The two counters at time c.
Fine(c) == c % FINE
Periods(c) == (c \div FINE) % PERIODS

TimeInit ==
  /\ clk = 0 /\ t2 = [control |-> 2, run |-> FALSE, stopped |-> 0]
  /\ state = [fault |-> FALSE, ready |-> FALSE, active |-> FALSE, paused |-> FALSE]
  /\ op = NoCall /\ out = NoStamp

\* observe(): the timer is in the mode the call left it in, settled except while
\* it starts or stops. What else it asks of the chip may always be found wanting.
Observed == t2.control = op.control /\ (op.control < 9 => ~t2.run)

TimeFailed == state' = [state EXCEPT !.fault = TRUE] /\ op' = NoCall

(*** Calls: refused without effect, or entered. ***)

Admitted(kind) ==
  CASE kind = "INIT" -> ~state.ready
    [] kind \in {"LIVE", "RADIO"} -> state.ready
    [] kind = "BEGIN" -> state.ready /\ ~state.active
    [] kind \in {"READ", "HANDOFF"} -> state.ready /\ state.active
    [] kind = "END" -> state.ready /\ state.active
    [] OTHER -> state.ready /\ ~state.active /\ state.paused = (kind = "RESUME")

Kinds == Full \cup {"READ", "HANDOFF", "PAUSE", "RESUME"}
Call(kind) ==
  /\ op.kind = "NONE" /\ ~state.fault /\ Admitted(kind)
  /\ op' = [NoCall EXCEPT !.kind = kind, !.from = clk,
              !.at = IF kind \in {"READ", "HANDOFF"} THEN "LATCH" ELSE "ENTER",
              !.control = CASE kind = "INIT" -> 2 [] kind = "RESUME" -> 10 [] OTHER -> 9]
  /\ out' = NoStamp /\ UNCHANGED <<clk, t2, state>>

\* The fixed observation that comes before the deadline is set.
Enter ==
  /\ op.at = "ENTER"
  /\ \/ /\ Observed /\ t2.run = (op.kind \notin {"INIT", "RESUME"})
        /\ op' = [op EXCEPT !.at = "POLL"] /\ UNCHANGED state
     \/ TimeFailed
  /\ UNCHANGED <<clk, t2, out>>

\* poll(): one of a limited number, and an observation unless the read is a fast
\* one. It fails for that, or because the deadline has passed.
TimePollFault ==
  /\ op.at \in {"POLL", "START", "STOP", "CHECK", "AGAIN"} /\ TimeFailed
  /\ UNCHANGED <<clk, t2, out>>
Polled(at) == op.at = at /\ op.polls < POLLS /\ (op.kind = "READ" \/ Observed)
Counted == [op EXCEPT !.polls = @ + 1]

\* ROOM and a write: there must be a poll left to confirm it.
Write(control) == op.polls + 1 < POLLS /\ t2' = [t2 EXCEPT !.control = control]

(*** Starting, pausing and resuming. ***)

\* After the first poll: configuration while it is stopped, RUN at last; SYNC and
\* then RUN cleared; or RUN with SYNC. A full read goes on to its latch.
Begins ==
  /\ Polled("POLL")
  /\ CASE op.kind = "INIT" ->
            IF t2.control = 2 THEN Write(8) /\ op' = [Counted EXCEPT !.control = 8]
            ELSE Write(9) /\ op' = [Counted EXCEPT !.control = 9, !.at = "START"]
       [] op.kind = "PAUSE" ->
            IF t2.control = 9 THEN Write(11) /\ op' = [Counted EXCEPT !.control = 11]
            ELSE Write(10) /\ op' = [Counted EXCEPT !.control = 10, !.at = "STOP"]
       [] op.kind = "RESUME" -> Write(11) /\ op' = [Counted EXCEPT !.control = 11, !.at = "START"]
       [] OTHER -> t2' = t2 /\ op' = [Counted EXCEPT !.at = "LATCH"]
  /\ UNCHANGED <<clk, state, out>>

\* Polls until the timer runs; a resumed one then loses SYNC, once confirmed.
Starts ==
  /\ Polled("START")
  /\ CASE ~t2.run -> op' = Counted /\ UNCHANGED <<t2, state>>
       [] t2.run /\ op.kind = "INIT" -> op' = [Counted EXCEPT !.at = "LATCH"] /\ UNCHANGED <<t2, state>>
       [] t2.run /\ op.kind = "RESUME" /\ t2.control = 11 ->
            Write(9) /\ op' = [Counted EXCEPT !.control = 9] /\ UNCHANGED state
       [] OTHER -> op' = NoCall /\ state' = [state EXCEPT !.paused = FALSE] /\ UNCHANGED t2
  /\ UNCHANGED <<clk, out>>

Stops ==
  /\ Polled("STOP")
  /\ IF t2.run THEN op' = Counted /\ UNCHANGED state
     ELSE op' = NoCall /\ state' = [state EXCEPT !.paused = TRUE]
  /\ UNCHANGED <<clk, t2, out>>

(*** Reading. ***)

\* Fault: a low byte at its end is taken for good.
Coherent_Always(low) == TRUE
Coherent(low) == low # BYTE - 1

\* The low byte is read, which latches the others, and if it is the last of its
\* range (SWRZ031 1.2: the others may be the next clock's) once more at once; then
\* a poll, and for a handoff the end.
LatchBytes ==
  /\ op.at \in {"LATCH", "RELATCH"}
  /\ op.kind # "HANDOFF" => op.polls < POLLS
  /\ LET now == IF t2.run THEN clk ELSE t2.stopped
         low == now % BYTE
         next == IF Coherent(low) THEN "BYTES" ELSE IF op.at = "LATCH" THEN "RELATCH" ELSE "AGAIN"
     IN \E upper \in {now} \cup (IF low = BYTE - 1 THEN {now + 1} ELSE {}) :
          op' = CASE next = "BYTES" -> [op EXCEPT !.at = next, !.low = low, !.upper = upper]
                  [] next = "AGAIN" /\ op.kind = "HANDOFF" -> NoCall
                  [] OTHER -> [op EXCEPT !.at = next]
  /\ UNCHANGED <<clk, t2, state, out>>

LatchLimit ==
  /\ op.at = "LATCH" /\ op.kind # "HANDOFF" /\ op.polls = POLLS /\ TimeFailed
  /\ UNCHANGED <<clk, t2, out>>

Stamp == [fine |-> (Fine(op.upper) \div BYTE) * BYTE + op.low, periods |-> Periods(op.upper),
          from |-> op.from, to |-> clk, whole |-> TRUE]

\* The upper bytes come from the latch, at any time later.
Bytes ==
  /\ op.at = "BYTES"
  /\ IF op.kind = "HANDOFF" THEN out' = Stamp /\ op' = NoCall
     ELSE out' = out /\ op' = [op EXCEPT !.at = "CHECK"]
  /\ UNCHANGED <<clk, t2, state>>

\* Nothing coherent: another poll and another latch.
Again ==
  /\ Polled("AGAIN")
  /\ IF op.kind = "READ" \/ t2.run THEN op' = [Counted EXCEPT !.at = "LATCH"] /\ UNCHANGED state
     ELSE TimeFailed
  /\ UNCHANGED <<clk, t2, out>>

\* A last poll, and only then the stamp is published and the scope opened or closed.
Publishes ==
  /\ Polled("CHECK")
  /\ IF op.kind = "READ" \/ t2.run
     THEN /\ op' = NoCall
          /\ out' = IF op.kind = "INIT" THEN out ELSE Stamp
          /\ state' = [state EXCEPT !.ready = TRUE,
                         !.active = op.kind = "BEGIN" \/ (@ /\ op.kind # "END")]
     ELSE TimeFailed /\ out' = out
  /\ UNCHANGED <<clk, t2>>

(*** The hardware (external). A stopped timer that is started in step with the ***)
(*** sleep timer shows the time as if it had never stopped.                     ***)

\* Time is counted from the timer's first start.
Ticks ==
  /\ clk < MaxTime /\ (t2.run \/ state.ready) /\ clk' = clk + 1
  /\ UNCHANGED <<t2, state, op, out>>
Settles ==
  /\ t2.run # (t2.control \in {9, 11})
  /\ t2' = [t2 EXCEPT !.run = ~@, !.stopped = IF t2.run THEN clk ELSE 0]
  /\ UNCHANGED <<clk, state, op, out>>

TimeNext ==
  \/ \E kind \in Kinds : Call(kind)
  \/ Enter \/ TimePollFault \/ Begins \/ Starts \/ Stops
  \/ LatchBytes \/ LatchLimit \/ Bytes \/ Again \/ Publishes
  \/ Ticks \/ Settles
TimeSpec == TimeInit /\ [][TimeNext]_timeVars

(* A stamp that a caller gets is a time the timer really showed during the      *)
(* call, the two counters of one moment: not the low byte of one clock with the *)
(* upper bytes of the next, not a latch from before, and never the frozen       *)
(* counters of a timer stopped for a sleep (operate, mac_time_attempt_read,     *)
(* mac_time_handoff_read).                                                      *)
StampIsTrue ==
  out.whole =>
    \E c \in out.from..out.to : out.fine = Fine(c) /\ out.periods = Periods(c)
=============================================================================
