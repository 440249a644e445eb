--------------------------- MODULE ZclTemperature ---------------------------
(* zcl_temperature.c: a temperature server whose caller passes the time with    *)
(* every call. A report is prepared, and finished later by the caller, who says *)
(* whether and when it was sent; samples, requests and time come in between.    *)
EXTENDS Integers, Sequences, FiniteSetsExt, SequencesExt

CONSTANTS
  HALF,        \* 2^31: a longer step of the clock is taken for a backward one
  PENDING_LIMIT, \* ZCL_TEMP_PENDING_LIMIT
  AGE_MAX,     \* 65535 as an age
  NEVER,       \* 65535 as an interval
  SERIAL_MAX,  \* 65535 as a token
  Values, UNKNOWN, \* temperatures, and ZCL_TEMP_UNKNOWN
  TheDefaults, \* the configuration given to zcl_temp_init
  Requests,    \* bound: Configure Reporting requests, as sequences of records
  MaxTime      \* bound: seconds that pass in a behaviour, less than 2 * HALF

VARIABLES
  c,           \* zcl_temp_t; since is now - stamp, held is now - pending_at
  time, issued, last \* history: now, when the last report was sent (or a
                     \* configuration began), and the value it carried

tvars == <<c, time, issued, last>>

ValidCfg(cfg) ==
  cfg.max = NEVER \/ ((cfg.max = 0 \/ cfg.max >= cfg.min) /\ cfg.change # UNKNOWN)
Normal(cfg) == IF cfg.max = NEVER THEN [cfg EXCEPT !.change = 0] ELSE cfg
Reconfigured(ctx, cfg) ==
  [ctx EXCEPT !.reporting = Normal(cfg), !.configured = cfg.max # NEVER,
              !.age = 0, !.baseline = ctx.value]

TInit ==
  /\ ValidCfg(TheDefaults)
  /\ c = Reconfigured([value |-> UNKNOWN, baseline |-> UNKNOWN, reporting |-> TheDefaults,
                       configured |-> FALSE, age |-> 0, since |-> 0, pending |-> FALSE,
                       held |-> 0, pendingValue |-> 0, serial |-> 0, fault |-> "none"], TheDefaults)
  /\ time = 0 /\ issued = 0 /\ last = UNKNOWN

(* advance(): the age is staged, and stored with the time only by a call that   *)
(* succeeds.                                                                    *)
Late(ctx) == ctx.since >= HALF \/ (ctx.pending /\ ctx.held > PENDING_LIMIT)
NextAge(ctx) == Min({AGE_MAX, ctx.since + ctx.age})
Stamped(ctx, age) == [ctx EXCEPT !.since = 0, !.age = age]
Running == c.fault = "none" /\ ~Late(c)

Overdue ==
  /\ c.fault = "none" /\ Late(c)
  /\ c' = [c EXCEPT !.fault = "TIME"]
  /\ UNCHANGED <<time, issued, last>>

Pass ==
  /\ time < MaxTime /\ time' = time + 1
  /\ c' = [c EXCEPT !.since = @ + 1, !.held = IF c.pending THEN @ + 1 ELSE @]
  /\ UNCHANGED <<issued, last>>

(* zcl_temp_sample(): a value out of range is refused and stores nothing.       *)
Sample(v) ==
  /\ Running
  /\ c' = Stamped([c EXCEPT !.value = v], NextAge(c))
  /\ UNCHANGED <<time, issued, last>>

(* zcl_temp_rx(), Configure Reporting: the last good record is applied once the *)
(* whole request has been read; a malformed one is answered and applies none.   *)
Meaning(r) == IF r.min = NEVER /\ r.max = 0 THEN TheDefaults ELSE [min |-> r.min, max |-> r.max, change |-> r.change]
Good(r) == r.id = "MEASURED" /\ r.typed /\ ValidCfg(Meaning(r))
ConfigureReporting(q) ==
  LET good == SelectSeq(q.records, Good) IN
  /\ Running /\ ~c.pending
  /\ IF q.cut \/ good = <<>>
     THEN c' = Stamped(c, NextAge(c)) /\ UNCHANGED <<issued, last>>
     ELSE /\ c' = Stamped(Reconfigured(c, Meaning(Last(good))), 0)
          /\ issued' = time /\ last' = c.value
  /\ UNCHANGED time

(* zcl_temp_rx(), every other request: the time is stored.                      *)
Request ==
  /\ Running
  /\ c' = Stamped(c, NextAge(c))
  /\ UNCHANGED <<time, issued, last>>

Due(ctx, age) ==
  LET cfg == ctx.reporting
      far == IF ctx.value > ctx.baseline THEN ctx.value - ctx.baseline ELSE ctx.baseline - ctx.value
      threshold == IF cfg.change < 0 THEN -cfg.change ELSE cfg.change IN
  /\ ctx.configured /\ age >= cfg.min
  /\ \/ cfg.max # 0 /\ age >= cfg.max
     \/ /\ ctx.value # ctx.baseline
        /\ UNKNOWN \in {ctx.value, ctx.baseline} \/ far >= threshold

(* zcl_temp_prepare(), with a route or without.                                 *)
Prepare(routes) ==
  /\ Running /\ ~c.pending
  /\ IF routes /\ Due(c, NextAge(c))
     THEN IF c.serial = SERIAL_MAX THEN c' = [c EXCEPT !.fault = "TOKEN"]
          ELSE c' = Stamped([c EXCEPT !.serial = @ + 1, !.pending = TRUE, !.held = 0,
                                      !.pendingValue = c.value], NextAge(c))
     ELSE c' = Stamped(c, NextAge(c))
  /\ UNCHANGED <<time, issued, last>>

(* zcl_temp_finish(): sent ago seconds before now, or not sent. A token that is *)
(* not the current one is refused.                                              *)
Settled(ctx, age) == Stamped([ctx EXCEPT !.pending = FALSE, !.held = 0, !.pendingValue = 0], age)
Finish_FromNow(token, sent, ago) ==
  /\ Running /\ c.pending /\ token = c.serial /\ ago <= c.held
  /\ IF sent
     THEN /\ c' = Settled([c EXCEPT !.baseline = c.pendingValue], 0)
          /\ issued' = time - ago /\ last' = c.pendingValue
     ELSE c' = Settled(c, NextAge(c)) /\ UNCHANGED <<issued, last>>
  /\ UNCHANGED time
Finish(token, sent, ago) ==
  /\ Running /\ c.pending /\ token = c.serial /\ ago <= c.held
  /\ IF sent
     THEN /\ c' = Settled([c EXCEPT !.baseline = c.pendingValue], ago)
          /\ issued' = time - ago /\ last' = c.pendingValue
     ELSE c' = Settled(c, NextAge(c)) /\ UNCHANGED <<issued, last>>
  /\ UNCHANGED time

TNext ==
  \/ Pass \/ Overdue \/ Request
  \/ \E v \in Values \cup {UNKNOWN} : Sample(v)
  \/ \E q \in Requests : ConfigureReporting(q)
  \/ \E routes \in BOOLEAN : Prepare(routes)
  \/ \E token \in 1..SERIAL_MAX, sent \in BOOLEAN, ago \in 0..PENDING_LIMIT : Finish(token, sent, ago)
TSpec == TInit /\ [][TNext]_tvars

(* The reporting interval is measured from when the last report was sent, or    *)
(* from the last configuration, whatever calls came in between and however late *)
(* the caller finished the report: the staged age and the time since it was     *)
(* stored add up to the true time, up to saturation; and the next report is     *)
(* compared with the value that report carried.                                 *)
IntervalIsTrue ==
  c.fault = "none" =>
    /\ NextAge(c) = Min({AGE_MAX, time - issued})
    /\ c.baseline = last
=============================================================================
