------------------------------ MODULE ZclSensor ------------------------------
(* zcl_sensor.c and serve() of join_smoke.c: the application of a READY device. *)
(* Each poll retires the report that was accepted, counts the seconds that have *)
(* passed, measures, and then answers one request or builds one due report.     *)
EXTENDS Integers, Sequences, FiniteSetsExt

CONSTANTS
  REPORTS,    \* ZCL_SENSOR_REPORTS: reportable attributes 0..REPORTS-1
  Sensed,     \* those that only change when measured; the others follow the clock
  Values, SIGN, \* values; half the range of the 16-bit subtraction, and the invalid value
  SECOND,     \* ZCL_SENSOR_SECOND
  AGE_MAX, NEVER, \* 65535 as an age and as an interval
  MEASURE,    \* ZCL_SENSOR_MEASURE
  Defaults,   \* defaults[]: [min, max, change] of each attribute
  Requests,   \* bound: the application frames that arrive
  LATE,       \* bound: seconds between two polls
  MaxTime, MaxFrames \* bound: time passed and frames received in a behaviour

\* Time is counted in whole seconds; what a request sets identification to is a
\* number of seconds.
ASSUME SensorConstants ==
  /\ REPORTS \in Nat /\ SECOND \in Nat \ {0} /\ AGE_MAX \in Nat /\ MEASURE \in Nat /\ LATE \in Nat
  /\ \A q \in Requests :
       /\ q.cmd = "IDENTIFY" => q.value \in Nat
       /\ q.cmd = "WRITE" =>
            /\ Len(q.records) \in Nat /\ DOMAIN q.records = 1 .. Len(q.records)
            /\ \A i \in DOMAIN q.records : q.records[i].value \in Nat

VARIABLES
  s,          \* ZCL_SENSOR_STATE; phase is CTX.last - ST.second
  clocked,    \* the values that follow the clock
  rx,         \* CTX.application, NoFrame when application_ready is 0
  resp,       \* CTX.response, NoAnswer when response_pending is 0
  tx,         \* application_pending and application_done
  gate,       \* the image's gate: READY or FAULT
  told, since, \* history: value last accepted for sending; time since then
  used        \* history: time passed and frames received

zvars == <<s, clocked, rx, resp, tx, gate, told, since, used>>

Entries == 0..REPORTS-1
BASIC == REPORTS
NoFrame == [cmd |-> "NONE"]
NoAnswer == [kind |-> "NONE"]
Answer(kind, status) == [kind |-> kind, status |-> status]
Cluster(e) == IF e < 2 THEN e ELSE 2
Clusters == {Cluster(e) : e \in Entries}
ValueOf(st, e) == IF e \in Sensed THEN st.sensed[e] ELSE clocked[e]
SINCE_MAX == (AGE_MAX + LATE + 2) * SECOND

(* measure(): every conversion succeeds, or all the values become invalid.      *)
Readings == [Sensed -> Values] \cup {[e \in Sensed |-> SIGN]}

ZInit ==
  \E r \in Readings, c \in [Entries \ Sensed -> Values] :
    LET first(e) == IF e \in Sensed THEN r[e] ELSE c[e] IN
    /\ s = [report |-> [e \in Entries |-> [min |-> Defaults[e].min, max |-> Defaults[e].max,
                          change |-> Defaults[e].change, last |-> first(e), age |-> 0]],
            bound |-> [k \in Clusters |-> 1], basic |-> TRUE, pending |-> 0, sent |-> FALSE,
            value |-> 0, identify |-> 0, measured |-> 0, sensed |-> r, phase |-> 0]
    /\ clocked = c /\ told = [e \in Entries |-> first(e)]
    /\ since = [e \in Entries |-> 0] /\ used = [time |-> 0, frames |-> 0]
    /\ rx = NoFrame /\ resp = NoAnswer /\ tx = "IDLE" /\ gate = "READY"

(* zcl_sensor_tick().                                                           *)
Retired_Current(st) ==
  IF ~st.sent THEN st
  ELSE IF st.pending = BASIC THEN [st EXCEPT !.sent = FALSE, !.basic = FALSE]
  ELSE [st EXCEPT !.sent = FALSE, !.report[st.pending] =
                    [@ EXCEPT !.last = ValueOf(st, st.pending), !.age = 0]]
Retired(st) ==
  IF ~st.sent THEN st
  ELSE IF st.pending = BASIC THEN [st EXCEPT !.sent = FALSE, !.basic = FALSE]
  ELSE [st EXCEPT !.sent = FALSE, !.report[st.pending] = [@ EXCEPT !.last = st.value, !.age = 0]]
Counted(st) ==
  LET n == st.phase \div SECOND IN
  [st EXCEPT !.phase = @ % SECOND, !.identify = Max({0, @ - n}),
             !.report = [e \in Entries |-> [st.report[e] EXCEPT !.age = Min({AGE_MAX, @ + n})]],
             !.measured = Min({MEASURE, @ + n})]
Measured(st) ==
  IF st.measured < MEASURE THEN {st}
  ELSE {[st EXCEPT !.measured = 0, !.sensed = r] : r \in Readings}
Ticked_CountsFirst == Measured(Retired(Counted(s)))
Ticked == Measured(Counted(Retired(s)))

(* The records of a request take effect in order: of those for one attribute    *)
(* the last that is accepted counts.  One that is cut short or has an unknown   *)
(* direction makes the first pass answer MALFORMED before anything is applied.  *)
Accepted(q) == {i \in DOMAIN q.records : q.records[i].id = "IDENTIFY" /\ q.records[i].typed}
Written(st, q) ==
  IF Accepted(q) = {} THEN st ELSE [st EXCEPT !.identify = q.records[Max(Accepted(q))].value]
Write_OnePass(st, q) == <<Written(st, q), IF q.cut THEN "MALFORMED" ELSE "BUILT">>
Write(st, q) == IF q.cut THEN <<st, "MALFORMED">> ELSE <<Written(st, q), "BUILT">>

Set(report, r) ==
  [report EXCEPT !.min = r.min, !.max = r.max, !.change = r.change]
Restored(report, e) == Set(report, Defaults[e])
Configured(report, r) ==
  IF r.max = 0 /\ r.min = NEVER THEN Restored(report, r.id) ELSE Set(report, r)
\* The records that configure attribute e.
Configuring(q, e) ==
  {i \in DOMAIN q.records :
     LET r == q.records[i] IN
     r.id = e /\ ~r.received /\ r.typed /\ (r.max \notin {0, NEVER} => r.max >= r.min)}
Configure(st, q) ==
  LET now(e) == IF Configuring(q, e) = {} THEN st.report[e]
                ELSE Configured(st.report[e], q.records[Max(Configuring(q, e))])
  IN IF q.cut THEN <<st, "MALFORMED">>
     ELSE <<[st EXCEPT !.report = [e \in Entries |-> now(e)]], "BUILT">>

(* Read and Read Reporting Configuration change nothing; the second refuses an  *)
(* empty request, and validates the records beyond those that fit.              *)
Read(st, q) == <<st, "BUILT">>
ReadConfiguration(st, q) == <<st, IF q.cut \/ q.records = <<>> THEN "MALFORMED" ELSE "BUILT">>

Specific(st, q) ==
  IF q.cmd = "IDENTIFY"
  THEN IF q.cut THEN <<st, "MALFORMED">> ELSE <<[st EXCEPT !.identify = q.value], "SUCCESS">>
  ELSE <<st, IF st.identify = 0 THEN "SILENT" ELSE "BUILT">>

(* zcl(): a request that must not be answered, and one that finds the response  *)
(* slot taken, are discarded whole.                                             *)
Zcl(st, q) ==
  LET done == CASE q.cmd = "READ" -> Read(st, q)
                [] q.cmd = "WRITE" -> Write(st, q)
                [] q.cmd = "CONFIGURE" -> Configure(st, q)
                [] q.cmd = "READ_CONFIGURATION" -> ReadConfiguration(st, q)
                [] q.cmd \in {"IDENTIFY", "QUERY"} -> Specific(st, q)
                [] OTHER -> <<st, "UNSUPPORTED">>
      status == done[2]
  IN IF resp # NoAnswer THEN <<st, resp>>
     ELSE IF status = "SILENT" \/ (status = "SUCCESS" /\ q.quiet) THEN <<done[1], resp>>
     ELSE <<done[1], IF status = "BUILT" THEN Answer(q.cmd, "SUCCESS") ELSE Answer("DEFAULT", status)>>

(* bind(): one coordinator endpoint for each reportable cluster.                *)
Bind(st, q) ==
  LET fits == /\ q.cluster \in Clusters /\ q.coordinator
              /\ st.bound[q.cluster] = (IF q.cmd = "BIND" /\ st.bound[q.cluster] = 0
                                        THEN 0 ELSE q.endpoint)
      status == CASE ~q.ours -> "NOT_SUPPORTED"
                  [] q.endpoint = 0 -> "INVALID_EP"
                  [] fits -> "SUCCESS"
                  [] OTHER -> IF q.cmd = "BIND" THEN "TABLE_FULL" ELSE "NO_ENTRY"
  IN IF q.cut \/ resp # NoAnswer THEN <<st, resp>>
     ELSE <<IF status = "SUCCESS"
            THEN [st EXCEPT !.bound[q.cluster] = IF q.cmd = "BIND" THEN q.endpoint ELSE 0] ELSE st,
            Answer(q.cmd, status)>>

(* management_bind(): the bindings from q.start on, as many as a page holds.    *)
BindingPage(st, start, room) ==
  LET kept == SelectSeq([i \in 1..Cardinality(Clusters) |-> i - 1], LAMBDA k : st.bound[k] # 0) IN
  SubSeq(kept, start + 1, Min({Len(kept), start + room}))
ManagementBind(st, q) ==
  IF q.cut \/ resp # NoAnswer THEN <<st, resp>>
  ELSE <<st, Answer("MGMT_BIND", BindingPage(st, q.start, 3))>>

Served(st, q) ==
  CASE q.cmd = "FOREIGN" -> <<st, resp>>
    [] q.cmd \in {"BIND", "UNBIND"} -> Bind(st, q)
    [] q.cmd = "MGMT_BIND" -> ManagementBind(st, q)
    [] OTHER -> Zcl(st, q)

(* due() and report(): the first bound attribute that is due. ST.value is the   *)
(* value of the last attribute due() looked at.                                 *)
Distance(a, b) ==
  LET d == (a - b) % (2 * SIGN) IN IF d >= SIGN THEN 2 * SIGN - d ELSE d
Due(st, e) ==
  LET r == st.report[e]
      d == Distance(ValueOf(st, e), r.last) IN
  /\ r.max # NEVER /\ r.age >= r.min
  /\ (r.max # 0 /\ r.age >= r.max) \/ (d # 0 /\ d >= r.change)
Built(st) ==
  LET looked == {e \in Entries : st.bound[Cluster(e)] # 0}
      due == {e \in looked : Due(st, e)} IN
  IF st.basic THEN [st EXCEPT !.pending = BASIC]
  ELSE IF due # {}
  THEN [st EXCEPT !.pending = Min(due), !.value = ValueOf(st, Min(due))]
  ELSE IF looked = {} THEN st
  ELSE [st EXCEPT !.value = ValueOf(st, Max(looked))]
HasReport(st) ==
  st.basic \/ \E e \in Entries : st.bound[Cluster(e)] # 0 /\ Due(st, e)

(* serve(): the whole poll. bdb_join_send() takes the report, has no room (or   *)
(* waits for the APS counter), or fails, which faults the image.                *)
ServeRequest ==
  \E st \in Ticked :
    /\ gate = "READY" /\ rx # NoFrame
    /\ s' = Served(st, rx)[1] /\ resp' = Served(st, rx)[2]
    /\ rx' = NoFrame
    /\ tx' = IF tx = "DONE" THEN "IDLE" ELSE tx
    /\ UNCHANGED <<clocked, gate, told, since, used>>

ServeIdle ==
  \E st \in Ticked :
    /\ gate = "READY" /\ rx = NoFrame
    /\ \/ tx = "DONE" /\ tx' = "IDLE" /\ s' = st
       \/ tx = "PENDING" /\ tx' = tx /\ s' = st
       \/ tx = "IDLE" /\ ~HasReport(st) /\ tx' = tx /\ s' = Built(st)
    /\ UNCHANGED <<clocked, rx, resp, gate, told, since, used>>

ServeReport ==
  \E st \in Ticked, result \in {"OK", "FULL", "FAILED"} :
    /\ gate = "READY" /\ rx = NoFrame /\ tx = "IDLE" /\ HasReport(st)
    /\ LET b == Built(st)
           e == b.pending IN
       /\ s' = [b EXCEPT !.sent = result = "OK"]
       /\ tx' = IF result = "OK" THEN "PENDING" ELSE tx
       /\ gate' = IF result = "FAILED" THEN "FAULT" ELSE gate
       /\ told' = IF result = "OK" /\ e # BASIC THEN [told EXCEPT ![e] = ValueOf(st, e)] ELSE told
       /\ since' = IF result = "OK" /\ e # BASIC THEN [since EXCEPT ![e] = 0] ELSE since
    /\ UNCHANGED <<clocked, rx, resp, used>>

(* The surroundings: time, and with it the values that follow the clock; frames *)
(* received, the response sent, and the end of the report's transmission.       *)
Pass ==
  /\ s.phase < LATE * SECOND /\ used.time < MaxTime
  /\ used' = [used EXCEPT !.time = @ + 1]
  /\ s' = [s EXCEPT !.phase = @ + 1]
  /\ since' = [e \in Entries |-> Min({SINCE_MAX, since[e] + 1})]
  /\ clocked' \in [DOMAIN clocked -> Values]
  /\ UNCHANGED <<rx, resp, tx, gate, told>>

Arrive ==
  /\ rx = NoFrame /\ rx' \in Requests /\ used.frames < MaxFrames
  /\ used' = [used EXCEPT !.frames = @ + 1]
  /\ UNCHANGED <<s, clocked, resp, tx, gate, told, since>>

Respond ==
  /\ resp # NoAnswer /\ resp' = NoAnswer
  /\ UNCHANGED <<s, clocked, rx, tx, gate, told, since, used>>

Complete ==
  /\ tx = "PENDING" /\ tx' = "DONE"
  /\ UNCHANGED <<s, clocked, rx, resp, gate, told, since, used>>

ZNext == ServeRequest \/ ServeIdle \/ ServeReport \/ Pass \/ Arrive \/ Respond \/ Complete
ZSpec == ZInit /\ [][ZNext]_zvars

(* What the next report is compared with is the value the receiver was last     *)
(* told: zcl_sensor_tick() records ST.value one poll after the report was       *)
(* accepted, when the sensed value has moved on, and neither a request nor a    *)
(* rejected report in between leaves another value there.                       *)
ReportedIsRecorded == ~s.sent => \A e \in Entries : s.report[e].last = told[e]

(* An attribute's age is the time since its last accepted report, less than one *)
(* second off, however late the polls come: the seconds between the report and  *)
(* the poll that retires it are counted, and none is counted twice.             *)
AgeIsTrue ==
  \A e \in Entries :
    LET a == s.report[e].age * SECOND + s.phase IN
    ~(s.sent /\ s.pending = e) =>
      /\ since[e] <= a \/ s.report[e].age = AGE_MAX
      /\ a - since[e] < SECOND + (IF since[e] = SINCE_MAX THEN LATE * SECOND ELSE 0)

(* A request answered MALFORMED, however many good records precede the bad one, *)
(* leaves every reporting configuration alone and does not start identifying.   *)
Configurations == [e \in Entries |-> <<s.report[e].min, s.report[e].max, s.report[e].change>>]
WholeOrNothing ==
  [][resp' # resp /\ resp' = Answer("DEFAULT", "MALFORMED") =>
       Configurations' = Configurations /\ s'.identify <= s.identify]_zvars
==============================================================================
