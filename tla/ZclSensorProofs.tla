--------------------------- MODULE ZclSensorProofs ---------------------------
(* Theorems of ZclSensor: reports are compared with what was last told, ages     *)
(* are true, and a malformed request changes nothing.                            *)
EXTENDS ZclSensor, WellFoundedInduction, TLAPS

SensorFields == {"report", "bound", "basic", "pending", "sent", "value", "identify", "measured",
                 "sensed", "phase"}
ReportFields == {"min", "max", "change", "last", "age"}

-------------------------------------------------------------------------------
(*** Numbers.                                                                 ***)

\* A set of naturals that is not empty has a least element.
LEMMA LeastIsIn ==
  ASSUME NEW T, T \subseteq Nat, T # {}
  PROVE  Min(T) \in T
<1>1. \E x \in T : \A y \in T : ~(<<y, x>> \in OpToRel(<, Nat))
  BY NatLessThanWellFounded, WFMin
<1>2. PICK x \in T : \A y \in T : ~(<<y, x>> \in OpToRel(<, Nat))
  BY <1>1
<1>3. \A y \in T : <<y, x>> \in Nat \X Nat
  OBVIOUS
<1>4. \A y \in T : ~(y < x)
  BY <1>2, <1>3 DEF OpToRel
<1>5. \A y \in T : x <= y
  BY <1>4
<1> QED
  BY <1>2, <1>5 DEF Min

\* And a greatest, if it is bounded.
LEMMA GreatestIsIn ==
  ASSUME NEW n \in Nat, NEW T, T \subseteq 1 .. n, T # {}
  PROVE  Max(T) \in T
<1> DEFINE D == {n - x : x \in T}
<1>0. \A x \in T : n - x \in Nat
  OBVIOUS
<1>1. D \subseteq Nat /\ D # {}
  BY <1>0
<1> HIDE DEF D
<1>2. \E x \in D : \A y \in D : ~(<<y, x>> \in OpToRel(<, Nat))
  BY <1>1, NatLessThanWellFounded, WFMin
<1>3. PICK d \in D : \A y \in D : ~(<<y, d>> \in OpToRel(<, Nat))
  BY <1>2
<1>4. \A y \in D : <<y, d>> \in Nat \X Nat
  BY <1>1
<1>5. \A y \in D : ~(y < d)
  BY <1>3, <1>4 DEF OpToRel
<1>6. PICK x \in T : d = n - x
  BY <1>3 DEF D
<1>7. \A y \in T : n - y \in D
  BY DEF D
<1>8. \A y \in T : x >= y
  BY <1>5, <1>6, <1>7
<1> QED
  BY <1>8 DEF Max

\* The greater and the lesser of two numbers.
LEMMA TwoOf ==
  ASSUME NEW a \in Int, NEW b \in Int
  PROVE  /\ Max({a, b}) = IF a >= b THEN a ELSE b
         /\ Min({a, b}) = IF a <= b THEN a ELSE b
  BY DEF Max, Min

\* What division with remainder gives.
LEMMA Divided ==
  ASSUME NEW n \in Nat, NEW d \in Nat \ {0}
  PROVE  /\ n \div d \in Nat /\ n % d \in Nat /\ n % d < d
         /\ n = (n \div d) * d + (n % d)
  OBVIOUS

\* Multiplication of naturals, for counting ticks in whole seconds.
LEMMA Products ==
  ASSUME NEW a \in Nat, NEW b \in Nat, NEW d \in Nat
  PROVE  /\ a * d \in Nat /\ (a + b) * d = a * d + b * d
         /\ a <= b => a * d <= b * d
  OBVIOUS
-------------------------------------------------------------------------------
(*** The invariant.                                                           ***)

IsReport(r) == r = [f \in ReportFields |-> r[f]] /\ r.age \in Nat /\ r.age <= AGE_MAX
IsSensor(st) ==
  /\ st = [f \in SensorFields |-> st[f]]
  /\ st.report = [e \in Entries |-> st.report[e]] /\ \A e \in Entries : IsReport(st.report[e])
  /\ st.sent \in BOOLEAN /\ st.pending \in Entries \cup {BASIC} /\ st.identify \in Nat
  /\ st.phase \in Nat /\ st.phase <= LATE * SECOND

\* The report that is on its way is of e, and is not recorded yet.
Sending(st, e) == st.sent /\ st.pending = e

\* The value a report is compared with is what was told, or will be when the
\* report that is on its way is retired.
Recorded(st, w) ==
  \A e \in Entries : /\ ~Sending(st, e) => st.report[e].last = w[e]
                     /\ Sending(st, e) => st.value = w[e]

\* An age and the part of a second that is not counted yet, against the time n
\* since the report.
AgeFits(age, phase, n) ==
  /\ n <= age * SECOND + phase \/ age = AGE_MAX
  /\ age * SECOND + phase - n < SECOND
\* A report on its way was sent since the last poll but one second at most.
Aged(st, w) ==
  \A e \in Entries : /\ ~Sending(st, e) => AgeFits(st.report[e].age, st.phase, w[e])
                     /\ Sending(st, e) => AgeFits(0, st.phase, w[e]) /\ w[e] <= st.phase

\* The inductive invariant.
SensorInv ==
  /\ IsSensor(s) /\ Recorded(s, told) /\ Aged(s, since)
  /\ told = [e \in Entries |-> told[e]] /\ since \in [Entries -> Nat]
  /\ \A e \in Entries : since[e] <= SINCE_MAX
  /\ rx \in Requests \cup {NoFrame}

-------------------------------------------------------------------------------
(*** zcl_sensor_tick.                                                         ***)

\* The report that was on its way is recorded.
LEMMA RetiredIs ==
  ASSUME NEW st, NEW w, NEW n, IsSensor(st), Recorded(st, w), Aged(st, n)
  PROVE  LET d == Retired(st) IN
         /\ IsSensor(d) /\ Recorded(d, w) /\ Aged(d, n) /\ d.sent = FALSE
         /\ d.phase = st.phase /\ d.identify = st.identify
         /\ \A e \in Entries : /\ d.report[e].min = st.report[e].min
                               /\ d.report[e].max = st.report[e].max
                               /\ d.report[e].change = st.report[e].change
<1> DEFINE d == Retired(st)
<1>1. CASE ~st.sent
  <2>1. d = st
    BY <1>1 DEF Retired
  <2> HIDE DEF d
  <2>2. st.sent = FALSE
    BY <1>1 DEF IsSensor
  <2> QED
    BY <2>1, <2>2 DEF d
<1>2. CASE st.sent /\ st.pending = BASIC
  <2>1. d = [st EXCEPT !.sent = FALSE, !.basic = FALSE]
    BY <1>2 DEF Retired
  <2> HIDE DEF d
  <2>2. /\ d = [f \in SensorFields |-> d[f]] /\ d.sent = FALSE /\ d.report = st.report
        /\ d.pending = st.pending /\ d.identify = st.identify /\ d.phase = st.phase
    BY <2>1 DEF IsSensor, SensorFields
  <2>3. IsSensor(d)
    BY <2>2 DEF IsSensor
  <2>4. \A e \in Entries : ~Sending(st, e) /\ ~Sending(d, e)
    BY <1>2, <2>2, SensorConstants DEF Sending, BASIC, Entries
  <2>5. Recorded(d, w)
    BY <2>2, <2>4 DEF Recorded
  <2>6. Aged(d, n)
    BY <2>2, <2>4 DEF Aged
  <2> QED
    BY <2>2, <2>3, <2>5, <2>6 DEF d
<1>3. CASE st.sent /\ st.pending # BASIC
  <2> DEFINE p == st.pending
             r == [st.report[p] EXCEPT !.last = st.value, !.age = 0]
  <2>0. p \in Entries
    BY <1>3 DEF IsSensor
  <2>1. p \in DOMAIN st.report
    BY <2>0 DEF IsSensor
  <2>2. /\ r = [f \in ReportFields |-> r[f]] /\ r.last = st.value /\ r.age = 0
        /\ r.min = st.report[p].min /\ r.max = st.report[p].max /\ r.change = st.report[p].change
    <3>1. IsReport(st.report[p])
      BY <2>0 DEF IsSensor
    <3>2. \A x, v : IsReport(x) => LET y == [x EXCEPT !.last = v, !.age = 0] IN
            /\ y = [f \in ReportFields |-> y[f]] /\ y.last = v /\ y.age = 0
            /\ y.min = x.min /\ y.max = x.max /\ y.change = x.change
      BY DEF IsReport, ReportFields
    <3> QED
      BY <3>1, <3>2
  <2>3. /\ d = [f \in SensorFields |-> d[f]] /\ d.sent = FALSE
        /\ d.report = [st.report EXCEPT ![p] = r]
        /\ d.pending = p /\ d.identify = st.identify /\ d.phase = st.phase
    <3>1. d = [st EXCEPT !.sent = FALSE, !.report[p] = [@ EXCEPT !.last = st.value, !.age = 0]]
      BY <1>3, Zenon DEF Retired
    <3> HIDE DEF d
    <3>2. /\ d = [f \in SensorFields |-> d[f]] /\ d.sent = FALSE
          /\ d.pending = p /\ d.identify = st.identify /\ d.phase = st.phase
      BY <3>1 DEF IsSensor, SensorFields
    <3>3. d.report = [st.report EXCEPT ![p] = r]
      BY <2>1, <3>1 DEF IsSensor, SensorFields
    <3> QED
      BY <3>2, <3>3
  <2> HIDE DEF d, r
  <2>4. /\ d.report = [e \in Entries |-> d.report[e]] /\ d.report[p] = r
        /\ \A e \in Entries : e # p => d.report[e] = st.report[e]
    BY <2>0, <2>3 DEF IsSensor
  <2>5. IsReport(r)
    BY <2>2, SensorConstants DEF IsReport
  <2>6. IsSensor(d)
    BY <2>3, <2>4, <2>5 DEF IsSensor
  <2>7. \A e \in Entries : ~Sending(d, e) /\ (Sending(st, e) <=> e = p)
    BY <1>3, <2>3 DEF Sending
  <2>8. Recorded(d, w)
    BY <2>0, <2>2, <2>4, <2>7 DEF Recorded
  <2>9. Aged(d, n)
    BY <2>0, <2>2, <2>3, <2>4, <2>7 DEF Aged
  <2> QED
    BY <2>0, <2>2, <2>3, <2>4, <2>6, <2>8, <2>9 DEF d
<1> QED
  BY <1>1, <1>2, <1>3

\* The seconds that have passed are counted.
LEMMA CountedIs ==
  ASSUME NEW st, NEW w, NEW n, IsSensor(st), Recorded(st, w), Aged(st, n), st.sent = FALSE,
         n \in [Entries -> Nat]
  PROVE  LET d == Counted(st) IN
         /\ IsSensor(d) /\ Recorded(d, w) /\ Aged(d, n) /\ d.sent = FALSE
         /\ d.phase < SECOND /\ d.identify <= st.identify
         /\ \A e \in Entries : /\ d.report[e].min = st.report[e].min
                               /\ d.report[e].max = st.report[e].max
                               /\ d.report[e].change = st.report[e].change
<1> DEFINE k == st.phase \div SECOND
           R(e) == [st.report[e] EXCEPT !.age = Min({AGE_MAX, @ + k})]
           d == Counted(st)
<1>1. /\ k \in Nat /\ st.phase % SECOND \in Nat /\ st.phase % SECOND < SECOND
      /\ st.phase = k * SECOND + (st.phase % SECOND)
  BY SensorConstants, Divided DEF IsSensor
<1>2. /\ d = [f \in SensorFields |-> d[f]] /\ d.sent = st.sent /\ d.pending = st.pending
      /\ d.phase = st.phase % SECOND /\ d.identify = Max({0, st.identify - k})
      /\ d.report = [e \in Entries |-> R(e)]
  BY DEF Counted, IsSensor, SensorFields
<1> HIDE DEF k
<1>a. AGE_MAX \in Nat /\ SECOND \in Nat /\ LATE \in Nat
  BY SensorConstants
<1>3. ASSUME NEW e \in Entries
      PROVE  LET r == R(e) IN
             /\ IsReport(r) /\ r.last = st.report[e].last /\ r.min = st.report[e].min
             /\ r.max = st.report[e].max /\ r.change = st.report[e].change
             /\ r.age = IF AGE_MAX <= st.report[e].age + k THEN AGE_MAX ELSE st.report[e].age + k
  <2> DEFINE x == st.report[e]
             m == Min({AGE_MAX, x.age + k})
  <2>1. IsReport(x)
    BY DEF IsSensor
  <2>a. x.age \in Nat
    BY <2>1 DEF IsReport
  <2>2. m = IF AGE_MAX <= x.age + k THEN AGE_MAX ELSE x.age + k
    <3>1. AGE_MAX \in Int /\ x.age + k \in Int
      BY <1>1, <1>a, <2>a
    <3> QED
      BY <3>1, TwoOf
  <2> HIDE DEF x, m
  <2>3. m \in Nat /\ m <= AGE_MAX
    BY <1>1, <1>a, <2>a, <2>2
  <2>4. R(e) = [x EXCEPT !.age = m]
    BY DEF x, m
  <2> HIDE DEF R
  <2>5. /\ IsReport(R(e)) /\ R(e).last = x.last /\ R(e).min = x.min /\ R(e).max = x.max
        /\ R(e).change = x.change /\ R(e).age = m
    BY <2>1, <2>3, <2>4 DEF IsReport, ReportFields
  <2> QED
    BY <2>2, <2>5 DEF x
<1> HIDE DEF R, d
<1>4. d.identify \in Nat /\ d.identify <= st.identify
  <2>1. st.identify \in Nat /\ st.identify - k \in Int /\ 0 \in Int
    BY <1>1 DEF IsSensor
  <2>2. Max({0, st.identify - k}) = IF 0 >= st.identify - k THEN 0 ELSE st.identify - k
    BY <2>1, TwoOf
  <2> QED
    BY <1>1, <1>2, <2>1, <2>2
<1>5. d.phase \in Nat /\ d.phase < SECOND /\ d.phase <= st.phase /\ d.phase <= LATE * SECOND
  <2>1. LATE * SECOND \in Nat /\ k * SECOND \in Nat
    BY <1>1, <1>a, Products
  <2>2. st.phase \in Nat /\ st.phase <= LATE * SECOND
    BY DEF IsSensor
  <2>3. d.phase \in Nat /\ d.phase < SECOND /\ st.phase = k * SECOND + d.phase
    BY <1>1, <1>2
  <2> QED
    BY <1>a, <2>1, <2>2, <2>3
<1>6. IsSensor(d)
  BY <1>2, <1>3, <1>4, <1>5 DEF IsSensor
<1>7. \A e \in Entries : ~Sending(d, e) /\ ~Sending(st, e)
  BY <1>2 DEF Sending
<1>8. Recorded(d, w)
  BY <1>2, <1>3, <1>7 DEF Recorded
<1>9. ASSUME NEW e \in Entries
      PROVE  AgeFits(d.report[e].age, d.phase, n[e])
  <2> DEFINE a == st.report[e].age
             b == d.report[e].age
             q == d.phase
  <2>1. AgeFits(a, st.phase, n[e]) /\ n[e] \in Nat
    BY <1>7 DEF Aged
  <2>2. a \in Nat /\ a <= AGE_MAX
    BY DEF IsSensor, IsReport
  <2>3. b = IF AGE_MAX <= a + k THEN AGE_MAX ELSE a + k
    BY <1>2, <1>3
  <2>4. st.phase = k * SECOND + q
    BY <1>1, <1>2
  <2> HIDE DEF a, b, q
  <2>5. k \in Nat /\ q \in Nat /\ SECOND \in Nat /\ AGE_MAX \in Nat
    BY <1>1, <1>5, SensorConstants DEF q
  <2>6. (a + k) * SECOND = a * SECOND + k * SECOND /\ a * SECOND \in Nat /\ k * SECOND \in Nat
    BY <2>2, <2>5, Products
  <2>7. b \in Nat /\ b <= a + k
    BY <2>2, <2>3, <2>5
  <2>8. b * SECOND <= (a + k) * SECOND /\ b * SECOND \in Nat
    <3>1. a + k \in Nat
      BY <2>2, <2>5
    <3> QED
      BY <2>5, <2>7, <3>1, Products
  <2>9. b * SECOND + q <= a * SECOND + st.phase
    BY <2>4, <2>5, <2>6, <2>8
  <2>10. b * SECOND + q - n[e] < SECOND
    <3>1. a * SECOND + st.phase - n[e] < SECOND
      BY <2>1 DEF AgeFits
    <3>2. st.phase \in Nat
      BY DEF IsSensor
    <3> QED
      BY <2>1, <2>5, <2>6, <2>8, <2>9, <3>1, <3>2
  <2>11. n[e] <= b * SECOND + q \/ b = AGE_MAX
    <3>1. CASE a = AGE_MAX
      BY <2>2, <2>3, <2>5, <3>1
    <3>2. CASE n[e] <= a * SECOND + st.phase /\ b # AGE_MAX
      <4>1. b = a + k
        BY <2>3, <3>2
      <4>2. b * SECOND + q = a * SECOND + st.phase
        BY <2>4, <2>5, <2>6, <4>1
      <4> QED
        BY <3>2, <4>2
    <3> QED
      BY <2>1, <3>1, <3>2 DEF AgeFits
  <2> QED
    BY <2>10, <2>11 DEF AgeFits, b, q
<1>10. Aged(d, n)
  BY <1>7, <1>9 DEF Aged
<1>11. \A e \in Entries : /\ d.report[e].min = st.report[e].min /\ d.report[e].max = st.report[e].max
                          /\ d.report[e].change = st.report[e].change
  BY <1>2, <1>3
<1> QED
  BY <1>2, <1>4, <1>5, <1>6, <1>8, <1>10, <1>11 DEF d
\* What a poll makes of the state before it looks at requests and reports.
Polled(d, st, w, n) ==
  /\ IsSensor(d) /\ Recorded(d, w) /\ Aged(d, n) /\ d.sent = FALSE
  /\ d.phase < SECOND /\ d.identify <= st.identify
  /\ \A e \in Entries : /\ d.report[e].min = st.report[e].min /\ d.report[e].max = st.report[e].max
                        /\ d.report[e].change = st.report[e].change

\* zcl_sensor_tick retires the report, counts and measures, in this order.
LEMMA TickedIs ==
  ASSUME SensorInv, NEW st \in Ticked
  PROVE  Polled(st, s, told, since)
<1> DEFINE b == Retired(s)
           c == Counted(b)
<1>0. IsSensor(s) /\ Recorded(s, told) /\ Aged(s, since) /\ since \in [Entries -> Nat]
  BY DEF SensorInv
<1>1. /\ IsSensor(b) /\ Recorded(b, told) /\ Aged(b, since) /\ b.sent = FALSE
      /\ b.identify = s.identify
      /\ \A e \in Entries : /\ b.report[e].min = s.report[e].min
                            /\ b.report[e].max = s.report[e].max
                            /\ b.report[e].change = s.report[e].change
  BY <1>0, RetiredIs
<1> HIDE DEF b
<1>2. /\ IsSensor(c) /\ Recorded(c, told) /\ Aged(c, since) /\ c.sent = FALSE
      /\ c.phase < SECOND /\ c.identify <= b.identify
      /\ \A e \in Entries : /\ c.report[e].min = b.report[e].min
                            /\ c.report[e].max = b.report[e].max
                            /\ c.report[e].change = b.report[e].change
  BY <1>0, <1>1, CountedIs
<1> HIDE DEF c
<1>3. Polled(c, s, told, since)
  BY <1>1, <1>2 DEF Polled
<1>4. st \in Measured(c)
  BY DEF Ticked, c, b
<1>5. CASE st = c
  BY <1>3, <1>5
<1>6. CASE \E r \in Readings : st = [c EXCEPT !.measured = 0, !.sensed = r]
  <2>1. PICK r \in Readings : st = [c EXCEPT !.measured = 0, !.sensed = r]
    BY <1>6
  <2>2. /\ st = [f \in SensorFields |-> st[f]] /\ st.sent = c.sent /\ st.report = c.report
        /\ st.pending = c.pending /\ st.identify = c.identify /\ st.phase = c.phase
        /\ st.value = c.value
    BY <1>2, <2>1 DEF IsSensor, SensorFields
  <2>3. IsSensor(st)
    BY <1>2, <2>2 DEF IsSensor
  <2>4. \A e \in Entries : ~Sending(st, e) /\ ~Sending(c, e)
    BY <1>2, <2>2 DEF Sending
  <2>5. Recorded(st, told)
    BY <1>2, <2>2, <2>4 DEF Recorded
  <2>6. Aged(st, since)
    BY <1>2, <2>2, <2>4 DEF Aged
  <2> QED
    BY <1>3, <2>2, <2>3, <2>5, <2>6 DEF Polled
<1> QED
  BY <1>4, <1>5, <1>6 DEF Measured

-------------------------------------------------------------------------------
(*** Requests.                                                                ***)

\* A request may change what is reported when, but not what was.
Unmoved(d, c) ==
  /\ IsSensor(d) /\ d.sent = c.sent /\ d.pending = c.pending /\ d.value = c.value
  /\ d.phase = c.phase
  /\ \A e \in Entries : d.report[e].last = c.report[e].last /\ d.report[e].age = c.report[e].age
\* And one that is refused as malformed changes nothing.
Handled(x, c) == Unmoved(x[1], c) /\ (x[2] = "MALFORMED" => x[1] = c)

\* Leaving the state as it is moves nothing.
LEMMA Untouched ==
  ASSUME NEW c, IsSensor(c)
  PROVE  Unmoved(c, c)
  BY DEF Unmoved

\* Setting the time to identify moves no report.
LEMMA IdentifySet ==
  ASSUME NEW c, IsSensor(c), NEW v \in Nat
  PROVE  Unmoved([c EXCEPT !.identify = v], c)
<1> DEFINE d == [c EXCEPT !.identify = v]
<1>1. /\ d = [f \in SensorFields |-> d[f]] /\ d.sent = c.sent /\ d.report = c.report
      /\ d.pending = c.pending /\ d.identify = v /\ d.phase = c.phase /\ d.value = c.value
  BY DEF IsSensor, SensorFields
<1> HIDE DEF d
<1>2. IsSensor(d)
  BY <1>1 DEF IsSensor
<1> QED
  BY <1>1, <1>2 DEF Unmoved, d

\* write(): of the good records the last sets the time.
LEMMA WriteIs ==
  ASSUME NEW c, IsSensor(c), NEW q \in Requests, q.cmd = "WRITE"
  PROVE  Handled(Write(c, q), c)
<1>1. CASE q.cut \/ Accepted(q) = {}
  <2>1. Write(c, q)[1] = c
    BY <1>1 DEF Write, Written
  <2> QED
    BY <2>1, Untouched DEF Handled
<1>2. CASE ~q.cut /\ Accepted(q) # {}
  <2> DEFINE T == Accepted(q)
             m == Len(q.records)
  <2>1. m \in Nat /\ DOMAIN q.records = 1 .. m /\ \A i \in DOMAIN q.records : q.records[i].value \in Nat
    BY SensorConstants
  <2>2. T \subseteq 1 .. m /\ T # {}
    BY <1>2, <2>1 DEF Accepted
  <2> HIDE DEF T, m
  <2>3. Max(T) \in T
    BY <2>1, <2>2, GreatestIsIn
  <2> DEFINE v == q.records[Max(T)].value
  <2>4. v \in Nat
    BY <2>1, <2>2, <2>3
  <2>5. Write(c, q) = <<[c EXCEPT !.identify = v], "BUILT">>
    BY <1>2 DEF Write, Written, T
  <2> HIDE DEF v
  <2>6. Unmoved([c EXCEPT !.identify = v], c)
    BY <2>4, IdentifySet
  <2> QED
    BY <2>5, <2>6 DEF Handled
<1> QED
  BY <1>1, <1>2

\* configure(): intervals and changes, never the value or the age.
LEMMA ConfigureIs ==
  ASSUME NEW c, IsSensor(c), NEW q
  PROVE  Handled(Configure(c, q), c)
<1> DEFINE N(e) == IF Configuring(q, e) = {} THEN c.report[e]
                   ELSE Configured(c.report[e], q.records[Max(Configuring(q, e))])
           d == [c EXCEPT !.report = [e \in Entries |-> N(e)]]
<1>1. CASE q.cut
  <2>1. Configure(c, q) = <<c, "MALFORMED">>
    BY <1>1 DEF Configure
  <2> QED
    BY <2>1, Untouched DEF Handled
<1>2. CASE ~q.cut
  <2>1. Configure(c, q) = <<d, "BUILT">>
    BY <1>2 DEF Configure
  <2>2. ASSUME NEW x, NEW y, IsReport(x)
        PROVE  LET z == Set(x, y) IN IsReport(z) /\ z.last = x.last /\ z.age = x.age
    BY <2>2 DEF Set, IsReport, ReportFields
  <2>3. \A e \in Entries : \E y : N(e) = c.report[e] \/ N(e) = Set(c.report[e], y)
    BY DEF Configured, Restored
  <2> HIDE DEF N
  <2>4. ASSUME NEW e \in Entries
        PROVE  IsReport(N(e)) /\ N(e).last = c.report[e].last /\ N(e).age = c.report[e].age
    <3>1. IsReport(c.report[e])
      BY DEF IsSensor
    <3>2. PICK y : N(e) = c.report[e] \/ N(e) = Set(c.report[e], y)
      BY <2>3
    <3> QED
      BY <2>2, <3>1, <3>2
  <2>5. /\ d = [f \in SensorFields |-> d[f]] /\ d.sent = c.sent /\ d.report = [e \in Entries |-> N(e)]
        /\ d.pending = c.pending /\ d.identify = c.identify /\ d.phase = c.phase /\ d.value = c.value
    BY DEF IsSensor, SensorFields
  <2> HIDE DEF d
  <2>6. IsSensor(d)
    BY <2>4, <2>5 DEF IsSensor
  <2>7. Unmoved(d, c)
    BY <2>4, <2>5, <2>6 DEF Unmoved
  <2> QED
    BY <2>1, <2>7 DEF Handled
<1> QED
  BY <1>1, <1>2

\* The Identify commands.
LEMMA SpecificIs ==
  ASSUME NEW c, IsSensor(c), NEW q \in Requests, q.cmd \in {"IDENTIFY", "QUERY"}
  PROVE  Handled(Specific(c, q), c)
<1>1. CASE q.cmd = "IDENTIFY" /\ ~q.cut
  <2>1. Specific(c, q) = <<[c EXCEPT !.identify = q.value], "SUCCESS">>
    BY <1>1 DEF Specific
  <2>2. q.value \in Nat
    BY <1>1, SensorConstants
  <2>3. Unmoved([c EXCEPT !.identify = q.value], c)
    BY <2>2, IdentifySet
  <2> QED
    BY <2>1, <2>3 DEF Handled
<1>2. CASE q.cmd # "IDENTIFY" \/ q.cut
  <2>1. Specific(c, q)[1] = c
    BY <1>2 DEF Specific
  <2> QED
    BY <2>1, Untouched DEF Handled
<1> QED
  BY <1>1, <1>2

Refusal == Answer("DEFAULT", "MALFORMED")
\* A request and what is answered to it.
Replied(x, c) == Unmoved(x[1], c) /\ (x[2] # resp /\ x[2] = Refusal => x[1] = c)

\* zcl(): every command is handled, and the refusal is for the malformed alone.
LEMMA ZclIs ==
  ASSUME NEW c, IsSensor(c), NEW q \in Requests
  PROVE  Replied(Zcl(c, q), c)
<1> DEFINE done == CASE q.cmd = "READ" -> Read(c, q)
                     [] q.cmd = "WRITE" -> Write(c, q)
                     [] q.cmd = "CONFIGURE" -> Configure(c, q)
                     [] q.cmd = "READ_CONFIGURATION" -> ReadConfiguration(c, q)
                     [] q.cmd \in {"IDENTIFY", "QUERY"} -> Specific(c, q)
                     [] OTHER -> <<c, "UNSUPPORTED">>
           y == IF done[2] = "BUILT" THEN Answer(q.cmd, "SUCCESS") ELSE Answer("DEFAULT", done[2])
<1>1. Handled(done, c)
  <2>1. CASE q.cmd = "WRITE"
    BY <2>1, WriteIs
  <2>2. CASE q.cmd = "CONFIGURE"
    BY <2>2, ConfigureIs
  <2>3. CASE q.cmd \in {"IDENTIFY", "QUERY"}
    BY <2>3, SpecificIs
  <2>4. CASE q.cmd \notin {"WRITE", "CONFIGURE", "IDENTIFY", "QUERY"}
    <3>1. done[1] = c
      BY <2>4 DEF Read, ReadConfiguration
    <3> QED
      BY <3>1, Untouched DEF Handled
  <2> QED
    BY <2>1, <2>2, <2>3, <2>4
<1>2. \/ Zcl(c, q) = <<c, resp>>
      \/ Zcl(c, q) = <<done[1], resp>>
      \/ Zcl(c, q) = <<done[1], y>>
  BY DEF Zcl
<1> HIDE DEF done
<1>3. y = Refusal => done[2] = "MALFORMED"
  BY DEF Answer, Refusal
<1> HIDE DEF y
<1>4. CASE Zcl(c, q) = <<c, resp>>
  BY <1>4, Untouched DEF Replied
<1>5. CASE Zcl(c, q) = <<done[1], resp>>
  BY <1>1, <1>5 DEF Replied, Handled
<1>6. CASE Zcl(c, q) = <<done[1], y>>
  BY <1>1, <1>3, <1>6 DEF Replied, Handled
<1> QED
  BY <1>2, <1>4, <1>5, <1>6

\* bind(): the table of bindings alone.
LEMMA BindIs ==
  ASSUME NEW c, IsSensor(c), NEW q, q.cmd \in {"BIND", "UNBIND"}
  PROVE  Replied(Bind(c, q), c)
<1>1. \E x, status : \/ Bind(c, q) = <<c, resp>>
                     \/ Bind(c, q) = <<c, Answer(q.cmd, status)>>
                     \/ Bind(c, q) = <<[c EXCEPT !.bound = x], Answer(q.cmd, status)>>
  <2>1. \A k, v : \E x : [c EXCEPT !.bound[k] = v] = [c EXCEPT !.bound = x]
    <3>1. \A k, v : [c EXCEPT !.bound[k] = v] = [c EXCEPT !.bound = [c.bound EXCEPT ![k] = v]]
      BY DEF IsSensor, SensorFields
    <3> QED
      BY <3>1
  <2> QED
    BY <2>1 DEF Bind
<1>2. PICK x, status : \/ Bind(c, q) = <<c, resp>>
                       \/ Bind(c, q) = <<c, Answer(q.cmd, status)>>
                       \/ Bind(c, q) = <<[c EXCEPT !.bound = x], Answer(q.cmd, status)>>
  BY <1>1
<1>3. Answer(q.cmd, status) # Refusal
  BY DEF Answer, Refusal
<1> DEFINE d == [c EXCEPT !.bound = x]
<1>4. /\ d = [f \in SensorFields |-> d[f]] /\ d.sent = c.sent /\ d.report = c.report
      /\ d.pending = c.pending /\ d.identify = c.identify /\ d.phase = c.phase /\ d.value = c.value
  BY DEF IsSensor, SensorFields
<1> HIDE DEF d
<1>5. IsSensor(d)
  BY <1>4 DEF IsSensor
<1>6. Unmoved(d, c) /\ Unmoved(c, c)
  BY <1>4, <1>5, Untouched DEF Unmoved
<1> QED
  BY <1>2, <1>3, <1>6 DEF Replied, d

\* Every application frame is answered with the reports unmoved.
LEMMA ServedIs ==
  ASSUME NEW c, IsSensor(c), NEW q \in Requests
  PROVE  Replied(Served(c, q), c)
<1>1. CASE q.cmd \in {"BIND", "UNBIND"}
  BY <1>1, BindIs DEF Served
<1>2. CASE q.cmd \in {"FOREIGN", "MGMT_BIND"}
  <2>1. \/ Served(c, q) = <<c, resp>>
        \/ \E page : Served(c, q) = <<c, Answer("MGMT_BIND", page)>>
    BY <1>2 DEF Served, ManagementBind
  <2>2. \A page : Answer("MGMT_BIND", page) # Refusal
    BY DEF Answer, Refusal
  <2> QED
    BY <2>1, <2>2, Untouched DEF Replied
<1>3. CASE q.cmd \notin {"BIND", "UNBIND", "FOREIGN", "MGMT_BIND"}
  BY <1>3, ZclIs DEF Served
<1> QED
  BY <1>1, <1>2, <1>3

\* What is neither moved nor sent stays recorded and aged.
LEMMA UnmovedKeeps ==
  ASSUME NEW d, NEW c, Unmoved(d, c), NEW w, NEW n, Recorded(c, w), Aged(c, n)
  PROVE  Recorded(d, w) /\ Aged(d, n)
<1>1. \A e \in Entries : Sending(d, e) <=> Sending(c, e)
  BY DEF Sending, Unmoved
<1>2. Recorded(d, w)
  BY <1>1 DEF Recorded, Unmoved
<1>3. Aged(d, n)
  BY <1>1 DEF Aged, Unmoved
<1> QED
  BY <1>2, <1>3
-------------------------------------------------------------------------------
(*** Reports.                                                                 ***)

\* report(): an attribute that is due is chosen with its present value.
Chosen(b, c) ==
  /\ IsSensor(b) /\ b.sent = c.sent /\ b.report = c.report /\ b.phase = c.phase
  /\ b.identify = c.identify
  /\ HasReport(c) /\ b.pending # BASIC => b.value = ValueOf(c, b.pending)

\* What report() leaves behind, with and without an attribute that is due.
LEMMA BuiltIs ==
  ASSUME NEW c, IsSensor(c)
  PROVE  Chosen(Built(c), c)
<1> DEFINE looked == {e \in Entries : c.bound[Cluster(e)] # 0}
           due == {e \in looked : Due(c, e)}
           b == Built(c)
<1>0. Entries \subseteq Nat
  BY SensorConstants DEF Entries
<1>1. CASE c.basic
  <2>1. b = [c EXCEPT !.pending = BASIC]
    BY <1>1 DEF Built
  <2> HIDE DEF b
  <2>2. /\ b = [f \in SensorFields |-> b[f]] /\ b.sent = c.sent /\ b.report = c.report
        /\ b.pending = BASIC /\ b.identify = c.identify /\ b.phase = c.phase
    BY <2>1 DEF IsSensor, SensorFields
  <2>3. IsSensor(b)
    BY <2>2 DEF IsSensor
  <2> QED
    BY <2>2, <2>3 DEF Chosen, b
<1>2. CASE ~c.basic /\ due # {}
  <2> DEFINE m == Min(due)
  <2>1. b = [c EXCEPT !.pending = m, !.value = ValueOf(c, m)]
    BY <1>2 DEF Built
  <2>2. due \subseteq Nat /\ due \subseteq Entries
    BY <1>0
  <2> HIDE DEF b, due
  <2>3. m \in Entries
    BY <1>2, <2>2, LeastIsIn
  <2> HIDE DEF m
  <2>4. /\ b = [f \in SensorFields |-> b[f]] /\ b.sent = c.sent /\ b.report = c.report
        /\ b.pending = m /\ b.identify = c.identify /\ b.phase = c.phase /\ b.value = ValueOf(c, m)
    BY <2>1 DEF IsSensor, SensorFields
  <2>5. IsSensor(b)
    BY <2>3, <2>4 DEF IsSensor
  <2> QED
    BY <2>4, <2>5 DEF Chosen, b
<1>3. CASE ~c.basic /\ due = {}
  <2>1. ~HasReport(c)
    BY <1>3 DEF HasReport
  <2>2. \E v : b = c \/ b = [c EXCEPT !.value = v]
    BY <1>3 DEF Built
  <2> HIDE DEF b
  <2>3. PICK v : b = c \/ b = [c EXCEPT !.value = v]
    BY <2>2
  <2>4. /\ b = [f \in SensorFields |-> b[f]] /\ b.sent = c.sent /\ b.report = c.report
        /\ b.pending = c.pending /\ b.identify = c.identify /\ b.phase = c.phase
    BY <2>3 DEF IsSensor, SensorFields
  <2>5. IsSensor(b)
    BY <2>4 DEF IsSensor
  <2> QED
    BY <2>1, <2>4, <2>5 DEF Chosen, b
<1> QED
  BY <1>1, <1>2, <1>3

\* While nothing is on its way only the reports and the phase matter.
LEMMA SettledKeeps ==
  ASSUME NEW d, NEW c, NEW w, NEW n, Recorded(c, w), Aged(c, n), c.sent = FALSE, d.sent = FALSE,
         d.report = c.report, d.phase = c.phase
  PROVE  Recorded(d, w) /\ Aged(d, n)
<1>1. \A e \in Entries : ~Sending(d, e) /\ ~Sending(c, e)
  BY DEF Sending
<1> QED
  BY <1>1 DEF Recorded, Aged

-------------------------------------------------------------------------------
(*** The actions.                                                             ***)

\* zcl_sensor_init() establishes the invariant.
LEMMA ZInitHolds == ZInit => SensorInv
<1> SUFFICES ASSUME ZInit PROVE SensorInv
  OBVIOUS
<1>1. PICK r \in Readings, c \in [Entries \ Sensed -> Values] :
    LET first(e) == IF e \in Sensed THEN r[e] ELSE c[e] IN
    /\ s = [report |-> [e \in Entries |-> [min |-> Defaults[e].min, max |-> Defaults[e].max,
                          change |-> Defaults[e].change, last |-> first(e), age |-> 0]],
            bound |-> [k \in Clusters |-> 1], basic |-> TRUE, pending |-> 0, sent |-> FALSE,
            value |-> 0, identify |-> 0, measured |-> 0, sensed |-> r, phase |-> 0]
    /\ clocked = c /\ told = [e \in Entries |-> first(e)]
    /\ since = [e \in Entries |-> 0] /\ used = [time |-> 0, frames |-> 0]
    /\ rx = NoFrame /\ resp = NoAnswer /\ tx = "IDLE" /\ gate = "READY"
  BY Zenon DEF ZInit
<1> DEFINE first(e) == IF e \in Sensed THEN r[e] ELSE c[e]
           R(e) == [min |-> Defaults[e].min, max |-> Defaults[e].max,
                    change |-> Defaults[e].change, last |-> first(e), age |-> 0]
<1>2. /\ s = [f \in SensorFields |-> s[f]] /\ s.sent = FALSE /\ s.report = [e \in Entries |-> R(e)]
      /\ s.pending = 0 /\ s.identify = 0 /\ s.phase = 0
      /\ told = [e \in Entries |-> first(e)] /\ since = [e \in Entries |-> 0] /\ rx = NoFrame
  BY <1>1 DEF SensorFields
<1> HIDE DEF first
<1>3. \A e \in Entries : IsReport(R(e)) /\ R(e).last = first(e) /\ R(e).age = 0
  BY SensorConstants DEF IsReport, ReportFields
<1> HIDE DEF R
<1>a. LATE * SECOND \in Nat /\ SECOND \in Nat \ {0} /\ AGE_MAX \in Nat /\ LATE \in Nat
  BY SensorConstants, Products
<1>4. IsSensor(s)
  <2>1. 0 \in Entries \cup {BASIC}
    BY SensorConstants DEF Entries, BASIC
  <2>2. \A e \in Entries : s.report[e] = R(e)
    BY <1>2
  <2>3. s.report = [e \in Entries |-> s.report[e]] /\ \A e \in Entries : IsReport(s.report[e])
    BY <1>2, <1>3, <2>2
  <2>4. s.phase <= LATE * SECOND
    <3> DEFINE x == LATE * SECOND
    <3>1. x \in Nat
      BY <1>a
    <3> HIDE DEF x
    <3>2. s.phase <= x
      BY <1>2, <3>1
    <3> QED
      BY <3>2 DEF x
  <2>5. s.sent \in BOOLEAN /\ s.pending \in Entries \cup {BASIC} /\ s.identify \in Nat /\ s.phase \in Nat
    <3>1. s.sent = FALSE /\ s.pending = 0 /\ s.identify = 0 /\ s.phase = 0
      BY <1>2
    <3>2. FALSE \in BOOLEAN /\ 0 \in Nat
      OBVIOUS
    <3> QED
      BY <2>1, <3>1, <3>2, Zenon
  <2>6. s = [f \in SensorFields |-> s[f]]
    BY <1>2
  <2> HIDE DEF R
  <2> QED
    BY <2>3, <2>4, <2>5, <2>6 DEF IsSensor
<1>5. \A e \in Entries : ~Sending(s, e)
  BY <1>2 DEF Sending
<1>6. Recorded(s, told)
  BY <1>2, <1>3, <1>5 DEF Recorded
<1>7. AgeFits(0, 0, 0)
  BY <1>a DEF AgeFits
<1>8. Aged(s, since)
  BY <1>2, <1>3, <1>5, <1>7 DEF Aged
<1>9. \A e \in Entries : since[e] <= SINCE_MAX
  <2>1. SINCE_MAX \in Nat
    <3>1. AGE_MAX + LATE + 2 \in Nat
      BY <1>a
    <3> QED
      BY <1>a, <3>1, Products DEF SINCE_MAX
  <2> QED
    BY <1>2, <2>1
<1> QED
  BY <1>2, <1>4, <1>6, <1>8, <1>9 DEF SensorInv

\* What does not touch the sensor keeps the invariant.
LEMMA OthersKeep ==
  ASSUME SensorInv, UNCHANGED <<s, told, since>>, rx' \in Requests \cup {NoFrame}
  PROVE  SensorInv'
  BY DEF SensorInv

\* A poll of serve() that answers a request.
LEMMA ServeRequestKeeps == SensorInv /\ ServeRequest => SensorInv'
<1> SUFFICES ASSUME SensorInv, ServeRequest PROVE SensorInv'
  OBVIOUS
<1>1. PICK st \in Ticked : /\ rx # NoFrame /\ s' = Served(st, rx)[1] /\ rx' = NoFrame
                           /\ told' = told /\ since' = since
  BY DEF ServeRequest
<1>2. Polled(st, s, told, since)
  BY TickedIs
<1>3. IsSensor(st) /\ Recorded(st, told) /\ Aged(st, since)
  BY <1>2 DEF Polled
<1>4. Replied(Served(st, rx), st)
  BY <1>1, <1>3, ServedIs DEF SensorInv
<1>5. Unmoved(s', st)
  BY <1>1, <1>4 DEF Replied
<1>6. IsSensor(s') /\ Recorded(s', told) /\ Aged(s', since)
  BY <1>3, <1>5, UnmovedKeeps DEF Unmoved
<1> QED
  BY <1>1, <1>6 DEF SensorInv

\* A poll that has nothing to send, or waits for a transmission to end.
LEMMA ServeIdleKeeps == SensorInv /\ ServeIdle => SensorInv'
<1> SUFFICES ASSUME SensorInv, ServeIdle PROVE SensorInv'
  OBVIOUS
<1>1. PICK st \in Ticked : /\ s' = st \/ s' = Built(st)
                           /\ told' = told /\ since' = since /\ rx' = rx
  BY DEF ServeIdle
<1>2. Polled(st, s, told, since)
  BY TickedIs
<1>3. IsSensor(st) /\ Recorded(st, told) /\ Aged(st, since) /\ st.sent = FALSE
  BY <1>2 DEF Polled
<1>4. Chosen(Built(st), st)
  BY <1>3, BuiltIs
<1>5. IsSensor(s') /\ s'.sent = FALSE /\ s'.report = st.report /\ s'.phase = st.phase
  BY <1>1, <1>3, <1>4 DEF Chosen
<1>6. Recorded(s', told) /\ Aged(s', since)
  BY <1>3, <1>5, SettledKeeps
<1> QED
  BY <1>1, <1>5, <1>6 DEF SensorInv

\* A poll that offers a report: accepted, postponed or failed.
LEMMA ServeReportKeeps == SensorInv /\ ServeReport => SensorInv'
<1> SUFFICES ASSUME SensorInv, ServeReport PROVE SensorInv'
  OBVIOUS
<1>1. PICK st \in Ticked, result \in {"OK", "FULL", "FAILED"} :
        /\ HasReport(st) /\ rx' = rx
        /\ s' = [Built(st) EXCEPT !.sent = result = "OK"]
        /\ told' = IF result = "OK" /\ Built(st).pending # BASIC
                   THEN [told EXCEPT ![Built(st).pending] = ValueOf(st, Built(st).pending)] ELSE told
        /\ since' = IF result = "OK" /\ Built(st).pending # BASIC
                    THEN [since EXCEPT ![Built(st).pending] = 0] ELSE since
  BY Zenon DEF ServeReport
<1> DEFINE b == Built(st)
           p == b.pending
<1>2. Polled(st, s, told, since)
  BY TickedIs
<1>3. IsSensor(st) /\ Recorded(st, told) /\ Aged(st, since) /\ st.sent = FALSE /\ st.phase < SECOND
  BY <1>2 DEF Polled
<1>4. Chosen(b, st)
  BY <1>3, BuiltIs
<1> HIDE DEF b
<1>5. /\ IsSensor(b) /\ b.sent = FALSE /\ b.report = st.report /\ b.phase = st.phase
      /\ p # BASIC => b.value = ValueOf(st, p)
  BY <1>1, <1>3, <1>4 DEF Chosen
<1>6. /\ s' = [f \in SensorFields |-> s'[f]] /\ s'.sent = (result = "OK") /\ s'.report = b.report
      /\ s'.pending = p /\ s'.identify = b.identify /\ s'.phase = b.phase /\ s'.value = b.value
  BY <1>1, <1>5 DEF IsSensor, SensorFields, b
<1>7. IsSensor(s')
  BY <1>5, <1>6 DEF IsSensor
<1>8. Recorded(b, told) /\ Aged(b, since)
  BY <1>3, <1>5, SettledKeeps
<1>9. SINCE_MAX \in Nat
  <2>1. AGE_MAX + LATE + 2 \in Nat /\ SECOND \in Nat
    BY SensorConstants
  <2> QED
    BY <2>1, Products DEF SINCE_MAX
<1>10. CASE result = "OK" /\ p # BASIC
  <2>1. p \in Entries
    BY <1>5, <1>10 DEF IsSensor
  <2>2. told' = [told EXCEPT ![p] = ValueOf(st, p)] /\ since' = [since EXCEPT ![p] = 0]
    BY <1>1, <1>10 DEF b
  <2>3. /\ told' = [e \in Entries |-> told'[e]] /\ told'[p] = ValueOf(st, p)
        /\ \A e \in Entries : e # p => told'[e] = told[e]
    BY <2>1, <2>2 DEF SensorInv
  <2>4. /\ since' \in [Entries -> Nat] /\ since'[p] = 0
        /\ \A e \in Entries : e # p => since'[e] = since[e]
    BY <2>1, <2>2 DEF SensorInv
  <2>5. \A e \in Entries : (Sending(s', e) <=> e = p) /\ ~Sending(b, e)
    BY <1>5, <1>6, <1>10 DEF Sending
  <2>6. Recorded(s', told')
    BY <1>5, <1>6, <1>8, <1>10, <2>3, <2>5 DEF Recorded
  <2>7. AgeFits(0, s'.phase, 0) /\ 0 <= s'.phase
    <3>1. s'.phase \in Nat /\ s'.phase < SECOND /\ SECOND \in Nat
      BY <1>3, <1>5, <1>6, <1>7, SensorConstants DEF IsSensor
    <3>2. 0 * SECOND = 0
      BY <3>1
    <3> QED
      BY <3>1, <3>2 DEF AgeFits
  <2>8. Aged(s', since')
    BY <1>5, <1>6, <1>8, <2>4, <2>5, <2>7 DEF Aged
  <2>9. \A e \in Entries : since'[e] <= SINCE_MAX
    BY <1>9, <2>4 DEF SensorInv
  <2> QED
    BY <1>1, <1>7, <2>3, <2>4, <2>6, <2>8, <2>9 DEF SensorInv
<1>11. CASE ~(result = "OK" /\ p # BASIC)
  <2>1. told' = told /\ since' = since
    BY <1>1, <1>11 DEF b
  <2>2. \A e \in Entries : ~Sending(s', e) /\ ~Sending(b, e)
    <3>1. BASIC \notin Entries
      BY SensorConstants DEF Entries, BASIC
    <3>2. s'.sent => s'.pending = BASIC
      BY <1>6, <1>11
    <3> QED
      BY <1>5, <3>1, <3>2 DEF Sending
  <2>3. Recorded(s', told) /\ Aged(s', since)
    BY <1>6, <1>8, <2>2 DEF Recorded, Aged
  <2> QED
    BY <1>1, <1>7, <2>1, <2>3 DEF SensorInv
<1> QED
  BY <1>10, <1>11

\* A tick of the clock, counted or beyond what the history counts.
LEMMA AgePasses ==
  ASSUME NEW x \in Nat, x <= AGE_MAX, NEW p \in Nat, p < LATE * SECOND, NEW n \in Nat,
         AgeFits(x, p, n)
  PROVE  LET m == Min({SINCE_MAX, n + 1}) IN
         m \in Nat /\ m <= SINCE_MAX /\ m <= n + 1 /\ AgeFits(x, p + 1, m)
<1> DEFINE m == Min({SINCE_MAX, n + 1})
           X == x * SECOND
           A == AGE_MAX * SECOND
           L == LATE * SECOND
<1>0. AGE_MAX \in Nat /\ SECOND \in Nat \ {0} /\ LATE \in Nat
  BY SensorConstants
<1>1. X \in Nat /\ A \in Nat /\ L \in Nat /\ X <= A /\ p < L
  BY <1>0, Products
<1>2. SINCE_MAX = A + L + 2 * SECOND
  BY <1>0 DEF SINCE_MAX
<1>3. (n <= X + p \/ x = AGE_MAX) /\ X + p - n < SECOND
  BY DEF AgeFits
<1> HIDE DEF X, A, L
<1>4. SINCE_MAX \in Nat /\ SINCE_MAX \in Int /\ n + 1 \in Int
  BY <1>0, <1>1, <1>2
<1>5. m = IF SINCE_MAX <= n + 1 THEN SINCE_MAX ELSE n + 1
  BY <1>4, TwoOf
<1> HIDE DEF m
<1>6. m \in Nat /\ m <= SINCE_MAX /\ m <= n + 1
  BY <1>4, <1>5
<1>7. m <= X + (p + 1) \/ x = AGE_MAX
  BY <1>1, <1>3, <1>6
<1>8. X + (p + 1) - m < SECOND
  BY <1>0, <1>1, <1>2, <1>3, <1>4, <1>5
<1>9. AgeFits(x, p + 1, m)
  BY <1>7, <1>8 DEF AgeFits, X
<1> QED
  BY <1>6, <1>9 DEF m

\* Time passes for the sensor and for the history alike.
LEMMA PassKeeps == SensorInv /\ Pass => SensorInv'
<1> SUFFICES ASSUME SensorInv, Pass PROVE SensorInv'
  OBVIOUS
<1>1. /\ s.phase < LATE * SECOND /\ s' = [s EXCEPT !.phase = @ + 1]
      /\ since' = [e \in Entries |-> Min({SINCE_MAX, since[e] + 1})] /\ rx' = rx /\ told' = told
  BY DEF Pass
<1>2. IsSensor(s) /\ Recorded(s, told) /\ Aged(s, since) /\ since \in [Entries -> Nat]
  BY DEF SensorInv
<1>3. s.phase \in Nat
  BY <1>2 DEF IsSensor
<1>4. /\ s' = [f \in SensorFields |-> s'[f]] /\ s'.sent = s.sent /\ s'.report = s.report
      /\ s'.pending = s.pending /\ s'.identify = s.identify /\ s'.value = s.value
      /\ s'.phase = s.phase + 1
  BY <1>1, <1>2 DEF IsSensor, SensorFields
<1>5. s'.phase \in Nat /\ s'.phase <= LATE * SECOND
  <2>1. LATE * SECOND \in Nat
    BY SensorConstants, Products
  <2> QED
    BY <1>1, <1>3, <1>4, <2>1
<1>6. IsSensor(s')
  BY <1>2, <1>4, <1>5 DEF IsSensor
<1>7. \A e \in Entries : Sending(s', e) <=> Sending(s, e)
  BY <1>4 DEF Sending
<1>8. Recorded(s', told)
  BY <1>2, <1>4, <1>7 DEF Recorded
<1>9. ASSUME NEW e \in Entries
      PROVE  /\ since'[e] \in Nat /\ since'[e] <= SINCE_MAX
             /\ ~Sending(s', e) => AgeFits(s'.report[e].age, s'.phase, since'[e])
             /\ Sending(s', e) => AgeFits(0, s'.phase, since'[e]) /\ since'[e] <= s'.phase
  <2> DEFINE m == Min({SINCE_MAX, since[e] + 1})
             a == s.report[e].age
  <2>1. since'[e] = m
    BY <1>1
  <2>2. a \in Nat /\ a <= AGE_MAX /\ 0 <= AGE_MAX
    <3>1. IsReport(s.report[e])
      BY <1>2 DEF IsSensor
    <3> QED
      BY <3>1, SensorConstants DEF IsReport
  <2>3. since[e] \in Nat
    BY <1>2
  <2> HIDE DEF a, m
  <2>4. CASE ~Sending(s, e)
    <3>1. AgeFits(a, s.phase, since[e])
      BY <1>2, <2>4 DEF Aged, a
    <3>2. m \in Nat /\ m <= SINCE_MAX /\ AgeFits(a, s.phase + 1, m)
      BY <1>1, <1>3, <2>2, <2>3, <3>1, AgePasses DEF m
    <3> QED
      BY <1>4, <1>7, <2>1, <2>4, <3>2 DEF a
  <2>5. CASE Sending(s, e)
    <3>1. AgeFits(0, s.phase, since[e]) /\ since[e] <= s.phase
      BY <1>2, <2>5 DEF Aged
    <3>2. m \in Nat /\ m <= SINCE_MAX /\ m <= since[e] + 1 /\ AgeFits(0, s.phase + 1, m)
      BY <1>1, <1>3, <2>2, <2>3, <3>1, AgePasses DEF m
    <3>3. m <= s.phase + 1
      BY <1>3, <2>3, <3>1, <3>2
    <3> QED
      BY <1>4, <1>7, <2>1, <2>5, <3>2, <3>3
  <2> QED
    BY <2>4, <2>5
<1>10. Aged(s', since')
  BY <1>9 DEF Aged
<1>11. since' \in [Entries -> Nat] /\ \A e \in Entries : since'[e] <= SINCE_MAX
  BY <1>1, <1>9
<1> QED
  BY <1>1, <1>6, <1>8, <1>10, <1>11 DEF SensorInv

-------------------------------------------------------------------------------
(*** The theorems.                                                            ***)

\* Every step keeps the invariant.
LEMMA StepKeeps == SensorInv /\ [ZNext]_zvars => SensorInv'
<1> SUFFICES ASSUME SensorInv, [ZNext]_zvars PROVE SensorInv'
  OBVIOUS
<1>1. CASE Arrive
  BY <1>1, OthersKeep DEF Arrive
<1>2. CASE Respond \/ Complete \/ UNCHANGED zvars
  <2>1. UNCHANGED <<s, told, since>> /\ rx' \in Requests \cup {NoFrame}
    BY <1>2 DEF Respond, Complete, zvars, SensorInv
  <2> QED
    BY <2>1, OthersKeep
<1> QED
  BY <1>1, <1>2, ServeRequestKeeps, ServeIdleKeeps, ServeReportKeeps, PassKeeps DEF ZNext

(* The invariant that the other theorems rest on, kept by every poll, request,  *)
(* report and tick: zcl_sensor_tick() and serve() of join_smoke.c.              *)
THEOREM SensorInductive == ZSpec => []SensorInv
<1> QED
  BY ZInitHolds, StepKeeps, PTL DEF ZSpec

(* zcl_sensor_tick() (zcl_sensor.c:676-702): whenever no report is on its way,  *)
(* each attribute is compared with the value that was last accepted for         *)
(* sending, whatever measurements, requests and refused reports came between.   *)
THEOREM ComparedWithTold == ZSpec => []ReportedIsRecorded
<1>1. SensorInv => ReportedIsRecorded
  BY DEF SensorInv, Recorded, Sending, ReportedIsRecorded
<1> QED
  BY <1>1, SensorInductive, PTL

(* The counting of seconds in zcl_sensor_tick() (zcl_sensor.c:676-702): an age  *)
(* is the time since the report it counts from, less than a second off, for     *)
(* every length of a second, limit of the age and lateness of the polls.        *)
THEOREM AgesAreTrue == ZSpec => []AgeIsTrue
<1>1. SensorInv => AgeIsTrue
  <2> SUFFICES ASSUME SensorInv, NEW e \in Entries, ~(s.sent /\ s.pending = e)
               PROVE  LET a == s.report[e].age * SECOND + s.phase IN
                      /\ since[e] <= a \/ s.report[e].age = AGE_MAX
                      /\ a - since[e] < SECOND + (IF since[e] = SINCE_MAX THEN LATE * SECOND ELSE 0)
    BY DEF AgeIsTrue
  <2> DEFINE x == s.report[e].age
             X == x * SECOND
             L == IF since[e] = SINCE_MAX THEN LATE * SECOND ELSE 0
  <2>1. AgeFits(x, s.phase, since[e])
    BY DEF SensorInv, Aged, Sending
  <2>2. x \in Nat /\ s.phase \in Nat /\ since[e] \in Nat
    BY DEF SensorInv, IsSensor, IsReport
  <2> HIDE DEF x
  <2>3. SECOND \in Nat /\ X \in Nat /\ L \in Nat
    BY <2>2, SensorConstants, Products
  <2>4. (since[e] <= X + s.phase \/ x = AGE_MAX) /\ X + s.phase - since[e] < SECOND
    BY <2>1 DEF AgeFits
  <2> HIDE DEF X, L
  <2>5. X + s.phase - since[e] < SECOND + L
    BY <2>2, <2>3, <2>4
  <2> DEFINE a == s.report[e].age * SECOND + s.phase
  <2>6. a = X + s.phase
    BY Zenon DEF x, X
  <2> HIDE DEF a
  <2>7. since[e] <= a \/ s.report[e].age = AGE_MAX
    BY <2>4, <2>6 DEF x
  <2>8. a - since[e] < SECOND + L
    BY <2>2, <2>3, <2>5, <2>6
  <2>9. L = IF since[e] = SINCE_MAX THEN LATE * SECOND ELSE 0
    BY DEF L
  <2>10. a - since[e] < SECOND + (IF since[e] = SINCE_MAX THEN LATE * SECOND ELSE 0)
    BY <2>8, <2>9
  <2> QED
    BY <2>7, <2>10 DEF a
<1> QED
  BY <1>1, SensorInductive, PTL

\* A step that answers MALFORMED serves a request, and leaves the settings alone.
LEMMA RefusedStep ==
  ASSUME SensorInv, [ZNext]_zvars, resp' # resp, resp' = Answer("DEFAULT", "MALFORMED")
  PROVE  Configurations' = Configurations /\ s'.identify <= s.identify
<1>1. Answer("DEFAULT", "MALFORMED") # NoAnswer
  BY DEF Answer, NoAnswer
<1>2. ServeRequest
  BY <1>1 DEF ZNext, ServeIdle, ServeReport, Pass, Arrive, Respond, Complete, zvars
<1>3. PICK st \in Ticked :
        rx # NoFrame /\ s' = Served(st, rx)[1] /\ resp' = Served(st, rx)[2]
  BY <1>2 DEF ServeRequest
<1>4. Polled(st, s, told, since)
  BY TickedIs
<1>5. Replied(Served(st, rx), st)
  BY <1>3, <1>4, ServedIs DEF Polled, SensorInv
<1>6. s' = st
  BY <1>3, <1>5 DEF Replied, Refusal
<1>7. \A e \in Entries : /\ s'.report[e].min = s.report[e].min /\ s'.report[e].max = s.report[e].max
                         /\ s'.report[e].change = s.report[e].change
  BY <1>4, <1>6 DEF Polled
<1>8. Configurations' = Configurations
  BY <1>7 DEF Configurations
<1> QED
  BY <1>4, <1>6, <1>8 DEF Polled

(* The two passes of write(), configure() and the payload checks of zcl()       *)
(* (zcl_sensor.c:367-435): a request that is answered MALFORMED has changed no  *)
(* reporting configuration and started no identification.                       *)
THEOREM MalformedChangesNothing == ZSpec => WholeOrNothing
<1>1. SensorInv /\ [ZNext]_zvars =>
        [resp' # resp /\ resp' = Answer("DEFAULT", "MALFORMED") =>
           Configurations' = Configurations /\ s'.identify <= s.identify]_zvars
  BY RefusedStep
<1> QED
  BY <1>1, SensorInductive, PTL DEF ZSpec, WholeOrNothing
==============================================================================
