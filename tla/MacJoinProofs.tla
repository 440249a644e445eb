----------------------------- MODULE MacJoinProofs -----------------------------
(* Theorems of MacJoin: a finished attempt has given everything back, a reported *)
(* answer is the attempt's own and a reported silence is true.                   *)
EXTENDS MacJoin, TLAPS

JoinFields == {"phase", "gen", "issued", "token", "child", "stopping", "result", "cleanup",
               "window", "outcome", "armed", "disarmed", "restored", "uncertain", "taken"}
PollFields == {"phase", "submitted", "token", "txIssued", "txToken", "txPhase", "closeIssued",
               "closeToken", "closed", "ackSeen", "window", "timeout", "ready", "taken", "reason",
               "cleanup", "uncertain", "serial", "record"}
EngineFields == {"phase", "outcome", "sent", "pending"}
EventFields == {"kind", "gen", "token", "serial", "ordered", "frame", "source", "covers"}

IsPoll(p)   == p = [f \in PollFields |-> p[f]] /\ p.serial \in Nat
IsAssoc(a)  == a = [f \in {"phase", "outcome"} |-> a[f]]
IsEngine(t) == t = [f \in EngineFields |-> t[f]]
IsEvent(m)  == m = [f \in EventFields |-> m[f]] /\ m.gen \in Nat /\ m.serial \in Nat

-------------------------------------------------------------------------------
(*** The poll.                                                                ***)

Busy == {"ARM", "REQUEST", "RECEIVE", "DRAIN"}

\* What the stages of mac_poll_step keep, from the poll p before the step to q.
Mid(p, q, e) ==
  /\ IsPoll(q)
  /\ q.phase \in Busy \cup {"FAULT"}
  /\ ~q.closed /\ q.closeIssued = p.closeIssued
  /\ p.phase = "RECEIVE" => q.phase \in {"RECEIVE", "DRAIN", "FAULT"}
  /\ p.phase = "DRAIN" => q.phase \in {"DRAIN", "FAULT"} /\ (q.timeout => p.timeout)
  /\ p.phase = "DRAIN" => (q.submitted <=> p.submitted)
  /\ q.phase = "ARM" => p.phase = "ARM" /\ ~q.submitted /\ ~q.txIssued
  /\ q.timeout => q.phase \in {"DRAIN", "FAULT"} /\ ~q.ready
  /\ q.phase \in {"ARM", "REQUEST", "RECEIVE"} => ~q.ready
  /\ q.record.cause # "TIMEOUT"
  /\ q.record.body = "RESPONSE" =>
       p.record.body = "RESPONSE" \/ (e.kind = "FRAME" /\ e.frame = "RESPONSE")
  /\ q.serial = p.serial \/ (e.kind = "FRAME" /\ q.serial = e.serial)
  /\ q.txIssued => p.txIssued
  /\ p.txIssued => q.txIssued \/ e.kind = "TX"

\* A poll between two steps.
Fits(p, t) ==
  /\ p.closeIssued => p.phase = "DRAIN" /\ ~p.txIssued /\ (~p.submitted \/ Resting(t))
  /\ ~p.closed
  /\ p.timeout => p.phase = "DRAIN" /\ ~p.ready
  /\ p.phase \in {"ARM", "REQUEST", "RECEIVE"} => ~p.ready
  /\ p.phase = "ARM" => ~p.submitted /\ ~p.txIssued
  /\ p.record.cause # "TIMEOUT"

\* A step of the poll starts from a poll that fits its engine.
LEMMA MidStarts ==
  ASSUME NEW p, NEW t, NEW e, IsPoll(p), Fits(p, t), p.phase \in Busy
  PROVE  Mid(p, p, e)
  BY DEF Mid, Fits, Busy

\* The poll with other values in the fields that no part of the argument reads.
Plain(d, q) ==
  /\ IsPoll(d)
  /\ d.closed = q.closed /\ d.closeIssued = q.closeIssued /\ d.submitted = q.submitted
  /\ d.txIssued = q.txIssued /\ d.serial = q.serial

\* What drain does to a poll (mac_poll.c:169-186).
LEMMA DrainIs ==
  ASSUME NEW q, NEW reason, IsPoll(q)
  PROVE  LET d == PollDrain(q, reason) IN
         /\ Plain(d, q) /\ d.phase = "DRAIN" /\ d.record = q.record
         /\ reason = "NONE" \/ q.ready => d.timeout = q.timeout /\ d.ready = q.ready
         /\ reason # "NONE" /\ ~q.ready => d.timeout = FALSE /\ d.ready = TRUE
  BY DEF PollDrain, IsPoll, PollFields, Plain

\* What fault does to a poll (mac_poll.c:188-195).
LEMMA FaultIs ==
  ASSUME NEW q, NEW reason, IsPoll(q)
  PROVE  LET d == PollFault(q, reason) IN
         /\ Plain(d, q) /\ d.phase = "FAULT" /\ d.record = q.record
         /\ reason = "NONE" \/ q.ready => d.timeout = q.timeout /\ d.ready = q.ready
         /\ reason # "NONE" /\ ~q.ready => d.timeout = FALSE /\ d.ready = TRUE
<1> DEFINE c == [q EXCEPT !.cleanup = @ \/ q.reason # "NONE"]
           d == PollDrain(c, reason)
<1>1. IsPoll(c) /\ Plain(c, q) /\ c.record = q.record /\ c.timeout = q.timeout /\ c.ready = q.ready
  BY DEF IsPoll, PollFields, Plain
<1> HIDE DEF c
<1>2. /\ Plain(d, c) /\ d.record = c.record
      /\ reason = "NONE" \/ c.ready => d.timeout = c.timeout /\ d.ready = c.ready
      /\ reason # "NONE" /\ ~c.ready => d.timeout = FALSE /\ d.ready = TRUE
  BY <1>1, DrainIs
<1>3. PollFault(q, reason) = [d EXCEPT !.uncertain = TRUE, !.phase = "FAULT"]
  BY DEF PollFault, c, d
<1> HIDE DEF d
<1>4. LET f == [d EXCEPT !.uncertain = TRUE, !.phase = "FAULT"] IN
      Plain(f, d) /\ f.phase = "FAULT" /\ f.record = d.record /\ f.timeout = d.timeout /\ f.ready = d.ready
  BY <1>2 DEF IsPoll, PollFields, Plain
<1> QED
  BY <1>1, <1>2, <1>3, <1>4 DEF Plain

\* What decide does to a poll (mac_poll.c:197-204).
LEMMA DecideIs ==
  ASSUME NEW q, NEW protocol, NEW cause, NEW body, IsPoll(q)
  PROVE  LET d == Decide(q, protocol, cause, body) IN
         /\ Plain(d, q) /\ d.phase = "DRAIN" /\ d.record = [protocol |-> protocol, cause |-> cause, body |-> body]
         /\ d.timeout => q.timeout
<1> DEFINE c == [q EXCEPT !.record = [protocol |-> protocol, cause |-> cause, body |-> body], !.ready = TRUE]
<1>1. Plain(c, q) /\ c.ready = TRUE /\ c.timeout = q.timeout
      /\ c.record = [protocol |-> protocol, cause |-> cause, body |-> body]
  BY DEF IsPoll, PollFields, Plain
<1>2. Decide(q, protocol, cause, body) = PollDrain(c, "NONE")
  BY DEF Decide
<1>a. IsPoll(c)
  BY <1>1 DEF Plain
<1> HIDE DEF c
<1>3. LET d == PollDrain(c, "NONE") IN
      Plain(d, c) /\ d.phase = "DRAIN" /\ d.record = c.record /\ d.timeout = c.timeout /\ d.ready = c.ready
  BY <1>a, DrainIs
<1> QED
  BY <1>1, <1>2, <1>3 DEF Plain

\* Giving up, for a reason, keeps everything and forgets a time-out.
LEMMA DrainKeeps ==
  ASSUME NEW p, NEW q, NEW e, NEW reason, Mid(p, q, e), reason # "NONE"
  PROVE  LET d == PollDrain(q, reason) IN
         Mid(p, d, e) /\ d.phase = "DRAIN" /\ ~d.timeout /\ d.serial = q.serial
<1>0. IsPoll(q)
  BY DEF Mid
<1> DEFINE d == PollDrain(q, reason)
<1>1. /\ Plain(d, q) /\ d.phase = "DRAIN" /\ d.record = q.record
      /\ q.ready => d.timeout = q.timeout /\ d.ready = q.ready
      /\ ~q.ready => d.timeout = FALSE /\ d.ready = TRUE
  BY <1>0, DrainIs
<1> HIDE DEF d
<1>2. ~d.timeout
  BY <1>1 DEF Mid
<1> QED
  BY <1>1, <1>2 DEF Mid, Plain, Busy, d

\* A fault keeps the middle invariant of a poll step.
LEMMA FaultKeeps ==
  ASSUME NEW p, NEW q, NEW e, NEW reason, Mid(p, q, e), reason # "NONE"
  PROVE  LET d == PollFault(q, reason) IN Mid(p, d, e) /\ d.phase = "FAULT"
<1>0. IsPoll(q)
  BY DEF Mid
<1> DEFINE d == PollFault(q, reason)
<1>1. /\ Plain(d, q) /\ d.phase = "FAULT" /\ d.record = q.record
      /\ q.ready => d.timeout = q.timeout /\ d.ready = q.ready
      /\ ~q.ready => d.timeout = FALSE /\ d.ready = TRUE
  BY <1>0, FaultIs
<1> HIDE DEF d
<1>2. ~d.timeout
  BY <1>1 DEF Mid
<1> QED
  BY <1>1, <1>2 DEF Mid, Plain, Busy, d

\* A decision keeps it, when it is no time-out and a response is a frame's.
LEMMA DecideKeeps ==
  ASSUME NEW p, NEW q, NEW e, NEW protocol, NEW cause, NEW body, Mid(p, q, e)
  PROVE  LET d == Decide(q, protocol, cause, body) IN
         /\ ~q.timeout
         /\ cause # "TIMEOUT"
         /\ body = "RESPONSE" => e.kind = "FRAME" /\ e.frame = "RESPONSE"
         => Mid(p, d, e) /\ d.phase = "DRAIN" /\ ~d.timeout /\ d.serial = q.serial
<1>0. IsPoll(q)
  BY DEF Mid
<1> DEFINE d == Decide(q, protocol, cause, body)
<1>1. /\ Plain(d, q) /\ d.phase = "DRAIN" /\ (d.timeout => q.timeout)
      /\ d.record = [protocol |-> protocol, cause |-> cause, body |-> body]
  BY <1>0, DecideIs
<1> HIDE DEF d
<1> SUFFICES ASSUME ~q.timeout, cause # "TIMEOUT",
                    body = "RESPONSE" => e.kind = "FRAME" /\ e.frame = "RESPONSE"
             PROVE  Mid(p, d, e) /\ d.phase = "DRAIN" /\ ~d.timeout /\ d.serial = q.serial
  BY DEF d
<1> QED
  BY <1>1 DEF Mid, Plain, Busy

\* The check of the order of frames (mac_poll.c:389-432).
LEMMA AdmitKeeps ==
  ASSUME NEW p, NEW e, Mid(p, p, e), e.serial \in Nat
  PROVE  LET d == Admit(p, e) IN
         /\ Mid(p, d, e) /\ d.serial = p.serial /\ d.phase \in {p.phase, "DRAIN"}
         /\ Heeded(p, e) \in {e.kind, "NONE"}
         /\ e.kind = "FRAME" /\ e.serial > p.serial =>
              Heeded(p, e) = "FRAME" \/ (d.phase = "DRAIN" /\ ~d.timeout)
         /\ e.kind # "FRAME" => d = p /\ Heeded(p, e) = e.kind
<1> DEFINE late == e.kind = "FRAME" /\ e.serial > p.serial /\ ~e.ordered
<1>1. CASE late
  <2>1. Admit(p, e) = PollDrain(p, "ORDER_ERROR") /\ Heeded(p, e) = "NONE"
    BY <1>1 DEF Admit, Heeded
  <2> QED
    BY <1>1, <2>1, DrainKeeps
<1>2. CASE ~late
  <2>1. Admit(p, e) = p
    BY <1>2 DEF Admit
  <2>2. /\ Heeded(p, e) \in {e.kind, "NONE"}
        /\ e.kind = "FRAME" /\ e.serial > p.serial => Heeded(p, e) = "FRAME"
        /\ e.kind # "FRAME" => Heeded(p, e) = e.kind
    <3>1. p.serial \in Nat
      BY DEF Mid, IsPoll
    <3> QED
      BY <1>2, <3>1 DEF Heeded
  <2> QED
    BY <2>1, <2>2
<1> QED
  BY <1>1, <1>2

\* The bounds on work and time (mac_poll.c:450-464).
LEMMA BudgetKeeps ==
  ASSUME NEW p, NEW q, NEW e, NEW k, NEW spent, Mid(p, q, e)
  PROVE  LET d == Budget(q, k, spent) IN
         /\ Mid(p, d, e) /\ d.serial = q.serial /\ d.phase \in {q.phase, "DRAIN"}
         /\ (q.phase = "DRAIN" /\ ~q.timeout) => (d.phase = "DRAIN" /\ ~d.timeout)
         /\ d.timeout => q.timeout
         /\ q.phase # "DRAIN" /\ d.phase = "DRAIN" => ~d.timeout
         /\ q.phase # "DRAIN" /\ k = "CANCEL" => d.phase = "DRAIN"
<1> DEFINE b == CASE q.phase = "DRAIN" -> q
                  [] q.phase # "DRAIN" /\ k = "CANCEL" -> PollDrain(q, "CANCELLED")
                  [] q.phase # "DRAIN" /\ k # "CANCEL" /\ spent -> PollDrain(q, "LIFETIME")
                  [] OTHER -> q
<1>1. /\ Mid(p, b, e) /\ b.serial = q.serial /\ b.phase \in {q.phase, "DRAIN"}
      /\ (q.phase = "DRAIN" /\ ~q.timeout) => (b.phase = "DRAIN" /\ ~b.timeout)
      /\ b.timeout => q.timeout
      /\ q.phase # "DRAIN" /\ b.phase = "DRAIN" => ~b.timeout
      /\ q.phase # "DRAIN" /\ k = "CANCEL" => b.phase = "DRAIN"
  <2>1. CASE q.phase = "DRAIN"
    <3>1. b = q
      BY <2>1
    <3> QED
      BY <3>1, <2>1
  <2>2. CASE q.phase # "DRAIN"
    <3>1. /\ b \in {q, PollDrain(q, "CANCELLED"), PollDrain(q, "LIFETIME")}
          /\ k = "CANCEL" => b = PollDrain(q, "CANCELLED")
      BY <2>2
    <3> HIDE DEF b
    <3> QED
      BY <2>2, <3>1, DrainKeeps
  <2> QED
    BY <2>1, <2>2
<1>2. Budget(q, k, spent) = IF k = "FAILURE" THEN PollDrain(b, "ADAPTER_ERROR") ELSE b
  BY Zenon DEF Budget
<1> HIDE DEF b
<1> QED
  BY <1>1, <1>2, DrainKeeps

\* The report that the receiver is ready (mac_poll.c:466-478).
LEMMA PreparedKeeps ==
  ASSUME NEW p, NEW q, NEW e, NEW k, Mid(p, q, e)
  PROVE  LET d == OnPrepared(q, k, e) IN
         /\ Mid(p, d, e) /\ d.serial = q.serial
         /\ d = q \/ (q.phase = "ARM" /\ ~d.timeout)
         /\ q.phase # "ARM" => d = q
<1>1. CASE ~(k = "PREPARED" /\ q.phase = "ARM" /\ q.token # 0 /\ e.token = q.token)
  BY <1>1 DEF OnPrepared
<1>2. CASE (k = "PREPARED" /\ q.phase = "ARM" /\ q.token # 0 /\ e.token = q.token) /\ ~e.admitted
  <2>1. OnPrepared(q, k, e) = PollDrain(q, "TX_ERROR")
    BY <1>2 DEF OnPrepared
  <2> QED
    BY <1>2, <2>1, DrainKeeps
<1>3. CASE (k = "PREPARED" /\ q.phase = "ARM" /\ q.token # 0 /\ e.token = q.token) /\ e.admitted
  <2>1. OnPrepared(q, k, e) = [q EXCEPT !.submitted = TRUE, !.phase = "REQUEST"]
    BY <1>3 DEF OnPrepared
  <2> QED
    BY <1>3, <2>1 DEF Mid, IsPoll, PollFields, Busy
<1> QED
  BY <1>1, <1>2, <1>3

\* The report of the transmission (mac_poll.c:479-502).
LEMMA TxKeeps ==
  ASSUME NEW p, NEW q, NEW t, NEW e, NEW k, Mid(p, q, e), q.phase \in Busy, k \in {e.kind, "NONE"}
  PROVE  LET d == OnTx(q, t, k, e) IN
         Mid(p, d, e) /\ d.phase \in Busy /\ (k # "TX" => d = q)
<1> DEFINE told == k = "TX" /\ q.txIssued /\ e.token = q.txToken
           w == [q EXCEPT !.txIssued = FALSE]
           v == [w EXCEPT !.ackSeen = TRUE, !.window = "open"]
<1>1. CASE ~told
  BY <1>1 DEF OnTx
<1>2. CASE told
  <2>1. Mid(p, w, e) /\ w.phase = q.phase
    BY <1>2 DEF Mid, IsPoll, PollFields, Busy
  <2>2. /\ Mid(p, v, e) /\ v.phase = q.phase
        /\ q.phase \in {"ARM", "REQUEST", "RECEIVE"} => ~v.ready /\ ~v.timeout /\ ~w.timeout
    BY <2>1 DEF Mid, IsPoll, PollFields, Busy
  <2>3. OnTx(q, t, k, e) \in {w, PollDrain(w, "TX_ERROR"), PollDrain(w, "TIMING_UNCERTAIN"),
                              PollDrain(w, "TX_ABORT"), AcceptAck(w, t, e)}
        \/ (q.phase # "DRAIN" /\ OnTx(q, t, k, e) = Decide(w, t.outcome, "TX_RESULT", "NONE"))
    BY <1>2 DEF OnTx
  <2>4. AcceptAck(w, t, e) \in {PollDrain(w, "TX_ERROR"), v}
        \/ (w.phase # "DRAIN" /\ AcceptAck(w, t, e) = [v EXCEPT !.phase = "RECEIVE"])
        \/ (w.phase # "DRAIN" /\ AcceptAck(w, t, e) = Decide(v, "NO_DATA", "PENDING_ZERO", "NONE"))
    BY DEF AcceptAck
  <2> HIDE DEF w, v
  <2>5. w.phase # "DRAIN" => /\ Mid(p, [v EXCEPT !.phase = "RECEIVE"], e)
                             /\ [v EXCEPT !.phase = "RECEIVE"].phase = "RECEIVE"
    BY <2>1, <2>2 DEF Mid, IsPoll, PollFields, Busy
  <2>6. /\ Mid(p, PollDrain(w, "TX_ERROR"), e) /\ PollDrain(w, "TX_ERROR").phase = "DRAIN"
        /\ Mid(p, PollDrain(w, "TX_ABORT"), e) /\ PollDrain(w, "TX_ABORT").phase = "DRAIN"
        /\ Mid(p, PollDrain(w, "TIMING_UNCERTAIN"), e)
        /\ PollDrain(w, "TIMING_UNCERTAIN").phase = "DRAIN"
    BY <2>1, DrainKeeps
  <2>7. q.phase # "DRAIN" =>
          LET d == Decide(v, "NO_DATA", "PENDING_ZERO", "NONE") IN Mid(p, d, e) /\ d.phase = "DRAIN"
    <3>1. q.phase # "DRAIN" => ~v.timeout
      BY <2>2 DEF Busy
    <3> QED
      BY <2>2, <3>1, DecideKeeps
  <2>8. q.phase # "DRAIN" =>
          LET d == Decide(w, t.outcome, "TX_RESULT", "NONE") IN Mid(p, d, e) /\ d.phase = "DRAIN"
    <3>1. q.phase # "DRAIN" => ~w.timeout
      BY <2>2 DEF Busy
    <3> QED
      BY <2>1, <3>1, DecideKeeps
  <2> QED
    BY <1>2, <2>1, <2>2, <2>3, <2>4, <2>5, <2>6, <2>7, <2>8 DEF Busy
<1> QED
  BY <1>1, <1>2

\* A frame that is received (mac_poll.c:531-577).
LEMMA FrameKeeps ==
  ASSUME NEW p, NEW q, NEW t, NEW e, NEW k, Mid(p, q, e), q.phase \in Busy, k \in {e.kind, "NONE"},
         e.serial \in Nat
  PROVE  LET d == OnFrame(q, t, k, e) IN
         /\ Mid(p, d, e) /\ d.phase \in Busy /\ (k # "FRAME" => d = q)
         /\ (q.phase = "DRAIN" /\ ~q.timeout) => (d.phase = "DRAIN" /\ ~d.timeout)
         /\ k = "FRAME" /\ q.phase \in {"RECEIVE", "DRAIN"} /\ e.frame \notin {"FOREIGN", "UNSUPPORTED"} =>
              d.phase = "DRAIN" /\ ~d.timeout
<1> DEFINE w == [q EXCEPT !.serial = e.serial]
           v == [w EXCEPT !.timeout = FALSE]
           cause == IF e.frame = "EMPTY" THEN "EMPTY" ELSE "COMMAND"
<1>1. CASE k # "FRAME"
  BY <1>1 DEF OnFrame
<1>2. CASE k = "FRAME"
  <2>1. Mid(p, w, e) /\ w.phase = q.phase /\ (w.timeout <=> q.timeout)
    BY <1>2 DEF Mid, IsPoll, PollFields, Busy
  <2>2. Mid(p, v, e) /\ v.phase = q.phase /\ ~v.timeout
    <3> HIDE DEF w
    <3>1. /\ Plain(v, w) /\ v.phase = w.phase /\ v.record = w.record /\ v.ready = w.ready
          /\ v.timeout = FALSE
      BY <2>1 DEF Mid, Plain, IsPoll, PollFields
    <3> HIDE DEF v
    <3>2. ~v.timeout
      BY <3>1
    <3> QED
      BY <2>1, <3>1, <3>2 DEF Mid, Plain, Busy
  <2>3. \/ (~Listening(q, t) \/ e.frame = "FOREIGN") /\ OnFrame(q, t, k, e) = w
        \/ Listening(q, t) /\ e.frame = "UNSUPPORTED" /\ OnFrame(q, t, k, e) = PollDrain(w, "UNSUPPORTED")
        \/ Listening(q, t) /\ OnFrame(q, t, k, e) = Decide(v, "SUCCESS", "DATA", "DATA")
        \/ Listening(q, t) /\ OnFrame(q, t, k, e) = Decide(v, "NO_DATA", cause, e.frame)
    BY <1>2, Zenon DEF OnFrame
  <2>4. cause # "TIMEOUT"
    OBVIOUS
  <2> HIDE DEF w, v, cause
  <2>5. LET d == Decide(v, "SUCCESS", "DATA", "DATA") IN Mid(p, d, e) /\ d.phase = "DRAIN" /\ ~d.timeout
    BY <2>2, DecideKeeps
  <2>6. LET d == Decide(v, "NO_DATA", cause, e.frame) IN Mid(p, d, e) /\ d.phase = "DRAIN" /\ ~d.timeout
    BY <1>2, <2>2, <2>4, DecideKeeps
  <2>7. LET d == PollDrain(w, "UNSUPPORTED") IN Mid(p, d, e) /\ d.phase = "DRAIN" /\ ~d.timeout
    BY <2>1, DrainKeeps
  <2>8. CASE OnFrame(q, t, k, e) = w /\ (~Listening(q, t) \/ e.frame = "FOREIGN")
    <3>1. ~Listening(q, t) /\ q.phase \in {"RECEIVE", "DRAIN"} => q.phase = "DRAIN" /\ ~q.timeout
      BY DEF Listening
    <3> QED
      BY <1>2, <2>1, <2>8, <3>1
  <2> QED
    BY <1>2, <2>3, <2>5, <2>6, <2>7, <2>8 DEF Busy
<1> QED
  BY <1>1, <1>2

\* The end of the window (mac_poll.c:578-581).
LEMMA TimeoutKeeps ==
  ASSUME NEW p, NEW q, NEW e, Mid(p, q, e), q.phase \in Busy
  PROVE  LET d == OnTimeout(q) IN
         Mid(p, d, e) /\ d.phase \in Busy /\ (q.phase # "RECEIVE" => d = q)
<1> DEFINE w == [q EXCEPT !.timeout = TRUE]
<1>1. CASE ~(q.phase = "RECEIVE" /\ q.window = "over")
  BY <1>1 DEF OnTimeout
<1>2. CASE q.phase = "RECEIVE" /\ q.window = "over"
  <2>1. OnTimeout(q) = PollDrain(w, "NONE")
    BY <1>2 DEF OnTimeout
  <2>2. IsPoll(w) /\ Plain(w, q) /\ w.record = q.record /\ ~w.ready
    BY <1>2 DEF Mid, IsPoll, PollFields, Plain
  <2> HIDE DEF w
  <2> DEFINE d == PollDrain(w, "NONE")
  <2>3. Plain(d, w) /\ d.phase = "DRAIN" /\ d.record = w.record /\ d.ready = w.ready
    BY <2>2, DrainIs
  <2> HIDE DEF d
  <2>4. ~d.ready
    BY <2>2, <2>3
  <2>5. Mid(p, d, e)
    BY <1>2, <2>2, <2>3, <2>4 DEF Mid, Plain, Busy
  <2> QED
    BY <1>2, <2>1, <2>3, <2>5 DEF d, Busy
<1> QED
  BY <1>1, <1>2

\* The poll after a step that may have ended it.
Settled(p, s, e) ==
  /\ IsPoll(s) /\ s.phase \in Busy \cup {"FAULT", "DONE"}
  /\ s.record.body = "RESPONSE" =>
       p.record.body = "RESPONSE" \/ (e.kind = "FRAME" /\ e.frame = "RESPONSE")
  /\ s.serial = p.serial \/ (e.kind = "FRAME" /\ s.serial = e.serial)
  /\ s.record.cause = "TIMEOUT" => s.phase = "DONE" /\ p.phase = "DRAIN" /\ p.timeout
  /\ s.phase = "DONE" => e.kind = "CLOSED" /\ p.closeIssued
  /\ s.phase \in Busy => Mid(p, s, e)

\* Between two steps the middle invariant is what a poll must fit.
LEMMA MidSettled ==
  ASSUME NEW p, NEW s, NEW e, Mid(p, s, e)
  PROVE  Settled(p, s, e)
  BY DEF Mid, Settled, Busy

\* The report that the window is closed: only here a time-out is decided.
LEMMA ClosedIs ==
  ASSUME NEW p, NEW q, NEW e, NEW k, Mid(p, q, e), q.phase \in Busy, k \in {e.kind, "NONE"}
  PROVE  LET d == OnClosed(q, k, e) IN
         \/ Mid(p, d, e) /\ d.phase \in Busy /\ (d = q \/ (d.phase = "DRAIN" /\ ~d.timeout))
         \/ e.kind = "CLOSED" /\ p.closeIssued /\ d = [q EXCEPT !.closed = TRUE]
<1>1. CASE ~(k = "CLOSED" /\ q.closeIssued /\ e.token = q.closeToken)
  BY <1>1 DEF OnClosed
<1>2. CASE k = "CLOSED" /\ q.closeIssued /\ e.token = q.closeToken
  <2>1. OnClosed(q, k, e) \in {PollDrain(q, "ADAPTER_ERROR"), [q EXCEPT !.closed = TRUE]}
    BY <1>2 DEF OnClosed
  <2>2. p.closeIssued
    BY <1>2 DEF Mid
  <2>3. LET d == PollDrain(q, "ADAPTER_ERROR") IN Mid(p, d, e) /\ d.phase = "DRAIN" /\ ~d.timeout
    BY DrainKeeps
  <2> QED
    BY <1>2, <2>1, <2>2, <2>3 DEF Busy
<1> QED
  BY <1>1, <1>2

\* The radio is closed for the poll, or the poll has not asked for it.
Closing(p, u) ==
  p.closeIssued => p.phase = "DRAIN" /\ ~p.txIssued /\ (~p.submitted \/ Resting(u))

\* The end of the exchange (mac_poll.c:600-609).
LEMMA SettleIs ==
  ASSUME NEW p, NEW q, NEW u, NEW e, NEW k, Mid(p, q, e), q.phase \in Busy, k \in {e.kind, "NONE"},
         Closing(p, u)
  PROVE  LET s == Settle(OnClosed(q, k, e), u) IN
         /\ Settled(p, s, e)
         /\ e.kind # "CLOSED" => s = q
<1> DEFINE d == OnClosed(q, k, e)
           s == Settle(d, u)
<1> SUFFICES Settled(p, s, e) /\ (e.kind # "CLOSED" => s = q)
  OBVIOUS
<1>0. e.kind # "CLOSED" => d = q
  BY DEF OnClosed
<1>1. \/ Mid(p, d, e) /\ d.phase \in Busy
      \/ e.kind = "CLOSED" /\ p.closeIssued /\ d = [q EXCEPT !.closed = TRUE]
  BY ClosedIs
<1> HIDE DEF d
<1>2. CASE Mid(p, d, e)
  <2>1. s = d
    BY <1>2 DEF Settle, Mid
  <2> QED
    BY <1>2, <1>0, <2>1, MidSettled
<1>3. CASE e.kind = "CLOSED" /\ p.closeIssued /\ d = [q EXCEPT !.closed = TRUE]
  <2>a. /\ IsPoll(d) /\ d.closed = TRUE /\ d.phase = q.phase /\ d.txIssued = q.txIssued
        /\ d.record = q.record /\ d.serial = q.serial /\ d.submitted = q.submitted
        /\ d.timeout = q.timeout
    BY <1>3 DEF Mid, IsPoll, PollFields
  <2>b. p.phase = "DRAIN" /\ ~p.txIssued /\ (~p.submitted \/ Resting(u))
    BY <1>3 DEF Closing
  <2>c. q.phase = "DRAIN" /\ ~q.txIssued /\ (~q.submitted \/ Resting(u))
    BY <2>b DEF Mid, Busy
  <2>1. /\ IsPoll(d) /\ d.closed /\ d.phase = "DRAIN" /\ ~d.txIssued
        /\ d.record = q.record /\ d.serial = q.serial
        /\ ~d.submitted \/ Resting(u)
    BY <2>a, <2>c, Zenon
  <2>2. d.timeout => p.timeout
    BY <2>a, <2>b DEF Mid
  <2>3. s = IF d.uncertain \/ u.phase = "FAULT" THEN PollFault(d, "CLEANUP_FAILED")
            ELSE [(IF d.timeout THEN Decide(d, "NO_DATA", "TIMEOUT", "NONE") ELSE d) EXCEPT !.phase = "DONE"]
    <3>1. d.phase = "DRAIN" /\ d.closed /\ ~d.txIssued /\ (~d.submitted \/ Resting(u))
      BY <2>1
    <3> QED
      BY <3>1, Zenon DEF Settle
  <2> HIDE DEF s
  <2>4. CASE s = PollFault(d, "CLEANUP_FAILED")
    <3>1. Plain(s, d) /\ s.phase = "FAULT" /\ s.record = d.record
      BY <2>1, <2>4, FaultIs
    <3> QED
      BY <1>3, <2>1, <3>1 DEF Settled, Mid, Plain, Busy
  <2>5. CASE s = [d EXCEPT !.phase = "DONE"]
    BY <1>3, <2>1, <2>5 DEF Settled, Mid, IsPoll, PollFields, Busy
  <2>6. CASE d.timeout /\ s = [Decide(d, "NO_DATA", "TIMEOUT", "NONE") EXCEPT !.phase = "DONE"]
    <3> DEFINE v == Decide(d, "NO_DATA", "TIMEOUT", "NONE")
    <3>1. Plain(v, d) /\ v.record = [protocol |-> "NO_DATA", cause |-> "TIMEOUT", body |-> "NONE"]
      BY <2>1, DecideIs
    <3>2. s = [v EXCEPT !.phase = "DONE"] /\ p.timeout /\ p.phase = "DRAIN"
      BY <1>3, <2>2, <2>6 DEF Closing
    <3> HIDE DEF v
    <3>3. IsPoll(s) /\ s.phase = "DONE" /\ s.record = v.record /\ s.serial = v.serial
      BY <3>1, <3>2 DEF Plain, IsPoll, PollFields
    <3>4. s.serial = p.serial \/ (e.kind = "FRAME" /\ s.serial = e.serial)
      BY <2>1, <3>1, <3>3 DEF Mid, Plain
    <3> QED
      BY <1>3, <3>1, <3>2, <3>3, <3>4 DEF Settled, Busy
  <2> QED
    BY <2>3, <2>4, <2>5, <2>6 DEF s
<1> QED
  BY <1>1, <1>2, <1>3

\* A frame that counts, heard in the window or while it closes, or an end of
\* the window that does not come from silence.
Heard(p, e) ==
  \/ /\ e.kind = "FRAME" /\ e.serial > p.serial /\ e.frame \notin {"FOREIGN", "UNSUPPORTED"}
     /\ p.phase \in {"RECEIVE", "DRAIN"}
  \/ e.kind = "CANCEL" /\ p.phase = "RECEIVE"

\* The stages from the transmission to the end, one after the other.
LEMMA StagesIs ==
  ASSUME NEW p, NEW c, NEW u, NEW e, NEW k, Mid(p, c, e), c.phase \in Busy, k \in {e.kind, "NONE"},
         e.serial \in Nat, Closing(p, u)
  PROVE  LET s == Stages(c, u, k, e) IN
         /\ Settled(p, s, e)
         /\ /\ e.kind \in {"FRAME", "CANCEL"} /\ c.phase \in {"RECEIVE", "DRAIN"}
            /\ \/ k = "FRAME" /\ e.frame \notin {"FOREIGN", "UNSUPPORTED"}
               \/ c.phase = "DRAIN" /\ ~c.timeout
            => s.phase = "DRAIN" /\ ~s.timeout
<1> DEFINE w == OnTx(c, u, k, e)
           f == OnFrame(w, u, k, e)
           o == OnTimeout(f)
           s == Settle(OnClosed(o, k, e), u)
<1>1. Stages(c, u, k, e) = s
  BY DEF Stages
<1>2. Mid(p, w, e) /\ w.phase \in Busy /\ (k # "TX" => w = c)
  BY TxKeeps
<1> HIDE DEF w
<1>3. /\ Mid(p, f, e) /\ f.phase \in Busy
      /\ (w.phase = "DRAIN" /\ ~w.timeout) => (f.phase = "DRAIN" /\ ~f.timeout)
      /\ k = "FRAME" /\ w.phase \in {"RECEIVE", "DRAIN"} /\ e.frame \notin {"FOREIGN", "UNSUPPORTED"} =>
           f.phase = "DRAIN" /\ ~f.timeout
  BY <1>2, FrameKeeps
<1> HIDE DEF f
<1>4. Mid(p, o, e) /\ o.phase \in Busy /\ (f.phase # "RECEIVE" => o = f)
  BY <1>3, TimeoutKeeps
<1> HIDE DEF o
<1>5. Settled(p, s, e) /\ (e.kind # "CLOSED" => s = o)
  BY <1>4, SettleIs
<1> HIDE DEF s
<1>6. ASSUME e.kind \in {"FRAME", "CANCEL"}, c.phase \in {"RECEIVE", "DRAIN"},
             \/ k = "FRAME" /\ e.frame \notin {"FOREIGN", "UNSUPPORTED"}
             \/ c.phase = "DRAIN" /\ ~c.timeout
      PROVE  s.phase = "DRAIN" /\ ~s.timeout
  <2>1. w = c /\ s = o
    BY <1>2, <1>5, <1>6
  <2>2. f.phase = "DRAIN" /\ ~f.timeout
    BY <1>3, <1>6, <2>1
  <2> QED
    BY <1>4, <2>1, <2>2
<1> QED
  BY <1>1, <1>5, <1>6

\* The result r of a step: a settled poll and what it asks for next.
Became(p, t, e, r) ==
  \E s : /\ Settled(p, s, e)
         /\ r.poll = PollIssue(s, r.tx) /\ r.action = PollAction(s, r.tx)
         /\ r.tx \in {t, Engine("DRAW", "NONE", FALSE, FALSE)}
         /\ p.phase = "DRAIN" => r.tx = t
         /\ Heard(p, e) => s.phase = "FAULT" \/ (s.phase = "DRAIN" /\ ~s.timeout)

\* All stages of a step, before its action is chosen.
LEMMA StepSettles ==
  ASSUME NEW p, NEW t, NEW e, NEW spent, IsPoll(p), p.phase \in Busy, Fits(p, t), e.serial \in Nat
  PROVE  Became(p, t, e, PollStep(p, t, e, spent))
<1> DEFINE a == Admit(p, e)
           k == Heeded(p, e)
           r == PollStep(p, t, e, spent)
           b == IF p.phase = "DRAIN" /\ spent THEN PollFault(a, "CLEANUP_FAILED") ELSE Budget(a, k, spent)
           c == OnPrepared(b, k, e)
           u == Submitted(p, c, t)
<1> SUFFICES
  \E s : /\ Settled(p, s, e)
         /\ r.poll = PollIssue(s, r.tx) /\ r.action = PollAction(s, r.tx)
         /\ r.tx \in {t, Engine("DRAW", "NONE", FALSE, FALSE)}
         /\ p.phase = "DRAIN" => r.tx = t
         /\ Heard(p, e) => s.phase = "FAULT" \/ (s.phase = "DRAIN" /\ ~s.timeout)
  BY DEF Became
<1>1. Mid(p, p, e)
  BY MidStarts
<1>2. /\ Mid(p, a, e) /\ a.serial = p.serial /\ a.phase \in {p.phase, "DRAIN"}
      /\ k \in {e.kind, "NONE"}
      /\ e.kind = "FRAME" /\ e.serial > p.serial => k = "FRAME" \/ (a.phase = "DRAIN" /\ ~a.timeout)
      /\ e.kind # "FRAME" => a = p /\ k = e.kind
  BY <1>1, AdmitKeeps
<1>3. CASE ~p.submitted /\ t.phase # "IDLE"
  <2> DEFINE s == PollFault(a, "TX_ERROR")
  <2>1. r = Outcome(s, t)
    BY <1>3, Zenon DEF PollStep, Busy
  <2> HIDE DEF a, k
  <2>2. Mid(p, s, e) /\ s.phase = "FAULT"
    BY <1>2, FaultKeeps
  <2>3. Settled(p, s, e)
    BY <2>2, MidSettled
  <2> HIDE DEF s, r
  <2>4. r.poll = PollIssue(s, t) /\ r.action = PollAction(s, t) /\ r.tx = t
    BY <2>1 DEF Outcome
  <2> QED
    BY <2>2, <2>3, <2>4 DEF r
<1>4. CASE ~(~p.submitted /\ t.phase # "IDLE")
  <2>1. r = IF b.phase = "FAULT" THEN Outcome(b, u) ELSE Outcome(Stages(c, u, k, e), u)
    BY <1>4 DEF PollStep, Busy, Proceeded
  <2> HIDE DEF a, k, r
  <2>2. /\ Mid(p, b, e) /\ b.phase \in Busy \cup {"FAULT"}
        /\ a.phase = "DRAIN" /\ ~a.timeout /\ b.phase # "FAULT" => b.phase = "DRAIN" /\ ~b.timeout
        /\ b.phase \in {a.phase, "DRAIN", "FAULT"}
        /\ a.phase = "RECEIVE" /\ k = "CANCEL" /\ b.phase # "FAULT" => b.phase = "DRAIN" /\ ~b.timeout
    <3>1. CASE p.phase = "DRAIN" /\ spent
      <4>1. b = PollFault(a, "CLEANUP_FAILED")
        BY <3>1
      <4> HIDE DEF b
      <4> QED
        BY <1>2, <4>1, FaultKeeps
    <3>2. CASE ~(p.phase = "DRAIN" /\ spent)
      <4>1. b = Budget(a, k, spent)
        BY <3>2
      <4> HIDE DEF b
      <4>2. /\ Mid(p, b, e) /\ b.phase \in {a.phase, "DRAIN"}
            /\ (a.phase = "DRAIN" /\ ~a.timeout) => (b.phase = "DRAIN" /\ ~b.timeout)
            /\ a.phase # "DRAIN" /\ b.phase = "DRAIN" => ~b.timeout
            /\ a.phase # "DRAIN" /\ k = "CANCEL" => b.phase = "DRAIN"
        BY <1>2, <4>1, BudgetKeeps
      <4> QED
        BY <4>2 DEF Mid
    <3> QED
      BY <3>1, <3>2
  <2> HIDE DEF b
  <2>3. Mid(p, c, e) /\ (c = b \/ b.phase = "ARM") /\ (b.phase # "ARM" => c = b)
    BY <2>2, PreparedKeeps
  <2>4. c.phase = "FAULT" => b.phase = "FAULT"
    <3>1. b.phase = "ARM" => c.phase \in Busy
      BY <2>3 DEF OnPrepared, PollDrain, c, Mid, IsPoll, PollFields, Busy
    <3> QED
      BY <2>3, <3>1 DEF Busy
  <2> HIDE DEF c
  <2>5. /\ u \in {t, Engine("DRAW", "NONE", FALSE, FALSE)}
        /\ p.phase = "DRAIN" => u = t
    BY <2>3 DEF Submitted, Mid
  <2>6. Closing(p, u)
    BY <2>5 DEF Fits, Closing
  <2> HIDE DEF u
  <2>7. CASE b.phase = "FAULT"
    <3>1. r = Outcome(b, u)
      BY <2>1, <2>7
    <3>2. Settled(p, b, e)
      BY <2>2, MidSettled
    <3>3. r.poll = PollIssue(b, u) /\ r.action = PollAction(b, u) /\ r.tx = u
      BY <3>1 DEF Outcome
    <3> QED
      BY <2>5, <2>7, <3>2, <3>3 DEF r
  <2>8. CASE b.phase # "FAULT"
    <3> DEFINE s == Stages(c, u, k, e)
    <3>1. r = Outcome(s, u)
      BY <2>1, <2>8
    <3>2. c.phase \in Busy
      BY <2>3, <2>4, <2>8 DEF Mid
    <3>3. /\ Settled(p, s, e)
          /\ /\ e.kind \in {"FRAME", "CANCEL"} /\ c.phase \in {"RECEIVE", "DRAIN"}
             /\ \/ k = "FRAME" /\ e.frame \notin {"FOREIGN", "UNSUPPORTED"}
                \/ c.phase = "DRAIN" /\ ~c.timeout
             => s.phase = "DRAIN" /\ ~s.timeout
      BY <1>2, <2>3, <2>6, <3>2, StagesIs
    <3> HIDE DEF s
    <3>4. r.poll = PollIssue(s, u) /\ r.action = PollAction(s, u) /\ r.tx = u
      BY <3>1 DEF Outcome
    <3>5. ASSUME Heard(p, e)
          PROVE  s.phase = "DRAIN" /\ ~s.timeout
      <4>1. c = b /\ c.phase \in {"RECEIVE", "DRAIN"}
        BY <2>2, <2>3, <2>8, <3>5 DEF Mid, Heard
      <4>2. \/ k = "FRAME" /\ e.frame \notin {"FOREIGN", "UNSUPPORTED"}
            \/ c.phase = "DRAIN" /\ ~c.timeout
        BY <1>2, <2>2, <2>8, <4>1, <3>5 DEF Heard
      <4> QED
        BY <3>3, <3>5, <4>1, <4>2 DEF Heard
    <3> QED
      BY <2>5, <3>3, <3>4, <3>5 DEF r
  <2> QED
    BY <2>7, <2>8
<1> QED
  BY <1>3, <1>4

\* What is asked of the adapter (mac_poll.c:610-647).
LEMMA ActionIs ==
  ASSUME NEW s, NEW u
  PROVE  LET k == PollAction(s, u).kind IN
         /\ PollAction(s, u).cancel \in BOOLEAN
         /\ k \in {"NONE", "PREPARE", "TX", "CLOSE"}
         /\ k = "PREPARE" => s.phase = "ARM"
         /\ k = "TX" => s.phase \in Busy /\ s.submitted /\ ~s.txIssued /\ ~Resting(u)
         /\ k = "CLOSE" => s.phase = "DRAIN" /\ ~s.closeIssued /\ ~s.txIssued /\ (~s.submitted \/ Resting(u))
<1> DEFINE a1 == s.phase = "ARM" /\ s.token = 0
           a2 == /\ s.phase = "ARM" => s.token # 0
                 /\ s.phase \in {"ARM", "REQUEST", "RECEIVE", "DRAIN"} /\ s.submitted /\ ~s.txIssued /\ ~Resting(u)
           a3 == s.phase = "DRAIN" /\ ~s.closeIssued /\ ~s.txIssued /\ (~s.submitted \/ Resting(u))
           x == [kind |-> "TX", cancel |-> s.phase = "DRAIN" /\ u.phase # "STOPPING"]
<1>1. \/ a1 /\ PollAction(s, u) = [kind |-> "PREPARE", cancel |-> FALSE]
      \/ a2 /\ PollAction(s, u) = x
      \/ a3 /\ PollAction(s, u) = [kind |-> "CLOSE", cancel |-> FALSE]
      \/ PollAction(s, u) = NoAction
  BY Zenon DEF PollAction
<1>2. CASE a1 /\ PollAction(s, u) = [kind |-> "PREPARE", cancel |-> FALSE]
  BY <1>2
<1>3. CASE a2 /\ PollAction(s, u) = x
  <2>1. PollAction(s, u).kind = "TX" /\ PollAction(s, u).cancel \in BOOLEAN
    BY <1>3
  <2> QED
    BY <1>3, <2>1 DEF Busy
<1>4. CASE a3 /\ PollAction(s, u) = [kind |-> "CLOSE", cancel |-> FALSE]
  <2>1. PollAction(s, u).kind = "CLOSE" /\ PollAction(s, u).cancel \in BOOLEAN
    BY <1>4
  <2> QED
    BY <1>4, <2>1
<1>5. CASE PollAction(s, u) = NoAction
  <2>1. PollAction(s, u).kind = "NONE" /\ PollAction(s, u).cancel \in BOOLEAN
    BY <1>5 DEF NoAction
  <2> QED
    BY <2>1
<1> QED
  BY <1>1, <1>2, <1>3, <1>4, <1>5

\* What the poll notes of the action it asks for.
LEMMA IssueIs ==
  ASSUME NEW s, NEW u, IsPoll(s)
  PROVE  LET q == PollIssue(s, u)
             k == PollAction(s, u).kind
         IN /\ IsPoll(q) /\ q.phase = s.phase /\ q.record = s.record /\ q.serial = s.serial
            /\ q.timeout = s.timeout /\ q.ready = s.ready /\ q.submitted = s.submitted /\ q.closed = s.closed
            /\ k = "TX" => q.txIssued = TRUE
            /\ k # "TX" => q.txIssued = s.txIssued
            /\ k = "CLOSE" => q.closeIssued = TRUE
            /\ k # "CLOSE" => q.closeIssued = s.closeIssued
<1> DEFINE k == PollAction(s, u).kind
           v == [s EXCEPT !.token = IF k = "NONE" THEN @ ELSE Next1(@)]
<1>1. PollIssue(s, u) =
        CASE k = "TX" -> [v EXCEPT !.txIssued = TRUE, !.txPhase = u.phase, !.txToken = v.token]
          [] k = "CLOSE" -> [v EXCEPT !.closeIssued = TRUE, !.closeToken = v.token]
          [] OTHER -> v
  BY Zenon DEF PollIssue
<1> HIDE DEF k
<1>a. IsPoll(v) /\ \A f \in PollFields \ {"token"} : v[f] = s[f]
  BY DEF IsPoll, PollFields
<1> HIDE DEF v
<1>b. /\ v.phase = s.phase /\ v.record = s.record /\ v.serial = s.serial
      /\ v.timeout = s.timeout /\ v.ready = s.ready /\ v.submitted = s.submitted /\ v.closed = s.closed
      /\ v.txIssued = s.txIssued /\ v.closeIssued = s.closeIssued
  BY <1>a DEF PollFields
<1>2. CASE k = "TX"
  <2>1. PollIssue(s, u) = [v EXCEPT !.txIssued = TRUE, !.txPhase = u.phase, !.txToken = v.token]
    BY <1>1, <1>2
  <2> QED
    BY <1>a, <1>b, <1>2, <2>1 DEF IsPoll, PollFields, k
<1>3. CASE k = "CLOSE"
  <2>1. PollIssue(s, u) = [v EXCEPT !.closeIssued = TRUE, !.closeToken = v.token]
    BY <1>1, <1>3
  <2> QED
    BY <1>a, <1>b, <1>3, <2>1 DEF IsPoll, PollFields, k
<1>4. CASE k \notin {"TX", "CLOSE"}
  <2>1. PollIssue(s, u) = v
    BY <1>1, <1>4
  <2> QED
    BY <1>a, <1>b, <2>1, <1>4 DEF k
<1> QED
  BY <1>2, <1>3, <1>4

\* What a step r of the poll p with event e has come to.
Stepped(p, t, e, r) ==
  LET q == r.poll
      k == r.action.kind
  IN /\ IsPoll(q) /\ q.phase \in Busy \cup {"FAULT", "DONE"}
     /\ q.record.body = "RESPONSE" =>
          p.record.body = "RESPONSE" \/ (e.kind = "FRAME" /\ e.frame = "RESPONSE")
     /\ q.serial = p.serial \/ (e.kind = "FRAME" /\ q.serial = e.serial)
     /\ q.record.cause = "TIMEOUT" => q.phase = "DONE" /\ p.phase = "DRAIN" /\ p.timeout
     /\ q.phase = "DONE" => e.kind = "CLOSED" /\ p.closeIssued
     /\ r.tx \in {t, Engine("DRAW", "NONE", FALSE, FALSE)}
     /\ k \in {"NONE", "PREPARE", "TX", "CLOSE"} /\ r.action.cancel \in BOOLEAN
     /\ q.phase \in Busy =>
          /\ Fits(q, r.tx)
          /\ p.closeIssued => q.closeIssued /\ k = "NONE"
          /\ p.txIssued => e.kind = "TX" \/ (q.txIssued /\ k = "NONE")
          /\ k = "TX" => q.txIssued
          /\ k = "CLOSE" => q.closeIssued
          /\ p.phase \in {"RECEIVE", "DRAIN"} => q.phase \in {"RECEIVE", "DRAIN"}
          /\ p.phase = "DRAIN" /\ ~p.timeout => q.phase = "DRAIN" /\ ~q.timeout
          /\ Heard(p, e) => q.phase = "DRAIN" /\ ~q.timeout

\* What a step of the poll does, as far as the attempt needs it.
LEMMA PollStepIs ==
  ASSUME NEW p, NEW t, NEW e, NEW spent, IsPoll(p), p.phase \in Busy, Fits(p, t), e.serial \in Nat
  PROVE  Stepped(p, t, e, PollStep(p, t, e, spent))
<1> DEFINE r == PollStep(p, t, e, spent)
           q == r.poll
           k == r.action.kind
<1>1. PICK s : /\ Settled(p, s, e)
               /\ r.poll = PollIssue(s, r.tx) /\ r.action = PollAction(s, r.tx)
               /\ r.tx \in {t, Engine("DRAW", "NONE", FALSE, FALSE)}
               /\ p.phase = "DRAIN" => r.tx = t
               /\ Heard(p, e) => s.phase = "FAULT" \/ (s.phase = "DRAIN" /\ ~s.timeout)
  <2>1. Became(p, t, e, r)
    BY StepSettles
  <2> QED
    BY <2>1 DEF Became
<1> HIDE DEF r
<1>2. IsPoll(s)
  BY <1>1 DEF Settled
<1>c. r.action.cancel \in BOOLEAN
  BY <1>1, ActionIs
<1>3. /\ k \in {"NONE", "PREPARE", "TX", "CLOSE"}
      /\ k = "PREPARE" => s.phase = "ARM"
      /\ k = "TX" => s.phase \in Busy /\ s.submitted /\ ~s.txIssued /\ ~Resting(r.tx)
      /\ k = "CLOSE" => s.phase = "DRAIN" /\ ~s.closeIssued /\ ~s.txIssued /\ (~s.submitted \/ Resting(r.tx))
  BY <1>1, ActionIs
<1>4. /\ IsPoll(q) /\ q.phase = s.phase /\ q.record = s.record /\ q.serial = s.serial
      /\ q.timeout = s.timeout /\ q.ready = s.ready /\ q.submitted = s.submitted /\ q.closed = s.closed
      /\ k = "TX" => q.txIssued = TRUE
      /\ k # "TX" => q.txIssued = s.txIssued
      /\ k = "CLOSE" => q.closeIssued = TRUE
      /\ k # "CLOSE" => q.closeIssued = s.closeIssued
  <2>1. q = PollIssue(s, r.tx) /\ k = PollAction(s, r.tx).kind
    BY <1>1
  <2> HIDE DEF q, k
  <2> QED
    BY <1>2, <2>1, IssueIs
<1> HIDE DEF q, k
<1>5. ASSUME q.phase \in Busy
      PROVE  /\ Fits(q, r.tx)
             /\ p.closeIssued => q.closeIssued /\ k = "NONE"
             /\ p.txIssued => e.kind = "TX" \/ (q.txIssued /\ k = "NONE")
             /\ k = "TX" => q.txIssued
             /\ k = "CLOSE" => q.closeIssued
             /\ p.phase \in {"RECEIVE", "DRAIN"} => q.phase \in {"RECEIVE", "DRAIN"}
             /\ p.phase = "DRAIN" /\ ~p.timeout => q.phase = "DRAIN" /\ ~q.timeout
             /\ Heard(p, e) => q.phase = "DRAIN" /\ ~q.timeout
  <2>1. Mid(p, s, e) /\ s.phase \in Busy
    BY <1>1, <1>4, <1>5 DEF Settled
  <2>2. /\ p.closeIssued => /\ p.phase = "DRAIN" /\ ~p.txIssued /\ (~p.submitted \/ Resting(r.tx))
                            /\ s.phase = "DRAIN" /\ ~s.txIssued /\ (~s.submitted \/ Resting(r.tx))
                            /\ s.closeIssued
    BY <1>1, <2>1 DEF Fits, Mid, Busy
  <2>3. p.closeIssued => k = "NONE"
    BY <1>3, <2>2
  <2>4. p.txIssued => e.kind = "TX" \/ (s.txIssued /\ k = "NONE")
    BY <1>3, <2>1 DEF Mid
  <2>5. /\ k = "TX" => q.txIssued
        /\ k = "CLOSE" => q.closeIssued
        /\ s.txIssued => q.txIssued
        /\ s.closeIssued => q.closeIssued
        /\ q.closeIssued => s.closeIssued \/ k = "CLOSE"
        /\ q.txIssued => s.txIssued \/ k = "TX"
    BY <1>4
  <2>6. s.closeIssued => p.closeIssued
    BY <2>1 DEF Mid
  <2>7. q.closeIssued => q.phase = "DRAIN" /\ ~q.txIssued /\ (~q.submitted \/ Resting(r.tx))
    BY <1>3, <1>4, <2>2, <2>3, <2>5, <2>6
  <2>8. /\ q.timeout => q.phase = "DRAIN" /\ ~q.ready
        /\ q.phase \in {"ARM", "REQUEST", "RECEIVE"} => ~q.ready
        /\ ~q.closed /\ q.record.cause # "TIMEOUT"
    BY <1>4, <2>1 DEF Mid, Busy
  <2>9. q.phase = "ARM" => ~q.submitted /\ ~q.txIssued
    <3>1. q.phase = "ARM" => ~s.submitted /\ ~s.txIssued
      BY <1>4, <2>1 DEF Mid
    <3> QED
      BY <1>3, <1>4, <2>5, <3>1
  <2>10. Fits(q, r.tx)
    BY <2>7, <2>8, <2>9 DEF Fits
  <2>11. /\ p.phase \in {"RECEIVE", "DRAIN"} => q.phase \in {"RECEIVE", "DRAIN"}
         /\ p.phase = "DRAIN" /\ ~p.timeout => q.phase = "DRAIN" /\ ~q.timeout
    BY <1>4, <2>1 DEF Mid, Busy
  <2>12. Heard(p, e) => q.phase = "DRAIN" /\ ~q.timeout
    BY <1>1, <1>4, <2>1 DEF Busy
  <2> QED
    BY <2>2, <2>3, <2>4, <2>5, <2>10, <2>11, <2>12
<1>6. /\ q.record.body = "RESPONSE" =>
           p.record.body = "RESPONSE" \/ (e.kind = "FRAME" /\ e.frame = "RESPONSE")
      /\ q.serial = p.serial \/ (e.kind = "FRAME" /\ q.serial = e.serial)
      /\ q.record.cause = "TIMEOUT" => q.phase = "DONE" /\ p.phase = "DRAIN" /\ p.timeout
      /\ q.phase = "DONE" => e.kind = "CLOSED" /\ p.closeIssued
      /\ q.phase \in Busy \cup {"FAULT", "DONE"}
  BY <1>1, <1>4 DEF Settled
<1> QED
  BY <1>1, <1>c, <1>3, <1>4, <1>5, <1>6 DEF Stepped, q, k, r

-------------------------------------------------------------------------------
(*** The invariant.                                                           ***)

GrantKinds == {"PREPARE", "ARM", "DISARM", "RECEIVE", "TX", "CLOSE", "RESTORE"}
Grant == [kind : GrantKinds, token : Int, cancel : BOOLEAN]
IsJoin(j)   == j = [f \in JoinFields |-> j[f]] /\ j.gen \in Nat /\ j.token \in Int
IsRadio(r)  == r = [f \in {"tuned", "armed", "closed"} |-> r[f]]
IsPast(h)   == h = [f \in {"asked", "answered", "missed", "frame"} |-> h[f]] /\ IsEvent(h.frame)

\* Where a grant of a kind may be about.
Home(k, j, p, t) ==
  /\ k = "PREPARE" => j.phase \in {"PREPARE", "RESTORE"}
  /\ k = "ARM"     => j.phase = "REQUEST"
  /\ k = "DISARM"  => j.phase = "REQUEST" /\ j.issued = "DISARM" /\ t.phase = "DONE"
  /\ k = "RECEIVE" => j.phase = "EXTRACT"
  /\ k = "TX"      => j.phase = "EXTRACT" /\ p.txIssued
  /\ k = "CLOSE"   => j.phase = "EXTRACT" /\ p.closeIssued
  /\ k = "RESTORE" => j.phase = "RESTORE" /\ j.issued = "RESTORE"

\* Nothing is granted after these until they are reported.
Final == {"DISARM", "TX", "CLOSE", "RESTORE"}

Queue(j, p, t, g) ==
  /\ \A i \in 1 .. Len(g) : Home(g[i].kind, j, p, t)
  /\ \A i \in 1 .. Len(g) : g[i].kind \in Final => i = Len(g)
  /\ j.phase = "PREPARE" => Len(g) <= 1
  /\ j.phase = "PREPARE" /\ j.issued = "NONE" => g = <<>>

\* Where a report or a frame may be waiting.
MailHome(k, j, p, t, g, r) ==
  /\ k \in {"NONE", "PREPARED", "ARMED", "DISARMED", "TX", "CLOSED", "RESTORED", "FRAME"}
  /\ k = "PREPARED" => /\ j.phase \in {"PREPARE", "EXTRACT", "RESTORE"}
                       /\ j.phase = "PREPARE" => g = <<>> /\ j.issued # "NONE"
  /\ k = "ARMED"    => j.phase = "REQUEST"
  /\ k = "DISARMED" => Home("DISARM", j, p, t) /\ g = <<>> /\ ~r.armed
  /\ k = "TX"       => Home("TX", j, p, t) /\ g = <<>>
  /\ k = "CLOSED"   => Home("CLOSE", j, p, t) /\ g = <<>>
  /\ k = "RESTORED" => Home("RESTORE", j, p, t) /\ g = <<>> /\ ~r.armed /\ ~r.tuned
  /\ k = "FRAME"    => j.phase = "EXTRACT"

\* What an attempt that has not failed has under control: k is the kind of the
\* event that waits.
Work(j, p, a, t, g, k, r) ==
  /\ Queue(j, p, t, g)
  /\ MailHome(k, j, p, t, g, r)
  /\ j.phase = "EXTRACT" => p.phase \in Busy /\ Fits(p, t)
  /\ r.armed => j.phase = "REQUEST"
  /\ j.phase = "REQUEST" => ~j.disarmed
  /\ j.phase \in {"IDLE", "DONE"} => ~r.tuned /\ g = <<>> /\ k = "NONE"
  /\ j.phase = "DONE" => t.phase = "IDLE" /\ p.phase = "IDLE"
  /\ j.window = 1 => j.phase = "EXTRACT"
  /\ j.window # 1 => a.phase = "IDLE"

\* What a response can be owed to.
Answer(j, p, a, h) ==
  /\ j.phase \in {"WAIT", "EXTRACT"} => h.asked
  /\ j.phase = "EXTRACT" /\ p.record.body = "RESPONSE" => h.answered
  /\ j.window = 1 /\ a.outcome = "RESPONSE" => h.answered /\ h.asked
  /\ j.outcome = "RESPONSE" => h.answered /\ h.asked
Owned(m, j, h) ==
  /\ m.gen <= j.gen
  /\ m.kind = "FRAME" /\ m.gen = j.gen /\ m.frame = "RESPONSE" => h.answered

\* The event is a frame that the poll has not seen and will count.
Pending(m, j, p) ==
  /\ m.kind = "FRAME" /\ m.gen = j.gen /\ m.serial > p.serial
  /\ m.frame \notin {"FOREIGN", "UNSUPPORTED"}
Silence(j, p, m, h) ==
  /\ p.record.cause = "TIMEOUT" => ~h.missed
  /\ j.phase \in {"PREPARE", "REQUEST", "WAIT"} => ~h.missed
  /\ j.phase = "EXTRACT" /\ h.missed =>
       /\ p.phase \in {"RECEIVE", "DRAIN"}
       /\ Pending(m, j, p) \/ (p.phase = "DRAIN" /\ ~p.timeout)

Running == {"PREPARE", "REQUEST", "WAIT", "EXTRACT", "RESTORE"}
Typed ==
  /\ IsJoin(join) /\ IsPoll(poll) /\ IsAssoc(assoc) /\ IsEngine(tx) /\ grants \in Seq(Grant)
  /\ join.phase \in Running \cup {"IDLE", "DONE", "FAULT"}
  /\ IsEvent(mail) /\ IsRadio(radio) /\ IsPast(past)
  /\ used \in [frames : Nat, late : Nat]
  /\ poll.serial <= used.frames /\ mail.serial <= used.frames /\ past.frame.serial <= used.frames
\* The inductive invariant.
JoinInv ==
  /\ Typed
  /\ join.phase # "FAULT" => Work(join, poll, assoc, tx, grants, mail.kind, radio)
  /\ Answer(join, poll, assoc, past) /\ Owned(mail, join, past) /\ Owned(past.frame, join, past)
  /\ Silence(join, poll, mail, past)

-------------------------------------------------------------------------------
(*** Grants.                                                                  ***)

\* Which grants can be about in a phase.
LEMMA GrantsAre ==
  ASSUME NEW j, NEW p, NEW t, NEW g \in Seq(Grant), Queue(j, p, t, g)
  PROVE  /\ \A i \in 1 .. Len(g) :
              /\ j.phase = "PREPARE" => g[i].kind = "PREPARE"
              /\ j.phase = "REQUEST" => g[i].kind \in {"ARM", "DISARM"}
              /\ j.phase = "EXTRACT" => g[i].kind \in {"RECEIVE", "TX", "CLOSE"}
              /\ j.phase = "RESTORE" => g[i].kind \in {"PREPARE", "RESTORE"}
         /\ j.phase \notin {"PREPARE", "REQUEST", "EXTRACT", "RESTORE"} => g = <<>>
<1>1. \A i \in 1 .. Len(g) : g[i].kind \in GrantKinds /\ Home(g[i].kind, j, p, t)
  <2>1. \A i \in 1 .. Len(g) : g[i] \in Grant
    OBVIOUS
  <2>2. \A i \in 1 .. Len(g) : g[i].kind \in GrantKinds
    BY <2>1 DEF Grant
  <2> QED
    BY <2>2 DEF Queue
<1>2. \A i \in 1 .. Len(g) : j.phase \in {"PREPARE", "REQUEST", "EXTRACT", "RESTORE"}
  BY <1>1 DEF Home, GrantKinds
<1>3. j.phase \notin {"PREPARE", "REQUEST", "EXTRACT", "RESTORE"} => g = <<>>
  BY <1>2
<1> QED
  BY <1>1, <1>3 DEF Home, GrantKinds

\* No grants are a queue.
LEMMA Emptied ==
  ASSUME NEW j, NEW p, NEW t
  PROVE  Queue(j, p, t, <<>>)
  BY DEF Queue

\* Nothing is about that another grant would have to wait for.
Clear(g, j, p, t) == \A i \in 1 .. Len(g) : Home(g[i].kind, j, p, t) /\ g[i].kind \notin Final

\* No grants stand in the way of another.
LEMMA ClearAtFirst ==
  ASSUME NEW j, NEW p, NEW t
  PROVE  Clear(<<>>, j, p, t) /\ <<>> \in Seq(Grant)
  BY DEF Clear

\* A grant that may be given leaves a queue.
LEMMA Appended ==
  ASSUME NEW j, NEW p, NEW t, NEW g \in Seq(Grant), NEW x \in Grant, Clear(g, j, p, t),
         Home(x.kind, j, p, t), j.phase = "PREPARE" => g = <<>> /\ j.issued # "NONE"
  PROVE  Queue(j, p, t, Append(g, x)) /\ Append(g, x) \in Seq(Grant)
<1> DEFINE q == Append(g, x)
<1>1. /\ q \in Seq(Grant) /\ Len(q) = Len(g) + 1 /\ q[Len(q)] = x
      /\ \A i \in 1 .. Len(g) : q[i] = g[i]
  OBVIOUS
<1>2. Len(g) \in Nat /\ (j.phase = "PREPARE" => Len(g) = 0)
  OBVIOUS
<1> HIDE DEF q
<1>3. \A i \in 1 .. Len(q) : (i \in 1 .. Len(g)) \/ i = Len(q)
  BY <1>1, <1>2
<1>4. \A i \in 1 .. Len(q) : Home(q[i].kind, j, p, t)
  BY <1>1, <1>3 DEF Clear
<1>5. \A i \in 1 .. Len(q) : q[i].kind \in Final => i = Len(q)
  BY <1>1, <1>3 DEF Clear
<1> QED
  BY <1>1, <1>2, <1>4, <1>5 DEF Queue, q

\* The oldest grant is taken off.
LEMMA Shortened ==
  ASSUME NEW j, NEW p, NEW t, NEW g \in Seq(Grant), Queue(j, p, t, g), g # <<>>
  PROVE  /\ Head(g) \in Grant /\ Tail(g) \in Seq(Grant) /\ Queue(j, p, t, Tail(g))
         /\ Home(Head(g).kind, j, p, t)
         /\ Head(g).kind \in Final \/ j.phase = "PREPARE" => Tail(g) = <<>>
<1> DEFINE q == Tail(g)
<1>1. /\ q \in Seq(Grant) /\ Len(q) = Len(g) - 1 /\ Head(g) = g[1] /\ Head(g) \in Grant
      /\ \A i \in 1 .. Len(q) : q[i] = g[i + 1]
  OBVIOUS
<1>2. Len(g) \in Nat /\ Len(g) > 0
  OBVIOUS
<1> HIDE DEF q
<1>3. Len(q) = 0 => q = <<>>
  BY <1>1
<1>4. 1 \in 1 .. Len(g) /\ \A i \in 1 .. Len(q) : i + 1 \in 1 .. Len(g)
  BY <1>1, <1>2
<1>5. \A i \in 1 .. Len(q) : Home(q[i].kind, j, p, t)
  BY <1>1, <1>4 DEF Queue
<1>6. \A i \in 1 .. Len(q) : q[i].kind \in Final => i = Len(q)
  BY <1>1, <1>2, <1>4 DEF Queue
<1>7. Home(g[1].kind, j, p, t) /\ (g[1].kind \in Final => Len(g) = 1)
  BY <1>4 DEF Queue
<1>8. j.phase = "PREPARE" => Len(g) = 1 /\ j.issued # "NONE"
  <2>1. j.phase = "PREPARE" => Len(g) <= 1 /\ j.issued # "NONE"
    BY DEF Queue
  <2>2. \A n \in Nat : n > 0 /\ n <= 1 => n = 1
    OBVIOUS
  <2> QED
    BY <1>2, <2>1, <2>2
<1>9. /\ g[1].kind \in Final \/ j.phase = "PREPARE" => q = <<>>
      /\ j.phase = "PREPARE" => Len(q) <= 1
  BY <1>1, <1>3, <1>7, <1>8
<1>10. Queue(j, p, t, q)
  BY <1>5, <1>6, <1>8, <1>9 DEF Queue
<1> QED
  BY <1>1, <1>7, <1>9, <1>10 DEF q

-------------------------------------------------------------------------------
(*** The stages of mac_join_step.                                             ***)

IsBundle(c) ==
  /\ c = [f \in {"j", "p", "a", "t", "g", "halt"} |-> c[f]]
  /\ IsJoin(c.j) /\ IsPoll(c.p) /\ IsAssoc(c.a) /\ IsEngine(c.t) /\ c.g \in Seq(Grant)

\* The attempt with other values in the fields that no part of the argument reads.
Alike(d, j) ==
  /\ IsJoin(d) /\ d.phase = j.phase /\ d.issued = j.issued /\ d.disarmed = j.disarmed
  /\ d.gen = j.gen /\ d.window = j.window /\ d.outcome = j.outcome

\* What only the extraction touches.
Calm(d, c) ==
  /\ d.a = c.a /\ d.p = c.p
  /\ d.j.gen = c.j.gen /\ d.j.window = c.j.window /\ d.j.outcome = c.j.outcome

Sound(c, k, r) ==
  IsBundle(c) /\ (c.j.phase # "FAULT" => Work(c.j, c.p, c.a, c.t, c.g, k, r))

\* An abort leaves alone what the argument reads.
LEMMA AbortIs ==
  ASSUME NEW j, IsJoin(j)
  PROVE  Alike(Abort(j), j)
  BY DEF Abort, Alike, IsJoin, JoinFields

\* What a fault does to the attempt.
LEMMA FaultOf ==
  ASSUME NEW j, IsJoin(j)
  PROVE  LET d == Fault(j) IN
         /\ IsJoin(d) /\ d.phase = "FAULT"
         /\ d.gen = j.gen /\ d.window = j.window /\ d.outcome = j.outcome
<1> DEFINE c == [j EXCEPT !.cleanup = @ \/ j.stopping \/ j.phase = "RESTORE"]
           b == Abort(c)
<1>1. Alike(c, j)
  BY DEF IsJoin, JoinFields, Alike
<1>2. Fault(j) = [b EXCEPT !.uncertain = TRUE, !.phase = "FAULT"]
  BY DEF Fault
<1> HIDE DEF c
<1>3. IsJoin(c)
  BY <1>1 DEF Alike
<1>4. Alike(b, c)
  BY <1>3, AbortIs
<1> HIDE DEF b
<1> QED
  BY <1>1, <1>2, <1>4 DEF IsJoin, JoinFields, Alike

\* What a fault does to the bundle.
LEMMA FailedIs ==
  ASSUME NEW c, IsBundle(c)
  PROVE  LET d == Failed(c) IN
         /\ IsBundle(d) /\ Calm(d, c) /\ d.t = c.t /\ d.g = c.g
         /\ d.j.phase = "FAULT" /\ d.halt = TRUE
<1> DEFINE f == Fault(c.j)
<1>1. /\ IsJoin(f) /\ f.phase = "FAULT"
      /\ f.gen = c.j.gen /\ f.window = c.j.window /\ f.outcome = c.j.outcome
  BY FaultOf DEF IsBundle
<1>2. Failed(c) = [c EXCEPT !.j = f, !.halt = TRUE]
  BY DEF Failed, IsBundle
<1> HIDE DEF f
<1> QED
  BY <1>1, <1>2 DEF IsBundle, Calm

\* What the end of a step does to the bundle.
LEMMA HaltedIs ==
  ASSUME NEW c, IsBundle(c)
  PROVE  LET d == Halted(c) IN
         IsBundle(d) /\ d.j = c.j /\ d.p = c.p /\ d.a = c.a /\ d.t = c.t /\ d.g = c.g /\ d.halt = TRUE
  BY DEF Halted, IsBundle

\* The attempt of a bundle replaced by another.
LEMMA JoinSet ==
  ASSUME NEW c, NEW j, IsBundle(c), IsJoin(j)
  PROVE  LET d == [c EXCEPT !.j = j] IN
         IsBundle(d) /\ d.j = j /\ d.p = c.p /\ d.a = c.a /\ d.t = c.t /\ d.g = c.g /\ d.halt = c.halt
  BY DEF IsBundle

\* The bundle c with one more grant.
Granted(d, c, kind) ==
  /\ IsBundle(d) /\ Calm(d, c) /\ d.t = c.t /\ d.halt = c.halt
  /\ d.j.issued = kind /\ d.j.phase = c.j.phase /\ d.j.disarmed = c.j.disarmed
  /\ \E x \in Grant : x.kind = kind /\ d.g = Append(c.g, x)

\* A grant is appended and noted.
LEMMA IssueGrants ==
  ASSUME NEW c, NEW kind \in GrantKinds, NEW cancel \in BOOLEAN, IsBundle(c)
  PROVE  Granted(Issue(c, kind, cancel), c, kind)
<1> DEFINE x == [kind |-> kind, token |-> Next1(c.j.token), cancel |-> cancel]
           j == [c.j EXCEPT !.issued = kind, !.token = Next1(@)]
           d == Issue(c, kind, cancel)
<1>0. Next1(c.j.token) \in Int
  BY DEF Next1, TOKENS, IsBundle, IsJoin
<1>1. x \in Grant
  BY <1>0 DEF Grant
<1>2. /\ IsJoin(j) /\ j.issued = kind /\ j.phase = c.j.phase /\ j.disarmed = c.j.disarmed
      /\ j.gen = c.j.gen /\ j.window = c.j.window /\ j.outcome = c.j.outcome
  BY <1>0 DEF IsBundle, IsJoin, JoinFields
<1>3. d = [c EXCEPT !.j = j, !.g = Append(c.g, x)]
  BY DEF Issue, IsBundle
<1>4. Append(c.g, x) \in Seq(Grant)
  BY <1>1 DEF IsBundle
<1> HIDE DEF x, j, d
<1>5. d.j = j /\ d.g = Append(c.g, x) /\ d.p = c.p /\ d.a = c.a /\ d.t = c.t /\ d.halt = c.halt
      /\ d = [f \in {"j", "p", "a", "t", "g", "halt"} |-> d[f]]
  BY <1>3 DEF IsBundle
<1>6. IsBundle(d)
  BY <1>2, <1>4, <1>5 DEF IsBundle
<1>7. x.kind = kind
  BY DEF x
<1> QED
  BY <1>1, <1>2, <1>5, <1>6, <1>7 DEF Calm, Granted, d

\* The invariant reads nothing else of the attempt.
LEMMA WorkAlike ==
  ASSUME NEW j, NEW d, NEW p, NEW a, NEW t, NEW g, NEW k, NEW r, Alike(d, j), Work(j, p, a, t, g, k, r)
  PROVE  Work(d, p, a, t, g, k, r)
<1>1. /\ d.phase = j.phase /\ d.issued = j.issued /\ d.disarmed = j.disarmed /\ d.window = j.window
  BY DEF Alike
<1>2. Queue(d, p, t, g) /\ MailHome(k, d, p, t, g, r)
  BY <1>1 DEF Queue, Work, MailHome, Home
<1> QED
  BY <1>1, <1>2 DEF Work

\* A grant that is at home, given when nothing stands in its way.
LEMMA GrantQueues ==
  ASSUME NEW c, NEW d, NEW kind, IsBundle(c), Granted(d, c, kind), Clear(c.g, d.j, d.p, d.t),
         Home(kind, d.j, d.p, d.t), d.j.phase = "PREPARE" => c.g = <<>> /\ d.j.issued # "NONE"
  PROVE  Queue(d.j, d.p, d.t, d.g)
<1>1. PICK x \in Grant : x.kind = kind /\ d.g = Append(c.g, x)
  BY DEF Granted
<1>2. c.g \in Seq(Grant)
  BY DEF IsBundle
<1>3. Queue(d.j, d.p, d.t, Append(c.g, x))
  BY <1>1, <1>2, Appended
<1> QED
  BY <1>1, <1>3

\* A failed attempt is sound.
LEMMA FailedSound ==
  ASSUME NEW c, NEW k, NEW r, IsBundle(c)
  PROVE  LET d == Failed(c) IN Sound(d, k, r) /\ Calm(d, c) /\ d.j.phase = "FAULT" /\ d.halt = TRUE
<1>1. LET d == Failed(c) IN IsBundle(d) /\ Calm(d, c) /\ d.j.phase = "FAULT" /\ d.halt = TRUE
  BY FailedIs
<1> QED
  BY <1>1 DEF Sound

\* The budget: the attempt is aborted, or it fails.
LEMMA SpendIs ==
  ASSUME NEW c, NEW kind, NEW spent, NEW k, NEW r, Sound(c, k, r)
  PROVE  LET d == Spend(c, kind, spent) IN
         /\ Sound(d, k, r) /\ Calm(d, c) /\ d.t = c.t /\ d.g = c.g
         /\ \/ d.j.phase = "FAULT" /\ d.halt = TRUE
            \/ Alike(d.j, c.j) /\ d.halt = c.halt
<1> DEFINE j == IF kind \in {"CANCEL", "FAILURE"} \/ (spent /\ ~c.j.stopping) THEN Abort(c.j) ELSE c.j
           b == [c EXCEPT !.j = j]
           d == Spend(c, kind, spent)
<1>1. IsBundle(c) /\ IsJoin(c.j)
  BY DEF Sound, IsBundle
<1>2. Alike(Abort(c.j), c.j) /\ Alike(c.j, c.j)
  <2>1. Alike(Abort(c.j), c.j)
    BY <1>1, AbortIs
  <2> QED
    BY <1>1, <2>1 DEF Alike
<1>3. Alike(j, c.j)
  BY <1>2
<1>4. d = Failed(b) \/ d = b
  BY DEF Spend
<1> HIDE DEF j, d
<1>5. IsJoin(j)
  BY <1>3 DEF Alike
<1>6. IsBundle(b) /\ b.j = j /\ b.p = c.p /\ b.a = c.a /\ b.t = c.t /\ b.g = c.g /\ b.halt = c.halt
  BY <1>1, <1>5, JoinSet
<1> HIDE DEF b
<1>7. Calm(b, c)
  BY <1>3, <1>6 DEF Calm, Alike
<1>8. CASE d = Failed(b)
  <2>1. IsBundle(d) /\ Calm(d, b) /\ d.t = b.t /\ d.g = b.g /\ d.j.phase = "FAULT" /\ d.halt = TRUE
    BY <1>6, <1>8, FailedIs
  <2> QED
    BY <1>6, <1>7, <2>1 DEF Sound, Calm, d
<1>9. CASE d = b
  <2>1. c.j.phase # "FAULT" => Work(j, c.p, c.a, c.t, c.g, k, r)
    BY <1>3, WorkAlike DEF Sound
  <2>2. Sound(b, k, r)
    BY <1>3, <1>6, <2>1 DEF Sound, Alike
  <2> QED
    BY <1>3, <1>6, <1>7, <1>9, <2>2 DEF d
<1> QED
  BY <1>4, <1>8, <1>9

\* Preparing: it goes on with the request, is given up, or waits.
LEMMA PrepareIs ==
  ASSUME NEW c, NEW kind, NEW matched, NEW admitted, NEW k, NEW r, Sound(c, k, r),
         c.j.phase = "PREPARE", ~c.halt, kind = "PREPARED" => c.g = <<>> /\ k = "NONE"
  PROVE  LET d == InPrepare(c, kind, matched, admitted) IN
         /\ Sound(d, k, r) /\ Calm(d, c)
         /\ d.j.phase \in {"PREPARE", "REQUEST", "RESTORE"}
         /\ d.j.phase = "REQUEST" => d.halt
         /\ d.j.phase = "RESTORE" => d.halt = c.halt
<1> DEFINE d == InPrepare(c, kind, matched, admitted)
<1>0. IsBundle(c) /\ IsJoin(c.j) /\ Work(c.j, c.p, c.a, c.t, c.g, k, r) /\ c.g \in Seq(Grant)
  BY DEF Sound, IsBundle
<1>w. /\ ~r.armed /\ c.j.window # 1 /\ c.a.phase = "IDLE"
      /\ k \in {"NONE", "PREPARED"}
      /\ \A i \in 1 .. Len(c.g) : c.g[i].kind = "PREPARE"
      /\ k = "PREPARED" => c.j.issued # "NONE" /\ c.g = <<>>
      /\ c.j.issued = "NONE" => c.g = <<>>
  <2>1. \A i \in 1 .. Len(c.g) : c.g[i].kind = "PREPARE"
    BY <1>0, GrantsAre DEF Work
  <2> QED
    BY <1>0, <2>1 DEF Work, MailHome, Queue, Home
<1>r. ASSUME NEW b, IsBundle(b), Calm(b, c), b.j.phase = "RESTORE", b.g = c.g, b.t = c.t
      PROVE  Sound(b, k, r)
  <2>1. Queue(b.j, b.p, b.t, b.g)
    BY <1>r, <1>w DEF Queue, Home, Final
  <2>2. MailHome(k, b.j, b.p, b.t, b.g, r)
    BY <1>r, <1>w DEF MailHome
  <2> QED
    BY <1>r, <1>w, <2>1, <2>2 DEF Sound, Work, Calm
<1>1. CASE c.j.stopping
  <2> DEFINE j == [c.j EXCEPT !.phase = "RESTORE"]
  <2>1. d = [c EXCEPT !.j = j]
    BY <1>0, <1>1 DEF InPrepare, IsBundle
  <2>2. /\ IsJoin(j) /\ j.phase = "RESTORE" /\ j.gen = c.j.gen
        /\ j.window = c.j.window /\ j.outcome = c.j.outcome
    BY <1>0 DEF IsJoin, JoinFields
  <2> HIDE DEF j, d
  <2>3. IsBundle(d) /\ d.j = j /\ d.p = c.p /\ d.a = c.a /\ d.t = c.t /\ d.g = c.g /\ d.halt = c.halt
    BY <1>0, <2>1, <2>2, JoinSet
  <2>4. Calm(d, c)
    BY <2>2, <2>3 DEF Calm
  <2>5. Sound(d, k, r)
    BY <1>r, <2>2, <2>3, <2>4
  <2> QED
    BY <2>2, <2>3, <2>4, <2>5 DEF d
<1>2. CASE ~c.j.stopping /\ matched /\ kind = "PREPARED" /\ ~admitted
  <2> DEFINE b == Abort(c.j)
             j == [b EXCEPT !.phase = "RESTORE", !.issued = "NONE"]
  <2>1. d = [c EXCEPT !.j = j]
    BY <1>0, <1>2 DEF InPrepare, IsBundle
  <2>2. Alike(b, c.j)
    BY <1>0, AbortIs
  <2> HIDE DEF b
  <2>3. /\ IsJoin(j) /\ j.phase = "RESTORE" /\ j.gen = c.j.gen
        /\ j.window = c.j.window /\ j.outcome = c.j.outcome
    BY <2>2 DEF IsJoin, JoinFields, Alike
  <2> HIDE DEF j, d
  <2>4. IsBundle(d) /\ d.j = j /\ d.p = c.p /\ d.a = c.a /\ d.t = c.t /\ d.g = c.g /\ d.halt = c.halt
    BY <1>0, <2>1, <2>3, JoinSet
  <2>5. Calm(d, c)
    BY <2>3, <2>4 DEF Calm
  <2>6. Sound(d, k, r)
    BY <1>r, <2>3, <2>4, <2>5
  <2> QED
    BY <2>3, <2>4, <2>5, <2>6 DEF d
<1>3. CASE ~c.j.stopping /\ matched /\ kind = "PREPARED" /\ admitted
  <2> DEFINE b == [c EXCEPT !.j.phase = "REQUEST", !.j.armed = FALSE, !.j.disarmed = FALSE,
                            !.t = Engine("DRAW", "NONE", FALSE, FALSE)]
             f == Issue(b, "ARM", FALSE)
  <2>1. d = Halted(f)
    BY <1>3 DEF InPrepare
  <2>2. /\ IsBundle(b) /\ Calm(b, c) /\ b.j.phase = "REQUEST" /\ ~b.j.disarmed /\ b.g = c.g
    BY <1>0 DEF IsBundle, Calm, IsJoin, JoinFields, Engine, IsEngine, EngineFields
  <2> HIDE DEF b, d
  <2>3. Granted(f, b, "ARM")
    <3>1. "ARM" \in GrantKinds /\ FALSE \in BOOLEAN
      BY DEF GrantKinds
    <3> QED
      BY <2>2, <3>1, IssueGrants
  <2>a. IsBundle(f)
    BY <2>3 DEF Granted
  <2> HIDE DEF f
  <2>4. IsBundle(d) /\ d.j = f.j /\ d.p = f.p /\ d.a = f.a /\ d.t = f.t /\ d.g = f.g /\ d.halt = TRUE
    BY <2>1, <2>a, HaltedIs
  <2>5. Calm(d, c) /\ d.j.phase = "REQUEST" /\ ~d.j.disarmed
    BY <2>2, <2>3, <2>4 DEF Calm, Granted
  <2>6. Queue(d.j, d.p, d.t, d.g)
    <3>1. Home("ARM", f.j, f.p, f.t) /\ f.j.phase # "PREPARE"
      BY <2>4, <2>5 DEF Home
    <3>2. Clear(b.g, f.j, f.p, f.t)
      BY <1>3, <2>2, ClearAtFirst
    <3>3. Queue(f.j, f.p, f.t, f.g)
      BY <2>2, <2>3, <3>1, <3>2, GrantQueues
    <3> QED
      BY <2>4, <3>3
  <2>7. Sound(d, k, r)
    BY <1>3, <1>w, <2>4, <2>5, <2>6 DEF Sound, Work, MailHome, Calm
  <2> QED
    BY <2>4, <2>5, <2>7 DEF d
<1>4. CASE ~c.j.stopping /\ ~(matched /\ kind = "PREPARED")
  <2>1. d = IF c.j.issued = "NONE" THEN Issue(c, "PREPARE", FALSE) ELSE c
    BY <1>4 DEF InPrepare
  <2> HIDE DEF d
  <2>2. CASE c.j.issued # "NONE"
    <3>1. d = c
      BY <2>1, <2>2
    <3> QED
      BY <3>1 DEF Calm, d
  <2>3. CASE c.j.issued = "NONE"
    <3>1. Granted(d, c, "PREPARE")
      <4>1. "PREPARE" \in GrantKinds /\ FALSE \in BOOLEAN /\ d = Issue(c, "PREPARE", FALSE)
        BY <2>1, <2>3 DEF GrantKinds
      <4> QED
        BY <1>0, <4>1, IssueGrants
    <3>2. /\ IsBundle(d) /\ Calm(d, c) /\ d.halt = c.halt
          /\ d.j.issued = "PREPARE" /\ d.j.phase = "PREPARE"
      BY <3>1 DEF Granted
    <3>3. Queue(d.j, d.p, d.t, d.g)
      <4>1. Home("PREPARE", d.j, d.p, d.t) /\ d.j.issued # "NONE"
        BY <3>2 DEF Home
      <4>2. c.g = <<>>
        BY <1>w, <2>3
      <4>3. Clear(c.g, d.j, d.p, d.t)
        BY <4>2, ClearAtFirst
      <4> QED
        BY <1>0, <3>1, <4>1, <4>2, <4>3, GrantQueues
    <3>4. k = "NONE"
      BY <1>w, <2>3
    <3>5. Sound(d, k, r)
      BY <1>w, <3>2, <3>3, <3>4 DEF Sound, Work, MailHome, Calm
    <3> QED
      BY <3>2, <3>5 DEF d
  <2> QED
    BY <2>2, <2>3
<1> QED
  BY <1>1, <1>2, <1>3, <1>4

\* The response time: given up, over, or still running.
LEMMA WaitIs ==
  ASSUME NEW c, NEW over, NEW k, NEW r, Sound(c, k, r), c.j.phase = "WAIT", ~c.halt
  PROVE  LET d == InWait(c, over) IN
         /\ Sound(d, k, r) /\ d.halt = c.halt
         /\ d.a = c.a /\ d.j.gen = c.j.gen /\ d.j.window = c.j.window /\ d.j.outcome = c.j.outcome
         /\ \/ d.j.phase \in {"WAIT", "RESTORE"} /\ d.p = c.p
            \/ d.j.phase = "EXTRACT" /\ d.p = PollStart
<1> DEFINE d == InWait(c, over)
<1>0. IsBundle(c) /\ IsJoin(c.j) /\ Work(c.j, c.p, c.a, c.t, c.g, k, r) /\ c.g \in Seq(Grant)
  BY DEF Sound, IsBundle
<1>w. ~r.armed /\ c.j.window # 1 /\ c.a.phase = "IDLE" /\ k = "NONE" /\ c.g = <<>>
  <2>1. c.g = <<>>
    BY <1>0, GrantsAre DEF Work
  <2> QED
    BY <1>0, <2>1 DEF Work, MailHome, Home
<1>1. CASE c.j.stopping
  <2> DEFINE j == [c.j EXCEPT !.phase = "RESTORE"]
  <2>1. d = [c EXCEPT !.j = j]
    BY <1>0, <1>1 DEF InWait, IsBundle
  <2>2. /\ IsJoin(j) /\ j.phase = "RESTORE" /\ j.gen = c.j.gen
        /\ j.window = c.j.window /\ j.outcome = c.j.outcome
    BY <1>0 DEF IsJoin, JoinFields
  <2> HIDE DEF j, d
  <2>3. IsBundle(d) /\ d.j = j /\ d.p = c.p /\ d.a = c.a /\ d.t = c.t /\ d.g = c.g /\ d.halt = c.halt
    BY <1>0, <2>1, <2>2, JoinSet
  <2>4. Queue(d.j, d.p, d.t, d.g)
    BY <1>w, <2>3, Emptied
  <2>5. Sound(d, k, r)
    BY <1>w, <2>2, <2>3, <2>4 DEF Sound, Work, MailHome
  <2> QED
    BY <2>2, <2>3, <2>5 DEF d
<1>2. CASE ~c.j.stopping /\ over
  <2>1. d = [c EXCEPT !.p = PollStart, !.j.phase = "EXTRACT"]
    BY <1>2 DEF InWait
  <2>2. IsPoll(PollStart) /\ PollStart.phase \in Busy /\ Fits(PollStart, c.t)
    BY DEF PollStart, IdlePoll, NoReceipt, IsPoll, PollFields, Busy, Fits
  <2> HIDE DEF d
  <2>3. /\ d = [f \in {"j", "p", "a", "t", "g", "halt"} |-> d[f]]
        /\ d.j = [c.j EXCEPT !.phase = "EXTRACT"] /\ d.p = PollStart
        /\ d.a = c.a /\ d.t = c.t /\ d.g = c.g /\ d.halt = c.halt
    BY <1>0, <2>1 DEF IsBundle
  <2>4. /\ IsJoin(d.j) /\ d.j.phase = "EXTRACT" /\ d.j.gen = c.j.gen
        /\ d.j.window = c.j.window /\ d.j.outcome = c.j.outcome
    BY <1>0, <2>3 DEF IsJoin, JoinFields
  <2>5. Queue(d.j, d.p, d.t, d.g)
    BY <1>w, <2>3, Emptied
  <2>6. IsBundle(d)
    BY <1>0, <2>2, <2>3, <2>4 DEF IsBundle
  <2>7. Work(d.j, d.p, d.a, d.t, d.g, k, r)
    BY <1>w, <2>2, <2>3, <2>4, <2>5 DEF Work, MailHome
  <2> QED
    BY <2>3, <2>4, <2>6, <2>7 DEF Sound, d
<1>3. CASE ~c.j.stopping /\ ~over
  <2>1. d = c
    BY <1>3 DEF InWait
  <2> QED
    BY <2>1
<1> QED
  BY <1>1, <1>2, <1>3

\* Restoring: over, failed, or asked for once.
LEMMA RestoreIs ==
  ASSUME NEW c, NEW kind, NEW matched, NEW rested, NEW k, NEW r, Sound(c, k, r),
         c.j.phase = "RESTORE", ~c.halt,
         kind = "RESTORED" => c.g = <<>> /\ ~r.tuned /\ k = "NONE"
  PROVE  LET d == InRestore(c, kind, matched, rested) IN
         Sound(d, k, r) /\ Calm(d, c) /\ d.j.phase \in {"RESTORE", "DONE", "FAULT"}
<1> DEFINE d == InRestore(c, kind, matched, rested)
           stuck == kind = "FAILURE" \/ c.t.phase # "IDLE" \/ c.p.phase # "IDLE"
           ended == matched /\ kind = "RESTORED" /\ c.j.issued = "RESTORE"
           b == [c EXCEPT !.j.stopping = TRUE]
<1>0. IsBundle(c) /\ IsJoin(c.j) /\ Work(c.j, c.p, c.a, c.t, c.g, k, r) /\ c.g \in Seq(Grant)
  BY DEF Sound, IsBundle
<1>w. /\ ~r.armed /\ c.j.window # 1 /\ c.a.phase = "IDLE"
      /\ k \in {"NONE", "PREPARED", "RESTORED"}
      /\ k = "RESTORED" => c.j.issued = "RESTORE"
      /\ \A i \in 1 .. Len(c.g) : c.g[i].kind \in {"PREPARE", "RESTORE"}
      /\ \A i \in 1 .. Len(c.g) : c.g[i].kind = "RESTORE" => c.j.issued = "RESTORE"
  <2>1. \A i \in 1 .. Len(c.g) : c.g[i].kind \in {"PREPARE", "RESTORE"}
    BY <1>0, GrantsAre DEF Work
  <2>2. \A i \in 1 .. Len(c.g) : c.g[i].kind = "RESTORE" => c.j.issued = "RESTORE"
    BY <1>0 DEF Work, Queue, Home
  <2> QED
    BY <1>0, <2>1, <2>2 DEF Work, MailHome, Home
<1>1. CASE stuck \/ (ended /\ ~rested)
  <2>1. d = Failed(c)
    BY <1>1 DEF InRestore
  <2> HIDE DEF d
  <2>2. Sound(d, k, r) /\ Calm(d, c) /\ d.j.phase = "FAULT"
    BY <1>0, <2>1, FailedSound
  <2> QED
    BY <2>2 DEF d
<1>b. /\ IsBundle(b) /\ Alike(b.j, c.j) /\ Calm(b, c) /\ b.t = c.t /\ b.g = c.g
  <2>1. /\ b = [f \in {"j", "p", "a", "t", "g", "halt"} |-> b[f]]
        /\ b.j = [c.j EXCEPT !.stopping = TRUE] /\ b.p = c.p
        /\ b.a = c.a /\ b.t = c.t /\ b.g = c.g /\ b.halt = c.halt
    BY <1>0 DEF IsBundle
  <2> HIDE DEF b
  <2>2. Alike(b.j, c.j)
    BY <1>0, <2>1 DEF Alike, IsJoin, JoinFields
  <2> QED
    BY <1>0, <2>1, <2>2 DEF IsBundle, Calm, Alike
<1>2. CASE ~stuck /\ ended /\ rested
  <2>1. d = [b EXCEPT !.j.issued = "NONE", !.j.restored = TRUE, !.j.uncertain = FALSE, !.j.phase = "DONE"]
    BY <1>2 DEF InRestore
  <2>2. c.t.phase = "IDLE" /\ c.p.phase = "IDLE" /\ kind = "RESTORED"
    BY <1>2
  <2> HIDE DEF d, b, stuck, ended
  <2>3. /\ d = [f \in {"j", "p", "a", "t", "g", "halt"} |-> d[f]]
        /\ d.j = [b.j EXCEPT !.issued = "NONE", !.restored = TRUE, !.uncertain = FALSE, !.phase = "DONE"]
        /\ d.p = b.p /\ d.a = b.a /\ d.t = b.t /\ d.g = b.g
    BY <1>b, <2>1 DEF IsBundle
  <2>4. /\ IsJoin(d.j) /\ d.j.phase = "DONE" /\ d.j.gen = c.j.gen
        /\ d.j.window = c.j.window /\ d.j.outcome = c.j.outcome
    BY <1>b, <2>3 DEF IsJoin, JoinFields, Alike
  <2>5. IsBundle(d) /\ Calm(d, c) /\ d.g = <<>> /\ d.t = c.t
    BY <1>b, <2>2, <2>3, <2>4 DEF IsBundle, Calm
  <2>6. Queue(d.j, d.p, d.t, d.g)
    BY <2>5, Emptied
  <2>7. Sound(d, k, r)
    BY <1>w, <2>2, <2>4, <2>5, <2>6 DEF Sound, Work, MailHome, Calm
  <2> QED
    BY <2>4, <2>5, <2>7 DEF d
<1>3. CASE ~stuck /\ ~ended /\ c.j.issued = "RESTORE"
  <2>1. d = b
    BY <1>3 DEF InRestore
  <2> HIDE DEF d, b
  <2>2. Work(b.j, c.p, c.a, c.t, c.g, k, r)
    BY <1>0, <1>b, WorkAlike
  <2>3. Sound(b, k, r) /\ b.j.phase = "RESTORE"
    BY <1>b, <2>2 DEF Sound, Calm, Alike
  <2> QED
    BY <1>b, <2>1, <2>3 DEF d
<1>4. CASE ~stuck /\ ~ended /\ c.j.issued # "RESTORE"
  <2>1. d = Issue(b, "RESTORE", FALSE)
    BY <1>4 DEF InRestore
  <2> HIDE DEF d, b
  <2>2. Granted(d, b, "RESTORE")
    <3>1. "RESTORE" \in GrantKinds /\ FALSE \in BOOLEAN
      BY DEF GrantKinds
    <3> QED
      BY <1>b, <2>1, <3>1, IssueGrants
  <2>3. /\ IsBundle(d) /\ Calm(d, c) /\ d.t = c.t /\ d.j.phase = "RESTORE" /\ d.j.issued = "RESTORE"
    BY <1>b, <2>2 DEF Granted, Calm, Alike
  <2>4. Clear(b.g, d.j, d.p, d.t)
    BY <1>w, <1>b, <1>4, <2>3 DEF Clear, Home, Final
  <2>5. Home("RESTORE", d.j, d.p, d.t)
    BY <2>3 DEF Home
  <2>6. Queue(d.j, d.p, d.t, d.g)
    BY <1>b, <2>2, <2>3, <2>4, <2>5, GrantQueues
  <2>7. Sound(d, k, r)
    BY <1>w, <1>4, <2>3, <2>6 DEF Sound, Work, MailHome, Calm
  <2> QED
    BY <2>3, <2>7 DEF d
<1> QED
  BY <1>1, <1>2, <1>3, <1>4

-------------------------------------------------------------------------------
(*** The request.                                                             ***)

\* While no disarming is about, the request may move as it likes.
LEMMA RequestKeeps ==
  ASSUME NEW c, NEW d, NEW k, NEW r, Sound(c, k, r), c.j.phase = "REQUEST",
         ~(c.j.issued = "DISARM" /\ c.t.phase = "DONE"),
         IsBundle(d), Calm(d, c), d.j.phase = "REQUEST", ~d.j.disarmed
  PROVE  /\ Clear(c.g, d.j, d.p, d.t)
         /\ Queue(d.j, d.p, d.t, d.g) => Sound(d, k, r)
         /\ d.g = c.g => Sound(d, k, r)
<1>0. Work(c.j, c.p, c.a, c.t, c.g, k, r) /\ c.g \in Seq(Grant)
  BY DEF Sound, IsBundle
<1>1. \A i \in 1 .. Len(c.g) : c.g[i].kind = "ARM"
  <2>1. \A i \in 1 .. Len(c.g) : c.g[i].kind \in {"ARM", "DISARM"}
    BY <1>0, GrantsAre DEF Work
  <2>2. \A i \in 1 .. Len(c.g) : c.g[i].kind = "DISARM" => c.j.issued = "DISARM" /\ c.t.phase = "DONE"
    BY <1>0 DEF Work, Queue, Home
  <2> QED
    BY <2>1, <2>2
<1>2. k \in {"NONE", "ARMED"} /\ c.j.window # 1 /\ c.a.phase = "IDLE"
  BY <1>0 DEF Work, MailHome, Home
<1>3. Clear(c.g, d.j, d.p, d.t)
  BY <1>1 DEF Clear, Home, Final
<1>4. d.g = c.g => Queue(d.j, d.p, d.t, d.g)
  BY <1>3 DEF Clear, Queue
<1>5. Queue(d.j, d.p, d.t, d.g) => Sound(d, k, r)
  BY <1>2 DEF Sound, Work, MailHome, Calm
<1> QED
  BY <1>3, <1>4, <1>5

\* The end of a step keeps a bundle sound.
LEMMA HaltedSound ==
  ASSUME NEW c, NEW k, NEW r, Sound(c, k, r)
  PROVE  LET d == Halted(c) IN
         Sound(d, k, r) /\ Calm(d, c) /\ d.j = c.j /\ d.t = c.t /\ d.g = c.g /\ d.halt = TRUE
<1>1. IsBundle(c)
  BY DEF Sound
<1> DEFINE d == Halted(c)
<1>2. IsBundle(d) /\ d.j = c.j /\ d.p = c.p /\ d.a = c.a /\ d.t = c.t /\ d.g = c.g /\ d.halt = TRUE
  BY <1>1, HaltedIs
<1> HIDE DEF d
<1> QED
  BY <1>2 DEF Sound, Calm, d

\* A grant given in the request.
LEMMA RequestGrants ==
  ASSUME NEW c, NEW b, NEW k, NEW r, NEW kind \in {"ARM", "DISARM"}, Sound(c, k, r), c.j.phase = "REQUEST",
         ~(c.j.issued = "DISARM" /\ c.t.phase = "DONE"),
         IsBundle(b), Calm(b, c), b.j.phase = "REQUEST", ~b.j.disarmed, b.g = c.g,
         kind = "DISARM" => b.t.phase = "DONE"
  PROVE  LET d == Issue(b, kind, FALSE) IN
         Sound(d, k, r) /\ Calm(d, c) /\ d.j.phase = "REQUEST" /\ ~d.j.disarmed /\ d.t = b.t /\ d.halt = b.halt
<1> DEFINE d == Issue(b, kind, FALSE)
<1>1. Granted(d, b, kind)
  <2>1. kind \in GrantKinds /\ FALSE \in BOOLEAN
    BY DEF GrantKinds
  <2> QED
    BY <2>1, IssueGrants
<1> HIDE DEF d
<1>2. /\ IsBundle(d) /\ Calm(d, c) /\ d.t = b.t /\ d.halt = b.halt
      /\ d.j.issued = kind /\ d.j.phase = "REQUEST" /\ ~d.j.disarmed
  BY <1>1 DEF Granted, Calm
<1>3. Clear(c.g, d.j, d.p, d.t) /\ (Queue(d.j, d.p, d.t, d.g) => Sound(d, k, r))
  BY <1>2, RequestKeeps
<1>4. Home(kind, d.j, d.p, d.t)
  BY <1>2 DEF Home
<1>5. Queue(d.j, d.p, d.t, d.g)
  BY <1>1, <1>2, <1>3, <1>4, GrantQueues
<1> QED
  BY <1>2, <1>3, <1>5 DEF d

\* Every draw waits for the adapter to be armed (mac_join.c:542-553).
LEMMA ArmingIs ==
  ASSUME NEW c, NEW kind, NEW matched, NEW k, NEW r, Sound(c, k, r), c.j.phase = "REQUEST", ~c.halt
  PROVE  LET d == Arming(c, kind, matched) IN
         /\ Sound(d, k, r) /\ Calm(d, c) /\ d.j.phase = "REQUEST" /\ d.t = c.t
         /\ d.halt \/ (d.g = c.g /\ (c.t.phase = "DONE" => d = c))
<1> DEFINE d == Arming(c, kind, matched)
<1>0. IsBundle(c) /\ IsJoin(c.j) /\ ~c.j.disarmed
  BY DEF Sound, IsBundle, Work
<1>1. CASE c.j.armed \/ c.j.stopping \/ c.t.phase = "DONE"
  <2>1. d = c
    BY <1>1 DEF Arming
  <2> QED
    BY <2>1 DEF Calm
<1>2. CASE ~(c.j.armed \/ c.j.stopping \/ c.t.phase = "DONE") /\ kind = "ARMED" /\ matched /\ c.j.issued = "ARM"
  <2>1. d = [c EXCEPT !.j.armed = TRUE, !.j.issued = "NONE"]
    BY <1>2 DEF Arming
  <2> HIDE DEF d
  <2>2. /\ d = [f \in {"j", "p", "a", "t", "g", "halt"} |-> d[f]]
        /\ d.j = [c.j EXCEPT !.armed = TRUE, !.issued = "NONE"]
        /\ d.p = c.p /\ d.a = c.a /\ d.t = c.t /\ d.g = c.g /\ d.halt = c.halt
    BY <1>0, <2>1 DEF IsBundle
  <2>3. /\ IsJoin(d.j) /\ d.j.phase = "REQUEST" /\ ~d.j.disarmed /\ d.j.gen = c.j.gen
        /\ d.j.window = c.j.window /\ d.j.outcome = c.j.outcome
    BY <1>0, <2>2 DEF IsJoin, JoinFields
  <2>4. IsBundle(d) /\ Calm(d, c)
    BY <1>0, <2>2, <2>3 DEF IsBundle, Calm
  <2>5. Sound(d, k, r)
    BY <1>2, <2>2, <2>3, <2>4, RequestKeeps
  <2> QED
    BY <1>2, <2>2, <2>3, <2>4, <2>5 DEF d
<1>3. CASE /\ ~(c.j.armed \/ c.j.stopping \/ c.t.phase = "DONE")
           /\ ~(kind = "ARMED" /\ matched /\ c.j.issued = "ARM")
  <2>1. d = Halted(IF c.j.issued = "ARM" THEN c ELSE Issue(c, "ARM", FALSE))
    BY <1>3 DEF Arming
  <2> DEFINE b == IF c.j.issued = "ARM" THEN c ELSE Issue(c, "ARM", FALSE)
  <2>2. Sound(b, k, r) /\ Calm(b, c) /\ b.j.phase = "REQUEST" /\ b.t = c.t
    <3>1. Calm(c, c)
      BY DEF Calm
    <3>2. LET i == Issue(c, "ARM", FALSE) IN
          Sound(i, k, r) /\ Calm(i, c) /\ i.j.phase = "REQUEST" /\ i.t = c.t
      BY <1>0, <1>3, <3>1, RequestGrants
    <3> QED
      BY <3>1, <3>2
  <2> HIDE DEF d, b
  <2>3. Sound(d, k, r) /\ Calm(d, b) /\ d.j = b.j /\ d.t = b.t /\ d.halt = TRUE
    BY <2>1, <2>2, HaltedSound DEF b
  <2> QED
    BY <2>2, <2>3 DEF Calm, d
<1> QED
  BY <1>1, <1>2, <1>3

\* The engine steps and asks for the next arming (mac_join.c:554-603).
LEMMA SteppingIs ==
  ASSUME NEW c, NEW t2, NEW k, NEW r, Sound(c, k, r), c.j.phase = "REQUEST", IsEngine(t2)
  PROVE  LET d == Stepping(c, t2) IN
         /\ Sound(d, k, r) /\ Calm(d, c) /\ d.j.phase = "REQUEST" /\ d.halt = c.halt
         /\ d.t.phase = "DONE" => d.g = c.g
<1> DEFINE d == Stepping(c, t2)
           b == [c EXCEPT !.t = t2, !.j = IF t2.outcome = "TIMING_UNCERTAIN" THEN Abort(@) ELSE @]
           f == [b EXCEPT !.j.armed = FALSE]
<1>0. IsBundle(c) /\ IsJoin(c.j) /\ ~c.j.disarmed
  BY DEF Sound, IsBundle, Work
<1>1. CASE c.halt \/ Resting(c.t)
  <2>1. d = c
    BY <1>1 DEF Stepping
  <2> QED
    BY <2>1 DEF Calm
<1>2. CASE ~c.halt /\ ~Resting(c.t)
  <2>1. d = IF t2.phase = "DRAW" THEN Issue(f, "ARM", FALSE) ELSE b
    BY <1>2 DEF Stepping
  <2>2. /\ IsBundle(b) /\ Calm(b, c) /\ b.j.phase = "REQUEST" /\ ~b.j.disarmed
        /\ b.g = c.g /\ b.t = t2 /\ b.halt = c.halt
    <3> DEFINE j == IF t2.outcome = "TIMING_UNCERTAIN" THEN Abort(c.j) ELSE c.j
    <3>1. Alike(Abort(c.j), c.j)
      BY <1>0, AbortIs
    <3>2. Alike(j, c.j)
      BY <1>0, <3>1 DEF Alike
    <3>3. b = [c EXCEPT !.t = t2, !.j = j]
      BY <1>0 DEF IsBundle
    <3> HIDE DEF j, b
    <3>4. /\ b = [x \in {"j", "p", "a", "t", "g", "halt"} |-> b[x]]
          /\ b.j = j /\ b.p = c.p /\ b.a = c.a /\ b.t = t2 /\ b.g = c.g /\ b.halt = c.halt
      BY <1>0, <3>3 DEF IsBundle
    <3> QED
      BY <1>0, <3>2, <3>4 DEF IsBundle, Calm, Alike
  <2> HIDE DEF b, d
  <2>3. /\ IsBundle(f) /\ Calm(f, c) /\ f.j.phase = "REQUEST" /\ ~f.j.disarmed
        /\ f.g = c.g /\ f.t = t2 /\ f.halt = c.halt
    <3>1. /\ f = [x \in {"j", "p", "a", "t", "g", "halt"} |-> f[x]]
          /\ f.j = [b.j EXCEPT !.armed = FALSE]
          /\ f.p = b.p /\ f.a = b.a /\ f.t = b.t /\ f.g = b.g /\ f.halt = b.halt
      BY <2>2 DEF IsBundle
    <3> HIDE DEF f
    <3>2. /\ IsJoin(f.j) /\ f.j.phase = "REQUEST" /\ f.j.disarmed = b.j.disarmed /\ f.j.gen = b.j.gen
          /\ f.j.window = b.j.window /\ f.j.outcome = b.j.outcome
      BY <2>2, <3>1 DEF IsBundle, IsJoin, JoinFields
    <3>3. ~f.j.disarmed
      BY <2>2, <3>2
    <3> QED
      BY <2>2, <3>1, <3>2, <3>3 DEF IsBundle, Calm
  <2> HIDE DEF f
  <2>4. c.t.phase # "DONE"
    BY <1>2 DEF Resting
  <2>5. CASE t2.phase # "DRAW"
    <3>1. d = b
      BY <2>1, <2>5
    <3>2. Sound(b, k, r)
      BY <2>2, <2>4, RequestKeeps
    <3> QED
      BY <2>2, <3>1, <3>2 DEF d
  <2>6. CASE t2.phase = "DRAW"
    <3>1. d = Issue(f, "ARM", FALSE)
      BY <2>1, <2>6
    <3>2. Sound(d, k, r) /\ Calm(d, c) /\ d.j.phase = "REQUEST" /\ d.t = f.t /\ d.halt = f.halt
      BY <2>3, <2>4, <3>1, RequestGrants
    <3> QED
      BY <2>3, <2>6, <3>2 DEF d
  <2> QED
    BY <2>5, <2>6
<1> QED
  BY <1>1, <1>2

\* The request is over, and the arming taken back.
LEMMA RequestedIs ==
  ASSUME NEW c, NEW k, NEW r, IsBundle(c), c.g = <<>>, ~r.armed, k = "NONE",
         c.j.window # 1, c.a.phase = "IDLE"
  PROVE  LET d == Requested(c) IN
         Sound(d, k, r) /\ Calm(d, c) /\ d.j.phase \in {"WAIT", "RESTORE"} /\ d.halt = c.halt
<1> DEFINE d == Requested(c)
           j == IF c.j.stopping \/ c.t.outcome # "ACKED"
                THEN [c.j EXCEPT !.result = IF @ = "NONE" THEN "REQUEST_RESULT" ELSE @, !.phase = "RESTORE"]
                ELSE [c.j EXCEPT !.phase = "WAIT"]
<1>1. d = [c EXCEPT !.t = IdleEngine, !.j = j]
  BY DEF Requested, IsBundle
<1>2. /\ IsJoin(j) /\ j.phase \in {"WAIT", "RESTORE"} /\ j.gen = c.j.gen
      /\ j.window = c.j.window /\ j.outcome = c.j.outcome
  BY DEF IsBundle, IsJoin, JoinFields
<1>3. IsEngine(IdleEngine)
  BY DEF IdleEngine, Engine, IsEngine, EngineFields
<1> HIDE DEF d, j
<1>4. /\ d = [x \in {"j", "p", "a", "t", "g", "halt"} |-> d[x]]
      /\ d.j = j /\ d.p = c.p /\ d.a = c.a /\ d.t = IdleEngine /\ d.g = c.g /\ d.halt = c.halt
  BY <1>1 DEF IsBundle
<1>5. IsBundle(d) /\ Calm(d, c)
  BY <1>2, <1>3, <1>4 DEF IsBundle, Calm
<1>6. Queue(d.j, d.p, d.t, d.g)
  BY <1>4, Emptied
<1>7. Work(d.j, d.p, d.a, d.t, d.g, k, r)
  BY <1>2, <1>4, <1>6 DEF Work, MailHome
<1> QED
  BY <1>2, <1>4, <1>5, <1>7 DEF Sound, d

\* The engine stays an engine.
LEMMA EngineStepsAre ==
  ASSUME NEW t, NEW cancel, IsEngine(t), NEW u \in EngineSteps(t, cancel)
  PROVE  IsEngine(u)
<1>1. \A phase, outcome, sent, pending : IsEngine(Engine(phase, outcome, sent, pending))
  BY DEF Engine, IsEngine, EngineFields
<1>2. \/ \E phase, outcome, sent, pending : u = Engine(phase, outcome, sent, pending)
      \/ u \in {t, [t EXCEPT !.phase = "DONE"], [t EXCEPT !.phase = "FAULT"]}
  BY DEF EngineSteps
<1>3. IsEngine([t EXCEPT !.phase = "DONE"]) /\ IsEngine([t EXCEPT !.phase = "FAULT"])
  BY DEF IsEngine, EngineFields
<1> QED
  BY <1>1, <1>2, <1>3

\* The request: under way, through, given up, or failed.
LEMMA RequestIs ==
  ASSUME NEW c, NEW kind, NEW matched, NEW t2, NEW k, NEW r, Sound(c, k, r),
         c.j.phase = "REQUEST", ~c.halt, IsEngine(t2),
         kind = "DISARMED" => c.g = <<>> /\ ~r.armed /\ k = "NONE"
  PROVE  LET d == InRequest(c, kind, matched, t2) IN
         /\ Sound(d, k, r) /\ Calm(d, c)
         /\ d.j.phase \in {"REQUEST", "WAIT", "RESTORE", "FAULT"}
         /\ d.j.phase = "FAULT" => d.halt
         /\ d.j.phase \in {"WAIT", "RESTORE"} => ~d.halt
<1> DEFINE a == Arming(c, kind, matched)
           d == Stepping(a, t2)
           e == Disarming(d, kind, matched)
           q == InRequest(c, kind, matched, t2)
<1>1. /\ Sound(a, k, r) /\ Calm(a, c) /\ a.j.phase = "REQUEST"
      /\ a.halt \/ a.g = c.g
  BY ArmingIs
<1>q. q = CASE d.halt -> d
            [] ~d.halt /\ d.t.phase = "FAULT" -> Failed(d)
            [] ~d.halt /\ d.t.phase = "DONE" -> IF e.halt THEN e ELSE Requested(e)
            [] OTHER -> d
  BY Zenon DEF InRequest
<1> HIDE DEF a, q
<1>2. /\ Sound(d, k, r) /\ Calm(d, a) /\ d.j.phase = "REQUEST" /\ d.halt = a.halt
      /\ d.t.phase = "DONE" => d.g = a.g
  BY <1>1, SteppingIs
<1> HIDE DEF d
<1>3. Calm(d, c) /\ IsBundle(d)
  BY <1>1, <1>2 DEF Calm, Sound
<1>4. CASE d.halt \/ (~d.halt /\ d.t.phase \notin {"FAULT", "DONE"})
  <2>1. q = d
    BY <1>q, <1>4
  <2> QED
    BY <1>2, <1>3, <2>1 DEF q
<1>5. CASE ~d.halt /\ d.t.phase = "FAULT"
  <2>1. q = Failed(d)
    BY <1>q, <1>5
  <2>2. Sound(q, k, r) /\ Calm(q, d) /\ q.j.phase = "FAULT" /\ q.halt = TRUE
    BY <1>3, <2>1, FailedSound
  <2>3. Calm(q, c) /\ q.halt
    BY <1>3, <2>2 DEF Calm
  <2> QED
    BY <2>2, <2>3 DEF q
<1>6. CASE ~d.halt /\ d.t.phase = "DONE"
  <2>0. /\ ~d.j.disarmed /\ IsJoin(d.j) /\ d.g = c.g /\ d.j.window # 1 /\ d.a.phase = "IDLE"
    BY <1>1, <1>2, <1>6 DEF Sound, Work, IsBundle
  <2>1. q = IF e.halt THEN e ELSE Requested(e)
    BY <1>q, <1>6
  <2>2. CASE kind = "DISARMED" /\ matched /\ d.j.issued = "DISARM"
    <3>1. e = [d EXCEPT !.j.disarmed = TRUE, !.j.issued = "NONE"]
      BY <2>0, <2>2 DEF Disarming
    <3> HIDE DEF e
    <3>2. /\ e = [f \in {"j", "p", "a", "t", "g", "halt"} |-> e[f]]
          /\ e.j = [d.j EXCEPT !.disarmed = TRUE, !.issued = "NONE"]
          /\ e.p = d.p /\ e.a = d.a /\ e.t = d.t /\ e.g = d.g /\ e.halt = d.halt
      BY <1>3, <3>1 DEF IsBundle
    <3>3. IsJoin(e.j) /\ e.j.gen = d.j.gen /\ e.j.window = d.j.window /\ e.j.outcome = d.j.outcome
      BY <2>0, <3>2 DEF IsJoin, JoinFields
    <3>4. IsBundle(e) /\ Calm(e, c)
      BY <1>3, <3>2, <3>3 DEF IsBundle, Calm
    <3>5. q = Requested(e)
      BY <1>6, <2>1, <3>2
    <3>6. /\ e.g = <<>> /\ ~r.armed /\ k = "NONE" /\ e.j.window # 1 /\ e.a.phase = "IDLE"
      BY <2>0, <2>2, <3>2, <3>3
    <3>7. Sound(q, k, r) /\ Calm(q, e) /\ q.j.phase \in {"WAIT", "RESTORE"} /\ q.halt = e.halt
      BY <3>4, <3>5, <3>6, RequestedIs
    <3>8. ~q.halt
      BY <1>6, <3>2, <3>7
    <3>9. Calm(q, c)
      BY <3>4, <3>7 DEF Calm
    <3> QED
      BY <3>7, <3>8, <3>9 DEF q
  <2>3. CASE ~(kind = "DISARMED" /\ matched /\ d.j.issued = "DISARM")
    <3> DEFINE b == IF d.j.issued = "DISARM" THEN d ELSE Issue(d, "DISARM", FALSE)
    <3>1. e = Halted(b)
      BY <2>0, <2>3 DEF Disarming
    <3>2. Sound(b, k, r) /\ Calm(b, d) /\ b.j.phase = "REQUEST"
      <4>1. Calm(d, d)
        BY DEF Calm
      <4>2. d.j.issued # "DISARM" =>
              LET i == Issue(d, "DISARM", FALSE) IN
              Sound(i, k, r) /\ Calm(i, d) /\ i.j.phase = "REQUEST"
        BY <1>2, <1>3, <1>6, <2>0, <4>1, RequestGrants
      <4> QED
        BY <1>2, <4>1, <4>2
    <3> HIDE DEF b, e
    <3>3. Sound(e, k, r) /\ Calm(e, b) /\ e.j = b.j /\ e.halt = TRUE
      BY <3>1, <3>2, HaltedSound
    <3>4. q = e
      BY <2>1, <3>3
    <3>5. Calm(q, c)
      BY <1>3, <3>2, <3>3, <3>4 DEF Calm
    <3> QED
      BY <3>2, <3>3, <3>4, <3>5 DEF q
  <2> QED
    BY <2>2, <2>3
<1> QED
  BY <1>4, <1>5, <1>6

-------------------------------------------------------------------------------
(*** The extraction.                                                          ***)

\* The association is open only in its window, and a response in it, or judged
\* before, is this attempt's.
Judged(c, h) ==
  /\ c.j.window # 1 => c.a.phase = "IDLE"
  /\ c.j.window = 1 /\ c.a.outcome = "RESPONSE" => h.answered /\ h.asked
  /\ c.j.outcome = "RESPONSE" => h.answered /\ h.asked

\* The poll, perhaps with its receipt taken.
SamePoll(d, p) ==
  /\ IsPoll(d) /\ d.phase = p.phase /\ d.record = p.record /\ d.serial = p.serial
  /\ d.closeIssued = p.closeIssued /\ d.txIssued = p.txIssued /\ d.submitted = p.submitted
  /\ d.closed = p.closed /\ d.timeout = p.timeout /\ d.ready = p.ready

\* What the judging of a receipt leaves alone.
Same(d, c) ==
  /\ IsBundle(d) /\ SamePoll(d.p, c.p)
  /\ d.j.phase = c.j.phase /\ d.j.gen = c.j.gen /\ d.t = c.t /\ d.g = c.g /\ d.halt = c.halt

\* What the taking of a receipt leaves.
LEMMA TakeIs ==
  ASSUME NEW p, IsPoll(p)
  PROVE  SamePoll(PollTake(p), p) /\ SamePoll(p, p)
  BY DEF PollTake, SamePoll, IsPoll, PollFields

\* The comparison of polls is reflexive.
LEMMA SameIs ==
  ASSUME NEW c, IsBundle(c)
  PROVE  Same(c, c)
<1>1. IsPoll(c.p)
  BY DEF IsBundle
<1>2. SamePoll(c.p, c.p)
  BY <1>1, TakeIs
<1> QED
  BY <1>2 DEF Same

\* The comparison of polls is transitive.
LEMMA SameFurther ==
  ASSUME NEW c, NEW d, NEW e, Same(d, c), Same(e, d)
  PROVE  Same(e, c)
  BY DEF Same, SamePoll

\* The association opens with the promise of data or an early response.
LEMMA WindowIs ==
  ASSUME NEW c, NEW h, IsBundle(c), Judged(c, h)
  PROVE  Same(Window(c), c) /\ Judged(Window(c), h)
<1> DEFINE d == [c EXCEPT !.j.window = 1, !.a = OpenedAssoc]
<1>1. Window(c) = c \/ Window(c) = d
  BY DEF Window
<1>2. /\ d = [f \in {"j", "p", "a", "t", "g", "halt"} |-> d[f]]
      /\ d.j = [c.j EXCEPT !.window = 1] /\ d.a = OpenedAssoc
      /\ d.p = c.p /\ d.t = c.t /\ d.g = c.g /\ d.halt = c.halt
  BY DEF IsBundle
<1> HIDE DEF d
<1>3. IsJoin(d.j) /\ d.j.phase = c.j.phase /\ d.j.gen = c.j.gen /\ d.j.outcome = c.j.outcome /\ d.j.window = 1
  BY <1>2 DEF IsBundle, IsJoin, JoinFields
<1>4. IsAssoc(OpenedAssoc) /\ OpenedAssoc.outcome = "NONE"
  BY DEF IsAssoc, OpenedAssoc
<1>5. Same(c, c) /\ SamePoll(c.p, c.p)
  <2>1. Same(c, c)
    BY SameIs
  <2> QED
    BY <2>1 DEF Same
<1>6. IsBundle(d)
  BY <1>2, <1>3, <1>4 DEF IsBundle
<1>7. Same(d, c)
  BY <1>2, <1>3, <1>5, <1>6 DEF Same
<1>8. Judged(d, h)
  BY <1>2, <1>3, <1>4 DEF Judged
<1> QED
  BY <1>1, <1>5, <1>7, <1>8

\* The association ends with an outcome that its frame accounts for.
LEMMA FinishIs ==
  ASSUME NEW c, NEW h, IsBundle(c), Judged(c, h)
  PROVE  Same(FinishWindow(c), c) /\ Judged(FinishWindow(c), h) /\ FinishWindow(c).j.window # 1
<1> DEFINE o == IF c.a.phase = "WAIT" THEN "CANCELLED" ELSE c.a.outcome
           d == [c EXCEPT !.j.window = 2, !.a = TakenAssoc(@), !.j.outcome = o]
<1>0. Same(c, c) /\ SamePoll(c.p, c.p)
  <2>1. Same(c, c)
    BY SameIs
  <2> QED
    BY <2>1 DEF Same
<1>1. CASE c.j.window # 1
  BY <1>0, <1>1 DEF FinishWindow
<1>2. CASE c.j.window = 1
  <2>1. FinishWindow(c) = d
    BY <1>2, Zenon DEF FinishWindow
  <2>2. /\ d = [f \in {"j", "p", "a", "t", "g", "halt"} |-> d[f]]
        /\ d.j = [c.j EXCEPT !.window = 2, !.outcome = o] /\ d.a = [c.a EXCEPT !.phase = "IDLE"]
        /\ d.p = c.p /\ d.t = c.t /\ d.g = c.g /\ d.halt = c.halt
    BY DEF IsBundle, TakenAssoc
  <2>3. o = "RESPONSE" => h.answered /\ h.asked
    BY <1>2 DEF Judged
  <2> HIDE DEF d, o
  <2>4. IsJoin(d.j) /\ d.j.phase = c.j.phase /\ d.j.gen = c.j.gen /\ d.j.outcome = o /\ d.j.window = 2
    BY <2>2 DEF IsBundle, IsJoin, JoinFields
  <2>5. IsAssoc(d.a) /\ d.a.phase = "IDLE"
    BY <2>2 DEF IsBundle, IsAssoc
  <2>6. IsBundle(d)
    BY <2>2, <2>4, <2>5 DEF IsBundle
  <2>7. Same(d, c)
    BY <1>0, <2>2, <2>4, <2>6 DEF Same
  <2>8. Judged(d, h)
    BY <2>3, <2>4, <2>5 DEF Judged
  <2> QED
    BY <2>1, <2>4, <2>7, <2>8
<1> QED
  BY <1>1, <1>2

\* The receipt is judged (mac_join.c:240-270).
LEMMA ReceiptIs ==
  ASSUME NEW c, NEW expired, NEW h, IsBundle(c), Judged(c, h),
         c.p.record.body = "RESPONSE" => h.answered /\ h.asked
  PROVE  Same(Receipt(c, expired), c) /\ Judged(Receipt(c, expired), h)
<1> DEFINE d == [c EXCEPT !.p = PollTake(@), !.j.result = IF @ = "NONE" THEN "POLL_RESULT" ELSE @]
           e == [d EXCEPT !.a = Associate(@, c.p.record.body, expired)]
           z == Receipt(c, expired)
<1>1. z \in {c, d} \/ (c.j.window = 1 /\ z \in {e, FinishWindow(e)})
  BY DEF Receipt
<1>2. Same(c, c)
  BY SameIs
<1>3. Same(d, c) /\ d.a = c.a /\ d.j.window = c.j.window /\ d.j.outcome = c.j.outcome
  <2>1. /\ d = [f \in {"j", "p", "a", "t", "g", "halt"} |-> d[f]]
        /\ d.j = [c.j EXCEPT !.result = IF @ = "NONE" THEN "POLL_RESULT" ELSE @] /\ d.p = PollTake(c.p)
        /\ d.a = c.a /\ d.t = c.t /\ d.g = c.g /\ d.halt = c.halt
    BY DEF IsBundle
  <2> HIDE DEF d
  <2>2. /\ IsJoin(d.j) /\ d.j.phase = c.j.phase /\ d.j.gen = c.j.gen
        /\ d.j.outcome = c.j.outcome /\ d.j.window = c.j.window
    BY <2>1 DEF IsBundle, IsJoin, JoinFields
  <2>3. SamePoll(PollTake(c.p), c.p)
    <3>1. IsPoll(c.p)
      BY DEF IsBundle
    <3> QED
      BY <3>1, TakeIs
  <2>4. IsBundle(d)
    BY <2>1, <2>2, <2>3 DEF IsBundle, SamePoll
  <2> QED
    BY <2>1, <2>2, <2>3, <2>4 DEF Same
<1> HIDE DEF d, z
<1>4. Judged(d, h)
  BY <1>3 DEF Judged
<1>5. Same(e, c) /\ (c.j.window = 1 => Judged(e, h))
  <2> DEFINE b == Associate(d.a, c.p.record.body, expired)
  <2>1. /\ e = [f \in {"j", "p", "a", "t", "g", "halt"} |-> e[f]]
        /\ e.j = d.j /\ e.a = b /\ e.p = d.p /\ e.t = d.t /\ e.g = d.g /\ e.halt = d.halt
    BY <1>3 DEF Same, IsBundle
  <2>2. IsAssoc(b) /\ (b.outcome = "RESPONSE" => c.p.record.body = "RESPONSE" \/ b = d.a)
    BY <1>3 DEF Associate, IsAssoc, Same, IsBundle
  <2> HIDE DEF e, b
  <2>3. IsBundle(e)
    BY <1>3, <2>1, <2>2 DEF Same, IsBundle
  <2>4. Same(e, c)
    BY <1>3, <2>1, <2>3 DEF Same
  <2>5. c.j.window = 1 => Judged(e, h)
    BY <1>3, <1>4, <2>1, <2>2 DEF Judged
  <2> QED
    BY <2>4, <2>5
<1> HIDE DEF e
<1>6. c.j.window = 1 => Same(FinishWindow(e), c) /\ Judged(FinishWindow(e), h)
  <2>1. IsBundle(e)
    BY <1>5 DEF Same
  <2>2. c.j.window = 1 => Same(FinishWindow(e), e) /\ Judged(FinishWindow(e), h)
    BY <1>5, <2>1, FinishIs
  <2> QED
    BY <1>5, <2>2, SameFurther
<1> QED
  BY <1>1, <1>2, <1>3, <1>4, <1>5, <1>6 DEF z

\* What the step s of the poll left, once its receipt is taken.
Delivered(f, c, s) ==
  /\ IsBundle(f) /\ SamePoll(f.p, s.poll) /\ f.t = s.tx
  /\ f.j.phase = "EXTRACT" /\ f.j.gen = c.j.gen /\ f.g = c.g /\ f.halt = c.halt

\* A poll that goes on: its grants and its reports stay at home.
LEMMA GoesOn ==
  ASSUME NEW c, NEW f, NEW s, NEW e, NEW k, NEW r, NEW h, Sound(c, k, r), c.j.phase = "EXTRACT",
         Stepped(c.p, c.t, e, s), Delivered(f, c, s), Judged(f, h), s.poll.phase \in Busy,
         e.kind \in {"TX", "CLOSED"} => c.g = <<>> /\ k = "NONE"
  PROVE  /\ s.action.kind = "NONE" => Sound(f, k, r)
         /\ s.action.kind # "NONE" =>
              Sound([Issue(f, GrantOf(s.action.kind), s.action.cancel) EXCEPT !.j.child = s.poll.token], k, r)
<1>0. /\ Work(c.j, c.p, c.a, c.t, c.g, k, r) /\ c.g \in Seq(Grant) /\ IsBundle(f)
  BY DEF Sound, IsBundle, Delivered
<1>1. \A i \in 1 .. Len(c.g) : c.g[i].kind \in {"RECEIVE", "TX", "CLOSE"}
  BY <1>0, GrantsAre DEF Work
<1>2. /\ \A i \in 1 .. Len(c.g) : c.g[i].kind = "TX" => c.p.txIssued
      /\ \A i \in 1 .. Len(c.g) : c.g[i].kind = "CLOSE" => c.p.closeIssued
      /\ \A i \in 1 .. Len(c.g) : c.g[i].kind \in Final => i = Len(c.g)
  BY <1>0 DEF Work, Queue, Home
<1>3. /\ k \in {"NONE", "PREPARED", "TX", "CLOSED", "FRAME"} /\ ~r.armed
      /\ k = "TX" => c.p.txIssued /\ c.g = <<>>
      /\ k = "CLOSED" => c.p.closeIssued /\ c.g = <<>>
  BY <1>0 DEF Work, MailHome, Home
<1>4. c.g = <<>> => Len(c.g) = 0
  OBVIOUS
<1>5. /\ c.p.closeIssued => s.poll.closeIssued /\ s.action.kind = "NONE"
      /\ c.p.txIssued => e.kind = "TX" \/ (s.poll.txIssued /\ s.action.kind = "NONE")
  BY DEF Stepped
<1>6. /\ \A i \in 1 .. Len(c.g) : c.g[i].kind = "TX" => s.poll.txIssued /\ s.action.kind = "NONE"
      /\ \A i \in 1 .. Len(c.g) : c.g[i].kind = "CLOSE" => s.poll.closeIssued /\ s.action.kind = "NONE"
      /\ k = "TX" => s.poll.txIssued /\ s.action.kind = "NONE"
      /\ k = "CLOSED" => s.poll.closeIssued /\ s.action.kind = "NONE"
  BY <1>2, <1>3, <1>4, <1>5
<1>7. /\ f.p.txIssued = s.poll.txIssued /\ f.p.closeIssued = s.poll.closeIssued
      /\ f.p.phase \in Busy /\ Fits(f.p, f.t)
  BY DEF Delivered, SamePoll, Stepped, Fits
<1>8. /\ f.j.phase = "EXTRACT" /\ f.g = c.g /\ (f.j.window # 1 => f.a.phase = "IDLE")
  BY DEF Delivered, Judged
<1>9. ASSUME s.action.kind = "NONE"
      PROVE  Sound(f, k, r)
  <2>1. Queue(f.j, f.p, f.t, f.g)
    BY <1>1, <1>2, <1>6, <1>7, <1>8 DEF Queue, Home
  <2>2. MailHome(k, f.j, f.p, f.t, f.g, r)
    BY <1>3, <1>6, <1>7, <1>8 DEF MailHome, Home
  <2> QED
    BY <1>0, <1>3, <1>7, <1>8, <2>1, <2>2 DEF Sound, Work
<1>10. ASSUME s.action.kind # "NONE"
       PROVE  Sound([Issue(f, GrantOf(s.action.kind), s.action.cancel) EXCEPT !.j.child = s.poll.token], k, r)
  <2> DEFINE kind == GrantOf(s.action.kind)
             b == Issue(f, kind, s.action.cancel)
             z == [b EXCEPT !.j.child = s.poll.token]
  <2>1. /\ kind \in {"TX", "RECEIVE", "CLOSE"} /\ s.action.cancel \in BOOLEAN
        /\ kind = "TX" => s.poll.txIssued
        /\ kind = "CLOSE" => s.poll.closeIssued
    BY <1>10 DEF Stepped, GrantOf
  <2> HIDE DEF kind
  <2>2. Granted(b, f, kind)
    <3>1. kind \in GrantKinds
      BY <2>1 DEF GrantKinds
    <3> QED
      BY <1>0, <2>1, <3>1, IssueGrants
  <2> HIDE DEF b
  <2>3. /\ IsBundle(b) /\ b.a = f.a /\ b.p = f.p /\ b.t = f.t /\ b.j.phase = "EXTRACT"
        /\ b.j.window = f.j.window
    BY <1>8, <2>2 DEF Granted, Calm
  <2>4. Clear(f.g, b.j, b.p, b.t)
    BY <1>1, <1>6, <1>8, <1>10, <2>3 DEF Clear, Home, Final
  <2>5. Home(kind, b.j, b.p, b.t)
    BY <1>7, <2>1, <2>3 DEF Home
  <2>6. Queue(b.j, b.p, b.t, b.g)
    BY <1>0, <2>2, <2>3, <2>4, <2>5, GrantQueues
  <2>7. Work(b.j, b.p, b.a, b.t, b.g, k, r)
    <3>1. MailHome(k, b.j, b.p, b.t, b.g, r)
      BY <1>3, <1>6, <1>10, <2>3 DEF MailHome
    <3> QED
      BY <1>3, <1>7, <1>8, <2>3, <2>6, <3>1 DEF Work
  <2>8. /\ z = [x \in {"j", "p", "a", "t", "g", "halt"} |-> z[x]]
        /\ z.j = [b.j EXCEPT !.child = s.poll.token]
        /\ z.p = b.p /\ z.a = b.a /\ z.t = b.t /\ z.g = b.g
    BY <2>3 DEF IsBundle
  <2>9. z = [Issue(f, GrantOf(s.action.kind), s.action.cancel) EXCEPT !.j.child = s.poll.token]
    BY DEF b, kind
  <2> HIDE DEF z
  <2>10. Alike(z.j, b.j)
    BY <2>3, <2>8 DEF IsBundle, IsJoin, JoinFields, Alike
  <2>11. Work(z.j, b.p, b.a, b.t, b.g, k, r)
    BY <2>7, <2>10, WorkAlike
  <2>12. IsBundle(z)
    BY <2>3, <2>8, <2>10 DEF IsBundle, Alike
  <2>13. Sound(z, k, r)
    BY <2>8, <2>11, <2>12 DEF Sound
  <2> QED
    BY <2>9, <2>13
<1> QED
  BY <1>9, <1>10

\* What is left of a poll in the attempt.
Result(z, c, s) ==
  /\ z.j.gen = c.j.gen /\ z.j.phase \in {"EXTRACT", "RESTORE", "FAULT"}
  /\ z.p.record = s.poll.record /\ z.p.serial \in {0, s.poll.serial}
  /\ z.j.phase = "EXTRACT" => SamePoll(z.p, s.poll) /\ s.poll.phase \in Busy

\* What the attempt makes of a step of the poll (mac_join.c:690-710).
LEMMA ExtractedIs ==
  ASSUME NEW c, NEW f, NEW s, NEW e, NEW k, NEW r, NEW h, Sound(c, k, r), c.j.phase = "EXTRACT",
         Stepped(c.p, c.t, e, s), Delivered(f, c, s), Judged(f, h),
         e.kind \in {"TX", "CLOSED"} => c.g = <<>> /\ k = "NONE"
  PROVE  LET z == Extracted(f, s) IN Sound(z, k, r) /\ Judged(z, h) /\ Result(z, c, s)
<1> DEFINE z == Extracted(f, s)
<1>0. /\ IsBundle(f) /\ SamePoll(f.p, s.poll) /\ f.p.phase = s.poll.phase /\ f.g = c.g
      /\ s.poll.phase \in Busy \cup {"FAULT", "DONE"} /\ f.j.gen = c.j.gen /\ f.j.phase = "EXTRACT"
      /\ f.p.record = s.poll.record /\ f.p.serial = s.poll.serial
  BY DEF Delivered, SamePoll, Stepped
<1>1. CASE s.poll.phase = "FAULT"
  <2>1. z = Failed(f)
    BY <1>0, <1>1 DEF Extracted
  <2> HIDE DEF z
  <2>2. Sound(z, k, r) /\ Calm(z, f) /\ z.j.phase = "FAULT"
    BY <1>0, <2>1, FailedSound
  <2>3. Judged(z, h) /\ Result(z, c, s)
    BY <1>0, <2>2 DEF Calm, Judged, Result
  <2> QED
    BY <2>2, <2>3 DEF z
<1>2. CASE s.poll.phase = "DONE"
  <2> DEFINE w == FinishWindow(f)
             v == [w EXCEPT !.p = PollRelease(@), !.t = IdleEngine, !.j.issued = "NONE", !.j.phase = "RESTORE"]
  <2>1. z = v
    BY <1>0, <1>2 DEF Extracted
  <2>2. Same(w, f) /\ Judged(w, h) /\ w.j.window # 1
    BY <1>0, FinishIs
  <2> HIDE DEF w, z
  <2>3. c.g = <<>> /\ k = "NONE" /\ ~r.armed
    BY <1>2 DEF Stepped, Sound, Work
  <2>4. /\ v = [x \in {"j", "p", "a", "t", "g", "halt"} |-> v[x]]
        /\ v.j = [w.j EXCEPT !.issued = "NONE", !.phase = "RESTORE"]
        /\ v.p = PollRelease(w.p) /\ v.a = w.a /\ v.t = IdleEngine /\ v.g = w.g
    BY <2>2 DEF Same, IsBundle
  <2> HIDE DEF v
  <2>5. IsPoll(v.p) /\ v.p.record = w.p.record /\ v.p.serial = 0
    BY <2>4 DEF PollRelease, IdlePoll, IsPoll, PollFields
  <2>6. IsEngine(v.t)
    BY <2>4 DEF IdleEngine, Engine, IsEngine, EngineFields
  <2>7. /\ IsJoin(v.j) /\ v.j.phase = "RESTORE" /\ v.j.gen = w.j.gen
        /\ v.j.window = w.j.window /\ v.j.outcome = w.j.outcome
    BY <2>2, <2>4 DEF Same, IsBundle, IsJoin, JoinFields
  <2>8. IsBundle(v)
    BY <2>2, <2>4, <2>5, <2>6, <2>7 DEF Same, IsBundle
  <2>9. v.g = <<>>
    BY <1>0, <2>2, <2>3, <2>4 DEF Same
  <2>10. Queue(v.j, v.p, v.t, v.g)
    BY <2>9, Emptied
  <2>11. v.j.window # 1 /\ v.a.phase = "IDLE"
    BY <2>2, <2>4, <2>7 DEF Judged
  <2>12. Sound(v, k, r)
    BY <2>3, <2>7, <2>8, <2>9, <2>10, <2>11 DEF Sound, Work, MailHome
  <2>13. Judged(v, h)
    BY <2>2, <2>4, <2>7, <2>11 DEF Judged
  <2>14. Result(v, c, s)
    BY <1>0, <2>2, <2>5, <2>7 DEF Result, Same, SamePoll
  <2> QED
    BY <2>1, <2>12, <2>13, <2>14 DEF z
<1>3. CASE s.poll.phase \in Busy /\ s.action.kind = "NONE"
  <2>1. z = f
    BY <1>0, <1>3 DEF Extracted, Busy
  <2>2. Sound(f, k, r)
    BY <1>3, GoesOn
  <2>3. Result(f, c, s)
    BY <1>0, <1>3 DEF Result
  <2> QED
    BY <2>1, <2>2, <2>3
<1>4. CASE s.poll.phase \in Busy /\ s.action.kind # "NONE"
  <2> DEFINE b == Issue(f, GrantOf(s.action.kind), s.action.cancel)
             v == [b EXCEPT !.j.child = s.poll.token]
  <2>1. z = v
    BY <1>0, <1>4 DEF Extracted, Busy
  <2>2. Sound(v, k, r)
    BY <1>4, GoesOn
  <2>3. Calm(b, f) /\ IsBundle(b) /\ b.j.phase = f.j.phase
    <3>1. GrantOf(s.action.kind) \in GrantKinds /\ s.action.cancel \in BOOLEAN
      BY <1>4 DEF GrantOf, GrantKinds, Stepped
    <3>2. Granted(b, f, GrantOf(s.action.kind))
      BY <1>0, <3>1, IssueGrants
    <3> QED
      BY <3>2 DEF Granted
  <2> HIDE DEF b, z
  <2>4. v.j = [b.j EXCEPT !.child = s.poll.token] /\ v.p = b.p /\ v.a = b.a
    BY <2>3 DEF IsBundle
  <2> HIDE DEF v
  <2>5. /\ v.j.phase = b.j.phase /\ v.j.gen = b.j.gen /\ v.j.window = b.j.window /\ v.j.outcome = b.j.outcome
    BY <2>3, <2>4 DEF IsBundle, IsJoin, JoinFields
  <2>6. Judged(v, h)
    BY <2>3, <2>4, <2>5 DEF Judged, Calm
  <2>7. Result(v, c, s)
    BY <1>0, <1>4, <2>3, <2>4, <2>5 DEF Result, Calm
  <2> QED
    BY <2>1, <2>2, <2>6, <2>7 DEF z
<1> QED
  BY <1>0, <1>1, <1>2, <1>3, <1>4

\* The poll is told of the event itself or of a cancellation.
LEMMA PassedIs ==
  ASSUME NEW c, NEW kind, NEW matched
  PROVE  LET q == Passed(c, kind, matched) IN
         /\ q \in {"TX", "CLOSED", "FRAME"} => kind = q
         /\ kind = "FRAME" => q = "FRAME" \/ (q = "CANCEL" /\ c.p.phase # "DRAIN")
  BY DEF Passed

\* The extraction with the step that the poll took.
LEMMA PollingIs ==
  ASSUME NEW c, NEW q, NEW s, NEW e, NEW expired, NEW k, NEW r, NEW h, Sound(c, k, r), c.j.phase = "EXTRACT",
         Stepped(c.p, c.t, e, s), Judged(c, h),
         s.poll.record.body = "RESPONSE" => h.answered /\ h.asked,
         e.kind \in {"TX", "CLOSED"} => c.g = <<>> /\ k = "NONE"
  PROVE  LET z == Polling(c, q, s, expired) IN Sound(z, k, r) /\ Judged(z, h) /\ Result(z, c, s)
<1> DEFINE j1 == [c.j EXCEPT !.issued = IF q \in {"TX", "PREPARED", "CLOSED"} THEN "NONE" ELSE @]
           j == IF s.poll.reason = "TIMING_UNCERTAIN" THEN Abort(j1) ELSE j1
           d == [c EXCEPT !.p = s.poll, !.t = s.tx, !.j = j]
           w == Window(d)
           f == Receipt(w, expired)
<1>0. IsBundle(c) /\ IsJoin(c.j) /\ IsEngine(c.t)
  BY DEF Sound, IsBundle
<1>1. Polling(c, q, s, expired) = Extracted(f, s)
  BY Zenon DEF Polling
<1>2. /\ IsJoin(j1) /\ j1.phase = c.j.phase /\ j1.gen = c.j.gen
      /\ j1.window = c.j.window /\ j1.outcome = c.j.outcome
  BY <1>0 DEF IsJoin, JoinFields
<1> HIDE DEF j1
<1>4. Alike(Abort(j1), j1)
  BY <1>2, AbortIs
<1>5. /\ IsJoin(j) /\ j.phase = c.j.phase /\ j.gen = c.j.gen
      /\ j.window = c.j.window /\ j.outcome = c.j.outcome
  BY <1>2, <1>4 DEF Alike
<1> HIDE DEF j, d
<1>6. /\ d = [x \in {"j", "p", "a", "t", "g", "halt"} |-> d[x]]
      /\ d.j = j /\ d.p = s.poll /\ d.a = c.a /\ d.t = s.tx /\ d.g = c.g /\ d.halt = c.halt
  BY <1>0 DEF IsBundle, d
<1>7. IsPoll(s.poll) /\ IsEngine(s.tx)
  <2>1. IsEngine(Engine("DRAW", "NONE", FALSE, FALSE))
    BY DEF Engine, IsEngine, EngineFields
  <2> QED
    BY <1>0, <2>1 DEF Stepped
<1>8. IsBundle(d)
  BY <1>0, <1>5, <1>6, <1>7 DEF IsBundle
<1>9. Judged(d, h)
  BY <1>5, <1>6 DEF Judged
<1>10. Same(w, d) /\ Judged(w, h)
  BY <1>8, <1>9, WindowIs
<1> HIDE DEF w
<1>11. IsBundle(w) /\ (w.p.record.body = "RESPONSE" => h.answered /\ h.asked)
  BY <1>6, <1>10 DEF Same, SamePoll
<1>12. Same(f, w) /\ Judged(f, h)
  BY <1>10, <1>11, ReceiptIs
<1> HIDE DEF f
<1>13. Same(f, d)
  BY <1>10, <1>12, SameFurther
<1>14. Delivered(f, c, s)
  BY <1>5, <1>6, <1>13 DEF Delivered, Same
<1>15. LET z == Extracted(f, s) IN Sound(z, k, r) /\ Judged(z, h) /\ Result(z, c, s)
  BY <1>12, <1>14, ExtractedIs
<1> QED
  BY <1>1, <1>15

\* A frame that the poll counts.
Counts(p, kind, e) ==
  /\ kind = "FRAME" /\ e.serial > p.serial /\ e.frame \notin {"FOREIGN", "UNSUPPORTED"}
  /\ p.phase \in {"RECEIVE", "DRAIN"}

\* A step of the extraction has brought c to z.
Extraction(z, c, kind, e, h) ==
  /\ z.j.gen = c.j.gen /\ z.j.phase \in {"EXTRACT", "RESTORE", "FAULT"}
  /\ z.p.record.body = "RESPONSE" => h.answered
  /\ z.p.serial \in {0, c.p.serial, e.serial}
  /\ z.p.record.cause = "TIMEOUT" => c.p.phase = "DRAIN" /\ c.p.timeout /\ kind = "CLOSED"
  /\ z.j.phase = "EXTRACT" =>
       /\ c.p.phase \in {"RECEIVE", "DRAIN"} => z.p.phase \in {"RECEIVE", "DRAIN"}
       /\ c.p.phase = "DRAIN" /\ ~c.p.timeout => z.p.phase = "DRAIN" /\ ~z.p.timeout
       /\ Counts(c.p, kind, e) => z.p.phase = "DRAIN" /\ ~z.p.timeout
       /\ kind # "FRAME" => z.p.serial = c.p.serial

\* The extraction (mac_join.c:647-710).
LEMMA ExtractIs ==
  ASSUME NEW c, NEW kind, NEW matched, NEW e, NEW spent, NEW expired, NEW admitted, NEW k, NEW r, NEW h,
         Sound(c, k, r), c.j.phase = "EXTRACT", ~c.halt, e.serial \in Nat, Judged(c, h),
         kind \in {"TX", "CLOSED"} => c.g = <<>> /\ k = "NONE",
         h.asked, c.p.record.body = "RESPONSE" => h.answered,
         kind = "FRAME" /\ e.frame = "RESPONSE" => h.answered
  PROVE  LET z == InExtract(c, kind, matched, e, spent, expired, admitted) IN
         Sound(z, k, r) /\ Judged(z, h) /\ Extraction(z, c, kind, e, h)
<1> DEFINE q == Passed(c, kind, matched)
           v == [PollEvent EXCEPT !.kind = q, !.token = c.j.child,
                   !.serial = e.serial, !.ordered = e.ordered, !.frame = e.frame,
                   !.source = e.source, !.covers = e.covers, !.admitted = admitted]
           s == PollStep(c.p, c.t, v, spent)
           z == InExtract(c, kind, matched, e, spent, expired, admitted)
<1>1. /\ q \in {"TX", "CLOSED", "FRAME"} => kind = q
      /\ kind = "FRAME" => q = "FRAME" \/ (q = "CANCEL" /\ c.p.phase # "DRAIN")
  BY PassedIs
<1>2. z = Polling(c, q, s, expired)
  BY Zenon DEF InExtract
<1> HIDE DEF q, z
<1>3. v.kind = q /\ v.serial = e.serial /\ v.frame = e.frame
  BY DEF PollEvent
<1> HIDE DEF v
<1>4. IsPoll(c.p) /\ c.p.phase \in Busy /\ Fits(c.p, c.t) /\ v.serial \in Nat
  BY <1>3 DEF Sound, IsBundle, Work
<1>5. Stepped(c.p, c.t, v, s)
  BY <1>4, PollStepIs
<1> HIDE DEF s
<1>6. s.poll.record.body = "RESPONSE" => h.answered /\ h.asked
  BY <1>1, <1>3, <1>5 DEF Stepped
<1>7. v.kind \in {"TX", "CLOSED"} => c.g = <<>> /\ k = "NONE"
  BY <1>1, <1>3
<1>8. Sound(z, k, r) /\ Judged(z, h) /\ Result(z, c, s)
  BY <1>2, <1>5, <1>6, <1>7, PollingIs
<1>9. /\ z.j.gen = c.j.gen /\ z.j.phase \in {"EXTRACT", "RESTORE", "FAULT"}
      /\ z.p.record.body = "RESPONSE" => h.answered
  BY <1>6, <1>8 DEF Result
<1>10. z.p.serial \in {0, c.p.serial, e.serial}
  BY <1>3, <1>5, <1>8 DEF Result, Stepped
<1>11. z.p.record.cause = "TIMEOUT" => c.p.phase = "DRAIN" /\ c.p.timeout /\ kind = "CLOSED"
  BY <1>1, <1>3, <1>5, <1>8 DEF Result, Stepped
<1>12. ASSUME z.j.phase = "EXTRACT"
       PROVE  /\ c.p.phase \in {"RECEIVE", "DRAIN"} => z.p.phase \in {"RECEIVE", "DRAIN"}
              /\ c.p.phase = "DRAIN" /\ ~c.p.timeout => z.p.phase = "DRAIN" /\ ~z.p.timeout
              /\ Counts(c.p, kind, e) => z.p.phase = "DRAIN" /\ ~z.p.timeout
              /\ kind # "FRAME" => z.p.serial = c.p.serial
  <2>1. z.p.phase = s.poll.phase /\ z.p.timeout = s.poll.timeout /\ z.p.serial = s.poll.serial
        /\ s.poll.phase \in Busy
    BY <1>8, <1>12 DEF Result, SamePoll
  <2>2. /\ c.p.phase \in {"RECEIVE", "DRAIN"} => s.poll.phase \in {"RECEIVE", "DRAIN"}
        /\ c.p.phase = "DRAIN" /\ ~c.p.timeout => s.poll.phase = "DRAIN" /\ ~s.poll.timeout
        /\ Heard(c.p, v) => s.poll.phase = "DRAIN" /\ ~s.poll.timeout
        /\ v.kind # "FRAME" => s.poll.serial = c.p.serial
    BY <1>5, <2>1 DEF Stepped
  <2>3. Counts(c.p, kind, e) => Heard(c.p, v)
    BY <1>1, <1>3 DEF Counts, Heard
  <2> QED
    BY <1>1, <1>3, <2>1, <2>2, <2>3
<1> QED
  BY <1>8, <1>9, <1>10, <1>11, <1>12 DEF Extraction, z

-------------------------------------------------------------------------------
(*** A step of the attempt.                                                   ***)

\* What is known of an event of a kind when it is looked at, k being the kind of
\* the one that still waits.
News(kind, k, c, r) ==
  /\ kind = "PREPARED" /\ c.j.phase = "PREPARE" => c.g = <<>> /\ k = "NONE"
  /\ kind = "DISARMED" => c.j.phase = "REQUEST" /\ c.g = <<>> /\ ~r.armed /\ k = "NONE"
  /\ kind \in {"TX", "CLOSED"} => c.j.phase = "EXTRACT" /\ c.g = <<>> /\ k = "NONE"
  /\ kind = "RESTORED" => c.j.phase = "RESTORE" /\ c.g = <<>> /\ ~r.tuned /\ k = "NONE"

\* The stages before the extraction have brought b to w.
Brought(w, b) ==
  /\ w.a = b.a /\ w.j.gen = b.j.gen /\ w.j.window = b.j.window /\ w.j.outcome = b.j.outcome
  /\ w.j.phase \in Running \cup {"FAULT"}
  /\ w.j.phase # "EXTRACT" => w.p = b.p
  /\ w.j.phase = "EXTRACT" =>
       /\ ~w.halt
       /\ \/ b.j.phase = "EXTRACT" /\ w.p = b.p /\ w.g = b.g
          \/ b.j.phase \in {"REQUEST", "WAIT"} /\ w.p = PollStart
  /\ w.j.phase = "RESTORE" /\ b.j.phase = "RESTORE" => w.g = b.g
  /\ b.j.phase = "RESTORE" => w.j.phase \in {"RESTORE", "FAULT"}
  /\ b.j.phase = "EXTRACT" => w.j.phase \in {"EXTRACT", "FAULT"}

\* The stages before the extraction keep a bundle sound.
LEMMA FrontIs ==
  ASSUME NEW b, NEW kind, NEW matched, NEW spent, NEW over, NEW admitted, NEW t2, NEW k, NEW r,
         Sound(b, k, r), b.j.phase \in Running, ~b.halt, IsEngine(t2), News(kind, k, b, r)
  PROVE  LET c == Spend(b, kind, spent)
             w == InWait(InRequest(InPrepare(c, kind, matched, admitted), kind, matched, t2), over)
         IN Sound(w, k, r) /\ Brought(w, b)
<1> DEFINE c == Spend(b, kind, spent)
           v == InPrepare(c, kind, matched, admitted)
           q == InRequest(v, kind, matched, t2)
           w == InWait(q, over)
<1>1. /\ Sound(c, k, r) /\ Calm(c, b) /\ c.t = b.t /\ c.g = b.g
      /\ \/ c.j.phase = "FAULT" /\ c.halt = TRUE
         \/ Alike(c.j, b.j) /\ c.halt = b.halt
  BY SpendIs
<1> HIDE DEF c
<1>2. CASE c.j.phase = "FAULT" /\ c.halt = TRUE
  <2>1. v = c
    BY <1>2 DEF InPrepare
  <2>2. q = c
    BY <1>2, <2>1 DEF InRequest
  <2>3. w = c
    BY <1>2, <2>2 DEF InWait
  <2> HIDE DEF v, q, w
  <2>4. Brought(c, b)
    BY <1>1, <1>2 DEF Brought, Calm, Running
  <2> QED
    BY <1>1, <2>3, <2>4 DEF w, q, v, c
<1>3. CASE Alike(c.j, b.j) /\ c.halt = b.halt
  <2>0. c.j.phase = b.j.phase /\ ~c.halt
    BY <1>3 DEF Alike
  <2>1. CASE b.j.phase = "PREPARE"
    <3>1. kind = "PREPARED" => c.g = <<>> /\ k = "NONE"
      BY <1>1, <2>1 DEF News
    <3>2. /\ Sound(v, k, r) /\ Calm(v, c)
          /\ v.j.phase \in {"PREPARE", "REQUEST", "RESTORE"}
          /\ v.j.phase = "REQUEST" => v.halt
      BY <1>1, <2>0, <2>1, <3>1, PrepareIs
    <3> HIDE DEF v
    <3>3. q = v
      BY <3>2 DEF InRequest
    <3>4. w = v
      BY <3>2, <3>3 DEF InWait
    <3> HIDE DEF q, w
    <3>5. Brought(v, b)
      BY <1>1, <2>1, <3>2 DEF Brought, Calm, Running
    <3> QED
      BY <3>2, <3>4, <3>5 DEF w, q, v, c
  <2>2. CASE b.j.phase # "PREPARE"
    <3>1. v = c
      BY <2>0, <2>2 DEF InPrepare
    <3> HIDE DEF v
    <3>2. /\ Sound(q, k, r) /\ Calm(q, c) /\ q.j.phase \in Running \cup {"FAULT"}
          /\ q.j.phase = "WAIT" => ~q.halt /\ b.j.phase \in {"REQUEST", "WAIT"}
          /\ q.j.phase = "EXTRACT" => b.j.phase = "EXTRACT" /\ ~q.halt /\ q.g = b.g
          /\ q.j.phase = "RESTORE" /\ b.j.phase = "RESTORE" => q.g = b.g
          /\ b.j.phase = "RESTORE" => q.j.phase = "RESTORE"
          /\ b.j.phase = "EXTRACT" => q.j.phase = "EXTRACT"
      <4>1. CASE b.j.phase = "REQUEST"
        <5>1. kind = "DISARMED" => c.g = <<>> /\ ~r.armed /\ k = "NONE"
          BY <1>1 DEF News
        <5>2. /\ Sound(q, k, r) /\ Calm(q, c)
              /\ q.j.phase \in {"REQUEST", "WAIT", "RESTORE", "FAULT"}
              /\ q.j.phase \in {"WAIT", "RESTORE"} => ~q.halt
          BY <1>1, <2>0, <3>1, <4>1, <5>1, RequestIs
        <5> HIDE DEF q
        <5> QED
          BY <4>1, <5>2 DEF Running
      <4>2. CASE b.j.phase # "REQUEST"
        <5>1. q = c
          BY <2>0, <3>1, <4>2 DEF InRequest
        <5> HIDE DEF q
        <5> QED
          BY <1>1, <2>0, <4>2, <5>1 DEF Calm, Running
      <4> QED
        BY <4>1, <4>2
    <3> HIDE DEF q
    <3>3. CASE q.j.phase = "WAIT"
      <4>1. /\ Sound(w, k, r) /\ w.halt = q.halt
            /\ w.a = q.a /\ w.j.gen = q.j.gen /\ w.j.window = q.j.window /\ w.j.outcome = q.j.outcome
            /\ \/ w.j.phase \in {"WAIT", "RESTORE"} /\ w.p = q.p
               \/ w.j.phase = "EXTRACT" /\ w.p = PollStart
        BY <3>2, <3>3, WaitIs
      <4> HIDE DEF w
      <4>2. ~w.halt
        BY <3>2, <3>3, <4>1
      <4>3. Brought(w, b)
        BY <1>1, <3>2, <3>3, <4>1, <4>2 DEF Brought, Calm, Running
      <4> QED
        BY <4>1, <4>3 DEF w, q, v, c
    <3>4. CASE q.j.phase # "WAIT"
      <4>1. w = q
        BY <3>4 DEF InWait
      <4> HIDE DEF w
      <4>2. Brought(q, b)
        BY <1>1, <3>2, <3>4 DEF Brought, Calm, Running
      <4> QED
        BY <3>2, <4>1, <4>2 DEF w, q, v, c
    <3> QED
      BY <3>3, <3>4
  <2> QED
    BY <2>1, <2>2
<1> QED
  BY <1>1, <1>2, <1>3

\* The extraction and the restoring have brought w to z.
Left(z, w, kind, e) ==
  /\ z.j.gen = w.j.gen
  /\ w.j.phase # "EXTRACT" => z.p = w.p /\ z.j.phase \in {w.j.phase, "DONE", "FAULT"}
  /\ w.j.phase = "EXTRACT" =>
       /\ z.j.phase \in {"EXTRACT", "RESTORE", "DONE", "FAULT"}
       /\ z.p.serial \in {0, w.p.serial, e.serial}
       /\ z.p.record.cause = "TIMEOUT" => w.p.phase = "DRAIN" /\ w.p.timeout /\ kind = "CLOSED"
       /\ z.j.phase = "EXTRACT" =>
            /\ w.p.phase \in {"RECEIVE", "DRAIN"} => z.p.phase \in {"RECEIVE", "DRAIN"}
            /\ w.p.phase = "DRAIN" /\ ~w.p.timeout => z.p.phase = "DRAIN" /\ ~z.p.timeout
            /\ Counts(w.p, kind, e) => z.p.phase = "DRAIN" /\ ~z.p.timeout
            /\ kind # "FRAME" => z.p.serial = w.p.serial

\* The extraction and the restoring keep a bundle sound.
LEMMA TailIs ==
  ASSUME NEW w, NEW kind, NEW matched, NEW e, NEW spent, NEW expired, NEW admitted, NEW k, NEW r, NEW h,
         Sound(w, k, r), w.j.phase = "EXTRACT" => ~w.halt, e.serial \in Nat, Judged(w, h),
         kind \in {"TX", "CLOSED"} => (w.j.phase = "EXTRACT" => w.g = <<>> /\ k = "NONE"),
         kind = "RESTORED" => w.j.phase # "EXTRACT"
                              /\ (w.j.phase = "RESTORE" => w.g = <<>> /\ ~r.tuned /\ k = "NONE"),
         w.j.phase = "EXTRACT" => h.asked /\ (w.p.record.body = "RESPONSE" => h.answered),
         kind = "FRAME" /\ e.frame = "RESPONSE" => h.answered
  PROVE  LET x == InExtract(w, kind, matched, e, spent, expired, admitted)
             z == InRestore(x, kind, matched, admitted)
         IN /\ Sound(z, k, r) /\ Judged(z, h) /\ Left(z, w, kind, e)
            /\ z.j.phase = "EXTRACT" /\ z.p.record.body = "RESPONSE" => h.answered
<1> DEFINE x == InExtract(w, kind, matched, e, spent, expired, admitted)
           z == InRestore(x, kind, matched, admitted)
<1>1. CASE w.j.phase = "EXTRACT"
  <2>a. /\ ~w.halt /\ h.asked /\ (w.p.record.body = "RESPONSE" => h.answered)
        /\ kind \in {"TX", "CLOSED"} => w.g = <<>> /\ k = "NONE"
    BY <1>1
  <2>1. Sound(x, k, r) /\ Judged(x, h) /\ Extraction(x, w, kind, e, h)
    BY <1>1, <2>a, ExtractIs
  <2> HIDE DEF x
  <2>2. CASE x.halt \/ x.j.phase # "RESTORE"
    <3>1. z = x
      BY <2>2 DEF InRestore
    <3> HIDE DEF z
    <3>2. Left(x, w, kind, e)
      BY <1>1, <2>1 DEF Left, Extraction
    <3> QED
      BY <2>1, <3>1, <3>2 DEF Extraction, z, x
  <2>3. CASE ~x.halt /\ x.j.phase = "RESTORE"
    <3>0. kind # "RESTORED"
      BY <1>1
    <3>1. Sound(z, k, r) /\ Calm(z, x) /\ z.j.phase \in {"RESTORE", "DONE", "FAULT"}
      BY <2>1, <2>3, <3>0, RestoreIs
    <3> HIDE DEF z
    <3>2. Judged(z, h)
      BY <2>1, <3>1 DEF Judged, Calm
    <3>3. Left(z, w, kind, e)
      BY <1>1, <2>1, <3>1 DEF Left, Calm, Extraction
    <3> QED
      BY <3>1, <3>2, <3>3 DEF z, x
  <2> QED
    BY <2>2, <2>3
<1>2. CASE w.j.phase # "EXTRACT"
  <2>1. x = w
    BY <1>2 DEF InExtract
  <2> HIDE DEF x
  <2>2. CASE w.halt \/ w.j.phase # "RESTORE"
    <3>1. z = w
      BY <2>1, <2>2 DEF InRestore
    <3> HIDE DEF z
    <3>2. Left(w, w, kind, e)
      BY <1>2 DEF Left
    <3> QED
      BY <1>2, <3>1, <3>2 DEF z, x
  <2>3. CASE ~w.halt /\ w.j.phase = "RESTORE"
    <3>1. Sound(z, k, r) /\ Calm(z, w) /\ z.j.phase \in {"RESTORE", "DONE", "FAULT"}
      BY <2>1, <2>3, RestoreIs
    <3> HIDE DEF z
    <3>2. Judged(z, h)
      BY <3>1 DEF Judged, Calm
    <3>3. Left(z, w, kind, e)
      BY <1>2, <2>3, <3>1 DEF Left, Calm
    <3> QED
      BY <3>1, <3>2, <3>3 DEF z, x
  <2> QED
    BY <2>2, <2>3
<1> QED
  BY <1>1, <1>2

\* mac_join_step keeps the invariant, whatever event it is given.
LEMMA StepKeeps ==
  ASSUME JoinInv, Active, NEW e, NEW m, NEW spent, NEW over, NEW admitted,
         IsEvent(e), IsEvent(m), e.serial <= used.frames,
         Step(e, spent, over, admitted), mail' = m,
         \/ e = mail /\ m = NoEvent
         \/ m = mail /\ e.kind \in {"NONE", "CANCEL", "FAILURE"}
  PROVE  JoinInv'
<1> DEFINE kind == Kind(join, e)
           matched == Matched(join, e, kind)
           b == [j |-> join, p |-> poll, a |-> assoc, t |-> tx, g |-> grants, halt |-> FALSE]
           c == Spend(b, kind, spent)
           cancel == c.j.stopping /\ tx.phase # "STOPPING"
           W(t) == InWait(InRequest(InPrepare(c, kind, matched, admitted), kind, matched, t), over)
           fresh(w) == w.j.phase = "EXTRACT" /\ join.phase # "EXTRACT"
           K(w) == IF fresh(w) THEN "NONE" ELSE kind
           M(w) == matched /\ ~fresh(w)
           Z(w) == InRestore(InExtract(w, K(w), M(w), e, spent /\ ~c.j.stopping, over, admitted),
                             K(w), M(w), admitted)
<1>1. PICK t2 \in EngineSteps(tx, cancel) :
        /\ Become(Z(W(t2)))
        /\ past' = [past EXCEPT !.asked = @ \/ Reached(W(t2))]
        /\ UNCHANGED <<radio, used>>
  BY Zenon DEF Step
<1> DEFINE w == W(t2)
           k == K(w)
           z == Z(w)
<1>3. /\ b.j = join /\ b.p = poll /\ b.a = assoc /\ b.t = tx /\ b.g = grants /\ b.halt = FALSE
      /\ IsBundle(b)
  BY DEF JoinInv, Typed, IsBundle
<1> HIDE DEF b
<1>4. kind \in {"NONE", e.kind} /\ (kind = "FRAME" => e.gen = join.gen)
      /\ (e.kind = "FRAME" /\ e.gen = join.gen => kind = "FRAME")
  BY DEF Kind
<1> HIDE DEF kind
<1>5. join.phase # "FAULT" /\ join.phase \notin {"IDLE", "DONE"}
  BY DEF Active
<1>6. Work(join, poll, assoc, tx, grants, mail.kind, radio)
  BY <1>5 DEF JoinInv
<1>7. Work(join, poll, assoc, tx, grants, m.kind, radio)
  <2>1. CASE m = NoEvent
    <3>1. m.kind = "NONE"
      BY <2>1 DEF NoEvent
    <3>2. MailHome("NONE", join, poll, tx, grants, radio)
      BY DEF MailHome
    <3> QED
      BY <1>5, <1>6, <3>1, <3>2 DEF Work
  <2> QED
    BY <1>6, <2>1
<1>8. Sound(b, m.kind, radio)
  BY <1>3, <1>7 DEF Sound
<1>9. News(kind, m.kind, b, radio)
  <2>1. CASE e = mail /\ m = NoEvent
    <3>1. m.kind = "NONE"
      BY <2>1 DEF NoEvent
    <3>2. MailHome(e.kind, join, poll, tx, grants, radio)
      BY <1>6, <2>1 DEF Work
    <3>3. kind = "NONE" \/ MailHome(kind, join, poll, tx, grants, radio)
      BY <1>4, <3>2
    <3> QED
      BY <1>3, <3>1, <3>3 DEF News, MailHome, Home
  <2>2. CASE e.kind \in {"NONE", "CANCEL", "FAILURE"}
    BY <1>4, <2>2 DEF News
  <2> QED
    BY <2>1, <2>2
<1>10. join.phase \in Running
  BY DEF JoinInv, Typed, Active
<1>11. IsEngine(t2)
  BY <1>1, EngineStepsAre DEF JoinInv, Typed
<1>12. Sound(w, m.kind, radio) /\ Brought(w, b)
  <2>1. ~b.halt /\ b.j.phase \in Running
    BY <1>3, <1>10
  <2> QED
    BY <1>8, <1>9, <1>11, <2>1, FrontIs
<1>13. /\ past'.asked = (past.asked \/ Reached(w)) /\ past'.answered = past.answered
       /\ past'.missed = past.missed /\ past'.frame = past.frame /\ IsPast(past')
  BY <1>1 DEF JoinInv, Typed, IsPast
<1>14. Become(z) /\ radio' = radio /\ used' = used
  BY <1>1
<1> HIDE DEF W, w
<1>15. k \in {"NONE", kind} /\ (join.phase = "EXTRACT" \/ w.j.phase # "EXTRACT" => k = kind)
       /\ (join.phase # "EXTRACT" /\ w.j.phase = "EXTRACT" => k = "NONE")
  OBVIOUS
<1> DEFINE q == M(w)
           s == spent /\ ~c.j.stopping
<1>16. z = InRestore(InExtract(w, k, q, e, s, over, admitted), k, q, admitted)
  OBVIOUS
<1> HIDE DEF c, K, M, Z, k, q, s, z
<1>17. Judged(w, past')
  BY <1>3, <1>6, <1>12, <1>13 DEF Judged, Brought, JoinInv, Answer, Work
<1>18. e.kind = "FRAME" => e = mail /\ m.kind = "NONE"
  BY DEF NoEvent
<1>19. kind \in {"TX", "CLOSED"} => grants = <<>> /\ m.kind = "NONE" /\ join.phase = "EXTRACT"
  BY <1>3, <1>9 DEF News
<1>20. k \in {"TX", "CLOSED"} => (w.j.phase = "EXTRACT" => w.g = <<>> /\ m.kind = "NONE")
  <2>1. SUFFICES ASSUME k \in {"TX", "CLOSED"}, w.j.phase = "EXTRACT"
                 PROVE  w.g = <<>> /\ m.kind = "NONE"
    OBVIOUS
  <2>2. kind \in {"TX", "CLOSED"}
    BY <1>15, <2>1
  <2> QED
    BY <1>3, <1>12, <1>19, <2>1, <2>2 DEF Brought
<1>21. k = "RESTORED" => w.j.phase # "EXTRACT"
                         /\ (w.j.phase = "RESTORE" => w.g = <<>> /\ ~radio.tuned /\ m.kind = "NONE")
  <2>1. SUFFICES ASSUME k = "RESTORED"
                 PROVE  w.j.phase # "EXTRACT"
                        /\ (w.j.phase = "RESTORE" => w.g = <<>> /\ ~radio.tuned /\ m.kind = "NONE")
    OBVIOUS
  <2>2. kind = "RESTORED"
    BY <1>15, <2>1
  <2>3. b.j.phase = "RESTORE" /\ b.g = <<>> /\ ~radio.tuned /\ m.kind = "NONE"
    BY <1>9, <2>2 DEF News
  <2> QED
    BY <1>12, <2>3 DEF Brought
<1>22. w.j.phase = "EXTRACT" => past'.asked /\ (w.p.record.body = "RESPONSE" => past'.answered)
  <2>1. PollStart.record.body = "NONE"
    BY DEF PollStart, IdlePoll, NoReceipt
  <2>2. SUFFICES ASSUME w.j.phase = "EXTRACT"
                 PROVE  past'.asked /\ (w.p.record.body = "RESPONSE" => past'.answered)
    OBVIOUS
  <2>3. past'.asked
    BY <1>13, <2>2 DEF Reached
  <2>4. \/ join.phase = "EXTRACT" /\ w.p = poll
        \/ w.p = PollStart
    BY <1>3, <1>12, <2>2 DEF Brought
  <2>5. join.phase = "EXTRACT" /\ poll.record.body = "RESPONSE" => past.answered
    BY DEF JoinInv, Answer
  <2> QED
    BY <1>13, <2>1, <2>3, <2>4, <2>5
<1>23. k = "FRAME" /\ e.frame = "RESPONSE" => past'.answered
  <2>1. k = "FRAME" => kind = "FRAME" /\ e.kind = "FRAME"
    BY <1>4, <1>15
  <2> QED
    BY <1>4, <1>13, <1>18, <2>1 DEF JoinInv, Owned
<1>24. /\ Sound(z, m.kind, radio) /\ Judged(z, past') /\ Left(z, w, k, e)
       /\ z.j.phase = "EXTRACT" /\ z.p.record.body = "RESPONSE" => past'.answered
  <2>1. e.serial \in Nat
    BY DEF IsEvent
  <2>2. w.j.phase = "EXTRACT" => ~w.halt
    BY <1>12 DEF Brought
  <2> QED
    BY <1>12, <1>16, <1>17, <1>20, <1>21, <1>22, <1>23, <2>1, <2>2, TailIs
<1>25. join' = z.j /\ poll' = z.p /\ assoc' = z.a /\ tx' = z.t /\ grants' = z.g /\ z.j.gen = join.gen
  BY <1>3, <1>12, <1>14, <1>24 DEF Become, Brought, Left
<1>26. /\ PollStart.serial = 0 /\ PollStart.record.cause = "NONE" /\ PollStart.phase = "ARM"
  BY DEF PollStart, IdlePoll, NoReceipt
<1>27. w.p = poll \/ (w.p = PollStart /\ w.j.phase = "EXTRACT" /\ join.phase \in {"REQUEST", "WAIT"})
  BY <1>3, <1>12 DEF Brought
<1>28. Typed'
  <2>1. IsJoin(z.j) /\ IsPoll(z.p) /\ IsAssoc(z.a) /\ IsEngine(z.t) /\ z.g \in Seq(Grant)
    BY <1>24 DEF Sound, IsBundle
  <2>2. z.j.phase \in Running \cup {"IDLE", "DONE", "FAULT"}
    BY <1>12, <1>24 DEF Brought, Left, Running
  <2>3. z.p.serial <= used.frames
    <3>1. poll.serial <= used.frames /\ used.frames \in Nat
      BY DEF JoinInv, Typed
    <3>2. w.p.serial <= used.frames
      BY <1>26, <1>27, <3>1
    <3>3. z.p = w.p \/ z.p.serial \in {0, w.p.serial, e.serial}
      BY <1>24 DEF Left
    <3> QED
      BY <3>1, <3>2, <3>3
  <2>4. m.serial <= used.frames
    <3>1. m = mail \/ m = NoEvent
      OBVIOUS
    <3> QED
      BY <3>1 DEF JoinInv, Typed, NoEvent
  <2> QED
    BY <1>13, <1>14, <1>25, <2>1, <2>2, <2>3, <2>4 DEF JoinInv, Typed
<1>29. join'.phase # "FAULT" => Work(join, poll, assoc, tx, grants, mail.kind, radio)'
  <2>1. z.j.phase # "FAULT" => Work(z.j, z.p, z.a, z.t, z.g, m.kind, radio)
    BY <1>24 DEF Sound
  <2> QED
    BY <1>14, <1>25, <2>1
<1>30. Answer(join, poll, assoc, past)'
  <2>1. z.j.phase \in {"WAIT", "EXTRACT"} => w.j.phase = z.j.phase
    BY <1>12, <1>24 DEF Left, Brought, Running
  <2>2. z.j.phase \in {"WAIT", "EXTRACT"} => past'.asked
    BY <1>13, <2>1 DEF Reached
  <2>3. Answer(z.j, z.p, z.a, past')
    BY <1>24, <2>2 DEF Answer, Judged
  <2> QED
    BY <1>25, <2>3
<1>31. Owned(mail, join, past)' /\ Owned(past.frame, join, past)'
  <2>1. Owned(m, join, past)
    <3>1. CASE m = NoEvent
      BY <3>1 DEF JoinInv, Typed, IsJoin, Owned, NoEvent
    <3>2. CASE m = mail
      BY <3>2 DEF JoinInv
    <3> QED
      BY <3>1, <3>2
  <2>2. Owned(past.frame, join, past)
    BY DEF JoinInv
  <2> QED
    BY <1>13, <1>25, <2>1, <2>2 DEF Owned
<1>32. Silence(z.j, z.p, m, past)
  <2>0. Silence(join, poll, mail, past)
    BY DEF JoinInv
  <2>1. CASE w.j.phase # "EXTRACT"
    <3>1. z.p = poll /\ z.j.phase \in {w.j.phase, "DONE", "FAULT"}
      BY <1>24, <1>27, <2>1 DEF Left
    <3>2. z.j.phase \in {"PREPARE", "REQUEST", "WAIT"} => join.phase \in {"PREPARE", "REQUEST", "WAIT"}
      BY <1>3, <1>10, <1>12, <2>1, <3>1 DEF Brought, Running
    <3> QED
      BY <2>0, <2>1, <3>1, <3>2 DEF Silence
  <2>2. CASE w.j.phase = "EXTRACT" /\ join.phase # "EXTRACT"
    <3>1. w.p = PollStart /\ ~past.missed
      BY <1>3, <1>12, <2>0, <2>2 DEF Brought, Silence
    <3> QED
      BY <3>1 DEF Silence
  <2>3. CASE w.j.phase = "EXTRACT" /\ join.phase = "EXTRACT"
    <3>1. w.p = poll /\ k = kind
      BY <1>15, <1>27, <2>3
    <3>2. past.missed => /\ poll.phase \in {"RECEIVE", "DRAIN"}
                         /\ Pending(mail, join, poll) \/ (poll.phase = "DRAIN" /\ ~poll.timeout)
      BY <2>0, <2>3 DEF Silence
    <3>3. /\ z.j.phase \in {"EXTRACT", "RESTORE", "DONE", "FAULT"}
          /\ z.p.record.cause = "TIMEOUT" => poll.phase = "DRAIN" /\ poll.timeout /\ kind = "CLOSED"
          /\ z.j.phase = "EXTRACT" =>
               /\ poll.phase \in {"RECEIVE", "DRAIN"} => z.p.phase \in {"RECEIVE", "DRAIN"}
               /\ poll.phase = "DRAIN" /\ ~poll.timeout => z.p.phase = "DRAIN" /\ ~z.p.timeout
               /\ Counts(poll, kind, e) => z.p.phase = "DRAIN" /\ ~z.p.timeout
               /\ kind # "FRAME" => z.p.serial = poll.serial
      BY <1>24, <2>3, <3>1 DEF Left
    <3>4. kind = "CLOSED" => mail.kind = "CLOSED"
      BY <1>4
    <3>5. z.p.record.cause = "TIMEOUT" => ~past.missed
      BY <3>2, <3>3, <3>4 DEF Pending
    <3>6. ASSUME z.j.phase = "EXTRACT", past.missed
          PROVE  /\ z.p.phase \in {"RECEIVE", "DRAIN"}
                 /\ Pending(m, z.j, z.p) \/ (z.p.phase = "DRAIN" /\ ~z.p.timeout)
      <4>1. CASE poll.phase = "DRAIN" /\ ~poll.timeout
        BY <3>3, <3>6, <4>1
      <4>2. CASE Pending(mail, join, poll) /\ e = mail
        <5>1. kind = "FRAME"
          BY <1>4, <4>2 DEF Pending
        <5>2. Counts(poll, kind, e)
          BY <3>2, <3>6, <4>2, <5>1 DEF Counts, Pending
        <5> QED
          BY <3>3, <3>6, <5>2
      <4>3. CASE Pending(mail, join, poll) /\ m = mail /\ e.kind \in {"NONE", "CANCEL", "FAILURE"}
        <5>1. kind # "FRAME"
          BY <1>4, <4>3
        <5>2. z.p.serial = poll.serial /\ z.p.phase \in {"RECEIVE", "DRAIN"}
          BY <3>2, <3>3, <3>6, <5>1
        <5> QED
          BY <1>25, <4>3, <5>2 DEF Pending
      <4> QED
        BY <3>2, <3>6, <4>1, <4>2, <4>3
    <3> QED
      BY <3>3, <3>5, <3>6 DEF Silence
  <2> QED
    BY <2>1, <2>2, <2>3
<1>33. Silence(join, poll, mail, past)'
  BY <1>13, <1>25, <1>32 DEF Silence, Pending
<1> QED
  BY <1>28, <1>29, <1>30, <1>31, <1>33 DEF JoinInv

-------------------------------------------------------------------------------
(*** The other actions, and the theorems.                                     ***)

\* The invariant holds at first.
LEMMA JoinInit == Init => JoinInv
<1> SUFFICES ASSUME Init PROVE JoinInv
  OBVIOUS
<1>1. Typed
  BY DEF Init, Typed, IsJoin, JoinFields, IsPoll, PollFields, IsAssoc, IsEngine, EngineFields, IsEvent,
         EventFields, IsRadio, IsPast, IdleJoin, IdlePoll, IdleAssoc, IdleEngine, Engine, NoEvent, Quiet
<1>2. Queue(join, poll, tx, grants)
  BY Emptied DEF Init
<1>3. /\ join.phase = "IDLE" /\ join.window = 0 /\ assoc.phase = "IDLE" /\ mail.kind = "NONE"
      /\ radio.armed = FALSE /\ radio.tuned = FALSE /\ grants = <<>> /\ join.outcome = "NONE"
      /\ poll.record.cause = "NONE" /\ past.missed = FALSE /\ mail = NoEvent /\ past.frame = NoEvent
      /\ join.gen = 0 /\ NoEvent.kind = "NONE" /\ NoEvent.gen = 0
  BY DEF Init, IdleJoin, IdleAssoc, NoEvent, Quiet, IdlePoll, NoReceipt
<1>4. Work(join, poll, assoc, tx, grants, mail.kind, radio)
  BY <1>2, <1>3 DEF Work, MailHome
<1>5. Answer(join, poll, assoc, past) /\ Owned(mail, join, past) /\ Owned(past.frame, join, past)
  BY <1>3 DEF Answer, Owned
<1>6. Silence(join, poll, mail, past)
  BY <1>3 DEF Silence
<1> QED
  BY <1>1, <1>4, <1>5, <1>6 DEF JoinInv

\* An attempt starts from a clean state.
LEMMA StartKeeps == JoinInv /\ Start => JoinInv'
<1> SUFFICES ASSUME JoinInv, Start PROVE JoinInv'
  OBVIOUS
<1>1. Work(join, poll, assoc, tx, grants, mail.kind, radio)
  BY DEF JoinInv, Start
<1>2. grants = <<>> /\ mail.kind = "NONE" /\ ~radio.armed /\ ~radio.tuned /\ assoc.phase = "IDLE"
  BY <1>1 DEF Work, Start
<1>3. /\ IsJoin(join') /\ join'.phase = "PREPARE" /\ join'.gen = join.gen + 1 /\ join'.window = 0
      /\ join'.issued = "NONE" /\ join'.outcome = "NONE"
  <2>1. join.gen \in Nat
    BY DEF JoinInv, Typed, IsJoin
  <2>2. join' = [IdleJoin EXCEPT !.phase = "PREPARE", !.gen = join.gen + 1]
    BY DEF Start
  <2>3. PICK n \in Nat : n = join.gen + 1
    BY <2>1
  <2>4. join' = [IdleJoin EXCEPT !.phase = "PREPARE", !.gen = n]
    BY <2>2, <2>3
  <2>5. /\ join' = [f \in JoinFields |-> join'[f]] /\ join'.phase = "PREPARE" /\ join'.gen = n
        /\ join'.window = 0 /\ join'.token = 0 /\ join'.issued = "NONE" /\ join'.outcome = "NONE"
    BY <2>4 DEF JoinFields, IdleJoin
  <2> QED
    BY <2>3, <2>5 DEF IsJoin
<1>4. /\ IsPast(past') /\ past'.frame = past.frame /\ past'.missed = FALSE
  BY DEF Start, JoinInv, Typed, IsPast, Quiet
<1>5. IsRadio(radio') /\ radio'.armed = radio.armed /\ radio'.tuned = radio.tuned
  BY DEF Start, JoinInv, Typed, IsRadio
<1>6. poll' = poll /\ assoc' = assoc /\ tx' = tx /\ grants' = grants /\ mail' = mail /\ used' = used
  BY DEF Start
<1>7. Typed'
  BY <1>3, <1>4, <1>5, <1>6 DEF JoinInv, Typed, Running
<1>8. Work(join', poll, assoc, tx, <<>>, "NONE", radio')
  BY <1>2, <1>3, <1>5, Emptied DEF Work, MailHome
<1>9. Answer(join', poll, assoc, past')
  BY <1>3 DEF Answer
<1>10. Owned(mail, join', past') /\ Owned(past.frame, join', past')
  <2>1. /\ mail.gen <= join.gen /\ mail.gen \in Nat /\ join.gen \in Nat
        /\ past.frame.gen <= join.gen /\ past.frame.gen \in Nat
    BY DEF JoinInv, Typed, Owned, IsEvent, IsJoin, IsPast
  <2> QED
    BY <1>3, <2>1 DEF Owned
<1>11. Silence(join', poll, mail, past')
  BY <1>3, <1>4 DEF Silence
<1> QED
  BY <1>2, <1>4, <1>6, <1>7, <1>8, <1>9, <1>10, <1>11 DEF JoinInv

\* A step with the event that waits.
LEMMA StepWithMailKeeps == JoinInv /\ StepWithMail => JoinInv'
<1> SUFFICES ASSUME JoinInv, StepWithMail PROVE JoinInv'
  OBVIOUS
<1>1. Active /\ mail' = NoEvent /\ \E spent, over, admitted : Step(mail, spent, over, admitted)
  BY DEF StepWithMail
<1>2. PICK spent, over, admitted : Step(mail, spent, over, admitted)
  BY <1>1
<1>3. IsEvent(mail) /\ mail.serial <= used.frames
  BY DEF JoinInv, Typed
<1>4. IsEvent(NoEvent)
  BY DEF IsEvent, EventFields, NoEvent
<1> QED
  BY <1>1, <1>2, <1>3, <1>4, StepKeeps

\* A step without it: time, a cancellation or a failure.
LEMMA StepAloneKeeps == JoinInv /\ StepAlone => JoinInv'
<1> SUFFICES ASSUME JoinInv, StepAlone PROVE JoinInv'
  OBVIOUS
<1> DEFINE E(kind) == [NoEvent EXCEPT !.kind = kind, !.gen = join.gen]
<1>1. /\ Active /\ mail' = mail
      /\ \E kind \in {"NONE", "CANCEL", "FAILURE"} : \E spent, over : Step(E(kind), spent, over, TRUE)
  BY DEF StepAlone
<1>2. PICK kind \in {"NONE", "CANCEL", "FAILURE"} : \E spent, over : Step(E(kind), spent, over, TRUE)
  BY <1>1
<1> DEFINE e == E(kind)
<1>3. PICK spent, over : Step(e, spent, over, TRUE)
  BY <1>2
<1>4. IsEvent(e) /\ e.kind = kind /\ e.serial = 0
  BY DEF JoinInv, Typed, IsJoin, IsEvent, EventFields, NoEvent
<1>5. IsEvent(mail) /\ used.frames \in Nat
  BY DEF JoinInv, Typed
<1> HIDE DEF e, E
<1>6. e.serial <= used.frames /\ e.kind \in {"NONE", "CANCEL", "FAILURE"}
  BY <1>4, <1>5
<1> QED
  BY <1>1, <1>3, <1>4, <1>5, <1>6, StepKeeps

\* The result is taken.
LEMMA TakeKeeps == JoinInv /\ Take => JoinInv'
<1> SUFFICES ASSUME JoinInv, Take PROVE JoinInv'
  OBVIOUS
<1>1. /\ poll' = poll /\ assoc' = assoc /\ tx' = tx /\ grants' = grants /\ mail' = mail
      /\ radio' = radio /\ past' = past /\ used' = used
  BY DEF Take
<1>2. Alike(join', join)
  BY DEF Take, JoinInv, Typed, IsJoin, JoinFields, Alike
<1>3. /\ IsJoin(join') /\ join'.phase = join.phase /\ join'.gen = join.gen
      /\ join'.window = join.window /\ join'.outcome = join.outcome
  BY <1>2 DEF Alike
<1>4. Typed'
  BY <1>1, <1>3 DEF JoinInv, Typed
<1>5. join'.phase # "FAULT" => Work(join', poll, assoc, tx, grants, mail.kind, radio)
  BY <1>2, <1>3, WorkAlike DEF JoinInv
<1>6. /\ Answer(join', poll, assoc, past) /\ Owned(mail, join', past) /\ Owned(past.frame, join', past)
      /\ Silence(join', poll, mail, past)
  BY <1>3 DEF JoinInv, Answer, Owned, Silence, Pending
<1> QED
  BY <1>1, <1>4, <1>5, <1>6 DEF JoinInv

\* The attempt is released.
LEMMA ReleaseKeeps == JoinInv /\ Release => JoinInv'
<1> SUFFICES ASSUME JoinInv, Release PROVE JoinInv'
  OBVIOUS
<1>1. /\ poll' = poll /\ assoc' = assoc /\ tx' = tx /\ grants' = grants /\ mail' = mail
      /\ radio' = radio /\ past' = past /\ used' = used /\ join.phase = "DONE"
  BY DEF Release
<1>2. /\ IsJoin(join') /\ join'.phase = "IDLE" /\ join'.gen = join.gen
      /\ join'.window = join.window /\ join'.outcome = join.outcome
  BY DEF Release, JoinInv, Typed, IsJoin, JoinFields
<1>3. Work(join, poll, assoc, tx, grants, mail.kind, radio)
  BY <1>1 DEF JoinInv
<1>4. grants = <<>> /\ mail.kind = "NONE"
  BY <1>1, <1>3 DEF Work
<1>5. Work(join', poll, assoc, tx, grants, mail.kind, radio)
  BY <1>1, <1>2, <1>3, <1>4, Emptied DEF Work, MailHome
<1>6. /\ Answer(join', poll, assoc, past) /\ Owned(mail, join', past) /\ Owned(past.frame, join', past)
      /\ Silence(join', poll, mail, past)
  BY <1>2 DEF JoinInv, Answer, Owned, Silence
<1>7. Typed'
  BY <1>1, <1>2 DEF JoinInv, Typed
<1> QED
  BY <1>1, <1>5, <1>6, <1>7 DEF JoinInv

\* A frame comes once more.
LEMMA LateKeeps == JoinInv /\ Late => JoinInv'
<1> SUFFICES ASSUME JoinInv, Late PROVE JoinInv'
  OBVIOUS
<1>1. /\ join' = join /\ poll' = poll /\ assoc' = assoc /\ tx' = tx /\ grants' = grants
      /\ mail' = past.frame /\ radio' = radio /\ past' = past /\ join.phase = "EXTRACT"
      /\ past.frame.kind = "FRAME" /\ mail.kind = "NONE"
  BY DEF Late
<1>2. used' \in [frames : Nat, late : Nat] /\ used'.frames = used.frames
  BY DEF Late, JoinInv, Typed
<1>3. Typed'
  BY <1>1, <1>2 DEF JoinInv, Typed, IsPast
<1>4. Work(join, poll, assoc, tx, grants, mail.kind, radio)
  BY <1>1 DEF JoinInv
<1>5. Work(join, poll, assoc, tx, grants, past.frame.kind, radio)
  BY <1>1, <1>4 DEF Work, MailHome
<1>6. Silence(join, poll, past.frame, past)
  BY <1>1 DEF JoinInv, Silence, Pending
<1>7. Answer(join, poll, assoc, past) /\ Owned(past.frame, join, past)
  BY DEF JoinInv
<1> QED
  BY <1>1, <1>3, <1>5, <1>6, <1>7 DEF JoinInv

\* Time passes the end of the window.
LEMMA WindowEndsKeeps == JoinInv /\ WindowEnds => JoinInv'
<1> SUFFICES ASSUME JoinInv, WindowEnds PROVE JoinInv'
  OBVIOUS
<1>1. /\ join' = join /\ assoc' = assoc /\ tx' = tx /\ grants' = grants /\ mail' = mail
      /\ radio' = radio /\ past' = past /\ used' = used /\ join.phase = "EXTRACT"
  BY DEF WindowEnds
<1>2. /\ IsPoll(poll') /\ poll'.phase = poll.phase /\ poll'.serial = poll.serial
      /\ poll'.record = poll.record /\ poll'.timeout = poll.timeout /\ poll'.ready = poll.ready
      /\ poll'.closed = poll.closed /\ poll'.closeIssued = poll.closeIssued
      /\ poll'.txIssued = poll.txIssued /\ poll'.submitted = poll.submitted
  BY DEF WindowEnds, JoinInv, Typed, IsPoll, PollFields
<1>3. Typed'
  BY <1>1, <1>2 DEF JoinInv, Typed
<1>4. Work(join, poll, assoc, tx, grants, mail.kind, radio)
  BY <1>1 DEF JoinInv
<1>5. Queue(join, poll', tx, grants) /\ MailHome(mail.kind, join, poll', tx, grants, radio)
  BY <1>2, <1>4 DEF Work, Queue, MailHome, Home
<1>6. poll'.phase \in Busy /\ Fits(poll', tx)
  BY <1>1, <1>2, <1>4 DEF Work, Fits
<1>7. Work(join, poll', assoc, tx, grants, mail.kind, radio)
  BY <1>1, <1>4, <1>5, <1>6 DEF Work
<1>8. Answer(join, poll', assoc, past) /\ Silence(join, poll', mail, past)
  BY <1>2 DEF JoinInv, Answer, Silence, Pending
<1>9. Owned(mail, join, past) /\ Owned(past.frame, join, past)
  BY DEF JoinInv
<1> QED
  BY <1>1, <1>3, <1>7, <1>8, <1>9 DEF JoinInv

\* A frame is received.
LEMMA AirKeeps == JoinInv /\ Air => JoinInv'
<1> SUFFICES ASSUME JoinInv, Air PROVE JoinInv'
  OBVIOUS
<1>1. /\ join' = join /\ poll' = poll /\ assoc' = assoc /\ tx' = tx /\ grants' = grants
      /\ radio' = radio /\ join.phase = "EXTRACT" /\ mail.kind = "NONE"
  BY DEF Air
<1>2. PICK body \in Bodies, ordered \in BOOLEAN :
       /\ mail' = [NoEvent EXCEPT !.kind = "FRAME", !.gen = join.gen, !.frame = body,
                                  !.ordered = ordered, !.serial = used.frames + 1]
       /\ past' = [past EXCEPT !.frame = mail', !.answered = @ \/ body = "RESPONSE",
                    !.missed = @ \/ (poll.phase \in {"RECEIVE", "DRAIN"} /\ poll.ackSeen
                                     /\ body \notin {"FOREIGN", "UNSUPPORTED"})]
  BY DEF Air
<1>3. used' \in [frames : Nat, late : Nat] /\ used'.frames = used.frames + 1
  BY DEF Air, JoinInv, Typed
<1>4. /\ IsEvent(mail') /\ mail'.kind = "FRAME" /\ mail'.gen = join.gen /\ mail'.frame = body
      /\ mail'.serial = used.frames + 1
  <2>1. join.gen \in Nat /\ used.frames + 1 \in Nat
    BY DEF JoinInv, Typed, IsJoin
  <2> QED
    BY <1>2, <2>1 DEF IsEvent, EventFields, NoEvent
<1>5. /\ IsPast(past') /\ past'.frame = mail' /\ past'.asked = past.asked
      /\ past'.answered = (past.answered \/ body = "RESPONSE")
      /\ past'.missed = (past.missed \/ (poll.phase \in {"RECEIVE", "DRAIN"} /\ poll.ackSeen
                                         /\ body \notin {"FOREIGN", "UNSUPPORTED"}))
  BY <1>2, <1>4 DEF JoinInv, Typed, IsPast
<1>6. used.frames \in Nat /\ poll.serial \in Nat /\ poll.serial <= used.frames /\ join.gen \in Nat
  BY DEF JoinInv, Typed, IsPoll, IsJoin
<1>7. Typed'
  <2>1. poll.serial <= used'.frames /\ mail'.serial <= used'.frames
    BY <1>3, <1>4, <1>6
  <2> QED
    BY <1>1, <1>3, <1>4, <1>5, <2>1 DEF JoinInv, Typed
<1>8. Work(join, poll, assoc, tx, grants, mail.kind, radio)
  BY <1>1 DEF JoinInv
<1>9. Work(join, poll, assoc, tx, grants, mail'.kind, radio)
  BY <1>1, <1>4, <1>8 DEF Work, MailHome
<1>10. Answer(join, poll, assoc, past')
  BY <1>5 DEF JoinInv, Answer
<1>11. Owned(mail', join, past')
  <2>1. mail'.frame = "RESPONSE" => past'.answered
    BY <1>4, <1>5
  <2>2. mail'.gen <= join.gen
    BY <1>4, <1>6
  <2> QED
    BY <2>1, <2>2 DEF Owned
<1>12. Silence(join, poll, mail', past')
  <2>1. poll.record.cause # "TIMEOUT"
    BY <1>1, <1>8 DEF Work, Fits
  <2>2. ASSUME past'.missed
        PROVE  /\ poll.phase \in {"RECEIVE", "DRAIN"}
               /\ Pending(mail', join, poll) \/ (poll.phase = "DRAIN" /\ ~poll.timeout)
    <3>1. CASE past.missed
      BY <1>1, <3>1 DEF JoinInv, Silence, Pending
    <3>2. CASE ~past.missed
      <4>1. poll.phase \in {"RECEIVE", "DRAIN"} /\ body \notin {"FOREIGN", "UNSUPPORTED"}
        BY <1>5, <2>2, <3>2
      <4>2. mail'.serial > poll.serial
        BY <1>4, <1>6
      <4> QED
        BY <1>4, <4>1, <4>2 DEF Pending
    <3> QED
      BY <3>1, <3>2
  <2> QED
    BY <1>1, <2>1, <2>2 DEF Silence
<1> QED
  BY <1>1, <1>5, <1>7, <1>9, <1>10, <1>11, <1>12 DEF JoinInv

\* The adapter carries out the oldest grant.
LEMMA AdapterKeeps == JoinInv /\ Adapter => JoinInv'
<1> SUFFICES ASSUME JoinInv, Adapter PROVE JoinInv'
  OBVIOUS
<1> DEFINE g == Head(grants)
           report == [NoEvent EXCEPT !.kind = ReportOf(g.kind), !.gen = join.gen, !.token = g.token]
<1>1. /\ grants # <<>> /\ mail.kind = "NONE" /\ join.phase # "FAULT" /\ grants' = Tail(grants)
      /\ join' = join /\ poll' = poll /\ assoc' = assoc /\ past' = past /\ used' = used
  BY DEF Adapter
<1>2. /\ radio' = CASE g.kind = "PREPARE" -> [radio EXCEPT !.tuned = TRUE]
                    [] g.kind = "ARM" -> [radio EXCEPT !.armed = TRUE]
                    [] g.kind = "DISARM" -> [radio EXCEPT !.armed = FALSE]
                    [] g.kind = "CLOSE" -> [radio EXCEPT !.closed = TRUE]
                    [] g.kind = "RESTORE" -> [radio EXCEPT !.tuned = FALSE]
                    [] OTHER -> radio
  BY DEF Adapter
<1>3. (CASE g.kind = "TX" ->
             /\ tx' \in EngineSteps(tx, g.cancel)
             /\ mail' = [report EXCEPT !.source =
                           IF tx.phase = "ACK_WAIT" /\ tx'.outcome = "ACKED" THEN "ACK" ELSE @]
        [] g.kind = "CLOSE" ->
             \E covers \in BOOLEAN : mail' = [report EXCEPT !.covers = covers] /\ tx' = tx
        [] OTHER -> mail' = report /\ tx' = tx)
  BY Zenon DEF Adapter
<1>4. Work(join, poll, assoc, tx, grants, mail.kind, radio)
  BY <1>1 DEF JoinInv
<1>5. /\ g \in Grant /\ grants' \in Seq(Grant) /\ Queue(join, poll, tx, grants')
      /\ Home(g.kind, join, poll, tx)
      /\ g.kind \in Final \/ join.phase = "PREPARE" => grants' = <<>>
  <2>1. Queue(join, poll, tx, grants) /\ grants \in Seq(Grant)
    BY <1>4 DEF Work, JoinInv, Typed
  <2> QED
    BY <1>1, <2>1, Shortened
<1>6. join.phase = "PREPARE" => join.issued # "NONE"
  BY <1>1, <1>4 DEF Work, Queue
<1> HIDE DEF g
<1>7. g.kind \in GrantKinds
  BY <1>5 DEF Grant
<1>8. IsEvent(report) /\ report.kind = ReportOf(g.kind) /\ report.gen = join.gen /\ report.serial = 0
  <2>1. join.gen \in Nat
    BY DEF JoinInv, Typed, IsJoin
  <2> QED
    BY <2>1 DEF IsEvent, EventFields, NoEvent
<1> HIDE DEF report
<1>9. IsEvent(mail') /\ mail'.kind = ReportOf(g.kind) /\ mail'.gen = join.gen /\ mail'.serial = 0
  <2>1. \E x, y : mail' = [report EXCEPT !.source = x, !.covers = y]
    <3>1. report = [report EXCEPT !.source = report.source, !.covers = report.covers]
      BY <1>8 DEF IsEvent, EventFields
    <3>2. \A x : [report EXCEPT !.source = x] = [report EXCEPT !.source = x, !.covers = report.covers]
      BY <1>8 DEF IsEvent, EventFields
    <3>3. \A y : [report EXCEPT !.covers = y] = [report EXCEPT !.source = report.source, !.covers = y]
      BY <1>8 DEF IsEvent, EventFields
    <3>4. CASE g.kind = "TX"
      <4>1. \E x : mail' = [report EXCEPT !.source = x]
        BY <1>3, <3>4
      <4> QED
        BY <3>2, <4>1
    <3>5. CASE g.kind = "CLOSE"
      <4>1. \E y : mail' = [report EXCEPT !.covers = y]
        BY <1>3, <3>5
      <4> QED
        BY <3>3, <4>1
    <3>6. CASE g.kind \notin {"TX", "CLOSE"}
      <4>1. mail' = report
        BY <1>3, <3>6
      <4> QED
        BY <3>1, <4>1
    <3> QED
      BY <3>4, <3>5, <3>6
  <2>2. PICK x, y : mail' = [report EXCEPT !.source = x, !.covers = y]
    BY <2>1
  <2> QED
    BY <1>8, <2>2 DEF IsEvent, EventFields
<1>10. IsEngine(tx') /\ (g.kind # "TX" => tx' = tx)
  <2>1. IsEngine(tx)
    BY DEF JoinInv, Typed
  <2>2. CASE g.kind = "TX"
    <3>1. tx' \in EngineSteps(tx, g.cancel)
      BY <1>3, <2>2
    <3> QED
      BY <2>1, <2>2, <3>1, EngineStepsAre
  <2>3. CASE g.kind # "TX"
    <3>1. tx' = tx
      BY <1>3, <2>3
    <3> QED
      BY <2>1, <3>1
  <2> QED
    BY <2>2, <2>3
<1>11. /\ IsRadio(radio')
       /\ g.kind \notin {"PREPARE", "RESTORE"} => radio'.tuned = radio.tuned
       /\ g.kind = "RESTORE" => radio'.tuned = FALSE
       /\ g.kind \notin {"ARM", "DISARM"} => radio'.armed = radio.armed
       /\ g.kind = "DISARM" => radio'.armed = FALSE
  <2>1. IsRadio(radio)
    BY DEF JoinInv, Typed
  <2> QED
    BY <1>2, <1>7, <2>1 DEF IsRadio, GrantKinds
<1>12. Typed'
  <2>1. mail'.serial <= used.frames
    BY <1>9 DEF JoinInv, Typed
  <2> QED
    BY <1>1, <1>5, <1>9, <1>10, <1>11, <2>1 DEF JoinInv, Typed
<1>13. /\ mail'.kind = "PREPARED" => g.kind \in {"PREPARE", "RECEIVE"}
       /\ mail'.kind = "ARMED" => g.kind = "ARM"
       /\ mail'.kind = "DISARMED" => g.kind = "DISARM"
       /\ mail'.kind = "TX" => g.kind = "TX"
       /\ mail'.kind = "CLOSED" => g.kind = "CLOSE"
       /\ mail'.kind = "RESTORED" => g.kind = "RESTORE"
       /\ mail'.kind \in {"PREPARED", "ARMED", "DISARMED", "TX", "CLOSED", "RESTORED"}
  BY <1>7, <1>9 DEF ReportOf, GrantKinds
<1>14. MailHome(mail'.kind, join, poll, tx', grants', radio')
  <2>1. radio.armed => join.phase = "REQUEST"
    BY <1>4 DEF Work
  <2>2. g.kind = "RESTORE" => ~radio'.armed
    BY <1>5, <1>11, <2>1 DEF Home
  <2> QED
    BY <1>5, <1>6, <1>10, <1>11, <1>13, <2>2 DEF MailHome, Home, Final
<1>15. Queue(join, poll, tx', grants')
  <2>1. CASE g.kind = "TX"
    <3>1. grants' = <<>>
      BY <1>5, <2>1 DEF Final
    <3> QED
      BY <3>1, Emptied
  <2>2. CASE g.kind # "TX"
    BY <1>5, <1>10, <2>2
  <2> QED
    BY <2>1, <2>2
<1>16. join.phase = "EXTRACT" => poll.phase \in Busy /\ Fits(poll, tx')
  <2>1. CASE g.kind = "TX"
    <3>1. poll.txIssued
      BY <1>5, <2>1 DEF Home
    <3> QED
      BY <1>4, <3>1 DEF Work, Fits
  <2>2. CASE g.kind # "TX"
    BY <1>4, <1>10, <2>2 DEF Work
  <2> QED
    BY <2>1, <2>2
<1>17. join.phase \notin {"IDLE", "DONE"}
  BY <1>1, <1>4 DEF Work
<1>18. radio'.armed => join.phase = "REQUEST"
  BY <1>4, <1>5, <1>7, <1>11 DEF Work, Home, GrantKinds
<1>19. Work(join, poll, assoc, tx', grants', mail'.kind, radio')
  BY <1>4, <1>14, <1>15, <1>16, <1>17, <1>18 DEF Work
<1>20. Owned(mail', join, past) /\ Owned(past.frame, join, past) /\ Answer(join, poll, assoc, past)
  <2>1. mail'.kind # "FRAME"
    BY <1>13
  <2>2. mail'.gen <= join.gen
    BY <1>9 DEF JoinInv, Typed, IsJoin
  <2> QED
    BY <2>1, <2>2 DEF Owned, JoinInv
<1>21. Silence(join, poll, mail', past)
  BY <1>1 DEF JoinInv, Silence, Pending
<1> QED
  BY <1>1, <1>12, <1>19, <1>20, <1>21 DEF JoinInv

(* No step of an attempt, of the adapter, of the air or of the clock leaves the  *)
(* inductive invariant (mac_join.c:407-746, mac_poll.c:389-689).                 *)
THEOREM JoinInductive == Spec => []JoinInv
<1>1. Init => JoinInv
  BY JoinInit
<1>2. JoinInv /\ [Next]_vars => JoinInv'
  <2> SUFFICES ASSUME JoinInv, [Next]_vars PROVE JoinInv'
    OBVIOUS
  <2>1. CASE Start
    BY <2>1, StartKeeps
  <2>2. CASE StepWithMail
    BY <2>2, StepWithMailKeeps
  <2>3. CASE StepAlone
    BY <2>3, StepAloneKeeps
  <2>4. CASE Take
    BY <2>4, TakeKeeps
  <2>5. CASE Release
    BY <2>5, ReleaseKeeps
  <2>6. CASE Adapter
    BY <2>6, AdapterKeeps
  <2>7. CASE Air
    BY <2>7, AirKeeps
  <2>8. CASE Late
    BY <2>8, LateKeeps
  <2>9. CASE WindowEnds
    BY <2>9, WindowEndsKeeps
  <2>10. CASE UNCHANGED vars
    BY <2>10 DEF vars, JoinInv, Typed, Work, Queue, MailHome, Home, Answer, Owned, Silence, Pending
  <2> QED
    BY <2>1, <2>2, <2>3, <2>4, <2>5, <2>6, <2>7, <2>8, <2>9, <2>10 DEF Next
<1> QED
  BY <1>1, <1>2, PTL DEF Spec

(* An attempt that is over has given everything back, wherever it was cancelled  *)
(* or ran out of time: nothing is granted, the engine, the poll and the          *)
(* association are idle and the radio is restored (mac_join.c:711-738).          *)
THEOREM FinishedIsClean == Spec => []JoinIsClean
<1>1. JoinInv => JoinIsClean
  BY DEF JoinInv, Work, JoinIsClean
<1> QED
  BY <1>1, JoinInductive, PTL

(* An association response is reported only for a request that was acknowledged  *)
(* and a response that was received in the same attempt (mac_join.c:240-270,     *)
(* 483-497).                                                                     *)
THEOREM ReportedAnswerIsOwn == Spec => []AnswerIsOwn
<1>1. JoinInv => AnswerIsOwn
  BY DEF JoinInv, Answer, AnswerIsOwn
<1> QED
  BY <1>1, JoinInductive, PTL

(* A poll reports a time-out only if no frame of the parent that it had to count *)
(* came after the acknowledgment (mac_poll.c:503-599).                           *)
THEOREM ReportedSilenceIsTrue == Spec => []SilenceIsTrue
<1>1. JoinInv => SilenceIsTrue
  BY DEF JoinInv, Silence, SilenceIsTrue
<1> QED
  BY <1>1, JoinInductive, PTL
================================================================================
