-------------------------------- MODULE MacJoin --------------------------------
(* mac_join.c: an association attempt.  The request is sent through the        *)
(* transmit engine, then, a response time later, the answer is extracted with  *)
(* a poll (MacPoll) and judged by mac_association.c, and at last the radio is  *)
(* restored.  The adapter carries out the actions it is granted in order, and  *)
(* its reports, frames, a cancellation and the deadlines come as they like.    *)
EXTENDS MacPoll, Sequences

CONSTANTS
  Bodies,        \* what a frame from the parent may be
  MaxAttempts,   \* bound: attempts in a behaviour
  MaxFrames,     \* bound: frames received in a behaviour
  MaxLate        \* bound: frames that come once more, out of their time

VARIABLES
  join,     \* mac_join_t without its poll and association
  poll,     \* its mac_poll_t
  assoc,    \* its mac_association_t
  tx,       \* the transmit engine
  grants,   \* actions granted and not yet carried out
  mail,     \* the event that waits for the next step
  radio,    \* what the radio really does
  past,     \* history of this attempt, and the last frame for a late copy
  used      \* counts against the bounds

vars == <<join, poll, assoc, tx, grants, mail, radio, past, used>>

IdleJoin ==
  [phase |-> "IDLE", gen |-> 0, issued |-> "NONE", token |-> 0, child |-> 0, stopping |-> FALSE,
   result |-> "NONE", cleanup |-> FALSE, window |-> 0, outcome |-> "NONE",
   armed |-> FALSE, disarmed |-> FALSE, restored |-> FALSE, uncertain |-> FALSE, taken |-> FALSE]
IdleAssoc == [phase |-> "IDLE", outcome |-> "NONE"]
NoEvent == [kind |-> "NONE", gen |-> 0, token |-> 0, serial |-> 0, ordered |-> TRUE,
            frame |-> "NONE", source |-> "NONE", covers |-> TRUE]
Quiet == [asked |-> FALSE, answered |-> FALSE, missed |-> FALSE, frame |-> NoEvent]

Init ==
  /\ join = IdleJoin /\ poll = IdlePoll /\ assoc = IdleAssoc /\ tx = IdleEngine
  /\ grants = <<>> /\ mail = NoEvent /\ past = Quiet
  /\ radio = [tuned |-> FALSE, armed |-> FALSE, closed |-> FALSE]
  /\ used = [frames |-> 0, late |-> 0]

(*** The engine, one step of it: what it makes of the radio's answers.        ***)
EngineSteps(t, cancel) ==
  LET to(phase, outcome, sent, pending) == Engine(phase, outcome, sent, pending)
      stop(outcome) == to("STOPPING", outcome, t.sent, t.pending)
  IN IF cancel THEN {stop("CANCELLED")} ELSE
     CASE t.phase = "DRAW" -> {to("RADIO", "NONE", t.sent, FALSE)}
       [] t.phase = "RADIO" ->
            {to("DRAW", "NONE", t.sent, FALSE), to("ACK_WAIT", "NONE", TRUE, FALSE),
             stop("CHANNEL_ACCESS"), stop("TIMING_UNCERTAIN")}
       [] t.phase = "ACK_WAIT" ->
            {to("DRAW", "NONE", TRUE, FALSE), stop("NO_ACK"), stop("TIMING_UNCERTAIN")}
            \cup {to("STOPPING", "ACKED", TRUE, pending) : pending \in BOOLEAN}
       [] t.phase = "STOPPING" -> {[t EXCEPT !.phase = "DONE"], [t EXCEPT !.phase = "FAULT"]}
       [] OTHER -> {t}

(*** The attempt's own moves; c bundles what a step works on.                 ***)
\* The local reason, of which the first is kept, is for the caller alone.
Abort(j) == [j EXCEPT !.result = IF @ = "NONE" THEN "LOCAL_ABORT" ELSE @, !.stopping = TRUE]
Fault(j) ==
  [Abort([j EXCEPT !.cleanup = @ \/ j.stopping \/ j.phase = "RESTORE"])
     EXCEPT !.uncertain = TRUE, !.phase = "FAULT"]
Issue(c, kind, cancel) ==
  [c EXCEPT !.j.issued = kind, !.j.token = Next1(@),
            !.g = Append(@, [kind |-> kind, token |-> Next1(c.j.token), cancel |-> cancel])]
Failed(c) == [c EXCEPT !.j = Fault(@), !.halt = TRUE]
Halted(c) == [c EXCEPT !.halt = TRUE]

\* Fault: the event's attempt is not looked at.
Kind_AnyAttempt(j, e) ==
  IF e.kind = "NONE" \/ (e.kind \in {"PREPARED", "TX", "CLOSED", "RESTORED"}
                         /\ ~(j.issued # "NONE" /\ e.token = j.token))
  THEN "NONE" ELSE e.kind

\* An event counts for its own attempt, a completion only for the last grant.
Kind(j, e) ==
  IF e.gen # j.gen \/ (e.kind \in {"PREPARED", "TX", "CLOSED", "RESTORED"}
                       /\ ~(j.issued # "NONE" /\ e.token = j.token))
  THEN "NONE" ELSE e.kind
Matched(j, e, kind) == kind # "NONE" /\ j.issued # "NONE" /\ e.token = j.token

Spend(c, kind, spent) ==
  LET j == IF kind \in {"CANCEL", "FAILURE"} \/ (spent /\ ~c.j.stopping) THEN Abort(c.j) ELSE c.j
  IN IF c.j.stopping /\ spent THEN Failed([c EXCEPT !.j = j]) ELSE [c EXCEPT !.j = j]

InPrepare(c, kind, matched, admitted) ==
  CASE c.halt \/ c.j.phase # "PREPARE" -> c
    [] ~c.halt /\ c.j.phase = "PREPARE" /\ c.j.stopping -> [c EXCEPT !.j.phase = "RESTORE"]
    [] ~c.halt /\ c.j.phase = "PREPARE" /\ ~c.j.stopping /\ matched /\ kind = "PREPARED" ->
         IF ~admitted
         THEN [c EXCEPT !.j = [Abort(@) EXCEPT !.phase = "RESTORE", !.issued = "NONE"]]
         ELSE Halted(Issue([c EXCEPT !.j.phase = "REQUEST", !.j.armed = FALSE, !.j.disarmed = FALSE,
                                     !.t = Engine("DRAW", "NONE", FALSE, FALSE)], "ARM", FALSE))
    [] OTHER -> IF c.j.issued = "NONE" THEN Issue(c, "PREPARE", FALSE) ELSE c

\* Every draw waits until the adapter is armed for it.
Arming(c, kind, matched) ==
  IF c.j.armed \/ c.j.stopping \/ c.t.phase = "DONE" THEN c
  ELSE IF kind = "ARMED" /\ matched /\ c.j.issued = "ARM"
       THEN [c EXCEPT !.j.armed = TRUE, !.j.issued = "NONE"]
       ELSE Halted(IF c.j.issued = "ARM" THEN c ELSE Issue(c, "ARM", FALSE))

\* The engine's own step, with t2 what it makes of it.
Stepping(c, t2) ==
  IF c.halt \/ Resting(c.t) THEN c
  ELSE LET d == [c EXCEPT !.t = t2,
                   !.j = IF t2.outcome = "TIMING_UNCERTAIN" THEN Abort(@) ELSE @]
       IN IF t2.phase = "DRAW" THEN Issue([d EXCEPT !.j.armed = FALSE], "ARM", FALSE) ELSE d

\* Fault: the request ends without taking the arming back.
Disarming_Skipped(c, kind, matched) == [c EXCEPT !.j.disarmed = TRUE, !.j.issued = "NONE"]
Disarming(c, kind, matched) ==
  CASE c.j.disarmed -> c
    [] ~c.j.disarmed /\ kind = "DISARMED" /\ matched /\ c.j.issued = "DISARM" ->
         [c EXCEPT !.j.disarmed = TRUE, !.j.issued = "NONE"]
    [] OTHER -> Halted(IF c.j.issued = "DISARM" THEN c ELSE Issue(c, "DISARM", FALSE))

Requested(c) ==
  LET d == [c EXCEPT !.t = IdleEngine] IN
  IF c.j.stopping \/ c.t.outcome # "ACKED"
  THEN [d EXCEPT !.j.result = IF @ = "NONE" THEN "REQUEST_RESULT" ELSE @, !.j.phase = "RESTORE"]
  ELSE [d EXCEPT !.j.phase = "WAIT"]

InRequest(c, kind, matched, t2) ==
  IF c.halt \/ c.j.phase # "REQUEST" THEN c
  ELSE LET d == Stepping(Arming(c, kind, matched), t2)
           e == Disarming(d, kind, matched)
       IN CASE d.halt -> d
            [] ~d.halt /\ d.t.phase = "FAULT" -> Failed(d)
            [] ~d.halt /\ d.t.phase = "DONE" -> IF e.halt THEN e ELSE Requested(e)
            [] OTHER -> d

\* The response time: past is whether it is over.
InWait(c, over) ==
  CASE c.halt \/ c.j.phase # "WAIT" -> c
    [] ~c.halt /\ c.j.phase = "WAIT" /\ c.j.stopping -> [c EXCEPT !.j.phase = "RESTORE"]
    [] ~c.halt /\ c.j.phase = "WAIT" /\ ~c.j.stopping /\ over ->
         [c EXCEPT !.p = PollStart, !.j.phase = "EXTRACT"]
    [] OTHER -> c

(*** The extraction.                                                          ***)

\* What the poll is told of the event.
Passed(c, kind, matched) ==
  CASE matched /\ kind = "TX" /\ c.j.issued = "TX" -> "TX"
    [] ~(matched /\ kind = "TX") /\ kind = "FAILURE" -> "FAILURE"
    [] ~(matched /\ kind = "TX") /\ kind # "FAILURE" /\ c.j.stopping
         /\ c.p.phase \in {"IDLE", "ARM", "REQUEST", "RECEIVE"} -> "CANCEL"
    [] matched /\ kind = "PREPARED" /\ c.j.issued = "RECEIVE"
         /\ ~(c.j.stopping /\ c.p.phase \in {"ARM", "REQUEST", "RECEIVE"}) -> "PREPARED"
    [] matched /\ kind = "CLOSED" /\ c.j.issued = "CLOSE"
         /\ ~(c.j.stopping /\ c.p.phase \in {"ARM", "REQUEST", "RECEIVE"}) -> "CLOSED"
    [] kind = "FRAME" /\ ~(c.j.stopping /\ c.p.phase \in {"ARM", "REQUEST", "RECEIVE"}) -> "FRAME"
    [] OTHER -> "NONE"

\* mac_association_start, and what mac_association_take leaves.
OpenedAssoc == [phase |-> "WAIT", outcome |-> "NONE"]
TakenAssoc(a) == [a EXCEPT !.phase = "IDLE"]

\* The association opens with the parent's promise of data, or with a
\* response that came without it.
Window(c) ==
  IF /\ c.j.window = 0
     /\ \/ c.p.ackSeen /\ c.t.pending
        \/ ~c.p.ackSeen /\ c.p.ready /\ ~c.p.taken /\ c.p.record.cause = "COMMAND"
  THEN [c EXCEPT !.j.window = 1, !.a = OpenedAssoc] ELSE c

FinishWindow(c) ==
  IF c.j.window # 1 THEN c
  ELSE [c EXCEPT !.j.window = 2, !.a = TakenAssoc(@),
                 !.j.outcome = IF c.a.phase = "WAIT" THEN "CANCELLED" ELSE c.a.outcome]

\* mac_association_step_rx on the command that the poll delivered.
Associate(a, body, expired) ==
  CASE expired -> [phase |-> "DONE", outcome |-> "EXPIRED"]
    [] ~expired /\ body = "RESPONSE" -> [phase |-> "DONE", outcome |-> "RESPONSE"]
    [] OTHER -> a

Receipt(c, expired) ==
  IF ~c.p.ready \/ c.p.taken THEN c
  ELSE LET d == [c EXCEPT !.p = PollTake(@), !.j.result = IF @ = "NONE" THEN "POLL_RESULT" ELSE @]
           e == [d EXCEPT !.a = Associate(@, c.p.record.body, expired)]
       IN CASE ~(c.j.window = 1 /\ c.p.record.cause = "COMMAND") -> d
            [] c.j.window = 1 /\ c.p.record.cause = "COMMAND" /\ e.a.phase = "DONE" -> FinishWindow(e)
            [] OTHER -> e

GrantOf(kind) == CASE kind = "TX" -> "TX" [] kind = "PREPARE" -> "RECEIVE" [] OTHER -> "CLOSE"

\* What becomes of the step r of the poll, once its receipt is taken.
Extracted(f, r) ==
  CASE f.p.phase = "FAULT" -> Failed(f)
    [] f.p.phase = "DONE" ->
         [FinishWindow(f) EXCEPT !.p = PollRelease(@), !.t = IdleEngine, !.j.issued = "NONE",
                                 !.j.phase = "RESTORE"]
    [] f.p.phase \notin {"FAULT", "DONE"} /\ r.action.kind # "NONE" ->
         [Issue(f, GrantOf(r.action.kind), r.action.cancel) EXCEPT !.j.child = r.poll.token]
    [] OTHER -> f
Polling(c, k, r, expired) ==
  LET j == [c.j EXCEPT !.issued = IF k \in {"TX", "PREPARED", "CLOSED"} THEN "NONE" ELSE @]
      d == [c EXCEPT !.p = r.poll, !.t = r.tx,
              !.j = IF r.poll.reason = "TIMING_UNCERTAIN" THEN Abort(j) ELSE j]
  IN Extracted(Receipt(Window(d), expired), r)

InExtract(c, kind, matched, e, spent, expired, admitted) ==
  IF c.halt \/ c.j.phase # "EXTRACT" THEN c
  ELSE LET k == Passed(c, kind, matched)
           event == [PollEvent EXCEPT !.kind = k, !.token = c.j.child,
                       !.serial = e.serial, !.ordered = e.ordered, !.frame = e.frame,
                       !.source = e.source, !.covers = e.covers, !.admitted = admitted]
       IN Polling(c, k, PollStep(c.p, c.t, event, spent), expired)

InRestore(c, kind, matched, rested) ==
  LET stuck == kind = "FAILURE" \/ c.t.phase # "IDLE" \/ c.p.phase # "IDLE"
      ended == matched /\ kind = "RESTORED" /\ c.j.issued = "RESTORE"
      d == [c EXCEPT !.j.stopping = TRUE]
  IN IF c.halt \/ c.j.phase # "RESTORE" THEN c
     ELSE IF stuck \/ (ended /\ ~rested) THEN Failed(c)
     ELSE IF ended
     THEN [d EXCEPT !.j.issued = "NONE", !.j.restored = TRUE, !.j.uncertain = FALSE, !.j.phase = "DONE"]
     ELSE IF c.j.issued = "RESTORE" THEN d ELSE Issue(d, "RESTORE", FALSE)

(*** The operations.                                                          ***)

\* mac_join_init and mac_join_start; a later attempt keeps the generation.
Start ==
  /\ join.phase = "IDLE" /\ poll.phase = "IDLE" /\ assoc.phase = "IDLE" /\ tx.phase = "IDLE"
  /\ join.gen < MaxAttempts
  /\ join' = [IdleJoin EXCEPT !.phase = "PREPARE", !.gen = join.gen + 1]
  /\ past' = [Quiet EXCEPT !.frame = past.frame]
  /\ radio' = [radio EXCEPT !.closed = FALSE]
  /\ UNCHANGED <<poll, assoc, tx, grants, mail, used>>

\* A condition that time decides, where it makes a difference.
If(relevant) == IF relevant THEN BOOLEAN ELSE {FALSE}
Active == join.phase \notin {"IDLE", "DONE", "FAULT"}
\* The control blocks after a step.
Become(c) == join' = c.j /\ poll' = c.p /\ assoc' = c.a /\ tx' = c.t /\ grants' = c.g
\* The request is through.
Reached(c) == c.j.phase \in {"WAIT", "EXTRACT"}
\* mac_join_step with event e; what time decides is in the booleans.
Step(e, spent, over, admitted) ==
  LET kind == Kind(join, e)
      matched == Matched(join, e, kind)
      bundle == [j |-> join, p |-> poll, a |-> assoc, t |-> tx, g |-> grants, halt |-> FALSE]
      c == Spend(bundle, kind, spent)
      cancel == c.j.stopping /\ tx.phase # "STOPPING"
  IN \E t2 \in EngineSteps(tx, cancel) :
       LET w == InWait(InRequest(InPrepare(c, kind, matched, admitted), kind, matched, t2), over)
           fresh == w.j.phase = "EXTRACT" /\ join.phase # "EXTRACT"
           k == IF fresh THEN "NONE" ELSE kind
           m == matched /\ ~fresh
           r == InRestore(InExtract(w, k, m, e, spent /\ ~c.j.stopping, over, admitted), k, m, admitted)
       IN Become(r) /\ past' = [past EXCEPT !.asked = @ \/ Reached(w)] /\ UNCHANGED <<radio, used>>

StepWithMail ==
  /\ Active /\ mail.kind # "NONE" /\ mail' = NoEvent
  /\ \E spent \in BOOLEAN, over \in If(mail.kind \in {"DISARMED", "FRAME"}),
        admitted \in {TRUE} \cup If(mail.kind \in {"PREPARED", "RESTORED"}) :
       Step(mail, spent, over, admitted)
StepAlone ==
  /\ Active /\ UNCHANGED mail
  /\ \E kind \in {"NONE", "CANCEL", "FAILURE"} :
       \E spent \in If(kind = "NONE"), over \in If(join.phase = "WAIT") :
         Step([NoEvent EXCEPT !.kind = kind, !.gen = join.gen], spent, over, TRUE)

Take ==
  /\ join.phase \in {"DONE", "FAULT"} /\ ~join.taken /\ join' = [join EXCEPT !.taken = TRUE]
  /\ UNCHANGED <<poll, assoc, tx, grants, mail, radio, past, used>>
Release ==
  /\ join.phase = "DONE" /\ join.taken /\ join.restored /\ join.issued = "NONE" /\ ~join.uncertain
  /\ tx.phase = "IDLE" /\ join' = [join EXCEPT !.phase = "IDLE"]
  /\ UNCHANGED <<poll, assoc, tx, grants, mail, radio, past, used>>

(*** The adapter, the air and the clock.                                      ***)

ReportOf(kind) ==
  CASE kind \in {"PREPARE", "RECEIVE"} -> "PREPARED" [] kind = "ARM" -> "ARMED"
    [] kind = "DISARM" -> "DISARMED" [] kind = "CLOSE" -> "CLOSED" [] kind = "RESTORE" -> "RESTORED"
    [] OTHER -> "TX"
\* The oldest grant is carried out and reported.
Adapter ==
  /\ grants # <<>> /\ mail.kind = "NONE" /\ join.phase # "FAULT" /\ grants' = Tail(grants)
  /\ LET g == Head(grants)
         report == [NoEvent EXCEPT !.kind = ReportOf(g.kind), !.gen = join.gen, !.token = g.token]
     IN /\ radio' = CASE g.kind = "PREPARE" -> [radio EXCEPT !.tuned = TRUE]
                      [] g.kind = "ARM" -> [radio EXCEPT !.armed = TRUE]
                      [] g.kind = "DISARM" -> [radio EXCEPT !.armed = FALSE]
                      [] g.kind = "CLOSE" -> [radio EXCEPT !.closed = TRUE]
                      [] g.kind = "RESTORE" -> [radio EXCEPT !.tuned = FALSE]
                      [] OTHER -> radio
        /\ CASE g.kind = "TX" ->
                  /\ tx' \in EngineSteps(tx, g.cancel)
                  /\ mail' = [report EXCEPT !.source =
                                IF tx.phase = "ACK_WAIT" /\ tx'.outcome = "ACKED" THEN "ACK" ELSE @]
             [] g.kind = "CLOSE" ->
                  \E covers \in BOOLEAN : mail' = [report EXCEPT !.covers = covers] /\ tx' = tx
             [] OTHER -> mail' = report /\ tx' = tx
  /\ UNCHANGED <<join, poll, assoc, past, used>>

\* A frame while the radio listens on the parent's channel; before the
\* extraction none is looked at.
Air ==
  /\ join.phase = "EXTRACT" /\ radio.tuned /\ ~radio.closed /\ mail.kind = "NONE" /\ used.frames < MaxFrames
  /\ \E body \in Bodies, ordered \in BOOLEAN :
       /\ mail' = [NoEvent EXCEPT !.kind = "FRAME", !.gen = join.gen, !.frame = body,
                                  !.ordered = ordered, !.serial = used.frames + 1]
       /\ past' = [past EXCEPT !.frame = mail', !.answered = @ \/ body = "RESPONSE",
                    !.missed = @ \/ (poll.phase \in {"RECEIVE", "DRAIN"} /\ poll.ackSeen
                                     /\ body \notin {"FOREIGN", "UNSUPPORTED"})]
  /\ used' = [used EXCEPT !.frames = @ + 1]
  /\ UNCHANGED <<join, poll, assoc, tx, grants, radio>>

\* A copy of the last frame, perhaps in another attempt.
Late ==
  /\ past.frame.kind = "FRAME" /\ mail.kind = "NONE" /\ used.late < MaxLate
  /\ join.phase = "EXTRACT"
  /\ mail' = past.frame /\ used' = [used EXCEPT !.late = @ + 1]
  /\ UNCHANGED <<join, poll, assoc, tx, grants, radio, past>>

WindowEnds ==
  /\ join.phase = "EXTRACT" /\ poll.window = "open" /\ poll' = [poll EXCEPT !.window = "over"]
  /\ UNCHANGED <<join, assoc, tx, grants, mail, radio, past, used>>

Next == Start \/ StepWithMail \/ StepAlone \/ Take \/ Release \/ Adapter \/ Air \/ Late \/ WindowEnds
Spec == Init /\ [][Next]_vars

(* An attempt that is over has given everything back: the engine and the poll  *)
(* are idle, the radio is restored and disarmed and no action is outstanding,  *)
(* wherever it was cancelled or ran out of time (mac_join.c:711-738).          *)
JoinIsClean ==
  join.phase = "DONE" =>
    /\ tx.phase = "IDLE" /\ poll.phase = "IDLE" /\ assoc.phase = "IDLE"
    /\ ~radio.tuned /\ ~radio.armed /\ grants = <<>>

(* An association response is reported only if this attempt's request was      *)
(* acknowledged and a response was received while it lasted, not for a late    *)
(* copy of an earlier attempt's (mac_join.c:483-497, 240-270).                 *)
AnswerIsOwn ==
  join.outcome = "RESPONSE" => past.asked /\ past.answered

(* A poll that reports a time-out closed its window without any frame from the *)
(* parent after the acknowledgment: what was acknowledged to the parent is     *)
(* never dropped as late (mac_poll.c:503-599).                                 *)
SilenceIsTrue ==
  poll.record.cause = "TIMEOUT" => ~past.missed
=============================================================================
