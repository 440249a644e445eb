-------------------------------- MODULE BdbJoin --------------------------------
(* bdb_join.c and bdb_join_init.c: a device finds a parent, associates, installs *)
(* the address it got, obtains its keys and announces itself (bdb_join_start),   *)
(* or resumes a stored membership with a secured rejoin (bdb_join_resume).  The  *)
(* scan and the association are MacScan and MacJoin, of which only the outcome   *)
(* counts here; frames, the transport's progress, the radio's installation, the  *)
(* application and the passing of the deadlines come in any order.               *)
EXTENDS ZdoRuntime, FiniteSets

CONSTANTS
  ATTEMPTS,     \* BDB_JOIN_ATTEMPTS
  KEEPALIVES,   \* BDB_JOIN_KEEPALIVE_ATTEMPTS
  STALL_STEPS,  \* BDB_JOIN_STALL_STEPS
  Scenarios,    \* how the device starts, "FRESH" or "RESUMED", whether it is sleepy
                \* (capability without RX-on-when-idle: it polls), and the frames
                \* that the network sends it, besides the keys
  Acked,        \* the kinds of frame that may ask for an acknowledgement
  Sends,        \* the application sends reports
  Wraps,        \* the APS counters may wrap
  MaxUpdates    \* bound: new network identities in a behaviour

ASSUME BdbConstants ==
  /\ ATTEMPTS \in Nat \ {0} /\ KEEPALIVES \in Nat \ {0} /\ STALL_STEPS \in Nat \ {0}
  /\ \A s \in Scenarios : s.start \in {"FRESH", "RESUMED"} /\ s.sleepy \in BOOLEAN
  /\ MaxUpdates \in Nat
  /\ Acked \cap {"LEAVE", "UPDATE", "REJOINED", "REFUSED", "PARENT_RSP"} = {}   \* NWK commands
  /\ Sends \in BOOLEAN /\ Wraps \in BOOLEAN

VARIABLES
  b,        \* bdb_join_t without its workspaces
  z,        \* its zdo_runtime_t
  t,        \* its nwk_aps_t
  k,        \* the key owner: phase, the identity it stores, a known router
  due,      \* the deadlines that have passed
  radio,    \* the identity the radio filters for, and what was asked of it
  clock,    \* whether the clock runs
  h         \* the scenario, and history: once a member, which keys came in time

vars == <<b, z, t, k, due, radio, clock, h>>

Deadlines == {"until", "commission", "keepalive", "grace", "query"}

\* Phases in the order of bdb_join_phase_t as far as the code compares them.
BeforeReady == {"INSTALLING", "WAIT_KEY", "ANNOUNCING", "NODE", "REQUESTING", "WAIT_TC",
                "VERIFYING", "WAIT_CONFIRM", "PARENT", "PERMIT"}
Commissioning == (BeforeReady \ {"INSTALLING"}) \cup {"RECOVERING"}
Receiving == Commissioning \cup {"READY"}
Live == BeforeReady \cup {"READY", "UPDATING", "RECOVERING"}
Running == (Live \ {"INSTALLING"}) \cup {"ABORTING", "LEAVING"}
Over == {"FAILED", "FAULT"}

IdleBdb ==
  [phase |-> "IDLE", result |-> "OK", attempts |-> 0, token |-> 0, issued |-> 0, steps |-> 0,
   member |-> FALSE, abandon |-> FALSE, recovery |-> 0, search |-> 0, timely |-> FALSE,
   tc |-> FALSE, confirm |-> FALSE, app |-> "NO"]

Bundle == [b |-> b, z |-> z, t |-> t, k |-> k, due |-> due, rc |-> "OK"]
Unbundle(c) == b' = c.b /\ z' = c.z /\ t' = c.t /\ k' = c.k /\ due' = c.due
Set(c, d) == [c EXCEPT !.due = @ \ d]

(*** Ends.                                                                    ***)

\* Whether a failure makes the device leave the network.
Abandons(x, result) ==
  \/ result \in {"ADDRESS_CONFLICT", "LOCAL_LEAVE"}
  \/ result # "WORK_LIMIT" /\ x.phase \in BeforeReady /\ x.recovery = 0
     /\ ~(x.phase = "INSTALLING" /\ x.member)

Fail(c, result) ==
  [c EXCEPT !.b.abandon = Abandons(c.b, result), !.b.result = result, !.b.member = FALSE,
            !.b.phase = "ABORTING", !.t = Stop(@)]

Install(c) ==
  Set([c EXCEPT !.b.token = 1 - @, !.b.issued = 0, !.b.phase = "INSTALLING"], {"until"})

To(c, phase) == [c EXCEPT !.b.phase = phase]
Fresh(c, phase) == [c EXCEPT !.b.phase = phase, !.b.issued = 0, !.b.attempts = 0]
Finished(c) == c.t.done # "NO"
Fetched(c) == [c EXCEPT !.t.done = "NO"]

Retryable(c, result) == result \in {"TIMEOUT", "TRANSMIT"} /\ c.b.attempts # ATTEMPTS
PollKeepalive(c) == c.z.info = "POLL" /\ h.sleepy
Kept(c) == c.z.info \in {"KEEPALIVE", "BOTH"} \/ PollKeepalive(c)

(*** runtime(), branch by branch.                                             ***)

\* The trust centre's events; an update is taken over only by a member.
\* The branches below are not reached where this ends the step.
Ended(c) == [c EXCEPT !.rc = "ENDED"]
ZdoFailed(c) ==
  CASE c.rc = "CONFLICT" -> Ended(Fail(c, "ADDRESS_CONFLICT"))
    [] c.rc = "LEAVE" -> Ended(Fail(c, "LOCAL_LEAVE"))
    [] c.rc = "TRANSMIT" -> Ended(Fail(c, "TRANSMIT_FAILED"))
    [] OTHER -> c

SecurityEvent(c) ==
  CASE c.rc = "ENDED" -> c
    [] c.rc # "ENDED" /\ c.z.event = "LEAVE" -> Fail(c, "REMOTE_LEAVE")
    [] c.rc # "ENDED" /\ c.z.event = "UPDATE" ->
         IF c.b.phase # "READY" THEN Ended(Fail(c, "RECOVERY_REQUIRED"))
         ELSE LET d == ZdoCancel(To(c, "UPDATING")) IN [d EXCEPT !.t = Stop(@)]
    [] c.rc # "ENDED" /\ c.z.event \in {"TC_KEY", "VERIFIED"} ->
         IF ~c.b.timely THEN Ended(Fail(c, "TC_FAILED"))
         ELSE [c EXCEPT !.b.tc = @ \/ c.z.event = "TC_KEY", !.b.confirm = @ \/ c.z.event = "VERIFIED"]
    [] OTHER -> c

Application(c) ==
  IF c.rc # "ENDED" /\ c.b.app = "PENDING" /\ Finished(c)
  THEN Fetched([c EXCEPT !.b.app = "DONE"]) ELSE c

InWaitKey(c, wrap) ==
  CASE c.z.event # "NETWORK_KEY" -> c
    [] c.z.event = "NETWORK_KEY" /\ ~c.b.timely -> Ended(Fail(c, "KEY_TIMEOUT"))
    [] OTHER -> LET d == Broadcast([c EXCEPT !.b.member = TRUE], "ANNOUNCE", wrap)
                IN IF d.rc = "OK" THEN To(d, "ANNOUNCING") ELSE Fail(d, "TRANSMIT_FAILED")

InAnnouncing(c) ==
  CASE ~Finished(c) -> c
    [] c.t.done \notin {"NO", "OK"} -> Fail(Fetched(c), "TRANSMIT_FAILED")
    [] OTHER -> [Fetched(c) EXCEPT !.b.phase = IF c.b.recovery # 0 THEN "PARENT" ELSE "NODE",
                                   !.b.attempts = 0]

\* The query of a phase is sent again until the transport takes it.
Ask(c, which, result, wrap) ==
  LET d == Request(c, which, wrap) IN
  CASE c.z.query # "NO" -> c
    [] c.z.query = "NO" /\ d.rc = "OK" -> [d EXCEPT !.b.attempts = @ + 1]
    [] c.z.query = "NO" /\ d.rc = "FULL" -> [c EXCEPT !.rc = "OK"]
    [] OTHER -> Fail(d, result)

InNode(c, wrap) ==
  LET d == CASE ~Takeable(c.z) -> c
             [] Takeable(c.z) /\ c.z.result = "OK" /\ c.z.tc = "COORDINATOR" -> Fresh(Taken(c), "REQUESTING")
             [] OTHER -> IF Retryable(c, c.z.result) THEN Taken(c) ELSE Fail(Taken(c), "TC_FAILED")
  IN IF d.b.phase = "NODE" THEN Ask(d, "NODE", "TC_FAILED", wrap) ELSE d

\* Request Key and Verify Key.
InExchange(c) ==
  LET requesting == c.b.phase = "REQUESTING"
      d == Queued(c, IF requesting THEN "KEY" ELSE "VERIFY", FALSE)
  IN CASE c.b.issued = 0 ->
            IF d.rc = "OK" THEN Set([d EXCEPT !.b.issued = 1, !.b.attempts = @ + 1], {"until"})
            ELSE [c EXCEPT !.rc = "OK"]
       [] c.b.issued # 0 /\ Finished(c) ->
            CASE c.t.done = "OK" -> To(Fetched(c), IF requesting THEN "WAIT_TC" ELSE "WAIT_CONFIRM")
              [] c.t.done # "OK" /\ c.b.attempts = ATTEMPTS -> Fail(Fetched(c), "TRANSMIT_FAILED")
              [] OTHER -> [Fetched(c) EXCEPT !.b.issued = 0]
       [] OTHER -> c

\* The parent's answer ends a rejoin; a fresh join is opened with the permit.
ParentKept(c, wrap) ==
  IF c.b.recovery # 0
  THEN IF ~c.t.announced THEN Fail(c, "TRANSMIT_FAILED")
       ELSE Set([Fresh(c, "READY") EXCEPT !.b.issued = c.b.issued, !.b.recovery = 3, !.t.ready = TRUE],
                {"keepalive", "grace"})
  ELSE LET d == Broadcast(c, "PERMIT", wrap)
       IN IF d.rc = "OK" THEN To(d, "PERMIT") ELSE Fail(d, "TRANSMIT_FAILED")

InParent(c, wrap) ==
  LET d == CASE ~Takeable(c.z) -> c
             [] Takeable(c.z) /\ c.z.result = "OK" /\ Kept(c) -> ParentKept(Taken(c), wrap)
             [] OTHER -> IF Retryable(c, c.z.result) THEN Taken(c) ELSE Fail(Taken(c), "PARENT_FAILED")
  IN IF d.b.phase = "PARENT" THEN Ask(d, "PARENT", "PARENT_FAILED", wrap) ELSE d

InPermit(c) ==
  CASE ~Finished(c) -> c
    [] Finished(c) /\ (c.t.done # "OK" \/ ~c.t.ready) -> Fail(Fetched(c), "TRANSMIT_FAILED")
    [] OTHER -> Set([Fetched(c) EXCEPT !.b.phase = "READY", !.b.attempts = 0], {"keepalive", "grace"})

Rested(c) == Drained(c.t) /\ ~c.t.poll /\ c.t.done = "NO"

\* Fault: a rejoined device goes on under the address it had.
Rejoined_KeepsAddress(c) ==
  LET d == Broadcast([c EXCEPT !.b.member = TRUE], "ANNOUNCE", FALSE)
  IN IF d.rc = "OK" THEN To(d, "ANNOUNCING") ELSE c
\* A rejoined device installs its address once nothing is in the air.
Rejoined(c) == IF Rested(c) THEN Install([c EXCEPT !.b.member = TRUE]) ELSE c

InRecovering(c) ==
  LET d == IF c.z.event = "REJOINED" THEN [c EXCEPT !.b.recovery = 2] ELSE c
      e == CASE ~(d.b.issued = 1 /\ Finished(d)) -> d
             [] d.b.issued = 1 /\ d.t.done = "OK" -> Set([Fetched(d) EXCEPT !.b.issued = 2], {"until"})
             [] OTHER -> [Fetched(d) EXCEPT !.b.issued = 0]
      q == Queued(e, "REJOIN", FALSE)
  IN CASE c.z.event = "REFUSED" -> Ended(Fail(c, "REJOIN_REFUSED"))
       [] c.z.event # "REFUSED" /\ e.b.issued = 1 -> e
       [] c.z.event # "REFUSED" /\ e.b.issued # 1 /\ e.b.recovery = 2 /\ e.k.phase = "VERIFIED" -> Rejoined(e)
       [] c.z.event # "REFUSED" /\ e.b.issued # 1 /\ ~(e.b.recovery = 2 /\ e.k.phase = "VERIFIED")
            /\ (e.b.issued = 0 \/ "until" \in e.due) ->
            CASE e.b.attempts = ATTEMPTS -> Fail(e, "NO_PARENT")
              [] e.b.attempts # ATTEMPTS /\ q.rc = "OK" ->
                   [q EXCEPT !.b.issued = 1, !.b.attempts = @ + 1]
              [] OTHER -> e
       [] OTHER -> e

\* The keepalive of a ready device.
InReady(c, wrap) ==
  LET result == c.z.result
      d == CASE ~Takeable(c.z) -> c
             [] Takeable(c.z) /\ (\/ c.z.query # "PARENT"
                                  \/ result = "OK" /\ ~Kept(c)
                                  \/ result \notin {"OK", "TIMEOUT", "TRANSMIT"}
                                  \/ result # "OK" /\ c.b.attempts = KEEPALIVES) ->
                  Fail(Taken(c), "PARENT_FAILED")
             [] OTHER -> Set([Taken(c) EXCEPT !.b.attempts = IF result = "OK" THEN 0 ELSE @],
                             {"keepalive", "grace"})
      q == Request(d, "PARENT", wrap)
  IN CASE ~(d.b.phase = "READY" /\ ~PollKeepalive(d) /\ "keepalive" \in d.due /\ d.z.query = "NO") -> d
       [] OTHER ->
            CASE q.rc = "OK" -> [q EXCEPT !.b.attempts = @ + 1]
              [] q.rc = "FULL" /\ "grace" \notin d.due -> [d EXCEPT !.rc = "OK"]
              [] OTHER -> Fail(d, "PARENT_FAILED")

Branch(c, wrap) ==
  CASE c.rc = "ENDED" -> c
    [] c.rc # "ENDED" /\ c.b.phase = "WAIT_KEY" -> InWaitKey(c, wrap)
    [] c.rc # "ENDED" /\ c.b.phase = "ANNOUNCING" -> InAnnouncing(c)
    [] c.rc # "ENDED" /\ c.b.phase = "NODE" -> InNode(c, wrap)
    [] c.rc # "ENDED" /\ c.b.phase \in {"REQUESTING", "VERIFYING"} -> InExchange(c)
    [] c.rc # "ENDED" /\ c.b.phase = "WAIT_TC" /\ c.b.tc -> Fresh(c, "VERIFYING")
    [] c.rc # "ENDED" /\ c.b.phase = "WAIT_CONFIRM" /\ c.b.confirm ->
         [c EXCEPT !.b.phase = "PARENT", !.b.attempts = 0]
    [] c.rc # "ENDED" /\ c.b.phase = "PARENT" -> InParent(c, wrap)
    [] c.rc # "ENDED" /\ c.b.phase = "PERMIT" -> InPermit(c)
    [] c.rc # "ENDED" /\ c.b.phase = "RECOVERING" -> InRecovering(c)
    [] c.rc # "ENDED" /\ c.b.phase = "READY" -> InReady(c, wrap)
    [] OTHER -> c

\* The key deadlines, last.
KeyDeadlines(c) ==
  IF c.rc = "ENDED" \/ "until" \notin c.due THEN c
  ELSE CASE c.b.phase = "WAIT_KEY" -> Fail(c, "KEY_TIMEOUT")
         [] \/ c.b.phase = "REQUESTING" /\ ~c.b.tc /\ c.b.issued # 0
            \/ c.b.phase = "VERIFYING" /\ ~c.b.confirm /\ c.b.issued # 0 -> Fail(c, "TC_FAILED")
         [] c.b.phase \in {"WAIT_TC", "WAIT_CONFIRM"} ->
              IF c.b.attempts = ATTEMPTS THEN Fail(c, "TC_FAILED")
              ELSE [c EXCEPT !.b.phase = IF @ = "WAIT_TC" THEN "REQUESTING" ELSE "VERIFYING", !.b.issued = 0]
         [] OTHER -> c

Runtime(c, wrap) ==
  [KeyDeadlines(Branch(Application(SecurityEvent(ZdoFailed(ZdoStep(c, wrap)))), wrap)) EXCEPT !.rc = "OK"]

(*** bdb_join_step in the phases that run the transport.                      ***)

\* Fault: the per-symbol limit is not looked at.
Stalled_Never(c) == c
\* While the clock runs it moves on between two steps, and nothing adds up.
Counted(c) == [c EXCEPT !.b.steps = IF clock = "STOPPED" /\ @ # STALL_STEPS THEN @ + 1 ELSE @]
Stalled(c) ==
  CASE c.b.phase \notin Live -> c
    [] c.b.phase \in Live /\ c.b.steps = STALL_STEPS -> Fail(c, "WORK_LIMIT")
    [] OTHER -> Counted(c)

Expired(c) ==
  IF c.b.phase \in Commissioning /\ "commission" \in c.due
  THEN Fail(c, IF c.b.recovery # 0 THEN "NO_PARENT" ELSE "KEY_TIMEOUT") ELSE c

\* poll(): a polling child asks its parent now and then.
Polled(c, asks) ==
  IF asks /\ h.sleepy /\ c.b.phase \in Receiving /\ c.t.air # "POLL" /\ ~c.t.stopping
  THEN [c EXCEPT !.t.poll = TRUE] ELSE c

\* An update is installed when the transport has come to rest.
Updated(c) ==
  LET d == IF c.b.phase = "UPDATING" /\ Takeable(c.z) THEN Taken(c) ELSE c
  IN IF d.b.phase = "UPDATING" /\ Drained(d.t) /\ d.t.done = "NO" THEN Install(d) ELSE d

\* An aborted join hands over the application's result, may look for another
\* parent, and leaves the network or not.
Aborted(c) ==
  LET d == IF Finished(c) THEN Fetched([c EXCEPT !.b.app = IF @ = "PENDING" THEN "DONE" ELSE @]) ELSE c
      q == Queued(d, "LEAVE", FALSE)
  IN CASE c.b.phase = "LEAVING" /\ Finished(c) -> To(Fetched(c), "FAILED")
       [] c.b.phase = "ABORTING" /\ Drained(c.t) ->
            CASE d.b.recovery # 0 /\ d.b.search = 0 /\ d.b.result \in {"NO_PARENT", "REJOIN_REFUSED"}
                   /\ "commission" \notin d.due /\ d.k.router ->
                   Install([d EXCEPT !.b.search = 1, !.b.result = "OK", !.t.ready = FALSE])
              [] ~d.b.abandon \/ d.k.phase \in {"LEFT", "BROKEN"} -> To(d, "FAILED")
              [] OTHER -> IF q.rc = "OK" THEN To(q, "LEAVING") ELSE To(d, "FAILED")
       [] OTHER -> c

\* What follows the transport's own step.
Transported(c, handled, wrap) ==
  LET d == IF c.rc = "ERROR" /\ c.b.phase \in Live THEN Fail(c, "TRANSMIT_FAILED") ELSE c
      e == IF d.b.phase \in Live /\ ~handled THEN Runtime(d, wrap) ELSE d
  IN CASE c.rc = "FAULT" -> [c EXCEPT !.b.phase = "FAULT", !.b.result = "TRANSMIT_FAILED", !.b.member = FALSE]
       [] c.rc = "ERROR" /\ c.b.phase = "LEAVING" -> To(c, "FAILED")
       [] OTHER -> Aborted(Updated(e))

Stepped(how, wrap, asks) ==
  LET c == Polled(Expired(Stalled(Bundle)), asks)
      handled == c.b.phase \in Live /\ c.t.rx.kind # "NONE"
      d == IF handled THEN Runtime(c, wrap) ELSE c
  IN [Transported(TransportStep(d, how), handled, wrap) EXCEPT !.rc = "OK"]

Step(how, wrap, asks) ==
  /\ b.phase \in Running
  /\ Unbundle(Stepped(how, wrap, asks))
  /\ h' = [h EXCEPT !.was = @ \/ b'.phase = "READY"]
  /\ UNCHANGED <<radio, clock>>

(*** bdb_join_step while the identity is installed.                           ***)

\* The identity that was installed is stored, and the join goes on from there.
Installed(c, saved) ==
  LET pending == ~c.b.member /\ c.k.phase = "PROVISIONED"
      d == IF pending THEN [c EXCEPT !.k.phase = "ASSOCIATED"] ELSE c
      announcing == Broadcast(d, "ANNOUNCE", FALSE)
  IN CASE pending /\ ~saved -> Fail([c EXCEPT !.k.phase = "BROKEN"], "SECURITY")
       [] ~(pending /\ ~saved) /\ c.b.recovery = 1 ->
            CASE c.k.phase \notin {"VERIFIED", "REJOINING"} -> Fail(c, "SECURITY")
              [] c.k.phase \in {"VERIFIED", "REJOINING"} /\ c.b.search = 1 ->
                   IF "commission" \in c.due THEN [c EXCEPT !.b.phase = "FAILED", !.b.result = "NO_PARENT"]
                   ELSE To(c, "SCANNING")
              [] OTHER -> Fresh(c, "RECOVERING")
       [] ~(pending /\ ~saved) /\ c.b.recovery = 2 ->
            IF c.k.phase # "VERIFIED" \/ ~c.b.member \/ announcing.rc # "OK" THEN Fail(c, "SECURITY")
            ELSE To(announcing, "ANNOUNCING")
       [] ~(pending /\ ~saved) /\ c.b.recovery \in {0, 3} /\ c.b.member ->
            IF c.k.phase # "VERIFIED" \/ ~c.t.announced \/ (~c.t.permit /\ c.b.recovery # 3)
            THEN Fail(c, "SECURITY")
            ELSE Set([c EXCEPT !.b.phase = "READY", !.b.attempts = 0, !.t.ready = TRUE], {"keepalive", "grace"})
       [] OTHER -> Set(To(d, "WAIT_KEY"), {"until"})

InstallStep(saved) ==
  /\ b.phase = "INSTALLING"
  /\ LET c == Counted(Bundle)
         matches == /\ radio.report = b.token /\ b.issued = 1 /\ "until" \notin due
                    /\ radio.id = k.id
     IN \/ /\ b.steps = STALL_STEPS
           /\ Unbundle(IF b.issued = 1
                       THEN [c EXCEPT !.b.phase = "FAULT", !.b.result = "WORK_LIMIT",
                                      !.b.member = FALSE, !.t.ready = FALSE]
                       ELSE Aborted(TransportStep(Fail(c, "WORK_LIMIT"), "STAY")))
           /\ UNCHANGED radio
        \/ /\ b.steps # STALL_STEPS /\ matches
           /\ Unbundle(Installed(c, saved))
           /\ radio' = [radio EXCEPT !.report = 2]
        \/ /\ b.steps # STALL_STEPS /\ ~matches
           /\ Unbundle(IF "until" \in due THEN [c EXCEPT !.b.phase = "FAULT", !.b.result = "INSTALL_FAILED"]
                       ELSE [c EXCEPT !.b.issued = 1])
           /\ radio' = IF "until" \notin due /\ b.issued = 0
                       THEN [radio EXCEPT !.asked = k.id, !.token = b.token, !.report = 2]
                       ELSE [radio EXCEPT !.report = 2]
  /\ h' = [h EXCEPT !.was = @ \/ b'.phase = "READY"]
  /\ UNCHANGED clock

\* External: the radio takes the identity over and reports it.
RadioInstalls ==
  /\ radio.asked # 0
  /\ radio' = [id |-> radio.asked, asked |-> 0, token |-> radio.token, report |-> radio.token]
  /\ UNCHANGED <<b, z, t, k, due, clock, h>>

(*** Start, scan and association.                                             ***)

Start ==
  /\ b.phase = "IDLE" /\ k.phase = "PROVISIONED"
  /\ b' = [b EXCEPT !.phase = "SCANNING"]
  /\ UNCHANGED <<z, t, k, due, radio, clock, h>>

Resume ==
  /\ b.phase = "IDLE" /\ k.phase \in {"VERIFIED", "REJOINING"}
  /\ b' = [b EXCEPT !.phase = "INSTALLING", !.recovery = 1, !.token = 1 - @]
  /\ h' = [h EXCEPT !.was = TRUE]
  /\ UNCHANGED <<z, t, k, due, radio, clock>>

\* scanned(): the parent that was found, nothing at all, or no clear answer.
ScanEnds(found) ==
  /\ b.phase = "SCANNING"
  /\ LET again == found = "NOTHING" /\ b.recovery = 0 /\ b.attempts + 1 < ATTEMPTS
         stale == b.recovery # 0 /\ "commission" \in due
     IN CASE found = "PARENT" /\ ~stale ->
               IF b.recovery = 0
               THEN /\ b' = [b EXCEPT !.phase = "ASSOCIATING", !.attempts = 1]
                    /\ UNCHANGED <<z, t>>
               ELSE /\ b' = [b EXCEPT !.phase = "RECOVERING", !.search = 2, !.attempts = 0, !.issued = 0]
                    /\ z' = IdleZdo /\ t' = IdleTransport
          [] again -> /\ b' = [b EXCEPT !.attempts = @ + 1] /\ UNCHANGED <<z, t>>
          [] OTHER ->
               /\ b' = [b EXCEPT !.phase = IF found = "FAULT" THEN "FAULT" ELSE "FAILED",
                                 !.attempts = IF found = "NOTHING" /\ b.recovery = 0 THEN @ + 1 ELSE @,
                                 !.result = IF found = "FAULT" THEN "SCAN_FAILED" ELSE "NO_PARENT"]
               /\ UNCHANGED <<z, t>>
  /\ UNCHANGED <<k, due, radio, clock, h>>

AssociationEnds(outcome) ==
  /\ b.phase = "ASSOCIATING"
  /\ \/ /\ outcome = "ALLOCATED"
        /\ Unbundle(Set(Install([Bundle EXCEPT !.z = IdleZdo, !.t = IdleTransport, !.b.member = FALSE,
                                               !.k.id = 1]), {"commission"}))
     \/ /\ outcome = "REFUSED"
        /\ b' = IF b.attempts = ATTEMPTS THEN [b EXCEPT !.phase = "FAILED", !.result = "ASSOCIATION_FAILED"]
                ELSE [b EXCEPT !.attempts = @ + 1]
        /\ UNCHANGED <<z, t, k, due>>
     \/ /\ outcome = "FAULT"
        /\ b' = [b EXCEPT !.phase = "FAULT", !.result = "ASSOCIATION_FAILED"]
        /\ UNCHANGED <<z, t, k, due>>
  /\ UNCHANGED <<radio, clock, h>>

(*** Frames.                                                                  ***)

\* External: which control frames the key owner accepts, and what it stores.
KeyFrame(kind) ==
  CASE kind = "NETWORK_KEY" -> k.phase = "ASSOCIATED"
    [] kind = "TC_KEY" -> k.phase = "REQUESTED"
    [] kind = "VERIFIED" -> k.phase = "WAIT_CONFIRM"
    [] kind \in {"REJOINED", "REFUSED"} -> k.phase = "REJOINING"
    [] kind = "UPDATE" -> k.phase = "VERIFIED" /\ k.id <= MaxUpdates
    [] kind = "LEAVE" -> k.phase \notin {"PROVISIONED", "ASSOCIATED", "LEFT", "BROKEN"}
    [] OTHER -> k.phase \in {"RECEIVED", "REQUESTED", "PROVISIONAL", "WAIT_CONFIRM", "VERIFIED"}

Stored(kind) ==
  CASE kind = "NETWORK_KEY" -> [k EXCEPT !.phase = "RECEIVED"]
    [] kind = "TC_KEY" -> [k EXCEPT !.phase = "PROVISIONAL"]
    [] kind = "VERIFIED" -> [k EXCEPT !.phase = "VERIFIED"]
    [] kind = "REJOINED" -> [k EXCEPT !.phase = "VERIFIED", !.id = IF @ <= MaxUpdates THEN @ + 1 ELSE @]
    [] kind = "UPDATE" -> [k EXCEPT !.id = @ + 1]
    [] kind = "LEAVE" -> [k EXCEPT !.phase = "LEFT"]
    [] OTHER -> k

\* Fault: a frame that came in time vouches for all that follow.
Timely_Sticky == b.timely \/ "until" \notin due
\* Whether this frame came before the deadline.
Timely == "until" \notin due

\* bdb_join_receive.  A frame that cannot be stored ends the join.
Receive(f, asks) ==
  /\ b.phase \in Receiving
  /\ b.phase = "RECOVERING" => k.phase = "REJOINING"
  /\ ~t.stopping /\ t.rx.kind = "NONE" /\ ~t.reply
  /\ KeyFrame(f.kind)
  /\ f.kind = "APP" => t.ready
  /\ asks => f.kind \in Acked
  /\ LET ends == f.kind \in {"LEAVE", "UPDATE"} \/ (f.kind \in {"REJOINED", "REFUSED"} /\ t.txn = "REJOIN")
     IN t' = [(IF ends THEN [Cancel(t) EXCEPT !.ready = FALSE] ELSE t)
                EXCEPT !.rx = f, !.reply = asks]
  /\ k' = Stored(f.kind)
  /\ b' = [b EXCEPT !.timely = Timely]
  /\ h' = IF "until" \in due THEN h
          ELSE [h EXCEPT !.key = @ \/ f.kind = "NETWORK_KEY", !.tc = @ \/ f.kind = "TC_KEY",
                         !.confirm = @ \/ f.kind = "VERIFIED"]
  /\ UNCHANGED <<z, due, radio, clock>>

ReceiveFails ==
  /\ b.phase \in Receiving
  /\ b.phase = "RECOVERING" => k.phase = "REJOINING"
  /\ ~t.stopping /\ t.rx.kind = "NONE" /\ ~t.reply
  /\ Unbundle(Fail([Bundle EXCEPT !.k.phase = "BROKEN"], "SECURITY"))
  /\ UNCHANGED <<radio, clock, h>>

Frames ==
  {[kind |-> e, arg |-> "NONE"] :
     e \in {"NETWORK_KEY", "TC_KEY", "VERIFIED", "REJOINED"}} \cup h.frames

(*** The application, which serves only a ready device.                       ***)

Send ==
  /\ Sends /\ b.phase = "READY" /\ t.ready
  /\ b.app = "NO" /\ z.query = "NO" /\ ~z.rtx
  /\ Reserve(t)
  /\ t' = [t EXCEPT !.txn = "APP", !.cancel = FALSE]
  /\ b' = [b EXCEPT !.app = "PENDING"]
  /\ UNCHANGED <<z, k, due, radio, clock, h>>

Confirm ==
  /\ b.phase = "READY" /\ b.app = "DONE"
  /\ b' = [b EXCEPT !.app = "NO"]
  /\ UNCHANGED <<z, t, k, due, radio, clock, h>>

\* The application answers or drops the frame that was published.
Discard(answers) ==
  /\ b.phase = "READY" /\ z.app
  /\ answers => ~z.pending /\ ~z.rtx
  /\ z' = [z EXCEPT !.app = FALSE, !.pending = @ \/ answers]
  /\ UNCHANGED <<b, t, k, due, radio, clock, h>>

(*** Time.                                                                    ***)
\* A deadline passes where the code may look at it; in other phases it is set
\* anew before it is looked at.
Pending(d) ==
  CASE d = "until" -> b.phase \in BeforeReady \cup {"RECOVERING"}
    [] d = "commission" -> b.phase \in Commissioning \cup {"ABORTING"} \/ b.recovery = 1
    [] d = "keepalive" -> b.phase = "READY"
    [] d = "grace" -> b.phase = "READY" /\ "keepalive" \in due
    [] d = "query" -> z.query # "NO"

Expire(d) ==
  /\ clock = "RUNS" /\ d \notin due /\ Pending(d)
  /\ due' = due \cup {d}
  /\ UNCHANGED <<b, z, t, k, radio, clock, h>>

ClockStops == clock = "RUNS" /\ clock' = "STOPPED" /\ UNCHANGED <<b, z, t, k, due, radio, h>>

(*** The specification.                                                       ***)
Init ==
  /\ b = IdleBdb /\ z = IdleZdo /\ t = IdleTransport /\ due = {} /\ clock = "RUNS"
  /\ \E s \in Scenarios, router \in BOOLEAN :
       /\ router => s.start = "RESUMED"
       /\ k = [phase |-> IF s.start = "FRESH" THEN "PROVISIONED" ELSE "VERIFIED",
               id |-> IF s.start = "FRESH" THEN 0 ELSE 1, router |-> router]
       /\ h = [frames |-> s.frames, sleepy |-> s.sleepy,
               was |-> FALSE, key |-> FALSE, tc |-> FALSE, confirm |-> FALSE]
  /\ radio = [id |-> 0, asked |-> 0, token |-> 2, report |-> 2]

Wrapping == IF Wraps THEN BOOLEAN ELSE {FALSE}
Asking == IF h.sleepy THEN BOOLEAN ELSE {FALSE}
StepAny == \E how \in {"STAY", "GO", "SENT", "FAIL", "FAULT"}, wrap \in Wrapping, asks \in Asking :
             Step(how, wrap, asks)
\* A step in which the transmission in the air ends.
Ending == {"GO", "FAIL", "FAULT"}
StepEnds == \E how \in Ending, wrap \in Wrapping, asks \in Asking : Step(how, wrap, asks)
CanStep ==
  b.phase \in Running
    /\ \E how \in Ending, wrap \in Wrapping, asks \in Asking : Stepped(how, wrap, asks) # Bundle
InstallAny == \E saved \in BOOLEAN : InstallStep(saved)
ScanAny == \E found \in {"PARENT", "NOTHING", "UNCLEAR", "FAULT"} : ScanEnds(found)
AssociationAny == \E outcome \in {"ALLOCATED", "REFUSED", "FAULT"} : AssociationEnds(outcome)
ReceiveAny == \E f \in Frames, asks \in BOOLEAN : Receive(f, asks)
DiscardAny == \E answers \in BOOLEAN : Discard(answers)
ExpireAny == \E d \in Deadlines : Expire(d)

Next ==
  \/ Start \/ Resume \/ ScanAny \/ AssociationAny \/ InstallAny \/ RadioInstalls
  \/ StepAny \/ ReceiveAny \/ ReceiveFails
  \/ Send \/ Confirm \/ DiscardAny
  \/ ExpireAny \/ ClockStops

Spec == Init /\ [][Next]_vars

\* The foreground loop keeps stepping, the transmissions end (NwkAps), so do
\* scan and association, and while the clock runs every deadline is reached.
FairSpec ==
  /\ Spec
  /\ WF_vars(Start) /\ WF_vars(Resume) /\ WF_vars(ScanAny)
  /\ []<>(b.phase # "ASSOCIATING") \/ []<><<AssociationAny>>_vars
  /\ WF_vars(InstallAny)
  /\ []<>(~CanStep) \/ []<><<StepEnds>>_vars       \* weak fairness of StepEnds
  /\ \A d \in Deadlines : WF_vars(Expire(d))

(*** Properties.                                                              ***)

TypeOK ==
  /\ b.phase \in Live \cup Running \cup Over \cup {"IDLE", "SCANNING", "ASSOCIATING"}
  /\ b.attempts \in 0..(ATTEMPTS + KEEPALIVES) /\ b.recovery \in 0..3 /\ b.steps \in 0..STALL_STEPS
  /\ due \subseteq Deadlines

\* A device that may send application data is a member under the address its
\* radio filters for, has announced itself, and opened the network or rejoined
\* (bdb_join_step INSTALLING and runtime READY, over updates and rejoins).
ReadyIsMember ==
  b.phase = "READY" /\ t.ready =>
    /\ k.phase = "VERIFIED" /\ radio.id = k.id /\ t.announced
    /\ t.permit \/ b.recovery = 3

\* Once a member or resumed, the device leaves the network only for an address
\* conflict or because it was asked to (fail()).
MemberStays ==
  b.phase = "LEAVING" /\ h.was => b.result \in {"ADDRESS_CONFLICT", "LOCAL_LEAVE"}

\* Both: what the device takes itself for is what the network has it for.
MembershipIsTrue == ReadyIsMember /\ MemberStays

\* Membership rests on keys that arrived before their deadlines, whenever they
\* were handled (timely, bdb_join_receive).
KeysInTime ==
  /\ b.tc => h.tc
  /\ b.confirm => h.confirm
  /\ b.member /\ b.recovery = 0 => h.key

\* A join or a rejoin ends, also when the clock stops, and so does an update.
JoinEnds == b.phase \notin {"READY", "FAILED", "FAULT"} ~> b.phase \in {"READY", "FAILED", "FAULT"}

\* A device resumes traffic only under the identity that it stores: an update of
\* the network is installed first (docs/ED_JOIN.md: the owner requires a new
\* adapter-install confirmation before resuming).
InstalledBeforeTraffic == b.phase = "READY" /\ t.ready => radio.id = k.id
================================================================================
