------------------------------ MODULE ZdoRuntime ------------------------------
(* zdo_runtime.c, zdo_srv.c and zdo_node.c: one client query, one server       *)
(* response and one application frame over the single transaction of the       *)
(* NWK/APS transport.  These are the operators that BdbJoin's steps are made   *)
(* of.  A step works on a bundle c with the runtime z, the transport t as its  *)
(* callers see it (NwkAps has the whole of it), the key owner k and due, the   *)
(* deadlines that have passed; rc is the result of the last call.              *)
EXTENDS Naturals

MAP_SIZE == 4          \* ZDO_RUNTIME_MAP_SIZE: own device, trust centre, two more

(*** The transport.                                                           ***)
NoFrame == [kind |-> "NONE", arg |-> "NONE"]

IdleTransport ==
  [txn |-> "NO", air |-> "NO", done |-> "NO", cancel |-> FALSE, stopping |-> FALSE,
   rx |-> NoFrame, reply |-> FALSE, poll |-> FALSE, ready |-> FALSE,
   announced |-> FALSE, permit |-> FALSE]

\* reserve() in nwk_aps.c: one transaction, confirmed before the next.
Reserve(t) == t.txn = "NO" /\ t.done = "NO" /\ ~t.stopping

\* What nwk_aps_queue makes of a request.  A frame with an APS counter is
\* refused while the counters wrap.
Queued(c, kind, wrap) ==
  CASE ~Reserve(c.t) -> [c EXCEPT !.rc = "FULL"]
    [] Reserve(c.t) /\ wrap /\ kind \in {"RESPONSE", "ANNOUNCE", "PERMIT", "NODE", "APP"} ->
         [c EXCEPT !.rc = "EXHAUSTED"]
    [] OTHER -> [c EXCEPT !.rc = "OK", !.t.txn = kind, !.t.cancel = FALSE]

Cancel(t) == [t EXCEPT !.cancel = @ \/ t.txn # "NO"]
Stop(t) == [Cancel(t) EXCEPT !.ready = FALSE, !.stopping = TRUE]
Drained(t) == t.air = "NO" /\ t.txn = "NO" /\ ~t.reply /\ ~t.stopping

\* nwk_aps_complete
Complete(t, k, result) ==
  LET opened == result = "OK" /\ t.txn = "PERMIT" /\ t.announced /\ k.phase = "VERIFIED" IN
  [t EXCEPT !.txn = "NO", !.done = result, !.cancel = FALSE,
            !.announced = @ \/ (result = "OK" /\ t.txn = "ANNOUNCE"),
            !.permit = @ \/ opened, !.ready = @ \/ opened]

\* What the key owner makes of a frame to be secured: its next phase, or none.
Sealed(k, kind) ==
  CASE kind = "KEY" -> IF k.phase \in {"RECEIVED", "REQUESTED", "VERIFIED"} THEN "REQUESTED" ELSE "NONE"
    [] kind = "VERIFY" -> IF k.phase \in {"PROVISIONAL", "WAIT_CONFIRM"} THEN "WAIT_CONFIRM" ELSE "NONE"
    [] kind = "REJOIN" -> IF k.phase \in {"VERIFIED", "REJOINING"} THEN "REJOINING" ELSE "NONE"
    [] kind = "LEAVE" -> "LEFT"
    [] OTHER -> IF k.phase \in {"RECEIVED", "REQUESTED", "PROVISIONAL", "WAIT_CONFIRM", "VERIFIED"}
                THEN k.phase ELSE "NONE"

\* A transmission begins, or cannot; leaving without a network key sends nothing.
Begin(c, how) ==
  LET t == c.t
      next == Sealed(c.k, IF t.reply THEN "ACK" ELSE t.txn)
  IN CASE t.reply ->
            IF how = "FAIL" \/ next = "NONE" THEN [c EXCEPT !.rc = "ERROR"] ELSE [c EXCEPT !.t.air = "ACK"]
       [] ~t.reply /\ t.txn # "NO" ->
            CASE how = "FAIL" \/ next = "NONE" -> [c EXCEPT !.t = Complete(t, c.k, "ERROR"), !.rc = "ERROR"]
              [] t.txn = "LEAVE" /\ c.k.phase = "ASSOCIATED" /\ how # "FAIL" ->
                   [c EXCEPT !.t = Complete(t, c.k, "OK"), !.k.phase = "LEFT"]
              [] OTHER -> [c EXCEPT !.t.air = "TX", !.k.phase = next]
       [] ~t.reply /\ t.txn = "NO" /\ t.poll ->
            [c EXCEPT !.t.poll = FALSE, !.t.air = IF how = "FAIL" THEN "NO" ELSE "POLL"]
       [] OTHER -> c

\* nwk_aps_step, how the transmission in the air goes on: it lasts, has been
\* sent, ends well or badly, or the MAC cannot end it.
TransportStep(c, how) ==
  LET t == c.t
      ends == IF t.cancel THEN "CANCELLED" ELSE IF how = "GO" THEN "OK" ELSE "RADIO"
      ok == [c EXCEPT !.rc = "OK"]
      free == IF t.cancel /\ t.txn # "NO" THEN [ok EXCEPT !.t = Complete(t, c.k, "CANCELLED")] ELSE ok
  IN CASE t.air # "NO" /\ how = "STAY" -> ok
       [] t.air # "NO" /\ how = "FAULT" -> [ok EXCEPT !.rc = "FAULT", !.t.ready = FALSE]
       [] t.air \in {"TX", "SENT"} /\ how = "SENT" -> [ok EXCEPT !.t.air = "SENT"]
       [] t.air \in {"TX", "SENT"} /\ how \in {"GO", "FAIL"} ->
            [ok EXCEPT !.t = [Complete(t, c.k, ends) EXCEPT !.air = "NO"]]
       [] t.air = "ACK" /\ how \in {"GO", "FAIL", "SENT"} -> [ok EXCEPT !.t.air = "NO", !.t.reply = FALSE]
       [] t.air = "POLL" /\ how \in {"GO", "FAIL", "SENT"} -> [ok EXCEPT !.t.air = "NO"]
       [] t.air = "NO" /\ t.stopping ->
            [ok EXCEPT !.t = [(IF t.txn # "NO" THEN Complete(t, c.k, "CANCELLED") ELSE t)
                                EXCEPT !.reply = FALSE, !.poll = FALSE, !.stopping = FALSE, !.cancel = FALSE]]
       [] OTHER -> Begin(free, how)

(*** The runtime.                                                             ***)
IdleZdo ==
  [query |-> "NO", qtx |-> FALSE, txdone |-> FALSE, result |-> "NONE", pending |-> FALSE,
   rtx |-> FALSE, leave |-> FALSE, app |-> FALSE, event |-> "NONE", info |-> "NONE",
   tc |-> "NONE", map |-> <<>>, conflict |-> FALSE]

\* zdo_runtime_request
Request(c, which, wrap) ==
  LET q == Queued(c, which, wrap) IN
  CASE c.z.query # "NO" \/ c.z.pending \/ c.z.rtx -> [c EXCEPT !.rc = "FULL"]
    [] OTHER ->
         IF q.rc # "OK" THEN [q EXCEPT !.rc = IF @ = "FULL" THEN "FULL" ELSE "TRANSMIT"]
         ELSE [q EXCEPT !.z.query = which, !.z.qtx = TRUE, !.z.txdone = FALSE, !.z.result = "NONE",
                        !.due = @ \ {"query"}]

\* zdo_srv_handle: what becomes of a request for this device, by its cluster,
\* whether it was broadcast, names this device and is long enough.
Serve(r) ==
  CASE r.cluster = "PARENT_ANNCE" -> "IGNORED"
    [] r.cluster # "PARENT_ANNCE" /\ r.broadcast /\ r.cluster # "MATCH_DESC" -> "IGNORED"
    [] r.cluster \in {"POWER_DESC", "MATCH_DESC", "ACTIVE_EP", "SIMPLE_DESC", "NODE_DESC"}
         /\ (r.cluster = "MATCH_DESC" \/ ~r.broadcast) /\ ~r.whole -> "FORMAT"
    [] r.cluster = "MATCH_DESC" /\ r.broadcast /\ r.whole /\ ~r.mine -> "IGNORED"
    [] OTHER -> "REPLY"

\* address_request
ServeAddress(r) ==
  CASE ~r.whole -> "FORMAT" [] r.whole /\ r.broadcast /\ ~r.mine -> "IGNORED" [] OTHER -> "REPLY"

\* mgmt_leave: only this device can be asked to leave.
ServeLeave(r) ==
  CASE r.broadcast -> "IGNORED" [] ~r.broadcast /\ ~r.whole -> "FORMAT" [] OTHER -> "REPLY"

Answer(c, r) ==
  LET what == CASE r.cluster \in {"NWK_ADDR", "IEEE_ADDR"} -> ServeAddress(r)
                [] r.cluster = "MGMT_LEAVE" -> ServeLeave(r)
                [] OTHER -> Serve(r)
  IN CASE c.z.pending -> [c EXCEPT !.rc = "DROPPED"]
       [] ~c.z.pending /\ what = "REPLY" ->
            [c EXCEPT !.z.pending = TRUE, !.z.leave = IF r.cluster = "MGMT_LEAVE" THEN r.mine ELSE @]
       [] OTHER -> [c EXCEPT !.rc = what]

\* announce: a is the device and the address it announces.  The first entries
\* are this device and the trust centre, and neither may be contradicted.
Announced(c, a) ==
  LET known == IF c.z.map # <<>> THEN c.z.map
               ELSE [i \in 1..MAP_SIZE |->
                       CASE i = 1 -> [ieee |-> "own", address |-> "own", valid |-> TRUE]
                         [] i = 2 -> [ieee |-> "tc", address |-> "tc", valid |-> TRUE]
                         [] OTHER -> [ieee |-> "NONE", address |-> "NONE", valid |-> FALSE]]
      rivals == {i \in 1..MAP_SIZE : known[i].valid /\ known[i].ieee # a.ieee /\ known[i].address = a.address}
      cleared == [i \in 1..MAP_SIZE |-> IF i \in rivals THEN [known[i] EXCEPT !.valid = FALSE] ELSE known[i]]
      found == {i \in 1..MAP_SIZE : known[i].ieee = a.ieee}
      free == {i \in 1..MAP_SIZE : known[i].ieee = "NONE"}
      into == IF found # {} THEN found ELSE {i \in free : \A j \in free : j <= i}
      conflict == c.z.conflict \/ rivals \cap {1, 2} # {}
                  \/ \E i \in found \cap {1, 2} : known[i].address # a.address
      d == [c EXCEPT !.z.map = cleared, !.z.conflict = conflict]
  IN CASE conflict -> [d EXCEPT !.t.ready = FALSE, !.rc = "CONFLICT"]
       [] ~conflict /\ a.ieee = "unknown" -> d
       [] ~conflict /\ a.ieee # "unknown" /\ into = {} -> [d EXCEPT !.rc = "FULL"]
       [] OTHER -> [d EXCEPT !.z.map = [i \in 1..MAP_SIZE |->
                      IF i \in into THEN [ieee |-> a.ieee, address |-> a.address, valid |-> TRUE] ELSE cleared[i]]]

\* parent_response and zdo_response: the answer to the query that has been
\* sent, before its deadline.
Responded(c, f) ==
  LET which == IF f.kind = "PARENT_RSP" THEN "PARENT" ELSE "NODE" IN
  IF c.z.query # which \/ c.z.result # "NONE" \/ ~(c.z.txdone \/ c.t.air = "SENT") \/ "query" \in c.due
  THEN [c EXCEPT !.rc = "IGNORED"]
  ELSE [c EXCEPT !.z.result = IF f.arg = "REFUSED" THEN "REMOTE" ELSE "OK",
                 !.z.info = IF which = "PARENT" /\ f.arg # "REFUSED" THEN f.arg ELSE @,
                 !.z.tc = IF which = "NODE" /\ f.arg # "REFUSED" THEN f.arg ELSE @]

\* received: events for the key owner's caller, answers, application frames and
\* the binding requests an application serves, announcements and requests.
SecurityEvents == {"NETWORK_KEY", "TC_KEY", "VERIFIED", "UPDATE", "LEAVE", "REJOINED", "REFUSED"}

Received(c) ==
  LET f == c.t.rx
      d == [c EXCEPT !.t.rx = NoFrame]
  IN CASE f.kind \in SecurityEvents -> [d EXCEPT !.z.event = f.kind]
       [] f.kind \in {"PARENT_RSP", "NODE_RSP"} -> Responded(d, f)
       [] f.kind \in {"APP", "BIND"} -> [d EXCEPT !.z.app = TRUE]
       [] f.kind = "ANNCE" -> Announced(d, f.arg)
       [] OTHER -> Answer(d, f.arg)

\* The transport's confirmation goes to the query or the response it is for.
Confirmed(c) ==
  LET r == c.t.done
      d == [c EXCEPT !.t.done = "NO"]
  IN CASE r = "NO" \/ ~(c.z.qtx \/ c.z.rtx) -> c
       [] r # "NO" /\ c.z.qtx ->
            [d EXCEPT !.z.qtx = FALSE, !.z.txdone = TRUE,
                      !.z.result = IF r # "OK" /\ @ \notin {"TIMEOUT", "CANCELLED"}
                                   THEN IF r = "CANCELLED" THEN "CANCELLED" ELSE "TRANSMIT" ELSE @]
       [] OTHER ->
            [d EXCEPT !.z.rtx = FALSE, !.z.leave = FALSE,
                      !.rc = IF c.z.leave THEN "LEAVE" ELSE IF r # "OK" THEN "DROPPED" ELSE "OK"]

\* A response waits until the transaction is free.
Respond(c, wrap) ==
  LET q == Queued(c, "RESPONSE", wrap) IN
  IF ~c.z.pending \/ c.t.txn # "NO" \/ c.t.done # "NO" THEN c
  ELSE CASE q.rc = "EXHAUSTED" -> [c EXCEPT !.z.pending = FALSE, !.z.leave = FALSE,
                                            !.rc = IF c.z.leave THEN "LEAVE" ELSE "DROPPED"]
         [] q.rc = "FULL" -> [c EXCEPT !.rc = "FULL"]
         [] OTHER -> [q EXCEPT !.rc = c.rc, !.z.pending = FALSE, !.z.rtx = TRUE]

\* zdo_runtime_step
ZdoStep(c, wrap) ==
  LET d == Confirmed([c EXCEPT !.z.event = "NONE", !.rc = "OK"])
      late == d.z.query # "NO" /\ d.z.result = "NONE" /\ "query" \in d.due
      e == IF late THEN [d EXCEPT !.z.result = "TIMEOUT", !.t = IF d.z.qtx THEN Cancel(@) ELSE @] ELSE d
      f == IF e.t.rx.kind # "NONE" /\ ~e.z.app THEN Received(e) ELSE e
  IN IF d.rc # "OK" THEN d ELSE Respond(f, wrap)

\* zdo_runtime_cancel: the transmission is still the runtime's to retire.
ZdoCancel(c) ==
  [c EXCEPT !.t = IF c.z.qtx \/ c.z.rtx THEN Cancel(@) ELSE @, !.z.leave = FALSE, !.z.pending = FALSE,
            !.z.result = IF c.z.query # "NO" THEN "CANCELLED" ELSE @]

\* zdo_runtime_take_result: not before the transmission has been retired.
Takeable(z) == z.query # "NO" /\ z.txdone /\ z.result # "NONE"
Taken(c) == [c EXCEPT !.z.query = "NO"]

\* zdo_runtime_broadcast: built in the application's slot, if that is empty.
Broadcast(c, which, wrap) ==
  LET q == Queued(c, which, wrap) IN
  IF c.z.app THEN [c EXCEPT !.rc = "FULL"]
  ELSE [q EXCEPT !.rc = IF @ = "EXHAUSTED" THEN "TRANSMIT" ELSE @]
================================================================================
