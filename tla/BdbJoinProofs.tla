----------------------------- MODULE BdbJoinProofs -----------------------------
(* Theorems of BdbJoin: membership rests on keys that came in time, a member is *)
(* not made to leave, and a ready device is what its network has it for.        *)
EXTENDS BdbJoin, TLAPS

(*** The invariant, over a bundle c, the history g, the radio r and the event e *)
(*** that has been taken from the transport and not yet been looked at.        *)

BdbFields == {"phase", "result", "attempts", "token", "issued", "steps", "member", "abandon",
              "recovery", "search", "timely", "tc", "confirm", "app"}
ZdoFields == {"query", "qtx", "txdone", "result", "pending", "rtx", "leave", "app", "event",
              "info", "tc", "map", "conflict"}
TransportFields == {"txn", "air", "done", "cancel", "stopping", "rx", "reply", "poll", "ready",
                    "announced", "permit"}
Parts == {"b", "z", "t", "k", "due", "rc"}

IsBdb(x) ==
  /\ x = [f \in BdbFields |-> x[f]]
  /\ \A f \in {"member", "abandon", "timely", "tc", "confirm"} : x[f] \in BOOLEAN
IsZdo(y) ==
  /\ y = [f \in ZdoFields |-> y[f]]
  /\ y.app \in BOOLEAN /\ y.txdone \in BOOLEAN
IsTransport(u) ==
  /\ u = [f \in TransportFields |-> u[f]]
  /\ \A f \in {"cancel", "ready", "announced", "permit"} : u[f] \in BOOLEAN
IsOwner(q) == q = [f \in {"phase", "id", "router"} |-> q[f]]
Typed(c) ==
  /\ c = [f \in Parts |-> c[f]]
  /\ IsBdb(c.b) /\ IsZdo(c.z) /\ IsTransport(c.t) /\ IsOwner(c.k)

Kinds(frames) == {f.kind : f \in frames}

\* Binding requests, which take the application's slot also during a join, do
\* not come together with an update of the network or a request to leave it.
BindingsAlone ==
  \A s \in Scenarios :
    "BIND" \in Kinds(s.frames) => Kinds(s.frames) \cap {"UPDATE", "LEAVE"} = {}

Ends == {"ABORTING", "LEAVING", "FAILED", "FAULT"}
Joining == BeforeReady \ {"INSTALLING"}
Unqueried == {"IDLE", "WAIT_KEY", "ANNOUNCING", "REQUESTING", "WAIT_TC", "VERIFYING",
              "WAIT_CONFIRM", "RECOVERING"}

\* Which phases belong to a join, to the steps of a rejoin and to a member.
Stages(x) ==
  /\ x.token \in {0, 1} /\ x.recovery \in 0..3
  /\ x.phase \in {"IDLE", "SCANNING", "ASSOCIATING"} \cup Live \cup Ends
  /\ x.recovery = 0 => x.phase # "RECOVERING"
  /\ x.recovery = 1 => x.phase \in {"INSTALLING", "SCANNING", "RECOVERING"} \cup Ends
  /\ x.recovery = 2 => x.phase \in {"INSTALLING", "RECOVERING", "ANNOUNCING", "PARENT"} \cup Ends
  /\ x.recovery = 3 => x.phase \in {"INSTALLING", "READY", "UPDATING"} \cup Ends
  /\ x.phase \in (Joining \ {"WAIT_KEY"}) \cup {"READY", "UPDATING"} => x.member
  /\ x.phase = "INSTALLING" /\ x.recovery = 3 => x.member
  /\ x.phase = "ABORTING" => ~x.member
  /\ x.phase = "ABORTING" /\ x.recovery = 3 => x.result \notin {"NO_PARENT", "REJOIN_REFUSED"}

\* In which phases a query may be open.
Queries(x, y) ==
  /\ x.phase \in Unqueried => y.query = "NO"
  /\ x.phase = "INSTALLING" => \/ y.query = "NO"
                               \/ x.recovery \in {0, 3} /\ x.member
                               \/ x.recovery = 2 /\ ~x.member
                               \/ x.recovery = 1 /\ x.search = 1

\* The phase in which a transaction of the join is under way.
Homes == [ANNOUNCE |-> "ANNOUNCING", PERMIT |-> "PERMIT", KEY |-> "REQUESTING",
          VERIFY |-> "VERIFYING", REJOIN |-> "RECOVERING", LEAVE |-> "LEAVING"]
Bound == {"ANNOUNCE", "PERMIT", "KEY", "VERIFY", "REJOIN", "LEAVE"}
Slot(x, u) ==
  /\ u.done # "NO" => u.txn = "NO"
  /\ u.txn \in Bound /\ ~u.cancel => x.phase = Homes[u.txn] \/ x.phase \in Over
  /\ u.ready => x.phase \in {"PERMIT", "READY"} /\ u.announced /\ (u.permit \/ x.recovery = 3)

\* An update or a leave that nobody has looked at yet keeps the device shut off;
\* otherwise the radio filters for the stored address.
Waits(u, e, kind) == u.rx.kind = kind \/ e = kind
Placed(x, u, q, r, e) ==
  /\ Waits(u, e, "UPDATE") \/ Waits(u, e, "LEAVE") =>
       (BindingsAlone => ~u.ready) /\ (u.txn = "PERMIT" => u.cancel)
  /\ x.phase \in Joining \cup {"READY"} => r.id = q.id \/ Waits(u, e, "UPDATE")
  /\ x.phase \in {"ANNOUNCING", "PARENT"} /\ x.recovery = 2 => q.phase = "VERIFIED" \/ Waits(u, e, "LEAVE")
  /\ BindingsAlone /\ u.ready => q.phase = "VERIFIED" /\ r.id = q.id
  /\ x.phase = "UPDATING" \/ (x.phase = "INSTALLING" /\ x.member /\ x.recovery \in {0, 3}) =>
       u.rx.kind \notin {"UPDATE", "LEAVE"}
  /\ q.phase = "REJOINING" => x.recovery # 0 /\ x.phase \notin Joining \cup {"READY"}

\* What has been taken for timely was, also what waits to be looked at.
Timed(x, u, g, e) ==
  /\ x.tc => g.tc
  /\ x.confirm => g.confirm
  /\ x.member /\ x.recovery = 0 => g.key
  /\ x.timely => /\ Waits(u, e, "TC_KEY") => g.tc
                 /\ Waits(u, e, "VERIFIED") => g.confirm
                 /\ Waits(u, e, "NETWORK_KEY") => g.key

\* A device that has been a member is not back in a join.
Own == {"ADDRESS_CONFLICT", "LOCAL_LEAVE"}
Stays(x, g) ==
  /\ g.was /\ x.recovery = 0 =>
       x.phase \in {"READY", "UPDATING"} \cup Ends \/ (x.phase = "INSTALLING" /\ x.member)
  /\ x.phase = "ABORTING" /\ x.abandon /\ g.was => x.result \in Own
  /\ x.phase = "LEAVING" /\ g.was => x.result \in Own

\* What can have come over the air; a rejoining device has no application frame
\* unless it is a binding request.
Heard(x, y, u, g) ==
  /\ \E s \in Scenarios : g.frames = s.frames
  /\ u.rx.kind \in {"UPDATE", "LEAVE", "BIND"} => u.rx.kind \in Kinds(g.frames)
  /\ x.recovery \in {1, 2} /\ (y.app \/ u.rx.kind = "APP") => "BIND" \in Kinds(g.frames)
  /\ x.phase = "IDLE" => ~y.app /\ u.rx.kind # "APP" /\ x.recovery = 0

Good(c, g, r, e) ==
  /\ Typed(c) /\ Stages(c.b) /\ Queries(c.b, c.z) /\ Slot(c.b, c.t)
  /\ Placed(c.b, c.t, c.k, r, e) /\ Timed(c.b, c.t, g, e) /\ Stays(c.b, g)
  /\ Heard(c.b, c.z, c.t, g)

\* t differs from r at most in the fields of the set but.
Alike(x, y, all, but) == \A f \in all \ but : x[f] = y[f]

(*** Failing, and steps that leave the phase alone.                            ***)

LEMMA FailIs ==
  ASSUME NEW c, Typed(c), NEW result
  PROVE  LET d == Fail(c, result) IN
         /\ Typed(d)
         /\ d.z = c.z /\ d.k = c.k /\ d.due = c.due /\ d.rc = c.rc
         /\ Alike(d.b, c.b, BdbFields, {"abandon", "result", "member", "phase"})
         /\ d.b.abandon = Abandons(c.b, result)
         /\ d.b.result = result /\ ~d.b.member /\ d.b.phase = "ABORTING"
         /\ Alike(d.t, c.t, TransportFields, {"cancel", "ready", "stopping"})
         /\ ~d.t.ready
         /\ d.t.txn # "NO" => d.t.cancel
<1> DEFINE B == [c.b EXCEPT !.abandon = Abandons(c.b, result), !.result = result, !.member = FALSE,
                            !.phase = "ABORTING"]
           T == Stop(c.t)
           d == Fail(c, result)
<1>1. /\ Abandons(c.b, result) \in BOOLEAN
      /\ (c.t.cancel \/ c.t.txn # "NO") \in BOOLEAN
  BY DEF Abandons
<1>2. /\ B = [f \in BdbFields |-> B[f]]
      /\ Alike(B, c.b, BdbFields, {"abandon", "result", "member", "phase"})
      /\ B.abandon = Abandons(c.b, result) /\ B.result = result /\ B.member = FALSE
      /\ B.phase = "ABORTING"
  BY DEF Typed, IsBdb, Alike, BdbFields
<1>3. /\ T = [f \in TransportFields |-> T[f]]
      /\ Alike(T, c.t, TransportFields, {"cancel", "ready", "stopping"})
      /\ T.ready = FALSE /\ T.stopping = TRUE /\ T.cancel = (c.t.cancel \/ c.t.txn # "NO")
  BY DEF Typed, IsTransport, Alike, TransportFields, Stop, Cancel
<1>4. d = [c EXCEPT !.b = B, !.t = T]
  BY Zenon DEF Fail
<1>5. /\ d = [f \in Parts |-> d[f]]
      /\ d.b = B /\ d.t = T /\ d.z = c.z /\ d.k = c.k /\ d.due = c.due /\ d.rc = c.rc
  BY <1>4 DEF Typed, Parts
<1> HIDE DEF B, T, d
<1>6. IsBdb(B)
  BY <1>1, <1>2 DEF Typed, IsBdb, Alike, BdbFields
<1>7. IsTransport(T) /\ T.txn = c.t.txn
  BY <1>1, <1>3 DEF Typed, IsTransport, Alike, TransportFields
<1>8. Typed(d)
  BY <1>5, <1>6, <1>7 DEF Typed
<1> QED
  BY <1>2, <1>3, <1>5, <1>7, <1>8 DEF d

\* A join that fails keeps the invariant, whatever event it was that ended it.
LEMMA FailKeeps ==
  ASSUME NEW c, NEW g, NEW r, NEW e, NEW result, Good(c, g, r, e),
         result \in {"NO_PARENT", "REJOIN_REFUSED"} => c.b.recovery # 3
  PROVE  /\ Good(Fail(c, result), g, r, "NONE")
         /\ Fail(c, result).b.phase = "ABORTING" /\ Fail(c, result).rc = c.rc
<1> DEFINE d == Fail(c, result)
<1>1. Typed(c)
  BY DEF Good
<1>2. /\ Typed(d)
      /\ d.z = c.z /\ d.k = c.k /\ d.due = c.due /\ d.rc = c.rc
      /\ Alike(d.b, c.b, BdbFields, {"abandon", "result", "member", "phase"})
      /\ d.b.abandon = Abandons(c.b, result)
      /\ d.b.result = result /\ ~d.b.member /\ d.b.phase = "ABORTING"
      /\ Alike(d.t, c.t, TransportFields, {"cancel", "ready", "stopping"})
      /\ ~d.t.ready
      /\ d.t.txn # "NO" => d.t.cancel
  BY <1>1, FailIs
<1> HIDE DEF d
<1>3. /\ d.b.token = c.b.token /\ d.b.recovery = c.b.recovery /\ d.b.timely = c.b.timely
      /\ d.b.tc = c.b.tc /\ d.b.confirm = c.b.confirm
      /\ d.t.rx = c.t.rx /\ d.t.txn = c.t.txn /\ d.t.done = c.t.done
  BY <1>2 DEF Alike, BdbFields, TransportFields
<1>4. Stages(d.b)
  BY <1>2, <1>3 DEF Good, Stages, Ends, Joining, BeforeReady
<1>5. Queries(d.b, d.z)
  BY <1>2 DEF Queries, Unqueried
<1>6. Slot(d.b, d.t)
  BY <1>2, <1>3 DEF Good, Slot, Bound
<1>7. Placed(d.b, d.t, d.k, r, "NONE")
  BY <1>2, <1>3 DEF Good, Placed, Waits, Joining, BeforeReady
<1>8. Timed(d.b, d.t, g, "NONE")
  BY <1>2, <1>3 DEF Good, Timed, Waits
<1>9. Stays(d.b, g)
  BY <1>2, <1>3 DEF Good, Stays, Abandons, Own, Ends, BeforeReady
<1>10. Heard(d.b, d.z, d.t, g)
  BY <1>2, <1>3 DEF Good, Heard
<1> QED
  BY <1>2, <1>4, <1>5, <1>6, <1>7, <1>8, <1>9, <1>10 DEF Good, d

\* The transport may have changed in what does not bind the join to a phase: a
\* transaction cancelled, confirmed, or a plain one begun, and the device shut off.
Plain == {"NODE", "PARENT", "RESPONSE", "APP"}
Steady(u, v) ==
  /\ u.announced = v.announced /\ u.permit = v.permit
  /\ u.ready => v.ready
  /\ \/ u.txn = v.txn /\ (v.cancel => u.cancel) /\ u.done \in {v.done, "NO"}
     \/ u.txn \in Plain /\ u.done = "NO"
Milder(u, v) == u.rx = v.rx /\ Steady(u, v)

LEMMA MinorKeeps ==
  ASSUME NEW c, NEW d, NEW g, NEW r, NEW e, Good(c, g, r, e), Typed(d),
         Alike(d.b, c.b, BdbFields, {"attempts", "issued", "steps", "app"}),
         d.k = c.k, Milder(d.t, c.t), d.z.app => c.z.app,
         d.z.query = c.z.query \/ c.b.phase \in {"NODE", "PARENT", "READY", "UPDATING"}
  PROVE  Good(d, g, r, e)
<1>1. /\ d.b.phase = c.b.phase /\ d.b.result = c.b.result /\ d.b.token = c.b.token
      /\ d.b.member = c.b.member /\ d.b.abandon = c.b.abandon /\ d.b.recovery = c.b.recovery
      /\ d.b.search = c.b.search /\ d.b.timely = c.b.timely
      /\ d.b.tc = c.b.tc /\ d.b.confirm = c.b.confirm
  BY DEF Alike, BdbFields
<1>2. Stages(d.b)
  BY <1>1 DEF Good, Stages
<1>3. Queries(d.b, d.z)
  BY <1>1 DEF Good, Queries, Unqueried
<1>4. Slot(d.b, d.t)
  BY <1>1 DEF Good, Slot, Milder, Steady, Plain, Bound
<1>5. Placed(d.b, d.t, d.k, r, e)
  BY <1>1 DEF Good, Placed, Waits, Milder, Steady, Plain
<1>6. Timed(d.b, d.t, g, e)
  BY <1>1 DEF Good, Timed, Waits, Milder
<1>7. Stays(d.b, g)
  BY <1>1 DEF Good, Stays
<1>8. Heard(d.b, d.z, d.t, g)
  BY <1>1 DEF Good, Heard, Milder
<1> QED
  BY <1>2, <1>3, <1>4, <1>5, <1>6, <1>7, <1>8 DEF Good

(*** The transport.                                                            ***)

\* What nwk_aps_queue does to a bundle.
LEMMA QueuedIs ==
  ASSUME NEW c, Typed(c), NEW kind, kind \in Bound \cup Plain, NEW wrap
  PROVE  LET d == Queued(c, kind, wrap) IN
         /\ Typed(d)
         /\ d.b = c.b /\ d.z = c.z /\ d.k = c.k /\ d.due = c.due
         /\ \/ /\ d.rc = "OK" /\ d.t.txn = kind /\ ~d.t.cancel
               /\ Alike(d.t, c.t, TransportFields, {"txn", "cancel"})
               /\ c.t.txn = "NO" /\ c.t.done = "NO"
            \/ d.rc \in {"FULL", "EXHAUSTED"} /\ d.t = c.t
<1> DEFINE T == [c.t EXCEPT !.txn = kind, !.cancel = FALSE]
           d == Queued(c, kind, wrap)
<1>1. \/ d = [c EXCEPT !.rc = "FULL"]
      \/ d = [c EXCEPT !.rc = "EXHAUSTED"]
      \/ /\ d = [c EXCEPT !.rc = "OK", !.t = T]
         /\ Reserve(c.t)
  BY DEF Queued
<1>2. /\ T = [f \in TransportFields |-> T[f]]
      /\ Alike(T, c.t, TransportFields, {"txn", "cancel"})
      /\ T.txn = kind /\ T.cancel = FALSE
  BY DEF Typed, IsTransport, Alike, TransportFields
<1> HIDE DEF T, d
<1>3. IsTransport(T)
  BY <1>2 DEF Typed, IsTransport, Alike, TransportFields
<1>4. CASE d = [c EXCEPT !.rc = "OK", !.t = T] /\ Reserve(c.t)
  <2>1. /\ d = [f \in Parts |-> d[f]]
        /\ d.b = c.b /\ d.t = T /\ d.z = c.z /\ d.k = c.k /\ d.due = c.due /\ d.rc = "OK"
    BY <1>4 DEF Typed, Parts
  <2>2. Typed(d)
    BY <1>3, <2>1 DEF Typed
  <2> QED
    BY <1>2, <1>4, <2>1, <2>2 DEF Reserve, d
<1>5. ASSUME NEW full \in {"FULL", "EXHAUSTED"}, d = [c EXCEPT !.rc = full]
      PROVE  Typed(d) /\ d.b = c.b /\ d.z = c.z /\ d.k = c.k /\ d.due = c.due
             /\ d.t = c.t /\ d.rc = full
  <2>1. /\ d = [f \in Parts |-> d[f]]
        /\ d.b = c.b /\ d.t = c.t /\ d.z = c.z /\ d.k = c.k /\ d.due = c.due /\ d.rc = full
    BY <1>5 DEF Typed, Parts
  <2> QED
    BY <2>1 DEF Typed
<1> QED
  BY <1>1, <1>4, <1>5 DEF d

\* zdo_runtime_broadcast
LEMMA BroadcastIs ==
  ASSUME NEW c, Typed(c), NEW kind, kind \in Bound, NEW wrap
  PROVE  LET d == Broadcast(c, kind, wrap) IN
         /\ Typed(d)
         /\ d.b = c.b /\ d.z = c.z /\ d.k = c.k /\ d.due = c.due
         /\ \/ /\ d.rc = "OK" /\ d.t.txn = kind /\ ~d.t.cancel
               /\ Alike(d.t, c.t, TransportFields, {"txn", "cancel"})
               /\ c.t.txn = "NO" /\ c.t.done = "NO" /\ ~c.z.app
            \/ d.rc \in {"FULL", "TRANSMIT"} /\ d.t = c.t
<1> DEFINE q == Queued(c, kind, wrap)
           rc == IF c.z.app THEN "FULL" ELSE IF q.rc = "EXHAUSTED" THEN "TRANSMIT" ELSE q.rc
           d == Broadcast(c, kind, wrap)
<1>1. /\ Typed(q)
      /\ q.b = c.b /\ q.z = c.z /\ q.k = c.k /\ q.due = c.due
      /\ \/ /\ q.rc = "OK" /\ q.t.txn = kind /\ ~q.t.cancel
            /\ Alike(q.t, c.t, TransportFields, {"txn", "cancel"})
            /\ c.t.txn = "NO" /\ c.t.done = "NO"
         \/ q.rc \in {"FULL", "EXHAUSTED"} /\ q.t = c.t
  BY QueuedIs
<1>2. d = [(IF c.z.app THEN c ELSE q) EXCEPT !.rc = rc]
  BY DEF Broadcast
<1> HIDE DEF q, d
<1>3. CASE c.z.app
  <2>1. /\ d = [f \in Parts |-> d[f]]
        /\ d.b = c.b /\ d.t = c.t /\ d.z = c.z /\ d.k = c.k /\ d.due = c.due /\ d.rc = "FULL"
    BY <1>2, <1>3 DEF Typed, Parts
  <2> QED
    BY <2>1 DEF Typed, d
<1>4. CASE ~c.z.app
  <2>1. /\ d = [f \in Parts |-> d[f]]
        /\ d.b = q.b /\ d.t = q.t /\ d.z = q.z /\ d.k = q.k /\ d.due = q.due /\ d.rc = rc
    BY <1>1, <1>2, <1>4 DEF Typed, Parts
  <2>2. Typed(d)
    BY <1>1, <2>1 DEF Typed
  <2> QED
    BY <1>1, <1>4, <2>1, <2>2 DEF d
<1> QED
  BY <1>3, <1>4

\* zdo_runtime_request
LEMMA RequestIs ==
  ASSUME NEW c, Typed(c), NEW kind, kind \in {"NODE", "PARENT"}, NEW wrap
  PROVE  LET d == Request(c, kind, wrap) IN
         /\ Typed(d)
         /\ d.b = c.b /\ d.k = c.k
         /\ \/ /\ d.rc = "OK" /\ d.t.txn = kind /\ ~d.t.cancel
               /\ Alike(d.t, c.t, TransportFields, {"txn", "cancel"})
               /\ c.t.txn = "NO" /\ c.t.done = "NO"
               /\ Alike(d.z, c.z, ZdoFields, {"query", "qtx", "txdone", "result"})
               /\ ~d.z.txdone
            \/ d.rc \in {"FULL", "TRANSMIT"} /\ d.t = c.t /\ d.z = c.z /\ d.due = c.due
<1> DEFINE q == Queued(c, kind, wrap)
           Z == [q.z EXCEPT !.query = kind, !.qtx = TRUE, !.txdone = FALSE, !.result = "NONE"]
           d == Request(c, kind, wrap)
<1>1. /\ Typed(q)
      /\ q.b = c.b /\ q.z = c.z /\ q.k = c.k /\ q.due = c.due
      /\ \/ /\ q.rc = "OK" /\ q.t.txn = kind /\ ~q.t.cancel
            /\ Alike(q.t, c.t, TransportFields, {"txn", "cancel"})
            /\ c.t.txn = "NO" /\ c.t.done = "NO"
         \/ q.rc \in {"FULL", "EXHAUSTED"} /\ q.t = c.t
  BY QueuedIs DEF Plain
<1>2. \/ d = [c EXCEPT !.rc = "FULL"]
      \/ q.rc # "OK" /\ d = [q EXCEPT !.rc = IF @ = "FULL" THEN "FULL" ELSE "TRANSMIT"]
      \/ q.rc = "OK" /\ d = [q EXCEPT !.z = Z, !.due = @ \ {"query"}]
  BY DEF Request
<1>3. /\ Z = [f \in ZdoFields |-> Z[f]]
      /\ Alike(Z, c.z, ZdoFields, {"query", "qtx", "txdone", "result"})
      /\ Z.txdone = FALSE
  BY <1>1 DEF Typed, IsZdo, Alike, ZdoFields
<1> HIDE DEF q, d, Z
<1>4. CASE d = [c EXCEPT !.rc = "FULL"]
  <2>1. /\ d = [f \in Parts |-> d[f]]
        /\ d.b = c.b /\ d.t = c.t /\ d.z = c.z /\ d.k = c.k /\ d.due = c.due /\ d.rc = "FULL"
    BY <1>4 DEF Typed, Parts
  <2> QED
    BY <2>1 DEF Typed, d
<1>5. CASE q.rc # "OK" /\ d = [q EXCEPT !.rc = IF @ = "FULL" THEN "FULL" ELSE "TRANSMIT"]
  <2>1. /\ d = [f \in Parts |-> d[f]]
        /\ d.b = q.b /\ d.t = q.t /\ d.z = q.z /\ d.k = q.k /\ d.due = q.due
        /\ d.rc \in {"FULL", "TRANSMIT"}
    BY <1>1, <1>5 DEF Typed, Parts
  <2>2. Typed(d)
    BY <1>1, <2>1 DEF Typed
  <2> QED
    BY <1>1, <1>5, <2>1, <2>2 DEF d
<1>6. CASE q.rc = "OK" /\ d = [q EXCEPT !.z = Z, !.due = @ \ {"query"}]
  <2>1. /\ d = [f \in Parts |-> d[f]]
        /\ d.b = q.b /\ d.t = q.t /\ d.z = Z /\ d.k = q.k /\ d.rc = "OK"
    BY <1>1, <1>6 DEF Typed, Parts
  <2>2. IsZdo(Z)
    BY <1>3 DEF Typed, IsZdo, Alike, ZdoFields
  <2>3. Typed(d)
    BY <1>1, <2>1, <2>2 DEF Typed
  <2> QED
    BY <1>1, <1>3, <1>6, <2>1, <2>3 DEF d
<1> QED
  BY <1>2, <1>4, <1>5, <1>6

\* What the transport may make of a transaction: it goes on, or is over.
Moves(u, v, q) ==
  /\ u.rx = v.rx
  /\ v.announced => u.announced
  /\ v.permit => u.permit
  /\ u.ready => \/ v.ready
                \/ /\ v.txn = "PERMIT" /\ ~v.cancel
                   /\ u.permit /\ u.announced /\ q.phase = "VERIFIED"
  /\ \/ u.txn = v.txn /\ u.cancel = v.cancel /\ u.done = v.done
     \/ u.txn = "NO"

\* nwk_aps_complete
LEMMA CompleteIs ==
  ASSUME NEW v, NEW q, NEW result, IsTransport(v), v.cancel => result # "OK"
  PROVE  IsTransport(Complete(v, q, result)) /\ Moves(Complete(v, q, result), v, q)
         /\ Complete(v, q, result).txn = "NO" /\ ~Complete(v, q, result).cancel
<1> DEFINE opened == result = "OK" /\ v.txn = "PERMIT" /\ v.announced /\ q.phase = "VERIFIED"
           told == result = "OK" /\ v.txn = "ANNOUNCE"
           u == Complete(v, q, result)
<1>1. /\ u = [f \in TransportFields |-> u[f]]
      /\ Alike(u, v, TransportFields, {"txn", "done", "cancel", "announced", "permit", "ready"})
      /\ u.txn = "NO" /\ u.done = result /\ u.cancel = FALSE
      /\ u.announced = (v.announced \/ told)
      /\ u.permit = (v.permit \/ opened)
      /\ u.ready = (v.ready \/ opened)
  BY DEF Complete, IsTransport, Alike, TransportFields
<1>2. opened \in BOOLEAN /\ told \in BOOLEAN
  OBVIOUS
<1> HIDE DEF u
<1>3. u.announced \in BOOLEAN /\ u.permit \in BOOLEAN /\ u.ready \in BOOLEAN
  BY <1>1, <1>2
<1>4. IsTransport(u)
  BY <1>1, <1>3 DEF IsTransport, Alike, TransportFields
<1>5. u.rx = v.rx
  BY <1>1 DEF Alike, TransportFields
<1>6. Moves(u, v, q)
  BY <1>1, <1>5 DEF Moves
<1> QED
  BY <1>1, <1>4, <1>6 DEF u

LEMMA SealedIs ==
  ASSUME NEW q, NEW kind, kind \notin {"KEY", "VERIFY", "REJOIN", "LEAVE"}
  PROVE  Sealed(q, kind) \in {q.phase, "NONE"}
BY DEF Sealed

\* A transmission begins; only the frames of the key exchange, of a rejoin and
\* of a leave change what the key owner stores.
LEMMA BeginIs ==
  ASSUME NEW c, Typed(c), NEW how, c.t.cancel => c.t.txn = "NO", c.rc = "OK"
  PROVE  LET d == Begin(c, how) IN
         /\ Typed(d) /\ d.b = c.b /\ d.z = c.z /\ d.due = c.due
         /\ d.rc \in {"OK", "ERROR"}
         /\ Moves(d.t, c.t, c.k)
         /\ d.k.id = c.k.id
         /\ d.k.phase # c.k.phase => c.t.txn \in {"KEY", "VERIFY", "REJOIN", "LEAVE"}
                /\ (d.k.phase = "REJOINING" => c.t.txn = "REJOIN")
<1> DEFINE next == Sealed(c.k, IF c.t.reply THEN "ACK" ELSE c.t.txn)
           d == Begin(c, how)
<1>0. IsTransport(c.t) /\ IsOwner(c.k)
  BY DEF Typed
<1>1. ASSUME NEW u, NEW q, NEW rc \in {"OK", "ERROR"}, d = [c EXCEPT !.t = u, !.k = q, !.rc = rc],
             IsTransport(u), IsOwner(q), Moves(u, c.t, c.k), q.id = c.k.id,
             q.phase # c.k.phase => c.t.txn \in {"KEY", "VERIFY", "REJOIN", "LEAVE"}
                 /\ (q.phase = "REJOINING" => c.t.txn = "REJOIN")
      PROVE  /\ Typed(d) /\ d.b = c.b /\ d.z = c.z /\ d.due = c.due
             /\ d.rc \in {"OK", "ERROR"}
             /\ Moves(d.t, c.t, c.k)
             /\ d.k.id = c.k.id
             /\ d.k.phase # c.k.phase => c.t.txn \in {"KEY", "VERIFY", "REJOIN", "LEAVE"}
                    /\ (d.k.phase = "REJOINING" => c.t.txn = "REJOIN")
  <2> HIDE DEF d
  <2>1. /\ d = [f \in Parts |-> d[f]]
        /\ d.b = c.b /\ d.z = c.z /\ d.due = c.due /\ d.t = u /\ d.k = q /\ d.rc = rc
    BY <1>1 DEF Typed, Parts
  <2> QED
    BY <1>1, <2>1 DEF Typed
<1>2. ASSUME NEW air, NEW poll
      PROVE  LET u == [c.t EXCEPT !.air = air, !.poll = poll] IN IsTransport(u) /\ Moves(u, c.t, c.k)
  <2> DEFINE u == [c.t EXCEPT !.air = air, !.poll = poll]
  <2>1. u = [f \in TransportFields |-> u[f]] /\ Alike(u, c.t, TransportFields, {"air", "poll"})
    BY <1>0 DEF IsTransport, Alike, TransportFields
  <2> HIDE DEF u
  <2>2. /\ u.cancel = c.t.cancel /\ u.ready = c.t.ready /\ u.announced = c.t.announced
        /\ u.permit = c.t.permit /\ u.rx = c.t.rx /\ u.txn = c.t.txn /\ u.done = c.t.done
    BY <2>1 DEF Alike, TransportFields
  <2> QED
    BY <1>0, <2>1, <2>2 DEF IsTransport, Moves, u
<1>3. IsTransport(c.t) /\ Moves(c.t, c.t, c.k)
  BY <1>0 DEF Moves
<1>4. ASSUME NEW phase
      PROVE  LET q == [c.k EXCEPT !.phase = phase] IN IsOwner(q) /\ q.id = c.k.id /\ q.phase = phase
  BY <1>0 DEF IsOwner
<1>5. CASE c.t.reply
  <2>1. CASE how = "FAIL" \/ next = "NONE"
    <3>1. d = [c EXCEPT !.t = c.t, !.k = c.k, !.rc = "ERROR"]
      BY <1>5, <2>1 DEF Begin, Typed, Parts
    <3> QED
      BY <1>0, <1>1, <1>3, <3>1
  <2>2. CASE ~(how = "FAIL" \/ next = "NONE")
    <3> DEFINE u == [c.t EXCEPT !.air = "ACK", !.poll = c.t.poll]
    <3>1. u = [c.t EXCEPT !.air = "ACK"]
      BY <1>0 DEF IsTransport, TransportFields
    <3>2. d = [c EXCEPT !.t = u, !.k = c.k, !.rc = "OK"]
      BY <1>5, <2>2, <3>1 DEF Begin, Typed, Parts
    <3>3. IsTransport(u) /\ Moves(u, c.t, c.k)
      BY <1>2
    <3> HIDE DEF u, d
    <3> QED
      BY <1>0, <1>1, <3>2, <3>3 DEF d
  <2> QED
    BY <2>1, <2>2
<1>6. CASE ~c.t.reply /\ c.t.txn # "NO"
  <2>0. ~c.t.cancel
    BY <1>6
  <2>1. CASE how = "FAIL" \/ next = "NONE"
    <3> DEFINE u == Complete(c.t, c.k, "ERROR")
    <3>0. c.t.txn = "LEAVE" => next # "NONE"
      BY <1>6 DEF Sealed
    <3>1. d = [c EXCEPT !.t = u, !.rc = "ERROR"]
      BY <1>6, <2>1, <3>0 DEF Begin
    <3>2. IsTransport(u) /\ Moves(u, c.t, c.k)
      BY <1>0, CompleteIs
    <3> HIDE DEF u, d
    <3>3. d = [c EXCEPT !.t = u, !.k = c.k, !.rc = "ERROR"]
      BY <3>1 DEF Typed, Parts
    <3> QED
      BY <1>0, <1>1, <3>2, <3>3 DEF d
  <2>2. CASE how # "FAIL" /\ next # "NONE" /\ c.t.txn = "LEAVE" /\ c.k.phase = "ASSOCIATED"
    <3> DEFINE u == Complete(c.t, c.k, "OK")
               q == [c.k EXCEPT !.phase = "LEFT"]
    <3>1. d = [c EXCEPT !.t = u, !.k = q, !.rc = "OK"]
      BY <1>6, <2>2 DEF Begin, Typed, Parts
    <3>2. IsTransport(u) /\ Moves(u, c.t, c.k)
      BY <1>0, <2>0, CompleteIs
    <3>3. IsOwner(q) /\ q.id = c.k.id /\ q.phase = "LEFT"
      BY <1>4
    <3> HIDE DEF u, q, d
    <3> QED
      BY <1>1, <2>2, <3>1, <3>2, <3>3 DEF d
  <2>3. CASE how # "FAIL" /\ next # "NONE" /\ ~(c.t.txn = "LEAVE" /\ c.k.phase = "ASSOCIATED")
    <3> DEFINE u == [c.t EXCEPT !.air = "TX", !.poll = c.t.poll]
               q == [c.k EXCEPT !.phase = next]
    <3>0. u = [c.t EXCEPT !.air = "TX"]
      BY <1>0 DEF IsTransport, TransportFields
    <3>1. d = [c EXCEPT !.t = u, !.k = q, !.rc = "OK"]
      <4>1. d = [c EXCEPT !.t = [c.t EXCEPT !.air = "TX"], !.k = q]
        BY <1>6, <2>3 DEF Begin
      <4> HIDE DEF u, q, d
      <4> QED
        BY <3>0, <4>1 DEF Typed, Parts
    <3>2. IsTransport(u) /\ Moves(u, c.t, c.k)
      BY <1>2
    <3>3. IsOwner(q) /\ q.id = c.k.id /\ q.phase = next
      BY <1>4
    <3>4. c.t.txn \notin {"KEY", "VERIFY", "REJOIN", "LEAVE"} => next = c.k.phase
      BY <1>6, <2>3, SealedIs
    <3>5. next = "REJOINING" => c.t.txn = "REJOIN" \/ c.k.phase = "REJOINING"
      BY <1>6 DEF Sealed
    <3> HIDE DEF u, q, d, next
    <3>6. q.phase # c.k.phase => /\ c.t.txn \in {"KEY", "VERIFY", "REJOIN", "LEAVE"}
                                 /\ (q.phase = "REJOINING" => c.t.txn = "REJOIN")
      BY <3>3, <3>4, <3>5
    <3> QED
      BY <1>1, <3>1, <3>2, <3>3, <3>6 DEF d
  <2> QED
    BY <2>1, <2>2, <2>3
<1>7. CASE ~c.t.reply /\ c.t.txn = "NO" /\ c.t.poll
  <2> DEFINE air == IF how = "FAIL" THEN "NO" ELSE "POLL"
             u == [c.t EXCEPT !.air = air, !.poll = FALSE]
  <2>1. d = [c EXCEPT !.t = u, !.k = c.k, !.rc = "OK"]
    <3>1. d = [c EXCEPT !.t = [c.t EXCEPT !.poll = FALSE, !.air = air]]
      BY <1>7 DEF Begin
    <3>2. [c.t EXCEPT !.poll = FALSE, !.air = air] = u
      BY <1>0 DEF IsTransport, TransportFields
    <3> HIDE DEF u, d
    <3> QED
      BY <3>1, <3>2 DEF Typed, Parts
  <2>2. IsTransport(u) /\ Moves(u, c.t, c.k)
    BY <1>2
  <2> HIDE DEF u, d
  <2> QED
    BY <1>0, <1>1, <2>1, <2>2 DEF d
<1>8. CASE ~c.t.reply /\ c.t.txn = "NO" /\ ~c.t.poll
  <2>1. d = [c EXCEPT !.t = c.t, !.k = c.k, !.rc = "OK"]
    BY <1>8 DEF Begin, Typed, Parts
  <2> QED
    BY <1>0, <1>1, <1>3, <2>1
<1> QED
  BY <1>5, <1>6, <1>7, <1>8

\* nwk_aps_step
LEMMA TransportStepIs ==
  ASSUME NEW c, Typed(c), NEW how \in {"STAY", "GO", "SENT", "FAIL", "FAULT"}
  PROVE  LET d == TransportStep(c, how) IN
         /\ Typed(d) /\ d.b = c.b /\ d.z = c.z /\ d.due = c.due
         /\ d.rc \in {"OK", "ERROR", "FAULT"}
         /\ d.rc = "FAULT" => ~d.t.ready
         /\ Moves(d.t, c.t, c.k)
         /\ d.k.id = c.k.id
         /\ d.k.phase # c.k.phase => c.t.txn \in {"KEY", "VERIFY", "REJOIN", "LEAVE"} /\ ~c.t.cancel
                /\ (d.k.phase = "REJOINING" => c.t.txn = "REJOIN")
<1> DEFINE d == TransportStep(c, how)
           ok == [c EXCEPT !.rc = "OK"]
           ends == IF c.t.cancel THEN "CANCELLED" ELSE IF how = "GO" THEN "OK" ELSE "RADIO"
           free == IF c.t.cancel /\ c.t.txn # "NO" THEN [ok EXCEPT !.t = Complete(c.t, c.k, "CANCELLED")]
                   ELSE ok
<1>0. IsTransport(c.t) /\ IsOwner(c.k)
  BY DEF Typed
<1>1. ASSUME NEW u, NEW rc \in {"OK", "ERROR", "FAULT"}, d = [c EXCEPT !.t = u, !.rc = rc],
             IsTransport(u), Moves(u, c.t, c.k), rc = "FAULT" => ~u.ready
      PROVE  /\ Typed(d) /\ d.b = c.b /\ d.z = c.z /\ d.due = c.due
             /\ d.rc \in {"OK", "ERROR", "FAULT"}
             /\ d.rc = "FAULT" => ~d.t.ready
             /\ Moves(d.t, c.t, c.k)
             /\ d.k.id = c.k.id
             /\ d.k.phase # c.k.phase => c.t.txn \in {"KEY", "VERIFY", "REJOIN", "LEAVE"} /\ ~c.t.cancel
                    /\ (d.k.phase = "REJOINING" => c.t.txn = "REJOIN")
  <2> HIDE DEF d
  <2>1. /\ d = [f \in Parts |-> d[f]]
        /\ d.b = c.b /\ d.z = c.z /\ d.due = c.due /\ d.t = u /\ d.k = c.k /\ d.rc = rc
    BY <1>1 DEF Typed, Parts
  <2> QED
    BY <1>1, <2>1 DEF Typed
<1>2. ASSUME NEW u, IsTransport(u), Moves(u, c.t, c.k),
             NEW w, w = [f \in TransportFields |-> w[f]],
             Alike(w, u, TransportFields, {"air", "reply", "poll", "stopping", "cancel"}),
             w.cancel = u.cancel \/ (w.cancel = FALSE /\ u.txn = "NO")
      PROVE  IsTransport(w) /\ Moves(w, c.t, c.k)
  <2>1. /\ w.ready = u.ready /\ w.announced = u.announced
        /\ w.permit = u.permit /\ w.rx = u.rx /\ w.txn = u.txn /\ w.done = u.done
    BY <1>2 DEF Alike, TransportFields
  <2>2. IsTransport(w)
    BY <1>2, <2>1 DEF IsTransport
  <2>3. Moves(w, c.t, c.k)
    BY <1>2, <2>1 DEF Moves
  <2> QED
    BY <2>2, <2>3
<1>3. Moves(c.t, c.t, c.k)
  BY <1>0 DEF Moves
<1>4. CASE c.t.air # "NO" /\ how = "STAY"
  <2>1. d = [c EXCEPT !.t = c.t, !.rc = "OK"]
    BY <1>4 DEF TransportStep, Typed, Parts
  <2> QED
    BY <1>0, <1>1, <1>3, <2>1
<1>5. CASE c.t.air # "NO" /\ how = "FAULT"
  <2> DEFINE u == [c.t EXCEPT !.ready = FALSE]
  <2>1. d = [ok EXCEPT !.rc = "FAULT", !.t = u]
    BY <1>5 DEF TransportStep
  <2>2. u = [f \in TransportFields |-> u[f]] /\ Alike(u, c.t, TransportFields, {"ready"})
        /\ u.ready = FALSE
    BY <1>0 DEF IsTransport, Alike, TransportFields
  <2> HIDE DEF u, d
  <2>3. d = [c EXCEPT !.t = u, !.rc = "FAULT"]
    BY <2>1 DEF Typed, Parts
  <2>4. /\ u.cancel = c.t.cancel /\ u.announced = c.t.announced
        /\ u.permit = c.t.permit /\ u.rx = c.t.rx /\ u.txn = c.t.txn /\ u.done = c.t.done
    BY <2>2 DEF Alike, TransportFields
  <2>5. IsTransport(u) /\ Moves(u, c.t, c.k)
    BY <1>0, <2>2, <2>4 DEF IsTransport, Moves
  <2> QED
    BY <1>1, <2>2, <2>3, <2>5 DEF d
<1>6. CASE c.t.air # "NO" /\ how \in {"GO", "FAIL", "SENT"}
           /\ (c.t.air \notin {"TX", "SENT"} \/ how = "SENT")
           /\ c.t.air \in {"TX", "SENT", "ACK", "POLL"}
  <2> DEFINE u == [c.t EXCEPT !.air = IF c.t.air \in {"TX", "SENT"} THEN "SENT" ELSE "NO",
                              !.reply = IF c.t.air = "ACK" THEN FALSE ELSE @]
  <2>1. d = [ok EXCEPT !.t = u]
    <3>1. CASE c.t.air \in {"TX", "SENT"}
      <4>1. d = [ok EXCEPT !.t = [c.t EXCEPT !.air = "SENT"]]
        BY <1>6, <3>1 DEF TransportStep
      <4>2. u = [c.t EXCEPT !.air = "SENT"]
        BY <1>0, <3>1 DEF IsTransport, TransportFields
      <4> QED
        BY <4>1, <4>2
    <3>2. CASE c.t.air = "ACK"
      <4>1. d = [ok EXCEPT !.t = [c.t EXCEPT !.air = "NO", !.reply = FALSE]]
        BY <1>6, <3>2 DEF TransportStep
      <4>2. u = [c.t EXCEPT !.air = "NO", !.reply = FALSE]
        BY <1>0, <3>2 DEF IsTransport, TransportFields
      <4> QED
        BY <4>1, <4>2
    <3>3. CASE c.t.air = "POLL"
      <4>1. d = [ok EXCEPT !.t = [c.t EXCEPT !.air = "NO"]]
        BY <1>6, <3>3 DEF TransportStep
      <4>2. u = [c.t EXCEPT !.air = "NO"]
        BY <1>0, <3>3 DEF IsTransport, TransportFields
      <4> QED
        BY <4>1, <4>2
    <3> QED
      BY <1>6, <3>1, <3>2, <3>3
  <2>2. /\ u = [f \in TransportFields |-> u[f]]
        /\ Alike(u, c.t, TransportFields, {"air", "reply", "poll", "stopping", "cancel"})
        /\ u.cancel = c.t.cancel
    BY <1>0 DEF IsTransport, Alike, TransportFields
  <2> HIDE DEF u, d
  <2>3. d = [c EXCEPT !.t = u, !.rc = "OK"]
    BY <2>1 DEF Typed, Parts
  <2>4. IsTransport(u) /\ Moves(u, c.t, c.k)
    BY <1>0, <1>2, <1>3, <2>2
  <2> QED
    BY <1>1, <2>3, <2>4 DEF d
<1>7. CASE c.t.air \in {"TX", "SENT"} /\ how \in {"GO", "FAIL"}
  <2> DEFINE v == Complete(c.t, c.k, ends)
             u == [v EXCEPT !.air = "NO"]
  <2>1. d = [ok EXCEPT !.t = u]
    BY <1>7 DEF TransportStep
  <2>2. IsTransport(v) /\ Moves(v, c.t, c.k)
    BY <1>0, CompleteIs
  <2> HIDE DEF v
  <2>3. /\ u = [f \in TransportFields |-> u[f]]
        /\ Alike(u, v, TransportFields, {"air", "reply", "poll", "stopping", "cancel"})
        /\ u.cancel = v.cancel
    BY <2>2 DEF IsTransport, Alike, TransportFields
  <2> HIDE DEF u, d
  <2>4. d = [c EXCEPT !.t = u, !.rc = "OK"]
    BY <2>1 DEF Typed, Parts
  <2>5. IsTransport(u) /\ Moves(u, c.t, c.k)
    BY <1>2, <2>2, <2>3
  <2> QED
    BY <1>1, <2>4, <2>5 DEF d
<1>8. CASE c.t.air = "NO" /\ c.t.stopping
  <2> DEFINE v == IF c.t.txn # "NO" THEN Complete(c.t, c.k, "CANCELLED") ELSE c.t
             u == [v EXCEPT !.reply = FALSE, !.poll = FALSE, !.stopping = FALSE, !.cancel = FALSE]
  <2>1. d = [ok EXCEPT !.t = u]
    BY <1>8 DEF TransportStep
  <2>2. IsTransport(v) /\ Moves(v, c.t, c.k) /\ v.txn = "NO"
    BY <1>0, <1>3, CompleteIs
  <2> HIDE DEF v
  <2>3. /\ u = [f \in TransportFields |-> u[f]]
        /\ Alike(u, v, TransportFields, {"air", "reply", "poll", "stopping", "cancel"})
        /\ u.cancel = FALSE
    BY <2>2 DEF IsTransport, Alike, TransportFields
  <2> HIDE DEF u, d
  <2>4. d = [c EXCEPT !.t = u, !.rc = "OK"]
    BY <2>1 DEF Typed, Parts
  <2>5. IsTransport(u) /\ Moves(u, c.t, c.k)
    BY <1>2, <2>2, <2>3
  <2> QED
    BY <1>1, <2>4, <2>5 DEF d
<1>9. CASE /\ ~(c.t.air # "NO" /\ how \in {"STAY", "FAULT"})
           /\ c.t.air \notin {"TX", "SENT", "ACK", "POLL"}
           /\ ~(c.t.air = "NO" /\ c.t.stopping)
  <2> DEFINE u == IF c.t.cancel /\ c.t.txn # "NO" THEN Complete(c.t, c.k, "CANCELLED") ELSE c.t
  <2>1. d = Begin(free, how)
    BY <1>9 DEF TransportStep
  <2>2. free = [ok EXCEPT !.t = u]
    BY DEF Typed, Parts
  <2>3. IsTransport(u) /\ Moves(u, c.t, c.k) /\ (u.cancel => u.txn = "NO")
        /\ (u.txn # "NO" => u.txn = c.t.txn /\ ~c.t.cancel /\ u = c.t)
    BY <1>0, <1>3, CompleteIs
  <2> HIDE DEF u, free, d
  <2>4. /\ free = [f \in Parts |-> free[f]]
        /\ free.b = c.b /\ free.z = c.z /\ free.t = u /\ free.k = c.k /\ free.due = c.due
        /\ free.rc = "OK"
    BY <2>2 DEF Typed, Parts
  <2>5. Typed(free)
    BY <2>3, <2>4 DEF Typed
  <2>6. /\ Typed(d) /\ d.b = free.b /\ d.z = free.z /\ d.due = free.due
        /\ d.rc \in {"OK", "ERROR"}
        /\ Moves(d.t, free.t, free.k)
        /\ d.k.id = free.k.id
        /\ d.k.phase # free.k.phase => free.t.txn \in {"KEY", "VERIFY", "REJOIN", "LEAVE"}
               /\ (d.k.phase = "REJOINING" => free.t.txn = "REJOIN")
    BY <2>1, <2>3, <2>4, <2>5, BeginIs
  <2>7. Moves(d.t, c.t, c.k)
    BY <2>3, <2>4, <2>6 DEF Moves
  <2> QED
    BY <2>3, <2>4, <2>6, <2>7 DEF d
<1> QED
  BY <1>4, <1>5, <1>6, <1>7, <1>8, <1>9

LEMMA TransportKeeps ==
  ASSUME NEW c, NEW g, NEW r, NEW how \in {"STAY", "GO", "SENT", "FAIL", "FAULT"},
         Good(c, g, r, "NONE"), c.b.phase \notin Over
  PROVE  LET d == TransportStep(c, how) IN
         /\ Good(d, g, r, "NONE")
         /\ d.b = c.b /\ d.z = c.z /\ d.rc \in {"OK", "ERROR", "FAULT"}
         /\ d.rc = "FAULT" => ~d.t.ready
<1> DEFINE d == TransportStep(c, how)
<1>1. /\ Typed(d) /\ d.b = c.b /\ d.z = c.z /\ d.due = c.due
      /\ d.rc \in {"OK", "ERROR", "FAULT"}
      /\ d.rc = "FAULT" => ~d.t.ready
      /\ Moves(d.t, c.t, c.k)
      /\ d.k.id = c.k.id
      /\ d.k.phase # c.k.phase => c.t.txn \in {"KEY", "VERIFY", "REJOIN", "LEAVE"} /\ ~c.t.cancel
             /\ (d.k.phase = "REJOINING" => c.t.txn = "REJOIN")
  BY TransportStepIs DEF Good
<1> HIDE DEF d
<1>2. d.k.phase # c.k.phase => /\ c.b.phase \in {"REQUESTING", "VERIFYING", "RECOVERING", "LEAVING"} \cup Over
                               /\ d.k.phase = "REJOINING" => c.b.phase = "RECOVERING" /\ c.b.recovery # 0
  BY <1>1 DEF Good, Slot, Bound, Homes, Stages, Over
<1>3. d.t.ready /\ ~c.t.ready => /\ c.b.phase \in {"PERMIT"} \cup Over
                                 /\ c.t.txn = "PERMIT" /\ ~c.t.cancel /\ c.k.phase = "VERIFIED"
  BY <1>1 DEF Good, Slot, Moves, Bound, Homes
<1>4. Slot(d.b, d.t)
  <2>1. (d.t.done # "NO" => d.t.txn = "NO")
        /\ (d.t.txn \in Bound /\ ~d.t.cancel => d.b.phase = Homes[d.t.txn] \/ d.b.phase \in Over)
    BY <1>1 DEF Good, Slot, Moves, Bound
  <2>2. d.t.ready => d.b.phase \in {"PERMIT", "READY"} /\ d.t.announced /\ (d.t.permit \/ d.b.recovery = 3)
    BY <1>1, <1>3 DEF Good, Slot, Moves
  <2> QED
    BY <2>1, <2>2 DEF Slot
<1>5. Placed(d.b, d.t, d.k, r, "NONE")
  <2>1. c.b.phase = "PERMIT" /\ c.t.txn = "PERMIT" /\ ~c.t.cancel =>
          r.id = c.k.id /\ ~Waits(c.t, "NONE", "UPDATE") /\ ~Waits(c.t, "NONE", "LEAVE")
    BY DEF Good, Placed, Joining, BeforeReady
  <2>2. d.t.rx = c.t.rx /\ (d.t.txn = "PERMIT" => c.t.txn = "PERMIT" /\ d.t.cancel = c.t.cancel)
    BY <1>1 DEF Moves
  <2>3. c.b.phase \in {"ANNOUNCING", "PARENT", "PERMIT", "READY"} => d.k.phase = c.k.phase
    BY <1>2 DEF Over
  <2>4. /\ d.t.ready => c.b.phase \in {"PERMIT", "READY"}
        /\ BindingsAlone /\ d.t.ready => c.k.phase = "VERIFIED" /\ r.id = c.k.id
                                       /\ ~Waits(c.t, "NONE", "UPDATE") /\ ~Waits(c.t, "NONE", "LEAVE")
    BY <1>3, <2>1 DEF Good, Slot, Placed
  <2> QED
    BY <1>1, <1>2, <2>2, <2>3, <2>4 DEF Good, Placed, Waits, Joining, BeforeReady
<1>6. Timed(d.b, d.t, g, "NONE") /\ Heard(d.b, d.z, d.t, g)
  BY <1>1 DEF Good, Timed, Heard, Moves, Waits
<1> QED
  BY <1>1, <1>4, <1>5, <1>6 DEF Good, d

(*** zdo_runtime_step.                                                         ***)

\* What the runtime leaves alone, whatever it does.
Runs(d, c) ==
  /\ Typed(d) /\ d.b = c.b /\ d.k = c.k /\ d.due = c.due
  /\ d.z.query = c.z.query
  /\ Steady(d.t, c.t)

LEMMA RunsOn ==
  ASSUME NEW c, NEW d, NEW e, Runs(d, c), Runs(e, d)
  PROVE  Runs(e, c)
BY DEF Runs, Steady, Plain

LEMMA ConfirmedIs ==
  ASSUME NEW c, Typed(c), c.rc = "OK"
  PROVE  LET d == Confirmed(c) IN
         /\ Runs(d, c) /\ d.t.rx = c.t.rx /\ d.z.app = c.z.app /\ d.z.event = c.z.event
         /\ d.rc \in {"OK", "LEAVE", "DROPPED"}
         /\ d.rc # "OK" => d.z.txdone = c.z.txdone /\ d.z.result = c.z.result
<1> DEFINE res == c.t.done
           T == [c.t EXCEPT !.done = "NO"]
           told == IF res # "OK" /\ c.z.result \notin {"TIMEOUT", "CANCELLED"}
                   THEN IF res = "CANCELLED" THEN "CANCELLED" ELSE "TRANSMIT" ELSE c.z.result
           Q == [c.z EXCEPT !.qtx = FALSE, !.txdone = TRUE, !.result = told]
           R == [c.z EXCEPT !.rtx = FALSE, !.leave = FALSE]
           rc == IF c.z.leave THEN "LEAVE" ELSE IF res # "OK" THEN "DROPPED" ELSE "OK"
           d == Confirmed(c)
<1>1. \/ d = c
      \/ d = [c EXCEPT !.t = T, !.z = Q]
      \/ d = [c EXCEPT !.t = T, !.z = R, !.rc = rc]
  BY DEF Confirmed
<1>2. T = [f \in TransportFields |-> T[f]] /\ Alike(T, c.t, TransportFields, {"done"}) /\ T.done = "NO"
  BY DEF Typed, IsTransport, Alike, TransportFields
<1>3. /\ Q = [f \in ZdoFields |-> Q[f]]
      /\ Alike(Q, c.z, ZdoFields, {"qtx", "txdone", "result"}) /\ Q.txdone = TRUE
  BY DEF Typed, IsZdo, Alike, ZdoFields
<1>4. R = [f \in ZdoFields |-> R[f]] /\ Alike(R, c.z, ZdoFields, {"rtx", "leave"})
  BY DEF Typed, IsZdo, Alike, ZdoFields
<1>5. rc \in {"OK", "LEAVE", "DROPPED"}
  OBVIOUS
<1> HIDE DEF T, Q, R, rc, d
<1>6. IsTransport(T) /\ Steady(T, c.t) /\ T.rx = c.t.rx
  <2>1. /\ T.cancel = c.t.cancel /\ T.ready = c.t.ready /\ T.announced = c.t.announced
        /\ T.permit = c.t.permit /\ T.rx = c.t.rx /\ T.txn = c.t.txn
    BY <1>2 DEF Alike, TransportFields
  <2> QED
    BY <1>2, <2>1 DEF Typed, IsTransport, Steady
<1>7. IsZdo(Q) /\ Q.query = c.z.query /\ Q.app = c.z.app /\ Q.event = c.z.event
  BY <1>3 DEF Typed, IsZdo, Alike, ZdoFields
<1>8. IsZdo(R) /\ R.query = c.z.query /\ R.app = c.z.app /\ R.event = c.z.event
      /\ R.txdone = c.z.txdone /\ R.result = c.z.result
  BY <1>4 DEF Typed, IsZdo, Alike, ZdoFields
<1>9. CASE d = c
  BY <1>9 DEF d, Runs, Steady
<1>10. CASE d = [c EXCEPT !.t = T, !.z = Q]
  <2>1. /\ d = [f \in Parts |-> d[f]]
        /\ d.b = c.b /\ d.z = Q /\ d.t = T /\ d.k = c.k /\ d.due = c.due /\ d.rc = "OK"
    BY <1>10 DEF Typed, Parts
  <2> QED
    BY <1>6, <1>7, <2>1 DEF Typed, Runs, d
<1>11. CASE d = [c EXCEPT !.t = T, !.z = R, !.rc = rc]
  <2>1. /\ d = [f \in Parts |-> d[f]]
        /\ d.b = c.b /\ d.z = R /\ d.t = T /\ d.k = c.k /\ d.due = c.due /\ d.rc = rc
    BY <1>11 DEF Typed, Parts
  <2> QED
    BY <1>5, <1>6, <1>8, <2>1 DEF Typed, Runs, d
<1> QED
  BY <1>1, <1>9, <1>10, <1>11

LEMMA RespondIs ==
  ASSUME NEW c, Typed(c), NEW wrap, c.rc # "ENDED"
  PROVE  LET d == Respond(c, wrap) IN
         /\ Runs(d, c) /\ d.t.rx = c.t.rx /\ d.rc # "ENDED"
         /\ Alike(d.z, c.z, ZdoFields, {"pending", "leave", "rtx"})
<1> DEFINE q == Queued(c, "RESPONSE", wrap)
           P == [c.z EXCEPT !.pending = FALSE, !.leave = FALSE]
           R == [q.z EXCEPT !.pending = FALSE, !.rtx = TRUE]
           rc == IF c.z.leave THEN "LEAVE" ELSE "DROPPED"
           d == Respond(c, wrap)
<1>1. /\ Typed(q)
      /\ q.b = c.b /\ q.z = c.z /\ q.k = c.k /\ q.due = c.due
      /\ \/ /\ q.rc = "OK" /\ q.t.txn = "RESPONSE" /\ ~q.t.cancel
            /\ Alike(q.t, c.t, TransportFields, {"txn", "cancel"})
            /\ c.t.txn = "NO" /\ c.t.done = "NO"
         \/ q.rc \in {"FULL", "EXHAUSTED"} /\ q.t = c.t
  BY QueuedIs DEF Plain
<1>2. \/ d = c
      \/ d = [c EXCEPT !.z = P, !.rc = rc]
      \/ d = [c EXCEPT !.rc = "FULL"]
      \/ d = [q EXCEPT !.rc = c.rc, !.z = R]
  BY DEF Respond
<1>3. P = [f \in ZdoFields |-> P[f]] /\ Alike(P, c.z, ZdoFields, {"pending", "leave", "rtx"})
  BY DEF Typed, IsZdo, Alike, ZdoFields
<1>4. R = [f \in ZdoFields |-> R[f]] /\ Alike(R, c.z, ZdoFields, {"pending", "leave", "rtx"})
  BY <1>1 DEF Typed, IsZdo, Alike, ZdoFields
<1>5. rc # "ENDED"
  OBVIOUS
<1> HIDE DEF q, P, R, rc, d
<1>6. IsZdo(P) /\ P.query = c.z.query
  BY <1>3 DEF Typed, IsZdo, Alike, ZdoFields
<1>7. IsZdo(R) /\ R.query = c.z.query
  BY <1>4 DEF Typed, IsZdo, Alike, ZdoFields
<1>8. Steady(q.t, c.t) /\ q.t.rx = c.t.rx /\ Steady(c.t, c.t)
  BY <1>1 DEF Steady, Plain, Alike, TransportFields
<1>9. CASE d = c
  BY <1>8, <1>9 DEF d, Runs, Alike
<1>10. CASE d = [c EXCEPT !.z = P, !.rc = rc]
  <2>1. /\ d = [f \in Parts |-> d[f]]
        /\ d.b = c.b /\ d.z = P /\ d.t = c.t /\ d.k = c.k /\ d.due = c.due /\ d.rc = rc
    BY <1>10 DEF Typed, Parts
  <2> QED
    BY <1>3, <1>5, <1>6, <1>8, <2>1 DEF Typed, Runs, d
<1>11. CASE d = [c EXCEPT !.rc = "FULL"]
  <2>1. /\ d = [f \in Parts |-> d[f]]
        /\ d.b = c.b /\ d.z = c.z /\ d.t = c.t /\ d.k = c.k /\ d.due = c.due /\ d.rc = "FULL"
    BY <1>11 DEF Typed, Parts
  <2> QED
    BY <1>8, <2>1 DEF Typed, Runs, Alike, d
<1>12. CASE d = [q EXCEPT !.rc = c.rc, !.z = R]
  <2>1. /\ d = [f \in Parts |-> d[f]]
        /\ d.b = c.b /\ d.z = R /\ d.t = q.t /\ d.k = c.k /\ d.due = c.due /\ d.rc = c.rc
    BY <1>1, <1>12 DEF Typed, Parts
  <2> QED
    BY <1>1, <1>4, <1>7, <1>8, <2>1 DEF Typed, Runs, d
<1> QED
  BY <1>2, <1>9, <1>10, <1>11, <1>12

\* What a frame other than a key event does to the bundle.
Notes(d, c) ==
  /\ Typed(d) /\ d.b = c.b /\ d.k = c.k /\ d.due = c.due /\ d.rc # "ENDED"
  /\ Alike(d.z, c.z, ZdoFields, {"result", "info", "tc", "pending", "leave", "map", "conflict"})
  /\ d.t = c.t \/ d.t = [c.t EXCEPT !.ready = FALSE]

LEMMA NotesIs ==
  ASSUME NEW c, Typed(c), NEW d, NEW Z, NEW T, NEW rc, rc # "ENDED",
         d = [c EXCEPT !.z = Z, !.t = T, !.rc = rc], T = c.t \/ T = [c.t EXCEPT !.ready = FALSE],
         Z = [f \in ZdoFields |-> Z[f]],
         Alike(Z, c.z, ZdoFields, {"result", "info", "tc", "pending", "leave", "map", "conflict"})
  PROVE  Notes(d, c)
<1>1. /\ d = [f \in Parts |-> d[f]]
      /\ d.b = c.b /\ d.z = Z /\ d.t = T /\ d.k = c.k /\ d.due = c.due /\ d.rc = rc
  BY DEF Typed, Parts
<1>2. IsTransport(T)
  <2>1. CASE T = c.t
    BY <2>1 DEF Typed
  <2>2. CASE T = [c.t EXCEPT !.ready = FALSE]
    <3>1. T = [f \in TransportFields |-> T[f]] /\ Alike(T, c.t, TransportFields, {"ready"})
          /\ T.ready = FALSE
      BY <2>2 DEF Typed, IsTransport, Alike, TransportFields
    <3> QED
      BY <3>1 DEF Typed, IsTransport, Alike, TransportFields
  <2> QED
    BY <2>1, <2>2
<1>3. IsZdo(Z)
  BY DEF Typed, IsZdo, Alike, ZdoFields
<1> QED
  BY <1>1, <1>2, <1>3 DEF Typed, Notes

LEMMA RespondedIs ==
  ASSUME NEW c, Typed(c), c.rc = "OK", NEW f
  PROVE  Notes(Responded(c, f), c)
<1> DEFINE which == IF f.kind = "PARENT_RSP" THEN "PARENT" ELSE "NODE"
           Z == [c.z EXCEPT !.result = IF f.arg = "REFUSED" THEN "REMOTE" ELSE "OK",
                            !.info = IF which = "PARENT" /\ f.arg # "REFUSED" THEN f.arg ELSE @,
                            !.tc = IF which = "NODE" /\ f.arg # "REFUSED" THEN f.arg ELSE @]
           d == Responded(c, f)
<1>1. d = [c EXCEPT !.rc = "IGNORED"] \/ d = [c EXCEPT !.z = Z]
  BY DEF Responded
<1>2. /\ Z = [x \in ZdoFields |-> Z[x]]
      /\ Alike(Z, c.z, ZdoFields, {"result", "info", "tc", "pending", "leave", "map", "conflict"})
  BY DEF Typed, IsZdo, Alike, ZdoFields
<1>3. /\ c.z = [x \in ZdoFields |-> c.z[x]]
      /\ Alike(c.z, c.z, ZdoFields, {"result", "info", "tc", "pending", "leave", "map", "conflict"})
  BY DEF Typed, IsZdo, Alike
<1> HIDE DEF Z, d
<1>4. d = [c EXCEPT !.z = c.z, !.t = c.t, !.rc = "IGNORED"] \/ d = [c EXCEPT !.z = Z, !.t = c.t, !.rc = "OK"]
  BY <1>1 DEF Typed, Parts
<1> QED
  BY <1>2, <1>3, <1>4, NotesIs DEF d

LEMMA AnswerIs ==
  ASSUME NEW c, Typed(c), c.rc = "OK", NEW req
  PROVE  Notes(Answer(c, req), c)
<1> DEFINE what == CASE req.cluster \in {"NWK_ADDR", "IEEE_ADDR"} -> ServeAddress(req)
                     [] req.cluster = "MGMT_LEAVE" -> ServeLeave(req)
                     [] OTHER -> Serve(req)
           Z == [c.z EXCEPT !.pending = TRUE, !.leave = IF req.cluster = "MGMT_LEAVE" THEN req.mine ELSE @]
           d == Answer(c, req)
<1>0. what # "ENDED"
  <2>1. ServeAddress(req) # "ENDED"
    BY DEF ServeAddress
  <2>2. ServeLeave(req) # "ENDED"
    BY DEF ServeLeave
  <2>3. Serve(req) # "ENDED"
    BY DEF Serve
  <2> QED
    BY <2>1, <2>2, <2>3
<1>1. \/ d = [c EXCEPT !.rc = "DROPPED"]
      \/ d = [c EXCEPT !.z = Z]
      \/ d = [c EXCEPT !.rc = what]
  BY DEF Answer
<1>2. /\ Z = [x \in ZdoFields |-> Z[x]]
      /\ Alike(Z, c.z, ZdoFields, {"result", "info", "tc", "pending", "leave", "map", "conflict"})
  BY DEF Typed, IsZdo, Alike, ZdoFields
<1>3. /\ c.z = [x \in ZdoFields |-> c.z[x]]
      /\ Alike(c.z, c.z, ZdoFields, {"result", "info", "tc", "pending", "leave", "map", "conflict"})
  BY DEF Typed, IsZdo, Alike
<1> HIDE DEF Z, d, what
<1>4. \/ d = [c EXCEPT !.z = c.z, !.t = c.t, !.rc = "DROPPED"]
      \/ d = [c EXCEPT !.z = Z, !.t = c.t, !.rc = "OK"]
      \/ d = [c EXCEPT !.z = c.z, !.t = c.t, !.rc = what]
  BY <1>1 DEF Typed, Parts
<1> QED
  BY <1>0, <1>2, <1>3, <1>4, NotesIs DEF d

LEMMA AnnouncedIs ==
  ASSUME NEW c, Typed(c), c.rc = "OK", NEW a
  PROVE  Notes(Announced(c, a), c)
<1> DEFINE known == IF c.z.map # <<>> THEN c.z.map
                    ELSE [i \in 1..MAP_SIZE |->
                            CASE i = 1 -> [ieee |-> "own", address |-> "own", valid |-> TRUE]
                              [] i = 2 -> [ieee |-> "tc", address |-> "tc", valid |-> TRUE]
                              [] OTHER -> [ieee |-> "NONE", address |-> "NONE", valid |-> FALSE]]
           rivals == {i \in 1..MAP_SIZE : known[i].valid /\ known[i].ieee # a.ieee /\ known[i].address = a.address}
           cleared == [i \in 1..MAP_SIZE |-> IF i \in rivals THEN [known[i] EXCEPT !.valid = FALSE] ELSE known[i]]
           found == {i \in 1..MAP_SIZE : known[i].ieee = a.ieee}
           free == {i \in 1..MAP_SIZE : known[i].ieee = "NONE"}
           into == IF found # {} THEN found ELSE {i \in free : \A j \in free : j <= i}
           conflict == c.z.conflict \/ rivals \cap {1, 2} # {}
                       \/ \E i \in found \cap {1, 2} : known[i].address # a.address
           map == [i \in 1..MAP_SIZE |->
                     IF i \in into THEN [ieee |-> a.ieee, address |-> a.address, valid |-> TRUE] ELSE cleared[i]]
           Y == [c.z EXCEPT !.map = cleared, !.conflict = conflict]
           e == [c EXCEPT !.z = Y]
           d == Announced(c, a)
<1>1. \/ d = [e EXCEPT !.t = [e.t EXCEPT !.ready = FALSE], !.rc = "CONFLICT"]
      \/ d = e
      \/ d = [e EXCEPT !.rc = "FULL"]
      \/ d = [e EXCEPT !.z = [e.z EXCEPT !.map = map]]
  <2> HIDE DEF conflict, into, cleared, map
  <2>1. d = CASE conflict -> [e EXCEPT !.t.ready = FALSE, !.rc = "CONFLICT"]
              [] ~conflict /\ a.ieee = "unknown" -> e
              [] ~conflict /\ a.ieee # "unknown" /\ into = {} -> [e EXCEPT !.rc = "FULL"]
              [] OTHER -> [e EXCEPT !.z.map = map]
    BY Zenon DEF Announced, conflict, into, cleared, map
  <2> QED
    BY <2>1
<1> HIDE DEF cleared, conflict, map, into
<1>2. /\ Y = [x \in ZdoFields |-> Y[x]]
      /\ Alike(Y, c.z, ZdoFields, {"result", "info", "tc", "pending", "leave", "map", "conflict"})
  BY DEF Typed, IsZdo, Alike, ZdoFields
<1> DEFINE W == [Y EXCEPT !.map = map]
           T == [c.t EXCEPT !.ready = FALSE]
<1>3. /\ W = [x \in ZdoFields |-> W[x]]
      /\ Alike(W, c.z, ZdoFields, {"result", "info", "tc", "pending", "leave", "map", "conflict"})
  <2> HIDE DEF Y
  <2> QED
    BY <1>2 DEF Alike, ZdoFields
<1>4. e.t = c.t /\ e.z = Y /\ e.rc = "OK"
  BY DEF Typed, Parts
<1>5. \/ d = [e EXCEPT !.t = T, !.rc = "CONFLICT"]
      \/ d = e
      \/ d = [e EXCEPT !.rc = "FULL"]
      \/ d = [e EXCEPT !.z = W]
  BY <1>1, <1>4
<1> HIDE DEF Y, W, T, d
<1>6. \/ d = [c EXCEPT !.z = Y, !.t = T, !.rc = "CONFLICT"]
      \/ d = [c EXCEPT !.z = Y, !.t = c.t, !.rc = "OK"]
      \/ d = [c EXCEPT !.z = Y, !.t = c.t, !.rc = "FULL"]
      \/ d = [c EXCEPT !.z = W, !.t = c.t, !.rc = "OK"]
  BY <1>5 DEF Typed, Parts
<1>7. T = c.t \/ T = [c.t EXCEPT !.ready = FALSE]
  BY DEF T
<1> QED
  BY <1>2, <1>3, <1>6, <1>7, NotesIs DEF d

LEMMA ReceivedIs ==
  ASSUME NEW c, Typed(c), c.rc = "OK"
  PROVE  LET d == Received(c) IN
         /\ Runs(d, c) /\ d.t.rx = NoFrame /\ d.rc # "ENDED"
         /\ d.z.event = IF c.t.rx.kind \in SecurityEvents THEN c.t.rx.kind ELSE c.z.event
         /\ d.z.app => c.z.app \/ c.t.rx.kind \in {"APP", "BIND"}
<1> DEFINE f == c.t.rx
           T == [c.t EXCEPT !.rx = NoFrame]
           e == [c EXCEPT !.t = T]
           d == Received(c)
<1>1. /\ T = [x \in TransportFields |-> T[x]] /\ Alike(T, c.t, TransportFields, {"rx"})
      /\ T.rx = NoFrame
  BY DEF Typed, IsTransport, Alike, TransportFields
<1>2. \/ f.kind \in SecurityEvents /\ d = [e EXCEPT !.z = [e.z EXCEPT !.event = f.kind]]
      \/ f.kind \notin SecurityEvents /\ d = Responded(e, f)
      \/ f.kind \in {"APP", "BIND"} /\ d = [e EXCEPT !.z = [e.z EXCEPT !.app = TRUE]]
      \/ f.kind \notin SecurityEvents /\ d = Announced(e, f.arg)
      \/ f.kind \notin SecurityEvents /\ d = Answer(e, f.arg)
  BY DEF Received, SecurityEvents
<1> HIDE DEF T, d
<1>3. IsTransport(T) /\ Steady(T, c.t)
  BY <1>1 DEF Typed, IsTransport, Steady, Alike, TransportFields
<1>4. /\ e = [x \in Parts |-> e[x]]
      /\ e.b = c.b /\ e.z = c.z /\ e.t = T /\ e.k = c.k /\ e.due = c.due /\ e.rc = "OK"
  BY DEF Typed, Parts
<1> HIDE DEF e
<1>5. Typed(e)
  BY <1>3, <1>4 DEF Typed
<1>6. CASE f.kind \in SecurityEvents /\ d = [e EXCEPT !.z = [e.z EXCEPT !.event = f.kind]]
  <2> DEFINE Z == [e.z EXCEPT !.event = f.kind]
  <2>1. Z = [x \in ZdoFields |-> Z[x]] /\ Alike(Z, e.z, ZdoFields, {"event"}) /\ Z.event = f.kind
    BY <1>5 DEF Typed, IsZdo, Alike, ZdoFields
  <2> HIDE DEF Z
  <2>2. /\ d = [x \in Parts |-> d[x]]
        /\ d.b = e.b /\ d.z = Z /\ d.t = e.t /\ d.k = e.k /\ d.due = e.due /\ d.rc = e.rc
    BY <1>5, <1>6 DEF Z, Typed, Parts
  <2>3. IsZdo(Z) /\ Z.query = e.z.query /\ Z.app = e.z.app
    BY <1>5, <2>1 DEF Typed, IsZdo, Alike, ZdoFields
  <2> QED
    BY <1>1, <1>3, <1>4, <1>5, <1>6, <2>1, <2>2, <2>3 DEF Typed, Runs, d
<1>7. CASE f.kind \in {"APP", "BIND"} /\ d = [e EXCEPT !.z = [e.z EXCEPT !.app = TRUE]]
  <2> DEFINE Z == [e.z EXCEPT !.app = TRUE]
  <2>1. Z = [x \in ZdoFields |-> Z[x]] /\ Alike(Z, e.z, ZdoFields, {"app"}) /\ Z.app = TRUE
    BY <1>5 DEF Typed, IsZdo, Alike, ZdoFields
  <2> HIDE DEF Z
  <2>2. /\ d = [x \in Parts |-> d[x]]
        /\ d.b = e.b /\ d.z = Z /\ d.t = e.t /\ d.k = e.k /\ d.due = e.due /\ d.rc = e.rc
    BY <1>5, <1>7 DEF Z, Typed, Parts
  <2>3. IsZdo(Z) /\ Z.query = e.z.query /\ Z.event = e.z.event
    BY <1>5, <2>1 DEF Typed, IsZdo, Alike, ZdoFields
  <2> QED
    BY <1>1, <1>3, <1>4, <1>5, <1>7, <2>1, <2>2, <2>3 DEF Typed, Runs, SecurityEvents, d
<1>8. CASE f.kind \notin SecurityEvents /\ Notes(d, e)
  <2>1. d.z.query = e.z.query /\ d.z.event = e.z.event /\ d.z.app = e.z.app
    BY <1>8 DEF Notes, Alike, ZdoFields
  <2>2. Steady(d.t, c.t) /\ d.t.rx = NoFrame
    <3>1. CASE d.t = e.t
      BY <1>1, <1>3, <1>4, <3>1
    <3>2. CASE d.t = [e.t EXCEPT !.ready = FALSE]
      <4>1. Alike(d.t, e.t, TransportFields, {"ready"}) /\ d.t.ready = FALSE
        BY <1>5, <3>2 DEF Typed, IsTransport, Alike, TransportFields
      <4>2. /\ d.t.cancel = T.cancel /\ d.t.announced = T.announced /\ d.t.done = T.done
            /\ d.t.permit = T.permit /\ d.t.rx = T.rx /\ d.t.txn = T.txn
        BY <1>4, <4>1 DEF Alike, TransportFields
      <4> QED
        BY <1>1, <1>3, <4>1, <4>2 DEF Steady
    <3> QED
      BY <1>8, <3>1, <3>2 DEF Notes
  <2> QED
    BY <1>4, <1>8, <2>1, <2>2 DEF Notes, Runs, d
<1>9. Notes(Responded(e, f), e) /\ Notes(Announced(e, f.arg), e) /\ Notes(Answer(e, f.arg), e)
  BY <1>4, <1>5, RespondedIs, AnnouncedIs, AnswerIs
<1> QED
  BY <1>2, <1>6, <1>7, <1>8, <1>9

\* A step of the runtime takes up the frame that waits, unless the application's
\* slot is taken or a response could not be delivered.
LEMMA ZdoStepIs ==
  ASSUME NEW c, Typed(c), NEW wrap
  PROVE  LET d == ZdoStep(c, wrap) IN
         /\ Runs(d, c) /\ d.rc # "ENDED"
         /\ d.z.app => c.z.app \/ c.t.rx.kind \in {"APP", "BIND"}
         /\ \/ /\ d.t.rx = c.t.rx /\ d.z.event = "NONE"
               /\ \/ c.t.rx.kind = "NONE" \/ d.z.app
                  \/ d.z.txdone = c.z.txdone /\ d.z.result = c.z.result
            \/ d.t.rx = NoFrame /\ d.z.event = IF c.t.rx.kind \in SecurityEvents THEN c.t.rx.kind ELSE "NONE"
<1> DEFINE Z == [c.z EXCEPT !.event = "NONE"]
           a == [c EXCEPT !.z = Z, !.rc = "OK"]
           p == Confirmed(a)
           late == p.z.query # "NO" /\ p.z.result = "NONE" /\ "query" \in p.due
           Y == [p.z EXCEPT !.result = "TIMEOUT"]
           U == IF p.z.qtx THEN Cancel(p.t) ELSE p.t
           e == IF late THEN [p EXCEPT !.z = Y, !.t = U] ELSE p
           f == IF e.t.rx.kind # "NONE" /\ ~e.z.app THEN Received(e) ELSE e
           d == ZdoStep(c, wrap)
<1>1. d = IF p.rc # "OK" THEN p ELSE Respond(f, wrap)
  BY DEF ZdoStep
<1>2. Z = [x \in ZdoFields |-> Z[x]] /\ Alike(Z, c.z, ZdoFields, {"event"}) /\ Z.event = "NONE"
  BY DEF Typed, IsZdo, Alike, ZdoFields
<1> HIDE DEF Z
<1>3. /\ a = [x \in Parts |-> a[x]]
      /\ a.b = c.b /\ a.z = Z /\ a.t = c.t /\ a.k = c.k /\ a.due = c.due /\ a.rc = "OK"
  BY DEF Typed, Parts
<1>4. IsZdo(Z) /\ Z.query = c.z.query /\ Z.app = c.z.app /\ Z.txdone = c.z.txdone /\ Z.result = c.z.result
  BY <1>2 DEF Typed, IsZdo, Alike, ZdoFields
<1> HIDE DEF a
<1>5. Typed(a) /\ Runs(a, c)
  BY <1>3, <1>4 DEF Typed, Runs, Steady
<1>6. /\ Runs(p, a) /\ p.t.rx = a.t.rx /\ p.z.app = a.z.app /\ p.z.event = a.z.event
      /\ p.rc \in {"OK", "LEAVE", "DROPPED"}
      /\ p.rc # "OK" => p.z.txdone = a.z.txdone /\ p.z.result = a.z.result
  BY <1>3, <1>5, ConfirmedIs
<1> HIDE DEF p
<1>7. /\ Runs(p, c) /\ p.t.rx = c.t.rx /\ p.z.app = c.z.app /\ p.z.event = "NONE"
      /\ p.rc # "OK" => p.z.txdone = c.z.txdone /\ p.z.result = c.z.result
  BY <1>2, <1>3, <1>4, <1>5, <1>6, RunsOn
<1>8. CASE p.rc # "OK"
  <2>1. d = p
    BY <1>1, <1>8
  <2> HIDE DEF d
  <2> QED
    BY <1>6, <1>7, <1>8, <2>1 DEF d
<1>9. CASE p.rc = "OK"
  <2>1. Typed(p)
    BY <1>7 DEF Runs
  <2>2. Y = [x \in ZdoFields |-> Y[x]] /\ Alike(Y, p.z, ZdoFields, {"result"})
    BY <2>1 DEF Typed, IsZdo, Alike, ZdoFields
  <2>3. /\ U = [x \in TransportFields |-> U[x]] /\ Alike(U, p.t, TransportFields, {"cancel"})
        /\ U.cancel \in BOOLEAN /\ (p.t.cancel => U.cancel)
    BY <2>1 DEF Typed, IsTransport, Alike, TransportFields, Cancel
  <2> HIDE DEF Y, U
  <2>4. IsZdo(Y) /\ Y.query = p.z.query /\ Y.app = p.z.app /\ Y.event = p.z.event
    BY <2>1, <2>2 DEF Typed, IsZdo, Alike, ZdoFields
  <2>5. IsTransport(U) /\ Steady(U, p.t) /\ U.rx = p.t.rx
    BY <2>1, <2>3 DEF Typed, IsTransport, Steady, Alike, TransportFields
  <2>6. Runs(e, p) /\ e.t.rx = p.t.rx /\ e.z.app = p.z.app /\ e.z.event = p.z.event /\ e.rc = "OK"
    <3>1. CASE late
      <4> HIDE DEF late
      <4>1. /\ e = [x \in Parts |-> e[x]]
            /\ e.b = p.b /\ e.z = Y /\ e.t = U /\ e.k = p.k /\ e.due = p.due /\ e.rc = p.rc
        BY <2>1, <3>1 DEF Typed, Parts
      <4> HIDE DEF e
      <4> QED
        BY <1>9, <2>1, <2>4, <2>5, <4>1 DEF Typed, Runs
    <3>2. CASE ~late
      BY <1>9, <2>1, <3>2 DEF Runs, Steady
    <3> QED
      BY <3>1, <3>2
  <2> HIDE DEF e
  <2>7. Runs(e, c) /\ Typed(e)
    BY <1>7, <2>6, RunsOn DEF Runs
  <2>8. /\ Runs(f, e) /\ f.rc # "ENDED"
        /\ f.z.app => c.z.app \/ c.t.rx.kind \in {"APP", "BIND"}
        /\ \/ /\ f.t.rx = c.t.rx /\ f.z.event = "NONE"
              /\ c.t.rx.kind = "NONE" \/ f.z.app
           \/ f.t.rx = NoFrame /\ f.z.event = IF c.t.rx.kind \in SecurityEvents THEN c.t.rx.kind ELSE "NONE"
    <3>1. CASE e.t.rx.kind # "NONE" /\ ~e.z.app
      <4>1. f = Received(e)
        BY <3>1
      <4>2. /\ Runs(f, e) /\ f.t.rx = NoFrame /\ f.rc # "ENDED"
            /\ f.z.event = IF e.t.rx.kind \in SecurityEvents THEN e.t.rx.kind ELSE e.z.event
            /\ f.z.app => e.z.app \/ e.t.rx.kind \in {"APP", "BIND"}
        BY <2>6, <2>7, <4>1, ReceivedIs
      <4> HIDE DEF f
      <4> QED
        BY <1>7, <2>6, <4>2
    <3>2. CASE ~(e.t.rx.kind # "NONE" /\ ~e.z.app)
      <4>1. f = e
        BY <3>2
      <4> HIDE DEF f
      <4> QED
        BY <1>7, <2>6, <2>7, <3>2, <4>1 DEF Runs, Steady
    <3> QED
      BY <3>1, <3>2
  <2> HIDE DEF f
  <2>9. Typed(f) /\ Runs(f, c)
    BY <2>7, <2>8, RunsOn DEF Runs
  <2>10. d = Respond(f, wrap)
    BY <1>1, <1>9
  <2>11. /\ Runs(d, f) /\ d.t.rx = f.t.rx /\ d.rc # "ENDED"
         /\ Alike(d.z, f.z, ZdoFields, {"pending", "leave", "rtx"})
    BY <2>8, <2>9, <2>10, RespondIs
  <2> HIDE DEF d
  <2>12. d.z.app = f.z.app /\ d.z.event = f.z.event
    BY <2>11 DEF Alike, ZdoFields
  <2>13. Runs(d, c)
    BY <2>9, <2>11, RunsOn
  <2> QED
    BY <2>8, <2>11, <2>12, <2>13 DEF d
<1> QED
  BY <1>8, <1>9

\* What holds of the bundle once the runtime has stepped: the event it took is
\* still to be looked at, and an answer of the parent is taken only when no
\* update or leave waits behind it.
Looked(c, g) ==
  /\ c.z.event = "NETWORK_KEY" /\ c.b.timely => g.key
  /\ c.b.phase = "PARENT" /\ Takeable(c.z) => c.t.rx.kind \notin {"UPDATE", "LEAVE"} \/ c.z.app

LEMMA ZdoKeeps ==
  ASSUME NEW c, NEW g, NEW r, NEW wrap, Good(c, g, r, "NONE"),
         c.b.phase = "PARENT" => ~Takeable(c.z), c.b.phase # "IDLE"
  PROVE  LET d == ZdoStep(c, wrap) IN
         /\ Good(d, g, r, d.z.event) /\ Looked(d, g) /\ d.b = c.b /\ d.rc # "ENDED"
         /\ d.z.event # "NONE" => d.t.rx.kind = "NONE"
<1> DEFINE d == ZdoStep(c, wrap)
<1>1. /\ Runs(d, c) /\ d.rc # "ENDED"
      /\ d.z.app => c.z.app \/ c.t.rx.kind \in {"APP", "BIND"}
      /\ \/ /\ d.t.rx = c.t.rx /\ d.z.event = "NONE"
            /\ \/ c.t.rx.kind = "NONE" \/ d.z.app
               \/ d.z.txdone = c.z.txdone /\ d.z.result = c.z.result
         \/ d.t.rx = NoFrame /\ d.z.event = IF c.t.rx.kind \in SecurityEvents THEN c.t.rx.kind ELSE "NONE"
  BY ZdoStepIs DEF Good
<1> HIDE DEF d
<1>2. /\ Typed(d) /\ d.b = c.b /\ d.k = c.k /\ d.z.query = c.z.query /\ Steady(d.t, c.t)
      /\ NoFrame.kind = "NONE"
  BY <1>1 DEF Runs, NoFrame
<1>3. \A kind \in SecurityEvents : Waits(d.t, d.z.event, kind) <=> Waits(c.t, "NONE", kind)
  BY <1>1, <1>2 DEF Waits, SecurityEvents
<1>4. Slot(d.b, d.t)
  BY <1>2 DEF Good, Slot, Steady, Bound, Plain
<1>5. Placed(d.b, d.t, d.k, r, d.z.event)
  BY <1>1, <1>2, <1>3 DEF Good, Placed, Steady, Plain, SecurityEvents
<1>6. Timed(d.b, d.t, g, d.z.event)
  BY <1>2, <1>3 DEF Good, Timed, SecurityEvents
<1>7. Heard(d.b, d.z, d.t, g)
  BY <1>1, <1>2 DEF Good, Heard
<1>8. Looked(d, g)
  BY <1>1, <1>2, <1>6 DEF Looked, Timed, Waits, Takeable
<1> QED
  BY <1>1, <1>2, <1>4, <1>5, <1>6, <1>7, <1>8 DEF Good, Queries, d

(*** Small steps of runtime().                                                 ***)

Quiet(c) == c.b.phase = "PARENT" => ~Takeable(c.z)

\* What runtime() leaves behind.
Post(c, g, r) == Good(c, g, r, "NONE") /\ Quiet(c) /\ c.b.phase \in Live \cup {"ABORTING"}

LEMMA FailPosts ==
  ASSUME NEW c, NEW g, NEW r, NEW e, NEW result, Good(c, g, r, e),
         result \in {"NO_PARENT", "REJOIN_REFUSED"} => c.b.recovery # 3
  PROVE  Post(Fail(c, result), g, r)
<1> DEFINE d == Fail(c, result)
<1>1. Good(d, g, r, "NONE") /\ d.b.phase = "ABORTING"
  BY FailKeeps
<1> HIDE DEF d
<1>2. Post(d, g, r)
  BY <1>1 DEF Post, Quiet
<1> QED
  BY <1>2 DEF d

LEMMA RcIs ==
  ASSUME NEW c, Typed(c), NEW x
  PROVE  LET d == [c EXCEPT !.rc = x] IN
         /\ Typed(d) /\ d.b = c.b /\ d.z = c.z /\ d.t = c.t /\ d.k = c.k /\ d.due = c.due /\ d.rc = x
<1> DEFINE d == [c EXCEPT !.rc = x]
<1>1. /\ d = [f \in Parts |-> d[f]]
      /\ d.b = c.b /\ d.z = c.z /\ d.t = c.t /\ d.k = c.k /\ d.due = c.due /\ d.rc = x
  BY DEF Typed, Parts
<1> QED
  BY <1>1 DEF Typed

\* Only the bundle's b, z, t and k count.
LEMMA SameKeeps ==
  ASSUME NEW c, NEW d, NEW g, NEW r, NEW e, Good(c, g, r, e), Typed(d),
         d.b = c.b, d.z = c.z, d.t = c.t, d.k = c.k
  PROVE  Good(d, g, r, e)
BY DEF Good

LEMMA RcKeeps ==
  ASSUME NEW c, NEW g, NEW r, NEW e, NEW x, Good(c, g, r, e)
  PROVE  Good([c EXCEPT !.rc = x], g, r, e)
<1> DEFINE d == [c EXCEPT !.rc = x]
<1>1. Typed(d) /\ d.b = c.b /\ d.z = c.z /\ d.t = c.t /\ d.k = c.k
  BY RcIs DEF Good
<1> HIDE DEF d
<1> QED
  BY <1>1, SameKeeps DEF d

LEMMA RcPosts ==
  ASSUME NEW c, NEW g, NEW r, NEW x, Post(c, g, r)
  PROVE  Post([c EXCEPT !.rc = x], g, r)
<1> DEFINE d == [c EXCEPT !.rc = x]
<1>1. Typed(d) /\ d.b = c.b /\ d.z = c.z /\ d.t = c.t /\ d.k = c.k
  BY RcIs DEF Post, Good
<1> HIDE DEF d
<1> QED
  BY <1>1, SameKeeps DEF d, Post, Quiet

\* A deadline that is set anew.
LEMMA SetIs ==
  ASSUME NEW c, Typed(c), NEW s
  PROVE  LET d == Set(c, s) IN
         /\ Typed(d) /\ d.b = c.b /\ d.z = c.z /\ d.t = c.t /\ d.k = c.k /\ d.rc = c.rc
<1> DEFINE d == Set(c, s)
<1>1. /\ d = [f \in Parts |-> d[f]]
      /\ d.b = c.b /\ d.z = c.z /\ d.t = c.t /\ d.k = c.k /\ d.rc = c.rc
  BY DEF Typed, Parts, Set
<1> QED
  BY <1>1 DEF Typed

LEMMA SetPosts ==
  ASSUME NEW c, NEW g, NEW r, NEW s, Post(c, g, r)
  PROVE  Post(Set(c, s), g, r)
<1> DEFINE d == Set(c, s)
<1>1. Typed(d) /\ d.b = c.b /\ d.z = c.z /\ d.t = c.t /\ d.k = c.k
  BY SetIs DEF Post, Good
<1> HIDE DEF d
<1> QED
  BY <1>1, SameKeeps DEF d, Post, Quiet

LEMMA FetchedIs ==
  ASSUME NEW c, Typed(c)
  PROVE  LET d == Fetched(c) IN
         /\ Typed(d) /\ d.b = c.b /\ d.z = c.z /\ d.k = c.k /\ d.due = c.due /\ d.rc = c.rc
         /\ Alike(d.t, c.t, TransportFields, {"done"}) /\ d.t.done = "NO" /\ Milder(d.t, c.t)
<1> DEFINE T == [c.t EXCEPT !.done = "NO"]
           d == Fetched(c)
<1>1. d = [c EXCEPT !.t = T]
  BY DEF Fetched
<1>2. T = [f \in TransportFields |-> T[f]] /\ Alike(T, c.t, TransportFields, {"done"}) /\ T.done = "NO"
  BY DEF Typed, IsTransport, Alike, TransportFields
<1> HIDE DEF T, d
<1>3. /\ d = [f \in Parts |-> d[f]]
      /\ d.b = c.b /\ d.z = c.z /\ d.t = T /\ d.k = c.k /\ d.due = c.due /\ d.rc = c.rc
  BY <1>1 DEF Typed, Parts
<1>4. IsTransport(T) /\ Milder(T, c.t)
  BY <1>2 DEF Typed, IsTransport, Milder, Steady, Alike, TransportFields
<1> QED
  BY <1>2, <1>3, <1>4 DEF Typed, d

LEMMA FetchedKeeps ==
  ASSUME NEW c, NEW g, NEW r, NEW e, Good(c, g, r, e)
  PROVE  Good(Fetched(c), g, r, e)
<1> DEFINE d == Fetched(c)
<1>1. Typed(d) /\ d.b = c.b /\ d.z = c.z /\ d.k = c.k /\ Milder(d.t, c.t)
  BY FetchedIs DEF Good
<1> HIDE DEF d
<1>2. Alike(d.b, c.b, BdbFields, {"attempts", "issued", "steps", "app"})
  BY <1>1 DEF Alike
<1> QED
  BY <1>1, <1>2, MinorKeeps DEF d

LEMMA TakenIs ==
  ASSUME NEW c, Typed(c)
  PROVE  LET d == Taken(c) IN
         /\ Typed(d) /\ d.b = c.b /\ d.t = c.t /\ d.k = c.k /\ d.due = c.due /\ d.rc = c.rc
         /\ Alike(d.z, c.z, ZdoFields, {"query"}) /\ d.z.query = "NO" /\ d.z.app = c.z.app
<1> DEFINE Z == [c.z EXCEPT !.query = "NO"]
           d == Taken(c)
<1>1. d = [c EXCEPT !.z = Z]
  BY DEF Taken
<1>2. Z = [f \in ZdoFields |-> Z[f]] /\ Alike(Z, c.z, ZdoFields, {"query"}) /\ Z.query = "NO"
  BY DEF Typed, IsZdo, Alike, ZdoFields
<1> HIDE DEF Z, d
<1>3. /\ d = [f \in Parts |-> d[f]]
      /\ d.b = c.b /\ d.z = Z /\ d.t = c.t /\ d.k = c.k /\ d.due = c.due /\ d.rc = c.rc
  BY <1>1 DEF Typed, Parts
<1>4. IsZdo(Z) /\ Z.app = c.z.app
  BY <1>2 DEF Typed, IsZdo, Alike, ZdoFields
<1> QED
  BY <1>2, <1>3, <1>4 DEF Typed, d

LEMMA TakenKeeps ==
  ASSUME NEW c, NEW g, NEW r, NEW e, Good(c, g, r, e),
         c.b.phase \in {"NODE", "PARENT", "READY", "UPDATING"}
  PROVE  Good(Taken(c), g, r, e)
<1> DEFINE d == Taken(c)
<1>1. Typed(d) /\ d.b = c.b /\ d.t = c.t /\ d.k = c.k /\ d.z.app = c.z.app
  BY TakenIs DEF Good
<1> HIDE DEF d
<1>2. Alike(d.b, c.b, BdbFields, {"attempts", "issued", "steps", "app"}) /\ Milder(d.t, c.t)
  BY <1>1 DEF Alike, Milder, Steady
<1> QED
  BY <1>1, <1>2, MinorKeeps DEF d

\* Steps that change nothing but the join's own record.
LEMMA BdbIs ==
  ASSUME NEW c, Typed(c), NEW B, IsBdb(B)
  PROVE  LET d == [c EXCEPT !.b = B] IN
         /\ Typed(d) /\ d.b = B /\ d.z = c.z /\ d.t = c.t /\ d.k = c.k /\ d.due = c.due /\ d.rc = c.rc
<1> DEFINE d == [c EXCEPT !.b = B]
<1>1. /\ d = [f \in Parts |-> d[f]]
      /\ d.b = B /\ d.z = c.z /\ d.t = c.t /\ d.k = c.k /\ d.due = c.due /\ d.rc = c.rc
  BY DEF Typed, Parts
<1> QED
  BY <1>1 DEF Typed

\* An event that changes neither the address nor the membership can be forgotten
\* once it has been looked at.
LEMMA ForgetKeeps ==
  ASSUME NEW c, NEW g, NEW r, NEW e, Good(c, g, r, e), e \notin {"UPDATE", "LEAVE"}
  PROVE  Good(c, g, r, "NONE")
<1>1. Placed(c.b, c.t, c.k, r, "NONE")
  BY DEF Good, Placed, Waits
<1>2. Timed(c.b, c.t, g, "NONE")
  BY DEF Good, Timed, Waits
<1> QED
  BY <1>1, <1>2 DEF Good

(*** The events of the key owner.                                              ***)

\* An update that a ready device takes over.
LEMMA UpdateKeeps ==
  ASSUME NEW c, NEW g, NEW r, NEW e, Good(c, g, r, e), c.b.phase = "READY", c.t.rx.kind = "NONE"
  PROVE  LET p == ZdoCancel(To(c, "UPDATING"))
             d == [p EXCEPT !.t = Stop(@)]
         IN Good(d, g, r, "NONE") /\ d.b.phase = "UPDATING" /\ d.z.event = c.z.event
<1> DEFINE B == [c.b EXCEPT !.phase = "UPDATING"]
           a == [c EXCEPT !.b = B]
           Z == [c.z EXCEPT !.leave = FALSE, !.pending = FALSE,
                            !.result = IF c.z.query # "NO" THEN "CANCELLED" ELSE @]
           U == IF c.z.qtx \/ c.z.rtx THEN Cancel(c.t) ELSE c.t
           T == Stop(U)
           p == ZdoCancel(To(c, "UPDATING"))
           d == [p EXCEPT !.t = Stop(@)]
<1>0. Typed(c)
  BY DEF Good
<1>1. B = [f \in BdbFields |-> B[f]] /\ Alike(B, c.b, BdbFields, {"phase"}) /\ B.phase = "UPDATING"
  BY <1>0 DEF Typed, IsBdb, Alike, BdbFields
<1>2. Z = [f \in ZdoFields |-> Z[f]] /\ Alike(Z, c.z, ZdoFields, {"leave", "pending", "result"})
  BY <1>0 DEF Typed, IsZdo, Alike, ZdoFields
<1>3. U = [f \in TransportFields |-> U[f]] /\ Alike(U, c.t, TransportFields, {"cancel"})
  BY <1>0 DEF Typed, IsTransport, Alike, TransportFields, Cancel
<1>4. /\ T = [f \in TransportFields |-> T[f]]
      /\ Alike(T, c.t, TransportFields, {"cancel", "ready", "stopping"})
      /\ T.ready = FALSE /\ T.cancel \in BOOLEAN /\ (T.txn # "NO" => T.cancel)
  <2> HIDE DEF U
  <2> QED
    BY <1>3 DEF Alike, TransportFields, Stop, Cancel
<1>5. a = To(c, "UPDATING")
  BY DEF To
<1>6. a.z = c.z /\ a.t = c.t
  BY <1>0 DEF Typed, Parts
<1>7. p = [a EXCEPT !.t = U, !.z = Z]
  <2>1. p = ZdoCancel(a)
    BY <1>5
  <2> HIDE DEF a
  <2>2. ZdoCancel(a) = [a EXCEPT !.t = IF a.z.qtx \/ a.z.rtx THEN Cancel(a.t) ELSE a.t,
                                 !.z = [a.z EXCEPT !.leave = FALSE, !.pending = FALSE,
                                        !.result = IF a.z.query # "NO" THEN "CANCELLED" ELSE @]]
    BY DEF ZdoCancel
  <2> QED
    BY <1>6, <2>1, <2>2
<1> HIDE DEF B, Z, U, T, p
<1>8. p.t = U
  BY <1>0, <1>7 DEF Typed, Parts
<1>9. d = [c EXCEPT !.b = B, !.t = T, !.z = Z]
  BY <1>0, <1>7, <1>8 DEF Typed, Parts, T
<1> HIDE DEF d
<1>10. /\ d = [f \in Parts |-> d[f]]
       /\ d.b = B /\ d.z = Z /\ d.t = T /\ d.k = c.k
  BY <1>0, <1>9 DEF Typed, Parts
<1>11. IsBdb(B) /\ IsZdo(Z) /\ IsTransport(T) /\ Typed(d)
  <2>1. IsBdb(B)
    BY <1>0, <1>1 DEF Typed, IsBdb, Alike, BdbFields
  <2>2. IsZdo(Z)
    BY <1>0, <1>2 DEF Typed, IsZdo, Alike, ZdoFields
  <2>3. IsTransport(T)
    BY <1>0, <1>4 DEF Typed, IsTransport, Alike, TransportFields
  <2> QED
    BY <1>0, <1>10, <2>1, <2>2, <2>3 DEF Typed
<1>12. /\ B.token = c.b.token /\ B.recovery = c.b.recovery /\ B.member = c.b.member
       /\ B.result = c.b.result /\ B.tc = c.b.tc /\ B.confirm = c.b.confirm /\ B.timely = c.b.timely
       /\ Z.app = c.z.app /\ Z.event = c.z.event
       /\ T.rx = c.t.rx /\ T.txn = c.t.txn /\ T.done = c.t.done
  BY <1>1, <1>2, <1>4 DEF Alike, BdbFields, ZdoFields, TransportFields
<1>13. Stages(B)
  BY <1>1, <1>12 DEF Good, Stages, Live, Ends, Joining, BeforeReady
<1>14. Queries(B, Z)
  BY <1>1 DEF Queries, Unqueried
<1>15. Slot(B, T) /\ Placed(B, T, c.k, r, "NONE")
  BY <1>1, <1>4, <1>12 DEF Good, Slot, Placed, Bound, Joining, BeforeReady, Waits
<1>16. Timed(B, T, g, "NONE") /\ Stays(B, g) /\ Heard(B, Z, T, g)
  BY <1>1, <1>12 DEF Good, Timed, Stays, Heard, Waits
<1> QED
  BY <1>1, <1>10, <1>11, <1>12, <1>13, <1>14, <1>15, <1>16 DEF Good, d, p

Mid(c, g, r) ==
  /\ Good(c, g, r, "NONE") /\ c.b.phase \in Live \cup {"ABORTING"}
  /\ c.rc # "ENDED" => Looked(c, g)
  /\ c.rc = "ENDED" => Quiet(c)

LEMMA EndedFails ==
  ASSUME NEW c, NEW g, NEW r, NEW e, NEW result, Good(c, g, r, e),
         result \in {"NO_PARENT", "REJOIN_REFUSED"} => c.b.recovery # 3
  PROVE  LET d == Ended(Fail(c, result)) IN
         Mid(d, g, r) /\ d.rc = "ENDED" /\ Post(d, g, r)
<1> DEFINE p == Fail(c, result)
           d == [p EXCEPT !.rc = "ENDED"]
<1>1. Good(p, g, r, "NONE") /\ p.b.phase = "ABORTING"
  BY FailKeeps
<1> HIDE DEF p
<1>2. Good(d, g, r, "NONE") /\ d.b = p.b /\ d.rc = "ENDED"
  BY <1>1, RcKeeps, RcIs DEF Good
<1> HIDE DEF d
<1>3. Mid(d, g, r) /\ Post(d, g, r)
  BY <1>1, <1>2 DEF Mid, Post, Quiet
<1>4. d = Ended(Fail(c, result))
  BY DEF d, p, Ended
<1> QED
  BY <1>2, <1>3, <1>4

LEMMA EventsKeep ==
  ASSUME NEW c, NEW g, NEW r, Good(c, g, r, c.z.event), Looked(c, g), c.b.phase \in Live,
         c.rc # "ENDED", c.z.event # "NONE" => c.t.rx.kind = "NONE"
  PROVE  Mid(SecurityEvent(ZdoFailed(c)), g, r)
<1> DEFINE p == ZdoFailed(c)
           d == SecurityEvent(p)
<1>1. \/ p = c /\ p.rc # "ENDED"
      \/ Mid(p, g, r) /\ p.rc = "ENDED"
  <2>1. \A result \in {"ADDRESS_CONFLICT", "LOCAL_LEAVE", "TRANSMIT_FAILED"} :
          Mid(Ended(Fail(c, result)), g, r) /\ Ended(Fail(c, result)).rc = "ENDED"
    BY EndedFails
  <2> QED
    BY <2>1 DEF ZdoFailed
<1> HIDE DEF p
<1>2. CASE Mid(p, g, r) /\ p.rc = "ENDED"
  <2>1. d = p
    BY <1>2 DEF SecurityEvent
  <2> HIDE DEF d
  <2> QED
    BY <1>2, <2>1 DEF d, p
<1>3. CASE p = c /\ p.rc # "ENDED"
  <2> SUFFICES Mid(SecurityEvent(c), g, r)
    BY <1>3 DEF p
  <2>1. CASE c.z.event = "LEAVE"
    <3> DEFINE q == Fail(c, "REMOTE_LEAVE")
    <3>1. SecurityEvent(c) = q
      BY <2>1 DEF SecurityEvent
    <3>2. Good(q, g, r, "NONE") /\ q.b.phase = "ABORTING" /\ q.rc = c.rc
      BY FailKeeps
    <3>3. q.z = c.z
      BY FailIs DEF Good
    <3> HIDE DEF q
    <3> QED
      BY <2>1, <3>1, <3>2, <3>3 DEF Mid, Looked
  <2>2. CASE c.z.event = "UPDATE" /\ c.b.phase # "READY"
    <3>1. SecurityEvent(c) = Ended(Fail(c, "RECOVERY_REQUIRED"))
      BY <2>2 DEF SecurityEvent
    <3> QED
      BY <3>1, EndedFails
  <2>3. CASE c.z.event = "UPDATE" /\ c.b.phase = "READY"
    <3> DEFINE u == ZdoCancel(To(c, "UPDATING"))
               q == [u EXCEPT !.t = Stop(@)]
    <3>1. SecurityEvent(c) = q
      BY <2>3 DEF SecurityEvent
    <3>2. Good(q, g, r, "NONE") /\ q.b.phase = "UPDATING" /\ q.z.event = c.z.event
      BY <2>3, UpdateKeeps
    <3> HIDE DEF q
    <3> QED
      BY <2>3, <3>1, <3>2 DEF Mid, Looked, Quiet, Live
  <2>4. CASE c.z.event \in {"TC_KEY", "VERIFIED"} /\ ~c.b.timely
    <3>1. SecurityEvent(c) = Ended(Fail(c, "TC_FAILED"))
      BY <2>4 DEF SecurityEvent
    <3> QED
      BY <3>1, EndedFails
  <2>5. CASE c.z.event \in {"TC_KEY", "VERIFIED"} /\ c.b.timely
    <3> DEFINE tc == c.b.tc \/ c.z.event = "TC_KEY"
               confirm == c.b.confirm \/ c.z.event = "VERIFIED"
               B == [c.b EXCEPT !.tc = tc, !.confirm = confirm]
               q == [c EXCEPT !.b = B]
    <3>0. tc \in BOOLEAN /\ confirm \in BOOLEAN
      OBVIOUS
    <3>1. SecurityEvent(c) = q
      BY <2>5 DEF SecurityEvent
    <3>2. /\ B = [f \in BdbFields |-> B[f]] /\ Alike(B, c.b, BdbFields, {"tc", "confirm"})
          /\ B.tc = tc /\ B.confirm = confirm
      BY DEF Good, Typed, IsBdb, Alike, BdbFields
    <3>3. (tc => g.tc) /\ (confirm => g.confirm)
      BY <2>5 DEF Good, Timed, Waits
    <3> HIDE DEF tc, confirm, B
    <3>4. IsBdb(B)
      BY <3>0, <3>2 DEF Good, Typed, IsBdb, Alike, BdbFields
    <3>5. Typed(q) /\ q.b = B /\ q.z = c.z /\ q.t = c.t /\ q.k = c.k /\ q.rc = c.rc
      BY <3>4, BdbIs DEF Good
    <3>6. Good(c, g, r, "NONE")
      BY <2>5, ForgetKeeps
    <3>7. /\ B.phase = c.b.phase /\ B.result = c.b.result /\ B.token = c.b.token
          /\ B.member = c.b.member /\ B.abandon = c.b.abandon /\ B.recovery = c.b.recovery
          /\ B.search = c.b.search /\ B.timely = c.b.timely
      BY <3>2 DEF Alike, BdbFields
    <3> HIDE DEF q
    <3>8. Stages(q.b) /\ Queries(q.b, q.z) /\ Slot(q.b, q.t)
      BY <3>5, <3>6, <3>7 DEF Good, Stages, Queries, Slot
    <3>9. Placed(q.b, q.t, q.k, r, "NONE") /\ Stays(q.b, g) /\ Heard(q.b, q.z, q.t, g)
      BY <3>5, <3>6, <3>7 DEF Good, Placed, Stays, Heard
    <3>10. Timed(q.b, q.t, g, "NONE")
      BY <3>2, <3>3, <3>5, <3>6, <3>7 DEF Good, Timed
    <3>11. Good(q, g, r, "NONE")
      BY <3>5, <3>8, <3>9, <3>10 DEF Good
    <3> QED
      BY <3>1, <3>5, <3>7, <3>11 DEF Mid, Looked
  <2>6. CASE c.z.event \notin {"LEAVE", "UPDATE", "TC_KEY", "VERIFIED"}
    <3>1. SecurityEvent(c) = c
      BY <2>6 DEF SecurityEvent
    <3> QED
      BY <2>6, <3>1, ForgetKeeps DEF Mid
  <2> QED
    BY <2>1, <2>2, <2>3, <2>4, <2>5, <2>6
<1> QED
  BY <1>1, <1>2, <1>3

\* The application's result is handed over.
LEMMA ApplicationKeeps ==
  ASSUME NEW c, NEW g, NEW r, Mid(c, g, r)
  PROVE  Mid(Application(c), g, r) /\ Application(c).rc = c.rc
<1> DEFINE B == [c.b EXCEPT !.app = "DONE"]
           a == [c EXCEPT !.b = B]
           d == Fetched(a)
<1>1. Application(c) = c \/ Application(c) = d
  BY DEF Application
<1>2. Typed(c)
  BY DEF Mid, Good
<1>3. B = [f \in BdbFields |-> B[f]] /\ Alike(B, c.b, BdbFields, {"app"})
  BY <1>2 DEF Typed, IsBdb, Alike, BdbFields
<1> HIDE DEF B
<1>4. IsBdb(B)
  BY <1>2, <1>3 DEF Typed, IsBdb, Alike, BdbFields
<1>5. Typed(a) /\ a.b = B /\ a.z = c.z /\ a.t = c.t /\ a.k = c.k /\ a.rc = c.rc
  BY <1>2, <1>4, BdbIs
<1> HIDE DEF a
<1>6. /\ Alike(a.b, c.b, BdbFields, {"attempts", "issued", "steps", "app"})
      /\ Milder(a.t, c.t)
      /\ a.b.phase = c.b.phase /\ a.b.timely = c.b.timely
  BY <1>3, <1>5 DEF Alike, Milder, Steady, BdbFields
<1>7. Good(a, g, r, "NONE")
  BY <1>5, <1>6, MinorKeeps DEF Mid
<1>8. Good(d, g, r, "NONE") /\ d.b = a.b /\ d.z = a.z /\ d.rc = a.rc /\ d.t.rx = a.t.rx
  BY <1>5, <1>7, FetchedKeeps, FetchedIs DEF Milder
<1> HIDE DEF d
<1>9. Mid(d, g, r)
  BY <1>5, <1>6, <1>8 DEF Mid, Looked, Quiet
<1> QED
  BY <1>1, <1>5, <1>8, <1>9

(*** From one phase to the next.                                               ***)

Minor == {"attempts", "issued", "steps", "app"}

\* The join's record changes in its phase and in what does not count here.
LEMMA TurnIs ==
  ASSUME NEW c, Typed(c), NEW B, B = [f \in BdbFields |-> B[f]],
         Alike(B, c.b, BdbFields, Minor \cup {"phase"})
  PROVE  LET d == [c EXCEPT !.b = B] IN
         /\ Typed(d) /\ d.b = B /\ d.z = c.z /\ d.t = c.t /\ d.k = c.k /\ d.due = c.due /\ d.rc = c.rc
         /\ B.recovery = c.b.recovery /\ B.member = c.b.member
<1>1. IsBdb(B) /\ B.recovery = c.b.recovery /\ B.member = c.b.member
  BY DEF Typed, IsBdb, Alike, BdbFields, Minor
<1> QED
  BY <1>1, BdbIs

\* A join goes on to its next phase when the slot and the query allow it.
LEMMA TurnKeeps ==
  ASSUME NEW c, NEW d, NEW g, NEW r, Good(c, g, r, "NONE"), Typed(d),
         Alike(d.b, c.b, BdbFields, Minor \cup {"phase"}),
         d.k = c.k, d.z.app = c.z.app, d.t.rx = c.t.rx, d.t.ready => c.t.ready,
         c.b.phase \in Joining, d.b.phase \in Joining \cup {"READY"},
         d.b.phase = "PARENT" /\ c.b.recovery = 2 => c.b.phase \in {"ANNOUNCING", "PARENT"},
         d.b.phase = "ANNOUNCING" => c.b.phase = "ANNOUNCING",
         d.t.txn = "PERMIT" => d.t.cancel \/ c.t.rx.kind \notin {"UPDATE", "LEAVE"},
         Stages(d.b), Queries(d.b, d.z), Slot(d.b, d.t)
  PROVE  Good(d, g, r, "NONE")
<1>1. /\ d.b.result = c.b.result /\ d.b.token = c.b.token
      /\ d.b.member = c.b.member /\ d.b.abandon = c.b.abandon /\ d.b.recovery = c.b.recovery
      /\ d.b.search = c.b.search /\ d.b.timely = c.b.timely
      /\ d.b.tc = c.b.tc /\ d.b.confirm = c.b.confirm
  BY DEF Alike, BdbFields, Minor
<1>2. Placed(d.b, d.t, d.k, r, "NONE")
  BY <1>1 DEF Good, Placed, Waits, Joining, BeforeReady
<1>3. Timed(d.b, d.t, g, "NONE")
  BY <1>1 DEF Good, Timed, Waits
<1>4. Stays(d.b, g)
  BY <1>1 DEF Good, Stays, Joining, BeforeReady, Ends
<1>5. Heard(d.b, d.z, d.t, g)
  BY <1>1 DEF Good, Heard, Joining, BeforeReady
<1> QED
  BY <1>2, <1>3, <1>4, <1>5 DEF Good

\* A query of the phase is sent, or the phase goes on waiting.
LEMMA AskKeeps ==
  ASSUME NEW c, NEW g, NEW r, NEW kind \in {"NODE", "PARENT"}, NEW result, NEW wrap,
         Good(c, g, r, "NONE"), c.b.phase = kind, Quiet(c),
         result \notin {"NO_PARENT", "REJOIN_REFUSED"}
  PROVE  Post(Ask(c, kind, result, wrap), g, r)
<1> DEFINE q == Request(c, kind, wrap)
           B == [q.b EXCEPT !.attempts = @ + 1]
           p == [q EXCEPT !.b = B]
           o == [c EXCEPT !.rc = "OK"]
           d == Ask(c, kind, result, wrap)
<1>0. Typed(c)
  BY DEF Good
<1>1. /\ Typed(q)
      /\ q.b = c.b /\ q.k = c.k
      /\ \/ /\ q.rc = "OK" /\ q.t.txn = kind /\ ~q.t.cancel
            /\ Alike(q.t, c.t, TransportFields, {"txn", "cancel"})
            /\ c.t.txn = "NO" /\ c.t.done = "NO"
            /\ Alike(q.z, c.z, ZdoFields, {"query", "qtx", "txdone", "result"})
            /\ ~q.z.txdone
         \/ q.rc \in {"FULL", "TRANSMIT"} /\ q.t = c.t /\ q.z = c.z /\ q.due = c.due
  BY <1>0, RequestIs
<1>2. \/ d = c
      \/ q.rc = "OK" /\ d = p
      \/ d = o
      \/ q.rc # "OK" /\ d = Fail(q, result)
  BY DEF Ask
<1> HIDE DEF q
<1>3. Milder(q.t, c.t) /\ (q.z.app => c.z.app) /\ Good(q, g, r, "NONE")
  <2>1. Milder(q.t, c.t) /\ (q.z.app => c.z.app)
    BY <1>1 DEF Milder, Steady, Alike, TransportFields, ZdoFields, Plain
  <2>2. Alike(q.b, c.b, BdbFields, {"attempts", "issued", "steps", "app"})
    BY <1>1 DEF Alike
  <2> QED
    BY <1>1, <2>1, <2>2, MinorKeeps
<1>4. CASE d = c
  BY <1>4 DEF Post, Live, BeforeReady
<1>5. CASE q.rc = "OK" /\ d = p
  <2>1. B = [f \in BdbFields |-> B[f]] /\ Alike(B, q.b, BdbFields, {"attempts"})
    BY <1>1 DEF Typed, IsBdb, Alike, BdbFields
  <2> HIDE DEF B
  <2>2. /\ Alike(B, q.b, BdbFields, Minor \cup {"phase"})
        /\ Alike(B, c.b, BdbFields, {"attempts", "issued", "steps", "app"})
        /\ B.phase = kind
    BY <1>1, <2>1 DEF Alike, Minor, BdbFields
  <2>3. Typed(p) /\ p.b = B /\ p.z = q.z /\ p.t = q.t /\ p.k = q.k
    BY <1>1, <2>1, <2>2, TurnIs
  <2> HIDE DEF p, d
  <2>4. Good(p, g, r, "NONE")
    BY <1>1, <1>3, <2>2, <2>3, MinorKeeps
  <2>5. Post(p, g, r)
    BY <1>1, <1>5, <2>2, <2>3, <2>4 DEF Post, Quiet, Takeable, Live, BeforeReady
  <2> QED
    BY <1>5, <2>5 DEF d
<1>6. CASE d = o
  <2>1. Post(c, g, r)
    BY DEF Post, Live, BeforeReady
  <2>2. Post(o, g, r)
    BY <2>1, RcPosts
  <2> HIDE DEF o, d
  <2> QED
    BY <1>6, <2>2 DEF d
<1>7. CASE q.rc # "OK" /\ d = Fail(q, result)
  <2>1. Post(Fail(q, result), g, r)
    BY <1>3, FailPosts
  <2> HIDE DEF d
  <2> QED
    BY <1>7, <2>1 DEF d
<1> QED
  BY <1>2, <1>4, <1>5, <1>6, <1>7
(*** The branches of runtime().                                                ***)

LEMMA StayPosts ==
  ASSUME NEW c, NEW g, NEW r, Mid(c, g, r), c.b.phase # "PARENT"
  PROVE  Post(c, g, r)
BY DEF Mid, Post, Quiet

\* The network key, in time, makes a member, which announces itself.
LEMMA InWaitKeyKeeps ==
  ASSUME NEW c, NEW g, NEW r, NEW wrap, Mid(c, g, r), c.rc # "ENDED", c.b.phase = "WAIT_KEY"
  PROVE  Post(InWaitKey(c, wrap), g, r)
<1> DEFINE B == [c.b EXCEPT !.member = TRUE]
           m == [c EXCEPT !.b = B]
           q == Broadcast(m, "ANNOUNCE", wrap)
           A == [q.b EXCEPT !.phase = "ANNOUNCING"]
           p == [q EXCEPT !.b = A]
           d == InWaitKey(c, wrap)
<1>0. Typed(c) /\ Good(c, g, r, "NONE")
  BY DEF Mid, Good
<1>1. \/ d = c
      \/ d = Ended(Fail(c, "KEY_TIMEOUT"))
      \/ /\ c.z.event = "NETWORK_KEY" /\ c.b.timely
         /\ \/ q.rc = "OK" /\ d = p
            \/ q.rc # "OK" /\ d = Fail(q, "TRANSMIT_FAILED")
  BY <1>0 DEF InWaitKey, To, Typed, IsBdb
<1>2. CASE d = c
  <2> HIDE DEF d
  <2> QED
    BY <1>2, StayPosts DEF d
<1>3. CASE d = Ended(Fail(c, "KEY_TIMEOUT"))
  <2>1. Post(Ended(Fail(c, "KEY_TIMEOUT")), g, r)
    BY <1>0, EndedFails
  <2> HIDE DEF d
  <2> QED
    BY <1>3, <2>1 DEF d
<1>4. CASE /\ c.z.event = "NETWORK_KEY" /\ c.b.timely
           /\ \/ q.rc = "OK" /\ d = p
              \/ q.rc # "OK" /\ d = Fail(q, "TRANSMIT_FAILED")
  <2>1. g.key
    BY <1>4 DEF Mid, Looked
  <2>2. B = [f \in BdbFields |-> B[f]] /\ Alike(B, c.b, BdbFields, {"member"}) /\ B.member = TRUE
    BY <1>0 DEF Typed, IsBdb, Alike, BdbFields
  <2> HIDE DEF B
  <2>3. IsBdb(B)
    BY <1>0, <2>2 DEF Typed, IsBdb, Alike, BdbFields
  <2>4. Typed(m) /\ m.b = B /\ m.z = c.z /\ m.t = c.t /\ m.k = c.k
    BY <1>0, <2>3, BdbIs
  <2> HIDE DEF m
  <2>5. /\ Typed(q)
        /\ q.b = m.b /\ q.z = m.z /\ q.k = m.k
        /\ \/ /\ q.rc = "OK" /\ q.t.txn = "ANNOUNCE" /\ ~q.t.cancel
              /\ Alike(q.t, m.t, TransportFields, {"txn", "cancel"})
              /\ m.t.txn = "NO" /\ m.t.done = "NO" /\ ~m.z.app
           \/ q.rc \in {"FULL", "TRANSMIT"} /\ q.t = m.t
    BY <2>4, BroadcastIs DEF Bound
  <2> HIDE DEF q
  <2>6. /\ B.phase = "WAIT_KEY" /\ B.result = c.b.result /\ B.token = c.b.token
        /\ B.abandon = c.b.abandon /\ B.recovery = c.b.recovery
        /\ B.search = c.b.search /\ B.timely = c.b.timely
        /\ B.tc = c.b.tc /\ B.confirm = c.b.confirm
    BY <2>2 DEF Alike, BdbFields
  <2>7. c.b.recovery = 0
    BY <1>0 DEF Good, Stages, Ends
  <2>8. CASE q.rc = "OK" /\ d = p
    <3>1. /\ A = [f \in BdbFields |-> A[f]] /\ Alike(A, q.b, BdbFields, {"phase"})
          /\ A.phase = "ANNOUNCING"
      BY <2>5 DEF Typed, IsBdb, Alike, BdbFields
    <3> HIDE DEF A
    <3>2. Alike(A, q.b, BdbFields, Minor \cup {"phase"})
      BY <3>1 DEF Alike
    <3>3. Typed(p) /\ p.b = A /\ p.z = q.z /\ p.t = q.t /\ p.k = q.k
      BY <2>5, <3>1, <3>2, TurnIs
    <3> HIDE DEF p, d
    <3>4. /\ A.result = B.result /\ A.token = B.token /\ A.member = B.member
          /\ A.abandon = B.abandon /\ A.recovery = B.recovery
          /\ A.search = B.search /\ A.timely = B.timely
          /\ A.tc = B.tc /\ A.confirm = B.confirm
      BY <2>4, <2>5, <3>1 DEF Alike, BdbFields
    <3>5. /\ q.t.rx = c.t.rx /\ q.t.ready = c.t.ready /\ q.t.done = c.t.done
      BY <2>4, <2>5, <2>8 DEF Alike, TransportFields
    <3>6. Stages(A) /\ Queries(A, q.z)
      BY <1>0, <2>2, <2>4, <2>5, <2>6, <2>7, <3>1, <3>4
      DEF Good, Stages, Queries, Unqueried, Joining, BeforeReady, Live, Ends
    <3>7. Slot(A, q.t)
      BY <1>0, <2>4, <2>5, <2>8, <3>1, <3>5 DEF Good, Slot, Bound, Homes
    <3>8. Placed(A, q.t, q.k, r, "NONE")
      BY <1>0, <2>4, <2>5, <2>6, <2>7, <2>8, <3>1, <3>4, <3>5
      DEF Good, Placed, Waits, Joining, BeforeReady
    <3>9. Timed(A, q.t, g, "NONE") /\ Heard(A, q.z, q.t, g)
      BY <1>0, <2>1, <2>4, <2>5, <2>6, <2>7, <3>1, <3>4, <3>5 DEF Good, Timed, Heard, Waits
    <3>10. Stays(A, g)
      BY <1>0, <2>6, <2>7, <3>1, <3>4 DEF Good, Stays, Ends
    <3>11. Post(p, g, r)
      BY <3>1, <3>3, <3>6, <3>7, <3>8, <3>9, <3>10 DEF Post, Good, Quiet, Live, BeforeReady
    <3> QED
      BY <2>8, <3>11 DEF d
  <2>9. CASE q.rc # "OK" /\ d = Fail(q, "TRANSMIT_FAILED")
    <3>1. q.b = B /\ q.z = c.z /\ q.t = c.t /\ q.k = c.k
      BY <2>4, <2>5, <2>9
    <3>2. Stages(B) /\ Queries(B, q.z) /\ Slot(B, q.t)
      BY <1>0, <2>2, <2>6, <2>7, <3>1 DEF Good, Stages, Queries, Slot, Joining, BeforeReady
    <3>3. Placed(B, q.t, q.k, r, "NONE") /\ Heard(B, q.z, q.t, g)
      BY <1>0, <2>2, <2>6, <2>7, <3>1 DEF Good, Placed, Heard
    <3>4. Timed(B, q.t, g, "NONE") /\ Stays(B, g)
      BY <1>0, <2>1, <2>2, <2>6, <2>7, <3>1 DEF Good, Timed, Stays
    <3>5. Good(q, g, r, "NONE")
      BY <2>5, <3>1, <3>2, <3>3, <3>4 DEF Good
    <3>6. Post(Fail(q, "TRANSMIT_FAILED"), g, r)
      BY <3>5, FailPosts
    <3> HIDE DEF d
    <3> QED
      BY <2>9, <3>6 DEF d
  <2> QED
    BY <1>4, <2>8, <2>9
<1> QED
  BY <1>1, <1>2, <1>3, <1>4

LEMMA InAnnouncingKeeps ==
  ASSUME NEW c, NEW g, NEW r, Mid(c, g, r), c.rc # "ENDED", c.b.phase = "ANNOUNCING"
  PROVE  Post(InAnnouncing(c), g, r)
<1> DEFINE q == Fetched(c)
           next == IF c.b.recovery # 0 THEN "PARENT" ELSE "NODE"
           B == [q.b EXCEPT !.phase = next, !.attempts = 0]
           p == [q EXCEPT !.b = B]
           d == InAnnouncing(c)
<1>0. Typed(c) /\ Good(c, g, r, "NONE") /\ c.z.query = "NO"
  BY DEF Mid, Good, Queries, Unqueried
<1>1. \/ d = c
      \/ d = Fail(q, "TRANSMIT_FAILED")
      \/ c.t.done # "NO" /\ d = p
  BY DEF InAnnouncing, Finished
<1>2. /\ Typed(q) /\ q.b = c.b /\ q.z = c.z /\ q.k = c.k /\ Good(q, g, r, "NONE")
      /\ Alike(q.t, c.t, TransportFields, {"done"}) /\ q.t.done = "NO"
  BY <1>0, FetchedIs, FetchedKeeps
<1> HIDE DEF q
<1>3. CASE d = c
  <2> HIDE DEF d
  <2> QED
    BY <1>3, StayPosts DEF d
<1>4. CASE d = Fail(q, "TRANSMIT_FAILED")
  <2>1. Post(Fail(q, "TRANSMIT_FAILED"), g, r)
    BY <1>2, FailPosts
  <2> HIDE DEF d
  <2> QED
    BY <1>4, <2>1 DEF d
<1>5. CASE c.t.done # "NO" /\ d = p
  <2>1. (next = "NODE" /\ c.b.recovery = 0) \/ (next = "PARENT" /\ c.b.recovery = 2)
    BY <1>0 DEF Good, Stages, Ends
  <2>2. /\ B = [f \in BdbFields |-> B[f]] /\ Alike(B, q.b, BdbFields, {"phase", "attempts"})
        /\ B.phase = next
    BY <1>2 DEF Typed, IsBdb, Alike, BdbFields
  <2> HIDE DEF B, next
  <2>3. Alike(B, q.b, BdbFields, Minor \cup {"phase"})
    BY <2>2 DEF Alike, Minor
  <2>4. /\ Typed(p) /\ p.b = B /\ p.z = q.z /\ p.t = q.t /\ p.k = q.k
        /\ B.recovery = c.b.recovery /\ B.member = c.b.member
    BY <1>2, <2>2, <2>3, TurnIs
  <2> HIDE DEF p, d
  <2>5. q.t.txn = "NO" /\ q.t.ready = FALSE
    <3>1. q.t.txn = c.t.txn /\ q.t.ready = c.t.ready
      BY <1>2 DEF Alike, TransportFields
    <3> QED
      BY <1>0, <1>5, <3>1 DEF Good, Slot, Typed, IsTransport
  <2>6. B.token = c.b.token
    BY <1>2, <2>2 DEF Alike, BdbFields
  <2>7. Stages(p.b)
    BY <1>0, <2>1, <2>2, <2>4, <2>6 DEF Good, Stages, Joining, BeforeReady, Live, Ends
  <2>8. Queries(p.b, p.z) /\ Slot(p.b, p.t)
    BY <1>0, <1>2, <2>1, <2>2, <2>4, <2>5 DEF Queries, Unqueried, Slot, Bound
  <2>9. Good(p, g, r, "NONE")
    BY <1>2, <2>1, <2>2, <2>3, <2>4, <2>5, <2>7, <2>8, TurnKeeps DEF Joining, BeforeReady
  <2>10. Post(p, g, r)
    BY <1>0, <1>2, <2>1, <2>2, <2>4, <2>9 DEF Post, Quiet, Takeable, Live, BeforeReady
  <2> QED
    BY <1>5, <2>10 DEF d
<1> QED
  BY <1>1, <1>3, <1>4, <1>5
\* The trust centre is a coordinator, or the query is repeated.
LEMMA InNodeKeeps ==
  ASSUME NEW c, NEW g, NEW r, NEW wrap, Mid(c, g, r), c.rc # "ENDED", c.b.phase = "NODE"
  PROVE  Post(InNode(c, wrap), g, r)
<1> DEFINE q == Taken(c)
           B == [q.b EXCEPT !.phase = "REQUESTING", !.issued = 0, !.attempts = 0]
           p == [q EXCEPT !.b = B]
           m == CASE ~Takeable(c.z) -> c
                  [] Takeable(c.z) /\ c.z.result = "OK" /\ c.z.tc = "COORDINATOR" -> Fresh(Taken(c), "REQUESTING")
                  [] OTHER -> IF Retryable(c, c.z.result) THEN Taken(c) ELSE Fail(Taken(c), "TC_FAILED")
           d == InNode(c, wrap)
<1>0. Typed(c) /\ Good(c, g, r, "NONE") /\ c.b.recovery = 0
  BY DEF Mid, Good, Stages, Ends
<1>1. d = IF m.b.phase = "NODE" THEN Ask(m, "NODE", "TC_FAILED", wrap) ELSE m
  BY DEF InNode
<1>2. m = c \/ m = q \/ m = p \/ m = Fail(q, "TC_FAILED")
  BY DEF Fresh
<1>3. /\ Typed(q) /\ q.b = c.b /\ q.t = c.t /\ q.k = c.k /\ Good(q, g, r, "NONE")
      /\ q.z.query = "NO" /\ q.z.app = c.z.app
  BY <1>0, TakenIs, TakenKeeps
<1> HIDE DEF q, m
<1>4. (Good(m, g, r, "NONE") /\ m.b.phase = "NODE") \/ (Post(m, g, r) /\ m.b.phase # "NODE")
  <2>1. CASE m = c \/ m = q
    BY <1>0, <1>3, <2>1
  <2>2. CASE m = p
    <3>1. /\ B = [f \in BdbFields |-> B[f]] /\ Alike(B, q.b, BdbFields, {"phase", "issued", "attempts"})
          /\ B.phase = "REQUESTING"
      BY <1>3 DEF Typed, IsBdb, Alike, BdbFields
    <3> HIDE DEF B
    <3>2. Alike(B, q.b, BdbFields, Minor \cup {"phase"}) /\ B.token = c.b.token
      BY <1>3, <3>1 DEF Alike, Minor, BdbFields
    <3>3. /\ Typed(p) /\ p.b = B /\ p.z = q.z /\ p.t = q.t /\ p.k = q.k
          /\ B.recovery = c.b.recovery /\ B.member = c.b.member
      BY <1>3, <3>1, <3>2, TurnIs
    <3> HIDE DEF p
    <3>4. Stages(p.b)
      BY <1>0, <3>1, <3>2, <3>3 DEF Good, Stages, Joining, BeforeReady, Live, Ends
    <3>5. Queries(p.b, p.z) /\ Slot(p.b, p.t) /\ (p.t.txn = "PERMIT" => p.t.cancel)
      BY <1>0, <1>3, <3>1, <3>3 DEF Good, Queries, Unqueried, Slot, Bound, Homes, Over
    <3>6. Good(p, g, r, "NONE")
      BY <1>3, <3>1, <3>2, <3>3, <3>4, <3>5, TurnKeeps DEF Joining, BeforeReady
    <3>7. Post(p, g, r) /\ p.b.phase # "NODE"
      BY <3>1, <3>3, <3>6 DEF Post, Quiet, Live, BeforeReady
    <3> QED
      BY <2>2, <3>7
  <2>3. CASE m = Fail(q, "TC_FAILED")
    <3>1. Post(Fail(q, "TC_FAILED"), g, r) /\ Fail(q, "TC_FAILED").b.phase = "ABORTING"
      BY <1>3, FailPosts, FailKeeps
    <3> QED
      BY <2>3, <3>1
  <2> QED
    BY <1>2, <2>1, <2>2, <2>3
<1>5. CASE Good(m, g, r, "NONE") /\ m.b.phase = "NODE"
  <2>1. Post(Ask(m, "NODE", "TC_FAILED", wrap), g, r)
    BY <1>5, AskKeeps DEF Quiet
  <2> HIDE DEF d
  <2> QED
    BY <1>1, <1>5, <2>1 DEF d
<1>6. CASE Post(m, g, r) /\ m.b.phase # "NODE"
  <2> HIDE DEF d
  <2> QED
    BY <1>1, <1>6 DEF d
<1> QED
  BY <1>4, <1>5, <1>6

\* Request Key and Verify Key go out, and are answered in the phase that follows.
LEMMA InExchangeKeeps ==
  ASSUME NEW c, NEW g, NEW r, Mid(c, g, r), c.rc # "ENDED", c.b.phase \in {"REQUESTING", "VERIFYING"}
  PROVE  Post(InExchange(c), g, r)
<1> DEFINE kind == IF c.b.phase = "REQUESTING" THEN "KEY" ELSE "VERIFY"
           next == IF c.b.phase = "REQUESTING" THEN "WAIT_TC" ELSE "WAIT_CONFIRM"
           s == Queued(c, kind, FALSE)
           A == [s.b EXCEPT !.issued = 1, !.attempts = @ + 1]
           p == [s EXCEPT !.b = A]
           q == Fetched(c)
           B == [q.b EXCEPT !.phase = next]
           n == [q EXCEPT !.b = B]
           C == [q.b EXCEPT !.issued = 0]
           a == [q EXCEPT !.b = C]
           o == [c EXCEPT !.rc = "OK"]
           d == InExchange(c)
<1>0. Typed(c) /\ Good(c, g, r, "NONE") /\ c.z.query = "NO" /\ c.b.recovery = 0 /\ Post(c, g, r)
  <2>1. Post(c, g, r)
    BY StayPosts
  <2> QED
    BY <2>1 DEF Mid, Good, Queries, Unqueried, Stages, Ends
<1>1. \/ s.rc = "OK" /\ d = Set(p, {"until"})
      \/ d = o
      \/ c.t.done # "NO" /\ d = n
      \/ d = Fail(q, "TRANSMIT_FAILED")
      \/ d = a
      \/ d = c
  BY DEF InExchange, Finished, To
<1>2. /\ Typed(q) /\ q.b = c.b /\ q.z = c.z /\ q.k = c.k /\ Good(q, g, r, "NONE")
      /\ Alike(q.t, c.t, TransportFields, {"done"}) /\ q.t.done = "NO"
  BY <1>0, FetchedIs, FetchedKeeps
<1>3. kind \in {"KEY", "VERIFY"} /\ Homes[kind] = c.b.phase
  BY DEF Homes
<1>4. next \in {"WAIT_TC", "WAIT_CONFIRM"}
  OBVIOUS
<1> HIDE DEF kind, next
<1>5. /\ Typed(s)
      /\ s.b = c.b /\ s.z = c.z /\ s.k = c.k /\ s.due = c.due
      /\ \/ /\ s.rc = "OK" /\ s.t.txn = kind /\ ~s.t.cancel
            /\ Alike(s.t, c.t, TransportFields, {"txn", "cancel"})
            /\ c.t.txn = "NO" /\ c.t.done = "NO"
         \/ s.rc \in {"FULL", "EXHAUSTED"} /\ s.t = c.t
  BY <1>0, <1>3, QueuedIs DEF Bound
<1> HIDE DEF s, q
<1>6. CASE s.rc = "OK" /\ d = Set(p, {"until"})
  <2>1. A = [f \in BdbFields |-> A[f]] /\ Alike(A, s.b, BdbFields, {"issued", "attempts"})
    BY <1>5 DEF Typed, IsBdb, Alike, BdbFields
  <2> HIDE DEF A
  <2>2. /\ Alike(A, s.b, BdbFields, Minor \cup {"phase"}) /\ A.token = c.b.token
        /\ A.phase = c.b.phase
    BY <1>5, <2>1 DEF Alike, Minor, BdbFields
  <2>3. /\ Typed(p) /\ p.b = A /\ p.z = s.z /\ p.t = s.t /\ p.k = s.k
        /\ A.recovery = c.b.recovery /\ A.member = c.b.member
    BY <1>5, <2>1, <2>2, TurnIs
  <2>4. p.t.rx = c.t.rx /\ p.t.ready = c.t.ready /\ p.t.txn = kind /\ p.t.done = "NO"
        /\ p.t.announced = c.t.announced /\ p.t.permit = c.t.permit
    BY <1>5, <1>6, <2>3 DEF Alike, TransportFields
  <2> HIDE DEF p, d
  <2>5. Stages(p.b) /\ Queries(p.b, p.z)
    BY <1>0, <1>5, <2>2, <2>3 DEF Good, Stages, Queries, Unqueried, Joining, BeforeReady, Live, Ends
  <2>6. Slot(p.b, p.t)
    BY <1>0, <1>3, <2>2, <2>3, <2>4 DEF Good, Slot, Bound
  <2>7. Alike(p.b, c.b, BdbFields, Minor \cup {"phase"})
    BY <1>5, <2>2, <2>3
  <2>8. Good(p, g, r, "NONE")
    BY <1>0, <1>3, <1>5, <2>2, <2>3, <2>4, <2>5, <2>6, <2>7, TurnKeeps DEF Joining, BeforeReady
  <2>9. Post(p, g, r)
    BY <2>2, <2>3, <2>8 DEF Post, Quiet, Live, BeforeReady
  <2> QED
    BY <1>6, <2>9, SetPosts DEF d
<1>7. CASE d = o
  <2>1. Post(o, g, r)
    BY <1>0, RcPosts
  <2> HIDE DEF o, d
  <2> QED
    BY <1>7, <2>1 DEF d
<1>8. CASE c.t.done # "NO" /\ d = n
  <2>1. B = [f \in BdbFields |-> B[f]] /\ Alike(B, q.b, BdbFields, {"phase"}) /\ B.phase = next
    BY <1>2 DEF Typed, IsBdb, Alike, BdbFields
  <2> HIDE DEF B
  <2>2. Alike(B, q.b, BdbFields, Minor \cup {"phase"}) /\ B.token = c.b.token
    BY <1>2, <2>1 DEF Alike, Minor, BdbFields
  <2>3. /\ Typed(n) /\ n.b = B /\ n.z = q.z /\ n.t = q.t /\ n.k = q.k
        /\ B.recovery = c.b.recovery /\ B.member = c.b.member
    BY <1>2, <2>1, <2>2, TurnIs
  <2> HIDE DEF n, d
  <2>4. q.t.txn = "NO" /\ ~q.t.ready
    <3>1. q.t.txn = c.t.txn /\ q.t.ready = c.t.ready
      BY <1>2 DEF Alike, TransportFields
    <3> QED
      BY <1>0, <1>8, <3>1 DEF Good, Slot
  <2>5. Stages(n.b) /\ Queries(n.b, n.z)
    BY <1>0, <1>2, <1>4, <2>1, <2>2, <2>3 DEF Good, Stages, Queries, Unqueried, Joining, BeforeReady, Live, Ends
  <2>6. Slot(n.b, n.t)
    BY <1>2, <2>3, <2>4 DEF Slot, Bound
  <2>7. Good(n, g, r, "NONE")
    BY <1>2, <1>4, <2>1, <2>2, <2>3, <2>4, <2>5, <2>6, TurnKeeps DEF Joining, BeforeReady
  <2>8. Post(n, g, r)
    BY <1>4, <2>1, <2>3, <2>7 DEF Post, Quiet, Live, BeforeReady
  <2> QED
    BY <1>8, <2>8 DEF d
<1>9. CASE d = Fail(q, "TRANSMIT_FAILED")
  <2>1. Post(Fail(q, "TRANSMIT_FAILED"), g, r)
    BY <1>2, FailPosts
  <2> HIDE DEF d
  <2> QED
    BY <1>9, <2>1 DEF d
<1>10. CASE d = a
  <2>1. C = [f \in BdbFields |-> C[f]] /\ Alike(C, q.b, BdbFields, {"issued"})
    BY <1>2 DEF Typed, IsBdb, Alike, BdbFields
  <2> HIDE DEF C
  <2>2. Alike(C, q.b, BdbFields, Minor \cup {"phase"}) /\ C.phase = c.b.phase
    BY <1>2, <2>1 DEF Alike, Minor, BdbFields
  <2>. Alike(C, q.b, BdbFields, {"attempts", "issued", "steps", "app"})
    BY <2>1 DEF Alike
  <2>3. Typed(a) /\ a.b = C /\ a.z = q.z /\ a.t = q.t /\ a.k = q.k
    BY <1>2, <2>1, <2>2, TurnIs
  <2> HIDE DEF a, d
  <2>4. Milder(a.t, q.t)
    BY <2>3 DEF Milder, Steady
  <2>5. Good(a, g, r, "NONE")
    BY <1>2, <2>2, <2>3, <2>4, MinorKeeps
  <2>6. Post(a, g, r)
    BY <2>2, <2>3, <2>5 DEF Post, Quiet, Live, BeforeReady
  <2> QED
    BY <1>10, <2>6 DEF d
<1>11. CASE d = c
  <2> HIDE DEF d
  <2> QED
    BY <1>0, <1>11 DEF d
<1> QED
  BY <1>1, <1>6, <1>7, <1>8, <1>9, <1>10, <1>11
\* A turn that moves nothing but the join's record, with no query open.
LEMMA PlainTurn ==
  ASSUME NEW c, NEW g, NEW r, NEW B, Good(c, g, r, "NONE"),
         B = [f \in BdbFields |-> B[f]], Alike(B, c.b, BdbFields, Minor \cup {"phase"}),
         \/ c.b.phase = "WAIT_TC" /\ B.phase \in {"VERIFYING", "REQUESTING"}
         \/ c.b.phase = "WAIT_CONFIRM" /\ B.phase \in {"PARENT", "VERIFYING"}
  PROVE  Post([c EXCEPT !.b = B], g, r)
<1> DEFINE d == [c EXCEPT !.b = B]
<1>1. /\ Typed(d) /\ d.b = B /\ d.z = c.z /\ d.t = c.t /\ d.k = c.k
      /\ B.recovery = c.b.recovery /\ B.member = c.b.member /\ B.token = c.b.token
  BY TurnIs DEF Good, Alike, Minor, BdbFields
<1> HIDE DEF d
<1>2. c.b.recovery = 0 /\ c.z.query = "NO"
  BY DEF Good, Stages, Ends, Queries, Unqueried
<1>3. Stages(d.b) /\ Queries(d.b, d.z)
  BY <1>1, <1>2 DEF Good, Stages, Queries, Unqueried, Joining, BeforeReady, Live, Ends
<1>4. ~c.t.ready /\ (c.t.txn \in Bound => c.t.cancel)
  BY DEF Good, Slot, Bound, Homes, Over
<1>5. Slot(d.b, d.t)
  BY <1>1, <1>4 DEF Good, Slot
<1>6. Good(d, g, r, "NONE")
  BY <1>1, <1>2, <1>3, <1>4, <1>5, TurnKeeps DEF Joining, BeforeReady, Bound
<1>7. Post(d, g, r)
  BY <1>1, <1>2, <1>6 DEF Post, Quiet, Takeable, Live, BeforeReady
<1> QED
  BY <1>7 DEF d

\* The parent keeps the device: a rejoin ends here, a join goes on to the permit.
LEMMA ParentKeptKeeps ==
  ASSUME NEW c, NEW g, NEW r, NEW wrap, Good(c, g, r, "NONE"), c.b.phase = "PARENT",
         c.t.rx.kind \notin {"UPDATE", "LEAVE"} \/ c.z.app
  PROVE  Post(ParentKept(c, wrap), g, r) /\ ParentKept(c, wrap).b.phase # "PARENT"
<1> DEFINE d == ParentKept(c, wrap)
           s == Broadcast(c, "PERMIT", wrap)
           A == [s.b EXCEPT !.phase = "PERMIT"]
           p == [s EXCEPT !.b = A]
           B == [c.b EXCEPT !.phase = "READY", !.issued = c.b.issued, !.attempts = 0, !.recovery = 3]
           T == [c.t EXCEPT !.ready = TRUE]
           n == [c EXCEPT !.b = B, !.t = T]
<1>0. Typed(c) /\ c.b.recovery \in {0, 2} /\ c.b.member /\ (c.t.txn \in Bound => c.t.cancel) /\ ~c.t.ready
  BY DEF Good, Stages, Slot, Bound, Homes, Over, Ends, Joining, BeforeReady
<1>1. [Fresh(c, "READY") EXCEPT !.b.issued = c.b.issued, !.b.recovery = 3, !.t.ready = TRUE] = n
  <2> DEFINE F == [c.b EXCEPT !.phase = "READY", !.issued = 0, !.attempts = 0]
             f == [c EXCEPT !.b = F]
  <2>1. Fresh(c, "READY") = f
    BY DEF Fresh
  <2>2. [F EXCEPT !.issued = c.b.issued, !.recovery = 3] = B
    BY <1>0 DEF Typed, IsBdb, BdbFields
  <2>3. f.b = F /\ f.t = c.t
    BY <1>0 DEF Typed, Parts
  <2> HIDE DEF F, B, T
  <2>4. [f EXCEPT !.b = [F EXCEPT !.issued = c.b.issued, !.recovery = 3], !.t = T] = n
    BY <1>0, <2>2 DEF Typed, Parts
  <2>5. [f EXCEPT !.b.issued = c.b.issued, !.b.recovery = 3, !.t.ready = TRUE]
        = [f EXCEPT !.b = [f.b EXCEPT !.issued = c.b.issued, !.recovery = 3], !.t = [f.t EXCEPT !.ready = TRUE]]
    OBVIOUS
  <2> HIDE DEF f, n
  <2> QED
    BY <2>1, <2>3, <2>4, <2>5 DEF T
<1>2. \/ d = Fail(c, "TRANSMIT_FAILED")
      \/ c.b.recovery = 2 /\ c.t.announced /\ d = Set(n, {"keepalive", "grace"})
      \/ c.b.recovery = 0 /\ s.rc = "OK" /\ d = p
      \/ d = Fail(s, "TRANSMIT_FAILED") /\ s.rc # "OK"
  BY <1>0, <1>1 DEF ParentKept, To
<1>3. CASE d = Fail(c, "TRANSMIT_FAILED")
  <2>1. Post(Fail(c, "TRANSMIT_FAILED"), g, r) /\ Fail(c, "TRANSMIT_FAILED").b.phase = "ABORTING"
    BY FailPosts, FailKeeps
  <2> HIDE DEF d
  <2> QED
    BY <1>3, <2>1 DEF d
<1>4. CASE c.b.recovery = 2 /\ c.t.announced /\ d = Set(n, {"keepalive", "grace"})
  <2>1. /\ B = [f \in BdbFields |-> B[f]]
        /\ Alike(B, c.b, BdbFields, {"phase", "issued", "attempts", "recovery"})
        /\ B.phase = "READY" /\ B.recovery = 3
    BY <1>0 DEF Typed, IsBdb, Alike, BdbFields
  <2>2. /\ T = [f \in TransportFields |-> T[f]] /\ Alike(T, c.t, TransportFields, {"ready"})
        /\ T.ready = TRUE
    BY <1>0 DEF Typed, IsTransport, Alike, TransportFields
  <2> HIDE DEF B, T
  <2>3. n = [f \in Parts |-> n[f]] /\ n.b = B /\ n.z = c.z /\ n.t = T /\ n.k = c.k
    BY <1>0 DEF Typed, Parts
  <2> HIDE DEF n, d
  <2>4. IsBdb(B) /\ IsTransport(T)
    <3>1. IsBdb(B)
      BY <1>0, <2>1 DEF Typed, IsBdb, Alike, BdbFields
    <3>2. IsTransport(T)
      BY <1>0, <2>2 DEF Typed, IsTransport, Alike, TransportFields
    <3> QED
      BY <3>1, <3>2
  <2>5. Typed(n)
    BY <1>0, <2>3, <2>4 DEF Typed
  <2>6. /\ B.result = c.b.result /\ B.token = c.b.token
        /\ B.member = c.b.member /\ B.abandon = c.b.abandon
        /\ B.search = c.b.search /\ B.timely = c.b.timely
        /\ B.tc = c.b.tc /\ B.confirm = c.b.confirm
        /\ T.rx = c.t.rx /\ T.txn = c.t.txn /\ T.cancel = c.t.cancel /\ T.done = c.t.done
        /\ T.announced = c.t.announced
    BY <2>1, <2>2 DEF Alike, BdbFields, TransportFields
  <2>7. Stages(B) /\ Queries(B, c.z) /\ Stays(B, g)
    <3>1. Stages(B)
      <4>1. B.member /\ B.token \in {0, 1}
        BY <1>0, <2>6 DEF Good, Stages
      <4> QED
        BY <2>1, <4>1 DEF Stages, Live
    <3>2. Queries(B, c.z) /\ Stays(B, g)
      BY <2>1 DEF Queries, Stays, Unqueried
    <3> QED
      BY <3>1, <3>2
  <2>8. Slot(B, T)
    BY <1>0, <1>4, <2>1, <2>2, <2>6 DEF Good, Slot
  <2>9. BindingsAlone => c.t.rx.kind \notin {"UPDATE", "LEAVE"}
    <3> SUFFICES ASSUME BindingsAlone, c.z.app, c.t.rx.kind \in {"UPDATE", "LEAVE"}
                 PROVE  FALSE
      OBVIOUS
    <3>1. "BIND" \in Kinds(g.frames) /\ c.t.rx.kind \in Kinds(g.frames)
      BY <1>4 DEF Good, Heard
    <3> QED
      BY <3>1 DEF Good, Heard, BindingsAlone
  <2>10. Placed(B, T, c.k, r, "NONE")
    BY <1>0, <1>4, <2>1, <2>2, <2>6, <2>9 DEF Good, Placed, Waits, Joining, BeforeReady, Bound
  <2>11. Timed(B, T, g, "NONE") /\ Heard(B, c.z, T, g)
    BY <1>4, <2>1, <2>6 DEF Good, Timed, Heard, Waits
  <2>12. Post(n, g, r)
    BY <2>1, <2>3, <2>5, <2>7, <2>8, <2>10, <2>11 DEF Good, Post, Quiet, Live, BeforeReady
  <2>13. Set(n, {"keepalive", "grace"}).b = B
    BY <2>3, <2>5, SetIs
  <2> QED
    BY <1>4, <2>1, <2>12, <2>13, SetPosts DEF d
<1>5. /\ Typed(s)
      /\ s.b = c.b /\ s.z = c.z /\ s.k = c.k
      /\ \/ /\ s.rc = "OK" /\ s.t.txn = "PERMIT" /\ ~s.t.cancel
            /\ Alike(s.t, c.t, TransportFields, {"txn", "cancel"})
            /\ c.t.txn = "NO" /\ c.t.done = "NO" /\ ~c.z.app
         \/ s.rc \in {"FULL", "TRANSMIT"} /\ s.t = c.t
  BY <1>0, BroadcastIs DEF Bound
<1> HIDE DEF s
<1>6. CASE c.b.recovery = 0 /\ s.rc = "OK" /\ d = p
  <2>1. A = [f \in BdbFields |-> A[f]] /\ Alike(A, s.b, BdbFields, {"phase"}) /\ A.phase = "PERMIT"
    BY <1>5 DEF Typed, IsBdb, Alike, BdbFields
  <2> HIDE DEF A
  <2>2. Alike(A, s.b, BdbFields, Minor \cup {"phase"}) /\ A.token = c.b.token
    BY <1>5, <2>1 DEF Alike, Minor, BdbFields
  <2>3. /\ Typed(p) /\ p.b = A /\ p.z = s.z /\ p.t = s.t /\ p.k = s.k
        /\ A.recovery = c.b.recovery /\ A.member = c.b.member
    BY <1>5, <2>1, <2>2, TurnIs
  <2> HIDE DEF p, d
  <2>4. s.t.rx = c.t.rx /\ s.t.ready = c.t.ready /\ s.t.done = c.t.done
    BY <1>5 DEF Alike, TransportFields
  <2>5. Stages(p.b) /\ Queries(p.b, p.z)
    <3>1. Stages(p.b)
      <4>1. A.member /\ A.token \in {0, 1} /\ A.recovery = 0
        BY <1>0, <1>6, <2>2, <2>3 DEF Good, Stages
      <4> QED
        BY <2>1, <2>3, <4>1 DEF Stages, Live, BeforeReady
    <3>2. Queries(p.b, p.z)
      BY <2>1, <2>3 DEF Queries, Unqueried
    <3> QED
      BY <3>1, <3>2
  <2>6. Slot(p.b, p.t)
    BY <1>0, <1>5, <1>6, <2>1, <2>3, <2>4 DEF Slot, Bound, Homes
  <2>7. Good(p, g, r, "NONE")
    BY <1>5, <1>6, <2>1, <2>2, <2>3, <2>4, <2>5, <2>6, TurnKeeps DEF Joining, BeforeReady
  <2>8. Post(p, g, r)
    BY <2>1, <2>3, <2>7 DEF Post, Quiet, Live, BeforeReady
  <2> QED
    BY <1>6, <2>1, <2>3, <2>8 DEF d
<1>7. CASE d = Fail(s, "TRANSMIT_FAILED") /\ s.rc # "OK"
  <2>1. s.b = c.b /\ s.z = c.z /\ s.k = c.k /\ s.t = c.t
    BY <1>5, <1>7
  <2>2. Good(s, g, r, "NONE")
    BY <1>5, <2>1, SameKeeps
  <2>3. Post(Fail(s, "TRANSMIT_FAILED"), g, r) /\ Fail(s, "TRANSMIT_FAILED").b.phase = "ABORTING"
    BY <2>2, FailPosts, FailKeeps
  <2> HIDE DEF d
  <2> QED
    BY <1>7, <2>3 DEF d
<1> QED
  BY <1>2, <1>3, <1>4, <1>6, <1>7

\* The answer of the parent, or the query once more.
LEMMA InParentKeeps ==
  ASSUME NEW c, NEW g, NEW r, NEW wrap, Mid(c, g, r), c.rc # "ENDED", c.b.phase = "PARENT"
  PROVE  Post(InParent(c, wrap), g, r)
<1> DEFINE q == Taken(c)
           m == CASE ~Takeable(c.z) -> c
                  [] Takeable(c.z) /\ c.z.result = "OK" /\ Kept(c) -> ParentKept(Taken(c), wrap)
                  [] OTHER -> IF Retryable(c, c.z.result) THEN Taken(c) ELSE Fail(Taken(c), "PARENT_FAILED")
           d == InParent(c, wrap)
<1>0. Typed(c) /\ Good(c, g, r, "NONE")
  BY DEF Mid, Good
<1>1. d = IF m.b.phase = "PARENT" THEN Ask(m, "PARENT", "PARENT_FAILED", wrap) ELSE m
  BY DEF InParent
<1>2. \/ m = c /\ ~Takeable(c.z)
      \/ m = q
      \/ m = ParentKept(q, wrap) /\ Takeable(c.z)
      \/ m = Fail(q, "PARENT_FAILED")
  OBVIOUS
<1>3. /\ Typed(q) /\ q.b = c.b /\ q.t = c.t /\ q.k = c.k /\ Good(q, g, r, "NONE")
      /\ q.z.query = "NO" /\ q.z.app = c.z.app
  BY <1>0, TakenIs, TakenKeeps
<1> HIDE DEF q, m
<1>4. (Good(m, g, r, "NONE") /\ Quiet(m) /\ m.b.phase = "PARENT") \/ (Post(m, g, r) /\ m.b.phase # "PARENT")
  <2>1. CASE m = c /\ ~Takeable(c.z)
    BY <1>0, <2>1 DEF Quiet
  <2>2. CASE m = q
    BY <1>3, <2>2 DEF Quiet, Takeable
  <2>3. CASE m = ParentKept(q, wrap) /\ Takeable(c.z)
    <3>1. q.t.rx.kind \notin {"UPDATE", "LEAVE"} \/ q.z.app
      BY <1>3, <2>3 DEF Mid, Looked
    <3> QED
      BY <1>3, <2>3, <3>1, ParentKeptKeeps
  <2>4. CASE m = Fail(q, "PARENT_FAILED")
    <3>1. Post(Fail(q, "PARENT_FAILED"), g, r) /\ Fail(q, "PARENT_FAILED").b.phase = "ABORTING"
      BY <1>3, FailPosts, FailKeeps
    <3> QED
      BY <2>4, <3>1
  <2> QED
    BY <1>2, <2>1, <2>2, <2>3, <2>4
<1>5. CASE Good(m, g, r, "NONE") /\ Quiet(m) /\ m.b.phase = "PARENT"
  <2>1. Post(Ask(m, "PARENT", "PARENT_FAILED", wrap), g, r)
    BY <1>5, AskKeeps
  <2> HIDE DEF d
  <2> QED
    BY <1>1, <1>5, <2>1 DEF d
<1>6. CASE Post(m, g, r) /\ m.b.phase # "PARENT"
  <2> HIDE DEF d
  <2> QED
    BY <1>1, <1>6 DEF d
<1> QED
  BY <1>4, <1>5, <1>6
LEMMA InPermitKeeps ==
  ASSUME NEW c, NEW g, NEW r, Mid(c, g, r), c.rc # "ENDED", c.b.phase = "PERMIT"
  PROVE  Post(InPermit(c), g, r)
<1> DEFINE q == Fetched(c)
           B == [q.b EXCEPT !.phase = "READY", !.attempts = 0]
           p == [q EXCEPT !.b = B]
           d == InPermit(c)
<1>0. Typed(c) /\ Good(c, g, r, "NONE") /\ c.b.recovery = 0 /\ c.b.member
  BY DEF Mid, Good, Stages, Ends, Joining, BeforeReady
<1>1. \/ d = c
      \/ d = Fail(q, "TRANSMIT_FAILED")
      \/ c.t.done # "NO" /\ d = Set(p, {"keepalive", "grace"})
  BY DEF InPermit, Finished
<1>2. /\ Typed(q) /\ q.b = c.b /\ q.z = c.z /\ q.k = c.k /\ Good(q, g, r, "NONE")
      /\ Alike(q.t, c.t, TransportFields, {"done"}) /\ q.t.done = "NO"
  BY <1>0, FetchedIs, FetchedKeeps
<1> HIDE DEF q
<1>3. CASE d = c
  <2> HIDE DEF d
  <2> QED
    BY <1>3, StayPosts DEF d
<1>4. CASE d = Fail(q, "TRANSMIT_FAILED")
  <2>1. Post(Fail(q, "TRANSMIT_FAILED"), g, r)
    BY <1>2, FailPosts
  <2> HIDE DEF d
  <2> QED
    BY <1>4, <2>1 DEF d
<1>5. CASE c.t.done # "NO" /\ d = Set(p, {"keepalive", "grace"})
  <2>1. /\ B = [f \in BdbFields |-> B[f]] /\ Alike(B, q.b, BdbFields, {"phase", "attempts"})
        /\ B.phase = "READY"
    BY <1>2 DEF Typed, IsBdb, Alike, BdbFields
  <2> HIDE DEF B
  <2>2. Alike(B, q.b, BdbFields, Minor \cup {"phase"}) /\ B.token = c.b.token
    BY <1>2, <2>1 DEF Alike, Minor, BdbFields
  <2>3. /\ Typed(p) /\ p.b = B /\ p.z = q.z /\ p.t = q.t /\ p.k = q.k
        /\ B.recovery = c.b.recovery /\ B.member = c.b.member
    BY <1>2, <2>1, <2>2, TurnIs
  <2> HIDE DEF p, d
  <2>4. q.t.txn = "NO" /\ (q.t.ready => q.t.announced /\ q.t.permit)
    <3>1. /\ q.t.txn = c.t.txn /\ q.t.ready = c.t.ready /\ q.t.announced = c.t.announced
          /\ q.t.permit = c.t.permit
      BY <1>2 DEF Alike, TransportFields
    <3> QED
      BY <1>0, <1>5, <3>1 DEF Good, Slot
  <2>5. B.token \in {0, 1} /\ B.member /\ B.recovery = 0
    BY <1>0, <2>2, <2>3 DEF Good, Stages
  <2>6. Stages(p.b)
    BY <2>1, <2>3, <2>5 DEF Stages, Live
  <2>7. Queries(p.b, p.z) /\ Slot(p.b, p.t)
    BY <1>2, <2>1, <2>3, <2>4 DEF Queries, Unqueried, Slot, Bound
  <2>8. Good(p, g, r, "NONE")
    BY <1>2, <2>1, <2>2, <2>3, <2>4, <2>6, <2>7, TurnKeeps DEF Joining, BeforeReady
  <2>9. Post(p, g, r)
    BY <2>1, <2>3, <2>8 DEF Post, Quiet, Live, BeforeReady
  <2> QED
    BY <1>5, <2>9, SetPosts DEF d
<1> QED
  BY <1>1, <1>3, <1>4, <1>5

\* The steps of a rejoin, which take the device back in.
LEMMA RecoverKeeps ==
  ASSUME NEW c, NEW d, NEW g, NEW r, Good(c, g, r, "NONE"), c.b.phase = "RECOVERING", Typed(d),
         Alike(d.b, c.b, BdbFields, Minor \cup {"recovery"}), d.b.recovery \in {c.b.recovery, 2},
         d.z = c.z, d.k = c.k, d.t.rx = c.t.rx, ~d.t.ready, Slot(d.b, d.t)
  PROVE  Good(d, g, r, "NONE") /\ d.b.phase = "RECOVERING" /\ d.b.recovery \in {1, 2}
<1>1. /\ d.b.phase = c.b.phase /\ d.b.result = c.b.result /\ d.b.token = c.b.token
      /\ d.b.member = c.b.member /\ d.b.abandon = c.b.abandon
      /\ d.b.search = c.b.search /\ d.b.timely = c.b.timely
      /\ d.b.tc = c.b.tc /\ d.b.confirm = c.b.confirm
  BY DEF Alike, BdbFields, Minor
<1>2. c.b.recovery \in {1, 2}
  BY DEF Good, Stages, Ends
<1>3. Stages(d.b)
  BY <1>1, <1>2 DEF Good, Stages, Joining, BeforeReady
<1>4. Queries(d.b, d.z)
  BY <1>1 DEF Good, Queries, Unqueried
<1>5. Placed(d.b, d.t, d.k, r, "NONE")
  <2>1. d.t.txn = "PERMIT" => d.t.cancel
    BY <1>1 DEF Slot, Bound, Homes, Over
  <2> QED
    BY <1>1, <1>2, <2>1 DEF Placed, Joining, BeforeReady
<1>6. Timed(d.b, d.t, g, "NONE")
  BY <1>1, <1>2 DEF Good, Timed, Waits
<1>7. Stays(d.b, g) /\ Heard(d.b, d.z, d.t, g)
  BY <1>1, <1>2 DEF Good, Stays, Heard
<1> QED
  BY <1>1, <1>2, <1>3, <1>4, <1>5, <1>6, <1>7 DEF Good

\* The address is installed: the join goes back to INSTALLING.
LEMMA InstallIs ==
  ASSUME NEW c, Typed(c)
  PROVE  LET d == Install(c) IN
         /\ Typed(d) /\ d.z = c.z /\ d.t = c.t /\ d.k = c.k
         /\ Alike(d.b, c.b, BdbFields, {"token", "issued", "phase"})
         /\ d.b.token = 1 - c.b.token /\ d.b.issued = 0 /\ d.b.phase = "INSTALLING"
<1> DEFINE B == [c.b EXCEPT !.token = 1 - @, !.issued = 0, !.phase = "INSTALLING"]
           p == [c EXCEPT !.b = B]
           d == Install(c)
<1>1. d = Set(p, {"until"})
  BY DEF Install
<1>2. /\ B = [f \in BdbFields |-> B[f]] /\ Alike(B, c.b, BdbFields, {"token", "issued", "phase"})
      /\ B.token = 1 - c.b.token /\ B.issued = 0 /\ B.phase = "INSTALLING"
  BY DEF Typed, IsBdb, Alike, BdbFields
<1> HIDE DEF B, d
<1>3. IsBdb(B)
  BY <1>2 DEF Typed, IsBdb, Alike, BdbFields
<1>4. Typed(p) /\ p.b = B /\ p.z = c.z /\ p.t = c.t /\ p.k = c.k
  BY <1>3, BdbIs
<1> HIDE DEF p
<1>5. Typed(d) /\ d.b = p.b /\ d.z = p.z /\ d.t = p.t /\ d.k = p.k
  BY <1>1, <1>4, SetIs
<1> QED
  BY <1>2, <1>4, <1>5 DEF d

\* ... which the invariant allows to a device that is shut off, has nothing of
\* its own in the slot, and is either a member or back in a rejoin.
LEMMA InstallKeeps ==
  ASSUME NEW c, NEW g, NEW r, Good(c, g, r, "NONE"), ~c.t.ready, c.t.txn = "NO",
         \/ c.b.phase = "UPDATING"
         \/ c.b.recovery = 2 /\ c.b.phase = "RECOVERING"
  PROVE  LET d == Install([c EXCEPT !.b = [@ EXCEPT !.member = TRUE]]) IN
         Good(d, g, r, "NONE") /\ d.b.phase = "INSTALLING"
<1> DEFINE A == [c.b EXCEPT !.member = TRUE]
           p == [c EXCEPT !.b = A]
           d == Install(p)
<1>0. Typed(c)
  BY DEF Good
<1>1. A = [f \in BdbFields |-> A[f]] /\ Alike(A, c.b, BdbFields, {"member"}) /\ A.member = TRUE
  BY <1>0 DEF Typed, IsBdb, Alike, BdbFields
<1> HIDE DEF A
<1>2. IsBdb(A)
  BY <1>0, <1>1 DEF Typed, IsBdb, Alike, BdbFields
<1>3. Typed(p) /\ p.b = A /\ p.z = c.z /\ p.t = c.t /\ p.k = c.k
  BY <1>0, <1>2, BdbIs
<1> HIDE DEF p
<1>4. /\ Typed(d) /\ d.z = p.z /\ d.t = p.t /\ d.k = p.k
      /\ Alike(d.b, p.b, BdbFields, {"token", "issued", "phase"})
      /\ d.b.token = 1 - p.b.token /\ d.b.issued = 0 /\ d.b.phase = "INSTALLING"
  BY <1>3, InstallIs
<1> HIDE DEF d
<1>5. /\ d.b.result = c.b.result /\ d.b.member = TRUE /\ d.b.recovery = c.b.recovery
      /\ d.b.search = c.b.search /\ d.b.timely = c.b.timely
      /\ d.b.tc = c.b.tc /\ d.b.confirm = c.b.confirm /\ p.b.token = c.b.token
  BY <1>1, <1>3, <1>4 DEF Alike, BdbFields
<1>6. d.b.token \in {0, 1} /\ c.b.recovery \in {0, 2, 3}
  BY <1>4, <1>5 DEF Good, Stages, Ends
<1>7. Stages(d.b)
  BY <1>4, <1>5, <1>6 DEF Stages, Live, BeforeReady, Joining
<1>8. Queries(d.b, d.z)
  BY <1>3, <1>4, <1>5 DEF Good, Stages, Queries, Unqueried, Ends
<1>9. Slot(d.b, d.t) /\ Placed(d.b, d.t, d.k, r, "NONE")
  BY <1>3, <1>4, <1>5 DEF Good, Slot, Placed, Bound, Joining, BeforeReady
<1>10. Timed(d.b, d.t, g, "NONE") /\ Stays(d.b, g) /\ Heard(d.b, d.z, d.t, g)
  <2>1. Timed(d.b, d.t, g, "NONE")
    BY <1>3, <1>4, <1>5 DEF Good, Stages, Timed, Joining, BeforeReady
  <2>2. Stays(d.b, g)
    BY <1>4, <1>5 DEF Stays
  <2>3. Heard(d.b, d.z, d.t, g)
    BY <1>3, <1>4, <1>5 DEF Good, Heard
  <2> QED
    BY <2>1, <2>2, <2>3
<1> QED
  BY <1>4, <1>7, <1>8, <1>9, <1>10 DEF Good, d, p, A
LEMMA InRecoveringKeeps ==
  ASSUME NEW c, NEW g, NEW r, Mid(c, g, r), c.rc # "ENDED", c.b.phase = "RECOVERING"
  PROVE  Post(InRecovering(c), g, r)
<1> DEFINE A == [c.b EXCEPT !.recovery = 2]
           y == IF c.z.event = "REJOINED" THEN [c EXCEPT !.b.recovery = 2] ELSE c
           w == Fetched(y)
           e == CASE ~(y.b.issued = 1 /\ Finished(y)) -> y
                  [] y.b.issued = 1 /\ y.t.done = "OK" -> Set([Fetched(y) EXCEPT !.b.issued = 2], {"until"})
                  [] OTHER -> [Fetched(y) EXCEPT !.b.issued = 0]
           q == Queued(e, "REJOIN", FALSE)
           p == [q EXCEPT !.b.issued = 1, !.b.attempts = @ + 1]
           d == InRecovering(c)
<1>0. /\ Typed(c) /\ Good(c, g, r, "NONE") /\ ~c.t.ready /\ Slot(c.b, c.t)
      /\ c.b.recovery \in {1, 2}
  BY DEF Mid, Good, Slot, Stages, Ends
<1>1. \/ d = Ended(Fail(c, "REJOIN_REFUSED"))
      \/ d = e
      \/ e.b.recovery = 2 /\ d = Rejoined(e)
      \/ d = Fail(e, "NO_PARENT")
      \/ q.rc = "OK" /\ d = p
  <2>1. d = CASE c.z.event = "REFUSED" -> Ended(Fail(c, "REJOIN_REFUSED"))
              [] c.z.event # "REFUSED" /\ e.b.issued = 1 -> e
              [] c.z.event # "REFUSED" /\ e.b.issued # 1 /\ e.b.recovery = 2 /\ e.k.phase = "VERIFIED" -> Rejoined(e)
              [] c.z.event # "REFUSED" /\ e.b.issued # 1 /\ ~(e.b.recovery = 2 /\ e.k.phase = "VERIFIED")
                   /\ (e.b.issued = 0 \/ "until" \in e.due) ->
                   CASE e.b.attempts = ATTEMPTS -> Fail(e, "NO_PARENT")
                     [] e.b.attempts # ATTEMPTS /\ q.rc = "OK" -> p
                     [] OTHER -> e
              [] OTHER -> e
    BY Zenon DEF InRecovering
  <2> HIDE DEF d, e, q, p
  <2> QED
    BY <2>1
\* What a step of the rejoin leaves.
<1> DEFINE Near(x) ==
             /\ Typed(x) /\ Good(x, g, r, "NONE") /\ x.b.phase = "RECOVERING" /\ x.b.recovery \in {1, 2}
             /\ ~x.t.ready /\ Slot(x.b, x.t)
<1>2. ASSUME NEW x, NEW B, Near(x), B = [f \in BdbFields |-> B[f]],
             Alike(B, x.b, BdbFields, {"issued", "attempts", "recovery"}), B.recovery \in {x.b.recovery, 2}
      PROVE  Near([x EXCEPT !.b = B])
  <2> DEFINE n == [x EXCEPT !.b = B]
  <2>1. IsBdb(B) /\ B.phase = "RECOVERING"
    BY <1>2 DEF Typed, IsBdb, Alike, BdbFields
  <2>2. Typed(n) /\ n.b = B /\ n.z = x.z /\ n.t = x.t /\ n.k = x.k
    BY <1>2, <2>1, BdbIs
  <2> HIDE DEF n
  <2>3. Slot(n.b, n.t) /\ Alike(n.b, x.b, BdbFields, Minor \cup {"recovery"})
    BY <1>2, <2>1, <2>2 DEF Slot, Alike, Minor
  <2>4. Good(n, g, r, "NONE") /\ n.b.phase = "RECOVERING" /\ n.b.recovery \in {1, 2}
    BY <1>2, <2>2, <2>3, RecoverKeeps
  <2> QED
    BY <1>2, <2>2, <2>3, <2>4 DEF n
<1>3. Near(c)
  BY <1>0
<1>4. Near(y)
  <2>1. CASE c.z.event = "REJOINED"
    <3>1. A = [f \in BdbFields |-> A[f]] /\ Alike(A, c.b, BdbFields, {"recovery"}) /\ A.recovery = 2
      BY <1>0 DEF Typed, IsBdb, Alike, BdbFields
    <3> HIDE DEF A
    <3>2. Alike(A, c.b, BdbFields, {"issued", "attempts", "recovery"})
      BY <3>1 DEF Alike
    <3> HIDE DEF Near
    <3>3. Near([c EXCEPT !.b = A])
      BY <1>2, <1>3, <3>1, <3>2
    <3>4. y = [c EXCEPT !.b = A]
      BY <2>1 DEF A
    <3> HIDE DEF y
    <3> QED
      BY <3>3, <3>4
  <2>2. CASE c.z.event # "REJOINED"
    <3> HIDE DEF Near
    <3> QED
      BY <1>3, <2>2
  <2> QED
    BY <2>1, <2>2
<1> HIDE DEF y
<1>5. Near(w)
  <2>1. /\ Typed(w) /\ w.b = y.b /\ w.z = y.z /\ w.k = y.k /\ Good(w, g, r, "NONE")
        /\ Alike(w.t, y.t, TransportFields, {"done"}) /\ w.t.done = "NO"
    BY <1>4, FetchedIs, FetchedKeeps
  <2> HIDE DEF w
  <2>2. w.t.ready = y.t.ready
    BY <2>1 DEF Alike, TransportFields
  <2> QED
    BY <1>4, <2>1, <2>2 DEF Good
<1> HIDE DEF w
<1>6. ASSUME NEW i
      PROVE  Near([w EXCEPT !.b = [w.b EXCEPT !.issued = i]])
  <2> DEFINE B == [w.b EXCEPT !.issued = i]
  <2>1. B = [f \in BdbFields |-> B[f]] /\ Alike(B, w.b, BdbFields, {"issued"})
    BY <1>5 DEF Typed, IsBdb, Alike, BdbFields
  <2> HIDE DEF B
  <2>2. Alike(B, w.b, BdbFields, {"issued", "attempts", "recovery"}) /\ B.recovery = w.b.recovery
    BY <2>1 DEF Alike, BdbFields
  <2> HIDE DEF Near
  <2> QED
    BY <1>2, <1>5, <2>1, <2>2 DEF B
<1>7. Near(e)
  <2> DEFINE n == [w EXCEPT !.b = [w.b EXCEPT !.issued = 2]]
             o == [w EXCEPT !.b = [w.b EXCEPT !.issued = 0]]
  <2>1. e = y \/ e = Set(n, {"until"}) \/ e = o
    BY DEF w
  <2>2. Near(n) /\ Near(o)
    <3> HIDE DEF Near
    <3> QED
      BY <1>6
  <2> HIDE DEF n, o, e
  <2>3. Near(Set(n, {"until"}))
    <3> DEFINE m == Set(n, {"until"})
    <3>1. Typed(m) /\ m.b = n.b /\ m.z = n.z /\ m.t = n.t /\ m.k = n.k
      BY <2>2, SetIs
    <3> HIDE DEF m
    <3>2. Good(m, g, r, "NONE")
      BY <2>2, <3>1, SameKeeps
    <3> QED
      BY <2>2, <3>1, <3>2 DEF m
  <2> HIDE DEF Near
  <2> QED
    BY <1>4, <2>1, <2>2, <2>3
<1> HIDE DEF e
<1>8. CASE d = Ended(Fail(c, "REJOIN_REFUSED"))
  <2>1. Post(Ended(Fail(c, "REJOIN_REFUSED")), g, r)
    BY <1>0, EndedFails
  <2> HIDE DEF d
  <2> QED
    BY <1>8, <2>1 DEF d
<1>9. CASE d = e
  <2>1. Post(e, g, r)
    BY <1>7 DEF Post, Quiet, Live
  <2> HIDE DEF d
  <2> QED
    BY <1>9, <2>1 DEF d
<1>10. CASE e.b.recovery = 2 /\ d = Rejoined(e)
  <2> DEFINE n == Install([e EXCEPT !.b = [@ EXCEPT !.member = TRUE]])
  <2>1. d = e \/ (Rested(e) /\ d = n)
    BY <1>10 DEF Rejoined
  <2>2. CASE d = e
    <3>1. Post(e, g, r)
      BY <1>7 DEF Post, Quiet, Live
    <3> HIDE DEF d
    <3> QED
      BY <2>2, <3>1 DEF d
  <2>3. CASE Rested(e) /\ d = n
    <3>1. e.t.txn = "NO"
      BY <2>3 DEF Rested, Drained
    <3>2. Good(n, g, r, "NONE") /\ n.b.phase = "INSTALLING"
      BY <1>7, <1>10, <3>1, InstallKeeps
    <3> HIDE DEF n, d
    <3>3. Post(n, g, r)
      BY <3>2 DEF Post, Quiet, Live, BeforeReady
    <3> QED
      BY <2>3, <3>3 DEF d
  <2> QED
    BY <2>1, <2>2, <2>3
<1>11. CASE d = Fail(e, "NO_PARENT")
  <2>1. Post(Fail(e, "NO_PARENT"), g, r)
    BY <1>7, FailPosts
  <2> HIDE DEF d
  <2> QED
    BY <1>11, <2>1 DEF d
<1>12. CASE q.rc = "OK" /\ d = p
  <2>1. /\ Typed(q)
        /\ q.b = e.b /\ q.z = e.z /\ q.k = e.k /\ q.due = e.due
        /\ \/ /\ q.rc = "OK" /\ q.t.txn = "REJOIN" /\ ~q.t.cancel
              /\ Alike(q.t, e.t, TransportFields, {"txn", "cancel"})
              /\ e.t.txn = "NO" /\ e.t.done = "NO"
           \/ q.rc \in {"FULL", "EXHAUSTED"} /\ q.t = e.t
    BY <1>7, QueuedIs DEF Bound
  <2> DEFINE B == [q.b EXCEPT !.issued = 1, !.attempts = @ + 1]
  <2>2. B = [f \in BdbFields |-> B[f]] /\ Alike(B, q.b, BdbFields, {"issued", "attempts"})
    BY <2>1 DEF Typed, IsBdb, Alike, BdbFields
  <2> HIDE DEF q
  <2>3. Near(q)
    <3>1. q.t.rx = e.t.rx /\ q.t.ready = e.t.ready /\ q.t.done = "NO"
      BY <1>12, <2>1 DEF Alike, TransportFields
    <3>2. Slot(q.b, q.t)
      BY <1>7, <1>12, <2>1, <3>1 DEF Slot, Homes, Bound
    <3>3. Alike(q.b, e.b, BdbFields, Minor \cup {"recovery"})
      BY <2>1 DEF Alike
    <3>4. Good(q, g, r, "NONE") /\ q.b.phase = "RECOVERING" /\ q.b.recovery \in {1, 2}
      BY <1>7, <2>1, <3>1, <3>2, <3>3, RecoverKeeps
    <3> QED
      BY <1>7, <2>1, <3>1, <3>2, <3>4
  <2> HIDE DEF B
  <2>4. Alike(B, q.b, BdbFields, {"issued", "attempts", "recovery"}) /\ B.recovery = q.b.recovery
    BY <2>2 DEF Alike, BdbFields
  <2>5. Near([q EXCEPT !.b = B])
    <3> HIDE DEF Near
    <3> QED
      BY <1>2, <2>2, <2>3, <2>4
  <2>6. p = [q EXCEPT !.b = B]
    BY DEF B
  <2> HIDE DEF p, d
  <2>7. Post(p, g, r)
    BY <2>5, <2>6 DEF Post, Quiet, Live
  <2> QED
    BY <1>12, <2>7 DEF d
<1> QED
  BY <1>1, <1>8, <1>9, <1>10, <1>11, <1>12
\* The keepalive of a ready device.
LEMMA InReadyKeeps ==
  ASSUME NEW c, NEW g, NEW r, NEW wrap, Mid(c, g, r), c.rc # "ENDED", c.b.phase = "READY"
  PROVE  Post(InReady(c, wrap), g, r)
<1> DEFINE w == Taken(c)
           next == IF c.z.result = "OK" THEN 0 ELSE w.b.attempts
           A == [w.b EXCEPT !.attempts = next]
           a == [w EXCEPT !.b = A]
           y == CASE ~Takeable(c.z) -> c
                  [] Takeable(c.z) /\ (\/ c.z.query # "PARENT"
                                       \/ c.z.result = "OK" /\ ~Kept(c)
                                       \/ c.z.result \notin {"OK", "TIMEOUT", "TRANSMIT"}
                                       \/ c.z.result # "OK" /\ c.b.attempts = KEEPALIVES) ->
                       Fail(Taken(c), "PARENT_FAILED")
                  [] OTHER -> Set([Taken(c) EXCEPT !.b.attempts = IF c.z.result = "OK" THEN 0 ELSE @],
                                  {"keepalive", "grace"})
           q == Request(y, "PARENT", wrap)
           p == [q EXCEPT !.b.attempts = @ + 1]
           o == [y EXCEPT !.rc = "OK"]
           d == InReady(c, wrap)
<1>0. Typed(c) /\ Good(c, g, r, "NONE")
  BY DEF Mid, Good
<1>1. d = CASE ~(y.b.phase = "READY" /\ ~PollKeepalive(y) /\ "keepalive" \in y.due /\ y.z.query = "NO") -> y
            [] OTHER ->
                 CASE q.rc = "OK" -> p
                   [] q.rc = "FULL" /\ "grace" \notin y.due -> o
                   [] OTHER -> Fail(y, "PARENT_FAILED")
  BY Zenon DEF InReady
<1>2. y = c \/ y = Fail(w, "PARENT_FAILED") \/ y = Set(a, {"keepalive", "grace"})
  OBVIOUS
<1>3. /\ Typed(w) /\ w.b = c.b /\ w.t = c.t /\ w.k = c.k /\ Good(w, g, r, "NONE")
      /\ w.z.query = "NO" /\ w.z.app = c.z.app
  BY <1>0, TakenIs, TakenKeeps
<1>4. A = [f \in BdbFields |-> A[f]] /\ Alike(A, w.b, BdbFields, {"attempts"})
  BY <1>3 DEF Typed, IsBdb, Alike, BdbFields
<1> HIDE DEF w, A
<1>5. Post(a, g, r) /\ a.b.phase = "READY"
  <2>1. Alike(A, w.b, BdbFields, Minor \cup {"phase"}) /\ A.phase = "READY"
    BY <1>3, <1>4 DEF Alike, Minor, BdbFields
  <2>2. Typed(a) /\ a.b = A /\ a.z = w.z /\ a.t = w.t /\ a.k = w.k
    BY <1>3, <1>4, <2>1, TurnIs
  <2> HIDE DEF a
  <2>3. Alike(a.b, w.b, BdbFields, {"attempts", "issued", "steps", "app"}) /\ Milder(a.t, w.t)
    BY <1>4, <2>2 DEF Alike, Milder, Steady
  <2>4. Good(a, g, r, "NONE")
    BY <1>3, <2>2, <2>3, MinorKeeps
  <2> QED
    BY <2>1, <2>2, <2>4 DEF Post, Quiet, Live
<1> HIDE DEF a, y
<1>6. Post(y, g, r) /\ (y.b.phase = "READY" \/ y = Fail(w, "PARENT_FAILED"))
  <2>1. CASE y = c
    BY <2>1, StayPosts
  <2>2. CASE y = Fail(w, "PARENT_FAILED")
    <3>1. Post(Fail(w, "PARENT_FAILED"), g, r)
      BY <1>3, FailPosts
    <3> QED
      BY <2>2, <3>1
  <2>3. CASE y = Set(a, {"keepalive", "grace"})
    <3>1. Post(Set(a, {"keepalive", "grace"}), g, r)
      BY <1>5, SetPosts
    <3>2. Set(a, {"keepalive", "grace"}).b = a.b
      BY <1>5, SetIs DEF Post, Good
    <3> QED
      BY <1>5, <2>3, <3>1, <3>2
  <2> QED
    BY <1>2, <2>1, <2>2, <2>3
<1>7. \/ d = y
      \/ y.b.phase = "READY" /\ q.rc = "OK" /\ d = p
      \/ d = o
      \/ d = Fail(y, "PARENT_FAILED")
  <2> HIDE DEF q, p, o, d
  <2> QED
    BY <1>1
<1>8. CASE d = y
  <2> HIDE DEF d
  <2> QED
    BY <1>6, <1>8 DEF d
<1>9. CASE y.b.phase = "READY" /\ q.rc = "OK" /\ d = p
  <2> DEFINE B == [q.b EXCEPT !.attempts = @ + 1]
  <2>0. Typed(y) /\ Good(y, g, r, "NONE")
    BY <1>6 DEF Post, Good
  <2>1. /\ Typed(q)
        /\ q.b = y.b /\ q.k = y.k
        /\ \/ /\ q.rc = "OK" /\ q.t.txn = "PARENT" /\ ~q.t.cancel
              /\ Alike(q.t, y.t, TransportFields, {"txn", "cancel"})
              /\ y.t.txn = "NO" /\ y.t.done = "NO"
              /\ Alike(q.z, y.z, ZdoFields, {"query", "qtx", "txdone", "result"})
              /\ ~q.z.txdone
           \/ q.rc \in {"FULL", "TRANSMIT"} /\ q.t = y.t /\ q.z = y.z /\ q.due = y.due
    BY <2>0, RequestIs
  <2> HIDE DEF q
  <2>2. Milder(q.t, y.t) /\ (q.z.app => y.z.app)
    BY <2>1 DEF Milder, Steady, Alike, TransportFields, ZdoFields, Plain
  <2>3. B = [f \in BdbFields |-> B[f]] /\ Alike(B, q.b, BdbFields, {"attempts"})
    BY <2>1 DEF Typed, IsBdb, Alike, BdbFields
  <2>4. p = [q EXCEPT !.b = B]
    OBVIOUS
  <2> HIDE DEF B, p, d
  <2>5. /\ Alike(B, q.b, BdbFields, Minor \cup {"phase"}) /\ B.phase = "READY"
    BY <1>9, <2>1, <2>3 DEF Alike, Minor, BdbFields
  <2>6. Typed(p) /\ p.b = B /\ p.z = q.z /\ p.t = q.t /\ p.k = q.k
    BY <2>1, <2>3, <2>4, <2>5, TurnIs
  <2>7. Alike(p.b, y.b, BdbFields, {"attempts", "issued", "steps", "app"})
    BY <2>1, <2>3, <2>6 DEF Alike
  <2>8. Good(p, g, r, "NONE")
    BY <1>9, <2>0, <2>1, <2>2, <2>6, <2>7, MinorKeeps
  <2>9. Post(p, g, r)
    BY <2>5, <2>6, <2>8 DEF Post, Quiet, Live
  <2> QED
    BY <1>9, <2>9 DEF d
<1>10. CASE d = o
  <2>1. Post(o, g, r)
    BY <1>6, RcPosts
  <2> HIDE DEF o, d
  <2> QED
    BY <1>10, <2>1 DEF d
<1>11. CASE d = Fail(y, "PARENT_FAILED")
  <2>1. Post(Fail(y, "PARENT_FAILED"), g, r)
    BY <1>6, FailPosts DEF Post
  <2> HIDE DEF d
  <2> QED
    BY <1>11, <2>1 DEF d
<1> QED
  BY <1>7, <1>8, <1>9, <1>10, <1>11

LEMMA BranchKeeps ==
  ASSUME NEW c, NEW g, NEW r, NEW wrap, Mid(c, g, r)
  PROVE  Post(Branch(c, wrap), g, r)
<1> DEFINE d == Branch(c, wrap)
           B == [c.b EXCEPT !.phase = "VERIFYING", !.issued = 0, !.attempts = 0]
           C == [c.b EXCEPT !.phase = "PARENT", !.attempts = 0]
<1>0. Typed(c) /\ Good(c, g, r, "NONE")
  BY DEF Mid, Good
<1>1. CASE c.rc = "ENDED"
  <2>1. d = c
    BY <1>1 DEF Branch
  <2> QED
    BY <1>1, <2>1 DEF Mid, Post
<1>2. CASE c.rc # "ENDED"
  <2>1. CASE c.b.phase = "WAIT_KEY"
    <3>1. d = InWaitKey(c, wrap)
      BY <1>2, <2>1 DEF Branch
    <3> QED
      BY <1>2, <2>1, <3>1, InWaitKeyKeeps
  <2>2. CASE c.b.phase = "ANNOUNCING"
    <3>1. d = InAnnouncing(c)
      BY <1>2, <2>2 DEF Branch
    <3> QED
      BY <1>2, <2>2, <3>1, InAnnouncingKeeps
  <2>3. CASE c.b.phase = "NODE"
    <3>1. d = InNode(c, wrap)
      BY <1>2, <2>3 DEF Branch
    <3> QED
      BY <1>2, <2>3, <3>1, InNodeKeeps
  <2>4. CASE c.b.phase \in {"REQUESTING", "VERIFYING"}
    <3>1. d = InExchange(c)
      BY <1>2, <2>4 DEF Branch
    <3> QED
      BY <1>2, <2>4, <3>1, InExchangeKeeps
  <2>5. CASE c.b.phase = "WAIT_TC" /\ c.b.tc
    <3>1. d = [c EXCEPT !.b = B]
      BY <1>2, <2>5 DEF Branch, Fresh
    <3>2. /\ B = [f \in BdbFields |-> B[f]] /\ Alike(B, c.b, BdbFields, Minor \cup {"phase"})
          /\ B.phase = "VERIFYING"
      BY <1>0 DEF Typed, IsBdb, Alike, BdbFields, Minor
    <3> HIDE DEF B, d
    <3>3. Post([c EXCEPT !.b = B], g, r)
      BY <1>0, <2>5, <3>2, PlainTurn
    <3> QED
      BY <3>1, <3>3 DEF d
  <2>6. CASE c.b.phase = "WAIT_CONFIRM" /\ c.b.confirm
    <3>1. d = [c EXCEPT !.b = C]
      BY <1>2, <2>6 DEF Branch
    <3>2. /\ C = [f \in BdbFields |-> C[f]] /\ Alike(C, c.b, BdbFields, Minor \cup {"phase"})
          /\ C.phase = "PARENT"
      BY <1>0 DEF Typed, IsBdb, Alike, BdbFields, Minor
    <3> HIDE DEF C, d
    <3>3. Post([c EXCEPT !.b = C], g, r)
      BY <1>0, <2>6, <3>2, PlainTurn
    <3> QED
      BY <3>1, <3>3 DEF d
  <2>7. CASE c.b.phase = "PARENT"
    <3>1. d = InParent(c, wrap)
      BY <1>2, <2>7 DEF Branch
    <3> QED
      BY <1>2, <2>7, <3>1, InParentKeeps
  <2>8. CASE c.b.phase = "PERMIT"
    <3>1. d = InPermit(c)
      BY <1>2, <2>8 DEF Branch
    <3> QED
      BY <1>2, <2>8, <3>1, InPermitKeeps
  <2>9. CASE c.b.phase = "RECOVERING"
    <3>1. d = InRecovering(c)
      BY <1>2, <2>9 DEF Branch
    <3> QED
      BY <1>2, <2>9, <3>1, InRecoveringKeeps
  <2>10. CASE c.b.phase = "READY"
    <3>1. d = InReady(c, wrap)
      BY <1>2, <2>10 DEF Branch
    <3> QED
      BY <1>2, <2>10, <3>1, InReadyKeeps
  <2>11. CASE /\ c.b.phase \notin {"WAIT_KEY", "ANNOUNCING", "NODE", "REQUESTING", "VERIFYING", "PARENT",
                                   "PERMIT", "RECOVERING", "READY"}
              /\ ~(c.b.phase = "WAIT_TC" /\ c.b.tc) /\ ~(c.b.phase = "WAIT_CONFIRM" /\ c.b.confirm)
    <3>1. d = c
      BY <1>2, <2>11 DEF Branch
    <3> QED
      BY <2>11, <3>1, StayPosts
  <2> QED
    BY <2>1, <2>2, <2>3, <2>4, <2>5, <2>6, <2>7, <2>8, <2>9, <2>10, <2>11
<1> QED
  BY <1>1, <1>2
LEMMA KeyDeadlinesKeep ==
  ASSUME NEW c, NEW g, NEW r, Post(c, g, r)
  PROVE  Post(KeyDeadlines(c), g, r)
<1> DEFINE d == KeyDeadlines(c)
           B == [c.b EXCEPT !.phase = IF @ = "WAIT_TC" THEN "REQUESTING" ELSE "VERIFYING", !.issued = 0]
<1>0. Typed(c) /\ Good(c, g, r, "NONE")
  BY DEF Post, Good
<1>1. \/ d = c \/ d = Fail(c, "KEY_TIMEOUT") \/ d = Fail(c, "TC_FAILED")
      \/ c.b.phase \in {"WAIT_TC", "WAIT_CONFIRM"} /\ d = [c EXCEPT !.b = B]
  BY DEF KeyDeadlines
<1>2. Post(Fail(c, "KEY_TIMEOUT"), g, r) /\ Post(Fail(c, "TC_FAILED"), g, r)
  BY <1>0, FailPosts
<1>3. ASSUME c.b.phase \in {"WAIT_TC", "WAIT_CONFIRM"}
      PROVE  Post([c EXCEPT !.b = B], g, r)
  <2>1. /\ B = [f \in BdbFields |-> B[f]] /\ Alike(B, c.b, BdbFields, Minor \cup {"phase"})
        /\ B.phase = IF c.b.phase = "WAIT_TC" THEN "REQUESTING" ELSE "VERIFYING"
    BY <1>0 DEF Typed, IsBdb, Alike, BdbFields, Minor
  <2> HIDE DEF B
  <2> QED
    BY <1>0, <1>3, <2>1, PlainTurn
<1> HIDE DEF d, B
<1>4. Post(d, g, r)
  BY <1>1, <1>2, <1>3
<1> QED
  BY <1>4 DEF d

\* The whole of runtime().
LEMMA RuntimeKeeps ==
  ASSUME NEW c, NEW g, NEW r, NEW wrap, Good(c, g, r, "NONE"), Quiet(c), c.b.phase \in Live
  PROVE  Post(Runtime(c, wrap), g, r)
<1> DEFINE c1 == ZdoStep(c, wrap)
           c2 == SecurityEvent(ZdoFailed(c1))
           c3 == Application(c2)
           c4 == Branch(c3, wrap)
           c5 == KeyDeadlines(c4)
           d == [c5 EXCEPT !.rc = "OK"]
<1>1. Runtime(c, wrap) = d
  BY Zenon DEF Runtime
<1>2. Good(c1, g, r, c1.z.event) /\ Looked(c1, g) /\ c1.b.phase \in Live /\ c1.rc # "ENDED"
      /\ (c1.z.event # "NONE" => c1.t.rx.kind = "NONE")
  <2>1. c.b.phase # "IDLE"
    BY DEF Live, BeforeReady
  <2> QED
    BY <2>1, ZdoKeeps DEF Quiet
<1> HIDE DEF c1
<1>3. Mid(c2, g, r)
  BY <1>2, EventsKeep
<1> HIDE DEF c2
<1>4. Mid(c3, g, r)
  BY <1>3, ApplicationKeeps
<1> HIDE DEF c3
<1>5. Post(c4, g, r)
  BY <1>4, BranchKeeps
<1> HIDE DEF c4
<1>6. Post(c5, g, r)
  BY <1>5, KeyDeadlinesKeep
<1> HIDE DEF c5
<1>7. Post(d, g, r)
  BY <1>6, RcPosts
<1> HIDE DEF d
<1> QED
  BY <1>1, <1>7

(*** The parts of a step around runtime().                                     ***)

\* A join that is over; nothing in it can come back.
LEMMA OverKeeps ==
  ASSUME NEW c, NEW d, NEW g, NEW r, Good(c, g, r, "NONE"), Typed(d),
         Alike(d.b, c.b, BdbFields, Minor \cup {"phase", "result", "member"}),
         d.b.member => c.b.member, d.b.phase \in Over, d.z = c.z, d.k = c.k,
         Alike(d.t, c.t, TransportFields, {"ready", "done"}), ~d.t.ready, d.t.done \in {c.t.done, "NO"}
  PROVE  Good(d, g, r, "NONE") /\ Quiet(d)
<1>1. /\ d.b.token = c.b.token /\ d.b.abandon = c.b.abandon /\ d.b.recovery = c.b.recovery
      /\ d.b.search = c.b.search /\ d.b.timely = c.b.timely
      /\ d.b.tc = c.b.tc /\ d.b.confirm = c.b.confirm
      /\ d.t.rx = c.t.rx /\ d.t.txn = c.t.txn /\ d.t.cancel = c.t.cancel
  BY DEF Alike, BdbFields, TransportFields, Minor
<1>2. d.b.phase \in {"FAILED", "FAULT"}
  BY DEF Over
<1>3. Stages(d.b)
  BY <1>1, <1>2 DEF Good, Stages, Ends, Joining, BeforeReady
<1>4. Queries(d.b, d.z) /\ Quiet(d)
  BY <1>2 DEF Queries, Unqueried, Quiet
<1>5. Slot(d.b, d.t)
  BY <1>1 DEF Good, Slot
<1>6. Placed(d.b, d.t, d.k, r, "NONE")
  BY <1>1, <1>2 DEF Good, Placed, Waits, Joining, BeforeReady
<1>7. Timed(d.b, d.t, g, "NONE")
  BY <1>1 DEF Good, Timed, Waits
<1>8. Stays(d.b, g) /\ Heard(d.b, d.z, d.t, g)
  BY <1>1, <1>2 DEF Good, Stays, Heard, Ends
<1> QED
  BY <1>3, <1>4, <1>5, <1>6, <1>7, <1>8 DEF Good

\* Between two parts of a step.
Held(c, g, r) == Good(c, g, r, "NONE") /\ Quiet(c)

LEMMA FailHolds ==
  ASSUME NEW c, NEW g, NEW r, NEW result, Held(c, g, r),
         result \in {"NO_PARENT", "REJOIN_REFUSED"} => c.b.recovery # 3
  PROVE  Held(Fail(c, result), g, r) /\ Fail(c, result).b.phase = "ABORTING"
<1> DEFINE d == Fail(c, result)
<1>1. Good(d, g, r, "NONE") /\ d.b.phase = "ABORTING"
  BY FailKeeps DEF Held
<1> HIDE DEF d
<1>2. Held(d, g, r) /\ d.b.phase = "ABORTING"
  BY <1>1 DEF Held, Quiet
<1> QED
  BY <1>2 DEF d

\* The counts of a join's record do not matter.
LEMMA CountHolds ==
  ASSUME NEW c, NEW g, NEW r, NEW B, Held(c, g, r), B = [f \in BdbFields |-> B[f]],
         Alike(B, c.b, BdbFields, Minor)
  PROVE  LET d == [c EXCEPT !.b = B] IN
         Held(d, g, r) /\ d.b = B /\ B.phase = c.b.phase /\ d.z = c.z /\ d.t = c.t /\ d.k = c.k
<1> DEFINE d == [c EXCEPT !.b = B]
<1>1. Alike(B, c.b, BdbFields, Minor \cup {"phase"}) /\ B.phase = c.b.phase
  BY DEF Alike, Minor, BdbFields
<1>2. Typed(d) /\ d.b = B /\ d.z = c.z /\ d.t = c.t /\ d.k = c.k
  <2>1. Typed(c)
    BY DEF Held, Good
  <2> QED
    BY <1>1, <2>1, TurnIs
<1> HIDE DEF d
<1>3. Alike(d.b, c.b, BdbFields, {"attempts", "issued", "steps", "app"}) /\ Milder(d.t, c.t)
  BY <1>2 DEF Minor, Milder, Steady
<1>4. Held(d, g, r)
  BY <1>1, <1>2, <1>3, MinorKeeps DEF Held, Quiet
<1> QED
  BY <1>1, <1>2, <1>4 DEF d

LEMMA CountedHolds ==
  ASSUME NEW c, NEW g, NEW r, Held(c, g, r)
  PROVE  LET d == Counted(c) IN
         /\ Held(d, g, r) /\ d.z = c.z /\ d.t = c.t /\ d.k = c.k
         /\ Alike(d.b, c.b, BdbFields, {"steps"}) /\ d.b.phase = c.b.phase
<1> DEFINE next == IF clock = "STOPPED" /\ c.b.steps # STALL_STEPS THEN c.b.steps + 1 ELSE c.b.steps
           B == [c.b EXCEPT !.steps = next]
           d == [c EXCEPT !.b = B]
<1>1. Counted(c) = d
  BY DEF Counted
<1>2. B = [f \in BdbFields |-> B[f]] /\ Alike(B, c.b, BdbFields, {"steps"})
  BY DEF Held, Good, Typed, IsBdb, Alike, BdbFields
<1> HIDE DEF B
<1>3. Alike(B, c.b, BdbFields, Minor)
  BY <1>2 DEF Alike, Minor
<1>4. Held(d, g, r) /\ d.b = B /\ B.phase = c.b.phase /\ d.z = c.z /\ d.t = c.t /\ d.k = c.k
  BY <1>2, <1>3, CountHolds
<1> HIDE DEF d
<1> QED
  BY <1>1, <1>2, <1>4

LEMMA BeforeHolds ==
  ASSUME NEW c, NEW g, NEW r, NEW asks, Held(c, g, r), c.b.phase \in Live \cup {"ABORTING", "LEAVING"}
  PROVE  LET d == Polled(Expired(Stalled(c)), asks) IN
         Held(d, g, r) /\ d.b.phase \in Live \cup {"ABORTING", "LEAVING"}
<1> DEFINE w == Stalled(c)
           y == Expired(w)
           T == [y.t EXCEPT !.poll = TRUE]
           d == Polled(y, asks)
<1>1. Held(w, g, r) /\ w.b.phase \in Live \cup {"ABORTING", "LEAVING"}
  <2>1. w = c \/ w = Fail(c, "WORK_LIMIT") \/ w = Counted(c)
    BY DEF Stalled
  <2>2. Held(Fail(c, "WORK_LIMIT"), g, r) /\ Fail(c, "WORK_LIMIT").b.phase = "ABORTING"
    BY FailHolds
  <2>3. Held(Counted(c), g, r) /\ Counted(c).b.phase = c.b.phase
    BY CountedHolds
  <2> HIDE DEF w
  <2> QED
    BY <2>1, <2>2, <2>3
<1> HIDE DEF w
<1>2. Held(y, g, r) /\ y.b.phase \in Live \cup {"ABORTING", "LEAVING"}
  <2>1. \/ y = w
        \/ w.b.phase \in Commissioning /\ (y = Fail(w, "NO_PARENT") \/ y = Fail(w, "KEY_TIMEOUT"))
    BY DEF Expired
  <2>2. w.b.phase \in Commissioning => w.b.recovery # 3
    BY <1>1 DEF Held, Good, Stages, Ends, Commissioning, BeforeReady
  <2>3. Held(Fail(w, "KEY_TIMEOUT"), g, r) /\ Fail(w, "KEY_TIMEOUT").b.phase = "ABORTING"
    BY <1>1, FailHolds
  <2>4. w.b.phase \in Commissioning =>
          Held(Fail(w, "NO_PARENT"), g, r) /\ Fail(w, "NO_PARENT").b.phase = "ABORTING"
    BY <1>1, <2>2, FailHolds
  <2> HIDE DEF y
  <2> QED
    BY <1>1, <2>1, <2>3, <2>4
<1> HIDE DEF y
<1>3. d = y \/ d = [y EXCEPT !.t = T]
  BY DEF Polled
<1>4. CASE d = y
  <2> HIDE DEF d
  <2> QED
    BY <1>2, <1>4 DEF d, y, w
<1>5. CASE d = [y EXCEPT !.t = T]
  <2>0. Typed(y)
    BY <1>2 DEF Held, Good
  <2>1. T = [f \in TransportFields |-> T[f]] /\ Alike(T, y.t, TransportFields, {"poll"})
    BY <2>0 DEF Typed, IsTransport, Alike, TransportFields
  <2> HIDE DEF T, d
  <2>2. d = [f \in Parts |-> d[f]] /\ d.b = y.b /\ d.z = y.z /\ d.t = T /\ d.k = y.k
    BY <1>5, <2>0 DEF Typed, Parts
  <2>3. IsTransport(T) /\ Milder(T, y.t)
    BY <2>0, <2>1 DEF Typed, IsTransport, Milder, Steady, Alike, TransportFields
  <2>4. Typed(d)
    BY <2>0, <2>2, <2>3 DEF Typed
  <2>5. Alike(d.b, y.b, BdbFields, {"attempts", "issued", "steps", "app"})
    BY <2>2 DEF Alike
  <2>6. Held(d, g, r)
    BY <1>2, <2>2, <2>3, <2>4, <2>5, MinorKeeps DEF Held, Quiet
  <2> QED
    BY <1>2, <2>2, <2>6 DEF d, y, w
<1> QED
  BY <1>3, <1>4, <1>5
LEMMA UpdatedHolds ==
  ASSUME NEW c, NEW g, NEW r, Held(c, g, r)
  PROVE  Held(Updated(c), g, r) /\ (c.b.phase # "UPDATING" => Updated(c) = c)
<1> DEFINE w == IF c.b.phase = "UPDATING" /\ Takeable(c.z) THEN Taken(c) ELSE c
           d == Updated(c)
<1>1. d = IF w.b.phase = "UPDATING" /\ Drained(w.t) /\ w.t.done = "NO" THEN Install(w) ELSE w
  BY DEF Updated
<1>2. Held(w, g, r)
  <2>1. CASE c.b.phase = "UPDATING" /\ Takeable(c.z)
    <3>1. w = Taken(c)
      BY <2>1
    <3>2. Good(w, g, r, "NONE") /\ w.b = c.b
      BY <2>1, <3>1, TakenKeeps, TakenIs DEF Held, Good
    <3> HIDE DEF w
    <3> QED
      BY <2>1, <3>2 DEF Held, Quiet
  <2>2. CASE ~(c.b.phase = "UPDATING" /\ Takeable(c.z))
    BY <2>2
  <2> QED
    BY <2>1, <2>2
<1>3. c.b.phase # "UPDATING" => w = c
  OBVIOUS
<1> HIDE DEF w
<1>4. CASE w.b.phase = "UPDATING" /\ Drained(w.t) /\ w.t.done = "NO"
  <2> DEFINE A == [w.b EXCEPT !.member = TRUE]
             p == [w EXCEPT !.b = A]
  <2>1. Typed(w) /\ w.b.member = TRUE /\ ~w.t.ready /\ w.t.txn = "NO" /\ Good(w, g, r, "NONE")
    BY <1>2, <1>4 DEF Held, Good, Stages, Slot, Drained, Typed, IsBdb
  <2>2. A = w.b
    BY <2>1 DEF Typed, IsBdb, BdbFields
  <2>3. p = w
    BY <2>1, <2>2 DEF Typed, Parts
  <2>4. Good(Install(p), g, r, "NONE") /\ Install(p).b.phase = "INSTALLING"
    BY <1>4, <2>1, InstallKeeps
  <2> HIDE DEF p, A, d
  <2>5. d = Install(p)
    BY <1>1, <1>4, <2>3
  <2>6. Held(d, g, r)
    BY <2>4, <2>5 DEF Held, Quiet
  <2>7. c.b.phase = "UPDATING"
    BY <1>3, <1>4
  <2> QED
    BY <2>6, <2>7 DEF d
<1>5. CASE ~(w.b.phase = "UPDATING" /\ Drained(w.t) /\ w.t.done = "NO")
  <2> HIDE DEF d
  <2> QED
    BY <1>1, <1>2, <1>3, <1>5 DEF d
<1> QED
  BY <1>4, <1>5

LEMMA FailedHolds ==
  ASSUME NEW c, NEW g, NEW r, Held(c, g, r), ~c.t.ready
  PROVE  Held(To(c, "FAILED"), g, r)
<1> DEFINE B == [c.b EXCEPT !.phase = "FAILED"]
           d == [c EXCEPT !.b = B]
<1>0. Typed(c) /\ Good(c, g, r, "NONE")
  BY DEF Held, Good
<1>1. B = [f \in BdbFields |-> B[f]] /\ Alike(B, c.b, BdbFields, {"phase"}) /\ B.phase = "FAILED"
  BY <1>0 DEF Typed, IsBdb, Alike, BdbFields
<1> HIDE DEF B
<1>2. /\ Alike(B, c.b, BdbFields, Minor \cup {"phase"})
      /\ Alike(B, c.b, BdbFields, Minor \cup {"phase", "result", "member"})
  BY <1>1 DEF Alike
<1>3. Typed(d) /\ d.b = B /\ d.z = c.z /\ d.t = c.t /\ d.k = c.k /\ B.member = c.b.member
  BY <1>0, <1>1, <1>2, TurnIs
<1> HIDE DEF d
<1>4. Alike(d.t, c.t, TransportFields, {"ready", "done"})
  BY <1>3 DEF Alike
<1>5. Held(d, g, r)
  BY <1>0, <1>1, <1>2, <1>3, <1>4, OverKeeps DEF Held, Over
<1> QED
  BY <1>5 DEF d, B, To

\* An aborted join may look for another parent; otherwise it leaves or not.
LEMMA AbortedHolds ==
  ASSUME NEW c, NEW g, NEW r, Held(c, g, r)
  PROVE  Held(Aborted(c), g, r)
<1> DEFINE app == IF c.b.app = "PENDING" THEN "DONE" ELSE c.b.app
           F == [c.b EXCEPT !.app = app]
           f == [c EXCEPT !.b = F]
           w == IF Finished(c) THEN Fetched([c EXCEPT !.b.app = IF @ = "PENDING" THEN "DONE" ELSE @]) ELSE c
           q == Queued(w, "LEAVE", FALSE)
           S == [w.b EXCEPT !.search = 1, !.result = "OK"]
           T == [w.t EXCEPT !.ready = FALSE]
           s == [w EXCEPT !.b = S, !.t = T]
           L == [q.b EXCEPT !.phase = "LEAVING"]
           p == [q EXCEPT !.b = L]
           d == Aborted(c)
<1>0. Typed(c) /\ Good(c, g, r, "NONE")
  BY DEF Held, Good
<1>1. \/ c.b.phase = "LEAVING" /\ d = To(Fetched(c), "FAILED")
      \/ d = c
      \/ /\ c.b.phase = "ABORTING" /\ Drained(c.t)
         /\ \/ /\ w.b.recovery # 0 /\ w.b.result \in {"NO_PARENT", "REJOIN_REFUSED"}
               /\ d = Install(s)
            \/ d = To(w, "FAILED")
            \/ w.b.abandon /\ q.rc = "OK" /\ d = p
  <2>1. [w EXCEPT !.b.search = 1, !.b.result = "OK", !.t.ready = FALSE] = s
    BY Zenon
  <2>2. d = CASE c.b.phase = "LEAVING" /\ Finished(c) -> To(Fetched(c), "FAILED")
              [] c.b.phase = "ABORTING" /\ Drained(c.t) ->
                   CASE w.b.recovery # 0 /\ w.b.search = 0 /\ w.b.result \in {"NO_PARENT", "REJOIN_REFUSED"}
                          /\ "commission" \notin w.due /\ w.k.router -> Install(s)
                     [] ~w.b.abandon \/ w.k.phase \in {"LEFT", "BROKEN"} -> To(w, "FAILED")
                     [] OTHER -> IF q.rc = "OK" THEN p ELSE To(w, "FAILED")
              [] OTHER -> c
    BY <2>1, Zenon DEF Aborted, To
  <2> HIDE DEF w, q, s, p, d
  <2> QED
    BY <2>2
<1>2. Held(w, g, r) /\ w.b.phase = c.b.phase /\ w.t.txn = c.t.txn /\ w.t.ready = c.t.ready
  <2>1. CASE Finished(c)
    <3>1. F = [x \in BdbFields |-> F[x]] /\ Alike(F, c.b, BdbFields, {"app"})
      BY <1>0 DEF Typed, IsBdb, Alike, BdbFields
    <3>2. w = Fetched(f)
      BY <2>1
    <3> HIDE DEF F
    <3>3. Alike(F, c.b, BdbFields, Minor)
      BY <3>1 DEF Alike, Minor
    <3>4. Held(f, g, r) /\ f.b.phase = c.b.phase /\ f.z = c.z /\ f.t = c.t
      BY <3>1, <3>3, CountHolds
    <3> HIDE DEF f, w
    <3>5. /\ Good(w, g, r, "NONE") /\ w.b = f.b /\ w.z = f.z
          /\ Alike(w.t, f.t, TransportFields, {"done"})
      BY <3>2, <3>4, FetchedKeeps, FetchedIs DEF Held, Good
    <3> QED
      BY <3>4, <3>5 DEF Held, Quiet, Alike, TransportFields
  <2>2. CASE ~Finished(c)
    BY <2>2
  <2> QED
    BY <2>1, <2>2
<1>3. CASE c.b.phase = "LEAVING" /\ d = To(Fetched(c), "FAILED")
  <2> DEFINE y == Fetched(c)
  <2>1. /\ Good(y, g, r, "NONE") /\ y.b = c.b
    BY <1>0, FetchedKeeps, FetchedIs
  <2> HIDE DEF y
  <2>2. Held(y, g, r) /\ ~y.t.ready
    BY <1>3, <2>1 DEF Held, Quiet, Good, Slot
  <2>3. Held(To(y, "FAILED"), g, r)
    BY <2>2, FailedHolds
  <2> HIDE DEF d
  <2> QED
    BY <1>3, <2>3 DEF d, y
<1>4. CASE d = c
  <2> HIDE DEF d
  <2> QED
    BY <1>4 DEF d
<1> HIDE DEF w
<1>5. CASE c.b.phase = "ABORTING" /\ d = To(w, "FAILED")
  <2>1. ~w.t.ready
    BY <1>2, <1>5 DEF Held, Good, Slot
  <2>2. Held(To(w, "FAILED"), g, r)
    BY <1>2, <2>1, FailedHolds
  <2> HIDE DEF d
  <2> QED
    BY <1>5, <2>2 DEF d
<1>6. CASE /\ c.b.phase = "ABORTING" /\ Drained(c.t)
           /\ w.b.recovery # 0 /\ w.b.result \in {"NO_PARENT", "REJOIN_REFUSED"}
           /\ d = Install(s)
  <2>0. Typed(w) /\ Good(w, g, r, "NONE") /\ w.b.recovery \in {1, 2} /\ w.b.member = FALSE
    <3>1. Typed(w) /\ Good(w, g, r, "NONE") /\ Stages(w.b) /\ w.b.member \in BOOLEAN
      BY <1>2 DEF Held, Good, Typed, IsBdb
    <3> QED
      BY <1>2, <1>6, <3>1 DEF Stages
  <2>1. /\ S = [x \in BdbFields |-> S[x]] /\ Alike(S, w.b, BdbFields, {"search", "result"})
        /\ S.search = 1
    BY <2>0 DEF Typed, IsBdb, Alike, BdbFields
  <2>2. /\ T = [x \in TransportFields |-> T[x]] /\ Alike(T, w.t, TransportFields, {"ready"})
        /\ T.ready = FALSE
    BY <2>0 DEF Typed, IsTransport, Alike, TransportFields
  <2> HIDE DEF S, T
  <2>3. s = [x \in Parts |-> s[x]] /\ s.b = S /\ s.z = w.z /\ s.t = T /\ s.k = w.k
    BY <2>0 DEF Typed, Parts
  <2> HIDE DEF s
  <2>4. IsBdb(S)
    BY <2>0, <2>1 DEF Typed, IsBdb, Alike, BdbFields
  <2>5. IsTransport(T)
    BY <2>0, <2>2 DEF Typed, IsTransport, Alike, TransportFields
  <2>6. Typed(s)
    BY <2>0, <2>3, <2>4, <2>5 DEF Typed
  <2>7. /\ Typed(d) /\ d.z = s.z /\ d.t = s.t /\ d.k = s.k
        /\ Alike(d.b, s.b, BdbFields, {"token", "issued", "phase"})
        /\ d.b.token = 1 - s.b.token /\ d.b.phase = "INSTALLING"
    BY <1>6, <2>6, InstallIs
  <2> HIDE DEF d
  <2>8. /\ d.b.member = FALSE /\ d.b.recovery = w.b.recovery /\ d.b.search = 1
        /\ d.b.timely = w.b.timely /\ d.b.tc = w.b.tc /\ d.b.confirm = w.b.confirm
        /\ d.b.token = 1 - w.b.token
        /\ d.t.rx = w.t.rx /\ d.t.done = w.t.done /\ d.t.txn = w.t.txn /\ d.t.ready = FALSE
    BY <2>0, <2>1, <2>2, <2>3, <2>7 DEF Alike, BdbFields, TransportFields
  <2>9. d.b.token \in {0, 1} /\ w.t.txn = "NO"
    BY <1>2, <1>6, <2>0, <2>8 DEF Good, Stages, Drained
  <2>10. Stages(d.b) /\ Queries(d.b, d.z)
    BY <2>0, <2>7, <2>8, <2>9 DEF Stages, Queries, Live, BeforeReady, Joining, Unqueried
  <2>11. Slot(d.b, d.t) /\ Placed(d.b, d.t, d.k, r, "NONE")
    BY <2>0, <2>7, <2>8, <2>9 DEF Slot, Placed, Bound, Joining, BeforeReady
  <2>12. Timed(d.b, d.t, g, "NONE") /\ Stays(d.b, g)
    BY <2>0, <2>7, <2>8 DEF Good, Timed, Stays, Waits
  <2>13. Heard(d.b, d.z, d.t, g)
    BY <2>0, <2>3, <2>7, <2>8 DEF Good, Heard
  <2>14. Held(d, g, r)
    BY <2>7, <2>10, <2>11, <2>12, <2>13 DEF Held, Good, Quiet
  <2> QED
    BY <2>14 DEF d
<1>7. CASE c.b.phase = "ABORTING" /\ w.b.abandon /\ q.rc = "OK" /\ d = p
  <2>0. Typed(w) /\ Good(w, g, r, "NONE") /\ w.b.phase = "ABORTING" /\ ~w.t.ready
    BY <1>2, <1>7 DEF Held, Good, Slot
  <2>1. /\ Typed(q)
        /\ q.b = w.b /\ q.z = w.z /\ q.k = w.k /\ q.due = w.due
        /\ \/ /\ q.rc = "OK" /\ q.t.txn = "LEAVE" /\ ~q.t.cancel
              /\ Alike(q.t, w.t, TransportFields, {"txn", "cancel"})
              /\ w.t.txn = "NO" /\ w.t.done = "NO"
           \/ q.rc \in {"FULL", "EXHAUSTED"} /\ q.t = w.t
    BY <2>0, QueuedIs DEF Bound
  <2> HIDE DEF q
  <2>2. L = [x \in BdbFields |-> L[x]] /\ Alike(L, q.b, BdbFields, {"phase"}) /\ L.phase = "LEAVING"
    BY <2>1 DEF Typed, IsBdb, Alike, BdbFields
  <2> HIDE DEF L
  <2>3. Alike(L, q.b, BdbFields, Minor \cup {"phase"})
    BY <2>2 DEF Alike
  <2>4. Typed(p) /\ p.b = L /\ p.z = q.z /\ p.t = q.t /\ p.k = q.k
    BY <2>1, <2>2, <2>3, TurnIs
  <2> HIDE DEF p, d
  <2>5. /\ L.result = w.b.result /\ L.token = w.b.token /\ L.member = w.b.member
        /\ L.abandon = w.b.abandon /\ L.recovery = w.b.recovery
        /\ L.search = w.b.search /\ L.timely = w.b.timely
        /\ L.tc = w.b.tc /\ L.confirm = w.b.confirm
    BY <2>1, <2>2 DEF Alike, BdbFields
  <2>6. q.t.rx = w.t.rx /\ q.t.ready = w.t.ready /\ q.t.done = "NO" /\ q.t.txn = "LEAVE"
    BY <1>7, <2>1 DEF Alike, TransportFields
  <2>7. Stages(L) /\ Queries(L, q.z)
    BY <2>0, <2>2, <2>5 DEF Good, Stages, Queries, Ends, Unqueried, Joining, BeforeReady
  <2>8. Slot(L, q.t) /\ Placed(L, q.t, q.k, r, "NONE")
    BY <2>0, <2>1, <2>2, <2>5, <2>6 DEF Good, Slot, Placed, Homes, Joining, BeforeReady
  <2>9. Timed(L, q.t, g, "NONE") /\ Stays(L, g)
    BY <1>7, <2>0, <2>2, <2>5, <2>6 DEF Good, Timed, Stays, Waits, Ends
  <2>10. Heard(L, q.z, q.t, g)
    BY <2>0, <2>1, <2>2, <2>5, <2>6 DEF Good, Heard
  <2>11. Held(p, g, r)
    BY <2>2, <2>4, <2>7, <2>8, <2>9, <2>10 DEF Held, Good, Quiet
  <2> QED
    BY <1>7, <2>11 DEF d
<1> QED
  BY <1>1, <1>3, <1>4, <1>5, <1>6, <1>7
\* The transport's own step, and what follows it.
LEMMA TransportedHolds ==
  ASSUME NEW c, NEW g, NEW r, NEW handled, NEW wrap, Held(c, g, r), c.rc = "FAULT" => ~c.t.ready
  PROVE  Held(Transported(c, handled, wrap), g, r)
<1> DEFINE w == IF c.rc = "ERROR" /\ c.b.phase \in Live THEN Fail(c, "TRANSMIT_FAILED") ELSE c
           e == IF w.b.phase \in Live /\ ~handled THEN Runtime(w, wrap) ELSE w
           u == Updated(e)
           B == [c.b EXCEPT !.phase = "FAULT", !.result = "TRANSMIT_FAILED", !.member = FALSE]
           d == Transported(c, handled, wrap)
<1>0. Typed(c) /\ Good(c, g, r, "NONE")
  BY DEF Held, Good
<1>1. \/ c.rc = "FAULT" /\ d = [c EXCEPT !.b = B]
      \/ c.b.phase = "LEAVING" /\ d = To(c, "FAILED")
      \/ d = Aborted(u)
  <2>1. d = CASE c.rc = "FAULT" ->
                   [c EXCEPT !.b.phase = "FAULT", !.b.result = "TRANSMIT_FAILED", !.b.member = FALSE]
              [] c.rc = "ERROR" /\ c.b.phase = "LEAVING" -> To(c, "FAILED")
              [] OTHER -> Aborted(u)
    BY Zenon DEF Transported
  <2>2. [c EXCEPT !.b.phase = "FAULT", !.b.result = "TRANSMIT_FAILED", !.b.member = FALSE] = [c EXCEPT !.b = B]
    BY Zenon
  <2> HIDE DEF d, u, B
  <2> QED
    BY <2>1, <2>2
<1>2. CASE c.rc = "FAULT" /\ d = [c EXCEPT !.b = B]
  <2>1. /\ B = [f \in BdbFields |-> B[f]] /\ Alike(B, c.b, BdbFields, {"phase", "result", "member"})
        /\ B.phase = "FAULT" /\ B.member = FALSE
    BY <1>0 DEF Typed, IsBdb, Alike, BdbFields
  <2> HIDE DEF B, d
  <2>2. IsBdb(B)
    BY <1>0, <2>1 DEF Typed, IsBdb, Alike, BdbFields
  <2>3. Typed(d) /\ d.b = B /\ d.z = c.z /\ d.t = c.t /\ d.k = c.k
    BY <1>0, <1>2, <2>2, BdbIs
  <2>4. /\ Alike(d.b, c.b, BdbFields, Minor \cup {"phase", "result", "member"})
        /\ Alike(d.t, c.t, TransportFields, {"ready", "done"})
    BY <2>1, <2>3 DEF Alike
  <2>5. Held(d, g, r)
    BY <1>0, <1>2, <2>1, <2>3, <2>4, OverKeeps DEF Held, Over
  <2> QED
    BY <2>5 DEF d
<1>3. CASE c.b.phase = "LEAVING" /\ d = To(c, "FAILED")
  <2>1. ~c.t.ready
    BY <1>0, <1>3 DEF Good, Slot
  <2>2. Held(To(c, "FAILED"), g, r)
    BY <2>1, FailedHolds
  <2> HIDE DEF d
  <2> QED
    BY <1>3, <2>2 DEF d
<1>4. CASE d = Aborted(u)
  <2>1. Held(w, g, r)
    <3>1. Held(Fail(c, "TRANSMIT_FAILED"), g, r)
      BY FailHolds
    <3> QED
      BY <3>1
  <2> HIDE DEF w
  <2>2. Held(e, g, r)
    <3>1. w.b.phase \in Live => Held(Runtime(w, wrap), g, r)
      BY <2>1, RuntimeKeeps DEF Held, Post
    <3> QED
      BY <2>1, <3>1
  <2> HIDE DEF e
  <2>3. Held(u, g, r)
    BY <2>2, UpdatedHolds
  <2> HIDE DEF u
  <2>4. Held(Aborted(u), g, r)
    BY <2>3, AbortedHolds
  <2> HIDE DEF d
  <2> QED
    BY <1>4, <2>4 DEF d
<1> QED
  BY <1>1, <1>2, <1>3, <1>4

LEMMA RcHolds ==
  ASSUME NEW c, NEW g, NEW r, NEW x, Held(c, g, r)
  PROVE  Held([c EXCEPT !.rc = x], g, r)
<1> DEFINE d == [c EXCEPT !.rc = x]
<1>1. Typed(d) /\ d.b = c.b /\ d.z = c.z /\ d.t = c.t /\ d.k = c.k
  BY RcIs DEF Held, Good
<1> HIDE DEF d
<1>2. Held(d, g, r)
  BY <1>1, SameKeeps DEF Held, Quiet
<1> QED
  BY <1>2 DEF d

LEMMA SteppedHolds ==
  ASSUME NEW g, NEW r, NEW how \in {"STAY", "GO", "SENT", "FAIL", "FAULT"}, NEW wrap, NEW asks,
         Held(Bundle, g, r), Bundle.b.phase \in Running
  PROVE  Held(Stepped(how, wrap, asks), g, r)
<1> DEFINE c == Polled(Expired(Stalled(Bundle)), asks)
           handled == c.b.phase \in Live /\ c.t.rx.kind # "NONE"
           w == IF handled THEN Runtime(c, wrap) ELSE c
           m == TransportStep(w, how)
           n == Transported(m, handled, wrap)
           d == [n EXCEPT !.rc = "OK"]
<1>1. Stepped(how, wrap, asks) = d
  BY Zenon DEF Stepped
<1>2. Held(c, g, r) /\ c.b.phase \in Live \cup {"ABORTING", "LEAVING"}
  <2>1. Bundle.b.phase \in Live \cup {"ABORTING", "LEAVING"}
    BY DEF Running
  <2> QED
    BY <2>1, BeforeHolds
<1> HIDE DEF c
<1>3. Held(w, g, r) /\ w.b.phase \in Live \cup {"ABORTING", "LEAVING"}
  <2>1. handled => Post(Runtime(c, wrap), g, r)
    BY <1>2, RuntimeKeeps DEF Held
  <2> HIDE DEF handled
  <2> QED
    BY <1>2, <2>1 DEF Held, Post
<1> HIDE DEF handled, w
<1>4. /\ Good(m, g, r, "NONE") /\ m.b = w.b /\ m.z = w.z /\ (m.rc = "FAULT" => ~m.t.ready)
  <2>1. w.b.phase \notin Over
    BY <1>3 DEF Live, BeforeReady, Over
  <2> QED
    BY <1>3, <2>1, TransportKeeps DEF Held
<1> HIDE DEF m
<1>5. Held(m, g, r)
  BY <1>3, <1>4 DEF Held, Quiet
<1>6. Held(n, g, r)
  BY <1>4, <1>5, TransportedHolds
<1> HIDE DEF n
<1>7. Held(d, g, r)
  BY <1>6, RcHolds
<1> HIDE DEF d
<1> QED
  BY <1>1, <1>7
(*** The identity is installed.                                                ***)

\* What the key owner does while the join is not under way.
LEMMA OwnerKeeps ==
  ASSUME NEW c, NEW g, NEW r, NEW K, Good(c, g, r, "NONE"), c.b.phase = "ABORTING", IsOwner(K),
         K.phase # "REJOINING"
  PROVE  LET d == [c EXCEPT !.k = K] IN Held(d, g, r) /\ d.b = c.b
<1> DEFINE d == [c EXCEPT !.k = K]
<1>1. /\ d = [f \in Parts |-> d[f]] /\ d.b = c.b /\ d.z = c.z /\ d.t = c.t /\ d.k = K
  BY DEF Good, Typed, Parts
<1> HIDE DEF d
<1>2. Typed(d)
  BY <1>1 DEF Good, Typed
<1>3. Placed(d.b, d.t, d.k, r, "NONE")
  BY <1>1 DEF Good, Placed, Slot, Joining, BeforeReady
<1>4. Held(d, g, r)
  BY <1>1, <1>2, <1>3 DEF Good, Held, Quiet
<1> QED
  BY <1>1, <1>4 DEF d

\* The store breaks, and the join with it.
LEMMA BreakHolds ==
  ASSUME NEW c, NEW g, NEW r, NEW x, Good(c, g, r, "NONE"), x # "REJOINING"
  PROVE  LET d == Fail([c EXCEPT !.k.phase = x], "SECURITY") IN
         Held(d, g, r) /\ d.b.phase = "ABORTING"
<1> DEFINE K == [c.k EXCEPT !.phase = x]
           a == [c EXCEPT !.k = K]
           f == Fail(c, "SECURITY")
           e == [f EXCEPT !.k = K]
           d == Fail(a, "SECURITY")
<1>0. Typed(c)
  BY DEF Good
<1>1. IsOwner(K) /\ K.phase # "REJOINING"
  BY <1>0 DEF Typed, IsOwner
<1>2. [c EXCEPT !.k.phase = x] = a
  OBVIOUS
<1> HIDE DEF K
<1>3. Good(f, g, r, "NONE") /\ f.b.phase = "ABORTING"
  BY FailKeeps
<1>4. Held(e, g, r) /\ e.b = f.b
  <2> HIDE DEF f
  <2> QED
    BY <1>1, <1>3, OwnerKeeps
<1>5. d = e
  <2> DEFINE B == [c.b EXCEPT !.abandon = Abandons(c.b, "SECURITY"), !.result = "SECURITY", !.member = FALSE,
                              !.phase = "ABORTING"]
             T == Stop(c.t)
  <2>1. f = [c EXCEPT !.b = B, !.t = T]
    BY Zenon DEF Fail
  <2>2. a.b = c.b /\ a.t = c.t
    BY <1>0 DEF Typed, Parts
  <2>3. d = [a EXCEPT !.b = [a.b EXCEPT !.abandon = Abandons(a.b, "SECURITY"), !.result = "SECURITY",
                                        !.member = FALSE, !.phase = "ABORTING"], !.t = Stop(a.t)]
    <3> HIDE DEF a
    <3> QED
      BY Zenon DEF Fail
  <2> HIDE DEF B, T, f, d
  <2>4. d = [a EXCEPT !.b = B, !.t = T]
    BY <2>2, <2>3 DEF B, T
  <2> QED
    BY <1>0, <2>1, <2>4 DEF Typed, Parts
<1> HIDE DEF d, e, f, a
<1>6. Held(d, g, r) /\ d.b.phase = "ABORTING"
  BY <1>3, <1>4, <1>5
<1> QED
  BY <1>2, <1>6 DEF d

\* The join goes on from the identity that was installed.
LEMMA LeaveInstalling ==
  ASSUME NEW c, NEW d, NEW g, NEW r, Good(c, g, r, "NONE"), c.b.phase = "INSTALLING", r.id = c.k.id,
         Typed(d), Alike(d.b, c.b, BdbFields, Minor \cup {"phase"}),
         d.z = c.z, d.k.id = c.k.id, d.t.rx = c.t.rx,
         d.b.phase \in {"SCANNING", "RECOVERING", "ANNOUNCING", "READY", "WAIT_KEY"},
         Stages(d.b), Queries(d.b, d.z), Slot(d.b, d.t), Stays(d.b, g),
         d.t.txn = "PERMIT" => d.t.cancel,
         d.t.ready => d.k.phase = "VERIFIED" /\ c.t.rx.kind \notin {"UPDATE", "LEAVE"},
         d.b.phase \in {"ANNOUNCING", "READY"} => d.k.phase = "VERIFIED",
         d.b.recovery = 0 => d.k.phase # "REJOINING"
  PROVE  Held(d, g, r)
<1>1. /\ d.b.member = c.b.member /\ d.b.recovery = c.b.recovery /\ d.b.timely = c.b.timely
      /\ d.b.tc = c.b.tc /\ d.b.confirm = c.b.confirm
  BY DEF Alike, BdbFields, Minor
<1>2. Placed(d.b, d.t, d.k, r, "NONE")
  BY <1>1 DEF Good, Stages, Placed, Waits, Joining, BeforeReady, Ends
<1>3. Timed(d.b, d.t, g, "NONE") /\ Heard(d.b, d.z, d.t, g)
  BY <1>1 DEF Good, Timed, Heard, Waits
<1> QED
  BY <1>1, <1>2, <1>3 DEF Good, Held, Quiet

LEMMA InstalledHolds ==
  ASSUME NEW c, NEW g, NEW r, NEW saved, Good(c, g, r, "NONE"), c.b.phase = "INSTALLING", r.id = c.k.id
  PROVE  Held(Installed(c, saved), g, r)
<1> DEFINE pending == ~c.b.member /\ c.k.phase = "PROVISIONED"
           w == IF pending THEN [c EXCEPT !.k.phase = "ASSOCIATED"] ELSE c
           a == Broadcast(w, "ANNOUNCE", FALSE)
           d == Installed(c, saved)
           fa == Fail(c, "SECURITY")
           br == Fail([c EXCEPT !.k.phase = "BROKEN"], "SECURITY")
           E == [c.b EXCEPT !.phase = "FAILED", !.result = "NO_PARENT"]
           S == [c.b EXCEPT !.phase = "SCANNING"]
           R == [c.b EXCEPT !.phase = "RECOVERING", !.issued = 0, !.attempts = 0]
           A == [a.b EXCEPT !.phase = "ANNOUNCING"]
           Y == [c.b EXCEPT !.phase = "READY", !.attempts = 0]
           T == [c.t EXCEPT !.ready = TRUE]
           y == [c EXCEPT !.b = Y, !.t = T]
           W == [w.b EXCEPT !.phase = "WAIT_KEY"]
<1>0. Typed(c) /\ ~c.t.ready /\ (c.t.txn \in Bound => c.t.cancel) /\ c.b.recovery \in 0..3
      /\ c.b.token \in {0, 1} /\ c.b.member \in BOOLEAN
      /\ (c.b.recovery = 3 => c.b.member)
  BY DEF Good, Slot, Stages, Bound, Homes, Over, Typed, IsBdb
<1>1. \/ d = br
      \/ d = fa
      \/ c.b.recovery = 1 /\ d = [c EXCEPT !.b = E]
      \/ c.b.recovery = 1 /\ d = [c EXCEPT !.b = S]
      \/ c.b.recovery = 1 /\ c.b.search # 1 /\ d = [c EXCEPT !.b = R]
      \/ c.b.recovery = 2 /\ c.b.member /\ c.k.phase = "VERIFIED" /\ a.rc = "OK" /\ d = [a EXCEPT !.b = A]
      \/ /\ c.b.recovery \in {0, 3} /\ c.b.member /\ c.k.phase = "VERIFIED" /\ c.t.announced
         /\ c.t.permit \/ c.b.recovery = 3
         /\ d = Set(y, {"keepalive", "grace"})
      \/ c.b.recovery = 0 /\ ~c.b.member /\ d = Set([w EXCEPT !.b = W], {"until"})
  <2>1. [c EXCEPT !.b.phase = "READY", !.b.attempts = 0, !.t.ready = TRUE] = y
    BY Zenon
  <2>2. d = CASE pending /\ ~saved -> br
              [] ~(pending /\ ~saved) /\ c.b.recovery = 1 ->
                   CASE c.k.phase \notin {"VERIFIED", "REJOINING"} -> fa
                     [] c.k.phase \in {"VERIFIED", "REJOINING"} /\ c.b.search = 1 ->
                          IF "commission" \in c.due THEN [c EXCEPT !.b.phase = "FAILED", !.b.result = "NO_PARENT"]
                          ELSE To(c, "SCANNING")
                     [] OTHER -> Fresh(c, "RECOVERING")
              [] ~(pending /\ ~saved) /\ c.b.recovery = 2 ->
                   IF c.k.phase # "VERIFIED" \/ ~c.b.member \/ a.rc # "OK" THEN fa
                   ELSE To(a, "ANNOUNCING")
              [] ~(pending /\ ~saved) /\ c.b.recovery \in {0, 3} /\ c.b.member ->
                   IF c.k.phase # "VERIFIED" \/ ~c.t.announced \/ (~c.t.permit /\ c.b.recovery # 3)
                   THEN fa
                   ELSE Set([c EXCEPT !.b.phase = "READY", !.b.attempts = 0, !.t.ready = TRUE],
                            {"keepalive", "grace"})
              [] OTHER -> Set(To(w, "WAIT_KEY"), {"until"})
    BY Zenon DEF Installed
  <2>3. /\ [c EXCEPT !.b.phase = "FAILED", !.b.result = "NO_PARENT"] = [c EXCEPT !.b = E]
        /\ To(c, "SCANNING") = [c EXCEPT !.b = S] /\ Fresh(c, "RECOVERING") = [c EXCEPT !.b = R]
    BY DEF To, Fresh
  <2>4. To(a, "ANNOUNCING") = [a EXCEPT !.b = A]
    <3> HIDE DEF a
    <3> QED
      BY DEF To
  <2>5. To(w, "WAIT_KEY") = [w EXCEPT !.b = W]
    <3> HIDE DEF w
    <3> QED
      BY DEF To
  <2>6. c.b.recovery \in {0, 1, 2, 3}
    BY <1>0
  <2> HIDE DEF d, br, fa, a, y, w, E, S, R, A, W
  <2> QED
    BY <1>0, <2>1, <2>2, <2>3, <2>4, <2>5, <2>6
<1>2. CASE d = br
  <2>1. Held(br, g, r)
    BY BreakHolds
  <2> HIDE DEF d, br
  <2> QED
    BY <1>2, <2>1 DEF d
<1>3. CASE d = fa
  <2>1. Good(fa, g, r, "NONE") /\ fa.b.phase = "ABORTING"
    BY FailKeeps
  <2> HIDE DEF d, fa
  <2>2. Held(d, g, r)
    BY <1>3, <2>1 DEF Held, Quiet
  <2> QED
    BY <2>2 DEF d
<1>4. CASE c.b.recovery = 1 /\ d = [c EXCEPT !.b = E]
  <2>1. /\ E = [f \in BdbFields |-> E[f]] /\ Alike(E, c.b, BdbFields, {"phase", "result"})
        /\ E.phase = "FAILED"
    BY <1>0 DEF Typed, IsBdb, Alike, BdbFields
  <2> HIDE DEF E, d
  <2>2. IsBdb(E) /\ E.member = c.b.member
    BY <1>0, <2>1 DEF Typed, IsBdb, Alike, BdbFields
  <2>3. Typed(d) /\ d.b = E /\ d.z = c.z /\ d.t = c.t /\ d.k = c.k
    BY <1>0, <1>4, <2>2, BdbIs
  <2>4. /\ Alike(d.b, c.b, BdbFields, Minor \cup {"phase", "result", "member"})
        /\ Alike(d.t, c.t, TransportFields, {"ready", "done"})
    BY <2>1, <2>3 DEF Alike
  <2>5. Held(d, g, r)
    BY <1>0, <2>1, <2>2, <2>3, <2>4, OverKeeps DEF Held, Over
  <2> QED
    BY <2>5 DEF d
<1>5. ASSUME NEW B, B = [f \in BdbFields |-> B[f]], Alike(B, c.b, BdbFields, Minor \cup {"phase"}),
             c.b.recovery = 1, B.phase \in {"SCANNING", "RECOVERING"},
             B.phase = "RECOVERING" => c.b.search # 1
      PROVE  Held([c EXCEPT !.b = B], g, r)
  <2> DEFINE p == [c EXCEPT !.b = B]
  <2>1. /\ Typed(p) /\ p.b = B /\ p.z = c.z /\ p.t = c.t /\ p.k = c.k
        /\ B.recovery = c.b.recovery /\ B.member = c.b.member
    BY <1>0, <1>5, TurnIs
  <2>2. B.token = c.b.token
    BY <1>5 DEF Alike, BdbFields, Minor
  <2> HIDE DEF p
  <2>3. Stages(p.b)
    BY <1>0, <1>5, <2>1, <2>2 DEF Stages, Joining, BeforeReady, Live
  <2>4. Queries(p.b, p.z) /\ Slot(p.b, p.t) /\ Stays(p.b, g)
    BY <1>0, <1>5, <2>1 DEF Good, Queries, Unqueried, Slot, Stays
  <2>5. Held(p, g, r)
    BY <1>0, <1>5, <2>1, <2>3, <2>4, LeaveInstalling DEF Bound
  <2> QED
    BY <2>5 DEF p
<1>6. CASE c.b.recovery = 1 /\ d = [c EXCEPT !.b = S]
  <2>1. /\ S = [f \in BdbFields |-> S[f]] /\ Alike(S, c.b, BdbFields, Minor \cup {"phase"})
        /\ S.phase = "SCANNING"
    BY <1>0 DEF Typed, IsBdb, Alike, BdbFields
  <2> HIDE DEF S, d
  <2>2. Held(d, g, r)
    BY <1>5, <1>6, <2>1
  <2> QED
    BY <2>2 DEF d
<1>7. CASE c.b.recovery = 1 /\ c.b.search # 1 /\ d = [c EXCEPT !.b = R]
  <2>1. /\ R = [f \in BdbFields |-> R[f]] /\ Alike(R, c.b, BdbFields, Minor \cup {"phase"})
        /\ R.phase = "RECOVERING"
    BY <1>0 DEF Typed, IsBdb, Alike, BdbFields, Minor
  <2> HIDE DEF R, d
  <2>2. Held(d, g, r)
    BY <1>5, <1>7, <2>1
  <2> QED
    BY <2>2 DEF d
<1>8. /\ Typed(w) /\ w.b = c.b /\ w.z = c.z /\ w.t = c.t /\ w.k.id = c.k.id
      /\ (c.k.phase = "VERIFIED" => w.k.phase = "VERIFIED")
      /\ (c.b.recovery = 0 => w.k.phase # "REJOINING")
  <2> DEFINE K == [c.k EXCEPT !.phase = "ASSOCIATED"]
             o == [c EXCEPT !.k = K]
  <2>0. c.b.recovery = 0 => c.k.phase # "REJOINING"
    BY DEF Good, Placed
  <2>1. IsOwner(K) /\ K.id = c.k.id /\ K.phase = "ASSOCIATED"
    BY <1>0 DEF Typed, IsOwner
  <2>2. w = c \/ (c.k.phase = "PROVISIONED" /\ w = o)
    OBVIOUS
  <2> HIDE DEF K
  <2>3. o = [f \in Parts |-> o[f]] /\ o.b = c.b /\ o.z = c.z /\ o.t = c.t /\ o.k = K
    BY <1>0 DEF Typed, Parts
  <2> HIDE DEF o, w
  <2>4. Typed(o)
    BY <1>0, <2>1, <2>3 DEF Typed
  <2> QED
    BY <1>0, <2>0, <2>1, <2>2, <2>3, <2>4
<1> HIDE DEF w, pending
<1>9. CASE c.b.recovery = 2 /\ c.b.member /\ c.k.phase = "VERIFIED" /\ a.rc = "OK" /\ d = [a EXCEPT !.b = A]
  <2>1. /\ Typed(a)
        /\ a.b = w.b /\ a.z = w.z /\ a.k = w.k /\ a.due = w.due
        /\ \/ /\ a.rc = "OK" /\ a.t.txn = "ANNOUNCE" /\ ~a.t.cancel
              /\ Alike(a.t, w.t, TransportFields, {"txn", "cancel"})
              /\ w.t.txn = "NO" /\ w.t.done = "NO" /\ ~w.z.app
           \/ a.rc \in {"FULL", "TRANSMIT"} /\ a.t = w.t
    BY <1>8, BroadcastIs DEF Bound
  <2> HIDE DEF a
  <2>2. A = [f \in BdbFields |-> A[f]] /\ Alike(A, a.b, BdbFields, {"phase"}) /\ A.phase = "ANNOUNCING"
    BY <2>1 DEF Typed, IsBdb, Alike, BdbFields
  <2> HIDE DEF A, d
  <2>3. Alike(A, a.b, BdbFields, Minor \cup {"phase"}) /\ A.token = c.b.token
    BY <1>8, <2>1, <2>2 DEF Alike, BdbFields
  <2>12. Typed(a) /\ a.b = c.b /\ d = [a EXCEPT !.b = A]
    BY <1>8, <1>9, <2>1
  <2>4. /\ Typed(d) /\ d.b = A /\ d.z = a.z /\ d.t = a.t /\ d.k = a.k
        /\ A.recovery = c.b.recovery /\ A.member = c.b.member
    BY <2>12, <2>2, <2>3, TurnIs
  <2>5. d.t.rx = c.t.rx /\ d.t.ready = c.t.ready /\ d.t.done = "NO" /\ d.t.txn = "ANNOUNCE"
    BY <1>8, <1>9, <2>1, <2>4 DEF Alike, TransportFields
  <2>6. A.member = TRUE /\ A.token \in {0, 1} /\ A.recovery = 2
    BY <1>0, <1>9, <2>3, <2>4
  <2>7. Stages(d.b)
    BY <2>2, <2>4, <2>6 DEF Stages, Live, BeforeReady
  <2>8. Queries(d.b, d.z)
    BY <1>8, <1>9, <2>1, <2>2, <2>4 DEF Good, Queries, Unqueried
  <2>9. Slot(d.b, d.t) /\ Stays(d.b, g)
    BY <1>0, <2>2, <2>4, <2>5, <2>6 DEF Slot, Homes, Stays
  <2>10. Alike(d.b, c.b, BdbFields, Minor \cup {"phase"})
    BY <2>12, <2>3, <2>4
  <2>13. /\ d.z = c.z /\ d.k.id = c.k.id /\ d.k.phase = "VERIFIED" /\ ~d.t.ready
         /\ d.b.phase = "ANNOUNCING"
    BY <1>0, <1>8, <1>9, <2>1, <2>2, <2>4, <2>5
  <2>11. Held(d, g, r)
    BY <2>13, <2>4, <2>5, <2>7, <2>8, <2>9, <2>10, LeaveInstalling
  <2> QED
    BY <2>11 DEF d
<1>10. CASE /\ c.b.recovery \in {0, 3} /\ c.b.member /\ c.k.phase = "VERIFIED" /\ c.t.announced
            /\ c.t.permit \/ c.b.recovery = 3
            /\ d = Set(y, {"keepalive", "grace"})
  <2>1. /\ Y = [f \in BdbFields |-> Y[f]] /\ Alike(Y, c.b, BdbFields, {"phase", "attempts"})
        /\ Y.phase = "READY"
    BY <1>0 DEF Typed, IsBdb, Alike, BdbFields
  <2>2. /\ T = [f \in TransportFields |-> T[f]] /\ Alike(T, c.t, TransportFields, {"ready"})
        /\ T.ready = TRUE
    BY <1>0 DEF Typed, IsTransport, Alike, TransportFields
  <2> HIDE DEF Y, T
  <2>3. y = [f \in Parts |-> y[f]] /\ y.b = Y /\ y.z = c.z /\ y.t = T /\ y.k = c.k
    BY <1>0 DEF Typed, Parts
  <2> HIDE DEF y, d
  <2>4. IsBdb(Y)
    BY <1>0, <2>1 DEF Typed, IsBdb, Alike, BdbFields
  <2>5. IsTransport(T)
    BY <1>0, <2>2 DEF Typed, IsTransport, Alike, TransportFields
  <2>6. Typed(y)
    BY <1>0, <2>3, <2>4, <2>5 DEF Typed
  <2>7. /\ Y.token = c.b.token /\ Y.member = c.b.member /\ Y.recovery = c.b.recovery
        /\ Alike(Y, c.b, BdbFields, Minor \cup {"phase"})
        /\ T.rx = c.t.rx /\ T.txn = c.t.txn /\ T.cancel = c.t.cancel /\ T.done = c.t.done
        /\ T.announced = c.t.announced /\ T.permit = c.t.permit
    BY <2>1, <2>2 DEF Alike, BdbFields, TransportFields, Minor
  <2>8. Y.member = TRUE /\ Y.token \in {0, 1} /\ Y.recovery \in {0, 3}
    BY <1>0, <1>10, <2>7
  <2>9. Stages(Y) /\ Queries(Y, c.z)
    BY <2>1, <2>8 DEF Stages, Queries, Live, Unqueried
  <2>10. Slot(Y, T) /\ Stays(Y, g)
    BY <1>0, <1>10, <2>1, <2>2, <2>7 DEF Good, Slot, Stays
  <2>11. c.t.rx.kind \notin {"UPDATE", "LEAVE"} /\ (T.txn = "PERMIT" => T.cancel)
    BY <1>0, <1>10, <2>7 DEF Good, Placed, Bound
  <2>12. Held(y, g, r)
    BY <1>10, <2>1, <2>3, <2>6, <2>7, <2>9, <2>10, <2>11, LeaveInstalling
  <2>13. /\ Typed(d) /\ d.b = y.b /\ d.z = y.z /\ d.t = y.t /\ d.k = y.k
    BY <1>10, <2>6, SetIs
  <2>14. Held(d, g, r)
    BY <2>12, <2>13, SameKeeps DEF Held, Quiet
  <2> QED
    BY <2>14 DEF d
<1>11. CASE c.b.recovery = 0 /\ ~c.b.member /\ d = Set([w EXCEPT !.b = W], {"until"})
  <2> DEFINE p == [w EXCEPT !.b = W]
  <2>1. W = [f \in BdbFields |-> W[f]] /\ Alike(W, w.b, BdbFields, {"phase"}) /\ W.phase = "WAIT_KEY"
    BY <1>8 DEF Typed, IsBdb, Alike, BdbFields
  <2> HIDE DEF W, d
  <2>2. Alike(W, w.b, BdbFields, Minor \cup {"phase"}) /\ W.token = c.b.token
    BY <1>8, <2>1 DEF Alike, BdbFields
  <2>3. /\ Typed(p) /\ p.b = W /\ p.z = w.z /\ p.t = w.t /\ p.k = w.k
        /\ W.recovery = c.b.recovery /\ W.member = c.b.member
    BY <1>8, <2>1, <2>2, TurnIs
  <2>4. d = Set(p, {"until"})
    BY <1>11
  <2> HIDE DEF p
  <2>5. Stages(p.b)
    BY <1>0, <1>11, <2>1, <2>2, <2>3 DEF Stages, Live, BeforeReady, Joining
  <2>6. Queries(p.b, p.z) /\ Slot(p.b, p.t)
    BY <1>0, <1>8, <1>11, <2>1, <2>3 DEF Good, Queries, Unqueried, Slot, Bound
  <2>7. Stays(p.b, g)
    BY <1>11, <2>1, <2>3 DEF Good, Stays, Ends
  <2>8. Alike(p.b, c.b, BdbFields, Minor \cup {"phase"})
    BY <1>8, <2>2, <2>3
  <2>9. Held(p, g, r)
    BY <1>0, <1>8, <2>1, <2>3, <2>5, <2>6, <2>7, <2>8, LeaveInstalling DEF Bound
  <2>10. /\ Typed(d) /\ d.b = p.b /\ d.z = p.z /\ d.t = p.t /\ d.k = p.k
    BY <2>3, <2>4, SetIs
  <2>11. Held(d, g, r)
    BY <2>9, <2>10, SameKeeps DEF Held, Quiet
  <2> QED
    BY <2>11 DEF d
<1> QED
  BY <1>1, <1>2, <1>3, <1>4, <1>6, <1>7, <1>9, <1>10, <1>11

(*** The inductive invariant of the specification.                             ***)

HistoryFields == {"frames", "sleepy", "was", "key", "tc", "confirm"}
RadioFields == {"id", "asked", "token", "report"}
IsHistory(g) ==
  /\ g = [f \in HistoryFields |-> g[f]]
  /\ \A f \in {"was", "key", "tc", "confirm"} : g[f] \in BOOLEAN
\* The radio has a request or a report of it only while an identity is installed.
Requested(x, r) ==
  /\ r = [f \in RadioFields |-> r[f]]
  /\ r.asked # 0 => \/ x.phase = "INSTALLING" /\ x.issued = 1
                    \/ x.phase = "FAULT"
  /\ r.report # 2 => r.asked = 0
JoinInv == Held(Bundle, h, radio) /\ IsHistory(h) /\ Requested(b, radio)

\* A bundle that holds is a state that holds.
LEMMA Bundled ==
  ASSUME NEW c, NEW g, NEW r, Held(c, g, r), Unbundle(c), h' = g, radio' = r
  PROVE  Held(Bundle, h, radio)'
<1> DEFINE d == [b |-> c.b, z |-> c.z, t |-> c.t, k |-> c.k, due |-> c.due, rc |-> "OK"]
<1>1. Bundle' = d
  BY DEF Bundle, Unbundle
<1>2. Typed(c)
  BY DEF Held, Good
<1>3. d = [f \in Parts |-> d[f]] /\ d.b = c.b /\ d.z = c.z /\ d.t = c.t /\ d.k = c.k
  BY DEF Parts
<1> HIDE DEF d
<1>4. Typed(d)
  BY <1>2, <1>3 DEF Typed
<1>5. Held(d, g, r)
  BY <1>3, <1>4 DEF Held, Good, Quiet
<1> QED
  BY <1>1, <1>5

LEMMA BundleIs ==
  /\ Bundle.b = b /\ Bundle.z = z /\ Bundle.t = t /\ Bundle.k = k /\ Bundle.due = due
  /\ Bundle.rc = "OK" /\ Bundle = [f \in Parts |-> Bundle[f]]
BY DEF Bundle, Parts

\* The history grows, and the radio does what is not looked at here.
LEMMA HistoryKeeps ==
  ASSUME NEW c, NEW g, NEW r, NEW G, NEW R, Held(c, g, r), G.frames = g.frames, R.id = r.id,
         g.key => G.key, g.tc => G.tc, g.confirm => G.confirm, Stays(c.b, G)
  PROVE  Held(c, G, R)
<1>1. Placed(c.b, c.t, c.k, R, "NONE")
  BY DEF Held, Good, Placed
<1>2. Timed(c.b, c.t, G, "NONE") /\ Heard(c.b, c.z, c.t, G)
  BY DEF Held, Good, Timed, Heard
<1> QED
  BY <1>1, <1>2 DEF Held, Good

\* Once ready, a device has been a member.
LEMMA WasKeeps ==
  ASSUME NEW c, NEW g, NEW r, NEW R, NEW ready \in BOOLEAN, Held(c, g, r), IsHistory(g), R.id = r.id,
         ready => c.b.phase = "READY"
  PROVE  LET G == [g EXCEPT !.was = @ \/ ready] IN Held(c, G, R) /\ IsHistory(G)
<1> DEFINE G == [g EXCEPT !.was = @ \/ ready]
<1>1. /\ G = [f \in HistoryFields |-> G[f]] /\ G.was = (g.was \/ ready) /\ G.frames = g.frames
      /\ G.key = g.key /\ G.tc = g.tc /\ G.confirm = g.confirm
  BY DEF IsHistory, HistoryFields
<1> HIDE DEF G
<1>2. IsHistory(G)
  BY <1>1 DEF IsHistory
<1>3. Stays(c.b, G)
  BY <1>1 DEF Held, Good, Stays
<1>4. Held(c, G, R)
  BY <1>1, <1>3, HistoryKeeps
<1> QED
  BY <1>2, <1>4 DEF G

(*** The actions.                                                              ***)

LEMMA Concluded ==
  ASSUME NEW c, Held(c, h, radio), Unbundle(c), IsHistory(h), radio'.id = radio.id,
         h' = [h EXCEPT !.was = @ \/ b'.phase = "READY"], Requested(c.b, radio')
  PROVE  JoinInv'
<1> DEFINE ready == c.b.phase = "READY"
           G == [h EXCEPT !.was = @ \/ ready]
<1>1. b' = c.b /\ h' = G
  BY DEF Unbundle
<1>2. ready \in BOOLEAN /\ (ready => c.b.phase = "READY")
  OBVIOUS
<1> HIDE DEF ready
<1>3. Held(c, G, radio') /\ IsHistory(G)
  BY <1>2, WasKeeps
<1>4. Held(Bundle, h, radio)'
  BY <1>1, <1>3, Bundled
<1> QED
  BY <1>1, <1>3, <1>4 DEF JoinInv

LEMMA StepHolds ==
  ASSUME JoinInv, NEW how \in {"STAY", "GO", "SENT", "FAIL", "FAULT"}, NEW wrap, NEW asks,
         Step(how, wrap, asks)
  PROVE  JoinInv'
<1> DEFINE c == Stepped(how, wrap, asks)
<1>1. Bundle.b.phase \in Running /\ radio.asked = 0
  BY BundleIs DEF Step, JoinInv, Requested, Running, Live, BeforeReady
<1>2. Held(c, h, radio)
  BY <1>1, SteppedHolds DEF JoinInv
<1>3. Unbundle(c) /\ h' = [h EXCEPT !.was = @ \/ b'.phase = "READY"] /\ radio' = radio
  BY DEF Step
<1> HIDE DEF c
<1>4. Requested(c.b, radio')
  BY <1>1, <1>3 DEF JoinInv, Requested
<1> QED
  BY <1>2, <1>3, <1>4, Concluded DEF JoinInv

\* An identity is stored, or not.
LEMMA FaultHolds ==
  ASSUME NEW c, NEW g, NEW r, NEW B, NEW T, Held(c, g, r), B = [f \in BdbFields |-> B[f]],
         Alike(B, c.b, BdbFields, {"phase", "result", "member", "attempts"}), B.phase \in Over,
         B.member \in {FALSE, c.b.member},
         T = [f \in TransportFields |-> T[f]], Alike(T, c.t, TransportFields, {"ready"}), T.ready = FALSE
  PROVE  Held([c EXCEPT !.b = B, !.t = T], g, r)
<1> DEFINE d == [c EXCEPT !.b = B, !.t = T]
<1>0. Typed(c) /\ Good(c, g, r, "NONE")
  BY DEF Held, Good
<1>1. d = [f \in Parts |-> d[f]] /\ d.b = B /\ d.t = T /\ d.z = c.z /\ d.k = c.k
  BY <1>0 DEF Typed, Parts
<1> HIDE DEF d
<1>2. IsBdb(B)
  BY <1>0 DEF Typed, IsBdb, Alike, BdbFields
<1>3. IsTransport(T) /\ T.done = c.t.done
  BY <1>0 DEF Typed, IsTransport, Alike, TransportFields
<1>4. Typed(d)
  BY <1>0, <1>1, <1>2, <1>3 DEF Typed
<1>5. /\ Alike(d.b, c.b, BdbFields, Minor \cup {"phase", "result", "member"})
      /\ Alike(d.t, c.t, TransportFields, {"ready", "done"})
      /\ d.b.member => c.b.member
  BY <1>1 DEF Alike, Minor
<1>6. Held(d, g, r)
  BY <1>0, <1>1, <1>3, <1>4, <1>5, OverKeeps DEF Held
<1> QED
  BY <1>6 DEF d

LEMMA InstallHolds ==
  ASSUME JoinInv, NEW saved, InstallStep(saved)
  PROVE  JoinInv'
<1> DEFINE c == Counted(Bundle)
           matches == /\ radio.report = b.token /\ b.issued = 1 /\ "until" \notin due
                      /\ radio.id = k.id
           B1 == [c.b EXCEPT !.phase = "FAULT", !.result = "WORK_LIMIT", !.member = FALSE]
           T1 == [c.t EXCEPT !.ready = FALSE]
           f1 == [c EXCEPT !.b = B1, !.t = T1]
           f2 == Aborted(TransportStep(Fail(c, "WORK_LIMIT"), "STAY"))
           f3 == Installed(c, saved)
           B4 == [c.b EXCEPT !.phase = "FAULT", !.result = "INSTALL_FAILED"]
           f4 == [c EXCEPT !.b = B4]
           B5 == [c.b EXCEPT !.issued = 1]
           f5 == [c EXCEPT !.b = B5]
<1>1. /\ b.phase = "INSTALLING"
      /\ \/ b.issued = 1 /\ Unbundle(f1) /\ radio' = radio
         \/ b.issued # 1 /\ Unbundle(f2) /\ radio' = radio
         \/ matches /\ Unbundle(f3) /\ radio' = [radio EXCEPT !.report = 2]
         \/ /\ "until" \in due
            /\ Unbundle(f4) /\ radio' = [radio EXCEPT !.report = 2]
         \/ /\ Unbundle(f5)
            /\ \/ radio' = [radio EXCEPT !.asked = k.id, !.token = b.token, !.report = 2]
               \/ b.issued # 0 /\ radio' = [radio EXCEPT !.report = 2]
  <2>1. /\ [c EXCEPT !.b.phase = "FAULT", !.b.result = "WORK_LIMIT", !.b.member = FALSE,
                     !.t.ready = FALSE] = f1
        /\ [c EXCEPT !.b.phase = "FAULT", !.b.result = "INSTALL_FAILED"] = f4
        /\ [c EXCEPT !.b.issued = 1] = f5
    <3> HIDE DEF c
    <3> QED
      OBVIOUS
  <2>2. /\ b.phase = "INSTALLING"
        /\ \/ /\ b.steps = STALL_STEPS
              /\ Unbundle(IF b.issued = 1
                          THEN [c EXCEPT !.b.phase = "FAULT", !.b.result = "WORK_LIMIT",
                                         !.b.member = FALSE, !.t.ready = FALSE]
                          ELSE f2)
              /\ UNCHANGED radio
           \/ /\ b.steps # STALL_STEPS /\ matches
              /\ Unbundle(f3)
              /\ radio' = [radio EXCEPT !.report = 2]
           \/ /\ b.steps # STALL_STEPS /\ ~matches
              /\ Unbundle(IF "until" \in due THEN [c EXCEPT !.b.phase = "FAULT", !.b.result = "INSTALL_FAILED"]
                          ELSE [c EXCEPT !.b.issued = 1])
              /\ radio' = IF "until" \notin due /\ b.issued = 0
                          THEN [radio EXCEPT !.asked = k.id, !.token = b.token, !.report = 2]
                          ELSE [radio EXCEPT !.report = 2]
    BY Zenon DEF InstallStep
  <2> HIDE DEF c, f1, f2, f3, f4, f5, matches
  <2> QED
    BY <2>1, <2>2
<1>2. h' = [h EXCEPT !.was = @ \/ b'.phase = "READY"]
  BY DEF InstallStep
<1>3. /\ Held(c, h, radio) /\ c.b.phase = "INSTALLING" /\ c.k = k /\ c.t = t /\ ~c.t.ready
      /\ Alike(c.b, b, BdbFields, {"steps"})
  <2>1. Held(Bundle, h, radio) /\ Bundle.b = b
    BY BundleIs DEF JoinInv
  <2>2. /\ Held(c, h, radio) /\ c.k = k /\ c.t = t /\ c.b.phase = b.phase
        /\ Alike(c.b, b, BdbFields, {"steps"})
    BY <2>1, BundleIs, CountedHolds
  <2> HIDE DEF c
  <2> QED
    BY <1>1, <2>2 DEF Held, Good, Slot
<1>4. c.b.issued = b.issued /\ c.b.token = b.token /\ c.b.token \in {0, 1} /\ Typed(c)
  <2> HIDE DEF c
  <2> QED
    BY <1>3 DEF Alike, BdbFields, Held, Good, Stages
<1>5. /\ radio = [f \in RadioFields |-> radio[f]]
      /\ radio.asked # 0 => b.issued = 1
      /\ radio.report # 2 => radio.asked = 0
      /\ IsHistory(h)
  BY <1>1 DEF JoinInv, Requested
<1> HIDE DEF c
<1>6. CASE b.issued = 1 /\ Unbundle(f1) /\ radio' = radio
  <2>1. /\ B1 = [f \in BdbFields |-> B1[f]] /\ Alike(B1, c.b, BdbFields, {"phase", "result", "member"})
        /\ B1.phase = "FAULT" /\ B1.member = FALSE
    BY <1>4 DEF Typed, IsBdb, Alike, BdbFields
  <2>2. /\ T1 = [f \in TransportFields |-> T1[f]] /\ Alike(T1, c.t, TransportFields, {"ready"})
        /\ T1.ready = FALSE
    BY <1>4 DEF Typed, IsTransport, Alike, TransportFields
  <2>3. f1.b = B1
    BY <1>4 DEF Typed, Parts
  <2> HIDE DEF B1, T1
  <2>4. Alike(B1, c.b, BdbFields, {"phase", "result", "member", "attempts"})
    BY <2>1 DEF Alike
  <2>5. Held(f1, h, radio)
    BY <1>3, <2>1, <2>2, <2>4, FaultHolds DEF Over
  <2> HIDE DEF f1
  <2>6. Requested(f1.b, radio')
    BY <1>5, <1>6, <2>1, <2>3 DEF Requested
  <2> QED
    BY <1>2, <1>5, <1>6, <2>5, <2>6, Concluded
<1>7. CASE b.issued # 1 /\ Unbundle(f2) /\ radio' = radio
  <2> DEFINE e == Fail(c, "WORK_LIMIT")
             d == TransportStep(e, "STAY")
  <2>1. Held(e, h, radio) /\ e.b.phase = "ABORTING"
    BY <1>3, FailHolds
  <2> HIDE DEF e
  <2>2. Good(d, h, radio, "NONE") /\ d.b = e.b
    BY <2>1, TransportKeeps DEF Held, Over
  <2> HIDE DEF d
  <2>3. Held(d, h, radio)
    BY <2>1, <2>2 DEF Held, Quiet
  <2>4. Held(Aborted(d), h, radio)
    BY <2>3, AbortedHolds
  <2>5. f2 = Aborted(d)
    BY DEF d, e
  <2> HIDE DEF f2
  <2>6. Held(f2, h, radio) /\ Requested(f2.b, radio')
    BY <1>5, <1>7, <2>4, <2>5 DEF Requested
  <2> QED
    BY <1>2, <1>5, <1>7, <2>6, Concluded
<1>8. CASE matches /\ Unbundle(f3) /\ radio' = [radio EXCEPT !.report = 2]
  <2>1. radio.id = c.k.id /\ radio.report # 2
    BY <1>3, <1>4, <1>8
  <2>2. Held(f3, h, radio)
    BY <1>3, <2>1, InstalledHolds DEF Held
  <2> HIDE DEF f3
  <2>3. /\ radio' = [f \in RadioFields |-> radio'[f]] /\ radio'.id = radio.id
        /\ radio'.asked = 0 /\ radio'.report = 2
    BY <1>5, <1>8, <2>1 DEF RadioFields
  <2>4. Requested(f3.b, radio')
    BY <2>3 DEF Requested
  <2> QED
    BY <1>2, <1>5, <1>8, <2>2, <2>3, <2>4, Concluded
<1>9. CASE "until" \in due /\ Unbundle(f4) /\ radio' = [radio EXCEPT !.report = 2]
  <2>1. /\ B4 = [f \in BdbFields |-> B4[f]] /\ Alike(B4, c.b, BdbFields, {"phase", "result"})
        /\ B4.phase = "FAULT" /\ B4.member = c.b.member
    BY <1>4 DEF Typed, IsBdb, Alike, BdbFields
  <2> HIDE DEF B4
  <2>2. Alike(B4, c.b, BdbFields, {"phase", "result", "member", "attempts"})
    BY <2>1 DEF Alike
  <2>3. f4.b = B4 /\ f4 = [c EXCEPT !.b = B4, !.t = c.t]
    BY <1>4 DEF Typed, Parts
  <2>4. c.t = [f \in TransportFields |-> c.t[f]] /\ c.t.ready = FALSE /\ Alike(c.t, c.t, TransportFields, {"ready"})
    BY <1>3, <1>4 DEF Typed, IsTransport, Alike
  <2>5. Held([c EXCEPT !.b = B4, !.t = c.t], h, radio)
    BY <1>3, <2>1, <2>2, <2>4, FaultHolds DEF Over
  <2> HIDE DEF f4
  <2>6. /\ radio' = [f \in RadioFields |-> radio'[f]] /\ radio'.id = radio.id /\ radio'.report = 2
    BY <1>5, <1>9 DEF RadioFields
  <2>7. Requested(f4.b, radio')
    BY <2>1, <2>3, <2>6 DEF Requested
  <2> QED
    BY <1>2, <1>5, <1>9, <2>3, <2>5, <2>6, <2>7, Concluded
<1>10. CASE /\ Unbundle(f5)
            /\ \/ radio' = [radio EXCEPT !.asked = k.id, !.token = b.token, !.report = 2]
               \/ b.issued # 0 /\ radio' = [radio EXCEPT !.report = 2]
  <2>1. /\ B5 = [f \in BdbFields |-> B5[f]] /\ Alike(B5, c.b, BdbFields, {"issued"})
        /\ B5.issued = 1
    BY <1>4 DEF Typed, IsBdb, Alike, BdbFields
  <2> HIDE DEF B5
  <2>2. Alike(B5, c.b, BdbFields, Minor)
    BY <2>1 DEF Alike, Minor
  <2>3. Held(f5, h, radio) /\ f5.b = B5 /\ B5.phase = "INSTALLING"
    BY <1>3, <2>1, <2>2, CountHolds
  <2> HIDE DEF f5
  <2>4. radio' = [f \in RadioFields |-> radio'[f]] /\ radio'.id = radio.id /\ radio'.report = 2
    BY <1>5, <1>10 DEF RadioFields
  <2>5. Requested(f5.b, radio')
    BY <2>1, <2>3, <2>4 DEF Requested
  <2> QED
    BY <1>2, <1>5, <1>10, <2>3, <2>4, <2>5, Concluded
<1> QED
  BY <1>1, <1>6, <1>7, <1>8, <1>9, <1>10

LEMMA RadioHolds ==
  ASSUME JoinInv, RadioInstalls
  PROVE  JoinInv'
<1>1. /\ b.phase \in {"INSTALLING", "FAULT"} /\ Unbundle(Bundle) /\ h' = h /\ b' = b
      /\ radio' = [f \in RadioFields |-> radio'[f]] /\ radio'.asked = 0
  BY BundleIs DEF RadioInstalls, JoinInv, Requested, Unbundle, RadioFields
<1>2. Good(Bundle, h, radio, "NONE") /\ Bundle.b.phase = b.phase /\ Quiet(Bundle)
  BY BundleIs DEF JoinInv, Held
<1>3. Placed(Bundle.b, Bundle.t, Bundle.k, radio', "NONE")
  BY <1>1, <1>2 DEF Good, Placed, Slot, Joining, BeforeReady
<1>4. Held(Bundle, h, radio')
  BY <1>2, <1>3 DEF Held, Good
<1>5. Held(Bundle, h, radio)'
  BY <1>1, <1>4, Bundled
<1> QED
  BY <1>1, <1>5 DEF JoinInv, Requested

\* Before the join proper nothing is under way.
LEMMA EarlyHolds ==
  ASSUME NEW c, NEW g, NEW r, NEW B, Held(c, g, r), c.b.phase \in {"IDLE", "SCANNING", "ASSOCIATING"},
         B = [f \in BdbFields |-> B[f]], Alike(B, c.b, BdbFields, {"phase", "attempts"}),
         \/ c.b.recovery = 0 /\ B.phase \in {"SCANNING", "ASSOCIATING"}
         \/ B.phase = c.b.phase
  PROVE  Held([c EXCEPT !.b = B], g, r)
<1> DEFINE d == [c EXCEPT !.b = B]
<1>0. Typed(c)
  BY DEF Held, Good
<1>1. Alike(B, c.b, BdbFields, Minor \cup {"phase"})
  BY DEF Alike, Minor
<1>2. Typed(d) /\ d.b = B /\ d.z = c.z /\ d.t = c.t /\ d.k = c.k
  BY <1>0, <1>1, TurnIs
<1> HIDE DEF d
<1>3. /\ B.token = c.b.token /\ B.result = c.b.result /\ B.member = c.b.member
      /\ B.recovery = c.b.recovery /\ B.timely = c.b.timely /\ B.abandon = c.b.abandon
      /\ B.tc = c.b.tc /\ B.confirm = c.b.confirm /\ B.phase \in {"IDLE", "SCANNING", "ASSOCIATING"}
  BY DEF Alike, BdbFields
<1>4. Stages(B)
  BY <1>3 DEF Held, Good, Stages, Joining, BeforeReady, Live, Ends
<1>5. Queries(B, c.z) /\ Slot(B, c.t)
  BY <1>3 DEF Held, Good, Queries, Unqueried, Slot, Homes, Bound, Over
<1>6. Placed(B, c.t, c.k, r, "NONE")
  BY <1>3 DEF Held, Good, Placed, Joining, BeforeReady
<1>7. Timed(B, c.t, g, "NONE") /\ Stays(B, g) /\ Heard(B, c.z, c.t, g)
  BY <1>3 DEF Held, Good, Timed, Stays, Heard, Ends
<1>8. Held(d, g, r)
  BY <1>2, <1>3, <1>4, <1>5, <1>6, <1>7 DEF Held, Good, Quiet
<1> QED
  BY <1>8 DEF d

\* Only the state of the join changes.
LEMMA OnlyBdb ==
  ASSUME JoinInv, NEW B, Held([Bundle EXCEPT !.b = B], h, radio), b' = B,
         z' = z, t' = t, k' = k, due' = due, h' = h, radio' = radio, radio.asked = 0
  PROVE  JoinInv'
<1> DEFINE c == [Bundle EXCEPT !.b = B]
<1>1. Unbundle(c)
  BY BundleIs DEF Unbundle, Parts
<1> HIDE DEF c
<1>2. Held(Bundle, h, radio)'
  BY <1>1, Bundled DEF c
<1> QED
  BY <1>2 DEF JoinInv, Requested

LEMMA StartHolds ==
  ASSUME JoinInv, Start
  PROVE  JoinInv'
<1> DEFINE B == [b EXCEPT !.phase = "SCANNING"]
<1>1. /\ Held(Bundle, h, radio) /\ Bundle.b = b /\ b.phase = "IDLE" /\ b.recovery = 0
      /\ radio.asked = 0 /\ IsBdb(b)
  BY BundleIs DEF JoinInv, Held, Good, Typed, Heard, Start, Requested
<1>2. /\ B = [f \in BdbFields |-> B[f]] /\ Alike(B, b, BdbFields, {"phase", "attempts"})
      /\ B.phase = "SCANNING"
  BY <1>1 DEF IsBdb, Alike, BdbFields
<1>3. /\ b' = B /\ z' = z /\ t' = t /\ k' = k /\ due' = due /\ h' = h /\ radio' = radio
  BY DEF Start
<1> HIDE DEF B
<1>4. Held([Bundle EXCEPT !.b = B], h, radio)
  BY <1>1, <1>2, EarlyHolds
<1> QED
  BY <1>1, <1>3, <1>4, OnlyBdb

LEMMA ResumeHolds ==
  ASSUME JoinInv, Resume
  PROVE  JoinInv'
<1> DEFINE B == [b EXCEPT !.phase = "INSTALLING", !.recovery = 1, !.token = 1 - @]
           G == [h EXCEPT !.was = TRUE]
           c == [Bundle EXCEPT !.b = B]
<1>1. /\ Held(Bundle, h, radio) /\ Bundle.b = b /\ b.phase = "IDLE" /\ b.recovery = 0
      /\ radio.asked = 0 /\ IsBdb(b) /\ Typed(Bundle) /\ IsHistory(h) /\ b.token \in {0, 1}
  BY BundleIs DEF JoinInv, Held, Good, Typed, Heard, Stages, Resume, Requested
<1>2. /\ B = [f \in BdbFields |-> B[f]] /\ Alike(B, b, BdbFields, {"phase", "recovery", "token"})
      /\ B.phase = "INSTALLING" /\ B.recovery = 1 /\ B.token = 1 - b.token
  BY <1>1 DEF IsBdb, Alike, BdbFields
<1>3. /\ G = [f \in HistoryFields |-> G[f]] /\ G.frames = h.frames /\ G.was = TRUE
      /\ G.key = h.key /\ G.tc = h.tc /\ G.confirm = h.confirm
  BY <1>1 DEF IsHistory, HistoryFields
<1>4. /\ b' = B /\ z' = z /\ t' = t /\ k' = k /\ due' = due /\ h' = G /\ radio' = radio
  BY DEF Resume
<1> HIDE DEF B, G
<1>5. IsBdb(B) /\ B.timely = b.timely /\ B.tc = b.tc /\ B.confirm = b.confirm /\ B.token \in {0, 1}
  BY <1>1, <1>2 DEF IsBdb, Alike, BdbFields
<1>6. Typed(c) /\ c.b = B /\ c.z = z /\ c.t = t /\ c.k = k /\ c.due = due
  BY <1>1, <1>5, BdbIs, BundleIs
<1> HIDE DEF c
<1>7. IsHistory(G)
  BY <1>1, <1>3 DEF IsHistory
<1>8. /\ Stages(b) /\ Queries(b, z) /\ Slot(b, t) /\ Placed(b, t, k, radio, "NONE")
      /\ Timed(b, t, h, "NONE") /\ Heard(b, z, t, h)
  BY <1>1, BundleIs DEF Held, Good
<1>9. Stages(B) /\ Queries(B, z)
  BY <1>1, <1>2, <1>5, <1>8 DEF Stages, Queries, Unqueried, Live, BeforeReady, Joining
<1>10. Slot(B, t) /\ Placed(B, t, k, radio, "NONE")
  BY <1>1, <1>2, <1>8 DEF Slot, Placed, Homes, Bound, Over, Joining, BeforeReady
<1>11. Timed(B, t, G, "NONE") /\ Stays(B, G) /\ Heard(B, z, t, G)
  BY <1>1, <1>2, <1>3, <1>5, <1>8 DEF Timed, Stays, Heard
<1>12. Held(c, G, radio)
  BY <1>2, <1>6, <1>9, <1>10, <1>11 DEF Held, Good, Quiet
<1>13. Unbundle(c)
  BY <1>4, <1>6 DEF Unbundle
<1>14. Held(Bundle, h, radio)'
  BY <1>4, <1>12, <1>13, Bundled
<1> QED
  BY <1>1, <1>4, <1>7, <1>14 DEF JoinInv, Requested

\* A join ends before it has begun to use the transport.
LEMMA EarlyEnds ==
  ASSUME NEW B, Held(Bundle, h, radio), b.phase \in {"SCANNING", "ASSOCIATING"},
         B = [f \in BdbFields |-> B[f]], Alike(B, b, BdbFields, {"phase", "result", "attempts"}),
         B.phase \in Over
  PROVE  Held([Bundle EXCEPT !.b = B], h, radio)
<1>1. Bundle.b = b /\ Bundle.t = t /\ Typed(Bundle) /\ IsTransport(t) /\ t.ready = FALSE
  BY BundleIs DEF Held, Good, Typed, Slot, IsTransport
<1>2. [Bundle EXCEPT !.b = B] = [Bundle EXCEPT !.b = B, !.t = t]
  BY <1>1 DEF Typed, Parts
<1>3. /\ Alike(B, b, BdbFields, {"phase", "result", "member", "attempts"}) /\ B.member = b.member
      /\ Alike(t, t, TransportFields, {"ready"}) /\ t = [f \in TransportFields |-> t[f]]
  BY <1>1 DEF Alike, BdbFields, IsTransport
<1>4. Held([Bundle EXCEPT !.b = B, !.t = t], h, radio)
  BY <1>1, <1>3, FaultHolds
<1> QED
  BY <1>2, <1>4

\* The transport and the runtime begin anew.
LEMMA AnewHolds ==
  ASSUME NEW c, Held(Bundle, h, radio), Typed(c), c.z = IdleZdo, c.t = IdleTransport,
         c.k.phase = k.phase, Stages(c.b), c.b.timely = b.timely, c.b.tc = b.tc, c.b.confirm = b.confirm,
         c.b.recovery = b.recovery, Stays(c.b, h),
         \/ c.b.phase = "INSTALLING" /\ ~c.b.member
         \/ c.b.phase = "RECOVERING"
  PROVE  Held(c, h, radio)
<1>1. /\ c.z.query = "NO" /\ ~c.z.app /\ c.t.txn = "NO" /\ c.t.done = "NO" /\ c.t.rx.kind = "NONE"
      /\ ~c.t.ready
  BY DEF IdleZdo, IdleTransport, NoFrame
<1>2. Placed(b, t, k, radio, "NONE") /\ Timed(b, t, h, "NONE") /\ Heard(b, z, t, h)
  BY BundleIs DEF Held, Good
<1>3. c.b.recovery # 0 \/ c.b.phase # "RECOVERING"
  BY DEF Stages
<1>4. Queries(c.b, c.z) /\ Slot(c.b, c.t)
  BY <1>1 DEF Queries, Slot, Bound
<1>5. Placed(c.b, c.t, c.k, radio, "NONE")
  BY <1>1, <1>2, <1>3 DEF Placed, Waits, Joining, BeforeReady
<1>6. Timed(c.b, c.t, h, "NONE")
  BY <1>1, <1>2, <1>3 DEF Timed, Waits
<1>7. Heard(c.b, c.z, c.t, h)
  BY <1>1, <1>2 DEF Heard
<1> QED
  BY <1>4, <1>5, <1>6, <1>7 DEF Held, Good, Quiet

LEMMA ScanHolds ==
  ASSUME JoinInv, NEW found, ScanEnds(found)
  PROVE  JoinInv'
<1> DEFINE B1 == [b EXCEPT !.phase = "ASSOCIATING", !.attempts = 1]
           B2 == [b EXCEPT !.phase = "RECOVERING", !.search = 2, !.attempts = 0, !.issued = 0]
           B3 == [b EXCEPT !.attempts = @ + 1]
           B4 == [b EXCEPT !.phase = IF found = "FAULT" THEN "FAULT" ELSE "FAILED",
                           !.attempts = IF found = "NOTHING" /\ b.recovery = 0 THEN @ + 1 ELSE @,
                           !.result = IF found = "FAULT" THEN "SCAN_FAILED" ELSE "NO_PARENT"]
<1>1. /\ \/ b.recovery = 0 /\ b' = B1 /\ z' = z /\ t' = t
         \/ b.recovery # 0 /\ b' = B2 /\ z' = IdleZdo /\ t' = IdleTransport
         \/ b' = B3 /\ z' = z /\ t' = t
         \/ b' = B4 /\ z' = z /\ t' = t
      /\ b.phase = "SCANNING" /\ k' = k /\ due' = due /\ h' = h /\ radio' = radio
  <2> DEFINE again == found = "NOTHING" /\ b.recovery = 0 /\ b.attempts + 1 < ATTEMPTS
             stale == b.recovery # 0 /\ "commission" \in due
  <2>1. (CASE found = "PARENT" /\ ~stale -> IF b.recovery = 0 THEN b' = B1 /\ UNCHANGED <<z, t>>
                                            ELSE b' = B2 /\ z' = IdleZdo /\ t' = IdleTransport
           [] again -> b' = B3 /\ UNCHANGED <<z, t>>
           [] OTHER -> b' = B4 /\ UNCHANGED <<z, t>>)
    BY Zenon DEF ScanEnds
  <2>2. ~(found = "PARENT" /\ ~stale) \/ ~again
    OBVIOUS
  <2>3. b.phase = "SCANNING" /\ k' = k /\ due' = due /\ h' = h /\ radio' = radio
    BY DEF ScanEnds
  <2> HIDE DEF again, stale, B1, B2, B3, B4
  <2> QED
    BY <2>1, <2>2, <2>3
<1>2. /\ Held(Bundle, h, radio) /\ Bundle.b = b /\ IsBdb(b) /\ radio.asked = 0
  BY <1>1, BundleIs DEF JoinInv, Held, Good, Typed, Requested
<1>3. CASE b.recovery = 0 /\ b' = B1 /\ z' = z /\ t' = t
  <2>1. /\ B1 = [f \in BdbFields |-> B1[f]] /\ Alike(B1, b, BdbFields, {"phase", "attempts"})
        /\ B1.phase = "ASSOCIATING"
    BY <1>2 DEF IsBdb, Alike, BdbFields
  <2> HIDE DEF B1
  <2>2. Held([Bundle EXCEPT !.b = B1], h, radio)
    BY <1>1, <1>2, <1>3, <2>1, EarlyHolds
  <2> QED
    BY <1>1, <1>2, <1>3, <2>2, OnlyBdb
<1>4. CASE b.recovery # 0 /\ b' = B2 /\ z' = IdleZdo /\ t' = IdleTransport
  <2> DEFINE c == [b |-> B2, z |-> IdleZdo, t |-> IdleTransport, k |-> k, due |-> due, rc |-> "OK"]
  <2>1. /\ B2 = [f \in BdbFields |-> B2[f]] /\ Alike(B2, b, BdbFields, {"phase", "search", "attempts", "issued"})
        /\ B2.phase = "RECOVERING"
    BY <1>2 DEF IsBdb, Alike, BdbFields
  <2> HIDE DEF B2
  <2>2. /\ B2.token = b.token /\ B2.result = b.result /\ B2.member = b.member
        /\ B2.recovery = b.recovery /\ B2.timely = b.timely /\ B2.abandon = b.abandon
        /\ B2.tc = b.tc /\ B2.confirm = b.confirm
    BY <2>1 DEF Alike, BdbFields
  <2>3. IsBdb(B2)
    BY <1>2, <2>1 DEF IsBdb, Alike, BdbFields
  <2>4. IsZdo(IdleZdo) /\ IsTransport(IdleTransport)
    BY DEF IdleZdo, IdleTransport, IsZdo, IsTransport, ZdoFields, TransportFields
  <2>5. IsOwner(k)
    BY <1>2, BundleIs DEF Held, Good, Typed
  <2>6. /\ c = [f \in Parts |-> c[f]] /\ c.b = B2 /\ c.z = IdleZdo /\ c.t = IdleTransport /\ c.k = k
        /\ c.due = due
    BY DEF Parts
  <2> HIDE DEF c
  <2>7. Typed(c)
    BY <2>3, <2>4, <2>5, <2>6 DEF Typed
  <2>8. Stages(b) /\ Stays(b, h)
    BY <1>2 DEF Held, Good
  <2>9. Stages(B2) /\ Stays(B2, h)
    BY <1>1, <1>4, <2>1, <2>2, <2>8 DEF Stages, Stays, Live, Joining, BeforeReady, Ends
  <2>10. Held(c, h, radio)
    BY <1>2, <2>1, <2>2, <2>6, <2>7, <2>9, AnewHolds
  <2>11. Unbundle(c)
    BY <1>1, <1>4, <2>6 DEF Unbundle
  <2>12. Held(Bundle, h, radio)'
    BY <1>1, <2>10, <2>11, Bundled
  <2> QED
    BY <1>1, <1>2, <2>12 DEF JoinInv, Requested
<1>5. CASE b' = B3 /\ z' = z /\ t' = t
  <2>1. /\ B3 = [f \in BdbFields |-> B3[f]] /\ Alike(B3, b, BdbFields, {"phase", "attempts"})
        /\ B3.phase = b.phase
    BY <1>2 DEF IsBdb, Alike, BdbFields
  <2> HIDE DEF B3
  <2>2. Held([Bundle EXCEPT !.b = B3], h, radio)
    BY <1>1, <1>2, <1>5, <2>1, EarlyHolds
  <2> QED
    BY <1>1, <1>2, <1>5, <2>2, OnlyBdb
<1>6. CASE b' = B4 /\ z' = z /\ t' = t
  <2>1. /\ B4 = [f \in BdbFields |-> B4[f]] /\ Alike(B4, b, BdbFields, {"phase", "result", "attempts"})
        /\ B4.phase \in {"FAULT", "FAILED"}
    BY <1>2 DEF IsBdb, Alike, BdbFields
  <2> HIDE DEF B4
  <2>2. Held([Bundle EXCEPT !.b = B4], h, radio)
    BY <1>1, <1>2, <1>6, <2>1, EarlyEnds DEF Over
  <2> QED
    BY <1>1, <1>2, <1>6, <2>2, OnlyBdb
<1> QED
  BY <1>1, <1>3, <1>4, <1>5, <1>6

LEMMA AssociationHolds ==
  ASSUME JoinInv, NEW outcome, AssociationEnds(outcome)
  PROVE  JoinInv'
<1> DEFINE B0 == [b EXCEPT !.member = FALSE]
           K == [k EXCEPT !.id = 1]
           a == [Bundle EXCEPT !.z = IdleZdo, !.t = IdleTransport, !.b = B0, !.k = K]
           c == Set(Install(a), {"commission"})
           B1 == [b EXCEPT !.phase = "FAILED", !.result = "ASSOCIATION_FAILED"]
           B2 == [b EXCEPT !.attempts = @ + 1]
           B3 == [b EXCEPT !.phase = "FAULT", !.result = "ASSOCIATION_FAILED"]
<1>1. /\ \/ Unbundle(c)
         \/ b' \in {B1, B2, B3} /\ z' = z /\ t' = t /\ k' = k /\ due' = due
      /\ b.phase = "ASSOCIATING" /\ h' = h /\ radio' = radio
  <2>1. [Bundle EXCEPT !.z = IdleZdo, !.t = IdleTransport, !.b.member = FALSE, !.k.id = 1] = a
    <3>1. Bundle.b = b /\ Bundle.k = k
      BY BundleIs
    <3>2. [Bundle EXCEPT !.z = IdleZdo, !.t = IdleTransport, !.b.member = FALSE, !.k.id = 1]
          = [Bundle EXCEPT !.z = IdleZdo, !.t = IdleTransport, !.b = B0, !.k = K]
      BY <3>1
    <3> QED
      BY <3>2
  <2> HIDE DEF a, B1, B2, B3
  <2> QED
    BY <2>1 DEF AssociationEnds, B1, B2, B3
<1>2. /\ Held(Bundle, h, radio) /\ Bundle.b = b /\ IsBdb(b) /\ IsOwner(k) /\ radio.asked = 0
      /\ Stages(b) /\ Stays(b, h)
  BY <1>1, BundleIs DEF JoinInv, Held, Good, Typed, Requested
<1>3. CASE Unbundle(c)
  <2>1. B0 = [f \in BdbFields |-> B0[f]] /\ Alike(B0, b, BdbFields, {"member"}) /\ B0.member = FALSE
    BY <1>2 DEF IsBdb, Alike, BdbFields
  <2>2. IsOwner(K) /\ K.phase = k.phase
    BY <1>2 DEF IsOwner
  <2> HIDE DEF B0, K
  <2>3. IsBdb(B0)
    BY <1>2, <2>1 DEF IsBdb, Alike, BdbFields
  <2>4. IsZdo(IdleZdo) /\ IsTransport(IdleTransport)
    BY DEF IdleZdo, IdleTransport, IsZdo, IsTransport, ZdoFields, TransportFields
  <2>5. /\ a = [f \in Parts |-> a[f]] /\ a.b = B0 /\ a.z = IdleZdo /\ a.t = IdleTransport /\ a.k = K
    BY BundleIs DEF Parts
  <2> HIDE DEF a
  <2>6. Typed(a)
    BY <2>2, <2>3, <2>4, <2>5 DEF Typed
  <2> DEFINE e == Install(a)
  <2>7. /\ Typed(e) /\ e.z = a.z /\ e.t = a.t /\ e.k = a.k
        /\ Alike(e.b, a.b, BdbFields, {"token", "issued", "phase"})
        /\ e.b.token = 1 - a.b.token /\ e.b.phase = "INSTALLING"
    BY <2>6, InstallIs
  <2> HIDE DEF e
  <2>8. Typed(c) /\ c.b = e.b /\ c.z = e.z /\ c.t = e.t /\ c.k = e.k
    BY <2>7, SetIs DEF e
  <2> HIDE DEF c
  <2>9. /\ c.b.token = 1 - b.token /\ c.b.result = b.result /\ c.b.member = FALSE
        /\ c.b.recovery = b.recovery /\ c.b.timely = b.timely /\ c.b.abandon = b.abandon
        /\ c.b.tc = b.tc /\ c.b.confirm = b.confirm /\ c.b.phase = "INSTALLING"
    BY <2>1, <2>5, <2>7, <2>8 DEF Alike, BdbFields
  <2>10. b.recovery = 0 /\ c.b.token \in {0, 1} /\ ~h.was
    BY <1>1, <1>2, <2>9 DEF Stages, Stays, Ends
  <2>11. Stages(c.b) /\ Stays(c.b, h)
    BY <2>9, <2>10 DEF Stages, Stays, Live, BeforeReady, Joining
  <2>12. Held(c, h, radio)
    BY <1>2, <2>2, <2>5, <2>7, <2>8, <2>9, <2>11, AnewHolds
  <2>13. Held(Bundle, h, radio)'
    BY <1>1, <1>3, <2>12, Bundled
  <2> QED
    BY <1>1, <1>2, <2>13 DEF JoinInv, Requested
<1>4. CASE b' \in {B1, B2, B3} /\ z' = z /\ t' = t /\ k' = k /\ due' = due
  <2>1. /\ B1 = [f \in BdbFields |-> B1[f]] /\ Alike(B1, b, BdbFields, {"phase", "result", "attempts"})
        /\ B1.phase \in Over
    BY <1>2 DEF IsBdb, Alike, BdbFields, Over
  <2>2. /\ B2 = [f \in BdbFields |-> B2[f]] /\ Alike(B2, b, BdbFields, {"phase", "attempts"})
        /\ B2.phase = b.phase
    BY <1>2 DEF IsBdb, Alike, BdbFields
  <2>3. /\ B3 = [f \in BdbFields |-> B3[f]] /\ Alike(B3, b, BdbFields, {"phase", "result", "attempts"})
        /\ B3.phase \in Over
    BY <1>2 DEF IsBdb, Alike, BdbFields, Over
  <2> HIDE DEF B1, B2, B3
  <2>4. Held([Bundle EXCEPT !.b = B1], h, radio)
    BY <1>1, <1>2, <2>1, EarlyEnds
  <2>5. Held([Bundle EXCEPT !.b = B2], h, radio)
    BY <1>1, <1>2, <2>2, EarlyHolds
  <2>6. Held([Bundle EXCEPT !.b = B3], h, radio)
    BY <1>1, <1>2, <2>3, EarlyEnds
  <2> QED
    BY <1>1, <1>2, <1>4, <2>4, <2>5, <2>6, OnlyBdb
<1> QED
  BY <1>1, <1>3, <1>4

\* What the key owner stores when it takes a frame.
LEMMA StoredIs ==
  ASSUME IsOwner(k), NEW kind, KeyFrame(kind)
  PROVE  LET K == Stored(kind) IN
         /\ IsOwner(K)
         /\ k.phase = "VERIFIED" /\ kind # "LEAVE" => K.phase = "VERIFIED"
         /\ kind # "UPDATE" /\ k.phase # "REJOINING" => K.id = k.id
         /\ K.phase = "REJOINING" => k.phase = "REJOINING"
<1> DEFINE K == Stored(kind)
<1>1. CASE kind = "NETWORK_KEY"
  BY <1>1 DEF Stored, KeyFrame, IsOwner
<1>2. CASE kind = "TC_KEY"
  BY <1>2 DEF Stored, KeyFrame, IsOwner
<1>3. CASE kind = "VERIFIED"
  BY <1>3 DEF Stored, KeyFrame, IsOwner
<1>4. CASE kind = "REJOINED"
  <2>1. K = [k EXCEPT !.phase = "VERIFIED", !.id = IF @ <= MaxUpdates THEN @ + 1 ELSE @]
    BY <1>4 DEF Stored
  <2>2. k.phase = "REJOINING"
    BY <1>4 DEF KeyFrame
  <2> QED
    BY <1>4, <2>1, <2>2 DEF IsOwner
<1>5. CASE kind = "UPDATE"
  BY <1>5 DEF Stored, KeyFrame, IsOwner
<1>6. CASE kind = "LEAVE"
  BY <1>6 DEF Stored, KeyFrame, IsOwner
<1>7. CASE kind \notin {"NETWORK_KEY", "TC_KEY", "VERIFIED", "REJOINED", "UPDATE", "LEAVE"}
  BY <1>7 DEF Stored, IsOwner
<1> QED
  BY <1>1, <1>2, <1>3, <1>4, <1>5, <1>6, <1>7

LEMMA ReceiveHolds ==
  ASSUME JoinInv, NEW f \in Frames, NEW asks, Receive(f, asks)
  PROVE  JoinInv'
<1> DEFINE ends == f.kind \in {"LEAVE", "UPDATE"} \/ (f.kind \in {"REJOINED", "REFUSED"} /\ t.txn = "REJOIN")
           T0 == IF ends THEN [Cancel(t) EXCEPT !.ready = FALSE] ELSE t
           T == [T0 EXCEPT !.rx = f, !.reply = asks]
           K == Stored(f.kind)
           B == [b EXCEPT !.timely = Timely]
           G == IF "until" \in due THEN h
                ELSE [h EXCEPT !.key = @ \/ f.kind = "NETWORK_KEY", !.tc = @ \/ f.kind = "TC_KEY",
                               !.confirm = @ \/ f.kind = "VERIFIED"]
           c == [Bundle EXCEPT !.b = B, !.t = T, !.k = K]
<1>1. /\ b.phase \in Receiving /\ t.rx.kind = "NONE" /\ KeyFrame(f.kind)
      /\ f.kind = "APP" => t.ready
      /\ t' = T /\ k' = K /\ b' = B /\ h' = G /\ z' = z /\ due' = due /\ radio' = radio
  BY DEF Receive
<1>2. /\ Held(Bundle, h, radio) /\ Bundle.b = b /\ Bundle.z = z /\ Bundle.t = t /\ Bundle.k = k
      /\ IsBdb(b) /\ IsTransport(t) /\ IsOwner(k) /\ Typed(Bundle) /\ IsHistory(h) /\ radio.asked = 0
      /\ Stages(b) /\ Queries(b, z) /\ Slot(b, t) /\ Placed(b, t, k, radio, "NONE")
      /\ Timed(b, t, h, "NONE") /\ Stays(b, h) /\ Heard(b, z, t, h) /\ Quiet(Bundle)
  BY <1>1, BundleIs DEF JoinInv, Held, Good, Typed, Requested, Receiving, Commissioning, BeforeReady
<1>3. /\ T = [x \in TransportFields |-> T[x]] /\ T.rx = f /\ T.txn = t.txn /\ T.done = t.done
      /\ T.announced = t.announced /\ T.permit = t.permit /\ T.cancel \in BOOLEAN /\ T.ready \in BOOLEAN
      /\ T.ready => t.ready
      /\ t.cancel => T.cancel
      /\ f.kind \in {"UPDATE", "LEAVE"} => ~T.ready /\ (t.txn # "NO" => T.cancel)
  <2> DEFINE C == [t EXCEPT !.cancel = @ \/ t.txn # "NO"]
             R == [C EXCEPT !.ready = FALSE]
  <2>1. /\ C = [x \in TransportFields |-> C[x]] /\ Alike(C, t, TransportFields, {"cancel"})
        /\ C.cancel = (t.cancel \/ t.txn # "NO")
    BY <1>2 DEF IsTransport, Alike, TransportFields
  <2> HIDE DEF C
  <2>2. /\ R = [x \in TransportFields |-> R[x]] /\ Alike(R, C, TransportFields, {"ready"})
        /\ R.ready = FALSE
    BY <2>1 DEF Alike, TransportFields
  <2> HIDE DEF R
  <2>3. T0 = IF ends THEN R ELSE t
    BY DEF Cancel, C, R
  <2> HIDE DEF T0
  <2>4. /\ T0 = [x \in TransportFields |-> T0[x]] /\ Alike(T0, t, TransportFields, {"cancel", "ready"})
        /\ T0.cancel \in BOOLEAN /\ T0.ready \in BOOLEAN
        /\ T0.ready => t.ready
        /\ t.cancel => T0.cancel
        /\ ends => ~T0.ready /\ (t.txn # "NO" => T0.cancel)
    <3>1. R.cancel = C.cancel /\ C.cancel \in BOOLEAN
      BY <1>2, <2>1, <2>2 DEF Alike, TransportFields, IsTransport
    <3>2. CASE ends
      BY <2>1, <2>2, <2>3, <3>1, <3>2 DEF Alike
    <3>3. CASE ~ends
      BY <1>2, <2>3, <3>3 DEF Alike, IsTransport
    <3> QED
      BY <3>2, <3>3
  <2>5. /\ T = [x \in TransportFields |-> T[x]] /\ Alike(T, T0, TransportFields, {"rx", "reply"})
        /\ T.rx = f
    BY <2>4 DEF Alike, TransportFields
  <2> HIDE DEF T
  <2>6. /\ T.txn = t.txn /\ T.done = t.done /\ T.announced = t.announced /\ T.permit = t.permit
        /\ T.cancel = T0.cancel /\ T.ready = T0.ready
    BY <2>4, <2>5 DEF Alike, TransportFields
  <2> QED
    BY <2>4, <2>5, <2>6 DEF T
<1>4. /\ B = [x \in BdbFields |-> B[x]] /\ Alike(B, b, BdbFields, {"timely"})
      /\ B.timely = ("until" \notin due)
  BY <1>2 DEF IsBdb, Alike, BdbFields, Timely
<1>5. /\ G = [x \in HistoryFields |-> G[x]] /\ G.frames = h.frames /\ G.was = h.was
      /\ h.key => G.key
      /\ h.tc => G.tc
      /\ h.confirm => G.confirm
      /\ G.key \in BOOLEAN /\ G.tc \in BOOLEAN /\ G.confirm \in BOOLEAN
      /\ "until" \notin due => /\ f.kind = "NETWORK_KEY" => G.key
                               /\ f.kind = "TC_KEY" => G.tc
                               /\ f.kind = "VERIFIED" => G.confirm
  BY <1>2 DEF IsHistory, HistoryFields
<1>6. /\ IsOwner(K)
      /\ k.phase = "VERIFIED" /\ f.kind # "LEAVE" => K.phase = "VERIFIED"
      /\ f.kind # "UPDATE" /\ k.phase # "REJOINING" => K.id = k.id
      /\ K.phase = "REJOINING" => k.phase = "REJOINING"
  BY <1>1, <1>2, StoredIs
<1>7. f.kind \in {"UPDATE", "LEAVE", "BIND"} => f.kind \in Kinds(h.frames)
  BY DEF Frames, Kinds
<1> HIDE DEF T, B, K, G
<1>8. IsBdb(B) /\ IsTransport(T) /\ IsHistory(G)
  <2>1. IsBdb(B)
    BY <1>2, <1>4 DEF IsBdb, Alike, BdbFields
  <2>2. IsTransport(T)
    BY <1>2, <1>3 DEF IsTransport
  <2>3. IsHistory(G)
    BY <1>2, <1>5 DEF IsHistory
  <2> QED
    BY <2>1, <2>2, <2>3
<1>9. /\ B.token = b.token /\ B.result = b.result /\ B.member = b.member /\ B.phase = b.phase
      /\ B.recovery = b.recovery /\ B.abandon = b.abandon /\ B.search = b.search
      /\ B.tc = b.tc /\ B.confirm = b.confirm
  BY <1>4 DEF Alike, BdbFields
<1>10. /\ c = [x \in Parts |-> c[x]] /\ c.b = B /\ c.t = T /\ c.k = K /\ c.z = z /\ c.due = due
  BY BundleIs DEF Parts
<1> HIDE DEF c
<1>11. Typed(c)
  BY <1>2, <1>6, <1>8, <1>10 DEF Typed
<1>12. Stages(B) /\ Queries(B, z) /\ Stays(B, G)
  BY <1>2, <1>5, <1>9 DEF Stages, Queries, Stays
<1>13. Slot(B, T)
  BY <1>2, <1>3, <1>9 DEF Slot
<1>14. Placed(B, T, K, radio, "NONE")
  <2>1. /\ Waits(T, "NONE", "UPDATE") = (f.kind = "UPDATE") /\ Waits(T, "NONE", "LEAVE") = (f.kind = "LEAVE")
        /\ ~Waits(t, "NONE", "UPDATE") /\ ~Waits(t, "NONE", "LEAVE")
    BY <1>1, <1>3 DEF Waits
  <2>2. b.phase # "UPDATING" /\ b.phase # "INSTALLING"
    BY <1>1 DEF Receiving, Commissioning, BeforeReady
  <2>3. t.ready => b.phase \in {"PERMIT", "READY"}
    BY <1>2 DEF Slot
  <2>4. /\ BindingsAlone /\ t.ready => k.phase = "VERIFIED" /\ radio.id = k.id
        /\ k.phase = "REJOINING" => b.recovery # 0 /\ b.phase \notin Joining \cup {"READY"}
        /\ b.phase \in Joining \cup {"READY"} => radio.id = k.id
        /\ b.phase \in {"ANNOUNCING", "PARENT"} /\ b.recovery = 2 => k.phase = "VERIFIED"
    BY <1>2, <2>1 DEF Placed
  <2> HIDE DEF Waits
  <2>5. BindingsAlone /\ T.ready => K.phase = "VERIFIED" /\ radio.id = K.id
    BY <1>3, <1>6, <2>4
  <2>6. b.phase \in Joining \cup {"READY"} => radio.id = K.id \/ f.kind = "UPDATE"
    BY <1>6, <2>4
  <2>7. f.kind \in {"UPDATE", "LEAVE"} => (BindingsAlone => ~T.ready) /\ (T.txn = "PERMIT" => T.cancel)
    BY <1>3
  <2> QED
    BY <1>6, <1>9, <2>1, <2>2, <2>4, <2>5, <2>6, <2>7 DEF Placed
<1>15. Timed(B, T, G, "NONE")
  <2>1. /\ Waits(T, "NONE", "TC_KEY") => f.kind = "TC_KEY"
        /\ Waits(T, "NONE", "VERIFIED") => f.kind = "VERIFIED"
        /\ Waits(T, "NONE", "NETWORK_KEY") => f.kind = "NETWORK_KEY"
    BY <1>3 DEF Waits
  <2>3. B.timely => /\ f.kind = "NETWORK_KEY" => G.key
                    /\ f.kind = "TC_KEY" => G.tc
                    /\ f.kind = "VERIFIED" => G.confirm
    BY <1>4, <1>5
  <2>2. /\ b.tc => G.tc
        /\ b.confirm => G.confirm
        /\ b.member /\ b.recovery = 0 => G.key
    BY <1>2, <1>5 DEF Timed
  <2> HIDE DEF Waits
  <2> QED
    BY <1>9, <2>1, <2>2, <2>3 DEF Timed
<1>16. Heard(B, z, T, G)
  <2>1. f.kind = "APP" => b.recovery \notin {1, 2}
    BY <1>1, <1>2 DEF Slot, Stages, Ends
  <2>2. b.phase # "IDLE"
    BY <1>1 DEF Receiving, Commissioning, BeforeReady
  <2> QED
    BY <1>2, <1>3, <1>5, <1>7, <1>9, <2>1, <2>2 DEF Heard
<1>17. Held(c, G, radio)
  BY <1>2, <1>9, <1>10, <1>11, <1>12, <1>13, <1>14, <1>15, <1>16 DEF Held, Good, Quiet
<1>18. Unbundle(c)
  BY <1>1, <1>10 DEF Unbundle
<1>19. Held(Bundle, h, radio)'
  BY <1>1, <1>17, <1>18, Bundled
<1> QED
  BY <1>1, <1>2, <1>8, <1>19 DEF JoinInv, Requested

LEMMA ReceiveFailsHolds ==
  ASSUME JoinInv, ReceiveFails
  PROVE  JoinInv'
<1> DEFINE c == Fail([Bundle EXCEPT !.k.phase = "BROKEN"], "SECURITY")
<1>1. b.phase \in Receiving /\ Unbundle(c) /\ h' = h /\ radio' = radio
  BY DEF ReceiveFails
<1>2. Held(c, h, radio)
  BY BreakHolds DEF JoinInv, Held
<1>3. radio.asked = 0
  BY <1>1 DEF JoinInv, Requested, Receiving, Commissioning, BeforeReady
<1> HIDE DEF c
<1>4. Held(Bundle, h, radio)'
  BY <1>1, <1>2, Bundled
<1> QED
  BY <1>1, <1>3, <1>4 DEF JoinInv, Requested

LEMMA SendHolds ==
  ASSUME JoinInv, Send
  PROVE  JoinInv'
<1> DEFINE T == [t EXCEPT !.txn = "APP", !.cancel = FALSE]
           B == [b EXCEPT !.app = "PENDING"]
           c == [Bundle EXCEPT !.b = B, !.t = T]
<1>1. /\ b.phase = "READY" /\ t.txn = "NO" /\ t.done = "NO"
      /\ t' = T /\ b' = B /\ z' = z /\ k' = k /\ due' = due /\ h' = h /\ radio' = radio
  BY DEF Send, Reserve
<1>2. /\ Held(Bundle, h, radio) /\ IsBdb(b) /\ IsTransport(t) /\ Typed(Bundle) /\ radio.asked = 0
      /\ Stages(b) /\ Queries(b, z) /\ Slot(b, t) /\ Placed(b, t, k, radio, "NONE")
      /\ Timed(b, t, h, "NONE") /\ Stays(b, h) /\ Heard(b, z, t, h)
  BY <1>1, BundleIs DEF JoinInv, Held, Good, Typed, Requested
<1>3. /\ T = [x \in TransportFields |-> T[x]] /\ Alike(T, t, TransportFields, {"txn", "cancel"})
      /\ T.txn = "APP" /\ T.cancel = FALSE
  BY <1>2 DEF IsTransport, Alike, TransportFields
<1>4. B = [x \in BdbFields |-> B[x]] /\ Alike(B, b, BdbFields, {"app"})
  BY <1>2 DEF IsBdb, Alike, BdbFields
<1> HIDE DEF T, B
<1>5. IsBdb(B)
  BY <1>2, <1>4 DEF IsBdb, Alike, BdbFields
<1>6. IsTransport(T)
  BY <1>2, <1>3 DEF IsTransport, Alike, TransportFields
<1>7. /\ c = [x \in Parts |-> c[x]] /\ c.b = B /\ c.t = T /\ c.k = k /\ c.z = z /\ c.due = due
  BY BundleIs DEF Parts
<1> HIDE DEF c
<1>8. Typed(c)
  BY <1>2, <1>5, <1>6, <1>7, BundleIs DEF Typed
<1>9. /\ B.token = b.token /\ B.result = b.result /\ B.member = b.member /\ B.phase = b.phase
      /\ B.recovery = b.recovery /\ B.abandon = b.abandon /\ B.search = b.search
      /\ B.tc = b.tc /\ B.confirm = b.confirm /\ B.timely = b.timely
      /\ T.rx = t.rx /\ T.ready = t.ready /\ T.announced = t.announced /\ T.permit = t.permit
      /\ T.done = t.done
  BY <1>3, <1>4 DEF Alike, BdbFields, TransportFields
<1>10. Stages(B) /\ Queries(B, z) /\ Stays(B, h)
  BY <1>2, <1>9 DEF Stages, Queries, Stays
<1>11. Slot(B, T) /\ Placed(B, T, k, radio, "NONE")
  BY <1>1, <1>2, <1>3, <1>9 DEF Slot, Placed, Bound, Waits
<1>12. Timed(B, T, h, "NONE") /\ Heard(B, z, T, h)
  BY <1>2, <1>9 DEF Timed, Heard, Waits
<1>13. Held(c, h, radio)
  BY <1>1, <1>7, <1>8, <1>9, <1>10, <1>11, <1>12 DEF Held, Good, Quiet
<1>14. Unbundle(c)
  BY <1>1, <1>7 DEF Unbundle
<1>15. Held(Bundle, h, radio)'
  BY <1>1, <1>13, <1>14, Bundled
<1> QED
  BY <1>1, <1>2, <1>15 DEF JoinInv, Requested

LEMMA ConfirmHolds ==
  ASSUME JoinInv, Confirm
  PROVE  JoinInv'
<1> DEFINE B == [b EXCEPT !.app = "NO"]
<1>1. /\ b.phase = "READY"
      /\ b' = B /\ z' = z /\ t' = t /\ k' = k /\ due' = due /\ h' = h /\ radio' = radio
  BY DEF Confirm
<1>2. Held(Bundle, h, radio) /\ Bundle.b = b /\ IsBdb(b) /\ radio.asked = 0
  BY <1>1, BundleIs DEF JoinInv, Held, Good, Typed, Requested
<1>3. B = [x \in BdbFields |-> B[x]] /\ Alike(B, b, BdbFields, Minor)
  BY <1>2 DEF IsBdb, Alike, BdbFields, Minor
<1> HIDE DEF B
<1>4. Held([Bundle EXCEPT !.b = B], h, radio)
  BY <1>2, <1>3, CountHolds
<1> QED
  BY <1>1, <1>2, <1>4, OnlyBdb

LEMMA DiscardHolds ==
  ASSUME JoinInv, NEW answers, Discard(answers)
  PROVE  JoinInv'
<1> DEFINE Z == [z EXCEPT !.app = FALSE, !.pending = @ \/ answers]
           c == [Bundle EXCEPT !.z = Z]
<1>1. /\ b.phase = "READY"
      /\ b' = b /\ z' = Z /\ t' = t /\ k' = k /\ due' = due /\ h' = h /\ radio' = radio
  BY DEF Discard
<1>2. /\ Held(Bundle, h, radio) /\ Bundle.b = b /\ Bundle.t = t /\ Bundle.k = k /\ IsZdo(z) /\ radio.asked = 0
      /\ Typed(Bundle) /\ Queries(b, z) /\ Heard(b, z, t, h)
  BY <1>1, BundleIs DEF JoinInv, Held, Good, Typed, Requested
<1>3. /\ Z = [x \in ZdoFields |-> Z[x]] /\ Alike(Z, z, ZdoFields, {"app", "pending"}) /\ Z.app = FALSE
  BY <1>2 DEF IsZdo, Alike, ZdoFields
<1> HIDE DEF Z
<1>4. IsZdo(Z) /\ Z.query = z.query
  BY <1>2, <1>3 DEF IsZdo, Alike, ZdoFields
<1>5. /\ c = [x \in Parts |-> c[x]] /\ c.b = b /\ c.t = t /\ c.k = k /\ c.z = Z /\ c.due = due
  BY BundleIs DEF Parts
<1> HIDE DEF c
<1>6. Typed(c)
  BY <1>2, <1>4, <1>5 DEF Typed
<1>7. Queries(b, Z) /\ Heard(b, Z, t, h)
  BY <1>2, <1>3, <1>4 DEF Queries, Heard
<1>8. Held(c, h, radio)
  BY <1>1, <1>2, <1>5, <1>6, <1>7 DEF Held, Good, Quiet
<1>9. Unbundle(c)
  BY <1>1, <1>5 DEF Unbundle
<1>10. Held(Bundle, h, radio)'
  BY <1>1, <1>8, <1>9, Bundled
<1> QED
  BY <1>1, <1>2, <1>10 DEF JoinInv, Requested

\* Time passes, or nothing happens.
LEMMA TimeHolds ==
  ASSUME JoinInv, b' = b, z' = z, t' = t, k' = k, h' = h, radio' = radio
  PROVE  JoinInv'
<1> DEFINE c == [Bundle EXCEPT !.due = due']
<1>1. /\ c = [x \in Parts |-> c[x]] /\ c.b = b /\ c.t = t /\ c.k = k /\ c.z = z /\ c.due = due'
  BY BundleIs DEF Parts
<1>2. Held(Bundle, h, radio) /\ Typed(Bundle)
  BY DEF JoinInv, Held, Good
<1> HIDE DEF c
<1>3. Typed(c)
  BY <1>1, <1>2, BundleIs DEF Typed
<1>4. Held(c, h, radio)
  BY <1>1, <1>2, <1>3, BundleIs DEF Held, Good, Quiet
<1>5. Unbundle(c)
  BY <1>1 DEF Unbundle
<1>6. Held(Bundle, h, radio)'
  BY <1>4, <1>5, Bundled
<1> QED
  BY <1>6 DEF JoinInv

LEMMA InitHolds == Init => JoinInv
<1> SUFFICES ASSUME Init PROVE JoinInv
  OBVIOUS
<1>1. PICK s \in Scenarios, router \in BOOLEAN :
        /\ k = [phase |-> IF s.start = "FRESH" THEN "PROVISIONED" ELSE "VERIFIED",
                id |-> IF s.start = "FRESH" THEN 0 ELSE 1, router |-> router]
        /\ h = [frames |-> s.frames, sleepy |-> s.sleepy,
                was |-> FALSE, key |-> FALSE, tc |-> FALSE, confirm |-> FALSE]
  BY DEF Init
<1>2. b = IdleBdb /\ z = IdleZdo /\ t = IdleTransport
      /\ radio = [id |-> 0, asked |-> 0, token |-> 2, report |-> 2]
  BY DEF Init
<1>3. IsBdb(b) /\ b.phase = "IDLE" /\ b.recovery = 0 /\ b.token = 0 /\ ~b.member /\ ~b.tc /\ ~b.confirm /\ ~b.timely
  BY <1>2 DEF IdleBdb, IsBdb, BdbFields
<1>4. IsZdo(z) /\ z.query = "NO" /\ ~z.app
  BY <1>2 DEF IdleZdo, IsZdo, ZdoFields
<1>5. IsTransport(t) /\ t.txn = "NO" /\ t.done = "NO" /\ ~t.ready /\ t.rx.kind = "NONE"
  BY <1>2 DEF IdleTransport, IsTransport, TransportFields, NoFrame
<1>6. IsOwner(k) /\ k.phase \in {"PROVISIONED", "VERIFIED"}
  BY <1>1 DEF IsOwner
<1>7. IsHistory(h) /\ h.frames = s.frames /\ ~h.was
  BY <1>1 DEF IsHistory, HistoryFields
<1>8. Typed(Bundle)
  BY <1>3, <1>4, <1>5, <1>6, BundleIs DEF Typed
<1>9. Stages(b) /\ Queries(b, z) /\ Slot(b, t)
  BY <1>3, <1>4, <1>5 DEF Stages, Queries, Slot, Bound, Live, Joining, BeforeReady
<1>10. Placed(b, t, k, radio, "NONE") /\ Timed(b, t, h, "NONE")
  BY <1>3, <1>5, <1>6 DEF Placed, Timed, Waits, Joining, BeforeReady
<1>11. Stays(b, h) /\ Heard(b, z, t, h)
  BY <1>3, <1>4, <1>5, <1>7 DEF Stays, Heard
<1>12. Held(Bundle, h, radio)
  BY <1>3, <1>8, <1>9, <1>10, <1>11, BundleIs DEF Held, Good, Quiet
<1>13. Requested(b, radio)
  BY <1>2 DEF Requested, RadioFields
<1> QED
  BY <1>7, <1>12, <1>13 DEF JoinInv

LEMMA NextHolds == JoinInv /\ [Next]_vars => JoinInv'
<1> SUFFICES ASSUME JoinInv, [Next]_vars PROVE JoinInv'
  OBVIOUS
<1>1. CASE Start
  BY <1>1, StartHolds
<1>2. CASE Resume
  BY <1>2, ResumeHolds
<1>3. CASE ScanAny
  BY <1>3, ScanHolds DEF ScanAny
<1>4. CASE AssociationAny
  BY <1>4, AssociationHolds DEF AssociationAny
<1>5. CASE InstallAny
  BY <1>5, InstallHolds DEF InstallAny
<1>6. CASE RadioInstalls
  BY <1>6, RadioHolds
<1>7. CASE StepAny
  BY <1>7, StepHolds DEF StepAny
<1>8. CASE ReceiveAny
  BY <1>8, ReceiveHolds DEF ReceiveAny
<1>9. CASE ReceiveFails
  BY <1>9, ReceiveFailsHolds
<1>10. CASE Send
  BY <1>10, SendHolds
<1>11. CASE Confirm
  BY <1>11, ConfirmHolds
<1>12. CASE DiscardAny
  BY <1>12, DiscardHolds DEF DiscardAny
<1>13. CASE ExpireAny
  BY <1>13, TimeHolds DEF ExpireAny, Expire
<1>14. CASE ClockStops
  BY <1>14, TimeHolds DEF ClockStops
<1>15. CASE UNCHANGED vars
  BY <1>15, TimeHolds DEF vars
<1> QED
  BY <1>1, <1>2, <1>3, <1>4, <1>5, <1>6, <1>7, <1>8, <1>9, <1>10, <1>11, <1>12, <1>13, <1>14, <1>15
     DEF Next

(*** The theorems.                                                             ***)

\* Whatever frames, installations and deadlines come in which order, the parts
\* of the join agree: its phase with the open query, the transaction and the
\* event that waits, and the identity with what the radio filters for.
THEOREM JoinInductive == Spec => []JoinInv
<1> QED
  BY InitHolds, NextHolds, PTL DEF Spec

\* Membership rests on keys that arrived before their deadlines, however late
\* runtime() comes to look at them (timely in bdb_join_receive).
THEOREM KeysArriveInTime == Spec => []KeysInTime
<1>1. JoinInv => KeysInTime
  BY BundleIs DEF JoinInv, Held, Good, Timed, KeysInTime
<1> QED
  BY <1>1, JoinInductive, PTL

\* A device that has been a member, or was resumed as one, leaves the network
\* only over an address conflict or when it is asked to (fail()).
THEOREM MembersStay == Spec => []MemberStays
<1>1. JoinInv => MemberStays
  BY BundleIs DEF JoinInv, Held, Good, Stays, Own, MemberStays
<1> QED
  BY <1>1, JoinInductive, PTL

\* Where binding requests do not come together with an update or a leave, a
\* device that may send application data is a verified member under the address
\* its radio filters for, has announced itself, and opened the network or
\* rejoined; and it stays a member.
THEOREM MembershipHolds == BindingsAlone /\ Spec => []MembershipIsTrue
<1> SUFFICES ASSUME BindingsAlone PROVE Spec => []MembershipIsTrue
  OBVIOUS
<1>1. JoinInv => MembershipIsTrue
  BY BundleIs DEF JoinInv, Held, Good, Stays, Own, MemberStays, Slot, Placed, ReadyIsMember, MembershipIsTrue
<1> QED
  BY <1>1, JoinInductive, PTL

================================================================================
