---------------------------- MODULE SecurityKeys ----------------------------
(***************************************************************************)
(* The key and replay owner of the end device, src/src/security_keys.c, in *)
(* the known-router profile (CC2530_PARENT_RECOVERY, CC2530_DEFAULT_TC_KEY)*)
(* with and without router joining and replay policy C.                    *)
(*                                                                         *)
(* One record (keys, floors, phase, parent) lives in the counter owner's   *)
(* payload, staged in RAM until the first save and durable afterwards.     *)
(* Every call loads it, overlays the volatile floors and keepalive bits,   *)
(* works on the copy and either saves the whole record or keeps only the   *)
(* volatile part.  A save may fail, leaving the old or the new record, and *)
(* latches FAILED; a reset may come between any two calls.                 *)
(*                                                                         *)
(* Key material, addresses and counters are members of small sets; MICs    *)
(* are right or the frame is one that changes nothing; PAN and update ids, *)
(* channel and extended PAN id are left out.                               *)
(***************************************************************************)
EXTENDS Integers, FiniteSets

CONSTANTS Keys,            \* key material the trust centre may hand out
          DefaultKey,      \* "ZigBeeAlliance09"
          NoKey,           \* all zero
          Addresses,       \* short addresses a device or router may have
          SEQ_MOD,         \* key sequence numbers are bytes: 256
          FirstSequences,  \* the network's key sequence when it is joined
          COUNTER_END,     \* 0xffffffff
          Builds,          \* the profiles that are built
          Nothing

\* [join, policyC]: CC2530_ROUTER_JOIN and CC2530_REPLAY_POLICY_C.
Profiles == [join : BOOLEAN, policyC : BOOLEAN]

ASSUME KeysConstants ==
  /\ IsFiniteSet(Keys) /\ Cardinality(Keys) > 4
  /\ DefaultKey \notin Keys /\ NoKey \notin Keys /\ DefaultKey # NoKey
  /\ Addresses \subseteq Nat \ {0} /\ Addresses # {}
  /\ SEQ_MOD \in Nat /\ SEQ_MOD > 2 /\ FirstSequences \subseteq 0..SEQ_MOD - 1
  /\ COUNTER_END \in Nat \ {0}
  /\ Builds \subseteq Profiles

Slots     == 0..1
Sequences == 0..SEQ_MOD - 1
Floor     == 0..COUNTER_END
Counter   == 0..COUNTER_END - 1          \* 0xffffffff is never admitted

\* security_keys_phase_t; the record holds those from PROVISIONED on.
Phases == {"PROVISIONED", "ASSOCIATED", "RECEIVED", "REQUESTED", "PROVISIONAL",
           "WAIT_CONFIRM", "VERIFIED", "LEFT", "REJOINING"}

\* The serialized record.  addr 0 stands for 0xffff; tc is the trust centre's
\* identity or, before it is known, the router's that stands in for it.
Record ==
  [phase : Phases, timeout : BOOLEAN, parent : BOOLEAN,
   valid : SUBSET Slots, active : Slots, newer : BOOLEAN, retired : BOOLEAN,
   verified : BOOLEAN, rejoin : BOOLEAN,
   nk : [Slots -> Keys \cup {NoKey}], seq : [Slots -> Sequences],
   nf : [Slots -> Floor],
   lk : Keys \cup {DefaultKey}, pk : Keys \cup {DefaultKey, NoKey}, af : Floor,
   addr : Addresses \cup {0}, tc : {"tc", "router"},
   v3 : BOOLEAN, router : {"none", "tc", "router"}, raddr : Addresses \cup {0},
   rnf : [Slots -> Floor],
   known : BOOLEAN, ractive : BOOLEAN, attempt : BOOLEAN, unbound : BOOLEAN]

\* The volatile phase byte: the phase and the two keepalive bits.
PhaseByte == [phase : Phases, timeout : BOOLEAN, parent : BOOLEAN]

ASSUME NothingIsNoValue == Nothing \notin Record /\ Nothing \notin PhaseByte

VARIABLES build,                 \* the profile this firmware was built with
          journal,               \* the durable payload, or Nothing
          staged,                \* the payload created but never committed
          security_keys_phase,
          security_keys_result,  \* the fault that is latched, or "OK"
          floor_cache, router_floor_cache, phase_cache,
          retained,
          heard,                 \* history: what has been admitted
          kept                   \* history: the floors among it at the last save

store == <<journal, staged>>
cache == <<floor_cache, router_floor_cache, phase_cache>>
vars  == <<build, store, security_keys_phase, security_keys_result, cache,
           retained, heard, kept>>

Zero == [s \in Slots |-> 0]

-----------------------------------------------------------------------------
(* The record                                                              *)

Network(r)      == r.valid # {}
ParentRouter(r) == r.v3 /\ IF r.phase = "REJOINING" THEN r.attempt ELSE r.ractive
Unbound(r)      == r.v3 /\ r.unbound

\* set_phase(): a new association forgets the keepalive bits, a rejoin or a
\* leave some of them.
SetPhase(r, p) ==
  [r EXCEPT !.phase   = p,
            !.timeout = @ /\ p \notin {"PROVISIONED", "ASSOCIATED", "LEFT", "REJOINING"},
            !.parent  = @ /\ p \notin {"PROVISIONED", "ASSOCIATED", "REJOINING"}]

ValidRouter(r) ==
  IF ~r.known
  THEN /\ ~r.ractive /\ ~r.attempt /\ ~r.unbound
       /\ r.router = "none" /\ r.raddr = 0 /\ r.rnf = Zero
  ELSE /\ IF ~build.join THEN r.verified /\ ~r.unbound
          ELSE IF r.unbound
          THEN /\ ~r.verified /\ r.ractive /\ ~r.attempt
               /\ r.phase = "ASSOCIATED" /\ r.router = r.tc
          ELSE ~r.verified =>
                 /\ r.ractive /\ ~r.attempt
                 /\ r.phase \in {"RECEIVED", "REQUESTED", "PROVISIONAL",
                                 "WAIT_CONFIRM", "LEFT"}
       /\ r.unbound \/ r.router # r.tc
       /\ r.raddr # 0 /\ r.raddr # r.addr
       /\ \A s \in Slots \ r.valid : r.rnf[s] = 0

\* The part of valid_record() about network keys.
ValidSlots(r) ==
  /\ r.active \in r.valid
  /\ r.newer => r.valid = Slots
  /\ r.valid = Slots => r.seq[0] # r.seq[1] /\ r.nk[0] # r.nk[1]
  /\ \A s \in Slots :
       IF s \in r.valid
       THEN r.nk[s] \notin {NoKey, r.lk, r.pk}
       ELSE r.nk[s] = NoKey /\ r.nf[s] = 0 /\ r.seq[s] = 0

\* ... and the part about the pending or retired link key.
ValidPending(r) ==
  IF \/ r.phase \in {"PROVISIONAL", "WAIT_CONFIRM"}
     \/ r.phase = "LEFT" /\ ~r.retired /\ r.pk # NoKey
  THEN ~r.retired /\ r.pk \notin {NoKey, r.lk}
  ELSE IF r.retired THEN r.verified /\ r.pk \notin {NoKey, r.lk}
  ELSE r.pk = NoKey

ValidRecord(r) ==
  LET bare == r.phase = "LEFT" /\ ~Network(r) IN
  /\ r.v3 => ValidRouter(r)
  /\ IF r.phase \in {"PROVISIONED", "ASSOCIATED"} \/ bare
     THEN /\ r.valid = {} /\ r.active = 0 /\ ~r.newer /\ ~r.retired
          /\ ~r.verified /\ ~r.rejoin /\ ~r.timeout /\ ~r.parent
          /\ r.nk = [s \in Slots |-> NoKey] /\ r.seq = Zero /\ r.nf = Zero
          /\ r.pk = NoKey
     ELSE ValidSlots(r)
  /\ r.phase = "PROVISIONED" \/ bare \/ r.addr # 0
  /\ ValidPending(r)
  /\ r.phase \in {"VERIFIED", "REJOINING"} => r.verified
  /\ r.verified => r.phase \notin {"PROVISIONED", "ASSOCIATED", "RECEIVED"}
  /\ r.rejoin => r.phase \in {"LEFT", "REJOINING"}
  /\ r.timeout => r.phase \notin {"LEFT", "REJOINING"}

-----------------------------------------------------------------------------
(* Loading and saving                                                      *)

\* security_counter_read(): the staged payload until one is committed.
Stored == IF staged # Nothing THEN staged ELSE journal

Operating == security_keys_phase \in Phases
LoadFails == ~ValidRecord(Stored) \/ Stored.phase # security_keys_phase
Loaded    == Operating /\ ~LoadFails

\* load(): the stored record under the volatile floors and phase byte.
Live ==
  LET r == [Stored EXCEPT !.nf  = floor_cache,
                          !.rnf = IF build.policyC /\ Stored.v3
                                  THEN router_floor_cache ELSE @]
  IN IF phase_cache = Nothing THEN r
     ELSE [r EXCEPT !.phase   = phase_cache.phase,
                    !.timeout = phase_cache.timeout,
                    !.parent  = phase_cache.parent]

Forget ==
  /\ floor_cache' = Zero /\ router_floor_cache' = Zero
  /\ phase_cache' = Nothing

\* keep_volatile()
KeepVolatile(r) ==
  /\ floor_cache' = r.nf
  /\ router_floor_cache' = IF build.policyC /\ r.v3 THEN r.rnf ELSE router_floor_cache
  /\ phase_cache' = [phase |-> r.phase, timeout |-> r.timeout, parent |-> r.parent]

\* fault(); no call reads the RAM copies again, so they are forgotten here.
KeysFault(result) ==
  /\ security_keys_phase' = "FAILED" /\ security_keys_result' = result
  /\ staged' = Nothing /\ retained' = FALSE
  /\ Forget

\* The history h becomes what a reset cannot undo.
Recorded(h) == heard' = h /\ kept' = [tc |-> h.tc, router |-> h.router]

\* save(): h is what the history becomes when the record is the durable one.
\* A recommissioning ends with its first save (provision clears retained).
Save(r, h) ==
  \/ /\ journal' = r /\ staged' = Nothing
     /\ security_keys_phase' = r.phase /\ retained' = FALSE
     /\ KeepVolatile(r)
     /\ Recorded(h)
     /\ UNCHANGED security_keys_result
  \/ /\ \/ UNCHANGED <<journal, heard, kept>>
        \/ journal' = r /\ Recorded(h)
     /\ KeysFault("STORAGE")

\* The lazy alternative: the record in storage stays as it is.
KeepOnly(r, h) ==
  /\ KeepVolatile(r)
  /\ heard' = h
  /\ UNCHANGED <<store, security_keys_phase, security_keys_result, retained, kept>>

-----------------------------------------------------------------------------
(* The history: the least counter of each sender and key slot, and of the  *)
(* link key, above all those admitted; slots whose key was switched away   *)
(* from; whether leaving was announced or obeyed; and whether anything was *)
(* ever admitted a second time.                                            *)

NoHistory == [tc |-> Zero, router |-> Zero, aps |-> 0, superseded |-> {},
              left |-> FALSE, replayed |-> FALSE]

Hop(r) == IF ParentRouter(r) THEN "router" ELSE "tc"

\* The history after frame e is admitted under record r.
Hear(h, r, e) ==
  LET nwk == IF ~e.secured THEN h
             ELSE [h EXCEPT ![Hop(r)][e.slot] = e.counter + 1,
                            !.replayed = @ \/ e.counter < h[Hop(r)][e.slot],
                            !.superseded = IF r.newer /\ e.slot # r.active
                                           THEN {r.active} ELSE @]
  IN IF e.aps # "current" THEN nwk
     ELSE [nwk EXCEPT !.aps = e.apsCounter + 1,
                      !.replayed = @ \/ e.apsCounter < h.aps]

-----------------------------------------------------------------------------
(* Receiving                                                               *)

\* What the two security layers of a frame are: NWK protection with the key
\* of a slot and a counter; APS protection with the current or pending key.
Envelope == [secured : BOOLEAN, slot : Slots, counter : Counter,
             aps : {"none", "current", "pending"}, apsCounter : Counter]

NwkFloor(r) == IF ParentRouter(r) THEN r.rnf ELSE r.nf

\* The frames security_keys_receive() and open_aps() authenticate: from the
\* parent, at or above the floors; without NWK protection only before there
\* is a network key; under the pending key only while its Confirm is awaited.
Admits(r, e) ==
  /\ r.phase \notin {"PROVISIONED", "LEFT"}
  /\ IF e.secured THEN e.slot \in r.valid /\ e.counter >= NwkFloor(r)[e.slot]
     ELSE ~Network(r) /\ e.slot = 0 /\ e.counter = 0
  /\ CASE e.aps = "none"    -> e.apsCounter = 0
       [] e.aps = "current" -> e.apsCounter >= r.af /\ (Unbound(r) \/ r.tc = "tc")
       [] e.aps = "pending" -> r.phase = "WAIT_CONFIRM"

\* Fault: the floor is the counter that was seen, not the one after it.
Past_Same(counter) == counter

\* The exclusive floor that a counter leaves behind.
Past(counter) == counter + 1

\* The floors move past the counters; a frame under the newer key switches.
Opened(r, e) ==
  LET adopts == r.newer /\ e.slot # r.active
      nwk    == IF ~e.secured THEN r
                ELSE [r EXCEPT
                  !.rnf[e.slot] = IF ParentRouter(r) THEN Past(e.counter) ELSE @,
                  !.nf[e.slot]  = IF ParentRouter(r) THEN @ ELSE Past(e.counter),
                  !.active = IF adopts THEN e.slot ELSE @,
                  !.newer  = @ /\ ~adopts]
  IN [nwk EXCEPT !.af = IF e.aps = "current" THEN Past(e.apsCounter) ELSE @]

\* Fault: a switch by use of the newer key is kept in RAM only.
MustSave_Lazy(r, e) == e.secured /\ ParentRouter(r) /\ ~build.policyC

\* The conditions under which completing or rejecting a frame saves.
MustSave(r, e) == \/ e.secured /\ r.newer /\ e.slot # r.active
                  \/ e.secured /\ ParentRouter(r) /\ ~build.policyC

\* rejected: the authenticated floors and a switch of keys survive.
Reject(r, e, s, h) ==
  IF e.aps = "current" \/ MustSave(r, e) THEN Save(s, h) ELSE KeepOnly(s, h)

\* The handler of an accepted frame made the record t; some always save it.
Accept(r, e, t, durable, h) ==
  IF durable \/ e.aps # "none" \/ MustSave(r, e) THEN Save(t, h) ELSE KeepOnly(t, h)

\* The handlers: frame e was authenticated under record r, opening it made
\* the record s and the history h.

\* Any frame that is then refused for its form, address, selector or context.
ReceiveRefused(r, e, s, h) == Reject(r, e, s, h)

\* reused()
Reused(r, k) == \/ k \in {NoKey, r.lk} \/ (r.pk # NoKey /\ k = r.pk)
                \/ \E i \in r.valid : k = r.nk[i]

\* The keys a transport may carry: those of the record and a new one.  All
\* keys the record does not hold look the same to it.
Offered(r) ==
  LET held == {r.lk, r.pk, r.nk[0], r.nk[1]} \cap Keys
  IN held \cup {CHOOSE k \in Keys : k \notin held}

\* transport(), a network key the device has already: no floor is reset.
ReceiveKnownNetworkKey(r, e, s, h) ==
  /\ e.secured /\ e.aps = "current" /\ s.phase # "REJOINING"
  /\ Accept(r, e, s, TRUE, h)

\* A history in which slot i has a key that was never used.
NewSlot(h, i) == [h EXCEPT !.tc[i] = 0, !.router[i] = 0, !.superseded = @ \ {i}]

\* The first network key k, with sequence q; an unknown trust centre is named.
FirstKey(r, k, q) ==
  [SetPhase(r, "RECEIVED") EXCEPT
     !.valid = {0}, !.nk[0] = k, !.nf[0] = 0, !.seq[0] = q, !.rnf[0] = 0,
     !.tc = IF Unbound(r) THEN "tc" ELSE @, !.unbound = FALSE]

\* transport(), type 1, relayed by the parent without NWK protection.
ReceiveFirstNetworkKey(r, e, s, h) ==
  /\ ~e.secured /\ e.aps = "current" /\ s.phase = "ASSOCIATED"
  /\ \E k \in Offered(s), q \in FirstSequences :
       /\ ~Reused(s, k)
       /\ Accept(r, e, FirstKey(s, k, q), TRUE, NewSlot(h, 0))

NewestKey(r) == IF r.newer THEN 1 - r.active ELSE r.active

NextSequence(r) == (r.seq[NewestKey(r)] + 1) % SEQ_MOD

\* The next network key takes the slot that is not active.
NextKey(r, k, q) ==
  LET i == 1 - r.active
  IN [r EXCEPT !.valid = Slots, !.newer = TRUE,
               !.nk[i] = k, !.nf[i] = 0, !.seq[i] = q, !.rnf[i] = 0]

\* transport(), type 1: the key that follows the newest one.
ReceiveNextNetworkKey(r, e, s, h) ==
  LET q == NextSequence(s)
  IN /\ e.secured /\ e.aps = "current" /\ s.verified /\ s.phase # "REJOINING"
     /\ \A i \in s.valid : q # s.seq[i]
     /\ \E k \in Offered(s) :
          /\ ~Reused(s, k)
          /\ Accept(r, e, NextKey(s, k, q), TRUE, NewSlot(h, 1 - s.active))

\* transport(), type 4: the link key that was asked for.
ReceiveLinkKey(r, e, s, h) ==
  /\ e.secured /\ e.aps = "current" /\ s.phase = "REQUESTED"
  /\ \E k \in Offered(s) :
       /\ ~Reused(s, k)
       /\ Accept(r, e, [SetPhase(s, "PROVISIONAL") EXCEPT !.pk = k, !.retired = FALSE],
                 TRUE, h)

\* Confirm Key under the pending key: it becomes the link key, the old one
\* stays behind as a tombstone.
Confirmed(r, e) ==
  [SetPhase(r, "VERIFIED") EXCEPT !.lk = r.pk, !.pk = r.lk, !.af = Past(e.apsCounter),
                                  !.verified = TRUE, !.retired = TRUE]

ReceiveConfirm(r, e, s, h) ==
  /\ e.secured /\ e.aps = "pending"
  /\ Accept(r, e, Confirmed(s, e), TRUE, [h EXCEPT !.aps = e.apsCounter + 1])

\* Switch Key: to the active key (nothing to do) or to the newer one.
ReceiveSwitch(r, e, s, h) ==
  /\ e.secured /\ e.aps # "pending" /\ s.phase # "REJOINING"
  /\ \/ Accept(r, e, s, TRUE, h)
     \/ /\ s.newer
        /\ Accept(r, e, [s EXCEPT !.active = 1 - @, !.newer = FALSE], TRUE,
                  [h EXCEPT !.superseded = {s.active}])

\* nwk_command(): NWK protection and no APS layer.
Command(e) == e.secured /\ e.aps = "none"

\* Fault: leaving is as lazy as ordinary traffic.
ReceiveLeave_Lazy(r, e, s, h) ==
  /\ Command(e)
  /\ Accept(r, e, SetPhase(s, "LEFT"), FALSE, [h EXCEPT !.left = TRUE])

\* Network Leave, with or without permission to come back.
ReceiveLeave(r, e, s, h) ==
  /\ Command(e)
  /\ \E rejoin \in BOOLEAN :
       Accept(r, e, [SetPhase(s, "LEFT") EXCEPT !.rejoin = rejoin], TRUE,
              [h EXCEPT !.left = TRUE])

\* Network Update: its identifiers are left out, the floor is saved.
ReceiveUpdate(r, e, s, h) ==
  Command(e) /\ s.phase # "REJOINING" /\ Accept(r, e, s, TRUE, h)

\* Fault: the new address is not compared with the router's.
RejoinAddress_Any(r, a) == TRUE

RejoinAddress(r, a) == r.known => a # r.raddr

\* Rejoin Response with an address: the selected parent becomes the parent.
Rejoined(r, a) ==
  [SetPhase(r, "VERIFIED") EXCEPT !.addr = a, !.rejoin = FALSE,
                                  !.ractive = IF r.v3 THEN r.attempt ELSE @]

ReceiveRejoined(r, e, s, h) ==
  /\ Command(e) /\ s.phase = "REJOINING"
  /\ \E a \in Addresses :
       RejoinAddress(s, a) /\ Accept(r, e, Rejoined(s, a), TRUE, h)

\* Rejoin Response that refuses: reported, and its floor saved.
ReceiveRejoinRefused(r, e, s, h) ==
  Command(e) /\ s.phase = "REJOINING" /\ Accept(r, e, s, TRUE, h)

\* End Device Timeout Response, awaited: success brings parent information, a
\* failure leaves what there was.
ReceiveTimeout(r, e, s, h) ==
  /\ Command(e) /\ s.phase # "REJOINING" /\ s.timeout
  /\ \E information \in BOOLEAN :
       Accept(r, e, [s EXCEPT !.timeout = FALSE, !.parent = information], FALSE, h)

\* Network Status, device management and, once verified, application data.
ReceiveData(r, e, s, h) ==
  /\ e.secured /\ e.aps # "pending" /\ s.phase # "REJOINING"
  /\ Accept(r, e, s, FALSE, h)

\* security_keys_receive()
Receive(r) ==
  \E e \in {x \in Envelope : Admits(r, x)} :
  \E s \in {Opened(r, e)}, h \in {Hear(heard, r, e)} :
    \/ ReceiveRefused(r, e, s, h)
    \/ ReceiveKnownNetworkKey(r, e, s, h)
    \/ ReceiveFirstNetworkKey(r, e, s, h)
    \/ ReceiveNextNetworkKey(r, e, s, h)
    \/ ReceiveLinkKey(r, e, s, h)
    \/ ReceiveConfirm(r, e, s, h)
    \/ ReceiveSwitch(r, e, s, h)
    \/ ReceiveLeave(r, e, s, h)
    \/ ReceiveUpdate(r, e, s, h)
    \/ ReceiveRejoined(r, e, s, h)
    \/ ReceiveRejoinRefused(r, e, s, h)
    \/ ReceiveTimeout(r, e, s, h)
    \/ ReceiveData(r, e, s, h)

-----------------------------------------------------------------------------
(* Sending                                                                 *)

\* seal(): a failed counter reservation; the payload it rewrites is the
\* stored one.
TakeFails(r) ==
  Network(r) /\ KeysFault("STORAGE") /\ UNCHANGED <<journal, heard, kept>>

Request(r) ==
  /\ r.phase \in {"RECEIVED", "REQUESTED", "VERIFIED"}
  /\ Save(SetPhase(r, "REQUESTED"), heard)

Verify(r) ==
  /\ r.phase \in {"PROVISIONAL", "WAIT_CONFIRM"}
  /\ Save(SetPhase(r, "WAIT_CONFIRM"), heard)

\* security_keys_leave(): with a network key a protected Leave is published
\* after the save, without one the join is abandoned quietly.
Leave(r) ==
  Save([SetPhase(r, "LEFT") EXCEPT !.rejoin = FALSE], [heard EXCEPT !.left = TRUE])

\* security_keys_send(), Leave with or without rejoin.
SendLeave(r) ==
  /\ Network(r)
  /\ \E rejoin \in BOOLEAN :
       Save([SetPhase(r, "LEFT") EXCEPT !.rejoin = rejoin], [heard EXCEPT !.left = TRUE])

\* security_keys_send(), Rejoin Request; an abandoned key exchange bars it.
SendRejoin(r) ==
  /\ Network(r) /\ r.verified /\ (r.retired \/ r.pk = NoKey)
  /\ r.phase \in {"VERIFIED", "REJOINING"} \/ (r.phase = "LEFT" /\ r.rejoin)
  /\ Save(SetPhase(r, "REJOINING"), [heard EXCEPT !.left = FALSE])

\* security_keys_send(), End Device Timeout Request: awaited in RAM only.
SendTimeout(r) ==
  /\ Network(r) /\ r.phase \notin {"LEFT", "REJOINING"}
  /\ KeepOnly([r EXCEPT !.timeout = TRUE], heard)

-----------------------------------------------------------------------------
(* Commissioning                                                           *)

\* security_keys_open()
Open ==
  /\ security_keys_phase = "COLD"
  /\ \/ /\ journal = Nothing
        /\ security_keys_phase' = "UNPROVISIONED"
        /\ UNCHANGED <<staged, security_keys_result, cache, retained>>
     \/ /\ journal # Nothing /\ ValidRecord(journal)
        /\ security_keys_phase' = journal.phase
        /\ KeepVolatile(journal)
        /\ UNCHANGED <<staged, security_keys_result, retained>>
     \/ journal # Nothing /\ ~ValidRecord(journal) /\ KeysFault("FORMAT")
     \/ KeysFault("STORAGE")
  /\ UNCHANGED <<build, journal, heard, kept>>

\* A record as provisioned: the default link key and nothing admitted.
Provisioned(tc) ==
  [phase |-> "PROVISIONED", timeout |-> FALSE, parent |-> FALSE,
   valid |-> {}, active |-> 0, newer |-> FALSE, retired |-> FALSE,
   verified |-> FALSE, rejoin |-> FALSE,
   nk |-> [s \in Slots |-> NoKey], seq |-> Zero, nf |-> Zero,
   lk |-> DefaultKey, pk |-> NoKey, af |-> 0, addr |-> 0, tc |-> tc,
   v3 |-> FALSE, router |-> "none", raddr |-> 0, rnf |-> Zero,
   known |-> FALSE, ractive |-> FALSE, attempt |-> FALSE, unbound |-> FALSE]

\* security_keys_provision_default(): the association's source stands for
\* the trust centre; in a router-joining build it may be a router.  After a
\* recommissioning the record is saved over the old one, else only staged.
Provision ==
  /\ security_keys_phase = "UNPROVISIONED"
  /\ \E tc \in (IF build.join THEN {"tc", "router"} ELSE {"tc"}) :
       IF retained
       THEN Save(Provisioned(tc), [NoHistory EXCEPT !.replayed = heard.replayed])
       ELSE /\ \/ /\ staged' = Provisioned(tc)
                  /\ security_keys_phase' = "PROVISIONED"
                  /\ UNCHANGED <<security_keys_result, cache, retained>>
               \/ KeysFault("STORAGE")
            /\ UNCHANGED <<journal, heard, kept>>
  /\ UNCHANGED build

\* security_keys_recommission(): in RAM only, the stored record stays.
Recommission ==
  /\ Operating
  /\ security_keys_phase \notin {"VERIFIED", "REJOINING"}
  /\ Forget
  /\ retained' = TRUE
  /\ security_keys_phase' = "UNPROVISIONED"
  /\ UNCHANGED <<build, store, security_keys_result, heard, kept>>

\* security_counter_restage() while nothing was committed, else save().
KeysRestage(r) ==
  IF staged # Nothing
  THEN /\ staged' = r /\ security_keys_phase' = r.phase
       /\ UNCHANGED <<journal, security_keys_result, cache, retained, heard, kept>>
  ELSE Save(r, heard)

Associate(r) ==
  /\ r.phase = "PROVISIONED"
  /\ \E a \in Addresses :
       /\ r.addr \in {0, a}
       /\ KeysRestage([SetPhase(r, "ASSOCIATED") EXCEPT !.addr = a])

\* security_keys_router_parent(), called when the source was a router.
RouterParent(r) ==
  /\ build.join
  /\ r.phase = "ASSOCIATED" /\ ~r.v3 /\ r.tc = "router"
  /\ \E a \in Addresses :
       /\ a # r.addr
       /\ KeysRestage([r EXCEPT !.v3 = TRUE, !.router = r.tc, !.raddr = a,
                               !.rnf = Zero, !.known = TRUE, !.ractive = TRUE,
                               !.unbound = TRUE])

-----------------------------------------------------------------------------
(* The known router                                                        *)

UpgradeParent(r) ==
  /\ r.phase \in {"VERIFIED", "REJOINING"} /\ ~r.v3
  /\ Save([r EXCEPT !.v3 = TRUE], heard)

\* security_keys_remember_parent(): one identity, floors that never fall.
RememberParent(r) ==
  /\ r.phase = "VERIFIED" /\ r.v3
  /\ \E a \in Addresses, floor \in [Slots -> Floor] :
       /\ a # r.addr
       /\ r.known => a = r.raddr
       /\ \A s \in Slots : IF s \in r.valid
                           THEN floor[s] > 0 /\ floor[s] >= r.rnf[s]
                           ELSE floor[s] = 0
       /\ Save([r EXCEPT !.router = "router", !.raddr = a, !.rnf = floor,
                            !.known = TRUE], heard)

\* security_keys_select_parent(): the parent the next rejoin asks.
SelectParent(r) ==
  /\ r.v3 /\ r.phase \in {"VERIFIED", "REJOINING"}
  /\ \E router \in BOOLEAN :
       /\ router => r.known
       /\ Save([r EXCEPT !.attempt = router], heard)

-----------------------------------------------------------------------------

\* load() refuses the stored record: every call fails from then on.
LoadFault ==
  /\ Operating /\ LoadFails
  /\ KeysFault("FORMAT")
  /\ UNCHANGED <<build, journal, heard, kept>>

\* Everything in RAM is lost, the lazily kept floors with it.
KeysReset ==
  /\ security_keys_phase # "COLD"
  /\ security_keys_phase' = "COLD" /\ security_keys_result' = "OK"
  /\ staged' = Nothing /\ retained' = FALSE
  /\ Forget
  /\ heard' = [heard EXCEPT !.tc = kept.tc,
                            !.router = IF build.policyC THEN kept.router ELSE @]
  /\ UNCHANGED <<build, journal, kept>>

\* A device that joined and was verified, got a second network key and a
\* second link key and then switched; the first key's floors are used up.
Member ==
  LET k == CHOOSE f \in [1..4 -> Keys] : \A i, j \in 1..4 : f[i] = f[j] => i = j
  IN [Provisioned("tc") EXCEPT
        !.phase = "VERIFIED", !.addr = CHOOSE a \in Addresses : TRUE,
        !.verified = TRUE, !.retired = TRUE,
        !.valid = Slots, !.active = 1,
        !.nk = [s \in Slots |-> k[s + 1]], !.seq = [s \in Slots |-> s],
        !.nf = [s \in Slots |-> IF s = 0 THEN COUNTER_END ELSE 0],
        !.pk = k[3], !.lk = k[4], !.af = 1]

\* An erased device, or one that has been a member for some time.
KeysInit ==
  /\ build \in Builds
  /\ \/ journal = Nothing /\ heard = NoHistory
     \/ /\ journal = Member
        /\ heard = [NoHistory EXCEPT !.tc = journal.nf, !.aps = 1, !.superseded = {0}]
  /\ staged = Nothing
  /\ security_keys_phase = "COLD" /\ security_keys_result = "OK"
  /\ floor_cache = Zero /\ router_floor_cache = Zero /\ phase_cache = Nothing
  /\ retained = FALSE
  /\ kept = [tc |-> heard.tc, router |-> Zero]

\* Every call works on what load() gives it.
Call(r) ==
  \/ Receive(r)
  \/ TakeFails(r) \/ Request(r) \/ Verify(r) \/ Leave(r)
  \/ SendLeave(r) \/ SendRejoin(r) \/ SendTimeout(r)
  \/ Associate(r) \/ RouterParent(r)
  \/ UpgradeParent(r) \/ RememberParent(r) \/ SelectParent(r)

KeysNext ==
  \/ Loaded /\ (\E r \in {Live} : Call(r)) /\ UNCHANGED build
  \/ Open \/ Provision \/ Recommission \/ LoadFault \/ KeysReset

KeysSpec == KeysInit /\ [][KeysNext]_vars

-----------------------------------------------------------------------------
(* Properties                                                              *)

\* Every variable has its type; in particular floors, key sequences and
\* phases in the stored record stay within their fields.
KeysTypeOK ==
  /\ build \in Profiles
  /\ journal \in Record \cup {Nothing} /\ staged \in Record \cup {Nothing}
  /\ security_keys_phase \in Phases \cup {"COLD", "UNPROVISIONED", "FAILED"}
  /\ security_keys_result \in {"OK", "STORAGE", "FORMAT"}
  /\ floor_cache \in [Slots -> Floor] /\ router_floor_cache \in [Slots -> Floor]
  /\ phase_cache \in PhaseByte \cup {Nothing}
  /\ retained \in BOOLEAN

\* A join through a router that was given up before the first network key.
AbandonedRouterJoin(r) == r.phase = "LEFT" /\ r.unbound

\* Whatever sequence of calls, frames, failed saves and resets comes, every
\* record this owner stores is one that its own valid_record() accepts, so
\* open() and load() never refuse it; a router join abandoned before the
\* first key is the one exception (see NeverBricked).
StoredRecordOpens ==
  /\ \A r \in {journal, staged} \ {Nothing} : ValidRecord(r) \/ AbandonedRouterJoin(r)
  /\ security_keys_result = "FORMAT" => AbandonedRouterJoin(journal)

\* security_keys_open() and load() never fail with FORMAT on a record that
\* this owner wrote: "UNBOUND exists only while ASSOCIATED" (valid_router),
\* and recommissioning is for "LEFT or an incomplete join".
NeverBricked == security_keys_result # "FORMAT"

\* No frame is admitted twice: neither under the same network key and sender
\* in one power cycle, nor ever when its admission was made durable (APS
\* protection, and in the strict profile everything from the router), across
\* lazy floors, key rotation, parent changes, failed saves and resets.
NoReplay == ~heard.replayed

\* Once the device has switched from one network key to the next, no reset
\* and no late frame makes the old one active again (adopt, Switch Key).
SwitchIsFinal == journal # Nothing => journal.active \notin heard.superseded

\* A device that obeyed or announced a leave finds itself LEFT after any
\* reset, until it rejoins or is provisioned anew (nwk_command,
\* security_keys_leave, security_keys_send: durable before publication).
LeftStaysLeft == heard.left => journal.phase = "LEFT"

=============================================================================
