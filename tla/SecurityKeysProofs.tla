------------------------- MODULE SecurityKeysProofs -------------------------
(***************************************************************************)
(* Proofs about the key and replay owner, for any keys, addresses, profiles*)
(* and largest counter, any traffic, any failed save and any reset: what is*)
(* stored opens, nothing is admitted twice, a switch of keys is final and a*)
(* leave is remembered.                                                    *)
(*                                                                         *)
(* The records are reasoned about apart from the state: each call is shown *)
(* to write a record that valid_record() accepts (the ...Fits lemmas), and *)
(* that accounts for the history (Fits).  Saving, keeping only the         *)
(* volatile part, restaging and faults are then shown to preserve the      *)
(* inductive invariant once, for any such record.                          *)
(***************************************************************************)
EXTENDS SecurityKeys, FiniteSetTheorems, TLAPS

-----------------------------------------------------------------------------
(* Records                                                                 *)

\* The fields of a record.
Fields == {"phase", "timeout", "parent", "valid", "active", "newer", "retired",
           "verified", "rejoin", "nk", "seq", "nf", "lk", "pk", "af", "addr",
           "tc", "v3", "router", "raddr", "rnf", "known", "ractive", "attempt",
           "unbound"}

\* r is a record of type Record, said field by field.
Rec(r) ==
  /\ r = [f \in Fields |-> r[f]]
  /\ r.phase \in Phases /\ r.timeout \in BOOLEAN /\ r.parent \in BOOLEAN
  /\ r.valid \in SUBSET Slots /\ r.active \in Slots
  /\ r.newer \in BOOLEAN /\ r.retired \in BOOLEAN
  /\ r.verified \in BOOLEAN /\ r.rejoin \in BOOLEAN
  /\ r.nk \in [Slots -> Keys \cup {NoKey}] /\ r.seq \in [Slots -> Sequences]
  /\ r.nf \in [Slots -> Floor]
  /\ r.lk \in Keys \cup {DefaultKey} /\ r.pk \in Keys \cup {DefaultKey, NoKey}
  /\ r.af \in Floor /\ r.addr \in Addresses \cup {0} /\ r.tc \in {"tc", "router"}
  /\ r.v3 \in BOOLEAN /\ r.router \in {"none", "tc", "router"}
  /\ r.raddr \in Addresses \cup {0} /\ r.rnf \in [Slots -> Floor]
  /\ r.known \in BOOLEAN /\ r.ractive \in BOOLEAN /\ r.attempt \in BOOLEAN
  /\ r.unbound \in BOOLEAN

\* What valid_record() does not say of a record: one without the router part
\* has that part blank, and a router stands in for the trust centre only
\* until the first network key names it.
Sound(r) ==
  /\ ~r.v3 => /\ ~r.known /\ ~r.ractive /\ ~r.attempt /\ ~r.unbound
              /\ r.router = "none" /\ r.raddr = 0 /\ r.rnf = Zero
  /\ r.unbound => r.tc = "router"
  /\ r.valid # {} => r.tc = "tc"

\* t differs from r at most in the fields F.
Alike(t, r, F) == \A f \in Fields \ F : t[f] = r[f]

\* Rec says that r is a Record.
LEMMA RecIs == ASSUME NEW r PROVE Rec(r) <=> r \in Record
<1>1. ASSUME Rec(r) PROVE r \in Record
  BY <1>1 DEF Rec, Fields, Record
<1>2. ASSUME r \in Record PROVE Rec(r)
  BY <1>2 DEF Rec, Fields, Record
<1> QED
  BY <1>1, <1>2

\* No record is the value that stands for none.
LEMMA RecIsSomething == ASSUME NEW r, Rec(r) PROVE r # Nothing
BY RecIs, NothingIsNoValue

\* The two key slots.
LEMMA SlotsAre == Slots = {0, 1}
BY DEF Slots

\* set_phase() changes the phase and the keepalive bits.
LEMMA SetPhaseIs ==
  ASSUME NEW r, Rec(r), NEW p \in Phases
  PROVE  LET t == SetPhase(r, p)
         IN /\ Rec(t) /\ Alike(t, r, {"phase", "timeout", "parent"})
            /\ t.phase = p
            /\ t.timeout = (r.timeout
                            /\ p \notin {"PROVISIONED", "ASSOCIATED", "LEFT", "REJOINING"})
            /\ t.parent = (r.parent /\ p \notin {"PROVISIONED", "ASSOCIATED", "REJOINING"})
<1> DEFINE t == SetPhase(r, p)
<1>1. /\ t = [f \in Fields |-> t[f]] /\ Alike(t, r, {"phase", "timeout", "parent"})
      /\ t.phase = p
      /\ t.timeout = (r.timeout /\ p \notin {"PROVISIONED", "ASSOCIATED", "LEFT", "REJOINING"})
      /\ t.parent = (r.parent /\ p \notin {"PROVISIONED", "ASSOCIATED", "REJOINING"})
  BY DEF Rec, Fields, SetPhase, Alike
<1> HIDE DEF t
<1>2. t.timeout \in BOOLEAN /\ t.parent \in BOOLEAN
  BY <1>1
<1>3. Rec(t)
  BY <1>1, <1>2 DEF Rec, Alike, Fields
<1> QED
  BY <1>1, <1>3 DEF t

-----------------------------------------------------------------------------
(* The records the calls write                                             *)

\* A record that load() accepts.
Good(r) == Rec(r) /\ Sound(r) /\ ValidRecord(r)

\* Request Key: the request is in a joined or verified phase.
LEMMA RequestFits ==
  ASSUME build \in Profiles, NEW r, Good(r),
         r.phase \in {"RECEIVED", "REQUESTED", "VERIFIED"}
  PROVE  Good(SetPhase(r, "REQUESTED"))
<1> DEFINE t == SetPhase(r, "REQUESTED")
<1>1. /\ Rec(t) /\ Alike(t, r, {"phase", "timeout", "parent"})
      /\ t.phase = "REQUESTED"
  BY SetPhaseIs DEF Phases, Good
<1> HIDE DEF t
<1>2. Sound(t)
  BY <1>1 DEF Good, Sound, Alike, Fields
<1>3. ValidRecord(t)
  BY <1>1 DEF Good, ValidRecord, ValidRouter, ValidSlots, ValidPending, Network, Alike, Fields
<1> QED
  BY <1>1, <1>2, <1>3 DEF t, Good

\* Verify Key: the pending key stays pending.
LEMMA VerifyFits ==
  ASSUME build \in Profiles, NEW r, Good(r), r.phase \in {"PROVISIONAL", "WAIT_CONFIRM"}
  PROVE  Good(SetPhase(r, "WAIT_CONFIRM"))
<1> DEFINE t == SetPhase(r, "WAIT_CONFIRM")
<1>1. /\ Rec(t) /\ Alike(t, r, {"phase", "timeout", "parent"})
      /\ t.phase = "WAIT_CONFIRM"
  BY SetPhaseIs DEF Phases, Good
<1> HIDE DEF t
<1>2. Sound(t)
  BY <1>1 DEF Good, Sound, Alike, Fields
<1>3. ValidRecord(t)
  BY <1>1 DEF Good, ValidRecord, ValidRouter, ValidSlots, ValidPending, Network, Alike, Fields
<1> QED
  BY <1>1, <1>2, <1>3 DEF t, Good

\* Leaving, from any phase; a router join without a key becomes the record
\* that AbandonedRouterJoin describes.
LEMMA LeaveFits ==
  ASSUME build \in Profiles, NEW r, Good(r), NEW b \in BOOLEAN, b => Network(r)
  PROVE  LET t == [SetPhase(r, "LEFT") EXCEPT !.rejoin = b]
         IN /\ Rec(t) /\ Sound(t) /\ (ValidRecord(t) \/ AbandonedRouterJoin(t))
            /\ Alike(t, r, {"phase", "timeout", "parent", "rejoin"}) /\ t.phase = "LEFT"
<1> DEFINE u == SetPhase(r, "LEFT")
           t == [u EXCEPT !.rejoin = b]
<1>1. /\ Rec(u) /\ Alike(u, r, {"phase", "timeout", "parent"})
      /\ u.phase = "LEFT" /\ ~u.timeout
      /\ (~r.parent => ~u.parent)
  BY SetPhaseIs DEF Phases, Good
<1> HIDE DEF u
<1>2. /\ t = [f \in Fields |-> t[f]] /\ Alike(t, u, {"rejoin"}) /\ t.rejoin = b
  BY <1>1 DEF Rec, Alike, Fields
<1> HIDE DEF t
<1>3. Rec(t)
  BY <1>1, <1>2 DEF Rec, Alike, Fields
<1>4. /\ Alike(t, r, {"phase", "timeout", "parent", "rejoin"}) /\ t.phase = "LEFT"
      /\ ~t.timeout /\ (~r.parent => ~t.parent)
  BY <1>1, <1>2 DEF Alike, Fields
<1>5. Sound(t)
  BY <1>4 DEF Good, Sound, Alike, Fields
<1>6. ValidRecord(t) \/ AbandonedRouterJoin(t)
  BY <1>2, <1>4 DEF Good, ValidRecord, ValidRouter, ValidSlots, ValidPending, Network,
     AbandonedRouterJoin, Alike, Fields
<1> QED
  BY <1>3, <1>4, <1>5, <1>6 DEF t, u

\* Rejoin Request.
LEMMA RejoinFits ==
  ASSUME build \in Profiles, NEW r, Good(r), Network(r), r.verified,
         r.retired \/ r.pk = NoKey,
         r.phase \in {"VERIFIED", "REJOINING", "LEFT"}
  PROVE  Good(SetPhase(r, "REJOINING"))
<1> DEFINE t == SetPhase(r, "REJOINING")
<1>1. /\ Rec(t) /\ Alike(t, r, {"phase", "timeout", "parent"})
      /\ t.phase = "REJOINING" /\ ~t.timeout
  BY SetPhaseIs DEF Phases, Good
<1> HIDE DEF t
<1>2. Sound(t)
  BY <1>1 DEF Good, Sound, Alike, Fields
<1>3. ValidRecord(t)
  BY <1>1 DEF Good, ValidRecord, ValidRouter, ValidSlots, ValidPending, Network, Alike, Fields
<1> QED
  BY <1>1, <1>2, <1>3 DEF t, Good

\* The keepalive bits of a device with a network key that has not left.
LEMMA TimeoutFits ==
  ASSUME build \in Profiles, NEW r, Good(r), Network(r),
         r.phase \notin {"LEFT", "REJOINING"}, NEW b \in BOOLEAN, NEW c \in BOOLEAN
  PROVE  LET t == [r EXCEPT !.timeout = b, !.parent = c]
         IN Good(t) /\ Alike(t, r, {"timeout", "parent"})
<1> DEFINE t == [r EXCEPT !.timeout = b, !.parent = c]
<1>1. /\ t = [f \in Fields |-> t[f]] /\ Alike(t, r, {"timeout", "parent"})
      /\ t.timeout = b /\ t.parent = c
  BY DEF Good, Rec, Alike, Fields
<1> HIDE DEF t
<1>2. Rec(t)
  BY <1>1 DEF Good, Rec, Alike, Fields
<1>3. Sound(t)
  BY <1>1 DEF Good, Sound, Alike, Fields
<1>4. ValidRecord(t)
  BY <1>1 DEF Good, ValidRecord, ValidRouter, ValidSlots, ValidPending, Network, Alike, Fields
<1> QED
  BY <1>1, <1>2, <1>3, <1>4 DEF t, Good

\* A record as provisioned.
LEMMA ProvisionFits == ASSUME build \in Profiles, NEW tc \in {"tc", "router"}
                       PROVE  Good(Provisioned(tc)) /\ Provisioned(tc).phase = "PROVISIONED"
<1> DEFINE t == Provisioned(tc)
<1>1. /\ t = [f \in Fields |-> t[f]]
      /\ t.phase = "PROVISIONED" /\ t.timeout = FALSE /\ t.parent = FALSE /\ t.valid = {}
      /\ t.active = 0 /\ t.newer = FALSE /\ t.retired = FALSE /\ t.verified = FALSE
      /\ t.rejoin = FALSE /\ t.nk = [s \in Slots |-> NoKey] /\ t.seq = Zero /\ t.nf = Zero
      /\ t.lk = DefaultKey /\ t.pk = NoKey /\ t.af = 0 /\ t.addr = 0 /\ t.tc = tc
      /\ t.v3 = FALSE /\ t.router = "none" /\ t.raddr = 0 /\ t.rnf = Zero
      /\ t.known = FALSE /\ t.ractive = FALSE /\ t.attempt = FALSE /\ t.unbound = FALSE
  BY DEF Provisioned, Fields
<1> HIDE DEF t
<1>2. 0 \in Floor /\ 0 \in Sequences /\ 0 \in Slots
  BY KeysConstants DEF Floor, Sequences, Slots
<1>3. Zero \in [Slots -> Floor] /\ Zero \in [Slots -> Sequences]
  BY <1>2 DEF Zero
<1>4. Rec(t)
  BY <1>1, <1>2, <1>3 DEF Rec, Phases
<1>5. Sound(t) /\ ValidRecord(t)
  BY <1>1, <1>2 DEF Sound, ValidRecord, ValidPending, Network
<1> QED
  BY <1>1, <1>4, <1>5 DEF t, Good

\* The association names the device's own address.
LEMMA AssociateFits ==
  ASSUME build \in Profiles, NEW r, Good(r), r.phase = "PROVISIONED", NEW a \in Addresses
  PROVE  LET t == [SetPhase(r, "ASSOCIATED") EXCEPT !.addr = a]
         IN /\ Good(t) /\ Alike(t, r, {"phase", "timeout", "parent", "addr"})
            /\ t.phase = "ASSOCIATED"
<1> DEFINE u == SetPhase(r, "ASSOCIATED")
           t == [u EXCEPT !.addr = a]
<1>1. /\ Rec(u) /\ Alike(u, r, {"phase", "timeout", "parent"})
      /\ u.phase = "ASSOCIATED" /\ ~u.timeout /\ ~u.parent
  BY SetPhaseIs DEF Phases, Good
<1> HIDE DEF u
<1>2. /\ t = [f \in Fields |-> t[f]] /\ Alike(t, u, {"addr"}) /\ t.addr = a
  BY <1>1 DEF Rec, Alike, Fields
<1> HIDE DEF t
<1>3. Rec(t)
  BY <1>1, <1>2 DEF Rec, Alike, Fields
<1>4. /\ Alike(t, r, {"phase", "timeout", "parent", "addr"}) /\ t.phase = "ASSOCIATED"
      /\ ~t.timeout /\ ~t.parent
  BY <1>1, <1>2 DEF Alike, Fields
<1>5. Sound(t)
  BY <1>4 DEF Good, Sound, Alike, Fields
<1>6. t.addr # 0
  BY <1>2, KeysConstants
<1>7. ValidRecord(t)
  BY <1>4, <1>6 DEF Good, ValidRecord, ValidRouter, ValidSlots, ValidPending, Network,
     Alike, Fields
<1> QED
  BY <1>3, <1>4, <1>5, <1>7 DEF t, u, Good

\* The router that stands in for the trust centre is recorded as the parent.
LEMMA RouterParentFits ==
  ASSUME build \in Profiles, build.join, NEW r, Good(r), r.phase = "ASSOCIATED",
         ~r.v3, r.tc = "router", NEW a \in Addresses, a # r.addr
  PROVE  LET t == [r EXCEPT !.v3 = TRUE, !.router = r.tc, !.raddr = a, !.rnf = Zero,
                            !.known = TRUE, !.ractive = TRUE, !.unbound = TRUE]
         IN /\ Good(t)
            /\ Alike(t, r, {"v3", "router", "raddr", "known", "ractive", "unbound"})
<1> DEFINE t == [r EXCEPT !.v3 = TRUE, !.router = r.tc, !.raddr = a, !.rnf = Zero,
                          !.known = TRUE, !.ractive = TRUE, !.unbound = TRUE]
<1>1. /\ t = [f \in Fields |-> t[f]]
      /\ Alike(t, r, {"v3", "router", "raddr", "rnf", "known", "ractive", "unbound"})
      /\ t.v3 /\ t.router = r.tc /\ t.raddr = a /\ t.rnf = Zero
      /\ t.known /\ t.ractive /\ t.unbound
      /\ t.v3 \in BOOLEAN /\ t.known \in BOOLEAN /\ t.ractive \in BOOLEAN
      /\ t.unbound \in BOOLEAN
  BY DEF Good, Rec, Alike, Fields
<1> HIDE DEF t
<1>2. r.rnf = Zero
  BY DEF Good, Sound
<1>3. Rec(t)
  BY <1>1, <1>2 DEF Good, Rec, Alike, Fields
<1>4. Sound(t)
  BY <1>1 DEF Good, Sound, Alike, Fields, ValidRecord
<1>5. t.raddr # 0
  BY <1>1, KeysConstants
<1>6. ~r.attempt /\ ~r.verified
  BY DEF Good, Sound, ValidRecord
<1>7. \A s \in Slots : t.rnf[s] = 0
  BY <1>1 DEF Zero
<1>8. ValidRouter(t)
  BY <1>1, <1>5, <1>6, <1>7 DEF ValidRouter, Alike, Fields
<1>9. ValidRecord(t)
  BY <1>1, <1>8 DEF Good, ValidRecord, ValidSlots, ValidPending, Network, Alike, Fields
<1>10. Alike(t, r, {"v3", "router", "raddr", "known", "ractive", "unbound"})
  BY <1>1, <1>2 DEF Alike, Fields
<1> QED
  BY <1>3, <1>4, <1>9, <1>10 DEF t, Good

\* The record of a verified device takes the format with a known router.
LEMMA UpgradeFits ==
  ASSUME build \in Profiles, NEW r, Good(r), ~r.v3
  PROVE  LET t == [r EXCEPT !.v3 = TRUE] IN Good(t) /\ Alike(t, r, {"v3"})
<1> DEFINE t == [r EXCEPT !.v3 = TRUE]
<1>1. /\ t = [f \in Fields |-> t[f]] /\ Alike(t, r, {"v3"})
      /\ t.v3 /\ t.v3 \in BOOLEAN
  BY DEF Good, Rec, Alike, Fields
<1> HIDE DEF t
<1>2. Rec(t)
  BY <1>1 DEF Good, Rec, Alike, Fields
<1>3. Sound(t)
  BY <1>1 DEF Good, Sound, Alike, Fields
<1>4. ValidRecord(t)
  BY <1>1 DEF Good, Sound, ValidRecord, ValidRouter, ValidSlots, ValidPending, Network,
     Alike, Fields
<1> QED
  BY <1>1, <1>2, <1>3, <1>4 DEF t, Good

\* security_keys_remember_parent().
LEMMA RememberFits ==
  ASSUME build \in Profiles, NEW r, Good(r), r.phase = "VERIFIED", r.v3,
         NEW a \in Addresses, NEW floor \in [Slots -> Floor], a # r.addr,
         \A s \in Slots \ r.valid : floor[s] = 0
  PROVE  LET t == [r EXCEPT !.router = "router", !.raddr = a, !.rnf = floor, !.known = TRUE]
         IN /\ Good(t) /\ t.rnf = floor
            /\ Alike(t, r, {"router", "raddr", "rnf", "known"})
<1> DEFINE t == [r EXCEPT !.router = "router", !.raddr = a, !.rnf = floor, !.known = TRUE]
<1>1. /\ t = [f \in Fields |-> t[f]] /\ Alike(t, r, {"router", "raddr", "rnf", "known"})
      /\ t.router = "router" /\ t.raddr = a /\ t.rnf = floor
      /\ t.known /\ t.known \in BOOLEAN
  BY DEF Good, Rec, Alike, Fields
<1> HIDE DEF t
<1>2. Rec(t)
  BY <1>1 DEF Good, Rec, Alike, Fields
<1>3. Sound(t)
  BY <1>1 DEF Good, Sound, Alike, Fields
<1>4. t.raddr # 0
  BY <1>1, KeysConstants
<1>5. r.tc = "tc"
  BY DEF Good, Sound, ValidRecord, ValidSlots, Network
<1>6. ValidRecord(t)
  BY <1>1, <1>4, <1>5 DEF Good, ValidRecord, ValidRouter, ValidSlots, ValidPending, Network,
     Alike, Fields
<1> QED
  BY <1>1, <1>2, <1>3, <1>6 DEF t, Good

\* security_keys_select_parent().
LEMMA SelectFits ==
  ASSUME build \in Profiles, NEW r, Good(r), r.phase \in {"VERIFIED", "REJOINING"},
         r.v3, NEW b \in BOOLEAN, b => r.known
  PROVE  LET t == [r EXCEPT !.attempt = b] IN Good(t) /\ Alike(t, r, {"attempt"})
<1> DEFINE t == [r EXCEPT !.attempt = b]
<1>1. /\ t = [f \in Fields |-> t[f]] /\ Alike(t, r, {"attempt"}) /\ t.attempt = b
  BY DEF Good, Rec, Alike, Fields
<1> HIDE DEF t
<1>2. Rec(t)
  BY <1>1 DEF Good, Rec, Alike, Fields
<1>3. Sound(t)
  BY <1>1 DEF Good, Sound, Alike, Fields
<1>4. ValidRecord(t)
  BY <1>1 DEF Good, ValidRecord, ValidRouter, ValidSlots, ValidPending, Network,
     Alike, Fields
<1> QED
  BY <1>1, <1>2, <1>3, <1>4 DEF t, Good

-----------------------------------------------------------------------------
(* Receiving: the record that opening a frame leaves, and the handlers'    *)

\* The floor past an admitted counter is a floor.
LEMMA PastIs == ASSUME NEW c \in Counter PROVE Past(c) \in Floor /\ Past(c) = c + 1
BY KeysConstants DEF Past, Counter, Floor

\* An admitted frame's envelope has its types.
LEMMA EnvelopeIs ==
  ASSUME NEW e \in Envelope
  PROVE  /\ e.secured \in BOOLEAN /\ e.slot \in Slots /\ e.counter \in Counter
         /\ e.aps \in {"none", "current", "pending"} /\ e.apsCounter \in Counter
BY DEF Envelope

\* Opening a frame moves the floor of the sender and slot, or of the link key.
LEMMA OpenedIs ==
  ASSUME build \in Profiles, NEW r, Good(r), NEW e \in Envelope, Admits(r, e)
  PROVE  LET s == Opened(r, e)
             p == e.secured /\ ParentRouter(r)
             a == e.secured /\ r.newer /\ e.slot # r.active
         IN /\ Rec(s) /\ Alike(s, r, {"rnf", "nf", "active", "newer", "af"})
            /\ e.secured => e.slot \in r.valid
            /\ s.rnf = IF p THEN [r.rnf EXCEPT ![e.slot] = Past(e.counter)] ELSE r.rnf
            /\ s.nf = IF e.secured /\ ~p THEN [r.nf EXCEPT ![e.slot] = Past(e.counter)]
                      ELSE r.nf
            /\ s.active = IF a THEN e.slot ELSE r.active
            /\ s.newer = (r.newer /\ ~a)
            /\ s.af = IF e.aps = "current" THEN Past(e.apsCounter) ELSE r.af
<1> DEFINE p == e.secured /\ ParentRouter(r)
           a == e.secured /\ r.newer /\ e.slot # r.active
           s == Opened(r, e)
<1>1. /\ Past(e.counter) \in Floor /\ Past(e.apsCounter) \in Floor
      /\ e.secured \in BOOLEAN /\ e.slot \in Slots
      /\ e.secured => e.slot \in r.valid
  BY EnvelopeIs, PastIs DEF Admits
<1> DEFINE nwk == IF ~e.secured THEN r
                  ELSE [r EXCEPT
                    !.rnf[e.slot] = IF ParentRouter(r) THEN Past(e.counter) ELSE @,
                    !.nf[e.slot]  = IF ParentRouter(r) THEN @ ELSE Past(e.counter),
                    !.active = IF r.newer /\ e.slot # r.active THEN e.slot ELSE @,
                    !.newer  = @ /\ ~(r.newer /\ e.slot # r.active)]
<1>2. /\ nwk = [f \in Fields |-> nwk[f]] /\ Alike(nwk, r, {"rnf", "nf", "active", "newer"})
      /\ nwk.rnf = IF p THEN [r.rnf EXCEPT ![e.slot] = Past(e.counter)] ELSE r.rnf
      /\ nwk.nf = IF e.secured /\ ~p THEN [r.nf EXCEPT ![e.slot] = Past(e.counter)] ELSE r.nf
      /\ nwk.active = IF a THEN e.slot ELSE r.active
      /\ nwk.newer = (r.newer /\ ~a)
  <2>1. CASE ~e.secured
    <3>1. nwk = r
      BY <2>1
    <3> QED
      BY <2>1, <3>1 DEF Good, Rec, Alike
  <2> DEFINE A == IF r.newer /\ e.slot # r.active THEN e.slot ELSE r.active
             N == r.newer /\ ~(r.newer /\ e.slot # r.active)
  <2>2. CASE e.secured /\ ParentRouter(r)
    <3> DEFINE F == [r.rnf EXCEPT ![e.slot] = Past(e.counter)]
    <3>1. [r.nf EXCEPT ![e.slot] = r.nf[e.slot]] = r.nf
      BY <1>1 DEF Good, Rec
    <3>2. nwk = [r EXCEPT !.rnf = F, !.nf = r.nf, !.active = A, !.newer = N]
      BY <1>1, <2>2, <3>1 DEF Good, Rec, Fields
    <3>3. A = (IF a THEN e.slot ELSE r.active) /\ N = (r.newer /\ ~a)
      BY <2>2
    <3> HIDE DEF F, A, N, nwk
    <3>4. /\ nwk = [f \in Fields |-> nwk[f]]
          /\ Alike(nwk, r, {"rnf", "nf", "active", "newer"})
          /\ nwk.rnf = F /\ nwk.nf = r.nf /\ nwk.active = A /\ nwk.newer = N
      BY <3>2 DEF Good, Rec, Alike, Fields
    <3> QED
      BY <2>2, <3>3, <3>4 DEF F
  <2>3. CASE e.secured /\ ~ParentRouter(r)
    <3> DEFINE F == [r.nf EXCEPT ![e.slot] = Past(e.counter)]
    <3>1. [r.rnf EXCEPT ![e.slot] = r.rnf[e.slot]] = r.rnf
      BY <1>1 DEF Good, Rec
    <3>2. nwk = [r EXCEPT !.rnf = r.rnf, !.nf = F, !.active = A, !.newer = N]
      BY <1>1, <2>3, <3>1 DEF Good, Rec, Fields
    <3>3. A = (IF a THEN e.slot ELSE r.active) /\ N = (r.newer /\ ~a)
      BY <2>3
    <3> HIDE DEF F, A, N, nwk
    <3>4. /\ nwk = [f \in Fields |-> nwk[f]]
          /\ Alike(nwk, r, {"rnf", "nf", "active", "newer"})
          /\ nwk.rnf = r.rnf /\ nwk.nf = F /\ nwk.active = A /\ nwk.newer = N
      BY <3>2 DEF Good, Rec, Alike, Fields
    <3> QED
      BY <2>3, <3>3, <3>4 DEF F
  <2> QED
    BY <2>1, <2>2, <2>3
<1>3. s = [nwk EXCEPT !.af = IF e.aps = "current" THEN Past(e.apsCounter) ELSE @]
  BY DEF Opened
<1> HIDE DEF nwk, s
<1>4. /\ s = [f \in Fields |-> s[f]] /\ Alike(s, nwk, {"af"})
      /\ s.af = IF e.aps = "current" THEN Past(e.apsCounter) ELSE nwk.af
  BY <1>2, <1>3 DEF Alike, Fields
<1>5. /\ Alike(s, r, {"rnf", "nf", "active", "newer", "af"})
      /\ s.rnf = nwk.rnf /\ s.nf = nwk.nf /\ s.active = nwk.active /\ s.newer = nwk.newer
      /\ s.af = IF e.aps = "current" THEN Past(e.apsCounter) ELSE r.af
  BY <1>2, <1>4 DEF Alike, Fields
<1>6. /\ s.rnf \in [Slots -> Floor] /\ s.nf \in [Slots -> Floor] /\ s.active \in Slots
      /\ s.af \in Floor
  BY <1>1, <1>2, <1>5 DEF Good, Rec
<1>7. s.newer \in BOOLEAN
  BY <1>2, <1>5 DEF Good, Rec
<1>8. Rec(s)
  BY <1>4, <1>5, <1>6, <1>7 DEF Good, Rec, Alike, Fields
<1> QED
  BY <1>1, <1>2, <1>5, <1>8 DEF s

\* Opening a frame leaves a good record in the phase it was in.
LEMMA OpenedFits ==
  ASSUME build \in Profiles, NEW r, Good(r), NEW e \in Envelope, Admits(r, e)
  PROVE  Good(Opened(r, e))
<1> DEFINE s == Opened(r, e)
           p == e.secured /\ ParentRouter(r)
           a == e.secured /\ r.newer /\ e.slot # r.active
<1>1. /\ Rec(s) /\ Alike(s, r, {"rnf", "nf", "active", "newer", "af"})
      /\ e.secured => e.slot \in r.valid
      /\ s.rnf = IF p THEN [r.rnf EXCEPT ![e.slot] = Past(e.counter)] ELSE r.rnf
      /\ s.nf = IF e.secured /\ ~p THEN [r.nf EXCEPT ![e.slot] = Past(e.counter)] ELSE r.nf
      /\ s.active = IF a THEN e.slot ELSE r.active
      /\ s.newer = (r.newer /\ ~a)
  BY OpenedIs
<1> HIDE DEF s
<1>2. /\ ~p => s.rnf = r.rnf
      /\ \A i \in Slots \ r.valid : s.rnf[i] = r.rnf[i] /\ s.nf[i] = r.nf[i]
      /\ ~Network(r) => s.rnf = r.rnf /\ s.nf = r.nf /\ s.active = r.active
  BY <1>1 DEF Good, Rec, Network
<1>3. /\ r.newer => r.valid = Slots
      /\ s.newer => r.newer
      /\ s.active \in {r.active} \cup r.valid
  BY <1>1 DEF Good, ValidRecord, ValidSlots
<1>4. p => r.v3 /\ r.known
  BY DEF ParentRouter, Good, ValidRecord, ValidRouter
<1>5. Sound(s)
  BY <1>1, <1>2, <1>4 DEF Good, Sound, Alike, Fields
<1>6. r.v3 => ValidRouter(s)
  BY <1>1, <1>2, <1>4 DEF Good, ValidRecord, ValidRouter, Alike, Fields
<1>7. ValidPending(s)
  BY <1>1 DEF Good, ValidRecord, ValidPending, Alike, Fields
<1>8. ValidSlots(r) => ValidSlots(s)
  BY <1>1, <1>2, <1>3 DEF Good, Rec, ValidSlots, Alike, Fields
<1>9. ValidRecord(s)
  BY <1>1, <1>2, <1>3, <1>6, <1>7, <1>8 DEF Good, ValidRecord, Network, Alike, Fields
<1> QED
  BY <1>1, <1>5, <1>9 DEF s, Good

\* The first network key.
LEMMA FirstKeyFits ==
  ASSUME build \in Profiles, NEW r, Good(r), r.phase = "ASSOCIATED",
         Unbound(r) \/ r.tc = "tc",
         NEW k \in Keys, ~Reused(r, k), NEW q \in FirstSequences
  PROVE  LET t == FirstKey(r, k, q)
         IN /\ Good(t) /\ t.nf = r.nf /\ t.rnf = [r.rnf EXCEPT ![0] = 0]
            /\ t.af = r.af /\ t.active = r.active /\ t.phase = "RECEIVED"
<1> DEFINE u == SetPhase(r, "RECEIVED")
           t == FirstKey(r, k, q)
           NK == [r.nk EXCEPT ![0] = k]
           NF == [r.nf EXCEPT ![0] = 0]
           SQ == [r.seq EXCEPT ![0] = q]
           RF == [r.rnf EXCEPT ![0] = 0]
           TC == IF Unbound(r) THEN "tc" ELSE r.tc
<1>1. /\ Rec(u) /\ Alike(u, r, {"phase", "timeout", "parent"})
      /\ u.phase = "RECEIVED" /\ (u.timeout => r.timeout) /\ (u.parent => r.parent)
  BY SetPhaseIs DEF Phases, Good
<1>2. t = [u EXCEPT !.valid = {0}, !.nk = NK, !.nf = NF, !.seq = SQ, !.rnf = RF,
                    !.tc = TC, !.unbound = FALSE]
  <2>1. t = [u EXCEPT !.valid = {0}, !.nk[0] = k, !.nf[0] = 0, !.seq[0] = q, !.rnf[0] = 0,
                      !.tc = IF Unbound(r) THEN "tc" ELSE @, !.unbound = FALSE]
    BY DEF FirstKey
  <2> HIDE DEF u
  <2>2. u.nk = r.nk /\ u.nf = r.nf /\ u.seq = r.seq /\ u.rnf = r.rnf /\ u.tc = r.tc
    BY <1>1 DEF Alike, Fields
  <2> QED
    BY <1>1, <2>1, <2>2 DEF Rec, Fields
<1>3. /\ NK \in [Slots -> Keys \cup {NoKey}] /\ NF \in [Slots -> Floor]
      /\ SQ \in [Slots -> Sequences] /\ RF \in [Slots -> Floor] /\ TC \in {"tc", "router"}
  BY KeysConstants, SlotsAre DEF Good, Rec, Floor, Sequences
<1>4. /\ NK[0] = k /\ NK[1] = r.nk[1] /\ NF[0] = 0 /\ NF[1] = r.nf[1]
      /\ SQ[1] = r.seq[1] /\ RF[0] = 0 /\ RF[1] = r.rnf[1]
  BY SlotsAre DEF Good, Rec
<1>5. /\ r.valid = {} /\ r.active = 0 /\ ~r.newer /\ ~r.retired /\ ~r.verified
      /\ ~r.rejoin /\ ~r.timeout /\ ~r.parent
      /\ r.nk = [s \in Slots |-> NoKey] /\ r.seq = Zero /\ r.nf = Zero
      /\ r.pk = NoKey /\ r.addr # 0
  BY DEF Good, ValidRecord
<1> HIDE DEF u, t, NK, NF, SQ, RF
<1>6. /\ t = [f \in Fields |-> t[f]]
      /\ Alike(t, u, {"valid", "nk", "nf", "seq", "rnf", "tc", "unbound"})
      /\ t.valid = {0} /\ t.nk = NK /\ t.nf = NF /\ t.seq = SQ /\ t.rnf = RF
      /\ t.tc = TC /\ ~t.unbound /\ t.unbound \in BOOLEAN
  BY <1>1, <1>2 DEF Rec, Alike, Fields
<1>7. Rec(t)
  BY <1>1, <1>3, <1>6, SlotsAre DEF Rec, Alike, Fields
<1>8. /\ Alike(t, r, {"phase", "timeout", "parent", "valid", "nk", "nf", "seq", "rnf",
                      "tc", "unbound"})
      /\ t.phase = "RECEIVED" /\ ~t.timeout /\ ~t.parent
  BY <1>1, <1>5, <1>6 DEF Alike, Fields
<1>9. ~r.v3 => r.rnf = Zero /\ RF = Zero
  <2>1. ASSUME ~r.v3 PROVE r.rnf = Zero
    BY <2>1 DEF Good, Sound
  <2>2. ASSUME r.rnf = Zero PROVE RF = Zero
    BY <2>2, SlotsAre DEF RF, Zero
  <2> QED
    BY <2>1, <2>2
<1>10. TC = "tc" /\ (r.unbound => r.tc = "router")
  BY DEF Good, Sound
<1>11. Sound(t)
  BY <1>6, <1>8, <1>9, <1>10 DEF Good, Sound, Alike, Fields
<1>12. r.v3 => ValidRouter(t)
  <2> SUFFICES ASSUME r.v3 PROVE ValidRouter(t)
    OBVIOUS
  <2>1. CASE ~r.known
    <3>1. r.rnf = Zero /\ RF = Zero
      <4>1. r.rnf = Zero
        BY <2>1 DEF Good, ValidRecord, ValidRouter
      <4> QED
        BY <4>1, SlotsAre DEF RF, Zero
    <3> QED
      BY <2>1, <1>6, <1>8, <3>1 DEF Good, ValidRecord, ValidRouter, Alike, Fields
  <2>2. CASE r.known
    <3>1. \A s \in Slots \ {0} : RF[s] = 0
      BY <1>4, <1>5, <2>2, SlotsAre DEF Good, ValidRecord, ValidRouter
    <3>2. /\ build.join /\ r.unbound /\ r.ractive /\ ~r.attempt /\ r.router = r.tc
          /\ r.raddr # 0 /\ r.raddr # r.addr
      BY <1>5, <2>2 DEF Good, ValidRecord, ValidRouter
    <3> QED
      BY <2>2, <1>5, <1>6, <1>8, <1>10, <3>1, <3>2 DEF ValidRouter, Alike, Fields
  <2> QED
    BY <2>1, <2>2
<1>13. ValidSlots(t)
  <2>1. k # NoKey /\ k # r.lk /\ k # r.pk
    BY <1>5 DEF Reused
  <2>2. t.nk[0] = k /\ t.nk[1] = NoKey /\ t.nf[1] = 0 /\ t.seq[1] = 0
    BY <1>4, <1>5, <1>6, SlotsAre DEF Zero
  <2>3. t.active = 0 /\ ~t.newer /\ t.lk = r.lk /\ t.pk = r.pk
    BY <1>5, <1>8 DEF Alike, Fields
  <2> QED
    BY <1>6, <2>1, <2>2, <2>3, SlotsAre DEF ValidSlots
<1>14. ValidRecord(t)
  BY <1>5, <1>6, <1>8, <1>12, <1>13 DEF ValidRecord, ValidPending, Network, Alike, Fields
<1>15. t.nf = r.nf
  BY <1>5, <1>6, SlotsAre DEF NF, Zero
<1>16. /\ t.rnf = [r.rnf EXCEPT ![0] = 0] /\ t.af = r.af /\ t.active = r.active
  BY <1>6, <1>8 DEF RF, Alike, Fields
<1> QED
  BY <1>7, <1>8, <1>11, <1>14, <1>15, <1>16 DEF Good, t

\* A remainder is a key sequence number.
LEMMA NextSequenceIs == ASSUME NEW r, Rec(r) PROVE NextSequence(r) \in Sequences
<1>1. NewestKey(r) \in Slots
  BY SlotsAre DEF Rec, NewestKey
<1>2. r.seq[NewestKey(r)] \in Nat
  BY <1>1, KeysConstants DEF Rec, Sequences
<1> QED
  BY <1>2, KeysConstants DEF NextSequence, Sequences

\* The network key that follows takes the slot that is not active.
LEMMA NextKeyFits ==
  ASSUME build \in Profiles, NEW r, Good(r), Network(r), r.verified,
         r.phase \notin {"LEFT", "REJOINING"},
         NEW k \in Keys, ~Reused(r, k), NEW q \in Sequences, \A i \in r.valid : q # r.seq[i]
  PROVE  LET t == NextKey(r, k, q)
             i == 1 - r.active
         IN /\ Good(t) /\ t.nf = [r.nf EXCEPT ![i] = 0] /\ t.rnf = [r.rnf EXCEPT ![i] = 0]
            /\ t.af = r.af /\ t.active = r.active /\ t.phase = r.phase
<1> DEFINE t == NextKey(r, k, q)
           i == 1 - r.active
           NK == [r.nk EXCEPT ![i] = k]
           NF == [r.nf EXCEPT ![i] = 0]
           SQ == [r.seq EXCEPT ![i] = q]
           RF == [r.rnf EXCEPT ![i] = 0]
<1>1. i \in Slots /\ i # r.active /\ Slots = {i, r.active} /\ r.active \in r.valid
  BY SlotsAre DEF Good, Rec, ValidRecord, ValidSlots, Network
<1>2. t = [r EXCEPT !.valid = Slots, !.newer = TRUE, !.nk = NK, !.nf = NF, !.seq = SQ,
                    !.rnf = RF]
  BY DEF NextKey, Good, Rec, Fields
<1> HIDE DEF i
<1>3. /\ NK \in [Slots -> Keys \cup {NoKey}] /\ NF \in [Slots -> Floor]
      /\ SQ \in [Slots -> Sequences] /\ RF \in [Slots -> Floor]
  BY <1>1, KeysConstants DEF Good, Rec, Floor
<1>4. /\ NK[i] = k /\ NK[r.active] = r.nk[r.active] /\ SQ[i] = q
      /\ SQ[r.active] = r.seq[r.active] /\ RF[i] = 0 /\ RF[r.active] = r.rnf[r.active]
  BY <1>1 DEF Good, Rec
<1> HIDE DEF t, NK, NF, SQ, RF
<1>5. /\ t = [f \in Fields |-> t[f]]
      /\ Alike(t, r, {"valid", "newer", "nk", "nf", "seq", "rnf"})
      /\ t.valid = Slots /\ t.newer /\ t.newer \in BOOLEAN
      /\ t.nk = NK /\ t.nf = NF /\ t.seq = SQ /\ t.rnf = RF
  BY <1>2 DEF Good, Rec, Alike, Fields
<1>6. Rec(t)
  BY <1>3, <1>5 DEF Good, Rec, Alike, Fields
<1>7. r.rnf = Zero => RF = Zero
  BY <1>1 DEF RF, Zero
<1>8. Sound(t)
  BY <1>5, <1>7 DEF Good, Sound, Network, Alike, Fields
<1>9. /\ k # NoKey /\ k # r.lk /\ k # r.pk /\ k # r.nk[r.active]
      /\ q # r.seq[r.active]
      /\ r.nk[r.active] \notin {NoKey, r.lk, r.pk}
  <2>1. k # NoKey /\ k # r.lk /\ k # r.pk /\ k # r.nk[r.active]
    BY <1>1, KeysConstants DEF Reused
  <2>2. r.nk[r.active] \notin {NoKey, r.lk, r.pk}
    BY <1>1 DEF Good, ValidRecord, ValidSlots, Network
  <2> QED
    BY <1>1, <2>1, <2>2
<1>10. ValidSlots(t)
  <2>1. \A s \in Slots : t.nk[s] \notin {NoKey, t.lk, t.pk}
    <3>1. t.lk = r.lk /\ t.pk = r.pk
      BY <1>5 DEF Alike, Fields
    <3> QED
      BY <1>1, <1>4, <1>5, <1>9, <3>1
  <2>2. t.seq[0] # t.seq[1] /\ t.nk[0] # t.nk[1]
    <3>1. (i = 0 /\ r.active = 1) \/ (i = 1 /\ r.active = 0)
      BY <1>1, SlotsAre
    <3> QED
      BY <1>4, <1>5, <1>9, <3>1
  <2>3. t.active \in Slots
    BY <1>6 DEF Rec
  <2> QED
    BY <1>5, <2>1, <2>2, <2>3 DEF ValidSlots
<1>11. r.v3 => ValidRouter(t)
  BY <1>5, <1>7 DEF Good, ValidRecord, ValidRouter, Alike, Fields
<1>12. ValidPending(t)
  BY <1>5 DEF Good, ValidRecord, ValidPending, Alike, Fields
<1>13. ValidRecord(t)
  BY <1>5, <1>10, <1>11, <1>12, SlotsAre DEF Good, ValidRecord, Network, Alike, Fields
<1> QED
  BY <1>5, <1>6, <1>8, <1>13 DEF t, i, NF, RF, Good, Alike, Fields

\* The link key that was asked for is pending.
LEMMA LinkKeyFits ==
  ASSUME build \in Profiles, NEW r, Good(r), r.phase = "REQUESTED",
         NEW k \in Keys, ~Reused(r, k)
  PROVE  LET t == [SetPhase(r, "PROVISIONAL") EXCEPT !.pk = k, !.retired = FALSE]
         IN /\ Good(t) /\ Alike(t, r, {"phase", "timeout", "parent", "pk", "retired"})
            /\ t.phase = "PROVISIONAL"
<1> DEFINE u == SetPhase(r, "PROVISIONAL")
           t == [u EXCEPT !.pk = k, !.retired = FALSE]
<1>1. /\ Rec(u) /\ Alike(u, r, {"phase", "timeout", "parent"})
      /\ u.phase = "PROVISIONAL"
  BY SetPhaseIs DEF Phases, Good
<1> HIDE DEF u
<1>2. /\ t = [f \in Fields |-> t[f]] /\ Alike(t, u, {"pk", "retired"})
      /\ t.pk = k /\ ~t.retired /\ t.retired \in BOOLEAN
  BY <1>1 DEF Rec, Alike, Fields
<1> HIDE DEF t
<1>3. Rec(t)
  BY <1>1, <1>2 DEF Rec, Alike, Fields
<1>4. /\ Alike(t, r, {"phase", "timeout", "parent", "pk", "retired"})
      /\ t.phase = "PROVISIONAL"
  BY <1>1, <1>2 DEF Alike, Fields
<1>5. Sound(t)
  BY <1>4 DEF Good, Sound, Alike, Fields
<1>6. k # NoKey /\ k # r.lk /\ \A i \in r.valid : k # r.nk[i]
  BY DEF Reused
<1>7. ValidRecord(t)
  BY <1>2, <1>4, <1>6 DEF Good, ValidRecord, ValidRouter, ValidSlots, ValidPending, Network,
     Alike, Fields
<1> QED
  BY <1>3, <1>4, <1>5, <1>7 DEF t, u, Good

\* Confirm Key: the two link keys change places.
LEMMA ConfirmedFits ==
  ASSUME build \in Profiles, NEW r, Good(r), r.phase = "WAIT_CONFIRM", NEW e \in Envelope
  PROVE  LET t == Confirmed(r, e)
         IN /\ Good(t) /\ t.af = Past(e.apsCounter) /\ t.phase = "VERIFIED"
            /\ Alike(t, r, {"phase", "timeout", "parent", "lk", "pk", "af", "verified",
                            "retired"})
<1> DEFINE u == SetPhase(r, "VERIFIED")
           t == Confirmed(r, e)
<1>1. /\ Rec(u) /\ Alike(u, r, {"phase", "timeout", "parent"})
      /\ u.phase = "VERIFIED"
  BY SetPhaseIs DEF Phases, Good
<1>2. t = [u EXCEPT !.lk = r.pk, !.pk = r.lk, !.af = Past(e.apsCounter),
                    !.verified = TRUE, !.retired = TRUE]
  BY DEF Confirmed
<1> HIDE DEF u, t
<1>3. /\ t = [f \in Fields |-> t[f]]
      /\ Alike(t, u, {"lk", "pk", "af", "verified", "retired"})
      /\ t.lk = r.pk /\ t.pk = r.lk /\ t.af = Past(e.apsCounter)
      /\ t.verified /\ t.retired /\ t.verified \in BOOLEAN /\ t.retired \in BOOLEAN
  BY <1>1, <1>2 DEF Rec, Alike, Fields
<1>4. /\ Past(e.apsCounter) \in Floor
      /\ r.pk \in Keys \cup {DefaultKey} /\ r.pk # r.lk /\ r.lk # NoKey
  BY EnvelopeIs, PastIs, KeysConstants DEF Good, Rec, ValidRecord, ValidPending
<1>5. Rec(t)
  BY <1>1, <1>3, <1>4 DEF Good, Rec, Alike, Fields
<1>6. /\ Alike(t, r, {"phase", "timeout", "parent", "lk", "pk", "af", "verified", "retired"})
      /\ t.phase = "VERIFIED"
  BY <1>1, <1>3 DEF Alike, Fields
<1>7. Sound(t)
  BY <1>6 DEF Good, Sound, Alike, Fields
<1>8. ValidRecord(t)
  BY <1>3, <1>4, <1>6 DEF Good, ValidRecord, ValidRouter, ValidSlots, ValidPending, Network,
     Alike, Fields
<1> QED
  BY <1>3, <1>5, <1>6, <1>7, <1>8 DEF t, Good

\* Switch Key: the newer key becomes the active one.
LEMMA SwitchFits ==
  ASSUME build \in Profiles, NEW r, Good(r), r.newer
  PROVE  LET t == [r EXCEPT !.active = 1 - @, !.newer = FALSE]
         IN /\ Good(t) /\ Alike(t, r, {"active", "newer"}) /\ t.active = 1 - r.active
<1> DEFINE t == [r EXCEPT !.active = 1 - @, !.newer = FALSE]
<1>1. /\ t = [f \in Fields |-> t[f]] /\ Alike(t, r, {"active", "newer"})
      /\ t.active = 1 - r.active /\ ~t.newer /\ t.newer \in BOOLEAN
  BY DEF Good, Rec, Alike, Fields
<1> HIDE DEF t
<1>2. 1 - r.active \in Slots
  BY SlotsAre DEF Good, Rec
<1>3. Rec(t)
  BY <1>1, <1>2 DEF Good, Rec, Alike, Fields
<1>4. Sound(t)
  BY <1>1 DEF Good, Sound, Alike, Fields
<1>5. r.valid = Slots /\ Slots # {}
  BY <1>2 DEF Good, ValidRecord, ValidSlots
<1>6. ValidRecord(t)
  BY <1>1, <1>2, <1>5 DEF Good, ValidRecord, ValidRouter, ValidSlots, ValidPending, Network,
     Alike, Fields
<1> QED
  BY <1>1, <1>3, <1>4, <1>6 DEF t, Good

\* Rejoin Response: the attempted parent becomes the parent.
LEMMA RejoinedFits ==
  ASSUME build \in Profiles, NEW r, Good(r), r.phase = "REJOINING",
         NEW a \in Addresses, RejoinAddress(r, a)
  PROVE  LET t == Rejoined(r, a)
         IN /\ Good(t) /\ t.phase = "VERIFIED"
            /\ Alike(t, r, {"phase", "timeout", "parent", "addr", "rejoin", "ractive"})
<1> DEFINE u == SetPhase(r, "VERIFIED")
           t == Rejoined(r, a)
           A == IF r.v3 THEN r.attempt ELSE r.ractive
<1>1. /\ Rec(u) /\ Alike(u, r, {"phase", "timeout", "parent"})
      /\ u.phase = "VERIFIED"
  BY SetPhaseIs DEF Phases, Good
<1>2. t = [u EXCEPT !.addr = a, !.rejoin = FALSE, !.ractive = A]
  <2>1. t = [u EXCEPT !.addr = a, !.rejoin = FALSE,
                      !.ractive = IF r.v3 THEN r.attempt ELSE @]
    BY DEF Rejoined
  <2> HIDE DEF u
  <2>2. u.ractive = r.ractive
    BY <1>1 DEF Alike, Fields
  <2> QED
    BY <1>1, <2>1, <2>2 DEF Rec, Fields
<1>3. A \in BOOLEAN
  BY DEF Good, Rec
<1>4. r.v3 => A = r.attempt
  OBVIOUS
<1>10. ~r.v3 => A = r.ractive
  OBVIOUS
<1> HIDE DEF u, t, A
<1>5. /\ t = [f \in Fields |-> t[f]]
      /\ Alike(t, u, {"addr", "rejoin", "ractive"})
      /\ t.addr = a /\ ~t.rejoin /\ t.rejoin \in BOOLEAN /\ t.ractive = A
  BY <1>1, <1>2 DEF Rec, Alike, Fields
<1>6. Rec(t)
  BY <1>1, <1>3, <1>5 DEF Good, Rec, Alike, Fields
<1>7. /\ Alike(t, r, {"phase", "timeout", "parent", "addr", "rejoin", "ractive"})
      /\ t.phase = "VERIFIED" /\ a # 0
  BY <1>1, <1>5, KeysConstants DEF Alike, Fields
<1>8. Sound(t)
  BY <1>4, <1>10, <1>5, <1>7 DEF Good, Sound, Alike, Fields
<1>9. ValidRecord(t)
  BY <1>4, <1>5, <1>7 DEF Good, ValidRecord, ValidRouter, ValidSlots, ValidPending, Network,
     RejoinAddress, Alike, Fields
<1> QED
  BY <1>6, <1>7, <1>8, <1>9 DEF t, Good

-----------------------------------------------------------------------------
(* The history                                                             *)

\* The fields of a history.
HistoryFields == {"tc", "router", "aps", "superseded", "left", "replayed"}

\* A history of the right type in which nothing was admitted twice.
Hist(h) ==
  /\ h = [f \in HistoryFields |-> h[f]]
  /\ h.tc \in [Slots -> Floor] /\ h.router \in [Slots -> Floor] /\ h.aps \in Floor
  /\ h.superseded \in SUBSET Slots /\ h.left \in BOOLEAN /\ h.replayed = FALSE

\* One floor per slot, each at most the other's.
Below(f, g) == \A s \in Slots : f[s] <= g[s]

\* The record accounts for the history: its floors are above everything that
\* was admitted, its active key is not one that was switched away from, and
\* it is LEFT when a leave was announced or obeyed.
Fits(r, h) ==
  /\ Below(h.tc, r.nf) /\ Below(h.router, r.rnf) /\ h.aps <= r.af
  /\ r.active \notin h.superseded
  /\ h.left => r.phase = "LEFT"

\* What a frame does to the history, and that it fits what it does to the
\* record; in particular the frame is none that was admitted before.
LEMMA HearFits ==
  ASSUME build \in Profiles, NEW r, Good(r), NEW e \in Envelope, Admits(r, e),
         NEW h, Hist(h), Fits(r, h)
  PROVE  LET n == Hear(h, r, e)
         IN /\ Hist(n) /\ Fits(Opened(r, e), n) /\ ~n.left
            /\ (~e.secured \/ ~ParentRouter(r)) => n.router = h.router
            /\ e.aps # "current" => n.aps = h.aps
            /\ ~(e.secured /\ r.newer /\ e.slot # r.active) => n.superseded = h.superseded
            /\ ~e.secured /\ e.aps # "current" => n = h
<1> DEFINE p == e.secured /\ ParentRouter(r)
           a == e.secured /\ r.newer /\ e.slot # r.active
           s == Opened(r, e)
           n == Hear(h, r, e)
           w == IF ~e.secured THEN h
                ELSE [h EXCEPT ![Hop(r)][e.slot] = e.counter + 1,
                               !.replayed = @ \/ e.counter < h[Hop(r)][e.slot],
                               !.superseded = IF r.newer /\ e.slot # r.active
                                              THEN {r.active} ELSE @]
<1>1. /\ e.secured \in BOOLEAN /\ e.slot \in Slots /\ e.counter \in Counter
      /\ e.aps \in {"none", "current", "pending"} /\ e.apsCounter \in Counter
  BY EnvelopeIs
<1>2. /\ Past(e.counter) \in Floor /\ Past(e.counter) = e.counter + 1
      /\ Past(e.apsCounter) \in Floor /\ Past(e.apsCounter) = e.apsCounter + 1
      /\ e.counter \in Nat /\ e.apsCounter \in Nat
  BY <1>1, PastIs, KeysConstants DEF Counter
<1>3. /\ s.rnf = IF p THEN [r.rnf EXCEPT ![e.slot] = Past(e.counter)] ELSE r.rnf
      /\ s.nf = IF e.secured /\ ~p THEN [r.nf EXCEPT ![e.slot] = Past(e.counter)] ELSE r.nf
      /\ s.active = IF a THEN e.slot ELSE r.active
      /\ s.af = IF e.aps = "current" THEN Past(e.apsCounter) ELSE r.af
      /\ s.phase = r.phase
  BY OpenedIs DEF Alike, Fields
<1>4. /\ p => e.counter >= r.rnf[e.slot]
      /\ e.secured /\ ~p => e.counter >= r.nf[e.slot]
      /\ e.aps = "current" => e.apsCounter >= r.af
  BY DEF Admits, NwkFloor
<1>5. /\ p => e.counter >= h.router[e.slot]
      /\ e.secured /\ ~p => e.counter >= h.tc[e.slot]
      /\ e.aps = "current" => e.apsCounter >= h.aps
  <2>1. /\ r.rnf[e.slot] \in Nat /\ r.nf[e.slot] \in Nat /\ r.af \in Nat
        /\ h.router[e.slot] \in Nat /\ h.tc[e.slot] \in Nat /\ h.aps \in Nat
    BY <1>1, KeysConstants DEF Good, Rec, Hist, Floor
  <2>2. /\ h.tc[e.slot] <= r.nf[e.slot] /\ h.router[e.slot] <= r.rnf[e.slot]
        /\ h.aps <= r.af
    BY <1>1 DEF Fits, Below
  <2> QED
    BY <1>2, <1>4, <2>1, <2>2
<1>6. /\ w = [f \in HistoryFields |-> w[f]]
      /\ w.router = IF p THEN [h.router EXCEPT ![e.slot] = Past(e.counter)] ELSE h.router
      /\ w.tc = IF e.secured /\ ~p THEN [h.tc EXCEPT ![e.slot] = Past(e.counter)] ELSE h.tc
      /\ w.superseded = IF a THEN {r.active} ELSE h.superseded
      /\ w.aps = h.aps /\ w.left = h.left /\ w.replayed = FALSE
  <2>1. CASE ~e.secured
    <3>1. w = h
      BY <2>1
    <3> QED
      BY <2>1, <3>1 DEF Hist
  <2> DEFINE S == IF r.newer /\ e.slot # r.active THEN {r.active} ELSE h.superseded
  <2>2. CASE e.secured /\ ParentRouter(r)
    <3> DEFINE F == [h.router EXCEPT ![e.slot] = e.counter + 1]
               R == h.replayed \/ e.counter < h.router[e.slot]
    <3>1. w = [h EXCEPT !.router = F, !.replayed = R, !.superseded = S]
      BY <1>1, <2>2 DEF Hop, Hist, HistoryFields
    <3>2. ~(e.counter < h.router[e.slot])
      BY <1>1, <1>2, <1>5, <2>2, KeysConstants DEF Hist, Floor
    <3>3. R = FALSE
      BY <3>2 DEF Hist
    <3>4. S = IF a THEN {r.active} ELSE h.superseded
      BY <2>2
    <3> HIDE DEF F, R, S, w
    <3>5. /\ w = [f \in HistoryFields |-> w[f]]
          /\ w.router = F /\ w.tc = h.tc /\ w.superseded = S
          /\ w.aps = h.aps /\ w.left = h.left /\ w.replayed = FALSE
      BY <3>1, <3>3 DEF Hist, HistoryFields
    <3> QED
      BY <1>2, <2>2, <3>4, <3>5 DEF F
  <2>3. CASE e.secured /\ ~ParentRouter(r)
    <3> DEFINE F == [h.tc EXCEPT ![e.slot] = e.counter + 1]
               R == h.replayed \/ e.counter < h.tc[e.slot]
    <3>1. w = [h EXCEPT !.tc = F, !.replayed = R, !.superseded = S]
      BY <1>1, <2>3 DEF Hop, Hist, HistoryFields
    <3>2. ~(e.counter < h.tc[e.slot])
      BY <1>1, <1>2, <1>5, <2>3, KeysConstants DEF Hist, Floor
    <3>3. R = FALSE
      BY <3>2 DEF Hist
    <3>4. S = IF a THEN {r.active} ELSE h.superseded
      BY <2>3
    <3> HIDE DEF F, R, S, w
    <3>5. /\ w = [f \in HistoryFields |-> w[f]]
          /\ w.tc = F /\ w.router = h.router /\ w.superseded = S
          /\ w.aps = h.aps /\ w.left = h.left /\ w.replayed = FALSE
      BY <3>1, <3>3 DEF Hist, HistoryFields
    <3> QED
      BY <1>2, <2>3, <3>4, <3>5 DEF F
  <2> QED
    BY <2>1, <2>2, <2>3
<1>7. n = IF e.aps # "current" THEN w
          ELSE [w EXCEPT !.aps = e.apsCounter + 1,
                         !.replayed = @ \/ e.apsCounter < h.aps]
  BY DEF Hear
<1> HIDE DEF w, n, s
<1>8. /\ n = [f \in HistoryFields |-> n[f]]
      /\ n.router = w.router /\ n.tc = w.tc /\ n.superseded = w.superseded
      /\ n.aps = IF e.aps = "current" THEN Past(e.apsCounter) ELSE h.aps
      /\ n.left = h.left /\ n.replayed = FALSE
  <2>1. CASE e.aps # "current"
    BY <1>6, <1>7, <2>1
  <2>2. CASE e.aps = "current"
    <3>1. ~(e.apsCounter < h.aps)
      BY <1>2, <1>5, <2>2, KeysConstants DEF Hist, Floor
    <3>2. (w.replayed \/ e.apsCounter < h.aps) = FALSE
      BY <1>6, <3>1
    <3>3. n = [w EXCEPT !.aps = e.apsCounter + 1,
                        !.replayed = w.replayed \/ e.apsCounter < h.aps]
      BY <1>7, <2>2
    <3>4. n = [w EXCEPT !.aps = e.apsCounter + 1, !.replayed = FALSE]
      BY <3>2, <3>3
    <3> QED
      BY <1>2, <1>6, <2>2, <3>4 DEF HistoryFields
  <2> QED
    BY <2>1, <2>2
<1>9. Hist(n)
  <2>1. /\ h.router \in [Slots -> Floor] /\ h.tc \in [Slots -> Floor] /\ h.aps \in Floor
    BY DEF Hist
  <2>3. /\ [h.router EXCEPT ![e.slot] = Past(e.counter)] \in [Slots -> Floor]
        /\ [h.tc EXCEPT ![e.slot] = Past(e.counter)] \in [Slots -> Floor]
    BY <1>1, <1>2, <2>1
  <2>4. /\ n.router \in [Slots -> Floor] /\ n.tc \in [Slots -> Floor] /\ n.aps \in Floor
    BY <1>2, <1>6, <1>8, <2>1, <2>3
  <2>2. n.superseded \in SUBSET Slots
    BY <1>6, <1>8 DEF Hist, Good, Rec
  <2> QED
    BY <1>8, <2>2, <2>4 DEF Hist
<1>10. Fits(s, n)
  <2>1. Below(n.tc, s.nf)
    <3>1. \A i \in Slots : h.tc[i] <= r.nf[i]
      BY DEF Fits, Below
    <3>2. h.tc \in [Slots -> Floor] /\ r.nf \in [Slots -> Floor]
      BY DEF Hist, Good, Rec
    <3>3. CASE e.secured /\ ~p
      <4>1. n.tc = [h.tc EXCEPT ![e.slot] = Past(e.counter)]
            /\ s.nf = [r.nf EXCEPT ![e.slot] = Past(e.counter)]
        BY <1>3, <1>6, <1>8, <3>3
      <4> QED
        BY <1>1, <1>2, <3>1, <3>2, <4>1 DEF Below
    <3>4. CASE ~(e.secured /\ ~p)
      BY <1>3, <1>6, <1>8, <3>1, <3>4 DEF Below
    <3> QED
      BY <3>3, <3>4
  <2>2. Below(n.router, s.rnf)
    <3>1. \A i \in Slots : h.router[i] <= r.rnf[i]
      BY DEF Fits, Below
    <3>2. h.router \in [Slots -> Floor] /\ r.rnf \in [Slots -> Floor]
      BY DEF Hist, Good, Rec
    <3>3. CASE p
      <4>1. n.router = [h.router EXCEPT ![e.slot] = Past(e.counter)]
            /\ s.rnf = [r.rnf EXCEPT ![e.slot] = Past(e.counter)]
        BY <1>3, <1>6, <1>8, <3>3
      <4> QED
        BY <1>1, <1>2, <3>1, <3>2, <4>1 DEF Below
    <3>4. CASE ~p
      BY <1>3, <1>6, <1>8, <3>1, <3>4 DEF Below
    <3> QED
      BY <3>3, <3>4
  <2>3. n.aps <= s.af
    BY <1>2, <1>3, <1>8 DEF Fits
  <2>4. s.active \notin n.superseded
    BY <1>3, <1>6, <1>8 DEF Fits
  <2>5. n.left => s.phase = "LEFT"
    BY <1>3, <1>8 DEF Fits
  <2> QED
    BY <2>1, <2>2, <2>3, <2>4, <2>5 DEF Fits
<1>11. ~n.left
  BY <1>8 DEF Fits, Admits
<1>12. ~e.secured /\ e.aps # "current" => n = h
  BY <1>7 DEF w
<1> QED
  BY <1>6, <1>8, <1>9, <1>10, <1>11, <1>12 DEF n, s

-----------------------------------------------------------------------------
(* The inductive invariant                                                 *)

\* RAM: what is forgotten, and when; a format error was an abandoned join.
Control ==
  /\ build \in Profiles
  /\ floor_cache \in [Slots -> Floor] /\ router_floor_cache \in [Slots -> Floor]
  /\ phase_cache = Nothing \/ phase_cache \in PhaseByte
  /\ security_keys_phase \in Phases \cup {"COLD", "UNPROVISIONED", "FAILED"}
  /\ ~Operating => floor_cache = Zero /\ router_floor_cache = Zero /\ phase_cache = Nothing
  /\ security_keys_phase = "COLD" => staged = Nothing
  /\ security_keys_phase = "UNPROVISIONED" /\ ~retained => journal = Nothing
  /\ security_keys_result = "FORMAT" =>
       security_keys_phase = "FAILED" /\ journal # Nothing /\ AbandonedRouterJoin(journal)

\* The histories; before open() nothing is remembered that a reset forgets.
Histories ==
  /\ Hist(heard)
  /\ kept = [f \in {"tc", "router"} |-> kept[f]]
  /\ kept.tc \in [Slots -> Floor] /\ kept.router \in [Slots -> Floor]
  /\ security_keys_phase = "COLD" =>
       heard.tc = kept.tc /\ (build.policyC => heard.router = kept.router)

\* A record is staged only before the first commit and the first key.
Staged ==
  staged # Nothing =>
    /\ journal = Nothing /\ Good(staged)
    /\ staged.phase \in {"PROVISIONED", "ASSOCIATED"}
    /\ floor_cache = Zero /\ router_floor_cache = Zero
    /\ security_keys_phase = "PROVISIONED" => phase_cache = Nothing

\* The durable record accounts for everything a reset does not undo.
DurableFits ==
  /\ Below(kept.tc, journal.nf)
  /\ Below(IF build.policyC THEN kept.router ELSE heard.router, journal.rnf)
  /\ heard.aps <= journal.af
  /\ journal.active \notin heard.superseded
  /\ heard.left => journal.phase = "LEFT"

\* The journal holds nothing and nothing was heard, or a record that opens.
Durable ==
  /\ journal = Nothing => heard = NoHistory /\ kept = [tc |-> Zero, router |-> Zero]
  /\ journal # Nothing =>
       /\ Rec(journal) /\ Sound(journal)
       /\ ValidRecord(journal) \/ AbandonedRouterJoin(journal)
       /\ DurableFits

\* While the owner operates, load() gives a good record that accounts for
\* everything that was heard.
Works ==
  Operating =>
    /\ Stored # Nothing /\ Stored.phase = security_keys_phase
    /\ phase_cache # Nothing => phase_cache.phase = security_keys_phase
    /\ ValidRecord(Stored) => Good(Live) /\ Fits(Live, heard)

\* The inductive invariant.
KeysInv == Control /\ Histories /\ Staged /\ Durable /\ Works

-----------------------------------------------------------------------------
(* Loading and saving                                                      *)

\* load() with its inputs as parameters.
LiveOf(b, st, fc, rc, pc) ==
  LET r == [st EXCEPT !.nf = fc, !.rnf = IF b.policyC /\ st.v3 THEN rc ELSE @]
  IN IF pc = Nothing THEN r
     ELSE [r EXCEPT !.phase = pc.phase, !.timeout = pc.timeout, !.parent = pc.parent]

\* What load() gives, field by field.
LEMMA LiveIs ==
  ASSUME NEW b, NEW st, NEW fc, NEW rc, NEW pc, Rec(st),
         fc \in [Slots -> Floor], rc \in [Slots -> Floor], pc = Nothing \/ pc \in PhaseByte
  PROVE  LET r == LiveOf(b, st, fc, rc, pc)
         IN /\ Rec(r) /\ Alike(r, st, {"nf", "rnf", "phase", "timeout", "parent"})
            /\ r.nf = fc /\ r.rnf = IF b.policyC /\ st.v3 THEN rc ELSE st.rnf
            /\ pc = Nothing => /\ r.phase = st.phase /\ r.timeout = st.timeout
                               /\ r.parent = st.parent
            /\ pc # Nothing => /\ r.phase = pc.phase /\ r.timeout = pc.timeout
                               /\ r.parent = pc.parent
<1> DEFINE r == LiveOf(b, st, fc, rc, pc)
           F == IF b.policyC /\ st.v3 THEN rc ELSE st.rnf
           u == [st EXCEPT !.nf = fc, !.rnf = F]
<1>1. F \in [Slots -> Floor]
  BY DEF Rec
<1>2. r = IF pc = Nothing THEN u
          ELSE [u EXCEPT !.phase = pc.phase, !.timeout = pc.timeout, !.parent = pc.parent]
  BY DEF LiveOf
<1> HIDE DEF F, r
<1>3. /\ u = [f \in Fields |-> u[f]] /\ Alike(u, st, {"nf", "rnf"}) /\ u.nf = fc /\ u.rnf = F
  BY DEF Rec, Alike, Fields
<1> HIDE DEF u
<1>4. Rec(u)
  BY <1>1, <1>3 DEF Rec, Alike, Fields
<1>5. CASE pc = Nothing
  <2>1. r = u
    BY <1>2, <1>5
  <2> QED
    BY <1>3, <1>4, <1>5, <2>1 DEF r, F, Alike, Fields
<1>6. CASE pc # Nothing
  <2>1. pc.phase \in Phases /\ pc.timeout \in BOOLEAN /\ pc.parent \in BOOLEAN
    BY <1>6 DEF PhaseByte
  <2>2. r = [u EXCEPT !.phase = pc.phase, !.timeout = pc.timeout, !.parent = pc.parent]
    BY <1>2, <1>6
  <2>3. /\ r = [f \in Fields |-> r[f]] /\ Alike(r, u, {"phase", "timeout", "parent"})
        /\ r.phase = pc.phase /\ r.timeout = pc.timeout /\ r.parent = pc.parent
    BY <1>4, <2>2 DEF Rec, Alike, Fields
  <2>4. r.phase \in Phases /\ r.timeout \in BOOLEAN /\ r.parent \in BOOLEAN
    BY <2>1, <2>3
  <2>5. Rec(r)
    BY <1>4, <2>3, <2>4 DEF Rec, Alike, Fields
  <2> QED
    BY <1>3, <1>6, <2>3, <2>5 DEF r, F, Alike, Fields
<1> QED
  BY <1>5, <1>6

\* Two records with the same fields are the same.
LEMMA SameRecord == ASSUME NEW r, NEW t, Rec(r), Rec(t), Alike(r, t, {}) PROVE r = t
BY DEF Rec, Alike

\* The phase byte that keep_volatile() keeps.
LEMMA ByteIs ==
  ASSUME NEW r, Rec(r)
  PROVE  LET b == [phase |-> r.phase, timeout |-> r.timeout, parent |-> r.parent]
         IN /\ b \in PhaseByte /\ b # Nothing
            /\ b.phase = r.phase /\ b.timeout = r.timeout /\ b.parent = r.parent
<1>1. [phase |-> r.phase, timeout |-> r.timeout, parent |-> r.parent] \in PhaseByte
  BY DEF Rec, PhaseByte
<1> QED
  BY <1>1, NothingIsNoValue

\* load() gives back the record that a successful save wrote.
LEMMA LiveAfterSave ==
  ASSUME NEW r, Rec(r), journal' = r, staged' = Nothing, KeepVolatile(r),
         UNCHANGED build, router_floor_cache \in [Slots -> Floor]
  PROVE  /\ Stored' = r /\ Live' = r /\ Stored' # Nothing
         /\ floor_cache' \in [Slots -> Floor] /\ router_floor_cache' \in [Slots -> Floor]
         /\ phase_cache' \in PhaseByte /\ phase_cache'.phase = r.phase
<1>1. Stored' = r /\ r # Nothing
  BY RecIsSomething DEF Stored
<1>2. /\ floor_cache' = r.nf
      /\ router_floor_cache' = IF build.policyC /\ r.v3 THEN r.rnf ELSE router_floor_cache
      /\ phase_cache' = [phase |-> r.phase, timeout |-> r.timeout, parent |-> r.parent]
  BY DEF KeepVolatile
<1>3. floor_cache' \in [Slots -> Floor] /\ router_floor_cache' \in [Slots -> Floor]
  BY <1>2 DEF Rec
<1>4. /\ phase_cache' \in PhaseByte /\ phase_cache' # Nothing /\ phase_cache'.phase = r.phase
      /\ phase_cache'.timeout = r.timeout /\ phase_cache'.parent = r.parent
  BY <1>2, ByteIs
<1> DEFINE t == LiveOf(build, r, floor_cache', router_floor_cache', phase_cache')
<1>5. Live' = t
  BY <1>1 DEF Live, LiveOf
<1>6. /\ Rec(t) /\ Alike(t, r, {"nf", "rnf", "phase", "timeout", "parent"})
      /\ t.nf = floor_cache'
      /\ t.rnf = IF build.policyC /\ r.v3 THEN router_floor_cache' ELSE r.rnf
      /\ t.phase = phase_cache'.phase /\ t.timeout = phase_cache'.timeout
      /\ t.parent = phase_cache'.parent
  BY <1>3, <1>4, LiveIs
<1> HIDE DEF t
<1>7. /\ t.nf = r.nf /\ t.rnf = r.rnf /\ t.phase = r.phase /\ t.timeout = r.timeout
      /\ t.parent = r.parent
  BY <1>2, <1>4, <1>6
<1>8. Alike(t, r, {})
  BY <1>6, <1>7 DEF Alike, Fields
<1>9. t = r
  BY <1>6, <1>8, SameRecord
<1> QED
  BY <1>1, <1>3, <1>4, <1>5, <1>9

\* A history that fits the record that was saved is durable with it.
LEMMA RecordedFits ==
  ASSUME NEW r, NEW h, Rec(r), Hist(h), Fits(r, h), journal' = r, Recorded(h),
         UNCHANGED build
  PROVE  /\ Hist(heard') /\ heard' = h /\ journal' # Nothing /\ DurableFits'
         /\ kept' = [f \in {"tc", "router"} |-> kept'[f]]
         /\ kept'.tc \in [Slots -> Floor] /\ kept'.router \in [Slots -> Floor]
<1>1. /\ heard' = h /\ kept' = [tc |-> h.tc, router |-> h.router] /\ r # Nothing
  BY RecIsSomething DEF Recorded
<1>2. kept'.tc = h.tc /\ kept'.router = h.router
      /\ kept' = [f \in {"tc", "router"} |-> kept'[f]]
  BY <1>1
<1>3. kept'.tc \in [Slots -> Floor] /\ kept'.router \in [Slots -> Floor]
  BY <1>2 DEF Hist
<1>4. DurableFits'
  BY <1>1, <1>2 DEF DurableFits, Fits
<1> QED
  BY <1>1, <1>2, <1>3, <1>4

\* A fault forgets the RAM copies.
LEMMA FaultIs ==
  ASSUME NEW x, KeysFault(x)
  PROVE  /\ security_keys_phase' = "FAILED" /\ security_keys_result' = x
         /\ staged' = Nothing /\ ~Operating'
         /\ floor_cache' = Zero /\ router_floor_cache' = Zero /\ phase_cache' = Nothing
         /\ Zero \in [Slots -> Floor]
<1>1. Zero \in [Slots -> Floor]
  BY KeysConstants DEF Zero, Floor
<1> QED
  BY <1>1 DEF KeysFault, Forget, Operating, Phases

\* A save, whether it succeeds, fails or fails after it was written.
LEMMA SaveKeeps ==
  ASSUME KeysInv, Operating \/ security_keys_phase = "UNPROVISIONED", UNCHANGED build,
         NEW r, NEW h, Rec(r), Sound(r), ValidRecord(r) \/ AbandonedRouterJoin(r),
         Hist(h), Fits(r, h), Save(r, h)
  PROVE  KeysInv'
<1>1. journal' = r => (ValidRecord(journal) \/ AbandonedRouterJoin(journal))'
  BY DEF ValidRecord, ValidRouter, ValidSlots, ValidPending, Network, AbandonedRouterJoin
<1>2. build \in Profiles /\ build' \in Profiles
  BY DEF KeysInv, Control
<1>3. CASE /\ journal' = r /\ staged' = Nothing
           /\ security_keys_phase' = r.phase /\ retained' = FALSE
           /\ KeepVolatile(r) /\ Recorded(h) /\ UNCHANGED security_keys_result
  <2>1. /\ Stored' = r /\ Live' = r /\ Stored' # Nothing
        /\ floor_cache' \in [Slots -> Floor] /\ router_floor_cache' \in [Slots -> Floor]
        /\ phase_cache' \in PhaseByte /\ phase_cache'.phase = r.phase
    BY <1>3, LiveAfterSave DEF KeysInv, Control
  <2>2. /\ Hist(heard') /\ heard' = h /\ journal' # Nothing /\ DurableFits'
        /\ kept' = [f \in {"tc", "router"} |-> kept'[f]]
        /\ kept'.tc \in [Slots -> Floor] /\ kept'.router \in [Slots -> Floor]
    BY <1>3, RecordedFits
  <2>3. /\ r.phase \in Phases /\ r.phase \notin {"COLD", "UNPROVISIONED", "FAILED"}
        /\ security_keys_result # "FORMAT"
    BY DEF Rec, Phases, KeysInv, Control, Operating
  <2>4. Control'
    BY <1>2, <1>3, <2>1, <2>3 DEF Control, Operating
  <2>5. Histories'
    BY <1>3, <2>2, <2>3 DEF Histories
  <2>6. Staged' /\ Durable'
    BY <1>1, <1>3, <2>2 DEF Staged, Durable
  <2>7. ValidRecord(Stored)' => ValidRecord(r)
    BY <2>1 DEF ValidRecord, ValidRouter, ValidSlots, ValidPending, Network
  <2>8. ValidRecord(r) => ValidRecord(Live)'
    BY <2>1 DEF ValidRecord, ValidRouter, ValidSlots, ValidPending, Network
  <2>9. (ValidRecord(Stored) => Good(Live) /\ Fits(Live, heard))'
    BY <2>1, <2>2, <2>7, <2>8 DEF Good, Fits
  <2>10. Works'
    BY <1>3, <2>1, <2>9 DEF Works
  <2> QED
    BY <2>4, <2>5, <2>6, <2>10 DEF KeysInv
<1>4. CASE /\ UNCHANGED <<journal, heard, kept>> \/ (journal' = r /\ Recorded(h))
           /\ KeysFault("STORAGE")
  <2>1. /\ security_keys_phase' = "FAILED" /\ security_keys_result' = "STORAGE"
        /\ staged' = Nothing /\ ~Operating'
        /\ floor_cache' = Zero /\ router_floor_cache' = Zero /\ phase_cache' = Nothing
        /\ Zero \in [Slots -> Floor]
    BY <1>4, FaultIs
  <2>2. Control'
    BY <1>2, <2>1 DEF Control
  <2>3. Staged' /\ Works'
    BY <2>1 DEF Staged, Works
  <2>4. Histories' /\ Durable'
    <3>1. CASE UNCHANGED <<journal, heard, kept>>
      <4>1. (ValidRecord(journal) \/ AbandonedRouterJoin(journal))
             => (ValidRecord(journal) \/ AbandonedRouterJoin(journal))'
        BY <3>1 DEF ValidRecord, ValidRouter, ValidSlots, ValidPending, Network,
           AbandonedRouterJoin
      <4>2. DurableFits => DurableFits'
        BY <3>1 DEF DurableFits
      <4> QED
        BY <2>1, <3>1, <4>1, <4>2 DEF KeysInv, Histories, Durable
    <3>2. CASE journal' = r /\ Recorded(h)
      <4>1. /\ Hist(heard') /\ heard' = h /\ journal' # Nothing /\ DurableFits'
            /\ kept' = [f \in {"tc", "router"} |-> kept'[f]]
            /\ kept'.tc \in [Slots -> Floor] /\ kept'.router \in [Slots -> Floor]
        BY <3>2, RecordedFits
      <4> QED
        BY <1>1, <2>1, <3>2, <4>1 DEF Histories, Durable
    <3> QED
      BY <1>4, <3>1, <3>2
  <2> QED
    BY <2>2, <2>3, <2>4 DEF KeysInv
<1> QED
  BY <1>3, <1>4 DEF Save

\* What every call is given.
LEMMA LoadedGives ==
  ASSUME KeysInv, Loaded
  PROVE  /\ Good(Live) /\ Fits(Live, heard) /\ Live.phase = security_keys_phase
         /\ Rec(Stored) /\ Good(Stored)
         /\ Alike(Live, Stored, {"nf", "rnf", "phase", "timeout", "parent"})
         /\ Live.nf = floor_cache
         /\ ~(build.policyC /\ Live.v3) => Live.rnf = Stored.rnf
         /\ staged # Nothing => /\ Live.phase \in {"PROVISIONED", "ASSOCIATED"}
                                /\ Live.nf = Zero
<1>1. /\ Operating /\ ValidRecord(Stored) /\ Stored.phase = security_keys_phase
      /\ Stored # Nothing
  BY DEF Loaded, LoadFails, KeysInv, Works
<1>2. Good(Live) /\ Fits(Live, heard)
  BY <1>1 DEF KeysInv, Works
<1>3. Rec(Stored) /\ Good(Stored)
  <2>1. CASE staged # Nothing
    BY <2>1 DEF KeysInv, Staged, Stored, Good
  <2>2. CASE staged = Nothing
    <3>1. Stored = journal
      BY <2>2 DEF Stored
    <3> QED
      BY <1>1, <3>1 DEF KeysInv, Durable, Good
  <2> QED
    BY <2>1, <2>2
<1> DEFINE t == LiveOf(build, Stored, floor_cache, router_floor_cache, phase_cache)
<1>4. Live = t
  BY DEF Live, LiveOf
<1>5. /\ Alike(t, Stored, {"nf", "rnf", "phase", "timeout", "parent"})
      /\ t.nf = floor_cache
      /\ t.rnf = IF build.policyC /\ Stored.v3 THEN router_floor_cache ELSE Stored.rnf
      /\ phase_cache = Nothing => t.phase = Stored.phase
      /\ phase_cache # Nothing => t.phase = phase_cache.phase
  BY <1>3, LiveIs DEF KeysInv, Control
<1> HIDE DEF t
<1>6. t.v3 = Stored.v3
  BY <1>5 DEF Alike, Fields
<1>7. t.phase = security_keys_phase
  BY <1>1, <1>5 DEF KeysInv, Works
<1>8. staged # Nothing => t.phase \in {"PROVISIONED", "ASSOCIATED"} /\ t.nf = Zero
  <2>1. staged # Nothing => Stored = staged
    BY DEF Stored
  <2> QED
    BY <1>1, <1>5, <1>7, <2>1 DEF KeysInv, Staged
<1> QED
  BY <1>2, <1>3, <1>4, <1>5, <1>6, <1>7, <1>8

\* Keeping the volatile part only: the stored record stays what it is.
LEMMA KeepOnlyKeeps ==
  ASSUME KeysInv, Loaded, UNCHANGED build,
         NEW r, NEW h, Good(r), Hist(h), Fits(r, h),
         Alike(r, Live, {"nf", "rnf", "timeout", "parent"}),
         ~(build.policyC /\ r.v3) => r.rnf = Live.rnf,
         ~build.policyC => h.router = heard.router,
         h.aps = heard.aps, h.superseded = heard.superseded, h.left = heard.left,
         ~Network(Live) => h = heard /\ r.nf = Live.nf /\ r.rnf = Live.rnf,
         Live.phase # "PROVISIONED",
         KeepOnly(r, h)
  PROVE  KeysInv'
<1>1. /\ Good(Live) /\ Fits(Live, heard) /\ Live.phase = security_keys_phase
      /\ Rec(Stored) /\ Good(Stored)
      /\ Alike(Live, Stored, {"nf", "rnf", "phase", "timeout", "parent"})
      /\ Live.nf = floor_cache
      /\ ~(build.policyC /\ Live.v3) => Live.rnf = Stored.rnf
      /\ staged # Nothing => /\ Live.phase \in {"PROVISIONED", "ASSOCIATED"}
                             /\ Live.nf = Zero
  BY LoadedGives
<1>2. /\ floor_cache' = r.nf
      /\ router_floor_cache' = IF build.policyC /\ r.v3 THEN r.rnf ELSE router_floor_cache
      /\ phase_cache' = [phase |-> r.phase, timeout |-> r.timeout, parent |-> r.parent]
      /\ heard' = h
      /\ UNCHANGED <<store, security_keys_phase, security_keys_result, retained, kept>>
  BY DEF KeepOnly, KeepVolatile
<1>3. UNCHANGED <<journal, staged>> /\ Stored' = Stored /\ Operating /\ Operating'
  BY <1>2 DEF store, Stored, Loaded, Operating
<1>4. Rec(r) /\ r.phase = Live.phase /\ r.v3 = Live.v3 /\ Live.v3 = Stored.v3
  BY <1>1 DEF Good, Alike, Fields
<1>5. floor_cache' \in [Slots -> Floor] /\ router_floor_cache' \in [Slots -> Floor]
  BY <1>2, <1>4 DEF Rec, KeysInv, Control
<1>6. /\ phase_cache' \in PhaseByte /\ phase_cache' # Nothing /\ phase_cache'.phase = r.phase
      /\ phase_cache'.timeout = r.timeout /\ phase_cache'.parent = r.parent
  BY <1>2, <1>4, ByteIs
<1> DEFINE t == LiveOf(build, Stored, floor_cache', router_floor_cache', phase_cache')
<1>7. Live' = t
  BY <1>3 DEF Live, LiveOf
<1>8. /\ Rec(t) /\ Alike(t, Stored, {"nf", "rnf", "phase", "timeout", "parent"})
      /\ t.nf = floor_cache'
      /\ t.rnf = IF build.policyC /\ Stored.v3 THEN router_floor_cache' ELSE Stored.rnf
      /\ t.phase = phase_cache'.phase /\ t.timeout = phase_cache'.timeout
      /\ t.parent = phase_cache'.parent
  BY <1>1, <1>5, <1>6, LiveIs
<1> HIDE DEF t
<1>9. /\ t.nf = r.nf /\ t.rnf = r.rnf /\ t.phase = r.phase /\ t.timeout = r.timeout
      /\ t.parent = r.parent
  BY <1>1, <1>2, <1>4, <1>6, <1>8
<1>10. Alike(t, r, {})
  BY <1>1, <1>8, <1>9 DEF Alike, Fields
<1>11. Live' = r
  BY <1>4, <1>7, <1>8, <1>10, SameRecord
<1>12. ValidRecord(Live)' /\ ValidRecord(Stored)'
  <2>1. ValidRecord(r) /\ ValidRecord(Stored)
    BY <1>1 DEF Good
  <2> QED
    BY <1>3, <1>11, <2>1 DEF ValidRecord, ValidRouter, ValidSlots, ValidPending, Network
<1>13. Good(Live)' /\ Fits(Live, heard)'
  BY <1>2, <1>11, <1>12 DEF Good, Fits
<1>14. Works'
  BY <1>1, <1>2, <1>3, <1>4, <1>6, <1>13 DEF Works, KeysInv
<1>15. Control'
  <2>1. (security_keys_result = "FORMAT" =>
          security_keys_phase = "FAILED" /\ journal # Nothing /\ AbandonedRouterJoin(journal))'
    BY <1>2, <1>3 DEF KeysInv, Control, AbandonedRouterJoin
  <2> QED
    BY <1>2, <1>3, <1>5, <1>6, <2>1 DEF KeysInv, Control
<1>16. security_keys_phase # "COLD"
  BY <1>3 DEF Operating, Phases
<1>17. Histories'
  BY <1>2, <1>16 DEF KeysInv, Histories
<1>18. Durable'
  <2>1. CASE journal = Nothing
    <3>1. staged # Nothing
      BY <1>3, <2>1 DEF KeysInv, Works, Stored
    <3>2. ~Network(Live)
      BY <1>1, <3>1 DEF Good, ValidRecord, Network
    <3> QED
      BY <1>2, <1>3, <2>1, <3>2 DEF KeysInv, Durable
  <2>2. CASE journal # Nothing
    <3>1. (ValidRecord(journal) \/ AbandonedRouterJoin(journal))
             => (ValidRecord(journal) \/ AbandonedRouterJoin(journal))'
      BY <1>3 DEF ValidRecord, ValidRouter, ValidSlots, ValidPending, Network,
         AbandonedRouterJoin
    <3>2. DurableFits => DurableFits'
      BY <1>2, <1>3 DEF DurableFits
    <3> QED
      BY <1>3, <2>2, <3>1, <3>2 DEF KeysInv, Durable
  <2> QED
    BY <2>1, <2>2
<1>19. Staged'
  <2> SUFFICES ASSUME staged # Nothing PROVE Staged'
    BY <1>3 DEF Staged
  <2>1. staged = Stored
    BY DEF Stored
  <2>2. Good(staged)'
    BY <1>1, <1>3, <1>12, <2>1 DEF Good
  <2>3. ~Network(Live)
    BY <1>1 DEF Good, ValidRecord, Network
  <2>4. floor_cache' = Zero
    BY <1>1, <1>2, <2>3
  <2>5. router_floor_cache' = Zero
    <3>1. CASE build.policyC /\ r.v3
      <4>1. Live.rnf = Zero
        <5>1. Live = LiveOf(build, Stored, floor_cache, router_floor_cache, phase_cache)
          BY DEF Live, LiveOf
        <5>2. Live.rnf = IF build.policyC /\ Stored.v3 THEN router_floor_cache ELSE Stored.rnf
          BY <1>1, <5>1, LiveIs DEF KeysInv, Control
        <5> QED
          BY <1>4, <3>1, <5>2 DEF KeysInv, Staged
      <4> QED
        BY <1>2, <2>3, <3>1, <4>1
    <3>2. CASE ~(build.policyC /\ r.v3)
      BY <1>2, <3>2 DEF KeysInv, Staged
    <3> QED
      BY <3>1, <3>2
  <2> QED
    BY <1>1, <1>2, <1>3, <2>2, <2>4, <2>5 DEF KeysInv, Staged
<1> QED
  BY <1>14, <1>15, <1>17, <1>18, <1>19 DEF KeysInv

-----------------------------------------------------------------------------
(* Receiving                                                               *)

\* A slot whose key is new.
LEMMA NewSlotIs ==
  ASSUME NEW h, Hist(h), NEW i \in Slots
  PROVE  LET n == NewSlot(h, i)
         IN /\ Hist(n) /\ n.tc = [h.tc EXCEPT ![i] = 0] /\ n.router = [h.router EXCEPT ![i] = 0]
            /\ n.superseded = h.superseded \ {i} /\ n.aps = h.aps /\ n.left = h.left
<1> DEFINE n == NewSlot(h, i)
<1>1. /\ n = [f \in HistoryFields |-> n[f]]
      /\ n.tc = [h.tc EXCEPT ![i] = 0] /\ n.router = [h.router EXCEPT ![i] = 0]
      /\ n.superseded = h.superseded \ {i} /\ n.aps = h.aps /\ n.left = h.left
      /\ n.replayed = FALSE
  BY DEF NewSlot, Hist, HistoryFields
<1> HIDE DEF n
<1>2. n.tc \in [Slots -> Floor] /\ n.router \in [Slots -> Floor]
  <2>1. 0 \in Floor
    BY KeysConstants DEF Floor
  <2> QED
    BY <1>1, <2>1 DEF Hist
<1>3. Hist(n)
  BY <1>1, <1>2 DEF Hist
<1> QED
  BY <1>1, <1>3 DEF n

\* A record with the floors, the active key and the phase that matter.
LEMMA FitsAlike ==
  ASSUME NEW r, NEW t, NEW h, Fits(r, h), t.nf = r.nf, t.rnf = r.rnf, t.af = r.af,
         t.active = r.active, h.left => t.phase = "LEFT"
  PROVE  Fits(t, h)
BY DEF Fits, Below

\* The record and history after opening a frame.
LEMMA OpenedGives ==
  ASSUME KeysInv, Loaded, NEW e \in Envelope, Admits(Live, e)
  PROVE  LET s == Opened(Live, e)
             h == Hear(heard, Live, e)
         IN /\ build \in Profiles /\ Good(s) /\ Hist(h) /\ Fits(s, h) /\ ~h.left
            /\ s.phase = Live.phase /\ s.valid = Live.valid
            /\ s.phase \notin {"PROVISIONED", "LEFT"}
            /\ e.secured => Network(s)
<1>1. /\ Good(Live) /\ Fits(Live, heard) /\ Hist(heard) /\ build \in Profiles
  BY LoadedGives DEF KeysInv, Histories, Control
<1> DEFINE s == Opened(Live, e)
           h == Hear(heard, Live, e)
<1>2. Good(s) /\ Hist(h) /\ Fits(s, h) /\ ~h.left
  BY <1>1, OpenedFits, HearFits
<1>3. Alike(s, Live, {"rnf", "nf", "active", "newer", "af"})
  BY <1>1, OpenedIs
<1> HIDE DEF s, h
<1>4. s.phase = Live.phase /\ s.valid = Live.valid
  BY <1>3 DEF Alike, Fields
<1>5. /\ s.phase \notin {"PROVISIONED", "LEFT"}
      /\ e.secured => Network(s)
  BY <1>4 DEF Admits, Network
<1> QED
  BY <1>1, <1>2, <1>4, <1>5 DEF s, h

\* Frames that save only when they must: what is kept in RAM otherwise is what
\* a reset may forget.
LEMMA LazyKeeps ==
  ASSUME KeysInv, Loaded, UNCHANGED build, NEW e \in Envelope, Admits(Live, e),
         NEW t, Good(t), Alike(t, Opened(Live, e), {"timeout", "parent"}),
         NEW P, (e.aps = "current" \/ MustSave(Live, e)) => P,
         IF P THEN Save(t, Hear(heard, Live, e)) ELSE KeepOnly(t, Hear(heard, Live, e))
  PROVE  KeysInv'
<1> DEFINE s == Opened(Live, e)
           h == Hear(heard, Live, e)
<1>1. /\ build \in Profiles /\ Good(s) /\ Hist(h) /\ Fits(s, h) /\ ~h.left
  BY OpenedGives
<1>2. /\ Good(Live) /\ Fits(Live, heard) /\ Hist(heard) /\ Operating
  BY LoadedGives DEF KeysInv, Histories, Loaded
<1>3. Fits(t, h)
  <2>1. t.nf = s.nf /\ t.rnf = s.rnf /\ t.af = s.af /\ t.active = s.active
    BY DEF Alike, Fields
  <2> QED
    BY <1>1, <2>1, FitsAlike
<1>4. CASE P
  <2>1. Save(t, h)
    BY <1>4
  <2> QED
    BY <1>1, <1>2, <1>3, <2>1, SaveKeeps DEF Good
<1>5. CASE ~P
  <2> DEFINE p == e.secured /\ ParentRouter(Live)
             a == e.secured /\ Live.newer /\ e.slot # Live.active
  <2>1. KeepOnly(t, h) /\ e.aps # "current" /\ ~a /\ (p => build.policyC)
    BY <1>5 DEF MustSave
  <2>2. /\ Alike(s, Live, {"rnf", "nf", "active", "newer", "af"})
        /\ e.secured => e.slot \in Live.valid
        /\ s.rnf = IF p THEN [Live.rnf EXCEPT ![e.slot] = Past(e.counter)] ELSE Live.rnf
        /\ s.nf = IF e.secured /\ ~p THEN [Live.nf EXCEPT ![e.slot] = Past(e.counter)]
                  ELSE Live.nf
        /\ s.active = IF a THEN e.slot ELSE Live.active
        /\ s.newer = (Live.newer /\ ~a)
        /\ s.af = IF e.aps = "current" THEN Past(e.apsCounter) ELSE Live.af
    BY <1>1, <1>2, OpenedIs
  <2>3. /\ (~e.secured \/ ~ParentRouter(Live)) => h.router = heard.router
        /\ e.aps # "current" => h.aps = heard.aps
        /\ ~a => h.superseded = heard.superseded
        /\ ~e.secured /\ e.aps # "current" => h = heard
    BY <1>1, <1>2, HearFits
  <2> HIDE DEF s, h
  <2>4. s.active = Live.active /\ s.af = Live.af
    BY <2>1, <2>2
  <2>5. s.newer = Live.newer
    BY <1>2, <2>1, <2>2 DEF Good, Rec
  <2>6. Alike(t, Live, {"nf", "rnf", "timeout", "parent"})
    <3>1. Alike(t, s, {"timeout", "parent"})
      BY DEF s
    <3> QED
      BY <2>2, <2>4, <2>5, <3>1 DEF Alike, Fields
  <2>7. t.v3 = Live.v3 /\ t.rnf = s.rnf /\ t.nf = s.nf
    BY <2>6 DEF s, Alike, Fields
  <2>8. ~(build.policyC /\ t.v3) => t.rnf = Live.rnf
    BY <2>1, <2>2, <2>7 DEF ParentRouter
  <2>9. ~build.policyC => h.router = heard.router
    BY <2>1, <2>3
  <2>10. h.left = heard.left
    <3>1. ~heard.left
      BY <1>2 DEF Fits, Admits
    <3> QED
      BY <1>1, <1>2, <3>1 DEF Hist
  <2>11. ~Network(Live) => h = heard /\ t.nf = Live.nf /\ t.rnf = Live.rnf
    <3>1. ~Network(Live) => ~e.secured
      BY <2>2 DEF Network
    <3> QED
      BY <2>1, <2>2, <2>3, <2>7, <3>1
  <2>12. Live.phase # "PROVISIONED"
    BY DEF Admits
  <2> QED
    BY <1>1, <1>3, <2>1, <2>3, <2>6, <2>8, <2>9, <2>10, <2>11, <2>12, KeepOnlyKeeps
<1> QED
  BY <1>4, <1>5

\* Zero lies below every floor.
LEMMA BelowZero ==
  ASSUME NEW f, NEW g, f \in [Slots -> Floor], g \in [Slots -> Floor], Below(f, g),
         NEW i \in Slots
  PROVE  /\ Below([f EXCEPT ![i] = 0], g)
         /\ Below([f EXCEPT ![i] = 0], [g EXCEPT ![i] = 0])
<1>1. \A s \in Slots : g[s] \in Int /\ 0 <= g[s]
  BY KeysConstants DEF Floor
<1> QED
  BY <1>1 DEF Below

\* There is always a key that a record does not hold.
LEMMA OfferedAreKeys == ASSUME NEW r PROVE Offered(r) \subseteq Keys
<1> DEFINE held == {r.lk, r.pk, r.nk[0], r.nk[1]} \cap Keys
<1>1. \E k \in Keys : k \notin held
  <2>1. SUFFICES ASSUME Keys \subseteq {r.lk, r.pk, r.nk[0], r.nk[1]} PROVE FALSE
    OBVIOUS
  <2>2. /\ IsFiniteSet({r.lk, r.pk, r.nk[0], r.nk[1]})
        /\ Cardinality({r.lk, r.pk, r.nk[0], r.nk[1]}) \in 0..4
    <3> DEFINE A == {r.lk}
               B == A \cup {r.pk}
               C == B \cup {r.nk[0]}
               D == C \cup {r.nk[1]}
    <3>1. IsFiniteSet(A) /\ Cardinality(A) = 1
      BY FS_Singleton
    <3> HIDE DEF A
    <3>2. IsFiniteSet(B) /\ Cardinality(B) \in 1..2
      <4>1. /\ IsFiniteSet(B)
            /\ Cardinality(B) = IF r.pk \in A THEN Cardinality(A) ELSE Cardinality(A) + 1
        BY <3>1, FS_AddElement
      <4> HIDE DEF B
      <4> QED
        BY <3>1, <4>1
    <3> HIDE DEF B
    <3>3. IsFiniteSet(C) /\ Cardinality(C) \in 1..3
      BY <3>2, FS_AddElement
    <3> HIDE DEF C
    <3>4. IsFiniteSet(D) /\ Cardinality(D) \in 1..4
      BY <3>3, FS_AddElement
    <3>5. D = {r.lk, r.pk, r.nk[0], r.nk[1]}
      BY DEF A, B, C
    <3> QED
      BY <3>4, <3>5
  <2>3. Cardinality(Keys) <= 4
    BY <2>1, <2>2, FS_Subset, FS_CardinalityType, KeysConstants
  <2> QED
    BY <2>3, KeysConstants, FS_CardinalityType
<1>2. (CHOOSE k \in Keys : k \notin held) \in Keys
  BY <1>1
<1> QED
  BY <1>2 DEF Offered

\* Leaving fits the history in which leaving was announced or obeyed.
LEMMA LeavingFits ==
  ASSUME build \in Profiles, NEW r, Good(r), NEW h, Hist(h), Fits(r, h),
         NEW b \in BOOLEAN, b => Network(r)
  PROVE  LET t == [SetPhase(r, "LEFT") EXCEPT !.rejoin = b]
             n == [h EXCEPT !.left = TRUE]
         IN /\ Rec(t) /\ Sound(t) /\ (ValidRecord(t) \/ AbandonedRouterJoin(t))
            /\ Hist(n) /\ Fits(t, n)
<1> DEFINE t == [SetPhase(r, "LEFT") EXCEPT !.rejoin = b]
           n == [h EXCEPT !.left = TRUE]
<1>1. /\ Rec(t) /\ Sound(t) /\ (ValidRecord(t) \/ AbandonedRouterJoin(t))
      /\ Alike(t, r, {"phase", "timeout", "parent", "rejoin"}) /\ t.phase = "LEFT"
  BY LeaveFits
<1>2. /\ n = [f \in HistoryFields |-> n[f]]
      /\ n.tc = h.tc /\ n.router = h.router /\ n.superseded = h.superseded
      /\ n.aps = h.aps /\ n.left \in BOOLEAN /\ n.replayed = h.replayed
  BY DEF Hist, HistoryFields
<1> HIDE DEF t, n
<1>3. Hist(n)
  BY <1>2 DEF Hist
<1>4. t.nf = r.nf /\ t.rnf = r.rnf /\ t.af = r.af /\ t.active = r.active
  BY <1>1 DEF Alike, Fields
<1>5. Fits(t, n)
  BY <1>1, <1>2, <1>4 DEF Fits
<1> QED
  BY <1>1, <1>3, <1>5 DEF t, n

\* Each handler of a received frame.
LEMMA ReceiveKeeps == ASSUME KeysInv, Loaded, UNCHANGED build, Receive(Live) PROVE KeysInv'
<1>1. PICK e \in {x \in Envelope : Admits(Live, x)} :
        \E s \in {Opened(Live, e)}, h \in {Hear(heard, Live, e)} :
          \/ ReceiveRefused(Live, e, s, h)
          \/ ReceiveKnownNetworkKey(Live, e, s, h)
          \/ ReceiveFirstNetworkKey(Live, e, s, h)
          \/ ReceiveNextNetworkKey(Live, e, s, h)
          \/ ReceiveLinkKey(Live, e, s, h)
          \/ ReceiveConfirm(Live, e, s, h)
          \/ ReceiveSwitch(Live, e, s, h)
          \/ ReceiveLeave(Live, e, s, h)
          \/ ReceiveUpdate(Live, e, s, h)
          \/ ReceiveRejoined(Live, e, s, h)
          \/ ReceiveRejoinRefused(Live, e, s, h)
          \/ ReceiveTimeout(Live, e, s, h)
          \/ ReceiveData(Live, e, s, h)
  BY Zenon DEF Receive
<1> DEFINE s == Opened(Live, e)
           h == Hear(heard, Live, e)
<1>2. \/ ReceiveRefused(Live, e, s, h)
      \/ ReceiveKnownNetworkKey(Live, e, s, h)
      \/ ReceiveFirstNetworkKey(Live, e, s, h)
      \/ ReceiveNextNetworkKey(Live, e, s, h)
      \/ ReceiveLinkKey(Live, e, s, h)
      \/ ReceiveConfirm(Live, e, s, h)
      \/ ReceiveSwitch(Live, e, s, h)
      \/ ReceiveLeave(Live, e, s, h)
      \/ ReceiveUpdate(Live, e, s, h)
      \/ ReceiveRejoined(Live, e, s, h)
      \/ ReceiveRejoinRefused(Live, e, s, h)
      \/ ReceiveTimeout(Live, e, s, h)
      \/ ReceiveData(Live, e, s, h)
  BY <1>1, Zenon
<1>3. e \in Envelope /\ Admits(Live, e)
  BY <1>1, Zenon
<1>4. /\ build \in Profiles /\ Good(s) /\ Hist(h) /\ Fits(s, h) /\ ~h.left
      /\ s.phase = Live.phase /\ s.valid = Live.valid
      /\ s.phase \notin {"PROVISIONED", "LEFT"}
      /\ e.secured => Network(s)
  BY <1>3, OpenedGives
<1>5. Operating /\ Good(Live)
  BY LoadedGives DEF Loaded
<1>6. ASSUME NEW t, NEW n, Rec(t), Sound(t), ValidRecord(t) \/ AbandonedRouterJoin(t),
             Hist(n), Fits(t, n), Accept(Live, e, t, TRUE, n)
      PROVE  KeysInv'
  <2>1. Save(t, n)
    BY <1>6 DEF Accept
  <2> QED
    BY <1>5, <1>6, <2>1, SaveKeeps
<1>7. ASSUME NEW t, Good(t), Alike(t, s, {"timeout", "parent"}), Accept(Live, e, t, FALSE, h)
      PROVE  KeysInv'
  <2> DEFINE P == e.aps # "none" \/ MustSave(Live, e)
  <2>1. IF P THEN Save(t, h) ELSE KeepOnly(t, h)
    BY <1>7 DEF Accept
  <2>2. (e.aps = "current" \/ MustSave(Live, e)) => P
    OBVIOUS
  <2> HIDE DEF P
  <2> QED
    BY <1>3, <1>7, <2>1, <2>2, LazyKeeps
<1>8. Alike(s, s, {"timeout", "parent"}) /\ Alike(s, s, {})
  BY DEF Alike
<1>9. s.tc = Live.tc /\ Unbound(s) = Unbound(Live) /\ s.v3 = Live.v3 /\ s.unbound = Live.unbound
  <2>1. Alike(s, Live, {"rnf", "nf", "active", "newer", "af"})
    BY <1>3, <1>4, <1>5, OpenedIs
  <2> HIDE DEF s
  <2>2. s.tc = Live.tc /\ s.v3 = Live.v3 /\ s.unbound = Live.unbound
    BY <2>1 DEF Alike, Fields
  <2> QED
    BY <2>2 DEF Unbound
<1>10. CASE Accept(Live, e, s, TRUE, h)
  BY <1>4, <1>6, <1>10 DEF Good
<1> HIDE DEF s, h
<1>11. CASE ReceiveRefused(Live, e, s, h)
  <2> DEFINE P == e.aps = "current" \/ MustSave(Live, e)
  <2>1. IF P THEN Save(s, h) ELSE KeepOnly(s, h)
    BY <1>11 DEF ReceiveRefused, Reject
  <2>2. (e.aps = "current" \/ MustSave(Live, e)) => P
    OBVIOUS
  <2> HIDE DEF P
  <2> QED
    BY <1>3, <1>4, <1>8, <2>1, <2>2, LazyKeeps DEF s, h
<1>12. CASE ReceiveKnownNetworkKey(Live, e, s, h)
  BY <1>10, <1>12 DEF ReceiveKnownNetworkKey
<1>13. CASE ReceiveFirstNetworkKey(Live, e, s, h)
  <2>1. PICK k \in Offered(s), q \in FirstSequences :
          ~Reused(s, k) /\ Accept(Live, e, FirstKey(s, k, q), TRUE, NewSlot(h, 0))
    BY <1>13, Zenon DEF ReceiveFirstNetworkKey
  <2>2. k \in Keys
    BY OfferedAreKeys
  <2>3. Unbound(s) \/ s.tc = "tc"
    BY <1>3, <1>9, <1>13 DEF Admits, ReceiveFirstNetworkKey
  <2> DEFINE t == FirstKey(s, k, q)
             n == NewSlot(h, 0)
  <2>4. /\ Good(t) /\ t.nf = s.nf /\ t.rnf = [s.rnf EXCEPT ![0] = 0]
        /\ t.af = s.af /\ t.active = s.active /\ t.phase = "RECEIVED"
    BY <1>4, <1>13, <2>1, <2>2, <2>3, FirstKeyFits DEF ReceiveFirstNetworkKey
  <2>5. 0 \in Slots
    BY SlotsAre
  <2>6. /\ Hist(n) /\ n.tc = [h.tc EXCEPT ![0] = 0] /\ n.router = [h.router EXCEPT ![0] = 0]
        /\ n.superseded = h.superseded \ {0} /\ n.aps = h.aps /\ n.left = h.left
    BY <1>4, <2>5, NewSlotIs
  <2>7. Accept(Live, e, t, TRUE, n)
    BY <2>1
  <2> HIDE DEF t, n
  <2>8. Fits(t, n)
    <3>1. /\ s.nf \in [Slots -> Floor] /\ s.rnf \in [Slots -> Floor]
          /\ h.tc \in [Slots -> Floor] /\ h.router \in [Slots -> Floor]
          /\ Below(h.tc, s.nf) /\ Below(h.router, s.rnf)
      BY <1>4 DEF Good, Rec, Hist, Fits
    <3>2. Below(n.tc, t.nf) /\ Below(n.router, t.rnf)
      <4>1. Below([h.tc EXCEPT ![0] = 0], s.nf)
        BY <2>5, <3>1, BelowZero
      <4>2. Below([h.router EXCEPT ![0] = 0], [s.rnf EXCEPT ![0] = 0])
        BY <2>5, <3>1, BelowZero
      <4> QED
        BY <2>4, <2>6, <4>1, <4>2
    <3> QED
      BY <1>4, <2>4, <2>6, <3>2 DEF Fits
  <2> QED
    BY <1>6, <2>4, <2>6, <2>7, <2>8 DEF Good
<1>14. CASE ReceiveNextNetworkKey(Live, e, s, h)
  <2> DEFINE q == NextSequence(s)
             i == 1 - s.active
  <2>1. PICK k \in Offered(s) :
          ~Reused(s, k) /\ Accept(Live, e, NextKey(s, k, q), TRUE, NewSlot(h, i))
    BY <1>14, Zenon DEF ReceiveNextNetworkKey
  <2>2. k \in Keys /\ q \in Sequences /\ i \in Slots
    BY <1>4, OfferedAreKeys, NextSequenceIs, SlotsAre DEF Good, Rec
  <2>3. /\ Network(s) /\ s.verified /\ s.phase \notin {"LEFT", "REJOINING"}
        /\ \A j \in s.valid : q # s.seq[j]
    BY <1>4, <1>14 DEF ReceiveNextNetworkKey
  <2> HIDE DEF q
  <2> DEFINE t == NextKey(s, k, q)
             n == NewSlot(h, i)
  <2>4. /\ Good(t) /\ t.nf = [s.nf EXCEPT ![i] = 0] /\ t.rnf = [s.rnf EXCEPT ![i] = 0]
        /\ t.af = s.af /\ t.active = s.active /\ t.phase = s.phase
    BY <1>4, <2>1, <2>2, <2>3, NextKeyFits
  <2>5. Accept(Live, e, t, TRUE, n)
    BY <2>1
  <2> HIDE DEF i
  <2>6. /\ Hist(n) /\ n.tc = [h.tc EXCEPT ![i] = 0] /\ n.router = [h.router EXCEPT ![i] = 0]
        /\ n.superseded = h.superseded \ {i} /\ n.aps = h.aps /\ n.left = h.left
    BY <1>4, <2>2, NewSlotIs
  <2> HIDE DEF t, n
  <2>7. Fits(t, n)
    <3>1. /\ s.nf \in [Slots -> Floor] /\ s.rnf \in [Slots -> Floor]
          /\ h.tc \in [Slots -> Floor] /\ h.router \in [Slots -> Floor]
          /\ Below(h.tc, s.nf) /\ Below(h.router, s.rnf)
      BY <1>4 DEF Good, Rec, Hist, Fits
    <3>2. Below(n.tc, t.nf) /\ Below(n.router, t.rnf)
      BY <2>4, <2>2, <2>6, <3>1, BelowZero
    <3> QED
      BY <1>4, <2>4, <2>6, <3>2 DEF Fits
  <2> QED
    BY <1>6, <2>4, <2>5, <2>6, <2>7 DEF Good
<1>15. CASE ReceiveLinkKey(Live, e, s, h)
  <2>1. PICK k \in Offered(s) :
          /\ ~Reused(s, k)
          /\ Accept(Live, e, [SetPhase(s, "PROVISIONAL") EXCEPT !.pk = k, !.retired = FALSE],
                    TRUE, h)
    BY <1>15, Zenon DEF ReceiveLinkKey
  <2> DEFINE t == [SetPhase(s, "PROVISIONAL") EXCEPT !.pk = k, !.retired = FALSE]
  <2>2. k \in Keys
    BY OfferedAreKeys
  <2>3. Good(t) /\ Alike(t, s, {"phase", "timeout", "parent", "pk", "retired"})
    BY <1>4, <1>15, <2>1, <2>2, LinkKeyFits DEF ReceiveLinkKey
  <2>4. Accept(Live, e, t, TRUE, h)
    BY <2>1
  <2> HIDE DEF t
  <2>5. t.nf = s.nf /\ t.rnf = s.rnf /\ t.af = s.af /\ t.active = s.active
    BY <2>3 DEF Alike, Fields
  <2>6. Fits(t, h)
    BY <1>4, <2>5, FitsAlike
  <2> QED
    BY <1>4, <1>6, <2>3, <2>4, <2>6 DEF Good
<1>16. CASE ReceiveConfirm(Live, e, s, h)
  <2> DEFINE t == Confirmed(s, e)
             n == [h EXCEPT !.aps = e.apsCounter + 1]
  <2>1. s.phase = "WAIT_CONFIRM"
    BY <1>3, <1>4, <1>16 DEF Admits, ReceiveConfirm
  <2>2. /\ Good(t) /\ t.af = Past(e.apsCounter) /\ t.phase = "VERIFIED"
        /\ Alike(t, s, {"phase", "timeout", "parent", "lk", "pk", "af", "verified",
                        "retired"})
    BY <1>3, <1>4, <2>1, ConfirmedFits
  <2>3. Past(e.apsCounter) \in Floor /\ Past(e.apsCounter) = e.apsCounter + 1
    BY <1>3, EnvelopeIs, PastIs
  <2>4. /\ Hist(n) /\ n.tc = h.tc /\ n.router = h.router /\ n.superseded = h.superseded
        /\ n.left = h.left /\ n.aps = t.af
    BY <1>4, <2>2, <2>3 DEF Hist, HistoryFields
  <2>5. Accept(Live, e, t, TRUE, n)
    BY <1>16 DEF ReceiveConfirm
  <2> HIDE DEF t, n
  <2>6. t.nf = s.nf /\ t.rnf = s.rnf /\ t.active = s.active /\ n.aps <= t.af
    <3>1. t.nf = s.nf /\ t.rnf = s.rnf /\ t.active = s.active
      BY <2>2 DEF Alike, Fields
    <3>2. n.aps <= t.af
      BY <2>2, <2>3, <2>4, KeysConstants DEF Floor
    <3> QED
      BY <3>1, <3>2
  <2>7. Fits(t, n)
    BY <1>4, <2>4, <2>6 DEF Fits
  <2> QED
    BY <1>6, <2>2, <2>4, <2>5, <2>7 DEF Good
<1>17. CASE ReceiveSwitch(Live, e, s, h)
  <2>1. CASE s.newer /\ Accept(Live, e, [s EXCEPT !.active = 1 - @, !.newer = FALSE], TRUE,
                               [h EXCEPT !.superseded = {s.active}])
    <3> DEFINE t == [s EXCEPT !.active = 1 - @, !.newer = FALSE]
               n == [h EXCEPT !.superseded = {s.active}]
    <3>1. /\ Good(t) /\ Alike(t, s, {"active", "newer"}) /\ t.active = 1 - s.active
      BY <1>4, <2>1, SwitchFits
    <3>2. s.active \in Slots /\ 1 - s.active # s.active
      BY <1>4, SlotsAre DEF Good, Rec
    <3>3. /\ Hist(n) /\ n.tc = h.tc /\ n.router = h.router /\ n.superseded = {s.active}
          /\ n.left = h.left /\ n.aps = h.aps
      BY <1>4, <3>2 DEF Hist, HistoryFields
    <3>4. Accept(Live, e, t, TRUE, n)
      BY <2>1
    <3> HIDE DEF t, n
    <3>5. t.nf = s.nf /\ t.rnf = s.rnf /\ t.af = s.af
      BY <3>1 DEF Alike, Fields
    <3>6. Fits(t, n)
      BY <1>4, <3>1, <3>2, <3>3, <3>5 DEF Fits
    <3> QED
      BY <1>6, <3>1, <3>3, <3>4, <3>6 DEF Good
  <2> QED
    BY <1>10, <1>17, <2>1 DEF ReceiveSwitch
<1>18. CASE ReceiveLeave(Live, e, s, h)
  <2>1. PICK b \in BOOLEAN :
          Accept(Live, e, [SetPhase(s, "LEFT") EXCEPT !.rejoin = b], TRUE,
                 [h EXCEPT !.left = TRUE])
    BY <1>18, Zenon DEF ReceiveLeave
  <2> DEFINE t == [SetPhase(s, "LEFT") EXCEPT !.rejoin = b]
             n == [h EXCEPT !.left = TRUE]
  <2>2. Network(s)
    BY <1>4, <1>18 DEF ReceiveLeave, Command
  <2>3. /\ Rec(t) /\ Sound(t) /\ (ValidRecord(t) \/ AbandonedRouterJoin(t))
        /\ Hist(n) /\ Fits(t, n)
    BY <1>4, <2>2, LeavingFits
  <2> QED
    BY <1>6, <2>1, <2>3
<1>19. CASE ReceiveUpdate(Live, e, s, h)
  BY <1>10, <1>19 DEF ReceiveUpdate
<1>20. CASE ReceiveRejoined(Live, e, s, h)
  <2>1. PICK a \in Addresses :
          RejoinAddress(s, a) /\ Accept(Live, e, Rejoined(s, a), TRUE, h)
    BY <1>20, Zenon DEF ReceiveRejoined
  <2> DEFINE t == Rejoined(s, a)
  <2>2. /\ Good(t)
        /\ Alike(t, s, {"phase", "timeout", "parent", "addr", "rejoin", "ractive"})
    BY <1>4, <1>20, <2>1, RejoinedFits DEF ReceiveRejoined
  <2>3. Accept(Live, e, t, TRUE, h)
    BY <2>1
  <2> HIDE DEF t
  <2>4. t.nf = s.nf /\ t.rnf = s.rnf /\ t.af = s.af /\ t.active = s.active
    BY <2>2 DEF Alike, Fields
  <2>5. Fits(t, h)
    BY <1>4, <2>4, FitsAlike
  <2> QED
    BY <1>4, <1>6, <2>2, <2>3, <2>5 DEF Good
<1>21. CASE ReceiveRejoinRefused(Live, e, s, h)
  BY <1>10, <1>21 DEF ReceiveRejoinRefused
<1>22. CASE ReceiveTimeout(Live, e, s, h)
  <2>1. PICK c \in BOOLEAN :
          Accept(Live, e, [s EXCEPT !.timeout = FALSE, !.parent = c], FALSE, h)
    BY <1>22, Zenon DEF ReceiveTimeout
  <2> DEFINE t == [s EXCEPT !.timeout = FALSE, !.parent = c]
  <2>2. Network(s) /\ s.phase \notin {"LEFT", "REJOINING"}
    BY <1>4, <1>22 DEF ReceiveTimeout, Command
  <2>3. Good(t) /\ Alike(t, s, {"timeout", "parent"})
    BY <1>4, <2>2, TimeoutFits
  <2> QED
    BY <1>7, <2>1, <2>3
<1>23. CASE ReceiveData(Live, e, s, h)
  BY <1>4, <1>7, <1>8, <1>23 DEF ReceiveData
<1> QED
  BY <1>2, <1>11, <1>12, <1>13, <1>14, <1>15, <1>16, <1>17, <1>18, <1>19, <1>20, <1>21,
     <1>22, <1>23 DEF s, h

-----------------------------------------------------------------------------
(* The other calls                                                         *)

\* A fault that leaves the journal and the history alone.
LEMMA FaultKeeps ==
  ASSUME KeysInv, NEW x \in {"STORAGE", "FORMAT"}, KeysFault(x),
         UNCHANGED <<build, journal, heard, kept>>,
         x = "FORMAT" => journal # Nothing /\ AbandonedRouterJoin(journal)
  PROVE  KeysInv'
<1>1. /\ security_keys_phase' = "FAILED" /\ security_keys_result' = x
      /\ staged' = Nothing /\ ~Operating'
      /\ floor_cache' = Zero /\ router_floor_cache' = Zero /\ phase_cache' = Nothing
      /\ Zero \in [Slots -> Floor]
  BY FaultIs
<1>2. Control'
  BY <1>1 DEF KeysInv, Control, AbandonedRouterJoin
<1>3. Staged' /\ Works'
  BY <1>1 DEF Staged, Works
<1>4. (ValidRecord(journal) \/ AbandonedRouterJoin(journal))
       => (ValidRecord(journal) \/ AbandonedRouterJoin(journal))'
  BY DEF ValidRecord, ValidRouter, ValidSlots, ValidPending, Network, AbandonedRouterJoin
<1>5. DurableFits => DurableFits'
  BY DEF DurableFits
<1>6. Histories' /\ Durable'
  BY <1>1, <1>4, <1>5 DEF KeysInv, Histories, Durable
<1> QED
  BY <1>2, <1>3, <1>6 DEF KeysInv

\* A call that saves a good record with the history it found.
LEMMA GoodSaveKeeps ==
  ASSUME KeysInv, Loaded, UNCHANGED build, NEW t, Good(t), Fits(t, heard), Save(t, heard)
  PROVE  KeysInv'
BY SaveKeeps DEF Good, Loaded, KeysInv, Histories

\* A record restaged before the first commit, or saved after it.
LEMMA RestageKeeps ==
  ASSUME KeysInv, Loaded, UNCHANGED build, NEW t, Good(t), Fits(t, heard),
         t.phase = "ASSOCIATED",
         Live.phase \in {"PROVISIONED", "ASSOCIATED"},
         KeysRestage(t)
  PROVE  KeysInv'
<1>1. CASE staged = Nothing
  BY <1>1, GoodSaveKeeps DEF KeysRestage
<1>2. CASE staged # Nothing
  <2>1. /\ staged' = t /\ security_keys_phase' = t.phase
        /\ UNCHANGED <<journal, security_keys_result, cache, retained, heard, kept>>
    BY <1>2 DEF KeysRestage
  <2>2. UNCHANGED <<floor_cache, router_floor_cache, phase_cache>>
    BY <2>1 DEF cache
  <2>3. /\ journal = Nothing /\ floor_cache = Zero /\ router_floor_cache = Zero
        /\ heard = NoHistory
    BY <1>2 DEF KeysInv, Staged, Durable
  <2>4. t # Nothing /\ Stored' = t /\ Operating' /\ Rec(t)
    BY <2>1, RecIsSomething DEF Good, Stored, Operating, Phases
  <2>5. ValidRecord(t) => ValidRecord(staged)'
    BY <2>1 DEF ValidRecord, ValidRouter, ValidSlots, ValidPending, Network
  <2>6. Good(staged)'
    BY <2>1, <2>5 DEF Good
  <2>7. security_keys_result # "FORMAT"
    BY DEF KeysInv, Control, Loaded, Operating, Phases
  <2>8. Control'
    BY <2>1, <2>2, <2>3, <2>4, <2>7 DEF KeysInv, Control, Operating
  <2>9. Histories' /\ Staged' /\ Durable'
    BY <2>1, <2>2, <2>3, <2>4, <2>6 DEF KeysInv, Histories, Staged, Durable
  <2> DEFINE u == LiveOf(build, t, floor_cache, router_floor_cache, phase_cache)
  <2>10. Live' = u
    BY <2>2, <2>4 DEF Live, LiveOf
  <2>11. /\ Rec(u) /\ Alike(u, t, {"nf", "rnf", "phase", "timeout", "parent"})
         /\ u.nf = floor_cache
         /\ u.rnf = IF build.policyC /\ t.v3 THEN router_floor_cache ELSE t.rnf
         /\ phase_cache = Nothing => /\ u.phase = t.phase /\ u.timeout = t.timeout
                                     /\ u.parent = t.parent
         /\ phase_cache # Nothing => /\ u.phase = phase_cache.phase
                                     /\ u.timeout = phase_cache.timeout
                                     /\ u.parent = phase_cache.parent
    BY <2>4, LiveIs DEF KeysInv, Control
  <2> HIDE DEF u
  <2>12. phase_cache # Nothing => /\ phase_cache.phase = "ASSOCIATED"
                                 /\ phase_cache.timeout = FALSE /\ phase_cache.parent = FALSE
    <3> SUFFICES ASSUME phase_cache # Nothing
                 PROVE  /\ phase_cache.phase = "ASSOCIATED"
                        /\ phase_cache.timeout = FALSE /\ phase_cache.parent = FALSE
      OBVIOUS
    <3>1. Good(Live) /\ Live.phase = security_keys_phase /\ Rec(Stored)
      BY LoadedGives
    <3>2. Live = LiveOf(build, Stored, floor_cache, router_floor_cache, phase_cache)
      BY DEF Live, LiveOf
    <3>3. /\ Live.phase = phase_cache.phase /\ Live.timeout = phase_cache.timeout
          /\ Live.parent = phase_cache.parent
      BY <3>1, <3>2, LiveIs DEF KeysInv, Control
    <3>4. Live.phase = "ASSOCIATED"
      BY <1>2, <3>1 DEF KeysInv, Staged
    <3>5. Live.timeout = FALSE /\ Live.parent = FALSE
      BY <3>1, <3>4 DEF Good, Rec, ValidRecord
    <3> QED
      BY <3>3, <3>4, <3>5
  <2>13. /\ t.nf = Zero /\ t.timeout = FALSE /\ t.parent = FALSE
    BY DEF Good, Rec, ValidRecord
  <2>14. t.v3 => t.rnf = Zero
    <3> SUFFICES ASSUME t.v3 PROVE t.rnf = Zero
      OBVIOUS
    <3>1. t.known => \A s \in Slots : t.rnf[s] = 0
      BY DEF Good, ValidRecord, ValidRouter
    <3>2. t.rnf \in [Slots -> Floor]
      BY <2>4 DEF Rec
    <3>3. ~t.known => t.rnf = Zero
      BY DEF Good, ValidRecord, ValidRouter
    <3> QED
      BY <3>1, <3>2, <3>3 DEF Zero
  <2>15. u.nf = t.nf /\ u.rnf = t.rnf
    BY <2>3, <2>11, <2>13, <2>14
  <2>16. u.phase = t.phase /\ u.timeout = t.timeout /\ u.parent = t.parent
    BY <2>11, <2>12, <2>13
  <2>17. Alike(u, t, {})
    BY <2>11, <2>15, <2>16 DEF Alike, Fields
  <2>18. Live' = t
    BY <2>4, <2>10, <2>11, <2>17, SameRecord
  <2>19. ValidRecord(t) => ValidRecord(Live)'
    BY <2>18 DEF ValidRecord, ValidRouter, ValidSlots, ValidPending, Network
  <2>20. Good(Live)' /\ Fits(Live, heard)'
    BY <2>1, <2>18, <2>19 DEF Good, Fits
  <2>21. Works'
    BY <2>1, <2>2, <2>4, <2>12, <2>20 DEF Works
  <2> QED
    BY <2>8, <2>9, <2>21 DEF KeysInv
<1> QED
  BY <1>1, <1>2

\* The calls that send, commission or choose a parent.
LEMMA CallKeeps == ASSUME KeysInv, Loaded, UNCHANGED build, Call(Live) PROVE KeysInv'
<1> DEFINE r == Live
<1>1. /\ Good(r) /\ Fits(r, heard) /\ Hist(heard) /\ build \in Profiles /\ Operating
  BY LoadedGives DEF KeysInv, Histories, Control, Loaded
<1>2. ASSUME NEW t, Good(t), t.nf = r.nf, t.rnf = r.rnf, t.af = r.af, t.active = r.active,
             r.phase = "LEFT" => t.phase = "LEFT"
      PROVE  Fits(t, heard)
  BY <1>1, <1>2, FitsAlike DEF Fits
<1>3. CASE Receive(r)
  BY <1>3, ReceiveKeeps
<1>4. CASE TakeFails(r)
  BY <1>4, FaultKeeps DEF TakeFails
<1>5. CASE Request(r)
  <2> DEFINE t == SetPhase(r, "REQUESTED")
  <2>1. Good(t) /\ Save(t, heard) /\ r.phase # "LEFT"
    BY <1>1, <1>5, RequestFits DEF Request
  <2>2. Alike(t, r, {"phase", "timeout", "parent"})
    BY <1>1, SetPhaseIs DEF Good, Phases
  <2> HIDE DEF t
  <2>3. Fits(t, heard)
    BY <1>2, <2>1, <2>2 DEF Alike, Fields
  <2> QED
    BY <2>1, <2>3, GoodSaveKeeps
<1>6. CASE Verify(r)
  <2> DEFINE t == SetPhase(r, "WAIT_CONFIRM")
  <2>1. Good(t) /\ Save(t, heard) /\ r.phase # "LEFT"
    BY <1>1, <1>6, VerifyFits DEF Verify
  <2>2. Alike(t, r, {"phase", "timeout", "parent"})
    BY <1>1, SetPhaseIs DEF Good, Phases
  <2> HIDE DEF t
  <2>3. Fits(t, heard)
    BY <1>2, <2>1, <2>2 DEF Alike, Fields
  <2> QED
    BY <2>1, <2>3, GoodSaveKeeps
<1>7. ASSUME NEW b \in BOOLEAN, b => Network(r),
             Save([SetPhase(r, "LEFT") EXCEPT !.rejoin = b], [heard EXCEPT !.left = TRUE])
      PROVE  KeysInv'
  <2> DEFINE t == [SetPhase(r, "LEFT") EXCEPT !.rejoin = b]
             n == [heard EXCEPT !.left = TRUE]
  <2>1. /\ Rec(t) /\ Sound(t) /\ (ValidRecord(t) \/ AbandonedRouterJoin(t))
        /\ Hist(n) /\ Fits(t, n)
    BY <1>1, <1>7, LeavingFits
  <2> QED
    BY <1>1, <1>7, <2>1, SaveKeeps
<1>8. CASE Leave(r)
  BY <1>7, <1>8 DEF Leave
<1>9. CASE SendLeave(r)
  <2>1. PICK b \in BOOLEAN :
          Save([SetPhase(r, "LEFT") EXCEPT !.rejoin = b], [heard EXCEPT !.left = TRUE])
    BY <1>9, Zenon DEF SendLeave
  <2> QED
    BY <1>7, <1>9, <2>1 DEF SendLeave
<1>10. CASE SendRejoin(r)
  <2> DEFINE t == SetPhase(r, "REJOINING")
             n == [heard EXCEPT !.left = FALSE]
  <2>1. Good(t) /\ Save(t, n)
    BY <1>1, <1>10, RejoinFits DEF SendRejoin
  <2>2. Alike(t, r, {"phase", "timeout", "parent"})
    BY <1>1, SetPhaseIs DEF Good, Phases
  <2>3. /\ n = [f \in HistoryFields |-> n[f]]
        /\ n.tc = heard.tc /\ n.router = heard.router /\ n.superseded = heard.superseded
        /\ n.aps = heard.aps /\ ~n.left /\ n.left \in BOOLEAN /\ n.replayed = heard.replayed
    BY <1>1 DEF Hist, HistoryFields
  <2> HIDE DEF t, n
  <2>4. Hist(n)
    BY <1>1, <2>3 DEF Hist
  <2>5. t.nf = r.nf /\ t.rnf = r.rnf /\ t.af = r.af /\ t.active = r.active
    BY <2>2 DEF Alike, Fields
  <2>6. Fits(t, n)
    BY <1>1, <2>3, <2>5 DEF Fits
  <2> QED
    BY <1>1, <2>1, <2>4, <2>6, SaveKeeps DEF Good
<1>11. CASE SendTimeout(r)
  <2> DEFINE t == [r EXCEPT !.timeout = TRUE]
  <2>1. KeepOnly(t, heard) /\ Network(r) /\ r.phase \notin {"LEFT", "REJOINING"}
    BY <1>11 DEF SendTimeout
  <2>2. t = [r EXCEPT !.timeout = TRUE, !.parent = r.parent] /\ r.parent \in BOOLEAN
    BY <1>1 DEF Good, Rec, Fields
  <2>3. Good(t) /\ Alike(t, r, {"timeout", "parent"})
    BY <1>1, <2>1, <2>2, TimeoutFits
  <2> HIDE DEF t
  <2>4. /\ t.nf = r.nf /\ t.rnf = r.rnf /\ t.af = r.af /\ t.active = r.active
        /\ t.phase = r.phase /\ Alike(t, r, {"nf", "rnf", "timeout", "parent"})
    BY <2>3 DEF Alike, Fields
  <2>5. Fits(t, heard)
    BY <1>2, <2>3, <2>4
  <2>6. r.phase # "PROVISIONED"
    BY <1>1, <2>1 DEF Good, ValidRecord, Network
  <2> HIDE DEF r
  <2> QED
    BY <1>1, <2>1, <2>3, <2>4, <2>5, <2>6, KeepOnlyKeeps DEF r
<1>12. CASE Associate(r)
  <2>1. PICK a \in Addresses : KeysRestage([SetPhase(r, "ASSOCIATED") EXCEPT !.addr = a])
    BY <1>12, Zenon DEF Associate
  <2> DEFINE t == [SetPhase(r, "ASSOCIATED") EXCEPT !.addr = a]
  <2>2. /\ Good(t) /\ Alike(t, r, {"phase", "timeout", "parent", "addr"})
        /\ t.phase = "ASSOCIATED" /\ r.phase = "PROVISIONED"
    BY <1>1, <1>12, <2>1, AssociateFits DEF Associate
  <2>3. KeysRestage(t)
    BY <2>1
  <2> HIDE DEF t
  <2>4. Fits(t, heard)
    BY <1>2, <2>2 DEF Alike, Fields
  <2> QED
    BY <2>2, <2>3, <2>4, RestageKeeps
<1>13. CASE RouterParent(r)
  <2>1. PICK a \in Addresses :
          /\ a # r.addr
          /\ KeysRestage([r EXCEPT !.v3 = TRUE, !.router = r.tc, !.raddr = a, !.rnf = Zero,
                               !.known = TRUE, !.ractive = TRUE, !.unbound = TRUE])
    BY <1>13, Zenon DEF RouterParent
  <2> DEFINE t == [r EXCEPT !.v3 = TRUE, !.router = r.tc, !.raddr = a, !.rnf = Zero,
                            !.known = TRUE, !.ractive = TRUE, !.unbound = TRUE]
  <2>2. /\ Good(t) /\ r.phase = "ASSOCIATED"
        /\ Alike(t, r, {"v3", "router", "raddr", "known", "ractive", "unbound"})
    BY <1>1, <1>13, <2>1, RouterParentFits DEF RouterParent
  <2>3. KeysRestage(t)
    BY <2>1
  <2> HIDE DEF t
  <2>4. Fits(t, heard) /\ t.phase = "ASSOCIATED"
    BY <1>2, <2>2 DEF Alike, Fields
  <2> QED
    BY <2>2, <2>3, <2>4, RestageKeeps
<1>14. CASE UpgradeParent(r)
  <2> DEFINE t == [r EXCEPT !.v3 = TRUE]
  <2>1. Good(t) /\ Alike(t, r, {"v3"}) /\ Save(t, heard)
    BY <1>1, <1>14, UpgradeFits DEF UpgradeParent
  <2> HIDE DEF t
  <2>2. Fits(t, heard)
    BY <1>2, <2>1 DEF Alike, Fields
  <2> QED
    BY <2>1, <2>2, GoodSaveKeeps
<1>15. CASE RememberParent(r)
  <2>1. PICK a \in Addresses, floor \in [Slots -> Floor] :
          /\ a # r.addr
          /\ \A s \in Slots : IF s \in r.valid
                              THEN floor[s] > 0 /\ floor[s] >= r.rnf[s]
                              ELSE floor[s] = 0
          /\ Save([r EXCEPT !.router = "router", !.raddr = a, !.rnf = floor,
                            !.known = TRUE], heard)
    BY <1>15, Zenon DEF RememberParent
  <2> DEFINE t == [r EXCEPT !.router = "router", !.raddr = a, !.rnf = floor, !.known = TRUE]
  <2>2. r.phase = "VERIFIED" /\ r.v3 /\ \A s \in Slots \ r.valid : floor[s] = 0
    BY <1>15, <2>1 DEF RememberParent
  <2>3. /\ Good(t) /\ t.rnf = floor /\ Alike(t, r, {"router", "raddr", "rnf", "known"})
    BY <1>1, <2>1, <2>2, RememberFits
  <2>4. Save(t, heard)
    BY <2>1
  <2> HIDE DEF t
  <2>5. t.nf = r.nf /\ t.af = r.af /\ t.active = r.active /\ t.phase = r.phase
    BY <2>3 DEF Alike, Fields
  <2>6. Below(heard.router, floor)
    <3>1. \A s \in Slots \ r.valid : r.rnf[s] = 0
      BY <1>1, <2>2 DEF Good, ValidRecord, ValidRouter, Zero
    <3>2. \A s \in Slots : /\ r.rnf[s] \in Int /\ floor[s] \in Int /\ heard.router[s] \in Int
                           /\ heard.router[s] <= r.rnf[s]
      BY <1>1, KeysConstants DEF Good, Rec, Hist, Fits, Below, Floor
    <3>3. \A s \in Slots : r.rnf[s] <= floor[s]
      BY <2>1, <3>1, <3>2
    <3> QED
      BY <3>2, <3>3 DEF Below
  <2>7. Fits(t, heard)
    BY <1>1, <2>3, <2>5, <2>6 DEF Fits
  <2> QED
    BY <2>3, <2>4, <2>7, GoodSaveKeeps
<1>16. CASE SelectParent(r)
  <2>1. PICK b \in BOOLEAN : (b => r.known) /\ Save([r EXCEPT !.attempt = b], heard)
    BY <1>16, Zenon DEF SelectParent
  <2> DEFINE t == [r EXCEPT !.attempt = b]
  <2>2. Good(t) /\ Alike(t, r, {"attempt"}) /\ Save(t, heard)
    BY <1>1, <1>16, <2>1, SelectFits DEF SelectParent
  <2> HIDE DEF t
  <2>3. Fits(t, heard)
    BY <1>2, <2>2 DEF Alike, Fields
  <2> QED
    BY <2>2, <2>3, GoodSaveKeeps
<1> QED
  BY <1>3, <1>4, <1>5, <1>6, <1>8, <1>9, <1>10, <1>11, <1>12, <1>13, <1>14, <1>15, <1>16
     DEF Call

-----------------------------------------------------------------------------
(* open(), provision, recommission and reset                               *)

\* open() finds the record as the last save left it.
LEMMA OpenKeeps == ASSUME KeysInv, Open PROVE KeysInv'
<1>1. /\ security_keys_phase = "COLD" /\ UNCHANGED <<build, journal, heard, kept>>
      /\ staged = Nothing /\ ~Operating
  BY DEF Open, KeysInv, Control, Operating, Phases
<1>2. CASE /\ journal = Nothing /\ security_keys_phase' = "UNPROVISIONED"
           /\ UNCHANGED <<staged, security_keys_result, cache, retained>>
  <2>1. UNCHANGED <<floor_cache, router_floor_cache, phase_cache>> /\ ~Operating'
    BY <1>2 DEF cache, Operating, Phases
  <2>2. security_keys_result # "FORMAT"
    BY <1>1 DEF KeysInv, Control
  <2>3. Control'
    BY <1>1, <1>2, <2>1, <2>2 DEF KeysInv, Control
  <2>4. Histories' /\ Staged' /\ Durable' /\ Works'
    BY <1>1, <1>2, <2>1 DEF KeysInv, Histories, Staged, Durable, Works
  <2> QED
    BY <2>3, <2>4 DEF KeysInv
<1>3. CASE /\ journal # Nothing /\ ValidRecord(journal)
           /\ security_keys_phase' = journal.phase /\ KeepVolatile(journal)
           /\ UNCHANGED <<staged, security_keys_result, retained>>
  <2>1. Rec(journal) /\ Sound(journal) /\ DurableFits
    BY <1>3 DEF KeysInv, Durable
  <2> DEFINE r == journal
  <2>2. r \in {journal} /\ journal' = r /\ staged' = Nothing
    BY <1>1, <1>3
  <2>3. /\ Stored' = r /\ Live' = r /\ Stored' # Nothing
        /\ floor_cache' \in [Slots -> Floor] /\ router_floor_cache' \in [Slots -> Floor]
        /\ phase_cache' \in PhaseByte /\ phase_cache'.phase = r.phase
    BY <1>1, <1>3, <2>1, <2>2, LiveAfterSave DEF KeysInv, Control
  <2>4. /\ r.phase \in Phases /\ r.phase \notin {"COLD", "UNPROVISIONED", "FAILED"}
        /\ security_keys_result # "FORMAT"
    BY <1>1, <2>1 DEF Rec, Phases, KeysInv, Control
  <2>5. Control'
    BY <1>1, <1>3, <2>3, <2>4 DEF KeysInv, Control, Operating
  <2>6. Histories' /\ Staged'
    BY <1>1, <1>3, <2>2, <2>4 DEF KeysInv, Histories, Staged
  <2>7. ValidRecord(journal)' /\ ValidRecord(Live)'
    BY <1>1, <1>3, <2>3 DEF ValidRecord, ValidRouter, ValidSlots, ValidPending, Network
  <2>8. DurableFits'
    BY <1>1, <2>1 DEF DurableFits
  <2>9. Durable'
    BY <1>1, <1>3, <2>1, <2>7, <2>8 DEF Durable
  <2>10. Fits(journal, heard)
    BY <1>1, <2>1 DEF Fits, DurableFits, KeysInv, Histories
  <2>11. Good(Live)' /\ Fits(Live, heard)'
    BY <1>1, <2>1, <2>3, <2>7, <2>10 DEF Good, Fits
  <2>12. Works'
    BY <1>3, <2>3, <2>11 DEF Works
  <2> QED
    BY <2>5, <2>6, <2>9, <2>12 DEF KeysInv
<1>4. CASE journal # Nothing /\ ~ValidRecord(journal) /\ KeysFault("FORMAT")
  BY <1>1, <1>4, FaultKeeps DEF KeysInv, Durable
<1>5. CASE KeysFault("STORAGE")
  BY <1>1, <1>5, FaultKeeps
<1> QED
  BY <1>1, <1>2, <1>3, <1>4, <1>5 DEF Open

\* A new record: staged on an erased device, saved over a retained one.
LEMMA ProvisionKeeps == ASSUME KeysInv, Provision PROVE KeysInv'
<1>1. /\ security_keys_phase = "UNPROVISIONED" /\ UNCHANGED build /\ ~Operating
      /\ build \in Profiles
  BY DEF Provision, KeysInv, Control, Operating, Phases
<1>2. PICK tc \in {"tc", "router"} :
        IF retained
        THEN Save(Provisioned(tc), [NoHistory EXCEPT !.replayed = heard.replayed])
        ELSE /\ \/ /\ staged' = Provisioned(tc)
                   /\ security_keys_phase' = "PROVISIONED"
                   /\ UNCHANGED <<security_keys_result, cache, retained>>
                \/ KeysFault("STORAGE")
             /\ UNCHANGED <<journal, heard, kept>>
  BY DEF Provision
<1> DEFINE t == Provisioned(tc)
           n == [NoHistory EXCEPT !.replayed = heard.replayed]
<1>3. Good(t) /\ t.phase = "PROVISIONED"
  BY <1>1, ProvisionFits
<1>4. t.nf = Zero /\ t.rnf = Zero /\ t.af = 0 /\ t.timeout = FALSE /\ t.parent = FALSE
  BY DEF Provisioned
<1>5. /\ Zero \in [Slots -> Floor] /\ 0 \in Floor /\ \A s \in Slots : Zero[s] = 0
  BY KeysConstants DEF Zero, Floor
<1>6. /\ n = [f \in HistoryFields |-> n[f]] /\ n.tc = Zero /\ n.router = Zero /\ n.aps = 0
      /\ n.superseded = {} /\ ~n.left /\ n.left \in BOOLEAN /\ n.replayed = heard.replayed
  BY DEF NoHistory, HistoryFields
<1> HIDE DEF t, n
<1>7. heard.replayed = FALSE
  BY DEF KeysInv, Histories, Hist
<1>8. Hist(n)
  BY <1>5, <1>6, <1>7 DEF Hist
<1>9. Fits(t, n)
  BY <1>3, <1>4, <1>5, <1>6 DEF Fits, Below
<1>10. CASE retained
  <2>1. Save(t, n)
    BY <1>2, <1>10 DEF t, n
  <2> QED
    BY <1>1, <1>3, <1>8, <1>9, <2>1, SaveKeeps DEF Good
<1>11. CASE ~retained /\ KeysFault("STORAGE") /\ UNCHANGED <<journal, heard, kept>>
  BY <1>1, <1>11, FaultKeeps
<1>12. CASE /\ ~retained /\ staged' = t /\ security_keys_phase' = "PROVISIONED"
            /\ UNCHANGED <<security_keys_result, cache, retained>>
            /\ UNCHANGED <<journal, heard, kept>>
  <2>1. /\ UNCHANGED <<floor_cache, router_floor_cache, phase_cache>> /\ Operating'
        /\ journal = Nothing /\ journal' = Nothing
        /\ floor_cache = Zero /\ router_floor_cache = Zero /\ phase_cache = Nothing
        /\ security_keys_result # "FORMAT"
    BY <1>1, <1>12 DEF cache, Operating, Phases, KeysInv, Control
  <2>2. t # Nothing /\ Stored' = t /\ Rec(t)
    BY <1>3, <1>12, RecIsSomething DEF Good, Stored
  <2>3. ValidRecord(t) => ValidRecord(staged)'
    BY <1>1, <1>12 DEF ValidRecord, ValidRouter, ValidSlots, ValidPending, Network
  <2>4. Good(staged)'
    BY <1>3, <1>12, <2>3 DEF Good
  <2>5. Control'
    BY <1>1, <1>12, <2>1 DEF KeysInv, Control, Operating
  <2>6. Histories' /\ Staged' /\ Durable'
    BY <1>3, <1>12, <2>1, <2>4 DEF KeysInv, Histories, Staged, Durable
  <2> DEFINE u == LiveOf(build, t, Zero, Zero, Nothing)
  <2>7. Live' = u
    BY <1>1, <2>1, <2>2 DEF Live, LiveOf
  <2>8. /\ Rec(u) /\ Alike(u, t, {"nf", "rnf", "phase", "timeout", "parent"})
        /\ u.nf = Zero /\ u.rnf = (IF build.policyC /\ t.v3 THEN Zero ELSE t.rnf)
        /\ u.phase = t.phase /\ u.timeout = t.timeout /\ u.parent = t.parent
    BY <1>5, <2>2, LiveIs
  <2> HIDE DEF u
  <2>9. Alike(u, t, {})
    BY <1>4, <2>8 DEF Alike, Fields
  <2>10. Live' = t
    BY <2>2, <2>7, <2>8, <2>9, SameRecord
  <2>11. ValidRecord(t) => ValidRecord(Live)'
    BY <1>1, <2>10 DEF ValidRecord, ValidRouter, ValidSlots, ValidPending, Network
  <2>12. heard = NoHistory /\ Hist(heard)
    BY <2>1 DEF KeysInv, Durable, Histories
  <2>13. Fits(t, heard)
    <3>1. heard.tc = Zero /\ heard.router = Zero /\ heard.aps = 0 /\ heard.superseded = {}
          /\ ~heard.left
      BY <2>12 DEF NoHistory
    <3> QED
      BY <1>4, <1>5, <3>1 DEF Fits, Below
  <2>14. Good(Live)' /\ Fits(Live, heard)'
    BY <1>3, <1>12, <2>10, <2>11, <2>13 DEF Good, Fits
  <2>15. Works'
    BY <1>3, <1>12, <2>1, <2>2, <2>14 DEF Works
  <2> QED
    BY <2>5, <2>6, <2>15 DEF KeysInv
<1> QED
  BY <1>2, <1>10, <1>11, <1>12 DEF t, n

\* Recommissioning touches RAM only.
LEMMA RecommissionKeeps == ASSUME KeysInv, Recommission PROVE KeysInv'
<1>1. /\ Operating /\ retained' /\ security_keys_phase' = "UNPROVISIONED"
      /\ UNCHANGED <<build, journal, staged, security_keys_result, heard, kept>>
      /\ floor_cache' = Zero /\ router_floor_cache' = Zero /\ phase_cache' = Nothing
      /\ ~Operating'
  BY DEF Recommission, Forget, store, Operating, Phases
<1>2. Zero \in [Slots -> Floor] /\ security_keys_result # "FORMAT"
  BY <1>1, KeysConstants DEF Zero, Floor, KeysInv, Control, Operating, Phases
<1>3. Control'
  BY <1>1, <1>2 DEF KeysInv, Control
<1>4. (ValidRecord(journal) \/ AbandonedRouterJoin(journal))
       => (ValidRecord(journal) \/ AbandonedRouterJoin(journal))'
  BY <1>1 DEF ValidRecord, ValidRouter, ValidSlots, ValidPending, Network,
     AbandonedRouterJoin
<1>5. DurableFits => DurableFits'
  BY <1>1 DEF DurableFits
<1>6. Good(staged) => Good(staged)'
  BY <1>1 DEF Good, ValidRecord, ValidRouter, ValidSlots, ValidPending, Network
<1>7. Histories' /\ Staged' /\ Durable' /\ Works'
  BY <1>1, <1>4, <1>5, <1>6 DEF KeysInv, Histories, Staged, Durable, Works
<1> QED
  BY <1>3, <1>7 DEF KeysInv

\* load() refuses only the record of an abandoned router join.
LEMMA LoadFaultKeeps == ASSUME KeysInv, LoadFault PROVE KeysInv'
<1>1. /\ Operating /\ KeysFault("FORMAT") /\ UNCHANGED <<build, journal, heard, kept>>
      /\ ~ValidRecord(Stored) /\ Stored # Nothing
  BY DEF LoadFault, LoadFails, KeysInv, Works
<1>2. staged = Nothing
  BY <1>1 DEF KeysInv, Staged, Good, Stored
<1>3. journal # Nothing /\ AbandonedRouterJoin(journal)
  BY <1>1, <1>2 DEF KeysInv, Durable, Stored
<1> QED
  BY <1>1, <1>3, FaultKeeps

\* A reset forgets RAM and the part of the history that only RAM held.
LEMMA ResetKeeps == ASSUME KeysInv, KeysReset PROVE KeysInv'
<1> DEFINE n == [heard EXCEPT !.tc = kept.tc,
                              !.router = IF build.policyC THEN kept.router ELSE @]
<1>1. /\ security_keys_phase' = "COLD" /\ security_keys_result' = "OK"
      /\ staged' = Nothing /\ UNCHANGED <<build, journal, kept>>
      /\ floor_cache' = Zero /\ router_floor_cache' = Zero /\ phase_cache' = Nothing
      /\ ~Operating' /\ heard' = n
  BY DEF KeysReset, Forget, Operating, Phases
<1>2. /\ n = [f \in HistoryFields |-> n[f]] /\ n.tc = kept.tc
      /\ n.router = (IF build.policyC THEN kept.router ELSE heard.router)
      /\ n.aps = heard.aps /\ n.superseded = heard.superseded /\ n.left = heard.left
      /\ n.replayed = heard.replayed
  BY DEF KeysInv, Histories, Hist, HistoryFields
<1> HIDE DEF n
<1>3. Hist(n)
  BY <1>2 DEF KeysInv, Histories, Hist
<1>4. Zero \in [Slots -> Floor]
  BY KeysConstants DEF Zero, Floor
<1>5. Control'
  BY <1>1, <1>4 DEF KeysInv, Control
<1>6. Histories'
  BY <1>1, <1>2, <1>3 DEF KeysInv, Histories
<1>7. Staged' /\ Works'
  BY <1>1 DEF Staged, Works
<1>8. Durable'
  <2>1. CASE journal = Nothing
    <3>1. heard = NoHistory /\ kept = [tc |-> Zero, router |-> Zero]
      BY <2>1 DEF KeysInv, Durable
    <3>2. n.tc = heard.tc /\ n.router = heard.router
      BY <1>2, <3>1 DEF NoHistory
    <3>3. heard = [f \in HistoryFields |-> heard[f]]
      BY DEF KeysInv, Histories, Hist
    <3>4. \A f \in HistoryFields : n[f] = heard[f]
      BY <1>2, <3>2 DEF HistoryFields
    <3>5. n = heard
      BY <1>2, <3>3, <3>4
    <3> QED
      BY <1>1, <2>1, <3>1, <3>5 DEF Durable
  <2>2. CASE journal # Nothing
    <3>1. (ValidRecord(journal) \/ AbandonedRouterJoin(journal))
             => (ValidRecord(journal) \/ AbandonedRouterJoin(journal))'
      BY <1>1 DEF ValidRecord, ValidRouter, ValidSlots, ValidPending, Network,
         AbandonedRouterJoin
    <3>2. DurableFits => DurableFits'
      BY <1>1, <1>2 DEF DurableFits
    <3> QED
      BY <1>1, <2>2, <3>1, <3>2 DEF KeysInv, Durable
  <2> QED
    BY <2>1, <2>2
<1> QED
  BY <1>5, <1>6, <1>7, <1>8 DEF KeysInv

-----------------------------------------------------------------------------
(* The initial states and the theorems                                     *)

\* There are four different keys, so the keys of Member exist.
LEMMA FourKeys == \E f \in [1..4 -> Keys] : \A i, j \in 1..4 : f[i] = f[j] => i = j
<1> DEFINE n == Cardinality(Keys)
<1>1. n \in Nat /\ ExistsBijection(1..n, Keys) /\ n > 4
  BY FS_CardinalityType, KeysConstants
<1>2. PICK b : b \in Bijection(1..n, Keys)
  BY <1>1 DEF ExistsBijection
<1> HIDE DEF n
<1>3. b \in [1..n -> Keys] /\ \A i, j \in 1..n : b[i] = b[j] => i = j
  BY <1>2 DEF Bijection, Injection, IsInjective
<1> DEFINE f == [i \in 1..4 |-> b[i]]
<1>4. f \in [1..4 -> Keys] /\ \A i, j \in 1..4 : f[i] = f[j] => i = j
  BY <1>1, <1>3
<1> QED
  BY <1>4

\* The record of a long-standing member is a good one.
LEMMA MemberFits ==
  ASSUME build \in Profiles
  PROVE  /\ Good(Member) /\ Member.af = 1 /\ Member.active = 1 /\ Member.rnf = Zero
<1> DEFINE k == CHOOSE f \in [1..4 -> Keys] : \A i, j \in 1..4 : f[i] = f[j] => i = j
           ad == CHOOSE a \in Addresses : TRUE
           NK == [s \in Slots |-> k[s + 1]]
           SQ == [s \in Slots |-> s]
           NF == [s \in Slots |-> IF s = 0 THEN COUNTER_END ELSE 0]
           p == Provisioned("tc")
           t == [p EXCEPT
                   !.phase = "VERIFIED", !.addr = ad, !.verified = TRUE, !.retired = TRUE,
                   !.valid = Slots, !.active = 1, !.nk = NK, !.seq = SQ, !.nf = NF,
                   !.pk = k[3], !.lk = k[4], !.af = 1]
<1>1. Member = t
  BY DEF Member
<1>2. k \in [1..4 -> Keys] /\ \A i, j \in 1..4 : k[i] = k[j] => i = j
  BY FourKeys
<1>3. ad \in Addresses
  BY KeysConstants
<1> HIDE DEF k, ad
<1>4. /\ k[1] \in Keys /\ k[2] \in Keys /\ k[3] \in Keys /\ k[4] \in Keys
      /\ k[1] # k[2] /\ k[1] # k[3] /\ k[1] # k[4]
      /\ k[2] # k[3] /\ k[2] # k[4] /\ k[3] # k[4]
  BY <1>2
<1>5. /\ NK \in [Slots -> Keys \cup {NoKey}] /\ SQ \in [Slots -> Sequences]
      /\ NF \in [Slots -> Floor] /\ NK[0] = k[1] /\ NK[1] = k[2] /\ SQ[0] = 0 /\ SQ[1] = 1
  BY <1>4, SlotsAre, KeysConstants DEF Sequences, Floor
<1>6. Rec(p) /\ p.v3 = FALSE /\ p.known = FALSE /\ p.ractive = FALSE /\ p.attempt = FALSE
      /\ p.unbound = FALSE /\ p.router = "none" /\ p.raddr = 0 /\ p.rnf = Zero
      /\ p.tc = "tc" /\ p.newer = FALSE /\ p.rejoin = FALSE /\ p.timeout = FALSE
      /\ p.parent = FALSE
  <2>1. Rec(p)
    BY ProvisionFits DEF Good
  <2> QED
    BY <2>1 DEF Provisioned
<1> HIDE DEF NK, SQ, NF, p
<1>7. /\ t = [f \in Fields |-> t[f]]
      /\ Alike(t, p, {"phase", "addr", "verified", "retired", "valid", "active", "nk", "seq",
                      "nf", "pk", "lk", "af"})
      /\ t.phase = "VERIFIED" /\ t.addr = ad /\ t.verified /\ t.verified \in BOOLEAN
      /\ t.retired /\ t.retired \in BOOLEAN /\ t.valid = Slots /\ t.active = 1 /\ t.nk = NK
      /\ t.seq = SQ /\ t.nf = NF /\ t.pk = k[3] /\ t.lk = k[4] /\ t.af = 1
  BY <1>6 DEF Rec, Alike, Fields
<1> HIDE DEF t
<1>8. 1 \in Slots /\ 1 \in Floor /\ "VERIFIED" \in Phases /\ ad # 0
  BY <1>3, SlotsAre, KeysConstants DEF Floor, Phases
<1>9. Rec(t)
  <2>1. /\ t.phase \in Phases /\ t.addr \in Addresses \cup {0} /\ t.valid \in SUBSET Slots
        /\ t.active \in Slots /\ t.nk \in [Slots -> Keys \cup {NoKey}]
        /\ t.seq \in [Slots -> Sequences] /\ t.nf \in [Slots -> Floor]
        /\ t.pk \in Keys \cup {DefaultKey, NoKey} /\ t.lk \in Keys \cup {DefaultKey}
        /\ t.af \in Floor
    BY <1>3, <1>4, <1>5, <1>7, <1>8
  <2>2. /\ t.timeout = p.timeout /\ t.parent = p.parent /\ t.newer = p.newer
        /\ t.rejoin = p.rejoin /\ t.tc = p.tc /\ t.v3 = p.v3 /\ t.router = p.router
        /\ t.raddr = p.raddr /\ t.rnf = p.rnf /\ t.known = p.known /\ t.ractive = p.ractive
        /\ t.attempt = p.attempt /\ t.unbound = p.unbound
    BY <1>7 DEF Alike, Fields
  <2>3. Rec(p)
    BY <1>6
  <2> QED
    BY <1>7, <2>1, <2>2, <2>3 DEF Rec
<1>10. Sound(t)
  BY <1>6, <1>7 DEF Sound, Alike, Fields
<1>11. ValidSlots(t)
  <2>1. k[1] # NoKey /\ k[2] # NoKey
    BY <1>4, KeysConstants
  <2>2. \A s \in Slots : t.nk[s] \notin {NoKey, t.lk, t.pk}
    BY <1>4, <1>5, <1>7, <2>1, SlotsAre
  <2>3. t.seq[0] # t.seq[1] /\ t.nk[0] # t.nk[1]
    BY <1>4, <1>5, <1>7
  <2> QED
    BY <1>7, <1>8, <2>2, <2>3 DEF ValidSlots
<1>12. ValidPending(t)
  BY <1>4, <1>7, KeysConstants DEF ValidPending
<1>13. ~t.v3 /\ ~t.newer /\ ~t.rejoin /\ ~t.timeout /\ t.rnf = Zero
  BY <1>6, <1>7 DEF Alike, Fields
<1>14. ValidRecord(t)
  BY <1>7, <1>8, <1>11, <1>12, <1>13 DEF ValidRecord
<1> QED
  BY <1>1, <1>7, <1>9, <1>10, <1>13, <1>14 DEF Good

\* The initial states satisfy the invariant.
LEMMA InitHolds == KeysInit => KeysInv
<1> SUFFICES ASSUME KeysInit PROVE KeysInv
  OBVIOUS
<1>1. /\ build \in Profiles /\ staged = Nothing /\ security_keys_phase = "COLD"
      /\ security_keys_result = "OK" /\ floor_cache = Zero /\ router_floor_cache = Zero
      /\ phase_cache = Nothing /\ kept = [tc |-> heard.tc, router |-> Zero] /\ ~Operating
  BY KeysConstants DEF KeysInit, Operating, Phases
<1>2. /\ Zero \in [Slots -> Floor] /\ 0 \in Floor /\ 1 \in Floor
      /\ \A s \in Slots : Zero[s] = 0
  BY KeysConstants DEF Zero, Floor
<1>3. Control /\ Staged /\ Works
  BY <1>1, <1>2 DEF Control, Staged, Works
<1>4. kept.tc = heard.tc /\ kept.router = Zero /\ kept = [f \in {"tc", "router"} |-> kept[f]]
  BY <1>1
<1>5. CASE journal = Nothing /\ heard = NoHistory
  <2>1. /\ heard = [f \in HistoryFields |-> heard[f]] /\ heard.tc = Zero /\ heard.router = Zero
        /\ heard.aps = 0 /\ heard.superseded = {} /\ heard.left = FALSE
        /\ heard.replayed = FALSE
    BY <1>5 DEF NoHistory, HistoryFields
  <2>2. Hist(heard)
    BY <1>2, <2>1 DEF Hist
  <2>3. Histories
    BY <1>2, <1>4, <2>1, <2>2 DEF Histories
  <2>4. Durable
    BY <1>1, <1>5, <2>1 DEF Durable
  <2> QED
    BY <1>3, <2>3, <2>4 DEF KeysInv
<1>6. CASE journal = Member
           /\ heard = [NoHistory EXCEPT !.tc = journal.nf, !.aps = 1, !.superseded = {0}]
  <2>1. Good(journal) /\ journal.af = 1 /\ journal.active = 1 /\ journal.rnf = Zero
    BY <1>1, <1>6, MemberFits
  <2>2. /\ heard = [f \in HistoryFields |-> heard[f]] /\ heard.tc = journal.nf
        /\ heard.router = Zero /\ heard.aps = 1 /\ heard.superseded = {0}
        /\ heard.left = FALSE /\ heard.replayed = FALSE
    BY <1>6 DEF NoHistory, HistoryFields
  <2>3. journal.nf \in [Slots -> Floor] /\ journal # Nothing
    BY <2>1, RecIsSomething DEF Good, Rec
  <2>4. Hist(heard)
    BY <1>2, <2>2, <2>3, SlotsAre DEF Hist
  <2>5. Histories
    BY <1>2, <1>4, <2>2, <2>3, <2>4 DEF Histories
  <2>6. DurableFits
    <3>1. Below(kept.tc, journal.nf)
      BY <1>4, <2>2, <2>3, KeysConstants DEF Below, Floor
    <3>2. Below(Zero, journal.rnf)
      BY <1>2, <2>1 DEF Below
    <3> QED
      BY <1>4, <2>1, <2>2, <3>1, <3>2 DEF DurableFits
  <2>7. Durable
    BY <2>1, <2>3, <2>6 DEF Durable, Good
  <2> QED
    BY <1>3, <2>5, <2>7 DEF KeysInv
<1> QED
  BY <1>5, <1>6 DEF KeysInit

\* Every step, and a stuttering one, preserves it.
LEMMA NextKeeps == KeysInv /\ [KeysNext]_vars => KeysInv'
<1> SUFFICES ASSUME KeysInv, [KeysNext]_vars PROVE KeysInv'
  OBVIOUS
<1>1. CASE Loaded /\ (\E r \in {Live} : Call(r)) /\ UNCHANGED build
  <2>1. Call(Live)
    BY <1>1, Zenon
  <2> QED
    BY <1>1, <2>1, CallKeeps
<1>2. CASE Open
  BY <1>2, OpenKeeps
<1>3. CASE Provision
  BY <1>3, ProvisionKeeps
<1>4. CASE Recommission
  BY <1>4, RecommissionKeeps
<1>5. CASE LoadFault
  BY <1>5, LoadFaultKeeps
<1>6. CASE KeysReset
  BY <1>6, ResetKeeps
<1>7. CASE UNCHANGED vars
  <2>1. /\ UNCHANGED <<build, journal, staged, security_keys_phase, security_keys_result>>
        /\ UNCHANGED <<floor_cache, router_floor_cache, phase_cache, retained, heard, kept>>
    BY <1>7 DEF vars, store, cache
  <2>2. Control' /\ Histories'
    BY <2>1 DEF KeysInv, Control, Histories, Operating, AbandonedRouterJoin
  <2>3. /\ ValidRecord(journal)' = ValidRecord(journal)
        /\ Stored' = Stored /\ Live' = Live
    BY <2>1 DEF ValidRecord, ValidRouter, ValidSlots, ValidPending, Network, Stored, Live
  <2>4. /\ ValidRecord(Stored)' => ValidRecord(Stored)
        /\ ValidRecord(Live) => ValidRecord(Live)'
    BY <2>1, <2>3 DEF ValidRecord, ValidRouter, ValidSlots, ValidPending, Network
  <2>5. Good(staged) => Good(staged)'
    BY <2>1 DEF Good, ValidRecord, ValidRouter, ValidSlots, ValidPending, Network
  <2>6. DurableFits => DurableFits'
    BY <2>1 DEF DurableFits
  <2>7. (ValidRecord(journal) \/ AbandonedRouterJoin(journal))
             => (ValidRecord(journal) \/ AbandonedRouterJoin(journal))'
    BY <2>1, <2>3 DEF AbandonedRouterJoin
  <2>8. Staged' /\ Durable'
    BY <2>1, <2>5, <2>6, <2>7 DEF KeysInv, Staged, Durable
  <2>9. Works'
    BY <2>1, <2>3, <2>4 DEF KeysInv, Works, Operating, Good
  <2> QED
    BY <2>2, <2>8, <2>9 DEF KeysInv
<1> QED
  BY <1>1, <1>2, <1>3, <1>4, <1>5, <1>6, <1>7 DEF KeysNext

\* The invariant is inductive.
THEOREM KeysInductive == KeysSpec => []KeysInv
BY InitHolds, NextKeeps, PTL DEF KeysSpec

\* Every record the owner stores is one its own valid_record() accepts, except
\* that of a router join abandoned before the first key (StoredRecordOpens).
THEOREM RecordsOpen == KeysSpec => []StoredRecordOpens
<1>1. KeysInv => StoredRecordOpens
  <2> SUFFICES ASSUME KeysInv PROVE StoredRecordOpens
    OBVIOUS
  <2>1. staged # Nothing => ValidRecord(staged)
    BY DEF KeysInv, Staged, Good
  <2>2. journal # Nothing => ValidRecord(journal) \/ AbandonedRouterJoin(journal)
    BY DEF KeysInv, Durable
  <2>3. security_keys_result = "FORMAT" => AbandonedRouterJoin(journal)
    BY DEF KeysInv, Control
  <2> QED
    BY <2>1, <2>2, <2>3 DEF StoredRecordOpens
<1> QED
  BY <1>1, KeysInductive, PTL

\* No frame is admitted a second time (NoReplay): across lazy floors, key
\* rotation, changes of parent, failed saves and resets.
THEOREM FramesAreNeverReplayed == KeysSpec => []NoReplay
<1>1. KeysInv => NoReplay
  BY DEF KeysInv, Histories, Hist, NoReplay
<1> QED
  BY <1>1, KeysInductive, PTL

\* A network key that was switched away from is never active again
\* (SwitchIsFinal).
THEOREM SwitchesAreFinal == KeysSpec => []SwitchIsFinal
<1>1. KeysInv => SwitchIsFinal
  BY DEF KeysInv, Durable, DurableFits, SwitchIsFinal
<1> QED
  BY <1>1, KeysInductive, PTL

\* A device that left finds itself LEFT until it rejoins or is provisioned
\* anew (LeftStaysLeft).
THEOREM LeavingIsDurable == KeysSpec => []LeftStaysLeft
<1>1. KeysInv => LeftStaysLeft
  <2> SUFFICES ASSUME KeysInv, heard.left PROVE journal.phase = "LEFT"
    BY DEF LeftStaysLeft
  <2>1. journal # Nothing
    BY DEF KeysInv, Durable, NoHistory
  <2> QED
    BY <2>1 DEF KeysInv, Durable, DurableFits
<1> QED
  BY <1>1, KeysInductive, PTL
=============================================================================
