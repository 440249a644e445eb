--------------------------- MODULE SecurityCounter ---------------------------
(***************************************************************************)
(* The owner of the outgoing frame counters, src/src/security_counter.c,   *)
(* on top of the journal it writes (NvRecord).                             *)
(*                                                                         *)
(* The journal's record holds, for each counter domain, an exclusive       *)
(* ceiling, and an opaque payload.  A counter is handed out only below the *)
(* ceiling that is already durable; a refill raises the ceiling by one     *)
(* range first.  Opening after a reset starts at the durable ceiling and   *)
(* so gives up whatever part of the last range was not used.               *)
(*                                                                         *)
(* The calls run one at a time; a take or a save that has to touch the     *)
(* journal is a load, a comparison and a replacement, and a reset may come *)
(* between any two steps of these.                                         *)
(***************************************************************************)
EXTENDS NvRecord

CONSTANTS Payload,               \* what the upper layer saves
          MaxCounter,            \* 0xffffffff in the code
          RANGE,                 \* SECURITY_COUNTER_RANGE
          Floors                 \* the trusted floors a provisioning may use

Domains == {"NWK", "APS"}

\* security_counter_blob: the record this owner keeps in the journal.
Blob == [ceil : [Domains -> 0..MaxCounter], payload : Payload]

\* The journal holds this owner's records or what an earlier owner left.
ASSUME CounterConstants == /\ MaxCounter \in Nat \ {0}
                           /\ RANGE \in Nat \ {0}
                           /\ Floors \subseteq 0..MaxCounter
                           /\ Data = Blob \cup ForeignData
                           /\ Blob \cap ForeignData = {}

VARIABLES C,                     \* security_counter_diagnostic
          blob,                  \* security_counter_blob
          req,                   \* the call in progress
          emitted,               \* history: the last counter handed out
          fresh                  \* history: it was above all earlier ones

ownVars == <<C, blob, req, emitted, fresh>>
counterVars == <<media, nv_record_fault, D, call, stage, out, latest, decays,
                 C, blob, req, emitted, fresh>>

Idle == [op |-> "none", step |-> "none", domain |-> "NWK", payload |-> NoData]

-----------------------------------------------------------------------------
(* Returning                                                               *)

\* finish(): state and result of a call that is over.
Return(diag, result) ==
  /\ C' = [diag EXCEPT !.result = result]
  /\ req' = Idle

\* fail(): the failure is retained and forbids every later allocation.
Fail(result) ==
  /\ Return([C EXCEPT !.state = "FAILED"], result)
  /\ UNCHANGED <<blob, emitted, fresh>>

\* Fault: the cursor stays where it was.
Emit_KeepsCursor(d, diag) ==
  /\ Return(diag, "OK")
  /\ emitted' = [emitted EXCEPT ![d] = diag.next[d]]
  /\ fresh' = (diag.next[d] > emitted[d])

\* The counter C.next[d] goes to the caller and is consumed.
Emit(d, diag) ==
  /\ Return([diag EXCEPT !.next[d] = @ + 1], "OK")
  /\ emitted' = [emitted EXCEPT ![d] = diag.next[d]]
  /\ fresh' = (diag.next[d] > emitted[d])

Ready == C.state = "READY" /\ req = Idle

-----------------------------------------------------------------------------
(* Calls into the journal, as this owner makes them: a buffer that always  *)
(* fits, and never permission to recover.                                  *)

LoadCall == LoadStart(TRUE) \/ ReadFails("load") \/ Faulted("load")

ReplaceCall(b) == \/ ReplaceStart(b, FALSE)
                  \/ ReadFails("replace") \/ Faulted("replace")

\* The journal works on; the owner waits.
JournalStep ==
  /\ req # Idle
  /\ \/ LoadRecheck(TRUE) \/ LoadRecheckFails
     \/ ReplaceErase \/ ReplaceBody \/ ReplaceIntegrity
     \/ ReplaceCommit \/ ReplaceVerify \/ WriteFails
  /\ UNCHANGED ownVars

Returned(op) == call = "none" /\ out.op = op

-----------------------------------------------------------------------------
(* security_counter_open                                                   *)

OpenStart ==
  /\ C.state = "COLD" /\ req = Idle
  /\ LoadCall
  /\ req' = [Idle EXCEPT !.op = "open", !.step = "load"]
  /\ UNCHANGED <<C, blob, emitted, fresh>>

\* floors(): both cursors start at the durable ceilings.
OpenReturn ==
  /\ req.op = "open" /\ Returned("load")
  /\ \/ /\ out.result = "EMPTY"
        /\ Return([C EXCEPT !.state = "UNPROVISIONED"], "EMPTY")
        /\ UNCHANGED <<blob, emitted, fresh>>
     \/ /\ out.result = "RECOVERED"
        /\ Fail("RECOVERY")
     \/ /\ out.result \notin {"OK", "EMPTY", "RECOVERED"}
        /\ Fail("NV")
     \/ /\ out.result = "OK" /\ out.rec.data \in ForeignData
        /\ \E r \in {"FORMAT", "VERSION"} : Fail(r)
     \/ /\ out.result = "OK" /\ out.rec.data \in Blob
        /\ blob' = out.rec.data
        /\ Return([C EXCEPT !.state = "READY", !.generation = D.generation,
                            !.next = out.rec.data.ceil,
                            !.until = out.rec.data.ceil], "OK")
        /\ UNCHANGED <<emitted, fresh>>
  /\ UNCHANGED nvVars

-----------------------------------------------------------------------------
(* security_counter_create and security_counter_restage stage in RAM only. *)

Staged == C.state = "READY" /\ C.generation = 0

Create(floor, p) ==
  /\ req = Idle
  /\ C.state = "UNPROVISIONED" \/ Staged
  /\ blob' = [ceil |-> floor, payload |-> p]
  /\ Return([C EXCEPT !.state = "READY", !.next = floor, !.until = floor], "OK")
  /\ UNCHANGED <<emitted, fresh>>
  /\ UNCHANGED nvVars

Restage(p) ==
  /\ req = Idle
  /\ Staged
  /\ blob' = [blob EXCEPT !.payload = p]
  /\ Return(C, "OK")
  /\ UNCHANGED <<emitted, fresh>>
  /\ UNCHANGED nvVars

-----------------------------------------------------------------------------
(* security_counter_take and security_counter_save                         *)

\* The range in hand is not used up.
TakeReserved(d) ==
  /\ Ready
  /\ C.next[d] # C.until[d]
  /\ Emit(d, C)
  /\ UNCHANGED blob
  /\ UNCHANGED nvVars

TakeExhausted(d) ==
  /\ Ready
  /\ C.next[d] = C.until[d]
  /\ C.until[d] = MaxCounter
  /\ Return(C, "EXHAUSTED")
  /\ UNCHANGED <<blob, emitted, fresh>>
  /\ UNCHANGED nvVars

\* security_counter_read copies the payload out of the blob.
Read ==
  /\ Ready
  /\ Return(C, "OK")
  /\ UNCHANGED <<blob, emitted, fresh>>
  /\ UNCHANGED nvVars

\* A refill begins with current(): the journal must still hold our record.
TakeStart(d) ==
  /\ Ready
  /\ C.next[d] = C.until[d]
  /\ C.until[d] # MaxCounter
  /\ LoadCall
  /\ req' = [Idle EXCEPT !.op = "take", !.step = "load", !.domain = d]
  /\ UNCHANGED <<C, blob, emitted, fresh>>

SaveStart(p) ==
  /\ Ready
  /\ LoadCall
  /\ req' = [Idle EXCEPT !.op = "save", !.step = "load", !.payload = p]
  /\ UNCHANGED <<C, blob, emitted, fresh>>

\* The ceiling a refill of domain d makes durable.
End(d) == IF C.until[d] > MaxCounter - RANGE THEN MaxCounter
                                             ELSE C.until[d] + RANGE

\* What current() finds: OK, or the reason to fail.
Current ==
  IF C.generation = 0
  THEN IF out.result = "EMPTY" THEN "OK" ELSE "ROLLBACK"
  ELSE IF out.result = "RECOVERED" THEN "RECOVERY"
  ELSE IF out.result # "OK" THEN "NV"
  ELSE IF D.generation # C.generation \/ out.rec.data # blob THEN "ROLLBACK"
  ELSE "OK"

\* Fault: the refill raises the RAM range without the durable ceiling.
Wanted_OldCeiling == IF req.op = "take" THEN blob
                     ELSE [blob EXCEPT !.payload = req.payload]

\* Fault: saving a payload restarts the ceilings.
Wanted_SaveRewinds ==
  IF req.op = "take"
  THEN [blob EXCEPT !.ceil[req.domain] = End(req.domain)]
  ELSE [ceil |-> [d \in Domains |-> 0], payload |-> req.payload]

\* The record the call wants in the journal.
Wanted == IF req.op = "take"
          THEN [blob EXCEPT !.ceil[req.domain] = End(req.domain)]
          ELSE [blob EXCEPT !.payload = req.payload]

\* current() has returned: fail, or stage the new record and commit() it.
CurrentFails ==
  /\ req.op \in {"take", "save"} /\ req.step = "load" /\ Returned("load")
  /\ Current # "OK"
  /\ Fail(Current)
  /\ UNCHANGED nvVars

CommitStart ==
  /\ req.op \in {"take", "save"} /\ req.step = "load" /\ Returned("load")
  /\ Current = "OK"
  /\ blob' = Wanted
  /\ C' = [C EXCEPT !.state = "BUSY", !.result = "PENDING"]
  /\ req' = [req EXCEPT !.step = "commit"]
  /\ ReplaceCall(Wanted)
  /\ UNCHANGED <<emitted, fresh>>

\* commit() has returned; only now does a take publish the new range.
CommitReturn ==
  /\ req.step = "commit" /\ Returned("replace")
  /\ LET done == [C EXCEPT !.state = "READY", !.generation = D.generation]
     IN \/ /\ out.result # "OK"
           /\ Fail(IF out.result = "RECOVERY_REQUIRED" THEN "RECOVERY" ELSE "NV")
        \/ /\ out.result = "OK" /\ D.generation # C.generation + 1
           /\ Fail("ROLLBACK")
        \/ /\ out.result = "OK" /\ D.generation = C.generation + 1
           /\ req.op = "save"
           /\ Return(done, "OK")
           /\ UNCHANGED <<blob, emitted, fresh>>
        \/ /\ out.result = "OK" /\ D.generation = C.generation + 1
           /\ req.op = "take"
           /\ Emit(req.domain, [done EXCEPT !.until[req.domain] = End(req.domain)])
           /\ UNCHANGED blob
  /\ UNCHANGED nvVars

-----------------------------------------------------------------------------
ColdCounter == [state |-> "COLD", result |-> "OK", generation |-> 0,
                next |-> [d \in Domains |-> 0], until |-> [d \in Domains |-> 0]]

\* Static storage is cleared by a reset, so the blob holds no record.
NoBlob == [ceil |-> [d \in Domains |-> 0], payload |-> NoData]

Reset ==
  /\ NvReset
  /\ C' = ColdCounter
  /\ blob' = NoBlob
  /\ req' = Idle
  /\ UNCHANGED <<emitted, fresh>>

Damage(p) == Decay(p) /\ UNCHANGED ownVars

Init == /\ NvInit
        /\ C = ColdCounter
        /\ blob = NoBlob
        /\ req = Idle
        /\ emitted = [d \in Domains |-> -1]
        /\ fresh = TRUE

Next == \/ OpenStart \/ OpenReturn
        \/ \E floor \in [Domains -> Floors], p \in Payload : Create(floor, p)
        \/ \E p \in Payload : Restage(p) \/ SaveStart(p)
        \/ \E d \in Domains : TakeReserved(d) \/ TakeExhausted(d) \/ TakeStart(d)
        \/ Read
        \/ CurrentFails \/ CommitStart \/ CommitReturn
        \/ JournalStep
        \/ Reset
        \/ \E p \in Pages : Damage(p)

Spec == Init /\ [][Next]_counterVars

-----------------------------------------------------------------------------
(* Properties                                                              *)

CounterStates == {"COLD", "UNPROVISIONED", "READY", "FAILED", "BUSY"}
CounterResults == {"OK", "EMPTY", "FORMAT", "VERSION", "RECOVERY", "NV",
                   "ROLLBACK", "EXHAUSTED", "PENDING"}

\* Every variable holds a value of its C type, the cursors included: no
\* counter arithmetic passes 0xffffffff.
TypeOK ==
  /\ NvTypeOK
  /\ C \in [state : CounterStates, result : CounterResults,
            generation : 0..MaxGeneration,
            next : [Domains -> 0..MaxCounter], until : [Domains -> 0..MaxCounter]]
  /\ blob \in [ceil : [Domains -> 0..MaxCounter], payload : Payload \cup {NoData}]
  /\ req \in [op : {"none", "open", "take", "save"},
              step : {"none", "load", "commit"},
              domain : Domains, payload : Payload \cup {NoData}]
  /\ emitted \in [Domains -> -1..MaxCounter]
  /\ fresh \in BOOLEAN

\* No frame counter is ever handed out twice, nor below one already used:
\* not across resets, power cuts inside a refill, failed flash services or
\* damage to a page (security_counter_take, security_counter_open).
NeverReused == fresh

\* A counter is handed out only under a ceiling that is durable at that
\* moment, and 0xffffffff itself is never handed out.
CeilingBeforeUse ==
  \A d \in Domains :
    emitted[d] >= 0 => /\ latest.state = "VALID"
                       /\ latest.data \in Blob
                       /\ emitted[d] < latest.data.ceil[d]

\* Between calls, a READY owner's RAM copy is the journal's current record, so
\* what security_counter_read returns is what the next boot will find.
ReadyMatchesJournal ==
  Ready /\ C.generation # 0 => latest = Written(C.generation, blob)

\* A durable ceiling is never lowered and a committed record never goes back
\* to none: provisioning, saving and refilling only move forward.
CeilingsNeverRewind ==
  [][latest.state = "VALID" /\ latest.data \in Blob =>
       /\ latest'.state = "VALID" /\ latest'.data \in Blob
       /\ \A d \in Domains : latest'.data.ceil[d] >= latest.data.ceil[d]]_counterVars
=============================================================================
