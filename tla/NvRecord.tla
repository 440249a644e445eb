------------------------------ MODULE NvRecord ------------------------------
(***************************************************************************)
(* The two-page snapshot journal of src/src/nv_record.c.                   *)
(*                                                                         *)
(* One opaque record alternates between two flash pages.  A replacement    *)
(* erases the inactive page, programs header and body, then the CRC, and   *)
(* the commit word last; each of these flash services is a step of its     *)
(* own, because power can be lost, or the service can fail, in any of      *)
(* them.  A load only reads, but it reads twice (selection and recheck).   *)
(*                                                                         *)
(* A page is abstracted to the class scan_page gives it, its generation    *)
(* and its payload.  The CRC is taken to detect every damaged page.        *)
(***************************************************************************)
EXTENDS Integers

CONSTANTS Data,                  \* the payloads a caller stores
          ForeignData,           \* payloads an earlier owner may have left
          NoData,                \* the payload of a page that holds none
          ERASE_LIMIT,           \* NV_RECORD_ERASE_LIMIT
          MaxGeneration,         \* 0xffffffff in the code
          MaxDecay               \* bound on the media faults of a behaviour

ASSUME NvConstants == /\ ERASE_LIMIT \in Nat \ {0}
                      /\ MaxGeneration \in Nat \ {0}
                      /\ MaxDecay \in Nat
                      /\ NoData \notin Data
                      /\ ForeignData \subseteq Data

VARIABLES media,                 \* the two flash pages
          nv_record_fault,       \* first flash failure since reset, or "OK"
          D,                     \* nv_record_diagnostic
          call,                  \* the call in progress
          stage,                 \* nv_record_stage of a replace in progress
          out,                   \* what the last call returned
          latest,                \* history: the record the journal answers for
          decays                 \* history: media faults so far

nvVars == <<media, nv_record_fault, D, call, stage, out, latest, decays>>

-----------------------------------------------------------------------------
(* Pages and what scan_page sees of them.                                  *)

Pages == {0, 1}
None  == 255                     \* diagnostic.selected when nothing is

GarbageStates == {"INCOMPLETE", "FORMAT", "INTEGRITY", "UNSUPPORTED"}
PageStates    == GarbageStates \cup {"EMPTY", "VALID"}

Page == [state : PageStates, gen : 0..MaxGeneration, data : Data \cup {NoData}]

EmptyPage     == [state |-> "EMPTY", gen |-> 0, data |-> NoData]
Garbage(s)    == [state |-> s, gen |-> 0, data |-> NoData]
Written(g, d) == [state |-> "VALID", gen |-> g, data |-> d]

\* A committed record of a format this version does not know.
ForeignPage == [state |-> "UNSUPPORTED", gen |-> 1, data |-> NoData]

Results == {"OK", "RECOVERED", "EMPTY", "NO_SPACE", "RECOVERY_REQUIRED",
            "CORRUPT", "CONFLICT", "GENERATION_EXHAUSTED",
            "ERASE_LIMIT_REACHED", "READ_FAILED", "WRITE_FAILED", "PENDING",
            "UNSUPPORTED"}

NoOut == [op |-> "none", result |-> "PENDING", rec |-> EmptyPage]

Other(p) == 1 - p

-----------------------------------------------------------------------------
(* select_record: which page is current, and how good the choice is.       *)

ValidPages == {p \in Pages : media[p].state = "VALID"}

Newest == IF ValidPages = Pages
          THEN IF media[1].gen > media[0].gen THEN 1 ELSE 0
          ELSE IF 0 \in ValidPages THEN 0 ELSE 1

\* Fault: damage to the unselected page goes unnoticed.
SelectResult_IgnoresDamage ==
  IF \E p \in Pages : media[p].state = "UNSUPPORTED" THEN "UNSUPPORTED"
  ELSE IF ValidPages = {}
       THEN IF \A p \in Pages : media[p].state = "EMPTY" THEN "EMPTY"
                                                         ELSE "CORRUPT"
  ELSE "OK"

\* Fault: an unknown format is treated as just another damaged page.
SelectResult_IgnoresVersion ==
  IF ValidPages = {}
  THEN IF \A p \in Pages : media[p].state = "EMPTY" THEN "EMPTY" ELSE "CORRUPT"
  ELSE IF media[Other(Newest)].state \in {"VALID", "EMPTY"} THEN "OK"
                                                            ELSE "RECOVERED"

SelectResult ==
  IF \E p \in Pages : media[p].state = "UNSUPPORTED" THEN "UNSUPPORTED"
  ELSE IF ValidPages = {}
       THEN IF \A p \in Pages : media[p].state = "EMPTY" THEN "EMPTY"
                                                         ELSE "CORRUPT"
  ELSE IF ValidPages = Pages /\ media[Newest].gen - media[Other(Newest)].gen # 1
       THEN "CONFLICT"
  ELSE IF media[Other(Newest)].state \in {"VALID", "EMPTY"} THEN "OK"
                                                            ELSE "RECOVERED"

Selects(r) == r \in {"OK", "RECOVERED"}

\* begin(): the per-call part of the diagnostic is cleared.
Begun == [D EXCEPT !.result = "PENDING", !.selected = None,
                   !.generation = 0, !.phase = 1, !.recovered = 0]

\* The diagnostic after begin() and a complete select_record().
Selected ==
  IF Selects(SelectResult)
  THEN [Begun EXCEPT !.selected = Newest,
                     !.generation = media[Newest].gen,
                     !.recovered = IF SelectResult = "RECOVERED" THEN 1 ELSE 0]
  ELSE Begun

\* Fault: the cleared diagnostic of a reset passes for a clean result.
Known_AfterReset == /\ D.result = "OK"
                    /\ D.selected \in Pages
                    /\ D.recovered = 0

\* resume(): the previous call ended cleanly, so its selection still holds.
Known == /\ D.phase = 8
         /\ D.result = "OK"
         /\ D.selected \in Pages
         /\ D.recovered = 0

\* The diagnostic resume() leaves when the selection is reused.
Resumed == [D EXCEPT !.result = "PENDING", !.phase = 1]

-----------------------------------------------------------------------------
(* Returning to the caller.                                                *)

\* finish(): record the result in the diagnostic and return it.
Finish(diag, op, r) ==
  /\ D' = [diag EXCEPT !.result = r]
  /\ call' = "none"
  /\ out' = [op |-> op, result |-> r, rec |-> EmptyPage]

\* fault(): as finish(), and every later call returns the same failure.
Fault(diag, op, r) ==
  /\ nv_record_fault' = r
  /\ Finish(diag, op, r)

\* A call made after a retained failure returns that failure at once.
Faulted(op) ==
  /\ call = "none"
  /\ nv_record_fault # "OK"
  /\ out' = [op |-> op, result |-> nv_record_fault, rec |-> EmptyPage]
  /\ UNCHANGED <<media, nv_record_fault, D, call, stage, latest, decays>>

\* A flash_nv_read fails in the selection scan a call begins with; a call
\* that reuses the last selection does not scan.
ReadFails(op) ==
  /\ call = "none"
  /\ nv_record_fault = "OK"
  /\ ~Known
  /\ Fault(Begun, op, "READ_FAILED")
  /\ UNCHANGED <<media, stage, latest, decays>>

-----------------------------------------------------------------------------
(* nv_record_load                                                          *)

\* Take the selection diag for the recheck, if the caller's buffer fits it.
Choose(diag, how, fits) ==
  IF fits
  THEN /\ D' = [diag EXCEPT !.phase = 2]
       /\ call' = how
       /\ out' = NoOut
  ELSE Finish(diag, "load", "NO_SPACE")

\* begin() and a full select_record(), then the recheck.
LoadSelect(fits) ==
  IF Selects(SelectResult)
  THEN Choose(Selected, "load_selected", fits)
  ELSE Finish(Begun, "load", SelectResult)

LoadStart(fits) ==
  /\ call = "none"
  /\ nv_record_fault = "OK"
  /\ IF Known THEN Choose(Resumed, "load_resumed", fits) ELSE LoadSelect(fits)
  /\ UNCHANGED <<media, nv_record_fault, stage, latest, decays>>

Matches == /\ media[D.selected].state = "VALID"
           /\ media[D.selected].gen = D.generation

\* The selected page is scanned once more, this time capturing the payload.
\* A reused selection that no longer matches falls back to a full selection.
LoadRecheck(fits) ==
  /\ call \in {"load_resumed", "load_selected"}
  /\ \/ /\ Matches
        /\ LET r == IF D.recovered = 1 THEN "RECOVERED" ELSE "OK" IN
             /\ D' = [D EXCEPT !.phase = 8, !.result = r]
             /\ call' = "none"
             /\ out' = [op |-> "load", result |-> r, rec |-> media[D.selected]]
     \/ /\ ~Matches
        /\ call = "load_resumed"
        /\ LoadSelect(fits)
     \/ /\ ~Matches
        /\ call = "load_selected"
        /\ Finish(D, "load", "CORRUPT")
  /\ UNCHANGED <<media, nv_record_fault, stage, latest, decays>>

LoadRecheckFails ==
  /\ call \in {"load_resumed", "load_selected"}
  /\ Fault(D, "load", "READ_FAILED")
  /\ UNCHANGED <<media, stage, latest, decays>>

-----------------------------------------------------------------------------
(* nv_record_replace                                                       *)

\* Fault: the record is replaced in place.
Target_InPlace(diag) == IF diag.selected = None THEN 0 ELSE diag.selected

\* The page a replacement writes: never the selected one.
Target(diag) == IF diag.selected = None THEN 0 ELSE Other(diag.selected)

\* From admission to the erase command; the attempt is consumed before it.
\* Permitting recovery gives up a damaged newer page, if that is what the
\* other page is: from here on the journal answers for the selected record.
ReplaceStart(d, allow_recovery) ==
  /\ call = "none"
  /\ nv_record_fault = "OK"
  /\ LET diag == IF Known THEN Resumed ELSE Selected
         r    == IF Known THEN "OK" ELSE SelectResult
         page == Target(diag)
         refuse(code) ==
           /\ Finish(diag, "replace", code)
           /\ UNCHANGED <<stage, latest>>
     IN \/ /\ r = "RECOVERED" /\ ~allow_recovery
           /\ refuse("RECOVERY_REQUIRED")
        \/ /\ r \notin {"OK", "RECOVERED", "EMPTY"}
           /\ refuse(r)
        \/ /\ r \in {"OK", "EMPTY"} \/ (r = "RECOVERED" /\ allow_recovery)
           /\ \/ /\ diag.generation = MaxGeneration
                 /\ refuse("GENERATION_EXHAUSTED")
              \/ /\ diag.generation # MaxGeneration
                 /\ diag.erase_attempts[page] >= ERASE_LIMIT
                 /\ refuse("ERASE_LIMIT_REACHED")
              \/ /\ diag.generation # MaxGeneration
                 /\ diag.erase_attempts[page] < ERASE_LIMIT
                 /\ D' = [diag EXCEPT !.phase = 3, !.erase_attempts[page] = @ + 1]
                 /\ call' = "replace"
                 /\ out' = NoOut
                 /\ stage' = d
                 /\ latest' = IF r = "RECOVERED" THEN media[diag.selected]
                                                 ELSE latest
  /\ UNCHANGED <<media, nv_record_fault, decays>>

InReplace(phase) == call = "replace" /\ D.phase = phase

StagedRecord == Written(D.generation + 1, stage)

\* flash_nv_erase succeeds, with its whole-page verification.
ReplaceErase ==
  /\ InReplace(3)
  /\ media' = [media EXCEPT ![Target(D)] = EmptyPage]
  /\ D' = [D EXCEPT !.phase = 4]
  /\ UNCHANGED <<nv_record_fault, call, stage, out, latest, decays>>

\* Every header and body word is programmed and read back.
ReplaceBody ==
  /\ InReplace(4)
  /\ media' = [media EXCEPT ![Target(D)] = Garbage("INCOMPLETE")]
  /\ D' = [D EXCEPT !.phase = 5]
  /\ UNCHANGED <<nv_record_fault, call, stage, out, latest, decays>>

\* The CRC word: the page still has no commit word.
ReplaceIntegrity ==
  /\ InReplace(5)
  /\ D' = [D EXCEPT !.phase = 6]
  /\ UNCHANGED <<media, nv_record_fault, call, stage, out, latest, decays>>

\* The commit word makes the page a record.
ReplaceCommit ==
  /\ InReplace(6)
  /\ media' = [media EXCEPT ![Target(D)] = StagedRecord]
  /\ latest' = StagedRecord
  /\ D' = [D EXCEPT !.phase = 7]
  /\ UNCHANGED <<nv_record_fault, call, stage, out, decays>>

\* The new page is scanned before the diagnostic selects it.
ReplaceVerify ==
  /\ InReplace(7)
  /\ LET page == Target(D)
         r    == IF D.recovered = 1 THEN "RECOVERED" ELSE "OK"
     IN \/ /\ media[page].state = "VALID"
           /\ media[page].gen = D.generation + 1
           /\ D' = [D EXCEPT !.selected = page, !.generation = @ + 1,
                             !.phase = 8, !.result = r]
           /\ call' = "none"
           /\ out' = [op |-> "replace", result |-> r, rec |-> media[page]]
           /\ UNCHANGED nv_record_fault
        \/ /\ ~(media[page].state = "VALID" /\ media[page].gen = D.generation + 1)
           /\ Fault(D, "replace", "CORRUPT")
        \/ Fault(D, "replace", "READ_FAILED")
  /\ UNCHANGED <<media, stage, latest, decays>>

-----------------------------------------------------------------------------
(* Failure and power loss inside a flash service.                          *)

\* What the target page may hold when the service of this phase is cut
\* short: an erase leaves anything, programming leaves words without a
\* commit word, and a cut commit word either counts or does not.
Torn ==
  LET page == media[Target(D)]
  IN CASE call # "replace" -> {page}
       [] InReplace(3) -> IF page = EmptyPage THEN {page}
                          ELSE {page, EmptyPage} \cup {Garbage(s) : s \in GarbageStates}
       [] InReplace(4) -> {EmptyPage, Garbage("INCOMPLETE")}
       [] InReplace(6) -> {page, StagedRecord}
       [] OTHER -> {page}

\* The target page is left as p; a cut commit word may have counted.
Tear(p) ==
  /\ media' = [media EXCEPT ![Target(D)] = p]
  /\ latest' = IF InReplace(6) /\ p = StagedRecord THEN StagedRecord ELSE latest

\* flash_nv_erase or flash_nv_program returns an error.
WriteFails ==
  /\ call = "replace"
  /\ D.phase \in 3..6
  /\ \E p \in Torn : Tear(p)
  /\ Fault(D, "replace", "WRITE_FAILED")
  /\ UNCHANGED <<stage, decays>>

ClearedDiagnostic ==
  [result |-> "OK", selected |-> 0, generation |-> 0, phase |-> 0,
   recovered |-> 0, erase_attempts |-> [p \in Pages |-> 0]]

\* Reset at any point, a power cut in the middle of a service included:
\* RAM is cleared (so result is 0 = OK and selected is 0), flash stays.
NvReset ==
  /\ \E p \in Torn : Tear(p)
  /\ nv_record_fault' = "OK"
  /\ D' = ClearedDiagnostic
  /\ call' = "none"
  /\ stage' = NoData
  /\ out' = NoOut
  /\ UNCHANGED decays

\* A committed page loses its content; damage never looks like an erased page.
Decay(p) ==
  /\ decays < MaxDecay
  /\ media[p].state = "VALID"
  /\ \E s \in GarbageStates : media' = [media EXCEPT ![p] = Garbage(s)]
  /\ decays' = decays + 1
  /\ UNCHANGED <<nv_record_fault, D, call, stage, out, latest>>

-----------------------------------------------------------------------------
\* Virgin pages, or an earlier owner's record, perhaps beside a page that a
\* later format committed.
NvInit ==
  /\ \/ media = [p \in Pages |-> EmptyPage] /\ latest = EmptyPage
     \/ \E d \in ForeignData, rest \in {EmptyPage, ForeignPage} :
          /\ media = [p \in Pages |-> IF p = 0 THEN Written(1, d) ELSE rest]
          /\ latest = Written(1, d)
  /\ nv_record_fault = "OK"
  /\ D = ClearedDiagnostic
  /\ call = "none"
  /\ stage = NoData
  /\ out = NoOut
  /\ decays = 0

Load    == (\E fits \in BOOLEAN : LoadStart(fits) \/ LoadRecheck(fits))
           \/ LoadRecheckFails \/ ReadFails("load") \/ Faulted("load")

Replace == \/ \E d \in Data, allow \in BOOLEAN : ReplaceStart(d, allow)
           \/ ReplaceErase \/ ReplaceBody \/ ReplaceIntegrity
           \/ ReplaceCommit \/ ReplaceVerify
           \/ WriteFails \/ ReadFails("replace") \/ Faulted("replace")

NvNext == Load \/ Replace \/ NvReset \/ \E p \in Pages : Decay(p)

NvSpec == NvInit /\ [][NvNext]_nvVars

-----------------------------------------------------------------------------
(* Properties                                                              *)

Diagnostic == [result : Results, selected : Pages \cup {None},
               generation : 0..MaxGeneration, phase : 0..8,
               recovered : 0..1,
               erase_attempts : [Pages -> 0..ERASE_LIMIT]]

\* Every variable holds a value of its C type; generations stay in range and
\* the erase counters of nv_record_replace never pass their limit.
NvTypeOK ==
  /\ media \in [Pages -> Page]
  /\ nv_record_fault \in {"OK", "READ_FAILED", "WRITE_FAILED", "CORRUPT"}
  /\ D \in Diagnostic
  /\ call \in {"none", "load_resumed", "load_selected", "replace"}
  /\ stage \in Data \cup {NoData}
  /\ out \in [op : {"none", "load", "replace"}, result : Results, rec : Page]
  /\ latest \in Page
  /\ decays \in 0..MaxDecay

\* A load or a replace that returns a clean OK answers with the last record
\* committed, whatever resets, torn services, failures and page damage came
\* before it: an older surviving record is never passed off as current
\* (select_record, nv_record_load, nv_record_replace).
AnswersLatest == out.result = "OK" => out.rec = latest

\* Nothing this code writes, and no power cut in it, leaves two valid pages
\* whose generations do not follow each other, the state select_record
\* refuses as CONFLICT.
NeverConflict == SelectResult # "CONFLICT"

\* A page committed in an unknown format is never erased or written, neither
\* by a replacement that permits recovery nor through a reused selection.
ForeignPreserved ==
  [][\A p \in Pages : media[p] = ForeignPage => media'[p] = ForeignPage]_nvVars

\* The two pages implement one atomic register: what a reader would select
\* changes only to the successor of the record before, and only in one step.
Journal == INSTANCE AtomicRecord
             WITH value   <- IF ValidPages = {} THEN EmptyPage ELSE media[Newest],
                  damaged <- decays # 0

\* Until a page is damaged, a replacement cut at any point keeps the old
\* record or installs the new one (nv_record_replace, phases 3 to 7).
AtomicJournal == Journal!ARSpec
=============================================================================
