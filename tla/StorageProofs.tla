----------------------------- MODULE StorageProofs -----------------------------
(***************************************************************************)
(* The durable state.  First the journal of NvRecord, for every set of      *)
(* payloads and every limit: type correctness, that a clean OK answers with *)
(* the last committed record, that the two pages never conflict, and that   *)
(* an unknown format is never touched.  Then the outgoing counters that     *)
(* SecurityCounter keeps in it, for every range, every largest counter and  *)
(* every journal limit: no counter is handed out twice and every counter    *)
(* handed out lies below a durable ceiling.                                 *)
(***************************************************************************)
EXTENDS SecurityCounter, TLAPS


-----------------------------------------------------------------------------
(* The inductive invariant                                                 *)

\* A page reads as a record only if it holds one, and as erased only if it is.
PageShape ==
  \A p \in Pages :
    /\ media[p].state = "VALID" => media[p].gen >= 1 /\ media[p].data \in Data
    /\ media[p].state = "EMPTY" => media[p] = EmptyPage

LatestShape ==
  \/ latest = EmptyPage
  \/ latest.state = "VALID" /\ latest.gen >= 1 /\ latest.data \in Data

\* A valid page is the latest record or the one just before it, and two valid
\* pages are these two.
ValidFollow ==
  /\ \A p \in Pages : media[p].state = "VALID" =>
        \/ media[p] = latest
        \/ latest.state = "VALID" /\ media[p].gen = latest.gen - 1
  /\ media[0].state = "VALID" /\ media[1].state = "VALID" =>
        media[0].gen # media[1].gen

\* An erased page means that the other page, if valid, is the latest record;
\* two erased pages mean that there never was one.
EmptyMeansLatest ==
  /\ \A p \in Pages :
       media[p].state = "EMPTY" /\ media[Other(p)].state = "VALID" =>
         media[Other(p)] = latest
  /\ (\A p \in Pages : media[p].state = "EMPTY") => latest = EmptyPage

\* Page s, generation g, was selected cleanly: it is the latest record, unless damaged since,
\* and the other page is not.
CleanSelection(s, g) ==
  /\ s \in Pages
  /\ latest.state = "VALID"
  /\ g = latest.gen
  /\ media[s].state # "EMPTY"
  /\ media[s].state = "VALID" => media[s] = latest
  /\ media[Other(s)].state = "VALID" => media[Other(s)].gen = latest.gen - 1

Selection ==
  /\ Known => CleanSelection(D.selected, D.generation)
  /\ call = "load_resumed" => CleanSelection(D.selected, D.generation) /\ D.recovered = 0
  /\ call = "load_selected" => /\ D.selected \in Pages
                               /\ D.recovered = 0 => CleanSelection(D.selected, D.generation)

\* A replacement before its commit word, and after it.
Replacing ==
  call = "replace" =>
    /\ D.phase \in 3..7
    /\ stage \in Data
    /\ D.generation < MaxGeneration
    /\ D.phase \in 3..6 =>
         IF D.selected = None
         THEN latest = EmptyPage /\ D.generation = 0 /\ media[1] = EmptyPage
         ELSE CleanSelection(D.selected, D.generation)
    /\ D.phase \in 3..6 /\ media[Target(D)].state = "VALID" => D.phase = 3
    /\ D.phase = 4 => media[Target(D)] = EmptyPage
    /\ D.phase \in 5..6 => media[Target(D)] = Garbage("INCOMPLETE")
    /\ D.phase = 7 =>
         /\ latest.state = "VALID"
         /\ latest.gen = D.generation + 1
         /\ media[Target(D)].state # "EMPTY"
         /\ media[Target(D)].state = "VALID" => media[Target(D)] = latest
         /\ IF D.selected = None
            THEN media[1] = EmptyPage
            ELSE media[D.selected].state = "VALID" =>
                   media[D.selected].gen = latest.gen - 1

\* Whoever selected a page has seen that no page has an unknown format.
NoForeign ==
  Known \/ call # "none" => \A p \in Pages : media[p] # ForeignPage

\* What a returned result says of the diagnostic and of the record.
Answers ==
  /\ AnswersLatest
  /\ call # "none" => out.result \notin {"OK", "EMPTY"}
  /\ out.result = "OK" => out.rec.state = "VALID" /\ D.generation = out.rec.gen
  /\ out.result = "EMPTY" => latest = EmptyPage

NvInv == /\ NvTypeOK /\ PageShape /\ LatestShape /\ ValidFollow
         /\ EmptyMeansLatest /\ Selection /\ Replacing /\ NoForeign /\ Answers

-----------------------------------------------------------------------------
(* The inductive invariant holds initially and implies the properties.     *)

LEMMA InitInv == NvInit => NvInv
<1> SUFFICES ASSUME NvInit PROVE NvInv
  OBVIOUS
<1> USE NvConstants DEF Pages
<1>1. NvTypeOK
  BY DEF NvInit, NvTypeOK, Page, PageStates, GarbageStates, EmptyPage, Written,
         ForeignPage, Diagnostic, ClearedDiagnostic, Results, NoOut
<1>2. PageShape /\ LatestShape /\ ValidFollow /\ EmptyMeansLatest
  BY DEF NvInit, PageShape, LatestShape, ValidFollow, EmptyMeansLatest, Other,
         EmptyPage, Written, ForeignPage
<1>3. Selection /\ Replacing /\ NoForeign /\ Answers
  BY DEF NvInit, Selection, Replacing, NoForeign, Answers, AnswersLatest, Known,
         ClearedDiagnostic, NoOut
<1> QED
  BY <1>1, <1>2, <1>3 DEF NvInv

LEMMA InvNeverConflict == NvInv => NeverConflict
  BY NvConstants DEF NvInv, NvTypeOK, ValidFollow, NeverConflict, SelectResult, Newest,
         ValidPages, Pages, Other, Page

LEMMA StutterInv == NvInv /\ UNCHANGED nvVars => NvInv'
  BY DEF NvInv, nvVars, NvTypeOK, PageShape, LatestShape, ValidFollow,
         EmptyMeansLatest, Selection, CleanSelection, Replacing, NoForeign, Answers,
         AnswersLatest, Known, Target

-----------------------------------------------------------------------------
(* What select_record may conclude from its result.                        *)

LEMMA SelectOK ==
  ASSUME NvInv, SelectResult = "OK"
  PROVE  /\ Newest \in Pages
         /\ latest.state = "VALID"
         /\ media[Newest] = latest
         /\ media[Other(Newest)].state = "VALID" =>
              media[Other(Newest)].gen = latest.gen - 1
         /\ \A p \in Pages : media[p] # ForeignPage
<1> USE NvConstants DEF NvInv, NvTypeOK, Pages, Page, Other
<1>1. \A p \in Pages : media[p].state # "UNSUPPORTED"
  BY DEF SelectResult
<1>2. ValidPages # {} /\ Newest \in ValidPages
  BY DEF SelectResult, Newest, ValidPages
<1>3. media[Other(Newest)].state \in {"VALID", "EMPTY"}
  BY <1>1, <1>2 DEF SelectResult
<1>4. media[Newest] = latest
  BY <1>2, <1>3 DEF Newest, ValidPages, ValidFollow, EmptyMeansLatest, LatestShape,
                    EmptyPage
<1> QED
  BY <1>1, <1>2, <1>4 DEF ValidPages, ForeignPage, ValidFollow, LatestShape, EmptyPage

LEMMA SelectRecovered ==
  ASSUME NvInv, SelectResult = "RECOVERED"
  PROVE  /\ Newest \in Pages
         /\ media[Newest].state = "VALID"
         /\ media[Other(Newest)].state \notin {"VALID", "EMPTY"}
         /\ \A p \in Pages : media[p] # ForeignPage
  BY NvConstants DEF NvInv, NvTypeOK, Pages, Page, Other, SelectResult, Newest,
                     ValidPages, ForeignPage

LEMMA SelectEmpty ==
  ASSUME NvInv, SelectResult = "EMPTY"
  PROVE  /\ \A p \in Pages : media[p] = EmptyPage
         /\ latest = EmptyPage
  BY NvConstants DEF NvInv, NvTypeOK, Pages, Page, Other, SelectResult, ValidPages,
                     PageShape, EmptyMeansLatest

LEMMA SelectResultType == SelectResult \in Results \ {"PENDING"}
  BY DEF SelectResult, Results

-----------------------------------------------------------------------------
(* A step that leaves flash alone.                                         *)

Unwritten == UNCHANGED <<media, latest, decays>>

LEMMA UnwrittenPages ==
  ASSUME NvInv, Unwritten
  PROVE  /\ PageShape' /\ LatestShape' /\ ValidFollow' /\ EmptyMeansLatest'
         /\ media' \in [Pages -> Page] /\ latest' \in Page /\ decays' \in 0..MaxDecay
  BY DEF NvInv, NvTypeOK, Unwritten, PageShape, LatestShape, ValidFollow,
         EmptyMeansLatest

\* A call that returns anything but a clean success.
LEMMA FinishInv ==
  ASSUME NvInv, Unwritten, NEW diag \in Diagnostic, NEW op \in {"load", "replace"},
         NEW r \in Results \ {"OK"}, Finish(diag, op, r),
         r = "EMPTY" => latest = EmptyPage,
         stage' \in Data \cup {NoData},
         nv_record_fault' \in {"OK", "READ_FAILED", "WRITE_FAILED", "CORRUPT"}
  PROVE  NvInv'
<1>1. NvTypeOK'
  BY UnwrittenPages, NvConstants
  DEF NvTypeOK, Finish, Diagnostic, EmptyPage, Page, PageStates
<1>2. call' = "none" /\ D'.result = r /\ out'.result = r
  BY DEF Finish, Diagnostic
<1>3. Selection' /\ Replacing' /\ NoForeign' /\ Answers'
  BY <1>2 DEF Unwritten, Selection, Replacing, NoForeign, Answers, AnswersLatest, Known
<1> QED
  BY <1>1, <1>3, UnwrittenPages DEF NvInv

LEMMA ResultNames ==
  {"OK", "RECOVERED", "EMPTY", "NO_SPACE", "RECOVERY_REQUIRED", "CORRUPT", "CONFLICT",
   "GENERATION_EXHAUSTED", "ERASE_LIMIT_REACHED", "READ_FAILED", "WRITE_FAILED",
   "PENDING", "UNSUPPORTED"} \subseteq Results
  BY DEF Results

LEMMA Numerals ==
  /\ {0, 1, 2, 3, 4, 5, 6, 7, 8} \subseteq 0..8
  /\ 0 \in 0..1 /\ 1 \in 0..1
  /\ 0 \in 0..MaxGeneration /\ 0 \in 0..ERASE_LIMIT
  BY NvConstants

LEMMA DiagnosticTypes ==
  ASSUME NvInv
  PROVE  Begun \in Diagnostic /\ Selected \in Diagnostic /\ Resumed \in Diagnostic
<1>1. D \in Diagnostic /\ "PENDING" \in Results
  BY ResultNames DEF NvInv, NvTypeOK
<1>2. Resumed \in Diagnostic
  BY <1>1, Numerals DEF Resumed, Diagnostic
<1>3. Begun \in Diagnostic
  BY <1>1, Numerals DEF Begun, Diagnostic
<1>4. Selected \in Diagnostic
  <2>1. Selects(SelectResult) => Newest \in Pages /\ media[Newest].gen \in 0..MaxGeneration
    BY SelectOK, SelectRecovered DEF Selects, Page, NvInv, NvTypeOK
  <2> QED
    BY <1>3, <2>1, Numerals DEF Selected, Diagnostic
<1> QED
  BY <1>2, <1>3, <1>4

LEMMA FaultedInv ==
  ASSUME NvInv, NEW op \in {"load", "replace"}, Faulted(op)
  PROVE  NvInv'
<1>1. Unwritten
  BY DEF Faulted, Unwritten
<1>2. /\ out' = [op |-> op, result |-> nv_record_fault, rec |-> EmptyPage]
      /\ nv_record_fault \in {"READ_FAILED", "WRITE_FAILED", "CORRUPT"}
      /\ UNCHANGED <<media, nv_record_fault, D, call, stage, latest, decays>>
      /\ call = "none"
  BY DEF NvInv, NvTypeOK, Faulted
<1>3. NvTypeOK'
  <2>1. EmptyPage \in Page /\ nv_record_fault \in Results
    BY <1>2, ResultNames, NvConstants DEF EmptyPage, Page, PageStates
  <2> QED
    BY <1>2, <2>1 DEF NvInv, NvTypeOK
<1>4. Selection' /\ Replacing' /\ NoForeign' /\ Answers'
  BY <1>2 DEF NvInv, Selection, CleanSelection, Replacing, NoForeign, Answers,
              AnswersLatest, Known
<1> QED
  BY <1>1, <1>3, <1>4, UnwrittenPages DEF NvInv

LEMMA ReadFailsInv ==
  ASSUME NvInv, NEW op \in {"load", "replace"}, ReadFails(op)
  PROVE  NvInv'
  BY FinishInv, DiagnosticTypes
  DEF ReadFails, Fault, Unwritten, Results, NvInv, NvTypeOK

-----------------------------------------------------------------------------
(* Loading                                                                 *)

LEMMA SelectionClean ==
  ASSUME NvInv, Selects(SelectResult)
  PROVE  /\ Selected.selected \in Pages
         /\ Selected.recovered = 0 => CleanSelection(Selected.selected, Selected.generation)
         /\ Selected.recovered = 0 <=> SelectResult = "OK"
         /\ Selected.selected = Newest /\ Selected.generation = media[Newest].gen
         /\ \A p \in Pages : media[p] # ForeignPage
<1>1. /\ Selected.selected = Newest /\ Selected.generation = media[Newest].gen
      /\ Selected.recovered = 0 <=> SelectResult = "OK"
  <2>1. Begun \in Diagnostic
    BY DiagnosticTypes
  <2> QED
    BY <2>1 DEF Selected, Selects, Diagnostic
<1>2. CASE SelectResult = "OK"
  BY <1>1, <1>2, SelectOK DEF CleanSelection
<1>3. CASE SelectResult = "RECOVERED"
  BY <1>1, <1>3, SelectRecovered
<1> QED
  BY <1>2, <1>3 DEF Selects

LEMMA ResumedClean ==
  ASSUME NvInv, Known
  PROVE  /\ Resumed.selected = D.selected /\ Resumed.generation = D.generation
         /\ Resumed.selected \in Pages /\ Resumed.recovered = 0
         /\ CleanSelection(Resumed.selected, Resumed.generation)
         /\ \A p \in Pages : media[p] # ForeignPage
<1>1. D \in Diagnostic
  BY DEF NvInv, NvTypeOK
<1>2. /\ Resumed.selected = D.selected /\ Resumed.generation = D.generation
      /\ Resumed.recovered = D.recovered
  BY <1>1 DEF Resumed, Diagnostic
<1> QED
  BY <1>2 DEF NvInv, Selection, NoForeign, Known

LEMMA ChooseInv ==
  ASSUME NvInv, Unwritten, UNCHANGED <<nv_record_fault, stage>>,
         NEW diag \in Diagnostic, diag.selected \in Pages,
         NEW how \in {"load_resumed", "load_selected"},
         NEW fits, Choose(diag, how, fits),
         diag.recovered = 0 => CleanSelection(diag.selected, diag.generation),
         how = "load_resumed" => diag.recovered = 0,
         \A p \in Pages : media[p] # ForeignPage
  PROVE  NvInv'
<1>1. CASE ~fits
  BY <1>1, FinishInv, ResultNames DEF Choose, NvInv, NvTypeOK
<1>2. CASE fits
  <2>1. /\ D' = [diag EXCEPT !.phase = 2]
        /\ D' \in Diagnostic /\ D'.phase = 2
        /\ D'.selected = diag.selected /\ D'.generation = diag.generation
        /\ D'.recovered = diag.recovered
    BY <1>2, Numerals DEF Choose, Diagnostic
  <2>2. call' = how /\ out' = NoOut
    BY <1>2 DEF Choose
  <2>3. NvTypeOK'
    BY <2>1, <2>2, UnwrittenPages, NvConstants, ResultNames
    DEF NvInv, NvTypeOK, NoOut, EmptyPage, Page, PageStates
  <2>4. Selection' /\ Replacing' /\ NoForeign' /\ Answers'
    BY <2>1, <2>2 DEF Selection, CleanSelection, Replacing, NoForeign, Answers,
                      AnswersLatest, Known, NoOut, Unwritten
  <2> QED
    BY <2>3, <2>4, UnwrittenPages DEF NvInv
<1> QED
  BY <1>1, <1>2

LEMMA LoadSelectInv ==
  ASSUME NvInv, Unwritten, UNCHANGED <<nv_record_fault, stage>>,
         NEW fits, LoadSelect(fits)
  PROVE  NvInv'
<1>1. CASE Selects(SelectResult)
  <2>1. Choose(Selected, "load_selected", fits)
    BY <1>1 DEF LoadSelect
  <2> QED
    BY <1>1, <2>1, SelectionClean, DiagnosticTypes, ChooseInv
<1>2. CASE ~Selects(SelectResult)
  BY <1>2, DiagnosticTypes, SelectResultType, SelectEmpty, FinishInv
  DEF LoadSelect, NvInv, NvTypeOK, Selects
<1> QED
  BY <1>1, <1>2

LEMMA LoadStartInv ==
  ASSUME NvInv, NEW fits, LoadStart(fits)
  PROVE  NvInv'
<1>1. Unwritten /\ UNCHANGED <<nv_record_fault, stage>>
  BY DEF LoadStart, Unwritten
<1>2. CASE Known
  <2>1. Choose(Resumed, "load_resumed", fits)
    BY <1>2 DEF LoadStart
  <2> QED
    BY <1>1, <1>2, <2>1, ResumedClean, DiagnosticTypes, ChooseInv
<1>3. CASE ~Known
  BY <1>1, <1>3, LoadSelectInv DEF LoadStart
<1> QED
  BY <1>2, <1>3

LEMMA LoadRecheckInv ==
  ASSUME NvInv, NEW fits, LoadRecheck(fits)
  PROVE  NvInv'
<1>1. Unwritten /\ UNCHANGED <<nv_record_fault, stage>>
  BY DEF LoadRecheck, Unwritten
<1>2. D \in Diagnostic
  BY DEF NvInv, NvTypeOK
<1>3. CASE ~Matches /\ call = "load_resumed" /\ LoadSelect(fits)
  BY <1>1, <1>3, LoadSelectInv
<1>4. CASE ~Matches /\ call = "load_selected" /\ Finish(D, "load", "CORRUPT")
  BY <1>1, <1>2, <1>4, FinishInv, ResultNames DEF NvInv, NvTypeOK
<1>5. CASE Matches
  <2> DEFINE r == IF D.recovered = 1 THEN "RECOVERED" ELSE "OK"
  <2>1. /\ call \in {"load_resumed", "load_selected"}
        /\ D' = [D EXCEPT !.phase = 8, !.result = r]
        /\ call' = "none"
        /\ out' = [op |-> "load", result |-> r, rec |-> media[D.selected]]
    BY <1>5 DEF LoadRecheck
  <2>2. r \in Results
    BY ResultNames
  <2> HIDE DEF r
  <2>3. /\ D' \in Diagnostic /\ D'.phase = 8 /\ D'.result = r
        /\ D'.selected = D.selected /\ D'.generation = D.generation
        /\ D'.recovered = D.recovered
    BY <1>2, <2>1, <2>2, Numerals DEF Diagnostic
  <2>4. D.selected \in Pages
    BY <2>1 DEF NvInv, Selection, CleanSelection
  <2>5. r = "OK" => D.recovered = 0 /\ CleanSelection(D.selected, D.generation)
    BY <1>2, <2>1 DEF NvInv, Selection, Diagnostic, r
  <2>6. NvTypeOK'
    BY <2>1, <2>2, <2>3, <2>4, UnwrittenPages, <1>1, NvConstants DEF NvInv, NvTypeOK
  <2>7. Selection' /\ Replacing' /\ NoForeign' /\ Answers'
    <3>1. Known' => r = "OK"
      BY <2>3 DEF Known
    <3>2. Selection'
      BY <1>1, <2>1, <2>3, <2>5, <3>1 DEF Selection, CleanSelection, Unwritten
    <3>3. Replacing'
      BY <2>1 DEF Replacing
    <3>4. NoForeign'
      BY <1>1, <2>1 DEF NvInv, NoForeign, Unwritten
    <3>5. Answers'
      <4>1. r # "EMPTY"
        BY DEF r
      <4> QED
        BY <1>1, <1>5, <2>1, <2>3, <2>5, <4>1
        DEF Answers, AnswersLatest, CleanSelection, Matches, Unwritten
    <3> QED
      BY <3>2, <3>3, <3>4, <3>5
  <2> QED
    BY <1>1, <2>6, <2>7, UnwrittenPages DEF NvInv
<1> QED
  BY <1>3, <1>4, <1>5 DEF LoadRecheck

LEMMA LoadRecheckFailsInv ==
  ASSUME NvInv, LoadRecheckFails
  PROVE  NvInv'
  BY FinishInv, ResultNames DEF LoadRecheckFails, Fault, Unwritten, NvInv, NvTypeOK

-----------------------------------------------------------------------------
(* Replacing                                                               *)

LEMMA ReplaceStartInv ==
  ASSUME NvInv, NEW d \in Data, NEW allow, ReplaceStart(d, allow)
  PROVE  NvInv'
<1> DEFINE diag == IF Known THEN Resumed ELSE Selected
           r    == IF Known THEN "OK" ELSE SelectResult
           page == Target(diag)
<1>1. /\ call = "none"
      /\ UNCHANGED <<media, nv_record_fault, decays>>
  BY DEF ReplaceStart
<1>2. diag \in Diagnostic
  BY DiagnosticTypes
<1>3. r = "OK" => /\ diag.selected \in Pages
                  /\ CleanSelection(diag.selected, diag.generation)
                  /\ \A p \in Pages : media[p] # ForeignPage
  <2>1. CASE Known
    BY <2>1, ResumedClean
  <2>2. CASE ~Known /\ r = "OK"
    BY <2>2, SelectionClean DEF Selects
  <2> QED
    BY <2>1, <2>2
<1>4. r = "RECOVERED" => /\ diag.selected = Newest /\ Newest \in Pages
                         /\ diag.generation = media[Newest].gen
                         /\ media[Newest].state = "VALID"
                         /\ media[Other(Newest)].state \notin {"VALID", "EMPTY"}
                         /\ \A p \in Pages : media[p] # ForeignPage
  BY SelectionClean, SelectRecovered DEF Selects
<1>5. r = "EMPTY" => /\ diag.selected = None /\ diag.generation = 0
                     /\ \A p \in Pages : media[p] = EmptyPage
                     /\ latest = EmptyPage
  <2>1. ASSUME r = "EMPTY"
        PROVE  diag = Begun /\ SelectResult = "EMPTY"
    BY <2>1 DEF Selected, Selects
  <2>2. D \in Diagnostic
    BY DEF NvInv, NvTypeOK
  <2>3. Begun.selected = None /\ Begun.generation = 0
    BY <2>2 DEF Begun, Diagnostic
  <2> QED
    BY <2>1, <2>3, SelectEmpty
<1>6. CASE /\ UNCHANGED <<stage, latest>>
           /\ \E c \in Results \ {"OK", "EMPTY"} : Finish(diag, "replace", c)
  BY <1>1, <1>2, <1>6, FinishInv DEF Unwritten, NvInv, NvTypeOK
<1>7. CASE /\ r \in {"OK", "EMPTY", "RECOVERED"}
           /\ diag.generation # MaxGeneration
           /\ diag.erase_attempts[page] < ERASE_LIMIT
           /\ D' = [diag EXCEPT !.phase = 3, !.erase_attempts[page] = @ + 1]
           /\ call' = "replace"
           /\ out' = NoOut
           /\ stage' = d
           /\ latest' = IF r = "RECOVERED" THEN media[diag.selected] ELSE latest
  <2> HIDE DEF diag, r
  <2>1. diag.selected \in Pages \cup {None} /\ page \in Pages
    BY <1>2 DEF Diagnostic, Target, Pages, Other, page
  <2>2. diag.erase_attempts[page] + 1 \in 0..ERASE_LIMIT
    BY <1>2, <1>7, <2>1, NvConstants DEF Diagnostic
  <2>3. /\ D' \in Diagnostic /\ D'.phase = 3
        /\ D'.selected = diag.selected /\ D'.generation = diag.generation
        /\ D'.recovered = diag.recovered /\ D'.result = diag.result
    <3> HIDE DEF page
    <3> QED
      BY <1>2, <1>7, <2>1, <2>2, Numerals DEF Diagnostic
  <2>4. NvTypeOK' /\ LatestShape'
    BY <1>1, <1>4, <1>7, <2>3, NvConstants, ResultNames
    DEF NvInv, NvTypeOK, PageShape, LatestShape, NoOut, EmptyPage, Page, PageStates
  <2>5. ValidFollow' /\ EmptyMeansLatest' /\ PageShape'
    <3>1. PageShape'
      BY <1>1 DEF NvInv, PageShape
    <3>2. CASE r = "RECOVERED"
      BY <1>1, <1>4, <1>7, <3>1, <3>2
      DEF NvInv, NvTypeOK, Page, ValidFollow, EmptyMeansLatest, Pages, Other
    <3>3. CASE r # "RECOVERED"
      BY <1>1, <1>7, <3>1, <3>3 DEF NvInv, ValidFollow, EmptyMeansLatest
    <3> QED
      BY <3>1, <3>2, <3>3
  <2>6. Selection' /\ NoForeign' /\ Answers'
    BY <1>1, <1>3, <1>4, <1>5, <1>7, <2>3
    DEF Selection, NoForeign, Answers, AnswersLatest, Known, NoOut, EmptyPage, ForeignPage
  <2>7. Replacing'
    <3>1. D'.generation < MaxGeneration
      BY <1>2, <1>7, <2>3, NvConstants DEF Diagnostic
    <3>2. D'.selected # None => CleanSelection(D.selected, D.generation)'
      <4>1. CASE r = "OK"
        BY <1>1, <1>3, <1>7, <2>3, <4>1 DEF CleanSelection
      <4>2. CASE r = "RECOVERED"
        BY <1>1, <1>4, <1>7, <2>3, <4>2 DEF CleanSelection
      <4> QED
        BY <1>5, <1>7, <2>3, <4>1, <4>2
    <3>3. D'.selected = None => latest' = EmptyPage /\ D'.generation = 0 /\ media'[1] = EmptyPage
      BY <1>1, <1>3, <1>4, <1>5, <1>7, <2>3 DEF Pages, None
    <3> QED
      BY <1>7, <2>3, <3>1, <3>2, <3>3 DEF Replacing
  <2> QED
    BY <2>4, <2>5, <2>6, <2>7 DEF NvInv
<1> HIDE DEF page
<1>8. r \in Results \ {"PENDING"}
  BY SelectResultType, ResultNames
<1> HIDE DEF diag, r
<1> QED
  <2>1. ASSUME ReplaceStart(d, allow)
        PROVE  \/ UNCHANGED <<stage, latest>> /\ Finish(diag, "replace", "RECOVERY_REQUIRED")
               \/ r \notin {"OK", "EMPTY"} /\ UNCHANGED <<stage, latest>> /\ Finish(diag, "replace", r)
               \/ UNCHANGED <<stage, latest>> /\ Finish(diag, "replace", "GENERATION_EXHAUSTED")
               \/ UNCHANGED <<stage, latest>> /\ Finish(diag, "replace", "ERASE_LIMIT_REACHED")
               \/ /\ r \in {"OK", "EMPTY", "RECOVERED"}
                  /\ diag.generation # MaxGeneration
                  /\ diag.erase_attempts[page] < ERASE_LIMIT
                  /\ D' = [diag EXCEPT !.phase = 3, !.erase_attempts[page] = @ + 1]
                  /\ call' = "replace"
                  /\ out' = NoOut
                  /\ stage' = d
                  /\ latest' = IF r = "RECOVERED" THEN media[diag.selected] ELSE latest
    BY <2>1, Zenon DEF ReplaceStart, diag, r, page
  <2> QED
    BY <1>6, <1>7, <1>8, <2>1, ResultNames

\* What holds of the flash and its history, whatever the RAM says.
FlashInv == /\ media \in [Pages -> Page] /\ latest \in Page
            /\ PageShape /\ LatestShape /\ ValidFollow /\ EmptyMeansLatest

LEMMA TargetFacts ==
  ASSUME NvInv
  PROVE  /\ Target(D) \in Pages /\ Other(Target(D)) \in Pages
         /\ Target(D) # Other(Target(D)) /\ Other(Other(Target(D))) = Target(D)
         /\ D.selected = None => Target(D) = 0
         /\ D.selected # None => Other(Target(D)) = D.selected /\ D.selected \in Pages
<1>1. D.selected \in Pages \cup {None}
  BY DEF NvInv, NvTypeOK, Diagnostic
<1> QED
  BY <1>1 DEF Target, Other, Pages, None

LEMMA BesideTarget ==
  ASSUME NvInv, call = "replace", D.phase \in 3..6
  PROVE  /\ media[Other(Target(D))].state = "VALID" => media[Other(Target(D))] = latest
         /\ media[Other(Target(D))].state = "EMPTY" => latest = EmptyPage
         /\ latest.gen = D.generation
         /\ D.generation \in 0..MaxGeneration /\ D.generation < MaxGeneration
         /\ stage \in Data
  BY TargetFacts DEF NvInv, NvTypeOK, Diagnostic, Replacing, CleanSelection, EmptyPage, Other

Uncommitted == {EmptyPage} \cup {Garbage(s) : s \in GarbageStates}

LEMMA UncommittedTarget ==
  ASSUME NvInv, call = "replace", D.phase \in 3..6,
         NEW pg \in Uncommitted,
         media' = [media EXCEPT ![Target(D)] = pg], latest' = latest
  PROVE  FlashInv'
<1> DEFINE t == Target(D)
           o == Other(Target(D))
<1>1. /\ t \in Pages /\ o \in Pages /\ t # o /\ Other(o) = t /\ Other(t) = o
      /\ Pages = {t, o}
  BY TargetFacts DEF Pages, Other
<1>2. /\ media[o].state = "VALID" => media[o] = latest
      /\ media[o].state = "EMPTY" => latest = EmptyPage
  BY BesideTarget
<1>3. pg \in Page /\ pg.state # "VALID" /\ (pg.state = "EMPTY" => pg = EmptyPage)
  BY NvConstants DEF Uncommitted, EmptyPage, Garbage, Page, PageStates, GarbageStates
<1>4. media \in [Pages -> Page] /\ latest \in Page /\ PageShape /\ LatestShape
  BY DEF NvInv, NvTypeOK
<1> HIDE DEF t, o
<1>5. media' \in [Pages -> Page] /\ media'[t] = pg /\ media'[o] = media[o]
  BY <1>1, <1>3, <1>4 DEF t
<1>6. PageShape' /\ LatestShape'
  BY <1>1, <1>3, <1>4, <1>5 DEF PageShape, LatestShape
<1>7. ValidFollow'
  <2>1. ~(media'[0].state = "VALID" /\ media'[1].state = "VALID")
    BY <1>1, <1>3, <1>5 DEF Pages
  <2> QED
    BY <1>1, <1>2, <1>3, <1>5, <2>1 DEF ValidFollow
<1>8. EmptyMeansLatest'
  BY <1>1, <1>2, <1>3, <1>5 DEF EmptyMeansLatest
<1> QED
  BY <1>4, <1>5, <1>6, <1>7, <1>8 DEF FlashInv

LEMMA CommittedTarget ==
  ASSUME NvInv, call = "replace", D.phase \in 3..6,
         media' = [media EXCEPT ![Target(D)] = StagedRecord], latest' = StagedRecord
  PROVE  FlashInv'
<1> DEFINE t == Target(D)
           o == Other(Target(D))
<1>1. /\ t \in Pages /\ o \in Pages /\ t # o /\ Other(o) = t /\ Other(t) = o
      /\ Pages = {t, o}
  BY TargetFacts DEF Pages, Other
<1>2. /\ media[o].state = "VALID" => media[o] = latest
      /\ latest.gen = D.generation /\ D.generation \in 0..MaxGeneration
      /\ D.generation < MaxGeneration /\ stage \in Data
  BY BesideTarget
<1>3. /\ StagedRecord \in Page /\ StagedRecord.state = "VALID"
      /\ StagedRecord.gen = D.generation + 1 /\ StagedRecord.data = stage
  BY <1>2, NvConstants DEF StagedRecord, Written, Page, PageStates
<1>4. media \in [Pages -> Page] /\ PageShape
  BY DEF NvInv, NvTypeOK
<1> HIDE DEF t, o
<1>5. media' \in [Pages -> Page] /\ media'[t] = StagedRecord /\ media'[o] = media[o]
  BY <1>1, <1>3, <1>4 DEF t
<1>6. PageShape' /\ LatestShape'
  BY <1>1, <1>2, <1>3, <1>4, <1>5 DEF PageShape, LatestShape
<1>7. ValidFollow'
  <2>1. media[o].state = "VALID" => media[o].gen = StagedRecord.gen - 1
    BY <1>2, <1>3
  <2>2. media'[0].state = "VALID" /\ media'[1].state = "VALID" => media'[0].gen # media'[1].gen
    BY <1>1, <1>2, <1>3, <1>5, <2>1 DEF Pages
  <2> QED
    BY <1>1, <1>3, <1>5, <2>1, <2>2 DEF ValidFollow
<1>8. EmptyMeansLatest'
  BY <1>1, <1>3, <1>5 DEF EmptyMeansLatest
<1> QED
  BY <1>3, <1>5, <1>6, <1>7, <1>8 DEF FlashInv

LEMMA ReplaceEraseInv ==
  ASSUME NvInv, ReplaceErase
  PROVE  NvInv'
<1>1. /\ call = "replace" /\ D.phase = 3
      /\ media' = [media EXCEPT ![Target(D)] = EmptyPage]
      /\ D' = [D EXCEPT !.phase = 4]
      /\ UNCHANGED <<nv_record_fault, call, stage, out, latest, decays>>
  BY DEF ReplaceErase, InReplace
<1>2. FlashInv'
  <2>1. EmptyPage \in Uncommitted /\ D.phase \in 3..6
    BY <1>1 DEF Uncommitted
  <2> QED
    BY <1>1, <2>1, UncommittedTarget
<1>3. D \in Diagnostic /\ media \in [Pages -> Page]
  BY DEF NvInv, NvTypeOK
<1>4. /\ D' \in Diagnostic /\ D'.phase = 4 /\ Target(D)' = Target(D)
      /\ D'.selected = D.selected /\ D'.generation = D.generation
  BY <1>1, <1>3, Numerals DEF Diagnostic, Target
<1>5. media'[Target(D)] = EmptyPage /\ media'[Other(Target(D))] = media[Other(Target(D))]
  BY <1>1, <1>3, TargetFacts
<1>6. NvTypeOK'
  BY <1>1, <1>2, <1>4 DEF NvInv, NvTypeOK, FlashInv
<1>7. Selection' /\ NoForeign' /\ Answers'
  <2>1. \A p \in Pages : media'[p] # ForeignPage
    BY <1>1, <1>5, TargetFacts DEF NvInv, NoForeign, Pages, EmptyPage, ForeignPage
  <2> QED
    BY <1>1, <1>4, <2>1 DEF NvInv, Selection, NoForeign, Answers, AnswersLatest, Known
<1>8. Replacing'
  <2>1. D.selected # None => CleanSelection(D.selected, D.generation)'
    BY <1>1, <1>4, <1>5, TargetFacts DEF NvInv, Replacing, CleanSelection, EmptyPage
  <2>2. D.selected = None => latest' = EmptyPage /\ D'.generation = 0 /\ media'[1] = EmptyPage
    BY <1>1, <1>4, <1>5, TargetFacts DEF NvInv, Replacing, Other
  <2> QED
    BY <1>1, <1>4, <1>5, <2>1, <2>2 DEF NvInv, Replacing, EmptyPage
<1> QED
  BY <1>2, <1>6, <1>7, <1>8 DEF NvInv, FlashInv

LEMMA ReplaceBodyInv ==
  ASSUME NvInv, ReplaceBody
  PROVE  NvInv'
<1>1. /\ call = "replace" /\ D.phase = 4
      /\ media' = [media EXCEPT ![Target(D)] = Garbage("INCOMPLETE")]
      /\ D' = [D EXCEPT !.phase = 5]
      /\ UNCHANGED <<nv_record_fault, call, stage, out, latest, decays>>
  BY DEF ReplaceBody, InReplace
<1>2. FlashInv'
  <2>1. Garbage("INCOMPLETE") \in Uncommitted /\ D.phase \in 3..6
    BY <1>1 DEF Uncommitted, GarbageStates
  <2> QED
    BY <1>1, <2>1, UncommittedTarget
<1>3. D \in Diagnostic /\ media \in [Pages -> Page]
  BY DEF NvInv, NvTypeOK
<1>4. /\ D' \in Diagnostic /\ D'.phase = 5 /\ Target(D)' = Target(D)
      /\ D'.selected = D.selected /\ D'.generation = D.generation
  BY <1>1, <1>3, Numerals DEF Diagnostic, Target
<1>5. /\ media'[Target(D)] = Garbage("INCOMPLETE")
      /\ media'[Other(Target(D))] = media[Other(Target(D))]
  BY <1>1, <1>3, TargetFacts
<1>6. NvTypeOK'
  BY <1>1, <1>2, <1>4 DEF NvInv, NvTypeOK, FlashInv
<1>7. Selection' /\ NoForeign' /\ Answers'
  <2>1. \A p \in Pages : media'[p] # ForeignPage
    BY <1>1, <1>5, TargetFacts DEF NvInv, NoForeign, Pages, Garbage, ForeignPage
  <2> QED
    BY <1>1, <1>4, <2>1 DEF NvInv, Selection, NoForeign, Answers, AnswersLatest, Known
<1>8. Replacing'
  <2>1. D.selected # None => CleanSelection(D.selected, D.generation)'
    BY <1>1, <1>4, <1>5, TargetFacts DEF NvInv, Replacing, CleanSelection, Garbage
  <2>2. D.selected = None => latest' = EmptyPage /\ D'.generation = 0 /\ media'[1] = EmptyPage
    BY <1>1, <1>4, <1>5, TargetFacts DEF NvInv, Replacing, Other
  <2> QED
    BY <1>1, <1>4, <1>5, <2>1, <2>2 DEF NvInv, Replacing, Garbage
<1> QED
  BY <1>2, <1>6, <1>7, <1>8 DEF NvInv, FlashInv

LEMMA ReplaceIntegrityInv ==
  ASSUME NvInv, ReplaceIntegrity
  PROVE  NvInv'
<1>1. /\ call = "replace" /\ D.phase = 5
      /\ D' = [D EXCEPT !.phase = 6]
      /\ UNCHANGED <<media, nv_record_fault, call, stage, out, latest, decays>>
  BY DEF ReplaceIntegrity, InReplace
<1>2. D \in Diagnostic
  BY DEF NvInv, NvTypeOK
<1>3. /\ D' \in Diagnostic /\ D'.phase = 6 /\ Target(D)' = Target(D)
      /\ D'.selected = D.selected /\ D'.generation = D.generation
  BY <1>1, <1>2, Numerals DEF Diagnostic, Target
<1>4. NvTypeOK'
  BY <1>1, <1>3 DEF NvInv, NvTypeOK
<1>5. Selection' /\ NoForeign' /\ Answers'
  BY <1>1, <1>3 DEF NvInv, Selection, NoForeign, Answers, AnswersLatest, Known
<1>6. Replacing'
  BY <1>1, <1>3 DEF NvInv, Replacing, CleanSelection
<1> QED
  BY <1>1, <1>4, <1>5, <1>6, UnwrittenPages DEF NvInv, Unwritten

LEMMA ReplaceCommitInv ==
  ASSUME NvInv, ReplaceCommit
  PROVE  NvInv'
<1>1. /\ call = "replace" /\ D.phase = 6
      /\ media' = [media EXCEPT ![Target(D)] = StagedRecord]
      /\ latest' = StagedRecord
      /\ D' = [D EXCEPT !.phase = 7]
      /\ UNCHANGED <<nv_record_fault, call, stage, out, decays>>
  BY DEF ReplaceCommit, InReplace
<1>2. FlashInv'
  BY <1>1, CommittedTarget
<1>3. D \in Diagnostic /\ media \in [Pages -> Page]
  BY DEF NvInv, NvTypeOK
<1>4. /\ D' \in Diagnostic /\ D'.phase = 7 /\ Target(D)' = Target(D)
      /\ D'.selected = D.selected /\ D'.generation = D.generation
  BY <1>1, <1>3, Numerals DEF Diagnostic, Target
<1>5. /\ media'[Target(D)] = StagedRecord
      /\ media'[Other(Target(D))] = media[Other(Target(D))]
      /\ StagedRecord.state = "VALID" /\ StagedRecord.gen = D.generation + 1
  BY <1>1, <1>3, TargetFacts DEF StagedRecord, Written
<1>6. NvTypeOK'
  BY <1>1, <1>2, <1>4 DEF NvInv, NvTypeOK, FlashInv
<1>7. Selection' /\ NoForeign' /\ Answers'
  <2>1. \A p \in Pages : media'[p] # ForeignPage
    BY <1>1, <1>5, TargetFacts DEF NvInv, NoForeign, Pages, ForeignPage
  <2>2. out.result \notin {"OK", "EMPTY"}
    BY <1>1 DEF NvInv, Answers
  <2> QED
    BY <1>1, <1>4, <2>1, <2>2 DEF Selection, NoForeign, Answers, AnswersLatest, Known
<1>8. Replacing'
  <2>1. D.selected # None /\ media'[D.selected].state = "VALID" =>
           media'[D.selected].gen = latest'.gen - 1
    <3>1. D.generation \in 0..MaxGeneration
      BY <1>3 DEF Diagnostic
    <3> QED
      BY <1>1, <1>5, <3>1, BesideTarget, TargetFacts
  <2>2. D.selected = None => media'[1] = EmptyPage
    BY <1>1, <1>5, TargetFacts DEF NvInv, Replacing, Other
  <2> QED
    BY <1>1, <1>4, <1>5, <2>1, <2>2 DEF NvInv, Replacing
<1> QED
  BY <1>2, <1>6, <1>7, <1>8 DEF NvInv, FlashInv

LEMMA ReplaceVerifyInv ==
  ASSUME NvInv, ReplaceVerify
  PROVE  NvInv'
<1> DEFINE t == Target(D)
           r == IF D.recovered = 1 THEN "RECOVERED" ELSE "OK"
<1>1. /\ call = "replace" /\ D.phase = 7
      /\ UNCHANGED <<media, stage, latest, decays>>
  BY DEF ReplaceVerify, InReplace
<1>2. D \in Diagnostic /\ r \in Results
  BY ResultNames DEF NvInv, NvTypeOK
<1>3. CASE \E c \in {"CORRUPT", "READ_FAILED"} : Fault(D, "replace", c)
  BY <1>1, <1>2, <1>3, FinishInv, ResultNames DEF Fault, Unwritten, NvInv, NvTypeOK
<1>4. CASE /\ media[t].state = "VALID"
           /\ media[t].gen = D.generation + 1
           /\ D' = [D EXCEPT !.selected = t, !.generation = @ + 1,
                             !.phase = 8, !.result = r]
           /\ call' = "none"
           /\ out' = [op |-> "replace", result |-> r, rec |-> media[t]]
           /\ UNCHANGED nv_record_fault
  <2>1. t \in Pages /\ Other(t) \in Pages
    BY TargetFacts
  <2>2. D.generation + 1 \in 0..MaxGeneration
    BY <1>1, <1>2, NvConstants DEF NvInv, Replacing, Diagnostic
  <2> HIDE DEF t, r
  <2>3. /\ D' \in Diagnostic /\ D'.phase = 8 /\ D'.result = r
        /\ D'.selected = t /\ D'.generation = D.generation + 1
        /\ D'.recovered = D.recovered
    BY <1>2, <1>4, <2>1, <2>2, Numerals DEF Diagnostic
  <2>4. NvTypeOK'
    BY <1>1, <1>2, <1>4, <2>1, <2>3 DEF NvInv, NvTypeOK
  <2>5. /\ media[t] = latest /\ latest.state = "VALID" /\ latest.gen = D.generation + 1
        /\ media[Other(t)].state = "VALID" => media[Other(t)].gen = latest.gen - 1
    BY <1>1, <1>4, TargetFacts DEF NvInv, Replacing, t, EmptyPage, Other
  <2>6. r # "EMPTY"
    BY DEF r
  <2>7. Selection' /\ Replacing' /\ NoForeign' /\ Answers'
    BY <1>1, <1>4, <2>1, <2>3, <2>5, <2>6
    DEF NvInv, Selection, CleanSelection, Replacing, NoForeign, Answers, AnswersLatest
  <2> QED
    BY <1>1, <2>4, <2>7, UnwrittenPages DEF NvInv, Unwritten
<1> QED
  BY <1>3, <1>4 DEF ReplaceVerify

-----------------------------------------------------------------------------
(* Failed services, resets and page damage                                 *)

\* Whatever a service that is cut short leaves, the flash part of the
\* invariant survives it.
LEMMA TornInv ==
  ASSUME NvInv, NEW p \in Torn, Tear(p)
  PROVE  FlashInv'
<1>1. Target(D) \in Pages /\ media \in [Pages -> Page]
  BY TargetFacts DEF NvInv, NvTypeOK
<1>2. CASE p = media[Target(D)] /\ latest' = latest
  <2>1. media' = media
    BY <1>1, <1>2 DEF Tear
  <2> QED
    BY <1>2, <2>1 DEF NvInv, NvTypeOK, FlashInv, PageShape, LatestShape, ValidFollow,
                      EmptyMeansLatest
<1>3. CASE call = "replace" /\ D.phase \in 3..6 /\ p \in Uncommitted /\ latest' = latest
  BY <1>3, UncommittedTarget DEF Tear
<1>4. CASE call = "replace" /\ D.phase = 6 /\ p = StagedRecord
  <2>1. D.phase \in 3..6 /\ latest' = StagedRecord /\ media' = [media EXCEPT ![Target(D)] = StagedRecord]
    BY <1>4 DEF Tear, InReplace
  <2> QED
    BY <1>4, <2>1, CommittedTarget
<1>5. CASE call # "replace"
  <2>1. p = media[Target(D)]
    BY <1>5 DEF Torn, InReplace
  <2> QED
    BY <1>2, <1>5, <2>1 DEF Tear, InReplace
<1>6. CASE call = "replace" /\ D.phase = 3
  <2>1. p = media[Target(D)] \/ p \in Uncommitted
    BY <1>6 DEF Torn, InReplace, Uncommitted
  <2>2. D.phase \in 3..6 /\ latest' = latest
    BY <1>6 DEF Tear, InReplace
  <2> QED
    BY <1>2, <1>3, <1>6, <2>1, <2>2
<1>7. CASE call = "replace" /\ D.phase = 4
  <2>1. p \in Uncommitted
    BY <1>7 DEF Torn, InReplace, Uncommitted, GarbageStates
  <2>2. D.phase \in 3..6 /\ latest' = latest
    BY <1>7 DEF Tear, InReplace
  <2> QED
    BY <1>3, <1>7, <2>1, <2>2
<1>8. CASE call = "replace" /\ D.phase = 6
  <2>1. p = media[Target(D)] \/ p = StagedRecord
    BY <1>8 DEF Torn, InReplace
  <2> QED
    BY <1>2, <1>4, <1>8, <2>1 DEF Tear
<1>9. CASE call = "replace" /\ D.phase \notin {3, 4, 6}
  <2>1. p = media[Target(D)]
    BY <1>9 DEF Torn, InReplace
  <2> QED
    BY <1>2, <1>9, <2>1 DEF Tear, InReplace
<1> QED
  BY <1>5, <1>6, <1>7, <1>8, <1>9

LEMMA WriteFailsInv ==
  ASSUME NvInv, WriteFails
  PROVE  NvInv'
<1>1. FlashInv'
  BY TornInv DEF WriteFails
<1>2. /\ Finish(D, "replace", "WRITE_FAILED") /\ nv_record_fault' = "WRITE_FAILED"
      /\ UNCHANGED <<stage, decays>>
  BY DEF WriteFails, Fault
<1>3. D \in Diagnostic /\ "WRITE_FAILED" \in Results /\ EmptyPage \in Page
  BY ResultNames, NvConstants DEF NvInv, NvTypeOK, EmptyPage, Page, PageStates
<1>4. D' \in Diagnostic /\ D'.result = "WRITE_FAILED"
  BY <1>2, <1>3 DEF Finish, Diagnostic
<1>5. NvTypeOK'
  BY <1>1, <1>2, <1>3, <1>4 DEF NvInv, NvTypeOK, FlashInv, Finish
<1>6. Selection' /\ Replacing' /\ NoForeign' /\ Answers'
  BY <1>2, <1>4 DEF Finish, Selection, Replacing, NoForeign, Answers, AnswersLatest, Known
<1> QED
  BY <1>1, <1>5, <1>6 DEF NvInv, FlashInv

LEMMA NvResetInv ==
  ASSUME NvInv, NvReset
  PROVE  NvInv'
<1>1. FlashInv'
  BY TornInv DEF NvReset
<1>2. NvTypeOK'
  <2>1. ClearedDiagnostic \in Diagnostic /\ EmptyPage \in Page
    BY Numerals, ResultNames, NvConstants
    DEF ClearedDiagnostic, Diagnostic, Pages, EmptyPage, Page, PageStates
  <2> QED
    BY <1>1, <2>1, ResultNames DEF NvInv, NvTypeOK, FlashInv, NvReset, NoOut
<1>3. Selection' /\ Replacing' /\ NoForeign' /\ Answers'
  BY DEF NvReset, ClearedDiagnostic, NoOut, Selection, Replacing, NoForeign, Answers,
         AnswersLatest, Known
<1> QED
  BY <1>1, <1>2, <1>3 DEF NvInv, FlashInv

LEMMA DecayInv ==
  ASSUME NvInv, NEW q \in Pages, Decay(q)
  PROVE  NvInv'
<1>1. PICK s \in GarbageStates : media' = [media EXCEPT ![q] = Garbage(s)]
  BY DEF Decay
<1>2. /\ media[q].state = "VALID" /\ decays < MaxDecay /\ decays' = decays + 1
      /\ UNCHANGED <<nv_record_fault, D, call, stage, out, latest>>
  BY DEF Decay
<1>3. media \in [Pages -> Page]
  BY DEF NvInv, NvTypeOK
<1>4. /\ Garbage(s) \in Page /\ Garbage(s).state \notin {"VALID", "EMPTY"}
      /\ Garbage(s) # ForeignPage
  BY NvConstants DEF Garbage, Page, PageStates, GarbageStates, ForeignPage
<1>5. /\ media' \in [Pages -> Page]
      /\ media'[q] = Garbage(s)
      /\ \A p \in Pages : p # q => media'[p] = media[p]
  BY <1>1, <1>3, <1>4
<1>6. \A p \in Pages : /\ media'[p].state \in {"VALID", "EMPTY"} => media'[p] = media[p]
                       /\ media[p].state # "EMPTY" => media'[p].state # "EMPTY"
  BY <1>4, <1>5
<1>7. NvTypeOK'
  BY <1>2, <1>5, NvConstants DEF NvInv, NvTypeOK
<1>8. PageShape' /\ LatestShape' /\ ValidFollow' /\ EmptyMeansLatest'
  <2>1. PageShape' /\ LatestShape'
    BY <1>2, <1>6 DEF NvInv, PageShape, LatestShape
  <2>2. ValidFollow'
    <3>1. 0 \in Pages /\ 1 \in Pages
      BY DEF Pages
    <3> QED
      BY <1>2, <1>6, <3>1 DEF NvInv, ValidFollow
  <2>3. EmptyMeansLatest'
    <3>1. \A p \in Pages : Other(p) \in Pages
      BY DEF Pages, Other
    <3>2. ~(\A p \in Pages : media'[p].state = "EMPTY")
      BY <1>4, <1>5
    <3> QED
      BY <1>2, <1>6, <3>1, <3>2 DEF NvInv, EmptyMeansLatest
  <2> QED
    BY <2>1, <2>2, <2>3
<1>9. CleanSelection(D.selected, D.generation) => CleanSelection(D.selected, D.generation)'
  <2>1. D.selected \in Pages => Other(D.selected) \in Pages
    BY DEF Pages, Other
  <2> QED
    BY <1>2, <1>6, <2>1 DEF CleanSelection
<1>10. Selection'
  BY <1>2, <1>9 DEF NvInv, Selection, Known
<1>11. Replacing'
  <2>1. 1 \in Pages
    BY DEF Pages
  <2>2. Target(D)' = Target(D)
    BY <1>2 DEF Target
  <2>3. ASSUME call = "replace"
        PROVE  /\ D.phase \in 3..6 =>
                    IF D.selected = None
                    THEN latest' = EmptyPage /\ D.generation = 0 /\ media'[1] = EmptyPage
                    ELSE CleanSelection(D.selected, D.generation)'
               /\ D.phase \in 3..6 /\ media'[Target(D)].state = "VALID" => D.phase = 3
               /\ D.phase = 4 => media'[Target(D)] = EmptyPage
               /\ D.phase \in 5..6 => media'[Target(D)] = Garbage("INCOMPLETE")
               /\ D.phase = 7 =>
                    /\ media'[Target(D)].state # "EMPTY"
                    /\ media'[Target(D)].state = "VALID" => media'[Target(D)] = latest
                    /\ IF D.selected = None
                       THEN media'[1] = EmptyPage
                       ELSE media'[D.selected].state = "VALID" =>
                              media'[D.selected].gen = latest.gen - 1
    <3>1. CASE D.phase \in 3..6
      BY <1>2, <1>5, <1>6, <1>9, <2>1, <2>3, <3>1, TargetFacts
      DEF NvInv, Replacing, EmptyPage, Garbage
    <3>2. CASE D.phase = 7
      BY <1>2, <1>5, <1>6, <2>1, <2>3, <3>2, TargetFacts
      DEF NvInv, Replacing, EmptyPage
    <3> QED
      BY <2>3, <3>1, <3>2 DEF NvInv, Replacing
  <2> QED
    BY <1>2, <2>2, <2>3 DEF NvInv, Replacing
<1>12. NoForeign' /\ Answers'
  BY <1>2, <1>4, <1>5 DEF NvInv, NoForeign, Answers, AnswersLatest, Known
<1> QED
  BY <1>7, <1>8, <1>10, <1>11, <1>12 DEF NvInv

-----------------------------------------------------------------------------
(* The theorems                                                            *)

LEMMA NextInv == NvInv /\ [NvNext]_nvVars => NvInv'
<1> SUFFICES ASSUME NvInv, [NvNext]_nvVars PROVE NvInv'
  OBVIOUS
<1>1. CASE Load
  BY <1>1, LoadStartInv, LoadRecheckInv, LoadRecheckFailsInv, ReadFailsInv, FaultedInv
  DEF Load
<1>2. CASE Replace
  BY <1>2, ReplaceStartInv, ReplaceEraseInv, ReplaceBodyInv, ReplaceIntegrityInv,
     ReplaceCommitInv, ReplaceVerifyInv, WriteFailsInv, ReadFailsInv, FaultedInv
  DEF Replace
<1>3. CASE NvReset
  BY <1>3, NvResetInv
<1>4. CASE \E p \in Pages : Decay(p)
  BY <1>4, DecayInv
<1>5. CASE UNCHANGED nvVars
  BY <1>5, StutterInv
<1> QED
  BY <1>1, <1>2, <1>3, <1>4, <1>5 DEF NvNext

\* The inductive invariant holds of every behaviour of the journal, with power
\* cuts and failures in any flash service.
THEOREM Inductive == NvSpec => []NvInv
  BY InitInv, NextInv, PTL DEF NvSpec

\* Every variable of the journal keeps its C type, generations and erase
\* counters included, whatever fails (nv_record.c).
THEOREM TypeCorrect == NvSpec => []NvTypeOK
<1>1. NvInv => NvTypeOK
  BY DEF NvInv
<1> QED
  BY <1>1, Inductive, PTL

\* A load or a replacement that returns a clean OK answers with the last
\* record committed (nv_record_load, nv_record_replace).
THEOREM LoadsAreCurrent == NvSpec => []AnswersLatest
<1>1. NvInv => AnswersLatest
  BY DEF NvInv, Answers
<1> QED
  BY <1>1, Inductive, PTL

\* select_record never meets two valid pages that do not follow each other.
THEOREM PagesNeverConflict == NvSpec => []NeverConflict
  BY InvNeverConflict, Inductive, PTL

\* A page in an unknown format is never erased or written: only a replacement
\* writes, and it has scanned both pages first (nv_record_replace).
THEOREM ForeignIsPreserved == NvSpec => ForeignPreserved
<1>1. NvInv /\ NvNext =>
        \A p \in Pages : media[p] = ForeignPage => media'[p] = ForeignPage
  <2> SUFFICES ASSUME NvInv, NvNext, NEW p \in Pages, media[p] = ForeignPage
               PROVE  media'[p] = ForeignPage
    OBVIOUS
  <2>1. call = "none" /\ media \in [Pages -> Page]
    BY DEF NvInv, NoForeign, NvTypeOK
  <2>2. CASE media' = media
    BY <2>2
  <2>3. CASE \E q \in Pages : Decay(q)
    <3>1. PICK q \in Pages, s \in GarbageStates :
            media[q].state = "VALID" /\ media' = [media EXCEPT ![q] = Garbage(s)]
      BY <2>3 DEF Decay
    <3>2. q # p
      BY <3>1 DEF ForeignPage
    <3> QED
      BY <2>1, <3>1, <3>2
  <2>4. CASE NvReset
    <3>1. Torn = {media[Target(D)]}
      BY <2>1 DEF Torn, InReplace
    <3> QED
      BY <2>1, <2>2, <2>4, <3>1, TargetFacts DEF NvReset, Tear
  <2>5. CASE Load
    BY <2>2, <2>5 DEF Load, LoadStart, LoadRecheck, LoadRecheckFails, ReadFails, Faulted
  <2>6. CASE Replace
    BY <2>1, <2>2, <2>6
    DEF Replace, ReplaceStart, ReplaceErase, ReplaceBody, ReplaceIntegrity, ReplaceCommit,
        ReplaceVerify, WriteFails, ReadFails, Faulted, InReplace
  <2> QED
    BY <2>3, <2>4, <2>5, <2>6 DEF NvNext
<1>2. NvInv /\ [NvNext]_nvVars =>
        [\A p \in Pages : media[p] = ForeignPage => media'[p] = ForeignPage]_nvVars
  BY <1>1
<1> QED
  BY <1>2, Inductive, PTL DEF NvSpec, ForeignPreserved

-----------------------------------------------------------------------------
(* While no page is damaged, the journal implements an atomic register.    *)

\* The latest record is on one of the pages.
Persists == latest.state = "VALID" => \E p \in Pages : media[p] = latest

LEMMA NewestIsLatest ==
  ASSUME NvInv, Persists
  PROVE  (IF ValidPages = {} THEN EmptyPage ELSE media[Newest]) = latest
<1> USE DEF Pages
<1>1. CASE ValidPages = {}
  BY <1>1 DEF ValidPages, Persists, NvInv, LatestShape
<1>2. CASE ValidPages # {}
  <2>1. latest.state = "VALID" /\ latest \in Page
    BY <1>2 DEF ValidPages, NvInv, NvTypeOK, ValidFollow
  <2>2. PICK p \in Pages : media[p] = latest
    BY <2>1 DEF Persists
  <2>3. p \in ValidPages /\ Newest \in ValidPages
    BY <1>2, <2>1, <2>2 DEF ValidPages, Newest
  <2>4. ASSUME Newest # p PROVE FALSE
    <3>1. ValidPages = Pages
      BY <2>3, <2>4 DEF ValidPages
    <3>2. \A q \in Pages : media[q] = latest \/ media[q].gen = latest.gen - 1
      BY <3>1 DEF ValidPages, NvInv, ValidFollow
    <3>3. media[0].gen # media[1].gen /\ latest.gen \in Nat
      BY <2>1, <3>1, NvConstants DEF ValidPages, NvInv, ValidFollow, Page
    <3> QED
      BY <2>2, <2>4, <3>1, <3>2, <3>3 DEF Newest
  <2> QED
    BY <1>2, <2>2, <2>4
<1> QED
  BY <1>1, <1>2

\* The page beside the target of an uncommitted replacement holds it.
LEMMA BesideHolds ==
  ASSUME NvInv, Persists, call = "replace", D.phase \in 3..6, latest.state = "VALID"
  PROVE  media[Other(Target(D))] = latest
<1>1. D.selected # None /\ CleanSelection(D.selected, D.generation)
  BY DEF NvInv, Replacing, EmptyPage
<1>2. /\ D.selected \in Pages /\ Other(Target(D)) = D.selected
      /\ Target(D) = Other(D.selected) /\ Pages = {D.selected, Other(D.selected)}
  BY <1>1, TargetFacts DEF Target, Pages, Other
<1>3. latest.gen \in Nat /\ (media[Other(D.selected)] # latest)
  BY <1>1, NvConstants DEF NvInv, NvTypeOK, Page, CleanSelection
<1> QED
  BY <1>2, <1>3 DEF Persists

\* What one step does to the latest record when no page decays.
LatestStep == \/ latest' = latest
              \/ latest.gen < MaxGeneration /\ \E d \in Data : latest' = Written(latest.gen + 1, d)

LEMMA TearStep ==
  ASSUME NvInv, Persists, NEW p \in Torn, Tear(p)
  PROVE  Persists' /\ LatestStep
<1>1. Target(D) \in Pages /\ Other(Target(D)) \in Pages /\ Other(Target(D)) # Target(D)
      /\ media \in [Pages -> Page]
  BY TargetFacts DEF NvInv, NvTypeOK
<1>2. media'[Target(D)] = p /\ media'[Other(Target(D))] = media[Other(Target(D))]
  BY <1>1 DEF Tear
<1>3. CASE InReplace(6) /\ p = StagedRecord
  BY <1>1, <1>2, <1>3, BesideTarget
  DEF Tear, Persists, LatestStep, StagedRecord, InReplace
<1>4. CASE p = media[Target(D)] /\ latest' = latest
  <2>1. media' = media
    BY <1>1, <1>4 DEF Tear
  <2> QED
    BY <1>4, <2>1 DEF Persists, LatestStep
<1>5. CASE call = "replace" /\ D.phase \in 3..6 /\ latest' = latest
  BY <1>1, <1>2, <1>5, BesideHolds DEF Persists, LatestStep
<1>6. CASE ~InReplace(6) /\ ~(call = "replace" /\ D.phase \in 3..6)
  <2>1. p = media[Target(D)]
    BY <1>6 DEF Torn, InReplace
  <2> QED
    BY <1>4, <1>6, <2>1 DEF Tear
<1>7. CASE InReplace(6) /\ p # StagedRecord
  BY <1>5, <1>7 DEF Tear, InReplace
<1>8. CASE ~InReplace(6) /\ call = "replace" /\ D.phase \in 3..6
  BY <1>5, <1>8 DEF Tear
<1> QED
  BY <1>3, <1>6, <1>7, <1>8

LEMMA NextPersists ==
  ASSUME NvInv, Persists, decays' = 0, [NvNext]_nvVars
  PROVE  Persists' /\ LatestStep
<1>1. media \in [Pages -> Page] /\ decays \in Nat
  BY DEF NvInv, NvTypeOK
<1>2. CASE UNCHANGED <<media, latest>>
  BY <1>2 DEF Persists, LatestStep
<1>3. CASE Load
  BY <1>2, <1>3 DEF Load, LoadStart, LoadRecheck, LoadRecheckFails, ReadFails, Faulted
<1>4. CASE NvReset \/ WriteFails
  BY <1>4, TearStep DEF NvReset, WriteFails
<1>5. ASSUME NEW d \in Data, NEW allow \in BOOLEAN, ReplaceStart(d, allow)
      PROVE  UNCHANGED <<media, latest>>
  <2>1. media' = media
    BY <1>5 DEF ReplaceStart
  <2>2. latest' = latest \/ (~Known /\ SelectResult = "RECOVERED" /\ latest' = media[Selected.selected])
    BY <1>5 DEF ReplaceStart
  <2>3. ~Known /\ SelectResult = "RECOVERED" => media[Selected.selected] = latest
    BY SelectionClean, SelectRecovered, NewestIsLatest DEF Selects, ValidPages
  <2> QED
    BY <2>1, <2>2, <2>3
<1>6. CASE ReplaceErase \/ ReplaceBody
  <2>1. /\ call = "replace" /\ D.phase \in 3..6 /\ latest' = latest
        /\ media'[Other(Target(D))] = media[Other(Target(D))]
    BY <1>1, <1>6, TargetFacts DEF ReplaceErase, ReplaceBody, InReplace
  <2> QED
    BY <2>1, BesideHolds, TargetFacts DEF Persists, LatestStep
<1>7. CASE ReplaceCommit
  <2>1. /\ call = "replace" /\ D.phase = 6 /\ latest' = StagedRecord
        /\ media'[Target(D)] = StagedRecord /\ Target(D) \in Pages
    BY <1>1, <1>7, TargetFacts DEF ReplaceCommit, InReplace
  <2> QED
    BY <2>1, BesideTarget DEF Persists, LatestStep, StagedRecord
<1>8. CASE ReplaceIntegrity \/ ReplaceVerify
  BY <1>2, <1>8 DEF ReplaceIntegrity, ReplaceVerify
<1>9. CASE Replace
  BY <1>2, <1>4, <1>5, <1>6, <1>7, <1>8, <1>9 DEF Replace, ReadFails, Faulted
<1>10. CASE \E p \in Pages : Decay(p)
  BY <1>1, <1>10 DEF Decay
<1>11. CASE UNCHANGED nvVars
  BY <1>2, <1>11 DEF nvVars
<1> QED
  BY <1>3, <1>4, <1>9, <1>10, <1>11 DEF NvNext

\* Damage is never undone.
LEMMA DecaysGrow ==
  ASSUME NvInv, [NvNext]_nvVars
  PROVE  decays' = decays \/ decays' = decays + 1
<1>1. CASE Load
  BY <1>1 DEF Load, LoadStart, LoadRecheck, LoadRecheckFails, ReadFails, Faulted
<1>2. CASE Replace
  BY <1>2 DEF Replace, ReplaceStart, ReplaceErase, ReplaceBody, ReplaceIntegrity,
              ReplaceCommit, ReplaceVerify, WriteFails, ReadFails, Faulted
<1>3. CASE NvReset
  BY <1>3 DEF NvReset
<1>4. CASE \E p \in Pages : Decay(p)
  BY <1>4 DEF Decay
<1>5. CASE UNCHANGED nvVars
  BY <1>5 DEF nvVars
<1> QED
  BY <1>1, <1>2, <1>3, <1>4, <1>5 DEF NvNext

\* As long as no committed page is damaged, a reader of the two pages sees one
\* register that goes from each record to its successor in a single step,
\* whatever is cut short or fails (nv_record_replace).
THEOREM JournalIsAtomic == NvSpec => AtomicJournal
<1> DEFINE v == IF ValidPages = {} THEN EmptyPage ELSE media[Newest]
           Sound == decays = 0 => Persists
           Seen == decays = 0 => v = latest
<1>1. NvInit => NvInv /\ Sound
  BY InitInv DEF NvInit, Persists, Pages, EmptyPage
<1>2. NvInv /\ Sound /\ [NvNext]_nvVars => (NvInv /\ Sound)'
  <2> SUFFICES ASSUME NvInv, Sound, [NvNext]_nvVars PROVE (NvInv /\ Sound)'
    OBVIOUS
  <2>1. decays \in Nat /\ (decays' = 0 => decays = 0)
    BY DecaysGrow, NvConstants DEF NvInv, NvTypeOK
  <2> QED
    BY <2>1, NextInv, NextPersists
<1>3. NvInit => Journal!ARInit
  <2> SUFFICES ASSUME NvInit PROVE Journal!ARInit
    OBVIOUS
  <2>1. v = latest /\ decays = 0
    BY <1>1, NewestIsLatest DEF NvInit
  <2>2. latest = EmptyPage \/ \E d \in Data : latest = Written(1, d)
    BY NvConstants DEF NvInit
  <2> QED
    BY <2>1, <2>2 DEF Journal!ARInit, Journal!Empty, Journal!Record, EmptyPage, Written
<1>4. NvInv /\ Sound => Seen
  BY NewestIsLatest
<1>5. NvInv /\ Sound /\ Seen /\ Seen' /\ [NvNext]_nvVars
      => [Journal!ARNext]_<<v, decays # 0>>
  <2> SUFFICES ASSUME NvInv, Sound, Seen, Seen', [NvNext]_nvVars
               PROVE  [Journal!ARNext]_<<v, decays # 0>>
    OBVIOUS
  <2>1. decays \in Nat /\ (decays' = 0 => decays = 0)
    BY DecaysGrow, NvConstants DEF NvInv, NvTypeOK
  <2>2. CASE decays' # 0
    BY <2>2 DEF Journal!ARNext, Journal!Damage
  <2>3. CASE decays' = 0
    <3>1. LatestStep /\ v = latest /\ v' = latest' /\ decays = 0
      BY <2>1, <2>3, NextPersists
    <3>2. v' = v \/ (v.gen < MaxGeneration /\ \E d \in Data : v' = Written(v.gen + 1, d))
      <4> HIDE DEF v
      <4> QED
        BY <3>1 DEF LatestStep
    <3> QED
      BY <2>3, <3>1, <3>2 DEF Journal!ARNext, Journal!Commit, Journal!Record, Written
  <2> QED
    BY <2>2, <2>3
<1> QED
  BY <1>1, <1>2, <1>3, <1>4, <1>5, PTL DEF NvSpec, AtomicJournal, Journal!ARSpec

-----------------------------------------------------------------------------
(* The counters.                                                           *)


-----------------------------------------------------------------------------
(* The inductive invariant: NvInv, and what the owner's RAM, its request   *)
(* and the journal's latest record have to do with each other.             *)

Holding == C.state \in {"READY", "BUSY"}

\* The cursors of an owner that may still allocate lie above everything handed
\* out and below the ceilings it has staged.
Cursors ==
  Holding =>
    /\ blob \in Blob
    /\ \A d \in Domains : /\ emitted[d] < C.next[d]
                          /\ C.next[d] <= C.until[d]
                          /\ C.until[d] <= blob.ceil[d]

\* A READY owner agrees with the journal; before the first commit there is
\* no record and no range.
Agreement ==
  /\ C.state = "UNPROVISIONED" => latest = EmptyPage
  /\ C.state # "BUSY" /\ C.generation = 0 /\ Holding =>
       latest = EmptyPage /\ C.next = C.until
  /\ C.state = "READY" /\ C.generation # 0 => latest = Written(C.generation, blob)
  /\ C.state = "READY" => C.until = blob.ceil
  /\ C.state \in {"COLD", "UNPROVISIONED"} => C.generation = 0

\* The state a call in progress was admitted in, and where it has got to.
Requests ==
  /\ req = Idle => call = "none" /\ C.state # "BUSY"
  /\ req # Idle => req.op \in {"open", "take", "save"} /\ req.step \in {"load", "commit"}
  /\ req.op = "open" => C.state = "COLD" /\ req.step = "load"
  /\ req.step = "load" => /\ call \in {"none", "load_resumed", "load_selected"}
                          /\ req.op \in {"take", "save"} => C.state = "READY"
  /\ req.step = "commit" => C.state = "BUSY" /\ call \in {"none", "replace"}
  /\ C.state = "BUSY" => req.step = "commit"
  /\ req.op = "save" => req.payload \in Payload
  /\ req.op = "take" => /\ C.next[req.domain] = C.until[req.domain]
                        /\ C.until[req.domain] < MaxCounter

\* While a record is being committed, the ceilings it holds are not below the
\* ones in the journal, whether or not the commit word has been written.
Committing ==
  req.step = "commit" =>
    /\ \A d \in Domains :
         blob.ceil[d] = IF req.op = "take" /\ d = req.domain THEN End(d) ELSE C.until[d]
    /\ latest = EmptyPage \/ (/\ latest.data \in Blob
                              /\ \A d \in Domains : latest.data.ceil[d] <= blob.ceil[d])
    /\ call = "replace" => stage = blob /\ (D.phase = 7 => latest.data = blob)
    /\ call = "none" /\ out.result = "OK" => latest.data = blob

CounterInv == /\ NvInv /\ TypeOK /\ NeverReused /\ CeilingBeforeUse
              /\ Cursors /\ Agreement /\ Requests /\ Committing

-----------------------------------------------------------------------------
LEMMA CounterInit == Init => CounterInv
<1> SUFFICES ASSUME Init PROVE CounterInv
  OBVIOUS
<1>1. NvInv
  BY InitInv DEF Init
<1>2. TypeOK
  BY <1>1, NvConstants, CounterConstants
  DEF Init, TypeOK, NvInv, ColdCounter, NoBlob, Idle, CounterStates, CounterResults, Domains
<1>3. NeverReused /\ CeilingBeforeUse
  BY DEF Init, NeverReused, CeilingBeforeUse
<1>4. Cursors /\ Agreement /\ Requests /\ Committing
  BY DEF Init, NvInit, ColdCounter, Idle, Cursors, Agreement, Requests, Committing, Holding
<1> QED
  BY <1>1, <1>2, <1>3, <1>4 DEF CounterInv

\* The types of the owner's own variables.
OwnType ==
  /\ C \in [state : CounterStates, result : CounterResults,
            generation : 0..MaxGeneration,
            next : [Domains -> 0..MaxCounter], until : [Domains -> 0..MaxCounter]]
  /\ blob \in [ceil : [Domains -> 0..MaxCounter], payload : Payload \cup {NoData}]
  /\ req \in [op : {"none", "open", "take", "save"},
              step : {"none", "load", "commit"},
              domain : Domains, payload : Payload \cup {NoData}]
  /\ emitted \in [Domains -> -1..MaxCounter]
  /\ fresh \in BOOLEAN

LEMMA OwnTypes == /\ TypeOK <=> NvTypeOK /\ OwnType
                  /\ (TypeOK <=> NvTypeOK /\ OwnType)'
  BY DEF TypeOK, OwnType

LEMMA IdleType ==
  /\ Idle \in [op : {"none", "open", "take", "save"}, step : {"none", "load", "commit"},
               domain : Domains, payload : Payload \cup {NoData}]
  /\ Idle.op = "none" /\ Idle.step = "none"
  BY DEF Idle, Domains

LEMMA EndBounds ==
  ASSUME NEW d \in Domains, OwnType
  PROVE  /\ End(d) \in 0..MaxCounter
         /\ C.until[d] <= End(d)
         /\ C.until[d] < MaxCounter => C.until[d] < End(d)
<1>1. C.until[d] \in 0..MaxCounter
  BY DEF OwnType
<1> QED
  BY <1>1, CounterConstants DEF End

-----------------------------------------------------------------------------
(* What the calls into the journal leave alone.                            *)

LEMMA LoadCallFacts ==
  ASSUME NvInv, LoadCall
  PROVE  /\ NvInv' /\ latest' = latest /\ call = "none"
         /\ call' \in {"none", "load_resumed", "load_selected"}
<1>1. CASE LoadStart(TRUE)
  BY <1>1, LoadStartInv DEF LoadStart, LoadSelect, Choose, Finish
<1>2. CASE ReadFails("load")
  BY <1>2, ReadFailsInv DEF ReadFails, Fault, Finish
<1>3. CASE Faulted("load")
  BY <1>3, FaultedInv DEF Faulted
<1> QED
  BY <1>1, <1>2, <1>3 DEF LoadCall

LEMMA ReplaceCallFacts ==
  ASSUME NvInv, NEW b \in Data, ReplaceCall(b)
  PROVE  /\ NvInv' /\ latest' = latest /\ call = "none"
         /\ \/ call' = "replace" /\ stage' = b /\ D'.phase = 3
            \/ call' = "none" /\ out'.result # "OK"
<1>1. CASE ReadFails("replace")
  BY <1>1, ReadFailsInv DEF ReadFails, Fault, Finish
<1>2. CASE Faulted("replace")
  BY <1>2, FaultedInv DEF Faulted
<1>3. CASE ReplaceStart(b, FALSE)
  <2>1. NvInv'
    BY <1>3, ReplaceStartInv
  <2>2. latest' = latest /\ call = "none"
    BY <1>3 DEF ReplaceStart
  <2>3. \/ call' = "replace" /\ stage' = b
        \/ call' = "none" /\ out'.result # "OK"
    BY <1>3 DEF ReplaceStart, Finish
  <2>4. ASSUME call' = "replace" PROVE D'.phase = 3
    <3> DEFINE diag == IF Known THEN Resumed ELSE Selected
    <3>1. diag \in Diagnostic
      BY DiagnosticTypes
    <3>2. D' = [diag EXCEPT !.phase = 3, !.erase_attempts[Target(diag)] = @ + 1]
      BY <1>3, <2>4 DEF ReplaceStart, Finish
    <3> HIDE DEF diag
    <3> QED
      BY <3>1, <3>2 DEF Diagnostic
  <2> QED
    BY <2>1, <2>2, <2>3, <2>4
<1> QED
  BY <1>1, <1>2, <1>3 DEF ReplaceCall

LEMMA LoadStepFacts ==
  ASSUME NvInv, LoadRecheck(TRUE) \/ LoadRecheckFails
  PROVE  /\ NvInv' /\ latest' = latest
         /\ call \in {"load_resumed", "load_selected"}
         /\ call' \in {"none", "load_selected"}
  BY LoadRecheckInv, LoadRecheckFailsInv
  DEF LoadRecheck, LoadRecheckFails, LoadSelect, Choose, Fault, Finish

LEMMA ReplaceStepFacts ==
  ASSUME NvInv, \/ ReplaceErase \/ ReplaceBody \/ ReplaceIntegrity
                \/ ReplaceCommit \/ ReplaceVerify \/ WriteFails
  PROVE  /\ NvInv' /\ call = "replace"
         /\ latest' = latest \/ (latest' = StagedRecord /\ D.phase \in 3..6)
         /\ \/ call' = "replace" /\ stage' = stage /\ (D'.phase = 7 => latest' = StagedRecord)
            \/ call' = "none" /\ (out'.result = "OK" => D.phase = 7 /\ latest' = latest)
<1>1. D \in Diagnostic
  BY DEF NvInv, NvTypeOK
<1>2. CASE ReplaceErase
  BY <1>1, <1>2, ReplaceEraseInv DEF ReplaceErase, InReplace, Diagnostic
<1>3. CASE ReplaceBody
  BY <1>1, <1>3, ReplaceBodyInv DEF ReplaceBody, InReplace, Diagnostic
<1>4. CASE ReplaceIntegrity
  BY <1>1, <1>4, ReplaceIntegrityInv DEF ReplaceIntegrity, InReplace, Diagnostic
<1>5. CASE ReplaceCommit
  BY <1>1, <1>5, ReplaceCommitInv DEF ReplaceCommit, InReplace
<1>6. CASE ReplaceVerify
  BY <1>6, ReplaceVerifyInv DEF ReplaceVerify, InReplace, Fault, Finish
<1>7. CASE WriteFails
  BY <1>7, WriteFailsInv DEF WriteFails, Tear, InReplace, Fault, Finish
<1> QED
  BY <1>2, <1>3, <1>4, <1>5, <1>6, <1>7

\* Whatever changes the latest record while a record is being committed
\* raises the ceilings to the ones of that record.
LEMMA CommitRaises ==
  ASSUME CounterInv, req.step = "commit", call = "replace", D.phase \in 3..6,
         latest' = StagedRecord
  PROVE  /\ latest'.state = "VALID" /\ latest'.data = blob /\ blob \in Blob
         /\ \A d \in Domains : emitted[d] < blob.ceil[d]
         /\ latest.state = "VALID" =>
              latest.data \in Blob /\ \A d \in Domains : latest.data.ceil[d] <= blob.ceil[d]
<1>1. blob \in Blob /\ stage = blob
  BY DEF CounterInv, Requests, Cursors, Holding, Committing
<1>2. latest'.state = "VALID" /\ latest'.data = blob
  BY <1>1 DEF StagedRecord, Written
<1>3. \A d \in Domains : emitted[d] < blob.ceil[d]
  <2> TAKE d \in Domains
  <2>1. /\ emitted[d] < C.next[d] /\ C.next[d] <= C.until[d] /\ C.until[d] <= blob.ceil[d]
        /\ OwnType
    BY OwnTypes DEF CounterInv, Requests, Cursors, Holding
  <2>2. /\ emitted[d] \in -1..MaxCounter /\ C.next[d] \in 0..MaxCounter
        /\ C.until[d] \in 0..MaxCounter /\ blob.ceil[d] \in 0..MaxCounter
    BY <2>1 DEF OwnType
  <2> QED
    BY <2>1, <2>2, CounterConstants
<1>4. latest.state = "VALID" => latest.data \in Blob /\ \A d \in Domains : latest.data.ceil[d] <= blob.ceil[d]
  BY DEF CounterInv, Committing, EmptyPage
<1> QED
  BY <1>1, <1>2, <1>3, <1>4

-----------------------------------------------------------------------------
(* The steps that only work on RAM.                                        *)

LEMMA LocalInv ==
  ASSUME CounterInv, UNCHANGED nvVars
  PROVE  NvInv' /\ UNCHANGED <<latest, call, out, D, stage>>
  BY StutterInv DEF CounterInv, nvVars

LEMMA FailInv ==
  ASSUME CounterInv, UNCHANGED nvVars, call = "none", NEW r \in CounterResults, Fail(r)
  PROVE  CounterInv'
<1>1. /\ C' = [C EXCEPT !.state = "FAILED", !.result = r] /\ req' = Idle
      /\ UNCHANGED <<blob, emitted, fresh>>
  BY DEF Fail, Return
<1>2. OwnType
  BY OwnTypes DEF CounterInv
<1>3. "FAILED" \in CounterStates
  BY DEF CounterStates
<1>4. OwnType' /\ C'.state = "FAILED"
  BY <1>1, <1>2, <1>3, IdleType DEF OwnType
<1>5. TypeOK' /\ NvInv' /\ UNCHANGED <<latest, call, out, D, stage>>
  BY <1>4, LocalInv, OwnTypes DEF NvInv
<1>6. NeverReused' /\ CeilingBeforeUse'
  BY <1>1, <1>5 DEF CounterInv, NeverReused, CeilingBeforeUse
<1>7. Cursors' /\ Agreement' /\ Requests' /\ Committing'
  BY <1>1, <1>4, <1>5, IdleType DEF Cursors, Agreement, Requests, Committing, Holding
<1> QED
  BY <1>5, <1>6, <1>7 DEF CounterInv

LEMMA StateNames ==
  /\ {"COLD", "UNPROVISIONED", "READY", "FAILED", "BUSY"} \subseteq CounterStates
  /\ {"OK", "EMPTY", "FORMAT", "VERSION", "RECOVERY", "NV", "ROLLBACK", "EXHAUSTED",
      "PENDING"} \subseteq CounterResults
  BY DEF CounterStates, CounterResults

LEMMA BlobFields ==
  ASSUME NEW b \in Blob
  PROVE  /\ b.ceil \in [Domains -> 0..MaxCounter] /\ b.payload \in Payload
         /\ b \in [ceil : [Domains -> 0..MaxCounter], payload : Payload \cup {NoData}]
         /\ b \in Data
  BY CounterConstants DEF Blob

LEMMA OpenReturnInv ==
  ASSUME CounterInv, OpenReturn
  PROVE  CounterInv'
<1>1. /\ req.op = "open" /\ call = "none" /\ UNCHANGED nvVars /\ C.state = "COLD"
      /\ C.generation = 0
  BY DEF OpenReturn, Returned, CounterInv, Requests, Agreement
<1>2. OwnType /\ NvInv /\ NvInv' /\ UNCHANGED <<latest, call, out, D, stage>>
  BY <1>1, LocalInv, OwnTypes DEF CounterInv
<1>3. CASE \E r \in CounterResults : Fail(r)
  BY <1>1, <1>3, FailInv
<1>4. CASE /\ out.result = "EMPTY"
           /\ Return([C EXCEPT !.state = "UNPROVISIONED"], "EMPTY")
           /\ UNCHANGED <<blob, emitted, fresh>>
  <2>1. C' = [C EXCEPT !.state = "UNPROVISIONED", !.result = "EMPTY"] /\ req' = Idle
    BY <1>4 DEF Return
  <2>2. OwnType' /\ C'.state = "UNPROVISIONED" /\ C'.generation = 0
    BY <1>1, <1>2, <1>4, <2>1, IdleType, StateNames DEF OwnType
  <2>3. latest = EmptyPage
    BY <1>2, <1>4 DEF NvInv, Answers
  <2>4. TypeOK' /\ NeverReused' /\ CeilingBeforeUse'
    BY <1>2, <1>4, <2>2, OwnTypes DEF CounterInv, NvInv, NeverReused, CeilingBeforeUse
  <2>5. Cursors' /\ Agreement' /\ Requests' /\ Committing'
    BY <1>1, <1>2, <2>1, <2>2, <2>3, IdleType DEF Cursors, Agreement, Requests, Committing, Holding
  <2> QED
    BY <1>2, <2>4, <2>5 DEF CounterInv
<1>5. CASE /\ out.result = "OK" /\ out.rec.data \in Blob
           /\ blob' = out.rec.data
           /\ Return([C EXCEPT !.state = "READY", !.generation = D.generation,
                               !.next = out.rec.data.ceil,
                               !.until = out.rec.data.ceil], "OK")
           /\ UNCHANGED <<emitted, fresh>>
  <2>1. /\ C' = [C EXCEPT !.state = "READY", !.generation = D.generation,
                          !.next = blob'.ceil, !.until = blob'.ceil, !.result = "OK"]
        /\ req' = Idle
    BY <1>5 DEF Return
  <2>2. /\ blob' \in Blob /\ latest.data = blob' /\ latest.state = "VALID"
        /\ latest.gen = D.generation /\ latest \in Page /\ latest.gen >= 1
        /\ D.generation \in 0..MaxGeneration
    BY <1>2, <1>5
    DEF NvInv, NvTypeOK, Answers, AnswersLatest, LatestShape, EmptyPage, Diagnostic
  <2>3. blob'.ceil \in [Domains -> 0..MaxCounter]
    BY <2>2, BlobFields
  <2>4. /\ OwnType' /\ C'.state = "READY" /\ C'.generation = D.generation
        /\ C'.next = blob'.ceil /\ C'.until = blob'.ceil
    BY <1>2, <1>5, <2>1, <2>2, <2>3, BlobFields, IdleType, StateNames DEF OwnType
  <2>5. latest = Written(D.generation, blob')
    BY <2>2 DEF Written, Page
  <2>6. TypeOK' /\ NeverReused' /\ CeilingBeforeUse'
    BY <1>2, <1>5, <2>4, OwnTypes DEF CounterInv, NvInv, NeverReused, CeilingBeforeUse
  <2>7. Cursors'
    <3>1. \A d \in Domains : emitted[d] \in -1..MaxCounter /\ blob'.ceil[d] \in 0..MaxCounter
      BY <1>2, <2>3 DEF OwnType
    <3>2. \A d \in Domains : emitted[d] < blob'.ceil[d]
      BY <2>2, <3>1, CounterConstants DEF CounterInv, CeilingBeforeUse
    <3> QED
      BY <1>5, <2>2, <2>4, <3>1, <3>2, CounterConstants DEF Cursors
  <2>8. Agreement' /\ Requests' /\ Committing'
    BY <1>1, <1>2, <2>1, <2>2, <2>4, <2>5, IdleType
    DEF Agreement, Requests, Committing, Holding
  <2> QED
    BY <1>2, <2>6, <2>7, <2>8 DEF CounterInv
<1> QED
  BY <1>3, <1>4, <1>5, StateNames DEF OpenReturn

LEMMA CreateInv ==
  ASSUME CounterInv, NEW floor \in [Domains -> Floors], NEW p \in Payload, Create(floor, p)
  PROVE  CounterInv'
<1>1. /\ req = Idle /\ UNCHANGED nvVars /\ UNCHANGED <<emitted, fresh>>
      /\ C.state = "UNPROVISIONED" \/ Staged
      /\ blob' = [ceil |-> floor, payload |-> p] /\ req' = Idle
      /\ C' = [C EXCEPT !.state = "READY", !.next = floor, !.until = floor, !.result = "OK"]
  BY DEF Create, Return
<1>2. OwnType /\ NvInv' /\ UNCHANGED <<latest, call, out, D, stage>> /\ call = "none"
  BY <1>1, LocalInv, OwnTypes DEF CounterInv, Requests
<1>3. latest = EmptyPage /\ C.generation = 0
  BY <1>1 DEF CounterInv, Agreement, Staged, Holding
<1>4. floor \in [Domains -> 0..MaxCounter] /\ blob' \in Blob /\ blob'.ceil = floor
  BY <1>1, CounterConstants DEF Blob
<1>5. /\ OwnType' /\ C'.state = "READY" /\ C'.generation = 0
      /\ C'.next = floor /\ C'.until = floor
  BY <1>1, <1>2, <1>3, <1>4, BlobFields, IdleType, StateNames DEF OwnType
<1>6. TypeOK' /\ NeverReused' /\ CeilingBeforeUse'
  BY <1>1, <1>2, <1>5, OwnTypes DEF CounterInv, NvInv, NeverReused, CeilingBeforeUse
<1>7. Cursors'
  <2>1. \A d \in Domains : emitted[d] \in -1..MaxCounter /\ floor[d] \in 0..MaxCounter
    BY <1>2, <1>4 DEF OwnType
  <2>2. \A d \in Domains : emitted[d] < floor[d]
    BY <1>3, <2>1, CounterConstants DEF CounterInv, CeilingBeforeUse, EmptyPage
  <2> QED
    BY <1>1, <1>4, <1>5, <2>1, <2>2, CounterConstants DEF Cursors
<1>8. Agreement' /\ Requests' /\ Committing'
  BY <1>1, <1>2, <1>3, <1>4, <1>5, IdleType DEF Agreement, Requests, Committing, Holding
<1> QED
  BY <1>2, <1>6, <1>7, <1>8 DEF CounterInv

LEMMA RestageInv ==
  ASSUME CounterInv, NEW p \in Payload, Restage(p)
  PROVE  CounterInv'
<1>1. /\ req = Idle /\ UNCHANGED nvVars /\ UNCHANGED <<emitted, fresh>>
      /\ C.state = "READY" /\ C.generation = 0
      /\ blob' = [blob EXCEPT !.payload = p] /\ req' = Idle
      /\ C' = [C EXCEPT !.result = "OK"]
  BY DEF Restage, Return, Staged
<1>2. /\ OwnType /\ NvInv' /\ UNCHANGED <<latest, call, out, D, stage>> /\ call = "none"
      /\ blob \in Blob
  BY <1>1, LocalInv, OwnTypes DEF CounterInv, Requests, Cursors, Holding
<1>3. blob' \in Blob /\ blob'.ceil = blob.ceil
  BY <1>1, <1>2 DEF Blob
<1>4. /\ OwnType' /\ C'.state = "READY" /\ C'.generation = 0
      /\ C'.next = C.next /\ C'.until = C.until
  BY <1>1, <1>2, <1>3, BlobFields, IdleType, StateNames DEF OwnType
<1>5. TypeOK' /\ NeverReused' /\ CeilingBeforeUse'
  BY <1>1, <1>2, <1>4, OwnTypes DEF CounterInv, NvInv, NeverReused, CeilingBeforeUse
<1>6. Cursors' /\ Agreement' /\ Requests' /\ Committing'
  BY <1>1, <1>2, <1>3, <1>4, IdleType
  DEF CounterInv, Cursors, Agreement, Requests, Committing, Holding
<1> QED
  BY <1>2, <1>5, <1>6 DEF CounterInv

LEMMA ResultOnlyInv ==
  ASSUME CounterInv, Ready, NEW r \in {"OK", "EXHAUSTED"},
         C' = [C EXCEPT !.result = r], req' = Idle,
         UNCHANGED nvVars, UNCHANGED <<blob, emitted, fresh>>
  PROVE  CounterInv'
<1>1. C.state = "READY" /\ req = Idle
  BY DEF Ready
<1>2. OwnType /\ NvInv' /\ UNCHANGED <<latest, call, out, D, stage>> /\ call = "none"
  BY <1>1, LocalInv, OwnTypes DEF CounterInv, Requests
<1>3. /\ OwnType' /\ C'.state = "READY" /\ C'.generation = C.generation
      /\ C'.next = C.next /\ C'.until = C.until
  BY <1>1, <1>2, IdleType, StateNames DEF OwnType
<1>4. TypeOK' /\ NeverReused' /\ CeilingBeforeUse'
  BY <1>1, <1>2, <1>3, OwnTypes DEF CounterInv, NvInv, NeverReused, CeilingBeforeUse
<1>5. Cursors' /\ Agreement' /\ Requests' /\ Committing'
  BY <1>1, <1>2, <1>3, IdleType
  DEF CounterInv, Cursors, Agreement, Requests, Committing, Holding
<1> QED
  BY <1>2, <1>4, <1>5 DEF CounterInv

LEMMA TakeExhaustedInv ==
  ASSUME CounterInv, NEW d \in Domains, TakeExhausted(d)
  PROVE  CounterInv'
  BY ResultOnlyInv DEF TakeExhausted, Return

LEMMA ReadInv ==
  ASSUME CounterInv, Read
  PROVE  CounterInv'
  BY ResultOnlyInv DEF Read, Return

\* Handing out C.next[d] is safe when the journal already holds our record
\* and its ceiling lies above.
LEMMA EmitInv ==
  ASSUME CounterInv, UNCHANGED nvVars, UNCHANGED blob, call = "none", NEW d \in Domains, NEW c,
         c \in [state : CounterStates, result : CounterResults, generation : 0..MaxGeneration,
               next : [Domains -> 0..MaxCounter], until : [Domains -> 0..MaxCounter]],
         c.state = "READY", c.generation # 0, c.next = C.next,
         latest = Written(c.generation, blob), blob \in Blob,
         C.next[d] < c.until[d], c.until = blob.ceil,
         \A e \in Domains : emitted[e] < C.next[e] /\ C.next[e] <= c.until[e],
         Emit(d, c)
  PROVE  CounterInv'
<1>1. /\ C' = [c EXCEPT !.next[d] = @ + 1, !.result = "OK"] /\ req' = Idle
      /\ emitted' = [emitted EXCEPT ![d] = C.next[d]]
      /\ fresh' = (C.next[d] > emitted[d])
  BY DEF Emit, Return
<1>2. OwnType /\ NvInv' /\ UNCHANGED <<latest, call, out, D, stage>>
  BY LocalInv, OwnTypes DEF CounterInv
<1>3. \A e \in Domains : /\ emitted[e] \in -1..MaxCounter /\ C.next[e] \in 0..MaxCounter
                          /\ c.until[e] \in 0..MaxCounter /\ blob.ceil[e] \in 0..MaxCounter
  BY <1>2 DEF OwnType
<1>4. C.next[d] + 1 \in 0..MaxCounter
  BY <1>3, CounterConstants
<1>5. /\ C'.state = "READY" /\ C'.generation = c.generation /\ C'.until = c.until
      /\ C'.next = [C.next EXCEPT ![d] = @ + 1] /\ C'.result = "OK"
  BY <1>1
<1>6. OwnType'
  <2>1. C'.next \in [Domains -> 0..MaxCounter]
    BY <1>2, <1>4, <1>5 DEF OwnType
  <2>2. C' \in [state : CounterStates, result : CounterResults, generation : 0..MaxGeneration,
                next : [Domains -> 0..MaxCounter], until : [Domains -> 0..MaxCounter]]
    BY <1>1, <1>4, StateNames
  <2>3. emitted' \in [Domains -> -1..MaxCounter]
    <3>1. C.next[d] \in -1..MaxCounter
      BY <1>3, CounterConstants
    <3> QED
      BY <1>1, <1>2, <3>1 DEF OwnType
  <2> QED
    BY <1>1, <1>2, <2>2, <2>3, IdleType DEF OwnType
<1>7. /\ emitted'[d] = C.next[d] /\ C'.next[d] = C.next[d] + 1
      /\ \A e \in Domains : e # d => emitted'[e] = emitted[e] /\ C'.next[e] = C.next[e]
  BY <1>1, <1>2, <1>5 DEF OwnType
<1>8. latest.state = "VALID" /\ latest.data = blob
  BY DEF Written
<1>9. TypeOK' /\ NeverReused'
  <2>1. fresh'
    BY <1>1, <1>3, CounterConstants
  <2> QED
    BY <1>2, <1>6, <2>1, OwnTypes DEF NvInv, NeverReused
<1>10. CeilingBeforeUse'
  <2>1. \A e \in Domains : emitted'[e] < blob.ceil[e]
    BY <1>3, <1>7, CounterConstants
  <2> QED
    BY <1>2, <1>8, <2>1 DEF CeilingBeforeUse
<1>11. Cursors'
  <2>1. \A e \in Domains : /\ emitted'[e] < C'.next[e] /\ C'.next[e] <= c.until[e]
    BY <1>3, <1>7, CounterConstants
  <2> QED
    BY <1>3, <1>5, <2>1, CounterConstants DEF Cursors
<1>12. Agreement' /\ Requests' /\ Committing'
  BY <1>1, <1>2, <1>5, IdleType DEF Agreement, Requests, Committing, Holding
<1> QED
  BY <1>2, <1>9, <1>10, <1>11, <1>12 DEF CounterInv

LEMMA TakeReservedInv ==
  ASSUME CounterInv, NEW d \in Domains, TakeReserved(d)
  PROVE  CounterInv'
<1>1. /\ C.state = "READY" /\ req = Idle /\ UNCHANGED nvVars /\ UNCHANGED blob
      /\ C.next[d] # C.until[d] /\ Emit(d, C)
  BY DEF TakeReserved, Ready
<1>2. OwnType /\ call = "none"
  BY <1>1, OwnTypes DEF CounterInv, Requests
<1>3. /\ C.generation # 0 /\ latest = Written(C.generation, blob) /\ blob \in Blob
      /\ C.until = blob.ceil
      /\ \A e \in Domains : emitted[e] < C.next[e] /\ C.next[e] <= C.until[e]
  BY <1>1 DEF CounterInv, Cursors, Agreement, Holding
<1>4. C.next[d] < C.until[d]
  BY <1>1, <1>2, <1>3, CounterConstants DEF OwnType
<1>5. C \in [state : CounterStates, result : CounterResults, generation : 0..MaxGeneration,
             next : [Domains -> 0..MaxCounter], until : [Domains -> 0..MaxCounter]]
  BY <1>2 DEF OwnType
<1> QED
  BY <1>1, <1>2, <1>3, <1>4, <1>5, EmitInv

LEMMA CurrentFailsInv ==
  ASSUME CounterInv, CurrentFails
  PROVE  CounterInv'
  BY FailInv, StateNames DEF CurrentFails, Returned, Current

LEMMA CommitReturnInv ==
  ASSUME CounterInv, CommitReturn
  PROVE  CounterInv'
<1> DEFINE done == [C EXCEPT !.state = "READY", !.generation = D.generation]
<1>1. req.step = "commit" /\ call = "none" /\ UNCHANGED nvVars /\ C.state = "BUSY"
  BY DEF CommitReturn, Returned, CounterInv, Requests
<1>2. /\ OwnType /\ NvInv /\ NvInv' /\ UNCHANGED <<latest, call, out, D, stage>>
      /\ blob \in Blob
      /\ \A e \in Domains : /\ emitted[e] < C.next[e] /\ C.next[e] <= C.until[e]
                              /\ C.until[e] <= blob.ceil[e]
  BY <1>1, LocalInv, OwnTypes DEF CounterInv, Cursors, Holding
<1>3. CASE \E r \in CounterResults : Fail(r)
  BY <1>1, <1>3, FailInv
<1>4. ASSUME out.result = "OK", D.generation = C.generation + 1
      PROVE  /\ latest = Written(D.generation, blob) /\ D.generation # 0
             /\ done \in [state : CounterStates, result : CounterResults,
                          generation : 0..MaxGeneration, next : [Domains -> 0..MaxCounter],
                          until : [Domains -> 0..MaxCounter]]
             /\ done.state = "READY" /\ done.generation = D.generation
             /\ done.next = C.next /\ done.until = C.until
  <2>1. /\ latest.state = "VALID" /\ latest.gen = D.generation /\ latest \in Page
        /\ latest.data = blob /\ latest.gen >= 1 /\ D.generation \in 0..MaxGeneration
    BY <1>1, <1>2, <1>4
    DEF CounterInv, Committing, NvInv, NvTypeOK, Answers, AnswersLatest, LatestShape,
        EmptyPage, Diagnostic
  <2>2. latest = Written(D.generation, blob)
    BY <2>1 DEF Page, Written
  <2>3. C \in [state : CounterStates, result : CounterResults,
               generation : 0..MaxGeneration, next : [Domains -> 0..MaxCounter],
               until : [Domains -> 0..MaxCounter]]
    BY <1>2 DEF OwnType
  <2>4. D.generation # 0 /\ D.generation \in 0..MaxGeneration /\ "READY" \in CounterStates
    BY <2>1, StateNames
  <2>5. /\ done \in [state : CounterStates, result : CounterResults,
                     generation : 0..MaxGeneration, next : [Domains -> 0..MaxCounter],
                     until : [Domains -> 0..MaxCounter]]
        /\ done.state = "READY" /\ done.generation = D.generation
        /\ done.next = C.next /\ done.until = C.until
    BY <2>3, <2>4
  <2> QED
    BY <2>2, <2>4, <2>5
<1>5. CASE /\ out.result = "OK" /\ D.generation = C.generation + 1
           /\ req.op = "save"
           /\ Return(done, "OK")
           /\ UNCHANGED <<blob, emitted, fresh>>
  <2>1. C' = [done EXCEPT !.result = "OK"] /\ req' = Idle
    BY <1>5 DEF Return
  <2> HIDE DEF done
  <2>2. /\ OwnType' /\ C'.state = "READY" /\ C'.generation = D.generation
        /\ C'.next = C.next /\ C'.until = C.until
    BY <1>2, <1>4, <1>5, <2>1, IdleType, StateNames DEF OwnType
  <2>3. TypeOK' /\ NeverReused' /\ CeilingBeforeUse'
    BY <1>2, <1>5, <2>2, OwnTypes DEF CounterInv, NvInv, NeverReused, CeilingBeforeUse
  <2>4. C.until = blob.ceil
    <3>1. \A e \in Domains : C.until[e] = blob.ceil[e]
      BY <1>1, <1>5 DEF CounterInv, Committing
    <3> QED
      BY <1>2, <3>1 DEF OwnType
  <2>5. Cursors' /\ Agreement' /\ Requests' /\ Committing'
    BY <1>1, <1>2, <1>4, <1>5, <2>1, <2>2, <2>4, IdleType
    DEF Cursors, Agreement, Requests, Committing, Holding
  <2> QED
    BY <1>2, <2>3, <2>5 DEF CounterInv
<1>6. CASE /\ out.result = "OK" /\ D.generation = C.generation + 1
           /\ req.op = "take"
           /\ Emit(req.domain, [done EXCEPT !.until[req.domain] = End(req.domain)])
           /\ UNCHANGED blob
  <2> DEFINE d == req.domain
             c == [done EXCEPT !.until[d] = End(d)]
  <2>1. /\ d \in Domains /\ C.next[d] = C.until[d] /\ C.until[d] < MaxCounter
        /\ \A e \in Domains : blob.ceil[e] = IF e = d THEN End(d) ELSE C.until[e]
    BY <1>1, <1>2, <1>6 DEF CounterInv, Requests, Committing, OwnType
  <2>2. End(d) \in 0..MaxCounter /\ C.until[d] < End(d)
    BY <1>2, <2>1, EndBounds
  <2> HIDE DEF done, d
  <2>3. /\ c \in [state : CounterStates, result : CounterResults,
                  generation : 0..MaxGeneration, next : [Domains -> 0..MaxCounter],
                  until : [Domains -> 0..MaxCounter]]
        /\ c.state = "READY" /\ c.generation = D.generation /\ c.next = C.next
        /\ c.until = [C.until EXCEPT ![d] = End(d)]
    BY <1>4, <1>6, <2>1, <2>2
  <2>4. c.until[d] = End(d) /\ \A e \in Domains : e # d => c.until[e] = C.until[e]
    BY <1>2, <2>1, <2>3 DEF OwnType
  <2>5. \A e \in Domains : emitted[e] < C.next[e] /\ C.next[e] <= c.until[e]
    <3> HIDE DEF c
    <3> TAKE e \in Domains
    <3>1. CASE e # d
      BY <1>2, <2>4, <3>1
    <3>2. CASE e = d
      BY <1>2, <2>1, <2>2, <2>4, <3>2, CounterConstants DEF OwnType
    <3> QED
      BY <3>1, <3>2
  <2>6. Emit(d, c)
    BY <1>6 DEF d
  <2> HIDE DEF c
  <2>7. c.until = blob.ceil
    BY <1>2, <2>1, <2>3, <2>4 DEF OwnType
  <2> QED
    BY <1>1, <1>2, <1>4, <1>6, <2>1, <2>2, <2>3, <2>4, <2>5, <2>6, <2>7, EmitInv
<1> QED
  BY <1>3, <1>5, <1>6, StateNames DEF CommitReturn

-----------------------------------------------------------------------------
(* The steps that go into the journal.                                     *)

\* A call that begins by loading the record.
LEMMA LoadingInv ==
  ASSUME CounterInv, req = Idle, LoadCall,
         UNCHANGED <<C, blob, emitted, fresh>>,
         NEW r \in [op : {"open", "take", "save"}, step : {"load"}, domain : Domains,
                   payload : Payload \cup {NoData}],
         req' = r, r # Idle,
         r.op = "open" => C.state = "COLD",
         r.op \in {"take", "save"} => C.state = "READY",
         r.op = "save" => r.payload \in Payload,
         r.op = "take" => C.next[r.domain] = C.until[r.domain] /\ C.until[r.domain] < MaxCounter
  PROVE  CounterInv'
<1>1. /\ NvInv' /\ latest' = latest
      /\ call' \in {"none", "load_resumed", "load_selected"}
  BY LoadCallFacts DEF CounterInv
<1>2. OwnType'
  BY OwnTypes DEF CounterInv, OwnType
<1>3. TypeOK' /\ NeverReused' /\ CeilingBeforeUse'
  BY <1>1, <1>2, OwnTypes DEF CounterInv, NvInv, NeverReused, CeilingBeforeUse
<1>4. C.state # "BUSY"
  BY DEF CounterInv, Requests
<1>5. Cursors' /\ Agreement' /\ Committing'
  BY <1>1 DEF CounterInv, Cursors, Agreement, Committing, Holding
<1>6. Requests'
  BY <1>1, <1>4 DEF Requests
<1> QED
  BY <1>1, <1>3, <1>5, <1>6 DEF CounterInv

LEMMA StartInv ==
  ASSUME CounterInv,
         \/ OpenStart \/ (\E p \in Payload : SaveStart(p))
         \/ \E d \in Domains : TakeStart(d)
  PROVE  CounterInv'
<1>1. OwnType
  BY OwnTypes DEF CounterInv
<1>2. CASE OpenStart
  <2> DEFINE r == [Idle EXCEPT !.op = "open", !.step = "load"]
  <2>1. /\ r \in [op : {"open", "take", "save"}, step : {"load"}, domain : Domains,
                  payload : Payload \cup {NoData}]
        /\ r # Idle /\ r.op = "open"
    BY DEF Idle, Domains
  <2>2. /\ req = Idle /\ LoadCall /\ UNCHANGED <<C, blob, emitted, fresh>>
        /\ req' = r /\ C.state = "COLD"
    BY <1>2 DEF OpenStart
  <2> HIDE DEF r
  <2> QED
    BY <2>1, <2>2, LoadingInv
<1>3. ASSUME NEW p \in Payload, SaveStart(p) PROVE CounterInv'
  <2> DEFINE r == [Idle EXCEPT !.op = "save", !.step = "load", !.payload = p]
  <2>1. /\ r \in [op : {"open", "take", "save"}, step : {"load"}, domain : Domains,
                  payload : Payload \cup {NoData}]
        /\ r # Idle /\ r.op = "save" /\ r.payload = p
    BY DEF Idle, Domains
  <2>2. /\ req = Idle /\ LoadCall /\ UNCHANGED <<C, blob, emitted, fresh>>
        /\ req' = r /\ C.state = "READY"
    BY <1>3 DEF SaveStart, Ready
  <2> HIDE DEF r
  <2> QED
    BY <1>3, <2>1, <2>2, LoadingInv
<1>4. ASSUME NEW d \in Domains, TakeStart(d) PROVE CounterInv'
  <2> DEFINE r == [Idle EXCEPT !.op = "take", !.step = "load", !.domain = d]
  <2>1. /\ r \in [op : {"open", "take", "save"}, step : {"load"}, domain : Domains,
                  payload : Payload \cup {NoData}]
        /\ r # Idle /\ r.op = "take" /\ r.domain = d
    BY DEF Idle, Domains
  <2>2. /\ req = Idle /\ LoadCall /\ UNCHANGED <<C, blob, emitted, fresh>>
        /\ req' = r /\ C.state = "READY"
        /\ C.next[d] = C.until[d] /\ C.until[d] # MaxCounter
    BY <1>4 DEF TakeStart, Ready
  <2>3. C.until[d] < MaxCounter
    BY <1>1, <2>2, CounterConstants DEF OwnType
  <2> HIDE DEF r
  <2> QED
    BY <2>1, <2>2, <2>3, LoadingInv
<1> QED
  BY <1>2, <1>3, <1>4

LEMMA CommitStartInv ==
  ASSUME CounterInv, CommitStart
  PROVE  CounterInv'
<1>1. /\ req.op \in {"take", "save"} /\ req.step = "load"
      /\ blob' = Wanted /\ ReplaceCall(Wanted) /\ UNCHANGED <<emitted, fresh>>
      /\ C' = [C EXCEPT !.state = "BUSY", !.result = "PENDING"]
      /\ req' = [req EXCEPT !.step = "commit"]
  BY DEF CommitStart
<1>2. OwnType /\ C.state = "READY" /\ blob \in Blob /\ NvInv
  BY <1>1, OwnTypes DEF CounterInv, Requests, Cursors, Holding
<1>3. /\ C.until = blob.ceil /\ req.domain \in Domains
      /\ \A d \in Domains : C.until[d] \in 0..MaxCounter
  BY <1>2 DEF CounterInv, Agreement, OwnType
<1>4. /\ Wanted \in Blob
      /\ \A d \in Domains : Wanted.ceil[d] = IF req.op = "take" /\ d = req.domain THEN End(d)
                                                                       ELSE C.until[d]
  <2>1. CASE req.op = "save"
    <3>1. Wanted = [blob EXCEPT !.payload = req.payload] /\ req.payload \in Payload
      BY <2>1 DEF Wanted, CounterInv, Requests
    <3>2. Wanted \in Blob /\ Wanted.ceil = blob.ceil
      BY <1>2, <3>1 DEF Blob
    <3> QED
      BY <1>3, <2>1, <3>2
  <2>2. CASE req.op = "take"
    <3> DEFINE e == req.domain
    <3>1. Wanted = [blob EXCEPT !.ceil[e] = End(e)]
      BY <2>2 DEF Wanted
    <3>2. e \in Domains /\ End(e) \in 0..MaxCounter
      BY <1>2, <1>3, EndBounds
    <3> HIDE DEF e
    <3>3. Wanted \in Blob /\ Wanted.ceil = [blob.ceil EXCEPT ![e] = End(e)]
      BY <1>2, <3>1, <3>2 DEF Blob
    <3>4. \A d \in Domains : Wanted.ceil[d] = IF d = e THEN End(d) ELSE C.until[d]
      BY <1>2, <1>3, <3>2, <3>3 DEF Blob
    <3> QED
      BY <2>2, <3>3, <3>4 DEF e
  <2> QED
    BY <1>1, <2>1, <2>2
<1>5. /\ NvInv' /\ latest' = latest
      /\ \/ call' = "replace" /\ stage' = Wanted /\ D'.phase = 3
         \/ call' = "none" /\ out'.result # "OK"
  BY <1>1, <1>2, <1>4, BlobFields, ReplaceCallFacts
<1>6. /\ OwnType' /\ C'.state = "BUSY" /\ C'.generation = C.generation
      /\ C'.next = C.next /\ C'.until = C.until
      /\ req'.op = req.op /\ req'.step = "commit" /\ req'.domain = req.domain
      /\ req'.payload = req.payload /\ req' # Idle
  <2>1. /\ C' \in [state : CounterStates, result : CounterResults,
                   generation : 0..MaxGeneration,
                   next : [Domains -> 0..MaxCounter], until : [Domains -> 0..MaxCounter]]
        /\ C'.state = "BUSY" /\ C'.generation = C.generation
        /\ C'.next = C.next /\ C'.until = C.until
    BY <1>1, <1>2, StateNames DEF OwnType
  <2>2. /\ req' \in [op : {"none", "open", "take", "save"}, step : {"none", "load", "commit"},
                     domain : Domains, payload : Payload \cup {NoData}]
        /\ req'.op = req.op /\ req'.step = "commit" /\ req'.domain = req.domain
        /\ req'.payload = req.payload
    BY <1>1, <1>2 DEF OwnType
  <2>3. req' # Idle
    BY <2>2, IdleType
  <2> QED
    BY <1>1, <1>2, <1>4, <2>1, <2>2, <2>3, BlobFields DEF OwnType
<1>7. \A d \in Domains : C.until[d] <= Wanted.ceil[d] /\ Wanted.ceil[d] \in 0..MaxCounter
  BY <1>2, <1>3, <1>4, EndBounds, BlobFields, CounterConstants
<1>8. TypeOK' /\ NeverReused' /\ CeilingBeforeUse'
  BY <1>1, <1>5, <1>6, OwnTypes DEF CounterInv, NvInv, NeverReused, CeilingBeforeUse
<1>9. Cursors'
  BY <1>1, <1>2, <1>4, <1>6, <1>7 DEF CounterInv, Cursors, Holding
<1>10. Agreement' /\ Requests'
  BY <1>1, <1>5, <1>6 DEF CounterInv, Agreement, Requests, Holding
<1>11. Committing'
  <2>1. \A d \in Domains : End(d)' = End(d)
    BY <1>6 DEF End
  <2>2. latest = EmptyPage \/ (latest.data \in Blob /\ latest.data = blob)
    BY <1>2 DEF CounterInv, Agreement, Holding, Written
  <2>3. \A d \in Domains : blob.ceil[d] <= Wanted.ceil[d]
    BY <1>3, <1>7
  <2>4. latest' = EmptyPage \/ (/\ latest'.data \in Blob
                                /\ \A d \in Domains : latest'.data.ceil[d] <= blob'.ceil[d])
    BY <1>1, <1>5, <2>2, <2>3
  <2>5. call' = "replace" => stage' = blob' /\ D'.phase # 7
    BY <1>1, <1>5
  <2>6. \A d \in Domains : blob'.ceil[d] = IF req'.op = "take" /\ d = req'.domain THEN End(d)'
                                                                     ELSE C'.until[d]
    BY <1>1, <1>4, <1>6, <2>1
  <2> QED
    BY <1>5, <2>4, <2>5, <2>6 DEF Committing
<1> QED
  BY <1>5, <1>8, <1>9, <1>10, <1>11 DEF CounterInv

LEMMA JournalStepInv ==
  ASSUME CounterInv, JournalStep
  PROVE  CounterInv'
<1>1. req # Idle /\ UNCHANGED <<C, blob, req, emitted, fresh>> /\ NvInv
  BY DEF JournalStep, ownVars, CounterInv
<1>2. OwnType'
  BY <1>1, OwnTypes DEF CounterInv, OwnType
<1>3. CASE LoadRecheck(TRUE) \/ LoadRecheckFails
  <2>1. /\ NvInv' /\ latest' = latest /\ req.step = "load"
        /\ call' \in {"none", "load_selected"}
    BY <1>1, <1>3, LoadStepFacts DEF CounterInv, Requests
  <2>2. TypeOK' /\ NeverReused' /\ CeilingBeforeUse'
    BY <1>1, <1>2, <2>1, OwnTypes DEF CounterInv, NvInv, NeverReused, CeilingBeforeUse
  <2>3. Cursors' /\ Agreement' /\ Requests' /\ Committing'
    BY <1>1, <2>1 DEF CounterInv, Cursors, Agreement, Requests, Committing, Holding
  <2> QED
    BY <2>1, <2>2, <2>3 DEF CounterInv
<1>4. CASE \/ ReplaceErase \/ ReplaceBody \/ ReplaceIntegrity
           \/ ReplaceCommit \/ ReplaceVerify \/ WriteFails
  <2>1. /\ NvInv' /\ call = "replace"
        /\ latest' = latest \/ (latest' = StagedRecord /\ D.phase \in 3..6)
        /\ \/ call' = "replace" /\ stage' = stage /\ (D'.phase = 7 => latest' = StagedRecord)
           \/ call' = "none" /\ (out'.result = "OK" => D.phase = 7 /\ latest' = latest)
    BY <1>1, <1>4, ReplaceStepFacts
  <2>2. req.step = "commit" /\ C.state = "BUSY"
    BY <1>1, <2>1 DEF CounterInv, Requests
  <2>3. StagedRecord.data = stage /\ stage = blob /\ blob \in Blob
    BY <2>1, <2>2 DEF StagedRecord, Written, CounterInv, Committing, Cursors, Holding
  <2>4. TypeOK' /\ NeverReused'
    BY <1>1, <1>2, <2>1, OwnTypes DEF CounterInv, NvInv, NeverReused
  <2>5. CeilingBeforeUse'
    <3>1. CASE latest' = latest
      BY <1>1, <3>1 DEF CounterInv, CeilingBeforeUse
    <3>2. CASE latest' = StagedRecord /\ D.phase \in 3..6
      BY <1>1, <2>1, <2>2, <3>2, CommitRaises DEF CeilingBeforeUse
    <3> QED
      BY <2>1, <3>1, <3>2
  <2>6. Cursors' /\ Agreement' /\ Requests'
    BY <1>1, <2>1, <2>2 DEF CounterInv, Cursors, Agreement, Requests, Holding
  <2>7. Committing'
    <3>1. \A d \in Domains : End(d)' = End(d)
      BY <1>1 DEF End
    <3>2. latest' = EmptyPage \/ (/\ latest'.data \in Blob
                                  /\ \A d \in Domains : latest'.data.ceil[d] <= blob.ceil[d])
      <4>1. CASE latest' = latest
        BY <2>2, <4>1 DEF CounterInv, Committing
      <4>2. CASE latest'.data = blob
        <5>1. \A d \in Domains : blob.ceil[d] \in 0..MaxCounter
          BY <2>3, BlobFields
        <5> QED
          BY <2>3, <4>2, <5>1, CounterConstants
      <4> QED
        BY <2>1, <2>3, <4>1, <4>2
    <3>3. call' = "replace" => stage' = blob /\ (D'.phase = 7 => latest'.data = blob)
      BY <2>1, <2>3
    <3>4. call' = "none" /\ out'.result = "OK" => latest'.data = blob
      BY <2>1, <2>2, <2>3 DEF CounterInv, Committing
    <3>5. \A d \in Domains : blob'.ceil[d] = IF req'.op = "take" /\ d = req'.domain THEN End(d)'
                                                                       ELSE C'.until[d]
      BY <1>1, <2>2, <3>1 DEF CounterInv, Committing
    <3> QED
      BY <1>1, <3>2, <3>3, <3>4, <3>5 DEF Committing
  <2> QED
    BY <2>1, <2>4, <2>5, <2>6, <2>7 DEF CounterInv
<1> QED
  BY <1>3, <1>4 DEF JournalStep

\* What a reset or a failing service does to the latest record.
LEMMA ResetLatest ==
  ASSUME NvReset
  PROVE  latest' = latest \/ (latest' = StagedRecord /\ call = "replace" /\ D.phase = 6)
  BY DEF NvReset, Tear, InReplace

LEMMA ResetInv ==
  ASSUME CounterInv, Reset
  PROVE  CounterInv'
<1>1. /\ NvReset /\ C' = ColdCounter /\ blob' = NoBlob /\ req' = Idle
      /\ UNCHANGED <<emitted, fresh>>
  BY DEF Reset
<1>2. NvInv' /\ call' = "none"
  BY <1>1, NvResetInv DEF CounterInv, NvReset
<1>3. OwnType' /\ C'.state = "COLD" /\ C'.generation = 0
  BY <1>1, OwnTypes, IdleType, StateNames, NvConstants, CounterConstants
  DEF CounterInv, OwnType, ColdCounter, NoBlob
<1>4. TypeOK' /\ NeverReused'
  BY <1>1, <1>2, <1>3, OwnTypes DEF CounterInv, NvInv, NeverReused
<1>5. CeilingBeforeUse'
  <2>1. CASE latest' = latest
    BY <1>1, <2>1 DEF CounterInv, CeilingBeforeUse
  <2>2. CASE latest' = StagedRecord /\ call = "replace" /\ D.phase = 6
    <3>1. req.step = "commit" /\ D.phase \in 3..6
      BY <2>2 DEF CounterInv, Requests
    <3> QED
      BY <1>1, <2>2, <3>1, CommitRaises DEF CeilingBeforeUse
  <2> QED
    BY <1>1, <2>1, <2>2, ResetLatest
<1>6. Cursors' /\ Agreement' /\ Requests' /\ Committing'
  BY <1>1, <1>2, <1>3, IdleType DEF Cursors, Agreement, Requests, Committing, Holding
<1> QED
  BY <1>2, <1>4, <1>5, <1>6 DEF CounterInv

\* A step that changes neither the owner nor anything but the pages.
LEMMA OwnUnchanged ==
  ASSUME CounterInv, NvInv', UNCHANGED <<D, call, stage, out, latest>>,
         UNCHANGED <<C, blob, req, emitted, fresh>>
  PROVE  CounterInv'
<1>1. OwnType' /\ NvTypeOK'
  BY OwnTypes DEF CounterInv, OwnType, NvInv
<1>2. TypeOK' /\ NeverReused' /\ CeilingBeforeUse'
  BY <1>1, OwnTypes DEF CounterInv, NeverReused, CeilingBeforeUse
<1>3. Cursors' /\ Agreement' /\ Requests'
  BY DEF CounterInv, Cursors, Agreement, Requests, Holding
<1>4. Committing'
  BY DEF CounterInv, Committing, End
<1> QED
  BY <1>2, <1>3, <1>4 DEF CounterInv

LEMMA CounterNext == CounterInv /\ [Next]_counterVars => CounterInv'
<1> SUFFICES ASSUME CounterInv, [Next]_counterVars PROVE CounterInv'
  OBVIOUS
<1>1. CASE \E p \in Pages : Damage(p)
  <2>1. NvInv' /\ UNCHANGED <<D, call, stage, out, latest>>
    BY <1>1, DecayInv DEF Damage, Decay, CounterInv
  <2> QED
    BY <1>1, <2>1, OwnUnchanged DEF Damage, ownVars
<1>2. CASE UNCHANGED counterVars
  <2>1. UNCHANGED nvVars /\ UNCHANGED <<C, blob, req, emitted, fresh>>
    BY <1>2 DEF counterVars, nvVars
  <2> QED
    BY <2>1, LocalInv, OwnUnchanged
<1>3. CASE OpenStart \/ (\E p \in Payload : SaveStart(p)) \/ \E d \in Domains : TakeStart(d)
  BY <1>3, StartInv
<1>4. CASE OpenReturn \/ CurrentFails \/ CommitStart \/ CommitReturn \/ JournalStep \/ Reset
  BY <1>4, OpenReturnInv, CurrentFailsInv, CommitStartInv, CommitReturnInv, JournalStepInv,
     ResetInv
<1>5. CASE \/ \E floor \in [Domains -> Floors], p \in Payload : Create(floor, p)
           \/ \E p \in Payload : Restage(p)
           \/ \E d \in Domains : TakeReserved(d) \/ TakeExhausted(d)
           \/ Read
  BY <1>5, CreateInv, RestageInv, TakeReservedInv, TakeExhaustedInv, ReadInv
<1> QED
  BY <1>1, <1>2, <1>3, <1>4, <1>5 DEF Next

-----------------------------------------------------------------------------
(* The theorems                                                            *)

\* The inductive invariant holds of every behaviour of the counter owner on
\* its journal, across resets, torn services and page damage.
THEOREM CounterInductive == Spec => []CounterInv
  BY CounterInit, CounterNext, PTL DEF Spec

\* Every variable keeps its C type; no counter passes 0xffffffff.
THEOREM CounterTypes == Spec => []TypeOK
<1>1. CounterInv => TypeOK
  BY DEF CounterInv
<1> QED
  BY <1>1, CounterInductive, PTL

\* No outgoing counter is ever handed out twice or below one already used,
\* across resets, power cuts, failed services and damaged pages
\* (security_counter_take, security_counter_open).
THEOREM CountersNeverReused == Spec => []NeverReused
<1>1. CounterInv => NeverReused
  BY DEF CounterInv
<1> QED
  BY <1>1, CounterInductive, PTL

\* Every counter handed out lies below a ceiling that is durable
\* (security_counter_take).
THEOREM CeilingIsDurable == Spec => []CeilingBeforeUse
<1>1. CounterInv => CeilingBeforeUse
  BY DEF CounterInv
<1> QED
  BY <1>1, CounterInductive, PTL

\* The RAM copy of a READY owner is the journal's current record
\* (security_counter_read).
THEOREM ReadyIsDurable == Spec => []ReadyMatchesJournal
<1>1. CounterInv => ReadyMatchesJournal
  BY DEF CounterInv, ReadyMatchesJournal, Agreement, Ready
<1> QED
  BY <1>1, CounterInductive, PTL

\* The latest record changes only when a record with ceilings no lower
\* becomes it.
LEMMA LatestRises ==
  ASSUME CounterInv, Next
  PROVE  \/ latest' = latest
         \/ /\ latest'.state = "VALID" /\ latest'.data \in Blob
            /\ latest.state = "VALID" =>
                 \A d \in Domains : latest'.data.ceil[d] >= latest.data.ceil[d]
<1>1. ASSUME req.step = "commit", call = "replace", D.phase \in 3..6, latest' = StagedRecord
      PROVE  /\ latest'.state = "VALID" /\ latest'.data \in Blob
             /\ latest.state = "VALID" =>
                  \A d \in Domains : latest'.data.ceil[d] >= latest.data.ceil[d]
  <2>1. /\ latest'.state = "VALID" /\ latest'.data = blob /\ blob \in Blob
        /\ latest.state = "VALID" =>
             latest.data \in Blob /\ \A d \in Domains : latest.data.ceil[d] <= blob.ceil[d]
    BY <1>1, CommitRaises
  <2>2. \A b \in Blob, d \in Domains : b.ceil[d] \in 0..MaxCounter
    BY BlobFields
  <2> QED
    BY <2>1, <2>2, CounterConstants
<1>2. CASE Reset
  <2>1. CASE latest' = StagedRecord /\ call = "replace" /\ D.phase = 6
    <3>1. req.step = "commit" /\ D.phase \in 3..6
      BY <2>1 DEF CounterInv, Requests
    <3> QED
      BY <1>1, <2>1, <3>1
  <2> QED
    BY <1>2, <2>1, ResetLatest DEF Reset
<1>3. CASE JournalStep
  <2>1. CASE LoadRecheck(TRUE) \/ LoadRecheckFails
    BY <2>1 DEF LoadRecheck, LoadRecheckFails
  <2>2. CASE \/ ReplaceErase \/ ReplaceBody \/ ReplaceIntegrity
             \/ ReplaceCommit \/ ReplaceVerify \/ WriteFails
    <3>1. /\ call = "replace" /\ NvInv
          /\ latest' = latest \/ (latest' = StagedRecord /\ D.phase \in 3..6)
      BY <2>2, ReplaceStepFacts DEF CounterInv
    <3>2. req.step = "commit"
      BY <1>3, <3>1 DEF JournalStep, CounterInv, Requests
    <3> QED
      BY <1>1, <3>1, <3>2
  <2> QED
    BY <1>3, <2>1, <2>2 DEF JournalStep
<1>4. CASE CommitStart
  BY <1>4 DEF CommitStart, ReplaceCall, ReplaceStart, ReadFails, Faulted
<1>5. CASE OpenStart \/ (\E p \in Payload : SaveStart(p)) \/ \E d \in Domains : TakeStart(d)
  <2>1. LoadCall
    BY <1>5 DEF OpenStart, SaveStart, TakeStart
  <2> QED
    BY <2>1, LoadCallFacts DEF CounterInv
<1>6. CASE \E p \in Pages : Damage(p)
  BY <1>6 DEF Damage, Decay
<1>7. CASE OpenReturn \/ CurrentFails \/ CommitReturn
  BY <1>7 DEF OpenReturn, CurrentFails, CommitReturn, nvVars
<1>8. CASE \/ \E floor \in [Domains -> Floors], p \in Payload : Create(floor, p)
           \/ \E p \in Payload : Restage(p)
           \/ \E d \in Domains : TakeReserved(d) \/ TakeExhausted(d)
           \/ Read
  BY <1>8 DEF Create, Restage, TakeReserved, TakeExhausted, Read, nvVars
<1> QED
  BY <1>2, <1>3, <1>4, <1>5, <1>6, <1>7, <1>8 DEF Next

\* A durable ceiling is never lowered and a committed record never goes back
\* to none (security_counter_create, _save and _take).
THEOREM CeilingsOnlyRise == Spec => CeilingsNeverRewind
<1> DEFINE Rises ==
      latest.state = "VALID" /\ latest.data \in Blob =>
        /\ latest'.state = "VALID" /\ latest'.data \in Blob
        /\ \A d \in Domains : latest'.data.ceil[d] >= latest.data.ceil[d]
<1>1. CounterInv /\ [Next]_counterVars => [Rises]_counterVars
  <2> SUFFICES ASSUME CounterInv, Next PROVE Rises
    OBVIOUS
  <2>1. \A b \in Blob, d \in Domains : b.ceil[d] >= b.ceil[d]
    <3>1. \A b \in Blob, d \in Domains : b.ceil[d] \in 0..MaxCounter
      BY BlobFields
    <3> QED
      BY <3>1, CounterConstants
  <2> QED
    BY <2>1, LatestRises
<1> QED
  BY <1>1, CounterInductive, PTL DEF Spec, CeilingsNeverRewind
================================================================================
