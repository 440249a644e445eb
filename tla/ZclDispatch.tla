----------------------------- MODULE ZclDispatch -----------------------------
(* zcl_dispatch.c and zcl_attributes.c: Discover Attributes and Read Attributes *)
(* against one attribute table, and a client that pages through each.           *)
EXTENDS Integers, Sequences, FiniteSetsExt, SequencesExt

CONSTANTS
  TOP,         \* 65535, the last identifier
  Attributes,  \* the table: identifiers
  Unreadable,  \* those with readable 0
  Size,        \* octets of the value of each attribute
  Asked,       \* the identifiers the reading client wants, a sequence
  Rooms        \* bound: octets the answers have for records

VARIABLES
  start, found, over, \* the discovering client: where to go on, what it was told
  wanted, answers     \* the reading client: identifiers to ask for, answers got

dvars == <<start, found, over, wanted, answers>>

DInit == start = 0 /\ found = <<>> /\ over = FALSE /\ wanted = Asked /\ answers = <<>>

(* next_attribute(): the lowest identifier from start on.                       *)
NextAttribute(from) == {a \in Attributes : a >= from /\ \A b \in Attributes : b >= from => a <= b}

(* discover(): the identifiers from start on, at most max of them and as many   *)
(* as fit three octets each; complete unless one is left.                       *)
Page_CompleteWhenFull(from, max, room) ==
  LET rest == SetToSortSeq({a \in Attributes : a >= from}, <)
      n == Min({Len(rest), max, room \div 3}) IN
  [page |-> SubSeq(rest, 1, n), complete |-> n = max \/ n = Len(rest)]
Page(from, max, room) ==
  LET rest == SetToSortSeq({a \in Attributes : a >= from}, <)
      n == Min({Len(rest), max, room \div 3}) IN
  [page |-> SubSeq(rest, 1, n), complete |-> n = Len(rest)]
Refused(from, max, room) == room < 3 /\ max # 0 /\ NextAttribute(from) # {}

Discover(max, room) ==
  /\ ~over /\ ~Refused(start, max, room)
  /\ LET r == Page(start, max, room) IN
     /\ found' = found \o r.page /\ over' = r.complete
     /\ start' = IF r.page = <<>> \/ Last(r.page) = TOP THEN start ELSE Last(r.page) + 1
  /\ UNCHANGED <<wanted, answers>>

(* zcl_read_attrs_unicast(): a record of three octets for each identifier, and  *)
(* type and value after it when they fit; the answer ends when three do not.    *)
Status(a, room) ==
  IF a \notin Attributes THEN "UNSUPPORTED"
  ELSE IF a \in Unreadable THEN "NOT_AUTHORIZED"
  ELSE IF room < 4 + Size[a] THEN "INSUFFICIENT_SPACE" ELSE "SUCCESS"
Length(a, room) == IF Status(a, room) = "SUCCESS" THEN 4 + Size[a] ELSE 3
Record(acc, a) ==
  IF acc.room < 3 THEN [acc EXCEPT !.room = 0]
  ELSE [room |-> acc.room - Length(a, acc.room), out |-> Append(acc.out, <<a, Status(a, acc.room)>>)]
ReadAnswer(ids, room) == FoldLeft(Record, [room |-> room, out |-> <<>>], ids).out

Read(room) ==
  /\ wanted # <<>> /\ room >= 3
  /\ LET out == ReadAnswer(wanted, room) IN
     /\ answers' = answers \o out
     /\ wanted' = SubSeq(wanted, Len(out) + 1, Len(wanted))
  /\ UNCHANGED <<start, found, over>>

DNext == \E room \in Rooms : Read(room) \/ \E max \in 0..3 : Discover(max, room)
DSpec == DInit /\ [][DNext]_dvars

(* A client that pages through an answer gets the whole of it: whatever the     *)
(* pages' sizes, discovery that says complete has told every identifier once,   *)
(* in order, and what was read and what is left to ask are what was asked.      *)
PagesAreWhole ==
  /\ over => found = SetToSortSeq(Attributes, <)
  /\ [i \in DOMAIN answers |-> answers[i][1]] \o wanted = Asked
==============================================================================
