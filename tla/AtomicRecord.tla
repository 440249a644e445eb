---------------------------- MODULE AtomicRecord ----------------------------
(***************************************************************************)
(* What a snapshot journal promises its caller: a register that holds one  *)
(* record and changes it atomically, each new record carrying the          *)
(* generation that follows the last.  Once the medium has been damaged     *)
(* nothing is promised of the register.                                    *)
(***************************************************************************)
EXTENDS Integers

CONSTANTS Data, NoData, MaxGeneration

VARIABLES value,                 \* the current record, or the empty one
          damaged                \* a committed record was lost to the medium

Empty        == [state |-> "EMPTY", gen |-> 0, data |-> NoData]
Record(g, d) == [state |-> "VALID", gen |-> g, data |-> d]

ARInit == value \in {Empty} \cup {Record(1, d) : d \in Data} /\ damaged = FALSE

Commit(d) == /\ value.gen < MaxGeneration
             /\ value' = Record(value.gen + 1, d)
             /\ damaged' = FALSE

Damage == damaged' = TRUE

\* A commit always changes the record, by its generation.
ARNext == \/ ~damaged /\ value' # value /\ \E d \in Data : Commit(d)
          \/ Damage

ARSpec == ARInit /\ [][ARNext]_<<value, damaged>>
=============================================================================
