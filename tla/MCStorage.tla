------------------------------ MODULE MCStorage ------------------------------
(* The journal driven by any sequence of loads and replacements of the records *)
(* another owner keeps, the security counters that live on it (counters 0..3   *)
(* in ranges of two, from virgin pages or from another owner's record), and    *)
(* the key owner, with two short addresses and in every profile, on the record *)
(* as AtomicRecord promises it.  A behaviour is one of the three.              *)
EXTENDS SecurityCounter, SecurityKeys

CONSTANTS p1, p2
VARIABLE part

MCPayload == {p1, p2}
MCData    == Blob \cup ForeignData
MCBuilds  == Profiles

AnyClient == INSTANCE NvRecord WITH Data <- ForeignData

\* The parts a behaviour does not exercise rest at one of their first states.
MCInit ==
  /\ part \in {"JOURNAL", "COUNTERS", "KEYS"}
  /\ Init /\ KeysInit
  /\ part = "KEYS" => latest = EmptyPage
  /\ part # "KEYS" => journal = Nothing /\ build = CHOOSE b \in Builds : TRUE

MCNext ==
  /\ UNCHANGED part
  /\ \/ part = "JOURNAL" /\ AnyClient!NvNext /\ UNCHANGED <<ownVars, vars>>
     \/ part = "COUNTERS" /\ Next /\ UNCHANGED vars
     \/ part = "KEYS" /\ KeysNext /\ UNCHANGED counterVars

MCSpec == MCInit /\ [][MCNext]_<<counterVars, vars, part>>
==============================================================================
