------------------------------- MODULE MCBdbJoin -------------------------------
(* A small instance of BdbJoin.                                                *)
EXTENDS BdbJoin
Frame(kind, arg) == [kind |-> kind, arg |-> arg]
Asked(cluster, mine) == Frame("REQUEST", [cluster |-> cluster, broadcast |-> FALSE, mine |-> mine, whole |-> TRUE])
Announce(ieee, address) == Frame("ANNCE", [ieee |-> ieee, address |-> address])
Scenario(start, sleepy, frames) == [start |-> start, sleepy |-> sleepy, frames |-> frames]
Node == Frame("NODE_RSP", "COORDINATOR")
Parent == Frame("PARENT_RSP", "KEEPALIVE")

\* A join with application frames; one with binding requests, which are served by
\* the application; a member whose network changes its identity; one whose parent
\* refuses it or wants polls only; one that is asked to leave, or hears another
\* device announce its address.
MCScenarios ==
  {Scenario("FRESH", FALSE, {Node, Parent, Frame("APP", "NONE"), Frame("LEAVE", "NONE")}),
   Scenario("FRESH", FALSE, {Node, Frame("BIND", "NONE")}),
   Scenario("RESUMED", TRUE, {Parent, Frame("UPDATE", "NONE")}),
   Scenario("RESUMED", TRUE, {Frame("PARENT_RSP", "POLL"), Frame("REFUSED", "NONE")}),
   Scenario("RESUMED", FALSE, {Parent, Asked("MGMT_LEAVE", TRUE), Announce("other", "own")})}

\* A binding request and an update of the network while a device rejoins.
MCUpdated == {Scenario("RESUMED", FALSE, {Parent, Frame("BIND", "NONE"), Frame("UPDATE", "NONE")})}
================================================================================
