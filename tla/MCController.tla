---------------------------- MODULE MCController ----------------------------
(***************************************************************************)
(* The instances of Controller that TLC checks, and the environment each   *)
(* of them admits (see Controller!Hazards).                                *)
(***************************************************************************)
EXTENDS Controller

\* Requests come one at a time, each after the last one's threads have come
\* to rest; anything the controller asks of the system may fail.
ContractHazards == {"faults"}

\* Disconnect is pressed while the attempt is still under way.
AdoptedHazards == {"haste", "timeouts", "faults"}

\* The helper and the management commands work, everything else may happen.
LiveHazards == {"haste", "timeouts", "lateness"}

\* Single departures from one-request-at-a-time.
NoHazards      == {}
OverlapHazards == {"overlap"}
HasteHazards   == {"haste"}
=============================================================================
