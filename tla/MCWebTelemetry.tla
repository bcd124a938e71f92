---------------------------- MODULE MCWebTelemetry ----------------------------
(* Values of the constants of WebTelemetry for TLC.                        *)
EXTENDS WebTelemetry

\* A battery that pushes, and polled ones of each kind in each slot.
McRoutes == {[bms1 |-> "can", bms2 |-> "none"], [bms1 |-> "pace", bms2 |-> "jk"],
             [bms1 |-> "jk", bms2 |-> "daly"], [bms1 |-> "daly", bms2 |-> "none"]}
=============================================================================
