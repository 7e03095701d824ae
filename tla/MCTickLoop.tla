----------------------------- MODULE MCTickLoop ------------------------------
(***************************************************************************)
(* Charts and instances for the TickLoop runs.                             *)
(***************************************************************************)
EXTENDS TickLoop, ChartLibrary

CONSTANTS e1, e2

OneSentry == <<Sentry>>
BothMaps == {{e1}, {e1, e2}}
=============================================================================
