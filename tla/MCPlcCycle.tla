----------------------------- MODULE MCPlcCycle -----------------------------
(* Tags for PlcCycle, named after those of app/config/config_static.c: the  *)
(* process variable alarm_state can be written by its own name, and read    *)
(* only through the HMI alias.                                              *)
EXTENDS PlcCycle

CONSTANTS alarm_state, hmi_alarm_state

ConfiguredAlias == [a \in {hmi_alarm_state} |-> alarm_state]
=============================================================================
