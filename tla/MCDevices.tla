----------------------------- MODULE MCDevices -----------------------------
(* Model-checks Devices with the constants of the configuration.           *)
EXTENDS Devices
=============================================================================
