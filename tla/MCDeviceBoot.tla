---------------------------- MODULE MCDeviceBoot ----------------------------
(* Instances of DeviceBoot for TLC. *)
EXTENDS DeviceBoot
=============================================================================
