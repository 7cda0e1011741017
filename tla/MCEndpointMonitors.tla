-------------------------- MODULE MCEndpointMonitors --------------------------
(***************************************************************************)
(* EndpointMonitors for TLC: three endpoints whose heights may lie as far  *)
(* apart as an error warrants, blocks of two batches, and peer counts that *)
(* rise above and fall below every threshold.                              *)
(***************************************************************************)
EXTENDS EndpointMonitors
=============================================================================
