------------------------------ MODULE MCNvData ------------------------------
(* Instances of NvData for TLC: two chunks of nv_data, two chunk values. *)
EXTENDS NvDataRefinement
=============================================================================
