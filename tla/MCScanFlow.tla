----------------------------- MODULE MCScanFlow -----------------------------
(***************************************************************************)
(* TLC instances of ScanFlow, the scan with its page and bridge.           *)
(***************************************************************************)
EXTENDS ScanFlow
=============================================================================
