----------------------------- MODULE MCAiQuota ------------------------------
(* Small instances of AiQuota for TLC.                                     *)
EXTENDS AiQuota
=============================================================================
