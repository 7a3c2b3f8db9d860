-------------------------- MODULE MCResumableUpload --------------------------
(* ResumableUpload for TLC: the constants are in MCResumableUpload_*.cfg.   *)
EXTENDS ResumableUpload
=============================================================================
