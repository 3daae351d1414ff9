----------------------------- MODULE MCAuditLog -----------------------------
(***************************************************************************)
(* AuditLog for TLC.  Two rotated files, so that a file is first, middle   *)
(* or last; max_bytes of 2 with lines of 1 and 3 bytes: lines that share a *)
(* file, that fill it exactly and that never fit; two faults, so that one  *)
(* can hit the recovery from another.                                      *)
(***************************************************************************)
EXTENDS AuditLog
=============================================================================
