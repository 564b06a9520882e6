----------------------------- MODULE MCSources ------------------------------
(* The sources for TLC: a file, two signals, and deadlines from the epoch  *)
(* to the last moment of an i64.  Integers have 7 bits and a "millisecond" *)
(* is 4.                                                                   *)
EXTENDS Sources

CONSTANTS sigint, sigterm

MCInts == 0..MaxI
MCStamps == 0..MaxI
MCDurations == 0..3 * MsNanos
=============================================================================
