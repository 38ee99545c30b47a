---------------------------- MODULE MCCsvFrameFactor ----------------------------
(***************************************************************************)
(* Small instances of CsvFrameFactor: every file of up to MaxLen bytes.    *)
(***************************************************************************)
EXTENDS CsvFrameFactor

CONSTANT MaxLen

MCFiles == UNION {[1..n -> Char] : n \in 0..MaxLen}
=============================================================================
