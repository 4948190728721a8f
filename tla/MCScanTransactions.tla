-------------------------- MODULE MCScanTransactions --------------------------
(* Small instances of ScanTransactions for TLC. *)
EXTENDS ScanTransactions

===============================================================================
