--------------------------- MODULE MCKeyTransactions ---------------------------
(* Finite instances for TLC: one task has transactions under one key, the  *)
(* other under that key and under another one.                             *)
EXTENDS KeyTransactions

CONSTANTS t1, k1

MCKeysOf == [t \in Tasks |-> IF t = t1 THEN {k1} ELSE Keys]
================================================================================
