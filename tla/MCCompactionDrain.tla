-------------------------- MODULE MCCompactionDrain --------------------------
EXTENDS CompactionDrain

CONSTANTS a, b, run1

(* Two Tasks of one run: the first writes two chunks, the second none.        *)
OneRun == [t \in {a, b} |-> run1]
FirstWrites == [t \in {a, b} |-> IF t = a THEN 2 ELSE 0]
=============================================================================
