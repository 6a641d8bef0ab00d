------------------------- MODULE MC_ChildCheckpoint -------------------------
EXTENDS ChildCheckpoint
====
