------------------------ MODULE MC_CheckpointVoting ------------------------
EXTENDS CheckpointVoting
====
