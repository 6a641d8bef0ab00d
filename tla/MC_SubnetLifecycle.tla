------------------------ MODULE MC_SubnetLifecycle ------------------------
EXTENDS SubnetLifecycle
====
