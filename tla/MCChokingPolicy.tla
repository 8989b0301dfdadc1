---- MODULE MCChokingPolicy ----
EXTENDS ChokingPolicy
====
