---- MODULE MCLossyChannel ----
EXTENDS LossyChannel
====
