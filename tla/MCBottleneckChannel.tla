---- MODULE MCBottleneckChannel ----
EXTENDS BottleneckChannel
====
