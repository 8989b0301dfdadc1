---- MODULE MCUtpWindow ----
EXTENDS UtpWindow
====
