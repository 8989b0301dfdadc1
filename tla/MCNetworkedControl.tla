------------------------- MODULE MCNetworkedControl -------------------------
EXTENDS NetworkedControl
=============================================================================
