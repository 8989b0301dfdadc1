------------------------------ MODULE MCDownload ------------------------------
EXTENDS Download

\* Two clients with half of the pieces each, as s4_anti_snub_det has them.
Halves == (1 :> {0}) @@ (2 :> {1})
TwoConnect == (1 :> {2}) @@ (2 :> {})

\* Two clients with everything open to one with nothing.
TwoSeeds == (1 :> {}) @@ (2 :> Pieces) @@ (3 :> Pieces)
SeedsConnect == (1 :> {}) @@ (2 :> {1}) @@ (3 :> {1})
=============================================================================
