------------------------- MODULE MCBundleActivation -------------------------
(* Small instances of BundleActivation: the manifests of the releases.     *)
EXTENDS BundleActivation, TLC

CONSTANTS A, B, C, broker, frontend

\* From A to B both components change their format.  C has the formats of B,
\* no frontend, and does not declare that it replaces state.
MCHas     == (A :> {broker, frontend}) @@ (B :> {broker, frontend}) @@ (C :> {broker})
MCReplace == (A :> {broker, frontend}) @@ (B :> {broker, frontend}) @@ (C :> {})
MCFormat  == LET of(n) == (broker :> n) @@ (frontend :> n)
             IN  (A :> of(1)) @@ (B :> of(2)) @@ (C :> of(2))
OneFile   == <<"state.db">>
TwoFiles  == <<"state.db", "state.db-wal">>
=============================================================================
