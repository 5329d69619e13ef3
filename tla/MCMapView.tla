----------------------------- MODULE MCMapView -----------------------------
EXTENDS MapView, TLC

MapSymmetry == Permutations(Slots)
=============================================================================
