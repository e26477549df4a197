---------------------------- MODULE MCStoplight ----------------------------
EXTENDS Stoplight

\* The cars run the same code, so permuting them is a symmetry of the
\* safety properties.
CarSymmetry == Permutations(Cars)
=============================================================================
