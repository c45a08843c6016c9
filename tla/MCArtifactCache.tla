---------------------------- MODULE MCArtifactCache ----------------------------
EXTENDS ArtifactCache, TLC

CONSTANTS p1, p2, tool, image, archive, preset

Symmetry == Permutations(Procs)
=============================================================================
