--------------------------- MODULE MCTimelineWatch ---------------------------
EXTENDS TimelineWatch, TLC

\* The subscribers are interchangeable.
SubSymmetry == Permutations(Subs)

=============================================================================
