--------------------------- MODULE MCStoryboardPlan ---------------------------
EXTENDS StoryboardPlan, TLC

\* Requests and contents are interchangeable.
PlanSymmetry == Permutations(Requests) \cup Permutations(Contents)
=============================================================================
