----------------------------- MODULE MCStoryTree -----------------------------
EXTENDS StoryTree, TLC

\* Requests and the identities of shots and scenes are interchangeable.
TreeSymmetry == Permutations(Requests) \cup Permutations(Shots) \cup Permutations(Scenes)
=============================================================================
