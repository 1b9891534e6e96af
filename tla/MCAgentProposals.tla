--------------------------- MODULE MCAgentProposals ---------------------------
EXTENDS AgentProposals, TLC

\* Requests are interchangeable.
AgentSymmetry == Permutations(Requests)
=============================================================================
