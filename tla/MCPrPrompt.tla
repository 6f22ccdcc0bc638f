------------------------------ MODULE MCPrPrompt ------------------------------
EXTENDS PrPrompt

CONSTANTS a, b

\* The config does not know a's repository.
MCMergesAs == [p \in Prs |-> b]
=============================================================================
