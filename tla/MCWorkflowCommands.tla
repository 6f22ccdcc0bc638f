------------------------- MODULE MCWorkflowCommands -------------------------
EXTENDS WorkflowCommands

CONSTANTS build, compile

MCJobOf == compile :> build
=============================================================================
