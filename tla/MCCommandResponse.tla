-------------------------- MODULE MCCommandResponse -------------------------
EXTENDS CommandResponse
=============================================================================
