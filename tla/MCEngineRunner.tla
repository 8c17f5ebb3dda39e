--------------------------- MODULE MCEngineRunner ---------------------------
EXTENDS EngineRunner
=============================================================================
