------------------------------ MODULE MCPipeline ----------------------------
EXTENDS Pipeline
=============================================================================
