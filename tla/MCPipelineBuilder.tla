-------------------------- MODULE MCPipelineBuilder --------------------------
EXTENDS PipelineBuilder
=============================================================================
