----------------------------- MODULE MCStatusRead -----------------------------
EXTENDS StatusRead, MCTranscodePipeline
===============================================================================
