---------------------------- MODULE MCWorkerDrain ----------------------------
EXTENDS WorkerDrain, MCTranscodePipeline
==============================================================================
