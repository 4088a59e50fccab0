--------------------------- MODULE MCEventStream ---------------------------
(* EventStream for TLC: names for the subscriber orders of the instances.  *)
EXTENDS EventStream, TLC

CONSTANTS memory, runtime, server

MemoryRuntime == <<memory, runtime>>
RuntimeServer == <<runtime, server>>

Symmetric == Permutations(Events) \cup Permutations(Writers)
=============================================================================
