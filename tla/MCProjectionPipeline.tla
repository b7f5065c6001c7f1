------------------------ MODULE MCProjectionPipeline ------------------------
EXTENDS ProjectionPipeline

\* Four of the nine, threads the last as in the code; turns is not required for
\* the snapshot sequence.
MCProjectors == <<"projects", "messages", "turns", "threads">>

\* An ordinary restart, a table added by a migration, tables built from nothing.
MCMissing == {{}, {"threads"}, Projector}
=============================================================================
