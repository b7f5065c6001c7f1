-------------------------- MODULE MCThreadProjections --------------------------
EXTENDS ThreadProjections

\* Four of the nine, in the code's order, threads the last; turns is not required
\* for the snapshot sequence.
MCProjectors == <<"projects", "messages", "turns", "threads">>

\* An ordinary restart, a table added by a migration, tables built from nothing.
MCMissing == {{}, {"threads"}, Projector}

\* A first turn without a checkpoint and a second with one.  No revert: tables
\* rebuilt past one are not those of the live projection.
MCHistory == <<Entry("turn-start", 1, None), Entry("running", 1, None),
               Entry("assistant", 1, None), Entry("turn-start", 2, None),
               Entry("running", 2, None), Entry("diff", 2, 1),
               Entry("assistant", 2, None)>>
=============================================================================
