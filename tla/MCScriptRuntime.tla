-------------------------- MODULE MCScriptRuntime --------------------------
\* Model values and symmetry for checking ScriptRuntime.  The workers of the
\* pool are interchangeable; the safety runs use that.
EXTENDS ScriptRuntime

WorkerSymmetry == Permutations(Worker)
=============================================================================
