---------------------------- MODULE MCExecution ----------------------------
\* Execution with processes as model values.
EXTENDS ExecutionProps, TLC

ProcessSymmetry == Permutations(Workers) \cup Permutations(Reconcilers)
============================================================================
