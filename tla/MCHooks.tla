------------------------------ MODULE MCHooks -------------------------------
\* Hooks on a single hook run.
EXTENDS Hooks

=============================================================================
