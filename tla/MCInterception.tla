--------------------------- MODULE MCInterception ---------------------------
\* Interception alone, with backups that work.
EXTENDS Interception
=============================================================================
