------------------------------ MODULE MCCheck -------------------------------
\* Check for model checking. A check starts paused or not, and is
\* paused or resumed once; one goroutine stands for those that never set the
\* phase.
EXTENDS Check
=============================================================================
