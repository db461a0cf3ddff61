----------------------------- MODULE MCMainLoop -----------------------------
\* Model values for checking MainLoop, and with it TimerManager.
EXTENDS MainLoop
=============================================================================
