--------------------------- MODULE MCSessionGuard ---------------------------
\* Model values for checking SessionGuard, and with it LockScreen and
\* FingerprintReader.
EXTENDS SessionGuard
=============================================================================
