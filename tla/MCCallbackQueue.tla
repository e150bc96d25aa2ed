--------------------------- MODULE MCCallbackQueue ---------------------------
\* An instance that sends at most five messages, any of them Destroyed, over a
\* ring of three slots, which therefore wraps.
EXTENDS CallbackQueue
=============================================================================
