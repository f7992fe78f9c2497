---------------------------- MODULE MCLiveSockets ----------------------------
\* Small instances of LiveSockets for TLC.
EXTENDS LiveSockets
=============================================================================
