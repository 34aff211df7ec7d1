----------------------------- MODULE MCRealtime -----------------------------
EXTENDS Realtime
CONSTANTS h1, h2, h3, h4
MCConnections == {h1, h2, h3, h4}
=============================================================================
