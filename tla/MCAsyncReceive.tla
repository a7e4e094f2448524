--------------------------- MODULE MCAsyncReceive ---------------------------
EXTENDS AsyncReceive
=============================================================================
