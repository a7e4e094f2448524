--------------------------- MODULE MCUdpDataBlock ---------------------------
EXTENDS UdpDataBlock
=============================================================================
