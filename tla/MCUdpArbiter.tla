---------------------------- MODULE MCUdpArbiter ----------------------------
EXTENDS UdpArbiter
=============================================================================
