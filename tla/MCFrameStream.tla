--------------------------- MODULE MCFrameStream ----------------------------
EXTENDS FrameStream
=============================================================================
