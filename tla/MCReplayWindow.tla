--------------------------- MODULE MCReplayWindow ---------------------------
EXTENDS ReplayWindow

CONSTANT MaxSequence
MCSequence == 1 .. MaxSequence

=============================================================================
