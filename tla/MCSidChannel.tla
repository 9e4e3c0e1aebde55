---------------------------- MODULE MCSidChannel ----------------------------
EXTENDS SidChannelSpec
\* A subtune of known length and one of unknown length that starts first.
MCLengths == <<Unknown, 2>>
=============================================================================
