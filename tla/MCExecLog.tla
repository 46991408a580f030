------------------------------ MODULE MCExecLog ------------------------------
EXTENDS FollowLogs

\* The shortest and the longest payload; the second can be mistaken for the
\* beginning of a frame by a reader that has lost its place.
MCPayloads == {<<>>, <<1, 0>>}
MCStreams == {1, 3}
==============================================================================
