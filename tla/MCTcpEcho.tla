------------------------------ MODULE MCTcpEcho ------------------------------
(***************************************************************************)
(* Instances of TcpEcho for TLC.                                           *)
(***************************************************************************)
EXTENDS TcpEcho

\* Buffers of four bytes and an int from -8 to 7.  The fragments are read as 1
\* or as -1: one serial that is accepted and one that is refused, and not 0, so
\* that the value recv_serial starts with can be told from a received one.
\* Among them: signs that cancel, a sum that overflows, stale digits behind a
\* delimited number, padding, and a number that nothing delimits (the last one).
Text(b, n) == [buf |-> b, len |-> n]
MCFragments == {
    Text(<<49, 120, 55, 0>>, 2),     \* 1x
    Text(<<45, 45, 49, 0>>, 3),      \* --1
    Text(<<45, 43, 49, 120>>, 4),    \* -+1x
    Text(<<49, 53, 13, 10>>, 4),     \* 15 and a line end
    Text(<<45, 49, 53, 0>>, 3),      \* -15
    Text(<<49, 53, 0, 0>>, 1)}       \* 1, behind a frame that held 15
==============================================================================
