----------------------------- MODULE MCNetconnApi -----------------------------
(***************************************************************************)
(* Instances of NetconnApi for TLC.                                        *)
(***************************************************************************)
EXTENDS NetconnApi

\* An accepted connection brings data for its mailbox, a segment that is refused
\* and one that comes while it still is.  What a sender's peer sends fills, with
\* the end of the stream, a mailbox that the sender never empties.
MCMaxData == [c \in Conns |-> IF c \in Accepts THEN RecvLength + 2 ELSE RecvLength - 1]
==============================================================================
