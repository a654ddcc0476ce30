------------------------------ MODULE MCPtpSync ------------------------------
(* Instances of PtpSync: cars with clocks a little off the master's.          *)
EXTENDS PtpSync, TLC

CONSTANTS c1, c2

Skews == {-1, 0, 1}

\* A clock that is ahead, and too far for the slewing to bring it back.
Ahead == {0, 3}

\* A clock that is behind.
Behind == {-2}
=============================================================================
