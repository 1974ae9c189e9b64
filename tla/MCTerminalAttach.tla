--------------------------- MODULE MCTerminalAttach ---------------------------
(* TerminalAttach for TLC. *)
EXTENDS TerminalAttach, TLC

\* Connections are used by name only.
ConnectionSymmetry == Permutations(Subscribers)
===============================================================================
