--------------------------- MODULE MCInstanceLock ---------------------------
(* Processes are interchangeable: only safety is checked.                  *)
EXTENDS InstanceLock, TLC

PidSymmetry == Permutations(Pids)
=============================================================================
