--------------------------- MODULE MCDaemonInstall ---------------------------
(* DaemonInstall for TLC: tokens are interchangeable, and only safety is     *)
(* checked.                                                                  *)
EXTENDS DaemonInstall, TLC

TokenSymmetry == Permutations(Tokens)

=============================================================================
