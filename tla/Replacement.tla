----------------------------- MODULE Replacement ----------------------------
(***************************************************************************)
(* What the upgrade commands promise about the artefact they replace: a    *)
(* discipline of copying before replacing.  One command runs at a time and *)
(* may be killed after any step; the next one begins with what it finds.   *)
(*                                                                         *)
(* PanelUpgrade implements Spec.  DaemonUpgrade, whose deferred call       *)
(* removes the copy however the run ends, implements HastySpec.            *)
(***************************************************************************)

CONSTANTS
  Versions,    \* whole artefacts
  Contents,    \* what a replacement may leave in place: a version or less
  Good         \* the versions a command may trust without a way back

VARIABLES
  phase,       \* "busy" while a command works
  found,       \* what the command found installed
  inst, copy   \* what is installed, and the copy

vars == <<phase, found, inst, copy>>

Init == phase = "idle" /\ found = "none" /\ inst \in Versions /\ copy = "none"

Begin ==
  /\ phase = "idle" /\ phase' = "busy" /\ found' = inst
  /\ UNCHANGED <<inst, copy>>

\* Copying is possible while nothing was replaced; it may fail half way.
Copy ==
  /\ phase = "busy" /\ inst = found /\ inst # "none"
  /\ copy' \in {found, "torn"} /\ phase' \in {"busy", "idle"}
  /\ UNCHANGED <<found, inst>>

\* The copy of a whole artefact is complete before anything is replaced.
CanReplace == phase = "busy" /\ (found \in Versions => copy = found)

Replace ==
  /\ CanReplace
  /\ inst' \in Contents /\ phase' \in {"busy", "idle"}
  /\ UNCHANGED <<found, copy>>

End == phase = "busy" /\ phase' = "idle" /\ UNCHANGED <<found, inst, copy>>

\* The way back is given up for a version that proved itself.
Forget ==
  /\ phase = "idle" /\ inst \in Good /\ copy' = "none"
  /\ UNCHANGED <<phase, found, inst>>

\* A command that ends with the removal of the copy, whatever came of it.
EndAndForget ==
  /\ CanReplace
  /\ inst' \in Contents /\ copy' = "none" /\ phase' = "idle"
  /\ UNCHANGED found

Next == Begin \/ Copy \/ Replace \/ End \/ Forget
HastyNext == Next \/ EndAndForget

Spec == Init /\ [][Next]_vars
HastySpec == Init /\ [][HastyNext]_vars

-----------------------------------------------------------------------------
(* What the discipline is good for.                                        *)

\* Whatever a hasty command has done so far, what it found is still there.
WayBackWhileBusy ==
  phase = "busy" /\ found \in Versions => found \in {inst, copy}

\* And with a lasting copy, what the last command found stays within reach,
\* after it ended or was killed too, until a version that proved itself is
\* installed.
WayBack == found \in Versions => found \in {inst, copy} \/ inst \in Good

=============================================================================
