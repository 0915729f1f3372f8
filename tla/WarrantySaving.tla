---------------------------- MODULE WarrantySaving ----------------------------
(***************************************************************************)
(* What saving a warranty promises, without pictures, queues or screens.   *)
(* A request is asked for; it is kept once the device will deliver it      *)
(* whatever happens to the process; it is saved once the backend has it,   *)
(* and stays saved; or it is gone.  The user is told that a warranty was   *)
(* added only when it is saved.  A crash takes what is not yet kept and    *)
(* nothing else.                                                           *)
(***************************************************************************)
CONSTANT Requests

VARIABLES status, told

savingVars == <<status, told>>

Statuses == {"unasked", "asked", "kept", "saved", "gone"}

SavingInit ==
  /\ status = [r \in Requests |-> "unasked"]
  /\ told = {}

Move(r, from, to) ==
  /\ status[r] \in from
  /\ status' = [status EXCEPT ![r] = to]
  /\ UNCHANGED told

Ask(r)  == Move(r, {"unasked"}, "asked")
Keep(r) == Move(r, {"asked"}, "kept")
Save(r) == Move(r, {"kept"}, "saved")

\* An upload fails, or the backend refuses the document.
Drop(r) == Move(r, {"asked", "kept"}, "gone")

Crash ==
  /\ status' = [r \in Requests |-> IF status[r] = "asked" THEN "gone" ELSE status[r]]
  /\ UNCHANGED told

Tell(r) ==
  /\ status[r] = "saved"
  /\ told' = told \cup {r}
  /\ UNCHANGED status

SavingNext ==
  \/ \E r \in Requests : Ask(r) \/ Keep(r) \/ Save(r) \/ Drop(r) \/ Tell(r)
  \/ Crash

SavingSpec == SavingInit /\ [][SavingNext]_savingVars

=============================================================================
