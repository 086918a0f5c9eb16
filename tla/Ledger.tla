------------------------------- MODULE Ledger -------------------------------
(***************************************************************************)
(* What the worksheet promises about an order, whatever fails and whoever  *)
(* interferes: the life of its entry, without requests, phases and cells.  *)
(*                                                                         *)
(*   absent --> counted <--> refused --> excluded --> absent               *)
(*                                                                         *)
(* An entry is never destroyed the moment its order is refused: a refusal  *)
(* is recorded by one step and settled by a later one, which either takes  *)
(* the entry out of the totals or removes it, and removes it only when a   *)
(* backup of the same run has it. SheetSync implements this specification. *)
(***************************************************************************)
CONSTANT Orders

VARIABLES
  entry,   \* what stands in the worksheet for an order
  loose,   \* managed entries that no rebuild places: without a tracking
           \* number, or dated after the day the run has started on
  saved    \* orders in the backup of the present run

vars == <<entry, loose, saved>>

Managed == {"counted", "refused", "excluded"}
Entries == Managed \cup {"absent", "byhand"}

TypeOK ==
  /\ entry \in [Orders -> Entries]
  /\ loose \subseteq Orders
  /\ saved \subseteq Orders

Init ==
  /\ entry \in [Orders -> {"absent", "counted"}]
  /\ loose = {}
  /\ saved = {}

\* A refusal becomes known, or turns out to be none; an entry that is out of
\* the totals already stays there.
Learn ==
  /\ \A o \in Orders : \/ entry'[o] = entry[o]
                       \/ {entry[o], entry'[o]} = {"counted", "refused"}
  /\ UNCHANGED saved

\* A backup of all managed entries.
Save ==
  /\ saved' = {o \in Orders : entry[o] \in Managed}
  /\ UNCHANGED entry

\* What one rebuild makes of an order.
Enters(o) ==
  /\ entry[o] \notin Managed
  /\ entry'[o] \in {"absent", "counted", "excluded"}

Stays(o) ==
  \/ entry[o] = "counted"  /\ entry'[o] = "counted"
  \/ entry[o] = "refused"  /\ entry'[o] = "excluded"
  \/ entry[o] = "excluded" /\ entry'[o] \in {"counted", "excluded"}

Leaves(o) ==
  /\ entry[o] \in {"refused", "excluded"} \/ o \in loose
  /\ o \in saved
  /\ entry'[o] = "absent"

Rebuild ==
  /\ \A o \in Orders : Enters(o) \/ Stays(o) \/ Leaves(o)
  /\ UNCHANGED saved

\* The run ends. A rebuild that was torn brings some removed entries back.
EndRun ==
  /\ \A o \in Orders : entry'[o] = entry[o] \/ entry[o] = "absent"
  /\ saved' = {}

\* The manager copies an order by hand.
EnterByHand(o) ==
  /\ entry[o] = "absent"
  /\ entry' = [entry EXCEPT ![o] = "byhand"]
  /\ UNCHANGED saved

Next ==
  /\ \/ Learn \/ Save \/ Rebuild \/ EndRun
     \/ \E o \in Orders : EnterByHand(o)
  /\ entry' \in [Orders -> Entries]
  /\ loose' \subseteq Orders

Spec == Init /\ [][Next]_vars

=============================================================================
