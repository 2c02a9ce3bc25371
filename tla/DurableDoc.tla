----------------------------- MODULE DurableDoc -----------------------------
(***************************************************************************)
(* What the docs table promises about the document of one workspace: what  *)
(* is written stays, whatever is merged or loaded meanwhile.  Two things   *)
(* may take it away: a replacement of the whole document (full_migrate,    *)
(* delete_workspace), and a crash while rows that are being merged are     *)
(* held in memory only.                                                    *)
(***************************************************************************)
VARIABLES
  stored,     \* what the rows hold
  held,       \* what a merge holds that has deleted the rows
  replacing   \* the document is being replaced

vars == <<stored, held, replacing>>

Init == held = {} /\ replacing = FALSE

\* A write adds to the rows; a merge moves them to memory and back.
WriteOrMerge ==
  /\ stored \cup held \subseteq stored' \cup held'
  /\ UNCHANGED replacing

Begin == replacing' = TRUE /\ UNCHANGED <<stored, held>>

\* Anything may happen to the rows until the replacement ends.
Replace == replacing /\ replacing' \in BOOLEAN

Crash == held' = {} /\ replacing' \in {replacing, FALSE} /\ UNCHANGED stored

Next == WriteOrMerge \/ Begin \/ Replace \/ Crash

Spec == Init /\ [][Next]_vars
=============================================================================
