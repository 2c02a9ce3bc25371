----------------------------- MODULE Awareness -----------------------------
(***************************************************************************)
(* Awareness (jwst-codec awareness.rs and protocol/awareness.rs): what a   *)
(* node knows of the peers that are present.  Each peer has a clock of its *)
(* own and a content that is null once it has left.  No code of the        *)
(* repository sets a state of its own node, so a node only relays what     *)
(* peers announce: the branch of apply_update for the local id is not      *)
(* taken.  Clock 0 stands for no entry.                                    *)
(***************************************************************************)
EXTENDS Naturals

CONSTANTS
    Peer,       \* clients that announce themselves
    Clock       \* bound: clocks a peer's state may carry

ASSUME ClockAssumption == Clock \subseteq Nat

State == [clock : Clock, on : BOOLEAN]
Absent == [clock |-> 0, on |-> FALSE]
NoStates == [p \in Peer |-> Absent]

-----------------------------------------------------------------------------
(* Awareness::apply_update for one entry of the update *)

\* AwarenessState::delete counts on from the clock it finds.
Delete(prev) == [clock |-> prev.clock + 1, on |-> FALSE]

\* Mutant: the clock of what arrives is not looked at.
ApplyAny(prev, state) == IF state.clock = 0 THEN prev ELSE state
ApplyState(prev, state) ==
    IF prev.clock >= state.clock THEN prev
    ELSE IF prev.clock = 0 \/ state.on THEN state
    ELSE Delete(prev)

ApplyStates(states, update) == [p \in Peer |-> ApplyState(states[p], update[p])]

\* The event: what the callback sends on is what was added, updated or removed.
Changed(old, new) == [p \in Peer |-> IF old[p] = new[p] THEN Absent ELSE new[p]]

=============================================================================
