----------------------------- MODULE MCDocUpdate -----------------------------
(* A history of three clients, and the updates that may carry it.           *)
EXTENDS DocUpdate

\* Client 1 is this document.  Client 2 writes a run of two and continues
\* after one of ours; client 3's nodes lean on client 2's and the other way round.
MCDeps == [i \in Id |->
    CASE i = <<1, 1>> -> <<<<1, 0>>, <<2, 0>>>>
      [] i = <<2, 1>> -> <<<<2, 0>>>>
      [] i = <<2, 2>> -> <<<<2, 1>>, <<3, 0>>>>
      [] i = <<3, 0>> -> <<<<2, 0>>>>
      [] i = <<3, 1>> -> <<<<3, 0>>, <<2, 1>>, <<1, 0>>>>
      [] OTHER -> <<>>]

N(c, k, l) == [client |-> c, clock |-> k, len |-> l]
U(nodes, dels) ==
    [structs |-> [c \in Client |-> {n \in nodes : n.client = c}], dels |-> dels]

\* One update per transaction, and some that batch several, as a sync step 2 does.
MCUpdates == {
    U({N(2, 0, 1)}, {}),
    U({N(2, 0, 2)}, {}),
    U({N(2, 1, 1)}, {<<2, 0>>}),
    U({N(2, 2, 1)}, {<<3, 0>>}),
    U({N(3, 0, 1)}, {}),
    U({N(3, 1, 1)}, {<<2, 1>>}),
    U({}, {<<3, 1>>}),
    U({N(1, 0, 1), N(2, 1, 1), N(2, 2, 1), N(3, 0, 1)}, {<<2, 0>>}),
    U({N(2, 0, 2), N(2, 2, 1), N(3, 0, 1)}, {<<2, 1>>})
}
=============================================================================
