------------------------------- MODULE Reply -------------------------------
(***************************************************************************)
(* What a client of any dialect may see of one streamed reply: items (text *)
(* or tool calls) that begin, grow and are closed, and one reason at the   *)
(* end, after which nothing comes any more.                                *)
(***************************************************************************)
EXTENDS Integers, Sequences, SequencesExt

VARIABLES items, why

vars == <<items, why>>

Kinds == {"text", "call"}

Init == items = <<>> /\ why = "none"

\* A new item, possibly with its first piece.
Begin == /\ why = "none"
         /\ Len(items') = Len(items) + 1
         /\ IsPrefix(items, items')
         /\ Last(items').kind \in Kinds /\ Last(items').open
         /\ UNCHANGED why

\* An open item grows at its end; nothing that was seen changes.
Grow(i) == /\ why = "none" /\ items[i].open
           /\ items' = [items EXCEPT ![i].parts = items'[i].parts]
           /\ IsPrefix(items[i].parts, items'[i].parts)
           /\ UNCHANGED why

Close(i) == /\ why = "none" /\ items[i].open
            /\ items' = [items EXCEPT ![i].open = FALSE]
            /\ UNCHANGED why

\* The reason is given once, when every item is closed.
Conclude == /\ why = "none" /\ why' # "none"
            /\ items' = [i \in DOMAIN items |-> [items[i] EXCEPT !.open = FALSE]]

\* A dialect that closes its items one by one has none left open when it concludes.
ConcludeClosed == Conclude /\ \A i \in DOMAIN items : ~items[i].open

Next == \/ Begin
        \/ \E i \in DOMAIN items : Grow(i) \/ Close(i)
        \/ Conclude

Spec == Init /\ [][Next]_vars
=============================================================================
