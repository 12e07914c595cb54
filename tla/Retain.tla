-------------------------------- MODULE Retain --------------------------------
(***************************************************************************)
(* The members of a queue that are kept, in their order: Vec::retain, and  *)
(* the loop of Session::prune_completed_routes that pops from one end and  *)
(* pushes what stays onto the other.  A function of the place rather than  *)
(* SelectSeq, so that what it computes can be proved (FiniteFacts).        *)
(***************************************************************************)
EXTENDS Naturals, Sequences

Retained(queue, kept) ==
    LET f[i \in 0 .. Len(queue)] ==
            IF i = 0 THEN <<>>
            ELSE IF queue[i] \in kept THEN Append(f[i - 1], queue[i])
            ELSE f[i - 1]
    IN f[Len(queue)]

=============================================================================
