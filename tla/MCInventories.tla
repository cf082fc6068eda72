--------------------------- MODULE MCInventories ---------------------------
(***************************************************************************)
(* Instances of Inventories for TLC: one general slot and the head slot,   *)
(* one kind that stacks and one that fits the head.                        *)
(***************************************************************************)
EXTENDS Inventories, TLC

CONSTANTS apple, helmet, hand, head, chunk

MCSlot == {hand, head}
MCHead == {head}
MCHand == {hand}
MCKind == {apple, helmet}
MCMaxStack == (apple :> 2) @@ (helmet :> 1)
MCFitsSlot == (apple :> {}) @@ (helmet :> MCHead)
MCChunk == {chunk}
MCChunkOf == [b \in Box |-> chunk]
MCEmpty == [p \in Player |-> EmptyInventory]
\* Players that own an apple.
MCStored == [p \in Player |-> (hand :> [kind |-> apple, amount |-> 1])
                           @@ (head :> NoItem)]
\* Players that own a helmet, which they wear, and an apple.
MCEquipped == [p \in Player |-> (hand :> [kind |-> apple, amount |-> 1])
                             @@ (head :> [kind |-> helmet, amount |-> 1])]
\* All of the state but the windows of boxes that a player does not watch (any
\* more).  No action reads them: a snapshot overwrites a window before it is
\* updated again.
InventoriesView ==
  <<phase, columns, registry, watchers, slots, skins, account, server,
    [p \in Player |-> [h \in Holder |->
       IF h \in {p} \cup by_entity[p] THEN view[p][h] ELSE Closed]]>>

PlayerSymmetry == Permutations(Player)
=============================================================================
