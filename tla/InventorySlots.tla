--------------------------- MODULE InventorySlots ---------------------------
(***************************************************************************)
(* Stacks of items and what happens to two slots when items are moved from *)
(* one to the other: the arithmetic of inventory_actions/move_ops.rs,      *)
(* drop.rs and helpers.rs, and the slot rules of hooks.rs.                 *)
(*                                                                         *)
(* An item is its kind and its amount.  All inventories have the slots of  *)
(* a player's inventory (INVENTORY_SLOTS), the only ones that the code     *)
(* lets an action name.                                                    *)
(***************************************************************************)
EXTENDS Integers, FiniteSets, Functions

CONSTANTS
  Slot,         \* slot numbers
  ArmorSlot,    \* the twelve slots that hold only what fits them
  BodySlot,     \* those of head, chest, pants and boots, which show
  GeneralSlot,  \* base inventory and hot bar
  Kind,         \* item kinds
  MaxStack,     \* get_max_stack_size of a kind
  FitsSlot,     \* the armor slots a kind fits
  NoItem        \* an empty slot

ASSUME SlotAssumption ==
  /\ BodySlot \subseteq ArmorSlot
  /\ ArmorSlot \subseteq Slot
  /\ GeneralSlot \subseteq Slot \ ArmorSlot
  /\ MaxStack \in [Kind -> Nat \ {0}]
  /\ FitsSlot \in [Kind -> SUBSET ArmorSlot]

Item == [kind : Kind, amount : Nat \ {0}]
Stack == Item \cup {NoItem}
Inventory == [Slot -> Stack]

ASSUME NoItemAssumption == NoItem \notin Item

EmptyInventory == [s \in Slot |-> NoItem]

\* How many items of a kind a slot holds.
Amount(stack, k) == IF stack # NoItem /\ stack.kind = k THEN stack.amount ELSE 0

\* How many of them an inventory holds.
Held(inventory, k) == SumFunction([s \in Slot |-> Amount(inventory[s], k)])

\* item_fits_slot, asked only for the armor slots.
SlotAllows(stack, s) == s \in ArmorSlot => s \in FitsSlot[stack.kind]

\* before_action: whether n of a stack may go to slot s (moves), or from it (drops).
BeforeAction(stack, s, n) ==
  /\ stack # NoItem
  /\ n \in 1..stack.amount
  /\ SlotAllows(stack, s)

\* Mutation: the room left in a stack is not looked at.
TransferAmount_Unlimited(source, target, requested) == requested

\* calculate_transfer_amount, for a target that is empty or of the same kind.
TransferAmount(source, target, requested) ==
  LET space == MaxStack[source.kind] - Amount(target, source.kind) IN
  IF target = NoItem \/ requested <= space THEN requested
  ELSE IF space > 0 THEN space ELSE 0

\* Mutation: a stack that is used up stays, with amount 0.
Less_Zero(stack, n) == [stack EXCEPT !.amount = @ - n]

\* A stack without n of its items.
Less(stack, n) ==
  IF n = stack.amount THEN NoItem ELSE [stack EXCEPT !.amount = @ - n]

\* A slot that gets n items of a kind, empty or with items of that kind.
More(stack, k, n) == [kind |-> k, amount |-> Amount(stack, k) + n]

\* Mutation: the source loses what was asked for, not what was accepted.
Moved_Requested(source, target, n) ==
  IF target # NoItem /\ target.kind # source.kind
  THEN IF n = source.amount THEN [source |-> target, target |-> source]
                            ELSE [source |-> source, target |-> target]
  ELSE [source |-> Less(source, n),
        target |-> More(target, source.kind, TransferAmount(source, target, n))]

\* Both slots after a move of n items, 1 <= n <= source.amount, between
\* different slots: move_within_inventory and move_between_inventories.
\* Items that cannot be stacked are swapped, if the whole stack is moved.
Moved(source, target, n) ==
  IF target # NoItem /\ target.kind # source.kind
  THEN IF n = source.amount THEN [source |-> target, target |-> source]
                            ELSE [source |-> source, target |-> target]
  ELSE LET accepted == TransferAmount(source, target, n) IN
       [source |-> Less(source, accepted),
        target |-> IF accepted = 0 THEN target ELSE More(target, source.kind, accepted)]

\* find_quick_action_target_slot: from an armor slot to an empty general slot,
\* from elsewhere to an empty armor slot that the item fits.  The code takes
\* the first in an order of its own.
QuickTargets(inventory, from) ==
  {s \in IF from \in ArmorSlot THEN GeneralSlot
                               ELSE FitsSlot[inventory[from].kind] \ {from} :
     inventory[s] = NoItem}

\* get_player_skin: what the four slots of the body show.
Worn(inventory) ==
  [s \in BodySlot |->
     IF inventory[s] # NoItem /\ SlotAllows(inventory[s], s) THEN inventory[s].kind
                                                             ELSE NoItem]
=============================================================================
