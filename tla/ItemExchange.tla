---------------------------- MODULE ItemExchange ----------------------------
(***************************************************************************)
(* What the inventories promise: a player moves items only between the     *)
(* inventories within its reach, its own and the boxes it has open; a move *)
(* changes two slots at most and neither creates nor destroys an item;     *)
(* items come only from the console and from plugins, and go only by a     *)
(* drop from an inventory within reach or by the command that clears the   *)
(* inventory of a player.  Supply is what has come less what was dropped.  *)
(***************************************************************************)
EXTENDS InventorySlots

CONSTANTS Player, Box

VARIABLES
  held,     \* the stacks in the slots of every inventory
  open,     \* the boxes each player has open
  supply    \* items of each kind that came from outside less those dropped

Holder == Player \cup Box

Reach(p) == {p} \cup open[p]

Untouched(places) ==
  \A h \in Holder, s \in Slot : <<h, s>> \notin places => held'[h][s] = held[h][s]

Init ==
  /\ held \in [Holder -> Inventory]
  /\ open = [p \in Player |-> {}]
  /\ supply \in [Kind -> Int]

Open(p, b) ==
  /\ open' = [open EXCEPT ![p] = @ \cup {b}]
  /\ UNCHANGED <<held, supply>>

\* Players close boxes or leave, boxes leave the memory.
Close ==
  /\ UNCHANGED <<held, supply>>
  /\ open' \in [Player -> SUBSET Box]
  /\ \A p \in Player : open'[p] \subseteq open[p]

Exchange(p) ==
  /\ UNCHANGED <<open, supply>>
  /\ \E g, h \in Reach(p), s, t \in Slot :
       /\ <<g, s>> # <<h, t>>
       /\ Untouched({<<g, s>>, <<h, t>>})
       /\ \A k \in Kind : Amount(held'[g][s], k) + Amount(held'[h][t], k)
                            = Amount(held[g][s], k) + Amount(held[h][t], k)

Drop(p) ==
  /\ UNCHANGED open
  /\ \E h \in Reach(p), s \in Slot :
       /\ Untouched({<<h, s>>})
       /\ \A k \in Kind :
            /\ Amount(held'[h][s], k) <= Amount(held[h][s], k)
            /\ supply'[k] = supply[k] + Amount(held'[h][s], k) - Amount(held[h][s], k)

Receive(h) ==
  /\ UNCHANGED open
  /\ \E s \in Slot :
       /\ Untouched({<<h, s>>})
       /\ \A k \in Kind :
            /\ Amount(held'[h][s], k) >= Amount(held[h][s], k)
            /\ supply'[k] = supply[k] + Amount(held'[h][s], k) - Amount(held[h][s], k)

Clear(p) ==
  /\ held' = [held EXCEPT ![p] = EmptyInventory]
  /\ UNCHANGED <<open, supply>>

Next ==
  \/ Close
  \/ \E p \in Player : Exchange(p) \/ Drop(p) \/ Clear(p) \/ \E b \in Box : Open(p, b)
  \/ \E h \in Holder : Receive(h)

Spec == Init /\ [][Next]_<<held, open, supply>>
=============================================================================
