--------------------------- MODULE EntityPresence ---------------------------
(***************************************************************************)
(* What the streaming of entities promises, without tickets, chunks or     *)
(* messages: which client shows which entity (seen), given which entities  *)
(* are in whose view (in_view).  A pair is a watcher and an entity.        *)
(*                                                                         *)
(* Clients learn of an entity only while it is in view, are told to forget *)
(* it in the very step that takes it out of view, and at no other time.    *)
(***************************************************************************)
VARIABLES seen, in_view

vars == <<seen, in_view>>

Init == seen = {} /\ in_view = {}

\* The view changes in any way; what leaves it is forgotten at once.
Next ==
  /\ seen' \subseteq in_view'
  /\ seen \cap in_view' \subseteq seen'

Spec == Init /\ [][Next]_vars
=============================================================================
