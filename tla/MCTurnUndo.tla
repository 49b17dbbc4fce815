----------------------------- MODULE MCTurnUndo -----------------------------
(* Two turns of one conversation, a message of another one, one undoer. *)
EXTENDS TurnUndo
CONSTANTS u1
=============================================================================
