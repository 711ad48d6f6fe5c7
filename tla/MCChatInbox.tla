----------------------------- MODULE MCChatInbox -----------------------------
(* Small instances of ChatInbox for TLC. *)
EXTENDS ChatInbox, TLC

Symmetry == Permutations(Users)
=============================================================================
