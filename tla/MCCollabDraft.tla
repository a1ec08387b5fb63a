--------------------------- MODULE MCCollabDraft ---------------------------
(* Small instances of CollabDraft for TLC. *)
EXTENDS CollabDraft, TLC

\* Steps that every session can parse are interchangeable.
Symmetry == Permutations(Steps \ Unreadable)
============================================================================
