-------------------------- MODULE MCDraftStorage --------------------------
(* Small instances of DraftStorage for TLC. *)
EXTENDS DraftStorage, TLC

CONSTANT MaxBusy    \* bound on the pages, posts, requests and freezes at a time

\* Pages are alike, and posts are.
Symmetry == Permutations(Pages) \cup Permutations(Posts)

Busy == Cardinality({c \in Pages : page[c].status # "closed"})
        + Cardinality({p \in Posts : post[p].status # "idle"})
        + Cardinality({r \in Requests : request[r].status # "idle"})
        + (IF Freezing THEN 1 ELSE 0)
FewBusy == Busy <= MaxBusy

\* Edits and releases add up to MaxHistory at most.
CONSTANT MaxHistory
ShortHistory == Len(history) + Len(releases) <= MaxHistory

\* The history view asks for the first version; releases ask for later ones.
FirstViewed ==
    \A r \in Requests :
        request[r].status # "idle" => request[r].release \/ request[r].version = 0

\* What comes after a harm is checked no further: no property claims anything of it
\* once a key has been wiped.
NoHarm == harm = {}
============================================================================
