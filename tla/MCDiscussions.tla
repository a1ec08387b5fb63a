---------------------------- MODULE MCDiscussions ----------------------------
EXTENDS Discussions, TLC

CONSTANTS s1, s2

\* Two sessions that edit one draft.
MCSymmetry == Permutations(Sessions)
============================================================================
