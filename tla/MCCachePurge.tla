---------------------------- MODULE MCCachePurge ----------------------------
EXTENDS CachePurge

CONSTANT k1

\* Three changes of the pages of one community.
MCKeysOf == [c \in Changes |-> {k1}]
============================================================================
