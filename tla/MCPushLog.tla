------------------------------ MODULE MCPushLog ------------------------------
EXTENDS PushLog, TLC

CONSTANTS t1, t2

\* Two pushes of one community, each asked for or scheduled.
MCSymmetry == Permutations(Tasks)
============================================================================
