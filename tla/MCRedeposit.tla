----------------------------- MODULE MCRedeposit -----------------------------
\* Two items, sent at most twice; see Redeposit.cfg.
EXTENDS Redeposit
============================================================================
