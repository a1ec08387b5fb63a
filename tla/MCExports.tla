------------------------------ MODULE MCExports ------------------------------
\* Two calls for one file, one worker; see Exports.cfg.
EXTENDS Exports
============================================================================
