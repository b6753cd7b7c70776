----------------------------- MODULE MCLifecycle -----------------------------
EXTENDS Lifecycle, TLC

CONSTANTS i1, k1

\* One ID, derived from the one key; a viewer may ask for a relay of it, too.
MCIdsOf == k1 :> {i1}
==============================================================================
