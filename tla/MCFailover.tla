------------------------------ MODULE MCFailover ------------------------------
\* Three regions, of which the primary is the last; the manager runs in another.
EXTENDS Failover

CONSTANTS A, B, C
MCOrder == <<B, C, A>>
=============================================================================
