------------------------------ MODULE MCProxyEnv ------------------------------
EXTENDS ProxyEnv
CONSTANTS current, log, table, other, piece, old, t1, t2
MCOriginal == [n \in {current, log} |-> <<old>>]
=============================================================================
