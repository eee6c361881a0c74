-------------------------- MODULE MCServerLifespan --------------------------
\* Three dependencies, the first one registered under two keys.
EXTENDS ServerLifespan

TwoKeys == <<"pool", "cache", "pool", "index">>
=============================================================================
