----------------------------- MODULE MCProviders -----------------------------
\* Small instances of Providers.
EXTENDS Providers, TLC

CONSTANTS r1, r2

TwoRequests == {r1, r2}
=============================================================================
