----------------------------- MODULE MCLiveFetch -----------------------------
EXTENDS LiveFetch

CONSTANTS h1, h2
=============================================================================
