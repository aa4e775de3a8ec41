------------------------------ MODULE MCTicker ------------------------------
EXTENDS Ticker
=============================================================================
