---------------------------- MODULE MCKynxRoute ----------------------------
EXTENDS KynxRoute
=============================================================================
