------------------------------- MODULE MCIcTask ------------------------------
EXTENDS IcTask
=============================================================================
