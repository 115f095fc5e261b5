---------------------------- MODULE MCHdbUninit ----------------------------
EXTENDS HdbUninit

CONSTANTS h1, h2, w1
=============================================================================
