---------------------------- MODULE MCWindowClose ----------------------------
EXTENDS WindowClose
=============================================================================
