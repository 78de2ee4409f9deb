--------------------------- MODULE MCWindowAutosave ---------------------------
EXTENDS WindowAutosave
=============================================================================
