------------------------------- MODULE MCTrash -------------------------------
EXTENDS Trash

CONSTANT Count  \* how many documents there are
MCIds == 1 .. Count
\* Documents of one and two units, the larger ones in between.
MCSize == [id \in MCIds |-> 1 + (id % 2)]
=============================================================================
