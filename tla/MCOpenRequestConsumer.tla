------------------------ MODULE MCOpenRequestConsumer ------------------------
EXTENDS OpenRequestConsumer
=============================================================================
