------------------------- MODULE MCActivityWatcher -------------------------
EXTENDS ActivityWatcher
=============================================================================
