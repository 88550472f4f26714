-------------------------- MODULE MCJournalWriter --------------------------
EXTENDS JournalWriter, TLC
=============================================================================
