--------------------------- MODULE MCHistorySync ---------------------------
EXTENDS HistorySync
=============================================================================
