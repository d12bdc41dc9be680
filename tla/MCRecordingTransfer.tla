--------------------------- MODULE MCRecordingTransfer ---------------------------
\* Three recordings of one session after each other.
EXTENDS RecordingTransfer
===============================================================================
