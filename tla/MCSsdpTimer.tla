---------------------------- MODULE MCSsdpTimer -----------------------------
EXTENDS SsdpTimer
=============================================================================
