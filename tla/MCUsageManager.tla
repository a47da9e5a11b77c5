--------------------------- MODULE MCUsageManager ---------------------------
EXTENDS UsageManager
CONSTANTS p1, p2, queuePlugin, logPlugin

MCInitialPlugins == <<queuePlugin>>
=============================================================================
