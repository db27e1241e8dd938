--------------------------- MODULE MCSiteStatus ---------------------------
EXTENDS SiteStatus
===========================================================================
