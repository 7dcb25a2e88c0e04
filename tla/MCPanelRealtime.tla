--------------------------- MODULE MCPanelRealtime ---------------------------
\* A small instance of PanelRealtime for TLC.
EXTENDS PanelRealtime
==============================================================================
