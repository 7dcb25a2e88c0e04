---------------------------- MODULE MCPanelSession ----------------------------
\* A small instance of PanelSession for TLC.
EXTENDS PanelSession
==============================================================================
