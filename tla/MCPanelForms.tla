----------------------------- MODULE MCPanelForms -----------------------------
\* A small instance of PanelForms for TLC.
EXTENDS PanelForms
==============================================================================
