------------------------------- MODULE MCBrMon -------------------------------
EXTENDS BrMon

\* Two links, each absent, down or up.
MCLinkOrder == <<1, 2>>
MCLinkStates == {"down", "up"}

=============================================================================
