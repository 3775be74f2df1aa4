---------------------------- MODULE MCConfBridge ----------------------------
(* Instantiation of ConfBridge for TLC.                                    *)
EXTENDS ConfBridge

\* `vids` values: a VID, a range, and a valid VID followed by junk
\* ("2,x"), which conf_vids_dec rejects after writing VID 2.
MCVidArgs == {<<One(1)>>, <<Span(1, 2)>>, <<One(2), Junk>>}

\* A file of `mstid` lines only, long enough to need a second page.
MCOverflowOptions == {"mstid"}
MCOverflowIds == 1..17

MCTwoIds == {1, 2}
MCSetpointOptions == {"mode", "max-age", "ageing", "mstid", "prio"}
MCScopeOptions == {"mstid", "prio", "vids"}

MCAllOptions == {"mode", "max-age", "ageing", "confid", "mstid", "prio", "vids"}
=============================================================================
