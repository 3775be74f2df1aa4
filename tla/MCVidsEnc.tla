------------------------------ MODULE MCVidsEnc ------------------------------
(* Instantiation of VidsEnc for TLC.                                       *)
EXTENDS VidsEnc

\* VIDs 0..10, so that runs end at one- and two-digit VIDs.
MCMaxVid == 10
=============================================================================
