---------------------------- MODULE MCNetlinkTalk ----------------------------
(* NetlinkTalk with rtnl->seq and size_t narrowed to 3 and 4 bits: only   *)
(* the order of seq values and seq - iovlen matters, and SizeMod > SeqMod  *)
(* keeps a negative seq - iovlen above every seq as 2^64 > 2^32 does.     *)
EXTENDS NetlinkTalk

MCSeqMod == 8
MCSizeMod == 16

\* rtnl->seq started at 0: four calls do not wrap it, and without a wrap
\* only the order of seq values matters, so every start below
\* MCSeqMod - 4 gives the same behaviours up to renumbering.
MCNoWrapSeqs == {0}

\* rtnl->seq one below the wrap: the next request is numbered 0.
MCWrapSeqs == {MCSeqMod-1}
=============================================================================
