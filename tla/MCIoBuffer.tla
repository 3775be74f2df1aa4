------------------------------ MODULE MCIoBuffer ------------------------------
(* Instantiation of IoBuffer for TLC.                                      *)
EXTENDS IoBuffer

\* Files of 0 to 13 bytes: empty, within one page, and over several pages.
MCBytes == <<"a", "b", "c", "d", "e", "f", "g", "h", "i", "j", "k", "l", "m">>
MCFiles == {SubSeq(MCBytes, 1, n) : n \in 0..13}

\* Files that fit in the first read.
MCSmallFiles == {SubSeq(MCBytes, 1, n) : n \in 0..4}

\* Configuration text: every file of 0 to MCTextLen bytes over a word
\* byte, '#', the blank SP, CR and LF.  TAB is left out: the code treats
\* it as SP in every test it takes part in.
MCTextLen == 6
MCText == {"a", Hash, SP, CR, LF}
MCTextFiles == UNION {[1..n -> MCText] : n \in 0..MCTextLen}

MCRegularFiles == MCFiles \cup MCTextFiles
=============================================================================
