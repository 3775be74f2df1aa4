------------------------------ MODULE ConfLines ------------------------------
(***************************************************************************)
(* The text side of reading a configuration file: iobuf_readcleanline      *)
(* (src/lib/io_buffer.c), the leading-blank and comment skips of           *)
(* conf_if_load and conf_split_line (src/mstpd_conf.c), as pure operators  *)
(* over the buffer, with the reference reading of the file they are        *)
(* checked against.                                                        *)
(*                                                                         *)
(* A buffer is a sequence of bytes; position p of the code (0-based) is    *)
(* element p + 1.  NUL is not among the bytes: conf_split_line stops at    *)
(* the first NUL, and a NUL in a configuration file is not text.           *)
(***************************************************************************)
EXTENDS Integers, Sequences
LOCAL INSTANCE SequencesExt

CONSTANT ArgcMax    \* the 8 of conf_split_line(argv, 8, line), scaled

ASSUME ArgcMax \in Nat \ {0}

LF == "LF"      \* 0x0A
CR == "CR"      \* 0x0D
TAB == "TAB"    \* 0x09
SP == "SP"      \* 0x20
Hash == "#"
NUL == "NUL"

Blank == {TAB, SP}              \* what conf_if_load and conf_split_line skip
Trail == {CR, TAB, SP}          \* what iobuf_readcleanline strips at the end

\* The byte at 0-based position p of a string the code NUL-terminates.
At(s, p) == IF p < Len(s) THEN s[p + 1] ELSE NUL

\* for (; bpos < bsize; bpos++) if (data[bpos] == 0x0A) break;
RECURSIVE ScanLF(_, _)
ScanLF(b, p) ==
  IF p >= Len(b) \/ b[p + 1] = LF THEN p ELSE ScanLF(b, p + 1)

\* Variant of TrimBack that leaves a CR of a CRLF line in place.
RECURSIVE TrimBackNoCR(_, _, _)
TrimBackNoCR(b, bbegin, p) ==
  IF p > bbegin /\ b[p] \in Blank THEN TrimBackNoCR(b, bbegin, p - 1) ELSE p

\* for (; bpos > bbegin; bpos--) if data[bpos - 1] is not CR, TAB, SP: break;
RECURSIVE TrimBack(_, _, _)
TrimBack(b, bbegin, p) ==
  IF p > bbegin /\ b[p] \in Trail THEN TrimBack(b, bbegin, p - 1) ELSE p

\* iobuf_readcleanline(buffer, &begin) at buffer->pos = pos: -1 at the end
\* of the buffer, otherwise the length of the line without its LF and
\* trailing blanks, plus one; pos moves past the LF.
iobuf_readcleanline(b, pos) ==
  IF pos >= Len(b) THEN [ret |-> -1, begin |-> pos, pos |-> pos]
  ELSE LET bpos == ScanLF(b, pos)
       IN [ret |-> TrimBack(b, pos, bpos) - pos + 1,
           begin |-> pos,
           pos |-> IF bpos < Len(b) THEN bpos + 1 ELSE bpos]

\* conf_if_load: for (; len > 0; begin++, len--) if not TAB or SP: break;
RECURSIVE SkipBlank(_, _, _)
SkipBlank(b, begin, len) ==
  IF len > 0 /\ b[begin + 1] \in Blank THEN SkipBlank(b, begin + 1, len - 1)
  ELSE [begin |-> begin, len |-> len]

\* The first position at or after p holding NUL or a blank, and the first
\* at or after p not holding a blank.
RECURSIVE WordEnd(_, _)
WordEnd(l, p) == IF At(l, p) \in Blank \cup {NUL} THEN p ELSE WordEnd(l, p + 1)
RECURSIVE BlanksEnd(_, _)
BlanksEnd(l, p) == IF At(l, p) \in Blank THEN BlanksEnd(l, p + 1) ELSE p

\* conf_split_line(argv, argcMax, line): one iteration per word; argv is
\* the sequence of the words argv[0 .. argc - 1] point to.  line[le] = 0
\* ends each word; it, and the final line[pos + 1] = 0, lie past the words
\* already in argv.
RECURSIVE SplitFrom(_, _, _, _)
SplitFrom(l, argcMax, pos, argv) ==
  IF Len(argv) >= argcMax THEN argv
  ELSE LET le == WordEnd(l, pos)
           next == BlanksEnd(l, le)
           argv2 == IF le - pos > 0 THEN Append(argv, SubSeq(l, pos + 1, le))
                    ELSE argv
       IN IF At(l, next) = NUL THEN argv2 ELSE SplitFrom(l, argcMax, next, argv2)

conf_split_line(l, argcMax) == SplitFrom(l, argcMax, 0, <<>>)

-----------------------------------------------------------------------------
(* Reference: the file read as lines and words, without positions.         *)

\* s cut at every byte of Sep: Split(<<x, Sep, Sep, y>>) = <<<<x>>, <<>>, <<y>>>>.
Split(s, Sep) ==
  FoldLeft(LAMBDA acc, c : IF c \in Sep THEN Append(acc, <<>>)
                           ELSE [acc EXCEPT ![Len(acc)] = Append(@, c)],
           <<<<>>>>, s)

RECURSIVE DropTrail(_)
DropTrail(s) == IF s # <<>> /\ Last(s) \in Trail THEN DropTrail(Front(s)) ELSE s

\* The words of a line: the nonempty runs between blanks.
Words(s) == SelectSeq(Split(DropTrail(s), Blank), LAMBDA w : w # <<>>)

\* Line i of the file (its i-th LF-terminated piece) has a setting when it
\* has a word and its first word does not start with '#'; the option sees
\* at most ArgcMax words.
RefLines(b) ==
  LET pieces == Split(b, {LF})
      ws == [i \in DOMAIN pieces |-> Words(pieces[i])]
      set == SelectSeq([i \in DOMAIN pieces |-> i],
                       LAMBDA i : ws[i] # <<>> /\ ws[i][1][1] # Hash)
  IN [k \in DOMAIN set |->
        <<set[k], SubSeq(ws[set[k]], 1, IF Len(ws[set[k]]) < ArgcMax
                                       THEN Len(ws[set[k]]) ELSE ArgcMax)>>]

=============================================================================
