------------------------------ MODULE IoBuffer ------------------------------
(***************************************************************************)
(* conf_loadfile (src/mstpd_conf.c) reading a configuration file through   *)
(* iobuf_read_from_fd and iobuf_resize (src/lib/io_buffer.c).  One step    *)
(* is one iteration of the read loop: grow the buffer when less than       *)
(* MinFree bytes are free, then read(fd, buffer->data, bfree).             *)
(*                                                                         *)
(* Bytes are bytes; the code's sizes are scaled down keeping their ratio   *)
(* (IO_PAGE_SIZE 4096, free minimum 1024, growth 4096 become 4, 1, 4).     *)
(* size_t arithmetic is modulo SizeMod: the cases that matter lie next to  *)
(* 0 and to cap, far below the modulus.                                    *)
(***************************************************************************)
EXTENDS ConfLines

CONSTANTS
  Files,           \* files the path may hold: sequences of distinct bytes
  IO_PAGE_SIZE,    \* IO_PAGE_SIZE, scaled
  MinFree,         \* the 1024 of "bfree < 1024", scaled
  Grow,            \* the 4096 of "buffer->cap + 4096", scaled
  SizeMod,         \* 2^(bits of size_t) of the model
  OpenMayFail,     \* open() may fail
  AllocMayFail,    \* realloc may fail
  ReadErrors       \* "none", "transient" (EINTR, EIO once) or "persistent" (EISDIR)

ASSUME /\ IO_PAGE_SIZE \in Nat \ {0} /\ MinFree \in Nat /\ Grow \in Nat \ {0}
       /\ \A f \in Files : SizeMod > 4 * (Len(f) + Grow + IO_PAGE_SIZE)
       /\ ReadErrors \in {"none", "transient", "persistent"}

ENOMEM == 12
DataMax == LET L == {Len(f) : f \in Files}      \* bytes the model's heap can hold
           IN (CHOOSE n \in L : \A m \in L : m <= n) + Grow + IO_PAGE_SIZE
Unset == "unset"                                \* a byte realloc did not initialise

VARIABLES
  file,     \* the file read (fixed for the whole load)
  pc,       \* "open", "loop" or "done"
  size,     \* buffer->size
  cap,      \* buffer->cap
  data,     \* buffer->data[0 .. DataMax - 1]
  fpos,     \* the file offset of fd
  errs,     \* read errors returned so far
  ret,      \* iobuf_read_from_fd's return value
  loadRet,  \* conf_loadfile's return value
  pos,      \* buffer->pos, where iobuf_readcleanline resumes
  line,     \* ctx->line, the number of the line conf_if_load reads next
  parsed,   \* <<ctx->line, argv>> of every line handed to conf_opt_get
  pend      \* conf_if_load's line loop has ended

parseVars == <<pos, line, parsed, pend>>
vars == <<file, pc, size, cap, data, fpos, errs, ret, loadRet, pos, line, parsed, pend>>

SizeT(n) == n % SizeMod

\* iobuf_resize(buffer, new_size): no growth when size >= new_size,
\* otherwise new_size rounded up to IO_PAGE_SIZE.
NewCap(c, s, newSize) ==
  IF s >= newSize THEN c
  ELSE ((newSize + IO_PAGE_SIZE - 1) \div IO_PAGE_SIZE) * IO_PAGE_SIZE

\* The capacity after the growth test of one iteration.
LoopCap == IF SizeT(cap - size) < MinFree THEN NewCap(cap, size, cap + Grow) ELSE cap
Bfree == SizeT(LoopCap - size)
NeedsGrow == SizeT(cap - size) < MinFree /\ LoopCap # cap

\* conf_loadfile: open(filename, 0, O_RDONLY)
Open ==
  /\ pc = "open"
  /\ \/ /\ OpenMayFail
        /\ pc' = "done" /\ loadRet' = -1
        /\ UNCHANGED ret
     \/ pc' = "loop" /\ UNCHANGED <<loadRet, ret>>
  /\ UNCHANGED <<file, size, cap, data, fpos, errs>>
  /\ UNCHANGED parseVars

\* The growth fails: iobuf_read_from_fd returns ENOMEM, which is >= 0,
\* so conf_loadfile returns 0.
GrowFail ==
  /\ pc = "loop" /\ AllocMayFail /\ NeedsGrow
  /\ pc' = "done" /\ ret' = ENOMEM
  /\ loadRet' = IF ENOMEM < 0 THEN -1 ELSE 0
  /\ UNCHANGED <<file, size, cap, data, fpos, errs>>
  /\ UNCHANGED parseVars

\* What one read(fd, buffer->data, bfree) returns: a byte count, 0 at end
\* of file, or -1 (SizeMod - 1 once stored in the size_t rd).
ReadResults ==
  LET avail == Len(file) - fpos
      count == IF Bfree < avail THEN Bfree ELSE avail
  IN (IF ReadErrors = "persistent" THEN {} ELSE {count})
     \cup (IF ReadErrors = "persistent" \/ (ReadErrors = "transient" /\ errs = 0)
           THEN {-1} ELSE {})

\* Variant of Read where iobuf_resize does not store the new capacity.
ReadNoCap(rd) ==
  /\ pc = "loop" /\ rd # 0
  /\ data' = [i \in DOMAIN data |-> IF rd > 0 /\ i < rd THEN file[fpos + i + 1] ELSE data[i]]
  /\ size' = SizeT(size + rd)
  /\ fpos' = IF rd > 0 THEN fpos + rd ELSE fpos
  /\ errs' = IF rd < 0 THEN errs + 1 ELSE errs
  /\ UNCHANGED <<file, cap, pc, ret, loadRet>>
  /\ UNCHANGED parseVars

\* read() returns rd # 0, stored in the size_t rd: rd > 0 holds, the bytes
\* (none for -1) land at buffer->data[0 ..] and size += rd.
Read(rd) ==
  /\ pc = "loop" /\ rd # 0
  /\ data' = [i \in DOMAIN data |-> IF rd > 0 /\ i < rd THEN file[fpos + i + 1] ELSE data[i]]
  /\ size' = SizeT(size + rd)
  /\ fpos' = IF rd > 0 THEN fpos + rd ELSE fpos
  /\ errs' = IF rd < 0 THEN errs + 1 ELSE errs
  /\ cap' = LoopCap
  /\ UNCHANGED <<file, pc, ret, loadRet>>
  /\ UNCHANGED parseVars

\* Variant of ReadEof without the break.
ReadEofNoBreak ==
  /\ pc = "loop"
  /\ 0 \in ReadResults
  /\ cap' = LoopCap
  /\ UNCHANGED <<file, pc, ret, loadRet, size, data, fpos, errs>>
  /\ UNCHANGED parseVars

\* read() returns 0 at end of file (or when asked for 0 bytes): break.
ReadEof ==
  /\ pc = "loop"
  /\ 0 \in ReadResults
  /\ cap' = LoopCap
  /\ pc' = "done" /\ ret' = 0 /\ loadRet' = 0
  /\ UNCHANGED <<file, size, data, fpos, errs>>
  /\ UNCHANGED parseVars

-----------------------------------------------------------------------------
(* conf_if_load's line loop over the loaded buffer (src/mstpd_conf.c),     *)
(* one step per iteration.  The realloc of the line copy and the option    *)
(* dispatch of an iteration are modelled in ConfBridge; here an iteration  *)
(* ends with the argv conf_opt_get and the option see.                     *)

\* The bytes conf_if_load reads, buffer->data[0 .. size - 1].
Buffered == IF size <= DataMax THEN [i \in 1..size |-> data[i - 1]] ELSE <<>>

\* mstpd_conf_load_br/prt call conf_if_load after conf_loadfile returned 0.
\* A buffer with bytes realloc left uninitialised (the overwrite of
\* iobuf_read_from_fd, run io_large) is not read: what it holds is
\* indeterminate.
ParseReady ==
  /\ pc = "done" /\ loadRet = 0 /\ size <= DataMax
  /\ \A i \in 1..size : data[i - 1] # Unset

\* One iteration: iobuf_readcleanline returns len >= 1 (pos < size); len--
\* and skip leading blanks; an empty line or a comment is skipped
\* (continue), any other is copied and split into at most ArgcMax words;
\* ctx->line++.  (r and s are bound with \E over a singleton so that TLC
\* computes them once.)
ParseLine ==
  /\ ParseReady /\ ~pend
  /\ pos < size
  /\ \E r \in {iobuf_readcleanline(Buffered, pos)} :
     \E s \in {SkipBlank(Buffered, r.begin, r.ret - 1)} :
        /\ pos' = r.pos
        /\ parsed' =
             IF s.len = 0 \/ Buffered[s.begin + 1] = Hash THEN parsed
             ELSE LET text == SubSeq(Buffered, s.begin + 1, s.begin + s.len)
                  IN Append(parsed, <<line, conf_split_line(text, ArgcMax)>>)
  /\ line' = line + 1
  /\ UNCHANGED <<pend, file, pc, size, cap, data, fpos, errs, ret, loadRet>>

\* iobuf_readcleanline returns -1 at the end of the buffer: break.
ParseEnd ==
  /\ ParseReady /\ ~pend
  /\ iobuf_readcleanline(Buffered, pos).ret < 1
  /\ pend' = TRUE
  /\ UNCHANGED <<pos, line, parsed, file, pc, size, cap, data, fpos, errs, ret, loadRet>>

Init ==
  /\ file \in Files
  /\ pc = "open"
  /\ size = 0 /\ cap = 0
  /\ data = [i \in 0..DataMax - 1 |-> Unset]
  /\ fpos = 0 /\ errs = 0
  /\ ret = 0 /\ loadRet = 0
  /\ pos = 0 /\ line = 1 /\ parsed = <<>> /\ pend = FALSE

Next == Open \/ GrowFail \/ (\E rd \in ReadResults : Read(rd)) \/ ReadEof
        \/ ParseLine \/ ParseEnd

\* iobuf_read_from_fd and conf_if_load are sequential loops.
Spec == Init /\ [][Next]_vars /\ WF_vars(Next)

-----------------------------------------------------------------------------
(* Properties                                                              *)

\* The bytes the buffer claims to hold lie inside the allocation, so the
\* next read(fd, buffer->data, cap - size) stays inside it too.
SizeWithinCap ==
  size <= cap

\* iobuf_read_from_fd returns, and so does conf_loadfile; when it returns 0
\* conf_if_load's line loop reaches the end of the buffer.
Terminates ==
  <>(pc = "done" /\ (ParseReady => pend))

\* When conf_if_load's loop has ended, the options were handed exactly the
\* file's settings in order: each line with a word, not a '#' comment, is
\* seen once, under its own line number, with its words cut at blanks and
\* without a CR of a CRLF line end, the first ArgcMax of them.
LinesAsWritten ==
  pend => parsed = RefLines(Buffered)

\* conf_loadfile implements LoadFile: when it returns 0 the buffer
\* parsed by conf_if_load, Buffered, is the file.
Load == INSTANCE LoadFile WITH
        lstate <- IF pc # "done" THEN "loading"
                  ELSE IF loadRet = 0 THEN "ok" ELSE "failed",
        content <- IF pc = "done" /\ loadRet = 0 THEN Buffered ELSE <<>>
LoadsWholeFile == Load!Spec

=============================================================================
