------------------------------ MODULE VidsEnc ------------------------------
(***************************************************************************)
(* conf_vids_enc of src/mstpd_conf.c (built with _CONF_TEST, used by        *)
(* conf_br_dump): the VIDs a table maps to one MSTI are written into a     *)
(* buffer of max_len bytes as comma-separated runs "a" or "a-b".  One step *)
(* of the model is one iteration of the encoder's loop over pos.           *)
(*                                                                         *)
(* The text is kept as the sequence of elements it spells; its length in   *)
(* bytes is counted from the decimal digits of the VIDs, and every store   *)
(* is tracked by its offset from the start of the buffer.  The buffer is   *)
(* an uninitialised stack array: when nothing is written its first byte    *)
(* is either NUL or not.                                                   *)
(***************************************************************************)
EXTENDS Integers, Sequences, VidsDec

CONSTANTS
  MstVals,      \* MSTIDs a table entry may hold
  Mstid,        \* the MSTI being encoded
  MaxLen        \* max_len, the size of the output buffer

ASSUME Mstid \in MstVals /\ MaxLen \in Nat \ {0}

VARIABLES
  tbl,          \* vid2mstid (entries 0..MAX_VID are read)
  pos,          \* the loop index
  cnt,          \* runs written
  remLen,       \* rem_len
  ptr,          \* out - (the buffer passed in): the bytes written so far
  top,          \* the highest offset from the buffer stored at, -1 for none
  out,          \* the elements written so far
  done,         \* the function has returned
  ret           \* its return value

vars == <<tbl, pos, cnt, remLen, ptr, top, out, done, ret>>

RECURSIVE Digits(_)
Digits(n) == IF n < 10 THEN 1 ELSE 1 + Digits(n \div 10)

\* The length snprintf reports for "%d" or "%d-%d".
PieceLen(e) == IF e.a = e.b THEN Digits(e.a) ELSE Digits(e.a) + 1 + Digits(e.b)

\* The last VID of the run of t starting at p (the inner while loop).
RECURSIVE RunEnd(_, _, _)
RunEnd(tb, p, t) == IF p + 1 <= MaxVid /\ tb[p + 1] = t THEN RunEnd(tb, p + 1, t) ELSE p

\* A store at offset k from the buffer.
StoreAt(k) == top' = IF k > top THEN k ELSE top

Init ==
  /\ tbl \in [0..MaxVid -> MstVals]
  /\ pos = 0
  /\ cnt = 0
  /\ remLen = MaxLen - 1
  /\ ptr = 0
  /\ top = -1
  /\ out = <<>>
  /\ done = FALSE
  /\ ret = 0

\* vid2mstid[pos] is another tree: next pos.
Skip ==
  /\ ~done /\ pos <= MaxVid /\ tbl[pos] # Mstid
  /\ pos' = pos + 1
  /\ UNCHANGED <<tbl, cnt, remLen, ptr, top, out, done, ret>>

\* A run begins at pos.  After the first run: with rem_len < 1,
\* out[rem_len] = 0 and return -1; otherwise *out = ',', out++, rem_len--.
\* Then snprintf(out, rem_len + 1, ...) stores min(ret, rem_len) bytes and
\* a NUL; if ret >= rem_len, out[max_len - 1] = 0 (out is the advanced
\* pointer) and return -1, else out += ret, rem_len -= ret.
EncRun ==
  /\ ~done /\ pos <= MaxVid /\ tbl[pos] = Mstid
  /\ \E e \in {IF RunEnd(tbl, pos, Mstid) = pos THEN One(pos)
               ELSE Span(pos, RunEnd(tbl, pos, Mstid))} :
     IF cnt > 0 /\ remLen < 1
     THEN /\ StoreAt(ptr + remLen)
          /\ done' = TRUE /\ ret' = -1
          /\ UNCHANGED <<pos, cnt, remLen, ptr, out>>
     ELSE LET p == IF cnt > 0 THEN ptr + 1 ELSE ptr
              rem == IF cnt > 0 THEN remLen - 1 ELSE remLen
              n == PieceLen(e)
              nul == p + (IF n < rem THEN n ELSE rem)
          IN IF n >= rem
             THEN /\ StoreAt(IF nul > p + MaxLen - 1 THEN nul ELSE p + MaxLen - 1)
                  /\ done' = TRUE /\ ret' = -1
                  /\ UNCHANGED <<pos, cnt, remLen, ptr, out>>
             ELSE /\ StoreAt(nul)
                  /\ out' = Append(out, e)
                  /\ ptr' = p + n
                  /\ remLen' = rem - n
                  /\ cnt' = cnt + 1
                  /\ pos' = e.b + 1
                  /\ UNCHANGED <<done, ret>>
  /\ UNCHANGED tbl

\* The loop ends; out[rem_len] = 0 terminates the buffer at its last byte.
\* With no run written, the first byte is the stack's.
Finish ==
  /\ ~done /\ pos > MaxVid
  /\ done' = TRUE /\ ret' = 0
  /\ StoreAt(ptr + remLen)
  /\ IF cnt = 0 THEN out' \in {<<>>, <<Junk>>} ELSE UNCHANGED out
  /\ UNCHANGED <<tbl, pos, cnt, remLen, ptr>>

Next == Skip \/ EncRun \/ Finish

Spec == Init /\ [][Next]_vars

-----------------------------------------------------------------------------
(* Properties                                                              *)

\* Every byte conf_vids_enc stores lies inside the max_len bytes of out:
\* the ',' and snprintf stores, and the NUL of each return path.
WithinBuffer ==
  top <= MaxLen - 1

=============================================================================
