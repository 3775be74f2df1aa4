------------------------------ MODULE LoadFile ------------------------------
(***************************************************************************)
(* What conf_loadfile (src/mstpd_conf.c) promises its caller,              *)
(* mstpd_conf_load_br / mstpd_conf_load_prt: it either fails (returns -1)  *)
(* and nothing is parsed, or succeeds (returns 0) with the buffer holding  *)
(* the whole file.                                                         *)
(***************************************************************************)
EXTENDS Sequences

VARIABLES
  file,                            \* the file's bytes, fixed by the environment
  lstate,                          \* "loading", "ok" or "failed"
  content                          \* the bytes handed to the parser

Init ==
  /\ lstate = "loading"
  /\ content = <<>>

Succeed ==
  /\ lstate = "loading"
  /\ lstate' = "ok"
  /\ content' = file
  /\ UNCHANGED file

Fail ==
  /\ lstate = "loading"
  /\ lstate' = "failed"
  /\ UNCHANGED <<content, file>>

Spec == Init /\ [][Succeed \/ Fail]_<<lstate, content, file>>

=============================================================================
