----------------------------- MODULE ConfBridge -----------------------------
(***************************************************************************)
(* Loading of a bridge configuration file, src/mstpd_conf.c:               *)
(* mstpd_conf_load_br reads <confdir>/<br>.conf, conf_if_load feeds every  *)
(* non-blank line to the handler of its option (conf_opts_br), the         *)
(* handlers fill a struct conf_br, and mstpd_conf_apply_br hands the       *)
(* collected set-points to the protocol engine through the MSTP_IN_*       *)
(* calls.  The engine is not part of src/; its entry points used here are  *)
(* modelled from spec.md (4.H, 4.I) and marked so in PROJECT.json.         *)
(*                                                                         *)
(* Data abstraction.  A line is one option with already tokenised          *)
(* arguments; a number is an integer or Invalid (what str_getuint          *)
(* rejects); a `vids` argument is the sequence of elements strtoul         *)
(* extracts from it; the configuration name is kept as its length.         *)
(* MSTIDs are compared for equality only, so an `mstid` line names CIST,   *)
(* an MSTI already listed, the least unused one, or a value above          *)
(* MAX_MSTID: every file is one of these up to renaming of MSTIDs.         *)
(***************************************************************************)
EXTENDS Integers, Sequences, SequencesExt, FiniteSets, VidsDec

CONSTANTS
  Invalid,            \* a token str_getuint / str_getenum rejects
  NotSet,             \* a conf_br field whose _set flag is false
  MaxLines,           \* bound on the number of lines in the file
  Options,            \* option names the file may contain
  MstiIds,            \* MSTIDs an `mstid` line may name (1..N)
  MstidTooBig,        \* an `mstid` value above MAX_MSTID
  ScalarInputs,       \* values written after max-age, hello, ...
  PrioInputs,         \* values written after `prio`
  RevInputs,          \* revision numbers written after `confid`
  NameLenInputs,      \* lengths of names written after `confid`
  VidArgs,            \* values a `vids` argument may decode to
  MaxVidsArgs,        \* arguments on one `vids` line
  MaxMstis,           \* MSTIs the engine accepts besides the CIST
  LineAllocMayFail,   \* realloc of the line buffer may fail
  MstidAllocMayFail,  \* realloc of cbr->mstids may fail
  StaleSlotPrios      \* values an appended entry's unset prio/prio_set may hold

ASSUME MaxLines \in Nat /\ MaxVidsArgs \in Nat \ {0}
ASSUME MstiIds \subseteq 1..4094 /\ MstidTooBig > 4094
ASSUME LineAllocMayFail \in BOOLEAN /\ MstidAllocMayFail \in BOOLEAN
ASSUME StaleSlotPrios \subseteq 0..65535

\* Constants of the code.
MAX_MSTID == 4094
MAX_BR_PRIO == 65535
MAX_CONFIG_REV == 65535
CONFIGURATION_NAME_LEN == 32
MSTID_PAGE_SIZE == 128
SIZEOF_CONF_BR_MSTID == 8          \* { __u16 id; bool set; __u16 prio; bool prio_set; }
ScalarOpts == {"max-age", "forward-delay", "max-hops", "hello", "ageing",
               "tx-hold-count"}
ModeNames == {"stp", "rstp", "mstp"}
DefaultPrio == 32768               \* a tree's priority before configuration

Mstids == {0} \cup MstiIds \cup {MAX_MSTID}

VARIABLES
  pc,          \* "start", "parse", "done" (applied or nothing to do), "failed"
  lines,       \* lines read so far (ctx->line)
  ctxMstid,    \* ctx->mstid: the tree later lines apply to
  cbr,         \* struct conf_br
  br,          \* the engine's bridge: trees, priorities, VID map, CIST config
  textScope,   \* ghost: the MSTID the last valid `mstid` line opened
  wantPrio,    \* ghost: per MSTID, the last priority written in its section
  wantScalar   \* ghost: per option, the last value the file wrote

vars == <<pc, lines, ctxMstid, cbr, br, textScope, wantPrio, wantScalar>>
ghost == <<textScope, wantPrio, wantScalar>>

-----------------------------------------------------------------------------
(* Helpers of mstpd_conf.c                                                 *)

IsNum(v) == v # Invalid

ClampTo(v, max) == IF v > max THEN max ELSE v

\* CONF_FN_OPT_UINTX for the options with a maximum, CONF_FN_OPT_UINT for ageing.
ScalarValue(o, v) == IF o = "ageing" THEN v ELSE ClampTo(v, 255)

\* conf_opt_br_prio: clamp to MAX_BR_PRIO, then round up to units of 4096.
PrioUnits(v) == (ClampTo(v, MAX_BR_PRIO) + 4095) \div 4096

\* The loop of conf_opt_br_vids over the arguments of one line.
RECURSIVE DecodeVidsArgs(_, _, _)
DecodeVidsArgs(tbl, args, t) ==
  IF args = <<>> THEN [tbl |-> tbl, oks |-> <<>>]
  ELSE LET r == conf_vids_dec(tbl, Head(args), t)
           rest == DecodeVidsArgs(r.tbl, Tail(args), t)
       IN [tbl |-> rest.tbl, oks |-> <<r.ok>> \o rest.oks]

IndexOfMstid(ids, v) == CHOOSE i \in DOMAIN ids : ids[i] = v

\* The MSTIDs an `mstid` line may name (see the module comment).
FreshMstids(ids) ==
  LET free == MstiIds \ ToSet(ids)
  IN IF free = {} THEN {} ELSE {CHOOSE m \in free : \A n \in free : m <= n}
\* Whether realloc of cbr->mstids succeeds.
ReallocResults == IF MstidAllocMayFail THEN BOOLEAN ELSE {TRUE}

MstidInputs == {0, MstidTooBig, Invalid} \cup ToSet(cbr.ids) \cup FreshMstids(cbr.ids)

-----------------------------------------------------------------------------
(* Entry points of the protocol engine (not under src/, from spec.md).     *)

\* MSTP_IN_create_msti: the existing tree, a new one, or NULL when full.
MSTP_IN_create_msti(b, t) ==
  IF t \in b.trees THEN [b |-> b, ok |-> TRUE]
  ELSE IF Cardinality(b.trees) - 1 >= MaxMstis THEN [b |-> b, ok |-> FALSE]
  ELSE [b |-> [b EXCEPT !.trees = @ \cup {t}, !.prio = @ @@ (t :> DefaultPrio)],
        ok |-> TRUE]

\* MSTP_IN_set_msti_bridge_config
MSTP_IN_set_msti_bridge_config(b, t, p) == [b EXCEPT !.prio[t] = p]

\* MSTP_IN_set_all_vids2mstids: whole-table swap, refused if a VID names
\* a tree the bridge does not have.
MSTP_IN_set_all_vids2mstids(b, tbl) ==
  IF \A v \in 1..MaxVid : tbl[v] \in b.trees
  THEN [b EXCEPT !.vids = [v \in 1..MaxVid |-> tbl[v]]]
  ELSE b

\* MSTP_IN_set_cist_bridge_config and MSTP_IN_set_mst_config_id: only the
\* fields whose set flag is true are written.
MSTP_IN_set_cist_bridge_config(b, c) ==
  [b EXCEPT !.cist = [o \in DOMAIN @ |-> IF c[o] # NotSet THEN c[o] ELSE @[o]]]
MSTP_IN_set_mst_config_id(b, c) == [b EXCEPT !.confid = c]

-----------------------------------------------------------------------------
(* The load                                                                *)

EmptyConf ==
  [mode |-> NotSet, scalar |-> [o \in ScalarOpts |-> NotSet], confid |-> NotSet,
   prio |-> NotSet, ids |-> <<>>, idPrio |-> <<>>, sz |-> 0,
   vids |-> [v \in Vids |-> 0], vidsSet |-> FALSE]

InitBridge ==
  [trees |-> {0}, prio |-> (0 :> DefaultPrio), vids |-> [v \in 1..MaxVid |-> 0],
   cist |-> [o \in ScalarOpts \cup {"mode"} |-> NotSet], confid |-> NotSet]

Init ==
  /\ pc = "start"
  /\ lines = 0
  /\ ctxMstid = 0                  \* ctx.mstid = 0 before conf_if_load
  /\ cbr = EmptyConf               \* conf_br_init
  /\ br = InitBridge
  /\ textScope = 0
  /\ wantPrio = [t \in Mstids |-> NotSet]
  /\ wantScalar = [o \in ScalarOpts \cup {"mode"} |-> NotSet]

\* mstpd_conf_load_br up to conf_if_load: a missing file is success with
\* nothing to apply, a file that cannot be read is failure.
Start ==
  /\ pc = "start"
  /\ \/ pc' = "done"               \* access() fails: "Missing config file"
     \/ pc' = "failed"             \* conf_loadfile fails
     \/ pc' = "parse"
  /\ UNCHANGED <<lines, ctxMstid, cbr, br, ghost>>

\* A line read by conf_if_load; `body` is the handler's effect.
ReadLine == /\ pc = "parse" /\ lines < MaxLines /\ lines' = lines + 1

\* The line buffer has to grow and realloc fails: conf_if_load stops with -2.
LineAllocFail ==
  /\ LineAllocMayFail
  /\ ReadLine
  /\ pc' = "failed"
  /\ UNCHANGED <<ctxMstid, cbr, br, ghost>>

\* Unknown option, or an argument count outside [argc_min, argc_max]:
\* an error is logged and the line skipped.
LineRejected ==
  /\ ReadLine
  /\ UNCHANGED <<pc, ctxMstid, cbr, br, textScope, wantPrio, wantScalar>>

\* conf_opt_br_mode
ConfMode(v) ==
  /\ "mode" \in Options
  /\ ReadLine
  /\ IF v \in ModeNames
     THEN /\ cbr' = [cbr EXCEPT !.mode = v]
          /\ wantScalar' = [wantScalar EXCEPT !["mode"] = v]
     ELSE UNCHANGED <<cbr, wantScalar>>
  /\ UNCHANGED <<pc, ctxMstid, br, textScope, wantPrio>>

\* conf_opt_br_max_age ... conf_opt_br_tx_hold_count (CONF_FN_OPT_UINTX)
\* and conf_opt_br_ageing (CONF_FN_OPT_UINT)
ConfScalar(o, v) ==
  /\ o \in Options
  /\ ReadLine
  /\ IF IsNum(v)
     THEN /\ cbr' = [cbr EXCEPT !.scalar[o] = ScalarValue(o, v)]
          /\ wantScalar' = [wantScalar EXCEPT ![o] = ScalarValue(o, v)]
     ELSE UNCHANGED <<cbr, wantScalar>>
  /\ UNCHANGED <<pc, ctxMstid, br, textScope, wantPrio>>

\* conf_opt_br_confid: revision clamped, name truncated to 31 characters.
ConfConfid(rev, nlen) ==
  /\ "confid" \in Options
  /\ ReadLine
  /\ IF IsNum(rev)
     THEN cbr' = [cbr EXCEPT !.confid = [rev |-> ClampTo(rev, MAX_CONFIG_REV),
                                         len |-> ClampTo(nlen, CONFIGURATION_NAME_LEN - 1)]]
     ELSE UNCHANGED cbr
  /\ UNCHANGED <<pc, ctxMstid, br, textScope, wantPrio, wantScalar>>

\* conf_opt_br_mstid: select CIST, re-select a listed MSTI, or append a new
\* one, growing cbr->mstids to a multiple of MSTID_PAGE_SIZE when
\* (mstids_cnt + 1) * sizeof(struct conf_br_mstid) > mstids_sz.
MstidGrowSize(cnt) == ((cnt + 1 + MSTID_PAGE_SIZE - 1) \div MSTID_PAGE_SIZE) * MSTID_PAGE_SIZE

\* Variants of conf_opt_br_mstid with a slip: a re-selected MSTI does not
\* become ctx->mstid; the appended entry gets no prio slot.
ConfMstidKeepScope(v, allocOk, stale) ==
  /\ "mstid" \in Options
  /\ ReadLine
  /\ LET m == ClampTo(v, MAX_MSTID)
         cnt == Len(cbr.ids)
         grow == (cnt + 1) * SIZEOF_CONF_BR_MSTID > cbr.sz
     IN IF ~IsNum(v)
        THEN UNCHANGED <<ctxMstid, cbr, textScope>>
        ELSE /\ textScope' = m
             /\ \/ /\ m = 0
                   /\ ctxMstid' = 0
                   /\ UNCHANGED cbr
                \/ /\ m # 0 /\ m \in ToSet(cbr.ids)
                   /\ UNCHANGED <<ctxMstid, cbr>>
                \/ /\ m # 0 /\ m \notin ToSet(cbr.ids)
                   /\ IF grow /\ ~allocOk
                      THEN UNCHANGED <<ctxMstid, cbr>>   \* realloc fails: return -1
                      \* only id and set are written: prio_set and prio of
                      \* the new entry are whatever the realloc'ed memory held
                      ELSE /\ cbr' = [cbr EXCEPT !.ids = Append(@, m),
                                              !.idPrio = Append(@, stale),
                                              !.sz = IF grow THEN MstidGrowSize(cnt) ELSE @]
                           /\ ctxMstid' = m
  /\ UNCHANGED <<pc, br, wantPrio, wantScalar>>

ConfMstidNoPrioSlot(v, allocOk, stale) ==
  /\ "mstid" \in Options
  /\ ReadLine
  /\ LET m == ClampTo(v, MAX_MSTID)
         cnt == Len(cbr.ids)
         grow == (cnt + 1) * SIZEOF_CONF_BR_MSTID > cbr.sz
     IN IF ~IsNum(v)
        THEN UNCHANGED <<ctxMstid, cbr, textScope>>
        ELSE /\ textScope' = m
             /\ \/ /\ m = 0
                   /\ ctxMstid' = 0
                   /\ UNCHANGED cbr
                \/ /\ m # 0 /\ m \in ToSet(cbr.ids)
                   /\ ctxMstid' = m
                   /\ UNCHANGED cbr
                \/ /\ m # 0 /\ m \notin ToSet(cbr.ids)
                   /\ IF grow /\ ~allocOk
                      THEN UNCHANGED <<ctxMstid, cbr>>   \* realloc fails: return -1
                      \* only id and set are written: prio_set and prio of
                      \* the new entry are whatever the realloc'ed memory held
                      ELSE /\ cbr' = [cbr EXCEPT !.ids = Append(@, m),
                                              !.sz = IF grow THEN MstidGrowSize(cnt) ELSE @]
                           /\ ctxMstid' = m
  /\ UNCHANGED <<pc, br, wantPrio, wantScalar>>

ConfMstid(v, allocOk, stale) ==
  /\ "mstid" \in Options
  /\ ReadLine
  /\ LET m == ClampTo(v, MAX_MSTID)
         cnt == Len(cbr.ids)
         grow == (cnt + 1) * SIZEOF_CONF_BR_MSTID > cbr.sz
     IN IF ~IsNum(v)
        THEN UNCHANGED <<ctxMstid, cbr, textScope>>
        ELSE /\ textScope' = m
             /\ \/ /\ m = 0
                   /\ ctxMstid' = 0
                   /\ UNCHANGED cbr
                \/ /\ m # 0 /\ m \in ToSet(cbr.ids)
                   /\ ctxMstid' = m
                   /\ UNCHANGED cbr
                \/ /\ m # 0 /\ m \notin ToSet(cbr.ids)
                   /\ IF grow /\ ~allocOk
                      THEN UNCHANGED <<ctxMstid, cbr>>   \* realloc fails: return -1
                      \* only id and set are written: prio_set and prio of
                      \* the new entry are whatever the realloc'ed memory held
                      ELSE /\ cbr' = [cbr EXCEPT !.ids = Append(@, m),
                                              !.idPrio = Append(@, stale),
                                              !.sz = IF grow THEN MstidGrowSize(cnt) ELSE @]
                           /\ ctxMstid' = m
  /\ UNCHANGED <<pc, br, wantPrio, wantScalar>>

\* conf_opt_br_prio: the priority goes to the CIST or to the selected MSTI.
ConfPrio(v) ==
  /\ "prio" \in Options
  /\ ReadLine
  /\ IF ~IsNum(v)
     THEN UNCHANGED <<cbr, wantPrio>>
     ELSE /\ wantPrio' = [wantPrio EXCEPT ![textScope] = PrioUnits(v)]
          /\ IF ctxMstid = 0
             THEN cbr' = [cbr EXCEPT !.prio = PrioUnits(v)]
             ELSE cbr' = [cbr EXCEPT !.idPrio[IndexOfMstid(cbr.ids, ctxMstid)] = PrioUnits(v)]
  /\ UNCHANGED <<pc, ctxMstid, br, textScope, wantScalar>>

\* conf_opt_br_vids: every argument is decoded into vid2mstid for the
\* selected MSTI; a successful one sets vid2mstid_set.  Ignored for CIST.
ConfVids(args) ==
  /\ "vids" \in Options
  /\ ReadLine
  /\ IF ctxMstid = 0
     THEN UNCHANGED cbr
     ELSE LET r == DecodeVidsArgs(cbr.vids, args, ctxMstid)
          IN cbr' = [cbr EXCEPT !.vids = r.tbl,
                                !.vidsSet = @ \/ \E i \in DOMAIN r.oks : r.oks[i]]
  /\ UNCHANGED <<pc, ctxMstid, br, textScope, wantPrio, wantScalar>>

\* End of file: conf_if_load returns 0 and mstpd_conf_apply_br runs, in
\* its order: CIST bridge config, MST config id, CIST priority, each MSTI
\* created (and its priority set), then the whole VID table.
CreateStep(b, i) ==
  LET r == MSTP_IN_create_msti(b, cbr.ids[i])
  IN IF r.ok /\ cbr.idPrio[i] # NotSet
     THEN MSTP_IN_set_msti_bridge_config(r.b, cbr.ids[i], cbr.idPrio[i] * 4096)
     ELSE r.b

\* Variant of mstpd_conf_apply_br where only mode_set sets ccfg_apply.
ApplyBrModeOnly ==
  LET c == [o \in ScalarOpts \cup {"mode"} |->
              IF o = "mode" THEN cbr.mode ELSE cbr.scalar[o]]
      b1 == IF c["mode"] # NotSet
            THEN MSTP_IN_set_cist_bridge_config(br, c) ELSE br
      b2 == IF cbr.confid # NotSet THEN MSTP_IN_set_mst_config_id(b1, cbr.confid) ELSE b1
      b3 == IF cbr.prio # NotSet THEN MSTP_IN_set_msti_bridge_config(b2, 0, cbr.prio * 4096)
            ELSE b2
      b4 == FoldLeft(CreateStep, b3, [i \in DOMAIN cbr.ids |-> i])
  IN IF cbr.vidsSet THEN MSTP_IN_set_all_vids2mstids(b4, cbr.vids) ELSE b4

mstpd_conf_apply_br ==
  LET c == [o \in ScalarOpts \cup {"mode"} |->
              IF o = "mode" THEN cbr.mode ELSE cbr.scalar[o]]
      b1 == IF \E o \in DOMAIN c : c[o] # NotSet
            THEN MSTP_IN_set_cist_bridge_config(br, c) ELSE br
      b2 == IF cbr.confid # NotSet THEN MSTP_IN_set_mst_config_id(b1, cbr.confid) ELSE b1
      b3 == IF cbr.prio # NotSet THEN MSTP_IN_set_msti_bridge_config(b2, 0, cbr.prio * 4096)
            ELSE b2
      b4 == FoldLeft(CreateStep, b3, [i \in DOMAIN cbr.ids |-> i])
  IN IF cbr.vidsSet THEN MSTP_IN_set_all_vids2mstids(b4, cbr.vids) ELSE b4

Apply ==
  /\ pc = "parse"
  /\ pc' = "done"
  /\ br' = mstpd_conf_apply_br
  /\ UNCHANGED <<lines, ctxMstid, cbr, ghost>>

Next ==
  \/ Start
  \/ LineAllocFail
  \/ LineRejected
  \/ \E v \in ModeNames \cup {Invalid} : ConfMode(v)
  \/ \E o \in ScalarOpts, v \in ScalarInputs \cup {Invalid} : ConfScalar(o, v)
  \/ \E rev \in RevInputs \cup {Invalid}, n \in NameLenInputs : ConfConfid(rev, n)
  \/ \E v \in MstidInputs, ok \in ReallocResults, stale \in {NotSet} \cup StaleSlotPrios :
       ConfMstid(v, ok, stale)
  \/ \E v \in PrioInputs \cup {Invalid} : ConfPrio(v)
  \/ \E n \in 1..MaxVidsArgs : \E args \in [1..n -> VidArgs] : ConfVids(args)
  \/ Apply

Spec == Init /\ [][Next]_vars

-----------------------------------------------------------------------------
(* Properties                                                              *)

TypeOK ==
  /\ pc \in {"start", "parse", "done", "failed"}
  /\ lines \in 0..MaxLines
  /\ ctxMstid \in Mstids
  /\ cbr.ids \in Seq(Mstids \ {0}) /\ Len(cbr.idPrio) = Len(cbr.ids)
  /\ cbr.sz \in Nat /\ cbr.vids \in [Vids -> Mstids] /\ cbr.vidsSet \in BOOLEAN
  /\ 0 \in br.trees /\ br.trees \subseteq Mstids /\ DOMAIN br.prio = br.trees
  /\ br.vids \in [1..MaxVid -> Mstids]

\* A `prio` line sets the priority of the tree whose `mstid` section it is
\* written in (CIST before any `mstid` line or after `mstid 0`), and a tree
\* no `prio` line names keeps its priority: conf_opt_br_mstid's selection
\* of ctx->mstid, conf_opt_br_prio and the creation loop of
\* mstpd_conf_apply_br together.
ScopedPriority ==
  pc = "done" =>
    \A t \in br.trees :
      br.prio[t] = IF wantPrio[t] = NotSet THEN DefaultPrio ELSE wantPrio[t] * 4096

\* After a load, the bridge-wide set-points (mode, max-age, ..., ageing)
\* are the last value the file wrote for each, clamped, and the others are
\* untouched: the _set flags of struct conf_br and mstpd_conf_apply_br.
SetPointsAsWritten ==
  pc = "done" => br.cist = wantScalar

\* Every MSTI appended to cbr->mstids lies inside the memory realloc gave
\* it (conf_opt_br_mstid).
MstidsFitAllocation ==
  Len(cbr.ids) * SIZEOF_CONF_BR_MSTID <= cbr.sz

=============================================================================
