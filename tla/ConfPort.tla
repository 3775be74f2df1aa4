------------------------------ MODULE ConfPort ------------------------------
(***************************************************************************)
(* Loading of a port configuration file, src/mstpd_conf.c:                 *)
(* mstpd_conf_load_prt reads <confdir>/<br>/<port>.conf,                   *)
(* mstpd_conf_prepare_prt lists the bridge's MSTIs in cprt->mstids,        *)
(* conf_if_load feeds each line to its handler (conf_opts_prt), and        *)
(* mstpd_conf_apply_prt hands the set-points to the engine through         *)
(* MSTP_IN_set_cist_port_config and MSTP_IN_set_msti_port_config (from     *)
(* spec.md 4.I, not under src/).                                           *)
(*                                                                         *)
(* Unlike the bridge file, an `mstid` line never adds an entry: it selects *)
(* one of the bridge's trees, or a tree the bridge lacks, after which the  *)
(* per-tree options of the section are refused.  Data is abstracted as in  *)
(* ConfBridge: numbers are integers or Invalid, MSTIDs are compared only.  *)
(***************************************************************************)
EXTENDS Integers, Sequences, SequencesExt, FiniteSets

CONSTANTS
  Invalid,            \* a token str_getuint / str_getyesno rejects
  NotSet,             \* a conf_prt field whose _set flag is false
  MaxLines,           \* bound on the number of lines in the file
  Options,            \* option names the file may contain
  BrTrees,            \* the bridge's MSTIs, in the order of br->trees
  MstiIds,            \* MSTIDs an `mstid` line may name
  MstidTooBig,        \* an `mstid` value above MAX_MSTID
  PrioInputs,         \* values written after `prio`
  CostInputs,         \* values written after `int-cost` and `ext-cost`
  LineAllocMayFail,   \* realloc of the line buffer may fail
  AddMayFail          \* realloc in conf_prt_add_mstid may fail

ASSUME MaxLines \in Nat /\ BrTrees \in Seq(1..4094) /\ IsInjective(BrTrees)
ASSUME MstiIds \subseteq 1..4094 /\ MstidTooBig > 4094
ASSUME LineAllocMayFail \in BOOLEAN /\ AddMayFail \in BOOLEAN

\* Constants of the code.
MAX_MSTID == 4094
MAX_PRT_PRIO == 240
MAX_COST == 210000000
MSTID_PAGE_SIZE == 128
SIZEOF_CONF_PRT_MSTID == 16   \* { __u16 id; bool set; __u16 prio; bool prio_set; __u32 int_cost; bool int_cost_set; }
YesNoOpts == {"admin-edge", "auto-edge", "rest-role", "rest-tcn", "bpdu-guard",
              "network", "dont-txmt", "bpdu-filter"}
CistOpts == YesNoOpts \cup {"p2p", "ext-cost"}
\* conf_opt_yesnoauto mapped through vals[] of conf_opt_prt_p2p
P2pValue == [no |-> "p2pForceFalse", yes |-> "p2pForceTrue", auto |-> "p2pAuto"]
DefaultPortPrio == 128        \* a tree port's priority before configuration
DefaultCost == 0              \* admin path cost 0: computed from the speed

Trees == {0} \cup ToSet(BrTrees)

VARIABLES
  pc,          \* "start", "parse", "done" (applied or nothing to do), "failed"
  lines,       \* lines read so far
  ctxMstid,    \* ctx->mstid
  cprt,        \* struct conf_prt
  port,        \* the engine's port: CIST set-points, per-tree priority and cost
  textScope,   \* ghost: the MSTID the last valid `mstid` line names
  wantTree,    \* ghost: per MSTID, the last prio / int-cost written in its section
  wantCist     \* ghost: per CIST option, the last value written

vars == <<pc, lines, ctxMstid, cprt, port, textScope, wantTree, wantCist>>
ghost == <<textScope, wantTree, wantCist>>

-----------------------------------------------------------------------------
(* Helpers of mstpd_conf.c                                                 *)

IsNum(v) == v # Invalid
ClampTo(v, max) == IF v > max THEN max ELSE v

\* Variant of PrioUnits without the clamp.
PrioUnitsNoClamp(v) == (v + 15) \div 16

\* conf_opt_prt_prio: clamp to MAX_PRT_PRIO, then round up to units of 16.
PrioUnits(v) == (ClampTo(v, MAX_PRT_PRIO) + 15) \div 16

MstidGrowSize(cnt) == ((cnt + 1 + MSTID_PAGE_SIZE - 1) \div MSTID_PAGE_SIZE) * MSTID_PAGE_SIZE

EntryOf(c, m) == {i \in DOMAIN c.ids : c.ids[i].id = m}

\* conf_prt_add_mstid(cprt, mstid) when realloc, if needed, returns allocOk.
conf_prt_add_mstid(c, m, allocOk) ==
  LET cnt == Len(c.ids)
      grow == (cnt + 1) * SIZEOF_CONF_PRT_MSTID > c.sz
  IN IF m = 0 \/ EntryOf(c, m) # {} \/ (grow /\ ~allocOk)
     THEN c
     ELSE [c EXCEPT !.ids = Append(@, [id |-> m, set |-> FALSE,
                                        prio |-> NotSet, cost |-> NotSet]),
                    !.sz = IF grow THEN MstidGrowSize(cnt) ELSE @]

\* mstpd_conf_prepare_prt: one conf_prt_add_mstid per tree of the bridge;
\* a failure (-2) is ignored and the tree is left out.
mstpd_conf_prepare_prt(c, oks) ==
  FoldLeft(LAMBDA acc, i : conf_prt_add_mstid(acc, BrTrees[i], oks[i]),
           c, [i \in DOMAIN BrTrees |-> i])

AddResults == IF AddMayFail THEN BOOLEAN ELSE {TRUE}

MstidInputs == {0, MstidTooBig, Invalid} \cup MstiIds

-----------------------------------------------------------------------------
(* Entry points of the protocol engine (not under src/, from spec.md).     *)

\* MSTP_IN_set_cist_port_config: only the fields whose set flag is true.
MSTP_IN_set_cist_port_config(p, c) ==
  [p EXCEPT !.cist = [o \in CistOpts |-> IF c[o] # NotSet THEN c[o] ELSE @[o]]]

\* MSTP_IN_set_msti_port_config on the per-tree port of tree t.
MSTP_IN_set_msti_port_config(p, t, prio, cost) ==
  [p EXCEPT !.prio[t] = IF prio # NotSet THEN prio ELSE @,
            !.cost[t] = IF cost # NotSet THEN cost ELSE @]

-----------------------------------------------------------------------------
(* The load                                                                *)

EmptyConf ==
  [cist |-> [o \in CistOpts |-> NotSet], prio |-> NotSet, cost |-> NotSet,
   ids |-> <<>>, sz |-> 0]

Init ==
  /\ pc = "start"
  /\ lines = 0
  /\ ctxMstid = 0
  /\ cprt = EmptyConf              \* conf_prt_init
  /\ port = [cist |-> [o \in CistOpts |-> NotSet],
             prio |-> [t \in Trees |-> DefaultPortPrio],
             cost |-> [t \in Trees |-> DefaultCost]]
  /\ textScope = 0
  /\ wantTree = [t \in {0} \cup MstiIds \cup {MAX_MSTID} |-> [prio |-> NotSet, cost |-> NotSet]]
  /\ wantCist = [o \in CistOpts |-> NotSet]

\* mstpd_conf_load_prt up to conf_if_load: a missing file is success with
\* nothing to apply, a file that cannot be read is failure; otherwise the
\* bridge's trees are listed before the first line is parsed.
Start(oks) ==
  /\ pc = "start"
  /\ \/ pc' = "done" /\ UNCHANGED cprt
     \/ pc' = "failed" /\ UNCHANGED cprt
     \/ pc' = "parse" /\ cprt' = mstpd_conf_prepare_prt(cprt, oks)
  /\ UNCHANGED <<lines, ctxMstid, port, ghost>>

ReadLine == /\ pc = "parse" /\ lines < MaxLines /\ lines' = lines + 1

\* conf_if_load: realloc of the line buffer fails, the load returns -2.
LineAllocFail ==
  /\ LineAllocMayFail
  /\ ReadLine
  /\ pc' = "failed"
  /\ UNCHANGED <<ctxMstid, cprt, port, ghost>>

\* Unknown option or wrong argument count: logged and skipped.
LineRejected ==
  /\ ReadLine
  /\ UNCHANGED <<pc, ctxMstid, cprt, port, ghost>>

\* CONF_FN_OPT_YESNO handlers and conf_opt_prt_p2p.
ConfFlag(o, v) ==
  /\ o \in Options \cap (YesNoOpts \cup {"p2p"})
  /\ ReadLine
  /\ LET val == IF o = "p2p" THEN P2pValue[v] ELSE v = "yes"
     IN IF v = "yes" \/ v = "no" \/ (o = "p2p" /\ v = "auto")
        THEN /\ cprt' = [cprt EXCEPT !.cist[o] = val]
             /\ wantCist' = [wantCist EXCEPT ![o] = val]
        ELSE UNCHANGED <<cprt, wantCist>>
  /\ UNCHANGED <<pc, ctxMstid, port, textScope, wantTree>>

\* Variant of conf_opt_prt_mstid that leaves ctx->mstid alone when the
\* bridge lacks the tree.
ConfMstidStayOnMiss(v) ==
  /\ "mstid" \in Options
  /\ ReadLine
  /\ IF ~IsNum(v)
     THEN UNCHANGED <<ctxMstid, cprt, textScope>>
     ELSE LET m == ClampTo(v, MAX_MSTID)
          IN /\ textScope' = m
             /\ \/ m = 0 /\ ctxMstid' = 0 /\ UNCHANGED cprt
                \/ \E i \in EntryOf(cprt, m) :
                     /\ cprt' = [cprt EXCEPT !.ids[i].set = TRUE]
                     /\ ctxMstid' = m
                \/ m # 0 /\ EntryOf(cprt, m) = {} /\ UNCHANGED <<ctxMstid, cprt>>
  /\ UNCHANGED <<pc, port, wantTree, wantCist>>

\* conf_opt_prt_mstid: select the CIST, a listed tree (marking it set), or
\* a tree the bridge lacks ("Unable to select mstid"), which still becomes
\* ctx->mstid.
ConfMstid(v) ==
  /\ "mstid" \in Options
  /\ ReadLine
  /\ IF ~IsNum(v)
     THEN UNCHANGED <<ctxMstid, cprt, textScope>>
     ELSE LET m == ClampTo(v, MAX_MSTID)
          IN /\ textScope' = m
             /\ \/ m = 0 /\ ctxMstid' = 0 /\ UNCHANGED cprt
                \/ \E i \in EntryOf(cprt, m) :
                     /\ cprt' = [cprt EXCEPT !.ids[i].set = TRUE]
                     /\ ctxMstid' = m
                \/ m # 0 /\ EntryOf(cprt, m) = {} /\ ctxMstid' = m /\ UNCHANGED cprt
  /\ UNCHANGED <<pc, port, wantTree, wantCist>>

\* conf_opt_prt_prio and conf_opt_prt_int_cost: the value goes to the CIST
\* fields, to the selected tree's entry, or nowhere ("Ignoring", -1).
ScopedSet(f, val) ==
  /\ wantTree' = [wantTree EXCEPT ![textScope][f] = val]
  /\ IF ctxMstid = 0
     THEN cprt' = [cprt EXCEPT ![f] = val]
     ELSE IF EntryOf(cprt, ctxMstid) # {}
     THEN cprt' = [cprt EXCEPT !.ids[CHOOSE i \in EntryOf(cprt, ctxMstid) : TRUE][f] = val]
     ELSE UNCHANGED cprt

ConfPrio(v) ==
  /\ "prio" \in Options
  /\ ReadLine
  /\ IF IsNum(v) THEN ScopedSet("prio", PrioUnits(v)) ELSE UNCHANGED <<cprt, wantTree>>
  /\ UNCHANGED <<pc, ctxMstid, port, textScope, wantCist>>

ConfIntCost(v) ==
  /\ "int-cost" \in Options
  /\ ReadLine
  /\ IF IsNum(v) THEN ScopedSet("cost", ClampTo(v, MAX_COST)) ELSE UNCHANGED <<cprt, wantTree>>
  /\ UNCHANGED <<pc, ctxMstid, port, textScope, wantCist>>

\* conf_opt_prt_ext_cost: always a CIST set-point, whatever the section.
ConfExtCost(v) ==
  /\ "ext-cost" \in Options
  /\ ReadLine
  /\ IF IsNum(v)
     THEN /\ cprt' = [cprt EXCEPT !.cist["ext-cost"] = ClampTo(v, MAX_COST)]
          /\ wantCist' = [wantCist EXCEPT !["ext-cost"] = ClampTo(v, MAX_COST)]
     ELSE UNCHANGED <<cprt, wantCist>>
  /\ UNCHANGED <<pc, ctxMstid, port, textScope, wantTree>>

\* mstpd_conf_apply_prt, in its order: the CIST port config when one of
\* `triggers` is set (each if-block sets cfg_apply), the CIST tree port's
\* priority and cost, then each listed tree with a set field, on the
\* per-tree port whose MSTID matches.
ApplyPrt(triggers) ==
  LET p1 == IF \E o \in triggers : cprt.cist[o] # NotSet
            THEN MSTP_IN_set_cist_port_config(port, cprt.cist) ELSE port
      Units(u) == IF u # NotSet THEN u * 16 ELSE NotSet
      p2 == IF cprt.prio # NotSet \/ cprt.cost # NotSet
            THEN MSTP_IN_set_msti_port_config(p1, 0, Units(cprt.prio), cprt.cost) ELSE p1
      Step(p, i) ==
        LET e == cprt.ids[i]
        IN IF (e.prio # NotSet \/ e.cost # NotSet) /\ e.id \in Trees
           THEN MSTP_IN_set_msti_port_config(p, e.id, Units(e.prio), e.cost) ELSE p
  IN FoldLeft(Step, p2, [i \in DOMAIN cprt.ids |-> i])

\* Variant where the ext_cost_set block does not set cfg_apply.
ApplyPrtNoExtCost == ApplyPrt(YesNoOpts \cup {"p2p"})

mstpd_conf_apply_prt == ApplyPrt(CistOpts)

Apply ==
  /\ pc = "parse"
  /\ pc' = "done"
  /\ port' = mstpd_conf_apply_prt
  /\ UNCHANGED <<lines, ctxMstid, cprt, ghost>>

Next ==
  \/ \E oks \in [DOMAIN BrTrees -> AddResults] : Start(oks)
  \/ LineAllocFail
  \/ LineRejected
  \/ \E o \in YesNoOpts \cup {"p2p"}, v \in {"yes", "no", "auto", Invalid} : ConfFlag(o, v)
  \/ \E v \in MstidInputs : ConfMstid(v)
  \/ \E v \in PrioInputs \cup {Invalid} : ConfPrio(v)
  \/ \E v \in CostInputs \cup {Invalid} : ConfIntCost(v)
  \/ \E v \in CostInputs \cup {Invalid} : ConfExtCost(v)
  \/ Apply

Spec == Init /\ [][Next]_vars

-----------------------------------------------------------------------------
(* Properties                                                              *)

TypeOK ==
  /\ pc \in {"start", "parse", "done", "failed"}
  /\ ctxMstid \in {0} \cup MstiIds \cup {MAX_MSTID}
  /\ cprt.prio \in 0..MAX_PRT_PRIO \div 16 \cup {NotSet}
  /\ \A i \in DOMAIN cprt.ids :
       /\ cprt.ids[i].id \in ToSet(BrTrees)
       /\ cprt.ids[i].prio \in 0..MAX_PRT_PRIO \div 16 \cup {NotSet}
  /\ \A t \in Trees : port.prio[t] \in 0..MAX_PRT_PRIO /\ port.prio[t] % 16 = 0

\* After a load, every tree port of the port has the priority and internal
\* path cost last written in that tree's `mstid` section (the CIST's before
\* any `mstid` line or after `mstid 0`), or its default: the listing of
\* mstpd_conf_prepare_prt, the selection of conf_opt_prt_mstid, the lookups
\* of conf_opt_prt_prio / conf_opt_prt_int_cost and the per-tree loop of
\* mstpd_conf_apply_prt together.
PortScopedConfig ==
  pc = "done" =>
    \A t \in Trees :
      /\ port.prio[t] = IF wantTree[t].prio = NotSet THEN DefaultPortPrio
                        ELSE wantTree[t].prio * 16
      /\ port.cost[t] = IF wantTree[t].cost = NotSet THEN DefaultCost
                        ELSE wantTree[t].cost

\* After a load, the CIST port set-points (the yes/no flags, p2p and
\* ext-cost) are the last value the file wrote for each, and the others are
\* untouched: the _set flags of struct conf_prt and the cfg_apply of
\* mstpd_conf_apply_prt.
CistPortAsWritten ==
  pc = "done" => port.cist = wantCist

=============================================================================
