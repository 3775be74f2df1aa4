----------------------------- MODULE NetlinkTalk -----------------------------
(***************************************************************************)
(* The request socket rth_state of src/brmon.c and the two ways           *)
(* src/libnetlink.c uses it: rtnl_talk (__rtnl_talk -> __rtnl_talk_iov    *)
(* with iovlen 1 and answer NULL), by which the adaptation layer pushes a *)
(* port's state to the kernel (set_port_state, spec.md 4, not under src/),*)
(* and the dump of a port's VLANs by fill_vlan_table (rtnl_dump_request,  *)
(* rtnl_dump_filter -> rtnl_dump_filter_l).  Both number their requests   *)
(* from the one counter rtnl->seq, started at time(NULL) by rtnl_open.    *)
(*                                                                         *)
(* The kernel is the environment.  rtnetlink handles a request inside     *)
(* sendmsg and queues its answer on the socket: for a talk an ack          *)
(* (NLMSG_ERROR, error 0 or not, since NLM_F_ACK is set), for a dump the  *)
(* parts and NLMSG_DONE, produced while the receive queue has room and    *)
(* going on after the reader gave up; a dump asked for while the previous *)
(* one still runs is refused with an EBUSY ack.  A datagram holds one     *)
(* message.  Every message carries, as a ghost, the call it answers.      *)
(* The data is the port's VLANs Vids: their states in the kernel, which a *)
(* talk that is acked without error sets for a range of VIDs, and their   *)
(* copy in the daemon's table uni_data->vlan_state, which a dump part      *)
(* fills from its BRIDGE_VLANDB_ENTRY attributes.                          *)
(***************************************************************************)
EXTENDS Integers, Sequences, FiniteSets

CONSTANTS
  SeqMod,        \* 2^32: rtnl->seq and nlmsg_seq are unsigned 32-bit
  SizeMod,       \* 2^64: size_t, the type seq - iovlen is computed in
  InitSeqs,      \* values time(NULL) gives rtnl->seq in rtnl_open_byproto
  MaxCalls,      \* bound on talks and dumps made
  DumpParts,     \* RTM_NEWVLAN parts a dump of the port's VLANs has
  QueueCap,      \* messages the receive queue holds for a running dump
  SendMayFail,   \* sendmsg may fail
  RecvMayFail,   \* malloc in rtnl_recvmsg may fail after the peek
  VlanStates,    \* per-VLAN STP states a talk may ask the kernel for
  Vids           \* the VIDs of the port, an interval of 1..4094

ASSUME /\ SeqMod \in Nat \ {0} /\ SizeMod > SeqMod
       /\ InitSeqs \subseteq 0..SeqMod-1 /\ MaxCalls \in Nat
       /\ DumpParts \in Nat /\ QueueCap \in Nat \ {0}
       /\ Vids \subseteq 1..4094 /\ Vids # {}

iovlen == 1     \* __rtnl_talk passes one iovec

\* A message on the socket: an ack (`error` tells NLMSG_ERROR with error
\* 0 from one with an errno), a dump part whose `vlan` is its sequence of
\* attributes, or NLMSG_DONE.
Msg(t, s, e, v, c) == [type |-> t, seq |-> s, error |-> e, vlan |-> v, call |-> c]

Unassigned == "unassigned"   \* VLAN_STATE_UNASSIGNED

VARIABLES
  seq,        \* rtnl->seq
  dump,       \* rth->dump, the seq of the last dump asked for
  calls,      \* calls made so far; the current one is number `calls`
  pc,         \* "idle", or the call under way: "talk" or "dump"
  cur,        \* the local `seq` of the running __rtnl_talk_iov
  queue,      \* the receive queue of rth_state
  kdump,      \* parts (then NLMSG_DONE) the kernel's running dump still owes
  kdseq,      \* seq of the kernel's running dump
  kdcall,     \* ghost: the call that started it
  answered,   \* ghost: [call, from] of the last talk that returned
  kvlan,      \* the kernel's state of each VLAN of the port
  table,      \* uni_data->vlan_state over the port's VIDs
  filled      \* ghost: the last call was a fill_vlan_table that returned 0

vars == <<seq, dump, calls, pc, cur, queue, kdump, kdseq, kdcall, answered, kvlan, table, filled>>
data == <<kvlan, table, filled>>

SendResults == IF SendMayFail THEN BOOLEAN ELSE {TRUE}
RecvResults == IF RecvMayFail THEN BOOLEAN ELSE {TRUE}
NoAnswer == 0

-----------------------------------------------------------------------------
(* The kernel                                                              *)

\* A netlink attribute: its type with the NLA_F_NESTED bit kept apart,
\* and a value or, for a nest, the sequence of the attributes inside.
Attr(t, v) == [type |-> t, nested |-> FALSE, val |-> v]
Nest(t, as) == [type |-> t, nested |-> TRUE, val |-> as]

\* br_vlan_dump_dev: the port's VLANs from lo to hi as BRIDGE_VLANDB_ENTRY
\* nests (nla_nest_start sets NLA_F_NESTED), one per run of consecutive
\* VIDs in the same state, holding ENTRY_INFO, ENTRY_RANGE when the run
\* has more than one VID, and ENTRY_STATE.
RECURSIVE RunEnd(_, _, _)
RunEnd(kv, v, hi) == IF v < hi /\ kv[v + 1] = kv[v] THEN RunEnd(kv, v + 1, hi) ELSE v
RECURSIVE Entries(_, _, _)
Entries(kv, lo, hi) ==
  IF lo > hi THEN <<>>
  ELSE LET e == RunEnd(kv, lo, hi)
       IN <<Nest("entry", <<Attr("info", lo)>>
                          \o (IF e > lo THEN <<Attr("range", e)>> ELSE <<>>)
                          \o <<Attr("state", kv[lo])>>)>>
          \o Entries(kv, e + 1, hi)

\* Part j of DumpParts covers a j-th of the port's VIDs: the kernel ends a
\* part when the message is full and resumes at the next VID.
Lowest(S) == CHOOSE v \in S : \A w \in S : v <= w
Highest(S) == CHOOSE v \in S : \A w \in S : v >= w
PartVids(j) == {v \in Vids : ((v - Lowest(Vids)) * DumpParts) \div Cardinality(Vids) = j - 1}
PartEntries(kv, j) ==
  IF PartVids(j) = {} THEN <<>> ELSE Entries(kv, Lowest(PartVids(j)), Highest(PartVids(j)))

\* netlink_dump: the next part of the running dump, or NLMSG_DONE after
\* the last one, queued when the socket has room.
KernelDump ==
  /\ kdump > 0 /\ Len(queue) < QueueCap
  /\ queue' = Append(queue,
       IF kdump = 1 THEN Msg("done", kdseq, FALSE, <<>>, kdcall)
       ELSE Msg("part", kdseq, FALSE, PartEntries(kvlan, DumpParts + 2 - kdump), kdcall))
  /\ kdump' = kdump - 1
  /\ UNCHANGED <<seq, dump, calls, pc, cur, kdseq, kdcall, answered, data>>

-----------------------------------------------------------------------------
(* The daemon                                                              *)

\* rtnl_open_byproto: rth zeroed, rth->seq = time(NULL).
Init ==
  /\ seq \in InitSeqs
  /\ dump = 0
  /\ calls = 0
  /\ pc = "idle"
  /\ cur = 0
  /\ queue = <<>>
  /\ kdump = 0 /\ kdseq = 0 /\ kdcall = 0
  /\ answered = [call |-> 0, from |-> NoAnswer]
  /\ kvlan \in [Vids -> VlanStates]
  /\ table = [v \in Vids |-> Unassigned]
  /\ filled = FALSE

\* Variant of InWindow without the lower bound nlmsg_seq < seq - iovlen.
InWindowNoLow(s, c) == ~(s > c)

\* The test of __rtnl_talk_iov that keeps a reply: neither
\* nlmsg_seq > seq nor nlmsg_seq < seq - iovlen, where seq - iovlen is
\* computed in size_t.
InWindow(s, c) == ~(s > c \/ s < (c - iovlen) % SizeMod)

\* rtnl_talk(&rth_state, n, NULL) -> __rtnl_talk_iov: the request is
\* numbered ++rtnl->seq with NLM_F_ACK set and sent; the kernel applies
\* the state asked for to the VIDs lo..hi, unless it refuses, and queues
\* its ack inside sendmsg.  A failed sendmsg returns -1.
TalkSend ==
  /\ pc = "idle" /\ calls < MaxCalls
  /\ LET s == (seq + 1) % SeqMod
     IN /\ seq' = s /\ cur' = s /\ calls' = calls + 1
        /\ \E sent \in SendResults, err \in BOOLEAN, st \in VlanStates, lo, hi \in Vids :
             IF sent
             THEN /\ lo <= hi
                  /\ queue' = Append(queue, Msg("ack", s, err, <<>>, calls + 1))
                  /\ kvlan' = IF err THEN kvlan
                              ELSE [v \in Vids |-> IF lo <= v /\ v <= hi THEN st ELSE kvlan[v]]
                  /\ pc' = "talk" /\ UNCHANGED answered
             ELSE /\ pc' = "idle" /\ UNCHANGED <<queue, kvlan>>
                  /\ answered' = [call |-> calls + 1, from |-> NoAnswer]
  /\ filled' = FALSE
  /\ UNCHANGED <<dump, kdump, kdseq, kdcall, table>>

\* fill_vlan_table -> rtnl_dump_request: the request is numbered
\* rth->dump = ++rth->seq and sent; a failed send makes fill_vlan_table
\* return -1.  The kernel starts the dump, or refuses it with EBUSY while
\* its previous dump on this socket still runs.
DumpSend ==
  /\ pc = "idle" /\ calls < MaxCalls
  /\ LET s == (seq + 1) % SeqMod
     IN /\ seq' = s /\ dump' = s /\ calls' = calls + 1
        /\ \E sent \in SendResults :
             \/ /\ ~sent
                /\ UNCHANGED <<pc, queue, kdump, kdseq, kdcall>>
             \/ /\ sent /\ kdump > 0
                /\ queue' = Append(queue, Msg("ack", s, TRUE, <<>>, calls + 1))
                /\ pc' = "dump" /\ UNCHANGED <<kdump, kdseq, kdcall>>
             \/ /\ sent /\ kdump = 0
                /\ kdump' = DumpParts + 1 /\ kdseq' = s /\ kdcall' = calls + 1
                /\ pc' = "dump" /\ UNCHANGED queue
  /\ filled' = FALSE
  /\ UNCHANGED <<cur, answered, kvlan, table>>

\* Variant of TalkRecv testing i <= iovlen: an ack makes it read on.
TalkRecvPastAck ==
  /\ pc = "talk" /\ queue # <<>>
  /\ \E ok \in RecvResults :
       IF ~ok
       THEN /\ pc' = "idle" /\ UNCHANGED queue
            /\ answered' = [call |-> calls, from |-> NoAnswer]
       ELSE /\ queue' = Tail(queue) /\ UNCHANGED <<pc, answered>>
  /\ UNCHANGED <<seq, dump, calls, cur, kdump, kdseq, kdcall, data>>

\* One turn of the loop of __rtnl_talk_iov: rtnl_recvmsg peeks at the
\* next message (blocking while there is none) and mallocs a buffer for
\* it; when malloc fails it returns -ENOMEM and the message stays queued.
\* A message outside the window is skipped, an ack ends the call (with
\* -i or 0, i = iovlen), any other message is an "Unexpected reply!!!".
TalkRecv ==
  /\ pc = "talk" /\ queue # <<>>
  /\ \E ok \in RecvResults :
       IF ~ok
       THEN /\ pc' = "idle" /\ UNCHANGED queue
            /\ answered' = [call |-> calls, from |-> NoAnswer]
       ELSE LET m == Head(queue)
            IN /\ queue' = Tail(queue)
               /\ IF InWindow(m.seq, cur) /\ m.type = "ack"
                  THEN /\ pc' = "idle"
                       /\ answered' = [call |-> calls, from |-> m.call]
                  ELSE UNCHANGED <<pc, answered>>
  /\ UNCHANGED <<seq, dump, calls, cur, kdump, kdseq, kdcall, data>>

\* parse_rtattr_flags(tb, max, rta, len, 0) over the attributes as of a
\* nest (parse_rtattr_nested): tb[type] is the first attribute of each
\* type, NULL (none here) when the nest has none.
EntryTypes == {"info", "range", "state"}     \* BRIDGE_VLANDB_ENTRY_* up to _MAX
parse_rtattr_flags(as) ==
  [k \in {as[i].type : i \in DOMAIN as} \cap EntryTypes |->
     as[CHOOSE i \in DOMAIN as : as[i].type = k /\ \A j \in 1..i-1 : as[j].type # k].val]

\* Variant of IsEntry comparing rta_type itself, NLA_F_NESTED included.
IsEntryUnmasked(a) == a.type = "entry" /\ ~a.nested

\* The type test of fill_vlan_table_msg: rta_type & NLA_TYPE_MASK, the
\* type without the NLA_F_NESTED and NLA_F_NET_BYTEORDER bits.
IsEntry(a) == a.type = "entry"

\* The loop of fill_vlan_table_msg over the attributes of a part: one that
\* is not a BRIDGE_VLANDB_ENTRY, or has no ENTRY_INFO, is skipped; the
\* state defaults to VLAN_STATE_UNASSIGNED and a range of 0 means info->vid
\* alone; vlan_state[vid] = state for vid from info->vid to range.
RECURSIVE FillEntries(_, _)
FillEntries(t, as) ==
  IF as = <<>> THEN t
  ELSE LET tb == IF IsEntry(Head(as)) THEN parse_rtattr_flags(Head(as).val) ELSE <<>>
           Get(k, dflt) == IF k \in DOMAIN tb THEN tb[k] ELSE dflt
           range == IF Get("range", 0) = 0 THEN Get("info", 0) ELSE Get("range", 0)
           t2 == IF "info" \notin DOMAIN tb THEN t
                 ELSE [v \in DOMAIN t |-> IF tb["info"] <= v /\ v <= range
                                          THEN Get("state", Unassigned) ELSE t[v]]
       IN FillEntries(t2, Tail(as))

\* fill_vlan_table_msg: the part is of the port asked for (the kernel
\* dumps bvm.ifindex only, so the ifindex test passes).
fill_vlan_table_msg(t, m) == FillEntries(t, m.vlan)

\* The end of one turn of rtnl_dump_filter_l for fill_vlan_table, given
\* whether the message passes its test: NLMSG_DONE ends the dump with 0,
\* an NLMSG_ERROR with -1 (rtnl_dump_error, "Dump terminated"), and a part
\* goes to fill_vlan_table_msg.
DumpHandle(m, ours) ==
  IF ~ours THEN UNCHANGED <<pc, table, filled>>
  ELSE IF m.type = "part"
  THEN /\ table' = fill_vlan_table_msg(table, m) /\ UNCHANGED <<pc, filled>>
  ELSE /\ pc' = "idle" /\ filled' = (m.type = "done") /\ UNCHANGED table

\* Variant of DumpRecv without the test nlmsg_seq != rth->dump.
DumpRecvAnySeq ==
  /\ pc = "dump" /\ queue # <<>>
  /\ \E ok \in RecvResults :
       IF ~ok
       THEN /\ pc' = "idle" /\ UNCHANGED <<queue, table, filled>>
       ELSE /\ queue' = Tail(queue) /\ DumpHandle(Head(queue), TRUE)
  /\ UNCHANGED <<seq, dump, calls, cur, kdump, kdseq, kdcall, answered, kvlan>>

\* One turn of rtnl_dump_filter_l for fill_vlan_table: a failed
\* rtnl_recvmsg returns its error; a message whose nlmsg_seq is not
\* rth->dump is skipped.
DumpRecv ==
  /\ pc = "dump" /\ queue # <<>>
  /\ \E ok \in RecvResults :
       IF ~ok
       THEN /\ pc' = "idle" /\ UNCHANGED <<queue, table, filled>>
       ELSE /\ queue' = Tail(queue) /\ DumpHandle(Head(queue), Head(queue).seq = dump)
  /\ UNCHANGED <<seq, dump, calls, cur, kdump, kdseq, kdcall, answered, kvlan>>

Next ==
  \/ KernelDump
  \/ TalkSend \/ DumpSend \/ TalkRecv \/ DumpRecv

\* The kernel goes on with a dump whenever the socket has room; the
\* daemon, once in a call, is blocked in recvmsg until a message arrives.
\* Nothing obliges the adaptation layer to make another call.
Spec == Init /\ [][Next]_vars
          /\ WF_vars(KernelDump) /\ WF_vars(TalkRecv) /\ WF_vars(DumpRecv)

-----------------------------------------------------------------------------
(* Properties                                                              *)

\* Every talk and every dump returns to its caller: __rtnl_talk_iov
\* finds its ack among the messages of the socket and rtnl_dump_filter_l
\* its NLMSG_DONE or error, whatever earlier calls left queued.
CallReturns ==
  pc # "idle" ~> pc = "idle"

\* A talk that returns with an ack took its own (call `calls`) or, when
\* an earlier call gave up with its answer still queued, the previous
\* call's: the window [seq - iovlen, seq] of __rtnl_talk_iov keeps any
\* older answer out.
AnswerRecent ==
  answered.from \in {NoAnswer, answered.call, answered.call - 1}

\* When fill_vlan_table returns 0, the VLAN state it copied is the
\* kernel's: rtnl_dump_filter_l hands fill_vlan_table_msg only the parts
\* of this dump, not those a dump given up earlier left on the socket,
\* and the daemon changes nothing while it reads the dump.
VlanTableFresh ==
  filled => table = kvlan

=============================================================================
