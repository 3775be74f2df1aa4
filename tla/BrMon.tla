------------------------------- MODULE BrMon -------------------------------
(***************************************************************************)
(* The bridge monitor of src/brmon.c on top of src/libnetlink.c.           *)
(* init_bridge_ops opens the socket rth subscribed to RTMGRP_LINK, asks    *)
(* for a dump of all links on that same socket and reads it with           *)
(* rtnl_dump_filter_l (passing each part to dump_msg); afterwards the      *)
(* event loop calls rtnl_listen, which passes every notification to        *)
(* dump_msg.  dump_br_msg reports each link to bridge_notify, whose record *)
(* of the links is `view` (bridge_notify is not under src/; modelled from  *)
(* spec.md 3, "created on netlink port joined bridge; destroyed on        *)
(* removal").                                                              *)
(*                                                                         *)
(* The kernel is the environment: links change state, every change is     *)
(* queued on rth as a notification (or lost, the socket marked ENOBUFS,    *)
(* when the receive queue is full), and a requested dump is produced part *)
(* by part while there is room.  A datagram holds one message.  A link's  *)
(* attributes are abstracted to the flags state bridge_notify receives;   *)
(* VLAN notifications (RTNLGRP_BRVLAN) and fill_vlan_table are left out.  *)
(***************************************************************************)
EXTENDS Integers, Sequences, FiniteSets

CONSTANTS
  LinkOrder,      \* the links in ifindex order, the order of the dump
  LinkStates,     \* flags states a present link may have
  QueueCap,       \* messages the receive queue of rth holds
  MaxChanges      \* bound on link changes

ASSUME LinkOrder \in Seq(Nat \ {0}) /\ QueueCap \in Nat \ {0} /\ MaxChanges \in Nat

Links == {LinkOrder[i] : i \in DOMAIN LinkOrder}
NumLinks == Len(LinkOrder)
None == "none"                        \* the link does not exist
States == LinkStates \cup {None}

\* A netlink message: RTM_NEWLINK / RTM_DELLINK for `link` with the flags
\* it carries, or NLMSG_DONE; `ours` is nlmsg_pid = rth->local.nl_pid
\* /\ nlmsg_seq = rth->dump, true of the dump's parts only.
Msg(t, l, s, o) == [type |-> t, link |-> l, state |-> s, ours |-> o]
DoneMsg == Msg("done", 0, None, TRUE)

VARIABLES
  kstate,       \* the kernel's links
  changes,      \* link changes so far
  queue,        \* the receive queue of rth
  overrun,      \* sk_err = ENOBUFS is pending on rth
  subscribed,   \* rth is bound to RTMGRP_LINK
  kdump,        \* 0: no dump asked; i <= NumLinks: next link; NumLinks+1: DONE next; NumLinks+2: ended
  pc,           \* init_bridge_ops / event loop: "open", "request", "dump", "listen", "failed"
  view,         \* what bridge_notify has been told of each link
  lost          \* ghost: links a notification of which was skipped or dropped

vars == <<kstate, changes, queue, overrun, subscribed, kdump, pc, view, lost>>
kernel == <<kstate, changes, queue, overrun, kdump>>

-----------------------------------------------------------------------------
(* The kernel                                                              *)

\* A link changes; rtnetlink notifies the members of RTMGRP_LINK.
Change(l, s) ==
  /\ changes < MaxChanges /\ s # kstate[l]
  /\ kstate' = [kstate EXCEPT ![l] = s]
  /\ changes' = changes + 1
  /\ LET m == IF s = None THEN Msg("del", l, kstate[l], FALSE) ELSE Msg("new", l, s, FALSE)
     IN IF ~subscribed THEN UNCHANGED <<queue, overrun, lost>>
        ELSE IF Len(queue) < QueueCap
        THEN /\ queue' = Append(queue, m) /\ UNCHANGED <<overrun, lost>>
        ELSE /\ overrun' = TRUE /\ lost' = lost \cup {l} /\ UNCHANGED queue
  /\ UNCHANGED <<subscribed, kdump, pc, view>>

\* The next part of the dump, produced when the reader has made room: the
\* link's state at this moment, nothing for a link that does not exist.
DumpPart ==
  /\ kdump \in 1..NumLinks /\ Len(queue) < QueueCap
  /\ LET l == LinkOrder[kdump]
     IN queue' = IF kstate[l] # None THEN Append(queue, Msg("new", l, kstate[l], TRUE)) ELSE queue
  /\ kdump' = kdump + 1
  /\ UNCHANGED <<kstate, changes, overrun, subscribed, pc, view, lost>>

DumpDone ==
  /\ kdump = NumLinks + 1 /\ Len(queue) < QueueCap
  /\ queue' = Append(queue, DoneMsg)
  /\ kdump' = NumLinks + 2
  /\ UNCHANGED <<kstate, changes, overrun, subscribed, pc, view, lost>>

-----------------------------------------------------------------------------
(* The daemon                                                              *)

\* bridge_notify(br_index, if_index, name, newlink, flags), spec-modelled:
\* a new link is recorded with its flags, a deleted one forgotten.
bridge_notify(v, l, newlink, s) == [v EXCEPT ![l] = IF newlink THEN s ELSE None]

\* Variant of dump_msg that reports every link message as RTM_NEWLINK.
DumpMsgAlwaysNew(v, m) ==
  IF m.type \in {"new", "del"} THEN bridge_notify(v, m.link, TRUE, m.state) ELSE v

\* dump_msg -> dump_br_msg: RTM_NEWLINK and RTM_DELLINK reach
\* bridge_notify with newlink = (nlmsg_type == RTM_NEWLINK); NLMSG_DONE
\* and other types return 0.
DumpMsg(v, m) ==
  IF m.type \in {"new", "del"} THEN bridge_notify(v, m.link, m.type = "new", m.state) ELSE v

\* init_bridge_ops: rtnl_open(&rth, RTMGRP_LINK), rtnl_add_nl_group and
\* rtnl_open(&rth_state, 0); a failure of either open ends it with -1.
OpenRth ==
  /\ pc = "open"
  /\ \/ pc' = "failed" /\ UNCHANGED subscribed
     \/ pc' = "request" /\ subscribed' = TRUE
  /\ UNCHANGED <<kernel, view, lost>>

\* rtnl_linkdump_req: rth->dump = ++rth->seq and send().
Request ==
  /\ pc = "request"
  /\ \/ pc' = "failed" /\ UNCHANGED kdump
     \/ pc' = "dump" /\ kdump' = 1
  /\ UNCHANGED <<kstate, changes, queue, overrun, subscribed, view, lost>>

\* Variant of DumpRecv that does not stop at NLMSG_DONE.
DumpRecvNoDone ==
  /\ pc = "dump"
  /\ \/ /\ overrun
        /\ overrun' = FALSE /\ pc' = "failed"
        /\ UNCHANGED <<queue, view, lost>>
     \/ /\ ~overrun /\ queue # <<>>
        /\ queue' = Tail(queue)
        /\ LET m == Head(queue)
           IN IF ~m.ours \/ m.type = "done"
              THEN /\ lost' = IF ~m.ours THEN lost \cup {m.link} ELSE lost
                   /\ UNCHANGED <<pc, view>>
              ELSE /\ view' = DumpMsg(view, m)
                   /\ UNCHANGED <<pc, lost>>
        /\ UNCHANGED overrun
  /\ UNCHANGED <<kstate, changes, subscribed, kdump>>

\* One message read by rtnl_dump_filter_l.  A pending ENOBUFS makes
\* recvmsg fail: the dump returns the error and init_bridge_ops fails
\* ("Dump terminated").  A message that is not the dump's (nlmsg_pid or
\* nlmsg_seq differ) goes to skip_it; NLMSG_DONE ends the dump; a part
\* goes to dump_msg.
DumpRecv ==
  /\ pc = "dump"
  /\ \/ /\ overrun
        /\ overrun' = FALSE /\ pc' = "failed"
        /\ UNCHANGED <<queue, view, lost>>
     \/ /\ ~overrun /\ queue # <<>>
        /\ queue' = Tail(queue)
        /\ LET m == Head(queue)
           IN IF ~m.ours
              THEN /\ lost' = lost \cup {m.link}
                   /\ UNCHANGED <<pc, view>>
              ELSE IF m.type = "done"
              THEN /\ pc' = "listen"
                   /\ UNCHANGED <<view, lost>>
              ELSE /\ view' = DumpMsg(view, m)
                   /\ UNCHANGED <<pc, lost>>
        /\ UNCHANGED overrun
  /\ UNCHANGED <<kstate, changes, subscribed, kdump>>

\* br_ev_handler -> rtnl_listen, one recvmsg: ENOBUFS is logged and the
\* loop goes on; every message is passed to dump_listen_msg -> dump_msg.
ListenRecv ==
  /\ pc = "listen"
  /\ \/ /\ overrun
        /\ overrun' = FALSE
        /\ UNCHANGED <<queue, view, lost>>
     \/ /\ ~overrun /\ queue # <<>>
        /\ queue' = Tail(queue)
        /\ view' = DumpMsg(view, Head(queue))
        /\ UNCHANGED <<overrun, lost>>
  /\ UNCHANGED <<kstate, changes, subscribed, kdump, pc>>

Init ==
  /\ kstate \in [Links -> States]
  /\ changes = 0
  /\ queue = <<>>
  /\ overrun = FALSE
  /\ subscribed = FALSE
  /\ kdump = 0
  /\ pc = "open"
  /\ view = [l \in Links |-> None]
  /\ lost = {}

Next ==
  \/ \E l \in Links, s \in States : Change(l, s)
  \/ DumpPart \/ DumpDone
  \/ OpenRth \/ Request \/ DumpRecv \/ ListenRecv

\* The kernel produces a requested dump as the reader drains the queue;
\* the daemon blocks in recvmsg during the dump and is woken by epoll
\* afterwards.  Link changes need not happen.
Spec == Init /\ [][Next]_vars
          /\ WF_vars(DumpPart) /\ WF_vars(DumpDone)
          /\ WF_vars(OpenRth) /\ WF_vars(Request) /\ WF_vars(DumpRecv) /\ WF_vars(ListenRecv)

-----------------------------------------------------------------------------
(* Properties                                                              *)

\* Whenever the daemon has read everything the kernel sent, its record of
\* a link is the kernel's, unless that link's latest notification was
\* skipped by rtnl_dump_filter_l or dropped by an overrun: dump parts and
\* notifications reach bridge_notify in the order the kernel produced them.
ViewAccounted ==
  (pc = "listen" /\ queue = <<>> /\ ~overrun) =>
    \A l \in Links : view[l] = kstate[l] \/ l \in lost

\* init_bridge_ops returns: the dump reaches NLMSG_DONE or fails.
DumpEnds ==
  <>(pc \in {"listen", "failed"})

\* Once the daemon has read everything the kernel sent, its record of the
\* links is the kernel's (subscribing to RTMGRP_LINK before the dump is
\* meant to catch changes made during it).
Converges ==
  (pc = "listen" /\ queue = <<>> /\ ~overrun) => view = kstate

=============================================================================
