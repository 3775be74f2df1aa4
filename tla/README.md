# TLA+ models of mstpd

This directory holds TLA+ models of the parts of mstpd under `src/`: the
configuration loader, the I/O buffer it reads files through, the netlink
library and the bridge monitor built on it, and the `mstpctl` client.
The MSTP protocol engine (`mstp.c`, described in `spec.md`) is not part of
`src/`. Where a modelled part calls into it, the entry points are modelled
from `spec.md`, and PROJECT.json marks those definitions `spec_modelled`.

## 1. Inventory of the system

| part | source | state | operations | interacts with |
|---|---|---|---|---|
| bridge configuration load | `src/mstpd_conf.c` `mstpd_conf_load_br`, `conf_if_load`, `conf_opt_br_*`, `mstpd_conf_apply_br` | `struct conf_br`: set-points with `_set` flags, `mstids[]` (id, prio) grown by `realloc`, `vid2mstid[]`; `ctx->mstid`, the section being parsed | one handler per option line (`mode`, `max-age`, ..., `confid`, `mstid`, `prio`, `vids`); end of file applies everything through `MSTP_IN_*` | I/O buffer (lines), engine (apply) |
| port configuration load | `mstpd_conf_load_prt`, `mstpd_conf_prepare_prt`, `mstpd_conf_apply_prt`, `conf_opt_prt_*` | `struct conf_prt` per port, with its own `mstids[]` | the same line loop, sections `[port]`/`mstid`; apply per port | I/O buffer, engine |
| VID list codec | `conf_vids_dec`, `conf_vids_enc` (`_CONF_TEST`) | the `vid2mstid` table | decode `1,3-5` into the table; encode the table back | bridge load |
| I/O buffer | `src/lib/io_buffer.c` | `data`, `size`, `cap`, `pos` | `iobuf_read_from_fd`, `iobuf_resize`, `iobuf_readcleanline`, `iobuf_write_to_fd` | configuration load |
| netlink library | `src/libnetlink.c` | socket, `seq`, `dump` seq | dump request + `rtnl_dump_filter_l`; request/reply `__rtnl_talk_iov`; `rtnl_listen` | kernel, bridge monitor |
| bridge monitor | `src/brmon.c` | two sockets (`rth` subscribed to link events, `rth_state`) | `init_bridge_ops` (subscribe, dump), `dump_br_msg`, `dump_vlan_msg`, `fill_vlan_table` | netlink, daemon |
| control client | `src/ctl_main.c` | option flags | argument parsing, `add_bridges` | daemon (control socket) |
| interface utilities | `src/lib/netif_utils.c` | none | ioctl and sysfs reads and writes | kernel |
| MSTP engine (not in src) | `spec.md` 4 | bridges, trees, ports, VID map | `MSTP_IN_*` | everything above |

What is hard to test in the configuration loader is the **sequence** of
lines. `mstid` lines open and re-open sections. The handlers share
`ctx->mstid` and the `mstids[]` array. An allocation can fail partway
through. The apply step then runs in a fixed order, and one part of it can
be refused. The netlink code has **interleavings** with the kernel: a
notification can arrive during a dump, a reply can be late, and the socket
can overrun. Every hazard found, with its line, is listed under "hazards"
in PROJECT.json.

## 2. Modules

### ConfBridge (modelled), MCConfBridge

`ConfBridge.tla` models one run of `mstpd_conf_load_br`:

- `Start` models the file access and `conf_loadfile`. It goes to "done" for
  a missing file and to "failed" for an unreadable one.
- One action per option handler. Each models its parse failures, clamping,
  section selection and `realloc` growth:
  - `ConfMode`, `ConfScalar`, `ConfConfid`, `ConfMstid`, `ConfPrio`,
    `ConfVids`.
- `LineRejected` models an unknown option or a wrong argument count.
- `LineAllocFail` models a failed growth of the line buffer, which makes
  `conf_if_load` return -2.
- `Apply` models the end of file, running `mstpd_conf_apply_br` in the
  code's order:
  - the CIST config;
  - the config id;
  - the CIST priority;
  - creation of each MSTI with its priority, as a fold over `mstids[]`;
  - the VID table.

The state corresponds to the code as follows:

- `cbr` is `struct conf_br`, with `sz` for `mstids_sz` in bytes.
- `ctxMstid` is `ctx->mstid`.
- `br` is the engine's bridge.

Ghost variables record what the file *says*, so that a property can compare
the text with the result:

- `textScope`: the section the last valid `mstid` line opened.
- `wantPrio`: the last priority written in each section.
- `wantScalar`: the last value written for each set-point.

Data abstraction:

- Numbers are integers or `Invalid`.
- A `vids` value is its sequence of elements: `One(a)`, `Span(a, b)` or
  `Junk`.
- MSTIDs are only compared, so an `mstid` line names one of:
  - the CIST;
  - an MSTI already listed;
  - the least unused MSTID;
  - a value above `MAX_MSTID`;
  - something `str_getuint` rejects.

  Every file is one of these up to a renaming of MSTIDs. This replaces a
  symmetry set, which would be far too large for 17 MSTIDs.
- An uninitialised read, `prio_set` of a freshly appended entry, is a
  choice among `NotSet` and the values in `StaleSlotPrios`.

The engine entry points come from `spec.md` 4.H/4.I:

- `MSTP_IN_create_msti` fails when the bridge already has `MaxMstis`
  MSTIs.
- `MSTP_IN_set_all_vids2mstids` swaps the whole table. It refuses a table
  that names a missing tree.

### VidsDec

`VidsDec.tla` holds `conf_vids_dec` as a RECURSIVE operator over the
elements of a `vids` value. It writes each element into the table as it
goes and stops at the first rejected one, as the code does. ConfBridge's
`ConfVids` uses it.

### VidsEnc, MCVidsEnc

`VidsEnc.tla` models `conf_vids_enc`, one step per iteration of its loop
over `pos`:

- `Skip` models a VID of another tree.
- `EncRun` models a run: the ',' and then `"%d"` or `"%d-%d"`, each checked
  against `rem_len`, with the NUL stores of the two refusal paths.
- `Finish` models the end of the loop and its `out[rem_len] = 0`.

The text is kept as the elements it spells. Its byte length is counted from
the decimal digits of the VIDs. `ptr` is how far `out` has been advanced,
and `top` is the highest offset from the start of the buffer that any store
reached (`StoreAt`). With no run written, the output buffer is an
uninitialised stack array, so its first byte is a nondeterministic choice.

### IoBuffer, ConfLines, LoadFile, MCIoBuffer

`IoBuffer.tla` models `conf_loadfile` reading through `iobuf_read_from_fd`
and `iobuf_resize`, one step per iteration of the read loop:

- `Open`.
- `GrowFail`: `realloc` fails.
- `Read(rd)`: `rd` is drawn from `ReadResults`, a byte count or -1.
- `ReadEof`: `read()` returns 0 and the loop breaks.

`rd` is a `size_t` in the code, so -1 takes the same branch as a positive
count. `SizeT` is arithmetic modulo `SizeMod`.

`LoadFile.tla` is the abstract specification: a load fails, or succeeds with
the buffer equal to the file. `IoBuffer` maps its state onto `LoadFile` with
`INSTANCE ... WITH`, and `LoadsWholeFile` is `LoadFile`'s `Spec`.

After a load that returned 0, `IoBuffer` goes on with `conf_if_load`'s line
loop over the buffer (`Buffered`), one step per iteration:

- `ParseLine`: `iobuf_readcleanline` returns a line; leading blanks are
  skipped; an empty line or a `#` comment is skipped; any other line is
  split by `conf_split_line` and its `<<ctx->line, argv>>` is appended to
  `parsed`. `ctx->line` counts every line, skipped ones included.
- `ParseEnd`: `iobuf_readcleanline` returns -1 at the end of the buffer.

The realloc of the line copy and the option dispatch of an iteration are
ConfBridge's `LineAllocFail` and option actions; here the iteration ends
with the argv the option lookup sees. A buffer that holds bytes `realloc`
left uninitialised (the overwrite of run io_large) is not parsed
(`ParseReady`): its contents are indeterminate.

`ConfLines.tla` holds the byte-level algorithms as RECURSIVE operators:
`ScanLF` and `TrimBack` (the two loops of `iobuf_readcleanline`),
`SkipBlank` (the leading-blank loop of `conf_if_load`), and `WordEnd`,
`BlanksEnd` and `SplitFrom` (the loop of `conf_split_line`). Bytes are
strings (`LF`, `CR`, `TAB`, `SP`, `#`, word bytes); NUL is not among them,
since `conf_split_line` stops at the first NUL. Its reference `RefLines`
reads the text without positions: cut at LF (`FoldLeft`), drop trailing
CR/TAB/SP, cut at blanks and keep the nonempty words (`SelectSeq`), keep
the lines whose first word does not start with `#`, and keep each line's
first `ArgcMax` words.

### ConfPort, MCConfPort

`ConfPort.tla` models one run of `mstpd_conf_load_prt`:

- `Start(oks)` covers the file access, `conf_loadfile` and
  `mstpd_conf_prepare_prt`. Prepare folds `conf_prt_add_mstid` over the
  bridge's trees. `oks` says which of its `realloc` calls succeed, and a
  failure is ignored as in the code.
- The line loop (`LineAllocFail`, `LineRejected`) is that of ConfBridge.
- The handlers are `ConfFlag` (the eight yes/no options and `p2p`),
  `ConfMstid`, `ConfPrio`, `ConfIntCost` and `ConfExtCost`.
- `Apply` models `mstpd_conf_apply_prt` in its order: the CIST port config
  behind `cfg_apply`, then the CIST tree port, then each listed tree on the
  tree port with the same MSTID.

An `mstid` line never adds an entry here. A tree the bridge lacks still
becomes `ctx->mstid`, and the `prio`/`int-cost` lines after it are refused.
`ext-cost` is a CIST set-point in every section. The ghost variables
(`textScope`, `wantTree`, `wantCist`) record what the file says, as in
ConfBridge.

### BrMon, MCBrMon

`BrMon.tla` models `init_bridge_ops` (src/brmon.c) and the parts of
src/libnetlink.c it uses. The daemon reads one socket, `rth`, that the
kernel fills. The kernel is the environment:

- `Change(l, s)` changes a link. While `rth` is subscribed, it queues a
  notification, or marks the socket ENOBUFS when the queue is full.
- `DumpPart` and `DumpDone` produce the requested dump one link at a time,
  in ifindex order, from the live table, whenever there is room.

The daemon's actions follow the code:

- `OpenRth` is `rtnl_open(&rth, RTMGRP_LINK)`.
- `Request` is `rtnl_linkdump_req`.
- `DumpRecv` is one message read by `rtnl_dump_filter_l`. A pending
  ENOBUFS fails the dump, a message not of the dump goes to `skip_it`,
  NLMSG_DONE ends the dump, and a part goes to `dump_msg`.
- `ListenRecv` is one read of `rtnl_listen`. ENOBUFS is logged and the loop
  continues.

`dump_msg`/`dump_br_msg` become `DumpMsg`, which calls `bridge_notify`.
`bridge_notify` is outside `src/` and is spec-modelled as the daemon's
record `view` of each link. The ghost `lost` collects the links a
notification of which was skipped or dropped.

### NetlinkTalk, MCNetlinkTalk

`NetlinkTalk.tla` models the request socket `rth_state`. Two kinds of
calls use it, and both number their requests from the one counter
`rtnl->seq`:

- `TalkSend` and `TalkRecv` are `rtnl_talk` → `__rtnl_talk` →
  `__rtnl_talk_iov` with one iovec and `answer == NULL`, so `NLM_F_ACK`
  is set. This is how the adaptation layer pushes a port's state to the
  kernel (`set_port_state`, spec.md 4; its code is not under `src/`).
  - `TalkSend` numbers the request `++rtnl->seq` and sends it. A failed
    `sendmsg` returns -1.
  - `TalkRecv` is one turn of the receive loop. `rtnl_recvmsg` peeks,
    then mallocs. A failed malloc returns -ENOMEM and leaves the message
    queued.
  - A message outside the window `InWindow` is skipped. An ack ends the
    call. Any other message is an "Unexpected reply!!!".
- `DumpSend` and `DumpRecv` are `fill_vlan_table`: `rtnl_dump_request`,
  then `rtnl_dump_filter_l`, which keeps only messages whose seq is
  `rth->dump` (`DumpHandle` is what it does with a kept message).
  `fill_vlan_table_msg` is the loop over the part's attributes
  (`FillEntries`). A part's attributes are records (`Attr`, and `Nest` for
  one that holds attributes, with the `NLA_F_NESTED` bit kept apart).
  `IsEntry` is the type test `rta_type & NLA_TYPE_MASK`, and
  `parse_rtattr_flags` is `parse_rtattr_nested`: the first attribute of
  each `ENTRY_*` type. An attribute that is not a `BRIDGE_VLANDB_ENTRY` or has
  no `ENTRY_INFO` is skipped, the state defaults to `VLAN_STATE_UNASSIGNED`, a range of 0 means `info->vid` alone, and
  `vlan_state[vid]` is set for `vid` from `info->vid` to the range.
- The data is the port's VIDs `Vids`. `kvlan` is their states in the
  kernel; a talk acked without error sets the VIDs `lo..hi` to one state.
  `table` is the daemon's copy, `uni_data->vlan_state`. The kernel's dump
  (`Entries`, as `br_vlan_dump_dev` does it) sends one entry nest per run of
  consecutive VIDs in the same state, with `BRIDGE_VLANDB_ENTRY_RANGE`
  only for a run of two or more.

`InWindow` is the code's test `!(nlmsg_seq > seq || nlmsg_seq < seq -
iovlen)`. `seq - iovlen` is taken modulo `SizeMod` (size_t) and the seq
modulo `SeqMod` (unsigned int).

The kernel answers a talk inside `sendmsg` with an ack, whose error is 0
or an errno. It starts a dump, or refuses it with EBUSY while its previous
dump on the socket still runs. `KernelDump` produces the parts and
NLMSG_DONE while the queue has room, even after the reader gave up.
Messages carry as a ghost the number of the call they answer, and
`answered` records which call's ack the last talk returned with.

Receive-buffer overruns of this socket are left out (BrMon models them on
`rth`). So are extended acks and a DONE that carries an error: their
control is that of the ack already modelled.

`netif_utils.c` is pure I/O and is not modelled.

## 3. Runs

Each module is checked through its MC module (`MCConfBridge`, `MCConfPort`,
`MCVidsEnc`, `MCIoBuffer`, `MCBrMon`, `MCNetlinkTalk`).

| run | cfg | expect | checks |
|---|---|---|---|
| br_scope | ConfBridge_scope.cfg | pass | `TypeOK`, `ScopedPriority`, `SetPointsAsWritten` |
| br_mstid_overflow | ConfBridge_overflow.cfg | violation | `MstidsFitAllocation` |
| br_alloc_scope | ConfBridge_alloc_scope.cfg | violation | `ScopedPriority` |
| enc_overflow | VidsEnc_overflow.cfg | violation | `WithinBuffer` |
| io_regular | IoBuffer_regular.cfg | pass | `SizeWithinCap`, `LinesAsWritten`, `Terminates` |
| io_overrun | IoBuffer_overrun.cfg | violation | `SizeWithinCap` |
| io_large | IoBuffer_large.cfg | violation | `LoadsWholeFile` |
| port_scope | ConfPort_scope.cfg | pass | `TypeOK`, `PortScopedConfig`, `CistPortAsWritten` |
| brmon_listen | BrMon_listen.cfg | pass | `ViewAccounted`, `DumpEnds` |
| brmon_converge | BrMon_converge.cfg | violation | `Converges` |
| talk_calls | NetlinkTalk_calls.cfg | pass | `AnswerRecent`, `VlanTableFresh`, `CallReturns` |
| talk_wrap | NetlinkTalk_wrap.cfg | violation | `CallReturns` |

### Properties

- **ScopedPriority.** After a load, every tree of the bridge has the last
  priority written in its section, or the default if none was. This ties
  together:
  - `conf_opt_br_mstid`'s choice of `ctx->mstid`;
  - `conf_opt_br_prio`'s lookup;
  - the creation loop of `mstpd_conf_apply_br`.
- **SetPointsAsWritten.** After a load, the bridge-wide settings are the
  last values the file wrote, clamped, and no others.
- **WithinBuffer.** Every byte `conf_vids_enc` stores lies inside the
  `max_len` bytes of its buffer.
- **SizeWithinCap.** `buffer->size` never exceeds `buffer->cap`, so the next
  `read()` stays inside the allocation.
- **Terminates.** The read loop returns, and after a successful load
  `conf_if_load`'s line loop reaches the end of the buffer.
- **LinesAsWritten.** When `conf_if_load`'s loop has ended, the options
  were handed exactly the settings of the buffer `conf_loadfile` returned,
  in order: every line with a
  word that is not a `#` comment, once, under its own line number, with its
  words cut at blanks, a CRLF line end's CR removed, and the first
  `ArgcMax` words kept. It ties the position arithmetic of
  `iobuf_readcleanline` (`pos` past the LF, the last line without one) to
  `ctx->line` and to the word boundaries of `conf_split_line`. It is
  about the line reader, not the load: when the first `iobuf_resize`
  fails, `conf_loadfile` still returns 0 with an empty buffer, and the
  options then see no line at all. That is the ENOMEM hazard of
  `io_buffer.c:80`, which `LoadsWholeFile` would report; io_large keeps
  allocation failures off so that its trace shows the overwrite.
- **PortScopedConfig.** After a port load, every tree port has the
  priority and internal cost last written in its own section, or its
  default.
- **CistPortAsWritten.** The CIST port set-points are the last ones
  written.
- **ViewAccounted.** Whenever the daemon has read everything queued, each
  link that never had a notification skipped or dropped is recorded as the
  kernel has it.
- **DumpEnds.** `init_bridge_ops` returns.
- **Converges.** Once everything queued has been read, the daemon's record
  is the kernel's. It is violated.
- **CallReturns.** Every talk and every VLAN dump on `rth_state` returns,
  whatever earlier calls left queued.
- **AnswerRecent.** A talk that returns with an ack took its own or the
  previous call's, never an older one. The window `[seq - iovlen, seq]`
  keeps older acks out.
- **VlanTableFresh.** When `fill_vlan_table` returns 0, its table holds
  the kernel's VLAN state. Parts of a dump given up earlier may still be
  queued, taken before a talk changed the state; the seq test must keep
  them out.
- **LoadsWholeFile.** `conf_loadfile` refines `LoadFile`.

### Results

- **br_scope** (93,643 states) passes. As long as `cbr->mstids` is allocated
  and new entries read as unset, sectioning and set-points are right for
  every file of 6 lines over two MSTIs. That includes re-opened sections,
  `mstid 0`, out-of-range MSTIDs and an engine that refuses the second MSTI.
- **io_regular** (194,456 states) passes. It covers files of 0..13 bytes,
  which is more than two pages after scaling, with `open` and `realloc`
  failing, and every text of up to 6 bytes over a word byte, `#`, SP, CR
  and LF: CRLF lines, a last line without LF, blank-only and comment
  lines, and a line of three words cut to `ArgcMax` 2.
- **port_scope** (188,231 states) passes. It covers every port file of 6
  lines over a bridge with MSTIs 1 and 2, including sections for a missing
  MSTI 3, out-of-range and invalid values, and a failing line buffer. Two
  hazards were confirmed by TLC outside the kept runs:
  - When a `realloc` in prepare fails, PortScopedConfig is violated: the
    tree's section is dropped without an error.
  - With 9 bridge MSTIs, `cprt->mstids` overflows during prepare.
- **brmon_listen** (117,118 states) passes. It covers two links that may
  each be absent, down or up, with up to five changes at any moment
  around the dump and a queue of two messages, so overruns happen both
  during the dump and after it, and a second overrun after the daemon
  has recovered from the first.
- **talk_calls** (166,180 states) passes. It covers four talks and dumps
  of two parts over VIDs 1..3, with `rtnl->seq` started at 0, with `sendmsg` and the
  receive malloc failing, and dumps left running in the kernel.
  - The window lets in exactly one stale ack. TLC shows that the stricter
    "own ack only" invariant fails: after a talk's malloc fails, the next
    talk returns the previous call's ack, and its own ack then waits for
    the talk after it.
- **The violation runs are real bugs or divergences.** Each is described
  under "findings" in PROJECT.json:
  - The `mstids[]` block is sized in entries but allocated in bytes, so the
    17th MSTI overflows it.
  - A failed `realloc` leaves the previous section open, so later lines go
    to the wrong tree.
  - A `read()` error is added to `size` as `(size_t)-1`, which takes
    `size` past `cap`.
  - A link created during the initial dump, after its place in the dump,
    is never reported. Its notification is skipped as "not the dump's".
    The same loss follows an ENOBUFS in `rtnl_listen`, which does not
    re-dump. TLC confirmed that case outside the kept runs.
  - Files over 4 KiB are loaded partially, and an ENOMEM is reported as
    success.
  - `conf_vids_enc` (test build) refuses a text that does not fit by
    storing `out[max_len - 1] = 0` through the pointer it has already
    advanced. After the first run that NUL lands past the buffer: for
    `0-1,3-4,6-7,10` in 12 bytes, at offset 17.
  - When `rtnl->seq` wraps to 0, `seq - iovlen` underflows in size_t.
    The talk skips its own ack and blocks in `recvmsg` for ever.

### Bounds

- ConfBridge: 6 lines in br_scope and MSTIDs {1, 2}; the engine accepts
  one MSTI. Six lines reach open A, `prio`, open B, `prio`, re-open A,
  `prio`, so a section re-opened after another one is written to again. The overflow run allows
  only 17 `mstid` lines.
- ConfPort: 6 lines, bridge MSTIs 1 and 2 plus a missing 3. That is
  enough for `mstid` A, `mstid` 3, `prio`, for a section re-opened after
  the CIST, and for two sections each written before one is re-opened.
- BrMon: two links, states {absent, down, up}, 5 changes, queue of 2.
  Five changes fill the queue of two twice over.
  The violation run has a queue of 4, so that no overrun is involved.
- VidsEnc: MAX_VID 10 gives two-digit VIDs. A 12-byte buffer makes some
  tables too long after one or more runs fit.
- NetlinkTalk: `SeqMod` 8 and `SizeMod` 16. Only the order of seq values
  matters, and `SizeMod > SeqMod` puts the underflowed `seq - iovlen` above
  every seq, as 2^64 > 2^32 does. Four calls are enough for two failed
  receives followed by a talk, which would reach an ack two calls old if
  the window's lower bound were missing. Without a wrap only the order of
  seq values matters, so talk_calls starts `rtnl->seq` at 0 only; every
  start that does not wrap gives the same behaviours renumbered. A dump in
  talk_calls has two parts and DONE, and the queue holds two messages, so
  the kernel blocks in the middle of a dump, and a dump abandoned in the
  kernel meets the next call. Three VIDs give runs of one, two and three VIDs, so a part
  holds single entries, ranges, and a mix of both.
- IoBuffer: sizes are scaled by 1024 (IO_PAGE_SIZE 4096 → 4, free minimum
  1024 → 1, growth 4096 → 4) in the violation runs, and by 512 (8, 2, 8)
  in io_regular, so that a 6-byte text fits in the first read and is
  parsed. `conf_split_line`'s 8 is scaled to `ArgcMax` 2: a line of 6
  bytes holds at most 3 words, so the cut is reached. TAB is left out of
  the text bytes: every test in the code treats it as SP. `SizeMod` 256 keeps a wrap-around far from
  the small sizes that matter, while -1 still wraps.

### Fairness

ConfBridge, ConfPort and VidsEnc assume no fairness. A load and an encoding are
procedures that end, and the final states have no successor, so their cfgs
set `CHECK_DEADLOCK FALSE`. IoBuffer assumes `WF_vars(Next)`: the read loop
is a single thread making blocking system calls, and each call returns;
`conf_if_load` follows it in the same thread. Its
cfgs also set `CHECK_DEADLOCK FALSE`, because a load ends.

BrMon assumes weak fairness of each daemon action and of the kernel's dump
production. The daemon blocks in `recvmsg` during the dump and is woken by
epoll afterwards. The kernel produces the next part of a dump when the
reader has made room. Link changes are not fair: they may stop. Once the
changes are used up and the queue is empty, the daemon waits in epoll,
which is not a deadlock (`CHECK_DEADLOCK FALSE`).

NetlinkTalk assumes weak fairness of the kernel's dump production and
of the two receive actions. Inside a call the daemon is blocked in
`recvmsg`, which returns when a message is queued. New calls are not
fair: the adaptation layer may stop making them.

## 4. Not modelled, and why

- **Formatting, logging and the `_CONF_TEST` dump functions.** They change
  no state.
- **The tokenising inside ConfBridge and ConfPort.** There a line is given
  as option plus arguments; `conf_split_line` itself is modelled in
  ConfLines and checked in io_regular.
- **`iobuf_write_to_fd`.** It has no caller under `src/`, so its loop,
  which never advances `buffer->pos`, is not a hazard of this program.
- **Option dispatch on parsed lines in IoBuffer.** The parse phase stops at
  the argv; what the options do with it is ConfBridge and ConfPort.
- **The other request builders of `src/libnetlink.c`** (`rtnl_*dump_req`,
  `addattr*`), the byte layout of attributes (`RTA_OK`, `RTA_NEXT`,
  alignment) and `parse_rtattr_one` / `__parse_rtattr_nested_compat`. They
  only lay out bytes, and the daemon calls no builder; `parse_rtattr_flags`
  is modelled over attribute records for the VLAN dump. The one dump
  request and the one talk that the daemon makes are modelled.
- **`dump_vlan_msg`.** This is the RTNLGRP_BRVLAN notifications on `rth`.
  It walks the entries as `fill_vlan_table_msg` does, but hands each VID to
  `bridge_vlan_notify`, which is not under `src/`. BrMon abstracts a
  notification to a link's flags state.
- **VLANs added to or removed from a port.** `Vids` is fixed.
  `fill_vlan_table` never clears `vlan_state` before its dump, so a removed
  VLAN would keep its old state, although `bridge_ctl.h` says
  `VLAN_STATE_UNASSIGNED` means "VLAN not present". Whether that happens
  depends on whether the caller runs `fill_vlan_table` again on a table it
  already filled; the caller is not under `src/`. It is listed as a hazard
  without a property.
- **VIDs outside 1..4094.** The `uint16_t` loop `vid <= range` would not
  end for a range of 65535. The kernel never sends such a VID.
- **Receive-buffer overruns of `rth_state`.** Overruns are modelled on
  `rth` in BrMon.
- **The control client `mstpctl` (`src/ctl_main.c`).** `main` is a
  `getopt_long` loop over three locals whose result is the process exit
  code. `add_bridges` and `del_bridges` copy arrays into one message for
  `send_ctl_message`, whose client and server are not under `src/`. So
  there is no state here that another component reads back.
- **Interface utilities (`src/lib/netif_utils.c`).** These are single
  ioctl and sysfs reads and writes with no state of their own.
- **The MSTP engine beyond the entry points above.** It is not part of
  `src/`.
