------------------------------ MODULE NfsCache ------------------------------
(***************************************************************************)
(* The data of one remote file: the buffers, the attributes cached in its  *)
(* rnode and the asynchronous daemons (sys/nfs/nfs_vnodeops.c with the     *)
(* parts of sys/sys/vfs_bio.c it calls), the server's rfs_read(),          *)
(* rfs_write() and rfs_getattr(), and another client that writes the same  *)
(* file.                                                                   *)
(*                                                                         *)
(* The kernel is not preempted: a process runs until it sleeps, which it   *)
(* does for the reply to a call and for a buffer that is busy.  Each       *)
(* process and each daemon has a stack of the calls it is in.  Contents    *)
(* are numbers, a new one for each write.  The file does not grow, the     *)
(* cache is large enough for it, and a call takes less than a tick.        *)
(***************************************************************************)
EXTENDS Integers, Sequences, FiniteSets

CONSTANTS
  Procs,          \* processes that use the file
  Daemons,        \* biods
  NBlocks,        \* blocks of the file
  NChunks,        \* calls for a block: its size over mi_tsize and mi_stsize
  Ops,            \* what the processes do: "read", "write", "modify", "open", "close"
  NfsacRegtimeo,  \* nfsac_regtimeo
  MaxOps,         \* bound: operations of a process
  MaxForeign,     \* bound: writes of the other client
  MaxErrors,      \* bound: writes the server refuses
  MaxKills,       \* bound: biods that are killed
  None

NfsCacheAssumption ==
  /\ NBlocks \in Nat \ {0} /\ NChunks \in Nat \ {0} /\ NfsacRegtimeo \in Nat \ {0}
  /\ Ops \subseteq {"read", "write", "modify", "open", "close"}
  /\ \A n \in {MaxOps, MaxForeign, MaxErrors, MaxKills} : n \in Nat
  /\ None \notin Procs \cup Daemons

Agents == Procs \cup Daemons
Blocks == 0 .. NBlocks - 1
Bufs == 0 .. NBlocks    \* blocks in the cache: one past the end may be read ahead
Chunks == 1 .. NChunks

VARIABLES
  srv,      \* the server's copy: the contents of each chunk of each block
  mtime,    \* its modification time
  buf,      \* the buffer of each block of Bufs, see NoBuf
  attr,     \* r_nfsattr.na_mtime, and the ticks left until r_nfsattrtime
  rdirty,   \* RDIRTY
  lastr,    \* r_lastr
  queue,    \* async_bufhead
  stack,    \* the calls each process and daemon is in, the innermost first
  cpu,      \* who is running
  live,     \* the daemons that are alive
  ops,      \* operations left to each process
  written,  \* how many writes there were
  lost,     \* the processes whose data could not be written
  errors,   \* how many writes the server has refused
  foreign   \* how many writes of the other client there were

vars == <<srv, mtime, buf, attr, rdirty, lastr, queue, stack, cpu, live, ops,
          written, lost, errors, foreign>>
outside == <<srv, mtime, live, errors, foreign>>

(***************************************************************************)
(* A buffer: its block can be found in the cache, B_BUSY, B_DELWRI, the    *)
(* contents, the processes that put something in it that the server does   *)
(* not have, and for how long the server has had something newer.          *)
(***************************************************************************)
NoBuf == [in |-> FALSE, busy |-> FALSE, delwri |-> FALSE,
          data |-> [c \in Chunks |-> 0], by |-> {}, age |-> 0]

Frame(pc, b) == [pc |-> pc, b |-> b, async |-> FALSE, c |-> 1, rpc |-> "no", na |-> 0]

(***************************************************************************)
(* do_bio() of a buffer as the frame of a call, and the call itself.       *)
(***************************************************************************)
Bio(pc, b, async) == [Frame(pc, b) EXCEPT !.async = async, !.rpc = "call"]
Calling(f) == f.rpc \in {"call", "half"}

Init ==
  /\ srv = [b \in Blocks |-> [c \in Chunks |-> 0]]
  /\ mtime = 0
  /\ buf = [b \in Bufs |-> NoBuf]
  /\ attr = [mtime |-> 0, left |-> 0]
  /\ rdirty = FALSE
  /\ lastr = 0
  /\ queue = <<>>
  /\ stack = [a \in Agents |-> <<>>]
  /\ cpu = None
  /\ live = Daemons
  /\ ops = [p \in Procs |-> MaxOps]
  /\ written = 0
  /\ lost = {}
  /\ errors = 0
  /\ foreign = 0

-----------------------------------------------------------------------------
Top(a) == Head(stack[a])
In(a, pc) == stack[a] # <<>> /\ Top(a).pc = pc

(***************************************************************************)
(* The agent may run, and its innermost call is at pc.                     *)
(***************************************************************************)
Runs(a, pc) == cpu \in {None, a} /\ In(a, pc)

(***************************************************************************)
(* The running agent goes on with the calls s: it sleeps when it has made  *)
(* a remote call, and a daemon with nothing left to do takes the next      *)
(* buffer or sleeps.                                                       *)
(***************************************************************************)
GoOn(a, s) ==
  LET next == IF s = <<>> /\ a \in Daemons /\ queue # <<>> THEN <<Head(queue)>> ELSE s
  IN  /\ stack' = [stack EXCEPT ![a] = next]
      /\ cpu' = IF next = <<>> \/ Calling(Head(next)) THEN None ELSE a
      /\ queue' = IF next # s THEN Tail(queue) ELSE queue

Rest(a) == Tail(stack[a])
To(a, pc) == <<[Top(a) EXCEPT !.pc = pc]>> \o Rest(a)

(***************************************************************************)
(* nfs_strategy(): an asynchronous buffer is queued if a daemon is idle    *)
(* (async_daemon_count); otherwise the caller does the transfer and then   *)
(* goes on with s.  (r_error, which it looks at first, is never set.)      *)
(***************************************************************************)
async_daemon_count == Cardinality({d \in live : stack[d] = <<>>})

Strategy(a, bio, s) ==
  IF async_daemon_count > 0 /\ bio.async
  THEN /\ queue' = Append(queue, bio)
       /\ stack' = [stack EXCEPT ![a] = s]
       /\ cpu' = IF s = <<>> THEN None ELSE a
  ELSE GoOn(a, <<bio>> \o s)

(***************************************************************************)
(* async_daemon() wakes up.                                                *)
(***************************************************************************)
AsyncDaemon(d) ==
  /\ cpu = None /\ d \in live /\ stack[d] = <<>> /\ queue # <<>>
  /\ GoOn(d, <<>>)
  /\ UNCHANGED <<outside, buf, attr, rdirty, lastr, ops, written, lost>>

Bwrite(b) == [buf EXCEPT ![b].busy = TRUE, ![b].delwri = FALSE]
Getblk(b) == [buf EXCEPT ![b].in = TRUE, ![b].busy = TRUE]
DelayedFree == {b \in Bufs : buf[b].in /\ buf[b].delwri /\ ~buf[b].busy}
\* binvalfree() as it would be if it searched the hash chains, as binval() does
MutantCleanFree == {b \in Bufs : buf[b].in /\ ~buf[b].delwri}

CleanFree == {b \in Bufs : buf[b].in /\ ~buf[b].delwri /\ ~buf[b].busy}
Invalid(B) == [b \in Bufs |-> IF b \in B THEN NoBuf ELSE buf[b]]

-----------------------------------------------------------------------------
(***************************************************************************)
(* nfs_fsync(): bflush() starts the delayed writes, blkflush() then waits  *)
(* for each block of the file and writes it if it is delayed.              *)
(***************************************************************************)
Fsync(a) ==
  /\ Runs(a, "fsync")
  /\ rdirty' = FALSE
  /\ GoOn(a, IF rdirty THEN To(a, "bflush") ELSE Rest(a))
  /\ UNCHANGED <<outside, buf, attr, lastr, ops, written, lost>>

Bflush(a) ==
  /\ Runs(a, "bflush")
  /\ \/ \E b \in DelayedFree :
          /\ buf' = Bwrite(b)
          /\ Strategy(a, Bio("nfswrite", b, TRUE), stack[a])
     \/ /\ DelayedFree = {}
        /\ GoOn(a, To(a, "blkflush"))
        /\ UNCHANGED buf
  /\ UNCHANGED <<outside, attr, rdirty, lastr, ops, written, lost>>

\* blkflush() that passes over a busy buffer, as bflush() does
MutantBlkflush(a) ==
  LET b == Top(a).b
      write == b < NBlocks /\ buf[b].in /\ buf[b].delwri
  IN  /\ Runs(a, "blkflush")
      /\ buf' = IF write THEN Bwrite(b) ELSE buf
      /\ GoOn(a, IF write THEN <<Bio("nfswrite", b, FALSE)>> \o stack[a]
                 ELSE IF b < NBlocks THEN <<[Top(a) EXCEPT !.b = b + 1]>> \o Rest(a)
                 ELSE Rest(a))
      /\ UNCHANGED <<outside, attr, rdirty, lastr, ops, written, lost>>

Blkflush(a) ==
  LET b == Top(a).b
      wait == b < NBlocks /\ buf[b].in /\ buf[b].busy
      write == b < NBlocks /\ buf[b].in /\ buf[b].delwri
  IN  /\ Runs(a, "blkflush")
      /\ ~wait
      /\ buf' = IF write THEN Bwrite(b) ELSE buf
      /\ GoOn(a, IF write THEN <<Bio("nfswrite", b, FALSE)>> \o stack[a]
                 ELSE IF b < NBlocks THEN <<[Top(a) EXCEPT !.b = b + 1]>> \o Rest(a)
                 ELSE Rest(a))
      /\ UNCHANGED <<outside, attr, rdirty, lastr, ops, written, lost>>

(***************************************************************************)
(* nfs_getattr() after nfs_fsync().                                        *)
(***************************************************************************)

Getattr(a) ==
  /\ Runs(a, "getattr") /\ Top(a).rpc = "no"
  /\ GoOn(a, IF attr.left > 0 THEN Rest(a)
             ELSE <<[Top(a) EXCEPT !.rpc = "call"]>> \o Rest(a))
  /\ UNCHANGED <<outside, buf, attr, rdirty, lastr, ops, written, lost>>

GetattrCall == <<Frame("fsync", 0), Frame("getattr", 0)>>

(***************************************************************************)
(* nfs_attrcache(): attributes that came with a new modification time make *)
(* binvalfree() run first, unless the change was expected.                 *)
(***************************************************************************)
SetAttr(na) == attr' = [mtime |-> na, left |-> NfsacRegtimeo]


AttrcacheFlush(a, s) ==
  LET na == Top(a).na
  IN  IF na = attr.mtime
      THEN SetAttr(na) /\ GoOn(a, s)
      ELSE GoOn(a, <<[Frame("binvalfree", 0) EXCEPT !.na = na]>> \o s) /\ UNCHANGED attr

AttrcacheNoflush(na) == SetAttr(na)

(***************************************************************************)
(* binvalfree(): delayed writes are started, other free buffers forgotten. *)
(* When a write has to be done by the caller, only the buffers before it   *)
(* on the free list have been forgotten, and the list is searched again.   *)
(***************************************************************************)
Binvalfree(a) ==
  /\ Runs(a, "binvalfree")
  /\ \/ \E b \in DelayedFree, B \in SUBSET CleanFree :
          /\ buf' = [Invalid(B) EXCEPT ![b].busy = TRUE, ![b].delwri = FALSE]
          /\ Strategy(a, Bio("nfswrite", b, TRUE), stack[a])
          /\ UNCHANGED attr
     \/ /\ DelayedFree = {}
        /\ buf' = Invalid(CleanFree)
        /\ SetAttr(Top(a).na)
        /\ GoOn(a, Rest(a))
  /\ UNCHANGED <<outside, rdirty, lastr, ops, written, lost>>

GetattrReply(a) ==
  /\ Runs(a, "getattr") /\ Top(a).rpc = "reply"
  /\ AttrcacheFlush(a, Rest(a))
  /\ UNCHANGED <<outside, buf, rdirty, lastr, ops, written, lost>>

(***************************************************************************)
(* nfsread() gets a reply: the next part of the block, or the end of it or *)
(* of the file.  Only the attributes of the last reply are kept.           *)
(***************************************************************************)
NfsreadReply(a) ==
  LET f == Top(a)
  IN  /\ Runs(a, "nfsread") /\ f.rpc = "reply"
      /\ IF f.b \in Blocks /\ f.c < NChunks
         THEN /\ GoOn(a, <<[f EXCEPT !.c = @ + 1, !.rpc = "call"]>> \o Rest(a))
              /\ UNCHANGED attr
         ELSE AttrcacheFlush(a, <<[f EXCEPT !.rpc = "done"]>> \o Rest(a))
      /\ UNCHANGED <<outside, buf, rdirty, lastr, ops, written, lost>>

(***************************************************************************)
(* do_bio() ends with iodone(), which releases an asynchronous buffer; a   *)
(* write for which the caller waits is released by bwrite().  brelse()     *)
(* forgets a buffer with an error.                                         *)
(***************************************************************************)
NfsreadDone(a) ==
  /\ Runs(a, "nfsread") /\ Top(a).rpc = "done"
  /\ buf' = [buf EXCEPT ![Top(a).b].busy = ~Top(a).async]
  /\ GoOn(a, Rest(a))
  /\ UNCHANGED <<outside, attr, rdirty, lastr, ops, written, lost>>

\* do_bio() that does not call iodone() after an error
MutantNfswriteReply(a) ==
  LET f == Top(a)
  IN  /\ Runs(a, "nfswrite") /\ f.rpc \in {"reply", "error"}
      /\ buf' = [buf EXCEPT ![f.b].busy = f.rpc = "error"]
      /\ IF f.rpc = "reply" THEN AttrcacheNoflush(f.na) ELSE UNCHANGED attr
      /\ GoOn(a, Rest(a))
      /\ UNCHANGED <<outside, rdirty, lastr, ops, written, lost>>

NfswriteReply(a) ==
  LET f == Top(a)
      more == f.rpc = "reply" /\ f.c < NChunks
  IN  /\ Runs(a, "nfswrite") /\ f.rpc \in {"reply", "error"}
      /\ buf' = IF more THEN buf
                ELSE IF f.rpc = "error" THEN Invalid({f.b})
                ELSE [buf EXCEPT ![f.b].busy = FALSE]
      /\ IF f.rpc = "reply" /\ ~more THEN AttrcacheNoflush(f.na) ELSE UNCHANGED attr
      /\ GoOn(a, IF more THEN <<[f EXCEPT !.c = @ + 1, !.rpc = "call"]>> \o Rest(a)
                 ELSE Rest(a))
      /\ UNCHANGED <<outside, rdirty, lastr, ops, written, lost>>

-----------------------------------------------------------------------------
(***************************************************************************)
(* What the processes do.  An open, like stat(), gets the attributes.      *)
(***************************************************************************)
Start(p, op, s) ==
  /\ cpu = None /\ op \in Ops /\ ops[p] > 0 /\ stack[p] = <<>>
  /\ ops' = [ops EXCEPT ![p] = @ - 1]
  /\ stack' = [stack EXCEPT ![p] = s]
  /\ cpu' = p
  /\ UNCHANGED <<outside, buf, attr, rdirty, lastr, queue, written, lost>>

Open(p) == Start(p, "open", GetattrCall)
Close(p) == Start(p, "close", <<Frame("fsync", 0), Frame("closed", 0)>>)
Write(p, b) == Start(p, "write", <<Frame("getblk", b)>>)
Modify(p, b) == Start(p, "modify", <<Frame("modify", b)>>)

(***************************************************************************)
(* rwvp() looks at the attributes if the block is in the cache.            *)
(***************************************************************************)
Read(p, b) ==
  Start(p, "read", (IF buf[b].in THEN GetattrCall ELSE <<>>) \o <<Frame("breada", b)>>)

Closed(p) ==
  /\ Runs(p, "closed")
  /\ lost' = lost \ {p}
  /\ GoOn(p, <<>>)
  /\ UNCHANGED <<outside, buf, attr, rdirty, lastr, ops, written>>

(***************************************************************************)
(* bread() and breada(): a block that is not in the cache is read by the   *)
(* caller; with the next block too, before it looks at this one.           *)
(***************************************************************************)
Breada(p) ==
  LET b == Top(p).b
      ahead == IF lastr + 1 = b THEN <<Frame("ahead", b)>> ELSE <<>>
  IN  /\ Runs(p, "breada")
      /\ buf' = IF ahead # <<>> /\ ~buf[b].in THEN Getblk(b) ELSE buf
      /\ GoOn(p, IF ahead # <<>> /\ ~buf[b].in
                 THEN <<Bio("nfsread", b, FALSE)>> \o ahead \o To(p, "copy")
                 ELSE ahead \o To(p, "bread"))
      /\ UNCHANGED <<outside, attr, rdirty, lastr, ops, written, lost>>

\* rwvp() does not look whether the next block is still in the file.
Ahead(p) ==
  LET b == Top(p).b + 1
  IN  /\ Runs(p, "ahead")
      /\ IF ~buf[b].in
         THEN buf' = Getblk(b) /\ Strategy(p, Bio("nfsread", b, TRUE), Rest(p))
         ELSE GoOn(p, Rest(p)) /\ UNCHANGED buf
      /\ UNCHANGED <<outside, attr, rdirty, lastr, ops, written, lost>>

BreadMiss(p, pc, then) ==
  /\ Runs(p, pc) /\ ~buf[Top(p).b].in
  /\ buf' = Getblk(Top(p).b)
  /\ GoOn(p, <<Bio("nfsread", Top(p).b, FALSE)>> \o To(p, then))
  /\ UNCHANGED <<outside, attr, rdirty, lastr, ops, written, lost>>

Bread(p) == BreadMiss(p, "bread", "copy")
ModifyRead(p) == BreadMiss(p, "modify", "store")

(***************************************************************************)
(* The data are copied to the process, and the buffer is released.         *)
(***************************************************************************)
Copy(p) ==
  LET b == Top(p).b
  IN  /\ \/ Runs(p, "copy")
         \/ Runs(p, "bread") /\ buf[b].in /\ ~buf[b].busy
      /\ lastr' = b
      /\ buf' = [buf EXCEPT ![b].busy = FALSE]
      /\ GoOn(p, Rest(p))
      /\ UNCHANGED <<outside, attr, rdirty, ops, written, lost>>

NewData == [c \in Chunks |-> written + 1]

(***************************************************************************)
(* A part of a block is changed: bdwrite().                                *)
(***************************************************************************)
Store(p) ==
  LET b == Top(p).b
  IN  /\ \/ Runs(p, "store")
         \/ Runs(p, "modify") /\ buf[b].in /\ ~buf[b].busy
      /\ buf' = [buf EXCEPT ![b] = [@ EXCEPT !.busy = FALSE, !.delwri = TRUE,
                                 !.data = NewData, !.by = @ \cup {p}, !.age = 0]]
      /\ rdirty' = TRUE
      /\ written' = written + 1
      /\ GoOn(p, Rest(p))
      /\ UNCHANGED <<outside, attr, lastr, ops, lost>>

(***************************************************************************)
(* A whole block is written: getblk() and bawrite().                       *)
(***************************************************************************)
StoreWhole(p) ==
  LET b == Top(p).b
  IN  /\ Runs(p, "getblk") /\ ~buf[b].busy
      /\ buf' = [buf EXCEPT ![b] = [NoBuf EXCEPT !.in = TRUE, !.busy = TRUE,
                                                !.data = NewData, !.by = {p}]]
      /\ rdirty' = TRUE
      /\ written' = written + 1
      /\ Strategy(p, Bio("nfswrite", b, TRUE), Rest(p))
      /\ UNCHANGED <<outside, attr, lastr, ops, lost>>

(***************************************************************************)
(* The running process finds a buffer busy and sleeps.                     *)
(***************************************************************************)
Waits(a) ==
  /\ stack[a] # <<>>
  /\ Top(a).pc \in {"bread", "modify", "getblk", "blkflush"}
  /\ Top(a).pc = "blkflush" => Top(a).b \in Blocks
  /\ buf[Top(a).b].in /\ buf[Top(a).b].busy

SleepBuf(a) ==
  /\ cpu = a /\ Waits(a)
  /\ cpu' = None
  /\ UNCHANGED <<outside, buf, attr, rdirty, lastr, queue, stack, ops, written, lost>>

-----------------------------------------------------------------------------
(***************************************************************************)
(* The server.  rfs_read() gets the attributes and then the data (which    *)
(* nobody sees before the reply has come, the buffer being busy);          *)
(* rfs_write() writes and then gets the attributes.                        *)
(***************************************************************************)
Called(a, pc, rpc) == cpu = None /\ In(a, pc) /\ Top(a).rpc = rpc
Reply(a, rpc, na) ==
  stack' = [stack EXCEPT ![a] = <<[Top(a) EXCEPT !.rpc = rpc, !.na = na]>> \o Rest(a)]

client == <<attr, rdirty, lastr, queue, cpu, live, ops>>

RfsGetattr(a) ==
  /\ Called(a, "getattr", "call")
  /\ Reply(a, "reply", mtime)
  /\ UNCHANGED <<client, srv, mtime, buf, written, lost, errors, foreign>>

RfsReadAttr(a) ==
  /\ Called(a, "nfsread", "call")
  /\ Reply(a, "half", mtime)
  /\ UNCHANGED <<client, srv, mtime, buf, written, lost, errors, foreign>>

\* Past the end there is nothing.
RfsReadData(a) ==
  /\ Called(a, "nfsread", "half")
  /\ buf' = IF Top(a).b \notin Blocks THEN buf
            ELSE [buf EXCEPT ![Top(a).b].data[Top(a).c] = srv[Top(a).b][Top(a).c]]
  /\ Reply(a, "reply", Top(a).na)
  /\ UNCHANGED <<client, srv, mtime, written, lost, errors, foreign>>

RfsWriteData(a) ==
  LET b == Top(a).b  c == Top(a).c
  IN  /\ Called(a, "nfswrite", "call")
      /\ srv' = [srv EXCEPT ![b][c] = buf[b].data[c]]
      /\ mtime' = mtime + 1
      /\ buf' = IF c = NChunks THEN [buf EXCEPT ![b].by = {}] ELSE buf
      /\ Reply(a, "half", 0)
      /\ UNCHANGED <<client, written, lost, errors, foreign>>

RfsWriteAttr(a) ==
  /\ Called(a, "nfswrite", "half")
  /\ Reply(a, "reply", mtime)
  /\ UNCHANGED <<client, srv, mtime, buf, written, lost, errors, foreign>>

RfsWriteError(a) ==
  /\ Called(a, "nfswrite", "call") /\ errors < MaxErrors
  /\ errors' = errors + 1
  /\ lost' = lost \cup buf[Top(a).b].by
  /\ Reply(a, "error", 0)
  /\ UNCHANGED <<client, srv, mtime, buf, written, foreign>>

(***************************************************************************)
(* The other client writes a block.                                        *)
(***************************************************************************)
Foreign(b) ==
  /\ cpu = None /\ foreign < MaxForeign
  /\ foreign' = foreign + 1
  /\ written' = written + 1
  /\ srv' = [srv EXCEPT ![b] = NewData]
  /\ mtime' = mtime + 1
  /\ UNCHANGED <<client, buf, stack, lost, errors>>

(***************************************************************************)
(* A second passes; no call is under way.  A buffer gets older when the    *)
(* server has something else, up to the limit that matters.                *)
(***************************************************************************)
Older(b) ==
  IF /\ b \in Blocks /\ buf[b].in /\ ~buf[b].delwri /\ ~buf[b].busy
     /\ buf[b].data # srv[b] /\ buf[b].age < NfsacRegtimeo
  THEN buf[b].age + 1 ELSE buf[b].age

Tick ==
  /\ cpu = None /\ \A a \in Agents : stack[a] = <<>>
  /\ attr' = [attr EXCEPT !.left = IF @ > 0 THEN @ - 1 ELSE 0]
  /\ buf' = [b \in Bufs |-> [buf[b] EXCEPT !.age = Older(b)]]
  /\ UNCHANGED <<outside, rdirty, lastr, queue, stack, cpu, ops, written, lost>>

(***************************************************************************)
(* A daemon that sleeps is killed.                                         *)
(***************************************************************************)
KillDaemon(d) ==
  /\ cpu = None /\ d \in live /\ stack[d] = <<>>
  /\ Cardinality(Daemons \ live) < MaxKills
  /\ live' = live \ {d}
  /\ UNCHANGED <<srv, mtime, buf, attr, rdirty, lastr, queue, stack, cpu, ops, written, lost, errors, foreign>>

-----------------------------------------------------------------------------
Step(a) ==
  \/ Fsync(a) \/ Bflush(a) \/ Blkflush(a)
  \/ Getattr(a) \/ GetattrReply(a) \/ Binvalfree(a)
  \/ NfsreadReply(a) \/ NfsreadDone(a) \/ NfswriteReply(a)
  \/ SleepBuf(a)

ProcStep(p) ==
  \/ Step(p)
  \/ Closed(p) \/ Breada(p) \/ Ahead(p) \/ Bread(p) \/ ModifyRead(p)
  \/ Copy(p) \/ Store(p) \/ StoreWhole(p)

ProcStart(p) ==
  \/ Open(p) \/ Close(p)
  \/ \E b \in Blocks : Read(p, b) \/ Write(p, b) \/ Modify(p, b)

DaemonStep(d) == Step(d) \/ AsyncDaemon(d)

Server(a) ==
  \/ RfsGetattr(a) \/ RfsReadAttr(a) \/ RfsReadData(a)
  \/ RfsWriteData(a) \/ RfsWriteAttr(a) \/ RfsWriteError(a)

Next ==
  \/ \E p \in Procs : ProcStep(p) \/ ProcStart(p)
  \/ \E d \in Daemons : DaemonStep(d) \/ KillDaemon(d)
  \/ \E a \in Agents : Server(a)
  \/ \E b \in Blocks : Foreign(b)
  \/ Tick

Spec == Init /\ [][Next]_vars

(***************************************************************************)
(* The scheduler runs every process that can run, and the server answers.  *)
(***************************************************************************)
FairSpec ==
  /\ Spec
  /\ \A p \in Procs : WF_vars(ProcStep(p))
  /\ \A d \in Daemons : WF_vars(DaemonStep(d))
  /\ \A a \in Agents : WF_vars(Server(a))

-----------------------------------------------------------------------------
(***************************************************************************)
(* Every buffer that is busy belongs to one call in progress or one entry  *)
(* of the daemons' queue, and to no other; nothing else is busy, queued or *)
(* delayed.  (getblk(), bflush(), binvalfree(), iodone() and brelse()      *)
(* agree on who has a buffer.)                                             *)
(***************************************************************************)
Frames(a) == {i \in 1 .. Len(stack[a]) :
                stack[a][i].pc \in {"nfsread", "nfswrite", "copy", "store"}}
Held(a, b) == {stack[a][i].b : i \in Frames(a)} \cap {b}
Holders(b) == {a \in Agents : Held(a, b) # {}}
Queued(b) == {i \in 1 .. Len(queue) : queue[i].b = b}

TypeOK ==
  /\ cpu \in Agents \cup {None} /\ live \subseteq Daemons /\ lost \subseteq Procs
  /\ attr.mtime <= mtime /\ attr.left \in 0 .. NfsacRegtimeo
  /\ \A b \in Bufs :
       /\ buf[b].busy => buf[b].in /\ ~buf[b].delwri
       /\ Cardinality(Holders(b)) + Cardinality(Queued(b)) = IF buf[b].busy THEN 1 ELSE 0

(***************************************************************************)
(* A read never returns what another client replaced nfsac_regtimeo or     *)
(* more seconds ago: rwvp() looks at the attributes of the file, which are *)
(* cached for that long, before it uses a buffer.                          *)
(***************************************************************************)
Returns(p, pcs) == Len(stack[p]) = 1 /\ Top(p).pc \in pcs /\ stack'[p] = <<>>
ReturnsFresh ==
  \A p \in Procs : Returns(p, {"bread", "copy"}) => buf[Top(p).b].age < NfsacRegtimeo

(***************************************************************************)
(* When a close is about to return, the server has everything the process  *)
(* has written, or has refused it: nfs_close() flushes synchronously.      *)
(***************************************************************************)
CloseFlushed ==
  \A p \in Procs : In(p, "closed") => \A b \in Blocks : p \in buf[b].by => p \in lost

(***************************************************************************)
(* What holds of several processes: what the server does not have yet,     *)
(* another process is flushing, in a nfs_fsync() that it began before and  *)
(* that has not got past the block.                                        *)
(***************************************************************************)
Flushing(q, b) ==
  \E i \in 1 .. Len(stack[q]) :
    \/ stack[q][i].pc = "bflush"
    \/ stack[q][i].pc = "blkflush" /\ stack[q][i].b <= b

CloseFlushedUnlessShared ==
  \A p \in Procs : In(p, "closed") =>
    \A b \in Blocks : p \in buf[b].by =>
      p \in lost \/ \E q \in Procs \ {p} : Flushing(q, b)

(***************************************************************************)
(* A close does not report success to a process whose data the server has  *)
(* refused.  nfs_close() returns r_error, which is always 0.               *)
(***************************************************************************)
ErrorReported == [][\A p \in Procs : Returns(p, {"closed"}) => p \notin lost]_vars

(***************************************************************************)
(* While a process is doing something with the file, somebody can go on:   *)
(* not everyone waits for a buffer that nobody will release.  An agent can *)
(* go on when the server is to answer it or it finds its buffer free, and  *)
(* a daemon that is alive when there is something in its queue.  When the  *)
(* daemons have been killed after a buffer was queued for them nobody      *)
(* takes it, and whoever wants that buffer waits; but nobody waits for     *)
(* anything else.                                                          *)
(***************************************************************************)
NobodyStuck ==
  (\E p \in Procs : stack[p] # <<>>) =>
    \/ \E a \in Agents : stack[a] # <<>> /\ ~(cpu # a /\ Waits(a))
    \/ queue # <<>> /\ live # {}
    \/ /\ live # Daemons
       /\ \A p \in Procs : stack[p] # <<>> => Queued(Top(p).b) # {}

(***************************************************************************)
(* Whatever a process does with the file comes to an end: nobody waits for *)
(* a buffer that nobody will release, or flushes for ever.                 *)
(***************************************************************************)
OpEnds == \A p \in Procs : (stack[p] # <<>>) ~> (stack[p] = <<>>)

(***************************************************************************)
(* A buffer that was given to the daemons is written or read in the end    *)
(* (async_daemon() takes what nfs_strategy() has queued).                  *)
(***************************************************************************)
QueueDrains == (queue # <<>>) ~> (queue = <<>>)
=============================================================================
