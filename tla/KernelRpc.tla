------------------------------ MODULE KernelRpc ------------------------------
(***************************************************************************)
(* Remote procedure calls of the kernel: rfscall(), clget() and clfree()   *)
(* of sys/nfs/nfs_subr.c, clntkudp_callit() of sys/rpc/clnt_kudp.c, the    *)
(* server loop of sys/rpc/svc.c and svc_kudp.c with its cache of           *)
(* transaction ids, and the operations of sys/nfs/nfs_server.c that change *)
(* a directory.                                                            *)
(*                                                                         *)
(* Messages are loaned buffers: an mbuf refers to the buffer of its client *)
(* handle or server process, which is busy until the mbuf is freed.  Over  *)
(* the network the interface copies the buffer when it transmits; over the *)
(* loop-back the mbuf itself arrives in the socket of the other side.      *)
(***************************************************************************)
EXTENDS Integers, Sequences, Bags, FiniteSets

CONSTANTS
  Procs,      \* client processes
  Nfsds,      \* server processes
  Calls,      \* bound: calls of each process
  Mounts,     \* the mounts, machines and networks that are looked at
  None

RECVTRIES == 2

VARIABLES
  call,         \* what each process is doing: see CallType
  inuse,        \* ch_inuse of each handle
  clwanted,
  timedout,     \* CKU_TIMEDOUT of each handle
  timer,        \* the handles ckuwakeup() is scheduled for
  rcv,          \* the receive queue of each handle's socket
  buf,          \* the contents of the buffers
  busy,         \* CKU_BUFBUSY and UD_BUSY: the buffers that are loaned
  clntkudpxid,
  ifq,          \* the client's interface queue
  net,          \* the bag of messages on the wire
  sq,           \* the receive queue of the server's socket
  nfsd,         \* what each server process is doing
  dupreqs,      \* the saved requests, least recently saved first
  registered,   \* the program is in the server's callout list
  files,        \* the names in the directory
  effects,      \* how often each call has changed the directory
  mnt           \* which of Mounts this behaviour is about, and the faults so far

(***************************************************************************)
(* A mount: the processes that use it, MAXCLIENTS, the operations they ask *)
(* for, the names in the directory at the start, mi_retrans, mi_hard,      *)
(* whether client and server are one machine, what may go wrong and how    *)
(* often (a bound), the backoffs after which a timeout exceeds the round   *)
(* trip, and MAXDUPREQS.                                                   *)
(***************************************************************************)
Users == Mounts[mnt.conf].users
NHandles == Mounts[mnt.conf].handles
Ops == Mounts[mnt.conf].ops
Files0 == Mounts[mnt.conf].files
Retrans == Mounts[mnt.conf].retrans
Hard == Mounts[mnt.conf].hard
Loopback == Mounts[mnt.conf].loopback
Faults == Mounts[mnt.conf].faults
MaxFaults == Mounts[mnt.conf].maxfaults
Patience == Mounts[mnt.conf].patience
DupMax == Mounts[mnt.conf].dupmax

Handles == 1 .. NHandles

ASSUME KernelRpcAssumption ==
  /\ Calls \in Nat /\ None \notin Nat \cup Nfsds /\ Nfsds \cap Nat = {}
  /\ \A i \in DOMAIN Mounts :
       LET m == Mounts[i]
       IN  /\ m.users \subseteq Procs /\ m.handles \in Nat \ {0} /\ m.retrans \in Nat \ {0}
           /\ m.hard \in BOOLEAN /\ m.loopback \in BOOLEAN /\ m.maxfaults \in Nat
           /\ m.faults \subseteq {"lose", "dup", "nobufs", "crash", "kill"}
           /\ m.patience \in Nat /\ m.dupmax \in Nat \ {0}
           /\ \A o \in m.ops : o.kind \in {"remove", "link", "rename", "symlink"}

client == <<call, inuse, clwanted, timedout, timer, clntkudpxid>>
server == <<sq, nfsd, dupreqs, registered, files, effects>>
vars == <<call, inuse, clwanted, timedout, timer, rcv, buf, busy, clntkudpxid,
          ifq, net, sq, nfsd, dupreqs, registered, files, effects, mnt>>

Ids == Procs \X (1 .. Calls)

Idle == [pc |-> "idle", h |-> None, xid |-> 0, op |-> None, n |-> 0,
         stries |-> 0, rtries |-> 0, lvl |-> 0, ret |-> None]

TypeOK ==
  /\ \A p \in Procs :
       /\ call[p].pc \in {"idle", "clget", "clsleep", "buf", "bufsleep", "recv",
                          "sleep", "awake"}
       /\ call[p].h \in Handles \cup {None} /\ call[p].n \in 0 .. Calls
       /\ call[p].stries \in 0 .. Retrans /\ call[p].rtries \in 0 .. RECVTRIES
       /\ call[p].h # None <=> call[p].pc \notin {"idle", "clget", "clsleep"}
       /\ call[p].h # None => inuse[call[p].h]
  /\ \A p, q \in Procs : call[p].h = call[q].h /\ p # q => call[p].h = None
  /\ inuse \in [Handles -> BOOLEAN] /\ timedout \in [Handles -> BOOLEAN]
  /\ timer \subseteq Handles /\ busy \subseteq Handles \cup Nfsds
  /\ Len(dupreqs) <= DupMax /\ mnt.faults \in 0 .. MaxFaults
  /\ \A n \in Nfsds : nfsd[n].pc \in {"idle", "iput", "send", "dead"}

Init ==
  /\ \E i \in DOMAIN Mounts : mnt = [conf |-> i, faults |-> 0]
  /\ call = [p \in Procs |-> Idle]
  /\ inuse = [h \in Handles |-> FALSE] /\ clwanted = FALSE
  /\ timedout = [h \in Handles |-> FALSE] /\ timer = {}
  /\ rcv = [h \in Handles |-> <<>>]
  /\ buf = [b \in Handles \cup Nfsds |-> None] /\ busy = {}
  /\ clntkudpxid = 1 /\ ifq = <<>> /\ net = EmptyBag /\ sq = <<>>
  /\ nfsd = [n \in Nfsds |-> [pc |-> "idle", req |-> None, in |-> None, rep |-> None]]
  /\ dupreqs = <<>> /\ registered = TRUE /\ files = Files0
  /\ effects = [i \in Ids |-> 0]

-----------------------------------------------------------------------------
\* Something goes wrong once more.
Fault(kind) ==
  /\ kind \in Faults /\ mnt.faults < MaxFaults
  /\ mnt' = [mnt EXCEPT !.faults = @ + 1]

\* Messages.  An mbuf is [own, msg]: the buffer it refers to, or None for a
\* copy, and what the buffer held when the mbuf was made.
Content(m) == IF m.own = None THEN m.msg ELSE buf[m.own]

\* The buffers that freeing the mbufs of a queue gives back: buffree().
Owners(q) == {q[i].own : i \in DOMAIN q} \ {None}

\* sbwakeup() of a handle's socket.
Sbwakeup(c, h) ==
  [p \in Procs |-> IF c[p].h = h /\ c[p].pc = "sleep"
                   THEN [c[p] EXCEPT !.pc = "awake"] ELSE c[p]]

\* Something of the call with this transaction id is still under way that may
\* become an answer.
InFlight(h, xid) ==
  \/ \E i \in DOMAIN ifq : Content(ifq[i]).xid = xid
  \/ \E d \in BagToSet(net) : d.msg.xid = xid
  \/ \E i \in DOMAIN sq : Content(sq[i]).xid = xid /\ \E n \in Nfsds : nfsd[n].pc # "dead"
  \/ \E n \in Nfsds : nfsd[n].req # None /\ nfsd[n].req.xid = xid
  \/ \E i \in DOMAIN rcv[h] : Content(rcv[h][i]).xid = xid

-----------------------------------------------------------------------------
\* The client.  Rfscall to Clget: a process asks for an operation.
Rfscall(p, op) ==
  /\ call[p].pc = "idle" /\ call[p].n < Calls /\ p \in Users
  /\ call' = [call EXCEPT ![p] = [Idle EXCEPT !.pc = "clget", !.op = op,
                                              !.n = call[p].n + 1]]
  /\ UNCHANGED <<inuse, clwanted, timedout, timer, rcv, buf, busy, clntkudpxid,
                 ifq, net, server, mnt>>

\* Entry of clntkudp_callit(): a new transaction id, all the tries.
Callit(c) ==
  [c EXCEPT !.xid = clntkudpxid, !.stries = Retrans, !.pc = "buf"]

\* A clget() that forgets to take the handle.
MutantClgetFound(p) ==
  /\ call[p].pc = "clget"
  /\ \E h \in Handles :
       /\ ~inuse[h]
       /\ timedout' = [timedout EXCEPT ![h] = FALSE]
       /\ busy' = busy \ {h}
       /\ call' = [call EXCEPT ![p] = Callit([@ EXCEPT !.h = h])]
  /\ clntkudpxid' = clntkudpxid + 1
  /\ UNCHANGED <<inuse, clwanted, timer, rcv, buf, ifq, net, server, mnt>>

\* clget() finds a handle; clntkudp_init() clears its flags.
ClgetFound(p) ==
  /\ call[p].pc = "clget"
  /\ \E h \in Handles :
       /\ ~inuse[h] /\ \A g \in 1 .. h - 1 : inuse[g]
       /\ inuse' = [inuse EXCEPT ![h] = TRUE]
       /\ timedout' = [timedout EXCEPT ![h] = FALSE]
       /\ busy' = busy \ {h}
       /\ call' = [call EXCEPT ![p] = Callit([@ EXCEPT !.h = h])]
  /\ clntkudpxid' = clntkudpxid + 1
  /\ UNCHANGED <<clwanted, timer, rcv, buf, ifq, net, server, mnt>>

ClgetSleep(p) ==
  /\ call[p].pc = "clget" /\ \A h \in Handles : inuse[h]
  /\ clwanted' = TRUE
  /\ call' = [call EXCEPT ![p].pc = "clsleep"]
  /\ UNCHANGED <<inuse, timedout, timer, rcv, buf, busy, clntkudpxid, ifq, net,
                 server, mnt>>

\* clfree(), with c what the processes do otherwise.
Clfree(c, h) ==
  /\ inuse' = [inuse EXCEPT ![h] = FALSE]
  /\ clwanted' = FALSE
  /\ call' = [q \in Procs |-> IF clwanted /\ c[q].pc = "clsleep"
                              THEN [c[q] EXCEPT !.pc = "clget"] ELSE c[q]]

\* re_errno: the send leaves zero there, and only some failures set it.
Errno(st) == CASE st = "TIMEDOUT" -> "ETIMEDOUT"
               [] st \in {"CANTRECV", "CANTSEND"} -> "EIO"
               [] OTHER -> "0"

\* The label done of clntkudp_callit() and the loop of rfscall() around it;
\* rep is the reply, or None.
Done(p, st, rep) ==
  LET c == call[p]
      later == [c EXCEPT !.lvl = IF @ < Patience THEN @ + 1 ELSE @]
  IN  CASE st # "SUCCESS" /\ c.stries > 1 ->
             /\ call' = [call EXCEPT ![p] = [later EXCEPT !.stries = @ - 1,
                                                          !.pc = "buf"]]
             /\ UNCHANGED <<inuse, clwanted, clntkudpxid>>
        [] st # "SUCCESS" /\ c.stries <= 1 /\ Hard ->
             /\ call' = [call EXCEPT ![p] = Callit(later)]
             /\ clntkudpxid' = clntkudpxid + 1
             /\ UNCHANGED <<inuse, clwanted>>
        [] OTHER ->
             /\ Clfree([call EXCEPT ![p] =
                          [Idle EXCEPT !.n = c.n, !.ret =
                             [st |-> st, errno |-> Errno(st),
                              nfs |-> IF st = "SUCCESS" THEN rep.nfs ELSE None,
                              id |-> IF st = "SUCCESS" THEN rep.id ELSE None,
                              done |-> effects[<<p, c.n>>]]]],
                       c.h)
             /\ UNCHANGED clntkudpxid

\* call_again: the buffer is loaned, and the process sleeps for it.
BufSleep(p) ==
  /\ call[p].pc = "buf" /\ call[p].h \in busy
  /\ call' = [call EXCEPT ![p].pc = "bufsleep"]
  /\ UNCHANGED <<inuse, clwanted, timedout, timer, rcv, buf, busy, clntkudpxid,
                 ifq, net, server, mnt>>

\* The sleep ends with buffree() or a second later; sbflush() in any case.
BufWake(p) ==
  /\ call[p].pc = "bufsleep"
  /\ call' = [call EXCEPT ![p].pc = "buf"]
  /\ rcv' = [rcv EXCEPT ![call[p].h] = <<>>]
  /\ busy' = busy \ Owners(rcv[call[p].h])
  /\ UNCHANGED <<inuse, clwanted, timedout, timer, buf, clntkudpxid, ifq, net,
                 server, mnt>>

\* The call is serialized into the buffer and ku_sendto_mbuf() sends it.
Send(p) ==
  LET c == call[p]
      msg == [xid |-> c.xid, h |-> c.h, op |-> c.op, id |-> <<p, c.n>>]
      mbuf == [own |-> c.h, msg |-> msg]
  IN  /\ c.pc = "buf" /\ c.h \notin busy
      /\ buf' = [buf EXCEPT ![c.h] = msg] /\ busy' = busy \cup {c.h}
      /\ IF Loopback THEN sq' = Append(sq, mbuf) /\ UNCHANGED ifq
                     ELSE ifq' = Append(ifq, mbuf) /\ UNCHANGED sq
      /\ call' = [call EXCEPT ![p].pc = "recv", ![p].rtries = RECVTRIES]
      /\ UNCHANGED <<inuse, clwanted, timedout, timer, rcv, clntkudpxid, net,
                     nfsd, dupreqs, registered, files, effects, mnt>>

\* There is no memory to send it: RPC_CANTSEND, and a wait for lbolt.
SendFails(p) ==
  /\ Fault("nobufs")
  /\ call[p].pc = "buf" /\ call[p].h \notin busy
  /\ Done(p, "CANTSEND", None)
  /\ UNCHANGED <<timedout, timer, rcv, buf, busy, ifq, net, server>>

\* A sleep without a timeout once the call has been sent again.
MutantRecvSleep(p) ==
  /\ call[p].pc = "recv" /\ rcv[call[p].h] = <<>>
  /\ timer' = IF call[p].lvl = 0 THEN timer \cup {call[p].h} ELSE timer
  /\ call' = [call EXCEPT ![p].pc = "sleep"]
  /\ UNCHANGED <<inuse, clwanted, timedout, rcv, buf, busy, clntkudpxid, ifq,
                 net, server, mnt>>

\* Nothing has come in: the timeout is set and the process sleeps.
RecvSleep(p) ==
  /\ call[p].pc = "recv" /\ rcv[call[p].h] = <<>>
  /\ timer' = timer \cup {call[p].h}
  /\ call' = [call EXCEPT ![p].pc = "sleep"]
  /\ UNCHANGED <<inuse, clwanted, timedout, rcv, buf, busy, clntkudpxid, ifq,
                 net, server, mnt>>

\* An untimeout() is forgotten.
MutantAwake(p) ==
  LET h == call[p].h
  IN  /\ call[p].pc = "awake"
      /\ IF timedout[h]
         THEN timedout' = [timedout EXCEPT ![h] = FALSE] /\ Done(p, "TIMEDOUT", None)
         ELSE /\ call' = [call EXCEPT ![p].pc = "recv"]
              /\ UNCHANGED <<inuse, clwanted, timedout, clntkudpxid>>
      /\ UNCHANGED <<timer, rcv, buf, busy, ifq, net, server, mnt>>

Awake(p) ==
  LET h == call[p].h
  IN  /\ call[p].pc = "awake"
      /\ timer' = timer \ {h}
      /\ IF timedout[h]
         THEN timedout' = [timedout EXCEPT ![h] = FALSE] /\ Done(p, "TIMEDOUT", None)
         ELSE /\ call' = [call EXCEPT ![p].pc = "recv"]
              /\ UNCHANGED <<inuse, clwanted, timedout, clntkudpxid>>
      /\ UNCHANGED <<rcv, buf, busy, ifq, net, server, mnt>>

\* A receive loop that takes whatever comes in.
MutantRecv(p) ==
  LET h == call[p].h
  IN  /\ call[p].pc = "recv" /\ rcv[h] # <<>>
      /\ rcv' = [rcv EXCEPT ![h] = <<>>] /\ busy' = busy \ Owners(rcv[h])
      /\ Done(p, Content(Head(rcv[h])).st, Content(Head(rcv[h])))
      /\ UNCHANGED <<timedout, timer, buf, ifq, net, server, mnt>>

\* A message is taken; the wrong transaction id costs a try, the right one
\* flushes the queue.
Recv(p) ==
  LET c == call[p]
      rep == Content(Head(rcv[c.h]))
      good == rep.xid = buf[c.h].xid
  IN  /\ c.pc = "recv" /\ rcv[c.h] # <<>>
      /\ rcv' = [rcv EXCEPT ![c.h] = IF good THEN <<>> ELSE Tail(@)]
      /\ busy' = busy \ Owners(IF good THEN rcv[c.h] ELSE <<Head(rcv[c.h])>>)
      /\ IF good THEN Done(p, rep.st, rep)
         ELSE IF c.rtries = 1 THEN Done(p, "CANTRECV", None)
         ELSE /\ call' = [call EXCEPT ![p].rtries = @ - 1]
              /\ UNCHANGED <<inuse, clwanted, clntkudpxid>>
      /\ UNCHANGED <<timedout, timer, buf, ifq, net, server, mnt>>

\* ckuwakeup(), from softclock().  After enough backoffs it comes only when
\* no answer can.
Ckuwakeup(h) ==
  /\ h \in timer
  /\ \A p \in Procs : call[p].h = h =>
       call[p].lvl < Patience \/ ~InFlight(h, call[p].xid)
  /\ timer' = timer \ {h}
  /\ timedout' = [timedout EXCEPT ![h] = TRUE]
  /\ call' = Sbwakeup(call, h)
  /\ UNCHANGED <<inuse, clwanted, rcv, buf, busy, clntkudpxid, ifq, net, server,
                 mnt>>

-----------------------------------------------------------------------------
\* The interface transmits: the buffer is copied and the mbuf freed.
Transmit ==
  /\ ifq # <<>>
  /\ net' = net (+) SetToBag({[to |-> 0, msg |-> Content(Head(ifq))]})
  /\ ifq' = Tail(ifq) /\ busy' = busy \ {Head(ifq).own}
  /\ UNCHANGED <<client, rcv, buf, server, mnt>>

\* A message arrives at the socket of a handle, or at the server's (0).
Arrive(d) ==
  IF d.to = 0
  THEN /\ sq' = Append(sq, [own |-> None, msg |-> d.msg])
       /\ UNCHANGED <<call, rcv>>
  ELSE /\ rcv' = [rcv EXCEPT ![d.to] = Append(@, [own |-> None, msg |-> d.msg])]
       /\ call' = Sbwakeup(call, d.to)
       /\ UNCHANGED sq

Deliver(d) ==
  /\ Arrive(d)
  /\ net' = net (-) SetToBag({d})
  /\ UNCHANGED <<inuse, clwanted, timedout, timer, buf, busy, clntkudpxid, ifq,
                 nfsd, dupreqs, registered, files, effects, mnt>>

Duplicate(d) ==
  /\ Fault("dup")
  /\ Arrive(d)
  /\ UNCHANGED <<inuse, clwanted, timedout, timer, buf, busy, clntkudpxid, ifq,
                 net, nfsd, dupreqs, registered, files, effects>>

Lose(d) ==
  /\ Fault("lose")
  /\ net' = net (-) SetToBag({d})
  /\ UNCHANGED <<client, rcv, buf, busy, ifq, server>>

-----------------------------------------------------------------------------
\* The server.  A saved request: svckudp_dup() compares the address too.
Key(req) == <<req.xid, req.h, req.op.kind>>
Dup(req) == \E i \in DOMAIN dupreqs : dupreqs[i] = Key(req)

\* svckudp_dupsave(): the least recently saved one is reused.
Dupsave(req) ==
  dupreqs' = Append(IF Len(dupreqs) < DupMax THEN dupreqs ELSE Tail(dupreqs),
                    Key(req))

\* What the operations do to the directory, and their errors.
RfsRemove(name) ==
  [files |-> files \ {name}, err |-> IF name \in files THEN "0" ELSE "ENOENT"]

RfsLink(name) ==
  [files |-> files \cup {name}, err |-> IF name \in files THEN "EEXIST" ELSE "0"]

RfsSymlink(name) == RfsLink(name)

RfsRename(name, to) ==
  IF name \in files THEN [files |-> (files \ {name}) \cup {to}, err |-> "0"]
                     ELSE [files |-> files, err |-> "ENOENT"]

\* rfs_dispatch()
RfsDispatch(op) ==
  CASE op.kind = "remove" -> RfsRemove(op.name)
    [] op.kind = "link" -> RfsLink(op.name)
    [] op.kind = "symlink" -> RfsSymlink(op.name)
    [] op.kind = "rename" -> RfsRename(op.name, op.to)

\* rfs_remove() and rfs_link() know of duplicates, like rfs_rmdir() and
\* rfs_mkdir(); rfs_rename() and rfs_symlink() do not.
ChecksDup(op) == op.kind \in {"remove", "link"}

\* A server that never looks for duplicates.
MutantDupCheck(req, err) == err

\* A server that takes the transaction id of any client for a duplicate.
MutantDupCheckAll(req, err) == IF ChecksDup(req.op) THEN "0" ELSE err

\* An error that a duplicate explains is none.
DupCheck(req, err) == IF err # "0" /\ ChecksDup(req.op) /\ Dup(req) THEN "0" ELSE err

Reply(req, st, err) == [xid |-> req.xid, st |-> st, nfs |-> err, id |-> req.id, h |-> req.h]

\* svc_run() and svc_getreq(): a request is received and the operation done.
\* One that succeeds may sleep before the request is saved; one for a program
\* that is not registered is refused, and its mbuf never freed.
SvcGetreq(n) ==
  LET m == Head(sq)
      req == Content(m)
      v == RfsDispatch(req.op)
      err == DupCheck(req, v.err)
  IN  /\ nfsd[n].pc = "idle" /\ sq # <<>>
      /\ sq' = Tail(sq)
      /\ IF ~registered
         THEN /\ nfsd' = [nfsd EXCEPT ![n] =
                            [pc |-> "send", req |-> req, in |-> None,
                             rep |-> Reply(req, "PROGUNAVAIL", None)]]
              /\ UNCHANGED <<files, effects>>
         ELSE /\ nfsd' = [nfsd EXCEPT ![n] =
                            [pc |-> "iput", req |-> req, in |-> m,
                             rep |-> Reply(req, "SUCCESS", err)]]
              /\ files' = v.files
              /\ effects' = IF v.err = "0" THEN [effects EXCEPT ![req.id] = @ + 1]
                                           ELSE effects
      /\ UNCHANGED <<client, rcv, buf, busy, ifq, net, dupreqs, registered, mnt>>

\* The end of the operation and SVC_FREEARGS().
RfsEnd(n) ==
  LET d == nfsd[n]
  IN  /\ d.pc = "iput"
      /\ IF d.rep.nfs = "0" /\ ChecksDup(d.req.op) THEN Dupsave(d.req)
                                                   ELSE UNCHANGED dupreqs
      /\ busy' = busy \ Owners(<<d.in>>)
      /\ nfsd' = [nfsd EXCEPT ![n].pc = "send", ![n].in = None]
      /\ UNCHANGED <<client, rcv, buf, ifq, net, sq, registered, files, effects,
                     mnt>>

\* svckudp_send(), once the server's buffer is free.
SvckudpSend(n) ==
  LET rep == nfsd[n].rep
  IN  /\ nfsd[n].pc = "send" /\ n \notin busy
      /\ buf' = [buf EXCEPT ![n] = rep]
      /\ nfsd' = [nfsd EXCEPT ![n].pc = "idle", ![n].req = None, ![n].rep = None]
      /\ IF Loopback
         THEN /\ busy' = busy \cup {n}
              /\ rcv' = [rcv EXCEPT ![rep.h] = Append(@, [own |-> n, msg |-> rep])]
              /\ call' = Sbwakeup(call, rep.h)
              /\ UNCHANGED net
         ELSE /\ net' = net (+) SetToBag({[to |-> rep.h, msg |-> rep]})
              /\ UNCHANGED <<busy, rcv, call>>
      /\ UNCHANGED <<inuse, clwanted, timedout, timer, clntkudpxid, ifq, sq,
                     dupreqs, registered, files, effects, mnt>>

\* A signal ends a server process that waits for input.
KillNfsd(n) ==
  /\ Fault("kill")
  /\ nfsd[n].pc = "idle" /\ sq = <<>>
  /\ nfsd' = [nfsd EXCEPT ![n].pc = "dead"]
  /\ registered' = FALSE
  /\ UNCHANGED <<client, rcv, buf, busy, ifq, net, sq, dupreqs, files, effects>>

\* The server crashes and comes back: the directory is all it has kept.
Crash ==
  /\ Fault("crash")
  /\ sq' = <<>> /\ dupreqs' = <<>> /\ registered' = TRUE
  /\ nfsd' = [n \in Nfsds |-> [pc |-> "idle", req |-> None, in |-> None, rep |-> None]]
  /\ UNCHANGED <<client, rcv, buf, busy, ifq, net, files, effects>>

-----------------------------------------------------------------------------
ClientStep(p) ==
  \/ ClgetFound(p) \/ ClgetSleep(p) \/ BufSleep(p) \/ BufWake(p) \/ Send(p)
  \/ RecvSleep(p) \/ Awake(p) \/ Recv(p)

ServerStep(n) == SvcGetreq(n) \/ RfsEnd(n) \/ SvckudpSend(n)

Next ==
  \/ \E p \in Procs : ClientStep(p) \/ SendFails(p) \/ \E op \in Ops : Rfscall(p, op)
  \/ \E h \in Handles : Ckuwakeup(h)
  \/ Transmit
  \/ \E d \in BagToSet(net) : Deliver(d) \/ Duplicate(d) \/ Lose(d)
  \/ \E n \in Nfsds : ServerStep(n) \/ KillNfsd(n)
  \/ Crash

(***************************************************************************)
(* Processes run, timeouts come, interfaces transmit and what the network  *)
(* does not lose it delivers.                                              *)
(***************************************************************************)
Spec ==
  /\ Init /\ [][Next]_vars
  /\ \A p \in Procs : WF_vars(ClientStep(p))
  /\ WF_vars(\E h \in Handles : Ckuwakeup(h))
  /\ WF_vars(Transmit) /\ WF_vars(\E d \in BagToSet(net) : Deliver(d))
  /\ \A n \in Nfsds : WF_vars(ServerStep(n))

-----------------------------------------------------------------------------
Returned(p) == call[p].pc = "idle" /\ call[p].n > 0
Id(p) == <<p, call[p].n>>

(***************************************************************************)
(* A call that succeeds returns the server's answer to this very call: no  *)
(* answer to an earlier call on the handle, late, duplicated or left in    *)
(* the socket by one that timed out, is taken for it.                      *)
(***************************************************************************)
AnswersItsCall ==
  \A p \in Procs : Returned(p) /\ call[p].ret.st = "SUCCESS" => call[p].ret.id = Id(p)

(***************************************************************************)
(* A call that did what it was asked to is not told that it could not: the *)
(* cache of transaction ids turns the error of a retransmission into the   *)
(* answer the first one had.  A crash of the server loses the cache, and a *)
(* hard mount starts again under a new transaction id.                     *)
(***************************************************************************)
NoFalseError ==
  ~Hard /\ "crash" \notin Faults => \A p \in Procs :
    Returned(p) /\ call[p].ret.st = "SUCCESS" /\ call[p].ret.nfs # "0"
      => call[p].ret.done = 0

\* A call told that all went well has been executed.
SuccessIsReal ==
  \A p \in Procs :
    Returned(p) /\ call[p].ret.st = "SUCCESS" /\ call[p].ret.nfs = "0"
      => call[p].ret.done > 0

\* A retransmission is not executed again.
ExecutedOnce == \A i \in Ids : effects[i] <= 1

\* What an mbuf refers to does not change while the mbuf is queued.
BufferStable == \A i \in DOMAIN ifq : ifq[i].msg = Content(ifq[i])

\* rfscall() returns no error only if the call succeeded.
FailureIsReported ==
  \A p \in Procs : Returned(p) /\ call[p].ret.errno = "0" => call[p].ret.st = "SUCCESS"

\* As long as a server process runs, the program is registered.
StillServed == (\E n \in Nfsds : nfsd[n].pc # "dead") => registered

(***************************************************************************)
(* No timeout is left for a handle whose process does not sleep for it: it *)
(* would time the next call out.                                           *)
(***************************************************************************)
NoStaleTimeout ==
  \A h \in timer : \E p \in Procs : call[p].h = h /\ call[p].pc \in {"sleep", "awake"}

\* What a call is told is true of this very call, and no timeout of another
\* one will end it.
AnswersAreTrue == TypeOK /\ AnswersItsCall /\ SuccessIsReal /\ NoStaleTimeout

\* A call comes to its end: it is not left in any of its sleeps, whatever the
\* network loses and however often the server crashes.
CallReturns == \A p \in Procs : call[p].pc # "idle" ~> call[p].pc = "idle"
=============================================================================
