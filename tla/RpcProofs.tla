------------------------------ MODULE RpcProofs ------------------------------
(***************************************************************************)
(* Remote procedure calls, for any processes, servers, mounts, calls and   *)
(* faults: what a call is told is the server's answer to this very call,   *)
(* and, under hypotheses, no call that was executed is told that it        *)
(* failed.                                                                 *)
(***************************************************************************)
EXTENDS KernelRpc, TLAPS

-----------------------------------------------------------------------------
(***************************************************************************)
(* What is in the messages and registers, for mount k.                     *)
(***************************************************************************)
Hs(k) == 1 .. Mounts[k].handles

Kinds == {"remove", "link", "rename", "symlink"}
Stats == {"SUCCESS", "PROGUNAVAIL", "TIMEDOUT", "CANTRECV", "CANTSEND"}
Errors == {"0", "ENOENT", "EEXIST", None}

Req(k) == [xid : Nat, h : Hs(k), op : Mounts[k].ops, id : Ids]
Rep(k) == [xid : Nat, st : Stats, nfs : Errors, id : Ids, h : Hs(k)]
ReqMbuf(k) == [own : Hs(k) \cup {None}, msg : Req(k)]
RepMbuf(k) == [own : Nfsds \cup {None}, msg : Rep(k)]
SavedKey(k) == Nat \X Hs(k) \X Kinds

Ret == [st : Stats, errno : {"0", "EIO", "ETIMEDOUT"}, nfs : Errors,
        id : Ids \cup {None}, done : Nat]

CallRec(k) ==
  [pc : {"idle", "clget", "clsleep", "buf", "bufsleep", "recv", "sleep", "awake"},
   h : Hs(k) \cup {None}, xid : Nat, op : Mounts[k].ops \cup {None}, n : 0 .. Calls,
   stries : 0 .. Mounts[k].retrans, rtries : 0 .. RECVTRIES, lvl : Nat,
   ret : Ret \cup {None}]

NfsdRec(k) ==
  [pc : {"idle", "iput", "send", "dead"}, req : Req(k) \cup {None},
   in : ReqMbuf(k) \cup {None}, rep : Rep(k) \cup {None}]

-----------------------------------------------------------------------------
(***************************************************************************)
(* The inductive invariant.  f is the history of clntkudpxid: which call   *)
(* of which process each transaction id was given to.                      *)
(***************************************************************************)

\* The call that xid was given to is i.
For(f, xid, i) == xid \in DOMAIN f /\ f[xid] = i

\* A request or a reply is about the call that its transaction id was given to,
\* and a reply says that all went well only if the call has been executed.
ReqOK(k, f, m) == m \in Req(k) /\ For(f, m.xid, m.id)
RepOK(k, f, e, m) ==
  /\ m \in Rep(k) /\ For(f, m.xid, m.id)
  /\ m.st = "SUCCESS" /\ m.nfs = "0" => e[m.id] > 0

\* The same of what the mbufs of a queue refer to, with b the buffers.
Says(b, m) == IF m.own = None THEN m.msg ELSE b[m.own]

Reqs(k, f, b, q) ==
  q \in Seq(ReqMbuf(k)) /\ \A i \in DOMAIN q : ReqOK(k, f, Says(b, q[i]))
Reps(k, f, e, b, q) ==
  q \in Seq(RepMbuf(k)) /\ \A i \in DOMAIN q : RepOK(k, f, e, Says(b, q[i]))

NetOK(k, f, e, N) ==
  \A d \in N : \/ d.to = 0 /\ ReqOK(k, f, d.msg)
               \/ d.to \in Hs(k) /\ RepOK(k, f, e, d.msg)

WireOK(k, f, e, r, b, i, N, s) ==
  /\ DOMAIN b = Hs(k) \cup Nfsds /\ NetOK(k, f, e, N)
  /\ Reqs(k, f, b, i) /\ Reqs(k, f, b, s)
  /\ DOMAIN r = Hs(k) /\ \A h \in Hs(k) : Reps(k, f, e, b, r[h])

\* A server process at work has a request and the reply to it.
NfsdOK(k, f, e, d) ==
  /\ d \in NfsdRec(k)
  /\ d.pc \in {"iput", "send"} =>
       /\ ReqOK(k, f, d.req) /\ RepOK(k, f, e, d.rep)
       /\ d.rep.xid = d.req.xid /\ d.rep.id = d.req.id
  /\ d.pc = "iput" => d.rep.st = "SUCCESS"

\* What is saved of a request has been executed.
DupOK(k, f, e, q) ==
  /\ q \in Seq(SavedKey(k)) /\ Len(q) <= Mounts[k].dupmax
  /\ \A i \in DOMAIN q : q[i][1] \in DOMAIN f /\ e[f[q[i][1]]] > 0

ServerOK(k, f, e, s, q) ==
  /\ e \in [Ids -> Nat] /\ DupOK(k, f, e, q)
  /\ DOMAIN s = Nfsds /\ \A n \in Nfsds : NfsdOK(k, f, e, s[n])

\* A process has a handle while it is in a call, and while it waits for the
\* answer the handle's buffer has its request.
Waiting == {"recv", "sleep", "awake"}
Outside == {"idle", "clget", "clsleep"}

ProcOK(k, f, b, u, p, c) ==
  /\ c \in CallRec(k)
  /\ c.h # None <=> c.pc \notin Outside
  /\ c.h # None => u[c.h]
  /\ c.pc # "idle" => c.n > 0 /\ c.op \in Mounts[k].ops
  /\ c.pc \in Waiting => /\ c.rtries > 0
                         /\ ReqOK(k, f, b[c.h]) /\ b[c.h].id = <<p, c.n>>
  /\ c.pc \notin Outside => For(f, c.xid, <<p, c.n>>)
  /\ c.pc = "idle" /\ c.n > 0 =>
       /\ c.ret \in Ret
       /\ c.ret.st = "SUCCESS" => /\ c.ret.id = <<p, c.n>>
                                  /\ c.ret.nfs = "0" => c.ret.done > 0

ClientOK(k, f, cl, u, t, b) ==
  /\ DOMAIN cl = Procs /\ u \in [Hs(k) -> BOOLEAN] /\ t \subseteq Hs(k)
  /\ \A p \in Procs : ProcOK(k, f, b, u, p, cl[p])
  /\ \A p, q \in Procs : p # q /\ cl[p].h = cl[q].h => cl[p].h = None
  /\ \A h \in t : \E p \in Procs : cl[p].h = h /\ cl[p].pc \in {"sleep", "awake"}

RestOK(k) ==
  /\ mnt \in [conf : DOMAIN Mounts, faults : Nat] /\ mnt.conf = k
  /\ mnt.faults <= Mounts[k].maxfaults
  /\ busy \subseteq Hs(k) \cup Nfsds
  /\ timedout \in [Hs(k) -> BOOLEAN] /\ clwanted \in BOOLEAN /\ clntkudpxid \in Nat \ {0}
  /\ registered \in BOOLEAN

\* clntkudpxid counts the transaction ids of f.
History(f) == f \in [1 .. clntkudpxid - 1 -> Ids]

Story(k, f) ==
  /\ History(f)
  /\ ClientOK(k, f, call, inuse, timer, buf)
  /\ WireOK(k, f, effects, rcv, buf, ifq, BagToSet(net), sq)
  /\ ServerOK(k, f, effects, nfsd, dupreqs)

IInv == RestOK(mnt.conf) /\ \E f \in [1 .. clntkudpxid - 1 -> Ids] : Story(mnt.conf, f)

-----------------------------------------------------------------------------
(***************************************************************************)
(* What is true stays true: transaction ids are given to calls, calls are  *)
(* executed, and neither is taken back.                                    *)
(***************************************************************************)
Extends(f, g) == \A x \in DOMAIN f : x \in DOMAIN g /\ g[x] = f[x]
Grows(e, g) == e \in [Ids -> Nat] /\ g \in [Ids -> Nat] /\ \A i \in Ids : e[i] > 0 => g[i] > 0

\* What a mount is.
LEMMA MountIs ==
  ASSUME NEW k \in DOMAIN Mounts
  PROVE  /\ Mounts[k].handles \in Nat \ {0} /\ Mounts[k].retrans \in Nat \ {0}
         /\ Mounts[k].dupmax \in Nat \ {0} /\ Mounts[k].users \subseteq Procs
         /\ Mounts[k].patience \in Nat /\ Mounts[k].maxfaults \in Nat
         /\ \A o \in Mounts[k].ops : o.kind \in Kinds
         /\ Calls \in Nat /\ None \notin Hs(k) \cup Nfsds /\ Hs(k) \cap Nfsds = {}
         /\ 0 \notin Hs(k)
  BY KernelRpcAssumption DEF Hs, Kinds

\* The mount in use.
LEMMA MountInUse ==
  ASSUME NEW k, RestOK(k)
  PROVE  /\ k \in DOMAIN Mounts /\ Handles = Hs(k) /\ Ops = Mounts[k].ops
         /\ Users = Mounts[k].users /\ Retrans = Mounts[k].retrans
         /\ MaxFaults = Mounts[k].maxfaults /\ DupMax = Mounts[k].dupmax
         /\ Patience = Mounts[k].patience
  BY DEF RestOK, Handles, NHandles, Hs, Ops, Users, Retrans, MaxFaults, DupMax, Patience

\* A message stays true.
LEMMA MessageGrows ==
  ASSUME NEW k, NEW f, NEW g, Extends(f, g), NEW e, NEW x, Grows(e, x), NEW m
  PROVE  /\ ReqOK(k, f, m) => ReqOK(k, g, m)
         /\ RepOK(k, f, e, m) => RepOK(k, g, x, m)
<1>1. ReqOK(k, f, m) => ReqOK(k, g, m)
  BY DEF ReqOK, For, Extends
<1>2. ASSUME RepOK(k, f, e, m) PROVE RepOK(k, g, x, m)
  <2>1. m \in Rep(k) /\ For(f, m.xid, m.id) /\ m.id \in Ids
    BY <1>2 DEF RepOK, Rep
  <2>2. For(g, m.xid, m.id)
    BY <2>1 DEF For, Extends
  <2>3. m.st = "SUCCESS" /\ m.nfs = "0" => x[m.id] > 0
    BY <1>2, <2>1 DEF RepOK, Grows
  <2>4. QED BY <2>1, <2>2, <2>3 DEF RepOK
<1>3. QED BY <1>1, <1>2

\* So do those in the queues, the buffers and the network.
LEMMA WireGrows ==
  ASSUME NEW k, NEW f, NEW g, Extends(f, g), NEW e, NEW x, Grows(e, x),
         NEW r, NEW b, NEW i, NEW N, NEW s, WireOK(k, f, e, r, b, i, N, s)
  PROVE  WireOK(k, g, x, r, b, i, N, s)
<1>1. \A m : /\ ReqOK(k, f, m) => ReqOK(k, g, m)
             /\ RepOK(k, f, e, m) => RepOK(k, g, x, m)
  BY MessageGrows
<1>3. NetOK(k, g, x, N)
  BY <1>1 DEF WireOK, NetOK
<1>4. Reqs(k, g, b, i) /\ Reqs(k, g, b, s)
  BY <1>1 DEF WireOK, Reqs
<1>5. \A h \in Hs(k) : Reps(k, g, x, b, r[h])
  BY <1>1 DEF WireOK, Reps
<1>6. QED BY <1>3, <1>4, <1>5 DEF WireOK

\* So does what the server has.
LEMMA NfsdGrows ==
  ASSUME NEW k, NEW f, NEW g, Extends(f, g), NEW e, NEW x, Grows(e, x), NEW d,
         NfsdOK(k, f, e, d)
  PROVE  NfsdOK(k, g, x, d)
<1>1. \A m : /\ ReqOK(k, f, m) => ReqOK(k, g, m)
             /\ RepOK(k, f, e, m) => RepOK(k, g, x, m)
  BY MessageGrows
<1>2. QED BY <1>1 DEF NfsdOK

\* What is saved of the requests stays true.
LEMMA DupGrows ==
  ASSUME NEW k, NEW f, NEW g, Extends(f, g), NEW e, NEW x, Grows(e, x), NEW q,
         f \in [DOMAIN f -> Ids], DupOK(k, f, e, q)
  PROVE  DupOK(k, g, x, q)
<1>1. ASSUME NEW i \in DOMAIN q PROVE q[i][1] \in DOMAIN g /\ x[g[q[i][1]]] > 0
  <2>1. q[i][1] \in DOMAIN f /\ e[f[q[i][1]]] > 0
    BY DEF DupOK
  <2>2. q[i][1] \in DOMAIN g /\ g[q[i][1]] = f[q[i][1]] /\ f[q[i][1]] \in Ids
    BY <2>1 DEF Extends
  <2>3. QED BY <2>1, <2>2 DEF Grows
<1>2. QED BY <1>1 DEF DupOK

\* All that the server has stays true.
LEMMA ServerGrows ==
  ASSUME NEW k, NEW f, NEW g, Extends(f, g), NEW e, NEW x, Grows(e, x), NEW s, NEW q,
         f \in [DOMAIN f -> Ids], ServerOK(k, f, e, s, q)
  PROVE  ServerOK(k, g, x, s, q)
<1>1. DupOK(k, g, x, q)
  BY DupGrows DEF ServerOK
<1>2. \A n \in Nfsds : NfsdOK(k, g, x, s[n])
  BY NfsdGrows DEF ServerOK
<1>3. QED BY <1>1, <1>2 DEF ServerOK, Grows

\* So is what a process is doing.
LEMMA ProcGrows ==
  ASSUME NEW k, NEW f, NEW g, Extends(f, g), NEW b, NEW u, NEW p, NEW c,
         ProcOK(k, f, b, u, p, c), NEW b2, NEW u2,
         c.h # None => b2[c.h] = b[c.h] /\ u2[c.h]
  PROVE  ProcOK(k, g, b2, u2, p, c)
<1>1. c.pc \notin Outside => For(g, c.xid, <<p, c.n>>)
  BY DEF ProcOK, For, Extends
<1>2. c.pc \in Waiting => c.h # None
  BY DEF ProcOK, Waiting, Outside
<1>3. c.pc \in Waiting => /\ c.rtries > 0
                         /\ ReqOK(k, g, b2[c.h]) /\ b2[c.h].id = <<p, c.n>>
  <2>1. ReqOK(k, f, b[c.h]) => ReqOK(k, g, b[c.h])
    BY DEF ReqOK, For, Extends
  <2>2. QED BY <1>2, <2>1 DEF ProcOK
<1>4. QED BY <1>1, <1>3 DEF ProcOK

-----------------------------------------------------------------------------
(***************************************************************************)
(* The client.                                                             *)
(***************************************************************************)

\* Process c becomes d: nothing happens to it, or a wakeup() does.
Woken(c, d) ==
  \/ d = c
  \/ c.pc = "clsleep" /\ d = [c EXCEPT !.pc = "clget"]
  \/ c.pc = "sleep" /\ d = [c EXCEPT !.pc = "awake"]

\* What is true of a process is true when it is woken.
LEMMA WokenOK ==
  ASSUME NEW k, NEW f, NEW b, NEW u, NEW p, NEW c, ProcOK(k, f, b, u, p, c), NEW d,
         Woken(c, d)
  PROVE  /\ ProcOK(k, f, b, u, p, d) /\ d.h = c.h
         /\ c.pc \in {"sleep", "awake"} => d.pc \in {"sleep", "awake"}
<1>1. c \in CallRec(k)
  BY DEF ProcOK
<1>2. CASE d = c
  BY <1>2
<1>3. CASE c.pc = "clsleep" /\ d = [c EXCEPT !.pc = "clget"]
  <2>1. /\ d \in CallRec(k) /\ d.pc = "clget" /\ d.h = c.h /\ d.n = c.n /\ d.op = c.op
    BY <1>1, <1>3 DEF CallRec
  <2>2. QED BY <1>3, <2>1 DEF ProcOK, Outside, Waiting
<1>4. CASE c.pc = "sleep" /\ d = [c EXCEPT !.pc = "awake"]
  <2>1. /\ d \in CallRec(k) /\ d.pc = "awake" /\ d.h = c.h /\ d.n = c.n /\ d.op = c.op
        /\ d.xid = c.xid /\ d.rtries = c.rtries
    BY <1>1, <1>4 DEF CallRec
  <2>2. QED BY <1>4, <2>1 DEF ProcOK, Outside, Waiting
<1>5. QED BY <1>2, <1>3, <1>4 DEF Woken

\* Wakeups disturb nobody.
LEMMA ClientWakes ==
  ASSUME NEW k, NEW f, NEW cl, NEW u, NEW t, NEW b, ClientOK(k, f, cl, u, t, b),
         NEW cl2, DOMAIN cl2 = Procs, \A q \in Procs : Woken(cl[q], cl2[q]),
         NEW t2, t2 \subseteq t, NEW b2, \A h \in Hs(k) : b2[h] = b[h]
  PROVE  ClientOK(k, f, cl2, u, t2, b2)
<1>1. \A q \in Procs :
        /\ ProcOK(k, f, b, u, q, cl2[q]) /\ cl2[q].h = cl[q].h
        /\ cl[q].pc \in {"sleep", "awake"} => cl2[q].pc \in {"sleep", "awake"}
  BY WokenOK DEF ClientOK
<1>2. ASSUME NEW q \in Procs PROVE ProcOK(k, f, b2, u, q, cl2[q])
  <2> DEFINE c == cl2[q]
  <2>1. ProcOK(k, f, b, u, q, c)
    BY <1>1
  <2> HIDE DEF c
  <2>2. c.h # None => b2[c.h] = b[c.h] /\ u[c.h]
    BY <2>1 DEF ProcOK, CallRec
  <2>3. Extends(f, f)
    BY DEF Extends
  <2>4. ProcOK(k, f, b2, u, q, c)
    BY <2>1, <2>2, <2>3, ProcGrows
  <2>5. QED BY <2>4 DEF c
<1>3. QED BY <1>1, <1>2 DEF ClientOK

\* Process p takes a step, and others may be woken.
LEMMA ClientMoves ==
  ASSUME NEW k \in DOMAIN Mounts, NEW f, NEW g, Extends(f, g), NEW cl, NEW u, NEW t, NEW b,
         ClientOK(k, f, cl, u, t, b), NEW p \in Procs,
         NEW cl2, DOMAIN cl2 = Procs, \A q \in Procs \ {p} : Woken(cl[q], cl2[q]),
         NEW u2 \in [Hs(k) -> BOOLEAN], NEW b2, ProcOK(k, g, b2, u2, p, cl2[p]),
         \A h \in Hs(k) : h # cl[p].h /\ h # cl2[p].h => u2[h] = u[h] /\ b2[h] = b[h],
         \/ cl2[p].h = cl[p].h
         \/ cl2[p].h = None
         \/ ~u[cl2[p].h],
         NEW t2, \A h \in t2 : \/ h \in t /\ h # cl[p].h
                               \/ h = cl2[p].h /\ cl2[p].h # None
                                    /\ cl2[p].pc \in {"sleep", "awake"}
  PROVE  ClientOK(k, g, cl2, u2, t2, b2)
<1>1. \A q \in Procs \ {p} :
        /\ ProcOK(k, f, b, u, q, cl2[q]) /\ cl2[q].h = cl[q].h
        /\ cl[q].pc \in {"sleep", "awake"} => cl2[q].pc \in {"sleep", "awake"}
  BY WokenOK DEF ClientOK
<1>2. ASSUME NEW q \in Procs \ {p}
      PROVE  cl2[q].h # None => /\ cl2[q].h \in Hs(k) /\ u[cl2[q].h]
                                /\ cl2[q].h # cl[p].h /\ cl2[q].h # cl2[p].h
  <2>1. cl2[q].h # None => cl2[q].h \in Hs(k) /\ u[cl2[q].h]
    BY <1>1 DEF ProcOK, CallRec
  <2>2. cl2[q].h # None => cl2[q].h # cl[p].h
    BY <1>1 DEF ClientOK
  <2>3. QED BY <2>1, <2>2
<1>3. ASSUME NEW q \in Procs \ {p} PROVE ProcOK(k, g, b2, u2, q, cl2[q])
  <2> DEFINE c == cl2[q]
  <2>1. ProcOK(k, f, b, u, q, c)
    BY <1>1
  <2>2. c.h # None => b2[c.h] = b[c.h] /\ u2[c.h]
    BY <1>2
  <2> HIDE DEF c
  <2>3. ProcOK(k, g, b2, u2, q, c)
    BY <2>1, <2>2, ProcGrows
  <2>4. QED BY <2>3 DEF c
<1>4. \A q, x \in Procs : q # x /\ cl2[q].h = cl2[x].h => cl2[q].h = None
  <2>1. \A q \in Procs \ {p} : cl2[q].h = cl2[p].h => cl2[q].h = None
    BY <1>2
  <2>2. \A q, x \in Procs \ {p} : q # x /\ cl2[q].h = cl2[x].h => cl2[q].h = None
    BY <1>1 DEF ClientOK
  <2>3. QED BY <2>1, <2>2
<1>5. t2 \subseteq Hs(k)
  BY DEF ClientOK, ProcOK, CallRec
<1>6. ASSUME NEW h \in t2
      PROVE  \E q \in Procs : cl2[q].h = h /\ cl2[q].pc \in {"sleep", "awake"}
  <2>1. CASE h \in t /\ h # cl[p].h
    <3>1. PICK q \in Procs : cl[q].h = h /\ cl[q].pc \in {"sleep", "awake"}
      BY <2>1 DEF ClientOK
    <3>2. QED BY <1>1, <2>1, <3>1
  <2>2. CASE h = cl2[p].h /\ cl2[p].pc \in {"sleep", "awake"}
    BY <2>2
  <2>3. QED BY <2>1, <2>2
<1>7. QED BY <1>3, <1>4, <1>5, <1>6 DEF ClientOK

\* One more fault is within the bound.
LEMMA FaultOK ==
  ASSUME NEW k, RestOK(k), NEW kind, Fault(kind)
  PROVE  /\ mnt' \in [conf : DOMAIN Mounts, faults : Nat] /\ mnt'.conf = k
         /\ mnt'.faults <= Mounts[k].maxfaults
<1>1. /\ k \in DOMAIN Mounts /\ MaxFaults = Mounts[k].maxfaults
      /\ Mounts[k].maxfaults \in Nat
  BY MountInUse, MountIs
<1>2. /\ mnt \in [conf : DOMAIN Mounts, faults : Nat] /\ mnt.conf = k
      /\ mnt.faults < Mounts[k].maxfaults /\ mnt' = [mnt EXCEPT !.faults = @ + 1]
  BY <1>1 DEF RestOK, Fault
<1>3. mnt.faults \in Nat
  BY <1>2
<1>4. QED BY <1>1, <1>2, <1>3

\* clntkudp_callit() takes the next transaction id.
LEMMA NextId ==
  ASSUME NEW k, RestOK(k), NEW f, History(f), NEW i \in Ids
  PROVE  \E g \in [1 .. (clntkudpxid + 1) - 1 -> Ids] :
           Extends(f, g) /\ For(g, clntkudpxid, i)
<1> DEFINE x == clntkudpxid
           g == [y \in 1 .. (x + 1) - 1 |-> IF y = x THEN i ELSE f[y]]
<1>1. x \in Nat \ {0}
  BY DEF RestOK
<1>2. f \in [1 .. x - 1 -> Ids]
  BY DEF History
<1> HIDE DEF x
<1>3. g \in [1 .. (x + 1) - 1 -> Ids]
  BY <1>1, <1>2
<1>4. Extends(f, g) /\ For(g, x, i)
  BY <1>1, <1>2 DEF Extends, For
<1>5. QED BY <1>3, <1>4 DEF x

\* The step that leaves the parts of the invariant true leaves it true.
LEMMA Finish ==
  ASSUME NEW k, RestOK(k)', NEW g \in [1 .. clntkudpxid' - 1 -> Ids],
         ClientOK(k, g, call', inuse', timer', buf'),
         WireOK(k, g, effects', rcv', buf', ifq', BagToSet(net'), sq'),
         ServerOK(k, g, effects', nfsd', dupreqs')
  PROVE  IInv'
<1>1. mnt'.conf = k
  BY DEF RestOK
<1>2. Story(k, g)'
  BY DEF Story, History
<1>3. QED BY <1>1, <1>2 DEF IInv

\* No timeout is set for a process that does not sleep with one.
LEMMA NotTimed ==
  ASSUME NEW k \in DOMAIN Mounts, NEW f, NEW cl, NEW u, NEW t, NEW b,
         ClientOK(k, f, cl, u, t, b), NEW p \in Procs, cl[p].pc \notin {"sleep", "awake"}
  PROVE  \A h \in t : h # cl[p].h
<1> SUFFICES ASSUME NEW h \in t PROVE h # cl[p].h
  OBVIOUS
<1>1. PICK q \in Procs : cl[q].h = h /\ cl[q].pc \in {"sleep", "awake"}
  BY DEF ClientOK
<1>2. q # p /\ h # None
  BY <1>1, MountIs DEF ClientOK
<1>3. QED BY <1>1, <1>2 DEF ClientOK

\* Only process p, and nothing it shares, changes.
LEMMA OnlyCall ==
  ASSUME NEW k, RestOK(k), NEW f, Story(k, f), NEW p \in Procs, NEW c,
         call' = [call EXCEPT ![p] = c], c.h = call[p].h, clwanted' \in BOOLEAN,
         UNCHANGED <<inuse, timedout, timer, rcv, buf, busy, clntkudpxid, ifq, net,
                     server, mnt>>,
         ProcOK(k, f, buf, inuse, p, c),
         call[p].pc \notin {"sleep", "awake"}
  PROVE  IInv'
<1>1. /\ inuse' = inuse /\ timedout' = timedout /\ timer' = timer /\ rcv' = rcv
      /\ buf' = buf /\ busy' = busy /\ clntkudpxid' = clntkudpxid /\ ifq' = ifq
      /\ net' = net /\ sq' = sq /\ nfsd' = nfsd /\ dupreqs' = dupreqs
      /\ registered' = registered /\ effects' = effects /\ mnt' = mnt
  BY DEF server
<1>2. ClientOK(k, f, call, inuse, timer, buf) /\ k \in DOMAIN Mounts
  BY MountInUse DEF Story
<1>3. /\ DOMAIN call' = Procs /\ call'[p] = c /\ \A q \in Procs \ {p} : call'[q] = call[q]
  BY <1>2 DEF ClientOK
<1>4. \A h \in timer : h # call[p].h
  BY <1>2, NotTimed
<1>5. ClientOK(k, f, call', inuse, timer, buf)
  <2> DEFINE D == call'
  <2>1. /\ DOMAIN D = Procs /\ D[p] = c /\ \A q \in Procs \ {p} : Woken(call[q], D[q])
    BY <1>3 DEF Woken
  <2> HIDE DEF D
  <2>2. Extends(f, f) /\ inuse \in [Hs(k) -> BOOLEAN]
    BY <1>2 DEF Extends, ClientOK
  <2>3. ClientOK(k, f, D, inuse, timer, buf)
    BY <1>2, <1>4, <2>1, <2>2, ClientMoves
  <2>4. QED BY <2>3 DEF D
<1>6. RestOK(k)'
  BY <1>1 DEF RestOK
<1>7. QED BY <1>1, <1>5, <1>6, Finish DEF Story, History

\* An operation is asked for.
LEMMA RfscallKeeps ==
  ASSUME IInv, NEW p \in Procs, NEW op \in Ops, Rfscall(p, op)
  PROVE  IInv'
<1> DEFINE k == mnt.conf
           n == call[p].n
           c == [Idle EXCEPT !.pc = "clget", !.op = op, !.n = n + 1]
<1>1. PICK f : Story(k, f)
  BY DEF IInv
<1>2. RestOK(k) /\ k \in DOMAIN Mounts /\ op \in Mounts[k].ops
  BY MountInUse DEF IInv
<1>3. ClientOK(k, f, call, inuse, timer, buf) /\ ProcOK(k, f, buf, inuse, p, call[p])
  BY <1>1 DEF Story, ClientOK
<1>4. call[p].pc = "idle" /\ n < Calls /\ call' = [call EXCEPT ![p] = c]
  BY DEF Rfscall
<1>5. n \in 0 .. Calls /\ call[p].h = None /\ Calls \in Nat /\ Mounts[k].retrans \in Nat
  BY <1>2, <1>3, <1>4, MountIs DEF ProcOK, CallRec, Outside
<1>6. c.h = None /\ c.pc = "clget" /\ c.n = n + 1 /\ c.op = op /\ c \in CallRec(k)
  <2> DEFINE m == n + 1
  <2>1. m \in 0 .. Calls
    BY <1>4, <1>5
  <2>2. Idle \in CallRec(k) /\ Idle.h = None
    BY <1>5 DEF Idle, CallRec, RECVTRIES
  <2>3. c.h = None /\ c.pc = "clget" /\ c.n = m /\ c.op = op /\ c \in CallRec(k)
    <3>1. c = [Idle EXCEPT !.pc = "clget", !.op = op, !.n = m]
      OBVIOUS
    <3> HIDE DEF m, c, k
    <3>2. QED BY <1>2, <2>1, <2>2, <3>1 DEF CallRec
  <2>4. QED BY <2>3 DEF m
<1>7. UNCHANGED <<inuse, clwanted, timedout, timer, rcv, buf, busy, clntkudpxid, ifq, net,
                  server, mnt>>
  BY DEF Rfscall
<1> HIDE DEF c, n, k
<1>8. ProcOK(k, f, buf, inuse, p, c)
  BY <1>2, <1>5, <1>6 DEF ProcOK, Outside, Waiting
<1>9. clwanted' \in BOOLEAN
  BY <1>2, <1>7 DEF RestOK
<1>10. QED BY <1>1, <1>2, <1>4, <1>5, <1>6, <1>7, <1>8, <1>9, OnlyCall

\* No handle is free.
LEMMA ClgetSleepKeeps ==
  ASSUME IInv, NEW p \in Procs, ClgetSleep(p)
  PROVE  IInv'
<1> DEFINE k == mnt.conf
           c == [call[p] EXCEPT !.pc = "clsleep"]
<1>1. PICK f : Story(k, f)
  BY DEF IInv
<1>2. RestOK(k)
  BY DEF IInv
<1>3. ProcOK(k, f, buf, inuse, p, call[p]) /\ DOMAIN call = Procs
  BY <1>1 DEF Story, ClientOK
<1>4. call[p].pc = "clget" /\ call' = [call EXCEPT ![p] = c] /\ clwanted' = TRUE
  BY <1>3 DEF ClgetSleep
<1>5. UNCHANGED <<inuse, timedout, timer, rcv, buf, busy, clntkudpxid, ifq, net,
                  server, mnt>>
  BY DEF ClgetSleep
<1>6. /\ c.h = call[p].h /\ c.pc = "clsleep" /\ c.n = call[p].n /\ c.op = call[p].op
      /\ c \in CallRec(k)
  BY <1>3 DEF ProcOK, CallRec
<1> HIDE DEF c, k
<1>7. ProcOK(k, f, buf, inuse, p, c)
  BY <1>3, <1>4, <1>6 DEF ProcOK, Outside, Waiting
<1>8. QED BY <1>1, <1>2, <1>4, <1>5, <1>6, <1>7, OnlyCall

\* The buffer is loaned.
LEMMA BufSleepKeeps ==
  ASSUME IInv, NEW p \in Procs, BufSleep(p)
  PROVE  IInv'
<1> DEFINE k == mnt.conf
           c == [call[p] EXCEPT !.pc = "bufsleep"]
<1>1. PICK f : Story(k, f)
  BY DEF IInv
<1>2. RestOK(k)
  BY DEF IInv
<1>3. ProcOK(k, f, buf, inuse, p, call[p]) /\ DOMAIN call = Procs
  BY <1>1 DEF Story, ClientOK
<1>4. call[p].pc = "buf" /\ call' = [call EXCEPT ![p] = c]
  BY <1>3 DEF BufSleep
<1>5. UNCHANGED <<inuse, clwanted, timedout, timer, rcv, buf, busy, clntkudpxid, ifq, net,
                  server, mnt>>
  BY DEF BufSleep
<1>6. /\ c.h = call[p].h /\ c.pc = "bufsleep" /\ c.n = call[p].n /\ c.xid = call[p].xid
      /\ c.op = call[p].op /\ c \in CallRec(k)
  BY <1>3 DEF ProcOK, CallRec
<1> HIDE DEF c, k
<1>7. ProcOK(k, f, buf, inuse, p, c)
  BY <1>3, <1>4, <1>6 DEF ProcOK, Outside, Waiting
<1>8. clwanted' \in BOOLEAN
  BY <1>2, <1>5 DEF RestOK
<1>9. QED BY <1>1, <1>2, <1>4, <1>5, <1>6, <1>7, <1>8, OnlyCall

-----------------------------------------------------------------------------
(***************************************************************************)
(* The queues and the buffers.                                             *)
(***************************************************************************)

\* What a sequence of a set holds is in the set.
LEMMA ElementOf ==
  ASSUME NEW R, NEW q \in Seq(R), NEW j \in DOMAIN q
  PROVE  q[j] \in R
OBVIOUS

\* A queue of requests that one is appended to, or taken from.
LEMMA ReqsAppend ==
  ASSUME NEW k, NEW f, NEW b, NEW q, Reqs(k, f, b, q), NEW m \in ReqMbuf(k),
         ReqOK(k, f, Says(b, m))
  PROVE  Reqs(k, f, b, Append(q, m))
<1> DEFINE R == ReqMbuf(k)
<1>1. q \in Seq(R) /\ \A i \in DOMAIN q : ReqOK(k, f, Says(b, q[i]))
  BY DEF Reqs
<1> HIDE DEF R
<1>2. /\ Append(q, m) \in Seq(R)
      /\ \A i \in DOMAIN Append(q, m) : (i \in DOMAIN q /\ Append(q, m)[i] = q[i]) \/ Append(q, m)[i] = m
  <2>1. m \in R
    BY DEF R
  <2>2. QED BY <1>1, <2>1
<1>3. \A i \in DOMAIN Append(q, m) : ReqOK(k, f, Says(b, Append(q, m)[i]))
  BY <1>1, <1>2
<1>4. QED BY <1>2, <1>3 DEF Reqs, R

\* The first request of a queue, and the rest.
LEMMA ReqsTail ==
  ASSUME NEW k, NEW f, NEW b, NEW q, Reqs(k, f, b, q), q # <<>>
  PROVE  /\ Reqs(k, f, b, Tail(q)) /\ Head(q) \in ReqMbuf(k)
         /\ ReqOK(k, f, Says(b, Head(q)))
<1> DEFINE R == ReqMbuf(k)
<1>1. q \in Seq(R) /\ \A i \in DOMAIN q : ReqOK(k, f, Says(b, q[i]))
  BY DEF Reqs
<1> HIDE DEF R
<1>2. /\ Tail(q) \in Seq(R) /\ Head(q) \in R /\ 1 \in DOMAIN q /\ Head(q) = q[1]
      /\ \A i \in DOMAIN Tail(q) : i + 1 \in DOMAIN q /\ Tail(q)[i] = q[i + 1]
  BY <1>1
<1>3. \A i \in DOMAIN Tail(q) : ReqOK(k, f, Says(b, Tail(q)[i]))
  BY <1>1, <1>2
<1>4. ReqOK(k, f, Says(b, Head(q)))
  BY <1>1, <1>2
<1>5. QED BY <1>2, <1>3, <1>4 DEF Reqs, R

\* A queue of replies.
LEMMA RepsAppend ==
  ASSUME NEW k, NEW f, NEW e, NEW b, NEW q, Reps(k, f, e, b, q), NEW m \in RepMbuf(k),
         RepOK(k, f, e, Says(b, m))
  PROVE  Reps(k, f, e, b, Append(q, m))
<1> DEFINE R == RepMbuf(k)
<1>1. q \in Seq(R) /\ \A i \in DOMAIN q : RepOK(k, f, e, Says(b, q[i]))
  BY DEF Reps
<1> HIDE DEF R
<1>2. /\ Append(q, m) \in Seq(R)
      /\ \A i \in DOMAIN Append(q, m) : (i \in DOMAIN q /\ Append(q, m)[i] = q[i]) \/ Append(q, m)[i] = m
  <2>1. m \in R
    BY DEF R
  <2>2. QED BY <1>1, <2>1
<1>3. \A i \in DOMAIN Append(q, m) : RepOK(k, f, e, Says(b, Append(q, m)[i]))
  BY <1>1, <1>2
<1>4. QED BY <1>2, <1>3 DEF Reps, R

\* The first reply of a queue, and the rest.
LEMMA RepsTail ==
  ASSUME NEW k, NEW f, NEW e, NEW b, NEW q, Reps(k, f, e, b, q), q # <<>>
  PROVE  /\ Reps(k, f, e, b, Tail(q)) /\ Head(q) \in RepMbuf(k)
         /\ RepOK(k, f, e, Says(b, Head(q)))
<1> DEFINE R == RepMbuf(k)
<1>1. q \in Seq(R) /\ \A i \in DOMAIN q : RepOK(k, f, e, Says(b, q[i]))
  BY DEF Reps
<1> HIDE DEF R
<1>2. /\ Tail(q) \in Seq(R) /\ Head(q) \in R /\ 1 \in DOMAIN q /\ Head(q) = q[1]
      /\ \A i \in DOMAIN Tail(q) : i + 1 \in DOMAIN q /\ Tail(q)[i] = q[i + 1]
  BY <1>1
<1>3. \A i \in DOMAIN Tail(q) : RepOK(k, f, e, Says(b, Tail(q)[i]))
  BY <1>1, <1>2
<1>4. RepOK(k, f, e, Says(b, Head(q)))
  BY <1>1, <1>2
<1>5. QED BY <1>2, <1>3, <1>4 DEF Reps, R

\* An empty queue.
LEMMA NoMbufs ==
  ASSUME NEW k, NEW f, NEW e, NEW b
  PROVE  Reqs(k, f, b, <<>>) /\ Reps(k, f, e, b, <<>>)
BY DEF Reqs, Reps

\* A handle's buffer is filled again: what still refers to it says what is true.
LEMMA BufReq ==
  ASSUME NEW k \in DOMAIN Mounts, NEW f, NEW e, NEW r, NEW b, NEW i, NEW N, NEW s,
         WireOK(k, f, e, r, b, i, N, s), NEW x \in Hs(k), NEW m, ReqOK(k, f, m)
  PROVE  WireOK(k, f, e, r, [b EXCEPT ![x] = m], i, N, s)
<1> DEFINE B == [b EXCEPT ![x] = m]
<1>1. DOMAIN B = Hs(k) \cup Nfsds /\ DOMAIN b = Hs(k) \cup Nfsds
  BY DEF WireOK
<1>2. B[x] = m /\ \A y : y # x => B[y] = b[y]
  BY <1>1
<1>3. \A y \in Nfsds \cup {None} : y # x
  BY MountIs
<1> HIDE DEF B
<1>4. ASSUME NEW q, Reqs(k, f, b, q) PROVE Reqs(k, f, B, q)
  <2>1. q \in Seq(ReqMbuf(k)) /\ \A j \in DOMAIN q : ReqOK(k, f, Says(b, q[j]))
    BY <1>4 DEF Reqs
  <2>2. \A j \in DOMAIN q : ReqOK(k, f, Says(B, q[j]))
    BY <1>2, <2>1 DEF Says
  <2>3. QED BY <2>1, <2>2 DEF Reqs
<1>5. ASSUME NEW q, Reps(k, f, e, b, q) PROVE Reps(k, f, e, B, q)
  <2>1. q \in Seq(RepMbuf(k)) /\ \A j \in DOMAIN q : RepOK(k, f, e, Says(b, q[j]))
    BY <1>5 DEF Reps
  <2>2. \A j \in DOMAIN q : q[j].own # x
    <3>1. \A j \in DOMAIN q : q[j] \in RepMbuf(k)
      BY <2>1, ElementOf
    <3>2. QED BY <1>3, <3>1 DEF RepMbuf
  <2>3. \A j \in DOMAIN q : RepOK(k, f, e, Says(B, q[j]))
    BY <1>2, <2>1, <2>2 DEF Says
  <2>4. QED BY <2>1, <2>3 DEF Reps
<1>6. WireOK(k, f, e, r, B, i, N, s)
  BY <1>1, <1>4, <1>5 DEF WireOK
<1>7. QED BY <1>6 DEF B

\* So does a server's buffer.
LEMMA BufRep ==
  ASSUME NEW k \in DOMAIN Mounts, NEW f, NEW e, NEW r, NEW b, NEW i, NEW N, NEW s,
         WireOK(k, f, e, r, b, i, N, s), NEW x \in Nfsds, NEW m, RepOK(k, f, e, m)
  PROVE  WireOK(k, f, e, r, [b EXCEPT ![x] = m], i, N, s)
<1> DEFINE B == [b EXCEPT ![x] = m]
<1>1. DOMAIN B = Hs(k) \cup Nfsds /\ DOMAIN b = Hs(k) \cup Nfsds
  BY DEF WireOK
<1>2. B[x] = m /\ \A y : y # x => B[y] = b[y]
  BY <1>1
<1>3. \A y \in Hs(k) \cup {None} : y # x
  BY MountIs
<1> HIDE DEF B
<1>4. ASSUME NEW q, Reps(k, f, e, b, q) PROVE Reps(k, f, e, B, q)
  <2>1. q \in Seq(RepMbuf(k)) /\ \A j \in DOMAIN q : RepOK(k, f, e, Says(b, q[j]))
    BY <1>4 DEF Reps
  <2>2. \A j \in DOMAIN q : RepOK(k, f, e, Says(B, q[j]))
    BY <1>2, <2>1 DEF Says
  <2>3. QED BY <2>1, <2>2 DEF Reps
<1>5. ASSUME NEW q, Reqs(k, f, b, q) PROVE Reqs(k, f, B, q)
  <2>1. q \in Seq(ReqMbuf(k)) /\ \A j \in DOMAIN q : ReqOK(k, f, Says(b, q[j]))
    BY <1>5 DEF Reqs
  <2>2. \A j \in DOMAIN q : q[j].own # x
    <3>1. \A j \in DOMAIN q : q[j] \in ReqMbuf(k)
      BY <2>1, ElementOf
    <3>2. QED BY <1>3, <3>1 DEF ReqMbuf
  <2>3. \A j \in DOMAIN q : ReqOK(k, f, Says(B, q[j]))
    BY <1>2, <2>1, <2>2 DEF Says
  <2>4. QED BY <2>1, <2>3 DEF Reqs
<1>6. WireOK(k, f, e, r, B, i, N, s)
  BY <1>1, <1>4, <1>5 DEF WireOK
<1>7. QED BY <1>6 DEF B

\* The queue of one socket changes.
LEMMA OneSocket ==
  ASSUME NEW k, NEW f, NEW e, NEW r, NEW b, NEW i, NEW N, NEW s,
         WireOK(k, f, e, r, b, i, N, s), NEW h \in Hs(k), NEW q, Reps(k, f, e, b, q)
  PROVE  WireOK(k, f, e, [r EXCEPT ![h] = q], b, i, N, s)
BY DEF WireOK

\* A client's step leaves the server and what has been executed as they were.
LEMMA ClientFinish ==
  ASSUME NEW k, RestOK(k)', NEW f, Story(k, f),
         NEW g \in [1 .. clntkudpxid' - 1 -> Ids], Extends(f, g),
         ClientOK(k, g, call', inuse', timer', buf'),
         WireOK(k, f, effects, rcv', buf', ifq', BagToSet(net'), sq'),
         effects' = effects, nfsd' = nfsd, dupreqs' = dupreqs
  PROVE  IInv'
<1>1. ServerOK(k, f, effects, nfsd, dupreqs) /\ f \in [DOMAIN f -> Ids]
  BY DEF Story, History
<1>2. Grows(effects, effects)
  BY <1>1 DEF Grows, ServerOK
<1>3. ServerOK(k, g, effects, nfsd, dupreqs)
  BY <1>1, <1>2, ServerGrows
<1>4. WireOK(k, g, effects, rcv', buf', ifq', BagToSet(net'), sq')
  <2> DEFINE R == rcv'
             B == buf'
             I == ifq'
             N == BagToSet(net')
             S == sq'
  <2>1. WireOK(k, f, effects, R, B, I, N, S)
    OBVIOUS
  <2> HIDE DEF R, B, I, N, S
  <2>2. WireOK(k, g, effects, R, B, I, N, S)
    BY <1>2, <2>1, WireGrows
  <2>3. QED BY <2>2 DEF R, B, I, N, S
<1>5. QED BY <1>3, <1>4, Finish

-----------------------------------------------------------------------------
(***************************************************************************)
(* The steps of a client.                                                  *)
(***************************************************************************)

\* What every step starts from: k is the mount and f the history.
LEMMA Before ==
  ASSUME IInv
  PROVE  \E k \in DOMAIN Mounts : \E f \in [1 .. clntkudpxid - 1 -> Ids] :
           RestOK(k) /\ Story(k, f)
<1>1. RestOK(mnt.conf) /\ mnt.conf \in DOMAIN Mounts
  BY MountInUse DEF IInv
<1>2. QED BY <1>1 DEF IInv

\* The parts of the invariant that the steps need.
LEMMA Parts ==
  ASSUME NEW k \in DOMAIN Mounts, NEW f \in [1 .. clntkudpxid - 1 -> Ids],
         RestOK(k), Story(k, f)
  PROVE  /\ History(f) /\ clntkudpxid \in Nat \ {0}
         /\ ClientOK(k, f, call, inuse, timer, buf)
         /\ DOMAIN call = Procs /\ inuse \in [Hs(k) -> BOOLEAN] /\ timer \subseteq Hs(k)
         /\ WireOK(k, f, effects, rcv, buf, ifq, BagToSet(net), sq)
         /\ ServerOK(k, f, effects, nfsd, dupreqs)
         /\ \A p \in Procs : ProcOK(k, f, buf, inuse, p, call[p]) /\ call[p] \in CallRec(k)
<1>1. ClientOK(k, f, call, inuse, timer, buf)
  BY DEF Story
<1>2. \A p \in Procs : ProcOK(k, f, buf, inuse, p, call[p]) /\ call[p] \in CallRec(k)
  BY <1>1 DEF ClientOK, ProcOK
<1>3. DOMAIN call = Procs /\ inuse \in [Hs(k) -> BOOLEAN] /\ timer \subseteq Hs(k)
  BY <1>1 DEF ClientOK
<1>4. QED BY <1>1, <1>2, <1>3 DEF Story, RestOK

\* Process p alone goes to d.
Becomes(c, p, d, cl) == cl = [c EXCEPT ![p] = d]

\* It keeps its handle.
LEMMA Alone ==
  ASSUME NEW k \in DOMAIN Mounts, NEW f \in [1 .. clntkudpxid - 1 -> Ids],
         RestOK(k), Story(k, f), NEW p \in Procs, NEW d, NEW cl,
         Becomes(call, p, d, cl), d.h = call[p].h,
         NEW b, \A h \in Hs(k) : h # call[p].h => b[h] = buf[h],
         ProcOK(k, f, b, inuse, p, d),
         NEW t, \A h \in t : \/ h \in timer /\ h # call[p].h
                             \/ h = d.h /\ h # None /\ d.pc \in {"sleep", "awake"}
  PROVE  ClientOK(k, f, cl, inuse, t, b)
<1>1. /\ ClientOK(k, f, call, inuse, timer, buf) /\ DOMAIN call = Procs
      /\ inuse \in [Hs(k) -> BOOLEAN]
  BY Parts
<1>2. /\ DOMAIN cl = Procs /\ cl[p] = d /\ \A q \in Procs \ {p} : Woken(call[q], cl[q])
  BY <1>1 DEF Woken, Becomes
<1>3. Extends(f, f)
  BY DEF Extends
<1>4. cl[p].h = call[p].h /\ ProcOK(k, f, b, inuse, p, cl[p])
  BY <1>2
<1>5. \A h \in Hs(k) : h # call[p].h /\ h # cl[p].h => inuse[h] = inuse[h] /\ b[h] = buf[h]
  OBVIOUS
<1>6. \A h \in t : \/ h \in timer /\ h # call[p].h
                   \/ h = cl[p].h /\ cl[p].h # None /\ cl[p].pc \in {"sleep", "awake"}
  BY <1>2
<1>7. QED BY <1>1, <1>2, <1>3, <1>4, <1>5, <1>6, ClientMoves

\* A handle is free: the process takes it, with a new transaction id.
LEMMA ClgetFoundKeeps ==
  ASSUME NEW k \in DOMAIN Mounts, NEW f \in [1 .. clntkudpxid - 1 -> Ids],
         RestOK(k), Story(k, f), NEW p \in Procs, ClgetFound(p)
  PROVE  IInv'
<1>1. /\ clntkudpxid \in Nat \ {0} /\ Handles = Hs(k)
      /\ Retrans = Mounts[k].retrans /\ Mounts[k].retrans \in Nat \ {0}
  BY Parts, MountInUse, MountIs
<1>2. /\ History(f) /\ ClientOK(k, f, call, inuse, timer, buf) /\ DOMAIN call = Procs
      /\ inuse \in [Hs(k) -> BOOLEAN]
      /\ WireOK(k, f, effects, rcv, buf, ifq, BagToSet(net), sq)
      /\ ProcOK(k, f, buf, inuse, p, call[p]) /\ call[p] \in CallRec(k)
  BY Parts
<1>3. PICK h \in Hs(k) :
        /\ ~inuse[h] /\ inuse' = [inuse EXCEPT ![h] = TRUE]
        /\ timedout' = [timedout EXCEPT ![h] = FALSE] /\ busy' = busy \ {h}
        /\ call' = [call EXCEPT ![p] = Callit([@ EXCEPT !.h = h])]
  BY <1>1 DEF ClgetFound
<1>4. /\ call[p].pc = "clget" /\ clntkudpxid' = clntkudpxid + 1
      /\ clwanted' = clwanted /\ timer' = timer /\ rcv' = rcv /\ buf' = buf /\ ifq' = ifq
      /\ net' = net /\ mnt' = mnt
      /\ sq' = sq /\ nfsd' = nfsd /\ dupreqs' = dupreqs /\ registered' = registered
      /\ effects' = effects
  BY DEF ClgetFound, server
<1> DEFINE c == call[p]
           d == Callit([c EXCEPT !.h = h])
           cl == call'
           u == inuse'
<1>5. /\ c \in CallRec(k) /\ c.pc = "clget" /\ c.h = None /\ c.n > 0 /\ c.n \in 0 .. Calls
      /\ c.op \in Mounts[k].ops
  BY <1>2, <1>4 DEF ProcOK, CallRec, Outside
<1>6. <<p, c.n>> \in Ids
  BY <1>5, MountIs DEF Ids
<1>7. PICK g \in [1 .. (clntkudpxid + 1) - 1 -> Ids] : Extends(f, g) /\ For(g, clntkudpxid, <<p, c.n>>)
  BY <1>1, <1>2, <1>6, NextId
<1>8. /\ d \in CallRec(k) /\ d.pc = "buf" /\ d.h = h /\ d.n = c.n /\ d.op = c.op
      /\ d.xid = clntkudpxid
  <2> DEFINE x == clntkudpxid
             s == Retrans
  <2>1. x \in Nat /\ s \in 0 .. Mounts[k].retrans
    BY <1>1
  <2>2. d = [[c EXCEPT !.h = h] EXCEPT !.xid = x, !.stries = s, !.pc = "buf"]
    BY DEF Callit
  <2> HIDE DEF x, s, c, d
  <2>3. d \in CallRec(k) /\ d.pc = "buf" /\ d.h = h /\ d.n = c.n /\ d.op = c.op /\ d.xid = x
    BY <1>5, <2>1, <2>2 DEF CallRec
  <2>4. QED BY <2>3 DEF x
<1>9. /\ DOMAIN cl = Procs /\ cl[p] = d /\ \A q \in Procs \ {p} : Woken(call[q], cl[q])
  BY <1>2, <1>3 DEF Woken
<1>10. /\ u \in [Hs(k) -> BOOLEAN] /\ u[h] /\ \A x \in Hs(k) : x # h => u[x] = inuse[x]
  BY <1>2, <1>3
<1>11. \A x \in timer : x # call[p].h
  BY <1>2, <1>4, NotTimed
<1>12. RestOK(k)'
  BY <1>1, <1>3, <1>4 DEF RestOK
<1>13. h # None
  BY <1>1, MountIs
<1> HIDE DEF d
<1>14. ProcOK(k, g, buf, u, p, d)
  BY <1>5, <1>7, <1>8, <1>10, <1>13 DEF ProcOK, Outside, Waiting
<1>15. ClientOK(k, g, cl, u, timer, buf)
  <2> HIDE DEF cl, u, c
  <2>1. cl[p].h = h
    BY <1>8, <1>9
  <2>2. \A x \in Hs(k) : x # call[p].h /\ x # cl[p].h => u[x] = inuse[x] /\ buf[x] = buf[x]
    BY <1>10, <2>1
  <2>3. ProcOK(k, g, buf, u, p, cl[p]) /\ ~inuse[cl[p].h]
    BY <1>3, <1>9, <1>14, <2>1
  <2>4. /\ Extends(f, g) /\ ClientOK(k, f, call, inuse, timer, buf)
        /\ DOMAIN cl = Procs /\ \A q \in Procs \ {p} : Woken(call[q], cl[q])
    BY <1>2, <1>7, <1>9
  <2>5. u \in [Hs(k) -> BOOLEAN]
    BY <1>10
  <2>6. QED BY <1>11, <2>2, <2>3, <2>4, <2>5, ClientMoves
<1>16. WireOK(k, f, effects, rcv', buf', ifq', BagToSet(net'), sq')
  BY <1>2, <1>4
<1>17. g \in [1 .. clntkudpxid' - 1 -> Ids] /\ ClientOK(k, g, call', inuse', timer', buf')
  BY <1>4, <1>7, <1>15
<1>18. QED BY <1>2, <1>4, <1>7, <1>12, <1>16, <1>17, ClientFinish

\* The socket of the handle is emptied.
LEMMA BufWakeKeeps ==
  ASSUME NEW k \in DOMAIN Mounts, NEW f \in [1 .. clntkudpxid - 1 -> Ids],
         RestOK(k), Story(k, f), NEW p \in Procs, BufWake(p)
  PROVE  IInv'
<1>2. /\ ClientOK(k, f, call, inuse, timer, buf) /\ DOMAIN call = Procs
      /\ WireOK(k, f, effects, rcv, buf, ifq, BagToSet(net), sq)
      /\ ProcOK(k, f, buf, inuse, p, call[p]) /\ call[p] \in CallRec(k)
  BY Parts
<1> DEFINE c == call[p]
           d == [c EXCEPT !.pc = "buf"]
           cl == call'
<1>3. /\ c.pc = "bufsleep" /\ call' = [call EXCEPT ![p] = d]
      /\ rcv' = [rcv EXCEPT ![c.h] = <<>>] /\ busy' = busy \ Owners(rcv[c.h])
      /\ inuse' = inuse /\ clwanted' = clwanted /\ timedout' = timedout /\ timer' = timer
      /\ buf' = buf /\ clntkudpxid' = clntkudpxid /\ ifq' = ifq /\ net' = net /\ mnt' = mnt
      /\ sq' = sq /\ nfsd' = nfsd /\ dupreqs' = dupreqs /\ registered' = registered
      /\ effects' = effects
  BY <1>2 DEF BufWake, server
<1>4. /\ c \in CallRec(k) /\ c.h # None /\ inuse[c.h] /\ c.h \in Hs(k) /\ c.n > 0
      /\ c.op \in Mounts[k].ops /\ For(f, c.xid, <<p, c.n>>)
  BY <1>2, <1>3 DEF ProcOK, CallRec, Outside
<1>5. /\ d \in CallRec(k) /\ d.pc = "buf" /\ d.h = c.h /\ d.n = c.n /\ d.op = c.op
      /\ d.xid = c.xid
  BY <1>4 DEF CallRec
<1>7. \A x \in timer : x # call[p].h
  BY <1>2, <1>3, NotTimed
<1>8. RestOK(k)'
  BY <1>3 DEF RestOK
<1>9. WireOK(k, f, effects, rcv', buf, ifq, BagToSet(net), sq)
  BY <1>2, <1>3, <1>4, NoMbufs, OneSocket
<1> HIDE DEF d
<1>11. ProcOK(k, f, buf, inuse, p, d)
  BY <1>4, <1>5 DEF ProcOK, Outside, Waiting
<1>12. Extends(f, f)
  BY DEF Extends
<1>13. ClientOK(k, f, cl, inuse, timer, buf)
  <2>1. Becomes(call, p, d, cl)
    BY <1>3 DEF Becomes
  <2>2. QED BY <1>5, <1>7, <1>11, <2>1, Alone
<1>14. WireOK(k, f, effects, rcv', buf', ifq', BagToSet(net'), sq')
  BY <1>3, <1>9
<1>15. f \in [1 .. clntkudpxid' - 1 -> Ids] /\ ClientOK(k, f, call', inuse', timer', buf')
  BY <1>3, <1>13
<1>16. QED BY <1>3, <1>8, <1>12, <1>14, <1>15, ClientFinish

\* The request is queued, and the process waits for the reply.
LEMMA SendKeeps ==
  ASSUME NEW k \in DOMAIN Mounts, NEW f \in [1 .. clntkudpxid - 1 -> Ids],
         RestOK(k), Story(k, f), NEW p \in Procs, Send(p)
  PROVE  IInv'
<1>2. /\ ClientOK(k, f, call, inuse, timer, buf) /\ DOMAIN call = Procs
      /\ WireOK(k, f, effects, rcv, buf, ifq, BagToSet(net), sq)
      /\ ProcOK(k, f, buf, inuse, p, call[p]) /\ call[p] \in CallRec(k)
  BY Parts
<1> DEFINE c == call[p]
           d == [c EXCEPT !.pc = "recv", !.rtries = RECVTRIES]
           cl == call'
           msg == [xid |-> c.xid, h |-> c.h, op |-> c.op, id |-> <<p, c.n>>]
           m == [own |-> c.h, msg |-> msg]
           B == buf'
<1>3. /\ c.pc = "buf" /\ call' = [call EXCEPT ![p] = d]
      /\ buf' = [buf EXCEPT ![c.h] = msg] /\ busy' = busy \cup {c.h}
      /\ \/ sq' = Append(sq, m) /\ ifq' = ifq
         \/ ifq' = Append(ifq, m) /\ sq' = sq
      /\ inuse' = inuse /\ clwanted' = clwanted /\ timedout' = timedout /\ timer' = timer
      /\ rcv' = rcv /\ clntkudpxid' = clntkudpxid /\ net' = net /\ mnt' = mnt
      /\ nfsd' = nfsd /\ dupreqs' = dupreqs /\ registered' = registered
      /\ effects' = effects
  BY <1>2 DEF Send
<1>4. /\ c \in CallRec(k) /\ c.h # None /\ inuse[c.h] /\ c.h \in Hs(k) /\ c.n > 0
      /\ c.op \in Mounts[k].ops /\ For(f, c.xid, <<p, c.n>>) /\ c.xid \in Nat /\ c.n \in 1 .. Calls
  BY <1>2, <1>3, MountIs DEF ProcOK, CallRec, Outside
<1>5. /\ d \in CallRec(k) /\ d.pc = "recv" /\ d.h = c.h /\ d.n = c.n /\ d.op = c.op
      /\ d.xid = c.xid /\ d.rtries > 0
  <2>1. RECVTRIES \in 0 .. RECVTRIES /\ RECVTRIES > 0
    BY DEF RECVTRIES
  <2>2. QED BY <1>4, <2>1 DEF CallRec
<1>6. ReqOK(k, f, msg) /\ msg.id = <<p, c.n>> /\ m \in ReqMbuf(k) /\ m.own = c.h
  <2>1. <<p, c.n>> \in Ids
    BY <1>4 DEF Ids
  <2>2. msg \in Req(k) /\ msg.xid = c.xid /\ msg.id = <<p, c.n>>
    BY <1>4, <2>1 DEF Req
  <2>3. m \in ReqMbuf(k) /\ m.own = c.h
    BY <1>4, <2>2 DEF ReqMbuf
  <2>4. QED BY <1>4, <2>2, <2>3 DEF ReqOK
<1>7. \A x \in timer : x # call[p].h
  BY <1>2, <1>3, NotTimed
<1>8. RestOK(k)'
  BY <1>3, <1>4 DEF RestOK
<1> HIDE DEF d, msg, m
<1>9. WireOK(k, f, effects, rcv, B, ifq, BagToSet(net), sq)
  BY <1>2, <1>3, <1>4, <1>6, BufReq
<1>10. B[c.h] = msg /\ \A x \in Hs(k) : x # c.h => B[x] = buf[x]
  BY <1>2, <1>3, <1>4 DEF WireOK
<1> HIDE DEF B
<1>11. WireOK(k, f, effects, rcv, B, ifq', BagToSet(net), sq')
  <2>1. ReqOK(k, f, Says(B, m))
    BY <1>4, <1>6, <1>10 DEF Says
  <2>2. Reqs(k, f, B, ifq) /\ Reqs(k, f, B, sq)
    BY <1>9 DEF WireOK
  <2>3. Reqs(k, f, B, Append(ifq, m)) /\ Reqs(k, f, B, Append(sq, m))
    BY <1>6, <2>1, <2>2, ReqsAppend
  <2>4. QED BY <1>3, <1>9, <2>2, <2>3 DEF WireOK
<1>12. ProcOK(k, f, B, inuse, p, d)
  BY <1>4, <1>5, <1>6, <1>10 DEF ProcOK, Outside, Waiting
<1>13. ClientOK(k, f, cl, inuse, timer, B)
  <2>1. Becomes(call, p, d, cl)
    BY <1>3 DEF Becomes
  <2>2. QED BY <1>5, <1>7, <1>10, <1>12, <2>1, Alone
<1>14. WireOK(k, f, effects, rcv', buf', ifq', BagToSet(net'), sq')
  BY <1>3, <1>11 DEF B
<1>15. /\ f \in [1 .. clntkudpxid' - 1 -> Ids] /\ Extends(f, f)
       /\ ClientOK(k, f, call', inuse', timer', buf')
  BY <1>3, <1>13 DEF Extends, B
<1>16. QED BY <1>3, <1>8, <1>14, <1>15, ClientFinish

\* Nothing has come in.
LEMMA RecvSleepKeeps ==
  ASSUME NEW k \in DOMAIN Mounts, NEW f \in [1 .. clntkudpxid - 1 -> Ids],
         RestOK(k), Story(k, f), NEW p \in Procs, RecvSleep(p)
  PROVE  IInv'
<1>2. /\ ClientOK(k, f, call, inuse, timer, buf) /\ DOMAIN call = Procs
      /\ WireOK(k, f, effects, rcv, buf, ifq, BagToSet(net), sq)
      /\ ProcOK(k, f, buf, inuse, p, call[p]) /\ call[p] \in CallRec(k)
  BY Parts
<1> DEFINE c == call[p]
           d == [c EXCEPT !.pc = "sleep"]
           cl == call'
           t == timer \cup {c.h}
<1>3. /\ c.pc = "recv" /\ call' = [call EXCEPT ![p] = d] /\ timer' = t
      /\ inuse' = inuse /\ clwanted' = clwanted /\ timedout' = timedout /\ rcv' = rcv
      /\ buf' = buf /\ busy' = busy
      /\ clntkudpxid' = clntkudpxid /\ ifq' = ifq /\ net' = net /\ mnt' = mnt
      /\ sq' = sq /\ nfsd' = nfsd /\ dupreqs' = dupreqs /\ registered' = registered
      /\ effects' = effects
  BY <1>2 DEF RecvSleep, server
<1>4. /\ c \in CallRec(k) /\ c.h # None /\ c.h \in Hs(k) /\ inuse[c.h] /\ c.n > 0
      /\ c.op \in Mounts[k].ops /\ For(f, c.xid, <<p, c.n>>)
      /\ c.rtries > 0 /\ ReqOK(k, f, buf[c.h]) /\ buf[c.h].id = <<p, c.n>>
  BY <1>2, <1>3 DEF ProcOK, CallRec, Outside, Waiting
<1>5. /\ d \in CallRec(k) /\ d.pc = "sleep" /\ d.h = c.h /\ d.n = c.n /\ d.op = c.op
      /\ d.xid = c.xid /\ d.rtries = c.rtries
  BY <1>4 DEF CallRec
<1>6. \A x \in timer : x # call[p].h
  BY <1>2, <1>3, NotTimed
<1>8. RestOK(k)'
  BY <1>3 DEF RestOK
<1> HIDE DEF d
<1>9. ProcOK(k, f, buf, inuse, p, d)
  BY <1>4, <1>5 DEF ProcOK, Outside, Waiting
<1>13. ClientOK(k, f, cl, inuse, t, buf)
  <2>1. Becomes(call, p, d, cl)
    BY <1>3 DEF Becomes
  <2>2. \A x \in t : \/ x \in timer /\ x # call[p].h
                     \/ x = d.h /\ x # None /\ d.pc \in {"sleep", "awake"}
    BY <1>4, <1>5, <1>6
  <2>3. QED BY <1>5, <1>9, <2>1, <2>2, Alone
<1>14. WireOK(k, f, effects, rcv', buf', ifq', BagToSet(net'), sq')
  BY <1>2, <1>3
<1>15. /\ f \in [1 .. clntkudpxid' - 1 -> Ids] /\ Extends(f, f)
       /\ ClientOK(k, f, call', inuse', timer', buf')
  BY <1>3, <1>13 DEF Extends
<1>16. QED BY <1>3, <1>8, <1>14, <1>15, ClientFinish

-----------------------------------------------------------------------------
(***************************************************************************)
(* The end of a try: the call is sent again, started again or returns.     *)
(***************************************************************************)

\* What the call is told, and the state that its process returns in.
Told(p, st, rep) ==
  [st |-> st, errno |-> Errno(st), nfs |-> IF st = "SUCCESS" THEN rep.nfs ELSE None,
   id |-> IF st = "SUCCESS" THEN rep.id ELSE None, done |-> effects[<<p, call[p].n>>]]
Back(p, st, rep) == [Idle EXCEPT !.n = call[p].n, !.ret = Told(p, st, rep)]

\* The backoff of the next try.
Later(p) == [call[p] EXCEPT !.lvl = IF @ < Patience THEN @ + 1 ELSE @]

\* The three ends of a try.
LEMMA DoneIs ==
  ASSUME NEW p \in Procs, NEW st, NEW rep, Done(p, st, rep)
  PROVE  \/ /\ call[p].stries > 1
            /\ call' = [call EXCEPT ![p] = [Later(p) EXCEPT !.stries = @ - 1, !.pc = "buf"]]
            /\ inuse' = inuse /\ clwanted' = clwanted /\ clntkudpxid' = clntkudpxid
         \/ /\ call' = [call EXCEPT ![p] = Callit(Later(p))]
            /\ inuse' = inuse /\ clwanted' = clwanted /\ clntkudpxid' = clntkudpxid + 1
         \/ /\ Clfree([call EXCEPT ![p] = Back(p, st, rep)], call[p].h)
            /\ clntkudpxid' = clntkudpxid
BY DEF Done, Later, Back, Told

\* What a try leaves of the rest of the state.
TryOK(k, f, p, st, rep) ==
  /\ call[p].pc \in {"buf", "recv", "awake"} /\ st \in Stats
  /\ st = "SUCCESS" => /\ RepOK(k, f, effects, rep) /\ rep.st = st
                       /\ rep.id = <<p, call[p].n>>
  /\ \A h \in timer' : h \in timer /\ h # call[p].h
  /\ WireOK(k, f, effects, rcv', buf, ifq, BagToSet(net), sq)
  /\ mnt' \in [conf : DOMAIN Mounts, faults : Nat] /\ mnt'.conf = k
  /\ mnt'.faults <= Mounts[k].maxfaults
  /\ busy' \subseteq Hs(k) \cup Nfsds /\ timedout' \in [Hs(k) -> BOOLEAN]
  /\ UNCHANGED <<buf, ifq, net, server>>

\* The process that ends a try has a handle.
LEMMA InACall ==
  ASSUME NEW k \in DOMAIN Mounts, NEW f \in [1 .. clntkudpxid - 1 -> Ids],
         RestOK(k), Story(k, f), NEW p \in Procs, call[p].pc \in {"buf", "recv", "awake"}
  PROVE  /\ call[p] \in CallRec(k) /\ call[p].h \in Hs(k) /\ call[p].h # None
         /\ inuse[call[p].h] /\ call[p].n \in 1 .. Calls /\ <<p, call[p].n>> \in Ids
         /\ call[p].op \in Mounts[k].ops /\ For(f, call[p].xid, <<p, call[p].n>>)
         /\ Later(p) \in CallRec(k) /\ Later(p).h = call[p].h /\ Later(p).n = call[p].n
         /\ Later(p).op = call[p].op /\ Later(p).xid = call[p].xid
         /\ Later(p).stries = call[p].stries
<1> DEFINE c == call[p]
<1>1. ProcOK(k, f, buf, inuse, p, c) /\ c \in CallRec(k)
  BY Parts
<1>2. /\ c.h # None /\ inuse[c.h] /\ c.h \in Hs(k) /\ c.n > 0
      /\ c.op \in Mounts[k].ops /\ For(f, c.xid, <<p, c.n>>) /\ c.n \in 1 .. Calls
  BY <1>1, MountIs DEF ProcOK, CallRec, Outside
<1>3. <<p, c.n>> \in Ids
  BY <1>2 DEF Ids
<1>4. c.lvl \in Nat
  BY <1>1 DEF CallRec
<1> DEFINE l == IF c.lvl < Patience THEN c.lvl + 1 ELSE c.lvl
<1>5. l \in Nat /\ Later(p) = [c EXCEPT !.lvl = l]
  BY <1>4 DEF Later
<1> HIDE DEF c, l
<1>6. /\ Later(p) \in CallRec(k) /\ Later(p).h = c.h /\ Later(p).n = c.n
      /\ Later(p).op = c.op /\ Later(p).xid = c.xid /\ Later(p).stries = c.stries
  BY <1>1, <1>5 DEF CallRec
<1>7. QED BY <1>1, <1>2, <1>3, <1>6 DEF c

\* The call is sent again.
LEMMA DoneRetry ==
  ASSUME NEW k \in DOMAIN Mounts, NEW f \in [1 .. clntkudpxid - 1 -> Ids],
         RestOK(k), Story(k, f), NEW p \in Procs, NEW st, NEW rep, TryOK(k, f, p, st, rep),
         call[p].stries > 1,
         call' = [call EXCEPT ![p] = [Later(p) EXCEPT !.stries = @ - 1, !.pc = "buf"]],
         inuse' = inuse, clwanted' = clwanted, clntkudpxid' = clntkudpxid
  PROVE  IInv'
<1>1. /\ effects' = effects /\ nfsd' = nfsd /\ dupreqs' = dupreqs /\ buf' = buf
      /\ ifq' = ifq /\ net' = net /\ sq' = sq /\ registered' = registered
  BY DEF TryOK, server
<1> DEFINE c == call[p]
           l == Later(p)
           d == [l EXCEPT !.stries = l.stries - 1, !.pc = "buf"]
           cl == call'
           t == timer'
<1>2. /\ c.h \in Hs(k) /\ c.h # None /\ inuse[c.h] /\ c.n \in 1 .. Calls
      /\ c.op \in Mounts[k].ops /\ For(f, c.xid, <<p, c.n>>)
      /\ l \in CallRec(k) /\ l.h = c.h /\ l.n = c.n /\ l.op = c.op /\ l.xid = c.xid
      /\ l.stries = c.stries
  BY InACall DEF TryOK
<1>3. Becomes(call, p, d, cl)
  BY DEF Becomes
<1>4. /\ d \in CallRec(k) /\ d.pc = "buf" /\ d.h = c.h /\ d.n = c.n /\ d.op = c.op
      /\ d.xid = c.xid
  <2> HIDE DEF l
  <2>1. l.stries - 1 \in 0 .. Mounts[k].retrans
    BY <1>2, MountIs DEF CallRec
  <2>2. QED BY <1>2, <2>1 DEF CallRec
<1> HIDE DEF d, l
<1>5. ProcOK(k, f, buf, inuse, p, d)
  BY <1>2, <1>4 DEF ProcOK, Outside, Waiting
<1>6. \A x \in t : x \in timer /\ x # call[p].h
  BY DEF TryOK
<1>7. ClientOK(k, f, cl, inuse, t, buf)
  <2> HIDE DEF t, cl
  <2>1. d.h = call[p].h
    BY <1>4
  <2>2. QED BY <1>3, <1>5, <1>6, <2>1, Alone
<1>8. RestOK(k)'
  BY <1>1 DEF RestOK, TryOK
<1>9. WireOK(k, f, effects, rcv', buf', ifq', BagToSet(net'), sq')
  BY <1>1 DEF TryOK
<1>10. /\ f \in [1 .. clntkudpxid' - 1 -> Ids] /\ Extends(f, f)
       /\ ClientOK(k, f, call', inuse', timer', buf')
  BY <1>1, <1>7 DEF Extends
<1>11. QED BY <1>1, <1>8, <1>9, <1>10, ClientFinish

\* A hard mount starts the call again, with a new transaction id.
LEMMA DoneAgain ==
  ASSUME NEW k \in DOMAIN Mounts, NEW f \in [1 .. clntkudpxid - 1 -> Ids],
         RestOK(k), Story(k, f), NEW p \in Procs, NEW st, NEW rep, TryOK(k, f, p, st, rep),
         call' = [call EXCEPT ![p] = Callit(Later(p))],
         inuse' = inuse, clwanted' = clwanted, clntkudpxid' = clntkudpxid + 1
  PROVE  IInv'
<1>1. /\ effects' = effects /\ nfsd' = nfsd /\ dupreqs' = dupreqs /\ buf' = buf
      /\ ifq' = ifq /\ net' = net /\ sq' = sq /\ registered' = registered
  BY DEF TryOK, server
<1> DEFINE c == call[p]
           l == Later(p)
           d == Callit(l)
           cl == call'
           t == timer'
<1>2. /\ c.h \in Hs(k) /\ c.h # None /\ inuse[c.h] /\ c.n \in 1 .. Calls
      /\ c.op \in Mounts[k].ops /\ <<p, c.n>> \in Ids
      /\ l \in CallRec(k) /\ l.h = c.h /\ l.n = c.n /\ l.op = c.op
  BY InACall DEF TryOK
<1>3. /\ History(f) /\ clntkudpxid \in Nat \ {0} /\ inuse \in [Hs(k) -> BOOLEAN]
      /\ ClientOK(k, f, call, inuse, timer, buf) /\ DOMAIN call = Procs
  BY Parts
<1>4. PICK g \in [1 .. (clntkudpxid + 1) - 1 -> Ids] : Extends(f, g) /\ For(g, clntkudpxid, <<p, c.n>>)
  BY <1>2, <1>3, NextId
<1>5. /\ d \in CallRec(k) /\ d.pc = "buf" /\ d.h = c.h /\ d.n = c.n /\ d.op = c.op
      /\ d.xid = clntkudpxid
  <2> DEFINE x == clntkudpxid
             s == Retrans
  <2>1. x \in Nat /\ s \in 0 .. Mounts[k].retrans
    BY <1>3, MountInUse, MountIs
  <2>2. d = [l EXCEPT !.xid = x, !.stries = s, !.pc = "buf"]
    BY DEF Callit
  <2> HIDE DEF x, s, l, d
  <2>3. d \in CallRec(k) /\ d.pc = "buf" /\ d.h = c.h /\ d.n = c.n /\ d.op = c.op /\ d.xid = x
    BY <1>2, <2>1, <2>2 DEF CallRec
  <2>4. QED BY <2>3 DEF x
<1>6. /\ DOMAIN cl = Procs /\ cl[p] = d /\ \A q \in Procs \ {p} : Woken(call[q], cl[q])
  BY <1>3 DEF Woken
<1> HIDE DEF d, l
<1>7. ProcOK(k, g, buf, inuse, p, d)
  BY <1>2, <1>4, <1>5 DEF ProcOK, Outside, Waiting
<1>8. \A x \in t : x \in timer /\ x # call[p].h
  BY DEF TryOK
<1>9. ClientOK(k, g, cl, inuse, t, buf)
  <2> HIDE DEF t, cl
  <2>1. cl[p].h = call[p].h /\ ProcOK(k, g, buf, inuse, p, cl[p])
    BY <1>5, <1>6, <1>7
  <2>2. QED BY <1>3, <1>4, <1>6, <1>8, <2>1, ClientMoves
<1>10. RestOK(k)'
  BY <1>1, <1>3 DEF RestOK, TryOK
<1>11. WireOK(k, f, effects, rcv', buf', ifq', BagToSet(net'), sq')
  BY <1>1 DEF TryOK
<1>12. /\ g \in [1 .. clntkudpxid' - 1 -> Ids] /\ Extends(f, g)
       /\ ClientOK(k, g, call', inuse', timer', buf')
  BY <1>1, <1>4, <1>9
<1>13. QED BY <1>1, <1>10, <1>11, <1>12, ClientFinish

\* What the call is told is true.
LEMMA BackOK ==
  ASSUME NEW k \in DOMAIN Mounts, NEW f \in [1 .. clntkudpxid - 1 -> Ids],
         RestOK(k), Story(k, f), NEW p \in Procs, NEW st, NEW rep, TryOK(k, f, p, st, rep),
         NEW u
  PROVE  /\ ProcOK(k, f, buf, u, p, Back(p, st, rep)) /\ Back(p, st, rep).h = None
         /\ Back(p, st, rep).pc = "idle"
<1> DEFINE n == call[p].n
           r == Told(p, st, rep)
           d == Back(p, st, rep)
           done == effects[<<p, n>>]
           nfs == IF st = "SUCCESS" THEN rep.nfs ELSE None
           id == IF st = "SUCCESS" THEN rep.id ELSE None
           errno == Errno(st)
<1>1. n \in 1 .. Calls /\ <<p, n>> \in Ids /\ Calls \in Nat /\ Mounts[k].retrans \in Nat
  BY InACall, MountIs DEF TryOK
<1>2. done \in Nat
  BY <1>1, Parts DEF ServerOK
<1>3. /\ st \in Stats
      /\ st = "SUCCESS" => /\ rep \in Rep(k) /\ rep.id = <<p, n>>
                           /\ rep.nfs = "0" => done > 0
  BY DEF TryOK, RepOK
<1>4. errno \in {"0", "EIO", "ETIMEDOUT"}
  BY DEF Errno
<1>5. nfs \in Errors
  BY <1>3 DEF Rep, Errors
<1>6. id \in Ids \cup {None}
  BY <1>1, <1>3
<1>7. r = [st |-> st, errno |-> errno, nfs |-> nfs, id |-> id, done |-> done]
  BY DEF Told
<1>8. /\ st = "SUCCESS" => id = <<p, n>>
      /\ st = "SUCCESS" /\ nfs = "0" => done > 0
  BY <1>3
<1> HIDE DEF done, nfs, id, errno, r
<1>9. /\ r \in Ret
      /\ r.st = "SUCCESS" => r.id = <<p, n>> /\ (r.nfs = "0" => r.done > 0)
  BY <1>2, <1>3, <1>4, <1>5, <1>6, <1>7, <1>8 DEF Ret
<1>10. Idle \in CallRec(k) /\ Idle.pc = "idle" /\ Idle.h = None
  BY <1>1 DEF Idle, CallRec, RECVTRIES
<1>11. d = [Idle EXCEPT !.n = n, !.ret = r]
  BY DEF Back, r
<1> HIDE DEF n, d
<1>12. d \in CallRec(k) /\ d.pc = "idle" /\ d.h = None /\ d.n = n /\ d.ret = r
  <2>1. n \in 0 .. Calls
    BY <1>1
  <2>2. r \in Ret \cup {None}
    BY <1>9
  <2> HIDE DEF r
  <2>3. QED BY <1>10, <1>11, <2>1, <2>2 DEF CallRec
<1>13. ProcOK(k, f, buf, u, p, d)
  BY <1>9, <1>12 DEF ProcOK, Outside, Waiting
<1>14. QED BY <1>12, <1>13 DEF d

\* The call returns, and its handle is free.
LEMMA DoneReturns ==
  ASSUME NEW k \in DOMAIN Mounts, NEW f \in [1 .. clntkudpxid - 1 -> Ids],
         RestOK(k), Story(k, f), NEW p \in Procs, NEW st, NEW rep, TryOK(k, f, p, st, rep),
         Clfree([call EXCEPT ![p] = Back(p, st, rep)], call[p].h),
         clntkudpxid' = clntkudpxid
  PROVE  IInv'
<1>1. /\ effects' = effects /\ nfsd' = nfsd /\ dupreqs' = dupreqs /\ buf' = buf
      /\ ifq' = ifq /\ net' = net /\ sq' = sq /\ registered' = registered
  BY DEF TryOK, server
<1> DEFINE h == call[p].h
           d == Back(p, st, rep)
           cl == call'
           u == inuse'
           t == timer'
<1>2. h \in Hs(k) /\ h # None
  BY InACall DEF TryOK
<1>3. /\ inuse \in [Hs(k) -> BOOLEAN]
      /\ ClientOK(k, f, call, inuse, timer, buf) /\ DOMAIN call = Procs
  BY Parts
<1>4. ProcOK(k, f, buf, u, p, d) /\ d.h = None /\ d.pc = "idle"
  BY BackOK
<1> HIDE DEF d
<1>5. /\ u = [inuse EXCEPT ![h] = FALSE] /\ clwanted' = FALSE
      /\ cl = [q \in Procs |->
                 LET x == [call EXCEPT ![p] = d][q]
                 IN  IF clwanted /\ x.pc = "clsleep" THEN [x EXCEPT !.pc = "clget"] ELSE x]
  BY DEF Clfree, d
<1>6. /\ DOMAIN cl = Procs /\ cl[p] = d
      /\ \A q \in Procs \ {p} : Woken(call[q], cl[q])
  <2>1. [call EXCEPT ![p] = d][p] = d /\ \A q \in Procs \ {p} : [call EXCEPT ![p] = d][q] = call[q]
    BY <1>3
  <2>2. cl[p] = d
    BY <1>4, <1>5, <2>1
  <2>3. ASSUME NEW q \in Procs \ {p} PROVE Woken(call[q], cl[q])
    <3>1. cl[q] = IF clwanted /\ call[q].pc = "clsleep" THEN [call[q] EXCEPT !.pc = "clget"]
                                                        ELSE call[q]
      BY <1>5, <2>1
    <3>2. QED BY <3>1 DEF Woken
  <2>4. QED BY <1>5, <2>2, <2>3
<1>7. u \in [Hs(k) -> BOOLEAN] /\ \A x \in Hs(k) : x # h => u[x] = inuse[x]
  BY <1>3, <1>5
<1>8. \A x \in t : x \in timer /\ x # call[p].h
  BY DEF TryOK
<1>9. ClientOK(k, f, cl, u, t, buf)
  <2> HIDE DEF t, cl, u
  <2>1. cl[p].h = None /\ ProcOK(k, f, buf, u, p, cl[p])
    BY <1>4, <1>6
  <2>2. Extends(f, f)
    BY DEF Extends
  <2>3. QED BY <1>3, <1>6, <1>7, <1>8, <2>1, <2>2, ClientMoves
<1>10. RestOK(k)'
  BY <1>1, <1>5 DEF RestOK, TryOK
<1>11. WireOK(k, f, effects, rcv', buf', ifq', BagToSet(net'), sq')
  BY <1>1 DEF TryOK
<1>12. /\ f \in [1 .. clntkudpxid' - 1 -> Ids] /\ Extends(f, f)
       /\ ClientOK(k, f, call', inuse', timer', buf')
  BY <1>1, <1>9 DEF Extends
<1>13. QED BY <1>1, <1>10, <1>11, <1>12, ClientFinish

\* However a try ends, the invariant holds.
LEMMA DoneKeeps ==
  ASSUME NEW k \in DOMAIN Mounts, NEW f \in [1 .. clntkudpxid - 1 -> Ids],
         RestOK(k), Story(k, f), NEW p \in Procs, NEW st, NEW rep, TryOK(k, f, p, st, rep),
         Done(p, st, rep)
  PROVE  IInv'
<1>1. CASE /\ call[p].stries > 1
           /\ call' = [call EXCEPT ![p] = [Later(p) EXCEPT !.stries = @ - 1, !.pc = "buf"]]
           /\ inuse' = inuse /\ clwanted' = clwanted /\ clntkudpxid' = clntkudpxid
  BY <1>1, DoneRetry
<1>2. CASE /\ call' = [call EXCEPT ![p] = Callit(Later(p))]
           /\ inuse' = inuse /\ clwanted' = clwanted /\ clntkudpxid' = clntkudpxid + 1
  BY <1>2, DoneAgain
<1>3. CASE /\ Clfree([call EXCEPT ![p] = Back(p, st, rep)], call[p].h)
           /\ clntkudpxid' = clntkudpxid
  BY <1>3, DoneReturns
<1>4. QED BY <1>1, <1>2, <1>3, DoneIs

\* There is no memory to send the call.
LEMMA SendFailsKeeps ==
  ASSUME NEW k \in DOMAIN Mounts, NEW f \in [1 .. clntkudpxid - 1 -> Ids],
         RestOK(k), Story(k, f), NEW p \in Procs, SendFails(p)
  PROVE  IInv'
<1>1. /\ ClientOK(k, f, call, inuse, timer, buf)
      /\ WireOK(k, f, effects, rcv, buf, ifq, BagToSet(net), sq)
  BY Parts
<1>2. /\ call[p].pc = "buf" /\ Done(p, "CANTSEND", None)
      /\ timedout' = timedout /\ timer' = timer /\ rcv' = rcv /\ busy' = busy
      /\ UNCHANGED <<buf, ifq, net, server>>
  BY DEF SendFails
<1>3. /\ mnt' \in [conf : DOMAIN Mounts, faults : Nat] /\ mnt'.conf = k
      /\ mnt'.faults <= Mounts[k].maxfaults
  BY FaultOK DEF SendFails
<1>4. \A h \in timer : h # call[p].h
  BY <1>1, <1>2, NotTimed
<1>5. TryOK(k, f, p, "CANTSEND", None)
  BY <1>1, <1>2, <1>3, <1>4 DEF TryOK, Stats, RestOK
<1>6. QED BY <1>2, <1>5, DoneKeeps

\* Process p waits for the answer to its call.
LEMMA InWait ==
  ASSUME NEW k \in DOMAIN Mounts, NEW f \in [1 .. clntkudpxid - 1 -> Ids],
         RestOK(k), Story(k, f), NEW p \in Procs, call[p].pc \in Waiting
  PROVE  /\ call[p] \in CallRec(k) /\ call[p].h \in Hs(k) /\ call[p].h # None
         /\ inuse[call[p].h] /\ call[p].n > 0 /\ call[p].op \in Mounts[k].ops
         /\ For(f, call[p].xid, <<p, call[p].n>>) /\ call[p].rtries > 0
         /\ ReqOK(k, f, buf[call[p].h]) /\ buf[call[p].h].id = <<p, call[p].n>>
<1> DEFINE c == call[p]
<1>1. ProcOK(k, f, buf, inuse, p, c) /\ c \in CallRec(k)
  BY Parts
<1>2. QED BY <1>1 DEF ProcOK, CallRec, Waiting, Outside

\* The process has been woken.
LEMMA AwakeKeeps ==
  ASSUME NEW k \in DOMAIN Mounts, NEW f \in [1 .. clntkudpxid - 1 -> Ids],
         RestOK(k), Story(k, f), NEW p \in Procs, Awake(p)
  PROVE  IInv'
<1> DEFINE c == call[p]
           d == [c EXCEPT !.pc = "recv"]
<1>1. /\ DOMAIN call = Procs
      /\ WireOK(k, f, effects, rcv, buf, ifq, BagToSet(net), sq)
  BY Parts
<1>2. /\ c.pc = "awake" /\ timer' = timer \ {c.h}
      /\ rcv' = rcv /\ busy' = busy /\ mnt' = mnt
      /\ UNCHANGED <<buf, ifq, net, server>>
      /\ \/ timedout' = [timedout EXCEPT ![c.h] = FALSE] /\ Done(p, "TIMEDOUT", None)
         \/ /\ call' = [call EXCEPT ![p] = d]
            /\ inuse' = inuse /\ clwanted' = clwanted /\ timedout' = timedout
            /\ clntkudpxid' = clntkudpxid
  BY DEF Awake
<1>3. CASE timedout' = [timedout EXCEPT ![c.h] = FALSE] /\ Done(p, "TIMEDOUT", None)
  <2>1. timedout' \in [Hs(k) -> BOOLEAN]
    BY <1>3 DEF RestOK
  <2>2. TryOK(k, f, p, "TIMEDOUT", None)
    BY <1>1, <1>2, <2>1 DEF TryOK, Stats, RestOK
  <2>3. QED BY <1>3, <2>2, DoneKeeps
<1>4. CASE /\ call' = [call EXCEPT ![p] = d]
           /\ inuse' = inuse /\ clwanted' = clwanted /\ timedout' = timedout
           /\ clntkudpxid' = clntkudpxid
  <2> DEFINE cl == call'
             t == timer'
  <2>1. /\ effects' = effects /\ nfsd' = nfsd /\ dupreqs' = dupreqs /\ buf' = buf
        /\ ifq' = ifq /\ net' = net /\ sq' = sq /\ registered' = registered
    BY <1>2 DEF server
  <2>2. /\ c \in CallRec(k) /\ c.h # None /\ c.h \in Hs(k) /\ inuse[c.h] /\ c.n > 0
        /\ c.op \in Mounts[k].ops /\ For(f, c.xid, <<p, c.n>>)
        /\ c.rtries > 0 /\ ReqOK(k, f, buf[c.h]) /\ buf[c.h].id = <<p, c.n>>
    BY <1>2, InWait DEF Waiting
  <2>3. /\ d \in CallRec(k) /\ d.pc = "recv" /\ d.h = c.h /\ d.n = c.n /\ d.op = c.op
        /\ d.xid = c.xid /\ d.rtries = c.rtries
    BY <2>2 DEF CallRec
  <2>4. RestOK(k)'
    BY <1>2, <1>4, <2>1 DEF RestOK
  <2>5. Becomes(call, p, d, cl)
    BY <1>4 DEF Becomes
  <2> HIDE DEF d, cl
  <2>6. ProcOK(k, f, buf, inuse, p, d)
    BY <2>2, <2>3 DEF ProcOK, Outside, Waiting
  <2>7. \A x \in t : x \in timer /\ x # call[p].h
    BY <1>2
  <2>8. ClientOK(k, f, cl, inuse, t, buf)
    <3> HIDE DEF t
    <3>1. d.h = call[p].h
      BY <2>3
    <3>2. QED BY <2>5, <2>6, <2>7, <3>1, Alone
  <2>9. WireOK(k, f, effects, rcv', buf', ifq', BagToSet(net'), sq')
    BY <1>1, <1>2, <2>1
  <2>10. /\ f \in [1 .. clntkudpxid' - 1 -> Ids] /\ Extends(f, f)
         /\ ClientOK(k, f, call', inuse', timer', buf')
    BY <1>4, <2>1, <2>8 DEF Extends, cl
  <2>11. QED BY <2>1, <2>4, <2>9, <2>10, ClientFinish
<1>5. QED BY <1>2, <1>3, <1>4

\* A message is received: with the transaction id of the call, it is the reply to
\* the call.
LEMMA RecvKeeps ==
  ASSUME NEW k \in DOMAIN Mounts, NEW f \in [1 .. clntkudpxid - 1 -> Ids],
         RestOK(k), Story(k, f), NEW p \in Procs, Recv(p)
  PROVE  IInv'
<1> DEFINE c == call[p]
           d == [c EXCEPT !.rtries = c.rtries - 1]
           rep == Content(Head(rcv[c.h]))
           good == rep.xid = buf[c.h].xid
<1>1. /\ ClientOK(k, f, call, inuse, timer, buf) /\ DOMAIN call = Procs
      /\ WireOK(k, f, effects, rcv, buf, ifq, BagToSet(net), sq)
  BY Parts
<1>2. /\ c.pc = "recv" /\ rcv[c.h] # <<>>
      /\ rcv' = [rcv EXCEPT ![c.h] = IF good THEN <<>> ELSE Tail(rcv[c.h])]
      /\ busy' \subseteq busy
      /\ timedout' = timedout /\ timer' = timer /\ mnt' = mnt
      /\ UNCHANGED <<buf, ifq, net, server>>
      /\ \/ good /\ Done(p, rep.st, rep)
         \/ ~good /\ Done(p, "CANTRECV", None)
         \/ /\ ~good /\ c.rtries # 1 /\ call' = [call EXCEPT ![p] = d]
            /\ inuse' = inuse /\ clwanted' = clwanted /\ clntkudpxid' = clntkudpxid
  BY <1>1 DEF Recv
<1>3. /\ c \in CallRec(k) /\ c.h # None /\ c.h \in Hs(k) /\ inuse[c.h] /\ c.n > 0
      /\ c.op \in Mounts[k].ops /\ For(f, c.xid, <<p, c.n>>)
      /\ c.rtries > 0 /\ ReqOK(k, f, buf[c.h]) /\ buf[c.h].id = <<p, c.n>>
  BY <1>2, InWait DEF Waiting
<1>4. Reps(k, f, effects, buf, rcv[c.h])
  BY <1>1, <1>3 DEF WireOK
<1>5. Reps(k, f, effects, buf, Tail(rcv[c.h])) /\ RepOK(k, f, effects, rep)
  <2>1. rep = Says(buf, Head(rcv[c.h]))
    BY DEF Content, Says
  <2> HIDE DEF rep
  <2>2. QED BY <1>2, <1>4, <2>1, RepsTail
<1>6. \A x \in timer : x # call[p].h
  BY <1>1, <1>2, NotTimed
<1>7. WireOK(k, f, effects, rcv', buf, ifq, BagToSet(net), sq)
  BY <1>1, <1>2, <1>3, <1>5, NoMbufs, OneSocket
<1>8. CASE good /\ Done(p, rep.st, rep)
  <2>1. rep.id = <<p, c.n>> /\ rep.st \in Stats
    <3>1. For(f, rep.xid, rep.id) /\ rep \in Rep(k)
      BY <1>5 DEF RepOK
    <3>2. For(f, rep.xid, <<p, c.n>>)
      BY <1>3, <1>8 DEF ReqOK
    <3>3. QED BY <3>1, <3>2 DEF For, Rep
  <2> HIDE DEF rep
  <2>2. TryOK(k, f, p, rep.st, rep)
    BY <1>2, <1>5, <1>6, <1>7, <2>1 DEF TryOK, RestOK
  <2>3. QED BY <1>8, <2>2, DoneKeeps
<1>9. CASE Done(p, "CANTRECV", None)
  <2>1. TryOK(k, f, p, "CANTRECV", None)
    BY <1>2, <1>6, <1>7 DEF TryOK, RestOK, Stats
  <2>2. QED BY <1>9, <2>1, DoneKeeps
<1>10. CASE /\ c.rtries # 1 /\ call' = [call EXCEPT ![p] = d]
            /\ inuse' = inuse /\ clwanted' = clwanted /\ clntkudpxid' = clntkudpxid
  <2> DEFINE cl == call'
  <2>1. /\ effects' = effects /\ nfsd' = nfsd /\ dupreqs' = dupreqs /\ buf' = buf
        /\ ifq' = ifq /\ net' = net /\ sq' = sq /\ registered' = registered
    BY <1>2 DEF server
  <2>2. /\ d \in CallRec(k) /\ d.pc = "recv" /\ d.h = c.h /\ d.n = c.n /\ d.op = c.op
        /\ d.xid = c.xid /\ d.rtries > 0
    <3>1. c.rtries - 1 \in 0 .. RECVTRIES /\ c.rtries - 1 > 0
      BY <1>3, <1>10 DEF CallRec, RECVTRIES
    <3>2. QED BY <1>2, <1>3, <3>1 DEF CallRec
  <2>3. RestOK(k)'
    BY <1>2, <1>10, <2>1 DEF RestOK
  <2>4. Becomes(call, p, d, cl)
    BY <1>10 DEF Becomes
  <2> HIDE DEF d, cl, rep
  <2>5. ProcOK(k, f, buf, inuse, p, d)
    BY <1>3, <2>2 DEF ProcOK, Outside, Waiting
  <2>6. ClientOK(k, f, cl, inuse, timer, buf)
    <3>1. d.h = call[p].h
      BY <2>2
    <3>2. QED BY <1>6, <2>4, <2>5, <3>1, Alone
  <2>7. WireOK(k, f, effects, rcv', buf', ifq', BagToSet(net'), sq')
    BY <1>7, <2>1
  <2>8. /\ f \in [1 .. clntkudpxid' - 1 -> Ids] /\ Extends(f, f)
        /\ ClientOK(k, f, call', inuse', timer', buf')
    BY <1>2, <1>10, <2>1, <2>6 DEF Extends, cl
  <2>9. QED BY <2>1, <2>3, <2>7, <2>8, ClientFinish
<1>11. QED BY <1>2, <1>8, <1>9, <1>10

-----------------------------------------------------------------------------
(***************************************************************************)
(* Timeouts and the network.                                               *)
(***************************************************************************)

\* A step that no process takes: some are woken, nothing is executed.
LEMMA NetFinish ==
  ASSUME NEW k \in DOMAIN Mounts, NEW f \in [1 .. clntkudpxid - 1 -> Ids],
         RestOK(k), Story(k, f), RestOK(k)', clntkudpxid' = clntkudpxid, inuse' = inuse,
         timer' \subseteq timer, DOMAIN call' = Procs,
         \A q \in Procs : Woken(call[q], call'[q]),
         \A h \in Hs(k) : buf'[h] = buf[h],
         WireOK(k, f, effects, rcv', buf', ifq', BagToSet(net'), sq'),
         ServerOK(k, f, effects, nfsd', dupreqs'), effects' = effects
  PROVE  IInv'
<1>1. ClientOK(k, f, call, inuse, timer, buf)
  BY Parts
<1>2. ClientOK(k, f, call', inuse, timer', buf')
  <2> DEFINE cl == call'
             t == timer'
             B == buf'
  <2>1. DOMAIN cl = Procs /\ \A q \in Procs : Woken(call[q], cl[q])
    OBVIOUS
  <2>2. t \subseteq timer /\ \A h \in Hs(k) : B[h] = buf[h]
    OBVIOUS
  <2> HIDE DEF cl, t, B
  <2>3. ClientOK(k, f, cl, inuse, t, B)
    BY <1>1, <2>1, <2>2, ClientWakes
  <2>4. QED BY <2>3 DEF cl, t, B
<1>3. f \in [1 .. clntkudpxid' - 1 -> Ids] /\ ClientOK(k, f, call', inuse', timer', buf')
  BY <1>2
<1>4. /\ WireOK(k, f, effects', rcv', buf', ifq', BagToSet(net'), sq')
      /\ ServerOK(k, f, effects', nfsd', dupreqs')
  OBVIOUS
<1>5. QED BY <1>3, <1>4, Finish

\* sbwakeup() wakes processes that sleep.
LEMMA SbWakes ==
  ASSUME DOMAIN call = Procs, NEW h
  PROVE  /\ DOMAIN Sbwakeup(call, h) = Procs
         /\ \A q \in Procs : Woken(call[q], Sbwakeup(call, h)[q])
         /\ \A q \in Procs : Woken(call[q], call[q])
BY DEF Sbwakeup, Woken

\* What messages are on the wire.
LEMMA BagAdds ==
  ASSUME NEW B, NEW x
  PROVE  BagToSet(B (+) SetToBag({x})) = BagToSet(B) \cup {x}
BY DEF BagToSet, SetToBag, (+)

\* A message that is taken from the wire leaves no new one there.
LEMMA BagTakes ==
  ASSUME NEW B, NEW x
  PROVE  BagToSet(B (-) SetToBag({x})) \subseteq BagToSet(B)
BY DEF BagToSet, SetToBag, (-)

\* A timeout comes.
LEMMA CkuwakeupKeeps ==
  ASSUME NEW k \in DOMAIN Mounts, NEW f \in [1 .. clntkudpxid - 1 -> Ids],
         RestOK(k), Story(k, f), NEW h \in Handles, Ckuwakeup(h)
  PROVE  IInv'
<1>1. /\ DOMAIN call = Procs /\ ServerOK(k, f, effects, nfsd, dupreqs)
      /\ WireOK(k, f, effects, rcv, buf, ifq, BagToSet(net), sq)
  BY Parts
<1>2. /\ timer' = timer \ {h} /\ timedout' = [timedout EXCEPT ![h] = TRUE]
      /\ call' = Sbwakeup(call, h) /\ clntkudpxid' = clntkudpxid /\ inuse' = inuse
      /\ clwanted' = clwanted /\ busy' = busy /\ mnt' = mnt
      /\ rcv' = rcv /\ buf' = buf /\ ifq' = ifq /\ net' = net /\ sq' = sq
      /\ nfsd' = nfsd /\ dupreqs' = dupreqs /\ effects' = effects /\ registered' = registered
  BY DEF Ckuwakeup, server
<1>3. RestOK(k)'
  BY <1>2 DEF RestOK
<1>4. DOMAIN call' = Procs /\ \A q \in Procs : Woken(call[q], call'[q])
  BY <1>1, <1>2, SbWakes
<1>5. /\ WireOK(k, f, effects, rcv', buf', ifq', BagToSet(net'), sq')
      /\ ServerOK(k, f, effects, nfsd', dupreqs')
      /\ timer' \subseteq timer /\ \A x \in Hs(k) : buf'[x] = buf[x]
  BY <1>1, <1>2
<1>6. QED BY <1>2, <1>3, <1>4, <1>5, NetFinish

\* The interface sends a message.
LEMMA TransmitKeeps ==
  ASSUME NEW k \in DOMAIN Mounts, NEW f \in [1 .. clntkudpxid - 1 -> Ids],
         RestOK(k), Story(k, f), Transmit
  PROVE  IInv'
<1> DEFINE m == Content(Head(ifq))
           d == [to |-> 0, msg |-> m]
           N == BagToSet(net')
<1>1. /\ DOMAIN call = Procs /\ ServerOK(k, f, effects, nfsd, dupreqs)
      /\ WireOK(k, f, effects, rcv, buf, ifq, BagToSet(net), sq)
  BY Parts
<1>2. /\ ifq # <<>> /\ net' = net (+) SetToBag({d}) /\ ifq' = Tail(ifq)
      /\ busy' \subseteq busy
      /\ timer' = timer /\ timedout' = timedout /\ mnt' = mnt
      /\ call' = call /\ clntkudpxid' = clntkudpxid /\ inuse' = inuse
      /\ clwanted' = clwanted /\ rcv' = rcv /\ buf' = buf /\ sq' = sq
      /\ nfsd' = nfsd /\ dupreqs' = dupreqs /\ effects' = effects /\ registered' = registered
  BY DEF Transmit, server, client
<1>3. Reqs(k, f, buf, Tail(ifq)) /\ ReqOK(k, f, m)
  <2>1. m = Says(buf, Head(ifq))
    BY DEF Content, Says
  <2> HIDE DEF m
  <2>2. QED BY <1>1, <1>2, <2>1, ReqsTail DEF WireOK
<1>4. N = BagToSet(net) \cup {d}
  BY <1>2, BagAdds
<1>5. WireOK(k, f, effects, rcv, buf, Tail(ifq), N, sq)
  <2>1. d.to = 0 /\ ReqOK(k, f, d.msg)
    BY <1>3
  <2> HIDE DEF m, d, N
  <2>2. NetOK(k, f, effects, N)
    BY <1>1, <1>4, <2>1 DEF WireOK, NetOK
  <2>3. QED BY <1>1, <1>3, <2>2 DEF WireOK
<1>6. RestOK(k)'
  BY <1>2 DEF RestOK
<1>7. DOMAIN call' = Procs /\ \A q \in Procs : Woken(call[q], call'[q])
  BY <1>1, <1>2 DEF Woken
<1>8. /\ WireOK(k, f, effects, rcv', buf', ifq', BagToSet(net'), sq')
      /\ ServerOK(k, f, effects, nfsd', dupreqs')
      /\ timer' \subseteq timer /\ \A x \in Hs(k) : buf'[x] = buf[x]
  BY <1>1, <1>2, <1>5
<1>9. QED BY <1>2, <1>6, <1>7, <1>8, NetFinish

\* A message on the wire arrives, and some of the wire's messages stay there.
LEMMA ArriveKeeps ==
  ASSUME NEW k \in DOMAIN Mounts, NEW f \in [1 .. clntkudpxid - 1 -> Ids],
         RestOK(k), Story(k, f), NEW d \in BagToSet(net), Arrive(d),
         BagToSet(net') \subseteq BagToSet(net),
         mnt' \in [conf : DOMAIN Mounts, faults : Nat], mnt'.conf = k,
         mnt'.faults <= Mounts[k].maxfaults,
         UNCHANGED <<inuse, clwanted, timedout, timer, buf, busy, clntkudpxid, ifq,
                     nfsd, dupreqs, registered, files, effects>>
  PROVE  IInv'
<1> DEFINE m == [own |-> None, msg |-> d.msg]
           N == BagToSet(net')
<1>1. /\ DOMAIN call = Procs /\ ServerOK(k, f, effects, nfsd, dupreqs)
      /\ WireOK(k, f, effects, rcv, buf, ifq, BagToSet(net), sq)
  BY Parts
<1>2. /\ timer' = timer /\ timedout' = timedout /\ busy' = busy
      /\ clntkudpxid' = clntkudpxid /\ inuse' = inuse
      /\ clwanted' = clwanted /\ buf' = buf /\ ifq' = ifq
      /\ nfsd' = nfsd /\ dupreqs' = dupreqs /\ effects' = effects /\ registered' = registered
  OBVIOUS
<1>3. \/ d.to = 0 /\ ReqOK(k, f, d.msg)
      \/ d.to \in Hs(k) /\ RepOK(k, f, effects, d.msg)
  BY <1>1 DEF WireOK, NetOK
<1>4. WireOK(k, f, effects, rcv, buf, ifq, N, sq)
  <2> HIDE DEF N
  <2>1. N \subseteq BagToSet(net)
    BY DEF N
  <2>2. NetOK(k, f, effects, N)
    BY <1>1, <2>1 DEF WireOK, NetOK
  <2>3. QED BY <1>1, <2>2 DEF WireOK
<1>5. 0 \notin Hs(k) /\ Says(buf, m) = d.msg
  BY MountIs DEF Says
<1>6. ASSUME d.to = 0
      PROVE  /\ WireOK(k, f, effects, rcv', buf, ifq, N, sq')
             /\ DOMAIN call' = Procs /\ \A q \in Procs : Woken(call[q], call'[q])
  <2>1. sq' = Append(sq, m) /\ call' = call /\ rcv' = rcv
    BY <1>6 DEF Arrive
  <2>2. m \in ReqMbuf(k) /\ ReqOK(k, f, Says(buf, m))
    BY <1>3, <1>5, <1>6 DEF ReqOK, ReqMbuf
  <2> HIDE DEF m
  <2>3. Reqs(k, f, buf, Append(sq, m))
    BY <1>1, <2>2, ReqsAppend DEF WireOK
  <2>4. WireOK(k, f, effects, rcv', buf, ifq, N, sq')
    BY <1>4, <2>1, <2>3 DEF WireOK
  <2>5. DOMAIN call' = Procs /\ \A q \in Procs : Woken(call[q], call'[q])
    BY <1>1, <2>1 DEF Woken
  <2>6. QED BY <2>4, <2>5
<1>7. ASSUME d.to # 0
      PROVE  /\ WireOK(k, f, effects, rcv', buf, ifq, N, sq')
             /\ DOMAIN call' = Procs /\ \A q \in Procs : Woken(call[q], call'[q])
  <2>1. /\ rcv' = [rcv EXCEPT ![d.to] = Append(rcv[d.to], m)]
        /\ call' = Sbwakeup(call, d.to) /\ sq' = sq
    BY <1>7 DEF Arrive
  <2>2. m \in RepMbuf(k) /\ RepOK(k, f, effects, Says(buf, m)) /\ d.to \in Hs(k)
    BY <1>3, <1>5, <1>7 DEF RepOK, RepMbuf
  <2> HIDE DEF m
  <2>3. Reps(k, f, effects, buf, Append(rcv[d.to], m))
    BY <1>1, <2>2, RepsAppend DEF WireOK
  <2>4. WireOK(k, f, effects, rcv', buf, ifq, N, sq')
    BY <1>4, <2>1, <2>2, <2>3, OneSocket
  <2>5. DOMAIN call' = Procs /\ \A q \in Procs : Woken(call[q], call'[q])
    BY <1>1, <2>1, SbWakes
  <2>6. QED BY <2>4, <2>5
<1>8. /\ WireOK(k, f, effects, rcv', buf, ifq, N, sq')
      /\ DOMAIN call' = Procs /\ \A q \in Procs : Woken(call[q], call'[q])
  BY <1>6, <1>7
<1>9. RestOK(k)'
  BY <1>2 DEF RestOK
<1>10. /\ WireOK(k, f, effects, rcv', buf', ifq', BagToSet(net'), sq')
       /\ ServerOK(k, f, effects, nfsd', dupreqs')
       /\ timer' \subseteq timer /\ \A x \in Hs(k) : buf'[x] = buf[x]
  BY <1>1, <1>2, <1>8
<1>11. QED BY <1>2, <1>8, <1>9, <1>10, NetFinish

\* A message arrives.
LEMMA DeliverKeeps ==
  ASSUME NEW k \in DOMAIN Mounts, NEW f \in [1 .. clntkudpxid - 1 -> Ids],
         RestOK(k), Story(k, f), NEW d \in BagToSet(net), Deliver(d)
  PROVE  IInv'
<1>1. BagToSet(net') \subseteq BagToSet(net)
  BY BagTakes DEF Deliver
<1>2. /\ mnt' \in [conf : DOMAIN Mounts, faults : Nat] /\ mnt'.conf = k
      /\ mnt'.faults <= Mounts[k].maxfaults
  BY DEF Deliver, RestOK
<1>3. /\ UNCHANGED <<inuse, clwanted, timedout, timer, buf, busy, clntkudpxid, ifq,
                     nfsd, dupreqs, registered, files, effects>>
      /\ Arrive(d)
  BY DEF Deliver
<1>4. QED BY <1>1, <1>2, <1>3, ArriveKeeps

\* A message arrives and stays on the wire.
LEMMA DuplicateKeeps ==
  ASSUME NEW k \in DOMAIN Mounts, NEW f \in [1 .. clntkudpxid - 1 -> Ids],
         RestOK(k), Story(k, f), NEW d \in BagToSet(net), Duplicate(d)
  PROVE  IInv'
<1>1. BagToSet(net') \subseteq BagToSet(net)
  BY DEF Duplicate
<1>2. /\ mnt' \in [conf : DOMAIN Mounts, faults : Nat] /\ mnt'.conf = k
      /\ mnt'.faults <= Mounts[k].maxfaults
  BY FaultOK DEF Duplicate
<1>3. /\ UNCHANGED <<inuse, clwanted, timedout, timer, buf, busy, clntkudpxid, ifq,
                     nfsd, dupreqs, registered, files, effects>>
      /\ Arrive(d)
  BY DEF Duplicate
<1>4. QED BY <1>1, <1>2, <1>3, ArriveKeeps

\* A message is lost.
LEMMA LoseKeeps ==
  ASSUME NEW k \in DOMAIN Mounts, NEW f \in [1 .. clntkudpxid - 1 -> Ids],
         RestOK(k), Story(k, f), NEW d \in BagToSet(net), Lose(d)
  PROVE  IInv'
<1> DEFINE N == BagToSet(net')
<1>1. /\ DOMAIN call = Procs /\ ServerOK(k, f, effects, nfsd, dupreqs)
      /\ WireOK(k, f, effects, rcv, buf, ifq, BagToSet(net), sq)
  BY Parts
<1>2. /\ timer' = timer /\ timedout' = timedout /\ busy' = busy
      /\ call' = call /\ clntkudpxid' = clntkudpxid /\ inuse' = inuse
      /\ clwanted' = clwanted /\ rcv' = rcv /\ buf' = buf /\ ifq' = ifq /\ sq' = sq
      /\ nfsd' = nfsd /\ dupreqs' = dupreqs /\ effects' = effects /\ registered' = registered
  BY DEF Lose, server, client
<1>3. N \subseteq BagToSet(net)
  BY BagTakes DEF Lose
<1>4. /\ mnt' \in [conf : DOMAIN Mounts, faults : Nat] /\ mnt'.conf = k
      /\ mnt'.faults <= Mounts[k].maxfaults
  BY FaultOK DEF Lose
<1>5. RestOK(k)'
  BY <1>2, <1>4 DEF RestOK
<1>6. WireOK(k, f, effects, rcv, buf, ifq, N, sq)
  <2> HIDE DEF N
  <2>1. NetOK(k, f, effects, N)
    BY <1>1, <1>3 DEF WireOK, NetOK
  <2>2. QED BY <1>1, <2>1 DEF WireOK
<1>7. DOMAIN call' = Procs /\ \A q \in Procs : Woken(call[q], call'[q])
  BY <1>1, <1>2 DEF Woken
<1>8. /\ WireOK(k, f, effects, rcv', buf', ifq', BagToSet(net'), sq')
      /\ ServerOK(k, f, effects, nfsd', dupreqs')
      /\ timer' \subseteq timer /\ \A x \in Hs(k) : buf'[x] = buf[x]
  BY <1>1, <1>2, <1>6
<1>9. QED BY <1>2, <1>5, <1>7, <1>8, NetFinish

-----------------------------------------------------------------------------
(***************************************************************************)
(* The server.                                                             *)
(***************************************************************************)

\* One server process changes.
LEMMA OneNfsd ==
  ASSUME NEW k, NEW f, NEW e, NEW s, NEW q, ServerOK(k, f, e, s, q),
         NEW n \in Nfsds, NEW d, NfsdOK(k, f, e, d)
  PROVE  ServerOK(k, f, e, [s EXCEPT ![n] = d], q)
BY DEF ServerOK

\* A request that has been executed is saved.
LEMMA SaveOne ==
  ASSUME NEW k \in DOMAIN Mounts, NEW f, NEW e, NEW q, DupOK(k, f, e, q),
         NEW y \in SavedKey(k), y[1] \in DOMAIN f, e[f[y[1]]] > 0
  PROVE  DupOK(k, f, e, Append(IF Len(q) < Mounts[k].dupmax THEN q ELSE Tail(q), y))
<1> DEFINE max == Mounts[k].dupmax
           K == SavedKey(k)
           r == IF Len(q) < max THEN q ELSE Tail(q)
           A == Append(r, y)
<1>1. max \in Nat \ {0}
  BY MountIs
<1>2. q \in Seq(K) /\ Len(q) <= max /\ y \in K
  BY DEF DupOK
<1>3. \A i \in DOMAIN q : q[i][1] \in DOMAIN f /\ e[f[q[i][1]]] > 0
  BY DEF DupOK
<1> HIDE DEF max, K
<1>4. /\ r \in Seq(K) /\ Len(r) < max
      /\ \A i \in DOMAIN r : \E j \in DOMAIN q : r[i] = q[j]
  <2>1. CASE Len(q) < max
    BY <1>2, <2>1
  <2>2. CASE Len(q) >= max
    <3>1. q # <<>> /\ r = Tail(q)
      BY <1>1, <1>2, <2>2
    <3>2. /\ Tail(q) \in Seq(K) /\ Len(Tail(q)) = Len(q) - 1
          /\ \A i \in DOMAIN Tail(q) : i + 1 \in DOMAIN q /\ Tail(q)[i] = q[i + 1]
      BY <1>2, <3>1
    <3> HIDE DEF r
    <3>3. r \in Seq(K)
      BY <3>1, <3>2
    <3>4. Len(r) < max
      <4>1. Len(q) \in Nat /\ Len(r) = Len(q) - 1
        BY <1>2, <3>1, <3>2
      <4>2. QED BY <1>1, <1>2, <4>1
    <3>5. \A i \in DOMAIN r : \E j \in DOMAIN q : r[i] = q[j]
      BY <3>1, <3>2
    <3>6. QED BY <3>3, <3>4, <3>5
  <2>3. QED BY <1>1, <1>2, <2>1, <2>2
<1> HIDE DEF r
<1>5. /\ A \in Seq(K) /\ Len(A) <= max
      /\ \A i \in DOMAIN A : (i \in DOMAIN r /\ A[i] = r[i]) \/ A[i] = y
  BY <1>1, <1>2, <1>4
<1>6. \A i \in DOMAIN A : A[i][1] \in DOMAIN f /\ e[f[A[i][1]]] > 0
  BY <1>3, <1>4, <1>5
<1>7. DupOK(k, f, e, A)
  BY <1>5, <1>6 DEF DupOK, max, K
<1>8. QED BY <1>7 DEF A, r, max

\* A server's step: the clients see nothing of it but what comes in.
LEMMA ServerFinish ==
  ASSUME NEW k \in DOMAIN Mounts, NEW f \in [1 .. clntkudpxid - 1 -> Ids],
         RestOK(k), Story(k, f), RestOK(k)',
         UNCHANGED <<client, ifq>>, buf' = buf,
         WireOK(k, f, effects', rcv', buf, ifq, BagToSet(net'), sq'),
         ServerOK(k, f, effects', nfsd', dupreqs')
  PROVE  IInv'
<1>1. ClientOK(k, f, call, inuse, timer, buf)
  BY Parts
<1>2. /\ call' = call /\ inuse' = inuse /\ timer' = timer /\ clntkudpxid' = clntkudpxid
      /\ ifq' = ifq
  BY DEF client
<1>3. /\ ClientOK(k, f, call', inuse', timer', buf')
      /\ WireOK(k, f, effects', rcv', buf', ifq', BagToSet(net'), sq')
      /\ f \in [1 .. clntkudpxid' - 1 -> Ids]
  BY <1>1, <1>2
<1>4. QED BY <1>3, Finish

\* The errors of the operations.
LEMMA DispatchErr ==
  ASSUME NEW op, op.kind \in Kinds, NEW req
  PROVE  /\ RfsDispatch(op).err \in {"0", "ENOENT", "EEXIST"}
         /\ DupCheck(req, RfsDispatch(op).err) \in {"0", "ENOENT", "EEXIST"}
         /\ DupCheck(req, RfsDispatch(op).err) = "0" => RfsDispatch(op).err = "0" \/ Dup(req)
<1>1. RfsDispatch(op).err \in {"0", "ENOENT", "EEXIST"}
  BY DEF Kinds, RfsDispatch, RfsRemove, RfsLink, RfsSymlink, RfsRename
<1> DEFINE err == RfsDispatch(op).err
<1> HIDE DEF err
<1>2. err \in {"0", "ENOENT", "EEXIST"}
  BY <1>1 DEF err
<1>3. /\ DupCheck(req, err) \in {"0", "ENOENT", "EEXIST"}
      /\ DupCheck(req, err) = "0" => err = "0" \/ Dup(req)
  BY <1>2 DEF DupCheck
<1>4. QED BY <1>2, <1>3 DEF err

\* The request that a duplicate was saved of has been executed.
LEMMA DupIsTrue ==
  ASSUME NEW k, NEW f, ServerOK(k, f, effects, nfsd, dupreqs), NEW req,
         ReqOK(k, f, req), Dup(req)
  PROVE  effects[req.id] > 0
<1>1. PICK i \in DOMAIN dupreqs : dupreqs[i] = Key(req)
  BY DEF Dup
<1>2. dupreqs[i][1] = req.xid
  BY <1>1 DEF Key
<1>3. effects[f[req.xid]] > 0
  BY <1>1, <1>2 DEF ServerOK, DupOK
<1>4. QED BY <1>3 DEF ReqOK, For

\* Call i has been executed.
Executed(e, i) == e[i] > 0

\* What a server process answers.
LEMMA ReplyOK ==
  ASSUME NEW k, NEW f, NEW e, NEW req, ReqOK(k, f, req), NEW st \in Stats, NEW err \in Errors,
         st = "SUCCESS" /\ err = "0" => Executed(e, req.id)
  PROVE  /\ RepOK(k, f, e, Reply(req, st, err)) /\ Reply(req, st, err).st = st
         /\ Reply(req, st, err).xid = req.xid /\ Reply(req, st, err).id = req.id
<1> DEFINE r == Reply(req, st, err)
<1>1. req.xid \in Nat /\ req.id \in Ids /\ req.h \in Hs(k)
  BY DEF ReqOK, Req
<1>2. r \in Rep(k) /\ r.xid = req.xid /\ r.id = req.id /\ r.st = st /\ r.nfs = err
  BY <1>1 DEF Reply, Rep
<1>3. QED BY <1>2 DEF RepOK, ReqOK, Executed

\* A request is executed, or refused.
LEMMA SvcGetreqKeeps ==
  ASSUME NEW k \in DOMAIN Mounts, NEW f \in [1 .. clntkudpxid - 1 -> Ids],
         RestOK(k), Story(k, f), NEW n \in Nfsds, SvcGetreq(n)
  PROVE  IInv'
<1> DEFINE m == Head(sq)
           req == Content(m)
           v == RfsDispatch(req.op)
           err == DupCheck(req, v.err)
           x == effects'
           d1 == [pc |-> "send", req |-> req, in |-> None,
                  rep |-> Reply(req, "PROGUNAVAIL", None)]
           d2 == [pc |-> "iput", req |-> req, in |-> m, rep |-> Reply(req, "SUCCESS", err)]
           s == nfsd'
<1>1. /\ ServerOK(k, f, effects, nfsd, dupreqs)
      /\ WireOK(k, f, effects, rcv, buf, ifq, BagToSet(net), sq)
  BY Parts
<1>2. /\ sq # <<>> /\ sq' = Tail(sq)
      /\ \/ s = [nfsd EXCEPT ![n] = d1] /\ x = effects
         \/ /\ s = [nfsd EXCEPT ![n] = d2]
            /\ x = IF v.err = "0" THEN [effects EXCEPT ![req.id] = effects[req.id] + 1]
                                  ELSE effects
      /\ UNCHANGED <<client, rcv, buf, busy, ifq, net, dupreqs, registered, mnt>>
  BY DEF SvcGetreq
<1>3. Reqs(k, f, buf, Tail(sq)) /\ m \in ReqMbuf(k) /\ ReqOK(k, f, req)
  <2>1. req = Says(buf, Head(sq))
    BY DEF Content, Says
  <2> HIDE DEF req
  <2>2. QED BY <1>1, <1>2, <2>1, ReqsTail DEF WireOK
<1>4. req \in Req(k) /\ req.op.kind \in Kinds /\ req.id \in Ids
  BY <1>3, MountIs DEF ReqOK, Req
<1>5. /\ v.err \in {"0", "ENOENT", "EEXIST"} /\ err \in {"0", "ENOENT", "EEXIST"}
      /\ err = "0" => v.err = "0" \/ Dup(req)
  BY <1>4, DispatchErr
<1>6. err = "0" => v.err = "0" \/ effects[req.id] > 0
  BY <1>1, <1>3, <1>5, DupIsTrue
<1> HIDE DEF m, req, v, err, s
<1>7. effects \in [Ids -> Nat]
  BY <1>1 DEF ServerOK
<1>8. Grows(effects, x)
  <2>1. CASE x = effects
    BY <1>7, <2>1 DEF Grows
  <2>2. CASE x = [effects EXCEPT ![req.id] = effects[req.id] + 1]
    <3> DEFINE z == effects[req.id] + 1
    <3>1. z \in Nat /\ z > 0
      BY <1>4, <1>7
    <3>2. x = [effects EXCEPT ![req.id] = z]
      BY <2>2
    <3> HIDE DEF z
    <3>3. QED BY <1>4, <1>7, <3>1, <3>2 DEF Grows
  <2>3. QED BY <1>2, <2>1, <2>2
<1> HIDE DEF x
<1>9. Extends(f, f) /\ f \in [DOMAIN f -> Ids]
  BY DEF Extends
<1>10. ServerOK(k, f, x, nfsd, dupreqs)
  BY <1>1, <1>8, <1>9, ServerGrows
<1>11. WireOK(k, f, x, rcv, buf, ifq, BagToSet(net), Tail(sq))
  <2>1. WireOK(k, f, effects, rcv, buf, ifq, BagToSet(net), Tail(sq))
    BY <1>1, <1>3 DEF WireOK
  <2>2. QED BY <1>8, <1>9, <2>1, WireGrows
<1>12. ServerOK(k, f, x, s, dupreqs)
  <2>1. CASE s = [nfsd EXCEPT ![n] = d1]
    <3> DEFINE r == Reply(req, "PROGUNAVAIL", None)
    <3>1. RepOK(k, f, x, r) /\ r.xid = req.xid /\ r.id = req.id
      BY <1>3, ReplyOK DEF Stats, Errors
    <3> HIDE DEF r
    <3>2. d1 = [pc |-> "send", req |-> req, in |-> None, rep |-> r]
      BY DEF r
    <3>3. d1 \in NfsdRec(k)
      BY <1>4, <3>1, <3>2 DEF NfsdRec, RepOK
    <3>4. d1.pc = "send" /\ d1.req = req /\ d1.rep = r
      BY <3>2
    <3> HIDE DEF d1
    <3>5. NfsdOK(k, f, x, d1)
      BY <1>3, <3>1, <3>3, <3>4 DEF NfsdOK
    <3>6. QED BY <1>10, <2>1, <3>5, OneNfsd
  <2>2. CASE /\ s = [nfsd EXCEPT ![n] = d2]
             /\ x = IF v.err = "0" THEN [effects EXCEPT ![req.id] = effects[req.id] + 1]
                                  ELSE effects
    <3> DEFINE r == Reply(req, "SUCCESS", err)
    <3>1. err = "0" => Executed(x, req.id)
      <4>1. effects[req.id] \in Nat
        BY <1>4, <1>7
      <4>2. v.err = "0" => x[req.id] = effects[req.id] + 1
        BY <1>4, <1>7, <2>2
      <4>3. effects[req.id] > 0 => x[req.id] > 0
        BY <1>4, <1>8 DEF Grows
      <4>4. QED BY <1>6, <4>1, <4>2, <4>3 DEF Executed
    <3>2. err \in Errors /\ "SUCCESS" \in Stats
      BY <1>5 DEF Errors, Stats
    <3>3. RepOK(k, f, x, r) /\ r.st = "SUCCESS" /\ r.xid = req.xid /\ r.id = req.id
      BY <1>3, <3>1, <3>2, ReplyOK
    <3> HIDE DEF r
    <3>4. d2 = [pc |-> "iput", req |-> req, in |-> m, rep |-> r]
      BY DEF r
    <3>5. d2 \in NfsdRec(k)
      BY <1>3, <1>4, <3>3, <3>4 DEF NfsdRec, RepOK
    <3>6. d2.pc = "iput" /\ d2.req = req /\ d2.rep = r
      BY <3>4
    <3> HIDE DEF d2
    <3>7. NfsdOK(k, f, x, d2)
      BY <1>3, <3>3, <3>5, <3>6 DEF NfsdOK
    <3>8. QED BY <1>10, <2>2, <3>7, OneNfsd
  <2>3. QED BY <1>2, <2>1, <2>2
<1>13. RestOK(k)'
  BY <1>2 DEF RestOK, client
<1>14. /\ WireOK(k, f, effects', rcv', buf, ifq, BagToSet(net'), sq')
       /\ ServerOK(k, f, effects', nfsd', dupreqs')
  BY <1>2, <1>11, <1>12 DEF x, s
<1>15. UNCHANGED <<client, ifq>> /\ buf' = buf
  BY <1>2
<1>16. QED BY <1>13, <1>14, <1>15, ServerFinish

\* The operation ends, and its request may be saved.
LEMMA RfsEndKeeps ==
  ASSUME NEW k \in DOMAIN Mounts, NEW f \in [1 .. clntkudpxid - 1 -> Ids],
         RestOK(k), Story(k, f), NEW n \in Nfsds, RfsEnd(n)
  PROVE  IInv'
<1> DEFINE c == nfsd[n]
           d == [c EXCEPT !.pc = "send", !.in = None]
           y == Key(c.req)
           q == Append(IF Len(dupreqs) < DupMax THEN dupreqs ELSE Tail(dupreqs), y)
<1>1. /\ ServerOK(k, f, effects, nfsd, dupreqs)
      /\ WireOK(k, f, effects, rcv, buf, ifq, BagToSet(net), sq)
  BY Parts
<1>2. NfsdOK(k, f, effects, c) /\ DupOK(k, f, effects, dupreqs) /\ DOMAIN nfsd = Nfsds
  BY <1>1 DEF ServerOK
<1>3. /\ c.pc = "iput" /\ nfsd' = [nfsd EXCEPT ![n] = d] /\ busy' \subseteq busy
      /\ (c.rep.nfs = "0" /\ dupreqs' = q) \/ dupreqs' = dupreqs
      /\ client' = client /\ rcv' = rcv /\ buf' = buf /\ ifq' = ifq /\ net' = net
      /\ sq' = sq /\ registered' = registered /\ effects' = effects /\ mnt' = mnt
  BY <1>2 DEF RfsEnd, Dupsave
<1>4. /\ c \in NfsdRec(k) /\ ReqOK(k, f, c.req) /\ RepOK(k, f, effects, c.rep)
      /\ c.rep.xid = c.req.xid /\ c.rep.id = c.req.id /\ c.rep.st = "SUCCESS"
  BY <1>2, <1>3 DEF NfsdOK
<1>5. NfsdOK(k, f, effects, d)
  <2>1. d \in NfsdRec(k) /\ d.pc = "send" /\ d.req = c.req /\ d.rep = c.rep
    BY <1>4 DEF NfsdRec
  <2> HIDE DEF d, c
  <2>2. QED BY <1>4, <2>1 DEF NfsdOK
<1>6. DupOK(k, f, effects, dupreqs')
  <2>1. CASE c.rep.nfs = "0" /\ dupreqs' = q
    <3>1. c.req \in Req(k) /\ c.req.op.kind \in Kinds /\ For(f, c.req.xid, c.req.id)
      BY <1>4, MountIs DEF ReqOK, Req
    <3>2. y \in SavedKey(k) /\ y[1] = c.req.xid
      BY <3>1 DEF Key, SavedKey, Req
    <3>3. effects[c.req.id] > 0
      BY <1>4, <2>1 DEF RepOK
    <3>4. y[1] \in DOMAIN f /\ effects[f[y[1]]] > 0
      BY <3>1, <3>2, <3>3 DEF For
    <3>5. DupMax = Mounts[k].dupmax
      BY MountInUse
    <3> HIDE DEF y
    <3>6. QED BY <1>2, <2>1, <3>2, <3>4, <3>5, SaveOne
  <2>2. QED BY <1>2, <1>3, <2>1
<1> HIDE DEF d, q
<1>7. ServerOK(k, f, effects, nfsd', dupreqs')
  <2>1. ServerOK(k, f, effects, nfsd, dupreqs')
    BY <1>1, <1>6 DEF ServerOK
  <2>2. QED BY <1>3, <1>5, <2>1, OneNfsd
<1>8. RestOK(k)'
  BY <1>3 DEF RestOK, client
<1>9. /\ WireOK(k, f, effects', rcv', buf, ifq, BagToSet(net'), sq')
      /\ ServerOK(k, f, effects', nfsd', dupreqs')
      /\ UNCHANGED <<client, ifq>> /\ buf' = buf
  BY <1>1, <1>3, <1>7
<1>10. QED BY <1>8, <1>9, ServerFinish

\* The reply is sent.
LEMMA SvckudpSendKeeps ==
  ASSUME NEW k \in DOMAIN Mounts, NEW f \in [1 .. clntkudpxid - 1 -> Ids],
         RestOK(k), Story(k, f), NEW n \in Nfsds, SvckudpSend(n)
  PROVE  IInv'
<1> DEFINE c == nfsd[n]
           rep == c.rep
           d == [c EXCEPT !.pc = "idle", !.req = None, !.rep = None]
           B == buf'
           N == BagToSet(net')
           m == [own |-> n, msg |-> rep]
           w == [to |-> rep.h, msg |-> rep]
<1>1. /\ DOMAIN call = Procs /\ ServerOK(k, f, effects, nfsd, dupreqs)
      /\ WireOK(k, f, effects, rcv, buf, ifq, BagToSet(net), sq)
  BY Parts
<1>2. NfsdOK(k, f, effects, c) /\ DOMAIN nfsd = Nfsds
  BY <1>1 DEF ServerOK
<1>3. /\ c.pc = "send" /\ buf' = [buf EXCEPT ![n] = rep] /\ nfsd' = [nfsd EXCEPT ![n] = d]
      /\ \/ /\ rcv' = [rcv EXCEPT ![rep.h] = Append(rcv[rep.h], m)]
            /\ call' = Sbwakeup(call, rep.h) /\ net' = net /\ busy' = busy \cup {n}
         \/ net' = net (+) SetToBag({w}) /\ rcv' = rcv /\ call' = call /\ busy' = busy
      /\ inuse' = inuse /\ clwanted' = clwanted /\ timedout' = timedout /\ timer' = timer
      /\ clntkudpxid' = clntkudpxid /\ ifq' = ifq /\ sq' = sq /\ dupreqs' = dupreqs
      /\ registered' = registered /\ effects' = effects /\ mnt' = mnt
  BY <1>2 DEF SvckudpSend
<1>4. c \in NfsdRec(k) /\ RepOK(k, f, effects, rep) /\ rep.h \in Hs(k)
  BY <1>2, <1>3 DEF NfsdOK, RepOK, Rep
<1>5. NfsdOK(k, f, effects, d)
  <2>1. d \in NfsdRec(k) /\ d.pc = "idle"
    BY <1>4 DEF NfsdRec
  <2> HIDE DEF d
  <2>2. QED BY <2>1 DEF NfsdOK
<1>6. n \notin Hs(k) /\ n # None
  BY MountIs
<1> HIDE DEF d, rep
<1>7. ServerOK(k, f, effects, nfsd', dupreqs')
  BY <1>1, <1>3, <1>5, OneNfsd
<1>8. B[n] = rep /\ \A x \in Hs(k) : B[x] = buf[x]
  BY <1>1, <1>3, <1>6 DEF WireOK
<1>9. WireOK(k, f, effects, rcv, B, ifq, BagToSet(net), sq)
  BY <1>1, <1>3, <1>4, BufRep
<1> HIDE DEF B
<1>10. WireOK(k, f, effects, rcv', B, ifq, N, sq)
  <2>1. CASE rcv' = [rcv EXCEPT ![rep.h] = Append(rcv[rep.h], m)] /\ net' = net
    <3>1. m \in RepMbuf(k) /\ RepOK(k, f, effects, Says(B, m))
      BY <1>4, <1>6, <1>8 DEF Says, RepMbuf, RepOK
    <3> HIDE DEF m
    <3>2. Reps(k, f, effects, B, Append(rcv[rep.h], m))
      BY <1>4, <1>9, <3>1, RepsAppend DEF WireOK
    <3>3. QED BY <1>4, <1>9, <2>1, <3>2, OneSocket
  <2>2. CASE net' = net (+) SetToBag({w}) /\ rcv' = rcv
    <3>1. N = BagToSet(net) \cup {w}
      BY <2>2, BagAdds
    <3>2. w.to \in Hs(k) /\ RepOK(k, f, effects, w.msg)
      BY <1>4
    <3> HIDE DEF w, N
    <3>3. NetOK(k, f, effects, N)
      BY <1>9, <3>1, <3>2 DEF WireOK, NetOK
    <3>4. QED BY <1>9, <2>2, <3>3 DEF WireOK
  <2>3. QED BY <1>3, <2>1, <2>2
<1>11. DOMAIN call' = Procs /\ \A x \in Procs : Woken(call[x], call'[x])
  BY <1>1, <1>3, SbWakes
<1>12. RestOK(k)'
  BY <1>3 DEF RestOK
<1>13. /\ WireOK(k, f, effects, rcv', buf', ifq', BagToSet(net'), sq')
       /\ timer' \subseteq timer /\ \A x \in Hs(k) : buf'[x] = buf[x]
  BY <1>3, <1>8, <1>10 DEF B
<1>14. QED BY <1>3, <1>7, <1>11, <1>12, <1>13, NetFinish

\* A server process is killed.
LEMMA KillNfsdKeeps ==
  ASSUME NEW k \in DOMAIN Mounts, NEW f \in [1 .. clntkudpxid - 1 -> Ids],
         RestOK(k), Story(k, f), NEW n \in Nfsds, KillNfsd(n)
  PROVE  IInv'
<1> DEFINE c == nfsd[n]
           d == [c EXCEPT !.pc = "dead"]
<1>1. /\ ServerOK(k, f, effects, nfsd, dupreqs)
      /\ WireOK(k, f, effects, rcv, buf, ifq, BagToSet(net), sq)
  BY Parts
<1>2. NfsdOK(k, f, effects, c) /\ DOMAIN nfsd = Nfsds
  BY <1>1 DEF ServerOK
<1>3. /\ nfsd' = [nfsd EXCEPT ![n] = d] /\ registered' = FALSE
      /\ client' = client /\ rcv' = rcv /\ buf' = buf /\ busy' = busy /\ ifq' = ifq
      /\ net' = net /\ sq' = sq /\ dupreqs' = dupreqs /\ effects' = effects
  BY <1>2 DEF KillNfsd
<1>4. /\ mnt' \in [conf : DOMAIN Mounts, faults : Nat] /\ mnt'.conf = k
      /\ mnt'.faults <= Mounts[k].maxfaults
  BY FaultOK DEF KillNfsd
<1>5. NfsdOK(k, f, effects, d)
  <2>1. d \in NfsdRec(k) /\ d.pc = "dead"
    BY <1>2 DEF NfsdOK, NfsdRec
  <2> HIDE DEF d
  <2>2. QED BY <2>1 DEF NfsdOK
<1> HIDE DEF d
<1>6. ServerOK(k, f, effects, nfsd', dupreqs)
  BY <1>1, <1>3, <1>5, OneNfsd
<1>7. RestOK(k)'
  BY <1>3, <1>4 DEF RestOK, client
<1>8. /\ WireOK(k, f, effects', rcv', buf, ifq, BagToSet(net'), sq')
      /\ ServerOK(k, f, effects', nfsd', dupreqs')
      /\ UNCHANGED <<client, ifq>> /\ buf' = buf
  BY <1>1, <1>3, <1>6
<1>9. QED BY <1>7, <1>8, ServerFinish

\* A server that has just started.
Fresh == [n \in Nfsds |-> [pc |-> "idle", req |-> None, in |-> None, rep |-> None]]

\* It has nothing to answer for.
LEMMA FreshOK ==
  ASSUME NEW k \in DOMAIN Mounts, NEW f, NEW e \in [Ids -> Nat]
  PROVE  ServerOK(k, f, e, Fresh, <<>>)
<1>1. \A n \in Nfsds : NfsdOK(k, f, e, Fresh[n])
  BY DEF Fresh, NfsdOK, NfsdRec
<1>2. DupOK(k, f, e, <<>>)
  BY MountIs DEF DupOK
<1>3. QED BY <1>1, <1>2 DEF ServerOK, Fresh

\* The server crashes.
LEMMA CrashKeeps ==
  ASSUME NEW k \in DOMAIN Mounts, NEW f \in [1 .. clntkudpxid - 1 -> Ids],
         RestOK(k), Story(k, f), Crash
  PROVE  IInv'
<1>1. /\ ServerOK(k, f, effects, nfsd, dupreqs)
      /\ WireOK(k, f, effects, rcv, buf, ifq, BagToSet(net), sq)
  BY Parts
<1>2. /\ nfsd' = Fresh /\ registered' = TRUE /\ sq' = <<>> /\ dupreqs' = <<>>
      /\ client' = client /\ rcv' = rcv /\ buf' = buf /\ busy' = busy /\ ifq' = ifq
      /\ net' = net /\ effects' = effects
  BY DEF Crash, Fresh
<1>3. /\ mnt' \in [conf : DOMAIN Mounts, faults : Nat] /\ mnt'.conf = k
      /\ mnt'.faults <= Mounts[k].maxfaults
  BY FaultOK DEF Crash
<1>4. ServerOK(k, f, effects, Fresh, <<>>)
  BY <1>1, FreshOK DEF ServerOK
<1>5. WireOK(k, f, effects, rcv, buf, ifq, BagToSet(net), <<>>)
  BY <1>1, NoMbufs DEF WireOK
<1>6. RestOK(k)'
  BY <1>2, <1>3 DEF RestOK, client
<1>7. /\ WireOK(k, f, effects', rcv', buf, ifq, BagToSet(net'), sq')
      /\ ServerOK(k, f, effects', nfsd', dupreqs')
      /\ UNCHANGED <<client, ifq>> /\ buf' = buf
  BY <1>2, <1>4, <1>5
<1>8. QED BY <1>6, <1>7, ServerFinish

-----------------------------------------------------------------------------
\* The invariant holds at first: no transaction id has been given.
LEMMA InitOK ==
  ASSUME Init
  PROVE  IInv
<1>1. PICK k \in DOMAIN Mounts : mnt = [conf |-> k, faults |-> 0]
  BY DEF Init
<1>2. mnt.conf = k /\ Handles = Hs(k) /\ Files0 = Mounts[k].files
  BY <1>1 DEF Handles, NHandles, Hs, Files0
<1>3. /\ Mounts[k].maxfaults \in Nat /\ Mounts[k].retrans \in Nat /\ Calls \in Nat
      /\ None \notin Hs(k)
  BY MountIs
<1>4. RestOK(k)
  <2>1. /\ mnt \in [conf : DOMAIN Mounts, faults : Nat] /\ mnt.conf = k
        /\ mnt.faults <= Mounts[k].maxfaults
    BY <1>1, <1>3
  <2>2. timedout \in [Hs(k) -> BOOLEAN]
    BY <1>2 DEF Init
  <2>3. busy = {} /\ clwanted = FALSE /\ clntkudpxid = 1 /\ registered = TRUE
    BY DEF Init
  <2>4. busy \subseteq Hs(k) \cup Nfsds /\ clwanted \in BOOLEAN /\ registered \in BOOLEAN
    BY <2>3
  <2>5. clntkudpxid \in Nat \ {0}
    BY <2>3
  <2>6. QED BY <2>1, <2>2, <2>4, <2>5 DEF RestOK
<1>5. clntkudpxid = 1 /\ effects \in [Ids -> Nat]
  BY DEF Init
<1> DEFINE f == [x \in 1 .. clntkudpxid - 1 |-> <<>>]
<1>6. f \in [1 .. clntkudpxid - 1 -> Ids] /\ History(f)
  BY <1>5 DEF History
<1> HIDE DEF f
<1>7. ClientOK(k, f, call, inuse, timer, buf)
  <2>1. Idle \in CallRec(k) /\ Idle.pc = "idle" /\ Idle.h = None /\ Idle.n = 0
    BY <1>3 DEF Idle, CallRec, RECVTRIES
  <2>2. DOMAIN call = Procs /\ \A p \in Procs : call[p] = Idle
    BY DEF Init
  <2>3. \A p \in Procs : ProcOK(k, f, buf, inuse, p, call[p])
    BY <2>1, <2>2 DEF ProcOK, Outside, Waiting
  <2>4. inuse \in [Hs(k) -> BOOLEAN] /\ timer = {}
    BY <1>2 DEF Init
  <2>5. QED BY <2>1, <2>2, <2>3, <2>4 DEF ClientOK
<1>8. WireOK(k, f, effects, rcv, buf, ifq, BagToSet(net), sq)
  <2>1. BagToSet(net) = {}
    BY DEF Init, BagToSet, SetToBag, EmptyBag
  <2>2. ifq = <<>> /\ sq = <<>> /\ DOMAIN buf = Hs(k) \cup Nfsds
    BY <1>2 DEF Init
  <2>3. DOMAIN rcv = Hs(k) /\ \A h \in Hs(k) : rcv[h] = <<>>
    BY <1>2 DEF Init
  <2>4. QED BY <2>1, <2>2, <2>3, NoMbufs DEF WireOK, NetOK
<1>9. ServerOK(k, f, effects, nfsd, dupreqs)
  <2>1. nfsd = Fresh /\ dupreqs = <<>>
    BY DEF Init, Fresh
  <2>2. QED BY <1>5, <2>1, FreshOK
<1>10. Story(k, f)
  BY <1>6, <1>7, <1>8, <1>9 DEF Story
<1>11. QED BY <1>2, <1>4, <1>6, <1>10 DEF IInv

\* A step that changes nothing.
LEMMA StutterKeeps ==
  ASSUME IInv, UNCHANGED vars
  PROVE  IInv'
BY DEF IInv, vars, RestOK, Story, History

\* Every step leaves the invariant true.
LEMMA NextKeeps ==
  ASSUME IInv, [Next]_vars
  PROVE  IInv'
<1>1. PICK k \in DOMAIN Mounts, f \in [1 .. clntkudpxid - 1 -> Ids] : RestOK(k) /\ Story(k, f)
  BY Before
<1>2. ASSUME NEW p \in Procs, ClientStep(p) PROVE IInv'
  <2>1. CASE ClgetFound(p)
    BY <1>1, <2>1, ClgetFoundKeeps
  <2>2. CASE ClgetSleep(p)
    BY <2>2, ClgetSleepKeeps
  <2>3. CASE BufSleep(p)
    BY <2>3, BufSleepKeeps
  <2>4. CASE BufWake(p)
    BY <1>1, <2>4, BufWakeKeeps
  <2>5. CASE Send(p)
    BY <1>1, <2>5, SendKeeps
  <2>6. CASE RecvSleep(p)
    BY <1>1, <2>6, RecvSleepKeeps
  <2>7. CASE Awake(p)
    BY <1>1, <2>7, AwakeKeeps
  <2>8. CASE Recv(p)
    BY <1>1, <2>8, RecvKeeps
  <2>9. QED
    BY <1>2, <2>1, <2>2, <2>3, <2>4, <2>5, <2>6, <2>7, <2>8 DEF ClientStep
<1>3. ASSUME NEW p \in Procs, SendFails(p) PROVE IInv'
  BY <1>1, <1>3, SendFailsKeeps
<1>4. ASSUME NEW p \in Procs, NEW op \in Ops, Rfscall(p, op) PROVE IInv'
  BY <1>4, RfscallKeeps
<1>5. ASSUME NEW h \in Handles, Ckuwakeup(h) PROVE IInv'
  BY <1>1, <1>5, CkuwakeupKeeps
<1>6. ASSUME Transmit PROVE IInv'
  BY <1>1, <1>6, TransmitKeeps
<1>7. ASSUME NEW d \in BagToSet(net), Deliver(d) \/ Duplicate(d) \/ Lose(d) PROVE IInv'
  <2>1. CASE Deliver(d)
    BY <1>1, <2>1, DeliverKeeps
  <2>2. CASE Duplicate(d)
    BY <1>1, <2>2, DuplicateKeeps
  <2>3. CASE Lose(d)
    BY <1>1, <2>3, LoseKeeps
  <2>4. QED BY <1>7, <2>1, <2>2, <2>3
<1>8. ASSUME NEW n \in Nfsds, ServerStep(n) \/ KillNfsd(n) PROVE IInv'
  <2>1. CASE SvcGetreq(n)
    BY <1>1, <2>1, SvcGetreqKeeps
  <2>2. CASE RfsEnd(n)
    BY <1>1, <2>2, RfsEndKeeps
  <2>3. CASE SvckudpSend(n)
    BY <1>1, <2>3, SvckudpSendKeeps
  <2>4. CASE KillNfsd(n)
    BY <1>1, <2>4, KillNfsdKeeps
  <2>5. QED BY <1>8, <2>1, <2>2, <2>3, <2>4 DEF ServerStep
<1>9. ASSUME Crash PROVE IInv'
  BY <1>1, <1>9, CrashKeeps
<1>10. ASSUME UNCHANGED vars PROVE IInv'
  BY <1>10, StutterKeeps
<1>11. QED
  BY <1>2, <1>3, <1>4, <1>5, <1>6, <1>7, <1>8, <1>9, <1>10 DEF Next

\* What the invariant says of the answers.
LEMMA IInvTrue ==
  ASSUME IInv
  PROVE  AnswersAreTrue
<1>1. PICK k \in DOMAIN Mounts, f \in [1 .. clntkudpxid - 1 -> Ids] : RestOK(k) /\ Story(k, f)
  BY Before
<1>2. /\ ClientOK(k, f, call, inuse, timer, buf) /\ ServerOK(k, f, effects, nfsd, dupreqs)
      /\ inuse \in [Hs(k) -> BOOLEAN] /\ timer \subseteq Hs(k)
      /\ \A p \in Procs : ProcOK(k, f, buf, inuse, p, call[p]) /\ call[p] \in CallRec(k)
  BY <1>1, Parts
<1>3. /\ Handles = Hs(k) /\ Retrans = Mounts[k].retrans
      /\ MaxFaults = Mounts[k].maxfaults /\ DupMax = Mounts[k].dupmax
  BY <1>1, MountInUse
<1>4. TypeOK
  <2>1. ASSUME NEW p \in Procs
        PROVE  /\ call[p].pc \in {"idle", "clget", "clsleep", "buf", "bufsleep", "recv",
                                  "sleep", "awake"}
               /\ call[p].h \in Handles \cup {None} /\ call[p].n \in 0 .. Calls
               /\ call[p].stries \in 0 .. Retrans /\ call[p].rtries \in 0 .. RECVTRIES
               /\ call[p].h # None <=> call[p].pc \notin {"idle", "clget", "clsleep"}
               /\ call[p].h # None => inuse[call[p].h]
    <3>1. call[p] \in CallRec(k) /\ ProcOK(k, f, buf, inuse, p, call[p])
      BY <1>2
    <3>2. QED BY <1>3, <3>1 DEF CallRec, ProcOK, Outside
  <2>2. \A p, q \in Procs : call[p].h = call[q].h /\ p # q => call[p].h = None
    BY <1>2 DEF ClientOK
  <2>3. /\ inuse \in [Handles -> BOOLEAN] /\ timedout \in [Handles -> BOOLEAN]
        /\ timer \subseteq Handles /\ busy \subseteq Handles \cup Nfsds
    BY <1>1, <1>2, <1>3 DEF RestOK
  <2>4. Len(dupreqs) <= DupMax
    BY <1>2, <1>3 DEF ServerOK, DupOK
  <2>5. mnt.faults \in 0 .. MaxFaults
    BY <1>1, <1>3, MountIs DEF RestOK
  <2>6. \A n \in Nfsds : nfsd[n].pc \in {"idle", "iput", "send", "dead"}
    BY <1>2 DEF ServerOK, NfsdOK, NfsdRec
  <2>7. QED BY <2>1, <2>2, <2>3, <2>4, <2>5, <2>6 DEF TypeOK
<1>5. AnswersItsCall /\ SuccessIsReal
  BY <1>2 DEF AnswersItsCall, SuccessIsReal, Returned, Id, ProcOK
<1>6. NoStaleTimeout
  BY <1>2 DEF NoStaleTimeout, ClientOK
<1>7. QED BY <1>4, <1>5, <1>6 DEF AnswersAreTrue

\* The inductive invariant: of everything on the wire, in the queues, in the
\* buffers and in the server, and of what every process was told, the call that
\* its transaction id was given to is known.
THEOREM RpcInvariance == Spec => []IInv
<1>1. Init => IInv
  BY InitOK
<1>2. IInv /\ [Next]_vars => IInv'
  BY NextKeeps
<1>3. QED BY <1>1, <1>2, PTL DEF Spec

\* What a call is told is true of this very call, whatever the network loses,
\* doubles or reorders and however often the server crashes: a success is the
\* server's answer to this call, all is said to have gone well only of a call
\* that the server has executed, and no timeout of another call ends it.
THEOREM AnswersTrue == Spec => []AnswersAreTrue
<1>1. IInv => AnswersAreTrue
  BY IInvTrue
<1>2. QED BY <1>1, RpcInvariance, PTL

-----------------------------------------------------------------------------
(***************************************************************************)
(* No call that did what it was asked to is told that it could not.  This  *)
(* is about soft mounts of a server that does not crash, and it takes that *)
(* one server process serves, that no operation of the mount undoes what   *)
(* another has done, and that the cache of transaction ids remembers the   *)
(* calls that are under way.                                               *)
(***************************************************************************)
Careful == ~Hard /\ "crash" \notin Faults

\* What the mbufs of a queue say.
Contents(b, q) == {Says(b, q[i]) : i \in DOMAIN q}

\* The server processes that have a request, and its reply.
AtWork(d) == {n \in Nfsds : d[n].pc \in {"iput", "send"}}

\* What the sockets of the handles have, what is on its way to the server and
\* to the clients, and what the server processes work on.
Received(b, r) == UNION {Contents(b, r[h]) : h \in DOMAIN r}
ToServer(N) == {w.msg : w \in {x \in N : x.to = 0}}
ToClients(N) == {w.msg : w \in {x \in N : x.to # 0}}
Taken(d) == {d[n].req : n \in AtWork(d)}
Made(d) == {d[n].rep : n \in AtWork(d)}

\* The requests and the replies that are under way.
Asked(b, i, N, s, d) == Contents(b, i) \cup Contents(b, s) \cup ToServer(N) \cup Taken(d)
Given(b, r, N, d) == Received(b, r) \cup ToClients(N) \cup Made(d)

Requests == Asked(buf, ifq, BagToSet(net), sq, nfsd)
Replies == Given(buf, rcv, BagToSet(net), nfsd)

\* A process that has a handle is in a call, and this is its request.
InCall(p) == call[p].h # None
Request(p) == [xid |-> call[p].xid, h |-> call[p].h, op |-> call[p].op, id |-> Id(p)]

\* The operation would fail now.
Spent(op) == IF op.kind = "remove" THEN op.name \notin files ELSE op.name \in files

\* The call has been started: with its process or one of its earlier calls.
Begun(i) ==
  i[2] < call[i[1]].n \/ (i[2] = call[i[1]].n /\ call[i[1]].pc \notin {"clget", "clsleep"})

\* A reply that says the operation has failed.
Misled(m) == m.st = "SUCCESS" /\ m.nfs # "0"

\* The server knows that the request of p has been executed, or soon will.
Known(p) ==
  \/ Dup(Request(p))
  \/ \E n \in Nfsds : nfsd[n].pc = "iput" /\ nfsd[n].req = Request(p) /\ nfsd[n].rep.nfs = "0"

\* What is true of the call of p: its request is the only one with its number,
\* the server knows of its execution, and where an answer says that the operation
\* has failed it has not been executed and will not be.
CallOK(p) ==
  /\ \A m \in Requests : m.id = Id(p) => m = Request(p)
  /\ effects[Id(p)] > 0 => Known(p)
  /\ \A m \in Replies : m.id = Id(p) /\ Misled(m) =>
       effects[Id(p)] = 0 /\ Spent(call[p].op)

FInv ==
  /\ \A m \in Requests \cup Replies : Begun(m.id)
  /\ \A i \in Ids : effects[i] > 0 => Begun(i)
  /\ \A p \in Procs : InCall(p) => CallOK(p)
  /\ NoFalseError

\* The cache does not forget the request of a call that is under way.
Remembers ==
  \A p \in Procs : InCall(p) /\ Dup(Request(p)) =>
    \E i \in DOMAIN dupreqs' : dupreqs'[i] = Key(Request(p))

\* A soft mount of a server that does not crash is used to remove names or to
\* link them, not for both: nothing undoes what a call has done.
SameKind ==
  \A i \in DOMAIN Mounts : ~Mounts[i].hard /\ "crash" \notin Mounts[i].faults =>
    (\A o \in Mounts[i].ops : o.kind = "remove") \/ (\A o \in Mounts[i].ops : o.kind = "link")

\* No two server processes: one would look for the duplicate of a request in the
\* cache while the other, which has executed it, sleeps before it saves it.
OneServer == \A n, m \in Nfsds : n = m

-----------------------------------------------------------------------------
(***************************************************************************)
(* What the queues say, and what the messages under way are.               *)
(***************************************************************************)

\* What a queue says once a message is appended to it, or taken from it.
LEMMA ContentsAppend ==
  ASSUME NEW R, NEW b, NEW q \in Seq(R), NEW m \in R
  PROVE  Contents(b, Append(q, m)) \subseteq Contents(b, q) \cup {Says(b, m)}
<1>1. \A i \in DOMAIN Append(q, m) :
        (i \in DOMAIN q /\ Append(q, m)[i] = q[i]) \/ Append(q, m)[i] = m
  OBVIOUS
<1>2. QED BY <1>1 DEF Contents

\* The first message, and the rest.
LEMMA ContentsTail ==
  ASSUME NEW R, NEW b, NEW q \in Seq(R), q # <<>>
  PROVE  Contents(b, Tail(q)) \subseteq Contents(b, q) /\ Says(b, Head(q)) \in Contents(b, q)
<1>1. \A i \in DOMAIN Tail(q) : i + 1 \in DOMAIN q /\ Tail(q)[i] = q[i + 1]
  OBVIOUS
<1>2. 1 \in DOMAIN q /\ Head(q) = q[1]
  OBVIOUS
<1>3. QED BY <1>1, <1>2 DEF Contents

\* An empty queue says nothing.
LEMMA ContentsNone ==
  ASSUME NEW b
  PROVE  Contents(b, <<>>) = {}
BY DEF Contents

\* A buffer is filled again.
LEMMA ContentsBuf ==
  ASSUME NEW b, NEW c, NEW x, \A y : y # x => c[y] = b[y], NEW q
  PROVE  /\ Contents(c, q) \subseteq Contents(b, q) \cup {c[x]}
         /\ (\A i \in DOMAIN q : q[i].own # x) => Contents(c, q) = Contents(b, q)
<1>1. \A i \in DOMAIN q : Says(c, q[i]) = Says(b, q[i]) \/ (q[i].own = x /\ Says(c, q[i]) = c[x])
  BY DEF Says
<1>2. QED BY <1>1 DEF Contents

\* The parts of the requests that are under way.
LEMMA AskedParts ==
  ASSUME NEW b, NEW i, NEW N, NEW s, NEW d, NEW S
  PROVE  Asked(b, i, N, s, d) \subseteq S
           <=> /\ Contents(b, i) \subseteq S /\ Contents(b, s) \subseteq S
               /\ \A w \in N : w.to = 0 => w.msg \in S
               /\ \A n \in Nfsds : d[n].pc \in {"iput", "send"} => d[n].req \in S
<1>1. ToServer(N) \subseteq S <=> \A w \in N : w.to = 0 => w.msg \in S
  BY DEF ToServer
<1>2. Taken(d) \subseteq S
        <=> \A n \in Nfsds : d[n].pc \in {"iput", "send"} => d[n].req \in S
  BY DEF Taken, AtWork
<1>3. QED BY <1>1, <1>2 DEF Asked

\* The parts of the replies.
LEMMA GivenParts ==
  ASSUME NEW b, NEW r, NEW N, NEW d, NEW S
  PROVE  Given(b, r, N, d) \subseteq S
           <=> /\ \A h \in DOMAIN r : Contents(b, r[h]) \subseteq S
               /\ \A w \in N : w.to # 0 => w.msg \in S
               /\ \A n \in Nfsds : d[n].pc \in {"iput", "send"} => d[n].rep \in S
<1>1. ToClients(N) \subseteq S <=> \A w \in N : w.to # 0 => w.msg \in S
  BY DEF ToClients
<1>2. Made(d) \subseteq S
        <=> \A n \in Nfsds : d[n].pc \in {"iput", "send"} => d[n].rep \in S
  BY DEF Made, AtWork
<1>3. Received(b, r) \subseteq S <=> \A h \in DOMAIN r : Contents(b, r[h]) \subseteq S
  BY DEF Received
<1>4. QED BY <1>1, <1>2, <1>3 DEF Given

\* What the messages are about.
LEMMA Underway ==
  ASSUME NEW k \in DOMAIN Mounts, NEW f \in [1 .. clntkudpxid - 1 -> Ids],
         RestOK(k), Story(k, f)
  PROVE  /\ \A m \in Requests : ReqOK(k, f, m) /\ m.id \in Ids /\ m.op \in Ops
         /\ \A m \in Replies : RepOK(k, f, effects, m) /\ m.id \in Ids
<1>1. /\ WireOK(k, f, effects, rcv, buf, ifq, BagToSet(net), sq)
      /\ ServerOK(k, f, effects, nfsd, dupreqs)
  BY Parts
<1>2. 0 \notin Hs(k) /\ Ops = Mounts[k].ops
  BY MountIs, MountInUse
<1>3. \A m \in Requests : ReqOK(k, f, m)
  <2> DEFINE S == {m \in Requests : ReqOK(k, f, m)}
             N == BagToSet(net)
             A == Asked(buf, ifq, N, sq, nfsd)
  <2>2. /\ Contents(buf, ifq) \subseteq A /\ Contents(buf, sq) \subseteq A
        /\ \A w \in N : w.to = 0 => w.msg \in A
        /\ \A n \in Nfsds : nfsd[n].pc \in {"iput", "send"} => nfsd[n].req \in A
    <3> HIDE DEF N
    <3>1. A = Contents(buf, ifq) \cup Contents(buf, sq) \cup ToServer(N) \cup Taken(nfsd)
      BY DEF Asked
    <3> HIDE DEF A
    <3>2. Contents(buf, ifq) \subseteq A /\ Contents(buf, sq) \subseteq A
      BY <3>1
    <3>3. \A w \in N : w.to = 0 => w.msg \in A
      BY <3>1 DEF ToServer
    <3>4. \A n \in Nfsds : nfsd[n].pc \in {"iput", "send"} => nfsd[n].req \in A
      BY <3>1 DEF Taken, AtWork
    <3>5. QED BY <3>2, <3>3, <3>4
  <2>3. Contents(buf, ifq) \subseteq S /\ Contents(buf, sq) \subseteq S
    <3>1. /\ \A i \in DOMAIN ifq : ReqOK(k, f, Says(buf, ifq[i]))
          /\ \A i \in DOMAIN sq : ReqOK(k, f, Says(buf, sq[i]))
      BY <1>1 DEF WireOK, Reqs
    <3>2. /\ \A m \in Contents(buf, ifq) : ReqOK(k, f, m)
          /\ \A m \in Contents(buf, sq) : ReqOK(k, f, m)
      BY <3>1 DEF Contents
    <3>3. QED BY <2>2, <3>2 DEF Requests
  <2>4. \A w \in N : w.to = 0 => w.msg \in S
    BY <1>1, <1>2, <2>2 DEF WireOK, NetOK, Requests
  <2>5. \A n \in Nfsds : nfsd[n].pc \in {"iput", "send"} => nfsd[n].req \in S
    BY <1>1, <2>2 DEF ServerOK, NfsdOK, Requests
  <2> HIDE DEF S
  <2>6. A \subseteq S
    <3> HIDE DEF N
    <3>1. QED BY <2>3, <2>4, <2>5, AskedParts
  <2>7. QED BY <2>6 DEF Requests, S
<1>4. \A m \in Replies : RepOK(k, f, effects, m)
  <2> DEFINE S == {m \in Replies : RepOK(k, f, effects, m)}
             N == BagToSet(net)
             A == Given(buf, rcv, N, nfsd)
  <2>2. /\ \A h \in DOMAIN rcv : Contents(buf, rcv[h]) \subseteq A
        /\ \A w \in N : w.to # 0 => w.msg \in A
        /\ \A n \in Nfsds : nfsd[n].pc \in {"iput", "send"} => nfsd[n].rep \in A
    <3> HIDE DEF N
    <3>1. Given(buf, rcv, N, nfsd) \subseteq A
      OBVIOUS
    <3> HIDE DEF A
    <3>2. QED BY <3>1, GivenParts
  <2>3. \A h \in DOMAIN rcv : Contents(buf, rcv[h]) \subseteq S
    <3>1. \A h \in DOMAIN rcv : \A i \in DOMAIN rcv[h] : RepOK(k, f, effects, Says(buf, rcv[h][i]))
      BY <1>1 DEF WireOK, Reps
    <3>2. \A h \in DOMAIN rcv : \A m \in Contents(buf, rcv[h]) : RepOK(k, f, effects, m)
      BY <3>1 DEF Contents
    <3>3. QED BY <2>2, <3>2 DEF Replies
  <2>4. \A w \in N : w.to # 0 => w.msg \in S
    BY <1>1, <2>2 DEF WireOK, NetOK, Replies
  <2>5. \A n \in Nfsds : nfsd[n].pc \in {"iput", "send"} => nfsd[n].rep \in S
    BY <1>1, <2>2 DEF ServerOK, NfsdOK, Replies
  <2> HIDE DEF S
  <2>6. A \subseteq S
    <3> HIDE DEF N
    <3>1. QED BY <2>3, <2>4, <2>5, GivenParts
  <2>7. QED BY <2>6 DEF Replies, S
<1>5. QED BY <1>2, <1>3, <1>4 DEF ReqOK, RepOK, Req, Rep

-----------------------------------------------------------------------------
\* What a process may do in a step: its call goes on, gets a handle, waits for
\* one, is asked for, or returns with an answer.
Returns(p) ==
  \E st, m : /\ call'[p].ret = Told(p, st, m)
             /\ st = "SUCCESS" => m \in Replies /\ m.st = st

Steady(p) ==
  \/ /\ call[p].h # None /\ call'[p].h = call[p].h /\ call'[p].xid = call[p].xid
     /\ call'[p].op = call[p].op /\ call'[p].n = call[p].n
  \/ call[p].h = None /\ call[p].pc = "clget" /\ call'[p].h # None /\ call'[p].n = call[p].n
  \/ /\ call[p].h = None /\ call'[p].h = None /\ call'[p].n = call[p].n
     /\ call'[p].ret = call[p].ret /\ (call'[p].pc = "idle" <=> call[p].pc = "idle")
  \/ /\ call[p].pc = "idle" /\ call'[p].h = None /\ call'[p].pc = "clget"
     /\ call'[p].n = call[p].n + 1
  \/ /\ call[p].h # None /\ call'[p].h = None /\ call'[p].pc = "idle"
     /\ call'[p].n = call[p].n /\ Returns(p)

\* A step in which the server executes nothing.
Quiet ==
  /\ \A m \in Requests' : m \in Requests \/ \E p \in Procs : InCall(p) /\ m = Request(p)
  /\ Replies' \subseteq Replies
  /\ effects' = effects /\ files' = files
  /\ \A p \in Procs : Steady(p)
  /\ \A n \in Nfsds : nfsd[n].pc = "iput" /\ nfsd[n].rep.nfs = "0" =>
       \/ nfsd'[n].pc = "iput" /\ nfsd'[n].req = nfsd[n].req /\ nfsd'[n].rep = nfsd[n].rep
       \/ \E i \in DOMAIN dupreqs' : dupreqs'[i] = Key(nfsd[n].req)

\* What is known of a process in a state and the next.
LEMMA ProcFacts ==
  ASSUME IInv, NEW p \in Procs
  PROVE  /\ call[p].h # None <=> call[p].pc \notin Outside
         /\ call[p].n \in Nat
         /\ call[p].h # None => /\ Id(p) \in Ids /\ call[p].op \in Ops
         /\ call[p].pc = "idle" \/ call[p].n > 0
         /\ effects \in [Ids -> Nat]
<1>1. PICK k \in DOMAIN Mounts, f \in [1 .. clntkudpxid - 1 -> Ids] : RestOK(k) /\ Story(k, f)
  BY Before
<1>2. /\ ProcOK(k, f, buf, inuse, p, call[p]) /\ call[p] \in CallRec(k)
      /\ ServerOK(k, f, effects, nfsd, dupreqs)
  BY <1>1, Parts
<1>3. Calls \in Nat /\ Ops = Mounts[k].ops
  BY <1>1, MountIs, MountInUse
<1>4. /\ call[p].h # None <=> call[p].pc \notin Outside
      /\ call[p].n \in 0 .. Calls
      /\ call[p].pc # "idle" => call[p].n > 0 /\ call[p].op \in Ops
      /\ effects \in [Ids -> Nat]
  BY <1>2, <1>3 DEF ProcOK, CallRec, ServerOK
<1>5. call[p].h # None => Id(p) \in Ids /\ call[p].op \in Ops
  BY <1>3, <1>4 DEF Id, Ids, Outside
<1>6. QED BY <1>3, <1>4, <1>5

\* What is known of the processes after a step.
LEMMA NextFacts ==
  ASSUME IInv'
  PROVE  \A p \in Procs :
           /\ call'[p].h # None <=> call'[p].pc \notin Outside
           /\ call'[p].pc = "idle" /\ call'[p].n > 0 /\ call'[p].ret.st = "SUCCESS"
                => call'[p].ret.id = Id(p)'
<1>1. PICK g : Story(mnt.conf, g)'
  BY DEF IInv
<1>2. \A p \in Procs : ProcOK(mnt.conf, g, buf, inuse, p, call[p])'
  BY <1>1 DEF Story, ClientOK
<1>3. QED BY <1>2 DEF ProcOK, Id

\* A call that has been started has been started.
LEMMA BegunStays ==
  ASSUME IInv, IInv', \A p \in Procs : Steady(p), NEW i \in Ids, Begun(i)
  PROVE  Begun(i)'
<1> DEFINE p == i[1]
           c == call[p]
           d == call'[p]
<1>1. p \in Procs /\ i[2] \in 1 .. Calls
  BY DEF Ids
<1>2. /\ c.h # None <=> c.pc \notin Outside
      /\ d.h # None <=> d.pc \notin Outside
      /\ c.n \in Nat
  BY <1>1, ProcFacts, NextFacts
<1>3. i[2] \in Nat
  BY <1>1, KernelRpcAssumption
<1>4. i[2] < c.n \/ (i[2] = c.n /\ c.pc \notin {"clget", "clsleep"})
  BY DEF Begun
<1>5. \/ d.n = c.n /\ (d.h # None \/ d.pc = "idle")
      \/ d.n = c.n /\ c.h = None /\ d.h = None /\ (d.pc = "idle" <=> c.pc = "idle")
      \/ c.pc = "idle" /\ d.n = c.n + 1
  BY <1>1 DEF Steady
<1> HIDE DEF p, c, d
<1>6. i[2] < d.n \/ (i[2] = d.n /\ d.pc \notin {"clget", "clsleep"})
  BY <1>2, <1>3, <1>4, <1>5 DEF Outside
<1>7. QED BY <1>6 DEF Begun, p, d

\* A call that is under way was so with the same request, or is just beginning.
LEMMA SameCall ==
  ASSUME IInv, IInv', NEW p \in Procs, Steady(p), InCall(p)'
  PROVE  \/ /\ InCall(p) /\ Request(p)' = Request(p) /\ Id(p)' = Id(p)
            /\ call'[p].op = call[p].op
         \/ /\ call[p].pc = "clget" /\ Id(p)' = Id(p)
<1>1. call'[p].h # None /\ call'[p].pc \notin Outside
  BY NextFacts DEF InCall
<1>2. \/ /\ call[p].h # None /\ call'[p].h = call[p].h /\ call'[p].xid = call[p].xid
         /\ call'[p].op = call[p].op /\ call'[p].n = call[p].n
      \/ call[p].pc = "clget" /\ call'[p].n = call[p].n
  BY <1>1 DEF Steady
<1>3. QED BY <1>2 DEF InCall, Request, Id

\* A step in which nothing is executed keeps the invariant.
LEMMA QuietKeeps ==
  ASSUME IInv, IInv', FInv, Quiet, Careful, Remembers
  PROVE  FInv'
<1>1. PICK k \in DOMAIN Mounts, f \in [1 .. clntkudpxid - 1 -> Ids] : RestOK(k) /\ Story(k, f)
  BY Before
<1>2. /\ \A m \in Requests : m.id \in Ids
      /\ \A m \in Replies : m.id \in Ids
  BY <1>1, Underway
<1>3. ASSUME NEW p \in Procs, InCall(p)
      PROVE  Begun(Id(p)) /\ Id(p) \in Ids /\ Request(p).id = Id(p)
  <2>1. call[p].pc \notin Outside /\ Id(p) \in Ids
    BY <1>3, ProcFacts DEF InCall
  <2>2. QED BY <2>1 DEF Begun, Id, Outside, Request
<1>4. \A m \in Requests' \cup Replies' : Begun(m.id)'
  <2>1. ASSUME NEW m \in Requests' \cup Replies'
        PROVE  m.id \in Ids /\ Begun(m.id)
    <3>1. CASE m \in Requests \cup Replies
      BY <1>2, <3>1 DEF FInv
    <3>2. CASE \E p \in Procs : InCall(p) /\ m = Request(p)
      BY <1>3, <3>2
    <3>3. QED BY <3>1, <3>2 DEF Quiet
  <2>2. \A i \in Ids : Begun(i) => Begun(i)'
    BY BegunStays DEF Quiet
  <2>3. ASSUME NEW m \in Requests' \cup Replies' PROVE Begun(m.id)'
    <3> DEFINE i == m.id
    <3>1. i \in Ids /\ Begun(i)
      BY <2>1
    <3> HIDE DEF i
    <3>2. Begun(i)'
      BY <2>2, <3>1
    <3>3. QED BY <3>2 DEF i
  <2>4. QED BY <2>3
<1>5. \A i \in Ids : effects'[i] > 0 => Begun(i)'
  <2>1. \A i \in Ids : Begun(i) => Begun(i)'
    BY BegunStays DEF Quiet
  <2>2. QED BY <2>1 DEF Quiet, FInv
<1>6. ASSUME NEW p \in Procs, InCall(p)' PROVE CallOK(p)'
  <2>1. CASE InCall(p) /\ Request(p)' = Request(p) /\ Id(p)' = Id(p) /\ call'[p].op = call[p].op
    <3>1. CallOK(p)
      BY <2>1 DEF FInv
    <3>2. ASSUME NEW m \in Requests', m.id = Id(p) PROVE m = Request(p)
      <4>1. CASE m \in Requests
        BY <3>1, <3>2, <4>1 DEF CallOK
      <4>2. ASSUME NEW q \in Procs, InCall(q), m = Request(q) PROVE m = Request(p)
        BY <3>2, <4>2 DEF Request, Id
      <4>3. QED BY <4>1, <4>2 DEF Quiet
    <3>3. effects'[Id(p)'] > 0 => Known(p)'
      <4>1. ASSUME effects[Id(p)] > 0
            PROVE  \/ \E i \in DOMAIN dupreqs' : dupreqs'[i] = Key(Request(p))
                   \/ \E n \in Nfsds : /\ nfsd'[n].pc = "iput" /\ nfsd'[n].req = Request(p)
                                       /\ nfsd'[n].rep.nfs = "0"
        <5>1. Known(p)
          BY <3>1, <4>1 DEF CallOK
        <5>2. CASE Dup(Request(p))
          BY <2>1, <5>2 DEF Remembers
        <5>3. ASSUME NEW n \in Nfsds, nfsd[n].pc = "iput", nfsd[n].req = Request(p),
                     nfsd[n].rep.nfs = "0"
              PROVE  \/ \E i \in DOMAIN dupreqs' : dupreqs'[i] = Key(Request(p))
                     \/ /\ nfsd'[n].pc = "iput" /\ nfsd'[n].req = Request(p)
                        /\ nfsd'[n].rep.nfs = "0"
          BY <5>3 DEF Quiet
        <5>4. QED BY <5>1, <5>2, <5>3 DEF Known
      <4>2. effects'[Id(p)'] = effects[Id(p)]
        BY <2>1 DEF Quiet
      <4>3. QED BY <2>1, <4>1, <4>2 DEF Known, Dup, Key
    <3>4. \A m \in Replies' : m.id = Id(p) /\ Misled(m) =>
            effects[Id(p)] = 0 /\ Spent(call[p].op)
      BY <3>1 DEF CallOK, Quiet
    <3>5. Spent(call[p].op)' <=> Spent(call[p].op)
      BY <2>1 DEF Spent, Quiet
    <3>6. effects' = effects
      BY DEF Quiet
    <3>7. \A m \in Replies' : m.id = Id(p)' /\ Misled(m) =>
            effects'[Id(p)'] = 0 /\ Spent(call[p].op)'
      BY <2>1, <3>4, <3>5, <3>6
    <3>8. QED BY <2>1, <3>2, <3>3, <3>7 DEF CallOK, Misled
  <2>2. CASE call[p].pc = "clget" /\ Id(p)' = Id(p)
    <3>1. ~Begun(Id(p))
      <4> DEFINE n == call[p].n
      <4>1. n \in Nat
        BY ProcFacts
      <4> HIDE DEF n
      <4>2. ~(n < n)
        BY <4>1
      <4>3. Id(p)[1] = p /\ Id(p)[2] = n
        BY DEF Id, n
      <4>4. QED BY <2>2, <4>2, <4>3 DEF Begun, n
    <3>2. Id(p) \in Ids
      <4>1. call[p].n \in 1 .. Calls
        <5>1. call[p] \in CallRec(k) /\ call[p].n > 0
          BY <1>1, <2>2, Parts, ProcFacts
        <5>2. QED BY <5>1, KernelRpcAssumption DEF CallRec
      <4>2. QED BY <4>1 DEF Id, Ids
    <3>3. \A m \in Requests' : m.id # Id(p)
      <4>1. ASSUME NEW m \in Requests', m.id = Id(p) PROVE FALSE
        <5>1. CASE m \in Requests
          BY <3>1, <4>1, <5>1 DEF FInv
        <5>2. ASSUME NEW q \in Procs, InCall(q), m = Request(q) PROVE FALSE
          BY <1>3, <3>1, <4>1, <5>2
        <5>3. QED BY <5>1, <5>2 DEF Quiet
      <4>2. QED BY <4>1
    <3>4. \A m \in Replies' : m.id # Id(p)
      BY <3>1 DEF FInv, Quiet
    <3>5. ~(effects'[Id(p)'] > 0)
      BY <2>2, <3>1, <3>2 DEF FInv, Quiet
    <3>6. QED BY <2>2, <3>3, <3>4, <3>5 DEF CallOK
  <2>3. QED BY <1>6, <2>1, <2>2, SameCall DEF Quiet
<1>7. NoFalseError'
  <2> SUFFICES ASSUME NEW p \in Procs, Returned(p)', call'[p].ret.st = "SUCCESS",
                      call'[p].ret.nfs # "0"
               PROVE  call'[p].ret.done = 0
    BY DEF NoFalseError
  <2>1. call'[p].h = None /\ call'[p].pc = "idle" /\ call'[p].n > 0
    BY NextFacts DEF Returned, Outside
  <2>2. CASE /\ call[p].h = None /\ call'[p].n = call[p].n
             /\ call'[p].ret = call[p].ret /\ call[p].pc = "idle"
    BY <2>1, <2>2 DEF FInv, NoFalseError, Careful, Returned
  <2>3. CASE call[p].h # None /\ call'[p].n = call[p].n /\ Returns(p)
    <3>1. PICK st, m : /\ call'[p].ret = Told(p, st, m)
                       /\ st = "SUCCESS" => m \in Replies /\ m.st = st
      BY <2>3 DEF Returns
    <3>2. /\ call'[p].ret.st = st /\ call'[p].ret.done = effects[Id(p)]
          /\ st = "SUCCESS" => call'[p].ret.nfs = m.nfs /\ call'[p].ret.id = m.id
      BY <3>1 DEF Told, Id
    <3>3. m \in Replies /\ Misled(m)
      BY <3>1, <3>2 DEF Misled
    <3>4. m.id = Id(p)
      BY <2>1, <2>3, <3>2, NextFacts DEF Id
    <3>5. CallOK(p)
      BY <2>3 DEF FInv, InCall
    <3>6. QED BY <3>2, <3>3, <3>4, <3>5 DEF CallOK
  <2>4. Steady(p)
    BY DEF Quiet
  <2>5. QED BY <2>1, <2>2, <2>3, <2>4 DEF Steady
<1>8. QED BY <1>4, <1>5, <1>6, <1>7 DEF FInv

-----------------------------------------------------------------------------
(***************************************************************************)
(* The execution of a request.                                             *)
(***************************************************************************)

\* A careful mount is used for removals, or for links.
LEMMA OneKind ==
  ASSUME IInv, Careful, SameKind
  PROVE  (\A o \in Ops : o.kind = "remove") \/ (\A o \in Ops : o.kind = "link")
<1>1. mnt.conf \in DOMAIN Mounts
  BY MountInUse DEF IInv
<1>2. QED BY <1>1 DEF Careful, SameKind, Hard, Faults, Ops

\* What has been done stays done: nothing undoes it.
LEMMA StaysSpent ==
  ASSUME IInv, Careful, SameKind, NEW q \in Ops, NEW o \in Ops,
         files' = RfsDispatch(q).files \/ files' = files, Spent(o)
  PROVE  IF o.kind = "remove" THEN o.name \notin files' ELSE o.name \in files'
<1>1. CASE \A x \in Ops : x.kind = "remove"
  <2>1. RfsDispatch(q).files = files \ {q.name}
    BY <1>1 DEF RfsDispatch, RfsRemove
  <2>2. QED BY <1>1, <2>1 DEF Spent
<1>2. CASE \A x \in Ops : x.kind = "link"
  <2>1. RfsDispatch(q).files = files \cup {q.name}
    BY <1>2 DEF RfsDispatch, RfsLink
  <2>2. QED BY <1>2, <2>1 DEF Spent
<1>3. QED BY <1>1, <1>2, OneKind

\* An operation fails if it has been done.
LEMMA FailsIfSpent ==
  ASSUME IInv, Careful, SameKind, NEW o \in Ops
  PROVE  (RfsDispatch(o).err = "0" <=> ~Spent(o)) /\ ChecksDup(o)
<1>1. CASE \A x \in Ops : x.kind = "remove"
  BY <1>1 DEF RfsDispatch, RfsRemove, Spent, ChecksDup
<1>2. CASE \A x \in Ops : x.kind = "link"
  BY <1>2 DEF RfsDispatch, RfsLink, Spent, ChecksDup
<1>3. QED BY <1>1, <1>2, OneKind

\* A server process takes a request and has the reply to it.
LEMMA TakesRequest ==
  ASSUME IInv, NEW n \in Nfsds, SvcGetreq(n)
  PROVE  \E req \in Requests : \E rep :
           /\ rep.id = req.id
           /\ nfsd[n].pc = "idle"
           /\ Requests' \subseteq Requests /\ Replies' \subseteq Replies \cup {rep}
           /\ call' = call /\ dupreqs' = dupreqs /\ mnt' = mnt
           /\ \A x \in Nfsds : x # n => nfsd'[x] = nfsd[x]
           /\ \/ rep.st = "PROGUNAVAIL" /\ effects' = effects /\ files' = files
              \/ /\ rep.st = "SUCCESS" /\ rep.nfs = DupCheck(req, RfsDispatch(req.op).err)
                 /\ nfsd'[n].pc = "iput" /\ nfsd'[n].req = req /\ nfsd'[n].rep = rep
                 /\ files' = RfsDispatch(req.op).files
                 /\ effects' = IF RfsDispatch(req.op).err = "0"
                               THEN [effects EXCEPT ![req.id] = effects[req.id] + 1]
                               ELSE effects
<1>1. PICK k \in DOMAIN Mounts, f \in [1 .. clntkudpxid - 1 -> Ids] : RestOK(k) /\ Story(k, f)
  BY Before
<1>2. /\ WireOK(k, f, effects, rcv, buf, ifq, BagToSet(net), sq) /\ DOMAIN nfsd = Nfsds
  BY <1>1, Parts DEF ServerOK
<1> DEFINE R == ReqMbuf(k)
           m == Head(sq)
           req == Content(m)
           v == RfsDispatch(req.op)
           err == DupCheck(req, v.err)
           r1 == Reply(req, "PROGUNAVAIL", None)
           r2 == Reply(req, "SUCCESS", err)
           d1 == [pc |-> "send", req |-> req, in |-> None, rep |-> r1]
           d2 == [pc |-> "iput", req |-> req, in |-> m, rep |-> r2]
           N == BagToSet(net)
<1>3. sq \in Seq(R)
  BY <1>2 DEF WireOK, Reqs
<1>4. /\ sq # <<>> /\ sq' = Tail(sq) /\ nfsd[n].pc = "idle"
      /\ \/ nfsd' = [nfsd EXCEPT ![n] = d1] /\ effects' = effects /\ files' = files
         \/ /\ nfsd' = [nfsd EXCEPT ![n] = d2] /\ files' = v.files
            /\ effects' = IF v.err = "0" THEN [effects EXCEPT ![req.id] = effects[req.id] + 1]
                                         ELSE effects
      /\ call' = call /\ dupreqs' = dupreqs /\ mnt' = mnt /\ buf' = buf /\ ifq' = ifq
      /\ net' = net /\ rcv' = rcv
  BY DEF SvcGetreq, client
<1>5. req = Says(buf, m)
  BY DEF Content, Says
<1>6. /\ r1.id = req.id /\ r1.st = "PROGUNAVAIL"
      /\ r2.id = req.id /\ r2.st = "SUCCESS" /\ r2.nfs = err
  BY DEF Reply
<1>7. /\ d1.pc = "send" /\ d1.req = req /\ d1.rep = r1
      /\ d2.pc = "iput" /\ d2.req = req /\ d2.rep = r2
  OBVIOUS
<1> HIDE DEF R, m, req, v, err, r1, r2, d1, d2, N
<1>8. Contents(buf, Tail(sq)) \subseteq Contents(buf, sq) /\ req \in Contents(buf, sq)
  BY <1>3, <1>4, <1>5, ContentsTail DEF m
<1>9. req \in Requests
  BY <1>8 DEF Requests, Asked
<1>10. ASSUME NEW d \in {d1, d2}, nfsd' = [nfsd EXCEPT ![n] = d]
       PROVE  /\ nfsd'[n] = d /\ \A x \in Nfsds : x # n => nfsd'[x] = nfsd[x]
              /\ Requests' \subseteq Requests /\ Replies' \subseteq Replies \cup {d.rep}
  <2>1. nfsd'[n] = d /\ \A x \in Nfsds : x # n => nfsd'[x] = nfsd[x]
    BY <1>2, <1>10
  <2>2. Taken(nfsd') \subseteq Taken(nfsd) \cup {req}
    BY <1>7, <2>1 DEF Taken, AtWork
  <2>3. Made(nfsd') \subseteq Made(nfsd) \cup {d.rep}
    BY <2>1 DEF Made, AtWork
  <2>4. Requests' = Asked(buf, ifq, N, Tail(sq), nfsd')
    BY <1>4 DEF Requests, N
  <2>5. Replies' = Given(buf, rcv, N, nfsd')
    BY <1>4 DEF Replies, N
  <2>6. Requests = Asked(buf, ifq, N, sq, nfsd) /\ Replies = Given(buf, rcv, N, nfsd)
    BY DEF Requests, Replies, N
  <2>7. Requests' \subseteq Requests
    BY <1>8, <2>2, <2>4, <2>6 DEF Asked
  <2>8. Replies' \subseteq Replies \cup {d.rep}
    BY <2>3, <2>5, <2>6 DEF Given
  <2>9. QED BY <2>1, <2>7, <2>8
<1>11. CASE nfsd' = [nfsd EXCEPT ![n] = d1] /\ effects' = effects /\ files' = files
  <2>1. /\ \A x \in Nfsds : x # n => nfsd'[x] = nfsd[x]
        /\ Requests' \subseteq Requests /\ Replies' \subseteq Replies \cup {r1}
    BY <1>7, <1>10, <1>11
  <2>2. QED BY <1>4, <1>6, <1>9, <1>11, <2>1
<1>12. CASE /\ nfsd' = [nfsd EXCEPT ![n] = d2] /\ files' = v.files
            /\ effects' = IF v.err = "0" THEN [effects EXCEPT ![req.id] = effects[req.id] + 1]
                                         ELSE effects
  <2>1. /\ \A x \in Nfsds : x # n => nfsd'[x] = nfsd[x]
        /\ nfsd'[n] = d2
        /\ Requests' \subseteq Requests /\ Replies' \subseteq Replies \cup {r2}
    BY <1>7, <1>10, <1>12
  <2>2. /\ r2.nfs = DupCheck(req, RfsDispatch(req.op).err)
        /\ files' = RfsDispatch(req.op).files
        /\ effects' = IF RfsDispatch(req.op).err = "0"
                      THEN [effects EXCEPT ![req.id] = effects[req.id] + 1] ELSE effects
    BY <1>6, <1>12 DEF v, err
  <2>3. QED BY <1>4, <1>6, <1>7, <1>9, <2>1, <2>2
<1>13. QED BY <1>4, <1>11, <1>12

\* The execution of a request, or of a duplicate, keeps the invariant.
LEMMA SvcGetreqTrue ==
  ASSUME IInv, FInv, Careful, SameKind, OneServer, NEW n \in Nfsds, SvcGetreq(n)
  PROVE  FInv'
<1>1. PICK req, rep :
        /\ req \in Requests
        /\ rep.id = req.id
        /\ nfsd[n].pc = "idle"
        /\ Requests' \subseteq Requests /\ Replies' \subseteq Replies \cup {rep}
        /\ call' = call /\ dupreqs' = dupreqs /\ mnt' = mnt
        /\ \A x \in Nfsds : x # n => nfsd'[x] = nfsd[x]
        /\ \/ rep.st = "PROGUNAVAIL" /\ effects' = effects /\ files' = files
           \/ /\ rep.st = "SUCCESS" /\ rep.nfs = DupCheck(req, RfsDispatch(req.op).err)
              /\ nfsd'[n].pc = "iput" /\ nfsd'[n].req = req /\ nfsd'[n].rep = rep
              /\ files' = RfsDispatch(req.op).files
              /\ effects' = IF RfsDispatch(req.op).err = "0"
                            THEN [effects EXCEPT ![req.id] = effects[req.id] + 1]
                            ELSE effects
  BY TakesRequest
<1> DEFINE err == RfsDispatch(req.op).err
<1>2. PICK k \in DOMAIN Mounts, f \in [1 .. clntkudpxid - 1 -> Ids] : RestOK(k) /\ Story(k, f)
  BY Before
<1>3. req.id \in Ids /\ req.op \in Ops /\ \A m \in Replies : m.id \in Ids
  BY <1>1, <1>2, Underway
<1>4. effects \in [Ids -> Nat]
  BY <1>2, Parts DEF ServerOK
<1>5. (err = "0" <=> ~Spent(req.op)) /\ ChecksDup(req.op)
  BY <1>3, FailsIfSpent
<1>6. \/ rep.st = "PROGUNAVAIL" /\ effects' = effects /\ files' = files
      \/ /\ rep.st = "SUCCESS" /\ rep.nfs = DupCheck(req, err)
         /\ nfsd'[n].pc = "iput" /\ nfsd'[n].req = req /\ nfsd'[n].rep = rep
         /\ files' = RfsDispatch(req.op).files
         /\ effects' = IF err = "0" THEN [effects EXCEPT ![req.id] = effects[req.id] + 1]
                                    ELSE effects
  BY <1>1
<1>7. ASSUME NEW o \in Ops, Spent(o) PROVE Spent(o)'
  <2>1. files' = RfsDispatch(req.op).files \/ files' = files
    BY <1>6
  <2>2. IF o.kind = "remove" THEN o.name \notin files' ELSE o.name \in files'
    BY <1>3, <1>7, <2>1, StaysSpent
  <2>3. QED BY <2>2 DEF Spent
<1> HIDE DEF err
<1>8. \A i \in Ids : i # req.id \/ err # "0" => effects'[i] = effects[i]
  BY <1>3, <1>4, <1>6
<1>9. \A i : Begun(i)' <=> Begun(i)
  BY <1>1 DEF Begun
<1>10. \A m \in Requests' \cup Replies' : Begun(m.id)'
  BY <1>1, <1>9 DEF FInv
<1>11. \A i \in Ids : effects'[i] > 0 => Begun(i)'
  BY <1>1, <1>8, <1>9 DEF FInv
<1>12. ASSUME NEW p \in Procs, InCall(p) PROVE CallOK(p)'
  <2>1. CallOK(p) /\ Id(p) \in Ids /\ call[p].op \in Ops
    BY <1>12, ProcFacts DEF FInv, InCall
  <2>2. Request(p)' = Request(p) /\ Id(p)' = Id(p) /\ call'[p].op = call[p].op
    BY <1>1 DEF Request, Id
  <2>3. \A m \in Requests' : m.id = Id(p) => m = Request(p)
    BY <1>1, <2>1 DEF CallOK
  <2>4. req.id = Id(p) => req = Request(p) /\ req.op = call[p].op
    BY <1>1, <2>1 DEF CallOK, Request
  <2>5. Known(p) => Known(p)'
    <3>1. ASSUME Dup(Request(p)) PROVE Known(p)'
      BY <1>1, <2>2, <3>1 DEF Known, Dup, Key
    <3>2. ASSUME NEW x \in Nfsds, nfsd[x].pc = "iput", nfsd[x].req = Request(p),
                 nfsd[x].rep.nfs = "0"
          PROVE  Known(p)'
      <4>1. x # n
        BY <1>1, <3>2
      <4>2. nfsd'[x] = nfsd[x]
        BY <1>1, <4>1
      <4>3. QED BY <2>2, <3>2, <4>2 DEF Known
    <3>3. QED BY <3>1, <3>2 DEF Known
  <2>6. effects'[Id(p)] > 0 => Known(p)'
    <3>1. CASE effects'[Id(p)] = effects[Id(p)]
      BY <2>1, <2>5, <3>1 DEF CallOK
    <3>2. CASE effects'[Id(p)] # effects[Id(p)]
      <4>1. req.id = Id(p) /\ err = "0"
        BY <1>8, <2>1, <3>2
      <4>2. nfsd'[n].pc = "iput" /\ nfsd'[n].req = req /\ nfsd'[n].rep = rep
        BY <1>6, <3>2
      <4>3. rep.nfs = DupCheck(req, err)
        BY <1>6, <3>2
      <4>4. rep.nfs = "0"
        BY <4>1, <4>3 DEF DupCheck
      <4>5. QED BY <2>2, <2>4, <4>1, <4>2, <4>4 DEF Known
    <3>3. QED BY <3>1, <3>2
  <2>7. ASSUME NEW m \in Replies', m.id = Id(p), Misled(m)
        PROVE  effects'[Id(p)] = 0 /\ Spent(call[p].op)'
    <3>1. CASE m \in Replies
      <4>1. effects[Id(p)] = 0 /\ Spent(call[p].op)
        BY <2>1, <2>7, <3>1 DEF CallOK
      <4>2. Spent(call[p].op)'
        <5> DEFINE o == call[p].op
        <5>1. o \in Ops /\ Spent(o)
          BY <2>1, <4>1
        <5>2. call'[p].op = o
          BY <2>2
        <5> HIDE DEF o
        <5>3. IF o.kind = "remove" THEN o.name \notin files' ELSE o.name \in files'
          BY <1>7, <5>1 DEF Spent
        <5>4. QED BY <5>2, <5>3 DEF Spent
      <4>3. req.id = Id(p) => err # "0"
        BY <1>5, <2>4, <4>1
      <4>4. QED BY <1>8, <2>1, <4>1, <4>2, <4>3
    <3>2. CASE m = rep
      <4>1. rep.st = "SUCCESS" /\ rep.nfs # "0" /\ req.id = Id(p)
        BY <1>1, <2>7, <3>2 DEF Misled
      <4>2. DupCheck(req, err) # "0"
        BY <1>6, <4>1
      <4>3. err # "0" /\ ~Dup(req)
        BY <1>5, <4>2 DEF DupCheck
      <4>4. ~Known(p)
        <5>1. \A x \in Nfsds : nfsd[x].pc # "iput"
          BY <1>1 DEF OneServer
        <5>2. QED BY <2>4, <4>1, <4>3, <5>1 DEF Known
      <4>5. effects[Id(p)] = 0
        BY <1>4, <2>1, <4>4 DEF CallOK
      <4>6. Spent(call[p].op)
        BY <1>5, <2>4, <4>1, <4>3
      <4>7. Spent(call[p].op)'
        <5> DEFINE o == call[p].op
        <5>1. o \in Ops /\ Spent(o)
          BY <2>1, <4>6
        <5>2. call'[p].op = o
          BY <2>2
        <5> HIDE DEF o
        <5>3. IF o.kind = "remove" THEN o.name \notin files' ELSE o.name \in files'
          BY <1>7, <5>1 DEF Spent
        <5>4. QED BY <5>2, <5>3 DEF Spent
      <4>8. QED BY <1>8, <2>1, <4>3, <4>5, <4>7
    <3>3. QED BY <1>1, <2>7, <3>1, <3>2
  <2>8. QED BY <2>2, <2>3, <2>6, <2>7 DEF CallOK, Misled
<1>13. NoFalseError'
  BY <1>1 DEF FInv, NoFalseError, Returned, Hard, Faults
<1>14. QED BY <1>1, <1>10, <1>11, <1>12, <1>13 DEF FInv, InCall

-----------------------------------------------------------------------------
(***************************************************************************)
(* The steps in which nothing is executed.                                 *)
(***************************************************************************)

\* Records of processes, for a mount.
LEMMA CallIs ==
  ASSUME IInv
  PROVE  /\ DOMAIN call = Procs
         /\ \E k \in DOMAIN Mounts : \A p \in Procs : call[p] \in CallRec(k)
         /\ \A p \in Procs : call[p].h # None <=> call[p].pc \notin Outside
BY Before, Parts, ProcFacts

\* A process that is woken goes on.
LEMMA WokenSteady ==
  ASSUME IInv, NEW p \in Procs, Woken(call[p], call'[p])
  PROVE  Steady(p)
<1> DEFINE c == call[p]
           d == call'[p]
<1>1. PICK k \in DOMAIN Mounts : c \in CallRec(k)
  BY CallIs
<1>2. c.h # None <=> c.pc \notin Outside
  BY CallIs
<1>3. CASE d = c
  BY <1>3 DEF Steady
<1>4. CASE c.pc = "clsleep" /\ d = [c EXCEPT !.pc = "clget"]
  <2>1. d.h = c.h /\ d.n = c.n /\ d.ret = c.ret /\ d.pc = "clget"
    BY <1>1, <1>4 DEF CallRec
  <2>2. QED BY <1>2, <1>4, <2>1 DEF Steady, Outside
<1>5. CASE c.pc = "sleep" /\ d = [c EXCEPT !.pc = "awake"]
  <2>1. d.h = c.h /\ d.n = c.n /\ d.xid = c.xid /\ d.op = c.op
    BY <1>1, <1>5 DEF CallRec
  <2>2. QED BY <1>2, <1>5, <2>1 DEF Steady, Outside
<1>6. QED BY <1>3, <1>4, <1>5 DEF Woken

\* Only one process moves.
LEMMA OneMoves ==
  ASSUME IInv, NEW p \in Procs, NEW d, call' = [call EXCEPT ![p] = d],
         call'[p] = d => Steady(p)
  PROVE  \A q \in Procs : Steady(q)
<1>1. DOMAIN call = Procs
  BY CallIs
<1>2. call'[p] = d /\ \A q \in Procs : q # p => Woken(call[q], call'[q])
  BY <1>1 DEF Woken
<1>3. QED BY <1>2, WokenSteady

\* Only one process moves, within its call.
LEMMA OneGoesOn ==
  ASSUME IInv, NEW p \in Procs, call[p].h # None, NEW d, call' = [call EXCEPT ![p] = d],
         d.h = call[p].h, d.xid = call[p].xid, d.op = call[p].op, d.n = call[p].n
  PROVE  \A q \in Procs : Steady(q)
<1>1. call'[p] = d => Steady(p)
  BY DEF Steady
<1>2. QED BY <1>1, OneMoves

\* Nobody moves but those who are woken.
LEMMA AllWoken ==
  ASSUME IInv, \A q \in Procs : Woken(call[q], call'[q])
  PROVE  \A q \in Procs : Steady(q)
BY WokenSteady

\* A try ends: the call goes on or returns.
LEMMA DoneSteady ==
  ASSUME IInv, Careful, NEW p \in Procs, call[p].pc \in {"buf", "recv", "awake"},
         NEW st, NEW rep, Done(p, st, rep), st = "SUCCESS" => rep \in Replies /\ rep.st = st
  PROVE  \A q \in Procs : Steady(q)
<1>1. DOMAIN call = Procs /\ call[p].h # None
  BY CallIs DEF Outside
<1>2. PICK k \in DOMAIN Mounts : \A q \in Procs : call[q] \in CallRec(k)
  BY CallIs
<1> DEFINE c == call[p]
           l == Later(p)
           d == [l EXCEPT !.stries = l.stries - 1, !.pc = "buf"]
           b == Back(p, st, rep)
<1>3. \/ call' = [call EXCEPT ![p] = d]
      \/ Clfree([call EXCEPT ![p] = b], c.h)
  <2>1. ~Hard
    BY DEF Careful
  <2>2. QED BY <2>1 DEF Done, Later, Back, Told
<1>4. CASE call' = [call EXCEPT ![p] = d]
  <2>1. /\ d.h = c.h /\ d.xid = c.xid /\ d.op = c.op /\ d.n = c.n
    BY <1>2 DEF CallRec, Later
  <2> HIDE DEF d
  <2>2. QED BY <1>1, <1>4, <2>1, OneGoesOn
<1>5. CASE Clfree([call EXCEPT ![p] = b], c.h)
  <2>1. b.h = None /\ b.pc = "idle" /\ b.n = c.n /\ b.ret = Told(p, st, rep)
    BY DEF Back, Idle
  <2> HIDE DEF b
  <2>2. call' = [q \in Procs |->
                   LET x == [call EXCEPT ![p] = b][q]
                   IN  IF clwanted /\ x.pc = "clsleep" THEN [x EXCEPT !.pc = "clget"] ELSE x]
    BY <1>5 DEF Clfree
  <2>3. [call EXCEPT ![p] = b][p] = b /\ \A q \in Procs \ {p} : [call EXCEPT ![p] = b][q] = call[q]
    BY <1>1
  <2>4. call'[p] = b
    BY <2>1, <2>2, <2>3
  <2>5. Steady(p)
    <3>1. Returns(p)
      BY <2>1, <2>4 DEF Returns
    <3>2. QED BY <1>1, <2>1, <2>4, <3>1 DEF Steady
  <2>6. ASSUME NEW q \in Procs \ {p} PROVE Steady(q)
    <3>1. call'[q] = IF clwanted /\ call[q].pc = "clsleep" THEN [call[q] EXCEPT !.pc = "clget"]
                                                         ELSE call[q]
      BY <2>2, <2>3
    <3>2. Woken(call[q], call'[q])
      BY <3>1 DEF Woken
    <3>3. QED BY <3>2, WokenSteady
  <2>7. QED BY <2>5, <2>6
<1>6. QED BY <1>3, <1>4, <1>5

-----------------------------------------------------------------------------
\* The queues of the sockets, and who has taken their messages, are all that
\* changes.
LEMMA QuietClient ==
  ASSUME IInv, \A q \in Procs : Steady(q),
         UNCHANGED <<buf, ifq, net, sq, nfsd, dupreqs, files, effects>>,
         DOMAIN rcv' = DOMAIN rcv,
         \A h \in DOMAIN rcv : Contents(buf, rcv'[h]) \subseteq Contents(buf, rcv[h])
  PROVE  Quiet
<1>1. Requests' = Requests
  BY DEF Requests
<1>2. Received(buf, rcv') \subseteq Received(buf, rcv)
  BY DEF Received
<1>3. Replies' = Given(buf, rcv', BagToSet(net), nfsd)
  BY DEF Replies
<1>4. Replies' \subseteq Replies
  BY <1>2, <1>3 DEF Replies, Given
<1>5. QED BY <1>1, <1>4 DEF Quiet

\* No message changes.
LEMMA QuietProc ==
  ASSUME IInv, \A q \in Procs : Steady(q),
         UNCHANGED <<buf, ifq, net, sq, nfsd, dupreqs, files, effects, rcv>>
  PROVE  Quiet
BY QuietClient

\* An operation is asked for.
LEMMA RfscallQuiet ==
  ASSUME IInv, NEW p \in Procs, NEW op \in Ops, Rfscall(p, op)
  PROVE  Quiet
<1> DEFINE n == call[p].n + 1
           d == [Idle EXCEPT !.pc = "clget", !.op = op, !.n = n]
<1>1. /\ call[p].pc = "idle" /\ call' = [call EXCEPT ![p] = d]
      /\ UNCHANGED <<buf, ifq, net, sq, nfsd, dupreqs, files, effects, rcv>>
  BY DEF Rfscall, server
<1>2. d.h = None /\ d.pc = "clget" /\ d.n = n
  BY DEF Idle
<1> HIDE DEF d
<1>3. call'[p] = d => Steady(p)
  BY <1>1, <1>2 DEF Steady
<1>4. QED BY <1>1, <1>3, OneMoves, QuietProc

\* A process gets a handle.
LEMMA ClgetFoundQuiet ==
  ASSUME IInv, NEW p \in Procs, ClgetFound(p)
  PROVE  Quiet
<1>1. PICK k \in DOMAIN Mounts : \A q \in Procs : call[q] \in CallRec(k)
  BY CallIs
<1>2. /\ call[p].pc = "clget" /\ call[p].h = None
      /\ UNCHANGED <<buf, ifq, net, sq, nfsd, dupreqs, files, effects, rcv>>
  BY CallIs DEF ClgetFound, server, Outside
<1>3. PICK h \in Handles : call' = [call EXCEPT ![p] = Callit([@ EXCEPT !.h = h])]
  BY DEF ClgetFound
<1> DEFINE d == Callit([call[p] EXCEPT !.h = h])
<1>4. d.h = h /\ d.n = call[p].n
  BY <1>1 DEF CallRec, Callit
<1>5. h # None
  BY KernelRpcAssumption DEF Handles
<1>6. call' = [call EXCEPT ![p] = d]
  BY <1>3
<1> HIDE DEF d
<1>7. call'[p] = d => Steady(p)
  BY <1>2, <1>4, <1>5 DEF Steady
<1>8. QED BY <1>2, <1>6, <1>7, OneMoves, QuietProc

\* None is free.
LEMMA ClgetSleepQuiet ==
  ASSUME IInv, NEW p \in Procs, ClgetSleep(p)
  PROVE  Quiet
<1>1. PICK k \in DOMAIN Mounts : \A q \in Procs : call[q] \in CallRec(k)
  BY CallIs
<1> DEFINE d == [call[p] EXCEPT !.pc = "clsleep"]
<1>2. /\ call[p].pc = "clget" /\ call[p].h = None /\ call' = [call EXCEPT ![p] = d]
      /\ UNCHANGED <<buf, ifq, net, sq, nfsd, dupreqs, files, effects, rcv>>
  BY CallIs DEF ClgetSleep, server, Outside
<1>3. d.h = None /\ d.n = call[p].n /\ d.ret = call[p].ret /\ d.pc = "clsleep"
  BY <1>1, <1>2 DEF CallRec
<1> HIDE DEF d
<1>4. call'[p] = d => Steady(p)
  BY <1>2, <1>3 DEF Steady
<1>5. QED BY <1>2, <1>4, OneMoves, QuietProc

\* A process in a call goes to sleep, or is woken from it.
LEMMA PcQuiet ==
  ASSUME IInv, NEW p \in Procs, call[p].h # None, NEW pc,
         call' = [call EXCEPT ![p].pc = pc]
  PROVE  \A q \in Procs : Steady(q)
<1>1. PICK k \in DOMAIN Mounts : \A q \in Procs : call[q] \in CallRec(k)
  BY CallIs
<1> DEFINE d == [call[p] EXCEPT !.pc = pc]
<1>2. call' = [call EXCEPT ![p] = d]
  BY CallIs
<1>3. d.h = call[p].h /\ d.xid = call[p].xid /\ d.op = call[p].op /\ d.n = call[p].n
  BY <1>1 DEF CallRec
<1> HIDE DEF d
<1>4. QED BY <1>2, <1>3, OneGoesOn

\* The buffer is loaned; nothing has come in.
LEMMA SleepsQuiet ==
  ASSUME IInv, NEW p \in Procs, BufSleep(p) \/ RecvSleep(p)
  PROVE  Quiet
<1>1. /\ call[p].pc \in {"buf", "recv"} /\ \E pc : call' = [call EXCEPT ![p].pc = pc]
      /\ UNCHANGED <<buf, ifq, net, sq, nfsd, dupreqs, files, effects, rcv>>
  BY DEF BufSleep, RecvSleep, server
<1>2. call[p].h # None
  BY <1>1, CallIs DEF Outside
<1>3. QED BY <1>1, <1>2, PcQuiet, QuietProc

\* The socket is flushed.
LEMMA BufWakeQuiet ==
  ASSUME IInv, NEW p \in Procs, BufWake(p)
  PROVE  Quiet
<1>1. /\ call[p].pc = "bufsleep" /\ call' = [call EXCEPT ![p].pc = "buf"]
      /\ rcv' = [rcv EXCEPT ![call[p].h] = <<>>]
      /\ UNCHANGED <<buf, ifq, net, sq, nfsd, dupreqs, files, effects>>
  BY DEF BufWake, server
<1>2. call[p].h # None
  BY <1>1, CallIs DEF Outside
<1>3. \A q \in Procs : Steady(q)
  BY <1>1, <1>2, PcQuiet
<1>4. /\ DOMAIN rcv' = DOMAIN rcv
      /\ \A h \in DOMAIN rcv : Contents(buf, rcv'[h]) \subseteq Contents(buf, rcv[h])
  BY <1>1, ContentsNone
<1>5. QED BY <1>1, <1>3, <1>4, QuietClient

\* A timeout comes.
LEMMA CkuwakeupQuiet ==
  ASSUME IInv, NEW h \in Handles, Ckuwakeup(h)
  PROVE  Quiet
<1>1. /\ call' = Sbwakeup(call, h)
      /\ UNCHANGED <<buf, ifq, net, sq, nfsd, dupreqs, files, effects, rcv>>
  BY DEF Ckuwakeup, server
<1>2. \A q \in Procs : Woken(call[q], call'[q])
  BY <1>1, CallIs, SbWakes
<1>3. QED BY <1>1, <1>2, AllWoken, QuietProc

\* There is no memory to send the call, or the process has been woken.
LEMMA TriesQuiet ==
  ASSUME IInv, Careful, NEW p \in Procs, SendFails(p) \/ Awake(p)
  PROVE  Quiet
<1>1. /\ call[p].pc \in {"buf", "awake"}
      /\ UNCHANGED <<buf, ifq, net, sq, nfsd, dupreqs, files, effects, rcv>>
      /\ \/ Done(p, "CANTSEND", None) \/ Done(p, "TIMEDOUT", None)
         \/ call' = [call EXCEPT ![p].pc = "recv"]
  BY DEF SendFails, Awake, server
<1>2. call[p].h # None
  BY <1>1, CallIs DEF Outside
<1>3. \A q \in Procs : Steady(q)
  <2>1. CASE Done(p, "CANTSEND", None)
    BY <1>1, <2>1, DoneSteady
  <2>2. CASE Done(p, "TIMEDOUT", None)
    BY <1>1, <2>2, DoneSteady
  <2>3. CASE call' = [call EXCEPT ![p].pc = "recv"]
    BY <1>2, <2>3, PcQuiet
  <2>4. QED BY <1>1, <2>1, <2>2, <2>3
<1>4. QED BY <1>1, <1>3, QuietProc

\* A message is received.
LEMMA RecvQuiet ==
  ASSUME IInv, Careful, NEW p \in Procs, Recv(p)
  PROVE  Quiet
<1>1. PICK k \in DOMAIN Mounts, f \in [1 .. clntkudpxid - 1 -> Ids] : RestOK(k) /\ Story(k, f)
  BY Before
<1> DEFINE c == call[p]
           q0 == rcv[c.h]
           rep == Content(Head(q0))
           good == rep.xid = buf[c.h].xid
           d == [c EXCEPT !.rtries = c.rtries - 1]
<1>2. /\ c \in CallRec(k) /\ c.h \in Hs(k) /\ c.h # None /\ c.pc = "recv"
  BY <1>1, InWait DEF Waiting, Recv
<1>3. WireOK(k, f, effects, rcv, buf, ifq, BagToSet(net), sq) /\ DOMAIN call = Procs
  BY <1>1, Parts
<1>4. q0 \in Seq(RepMbuf(k)) /\ DOMAIN rcv = Hs(k)
  BY <1>2, <1>3 DEF WireOK, Reps
<1>5. /\ q0 # <<>> /\ rcv' = [rcv EXCEPT ![c.h] = IF good THEN <<>> ELSE Tail(q0)]
      /\ UNCHANGED <<buf, ifq, net, sq, nfsd, dupreqs, files, effects>>
      /\ Done(p, rep.st, rep) \/ Done(p, "CANTRECV", None) \/ call' = [call EXCEPT ![p] = d]
  BY <1>3 DEF Recv, server
<1>6. Contents(buf, Tail(q0)) \subseteq Contents(buf, q0) /\ Says(buf, Head(q0)) \in Contents(buf, q0)
  BY <1>4, <1>5, ContentsTail
<1>7. rep \in Replies
  <2>1. rep \in Contents(buf, rcv[c.h])
    BY <1>6 DEF Content, Says
  <2>2. QED BY <1>2, <1>4, <2>1 DEF Replies, Given, Received
<1>8. \A q \in Procs : Steady(q)
  <2>1. CASE Done(p, rep.st, rep)
    <3> HIDE DEF rep
    <3>1. QED BY <1>2, <1>7, <2>1, DoneSteady
  <2>2. CASE Done(p, "CANTRECV", None)
    BY <1>2, <2>2, DoneSteady
  <2>3. CASE call' = [call EXCEPT ![p] = d]
    <3>1. d.h = c.h /\ d.xid = c.xid /\ d.op = c.op /\ d.n = c.n
      BY <1>2 DEF CallRec
    <3> HIDE DEF d
    <3>2. QED BY <1>2, <2>3, <3>1, OneGoesOn
  <2>4. QED BY <1>5, <2>1, <2>2, <2>3
<1> HIDE DEF good
<1>9. /\ DOMAIN rcv' = DOMAIN rcv
      /\ \A h \in DOMAIN rcv : Contents(buf, rcv'[h]) \subseteq Contents(buf, rcv[h])
  <2>1. \A h \in DOMAIN rcv : h # c.h => rcv'[h] = rcv[h]
    BY <1>5
  <2>2. rcv'[c.h] = <<>> \/ rcv'[c.h] = Tail(q0)
    BY <1>2, <1>4, <1>5
  <2>3. Contents(buf, rcv'[c.h]) \subseteq Contents(buf, rcv[c.h])
    BY <1>6, <2>2, ContentsNone
  <2>4. QED BY <1>5, <2>1, <2>3
<1>10. QED BY <1>5, <1>8, <1>9, QuietClient

\* What the queues are made of.
LEMMA QueuesAre ==
  ASSUME IInv
  PROVE  \E k \in DOMAIN Mounts :
           /\ Handles = Hs(k) /\ Ops = Mounts[k].ops
           /\ DOMAIN rcv = Hs(k) /\ DOMAIN buf = Hs(k) \cup Nfsds
           /\ DOMAIN nfsd = Nfsds
           /\ ifq \in Seq(ReqMbuf(k)) /\ sq \in Seq(ReqMbuf(k))
           /\ \A h \in Hs(k) : rcv[h] \in Seq(RepMbuf(k))
           /\ \A p \in Procs : call[p] \in CallRec(k)
           /\ \A n \in Nfsds : /\ nfsd[n] \in NfsdRec(k)
                               /\ nfsd[n].pc \in {"iput", "send"} => nfsd[n].rep \in Rep(k)
           /\ \A d \in BagToSet(net) : d.to \in Hs(k) \cup {0}
<1>1. PICK k \in DOMAIN Mounts, f \in [1 .. clntkudpxid - 1 -> Ids] : RestOK(k) /\ Story(k, f)
  BY Before
<1>2. /\ WireOK(k, f, effects, rcv, buf, ifq, BagToSet(net), sq)
      /\ ServerOK(k, f, effects, nfsd, dupreqs)
      /\ \A p \in Procs : call[p] \in CallRec(k)
  BY <1>1, Parts
<1>3. Handles = Hs(k) /\ Ops = Mounts[k].ops
  BY <1>1, MountInUse
<1>4. /\ DOMAIN rcv = Hs(k) /\ DOMAIN buf = Hs(k) \cup Nfsds
      /\ ifq \in Seq(ReqMbuf(k)) /\ sq \in Seq(ReqMbuf(k))
      /\ \A h \in Hs(k) : rcv[h] \in Seq(RepMbuf(k))
      /\ \A d \in BagToSet(net) : d.to \in Hs(k) \cup {0}
  BY <1>2 DEF WireOK, Reqs, Reps, NetOK
<1>5. /\ DOMAIN nfsd = Nfsds
      /\ \A n \in Nfsds : /\ nfsd[n] \in NfsdRec(k)
                          /\ nfsd[n].pc \in {"iput", "send"} => nfsd[n].rep \in Rep(k)
  BY <1>2 DEF ServerOK, NfsdOK, RepOK
<1>6. QED BY <1>2, <1>3, <1>4, <1>5

\* Nobody moves.
LEMMA NobodyMoves ==
  ASSUME IInv, call' = call
  PROVE  \A q \in Procs : Steady(q)
BY AllWoken DEF Woken

\* What the server processes have stays.
LEMMA SameNfsds ==
  ASSUME nfsd' = nfsd
  PROVE  \A n \in Nfsds : nfsd[n].pc = "iput" /\ nfsd[n].rep.nfs = "0" =>
           \/ nfsd'[n].pc = "iput" /\ nfsd'[n].req = nfsd[n].req /\ nfsd'[n].rep = nfsd[n].rep
           \/ \E i \in DOMAIN dupreqs' : dupreqs'[i] = Key(nfsd[n].req)
OBVIOUS

\* A call is sent.
LEMMA SendQuiet ==
  ASSUME IInv, NEW p \in Procs, Send(p)
  PROVE  Quiet
<1>1. PICK k \in DOMAIN Mounts :
        /\ Ops = Mounts[k].ops /\ DOMAIN rcv = Hs(k) /\ DOMAIN buf = Hs(k) \cup Nfsds
        /\ ifq \in Seq(ReqMbuf(k)) /\ sq \in Seq(ReqMbuf(k))
        /\ \A h \in Hs(k) : rcv[h] \in Seq(RepMbuf(k))
        /\ \A q \in Procs : call[q] \in CallRec(k)
  BY QueuesAre
<1> DEFINE c == call[p]
           msg == [xid |-> c.xid, h |-> c.h, op |-> c.op, id |-> <<p, c.n>>]
           m == [own |-> c.h, msg |-> msg]
           d == [c EXCEPT !.pc = "recv", !.rtries = RECVTRIES]
           N == BagToSet(net)
           B == buf'
<1>2. /\ c.pc = "buf" /\ buf' = [buf EXCEPT ![c.h] = msg]
      /\ \/ sq' = Append(sq, m) /\ ifq' = ifq
         \/ ifq' = Append(ifq, m) /\ sq' = sq
      /\ UNCHANGED <<rcv, net, nfsd, dupreqs, files, effects>>
      /\ call' = [call EXCEPT ![p] = d]
  BY CallIs DEF Send
<1>3. c.h # None /\ c.h \in Hs(k)
  BY <1>1, <1>2, CallIs DEF Outside, CallRec
<1>4. \A q \in Procs : Steady(q)
  <2>1. d.h = c.h /\ d.xid = c.xid /\ d.op = c.op /\ d.n = c.n
    BY <1>1 DEF CallRec
  <2> HIDE DEF d
  <2>2. QED BY <1>2, <1>3, <2>1, OneGoesOn
<1>5. msg = Request(p)
  BY DEF Request, Id
<1>6. B[c.h] = msg /\ \A y : y # c.h => B[y] = buf[y]
  BY <1>1, <1>2, <1>3
<1>7. m.own = c.h /\ Says(B, m) = msg
  BY <1>3, <1>6 DEF Says
<1>8. msg \in Req(k) => m \in ReqMbuf(k)
  BY <1>3 DEF ReqMbuf
<1>9. msg \in Req(k)
  <2>1. <<p, c.n>> \in Ids /\ c.op \in Mounts[k].ops
    BY <1>1, <1>3, ProcFacts DEF Id
  <2>2. c.xid \in Nat
    BY <1>1 DEF CallRec
  <2>3. QED BY <1>3, <2>1, <2>2 DEF Req
<1> HIDE DEF msg, m, B, N
<1>10. /\ Contents(B, ifq') \subseteq Contents(buf, ifq) \cup {msg}
       /\ Contents(B, sq') \subseteq Contents(buf, sq) \cup {msg}
  <2>1. /\ Contents(B, ifq) \subseteq Contents(buf, ifq) \cup {msg}
        /\ Contents(B, sq) \subseteq Contents(buf, sq) \cup {msg}
    BY <1>6, ContentsBuf
  <2>2. /\ Contents(B, Append(ifq, m)) \subseteq Contents(B, ifq) \cup {msg}
        /\ Contents(B, Append(sq, m)) \subseteq Contents(B, sq) \cup {msg}
    BY <1>1, <1>7, <1>8, <1>9, ContentsAppend
  <2>3. QED BY <1>2, <2>1, <2>2
<1>11. \A h \in Hs(k) : Contents(B, rcv[h]) = Contents(buf, rcv[h])
  <2>1. ASSUME NEW h \in Hs(k) PROVE Contents(B, rcv[h]) = Contents(buf, rcv[h])
    <3> DEFINE q == rcv[h]
    <3>1. q \in Seq(RepMbuf(k))
      BY <1>1
    <3> HIDE DEF q
    <3>2. \A i \in DOMAIN q : q[i] \in RepMbuf(k)
      BY <3>1, ElementOf
    <3>3. \A i \in DOMAIN q : q[i].own # c.h
      BY <1>3, <3>2, MountIs DEF RepMbuf
    <3>4. Contents(B, q) = Contents(buf, q)
      BY <1>6, <3>3, ContentsBuf
    <3>5. QED BY <3>4 DEF q
  <2>2. QED BY <2>1
<1>12. Requests' \subseteq Requests \cup {msg}
  <2>1. Requests' = Asked(B, ifq', N, sq', nfsd) /\ Requests = Asked(buf, ifq, N, sq, nfsd)
    BY <1>2 DEF Requests, B, N
  <2>2. QED BY <1>10, <2>1 DEF Asked
<1>13. Replies' \subseteq Replies
  <2>1. Replies' = Given(B, rcv, N, nfsd) /\ Replies = Given(buf, rcv, N, nfsd)
    BY <1>2 DEF Replies, B, N
  <2>2. Received(B, rcv) \subseteq Received(buf, rcv)
    BY <1>1, <1>11 DEF Received
  <2>3. QED BY <2>1, <2>2 DEF Given
<1>14. QED BY <1>2, <1>3, <1>4, <1>5, <1>12, <1>13, SameNfsds DEF Quiet, InCall

\* The interface sends a message.
LEMMA TransmitQuiet ==
  ASSUME IInv, Transmit
  PROVE  Quiet
<1>1. PICK k \in DOMAIN Mounts : ifq \in Seq(ReqMbuf(k))
  BY QueuesAre
<1> DEFINE m == Content(Head(ifq))
           w == [to |-> 0, msg |-> m]
           N == BagToSet(net)
           M == BagToSet(net')
<1>2. /\ ifq # <<>> /\ ifq' = Tail(ifq) /\ net' = net (+) SetToBag({w}) /\ call' = call
      /\ rcv' = rcv /\ buf' = buf /\ sq' = sq /\ nfsd' = nfsd /\ dupreqs' = dupreqs
      /\ files' = files /\ effects' = effects
  BY DEF Transmit, client, server
<1>3. M = N \cup {w}
  BY <1>2, BagAdds
<1>4. w.to = 0 /\ w.msg = m /\ m = Says(buf, Head(ifq))
  BY DEF Content, Says
<1>5. Contents(buf, Tail(ifq)) \subseteq Contents(buf, ifq) /\ m \in Contents(buf, ifq)
  BY <1>1, <1>2, <1>4, ContentsTail
<1> HIDE DEF m, w, N, M
<1>6. ToServer(M) \subseteq ToServer(N) \cup {m} /\ ToClients(M) \subseteq ToClients(N)
  BY <1>3, <1>4 DEF ToServer, ToClients
<1>7. Requests' = Asked(buf, Tail(ifq), M, sq, nfsd) /\ Requests = Asked(buf, ifq, N, sq, nfsd)
  BY <1>2 DEF Requests, M, N
<1>8. Replies' = Given(buf, rcv, M, nfsd) /\ Replies = Given(buf, rcv, N, nfsd)
  BY <1>2 DEF Replies, M, N
<1>9. Requests' \subseteq Requests
  BY <1>5, <1>6, <1>7 DEF Asked
<1>10. Replies' \subseteq Replies
  BY <1>6, <1>8 DEF Given
<1>11. QED BY <1>2, <1>9, <1>10, NobodyMoves, SameNfsds DEF Quiet

\* A message arrives, and some of the wire's messages stay there.
LEMMA ArriveQuiet ==
  ASSUME IInv, NEW d \in BagToSet(net), Arrive(d), BagToSet(net') \subseteq BagToSet(net),
         UNCHANGED <<buf, ifq, nfsd, dupreqs, files, effects>>
  PROVE  Quiet
<1>1. PICK k \in DOMAIN Mounts :
        /\ DOMAIN rcv = Hs(k) /\ sq \in Seq(ReqMbuf(k))
        /\ \A h \in Hs(k) : rcv[h] \in Seq(RepMbuf(k))
        /\ d.to \in Hs(k) \cup {0}
  BY QueuesAre
<1> DEFINE m == [own |-> None, msg |-> d.msg]
           N == BagToSet(net)
           M == BagToSet(net')
<1>2. Says(buf, m) = d.msg
  BY DEF Says
<1>3. /\ buf' = buf /\ ifq' = ifq /\ nfsd' = nfsd /\ dupreqs' = dupreqs /\ files' = files
      /\ effects' = effects /\ M \subseteq N /\ d \in N
  OBVIOUS
<1>4. /\ \/ d.to = 0 /\ sq' = Append(sq, m) /\ call' = call /\ rcv' = rcv
         \/ /\ d.to # 0 /\ rcv' = [rcv EXCEPT ![d.to] = Append(rcv[d.to], m)]
            /\ call' = Sbwakeup(call, d.to) /\ sq' = sq
  BY DEF Arrive
<1> HIDE DEF m, N, M
<1>5. ToServer(M) \subseteq ToServer(N) /\ ToClients(M) \subseteq ToClients(N)
  BY <1>3 DEF ToServer, ToClients
<1>6. Requests' = Asked(buf, ifq, M, sq', nfsd) /\ Requests = Asked(buf, ifq, N, sq, nfsd)
  BY <1>3 DEF Requests, M, N
<1>7. Replies' = Given(buf, rcv', M, nfsd) /\ Replies = Given(buf, rcv, N, nfsd)
  BY <1>3 DEF Replies, M, N
<1>8. \A q \in Procs : Steady(q)
  <2>1. \A q \in Procs : Woken(call[q], call'[q])
    BY <1>4, CallIs, SbWakes
  <2>2. QED BY <2>1, AllWoken
<1>9. Requests' \subseteq Requests
  <2>1. CASE d.to = 0 /\ sq' = Append(sq, m)
    <3>1. \A q \in Seq(ReqMbuf(k)) : Contents(buf, Append(q, m)) \subseteq Contents(buf, q) \cup {d.msg}
      <4>1. ASSUME NEW q \in Seq(ReqMbuf(k)), NEW x \in DOMAIN Append(q, m)
            PROVE  (x \in DOMAIN q /\ Append(q, m)[x] = q[x]) \/ Append(q, m)[x] = m
        <5> DEFINE R == ReqMbuf(k)
        <5>1. q \in Seq(R)
          OBVIOUS
        <5> HIDE DEF R
        <5>2. QED BY <4>1, <5>1
      <4>2. QED BY <1>2, <4>1 DEF Contents
    <3>2. Contents(buf, sq') \subseteq Contents(buf, sq) \cup {d.msg}
      BY <1>1, <2>1, <3>1
    <3>3. d.msg \in ToServer(N)
      BY <1>3, <2>1 DEF ToServer
    <3>4. QED BY <1>5, <1>6, <3>2, <3>3 DEF Asked
  <2>2. CASE sq' = sq
    BY <1>5, <1>6, <2>2 DEF Asked
  <2>3. QED BY <1>4, <2>1, <2>2
<1>10. Replies' \subseteq Replies
  <2>1. CASE d.to # 0 /\ rcv' = [rcv EXCEPT ![d.to] = Append(rcv[d.to], m)]
    <3> DEFINE q == rcv[d.to]
               R == RepMbuf(k)
    <3>1. q \in Seq(R)
      BY <1>1, <2>1
    <3> HIDE DEF q, R
    <3>2. \A x \in DOMAIN Append(q, m) :
            (x \in DOMAIN q /\ Append(q, m)[x] = q[x]) \/ Append(q, m)[x] = m
      BY <3>1
    <3>3. Contents(buf, Append(q, m)) \subseteq Contents(buf, q) \cup {d.msg}
      BY <1>2, <3>2 DEF Contents
    <3>4. \A h \in DOMAIN rcv' : /\ h \in DOMAIN rcv
                                 /\ Contents(buf, rcv'[h]) \subseteq Contents(buf, rcv[h]) \cup {d.msg}
      <4>1. ASSUME NEW h \in DOMAIN rcv, h # d.to PROVE rcv'[h] = rcv[h]
        BY <2>1, <4>1
      <4>2. d.to \in DOMAIN rcv /\ rcv'[d.to] = Append(q, m) /\ DOMAIN rcv' = DOMAIN rcv
        BY <1>1, <2>1 DEF q
      <4>3. QED BY <3>3, <4>1, <4>2 DEF q
    <3>5. Received(buf, rcv') \subseteq Received(buf, rcv) \cup {d.msg}
      BY <3>4 DEF Received
    <3>6. d.msg \in ToClients(N)
      BY <1>3, <2>1 DEF ToClients
    <3>7. QED BY <1>5, <1>7, <3>5, <3>6 DEF Given
  <2>2. CASE rcv' = rcv
    BY <1>5, <1>7, <2>2 DEF Given
  <2>3. QED BY <1>4, <2>1, <2>2
<1>11. QED BY <1>3, <1>8, <1>9, <1>10, SameNfsds DEF Quiet

\* A message arrives, once or for the first time, or is lost.
LEMMA NetQuiet ==
  ASSUME IInv, NEW d \in BagToSet(net), Deliver(d) \/ Duplicate(d) \/ Lose(d)
  PROVE  Quiet
<1>1. CASE Deliver(d)
  <2>1. BagToSet(net') \subseteq BagToSet(net)
    BY <1>1, BagTakes DEF Deliver
  <2>2. Arrive(d) /\ UNCHANGED <<buf, ifq, nfsd, dupreqs, files, effects>>
    BY <1>1 DEF Deliver
  <2>3. QED BY <2>1, <2>2, ArriveQuiet
<1>2. CASE Duplicate(d)
  <2>1. /\ Arrive(d) /\ UNCHANGED <<buf, ifq, nfsd, dupreqs, files, effects>>
        /\ BagToSet(net') \subseteq BagToSet(net)
    BY <1>2 DEF Duplicate
  <2>2. QED BY <2>1, ArriveQuiet
<1>3. CASE Lose(d)
  <2> DEFINE N == BagToSet(net)
             M == BagToSet(net')
  <2>1. M \subseteq N
    BY <1>3, BagTakes DEF Lose
  <2>2. /\ rcv' = rcv /\ buf' = buf /\ ifq' = ifq /\ sq' = sq /\ nfsd' = nfsd
        /\ dupreqs' = dupreqs /\ files' = files /\ effects' = effects /\ call' = call
    BY <1>3 DEF Lose, client, server
  <2> HIDE DEF M, N
  <2>3. ToServer(M) \subseteq ToServer(N) /\ ToClients(M) \subseteq ToClients(N)
    BY <2>1 DEF ToServer, ToClients
  <2>4. Requests' = Asked(buf, ifq, M, sq, nfsd) /\ Requests = Asked(buf, ifq, N, sq, nfsd)
    BY <2>2 DEF Requests, M, N
  <2>5. Replies' = Given(buf, rcv, M, nfsd) /\ Replies = Given(buf, rcv, N, nfsd)
    BY <2>2 DEF Replies, M, N
  <2>6. Requests' \subseteq Requests /\ Replies' \subseteq Replies
    BY <2>3, <2>4, <2>5 DEF Asked, Given
  <2>7. QED BY <2>2, <2>6, NobodyMoves, SameNfsds DEF Quiet
<1>4. QED BY <1>1, <1>2, <1>3

\* What an operation has answered is not lost when it ends: its request is saved.
LEMMA RfsEndQuiet ==
  ASSUME IInv, Careful, SameKind, NEW n \in Nfsds, RfsEnd(n)
  PROVE  Quiet
<1>1. PICK k \in DOMAIN Mounts, f \in [1 .. clntkudpxid - 1 -> Ids] : RestOK(k) /\ Story(k, f)
  BY Before
<1>2. /\ DOMAIN nfsd = Nfsds /\ nfsd[n] \in NfsdRec(k) /\ dupreqs \in Seq(SavedKey(k))
      /\ nfsd[n].pc = "iput"
      /\ \A m \in Requests : ReqOK(k, f, m) /\ m.op \in Ops
  BY <1>1, Parts, Underway DEF ServerOK, NfsdOK, DupOK, RfsEnd
<1> DEFINE c == nfsd[n]
           d == [c EXCEPT !.pc = "send", !.in = None]
           q == IF Len(dupreqs) < DupMax THEN dupreqs ELSE Tail(dupreqs)
<1>3. /\ nfsd' = [nfsd EXCEPT ![n] = d]
      /\ c.rep.nfs = "0" /\ ChecksDup(c.req.op) => dupreqs' = Append(q, Key(c.req))
      /\ rcv' = rcv /\ buf' = buf /\ ifq' = ifq /\ sq' = sq /\ net' = net
      /\ files' = files /\ effects' = effects /\ call' = call
  BY <1>2 DEF RfsEnd, Dupsave, client
<1>4. d.pc = "send" /\ d.req = c.req /\ d.rep = c.rep
  BY <1>2 DEF NfsdRec
<1>5. c.req \in Requests
  BY <1>2 DEF Requests, Asked, Taken, AtWork
<1>6. ChecksDup(c.req.op)
  BY <1>2, <1>5, FailsIfSpent
<1>7. c.rep.nfs = "0" => \E i \in DOMAIN dupreqs' : dupreqs'[i] = Key(c.req)
  <2> DEFINE y == Key(c.req)
             K == SavedKey(k)
  <2>1. y \in K
    <3>1. c.req \in Req(k) /\ c.req.op.kind \in Kinds
      BY <1>2, <1>5, MountIs DEF ReqOK, Req
    <3>2. QED BY <3>1 DEF Key, SavedKey, Req
  <2>2. dupreqs \in Seq(K)
    BY <1>2
  <2> HIDE DEF y, K
  <2>3. dupreqs # <<>> \/ Len(dupreqs) < DupMax
    <3>1. DupMax \in Nat \ {0}
      BY <1>1, MountInUse, MountIs
    <3>2. dupreqs = <<>> => Len(dupreqs) = 0
      OBVIOUS
    <3>3. QED BY <3>1, <3>2
  <2>4. q \in Seq(K)
    BY <2>2, <2>3
  <2> HIDE DEF q
  <2>5. Len(Append(q, y)) \in DOMAIN Append(q, y) /\ Append(q, y)[Len(Append(q, y))] = y
    BY <2>1, <2>4
  <2>6. QED BY <1>3, <1>6, <2>5 DEF y
<1> HIDE DEF d, q
<1>8. nfsd'[n] = d /\ \A x \in Nfsds : x # n => nfsd'[x] = nfsd[x]
  BY <1>2, <1>3
<1>9. Taken(nfsd') \subseteq Taken(nfsd) /\ Made(nfsd') \subseteq Made(nfsd)
  BY <1>2, <1>4, <1>8 DEF Taken, Made, AtWork
<1>10. /\ Requests' = Asked(buf, ifq, BagToSet(net), sq, nfsd')
       /\ Replies' = Given(buf, rcv, BagToSet(net), nfsd')
  BY <1>3 DEF Requests, Replies
<1>11. Requests' \subseteq Requests /\ Replies' \subseteq Replies
  BY <1>9, <1>10 DEF Requests, Replies, Asked, Given
<1>12. QED BY <1>3, <1>7, <1>8, <1>11, NobodyMoves DEF Quiet

\* The reply is sent.
LEMMA SvckudpSendQuiet ==
  ASSUME IInv, NEW n \in Nfsds, SvckudpSend(n)
  PROVE  Quiet
<1>1. PICK k \in DOMAIN Mounts :
        /\ Handles = Hs(k) /\ DOMAIN rcv = Hs(k) /\ DOMAIN buf = Hs(k) \cup Nfsds
        /\ DOMAIN nfsd = Nfsds
        /\ ifq \in Seq(ReqMbuf(k)) /\ sq \in Seq(ReqMbuf(k))
        /\ \A h \in Hs(k) : rcv[h] \in Seq(RepMbuf(k))
        /\ \A x \in Nfsds : /\ nfsd[x] \in NfsdRec(k)
                            /\ nfsd[x].pc \in {"iput", "send"} => nfsd[x].rep \in Rep(k)
  BY QueuesAre
<1> DEFINE c == nfsd[n]
           rep == c.rep
           d == [c EXCEPT !.pc = "idle", !.req = None, !.rep = None]
           B == buf'
           N == BagToSet(net)
           M == BagToSet(net')
           m == [own |-> n, msg |-> rep]
           w == [to |-> rep.h, msg |-> rep]
<1>2. /\ c.pc = "send" /\ buf' = [buf EXCEPT ![n] = rep] /\ nfsd' = [nfsd EXCEPT ![n] = d]
      /\ \/ /\ rcv' = [rcv EXCEPT ![rep.h] = Append(rcv[rep.h], m)]
            /\ call' = Sbwakeup(call, rep.h) /\ net' = net
         \/ net' = net (+) SetToBag({w}) /\ rcv' = rcv /\ call' = call
      /\ ifq' = ifq /\ sq' = sq /\ dupreqs' = dupreqs /\ files' = files /\ effects' = effects
  BY <1>1 DEF SvckudpSend
<1>3. rep \in Rep(k) /\ rep.h \in Hs(k)
  BY <1>1, <1>2 DEF Rep
<1>4. d.pc = "idle"
  BY <1>1 DEF NfsdRec
<1>5. rep \in Made(nfsd)
  BY <1>2 DEF Made, AtWork
<1>6. n \notin Hs(k) /\ n # None /\ rep.h # 0
  BY <1>3, MountIs
<1>7. B[n] = rep /\ \A y : y # n => B[y] = buf[y]
  BY <1>1, <1>2
<1>8. m.own = n /\ w.to = rep.h /\ w.msg = rep /\ m \in RepMbuf(k) /\ Says(B, m) = rep
  BY <1>3, <1>6, <1>7 DEF RepMbuf, Says
<1> HIDE DEF d, rep, m, w, B, N, M
<1>9. \A q \in Procs : Steady(q)
  <2>1. \A q \in Procs : Woken(call[q], call'[q])
    BY <1>2, CallIs, SbWakes
  <2>2. QED BY <2>1, AllWoken
<1>10. nfsd'[n] = d /\ \A x \in Nfsds : x # n => nfsd'[x] = nfsd[x]
  BY <1>1, <1>2
<1>11. Taken(nfsd') \subseteq Taken(nfsd) /\ Made(nfsd') \subseteq Made(nfsd)
  BY <1>4, <1>10 DEF Taken, Made, AtWork
<1>12. Contents(B, ifq) = Contents(buf, ifq) /\ Contents(B, sq) = Contents(buf, sq)
  <2>1. ASSUME NEW q \in Seq(ReqMbuf(k)) PROVE Contents(B, q) = Contents(buf, q)
    <3>1. \A i \in DOMAIN q : q[i] \in ReqMbuf(k)
      BY ElementOf
    <3>2. \A i \in DOMAIN q : q[i].own # n
      BY <1>6, <3>1 DEF ReqMbuf
    <3>3. QED BY <1>7, <3>2, ContentsBuf
  <2>2. QED BY <1>1, <2>1
<1>13. \A h \in Hs(k) : Contents(B, rcv[h]) \subseteq Contents(buf, rcv[h]) \cup {rep}
  BY <1>7, ContentsBuf
<1>14. Received(B, rcv') \subseteq Received(buf, rcv) \cup {rep}
  <2>1. CASE rcv' = rcv
    BY <1>1, <1>13, <2>1 DEF Received
  <2>2. CASE rcv' = [rcv EXCEPT ![rep.h] = Append(rcv[rep.h], m)]
    <3>1. Contents(B, Append(rcv[rep.h], m)) \subseteq Contents(B, rcv[rep.h]) \cup {rep}
      BY <1>1, <1>3, <1>8, ContentsAppend
    <3>2. \A h \in Hs(k) : h # rep.h => rcv'[h] = rcv[h]
      BY <1>1, <2>2
    <3>3. rcv'[rep.h] = Append(rcv[rep.h], m) /\ DOMAIN rcv' = Hs(k)
      BY <1>1, <1>3, <2>2
    <3>4. \A h \in Hs(k) : Contents(B, rcv'[h]) \subseteq Contents(buf, rcv[h]) \cup {rep}
      BY <1>3, <1>13, <3>1, <3>2, <3>3
    <3>5. QED BY <1>1, <3>3, <3>4 DEF Received
  <2>3. QED BY <1>2, <2>1, <2>2
<1>15. ToServer(M) \subseteq ToServer(N) /\ ToClients(M) \subseteq ToClients(N) \cup {rep}
  <2>1. CASE net' = net
    BY <2>1 DEF M, N
  <2>2. CASE net' = net (+) SetToBag({w})
    <3>1. M = N \cup {w}
      BY <2>2, BagAdds DEF M, N
    <3>2. QED BY <1>6, <1>8, <3>1 DEF ToServer, ToClients
  <2>3. QED BY <1>2, <2>1, <2>2
<1>16. Requests' \subseteq Requests
  <2>1. Requests' = Asked(B, ifq, M, sq, nfsd') /\ Requests = Asked(buf, ifq, N, sq, nfsd)
    BY <1>2 DEF Requests, B, M, N
  <2>2. QED BY <1>11, <1>12, <1>15, <2>1 DEF Asked
<1>17. Replies' \subseteq Replies
  <2>1. Replies' = Given(B, rcv', M, nfsd') /\ Replies = Given(buf, rcv, N, nfsd)
    BY <1>2 DEF Replies, B, M, N
  <2>2. QED BY <1>5, <1>11, <1>14, <1>15, <2>1 DEF Given
<1>18. \A x \in Nfsds : nfsd[x].pc = "iput" => nfsd'[x] = nfsd[x]
  BY <1>2, <1>10
<1>19. QED BY <1>2, <1>9, <1>16, <1>17, <1>18 DEF Quiet

\* A server process is killed.
LEMMA KillNfsdQuiet ==
  ASSUME IInv, NEW n \in Nfsds, KillNfsd(n)
  PROVE  Quiet
<1>1. PICK k \in DOMAIN Mounts :
        DOMAIN nfsd = Nfsds /\ \A x \in Nfsds : nfsd[x] \in NfsdRec(k)
  BY QueuesAre
<1> DEFINE d == [nfsd[n] EXCEPT !.pc = "dead"]
<1>2. /\ nfsd[n].pc = "idle" /\ nfsd' = [nfsd EXCEPT ![n] = d]
      /\ rcv' = rcv /\ buf' = buf /\ ifq' = ifq /\ sq' = sq /\ net' = net
      /\ dupreqs' = dupreqs /\ files' = files /\ effects' = effects /\ call' = call
  BY <1>1 DEF KillNfsd, client
<1>3. d.pc = "dead"
  BY <1>1 DEF NfsdRec
<1> HIDE DEF d
<1>4. nfsd'[n] = d /\ \A x \in Nfsds : x # n => nfsd'[x] = nfsd[x]
  BY <1>1, <1>2
<1>5. Taken(nfsd') \subseteq Taken(nfsd) /\ Made(nfsd') \subseteq Made(nfsd)
  BY <1>3, <1>4 DEF Taken, Made, AtWork
<1>6. /\ Requests' = Asked(buf, ifq, BagToSet(net), sq, nfsd')
      /\ Replies' = Given(buf, rcv, BagToSet(net), nfsd')
  BY <1>2 DEF Requests, Replies
<1>7. Requests' \subseteq Requests /\ Replies' \subseteq Replies
  BY <1>5, <1>6 DEF Requests, Replies, Asked, Given
<1>8. \A x \in Nfsds : nfsd[x].pc = "iput" => nfsd'[x] = nfsd[x]
  BY <1>2, <1>4
<1>9. QED BY <1>2, <1>7, <1>8, NobodyMoves DEF Quiet

-----------------------------------------------------------------------------
(***************************************************************************)
(* The theorem.                                                            *)
(***************************************************************************)

\* Every step keeps the invariant of careful mounts, as long as the cache forgets
\* no call that is under way.
LEMMA CarefulKeeps ==
  ASSUME IInv, IInv', FInv, Careful, SameKind, OneServer, Remembers, Next
  PROVE  FInv'
<1>1. ASSUME Quiet PROVE FInv'
  BY <1>1, QuietKeeps
<1>2. ASSUME NEW p \in Procs, ClientStep(p) \/ SendFails(p) PROVE FInv'
  <2>1. CASE ClgetFound(p)
    BY <1>1, <2>1, ClgetFoundQuiet
  <2>2. CASE ClgetSleep(p)
    BY <1>1, <2>2, ClgetSleepQuiet
  <2>3. CASE BufSleep(p) \/ RecvSleep(p)
    BY <1>1, <2>3, SleepsQuiet
  <2>4. CASE BufWake(p)
    BY <1>1, <2>4, BufWakeQuiet
  <2>5. CASE Send(p)
    BY <1>1, <2>5, SendQuiet
  <2>6. CASE SendFails(p) \/ Awake(p)
    BY <1>1, <2>6, TriesQuiet
  <2>7. CASE Recv(p)
    BY <1>1, <2>7, RecvQuiet
  <2>8. QED BY <1>2, <2>1, <2>2, <2>3, <2>4, <2>5, <2>6, <2>7 DEF ClientStep
<1>3. ASSUME NEW p \in Procs, NEW op \in Ops, Rfscall(p, op) PROVE FInv'
  BY <1>1, <1>3, RfscallQuiet
<1>4. ASSUME NEW h \in Handles, Ckuwakeup(h) PROVE FInv'
  BY <1>1, <1>4, CkuwakeupQuiet
<1>5. ASSUME Transmit PROVE FInv'
  BY <1>1, <1>5, TransmitQuiet
<1>6. ASSUME NEW d \in BagToSet(net), Deliver(d) \/ Duplicate(d) \/ Lose(d) PROVE FInv'
  BY <1>1, <1>6, NetQuiet
<1>7. ASSUME NEW n \in Nfsds, ServerStep(n) \/ KillNfsd(n) PROVE FInv'
  <2>1. CASE SvcGetreq(n)
    BY <2>1, SvcGetreqTrue
  <2>2. CASE RfsEnd(n)
    BY <1>1, <2>2, RfsEndQuiet
  <2>3. CASE SvckudpSend(n)
    BY <1>1, <2>3, SvckudpSendQuiet
  <2>4. CASE KillNfsd(n)
    BY <1>1, <2>4, KillNfsdQuiet
  <2>5. QED BY <1>7, <2>1, <2>2, <2>3, <2>4 DEF ServerStep
<1>8. ~Crash
  BY DEF Crash, Fault, Careful
<1>9. QED BY <1>2, <1>3, <1>4, <1>5, <1>6, <1>7, <1>8 DEF Next

\* At the start nothing has been asked for.
LEMMA CarefulInit ==
  ASSUME Init, IInv
  PROVE  FInv
<1>1. /\ \A p \in Procs : call[p] = Idle
      /\ rcv = [h \in Handles |-> <<>>] /\ ifq = <<>> /\ sq = <<>> /\ net = EmptyBag
      /\ \A n \in Nfsds : nfsd[n].pc = "idle"
      /\ \A i \in Ids : effects[i] = 0
  BY DEF Init
<1>2. BagToSet(net) = {}
  BY <1>1 DEF BagToSet, EmptyBag, SetToBag
<1>3. AtWork(nfsd) = {}
  BY <1>1 DEF AtWork
<1>4. /\ Contents(buf, ifq) = {} /\ Contents(buf, sq) = {}
      /\ \A h \in DOMAIN rcv : Contents(buf, rcv[h]) = {}
  BY <1>1, ContentsNone
<1>5. Taken(nfsd) = {} /\ Made(nfsd) = {}
  BY <1>3 DEF Taken, Made
<1>6. Received(buf, rcv) = {}
  BY <1>4 DEF Received
<1>7. ToServer(BagToSet(net)) = {} /\ ToClients(BagToSet(net)) = {}
  BY <1>2 DEF ToServer, ToClients
<1>8. Requests = {} /\ Replies = {}
  BY <1>4, <1>5, <1>6, <1>7 DEF Requests, Replies, Asked, Given
<1>9. \A p \in Procs : call[p].h = None /\ call[p].n = 0
  BY <1>1 DEF Idle
<1>10. \A p \in Procs : ~InCall(p) /\ ~Returned(p)
  BY <1>9 DEF InCall, Returned
<1>11. \A i \in Ids : ~(effects[i] > 0)
  BY <1>1
<1>12. QED BY <1>8, <1>10, <1>11 DEF FInv, NoFalseError

\* A mount stays what it is.
LEMMA CarefulStays ==
  ASSUME IInv, [Next]_vars
  PROVE  Careful' <=> Careful
<1>1. mnt'.conf = mnt.conf
  <2>1. mnt \in [conf : DOMAIN Mounts, faults : Nat]
    BY DEF IInv, RestOK
  <2>2. mnt' = mnt \/ mnt' = [mnt EXCEPT !.faults = @ + 1]
    BY DEF Next, ClientStep, SendFails, Rfscall, Ckuwakeup, Transmit, Deliver, Duplicate,
           Lose, ServerStep, KillNfsd, Crash, ClgetFound, ClgetSleep, BufSleep, BufWake,
           Send, RecvSleep, Awake, Recv, SvcGetreq, RfsEnd, SvckudpSend, Fault, vars
  <2>3. QED BY <2>1, <2>2
<1>2. QED BY <1>1 DEF Careful, Hard, Faults

\* Nothing happens.
LEMMA CarefulIdles ==
  ASSUME FInv, UNCHANGED vars
  PROVE  FInv'
<1>1. /\ call' = call /\ rcv' = rcv /\ buf' = buf /\ ifq' = ifq /\ net' = net /\ sq' = sq
      /\ nfsd' = nfsd /\ dupreqs' = dupreqs /\ files' = files /\ effects' = effects
      /\ mnt' = mnt
  BY DEF vars
<1>2. Requests' = Requests /\ Replies' = Replies
  BY <1>1 DEF Requests, Replies
<1>3. \A p \in Procs : (InCall(p)' <=> InCall(p)) /\ (CallOK(p)' <=> CallOK(p))
  BY <1>1, <1>2 DEF InCall, CallOK, Id, Request, Known, Dup, Spent, Misled, Key
<1>4. NoFalseError' <=> NoFalseError
  BY <1>1 DEF NoFalseError, Returned, Hard, Faults
<1>5. \A i : Begun(i)' <=> Begun(i)
  BY <1>1 DEF Begun
<1>6. QED BY <1>1, <1>2, <1>3, <1>4, <1>5 DEF FInv

\* Where nothing undoes what a call has done, one server process serves and the
\* cache of transaction ids is not so small that it forgets a call that is under
\* way, a call on a soft mount of a server that does not crash is not told that
\* it failed after the server has done what it asked for, however often the
\* request is lost, repeated or sent again.
THEOREM ErrorsTrue ==
  ASSUME SameKind, OneServer
  PROVE  Spec /\ [][Careful => Remembers]_vars => []NoFalseError
<1> DEFINE G == Careful => FInv
<1>1. Init => G
  BY InitOK, CarefulInit
<1>2. IInv /\ IInv' /\ G /\ [Next]_vars /\ [Careful => Remembers]_vars => G'
  <2> SUFFICES ASSUME IInv, IInv', Careful => FInv, [Next]_vars,
                      [Careful => Remembers]_vars, Careful'
               PROVE  FInv'
    OBVIOUS
  <2>1. Careful /\ FInv
    BY CarefulStays
  <2>2. CASE UNCHANGED vars
    BY <2>1, <2>2, CarefulIdles
  <2>3. CASE Next /\ Remembers
    BY <2>1, <2>3, CarefulKeeps
  <2>4. QED BY <2>1, <2>2, <2>3
<1>3. G => NoFalseError
  BY DEF FInv, NoFalseError, Careful
<1> HIDE DEF G
<1>4. QED BY <1>1, <1>2, <1>3, RpcInvariance, PTL DEF Spec
=============================================================================
