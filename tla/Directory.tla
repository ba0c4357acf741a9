------------------------------- MODULE Directory -------------------------------
(***************************************************************************)
(* Directories, inodes and the directory name lookup cache of a local file *)
(* system: lookuppn() and the vn_ calls above it (sys/sys/vfs_lookup.c,    *)
(* vfs_vnode.c, vfs_dnlc.c), dirlook(), direnter() and dirremove()         *)
(* (sys/ufs/ufs_dir.c) and the inodes below (ufs_inode.c, ufs_alloc.c).    *)
(*                                                                         *)
(* The kernel is not preempted: a process runs until it sleeps, on the     *)
(* lock of an inode or for the disk, and it holds its locks while it does. *)
(* fs.cpu is the process that runs on.  A synchronous write is under way   *)
(* while its process is at the label named for it; the disk has it when    *)
(* the process goes on.  What a delayed write leaves on the disk is        *)
(* unknown until the next synchronous one: dnlink is the set of the link   *)
(* counts the disk may have for an inode.                                  *)
(***************************************************************************)
EXTENDS Integers, FiniteSets, SequencesExt

CONSTANTS
  Procs,
  NInodes,    \* inodes are 1 .. NInodes, 0 is none
  Names,      \* what entries are called, besides "." and ".."
  NcSize,     \* NC_SIZE, the entries of the name cache
  Loads,      \* trees and the calls that processes make in them
  None

VARIABLE
  fs          \* the file system and the processes; fs.load is the one of Loads
              \* that this behaviour is about

Inode == 1 .. NInodes
ROOTINO == 1
Entries == Names \cup {".."}

(***************************************************************************)
(* A load: ent of every directory to begin with (the others are free, or   *)
(* files if an entry has them), the current directory of each process, the *)
(* calls it makes, and whether a directory may find no room to grow.  Only *)
(* files are linked: links to directories are the super-user's.            *)
(***************************************************************************)
Ops == {"lookup", "create", "mkdir", "link", "rename", "unlink", "rmdir"}

DirectoryAssumption ==
  \A i \in DOMAIN Loads :
    LET l == Loads[i] IN
      /\ ROOTINO \in DOMAIN l.tree
      /\ l.tree \in [DOMAIN l.tree -> [Entries -> 0 .. NInodes]]
      /\ l.cwd \in [Procs -> DOMAIN l.tree]
      /\ \A p \in Procs : \A k \in l.calls[p] :
           /\ k.op \in Ops /\ k.path \in Seq(Entries) /\ k.path # <<>>
           /\ k.op # "lookup" => Last(k.path) # ".."
           /\ k.op \in {"link", "rename"} =>
                k.to \in Seq(Entries) /\ k.to # <<>> /\ Last(k.to) # ".."
      /\ l.nospace \in BOOLEAN /\ None \notin Procs

\* The fields of a process that hold a reference to an inode.
Refs == {"dp", "ip", "tip", "sip", "fvp", "sdp", "tdp"}

NoLoc == [pc |-> "idle", call |-> None, at |-> 0, path |-> <<>>, nm |-> None,
          snm |-> None, tnm |-> None, dp |-> 0, ip |-> 0, tip |-> 0, sip |-> 0,
          fvp |-> 0, sdp |-> 0, tdp |-> 0, cd |-> 0, want |-> 0, val |-> 0, error |-> FALSE,
          rel |-> <<>>, inact |-> 0, fill |-> <<>>, ret |-> "idle"]

NoEntries == [n \in Entries |-> 0]

\* The entries that refer to x, "." of x itself included.
Links(ent, x) ==
  Cardinality({e \in Inode \X Entries : ent[e[1]][e[2]] = x})
  + (IF ent[x][".."] # 0 THEN 1 ELSE 0)

\* Without ".." (the root has itself) nothing is a directory.
Init ==
  \E i \in DOMAIN Loads :
    LET l == Loads[i]
        ent == [x \in Inode |-> IF x \in DOMAIN l.tree THEN l.tree[x] ELSE NoEntries]
    IN  fs = [load |-> i, cpu |-> None, cache |-> <<>>, renaming |-> FALSE, panic |-> FALSE,
              ino |-> [x \in Inode |->
                [type |-> IF x \in DOMAIN l.tree THEN "dir"
                          ELSE IF Links(ent, x) > 0 THEN "file" ELSE "free",
                 nlink |-> Links(ent, x), lock |-> None, ent |-> ent[x], chg |-> FALSE,
                 count |-> Cardinality({p \in Procs : l.cwd[p] = x})
                           + (IF x = ROOTINO THEN 1 ELSE 0),
                 used |-> Links(ent, x) > 0, dnlink |-> {Links(ent, x)}, dent |-> ent[x]]],
              pr |-> [p \in Procs |-> NoLoc]]

-----------------------------------------------------------------------------
(***************************************************************************)
(* Primitives, from state to state.                                        *)
(***************************************************************************)
Hold(s, x) == [s EXCEPT !.ino[x].count = @ + 1]
Lock(s, p, x) == [s EXCEPT !.ino[x].lock = p]
Unlock(s, x) == [s EXCEPT !.ino[x].lock = None]
IsDir(s, x) == s.ino[x].type = "dir"
\* dirempty(): entries are left only if they are not "." or "..".
Dirempty(s, x) == \A n \in Names : s.ino[x].ent[n] = 0

\* i_nlink changes and ICHG is set.
AddLink(s, x, k) == [s EXCEPT !.ino[x].nlink = @ + k, !.ino[x].chg = TRUE]

\* iupdat(ip, 0), of a changed inode.
UpdatLater(s, x) ==
  IF s.ino[x].chg
  THEN [s EXCEPT !.ino[x].chg = FALSE, !.ino[x].dnlink = @ \cup {s.ino[x].nlink}]
  ELSE s

Go(s, p, label) == [s EXCEPT !.pr[p].pc = label]
\* The process goes to lock x.
Want(s, p, label, x) == [s EXCEPT !.pr[p].pc = label, !.pr[p].want = x]
\* iupdat(ip, 1): the write is under way, and over.
Updat(s, p, label, x) ==
  [s EXCEPT !.pr[p].pc = label, !.pr[p].val = s.ino[x].nlink, !.ino[x].chg = FALSE]
Updated(s, p, x) == [s EXCEPT !.ino[x].dnlink = {s.pr[p].val}]

\* VN_RELE() of what a field of the process refers to, in turn, before the
\* process does anything else.
Release(s, p, field) ==
  [s EXCEPT !.pr[p].rel = Append(@, s.pr[p][field]), !.pr[p][field] = 0]
ReleaseIf(s, p, field) == IF s.pr[p][field] = 0 THEN s ELSE Release(s, p, field)

\* dnlc_lookup() finds the entry and moves it to the end of the LRU list.
Cached(s, d, n) == {i \in DOMAIN s.cache : s.cache[i][1] = d /\ s.cache[i][2] = n}
CachedAt(s, d, n) == CHOOSE i \in Cached(s, d, n) : TRUE
Freshen(s, i) == [s EXCEPT !.cache = Append(RemoveAt(@, i), @[i])]

\* dnlc_remove(): the process gives the entries and their references up.
DnlcRemove(s, p, d, n) ==
  LET gone == SelectSeq(s.cache, LAMBDA e : e[1] = d /\ e[2] = n)
  IN  [s EXCEPT !.cache = SelectSeq(@, LAMBDA e : e[1] # d \/ e[2] # n),
                !.pr[p].rel = @ \o FlattenSeq([i \in DOMAIN gone |-> <<gone[i][1], gone[i][3]>>])]

\* dnlc_enter(): the entry goes to the end of the LRU list.  When all are in
\* use the oldest is taken, whose references are released first, which may
\* sleep; the new one is filled in after that.  Some may be taken already.
Filled(s, e) == Hold(Hold([s EXCEPT !.cache = Append(@, e)], e[1]), e[3])
Taken(s) == Cardinality({q \in Procs : s.pr[q].fill # <<>>})
DnlcEnter(s, p, e, next) ==
  LET s1 == Go(s, p, next)
  IN  IF Cached(s, e[1], e[2]) # {} THEN s1
      ELSE IF Len(s.cache) + Taken(s) < NcSize THEN Filled(s1, e)
      ELSE IF s.cache = <<>> THEN s1
      ELSE [s1 EXCEPT !.cache = Tail(@), !.pr[p].rel = @ \o <<s.cache[1][1], s.cache[1][3]>>,
                      !.pr[p].fill = e]

\* The call returns: what is still referred to is released in this order.
Finish(s, p) ==
  LET l == s.pr[p]
      held == CASE l.call.op \in {"create", "mkdir"} -> <<l.dp, l.tdp, l.sip>>
                [] l.call.op \in {"unlink", "rmdir"} -> <<l.ip, l.dp>>
                [] OTHER -> <<l.dp, l.ip, l.sip, l.fvp, l.sdp, l.tdp>>
  IN  [s EXCEPT !.pr[p] = [NoLoc EXCEPT !.rel = l.rel \o SelectSeq(held, LAMBDA x : x # 0)]]

\* irele(): nobody may have the inode locked.
Irele(s, p) ==
  IF s.ino[s.pr[p].sip].lock # None THEN [s EXCEPT !.panic = TRUE] ELSE Finish(s, p)

-----------------------------------------------------------------------------
(***************************************************************************)
(* Who runs.  At the first labels a process waits for the disk, at the     *)
(* others it is about to lock fs.pr[p].want, and sleeps while another has  *)
(* it; it may be overtaken between the wakeup and its turn.                *)
(***************************************************************************)
DiskLabels == {"scan", "read", "w_bump", "climb", "check", "w_ino", "w_par", "w_blk", "w_np",
               "w_dd", "w_op", "w_ent", "w_ren", "w_rentrunc", "w_trunc", "rmscan", "w_rm",
               "w_rmtrunc"}
LockLabels == {"hit", "lockdp", "iget", "bump", "enter", "climbget", "retarget", "tget",
               "newino", "dd", "oldpar", "relock", "rm", "rmget"}

Blocked(s, p) ==
  LET l == s.pr[p] IN
    \/ l.pc \in LockLabels /\ s.ino[l.want].lock # None
    \/ l.pc = "path" /\ s.renaming

Busy(s, p) == s.pr[p].rel # <<>> \/ s.pr[p].fill # <<>>

Sleeps(s, p) ==
  \/ s.pr[p].inact # 0
  \/ ~Busy(s, p) /\ (s.pr[p].pc \in DiskLabels \cup {"idle"} \/ Blocked(s, p))

Run(p, s) == fs' = [s EXCEPT !.cpu = IF Sleeps(s, p) THEN None ELSE p]

Runs(p) == fs.cpu \in {None, p} /\ ~fs.panic
At(p, label) ==
  /\ Runs(p) /\ fs.pr[p].pc = label /\ fs.pr[p].inact = 0
  /\ ~Busy(fs, p) /\ ~Blocked(fs, p)

-----------------------------------------------------------------------------
(***************************************************************************)
(* The end of a reference: vn_rele() and iinactive().                      *)
(***************************************************************************)

\* VN_RELE(); an inode without links is truncated and freed, and written.
Rele(p) ==
  LET l == fs.pr[p]
      x == Head(l.rel)
      s1 == [fs EXCEPT !.pr[p].rel = Tail(@), !.ino[x].count = @ - 1]
  IN  /\ Runs(p) /\ l.inact = 0 /\ l.rel # <<>>
      /\ Run(p, IF s1.ino[x].count > 0 THEN s1
                ELSE IF \/ s1.ino[x].lock # None \/ s1.ino[x].count < 0
                        \/ s1.ino[x].nlink <= 0 /\ ~s1.ino[x].used
                THEN [s1 EXCEPT !.panic = TRUE]
                ELSE IF s1.ino[x].nlink > 0 THEN UpdatLater(s1, x)
                ELSE [Lock(s1, p, x) EXCEPT !.ino[x].ent = NoEntries, !.pr[p].inact = x])

\* itrunc() has been written, and ifree() gives the inode back.
InactFree(p) ==
  LET x == fs.pr[p].inact
  IN  /\ Runs(p) /\ x # 0 /\ fs.ino[x].type # "free"
      /\ Run(p, [fs EXCEPT !.ino[x].dnlink = {fs.ino[x].nlink}, !.ino[x].dent = NoEntries,
                           !.ino[x].used = FALSE, !.ino[x].type = "free", !.ino[x].chg = TRUE])

\* It is written as free later, and can be had again.
InactDone(p) ==
  LET x == fs.pr[p].inact
  IN  /\ Runs(p) /\ x # 0 /\ fs.ino[x].type = "free"
      /\ Run(p, [Unlock(UpdatLater(fs, x), x) EXCEPT !.pr[p].inact = 0])

\* dnlc_enter() goes on when the old entry has been released.
Fill(p) ==
  /\ Runs(p) /\ fs.pr[p].inact = 0 /\ fs.pr[p].rel = <<>> /\ fs.pr[p].fill # <<>>
  /\ Run(p, [Filled(fs, fs.pr[p].fill) EXCEPT !.pr[p].fill = <<>>])

-----------------------------------------------------------------------------
(***************************************************************************)
(* Names: lookuppn() and dirlook().  fs.pr[p].cd is the directory that is  *)
(* searched, at counts the names of the call that have been looked up.     *)
(***************************************************************************)
Lookuppn(s, p, path, at) ==
  LET c == Loads[s.load].cwd[p]
  IN  [Hold(s, c) EXCEPT !.pr[p].pc = "look", !.pr[p].at = at, !.pr[p].path = Tail(path),
                         !.pr[p].nm = Head(path), !.pr[p].dp = c, !.pr[p].cd = c]

\* What the vn_ calls do with the directory dp and the inode ip they looked up;
\* ip is 0 when there is no such entry.
Looked(s, p) ==
  LET l == s.pr[p]
      op == l.call.op
      \* The directory that the new name goes into.
      target == [ReleaseIf(s, p, "ip") EXCEPT !.pr[p].tdp = l.dp, !.pr[p].dp = 0,
                                              !.pr[p].tnm = l.nm]
  IN  CASE op \in {"create", "mkdir"} -> Want(target, p, "enter", l.dp)
        [] op = "link" /\ l.at = 1 /\ l.ip # 0 ->
             Lookuppn(Release([s EXCEPT !.pr[p].sip = l.ip, !.pr[p].ip = 0], p, "dp"),
                      p, l.call.to, 2)
        [] op = "link" /\ l.at = 2 -> Want(target, p, "bump", l.sip)
        [] op = "rename" /\ l.at = 1 /\ l.ip # 0 ->
             Lookuppn([s EXCEPT !.pr[p].fvp = l.ip, !.pr[p].ip = 0, !.pr[p].sdp = l.dp,
                                !.pr[p].snm = l.nm], p, l.call.to, 2)
        [] op = "rename" /\ l.at = 2 ->
             [target EXCEPT !.pr[p].pc = "look", !.pr[p].at = 3, !.pr[p].nm = l.snm,
                            !.pr[p].cd = l.sdp]
        [] op = "rename" /\ l.at = 3 /\ l.ip # 0 ->
             Want([s EXCEPT !.pr[p].sip = l.ip, !.pr[p].ip = 0], p, "bump", l.ip)
        [] op \in {"unlink", "rmdir"} /\ l.ip # 0 /\ (IsDir(s, l.ip) <=> op = "rmdir") ->
             Want(Release(s, p, "ip"), p, "rm", l.dp)
        [] OTHER -> Finish(s, p)

\* The component has been found, and is not locked any more.
Component(s, p) ==
  LET l == s.pr[p]
  IN  IF l.path = <<>> THEN Looked(s, p)
      ELSE [Release(s, p, "dp") EXCEPT !.pr[p].pc = "look", !.pr[p].dp = l.ip, !.pr[p].cd = l.ip,
              !.pr[p].ip = 0, !.pr[p].nm = Head(l.path), !.pr[p].path = Tail(l.path)]

Missing(s, p) == IF s.pr[p].path = <<>> THEN Looked(s, p) ELSE Finish(s, p)

Start(p) ==
  /\ At(p, "idle")
  /\ \E k \in Loads[fs.load].calls[p] :
       Run(p, Lookuppn([fs EXCEPT !.pr[p].call = k], p, k.path, 1))

Look(p) ==
  LET l == fs.pr[p]
      found(x) == [Hold(fs, x) EXCEPT !.pr[p].ip = x]
      hits == Cached(fs, l.cd, l.nm)
      i == CachedAt(fs, l.cd, l.nm)
  IN  /\ At(p, "look")
      /\ Run(p, IF ~IsDir(fs, l.cd) THEN Finish(fs, p)
                ELSE IF l.nm = ".." /\ l.cd = ROOTINO THEN Component(found(ROOTINO), p)
                ELSE IF hits # {}
                THEN Want(Freshen(found(fs.cache[i][3]), i), p, "hit", fs.cache[i][3])
                ELSE Want(fs, p, "lockdp", l.cd))

Hit(p) == At(p, "hit") /\ Run(p, Component(fs, p))

LockDir(p) == At(p, "lockdp") /\ Run(p, Go(Lock(fs, p, fs.pr[p].cd), p, "scan"))

\* The directory stays locked also while its parent is had.
MutantScan(p) ==
  LET l == fs.pr[p]
      x == fs.ino[l.cd].ent[l.nm]
  IN  /\ At(p, "scan")
      /\ Run(p, IF x = 0 THEN Missing(Unlock(fs, l.cd), p) ELSE Want(fs, p, "iget", x))

\* The directory stays locked until the inode is, except above "..".
Scan(p) ==
  LET l == fs.pr[p]
      x == fs.ino[l.cd].ent[l.nm]
  IN  /\ At(p, "scan")
      /\ Run(p, IF x = 0 THEN Missing(Unlock(fs, l.cd), p)
                ELSE Want(IF l.nm = ".." THEN Unlock(fs, l.cd) ELSE fs, p, "iget", x))

\* iget(): an inode that is not in core is read, locked.
Iget(s, p) ==
  LET x == s.pr[p].want
  IN  [Hold(Lock(s, p, x), x) EXCEPT !.pr[p].ip = x]

Get(p) ==
  /\ At(p, "iget")
  /\ Run(p, Go(Iget(fs, p), p, IF fs.ino[fs.pr[p].want].count = 0 THEN "read" ELSE "got"))

Got(p) ==
  LET l == fs.pr[p]
      s1 == IF fs.ino[l.cd].lock = p THEN Unlock(fs, l.cd) ELSE fs
  IN  /\ At(p, "got") \/ At(p, "read")
      /\ Run(p, IF IsDir(fs, l.ip) THEN DnlcEnter(s1, p, <<l.cd, l.nm, l.ip>>, "entered")
                ELSE Go(s1, p, "entered"))

Entered(p) == At(p, "entered") /\ Run(p, Component(Unlock(fs, fs.pr[p].ip), p))

-----------------------------------------------------------------------------
(***************************************************************************)
(* A new name: direnter().                                                 *)
(***************************************************************************)

\* The link is counted, and the inode written some time.
MutantBump(p) ==
  LET l == fs.pr[p]
  IN  /\ At(p, "bump")
      /\ Run(p, IF fs.ino[l.sip].nlink = 0
                THEN IF l.call.op = "rename" THEN Irele(fs, p) ELSE Finish(fs, p)
                ELSE Want(AddLink(fs, l.sip, 1), p, "enter", l.tdp))

\* The link is counted, and on the disk, before there is an entry for it.
Bump(p) ==
  LET x == fs.pr[p].sip
  IN  /\ At(p, "bump")
      /\ Run(p, IF fs.ino[x].nlink = 0
                THEN IF fs.pr[p].call.op = "rename" THEN Irele(fs, p) ELSE Finish(fs, p)
                ELSE Updat(AddLink(Lock(fs, p, x), x, 1), p, "w_bump", x))

Bumped(p) ==
  LET l == fs.pr[p]
  IN  /\ At(p, "w_bump")
      /\ Run(p, Want(Unlock(Updated(fs, p, l.sip), l.sip), p, "enter", l.tdp))

\* A directory that moves must not come to lie below itself.
Moves(s, l) == l.call.op = "rename" /\ IsDir(s, l.sip) /\ l.sdp # l.tdp

\* direnter() returns, here with the directory locked and nothing else.
Fails(s, p) == [Go(s, p, "out") EXCEPT !.pr[p].error = TRUE]

Enter(p) ==
  LET l == fs.pr[p]
      s1 == Lock(fs, p, l.tdp)
  IN  /\ At(p, "enter")
      /\ Run(p, IF ~IsDir(fs, l.tdp) \/ fs.ino[l.tdp].nlink = 0 THEN Fails(s1, p)
                ELSE Go(s1, p, IF Moves(fs, l) THEN "path" ELSE "check"))

\* dircheckforname().
Check(p) ==
  LET l == fs.pr[p]
      x == fs.ino[l.tdp].ent[l.tnm]
  IN  /\ At(p, "check")
      /\ Run(p, IF x # 0 THEN Want(fs, p, "tget", x)
                ELSE Go(fs, p, IF l.call.op \in {"create", "mkdir"} THEN "make" ELSE "add"))

\* The link of an entry that could not be made is left counted.
MutantOut(p) ==
  LET l == fs.pr[p]
      s1 == Unlock(fs, l.tdp)
  IN  /\ At(p, "out")
      /\ Run(p, IF l.call.op # "rename" THEN Finish(s1, p)
                ELSE IF l.error THEN Irele(s1, p)
                ELSE Want([s1 EXCEPT !.pr[p].cd = l.sdp, !.pr[p].nm = l.snm], p, "rm", l.sdp))

Out(p) ==
  LET l == fs.pr[p]
      op == l.call.op
      s1 == Unlock(IF l.error /\ op \in {"link", "rename"} THEN AddLink(fs, l.sip, -1) ELSE fs,
                   l.tdp)
  IN  /\ At(p, "out")
      /\ Run(p, IF op # "rename" THEN Finish(s1, p)
                ELSE IF l.error THEN Irele(s1, p)
                ELSE Want([s1 EXCEPT !.pr[p].cd = l.sdp, !.pr[p].nm = l.snm], p, "rm", l.sdp))

-----------------------------------------------------------------------------
(***************************************************************************)
(* The name exists.                                                        *)
(***************************************************************************)
IputTarget(s, p) == Release(Unlock(s, s.pr[p].tip), p, "tip")

\* ufs_create() truncates a file that is there; dirrename() wants both to be
\* directories, the old one empty, or neither.
Exists(p) ==
  LET l == fs.pr[p]
      x == l.want
      op == l.call.op
      s1 == [Hold(Lock(fs, p, x), x) EXCEPT !.pr[p].tip = x]
      dir == IsDir(fs, x)
      entered == [DnlcRemove(s1, p, l.tdp, l.tnm) EXCEPT !.ino[l.tdp].ent[l.tnm] = l.sip]
  IN  /\ At(p, "tget")
      /\ Run(p,
           CASE op = "create" /\ ~dir ->
                  Updat([Unlock(s1, l.tdp) EXCEPT !.pr[p].sip = x, !.pr[p].tip = 0],
                        p, "w_trunc", x)
             [] op \in {"create", "mkdir"} /\ (dir \/ op = "mkdir") ->
                  Finish(IputTarget(Unlock(s1, l.tdp), p), p)
             [] op = "link" -> Fails(IputTarget(s1, p), p)
             [] op = "rename" /\ x = l.sip -> Go(IputTarget(s1, p), p, "out")
             [] op = "rename" /\ x # l.sip
                /\ (dir # IsDir(fs, l.sip) \/ (dir /\ (~Dirempty(fs, x) \/ fs.ino[x].nlink > 2))) ->
                  Fails(IputTarget(s1, p), p)
             [] OTHER ->
                  IF dir THEN DnlcEnter(entered, p, <<l.tdp, l.tnm, l.sip>>, "w_ren")
                  ELSE Go(entered, p, "w_ren"))

\* dirrename(): the entry is on the disk, and the old inode loses its links.
Renamed(p) ==
  LET l == fs.pr[p]
      s1 == [fs EXCEPT !.ino[l.tdp].dent[l.tnm] = l.sip, !.ino[l.tdp].chg = TRUE]
  IN  /\ At(p, "w_ren")
      /\ Run(p, IF ~IsDir(fs, l.tip)
                THEN Go(IputTarget(AddLink(s1, l.tip, -1), p), p, "out")
                ELSE IF fs.ino[l.tip].nlink # 2 THEN [fs EXCEPT !.panic = TRUE]
                ELSE Updat([AddLink(s1, l.tip, -2) EXCEPT !.ino[l.tip].ent = NoEntries],
                           p, "w_rentrunc", l.tip))

RenameTruncated(p) ==
  LET l == fs.pr[p]
      s1 == [Updated(AddLink(fs, l.tdp, -1), p, l.tip) EXCEPT !.ino[l.tip].dent = NoEntries]
  IN  /\ At(p, "w_rentrunc")
      /\ Run(p, IF l.sdp = l.tdp THEN Go(s1, p, "renamed")
                ELSE [Want(s1, p, "dd", l.sip) EXCEPT !.pr[p].ret = "renamed"])

RenameDone(p) ==
  /\ At(p, "renamed")
  /\ Run(p, Go(IputTarget(AddLink(fs, fs.pr[p].tip, 0), p), p, "out"))

\* A file that was there or is new has been truncated.
Truncated(p) ==
  LET x == fs.pr[p].sip
  IN  At(p, "w_trunc") /\ Run(p, Finish(Unlock(Updated(fs, p, x), x), p))

-----------------------------------------------------------------------------
(***************************************************************************)
(* The name is new: dirmakeinode(), dirmakedirect() and diraddentry().     *)
(***************************************************************************)
Ialloc(p) ==
  LET free == {x \in Inode : ~fs.ino[x].used}
  IN  /\ At(p, "make")
      /\ \/ free = {} /\ Run(p, Fails(fs, p))
         \/ \E x \in free : Run(p, Want([fs EXCEPT !.ino[x].used = TRUE], p, "newino", x))

Makeinode(p) ==
  LET l == fs.pr[p]
      x == l.want
      dir == l.call.op = "mkdir"
      s1 == [Hold(Lock(fs, p, x), x) EXCEPT !.pr[p].sip = x, !.ino[x].nlink = IF dir THEN 2 ELSE 1,
                                            !.ino[x].type = IF dir THEN "dir" ELSE "file"]
  IN  /\ At(p, "newino")
      /\ Run(p, IF fs.ino[x].type # "free" THEN [fs EXCEPT !.panic = TRUE]
                ELSE Updat(s1, p, "w_ino", x))

InodeMade(p) ==
  LET l == fs.pr[p]
  IN  /\ At(p, "w_ino")
      /\ Run(p, Go(Unlock(Updated(fs, p, l.sip), l.sip), p,
                   IF l.call.op = "mkdir" THEN "mkblk" ELSE "add"))

\* The inode just made is unmade.
Unmake(s, p) == Fails(Release([s EXCEPT !.ino[s.pr[p].sip].nlink = 0], p, "sip"), p)

\* The link of "..", then the block that has it.
Makedirect(p) ==
  LET x == fs.pr[p].tdp
  IN  /\ At(p, "mkblk")
      /\ \/ Run(p, Updat(AddLink(fs, x, 1), p, "w_par", x))
         \/ Loads[fs.load].nospace /\ Run(p, Unmake(fs, p))

ParentMade(p) ==
  LET l == fs.pr[p]
  IN  /\ At(p, "w_par")
      /\ Run(p, [Go(Updated(fs, p, l.tdp), p, "w_blk") EXCEPT !.ino[l.sip].ent[".."] = l.tdp,
                                                           !.ino[l.sip].chg = TRUE])

BlockMade(p) ==
  LET l == fs.pr[p]
  IN  At(p, "w_blk") /\ Run(p, [Go(fs, p, "add") EXCEPT !.ino[l.sip].dent[".."] = l.tdp])

\* dirprepareentry() finds room or does not.
Add(p) ==
  LET l == fs.pr[p]
      op == l.call.op
  IN  /\ At(p, "add")
      /\ \/ Run(p, IF IsDir(fs, l.sip)
                   THEN [Want(fs, p, "dd", l.sip) EXCEPT !.pr[p].ret = "addent"]
                   ELSE Go(fs, p, "addent"))
         \/ /\ Loads[fs.load].nospace
            /\ Run(p, CASE op = "mkdir" -> Unmake([fs EXCEPT !.ino[l.tdp].nlink = @ - 1], p)
                        [] op = "create" -> Unmake(fs, p)
                        [] OTHER -> Fails(fs, p))

AddEntry(p) ==
  LET l == fs.pr[p]
      s1 == [fs EXCEPT !.ino[l.tdp].ent[l.tnm] = l.sip]
  IN  /\ At(p, "addent")
      /\ Run(p, IF IsDir(fs, l.sip) THEN DnlcEnter(s1, p, <<l.tdp, l.tnm, l.sip>>, "w_ent")
                ELSE Go(s1, p, "w_ent"))

Added(p) ==
  LET l == fs.pr[p]
      s1 == [fs EXCEPT !.ino[l.tdp].dent[l.tnm] = l.sip, !.ino[l.tdp].chg = TRUE]
  IN  /\ At(p, "w_ent")
      /\ Run(p, IF l.call.op \in {"create", "mkdir"} THEN Want(s1, p, "relock", l.sip)
                ELSE Go(s1, p, "out"))

Relock(p) ==
  LET l == fs.pr[p]
      s1 == Unlock(fs, l.tdp)
  IN  /\ At(p, "relock")
      /\ Run(p, IF l.call.op = "mkdir" THEN Finish(s1, p)
                ELSE Updat(Lock(s1, p, l.sip), p, "w_trunc", l.sip))

-----------------------------------------------------------------------------
(***************************************************************************)
(* ".." of a directory that has moved: dirfixdotdot().                     *)
(***************************************************************************)
Dotdot(p) ==
  LET l == fs.pr[p]
      up == fs.ino[l.sip].ent[".."]
  IN  /\ At(p, "dd")
      /\ Run(p, IF fs.ino[l.sip].nlink = 0 \/ up \in {0, l.tdp} THEN Go(fs, p, l.ret)
                ELSE Updat(AddLink(Lock(fs, p, l.sip), l.tdp, 1), p, "w_np", l.tdp))

NewParent(p) ==
  LET l == fs.pr[p]
      s1 == DnlcRemove(Updated(fs, p, l.tdp), p, l.sip, "..")
  IN  /\ At(p, "w_np")
      /\ Run(p, DnlcEnter([s1 EXCEPT !.ino[l.sip].ent[".."] = l.tdp],
                          p, <<l.sip, "..", l.tdp>>, "w_dd"))

DotdotDone(p) ==
  LET l == fs.pr[p]
  IN  /\ At(p, "w_dd")
      /\ Run(p, Want([Unlock(fs, l.sip) EXCEPT !.ino[l.sip].dent[".."] = l.tdp],
                     p, "oldpar", l.sdp))

OldParent(p) ==
  LET l == fs.pr[p]
  IN  /\ At(p, "oldpar")
      /\ Run(p, IF fs.ino[l.sdp].nlink = 0 THEN Go(fs, p, l.ret)
                ELSE Updat(AddLink(Lock(fs, p, l.sdp), l.sdp, -1), p, "w_op", l.sdp))

OldParentDone(p) ==
  LET l == fs.pr[p]
  IN  At(p, "w_op") /\ Run(p, Go(Unlock(Updated(fs, p, l.sdp), l.sdp), p, l.ret))

-----------------------------------------------------------------------------
(***************************************************************************)
(* dircheckpath(): upwards from the target, one inode locked at a time.    *)
(***************************************************************************)
\* The end: the target is locked again, if it was left.
Climbed(s, p, error) ==
  LET l == s.pr[p]
      s1 == [s EXCEPT !.pr[p].error = error]
  IN  IF l.ip # 0 THEN Want(Release(Unlock(s1, l.ip), p, "ip"), p, "retarget", l.tdp)
      ELSE Go([s1 EXCEPT !.renaming = FALSE], p, IF error THEN "out" ELSE "check")

Path(p) ==
  LET l == fs.pr[p]
      s1 == [fs EXCEPT !.renaming = TRUE, !.pr[p].cd = l.tdp]
  IN  /\ At(p, "path")
      /\ Run(p, IF l.tdp \in {l.sip, ROOTINO} THEN Climbed(s1, p, l.tdp = l.sip)
                ELSE Go(s1, p, "climb"))

Climb(p) ==
  LET l == fs.pr[p]
      up == fs.ino[l.cd].ent[".."]
      left == IF l.ip = 0 THEN Unlock(fs, l.tdp) ELSE Release(Unlock(fs, l.ip), p, "ip")
  IN  /\ At(p, "climb")
      /\ Run(p, IF fs.ino[l.cd].nlink = 0 \/ up \in {0, l.sip} THEN Climbed(fs, p, TRUE)
                ELSE IF up = ROOTINO THEN Climbed(fs, p, FALSE)
                ELSE Want(left, p, "climbget", up))

ClimbGet(p) ==
  /\ At(p, "climbget")
  /\ Run(p, Go([Iget(fs, p) EXCEPT !.pr[p].cd = fs.pr[p].want], p, "climb"))

Retarget(p) ==
  LET l == fs.pr[p]
  IN  /\ At(p, "retarget")
      /\ Run(p, Climbed(Lock(fs, p, l.tdp), p, l.error \/ fs.ino[l.tdp].nlink = 0))

-----------------------------------------------------------------------------
(***************************************************************************)
(* A name goes: dirremove().  A rename makes sure that it is still the     *)
(* name of what it has renamed.                                            *)
(***************************************************************************)
Removed(s, p) == IF s.pr[p].call.op = "rename" THEN Irele(s, p) ELSE Finish(s, p)

Rm(p) ==
  LET l == fs.pr[p]
  IN  /\ At(p, "rm")
      /\ Run(p, IF ~IsDir(fs, l.cd) THEN Removed(fs, p)
                ELSE Go(Lock(fs, p, l.cd), p, "rmscan"))

RmScan(p) ==
  LET l == fs.pr[p]
      x == fs.ino[l.cd].ent[l.nm]
  IN  /\ At(p, "rmscan")
      /\ Run(p, IF x = 0 THEN Removed(Unlock(fs, l.cd), p) ELSE Want(fs, p, "rmget", x))

IputRemoved(s, p) == Go(Release(Unlock(s, s.pr[p].ip), p, "ip"), p, "rmend")

\* The name cache keeps the name.
MutantRmGet(p) ==
  LET l == fs.pr[p]
      x == l.want
      s1 == Iget(fs, p)
      refused == \/ l.call.op = "rename" /\ x # l.sip
                 \/ l.call.op = "rmdir" /\ IsDir(fs, x)
                    /\ (fs.ino[x].nlink # 2 \/ ~Dirempty(fs, x))
  IN  /\ At(p, "rmget")
      /\ Run(p, IF refused THEN IputRemoved(s1, p)
                ELSE [Go(s1, p, "w_rm") EXCEPT !.ino[l.cd].ent[l.nm] = 0])

RmGet(p) ==
  LET l == fs.pr[p]
      x == l.want
      s1 == Iget(fs, p)
      refused == \/ l.call.op = "rename" /\ x # l.sip
                 \/ l.call.op = "rmdir" /\ IsDir(fs, x)
                    /\ (fs.ino[x].nlink # 2 \/ ~Dirempty(fs, x))
  IN  /\ At(p, "rmget")
      /\ Run(p, IF refused THEN IputRemoved(s1, p)
                ELSE [Go(DnlcRemove(s1, p, l.cd, l.nm), p, "w_rm")
                        EXCEPT !.ino[l.cd].ent[l.nm] = 0])

\* The directory without the entry is written some time, not at once.
MutantRmDone(p) ==
  LET l == fs.pr[p]
  IN  /\ At(p, "w_rm")
      /\ Run(p, IF fs.ino[l.ip].nlink = 0 THEN IputRemoved(fs, p)
                ELSE IF l.call.op = "rmdir" /\ IsDir(fs, l.ip)
                THEN Updat([DnlcRemove(AddLink(AddLink(fs, l.ip, -2), l.cd, -1), p, l.ip, "..")
                              EXCEPT !.ino[l.ip].ent = NoEntries], p, "w_rmtrunc", l.ip)
                ELSE IputRemoved(AddLink(fs, l.ip, -1), p))

RmDone(p) ==
  LET l == fs.pr[p]
      s1 == [fs EXCEPT !.ino[l.cd].dent[l.nm] = 0, !.ino[l.cd].chg = TRUE]
  IN  /\ At(p, "w_rm")
      /\ Run(p, IF fs.ino[l.ip].nlink = 0 THEN IputRemoved(s1, p)
                ELSE IF l.call.op = "rmdir" /\ IsDir(fs, l.ip)
                THEN Updat([DnlcRemove(AddLink(AddLink(s1, l.ip, -2), l.cd, -1), p, l.ip, "..")
                              EXCEPT !.ino[l.ip].ent = NoEntries], p, "w_rmtrunc", l.ip)
                ELSE IputRemoved(AddLink(s1, l.ip, -1), p))

RmTruncated(p) ==
  LET x == fs.pr[p].ip
  IN  /\ At(p, "w_rmtrunc")
      /\ Run(p, IputRemoved([AddLink(Updated(fs, p, x), x, 0)
                               EXCEPT !.ino[x].dent = NoEntries], p))

RmEnd(p) == At(p, "rmend") /\ Run(p, Removed(Unlock(fs, fs.pr[p].cd), p))

-----------------------------------------------------------------------------
\* update(): a changed inode that nobody has locked is written, some time.
Update(x) ==
  /\ fs.cpu = None /\ fs.ino[x].lock = None /\ fs.ino[x].count > 0 /\ fs.ino[x].chg
  /\ fs' = UpdatLater(fs, x)

Proc(p) ==
  \/ Rele(p) \/ InactFree(p) \/ InactDone(p) \/ Fill(p)
  \/ Start(p) \/ Look(p) \/ Hit(p) \/ LockDir(p) \/ Scan(p) \/ Get(p) \/ Got(p) \/ Entered(p)
  \/ Bump(p) \/ Bumped(p) \/ Enter(p) \/ Check(p) \/ Out(p)
  \/ Exists(p) \/ Renamed(p) \/ RenameTruncated(p) \/ RenameDone(p) \/ Truncated(p)
  \/ Ialloc(p) \/ Makeinode(p) \/ InodeMade(p) \/ Makedirect(p) \/ ParentMade(p)
  \/ BlockMade(p) \/ Add(p) \/ AddEntry(p) \/ Added(p) \/ Relock(p)
  \/ Dotdot(p) \/ NewParent(p) \/ DotdotDone(p) \/ OldParent(p) \/ OldParentDone(p)
  \/ Path(p) \/ Climb(p) \/ ClimbGet(p) \/ Retarget(p)
  \/ Rm(p) \/ RmScan(p) \/ RmGet(p) \/ RmDone(p) \/ RmTruncated(p) \/ RmEnd(p)

Next == (\E p \in Procs : Proc(p)) \/ (\E x \in Inode : Update(x))

-----------------------------------------------------------------------------
TypeOK ==
  /\ fs.load \in DOMAIN Loads /\ fs.cpu \in Procs \cup {None}
  /\ Len(fs.cache) <= NcSize
  /\ \A i \in DOMAIN fs.cache : fs.cache[i] \in Inode \X Entries \X Inode
  /\ \A x \in Inode :
       /\ fs.ino[x].type \in {"free", "file", "dir"} /\ fs.ino[x].used \in BOOLEAN
       /\ fs.ino[x].ent \in [Entries -> 0 .. NInodes] /\ fs.ino[x].lock \in Procs \cup {None}
       /\ fs.ino[x].dent \in [Entries -> 0 .. NInodes] /\ fs.ino[x].dnlink \subseteq Nat
  /\ \A p \in Procs : \A f \in Refs : fs.pr[p][f] \in 0 .. NInodes

Idle == \A p \in Procs : fs.pr[p].pc = "idle" /\ fs.pr[p].rel = <<>> /\ fs.pr[p].inact = 0

Ent == [x \in Inode |-> fs.ino[x].ent]
Dent == [x \in Inode |-> fs.ino[x].dent]

\* Who refers to an inode: the system, processes, the name cache.
References(x) ==
  (IF x = ROOTINO THEN 1 ELSE 0)
  + Cardinality({p \in Procs : Loads[fs.load].cwd[p] = x})
  + Cardinality({r \in Procs \X Refs : fs.pr[r[1]][r[2]] = x})
  + Cardinality({r \in Procs \X (1 .. 8) :
                   r[2] \in DOMAIN fs.pr[r[1]].rel /\ fs.pr[r[1]].rel[r[2]] = x})
  + Cardinality({i \in DOMAIN fs.cache : fs.cache[i][1] = x})
  + Cardinality({i \in DOMAIN fs.cache : fs.cache[i][3] = x})

\* v_count of an inode is the number of references to it: a link count is never
\* below the number of entries and is that number when nobody is busy; what has
\* neither links nor references is free, and an entry names nothing free.
CountsExact ==
  \A x \in Inode :
    LET i == fs.ino[x] IN
      /\ i.count = References(x)
      /\ i.nlink >= Links(Ent, x)
      /\ Links(Ent, x) > 0 => i.used /\ i.type # "free"
      /\ Idle => /\ i.lock = None /\ i.nlink = Links(Ent, x)
                 /\ i.used <=> i.nlink > 0 \/ i.count > 0

\* The name cache agrees with the directories.
CacheTrue ==
  \A i \in DOMAIN fs.cache :
    fs.cache[i][2] # ".." => fs.ino[fs.cache[i][1]].ent[fs.cache[i][2]] = fs.cache[i][3]

\* Whenever the machine stops, no inode on the disk has more entries than links:
\* a link is written before its entry and taken back after the entry has gone.
CrashSafe ==
  \A x \in Inode : \A v \in fs.ino[x].dnlink : v >= Links(Dent, x)

\* Somebody who is busy can go on.
NobodyStuck ==
  Idle \/ fs.cpu # None
  \/ \E p \in Procs : /\ fs.pr[p] # NoLoc
                      /\ fs.pr[p].inact # 0 \/ Busy(fs, p) \/ ~Blocked(fs, p)

\* No panic; when nobody runs the counts and the cache are right.
DirectoriesExact == ~fs.panic /\ (fs.cpu = None => CountsExact /\ CacheTrue)
=============================================================================
