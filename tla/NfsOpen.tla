------------------------------- MODULE NfsOpen -------------------------------
(***************************************************************************)
(* The files a client has open and removes: nfs_open(), nfs_create(),      *)
(* nfs_close(), nfs_lookup(), nfs_remove() and nfs_inactive() of           *)
(* sys/nfs/nfs_vnodeops.c with the table of rnodes of sys/nfs/nfs_subr.c.  *)
(* The server knows nothing of open files: a file is gone when its last    *)
(* name is.  A process sleeps while a call is under way, while buffers are *)
(* flushed, and perhaps for the memory of an rnode; nobody else uses the   *)
(* directory.                                                              *)
(***************************************************************************)
EXTENDS Integers, Sequences, FiniteSets

SeqExt == INSTANCE SequencesExt

CONSTANTS
  Openers,   \* the processes that open, create and close files
  Removers,  \* the processes that remove them
  Names,     \* names in the directory
  Dir0,      \* the file each name stands for at the start, 0 for none
  Creates,   \* files may be created
  MaxFds,    \* bound: open descriptors of a process
  MaxOps,    \* bound: operations of a process
  None

NfsOpenAssumption ==
  /\ Dir0 \in [Names -> Nat] /\ Creates \in BOOLEAN
  /\ MaxFds \in Nat /\ MaxOps \in Nat

Procs == Openers \cup Removers

VARIABLES
  dir,      \* the directory at the server: names, and the names newname() makes
  files,    \* the number of the last file that was created
  rnode,    \* the rnodes, see NoRnode
  rtable,   \* the chain of the table that the files of these names hash to
  fds,      \* the rnodes a process has open, one for each descriptor
  pr,       \* the operation a process is in
  ops       \* operations left to each process

vars == <<dir, files, rnode, rtable, fds, pr, ops>>

(***************************************************************************)
(* newname() makes a name nobody else uses; here it is the process and the *)
(* number of its operation.                                                *)
(***************************************************************************)
Tmps == Removers \X (1 .. MaxOps)
newname(p) == <<p, ops[p] + 1>>

Rnodes == 1 .. Cardinality(Procs) * (MaxFds + 1)

(***************************************************************************)
(* r_fh, v_count, ROPEN and r_unlname.  An rnode is in use until it is     *)
(* freed.                                                                  *)
(***************************************************************************)
NoRnode == [used |-> FALSE, fh |-> 0, count |-> 0, ropen |-> FALSE, unl |-> None]

Idle == [pc |-> "idle", op |-> None, name |-> None, fh |-> 0, r |-> 0]

Init ==
  /\ dir = [n \in Names \cup Tmps |-> IF n \in Names THEN Dir0[n] ELSE 0]
  /\ files = Cardinality({Dir0[n] : n \in Names} \ {0})
  /\ rnode = [r \in Rnodes |-> NoRnode] /\ rtable = <<>>
  /\ fds = [p \in Procs |-> <<>>]
  /\ pr = [p \in Procs |-> Idle]
  /\ ops = [p \in Procs |-> MaxOps]

-----------------------------------------------------------------------------
(***************************************************************************)
(* rfind(): the rnodes of a file, the one it returns first.                *)
(***************************************************************************)
\* the table is never searched
Mutantrfind(fh) == <<>>

rfind(fh) == SelectSeq(rtable, LAMBDA r : rnode[r].fh = fh)

(***************************************************************************)
(* VN_RELE() by process p, which ends its operation.  The last reference   *)
(* calls nfs_inactive(): out of the table first, then, if there is a name  *)
(* to remove, a call.                                                      *)
(***************************************************************************)
\* nfs_inactive() that forgets r_unlname
MutantRele(p, r) ==
  /\ rnode' = [rnode EXCEPT ![r] = IF @.count = 1 THEN NoRnode
                                   ELSE [@ EXCEPT !.count = @ - 1]]
  /\ rtable' = IF rnode[r].count = 1 THEN SeqExt!Remove(rtable, r) ELSE rtable
  /\ pr' = [pr EXCEPT ![p] = Idle]

Rele(p, r) ==
  LET last == rnode[r].count = 1
      call == last /\ rnode[r].unl # None
  IN  /\ rnode' = [rnode EXCEPT ![r] = IF last /\ ~call THEN NoRnode
                                       ELSE [@ EXCEPT !.count = @ - 1]]
      /\ rtable' = IF last THEN SeqExt!Remove(rtable, r) ELSE rtable
      /\ pr' = [pr EXCEPT ![p] = IF call THEN [Idle EXCEPT !.pc = "inactive", !.r = r]
                                 ELSE Idle]

At(p, pc) == pr[p].pc = pc
To(p, pc) == pr' = [pr EXCEPT ![p].pc = pc]

Start(p, pc, op, n) ==
  /\ At(p, "idle") /\ ops[p] > 0
  /\ ops' = [ops EXCEPT ![p] = @ - 1]
  /\ pr' = [pr EXCEPT ![p] = [Idle EXCEPT !.pc = pc, !.op = op, !.name = n]]
  /\ UNCHANGED <<dir, files, rnode, rtable, fds>>

Open(p, n) == p \in Openers /\ Len(fds[p]) < MaxFds /\ Start(p, "lookup", "open", n)
Create(p, n) ==
  Creates /\ p \in Openers /\ Len(fds[p]) < MaxFds /\ Start(p, "create", "open", n)
Remove(p, n) == p \in Removers /\ Start(p, "lookup", "remove", n)

-----------------------------------------------------------------------------
(***************************************************************************)
(* The server: what each call does to the directory.                       *)
(***************************************************************************)
Serve(p, pc, then, d, fh) ==
  /\ At(p, pc)
  /\ dir' = d
  /\ pr' = [pr EXCEPT ![p].pc = then, ![p].fh = fh]
  /\ UNCHANGED <<rnode, rtable, fds, ops>>

RfsLookup(p) ==
  /\ Serve(p, "lookup", "found", dir, dir[pr[p].name])
  /\ UNCHANGED files

RfsCreate(p) ==
  LET fh == IF dir[pr[p].name] # 0 THEN dir[pr[p].name] ELSE files + 1
  IN  /\ Serve(p, "create", "found", [dir EXCEPT ![pr[p].name] = fh], fh)
      /\ files' = IF fh > files THEN fh ELSE files

RfsRemove(p) ==
  /\ Serve(p, "remove", "removed", [dir EXCEPT ![pr[p].name] = 0], pr[p].fh)
  /\ UNCHANGED files

RfsRename(p) ==
  LET n == pr[p].name
  IN  /\ Serve(p, "rename", IF dir[n] = 0 THEN "removed" ELSE "renamed",
               IF dir[n] = 0 THEN dir
               ELSE [dir EXCEPT ![n] = 0, ![newname(p)] = dir[n]], pr[p].fh)
      /\ UNCHANGED files

RfsRemoveTmp(p) ==
  /\ Serve(p, "inactive", "free", [dir EXCEPT ![rnode[pr[p].r].unl] = 0], pr[p].fh)
  /\ UNCHANGED files

-----------------------------------------------------------------------------
NotFound(p) ==
  /\ At(p, "found") /\ pr[p].fh = 0
  /\ pr' = [pr EXCEPT ![p] = Idle]
  /\ UNCHANGED <<dir, files, rnode, rtable, fds, ops>>

(***************************************************************************)
(* nfs_remove() renames a file that is open and was not renamed before.    *)
(***************************************************************************)
\* nfs_remove() that looks at the rnode the wrong way round
MutantRenameIt(r) == ~rnode[r].ropen /\ rnode[r].unl = None

RenameIt(r) == rnode[r].ropen /\ rnode[r].unl = None

Answered(p, r) ==
  pr' = [pr EXCEPT ![p].r = r,
                   ![p].pc = IF pr[p].op = "open" THEN "getattr"
                             ELSE IF RenameIt(r) THEN "rename" ELSE "remove"]

(***************************************************************************)
(* makenfsnode(): the rnode in the table, or else a new one, for whose     *)
(* memory kmem_alloc() may have to sleep.                                  *)
(***************************************************************************)
\* rfind() without v_count++
MutantFound(p) ==
  /\ At(p, "found") /\ pr[p].fh # 0 /\ rfind(pr[p].fh) # <<>>
  /\ Answered(p, Head(rfind(pr[p].fh)))
  /\ UNCHANGED <<dir, files, rnode, rtable, fds, ops>>

Found(p) ==
  /\ At(p, "found") /\ pr[p].fh # 0 /\ rfind(pr[p].fh) # <<>>
  /\ LET r == Head(rfind(pr[p].fh))
     IN  rnode' = [rnode EXCEPT ![r].count = @ + 1] /\ Answered(p, r)
  /\ UNCHANGED <<dir, files, rtable, fds, ops>>

KmemAlloc(p) ==
  /\ At(p, "found") /\ pr[p].fh # 0 /\ rfind(pr[p].fh) = <<>>
  /\ To(p, "alloc")
  /\ UNCHANGED <<dir, files, rnode, rtable, fds, ops>>

\* The new rnode goes to the head of the chain, at once or after the sleep,
\* whatever is in the table by then.
Rsave(p) ==
  /\ \/ At(p, "found") /\ pr[p].fh # 0 /\ rfind(pr[p].fh) = <<>>
     \/ At(p, "alloc")
  /\ LET r == CHOOSE r \in Rnodes : ~rnode[r].used
     IN  /\ rnode' = [rnode EXCEPT ![r].used = TRUE, ![r].fh = pr[p].fh, ![r].count = 1]
         /\ rtable' = <<r>> \o rtable
         /\ Answered(p, r)
  /\ UNCHANGED <<dir, files, fds, ops>>

(***************************************************************************)
(* nfs_open(): the attributes are cached, or the server still knows the    *)
(* file.  Otherwise vn_open() releases the vnode.                          *)
(***************************************************************************)
Exists(fh) == \E n \in DOMAIN dir : dir[n] = fh

NfsOpened(p) ==
  /\ At(p, "getattr")
  /\ rnode' = [rnode EXCEPT ![pr[p].r].ropen = TRUE]
  /\ fds' = [fds EXCEPT ![p] = Append(@, pr[p].r)]
  /\ pr' = [pr EXCEPT ![p] = Idle]
  /\ UNCHANGED <<dir, files, rtable, ops>>

NfsOpenFails(p) ==
  /\ At(p, "getattr") /\ ~Exists(rnode[pr[p].r].fh)
  /\ Rele(p, pr[p].r)
  /\ UNCHANGED <<dir, files, fds, ops>>

(***************************************************************************)
(* nfs_close(): ROPEN is cleared, buffers are flushed, and vno_close()     *)
(* releases the vnode.                                                     *)
(***************************************************************************)
Close(p, i) ==
  /\ p \in Openers /\ At(p, "idle") /\ i \in 1 .. Len(fds[p])
  /\ rnode' = [rnode EXCEPT ![fds[p][i]].ropen = FALSE]
  /\ fds' = [fds EXCEPT ![p] = SubSeq(@, 1, i - 1) \o SubSeq(@, i + 1, Len(@))]
  /\ pr' = [pr EXCEPT ![p] = [Idle EXCEPT !.pc = "flush", !.r = fds[p][i]]]
  /\ UNCHANGED <<dir, files, rtable, ops>>

(***************************************************************************)
(* nfs_remove() notes the new name in the rnode, for nfs_inactive(); then  *)
(* bflush(), which may sleep, and VN_RELE().                               *)
(***************************************************************************)
Renamed(p) ==
  /\ At(p, "renamed")
  /\ rnode' = [rnode EXCEPT ![pr[p].r].unl = newname(p)]
  /\ To(p, "flush")
  /\ UNCHANGED <<dir, files, rtable, fds, ops>>

Removed(p) ==
  /\ At(p, "removed")
  /\ To(p, "flush")
  /\ UNCHANGED <<dir, files, rnode, rtable, fds, ops>>

Flushed(p) ==
  /\ At(p, "flush")
  /\ Rele(p, pr[p].r)
  /\ UNCHANGED <<dir, files, fds, ops>>

(***************************************************************************)
(* nfs_inactive() frees the rnode after the call.                          *)
(***************************************************************************)
Free(p) ==
  /\ At(p, "free")
  /\ rnode' = [rnode EXCEPT ![pr[p].r] = NoRnode]
  /\ pr' = [pr EXCEPT ![p] = Idle]
  /\ UNCHANGED <<dir, files, rtable, fds, ops>>

Next ==
  \E p \in Procs :
    \/ \E n \in Names : Open(p, n) \/ Create(p, n) \/ Remove(p, n)
    \/ \E i \in 1 .. MaxFds : Close(p, i)
    \/ RfsLookup(p) \/ RfsCreate(p) \/ RfsRemove(p) \/ RfsRename(p) \/ RfsRemoveTmp(p)
    \/ NotFound(p) \/ Found(p) \/ KmemAlloc(p) \/ Rsave(p)
    \/ NfsOpened(p) \/ NfsOpenFails(p)
    \/ Renamed(p) \/ Removed(p) \/ Flushed(p) \/ Free(p)

Spec == Init /\ [][Next]_vars

-----------------------------------------------------------------------------
(***************************************************************************)
(* v_count of every rnode is the number of descriptors and operations that *)
(* refer to it, and an rnode without references is free or in the hands of *)
(* the one process that is in nfs_inactive() for it.                       *)
(***************************************************************************)
Descriptors(r) == {q \in Procs \X (1 .. MaxFds) :
                     q[2] <= Len(fds[q[1]]) /\ fds[q[1]][q[2]] = r}
Users(r) == {p \in Procs : pr[p].r = r /\ pr[p].pc \notin {"inactive", "free"}}
Freeing(r) == {p \in Procs : pr[p].r = r /\ pr[p].pc \in {"inactive", "free"}}

RefsCounted ==
  \A r \in Rnodes :
    /\ rnode[r].count = Cardinality(Descriptors(r)) + Cardinality(Users(r))
    /\ rnode[r].used <=> rnode[r].count > 0 \/ Freeing(r) # {}
    /\ Freeing(r) # {} => rnode[r].count = 0 /\ Cardinality(Freeing(r)) = 1
    /\ rnode[r].count > 0 <=> \E i \in DOMAIN rtable : rtable[i] = r

(***************************************************************************)
(* A file has one rnode in the table: makenfsnode() finds what is there.   *)
(***************************************************************************)
OneRnode == \A i, j \in DOMAIN rtable :
  rnode[rtable[i]].fh = rnode[rtable[j]].fh => i = j

(***************************************************************************)
(* A file that is open exists at the server: nfs_remove() renames a file   *)
(* that is open instead of removing it.                                    *)
(***************************************************************************)
OpenServed == \A p \in Procs, i \in 1 .. MaxFds :
  i <= Len(fds[p]) => Exists(rnode[fds[p][i]].fh)

(***************************************************************************)
(* An rnode that somebody has open is marked so, for nfs_remove().         *)
(***************************************************************************)
OpenMarked == \A p \in Procs, i \in 1 .. MaxFds :
  i <= Len(fds[p]) => rnode[fds[p][i]].ropen

(***************************************************************************)
(* A name made by newname() does not stay behind: the rnode that will      *)
(* remove it in nfs_inactive() knows it, or the operation that made it has *)
(* not ended.                                                              *)
(***************************************************************************)
NoLeftover == \A t \in Tmps :
  dir[t] # 0 => \/ \E r \in Rnodes : rnode[r].used /\ rnode[r].unl = t
                \/ At(t[1], "renamed") /\ newname(t[1]) = t
=============================================================================
