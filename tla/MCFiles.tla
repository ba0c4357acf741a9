------------------------------- MODULE MCFiles -------------------------------
(***************************************************************************)
(* Instances of the NFS client: the data of a file (NfsCache) as it is     *)
(* read, read ahead, written and flushed, and the files a client has open  *)
(* while it removes them (NfsOpen); and of the directories of a local file *)
(* system (Directory).  A behaviour is about one of them.                  *)
(***************************************************************************)
EXTENDS Integers, Sequences, TLC

CONSTANTS p1, p2, d1, n1, n2, None

VARIABLES
  about,
  srv, mtime, buf, attr, rdirty, lastr, queue, stack, cpu, live,   \* NfsCache
  written, lost, errors, foreign,
  dir, files, rnode, rtable, fds, pr,                              \* NfsOpen
  ops,                                                             \* of both
  fs                                                               \* Directory

cachevars == <<srv, mtime, buf, attr, rdirty, lastr, queue, stack, cpu, live,
               written, lost, errors, foreign>>
openvars == <<dir, files, rnode, rtable, fds, pr>>

\* Two processes read a file that another client writes.
Reads == INSTANCE NfsCache WITH
  Procs <- {p1, p2}, Daemons <- {d1}, NBlocks <- 2, NChunks <- 1,
  Ops <- {"open", "read"}, NfsacRegtimeo <- 3, MaxOps <- 2, MaxForeign <- 1,
  MaxErrors <- 0, MaxKills <- 0

\* A process and its biod read ahead.
ReadsAhead == INSTANCE NfsCache WITH
  Procs <- {p1}, Daemons <- {d1}, NBlocks <- 3, NChunks <- 1,
  Ops <- {"open", "read"}, NfsacRegtimeo <- 3, MaxOps <- 4, MaxForeign <- 1,
  MaxErrors <- 0, MaxKills <- 0

\* Two processes read ahead, and the biod that has the next block to read is killed.
Orphans == INSTANCE NfsCache WITH
  Procs <- {p1, p2}, Daemons <- {d1}, NBlocks <- 3, NChunks <- 1,
  Ops <- {"read"}, NfsacRegtimeo <- 1, MaxOps <- 2, MaxForeign <- 0,
  MaxErrors <- 0, MaxKills <- 1

\* A process writes whole blocks and parts, in two calls each, and closes.
Writes == INSTANCE NfsCache WITH
  Procs <- {p1}, Daemons <- {d1}, NBlocks <- 2, NChunks <- 2,
  Ops <- {"write", "modify", "close"}, NfsacRegtimeo <- 3, MaxOps <- 3,
  MaxForeign <- 0, MaxErrors <- 1, MaxKills <- 1

\* Two processes and a biod flush the same block.
Flushes == INSTANCE NfsCache WITH
  Procs <- {p1, p2}, Daemons <- {d1}, NBlocks <- 1, NChunks <- 1,
  Ops <- {"open", "write", "modify", "close"}, NfsacRegtimeo <- 1, MaxOps <- 2,
  MaxForeign <- 1, MaxErrors <- 1, MaxKills <- 0

\* A process removes a file with two names that it has open itself.
Unlinks == INSTANCE NfsOpen WITH
  Openers <- {p1}, Removers <- {p1}, Names <- {n1, n2}, Dir0 <- [n \in {n1, n2} |-> 1],
  Creates <- TRUE, MaxFds <- 1, MaxOps <- 6

\* Two processes open a file that one of them removes.
Shares == INSTANCE NfsOpen WITH
  Openers <- {p1, p2}, Removers <- {p2}, Names <- {n1}, Dir0 <- [n \in {n1} |-> 1],
  Creates <- TRUE, MaxFds <- 2, MaxOps <- 3

-----------------------------------------------------------------------------
(***************************************************************************)
(* Trees of at most four inodes, and what two processes do in them.        *)
(***************************************************************************)
Dir(up, entries) ==
  [n \in {n1, n2, ".."} |-> IF n = ".." THEN up ELSE IF n \in DOMAIN entries THEN entries[n] ELSE 0]
Do(op, path) == [op |-> op, path |-> path, to |-> <<>>]
To(op, path, to) == [op |-> op, path |-> path, to |-> to]
Load(tree, cwd1, calls1, cwd2, calls2, nospace) ==
  [tree |-> tree, cwd |-> (p1 :> cwd1) @@ (p2 :> cwd2),
   calls |-> (p1 :> calls1) @@ (p2 :> calls2), nospace |-> nospace]

One == 1 :> Dir(1, n1 :> 2)
Chain == (1 :> Dir(1, n1 :> 2)) @@ (2 :> Dir(1, n2 :> 3)) @@ (3 :> Dir(2, <<>>))

Trees == <<
  \* A file gets and loses names.
  Load(One,
       1, {To("link", <<n1>>, <<n2>>), Do("unlink", <<n2>>), Do("create", <<n2>>)},
       1, {Do("unlink", <<n1>>), Do("create", <<n1>>)}, TRUE),
  \* A file is renamed, perhaps over another, while both names come and go.
  Load(One,
       1, {To("rename", <<n1>>, <<n2>>)},
       1, {Do("create", <<n1>>), Do("unlink", <<n1>>), Do("unlink", <<n2>>),
           Do("create", <<n2>>)}, FALSE),
  \* A directory is made and removed while another is, in it.
  Load(One @@ (2 :> Dir(1, <<>>)),
       1, {Do("mkdir", <<n1, n2>>), Do("rmdir", <<n1, n2>>)},
       1, {Do("rmdir", <<n1>>), Do("mkdir", <<n1>>), Do("lookup", <<n1, n2>>)}, TRUE),
  \* A directory is renamed over another one.
  Load((1 :> Dir(1, (n1 :> 2) @@ (n2 :> 3))) @@ (2 :> Dir(1, <<>>)) @@ (3 :> Dir(1, <<>>)),
       1, {To("rename", <<n1>>, <<n2>>)},
       1, {Do("mkdir", <<n2, n1>>), Do("rmdir", <<n2, n1>>)}, FALSE),
  \* A directory moves up and down while there is work in its parent.
  Load(Chain,
       1, {To("rename", <<n1, n2>>, <<n2>>), To("rename", <<n2>>, <<n1, n2>>)},
       2, {Do("create", <<n1>>), Do("unlink", <<n1>>)}, FALSE),
  \* One process goes down the tree, the other one up.
  Load(Chain,
       1, {Do("lookup", <<n1, n2>>), Do("create", <<n1, n2, n1>>)},
       3, {Do("lookup", <<"..", "..", n1>>), Do("unlink", <<"..", n2, n1>>)}, FALSE) >>

Local == INSTANCE Directory WITH
  Procs <- {p1, p2}, NInodes <- 4, Names <- {n1, n2}, NcSize <- 2, Loads <- Trees

\* A directory moves down while another process looks up what is on its way.
Down == <<
  Load((1 :> Dir(1, (n1 :> 2) @@ (n2 :> 3))) @@ (2 :> Dir(1, <<>>)) @@ (3 :> Dir(1, <<>>)),
       1, {To("rename", <<n2>>, <<n1, n2>>)},
       1, {Do("lookup", <<n1, n2>>)}, FALSE) >>

\* Two directories move into one.
Meeting == <<
  Load((1 :> Dir(1, (n1 :> 2) @@ (n2 :> 4))) @@ (2 :> Dir(1, n1 :> 3)) @@ (3 :> Dir(2, <<>>))
         @@ (4 :> Dir(1, n2 :> 5)) @@ (5 :> Dir(4, <<>>)),
       1, {To("rename", <<n2, n2>>, <<n1, n1, n2>>)},
       1, {To("rename", <<n2>>, <<n1, n1, n1>>)}, FALSE) >>

Descent == INSTANCE Directory WITH
  Procs <- {p1, p2}, NInodes <- 4, Names <- {n1, n2}, NcSize <- 2, Loads <- Down

Union == INSTANCE Directory WITH
  Procs <- {p1, p2}, NInodes <- 5, Names <- {n1, n2}, NcSize <- 2, Loads <- Meeting

ASSUME FilesAssumption ==
  /\ Reads!NfsCacheAssumption /\ ReadsAhead!NfsCacheAssumption /\ Orphans!NfsCacheAssumption
  /\ Writes!NfsCacheAssumption /\ Flushes!NfsCacheAssumption
  /\ Unlinks!NfsOpenAssumption /\ Shares!NfsOpenAssumption
  /\ Local!DirectoryAssumption /\ Descent!DirectoryAssumption /\ Union!DirectoryAssumption

-----------------------------------------------------------------------------
NoCache ==
  /\ srv = <<>> /\ mtime = 0 /\ buf = <<>> /\ attr = <<>> /\ rdirty = FALSE
  /\ lastr = 0 /\ queue = <<>> /\ stack = <<>> /\ cpu = None /\ live = {}
  /\ written = 0 /\ lost = {} /\ errors = 0 /\ foreign = 0
NoOpen ==
  /\ dir = <<>> /\ files = 0 /\ rnode = <<>> /\ rtable = <<>>
  /\ fds = <<>> /\ pr = <<>>
NoTree == fs = <<>>

Init ==
  \/ about = "reads" /\ Reads!Init /\ NoOpen /\ NoTree
  \/ about = "ahead" /\ ReadsAhead!Init /\ NoOpen /\ NoTree
  \/ about = "orphans" /\ Orphans!Init /\ NoOpen /\ NoTree
  \/ about = "writes" /\ Writes!Init /\ NoOpen /\ NoTree
  \/ about = "flushes" /\ Flushes!Init /\ NoOpen /\ NoTree
  \/ about = "unlinks" /\ Unlinks!Init /\ NoCache /\ NoTree
  \/ about = "shares" /\ Shares!Init /\ NoCache /\ NoTree
  \/ about = "trees" /\ Local!Init /\ NoCache /\ NoOpen /\ ops = 0

Next ==
  \/ about = "reads" /\ Reads!Next /\ UNCHANGED <<about, openvars, fs>>
  \/ about = "ahead" /\ ReadsAhead!Next /\ UNCHANGED <<about, openvars, fs>>
  \/ about = "orphans" /\ Orphans!Next /\ UNCHANGED <<about, openvars, fs>>
  \/ about = "writes" /\ Writes!Next /\ UNCHANGED <<about, openvars, fs>>
  \/ about = "flushes" /\ Flushes!Next /\ UNCHANGED <<about, openvars, fs>>
  \/ about = "unlinks" /\ Unlinks!Next /\ UNCHANGED <<about, cachevars, fs>>
  \/ about = "shares" /\ Shares!Next /\ UNCHANGED <<about, cachevars, fs>>
  \/ about = "trees" /\ Local!Next /\ UNCHANGED <<about, cachevars, openvars, ops>>

vars == <<about, cachevars, openvars, ops, fs>>
Spec == Init /\ [][Next]_vars

\* The behaviours about one of them.
SharesInit == Init /\ about = "shares"
SharesSpec == SharesInit /\ [][Next]_vars
FlushesInit == Init /\ about = "flushes"
FlushesSpec == FlushesInit /\ [][Next]_vars

\* Directories that move in ways the trees above keep to one process.
DescentInit == about = "descent" /\ Descent!Init /\ NoCache /\ NoOpen /\ ops = 0
DescentNext == Descent!Next /\ UNCHANGED <<about, cachevars, openvars, ops>>
DescentSpec == DescentInit /\ [][DescentNext]_vars
UnionInit == about = "union" /\ Union!Init /\ NoCache /\ NoOpen /\ ops = 0
UnionNext == Union!Next /\ UNCHANGED <<about, cachevars, openvars, ops>>
UnionSpec == UnionInit /\ [][UnionNext]_vars

-----------------------------------------------------------------------------
\* A busy buffer belongs to one call in progress or one entry of the queue, and
\* while a process is doing something with a file or a name somebody can go on.
NobodyStuck ==
  /\ about = "reads" => Reads!TypeOK /\ Reads!NobodyStuck
  /\ about = "ahead" => ReadsAhead!TypeOK /\ ReadsAhead!NobodyStuck
  /\ about = "orphans" => Orphans!TypeOK /\ Orphans!NobodyStuck
  /\ about = "writes" => Writes!TypeOK /\ Writes!NobodyStuck
  /\ about = "flushes" => Flushes!TypeOK /\ Flushes!NobodyStuck
  /\ about = "trees" => Local!TypeOK /\ Local!NobodyStuck

\* "We prevent deadlock by always fetching inodes from the root, moving down the
\* directory tree" (ufs_dir.c): two processes never wait for each other's locks.
LocksFromRoot == about = "descent" => Descent!NobodyStuck

\* "all directory renames in the system are serialized" (ufs_dir.c): two of them
\* never wait for each other.
RenamesSerialized == about = "union" => Union!NobodyStuck


\* When a close returns, the server has what the process has written, unless
\* another process that uses the file is still flushing it.
CloseFlushed ==
  /\ about = "writes" => Writes!CloseFlushed
  /\ about = "flushes" => Flushes!CloseFlushedUnlessShared

\* "If this is a close of a file open for writing ... flush synchronously"
\* (nfs_vnodeops.c): when a close returns, the server has what the process has
\* written, whatever another process does with the file.
CloseSynchronous == about = "flushes" => Flushes!CloseFlushed

\* v_count of an rnode is the number of those who refer to it, and a name made
\* by newname() does not stay behind.  Used by one process, a file has one rnode
\* in the table, and exists at the server until it is closed.
RnodesExact ==
  /\ about = "unlinks" =>
       Unlinks!RefsCounted /\ Unlinks!OneRnode /\ Unlinks!OpenServed /\ Unlinks!NoLeftover
  /\ about = "shares" =>
       Shares!RefsCounted /\ Shares!NoLeftover

\* "If the rnode for this fhandle is already in the table return it"
\* (nfs_subr.c): two processes never have two rnodes for one file.
OneRnode == about = "shares" => Shares!OneRnode

\* "if the vnode to be removed is open we rename it instead of removing it"
\* (nfs_vnodeops.c): a file that a process has open exists at the server,
\* though another process opens and removes it.
OpenServed == about = "shares" => Shares!OpenServed

\* ROPEN "the vnode is currently open" (rnode.h): it is set as long as some process
\* has the file open.
OpenMarked == about = "shares" => Shares!OpenMarked

\* Reference counts, link counts and the name cache agree with the directories.
DirectoriesExact == about = "trees" => Local!DirectoriesExact

\* Whenever the machine stops, an inode on the disk has all the links that the
\* directories on the disk have to it.
CrashSafe == about = "trees" => Local!CrashSafe
=============================================================================
