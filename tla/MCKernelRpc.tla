---------------------------- MODULE MCKernelRpc ------------------------------
(***************************************************************************)
(* Instances of KernelRpc: one directory, and operations on one name.      *)
(***************************************************************************)
EXTENDS KernelRpc

CONSTANTS p1, p2, s1

TwoProcs == {p1, p2}
OneNfsd == {s1}

Remove == [kind |-> "remove", name |-> "a"]
Link == [kind |-> "link", name |-> "a"]

Mount(users, handles, ops, retrans, hard, faults, maxfaults, patience, dupmax) ==
  [users |-> users, handles |-> handles, ops |-> ops, files |-> {"a"},
   retrans |-> retrans, hard |-> hard, loopback |-> FALSE, faults |-> faults,
   maxfaults |-> maxfaults, patience |-> patience, dupmax |-> dupmax]

\* Two processes share a handle of a soft mount, and anything may go wrong.
Soft == Mount({p1, p2}, 1, {Remove}, 2, FALSE,
              {"lose", "dup", "nobufs", "crash", "kill"}, 1, 1, 4)

\* Two processes with a handle each: what the network loses is sent again, and
\* what it repeats is executed twice.
Loses == Mount({p1, p2}, 2, {Remove}, 2, FALSE, {"lose"}, 1, 1, 2)
Repeats == Mount({p1, p2}, 2, {Remove}, 1, FALSE, {"lose", "dup"}, 1, 1, 2)

\* A hard mount of a server that crashes.
HardMount == Mount({p1}, 1, {Remove, Link}, 1, TRUE, {"lose", "crash"}, 2, 2, 4)

\* Client and server are one machine.
Loop == [Mount({p1, p2}, 1, {Remove, Link}, 2, TRUE, {}, 0, 2, 4)
           EXCEPT !.loopback = TRUE]

AllMounts == <<Soft, Loses, Repeats, HardMount, Loop>>
=============================================================================
