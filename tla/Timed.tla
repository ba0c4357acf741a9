-------------------------------- MODULE Timed --------------------------------
(***************************************************************************)
(* The time daemons of one network, etc/timed: a daemon that starts looks  *)
(* for a master; one that runs with -M becomes master when there is none,  *)
(* or stands for election when its master has been silent for too long; a  *)
(* resolution protocol is to leave one master after a partition.  All of   *)
(* it runs over datagrams that acksend() repeats until they are answered   *)
(* and readmsg() acknowledges when it takes them from the socket, long     *)
(* before they are acted upon.                                             *)
(*                                                                         *)
(* A sequence number is TRUE or FALSE: whether it is an old one of the     *)
(* daemon that counts it.  What the messages say about the time is in      *)
(* TimedClock.                                                             *)
(***************************************************************************)
EXTENDS Naturals, Sequences, FiniteSets, SequencesExt

CONSTANTS
  Host,
  MFlag,      \* the hosts the daemons of which run with -M
  MaxCount,   \* MAXCOUNT, how often acksend() tries
  NHosts,     \* NHOSTS, the size of the host table
  Prompt,     \* daemons read their sockets well before anybody's timer runs out
  QLen,       \* datagrams that a socket holds
  MaxLoss,    \* how many datagrams are lost
  MaxStarts,  \* how often a daemon is started
  MaxCrash,   \* how many daemons are killed
  MaxTimers,  \* how often a timer of minutes goes off; 0 for no bound
  None

TimedAssumption ==
  /\ MFlag \subseteq Host /\ None \notin Host /\ MaxCount \in Nat \ {0} /\ NHosts \in Nat \ {0}
  /\ Prompt \in BOOLEAN /\ QLen \in Nat /\ MaxLoss \in Nat /\ MaxStarts \in Nat /\ MaxCrash \in Nat
  /\ MaxTimers \in Nat

VARIABLES
  d,       \* what each daemon has in memory
  sock,    \* the datagrams that have arrived at its socket
  starts,  \* how often each daemon has been started
  lost,    \* how many datagrams have been lost
  crashes, \* how many daemons have been killed
  timers   \* how often a timer of minutes has gone off

vars == <<d, sock, starts, lost, crashes, timers>>

(***************************************************************************)
(* pc names the call of readmsg() a daemon is in; to, name and count are   *)
(* acksend()'s arguments and counter, msgin the datagram that has          *)
(* overwritten the message it sends; table holds names with addresses.     *)
(***************************************************************************)
Off == [pc |-> "off", to |-> {}, name |-> None, count |-> 0, status |-> "SLAVE", table |-> {},
        beyond |-> FALSE, refuse |-> FALSE, due |-> FALSE, todo |-> {}, down |-> {}, msgin |-> None,
        msgslist |-> <<>>]

Up(n) == d[n].pc \notin {"off", "exit"}
Others(n) == Host \ {n}
FromAny == {"look", "look2", "resolve", "mup"}   \* messages of any machine are taken
Loops == {"slave", "elect", "master"}        \* messages of any type are taken

(***************************************************************************)
(* What the calls of acksend() send, and what they wait for.               *)
(***************************************************************************)
Sent == [look |-> "MASTERREQ", conf |-> "CONFLICT", accept |-> "ACCEPT", deny |-> "REFUSE",
         refuse |-> "REFUSE", newslave |-> "SETTIME", adj |-> "ADJTIME", quit |-> "QUIT",
         resolve |-> "RESOLVE", quitone |-> "QUIT", loop |-> "QUIT"]
Calls == DOMAIN Sent
Awaited(pc) == IF pc \in {"look", "look2", "resolve"} THEN "MASTERACK"
               ELSE IF pc = "mup" THEN "SLAVEUP" ELSE "ACK"

(***************************************************************************)
(* Calls that pass a name out of the message they handle: readmsg()        *)
(* overwrites that message, and so the name, with the next one.            *)
(***************************************************************************)
Aliased == {"refuse", "quit", "quitone", "loop"}

Overwritten == {"accept", "deny"}   \* calls that send the message they handle

Msg(t, n) == [t |-> t, from |-> n, addr |-> n, old |-> FALSE]
Requests == {Sent[c] : c \in Calls}

Init ==
  /\ d = [n \in Host |-> Off] /\ sock = [n \in Host |-> <<>>]
  /\ starts = [n \in Host |-> 0] /\ lost = 0 /\ crashes = 0 /\ timers = 0

-----------------------------------------------------------------------------
(***************************************************************************)
(* A step of a daemon: its memory becomes l, it has taken its first        *)
(* datagram or not, and it sends out.  With bump its sequence number goes  *)
(* up, which makes what it has under way old.                              *)
(***************************************************************************)
Aged(q, h, n) ==
  [k \in DOMAIN q |->
     IF (h = n /\ q[k].t \in {"ACK", "MASTERACK"}) \/ (q[k].addr = n /\ q[k].t \in Requests)
     THEN [q[k] EXCEPT !.old = TRUE] ELSE q[k]]

Arriving(out, h) ==
  LET mine == SelectSeq(out, LAMBDA o : h \in o.to)
  IN  [k \in DOMAIN mine |-> mine[k].m]

Fitting(q) == SubSeq(q, 1, IF Len(q) < QLen THEN Len(q) ELSE QLen)

Step(n, l, taken, out, bump) ==
  LET base == IF taken THEN [sock EXCEPT ![n] = Tail(@)] ELSE sock
      Mine(q, h) == IF bump THEN Aged(q, h, n) ELSE q
  IN  /\ d' = [d EXCEPT ![n] = [l EXCEPT !.msgslist = Mine(@, n)]]
      /\ sock' = [h \in Host |-> IF h # n /\ ~Up(h) THEN <<>>
                                 ELSE Fitting(Mine(base[h], h) \o Arriving(out, h))]
      /\ UNCHANGED <<starts, lost, crashes>>

Broadcast(n, t) == [to |-> Others(n), m |-> Msg(t, n)]
Calling(l, pc, to, name) ==
  [l EXCEPT !.pc = pc, !.to = to, !.name = name, !.count = 0, !.msgin = None]

(***************************************************************************)
(* What acksend() sends.  A slave answers a candidate with the message it  *)
(* has received, which readmsg() overwrites: to repeat the answer is to    *)
(* pass on whatever has been received since.                               *)
(***************************************************************************)
Request(n, l) ==
  [to |-> l.to,
   m |-> IF l.msgin = None THEN Msg(Sent[l.pc], n)
         ELSE [l.msgin EXCEPT !.addr = n, !.old = TRUE]]

(***************************************************************************)
(* addmach(): when the table is full the entry behind its end is written.  *)
(***************************************************************************)
Addmach(l, m) ==
  IF \E e \in l.table : e[1] = m.from THEN l
  ELSE IF 1 + Cardinality(l.table) < NHosts THEN [l EXCEPT !.table = @ \cup {<<m.from, m.addr>>}]
  ELSE [l EXCEPT !.beyond = TRUE]

(***************************************************************************)
(* main() after lookformaster(), election() or QUIT: master() or slave(),  *)
(* which announce themselves.  Without -M a net without master is ignored. *)
(***************************************************************************)
Enter(n, l, taken, out, bump) ==
  LET role == IF l.status = "MASTER" /\ n \notin MFlag THEN "IGNORE" ELSE l.status
      r == [Calling(l, l.pc, {}, None) EXCEPT !.status = role]
  IN  CASE role = "MASTER" ->
             Step(n, [r EXCEPT !.pc = "mup", !.due = TRUE], taken,
                  out \o <<Broadcast(n, "MASTERUP")>>, bump)
        [] role = "SLAVE" ->
             Step(n, [r EXCEPT !.pc = "slave", !.refuse = FALSE], taken,
                  out \o <<Broadcast(n, "SLAVEUP")>>, bump)
        [] role = "IGNORE" ->
             Step(n, [r EXCEPT !.pc = "slave", !.refuse = FALSE], taken, out, bump)

(***************************************************************************)
(* acksend() sends its message and calls readmsg().                        *)
(***************************************************************************)
Acksend(n, l, pc, to, name, taken, out, bump) ==
  LET c == Calling(l, pc, to, name)
  IN  Step(n, c, taken, out \o <<Request(n, c)>>, bump)

LookForMaster(n, l, taken, out) ==
  Acksend(n, [l EXCEPT !.status = "SLAVE"], "look", Others(n), None, taken, out, FALSE)

(***************************************************************************)
(* lookformaster() without an answer: another daemon that is coming up, or *)
(* an election, makes this one a slave.                                    *)
(***************************************************************************)
Seen(l, t) == \E k \in DOMAIN l.msgslist : l.msgslist[k].t = t
Without(l, t) ==
  [l EXCEPT !.msgslist = RemoveAt(@, CHOOSE k \in DOMAIN @ :
      @[k].t = t /\ \A j \in 1 .. k - 1 : @[j].t # t)]

\* a daemon that is coming up at the same time is not noticed
MutantNoMaster(n, l) == Enter(n, [l EXCEPT !.status = "MASTER"], FALSE, <<>>, TRUE)

NoMaster(n, l) ==
  CASE Seen(l, "MASTERREQ") -> Enter(n, Without(l, "MASTERREQ"), FALSE, <<>>, TRUE)
    [] ~Seen(l, "MASTERREQ") /\ Seen(l, "MASTERUP") ->
         Enter(n, Without(l, "MASTERUP"), FALSE, <<>>, TRUE)
    [] ~Seen(l, "MASTERREQ") /\ ~Seen(l, "MASTERUP") /\ Seen(l, "ELECTION") ->
         Enter(n, Without(l, "ELECTION"), FALSE, <<>>, TRUE)
    [] OTHER -> Enter(n, [l EXCEPT !.status = "MASTER"], FALSE, <<>>, TRUE)

(***************************************************************************)
(* correct() goes through the slaves that have answered measure(); those   *)
(* that are down leave the table, except for entries that rmmach() moved.  *)
(***************************************************************************)
Correct(n, l, taken, out, bump) ==
  IF l.todo # {}
  THEN \E h \in l.todo :
         Acksend(n, [l EXCEPT !.todo = @ \ {h}], "adj", {h[2]}, h[1], taken, out, bump)
  ELSE \E left \in SUBSET l.down :
         /\ 2 * Cardinality(left) <= Cardinality(l.down)
         /\ Step(n, [l EXCEPT !.pc = "master", !.to = {}, !.name = None, !.count = 0, !.msgin = None,
                       !.table = (@ \ l.down) \cup left, !.down = {}, !.due = FALSE],
                 taken, out \o <<Broadcast(n, "LOOP")>>, bump)

-----------------------------------------------------------------------------
(***************************************************************************)
(* What follows a call of acksend() that got the answer m.                 *)
(***************************************************************************)
Back(l, pc) == Calling(l, pc, {}, None)

Entries(l) == {e \in l.table : e[1] = l.name}   \* of the slave that has been called

Answered(n, l, m, taken, out) ==
  LET known == Addmach(l, m)
  IN  CASE l.pc = "look" -> Step(n, [Back(l, "look2") EXCEPT !.name = m.from], taken, out, TRUE)
        [] l.pc = "conf" -> Enter(n, l, taken, out, TRUE)
        [] l.pc \in {"accept", "deny"} -> Step(n, Back(l, "slave"), taken, out, TRUE)
        [] l.pc = "refuse" -> Step(n, Back(known, "elect"), taken, out, TRUE)
        [] l.pc = "newslave" -> Step(n, Back(l, "master"), taken, out, TRUE)
        [] l.pc = "quit" -> Step(n, [Back(known, "master") EXCEPT !.due = TRUE], taken, out, TRUE)
        [] l.pc = "loop" -> Step(n, Back(known, "master"), taken, out, TRUE)
        [] l.pc = "resolve" -> Acksend(n, l, "quitone", {m.addr}, m.from, taken, out, TRUE)
        [] l.pc = "quitone" -> Acksend(n, known, "resolve", Others(n), None, taken, out, TRUE)
        [] l.pc = "adj" -> Correct(n, l, taken, out, TRUE)

(***************************************************************************)
(* What follows one that got none.                                         *)
(***************************************************************************)
Unanswered(n, l) ==
  CASE l.pc = "look" -> NoMaster(n, l)
    [] l.pc = "conf" -> Step(n, [Off EXCEPT !.pc = "exit"], FALSE, <<>>, TRUE)
    [] l.pc \in {"accept", "deny"} -> Step(n, Back(l, "slave"), FALSE, <<>>, TRUE)
    [] l.pc = "refuse" -> Step(n, Back(l, "elect"), FALSE, <<>>, TRUE)
    [] l.pc = "newslave" ->
         Step(n, [Back(l, "master") EXCEPT !.table = @ \ Entries(l)], FALSE, <<>>, TRUE)
    [] l.pc = "quit" -> Step(n, [Back(l, "master") EXCEPT !.due = TRUE], FALSE, <<>>, TRUE)
    [] l.pc = "loop" -> Step(n, Back(l, "master"), FALSE, <<>>, TRUE)
    [] l.pc = "resolve" ->
         Step(n, [Back(l, "mup") EXCEPT !.due = TRUE], FALSE, <<Broadcast(n, "MASTERUP")>>, TRUE)
    [] l.pc = "quitone" -> Acksend(n, l, "resolve", Others(n), None, FALSE, <<>>, TRUE)
    [] l.pc = "adj" -> Correct(n, [l EXCEPT !.down = @ \cup Entries(l)], FALSE, <<>>, TRUE)

(***************************************************************************)
(* acksend() with an answer.  One with a wrong sequence number makes it    *)
(* send again, or, if nothing has been lost before, is returned: the loop  *)
(* then tests a variable that has not been set.                            *)
(***************************************************************************)
AcksendAnswer(n, l, m, taken, out) ==
  \/ (~m.old \/ l.count = 0) /\ Answered(n, l, m, taken, out)
  \/ LET k == [l EXCEPT !.msgin = IF l.pc \in Overwritten THEN m ELSE @]
     IN  m.old /\ Step(n, k, taken, out \o <<Request(n, k)>>, FALSE)

-----------------------------------------------------------------------------
(***************************************************************************)
(* The loops of slave(), election() and master().                          *)
(***************************************************************************)
Quit(n, l, taken, out) == Enter(n, [l EXCEPT !.status = "SLAVE", !.table = {}], taken, out, FALSE)

AnswerCandidate(n, l, m, taken, out) ==
  Acksend(n, [l EXCEPT !.refuse = TRUE], IF l.refuse THEN "deny" ELSE "accept",
          {m.addr}, m.from, taken, out, FALSE)

SlaveMsg(n, l, m, taken, out) ==
  CASE m.t = "MASTERUP" ->
         Step(n, [l EXCEPT !.refuse = FALSE], taken,
              out \o <<[to |-> {m.addr}, m |-> Msg("SLAVEUP", n)]>>, FALSE)
    [] m.t = "ELECTION" /\ l.status = "SLAVE" -> AnswerCandidate(n, l, m, taken, out)
    [] m.t = "QUIT" /\ l.status = "SLAVE" -> Quit(n, l, taken, out)
    [] OTHER -> Step(n, l, taken, out, FALSE)

ElectionMsg(n, l, m, taken, out) ==
  CASE m.t \in {"ACCEPT", "SLAVEUP"} -> Step(n, Addmach(l, m), taken, out, FALSE)
    [] m.t \in {"MASTERUP", "MASTERREQ", "QUIT", "REFUSE"} -> Enter(n, l, taken, out, FALSE)
    [] m.t = "ELECTION" -> Acksend(n, l, "refuse", {m.addr}, m.from, taken, out, FALSE)
    [] OTHER -> Step(n, l, taken, out, FALSE)

\* the LOOP of another master is taken for garbage
MutantMasterMsg(n, l, m, taken, out) ==
  CASE m.t = "SLAVEUP" ->
         Acksend(n, Addmach(l, m), "newslave", {m.addr}, m.from, taken, out, FALSE)
    [] m.t = "ELECTION" -> Acksend(n, l, "quit", {m.addr}, m.from, taken, out, FALSE)
    [] m.t = "QUIT" -> Quit(n, l, taken, out)
    [] OTHER -> Step(n, l, taken, out, FALSE)

MasterMsg(n, l, m, taken, out) ==
  CASE m.t = "SLAVEUP" ->
         Acksend(n, Addmach(l, m), "newslave", {m.addr}, m.from, taken, out, FALSE)
    [] m.t = "ELECTION" -> Acksend(n, l, "quit", {m.addr}, m.from, taken, out, FALSE)
    [] m.t = "CONFLICT" -> Acksend(n, l, "resolve", Others(n), None, taken, out, FALSE)
    [] m.t = "QUIT" -> Quit(n, l, taken, out)
    [] m.t = "LOOP" -> Acksend(n, l, "loop", {m.addr}, m.from, taken, out, FALSE)
    [] OTHER -> Step(n, l, taken, out, FALSE)

(***************************************************************************)
(* The message that readmsg() returns to its caller.                       *)
(***************************************************************************)
Handle(n, l, m, taken, out) ==
  CASE l.pc = "slave" -> SlaveMsg(n, l, m, taken, out)
    [] l.pc = "elect" -> ElectionMsg(n, l, m, taken, out)
    [] l.pc = "master" -> MasterMsg(n, l, m, taken, out)
    [] l.pc = "mup" -> Step(n, Addmach(l, m), taken, out, FALSE)
    [] l.pc = "look2" ->
         IF m.from # l.name THEN Acksend(n, l, "conf", {l.name}, l.name, taken, out, FALSE)
         ELSE Enter(n, l, taken, out, FALSE)
    [] OTHER -> AcksendAnswer(n, l, m, taken, out)

(***************************************************************************)
(* readmsg(): the messages it has kept come first; a datagram is           *)
(* acknowledged, and kept when it is not what is waited for.  One that     *)
(* bears the daemon's own name is thrown away.                             *)
(***************************************************************************)
LookAt(l, m) == l.pc \in Loops \/ (m.t = Awaited(l.pc) /\ (l.pc \in FromAny \/ m.from = l.name))
Listed(n) == {k \in DOMAIN d[n].msgslist : LookAt(d[n], d[n].msgslist[k])}
Reading(n) == Up(n) /\ ~(d[n].pc = "master" /\ d[n].due)

ReadList(n) ==
  /\ Reading(n) /\ Listed(n) # {}
  /\ LET k == CHOOSE k \in Listed(n) : \A j \in Listed(n) : k <= j
     IN  Handle(n, [d[n] EXCEPT !.msgslist = RemoveAt(@, k)], d[n].msgslist[k], FALSE, <<>>)
  /\ UNCHANGED timers

Slaveack(t) == t \in {"ADJTIME", "SETTIME", "ACCEPT", "REFUSE", "QUIT"}

\* masterack() that leaves requests for the master to the main loop
MutantMasterack(t) == IF t = "QUIT" THEN "ACK" ELSE IF t = "RESOLVE" THEN "MASTERACK" ELSE "none"

Masterack(t) ==
  IF t = "QUIT" THEN "ACK" ELSE IF t \in {"RESOLVE", "MASTERREQ"} THEN "MASTERACK" ELSE "none"

Ack(n, m) ==
  LET t == IF d[n].status = "MASTER" THEN Masterack(m.t)
           ELSE IF d[n].status = "SLAVE" /\ Slaveack(m.t) THEN "ACK" ELSE "none"
  IN  IF t = "none" THEN <<>>
      ELSE <<[to |-> {m.addr}, m |-> [t |-> t, from |-> n, addr |-> n, old |-> m.old]]>>

Recv(n) ==
  LET m == Head(sock[n])
      l == d[n]
      over == [l EXCEPT !.name = IF l.pc \in Aliased THEN m.from ELSE @,
                        !.msgin = IF l.pc \in Overwritten THEN m ELSE @]
  IN  /\ Reading(n) /\ Listed(n) = {} /\ sock[n] # <<>> /\ UNCHANGED timers
      /\ IF m.from = n THEN Step(n, over, TRUE, <<>>, FALSE)
         ELSE IF LookAt(over, m) THEN Handle(n, l, m, TRUE, Ack(n, m))
         ELSE Step(n, [over EXCEPT !.msgslist = Append(@, m)], TRUE, Ack(n, m), FALSE)

-----------------------------------------------------------------------------
(***************************************************************************)
(* Timers.  select() returns without a datagram only when there is none.   *)
(***************************************************************************)
Resting == {"off", "exit", "slave", "master"}   \* not within a wait of seconds
Quiet == \A h \in Host : Up(h) => sock[h] = <<>> /\ (Reading(h) => Listed(h) = {})

AtRest == Quiet /\ \A h \in Host : d[h].pc \in Resting

ReadTimeout(n) ==
  LET l == d[n]
  IN  /\ Reading(n) /\ Listed(n) = {} /\ sock[n] = <<>> /\ (Prompt => Quiet) /\ UNCHANGED timers
      /\ \/ /\ l.pc \in Calls /\ l.count + 1 < MaxCount
            /\ Step(n, [l EXCEPT !.count = @ + 1], FALSE, <<Request(n, l)>>, FALSE)
         \/ l.pc \in Calls /\ l.count + 1 = MaxCount /\ Unanswered(n, l)
         \/ l.pc = "look2" /\ Enter(n, l, FALSE, <<>>, FALSE)
         \/ l.pc = "mup" /\ Step(n, [l EXCEPT !.pc = "master"], FALSE, <<>>, FALSE)
         \/ l.pc = "elect" /\ Enter(n, [l EXCEPT !.status = "MASTER"], FALSE, <<>>, FALSE)

MinutesPass ==
  IF MaxTimers = 0 THEN UNCHANGED timers ELSE timers < MaxTimers /\ timers' = timers + 1

(***************************************************************************)
(* The election timer, of a slave that no master has polled.  Without -M   *)
(* the daemon looks for a master on a net that it ignores, and announces   *)
(* itself again.                                                           *)
(***************************************************************************)
Heard(q, t, n) == \E k \in DOMAIN q : q[k].t = t /\ q[k].from = n
Polled(n) ==
  \E h \in Host :
    /\ Up(h) /\ d[h].status = "MASTER"
    /\ d[h].pc = "mup" \/ <<n, n>> \in d[h].table \/ Heard(sock[h] \o d[h].msgslist, "SLAVEUP", n)

(***************************************************************************)
(* The timers of two daemons may go off at once, or while one comes up.    *)
(***************************************************************************)
Expiring(n) ==
  \/ AtRest
  \/ /\ Listed(n) = {} /\ \A k \in DOMAIN sock[n] : sock[n][k].t = "ELECTION"
     /\ \E h \in Others(n) : d[h].pc \in {"elect", "look"}
     /\ \A h \in Host : d[h].pc \in Resting \cup {"elect", "look"}

ElectionTimer(n) ==
  /\ MinutesPass
  /\ d[n].pc = "slave" /\ (Prompt => ~Polled(n))
  /\ \/ /\ n \in MFlag /\ (Prompt => Expiring(n))
        /\ Step(n, [d[n] EXCEPT !.pc = "elect", !.table = {}], FALSE,
                <<Broadcast(n, "ELECTION")>>, FALSE)
     \/ /\ n \notin MFlag /\ d[n].status = "IGNORE" /\ (Prompt => AtRest)
        /\ LookForMaster(n, d[n], FALSE, <<>>)
     \/ /\ n \notin MFlag /\ d[n].status = "SLAVE" /\ (Prompt => AtRest)
        /\ Enter(n, d[n], FALSE, <<>>, FALSE)

(***************************************************************************)
(* refusetime: for half a minute no other candidate is accepted.           *)
(***************************************************************************)
RefuseOver(n) ==
  /\ d[n].refuse /\ (Prompt => AtRest)
  /\ d' = [d EXCEPT ![n].refuse = FALSE]
  /\ UNCHANGED <<sock, starts, lost, crashes, timers>>

(***************************************************************************)
(* The master's timer: synch() asks its slaves for their times; then a     *)
(* LOOP goes out to find other masters.                                    *)
(***************************************************************************)
Poll(n) ==
  /\ d[n].pc = "master"
  /\ \/ d[n].due /\ UNCHANGED timers
     \/ /\ ~d[n].due /\ (Prompt => AtRest)
        /\ MinutesPass
  /\ \E answering \in SUBSET d[n].table :
       Correct(n, [d[n] EXCEPT !.todo = answering, !.down = d[n].table \ answering],
               FALSE, <<>>, FALSE)

-----------------------------------------------------------------------------
Start(n) ==
  /\ d[n].pc = "off" /\ starts[n] < MaxStarts
  /\ starts' = [starts EXCEPT ![n] = @ + 1]
  /\ LET l == Calling(Off, "look", Others(n), None)
     IN  /\ d' = [d EXCEPT ![n] = l]
         /\ sock' = [h \in Host |-> IF Up(h) THEN Fitting(sock[h] \o Arriving(<<Request(n, l)>>, h))
                                    ELSE <<>>]
  /\ UNCHANGED <<lost, crashes, timers>>

Crash(n) ==
  /\ Up(n) /\ crashes < MaxCrash
  /\ crashes' = crashes + 1
  /\ d' = [d EXCEPT ![n] = Off]
  /\ sock' = [h \in Host |-> IF h = n THEN <<>> ELSE Aged(sock[h], h, n)]
  /\ UNCHANGED <<starts, lost, timers>>

Lose(n) ==
  /\ sock[n] # <<>> /\ lost < MaxLoss
  /\ lost' = lost + 1
  /\ sock' = [sock EXCEPT ![n] = Front(@)]
  /\ UNCHANGED <<d, starts, crashes, timers>>

Next ==
  \E n \in Host :
    \/ ReadList(n) \/ Recv(n) \/ ReadTimeout(n) \/ ElectionTimer(n) \/ RefuseOver(n) \/ Poll(n)
    \/ Start(n) \/ Crash(n) \/ Lose(n)

Spec == Init /\ [][Next]_vars

(***************************************************************************)
(* The daemons go on: they read what has arrived, and their timers run.    *)
(* What a master sends to others does not set the election timer back, so  *)
(* it goes off in the end though it waits again and again.                 *)
(***************************************************************************)
Progress(n) == ReadList(n) \/ Recv(n) \/ ReadTimeout(n) \/ Poll(n)

Fairness ==
  \A n \in Host : WF_vars(Progress(n)) /\ SF_vars(ElectionTimer(n)) /\ SF_vars(RefuseOver(n))

-----------------------------------------------------------------------------
Master(n) == Up(n) /\ d[n].status = "MASTER"
Mastering == {n \in Host : Master(n)}

(***************************************************************************)
(* There is at most one master, as long as no datagram is lost and the     *)
(* daemons are prompt: candidates, daemons that are coming up and a master *)
(* that is killed and started again never leave two.                       *)
(***************************************************************************)
OneMaster == \A n, h \in Mastering : n = h

(***************************************************************************)
(* Two masters that come up while datagrams are lost find out about each   *)
(* other and do not stay: the LOOP that one sends after a round makes the  *)
(* other tell it to quit, though both may do so at once.                   *)
(***************************************************************************)
MastersResolved == Cardinality(Mastering) > 1 ~> Cardinality(Mastering) < 2

(***************************************************************************)
(* The resolution kills all but one of the masters: the last one does not  *)
(* step down.                                                              *)
(***************************************************************************)
LastMasterStands == Mastering # {} /\ Mastering' = {} => crashes' > crashes

(***************************************************************************)
(* With one daemon that may be master, every daemon comes under its        *)
(* control, also one that came up first, has ignored the net since, and    *)
(* had its datagrams lost.                                                 *)
(***************************************************************************)
Controlled(n) == Master(n) \/ \E h \in Mastering : <<n, n>> \in d[h].table
EveryoneJoins ==
  \A n \in Host : (Up(n) /\ \A m \in MFlag : Up(m))
                     ~> (Controlled(n) \/ ~Up(n) \/ \E m \in MFlag : ~Up(m))

(***************************************************************************)
(* No daemon gives up: a conflict that it reports is acted upon.           *)
(***************************************************************************)
NobodyExits == \A n \in Host : d[n].pc # "exit"

(***************************************************************************)
(* A slave is entered with its own address, and a clock that is measured   *)
(* is the one that is corrected: what acksend() sends again is what it was *)
(* given to send.                                                          *)
(***************************************************************************)
TrueAddresses == \A n \in Host : \A e \in d[n].table : e[1] = e[2]

(***************************************************************************)
(* A candidate that hears of another one withdraws its candidature.        *)
(***************************************************************************)
CandidateWithdraws == [][\A n \in Host : d[n].pc = "refuse" => d'[n].pc # "elect"]_vars

(***************************************************************************)
(* The host table has room for NHOSTS machines, the master among them, and *)
(* nothing is written behind its end.                                      *)
(***************************************************************************)
TableInBounds == \A n \in Host : ~d[n].beyond
=============================================================================
