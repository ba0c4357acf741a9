-------------------------------- MODULE MCTimed --------------------------------
(***************************************************************************)
(* Instances of the time daemons: elections among two and three of them    *)
(* (Timed), rounds of a master with two and with four slaves (TimedClock), *)
(* a daemon that joins a net of one that may be master, and two that both  *)
(* become master, over a network that loses datagrams (Timed), and         *)
(* networkdelta() on its own (TimedDelta).  They share no state here: a    *)
(* behaviour is about one.                                                 *)
(***************************************************************************)
EXTENDS Integers, Sequences, TLC

CONSTANTS h1, h2, h3, k1, k2, None, Foreign

VARIABLES
  about,                                                      \* which instance
  d, sock, starts, lost, crashes, timers,                     \* Timed
  delta, machup, x, i, j, minind, maxind, average, pc,        \* TimedDelta
  tod, off, clock, m, hp                                      \* TimedClock

netvars == <<d, sock, starts, lost, crashes, timers>>
deltavars == <<delta, machup, x, i, j, minind, maxind, average, pc>>
roundvars == <<tod, off, clock, m, hp>>

Symmetry == Permutations({h1, h2, h3}) \cup Permutations({k1, k2})

-----------------------------------------------------------------------------
\* Two daemons that are started twice, one of which is killed.
Two == INSTANCE Timed WITH
  Host <- {k1, k2}, MFlag <- {k1, k2}, MaxCount <- 2, NHosts <- 9, Prompt <- TRUE,
  QLen <- 9, MaxLoss <- 0, MaxStarts <- 2, MaxCrash <- 1, MaxTimers <- 0

\* Three daemons that all may be master.
Three == INSTANCE Timed WITH
  Host <- {h1, h2, h3}, MFlag <- {h1, h2, h3}, MaxCount <- 1, NHosts <- 9, Prompt <- TRUE,
  QLen <- 9, MaxLoss <- 0, MaxStarts <- 1, MaxCrash <- 0, MaxTimers <- 3

\* One that may be master and one that may not; two datagrams are lost.
Join == INSTANCE Timed WITH
  Host <- {k1, k2}, MFlag <- {k1}, MaxCount <- 2, NHosts <- 9, Prompt <- TRUE,
  QLen <- 9, MaxLoss <- 2, MaxStarts <- 1, MaxCrash <- 1, MaxTimers <- 0

\* Two that may be master, and do not hear of each other: two datagrams are lost.
Meet == INSTANCE Timed WITH
  Host <- {k1, k2}, MFlag <- {k1, k2}, MaxCount <- 2, NHosts <- 9, Prompt <- TRUE,
  QLen <- 9, MaxLoss <- 2, MaxStarts <- 1, MaxCrash <- 0, MaxTimers <- 0

\* Clocks far behind, just behind and ahead; delays up to several RANGEs; midnight.
Round == INSTANCE TimedClock WITH
  N <- 3, Deltas <- {0}, RANGE <- 20, HostDown <- 2147483647,
  Offsets <- {-40000000, -14, 1003}, Delays <- {0, 9, 70}, Starts <- {0, 86399985},
  Modulo <- 86400000, Processing <- 5, Trials <- 3, Msgs <- 2

\* Four slaves, any of which may fail to answer.
Table == INSTANCE TimedClock WITH
  N <- 5, Deltas <- {0}, RANGE <- 20, HostDown <- 2147483647,
  Offsets <- {9}, Delays <- {0, 9}, Starts <- {0, 86399985},
  Modulo <- 86400000, Processing <- 5, Trials <- 1, Msgs <- 2

\* Differences around multiples of RANGE.
Window == INSTANCE TimedDelta WITH
  N <- 5, Deltas <- {-25, -20, -5, 0, 1, 16, 20, 40}, RANGE <- 20, HostDown <- 2147483647

ASSUME MCTimedAssumption ==
  /\ Two!TimedAssumption /\ Three!TimedAssumption /\ Join!TimedAssumption /\ Meet!TimedAssumption
  /\ Round!DeltaAssumption /\ Round!ClockAssumption
  /\ Table!DeltaAssumption /\ Table!ClockAssumption
  /\ Window!DeltaAssumption

-----------------------------------------------------------------------------
NoNet == d = <<>> /\ sock = <<>> /\ starts = <<>> /\ lost = 0 /\ crashes = 0 /\ timers = 0
NoDelta ==
  /\ delta = <<>> /\ machup = 0 /\ x = <<>> /\ i = 0 /\ j = 0
  /\ minind = 0 /\ maxind = 0 /\ average = 0 /\ pc = "none"
NoRound == tod = 0 /\ off = <<>> /\ clock = <<>> /\ m = <<>> /\ hp = <<>>

Init ==
  \/ about = "two" /\ Two!Init /\ NoDelta /\ NoRound
  \/ about = "three" /\ Three!Init /\ NoDelta /\ NoRound
  \/ about = "round" /\ Round!ClockInit /\ NoNet
  \/ about = "table" /\ Table!ClockInit /\ NoNet

Next ==
  \/ about = "two" /\ Two!Next /\ UNCHANGED <<about, deltavars, roundvars>>
  \/ about = "three" /\ Three!Next /\ UNCHANGED <<about, deltavars, roundvars>>
  \/ about = "round" /\ Round!ClockNext /\ UNCHANGED <<about, netvars>>
  \/ about = "table" /\ Table!ClockNext /\ UNCHANGED <<about, netvars>>

Spec == Init /\ [][Next]_<<about, netvars, deltavars, roundvars>>

\* What is to happen in the end: the daemon joins, one of two masters goes,
\* networkdelta() returns.
MeetInit == about = "meet" /\ Meet!Init /\ NoDelta /\ NoRound

LiveInit ==
  \/ about = "join" /\ Join!Init /\ NoDelta /\ NoRound
  \/ MeetInit
  \/ about = "window" /\ Window!Init /\ NoRound /\ Join!Init

LiveNext ==
  \/ about = "join" /\ Join!Next /\ UNCHANGED <<about, deltavars, roundvars>>
  \/ about = "meet" /\ Meet!Next /\ UNCHANGED <<about, deltavars, roundvars>>
  \/ about = "window" /\ Window!DeltaNext /\ UNCHANGED <<about, netvars, roundvars>>

\* The fairness of Timed, for the instance that the behaviour is about.
Progress(n) ==
  \/ about = "join" /\ Join!Progress(n)
  \/ about = "meet" /\ Meet!Progress(n)

ElectionTimer(n) ==
  \/ about = "join" /\ Join!ElectionTimer(n)
  \/ about = "meet" /\ Meet!ElectionTimer(n)

RefuseOver(n) ==
  \/ about = "join" /\ Join!RefuseOver(n)
  \/ about = "meet" /\ Meet!RefuseOver(n)

Fairness ==
  /\ \A n \in {k1, k2} :
       WF_netvars(Progress(n)) /\ SF_netvars(ElectionTimer(n)) /\ SF_netvars(RefuseOver(n))
  /\ Window!Fairness

LiveSpec == LiveInit /\ [][LiveNext]_<<about, netvars, deltavars, roundvars>> /\ Fairness
MeetSpec == MeetInit /\ [][LiveNext]_<<about, netvars, deltavars, roundvars>> /\ Fairness

-----------------------------------------------------------------------------
\* There is at most one master while no datagram is lost.
OneMaster ==
  /\ about = "two" => Two!OneMaster
  /\ about = "three" => Three!OneMaster

\* timed.c:64: the resolution kills all but one of the masters.
LastMasterStays == [][about = "meet" => Meet!LastMasterStands]_netvars

\* What measure() finds is the difference of the clocks, also around midnight;
\* after a round the clocks of the machines that acknowledged agree, and the
\* master still has every machine that answered, once.
RoundSound ==
  /\ about = "round" => Round!Accurate /\ Round!Agree /\ Round!TableKept
  /\ about = "table" => Table!Accurate /\ Table!Agree /\ Table!TableKept

\* When two of the clocks agree within RANGE, what is averaged lies within
\* RANGE; the difference of a machine that is down is never part of it.
OutliersIgnored ==
  about = "window" => Window!OutliersIgnored /\ Window!OnlyAnswers

\* Every daemon comes under the control of the one that may be master.
EveryoneJoins == about = "join" => Join!EveryoneJoins

\* Where there are two masters, one of them goes.
MastersResolved == about = "meet" => Meet!MastersResolved
=============================================================================
