------------------------------- MODULE Callout -------------------------------
(***************************************************************************)
(* Timeouts: hardclock() and softclock() of sys/sys/kern_clock.c and those *)
(* who call timeout() and untimeout().                                     *)
(*                                                                         *)
(* hardclock() interrupts everything.  softclock() runs below every device *)
(* and above every process: device interrupts, and hardclock(), come in    *)
(* between its taking an entry off the queue and the call, a process does  *)
(* not.  untimeout() is only called by processes (select(), setitimer(),   *)
(* exit(), clntkudp_callit()).                                             *)
(***************************************************************************)
EXTENDS CalloutQueue, FiniteSets

CONSTANTS
  Funcs,      \* functions with their arguments
  Repeated,   \* those that may be pending more than once
  Delays,     \* the ticks asked for
  NCallout,   \* ncallout, the size of the table
  MaxNow,     \* bound on the ticks counted
  None

ASSUME CalloutAssumption ==
  /\ Repeated \subseteq Funcs /\ Delays \subseteq Int
  /\ NCallout \in Nat \ {0} /\ MaxNow \in Nat /\ None \notin Funcs

VARIABLES
  calltodo,   \* the queue; the other NCallout entries are on callfree
  soft,       \* a software clock interrupt is requested
  insoft,     \* softclock() is running
  calling,    \* what it is calling, with the ticks it is late, or None
  now,        \* ticks so far
  panicked

vars == <<calltodo, soft, insoft, calling, now, panicked>>

Entry == [c_func : Funcs, c_time : Int]

TypeOK ==
  /\ calltodo \in Seq(Entry) /\ Len(calltodo) <= NCallout
  /\ soft \in BOOLEAN /\ insoft \in BOOLEAN
  /\ calling = None \/ calling \in Funcs \X Nat
  /\ now \in 0 .. MaxNow /\ panicked \in BOOLEAN

Init ==
  /\ calltodo = <<>> /\ soft = FALSE /\ insoft = FALSE
  /\ calling = None /\ now = 0 /\ panicked = FALSE

\* hardclock(): softclock() is requested, or run at once when the interrupt
\* came at base priority.
Hardclock ==
  /\ ~panicked /\ now < MaxNow
  /\ now' = now + 1
  /\ calltodo' = HardclockQueue(calltodo)
  /\ \/ ~NeedSoft(calltodo) /\ UNCHANGED <<soft, insoft>>
     \/ NeedSoft(calltodo) /\ soft' = TRUE /\ UNCHANGED insoft
     \/ NeedSoft(calltodo) /\ ~insoft /\ insoft' = TRUE /\ UNCHANGED soft
  /\ UNCHANGED <<calling, panicked>>

\* The software interrupt is taken.
SoftclockEnter ==
  /\ ~panicked /\ soft /\ ~insoft
  /\ soft' = FALSE /\ insoft' = TRUE
  /\ UNCHANGED <<calltodo, calling, now, panicked>>

\* An entry that is due goes to the free list before it is called.
SoftclockCall ==
  /\ ~panicked /\ insoft /\ calling = None /\ SomeDue(calltodo)
  /\ calling' = <<Head(calltodo).c_func, -Head(calltodo).c_time>>
  /\ calltodo' = Tail(calltodo)
  /\ UNCHANGED <<soft, insoft, now, panicked>>

SoftclockReturn ==
  /\ ~panicked /\ calling # None
  /\ calling' = None
  /\ UNCHANGED <<calltodo, soft, insoft, now, panicked>>

\* A softclock() that makes one call per interrupt.
MutantSoftclockExit ==
  /\ ~panicked /\ insoft /\ calling = None
  /\ insoft' = FALSE
  /\ UNCHANGED <<calltodo, soft, calling, now, panicked>>

SoftclockExit ==
  /\ ~panicked /\ insoft /\ calling = None /\ ~SomeDue(calltodo)
  /\ insoft' = FALSE
  /\ UNCHANGED <<calltodo, soft, calling, now, panicked>>

\* A timeout() that does not look whether callfree is empty.
MutantTimeout(f, t) ==
  /\ ~panicked
  /\ f \in Repeated \/ ~Pending(calltodo, f)
  /\ calltodo' = TimeoutQueue(calltodo, f, t)
  /\ UNCHANGED <<soft, insoft, calling, now, panicked>>

\* timeout(), by a process, a device interrupt or the function being called.
Timeout(f, t) ==
  /\ ~panicked
  /\ f \in Repeated \/ ~Pending(calltodo, f)
  /\ IF Len(calltodo) = NCallout
     THEN panicked' = TRUE /\ UNCHANGED calltodo
     ELSE calltodo' = TimeoutQueue(calltodo, f, t) /\ UNCHANGED panicked
  /\ UNCHANGED <<soft, insoft, calling, now>>

\* untimeout(), by a process.
Untimeout(f) ==
  /\ ~panicked /\ ~insoft
  /\ calltodo' = UntimeoutQueue(calltodo, f)
  /\ UNCHANGED <<soft, insoft, calling, now, panicked>>

Next ==
  \/ Hardclock
  \/ SoftclockEnter
  \/ SoftclockCall
  \/ SoftclockReturn
  \/ SoftclockExit
  \/ \E f \in Funcs, t \in Delays : Timeout(f, t)
  \/ \E f \in Funcs : Untimeout(f)

\* Interrupts are taken and interrupt routines run to their end.
Fairness ==
  /\ WF_vars(SoftclockEnter)
  /\ WF_vars(SoftclockCall)
  /\ WF_vars(SoftclockReturn)
  /\ WF_vars(SoftclockExit)

Spec == Init /\ [][Next]_vars /\ Fairness

-----------------------------------------------------------------------------
(***************************************************************************)
(* Properties                                                              *)
(***************************************************************************)

\* The entries as the promises see them: functions with absolute ticks.
Calls == {<<calltodo[i].c_func, DueAt(calltodo, i, now)>> : i \in DOMAIN calltodo}

Abstract == INSTANCE CalloutSpec WITH
  pending <- [e \in Calls |->
                Cardinality({i \in DOMAIN calltodo :
                  e = <<calltodo[i].c_func, DueAt(calltodo, i, now)>>})]

(***************************************************************************)
(* timeout(), untimeout(), hardclock() and softclock() keep the promises   *)
(* of CalloutSpec: the list of differences stands for absolute times, and  *)
(* no order of interrupts and calls makes a function run early, twice, out *)
(* of order or after it was taken back.                                    *)
(***************************************************************************)
KeepsPromises == Abstract!Spec

(***************************************************************************)
(* While an entry is due, softclock() is running or requested: hardclock() *)
(* asks for it only when it counts an entry down, so a softclock() that    *)
(* returned past a due entry would leave it until the next tick.           *)
(***************************************************************************)
DueIsNoticed ==
  SomeDue(calltodo) /\ ~panicked => soft \/ insoft

(***************************************************************************)
(* Every entry that is due is called or taken back first, wherever it is   *)
(* on the queue: new entries, and ticks during the calls, do not keep      *)
(* softclock() from the end of it.  Of a function that is pending twice    *)
(* one cannot tell which entry was called.                                 *)
(***************************************************************************)
DueIsCalled ==
  \A f \in Funcs \ Repeated :
    (\E i \in DOMAIN calltodo :
        calltodo[i].c_func = f /\ DueAt(calltodo, i, now) <= now)
      ~> (\/ panicked \/ ~Pending(calltodo, f)
          \/ calling # None /\ calling[1] = f)

\* panic("timeout table overflow") is not reached.
NoTableOverflow == ~panicked
=============================================================================
