------------------------------- MODULE MCSpace -------------------------------
(***************************************************************************)
(* Instances of the allocators: kernelmap and swapmap (Rmap), the swap     *)
(* space of processes on one and on two devices (Drum), and the kernel's   *)
(* heap, with word sized requests and with ends of blocks that are freed   *)
(* at interrupt level (Kmem).  They share no state here, so a behaviour is *)
(* about one of them and leaves the others as they were at boot.           *)
(***************************************************************************)
EXTENDS Integers, Sequences, TLC

CONSTANTS p1, p2, Nobody

VARIABLES
  about,                                            \* which allocator
  map, used, lost, kmapwnt, asleep,                 \* Rmap
  swapmap, dropped, dm, state, refused,             \* Drum
  tree, alloc, pages, ntflist, ntf,                 \* Kmem
  panicked

rmapvars == <<map, used, lost, kmapwnt, asleep>>
drumvars == <<swapmap, dropped, dm, state, refused>>
kmemvars == <<tree, alloc, pages, ntflist, ntf>>

TwoProcs == {p1, p2}
Symmetry == Permutations(TwoProcs)

-----------------------------------------------------------------------------
\* Nine units in a table of three segments, with two who wait.
Kernelmap == INSTANCE Rmap WITH
  Procs <- TwoProcs, Sizes <- {1, 2, 3}, Top <- 9, MapSize <- 5,
  Boot <- <<1, 9>>, Later <- {}, IsSwapmap <- FALSE, Nswdev <- 1,
  Dmmax <- 4, Clsize <- 1, IsKernelmap <- TRUE

\* Two devices of which only the first is open at boot.
Swapmap == INSTANCE Rmap WITH
  Procs <- {}, Sizes <- {2, 4}, Top <- 18, MapSize <- 5,
  Boot <- <<2, 2>>, Later <- {<<4, 4>>, <<8, 4>>, <<12, 4>>, <<16, 3>>},
  IsSwapmap <- TRUE, Nswdev <- 2, Dmmax <- 4, Clsize <- 2,
  IsKernelmap <- FALSE

\* So little swap space that requests are refused.
Drum1 == INSTANCE Drum WITH
  Procs <- TwoProcs, Dmmin <- 1, Dmmax <- 2, Clsize <- 1, Nswdev <- 1,
  MapSize <- 4, IsSwapmap <- TRUE, MaxSize <- 2,
  Swap <- <<[m_addr |-> 1, m_size |-> 5]>>, map <- swapmap, lost <- dropped

Drum2 == INSTANCE Drum WITH
  Procs <- TwoProcs, Dmmin <- 2, Dmmax <- 4, Clsize <- 2, Nswdev <- 2,
  MapSize <- 4, IsSwapmap <- TRUE, MaxSize <- 4,
  Swap <- <<[m_addr |-> 2, m_size |-> 6], [m_addr |-> 10, m_size |-> 2]>>,
  map <- swapmap, lost <- dropped

\* Whole blocks, of a word or about two.
Words == INSTANCE Kmem WITH
  Align <- 4, PageBytes <- 8, NPages <- 4, Sizes <- {4, 5, 8},
  Partial <- FALSE, Interrupts <- FALSE, NtfBytes <- 8, NtfSize <- 2,
  map <- pages, panic <- panicked

\* Ends of blocks are freed too, also at interrupt level.
Ends == INSTANCE Kmem WITH
  Align <- 2, PageBytes <- 10, NPages <- 1, Sizes <- {3, 6},
  Partial <- TRUE, Interrupts <- TRUE, NtfBytes <- 4, NtfSize <- 2,
  map <- pages, panic <- panicked

ASSUME SpaceAssumption ==
  /\ Kernelmap!RmapAssumption /\ Swapmap!RmapAssumption
  /\ Drum1!DrumAssumption /\ Drum2!DrumAssumption
  /\ Words!KmemAssumption /\ Ends!KmemAssumption

-----------------------------------------------------------------------------
NoRmap == map = <<>> /\ used = {} /\ lost = {} /\ kmapwnt = FALSE /\ asleep = <<>>
NoDrum == swapmap = <<>> /\ dropped = {} /\ dm = <<>> /\ state = <<>> /\ refused = FALSE
NoKmem == tree = [size |-> 0] /\ alloc = {} /\ pages = {} /\ ntflist = <<>> /\ ntf = <<<<>>, <<>>>>

Init ==
  \/ about = "kernelmap" /\ Kernelmap!Init /\ NoDrum /\ NoKmem
  \/ about = "swapmap" /\ Swapmap!Init /\ NoDrum /\ NoKmem
  \/ about = "drum1" /\ Drum1!Init /\ NoRmap /\ NoKmem
  \/ about = "drum2" /\ Drum2!Init /\ NoRmap /\ NoKmem
  \/ about = "words" /\ Words!Init /\ NoRmap /\ NoDrum
  \/ about = "ends" /\ Ends!Init /\ NoRmap /\ NoDrum

Next ==
  \/ about = "kernelmap" /\ Kernelmap!Next /\ UNCHANGED <<about, drumvars, kmemvars>>
  \/ about = "swapmap" /\ Swapmap!Next /\ UNCHANGED <<about, drumvars, kmemvars>>
  \/ about = "drum1" /\ Drum1!Next /\ UNCHANGED <<about, rmapvars, kmemvars>>
  \/ about = "drum2" /\ Drum2!Next /\ UNCHANGED <<about, rmapvars, kmemvars>>
  \/ about = "words" /\ Words!Next /\ UNCHANGED <<about, rmapvars, drumvars>>
  \/ about = "ends" /\ Ends!Next /\ UNCHANGED <<about, rmapvars, drumvars>>

Spec == Init /\ [][Next]_<<about, rmapvars, drumvars, kmemvars, panicked>>

-----------------------------------------------------------------------------
\* Every unit of space is in one place: a unit of a map is free, in use or
\* lost; a unit of swap space free, lost or in one block of one segment; a
\* piece of swapmap lies within one device, and a segment of a process has
\* blocks for all of its size.
SpaceAccounted ==
  /\ about = "kernelmap" => Kernelmap!TypeOK /\ Kernelmap!EveryUnitAccounted
  /\ about = "swapmap" =>
       Swapmap!TypeOK /\ Swapmap!EveryUnitAccounted /\ Swapmap!WithinOneDevice
  /\ about = "drum1" =>
       Drum1!TypeOK /\ Drum1!SwapSpaceAccounted /\ Drum1!BlocksForSize
  /\ about = "drum2" =>
       Drum2!TypeOK /\ Drum2!SwapSpaceAccounted /\ Drum2!BlocksForSize

\* Free space is kept in order: the segments of a map sorted and combined, the
\* blocks of the heap in a Cartesian tree of which no two touch.  No user who
\* gives back what he was given makes an allocator panic; an interrupt routine
\* that finds need_to_free[] full does, which is not meant.
FreeSpaceInOrder ==
  /\ Kernelmap!SortedAndCombined
  /\ Words!Cartesian /\ Words!Coalesced
  /\ panicked => about = "ends"

\* Nobody sleeps on kernelmap while a segment is large enough.
NobodySleepsOnSpace == about = "kernelmap" => Kernelmap!NobodySleepsOnSpace

\* Rmap implements RmapSpec (with the pieces of the larger map): no unit is
\* handed out while someone has it, and a unit is lost only by a step that
\* finds the table full.  A refused swpexpand() leaves all segments as they were.
\* Kmem implements KmemSpec: no byte is lost or handed out twice.
AllocatorsKeepPromises ==
  /\ Swapmap!Abstract!Init
  /\ [][/\ about = "kernelmap" => Swapmap!Abstract!Next
        /\ about = "swapmap" => Swapmap!Abstract!Next]_<<Swapmap!Free(map), used>>
  /\ Kernelmap!LossOnlyWhenFull
  /\ [][/\ about = "drum1" => Drum1!Retracts
        /\ about = "drum2" => Drum2!Retracts]_drumvars
  /\ Words!Promised!Init
  /\ [][/\ about = "words" => Words!Promised!Next
        /\ about = "ends" => Ends!Promised!Next]_<<Words!FreeBytes, alloc>>
=============================================================================
