----------------------------- MODULE PageMapper -----------------------------
(***************************************************************************)
(* The MMU of wl_char_roi: class SingleNode of                             *)
(* Workload_Char/include/System/mmu.hh, for its one core.  A page of the   *)
(* program gets a frame of its own the first time it is touched and keeps  *)
(* it.  The constructor shuffles the free frames, so any of them may be    *)
(* the first: free_frame_pool is a set.                                    *)
(***************************************************************************)
EXTENDS Integers

CONSTANTS Frames,   \* frames of the simulated memory
          page_size

ASSUME PageAssumption ==
  /\ Frames \subseteq Nat
  /\ page_size \in Nat \ {0}

VARIABLES pages,           \* pages_by_cores[0]: the frame of each page touched
          free_frame_pool, used_frame_pool

mmu == <<pages, free_frame_pool, used_frame_pool>>

MMUTypeOK ==
  /\ DOMAIN pages \subseteq Nat /\ pages \in [DOMAIN pages -> Frames]
  /\ free_frame_pool \subseteq Frames /\ used_frame_pool \subseteq Frames

MMUInit ==
  /\ pages = [p \in {} |-> 0]
  /\ free_frame_pool = Frames /\ used_frame_pool = {}

pageOf(va) == va \div page_size

\* Mutant of physical: the page number of va is not masked.
physical_unmasked(frame, va) == page_size * frame + va

\* The physical address that va2pa leaves in the request.
physical(frame, va) == page_size * frame + (va % page_size)

\* Mutants of mapPage: the frame stays in the pool; it is not marked as used; the
\* page remembers the address of its frame.
mapPage_kept(page, frame) ==
  /\ free_frame_pool' = free_frame_pool
  /\ used_frame_pool' = used_frame_pool \cup {frame}
  /\ pages' = [p \in DOMAIN pages \cup {page} |-> IF p = page THEN frame ELSE pages[p]]

mapPage_unmarked(page, frame) ==
  /\ free_frame_pool' = free_frame_pool \ {frame}
  /\ used_frame_pool' = used_frame_pool
  /\ pages' = [p \in DOMAIN pages \cup {page} |-> IF p = page THEN frame ELSE pages[p]]

mapPage_address(page, frame) ==
  /\ free_frame_pool' = free_frame_pool \ {frame}
  /\ used_frame_pool' = used_frame_pool \cup {frame}
  /\ pages' = [p \in DOMAIN pages \cup {page} |->
                 IF p = page THEN page_size * frame ELSE pages[p]]

mapPage(page, frame) ==
  /\ free_frame_pool' = free_frame_pool \ {frame}
  /\ used_frame_pool' = used_frame_pool \cup {frame}
  /\ pages' = [p \in DOMAIN pages \cup {page} |-> IF p = page THEN frame ELSE pages[p]]

\* va2pa finds frame for the page of va, or takes it from the pool.  The code
\* does not test that the pool is not empty: the simulated memory has to be
\* larger than what the program touches.
va2pa(va, frame) ==
  \/ /\ pageOf(va) \in DOMAIN pages /\ frame = pages[pageOf(va)]
     /\ UNCHANGED mmu
  \/ /\ pageOf(va) \notin DOMAIN pages /\ frame \in free_frame_pool
     /\ mapPage(pageOf(va), frame)

-----------------------------------------------------------------------------
\* Two pages of the program never share a frame, and a frame is free or used but
\* not both: no two addresses of the program look alike to the caches.
FramesExclusive ==
  /\ \A p, q \in DOMAIN pages : pages[p] = pages[q] => p = q
  /\ used_frame_pool = {pages[p] : p \in DOMAIN pages}
  /\ free_frame_pool = Frames \ used_frame_pool
=============================================================================
