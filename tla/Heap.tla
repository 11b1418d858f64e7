-------------------------------- MODULE Heap --------------------------------
(***************************************************************************)
(* The heap of core/mem.c, from which PBUF_RAM buffers come: blocks in one *)
(* array, each with the offsets of its neighbours, and lfree, below which  *)
(* no block is free.  Every operation holds mem_mutex, so it is one step;  *)
(* mem_trim reads its own block's size before it takes the mutex, which no *)
(* other thread can change.  Sizes and offsets count alignment units.      *)
(***************************************************************************)
EXTENDS Integers, FiniteSets, FiniteSetsExt

CONSTANTS
  MEM_SIZE,            \* MEM_SIZE_ALIGNED
  SIZEOF_STRUCT_MEM,
  MIN_SIZE,            \* MIN_SIZE_ALIGNED
  HeapSizes            \* the sizes asked for; empty: the heap is not used

ASSUME HeapAssumption ==
  /\ MEM_SIZE \in Nat /\ SIZEOF_STRUCT_MEM \in Nat \ {0} /\ MIN_SIZE \in Nat \ {0}
  /\ SIZEOF_STRUCT_MEM + MIN_SIZE <= MEM_SIZE
  /\ HeapSizes \subseteq Nat \ {0}

VARIABLES
  mem,       \* struct mem of each block, by its offset
  lfree,     \* the lowest free block, or MEM_SIZE for ram_end
  held,      \* what the callers hold: the size each block was asked for
  refused    \* the size for which mem_malloc has just returned NULL, or 0

heapVars == <<mem, lfree, held, refused>>

(* mem_init *)
HeapInit ==
  /\ mem = [b \in {0} |-> [next |-> MEM_SIZE, prev |-> 0, used |-> FALSE]]
  /\ lfree = 0 /\ held = <<>> /\ refused = 0

Blocks == DOMAIN mem
Size(b) == mem[b].next - b - SIZEOF_STRUCT_MEM
Asked(size) == Max({size, MIN_SIZE})

(* ram_end, at MEM_SIZE, is always in use; its prev is never read. *)
Used(m, b) == b = MEM_SIZE \/ m[b].used
SetPrev(m, b, p) == IF b = MEM_SIZE THEN m ELSE [m EXCEPT ![b].prev = p]
With(f, b, v) == [x \in DOMAIN f \cup {b} |-> IF x = b THEN v ELSE f[x]]
Without(f, b) == [x \in DOMAIN f \ {b} |-> f[x]]

(* The block from b up to where it ended is cut at `at': a free block. *)
Cut(m, b, at, end) ==
  SetPrev(With([m EXCEPT ![b].next = at], at, [next |-> end, prev |-> b, used |-> FALSE]), end, at)

(* plug_holes joins a free block to the free blocks beside it. *)
Join(m, b, n) == SetPrev(Without([m EXCEPT ![b].next = m[n].next], n), m[n].next, b)
JoinNext(m, b) == IF Used(m, m[b].next) THEN m ELSE Join(m, b, m[b].next)
JoinPrev_not(m, b) == m
JoinPrev(m, b) == IF m[b].prev = b \/ m[m[b].prev].used THEN m ELSE Join(m, m[b].prev, b)
plug_holes(m, b) == JoinPrev(JoinNext(m, b), b)

(* lfree follows the block that swallows the one it is at. *)
Lowered(b) ==
  LET l == Min({b, lfree}) IN
  IF l = b /\ mem[b].prev # b /\ ~mem[mem[b].prev].used THEN mem[b].prev ELSE l

mem_free(b) ==
  /\ mem' = plug_holes([mem EXCEPT ![b].used = FALSE], b)
  /\ lfree' = Lowered(b)
  /\ held' = Without(held, b) /\ refused' = 0

(* The first block from lfree on that is free and large enough. *)
Fitting(size) ==
  {b \in Blocks : b >= lfree /\ b < MEM_SIZE - size /\ ~mem[b].used /\ Size(b) >= size}
FirstFree(m, from) == Min({b \in DOMAIN m : b >= from /\ ~m[b].used} \cup {MEM_SIZE})
Taken(b, size) ==
  IF Size(b) >= size + SIZEOF_STRUCT_MEM + MIN_SIZE
  THEN [Cut(mem, b, b + SIZEOF_STRUCT_MEM + size, mem[b].next) EXCEPT ![b].used = TRUE]
  ELSE [mem EXCEPT ![b].used = TRUE]
mem_malloc(size) ==
  IF Fitting(Asked(size)) = {} THEN refused' = Asked(size) /\ UNCHANGED <<mem, lfree, held>>
  ELSE \E b \in {Min(Fitting(Asked(size)))} :
       \E m \in {Taken(b, Asked(size))} :
         /\ mem' = m
         /\ lfree' = IF b = lfree THEN FirstFree(m, lfree) ELSE lfree
         /\ held' = With(held, b, size) /\ refused' = 0

(* The rest of the block goes to the free block behind it, or becomes a    *)
(* block of its own if it is large enough to be one.                       *)
mem_trim(b, size) ==
  LET n == mem[b].next
      at == b + SIZEOF_STRUCT_MEM + Asked(size) IN
  /\ Asked(size) < Size(b)
  /\ IF ~Used(mem, n)
     THEN /\ mem' = Cut(Without(mem, n), b, at, mem[n].next)
          /\ lfree' = IF lfree = n THEN at ELSE lfree
     ELSE IF Asked(size) + SIZEOF_STRUCT_MEM + MIN_SIZE <= Size(b)
     THEN mem' = Cut(mem, b, at, n) /\ lfree' = Min({lfree, at})
     ELSE UNCHANGED <<mem, lfree>>
  /\ held' = [held EXCEPT ![b] = size] /\ refused' = 0

HeapNext ==
  \/ \E size \in HeapSizes : mem_malloc(size)
  \/ \E b \in DOMAIN held : mem_free(b)
  \/ \E b \in DOMAIN held : \E size \in 1 .. held[b] - 1 : mem_trim(b, size)

HeapSpec == HeapInit /\ [][HeapNext]_heapVars

(* The heap is sound after any sequence of calls: the blocks fill the      *)
(* array, each knows its neighbours, no two neighbours are both free, what *)
(* a caller holds is as large as it asked for and in use, lfree is the     *)
(* lowest free block, and mem_malloc returns NULL only if no free block is *)
(* large enough.                                                           *)
HeapSound ==
  /\ \A b \in Blocks :
       /\ mem[b].next = Min({x \in Blocks \cup {MEM_SIZE} : x > b})
       /\ b > 0 => mem[b].prev \in Blocks /\ mem[mem[b].prev].next = b
       /\ ~mem[b].used => Used(mem, mem[b].next)
       /\ mem[b].used <=> b \in DOMAIN held
  /\ \A b \in DOMAIN held : held[b] <= Size(b)
  /\ lfree = FirstFree(mem, 0)
  /\ \A b \in Blocks : refused # 0 /\ ~mem[b].used => Size(b) < refused
=============================================================================
