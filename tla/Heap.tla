---------------------------------- MODULE Heap ----------------------------------
(***************************************************************************)
(* The boundary-tag heap of RTOS_Labs_common/heap.c.  Each block of n      *)
(* words lies between two equal tags: n if it is allocated, -n if it is    *)
(* free.  A call is one step: heap.c has no critical section, and this     *)
(* module is about one thread that uses it.  The program frees and writes  *)
(* only what it owns.                                                      *)
(***************************************************************************)
EXTENDS Integers, FiniteSets, FiniteSetsExt

CONSTANTS
  HEAP_SIZE,       (* words of the array                                   *)
  Requests,        (* bound: the desiredBytes of the calls                 *)
  Data,            (* bound: what a program writes into its blocks         *)
  WordAfterHeap    (* what Heap_Free reads one word behind the array       *)

ASSUME HeapAssumption ==
  /\ HEAP_SIZE \in Nat /\ HEAP_SIZE >= 4 /\ HEAP_SIZE % 2 = 0
  /\ Requests \subseteq Nat
  /\ Data \subseteq Int
  /\ WordAfterHeap \in Nat   (* heap_stats.size in the build               *)

NULL == 0   (* no block starts at heap[0], which is a tag                  *)

VARIABLES
  heap,         (* the array                                               *)
  heap_stats,   (* used and free bytes; size never changes                 *)
  owned,        (* the program's blocks: pointer -> words it may use       *)
  result        (* the pointer the last call returned                      *)

vars == <<heap, heap_stats, owned, result>>

-----------------------------------------------------------------------------
(* Helpers.  As in OSKernel an operator that no action uses is a mutant of *)
(* the definition behind it.                                               *)

abs(x) == IF x >= 0 THEN x ELSE -x

(* The words of a request, rounded up. *)
NumWords(bytes) == (bytes + 3) \div 4

RoundedDown(bytes) == 2 * ((bytes \div 4 + 1) \div 2)

(* The words of its block, an even number. *)
numBlocks(bytes) == 2 * ((NumWords(bytes) + 1) \div 2)

(* The indices the walk of Heap_Malloc visits: the first tag of each block. *)
Starts(h) ==
  LET From[i \in Nat] ==
        IF i >= HEAP_SIZE THEN {} ELSE {i} \cup From[i + abs(h[i]) + 2]
  IN  From[0]

Fits(h, n) == {i \in Starts(h) : h[i] <= -n}

(* The walk ends at the first block that fits, and at a tag 0, which only a
   free block without words has: the room behind it is not seen. *)
Found(h, n) ==
  /\ Fits(h, n) # {}
  /\ \A i \in Starts(h) : 0 < i /\ i < Min(Fits(h, n)) => h[i] # 0

NoRemainder(h, i, n) == [h EXCEPT ![i] = n, ![i - h[i] + 1] = n]

Split(h, i, n) ==
  LET rest == h[i] + n + 2
  IN  [h EXCEPT ![i] = n, ![i + n + 1] = n, ![i + n + 2] = rest, ![i - h[i] + 1] = rest]

(* The heap and its statistics after an allocation of n words at i. *)
Allocated(m, i, n) ==
  IF m.heap[i] = -n
  THEN [heap |-> [m.heap EXCEPT ![i] = n, ![i + n + 1] = n],
        used |-> m.used + 4 * n, free |-> m.free - 4 * n]
  ELSE [heap |-> Split(m.heap, i, n),
        used |-> m.used + 4 * n, free |-> m.free - (4 * n + 8)]

(* What Heap_Malloc does with the memory m, and the pointer it returns. *)
Malloc(m, bytes) ==
  LET n == numBlocks(bytes)
  IN  IF bytes <= 0 \/ ~Found(m.heap, n) THEN [mem |-> m, ptr |-> NULL]
      ELSE LET i == Min(Fits(m.heap, n))
           IN  [mem |-> Allocated(m, i, n), ptr |-> i + 1]

Marked(m, i) ==
  LET n == m.heap[i]
  IN  [heap |-> [m.heap EXCEPT ![i] = -n, ![i + n + 1] = -n],
       used |-> m.used - 4 * n, free |-> m.free + 4 * n]

MergeUncounted(m, i, j) ==
  LET new == m.heap[i] + m.heap[j] - 2
  IN  [m EXCEPT !.heap = [@ EXCEPT ![j] = 0, ![j - 1] = 0, ![i] = new, ![i - new + 1] = new]]

(* The free blocks that start at i and j become one; its inner tags are
   cleared and count as free. *)
Merge(m, i, j) ==
  LET new == m.heap[i] + m.heap[j] - 2
  IN  [m EXCEPT !.heap = [@ EXCEPT ![j] = 0, ![j - 1] = 0, ![i] = new, ![i - new + 1] = new],
                !.free = @ + 8]

(* The start of the block at i after it was merged with the one before. *)
PreviousStart(m, i) ==
  IF i > 0 /\ m.heap[i - 1] < 0 THEN i - 1 + m.heap[i - 1] - 1 ELSE i

MergedPrevious(m, i) ==
  IF PreviousStart(m, i) = i THEN m ELSE Merge(m, PreviousStart(m, i), i)

(* The word at index i; the last block's successor is behind the array. *)
WordAt(h, i) == IF i < HEAP_SIZE THEN h[i] ELSE WordAfterHeap

NotMerged(m, i) == m

MergedAnyNext(m, i) ==
  LET j == i - m.heap[i] + 2
  IN  IF j < HEAP_SIZE THEN Merge(m, i, j) ELSE m

MergedNext(m, i) ==
  LET j == i - m.heap[i] + 2
  IN  IF WordAt(m.heap, j) < 0 THEN Merge(m, i, j) ELSE m

(* What Heap_Free does with the memory m and a pointer p to an allocated
   block (for a free one, tag < 0, it returns 1 and does nothing). *)
Freed(m, p) ==
  LET marked == Marked(m, p - 1)
  IN  MergedNext(MergedPrevious(marked, p - 1), PreviousStart(marked, p - 1))

-----------------------------------------------------------------------------
Heap_Init ==
  /\ heap = [i \in 0..HEAP_SIZE - 1 |->
               IF i \in {0, HEAP_SIZE - 1} THEN -(HEAP_SIZE - 2) ELSE 0]
  /\ heap_stats = [used |-> 0, free |-> 4 * (HEAP_SIZE - 2)]
  /\ owned = [p \in {} |-> 0]
  /\ result = NULL

Memory == [heap |-> heap, used |-> heap_stats.used, free |-> heap_stats.free]

SetMemory(m) ==
  /\ heap' = m.heap
  /\ heap_stats' = [used |-> m.used, free |-> m.free]

(* The program owns the block it is given besides the blocks others. *)
Give(p, bytes, others) ==
  owned' = IF p = NULL THEN others
           ELSE [q \in DOMAIN others \cup {p} |-> IF q = p THEN NumWords(bytes) ELSE others[q]]

NotOwned(p) == [q \in DOMAIN owned \ {p} |-> owned[q]]

Heap_Malloc(bytes) ==
  LET r == Malloc(Memory, bytes)
  IN  /\ SetMemory(r.mem)
      /\ Give(r.ptr, bytes, owned)
      /\ result' = r.ptr

(* The loop clears the words from the second on. *)
Cleared(h, p, n) == [i \in DOMAIN h |-> IF i \in p + 1..p + n - 1 THEN 0 ELSE h[i]]

Heap_Calloc(bytes) ==
  LET r == Malloc(Memory, bytes)
  IN  /\ SetMemory(IF r.ptr = NULL THEN r.mem
                   ELSE [r.mem EXCEPT !.heap = Cleared(@, r.ptr, NumWords(bytes))])
      /\ Give(r.ptr, bytes, owned)
      /\ result' = r.ptr

Heap_Free(p) ==
  /\ p \in DOMAIN owned
  /\ heap[p - 1] >= 0
  /\ SetMemory(Freed(Memory, p))
  /\ owned' = NotOwned(p)
  /\ UNCHANGED result

(* The old block is kept if it has exactly the words asked for.  Otherwise
   it is freed first, so it is gone when the allocation fails. *)
Heap_Realloc(p, bytes) ==
  /\ p \in DOMAIN owned
  /\ IF bytes # 0 /\ heap[p - 1] = NumWords(bytes)
     THEN /\ owned' = [owned EXCEPT ![p] = NumWords(bytes)]
          /\ result' = p
          /\ UNCHANGED <<heap, heap_stats>>
     ELSE LET r == Malloc(Freed(Memory, p), bytes)
          IN  /\ SetMemory(r.mem)
              /\ Give(r.ptr, bytes, NotOwned(p))
              /\ result' = r.ptr

(* The program writes word i of its block. *)
Store(p, i, x) ==
  /\ p \in DOMAIN owned
  /\ i < owned[p]
  /\ heap' = [heap EXCEPT ![p + i] = x]
  /\ UNCHANGED <<heap_stats, owned, result>>

Next ==
  \/ \E bytes \in Requests : Heap_Malloc(bytes)
  \/ \E bytes \in Requests : Heap_Calloc(bytes)
  \/ \E p \in DOMAIN owned :
       \/ Heap_Free(p)
       \/ \E bytes \in Requests : Heap_Realloc(p, bytes)
       \/ \E i \in 0..owned[p] - 1, x \in Data : Store(p, i, x)

Spec == Heap_Init /\ [][Next]_vars

-----------------------------------------------------------------------------
(* Properties.                                                             *)

FreeStarts == {i \in Starts(heap) : heap[i] <= 0}

(* The blocks tile the array and the two tags of each agree, so that
   Heap_Free finds the neighbours of a block from either side, whatever the
   programs have written between the tags. *)
TagsAgree ==
  \A i \in Starts(heap) :
    LET last == i + abs(heap[i]) + 1
    IN  last < HEAP_SIZE /\ heap[last] = heap[i]

(* The allocated blocks are exactly those the program owns, each with room
   for what was asked: heap.c loses no block and gives none twice. *)
OwnedExactly ==
  /\ DOMAIN owned = {i + 1 : i \in Starts(heap) \ FreeStarts}
  /\ \A p \in DOMAIN owned : owned[p] <= heap[p - 1]

(* The sum of the tags at the indices S. *)
TagSum(h, S) == MapThenSumSet(LAMBDA i : h[i], S)

(* Heap_Stats reports the words of the free and of the allocated blocks: the
   running sums of Heap_Malloc and Heap_Free never drift from the tags. *)
StatsMatch ==
  /\ heap_stats.used = 4 * TagSum(heap, Starts(heap) \ FreeStarts)
  /\ heap_stats.free = -4 * TagSum(heap, FreeStarts)

(* No two free blocks are neighbours, but for those without words. *)
Coalesced ==
  \A i \in Starts(heap) :
    heap[i] < 0 => LET j == i - heap[i] + 2 IN j < HEAP_SIZE => heap[j] >= 0

(* The heap implements Allocator: owned blocks are disjoint, and calls about
   one block leave the contents of the others alone. *)
A == INSTANCE Allocator WITH
  Addresses <- 0..HEAP_SIZE - 1,
  Sizes     <- {NumWords(bytes) : bytes \in Requests \ {0}},
  live      <- [p \in DOMAIN owned |-> [i \in 0..owned[p] - 1 |-> heap[p + i]]]

ImplementsAllocator == A!Spec

(* Heap_Malloc returns NULL only if no free block has room. *)
NullOnlyWithoutRoom ==
  [][\A bytes \in Requests :
       bytes > 0 /\ Heap_Malloc(bytes) /\ result' = NULL => Fits(heap, numBlocks(bytes)) = {}]_vars
=============================================================================
