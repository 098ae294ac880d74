------------------------------- MODULE Allocator -------------------------------
(***************************************************************************)
(* What a heap promises the programs that use it: the blocks they own lie  *)
(* in the heap, never overlap, and no call changes a word of a block other *)
(* than the one it is about.  What a new or a resized block contains is    *)
(* not promised, nor that a request succeeds.                              *)
(***************************************************************************)
EXTENDS Integers

CONSTANTS Addresses,   (* the words of the heap                            *)
          Sizes        (* the sizes asked for, in words                    *)

VARIABLE live          (* the owned blocks: address -> offset -> word      *)

Block(p, n) == p..p + n - 1

Words(l, q) == {q + i : i \in DOMAIN l[q]}

Without(p) == [q \in DOMAIN live \ {p} |-> live[q]]

Init == live = [q \in {} |-> <<>>]

(* One more block than the blocks others that stay. *)
Obtain(others, n) ==
  \E p \in Addresses :
    /\ Block(p, n) \subseteq Addresses
    /\ \A q \in DOMAIN others : Words(others, q) \cap Block(p, n) = {}
    /\ DOMAIN live' = DOMAIN others \cup {p}
    /\ DOMAIN live'[p] = 0..n - 1
    /\ \A q \in DOMAIN others : live'[q] = others[q]

Release(p) == live' = Without(p)

(* The owner writes a word of its block. *)
Store(p, i) ==
  /\ DOMAIN live' = DOMAIN live
  /\ \A q \in DOMAIN live : /\ DOMAIN live'[q] = DOMAIN live[q]
                            /\ \A j \in DOMAIN live[q] :
                                 <<q, j>> # <<p, i>> => live'[q][j] = live[q][j]

Next ==
  \/ \E n \in Sizes : Obtain(live, n)
  \/ \E p \in DOMAIN live :
       \/ Release(p)
       \/ \E n \in Sizes : Obtain(Without(p), n)
       \/ \E i \in DOMAIN live[p] : Store(p, i)

Spec == Init /\ [][Next]_live
=============================================================================
