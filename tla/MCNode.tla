------------------------------- MODULE MCNode -------------------------------
(***************************************************************************)
(* Blocks for the runs of Node, which take some of them: a main branch a,  *)
(* a fork c at a1, a block x of a wrong height, and a proposal p of this   *)
(* node.                                                                   *)
(***************************************************************************)
EXTENDS Node

CONSTANTS A, B, g, a1, a2, a3, c2, c3, x1, p2

Pay(from, to, amount) ==
    [type |-> "online", from |-> from, to |-> to, amount |-> amount,
     fee |-> 0, nonce |-> 0, data |-> FALSE]

Hdr(prev, height, timestamp, stateRoot) ==
    [prev |-> prev, height |-> height, timestamp |-> timestamp,
     stateRoot |-> stateRoot, wellFormed |-> TRUE]

AllHeaders ==
    (g  :> Hdr(NoBlock, 0, 0, NilRoot)) @@
    (a1 :> Hdr(g,  1, 1, 0)) @@
    (a2 :> Hdr(a1, 2, 2, 0)) @@
    (a3 :> Hdr(a2, 3, 3, 0)) @@
    (c2 :> Hdr(a1, 2, 2, 2)) @@
    (c3 :> Hdr(c2, 3, 3, 2)) @@
    (x1 :> Hdr(a2, 1, 3, 0)) @@
    (p2 :> Hdr(a1, 2, 2, NilRoot))

AllTxs ==
    [b \in {g, a1, a2, a3, c2, c3, x1, p2} |->
        CASE b = c2 -> <<Pay(A, B, 2)>>
          [] b = c3 -> <<Pay(A, B, 1)>>
          [] b = p2 -> <<Pay(A, B, 1)>>
          [] OTHER  -> <<>>]

MCHeader == [b \in Block |-> AllHeaders[b]]
MCBlockTxs == [b \in Block |-> AllTxs[b]]

ConstantReward == [h \in Heights |-> 3]

=============================================================================
