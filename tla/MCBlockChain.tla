---------------------------- MODULE MCBlockChain ----------------------------
(***************************************************************************)
(* A small universe of blocks for ChainAudit: two branches from the        *)
(* genesis block whose transactions succeed or fail with what was executed *)
(* before, a third from a1 without transactions, to which the chain can    *)
(* always switch, a block from the future, one with a wrong height and one *)
(* with a wrong state root.                                                *)
(***************************************************************************)
EXTENDS ChainAudit

CONSTANTS A, B, g, a1, a2, a3, b1, b2, b3, c2, c3, bad, root

Pay(from, to, amount, fee) ==
    [type |-> "online", from |-> from, to |-> to, amount |-> amount,
     fee |-> fee, nonce |-> 0, data |-> FALSE]

Hdr(prev, height, timestamp, stateRoot) ==
    [prev |-> prev, height |-> height, timestamp |-> timestamp,
     stateRoot |-> stateRoot, wellFormed |-> TRUE]

MCHeader ==
    (g    :> Hdr(NoBlock, 0, 0, NilRoot)) @@
    (a1   :> Hdr(g,  1, 1, 2)) @@
    (a2   :> Hdr(a1, 2, 2, 2)) @@
    (a3   :> Hdr(a2, 3, 3, 2)) @@
    (b1   :> Hdr(g,  1, 1, 2)) @@
    (b2   :> Hdr(b1, 2, 2, 2)) @@
    (b3   :> Hdr(b2, 3, 4, 2)) @@
    (c2   :> Hdr(a1, 2, 3, 2)) @@
    (c3   :> Hdr(c2, 3, 4, 2)) @@
    (bad  :> Hdr(a1, 3, 2, 2)) @@
    (root :> Hdr(a1, 2, 2, 1))

MCBlockTxs ==
    (g    :> <<>>) @@
    (a1   :> <<Pay(A, B, 2, 0)>>) @@
    (a2   :> <<Pay(A, B, 1, 1), Pay(B, A, 3, 0)>>) @@
    (a3   :> <<>>) @@
    (b1   :> <<Pay(B, A, 1, 1)>>) @@
    (b2   :> <<Pay(A, B, 3, 0)>>) @@
    (b3   :> <<Pay(B, A, 1, 0)>>) @@
    (c2   :> <<>>) @@
    (c3   :> <<>>) @@
    (bad  :> <<>>) @@
    (root :> <<Pay(A, B, 1, 0)>>)

=============================================================================
