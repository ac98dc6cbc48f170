----------------------------- MODULE MCWiQueue -----------------------------
(* Small instances of WiQueue for TLC.                                     *)
EXTENDS WiQueue, TLC

CONSTANTS c1, c2

\* The transmit thread: get_items(queue, &pkts_out, 1, 1)
BatchCall == [kind |-> "items", waitok |-> TRUE, return_on_wake |-> TRUE]
\* get_item(queue, 1, 0): waits until there is an item
WaitCall  == [kind |-> "item", waitok |-> TRUE, return_on_wake |-> FALSE]

\* One getter of each kind
MixedCalls == (c1 :> BatchCall) @@ (c2 :> WaitCall)

-----------------------------------------------------------------------------
(* The abstract queue read off the links alone: follow sin_next from head, *)
(* len times.                                                              *)
Walk(l) ==
    LET node[k \in 0 .. l.len] ==
            IF k = 0 THEN l.head
            ELSE IF node[k - 1] = NULL THEN NULL ELSE next[node[k - 1]]
    IN  [k \in 1 .. l.len |-> node[k - 1]]

Linked(c) == IF hand[c] = NULL THEN Walk(list[c])
             ELSE <<hand[c]>> \o Walk(list[c])

LinkedFIFO == INSTANCE WorkQueue WITH fifo <- Walk(list[Q]),
                                      got  <- [c \in Getters |-> Linked(c)]

\* The linked lists themselves, with no help of the history variable,
\* implement the first-in first-out queue: every item put is delivered once,
\* to one getter, in the order of the puts
LinksImplementFIFO == LinkedFIFO!Spec
=============================================================================
