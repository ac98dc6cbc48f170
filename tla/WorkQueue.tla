----------------------------- MODULE WorkQueue -----------------------------
(***************************************************************************)
(* What a work-item queue promises its users, with no lists, no mutex and  *)
(* no condition variable: items leave in the order in which they entered,  *)
(* each one exactly once and to exactly one getter.                        *)
(***************************************************************************)
EXTENDS Integers, Sequences, Functions

CONSTANT Getters

VARIABLES fifo,     \* the items put and not yet taken, oldest first
          got       \* per getter, the items it took and has not given back

vars == <<fifo, got>>

Owned == Range(fifo) \cup UNION {Range(got[c]) : c \in Getters}

Init == /\ fifo = <<>>
        /\ got = [c \in Getters |-> <<>>]

\* A batch of items nobody owns enters at the end, in its own order
Put == /\ Len(fifo') > Len(fifo)
       /\ \A i \in 1 .. Len(fifo) : fifo'[i] = fifo[i]
       /\ \A i \in Len(fifo) + 1 .. Len(fifo') :
            /\ fifo'[i] \notin Owned
            /\ \A j \in Len(fifo) + 1 .. Len(fifo') : fifo'[i] = fifo'[j] => i = j
       /\ got' = got

TakeOne(c) == /\ fifo # <<>>
              /\ got' = [got EXCEPT ![c] = Append(@, Head(fifo))]
              /\ fifo' = Tail(fifo)

TakeAll(c) == /\ fifo # <<>>
              /\ got' = [got EXCEPT ![c] = @ \o fifo]
              /\ fifo' = <<>>

\* The getter is through with the oldest item it holds
GiveBack(c) == /\ got[c] # <<>>
               /\ got' = [got EXCEPT ![c] = Tail(@)]
               /\ fifo' = fifo

Next == \/ Put
        \/ \E c \in Getters : TakeOne(c) \/ TakeAll(c) \/ GiveBack(c)

Spec == Init /\ [][Next]_vars
=============================================================================
