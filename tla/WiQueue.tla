------------------------------ MODULE WiQueue ------------------------------
(***************************************************************************)
(* The work-item queue of sin_wi_queue.c: a list of linkable objects       *)
(* guarded by a mutex and a condition variable.                            *)
(*                                                                         *)
(* One action is one critical section (what runs between the lock, or the  *)
(* return of pthread_cond_wait, and the unlock or the next wait), since    *)
(* nothing it touches is touched without the mutex.  What a caller does    *)
(* with objects it owns, outside the mutex, are actions of their own: a    *)
(* producer building its batch with sin_list_append, get_item clearing     *)
(* the link of the object it popped, the transmit loop taking its batch    *)
(* apart and giving each object back.                                      *)
(***************************************************************************)
EXTENDS SinList, FiniteSets, Functions

CONSTANTS Items,      \* the linkable objects (packets, signals)
          Putters,    \* threads that call put_items
          Getters,    \* threads that call get_item or get_items
          Call,       \* the call each getter makes: kind, waitok, return_on_wake
          MaxQLens,   \* the values of maxqlen that put_item is given
          Q           \* the queue, as the owner of a list

Owners == {Q} \cup Putters \cup Getters

ASSUME QueueAssumption ==
    /\ NULL \notin Items
    /\ IsFiniteSet(Getters)
    /\ Q \notin Putters \cup Getters
    /\ Putters \cap Getters = {}
    /\ Call \in [Getters -> [kind : {"item", "items"}, waitok : BOOLEAN,
                             return_on_wake : BOOLEAN]]
    /\ MaxQLens \subseteq Nat

VARIABLES
    list,       \* list[Q] is the queue; list[t] the local sin_list of thread t
    next,       \* sin_next of every object
    nwait,      \* queue->nwait
    gpc,        \* where each getter is
    hand,       \* the object a getter is working on outside any list
    free,       \* the objects nobody owns: not busy, ready to be put again
    contents    \* history: the objects of each list, in order

vars == <<list, next, nwait, gpc, hand, free, contents>>

List == [head : Items \cup {NULL}, tail : Items \cup {NULL}, len : Nat]

Blocked == {c \in Getters : gpc[c] = "wait"}            \* in pthread_cond_wait
Waiters == {c \in Getters : gpc[c] \in {"wait", "woken"}}

Init == /\ list = [o \in Owners |-> EmptyList]
        /\ next = [p \in Items |-> NULL]
        /\ nwait = 0
        /\ gpc = [c \in Getters |-> "idle"]
        /\ hand = [c \in Getters |-> NULL]
        /\ free = Items
        /\ contents = [o \in Owners |-> <<>>]

-----------------------------------------------------------------------------
(* Putting                                                                 *)

\* (faulty: the signal is left out)
NotifyNobody == gpc' = gpc

\* if (queue->nwait > 0) pthread_cond_signal(&queue->cond): wakes one of the
\* threads blocked on the condition, if there is one
NotifyWorker ==
    IF nwait > 0 /\ Blocked # {}
    THEN \E c \in Blocked : gpc' = [gpc EXCEPT ![c] = "woken"]
    ELSE gpc' = gpc

\* sin_list_append on the producer's own list, as dequeue_pkts and the
\* sorter build their batches
ListAppend(t, p) ==
    /\ p \in free
    /\ list' = [list EXCEPT ![t] = Splice(@, Single(p))]
    /\ next' = SpliceLinks(next, list[t], Single(p))
    /\ free' = free \ {p}
    /\ contents' = [contents EXCEPT ![t] = Append(@, p)]
    /\ UNCHANGED <<nwait, gpc, hand>>

\* sin_wi_queue_put_items, then the caller's SIN_LIST_RESET.  Callers put
\* non-empty lists only.
PutItems(t) ==
    /\ list[t].len # 0
    /\ list' = [list EXCEPT ![Q] = Splice(@, list[t]), ![t] = EmptyList]
    /\ next' = SpliceLinks(next, list[Q], list[t])
    /\ NotifyWorker
    /\ contents' = [contents EXCEPT ![Q] = @ \o contents[t], ![t] = <<>>]
    /\ UNCHANGED <<nwait, hand, free>>

QueueFull(maxqlen) == maxqlen > 0 /\ list[Q].len >= maxqlen

\* sin_wi_queue_put_item
PutItem(p, maxqlen) ==
    /\ p \in free
    /\ ~QueueFull(maxqlen)
    /\ list' = [list EXCEPT ![Q] = Splice(@, Single(p))]
    /\ next' = SpliceLinks([next EXCEPT ![p] = NULL], list[Q], Single(p))
    /\ NotifyWorker
    /\ free' = free \ {p}
    /\ contents' = [contents EXCEPT ![Q] = Append(@, p)]
    /\ UNCHANGED <<nwait, hand>>

\* sin_wi_queue_put_item refusing the item, and sin_wi_queue_pump: both only
\* notify the worker
RefuseItem(maxqlen) ==
    /\ QueueFull(maxqlen)
    /\ NotifyWorker
    /\ UNCHANGED <<list, next, nwait, hand, free, contents>>

Pump == /\ NotifyWorker
        /\ UNCHANGED <<list, next, nwait, hand, free, contents>>

-----------------------------------------------------------------------------
(* Getting                                                                 *)

\* get_item: unlink the first object; its own link is cleared after the unlock
TakeItem(c) ==
    /\ Call[c].kind = "item"
    /\ hand' = [hand EXCEPT ![c] = list[Q].head]
    /\ list' = [list EXCEPT ![Q] = Pop(next, @)]
    /\ gpc' = [gpc EXCEPT ![c] = "unlink"]
    /\ contents' = [contents EXCEPT ![Q] = Tail(@)]
    /\ UNCHANGED next

\* get_items: move the whole queue behind what the getter's list holds
TakeItems(c) ==
    /\ Call[c].kind = "items"
    /\ list' = [list EXCEPT ![c] = Splice(@, list[Q]), ![Q] = EmptyList]
    /\ next' = SpliceLinks(next, list[c], list[Q])
    /\ gpc' = [gpc EXCEPT ![c] = "idle"]
    /\ contents' = [contents EXCEPT ![c] = @ \o contents[Q], ![Q] = <<>>]
    /\ UNCHANGED hand

Take(c) == TakeItem(c) \/ TakeItems(c)

\* The call, with work in the queue
GetNow(c) ==
    /\ gpc[c] = "idle"
    /\ list[Q].head # NULL
    /\ Take(c)
    /\ UNCHANGED <<nwait, free>>

\* (faulty: no nwait++)
StartWaitUncounted(c) ==
    /\ gpc[c] = "idle" /\ list[Q].head = NULL /\ Call[c].waitok
    /\ gpc' = [gpc EXCEPT ![c] = "wait"]
    /\ UNCHANGED <<list, next, nwait, hand, free, contents>>

\* The call, with an empty queue: only a caller with waitok waits (the others
\* return at once and change nothing)
StartWait(c) ==
    /\ gpc[c] = "idle"
    /\ list[Q].head = NULL
    /\ Call[c].waitok
    /\ nwait' = nwait + 1
    /\ gpc' = [gpc EXCEPT ![c] = "wait"]
    /\ UNCHANGED <<list, next, hand, free, contents>>

\* pthread_cond_wait may return without a signal
SpuriousWakeup(c) ==
    /\ gpc[c] = "wait"
    /\ gpc' = [gpc EXCEPT ![c] = "woken"]
    /\ UNCHANGED <<list, next, nwait, hand, free, contents>>

\* A woken getter has the mutex again
WakeTake(c) ==
    /\ gpc[c] = "woken"
    /\ list[Q].head # NULL
    /\ nwait' = nwait - 1
    /\ Take(c)
    /\ UNCHANGED free

WakeReturn(c) ==
    /\ gpc[c] = "woken"
    /\ list[Q].head = NULL
    /\ Call[c].return_on_wake
    /\ nwait' = nwait - 1
    /\ gpc' = [gpc EXCEPT ![c] = "idle"]
    /\ UNCHANGED <<list, next, hand, free, contents>>

\* nwait-- and, around the loop, nwait++ again
WakeWait(c) ==
    /\ gpc[c] = "woken"
    /\ list[Q].head = NULL
    /\ ~Call[c].return_on_wake
    /\ gpc' = [gpc EXCEPT ![c] = "wait"]
    /\ UNCHANGED <<list, next, nwait, hand, free, contents>>

\* (faulty: the link is left in place)
UnlinkForgotten(c) ==
    /\ gpc[c] = "unlink"
    /\ gpc' = [gpc EXCEPT ![c] = "hold"]
    /\ UNCHANGED <<list, next, nwait, hand, free, contents>>

\* wi->sin_next = NULL, after get_item's unlock
Unlink(c) ==
    /\ gpc[c] = "unlink"
    /\ next' = [next EXCEPT ![hand[c]] = NULL]
    /\ gpc' = [gpc EXCEPT ![c] = "hold"]
    /\ UNCHANGED <<list, nwait, hand, free, contents>>

\* (faulty: the object is given back before the loop is through with it)
NextOutReturned(c) ==
    /\ gpc[c] = "idle" /\ list[c].head # NULL
    /\ hand' = [hand EXCEPT ![c] = list[c].head]
    /\ list' = [list EXCEPT ![c] = Pop(next, @)]
    /\ free' = free \cup {list[c].head}
    /\ gpc' = [gpc EXCEPT ![c] = "unlink"]
    /\ contents' = [contents EXCEPT ![c] = Tail(@)]
    /\ UNCHANGED <<next, nwait>>

\* The transmit loop steps to the next object of its batch and clears the
\* link of the one it is done with
NextOut(c) ==
    /\ gpc[c] = "idle"
    /\ list[c].head # NULL
    /\ hand' = [hand EXCEPT ![c] = list[c].head]
    /\ list' = [list EXCEPT ![c] = Pop(next, @)]
    /\ next' = [next EXCEPT ![list[c].head] = NULL]
    /\ gpc' = [gpc EXCEPT ![c] = "hold"]
    /\ contents' = [contents EXCEPT ![c] = Tail(@)]
    /\ UNCHANGED <<nwait, free>>

\* sin_pkt_zone_ret_pkt: from here on the object may be put again
Release(c) ==
    /\ gpc[c] = "hold"
    /\ free' = free \cup {hand[c]}
    /\ hand' = [hand EXCEPT ![c] = NULL]
    /\ gpc' = [gpc EXCEPT ![c] = "idle"]
    /\ UNCHANGED <<list, next, nwait, contents>>

-----------------------------------------------------------------------------
Getter(c) == \/ GetNow(c) \/ StartWait(c)
             \/ WakeTake(c) \/ WakeReturn(c) \/ WakeWait(c)
             \/ Unlink(c) \/ NextOut(c) \/ Release(c)

Next == \/ \E t \in Putters : PutItems(t) \/ \E p \in Items : ListAppend(t, p)
        \/ \E m \in MaxQLens : RefuseItem(m) \/ \E p \in Items : PutItem(p, m)
        \/ Pump
        \/ \E c \in Getters : Getter(c) \/ SpuriousWakeup(c)

Spec == Init /\ [][Next]_vars

\* Every getter is a thread that keeps running; nothing makes producers put,
\* and nothing but a signal is sure to end a wait
FairSpec == Spec /\ \A c \in Getters : WF_vars(Getter(c))

-----------------------------------------------------------------------------
TypeOK ==
    /\ list \in [Owners -> List]
    /\ next \in [Items -> Items \cup {NULL}]
    /\ nwait \in Nat
    /\ gpc \in [Getters -> {"idle", "wait", "woken", "unlink", "hold"}]
    /\ hand \in [Getters -> Items \cup {NULL}]
    /\ free \in SUBSET Items
    /\ contents \in [Owners -> Seq(Items)]

\* Every list, followed along the links, is exactly the objects that were put
\* on it and not yet taken, in order, with the right length and the right
\* tail: splicing a batch in, cutting the head off and moving the whole queue
\* never lose, repeat or reorder an object.
ListsIntact == \A o \in Owners : IsListOf(list[o], next, contents[o])

\* No object is in two places: on two lists, twice on one, on a list and in a
\* getter's hand, or on a list and free.  An intrusive list has one link per
\* object, so the second owner would cut the first one's list.
OneOwner ==
    /\ \A o1, o2 \in Owners :
         \A i \in 1 .. Len(contents[o1]), j \in 1 .. Len(contents[o2]) :
            contents[o1][i] = contents[o2][j] => o1 = o2 /\ i = j
    /\ \A o \in Owners : \A i \in 1 .. Len(contents[o]) : contents[o][i] \notin free
    /\ \A o \in Owners, c \in Getters : \A i \in 1 .. Len(contents[o]) :
         contents[o][i] # hand[c]
    /\ \A c \in Getters : hand[c] \notin free
    /\ \A c, d \in Getters : hand[c] = hand[d] => c = d \/ hand[c] = NULL

\* The assertion elem->sin_next == NULL of sin_list_append: an object nobody
\* owns carries no link into a list it once was on.
FreeUnlinked == \A p \in free : next[p] = NULL

\* A getter has an object in its hand just where the code does, with its link
\* cleared once the assignment after get_item's unlock is done, and a caller
\* of get_item keeps no list
HandsRight ==
    \A c \in Getters : /\ hand[c] # NULL <=> gpc[c] \in {"unlink", "hold"}
                       /\ gpc[c] = "hold" => next[hand[c]] = NULL
                       /\ Call[c].kind = "item" => contents[c] = <<>>

\* nwait counts the getters between their nwait++ and their nwait--
WaitersCounted == nwait = Cardinality(Waiters)

\* A queue with work in it never has all of its getters asleep: the signal is
\* sent only when nwait says that somebody waits, so a count that is too low,
\* or a put that does not signal, would leave the work there for good.
NoLostWakeup ==
    list[Q].head # NULL => Getters = {} \/ \E c \in Getters : gpc[c] # "wait"

\* Whatever is put on the queue is taken off it
WorkIsTaken ==
    \A p \in Items : p \in Range(contents[Q]) ~> p \notin Range(contents[Q])

-----------------------------------------------------------------------------
(* The queue implements the abstract one.  A getter's items are the one in *)
(* its hand and then its list.                                             *)
Held(c) == IF hand[c] = NULL THEN contents[c] ELSE <<hand[c]>> \o contents[c]

FIFO == INSTANCE WorkQueue WITH fifo <- contents[Q],
                                got  <- [c \in Getters |-> Held(c)]

\* Implements the promise of WorkQueue
ImplementsFIFO == FIFO!Spec
=============================================================================
