------------------------------ MODULE SinList ------------------------------
(***************************************************************************)
(* Intrusive singly linked lists: struct sin_list of sin_list.h and the    *)
(* head/tail/length triple that struct sin_wi_queue embeds.                *)
(*                                                                         *)
(* A list is the record of its head, its tail and its length.  The links   *)
(* themselves live in the linked objects (sin_type_linkable.sin_next), so  *)
(* an operation that changes links comes as a pair of operators: X gives   *)
(* the new list record and XLinks the new links.  `next' maps every object *)
(* to its sin_next.                                                        *)
(***************************************************************************)
EXTENDS Integers, Sequences

CONSTANT NULL

\* SIN_LIST_RESET, and the zeroed queue of sin_wi_queue_ctor
EmptyList == [head |-> NULL, tail |-> NULL, len |-> 0]

\* A list of one object whose sin_next is NULL
Single(p) == [head |-> p, tail |-> p, len |-> 1]

\* Append list m to list l: the branch on head == NULL that
\* sin_list_append, put_item, put_items and get_items all share
Splice(l, m) ==
    IF l.head = NULL THEN m
    ELSE [head |-> l.head, tail |-> m.tail, len |-> l.len + m.len]

\* (faulty: the batch is linked behind the head instead of the tail)
SpliceLinksAtHead(next, l, m) ==
    IF l.head = NULL THEN next ELSE [next EXCEPT ![l.head] = m.head]

SpliceLinks(next, l, m) ==
    IF l.head = NULL THEN next ELSE [next EXCEPT ![l.tail] = m.head]

\* (faulty: the tail is not reset with the last object)
PopStaleTail(next, l) == [head |-> next[l.head], tail |-> l.tail, len |-> l.len - 1]

\* Drop the first object of l; the tail is forgotten with the last object
Pop(next, l) ==
    [head |-> next[l.head],
     tail |-> IF next[l.head] = NULL THEN NULL ELSE l.tail,
     len  |-> l.len - 1]

-----------------------------------------------------------------------------
(* The sequence s of objects is what the list l, read along the links next,*)
(* stands for.                                                             *)
IsListOf(l, next, s) ==
    /\ l.len = Len(s)
    /\ s = <<>> => l = EmptyList
    /\ s # <<>> => /\ l.head = s[1]
                   /\ l.tail = s[Len(s)]
                   /\ \A i \in 1 .. Len(s) - 1 : next[s[i]] = s[i + 1]
                   /\ next[s[Len(s)]] = NULL
=============================================================================
