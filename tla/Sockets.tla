------------------------------ MODULE Sockets ------------------------------
(***************************************************************************)
(* The calls on sockets: sin_socket with the reference count of its        *)
(* instance, sin_bind, sin_connect and sin_close with the memory of        *)
(* addresses.  The count is changed by plain loads and stores; a socket is *)
(* used by one thread at a time.                                           *)
(***************************************************************************)
EXTENDS Integers, FiniteSets

CONSTANTS Threads,
          Sockets, Blocks,   \* memory for sockets, and for addresses
          Short, Long,       \* two addresses, of different lengths
          NULL,
          MaxRef             \* bound on the reference count

ASSUME SocketsAssumption == MaxRef \in Nat \ {0} /\ Short # Long /\ NULL \notin Blocks \cup {Short, Long}

Addr == {Short, Long}
End == {"src", "dst"}

VARIABLES
    nref,     \* sip->sin_nref
    tpc,      \* where a thread is in sin_socket
    reg,      \* the count it has loaded
    refused,  \* history: a call was answered with EINVAL
    open,     \* sockets there are
    addr,     \* of each: the sin_addr of src and dst, and what its addr points into
    alloc,    \* blocks that are allocated
    data,     \* what is in each block
    bound     \* history: the last address given to sin_bind or sin_connect

refVars == <<nref, tpc, reg, refused>>
memVars == <<addr, alloc, data, bound>>
skVars == <<refVars, open, memVars>>

NoAddr == [blk |-> NULL, at |-> NULL, len |-> NULL]
Unset == [f \in End |-> NoAddr]

\* An instance as sin_init returns it
SkInit ==
    /\ nref = 1 /\ tpc = [t \in Threads |-> "out"] /\ reg = [t \in Threads |-> 0]
    /\ refused = FALSE /\ open = {}
    /\ addr = [s \in Sockets |-> Unset]
    /\ alloc = {} /\ data = [b \in Blocks |-> NULL]
    /\ bound = [s \in Sockets |-> [f \in End |-> NULL]]

Goto(t, l) == tpc' = [tpc EXCEPT ![t] = l]

-----------------------------------------------------------------------------
(* sin_socket                                                              *)

\* SIN_INCREF and SIN_DECREF are a load and a store
Load(t) == /\ \/ tpc[t] = "out" /\ nref < MaxRef /\ Goto(t, "inc")
              \/ tpc[t] = "undo" /\ Goto(t, "dec")
           /\ reg' = [reg EXCEPT ![t] = nref]
           /\ UNCHANGED <<nref, refused, open>>

Increment(t) == /\ tpc[t] = "inc" /\ Goto(t, "check")
                /\ nref' = reg[t] + 1
                /\ UNCHANGED <<reg, refused, open>>

Decrement(t) == /\ tpc[t] = "dec" /\ Goto(t, "out")
                /\ nref' = reg[t] - 1
                /\ UNCHANGED <<reg, refused, open>>

\* A count of 1, loaded again or still in a register, is taken for that of an
\* instance that was not initialized
Check(t) == /\ tpc[t] = "check"
            /\ \E v \in {nref, reg[t] + 1} :
                  /\ Goto(t, IF v = 1 THEN "undo" ELSE "alloc")
                  /\ refused' = (refused \/ v = 1)
            /\ UNCHANGED <<nref, reg, open>>

\* The protocol is not supported, or there is no memory
Reject(t) == /\ tpc[t] = "alloc" /\ Goto(t, "undo")
             /\ UNCHANGED <<nref, reg, refused, open>>

\* (faulty: the count is given back with success, too)
CreateDecref(t) == /\ tpc[t] = "alloc" /\ Goto(t, "undo")
                   /\ \E s \in Sockets \ open : open' = open \cup {s}
                   /\ UNCHANGED <<nref, reg, refused>>

\* A zeroed socket is allocated
Create(t) == /\ tpc[t] = "alloc" /\ Goto(t, "out")
             /\ \E s \in Sockets \ open : open' = open \cup {s}
             /\ UNCHANGED <<nref, reg, refused>>

-----------------------------------------------------------------------------
(* sin_bind (f = "src") and sin_connect (f = "dst")                        *)

\* What realloc has moved to b, then memcpy through addr, wherever it points,
\* and the new length
WriteAddr(s, f, b, at, a) ==
    /\ addr' = [addr EXCEPT ![s][f] = [blk |-> b, at |-> at, len |-> a]]
    /\ data' = [data EXCEPT ![b] = IF addr[s][f] = NoAddr THEN @ ELSE data[addr[s][f].blk],
                            ![at] = a]
    /\ bound' = [bound EXCEPT ![s][f] = a]

SetFirst(s, f, a) ==
    /\ addr[s][f] = NoAddr
    /\ \E b \in Blocks \ alloc : alloc' = alloc \cup {b} /\ WriteAddr(s, f, b, b, a)

\* Not longer than the address before
SetInPlace(s, f, a) ==
    /\ addr[s][f] # NoAddr /\ (a = Long => addr[s][f].len = Long)
    /\ WriteAddr(s, f, addr[s][f].blk, addr[s][f].at, a)
    /\ UNCHANGED alloc

\* (faulty: the result of realloc is not stored)
SetLongerLost(s, f, a) ==
    /\ addr[s][f] # NoAddr /\ a = Long /\ addr[s][f].len = Short
    /\ \E b \in (Blocks \ alloc) \cup {addr[s][f].blk} :
          /\ alloc' = (alloc \ {addr[s][f].blk}) \cup {b}
          /\ WriteAddr(s, f, addr[s][f].blk, addr[s][f].at, a)

\* realloc, which may move the block; addr still points into the old one
SetLonger(s, f, a) ==
    /\ addr[s][f] # NoAddr /\ a = Long /\ addr[s][f].len = Short
    /\ \E b \in (Blocks \ alloc) \cup {addr[s][f].blk} :
          /\ alloc' = (alloc \ {addr[s][f].blk}) \cup {b}
          /\ WriteAddr(s, f, b, addr[s][f].at, a)

\* Without memory a call changes nothing
Set(s, f, a) == s \in open /\ (SetFirst(s, f, a) \/ SetInPlace(s, f, a) \/ SetLonger(s, f, a))

\* sin_close; the reference to the instance is not given back
Close(s) ==
    /\ s \in open /\ open' = open \ {s}
    /\ alloc' = alloc \ {addr[s][f].blk : f \in End}
    /\ addr' = [addr EXCEPT ![s] = Unset]
    /\ bound' = [bound EXCEPT ![s] = [f \in End |-> NULL]]
    /\ UNCHANGED data

SkNext ==
    \/ /\ \E t \in Threads : Load(t) \/ Increment(t) \/ Decrement(t) \/ Check(t) \/ Reject(t) \/ Create(t)
       /\ UNCHANGED memVars
    \/ /\ \E s \in Sockets, f \in End, a \in Addr : Set(s, f, a)
       /\ UNCHANGED <<refVars, open>>
    \/ \E s \in Sockets : Close(s) /\ UNCHANGED refVars

SkSpec == SkInit /\ [][SkNext]_skVars

-----------------------------------------------------------------------------
(* Properties                                                              *)

\* Every block is that of one address of one socket: none is leaked by
\* realloc or sin_close, and none is freed while it is in use.
EachBlockOnce ==
    /\ alloc = {addr[s][f].blk : s \in open, f \in End} \ {NULL}
    /\ \A s1, s2 \in open, f1, f2 \in End :
          addr[s1][f1].blk = addr[s2][f2].blk /\ addr[s1][f1].blk # NULL => s1 = s2 /\ f1 = f2

\* With calls one at a time, the count covers the instance's own reference and
\* every open socket, on every path out of sin_socket.  It may exceed that:
\* closing a socket gives nothing back.
CountCoversSockets == nref >= 1 + Cardinality(open)

\* sin_socket on a live instance is never answered with EINVAL.  With two
\* threads this fails: the count is not changed atomically.
LiveInstanceAccepted == ~refused

\* The address of a socket is the one it was given last.  This fails once
\* realloc has moved a block, since addr still points into the old one.
BoundAddressKept ==
    \A s \in open, f \in End : addr[s][f] # NoAddr => data[addr[s][f].at] = bound[s][f]
=============================================================================
