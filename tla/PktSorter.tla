----------------------------- MODULE PktSorter -----------------------------
(***************************************************************************)
(* The sorter of a receive thread while entries are registered with it:    *)
(* sin_sorter_reg is called on a running instance, and neither it nor the  *)
(* receive thread takes a lock.  sin_pkt_sorter_proc walks the list of     *)
(* entries once for each packet and once more to hand out the work lists.  *)
(* A step is one load or store of what the threads share.                  *)
(***************************************************************************)
EXTENDS Naturals, Sequences, FiniteSets

CONSTANTS Registrars,     \* threads that call sin_sorter_reg
          Entries,        \* the ps_entry objects they allocate
          Default,        \* the sorter's own work list and consumer
          NULL,
          MaxBatch,       \* packets in a batch, at most
          StoresInOrder   \* stores become visible in the order of the program

ASSUME SorterAssumption == /\ MaxBatch \in Nat \ {0}
                           /\ StoresInOrder \in BOOLEAN
                           /\ NULL \notin Entries \cup {Default}
                           /\ Default \notin Entries

Pkt == 1 .. MaxBatch

VARIABLES
    accepts,   \* what each entry's pkt_taste accepts
    first,     \* the newest entry
    next,      \* sin_next of each entry
    filled,    \* entries whose pkt_taste, pkt_consume and arg are set
    ent, old,  \* of a registrar: its entry, and the value of first it has read
    todo,      \* the stores of sin_pkt_sorter_reg that are not yet visible
    spc,       \* the receive thread: "idle", "sort", "consume" or "crashed"
    pl,        \* packets it has yet to sort
    psep,      \* its position in the list of entries
    wrklist,   \* of each entry and of the sorter
    got,       \* history: who has consumed each packet of this batch
    regs,      \* history: the entries in the order they were put in first
    seen       \* history: how many of them there were when the batch began

regVars == <<first, next, filled, ent, old, todo, regs>>
batchVars == <<spc, pl, psep, wrklist, got, seen>>
psVars == <<accepts, regVars, batchVars>>

\* (faulty: the entry is in the list before it is filled in)
StoresListedFirst == <<"first", "fields", "next">>

Stores == <<"fields", "next", "first">>

PsTypeOK ==
    /\ accepts \in [Entries -> SUBSET Pkt]
    /\ first \in Entries \cup {NULL} /\ next \in [Entries -> Entries \cup {NULL}]
    /\ filled \subseteq Entries
    /\ ent \in [Registrars -> Entries \cup {NULL}]
    /\ old \in [Registrars -> Entries \cup {NULL}]
    /\ todo \in [Registrars -> SUBSET (1 .. Len(Stores))]
    /\ spc \in {"idle", "sort", "consume", "crashed"}
    /\ pl \in Seq(Pkt) /\ psep \in Entries \cup {NULL}
    /\ wrklist \in [Entries \cup {Default} -> Seq(Pkt)]
    /\ got \in [Pkt -> Entries \cup {Default, NULL}]
    /\ regs \in Seq(Entries) /\ seen \in 0 .. Len(regs)

\* A sorter without entries, as its constructor leaves it
PsInit ==
    /\ accepts \in [Entries -> SUBSET Pkt]
    /\ first = NULL /\ next = [e \in Entries |-> NULL] /\ filled = {}
    /\ ent = [r \in Registrars |-> NULL] /\ old = ent
    /\ todo = [r \in Registrars |-> {}]
    /\ spc = "idle" /\ pl = <<>> /\ psep = NULL
    /\ wrklist = [e \in Entries \cup {Default} |-> <<>>]
    /\ got = [p \in Pkt |-> NULL]
    /\ regs = <<>> /\ seen = 0

-----------------------------------------------------------------------------
(* sin_pkt_sorter_reg                                                      *)

\* A zeroed entry is allocated, and first is read for its link.  If there is
\* no memory nothing changes.
StartReg(r, e) ==
    /\ todo[r] = {} /\ e \notin {ent[q] : q \in Registrars}
    /\ \A k \in DOMAIN regs : regs[k] # e
    /\ ent' = [ent EXCEPT ![r] = e]
    /\ old' = [old EXCEPT ![r] = first]
    /\ todo' = [todo EXCEPT ![r] = 1 .. Len(Stores)]
    /\ UNCHANGED <<first, next, filled, regs>>

\* One of the stores to the entry and to first becomes visible
Store(r, s) ==
    /\ s \in todo[r] /\ (StoresInOrder => \A s2 \in todo[r] : s <= s2)
    /\ todo' = [todo EXCEPT ![r] = @ \ {s}]
    /\ filled' = IF Stores[s] = "fields" THEN filled \cup {ent[r]} ELSE filled
    /\ next' = IF Stores[s] = "next" THEN [next EXCEPT ![ent[r]] = old[r]] ELSE next
    /\ first' = IF Stores[s] = "first" THEN ent[r] ELSE first
    /\ regs' = IF Stores[s] = "first" THEN Append(regs, ent[r]) ELSE regs
    /\ UNCHANGED <<ent, old>>

-----------------------------------------------------------------------------
(* sin_pkt_sorter_proc                                                     *)

\* A batch of n packets has been dequeued, and the walk starts for the first
StartBatch(n) ==
    /\ spc = "idle"
    /\ spc' = "sort" /\ psep' = first
    /\ pl' = [k \in 1 .. n |-> k]
    /\ got' = [p \in Pkt |-> NULL] /\ seen' = Len(regs)
    /\ UNCHANGED wrklist

\* The packet goes to the work list of e, and the walk starts again for the
\* next one, or for the second loop
PutOn(e) ==
    /\ wrklist' = [wrklist EXCEPT ![e] = Append(@, Head(pl))]
    /\ pl' = Tail(pl) /\ psep' = first
    /\ spc' = IF Len(pl) = 1 THEN "consume" ELSE "sort"
    /\ UNCHANGED <<got, seen>>

\* (faulty: one taste decides for the rest of the batch)
TasteOnce ==
    /\ spc = "sort" /\ psep \in filled
    /\ IF Head(pl) \in accepts[psep]
         THEN /\ wrklist' = [wrklist EXCEPT ![psep] = @ \o pl]
              /\ pl' = <<>> /\ psep' = first /\ spc' = "consume"
         ELSE /\ psep' = next[psep]
              /\ UNCHANGED <<spc, pl, wrklist>>
    /\ UNCHANGED <<got, seen>>

\* pkt_taste of one entry: it takes the packet, or the next entry is asked.
\* An entry that is not filled in has a null pkt_taste.
Taste ==
    /\ spc = "sort" /\ psep # NULL
    /\ IF psep \notin filled
         THEN spc' = "crashed" /\ UNCHANGED <<pl, psep, wrklist, got, seen>>
       ELSE IF Head(pl) \in accepts[psep]
         THEN PutOn(psep)
         ELSE psep' = next[psep] /\ UNCHANGED <<spc, pl, wrklist, got, seen>>

\* No entry takes the packet
NoTaste == spc = "sort" /\ psep = NULL /\ PutOn(Default)

\* The work list of e is consumed, unless it is empty, and reset
HandOut(e) == /\ got' = [p \in Pkt |-> IF \E k \in DOMAIN wrklist[e] : wrklist[e][k] = p
                                         THEN e ELSE got[p]]
              /\ wrklist' = [wrklist EXCEPT ![e] = <<>>]
              /\ UNCHANGED <<pl, seen>>

\* (faulty: the loop ends at the first entry with nothing to consume)
ConsumeStopsShort ==
    /\ spc = "consume" /\ psep # NULL
    /\ psep' = IF wrklist[psep] = <<>> THEN NULL ELSE next[psep]
    /\ UNCHANGED spc
    /\ HandOut(psep)

ConsumeEntry ==
    /\ spc = "consume" /\ psep # NULL
    /\ psep' = next[psep]
    /\ UNCHANGED spc
    /\ HandOut(psep)

ConsumeDefault == /\ spc = "consume" /\ psep = NULL
                  /\ spc' = "idle" /\ UNCHANGED psep
                  /\ HandOut(Default)

PsNext ==
    \/ /\ \E r \in Registrars : \/ \E e \in Entries : StartReg(r, e)
                                \/ \E s \in 1 .. Len(Stores) : Store(r, s)
       /\ UNCHANGED <<accepts, batchVars>>
    \/ /\ \/ \E n \in Pkt : StartBatch(n)
          \/ Taste \/ NoTaste \/ ConsumeEntry \/ ConsumeDefault
       /\ UNCHANGED <<accepts, regVars>>

PsSpec == PsInit /\ [][PsNext]_psVars

-----------------------------------------------------------------------------
(* Properties                                                              *)

\* No packet stays behind in the work list of an entry: an entry that is in
\* the list when a packet is put on its work list, in the first loop of
\* sin_pkt_sorter_proc, is still there in the second, whatever has been
\* registered in between.  The next batch would find it on two lists.
NothingLeftBehind == spc = "idle" => \A e \in Entries \cup {Default} : wrklist[e] = <<>>

\* The entry registered last is asked first: a packet is not consumed by an
\* entry, or by default, if one that was registered after it, and before the
\* batch began, accepts it.
NewestEntryFirst ==
    \A p \in Pkt, k \in 1 .. seen :
        got[p] # NULL /\ p \in accepts[regs[k]]
            => \E j \in k .. Len(regs) : regs[j] = got[p]

\* sin_sorter_reg on a running instance: the receive thread never meets an
\* entry before its pkt_taste is set, as long as stores become visible in the
\* order of the program (nothing in the code makes them).
TasteSet == spc # "crashed"
=============================================================================
