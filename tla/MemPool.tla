------------------------------ MODULE MemPool ------------------------------
(***************************************************************************)
(* The memory pool (src/mem_pool.c) that all threads of a process share.   *)
(*                                                                         *)
(* The pool never gives memory back: a node that was freed is handed out   *)
(* again, the smallest that is large enough.  Nodes are found by address.  *)
(* The heap below it is external: malloc() returns an address that is not  *)
(* in use, and one that was passed to free() can come back.  That happens  *)
(* to addresses the pool still lists: sftt_packet_serialize passes the     *)
(* buffer an encoder took from the pool to free(), not to mp_free().       *)
(*                                                                         *)
(* The callers are disciplined: a thread frees and reallocates what it     *)
(* holds, and goes on with the address mp_realloc returned.  (sds_resize,  *)
(* which only the trace calls, keeps the old one.)                         *)
(*                                                                         *)
(* Everything mp_malloc, mp_free, find_purpose and the like do under the   *)
(* mutex is one step.  mp_realloc and get_mp_stat_detail take the mutex    *)
(* several times, and get_mp_stat not at all: their steps interleave with  *)
(* those of the other threads.                                             *)
(***************************************************************************)
EXTENDS Integers, Sequences, FiniteSets

CONSTANTS
    Threads,    \* the threads of the process
    Reporters,  \* those that ask for the statistics: the ones that execute mps
    Addrs,      \* the addresses malloc() can return
    Sizes,      \* the sizes asked for
    Purposes,   \* the purposes named by the callers
    DetailSize, \* the size of what get_mp_stat_detail allocates
    MaxNodes    \* bound: nodes of the pool

NoAddr == 0

(* The two purposes get_mp_stat_detail names itself, and mp_realloc.       *)
OwnPurposes == {"detail_struct", "detail_nodes", "mp_realloc"}

ASSUME MemPoolAssumption ==
    /\ Reporters \subseteq Threads
    /\ Addrs \subseteq Nat \ {NoAddr}
    /\ Sizes \subseteq Nat \ {0}
    /\ DetailSize \in Sizes
    /\ MaxNodes \in Nat
    /\ Purposes \cap OwnPurposes = {}
    /\ IsFiniteSet(Purposes)

VARIABLES
    heap,       \* the size of the block at each address, 0 if there is none
    nodes,      \* mem_nodes: the list of nodes, the newest first
    purposes,   \* the count of every purpose node, 0 if there is none
    stat,       \* mp->stat
    held,       \* the blocks each thread holds, with the size it asked for
    pc,         \* what each thread is doing
    work,       \* its local variables
    raced       \* history: another thread changed the pool during its call

vars == << heap, nodes, purposes, stat, held, pc, work, raced >>

pool == << heap, nodes, purposes, stat >>

AllPurposes == Purposes \cup OwnPurposes

NoWork == [addr |-> NoAddr, n |-> 0, count |-> 0, figures |-> << >>]

(* mp_create: do_reserve does nothing, g_mp is not assigned yet.           *)
Init ==
    /\ heap = [a \in Addrs |-> 0]
    /\ nodes = << >>
    /\ purposes = [p \in AllPurposes |-> 0]
    /\ stat = [total_size |-> 0, total_nodes |-> 0, using_nodes |-> 0,
               free_nodes |-> 0]
    /\ held = [t \in Threads |-> {}]
    /\ pc = [t \in Threads |-> "idle"]
    /\ work = [t \in Threads |-> NoWork]
    /\ raced = [t \in Threads |-> FALSE]

-----------------------------------------------------------------------------
(* Under the mutex. *)

Fitting(n) == {i \in DOMAIN nodes : ~ nodes[i].is_using /\ nodes[i].size >= n}

(* The first of the smallest nodes that are free and large enough.         *)
Found(n) ==
    CHOOSE i \in Fitting(n) : \A j \in Fitting(n) :
        nodes[i].size < nodes[j].size \/ (nodes[i].size = nodes[j].size /\ i <= j)

add_purpose(p) == purposes' = [purposes EXCEPT ![p] = @ + 1]

(* Mutant: a purpose stays on the list for ever. *)
sub_purposeMut(p) == UNCHANGED purposes

(* assert(p->count > 0); a count of 0 takes the node off the list.         *)
sub_purpose(p) ==
    purposes' = [purposes EXCEPT ![p] = IF @ > 0 THEN @ - 1 ELSE 0]

Node(a, n, p) == [address |-> a, size |-> n, is_using |-> TRUE, purpose |-> p]

(* Takes a node that is free.                                              *)
Reuse(p, n, a) ==
    /\ Fitting(n) # {}
    /\ a = nodes[Found(n)].address
    /\ nodes' = [nodes EXCEPT ![Found(n)].is_using = TRUE,
                              ![Found(n)].purpose = p]
    /\ stat' = [stat EXCEPT !.free_nodes = @ - 1, !.using_nodes = @ + 1]
    /\ UNCHANGED heap

(* Mutant: the new node goes to the end of the list. *)
list_addMut(node) == nodes' = Append(nodes, node)

list_add(node) == nodes' = << node >> \o nodes

(* mem_node_create: malloc() gives an address that is free.                *)
Create(p, n, a) ==
    /\ Fitting(n) = {}
    /\ Len(nodes) < MaxNodes
    /\ heap[a] = 0
    /\ heap' = [heap EXCEPT ![a] = n]
    /\ list_add(Node(a, n, p))
    /\ stat' = [stat EXCEPT !.total_nodes = @ + 1, !.total_size = @ + n,
                            !.using_nodes = @ + 1]

(* mp_malloc by thread t returns address a.                                *)
Allocate(t, p, n, a) ==
    /\ Reuse(p, n, a) \/ Create(p, n, a)
    /\ add_purpose(p)
    /\ held' = [held EXCEPT ![t] = @ \cup {[addr |-> a, n |-> n]}]

At(a) == {i \in DOMAIN nodes : nodes[i].address = a}

First(S) == CHOOSE i \in S : \A j \in S : i <= j

(* mp_free: the first node with this address.  One that is not in use is   *)
(* left as it is ("double free!"); the threads free what they hold only,   *)
(* so that an address the pool does not know is not looked for.            *)
Release(a) ==
    LET i == First(At(a))
    IN  /\ IF nodes[i].is_using
           THEN /\ nodes' = [nodes EXCEPT ![i].is_using = FALSE]
                /\ stat' = [stat EXCEPT !.free_nodes = @ + 1, !.using_nodes = @ - 1]
                /\ sub_purpose(nodes[i].purpose)
           ELSE UNCHANGED << nodes, stat, purposes >>
        /\ UNCHANGED heap

-----------------------------------------------------------------------------
(* The calls of a thread. *)

Goto(t, l) == pc' = [pc EXCEPT ![t] = l]

(* A call that uses the mutex more than once begins.                       *)
Begin(t, l) == Goto(t, l) /\ raced' = [raced EXCEPT ![t] = FALSE]

(* A step of t that changes the pool.                                      *)
Changes(t) ==
    raced' = [u \in Threads |-> raced[u] \/ (u # t /\ pc[u] # "idle")]

mp_malloc(t, p, n, a) ==
    /\ pc[t] = "idle"
    /\ Allocate(t, p, n, a) /\ Changes(t)
    /\ UNCHANGED << pc, work >>

mp_free(t, b) ==
    /\ pc[t] = "idle"
    /\ b \in held[t]
    /\ Release(b.addr) /\ Changes(t)
    /\ held' = [held EXCEPT ![t] = @ \ {b}]
    /\ UNCHANGED << pc, work >>

(* sftt_packet_serialize: free() of a block of the pool.                   *)
sftt_packet_serialize(t, b) ==
    /\ pc[t] = "idle"
    /\ b \in held[t]
    /\ heap' = [heap EXCEPT ![b.addr] = 0]
    /\ held' = [held EXCEPT ![t] = @ \ {b}]
    /\ UNCHANGED << nodes, purposes, stat, pc, work, raced >>

(* mp_realloc finds the node, lets go of the mutex, allocates, copies as   *)
(* many bytes as the node it found has, and frees.                         *)
mp_realloc(t, b, n) ==
    /\ pc[t] = "idle"
    /\ b \in held[t]
    /\ work' = [work EXCEPT ![t] = [NoWork EXCEPT !.addr = b.addr, !.n = n,
                                    !.count = nodes[First(At(b.addr))].size]]
    /\ Begin(t, "realloc")
    /\ UNCHANGED << pool, held >>

realloc_malloc(t, a) ==
    /\ pc[t] = "realloc"
    /\ Allocate(t, "mp_realloc", work[t].n, a) /\ Changes(t)
    /\ Goto(t, "realloc_free")
    /\ UNCHANGED work

(* The copy, then mp_free of the old address.                              *)
realloc_free(t) ==
    /\ pc[t] = "realloc_free"
    /\ Release(work[t].addr) /\ Changes(t)
    /\ held' = [held EXCEPT ![t] = {b \in @ : b.addr # work[t].addr}]
    /\ work' = [work EXCEPT ![t] = NoWork]
    /\ Goto(t, "idle")

(* get_mp_stat reads four counters, one after the other, without the mutex.*)
Counters == << "total_size", "total_nodes", "using_nodes", "free_nodes" >>

get_mp_stat(t) ==
    /\ t \in Reporters
    /\ pc[t] = "idle"
    /\ work' = [work EXCEPT ![t] = NoWork]
    /\ Begin(t, "stat")
    /\ UNCHANGED << pool, held >>

get_mp_stat_next(t) ==
    /\ pc[t] = "stat"
    /\ LET k == Len(work[t].figures) + 1
       IN  /\ work' = [work EXCEPT ![t].figures = Append(@, stat[Counters[k]])]
           /\ Goto(t, IF k = Len(Counters) THEN "report" ELSE "stat")
    /\ UNCHANGED << pool, held, raced >>

(* get_mp_stat_detail: room for the result, the number of purposes, room   *)
(* for one more than that, and the purposes.  Nobody frees the two blocks. *)
Listed == {p \in AllPurposes : purposes[p] > 0}

get_mp_stat_detail(t, a) ==
    /\ t \in Reporters
    /\ pc[t] = "idle"
    /\ Allocate(t, "detail_struct", DetailSize, a) /\ Changes(t)
    /\ Goto(t, "detail_count")
    /\ work' = [work EXCEPT ![t] = NoWork]

(* Mutant: room for what was counted only. *)
get_purpose_countMut(t) ==
    /\ pc[t] = "detail_count"
    /\ work' = [work EXCEPT ![t].count = Cardinality(Listed)]
    /\ Begin(t, "detail_nodes")
    /\ UNCHANGED << pool, held >>

get_purpose_count(t) ==
    /\ pc[t] = "detail_count"
    /\ work' = [work EXCEPT ![t].count = Cardinality(Listed) + 1]
    /\ Begin(t, "detail_nodes")
    /\ UNCHANGED << pool, held >>

detail_nodes(t, a) ==
    /\ pc[t] = "detail_nodes"
    /\ Allocate(t, "detail_nodes", DetailSize, a) /\ Changes(t)
    /\ Goto(t, "detail_fill")
    /\ UNCHANGED work

detail_fill(t) ==
    /\ pc[t] = "detail_fill"
    /\ work' = [work EXCEPT ![t].n = Cardinality(Listed)]
    /\ Goto(t, "report")
    /\ UNCHANGED << pool, held, raced >>

(* mp_dump_detail and the callers of get_mp_stat print the result.         *)
mp_dump_detail(t) ==
    /\ pc[t] = "report"
    /\ work' = [work EXCEPT ![t] = NoWork]
    /\ Goto(t, "idle")
    /\ UNCHANGED << pool, held, raced >>

Step(t) ==
    \/ \E p \in Purposes, n \in Sizes, a \in Addrs : mp_malloc(t, p, n, a)
    \/ \E b \in held[t] : mp_free(t, b)
    \/ \E b \in held[t] : sftt_packet_serialize(t, b)
    \/ \E b \in held[t], n \in Sizes : mp_realloc(t, b, n)
    \/ \E a \in Addrs : realloc_malloc(t, a)
    \/ realloc_free(t)
    \/ get_mp_stat(t)
    \/ get_mp_stat_next(t)
    \/ \E a \in Addrs : get_mp_stat_detail(t, a)
    \/ get_purpose_count(t)
    \/ \E a \in Addrs : detail_nodes(t, a)
    \/ detail_fill(t)
    \/ mp_dump_detail(t)

Next == \E t \in Threads : Step(t)

Spec == Init /\ [][Next]_vars

-----------------------------------------------------------------------------
Using(i) == nodes[i].is_using

(* Every variable holds a value of its C type; no count goes below zero,   *)
(* which assert(p->count > 0) in sub_purpose relies on.                    *)
TypeOK ==
    /\ heap \in [Addrs -> {0} \cup Sizes]
    /\ nodes \in Seq([address : Addrs, size : Sizes, is_using : BOOLEAN,
                      purpose : AllPurposes])
    /\ purposes \in [AllPurposes -> 0..Len(nodes)]
    /\ stat \in [{"total_size", "total_nodes", "using_nodes", "free_nodes"} -> Nat]
    /\ held \in [Threads -> SUBSET [addr : Addrs, n : Sizes]]
    /\ pc \in [Threads -> {"idle", "realloc", "realloc_free", "stat", "detail_count",
                           "detail_nodes", "detail_fill", "report"}]
    /\ \A t \in Threads : work[t].addr \in Addrs \cup {NoAddr}
    /\ raced \in [Threads -> BOOLEAN]

(* The sizes of the nodes from each one to the end of the list, added up.  *)
SizeFrom ==
    LET sum[i \in 1 .. Len(nodes) + 1] ==
            IF i = Len(nodes) + 1 THEN 0 ELSE nodes[i].size + sum[i + 1]
    IN  sum

(* The statistics and the purposes say what is in the list, whatever the   *)
(* order in which threads allocate, reallocate and free (mem_pool.c).      *)
BooksBalance ==
    /\ stat.total_nodes = Len(nodes)
    /\ stat.total_size = SizeFrom[1]
    /\ stat.using_nodes = Cardinality({i \in DOMAIN nodes : Using(i)})
    /\ stat.free_nodes = Len(nodes) - stat.using_nodes
    /\ \A p \in AllPurposes :
         purposes[p] = Cardinality({i \in DOMAIN nodes : Using(i) /\ nodes[i].purpose = p})

Holdings == {h \in Threads \X [addr : Addrs, n : Sizes] : h[2] \in held[h[1]]}

(* No address is handed out twice, although blocks of the pool come back   *)
(* from malloc() after sftt_packet_serialize has passed them to free();    *)
(* and what a thread holds is allocated and as large as it asked for:      *)
(* mp_free, which looks for the address only, never puts the node of an    *)
(* earlier, larger block at the same address up for reuse, and mp_realloc  *)
(* never copies past the end of the old block.                             *)
HeldSafely ==
    /\ \A g, h \in Holdings : g[2].addr = h[2].addr => g = h
    /\ \A h \in Holdings : heap[h[2].addr] >= h[2].n
    /\ \A t \in Threads : pc[t] \in {"realloc", "realloc_free"} =>
         heap[work[t].addr] >= work[t].count

(* Reports are right as long as no other thread interferes: the figures    *)
(* add up (get_mp_stat), and every purpose has room in the table, the one  *)
(* under which the table itself is allocated too (get_mp_stat_detail).     *)
ReportsRight ==
    \A t \in Threads : (pc[t] = "report" /\ ~ raced[t]) =>
        /\ work[t].n <= work[t].count
        /\ work[t].figures # << >> =>
             work[t].figures[2] = work[t].figures[3] + work[t].figures[4]
=============================================================================
