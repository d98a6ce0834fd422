--------------------------- MODULE MemPoolProofs ---------------------------
(***************************************************************************)
(* The proofs about the memory pool, for any number of threads, addresses, *)
(* sizes and nodes.                                                        *)
(*                                                                         *)
(* The pool looks nodes up by address, and an address can occur in several *)
(* nodes once sftt_packet_serialize has passed a block to free().  The     *)
(* heart of the invariant is that the first node of an address is the one  *)
(* that counts: a node that is free, and the node of a block that a thread *)
(* holds, is the first of its address and as large as the block there.     *)
(***************************************************************************)
EXTENDS MemPool, FiniteSetTheorems, TLAPS

\* Every set of natural numbers has a least element.
LEMMA LeastNat ==
  ASSUME NEW S \in SUBSET Nat, S # {}
  PROVE  \E i \in S : \A j \in S : i <= j
<1> DEFINE Down == {0 .. i : i \in S}
<1>1. Down \subseteq FiniteSubsetsOf(Nat) /\ Down # {}
  <2>1. \A i \in S : IsFiniteSet(0 .. i) /\ 0 .. i \subseteq Nat
    BY FS_Interval
  <2> QED BY <2>1 DEF FiniteSubsetsOf
<1>2. IsWellFoundedOn(StrictSubsetOrdering(Nat), FiniteSubsetsOf(Nat))
  BY FS_StrictSubsetOrderingWellFounded
<1>3. PICK D \in Down : \A E \in Down : ~ (<<E, D>> \in StrictSubsetOrdering(Nat))
  <2> HIDE DEF Down
  <2> QED BY <1>1, <1>2, WFMin
<1>4. PICK i \in S : D = 0 .. i
  OBVIOUS
<1>5. ASSUME NEW j \in S, j < i PROVE FALSE
  <2>1. 0 .. j \subseteq 0 .. i /\ 0 .. j # 0 .. i /\ i \in Nat /\ j \in Nat
    <3>1. i \in 0 .. i /\ i \notin 0 .. j
      BY <1>5
    <3> QED BY <3>1, <1>5
  <2>2. << 0 .. j, 0 .. i >> \in StrictSubsetOrdering(Nat)
    BY <2>1 DEF StrictSubsetOrdering
  <2> QED BY <2>2, <1>3, <1>4
<1> QED BY <1>5

\* So First, with which mp_free and mp_realloc look a node up, finds the first
\* node of its argument.
LEMMA FirstIsFirst ==
  ASSUME NEW S \in SUBSET Nat, S # {}
  PROVE  First(S) \in S /\ \A j \in S : First(S) <= j
BY LeastNat DEF First

-----------------------------------------------------------------------------
NodeType == [address : Addrs, size : Sizes, is_using : BOOLEAN, purpose : AllPurposes]

\* What the type of the list says of one node.
LEMMA NodeFacts ==
  ASSUME nodes \in Seq(NodeType)
  PROVE  /\ Len(nodes) \in Nat /\ DOMAIN nodes = 1 .. Len(nodes)
         /\ \A i \in DOMAIN nodes :
              /\ nodes[i] \in NodeType /\ nodes[i].address \in Addrs
              /\ nodes[i].size \in Sizes /\ nodes[i].size \in Nat /\ nodes[i].size # 0
              /\ nodes[i].is_using \in BOOLEAN /\ nodes[i].purpose \in AllPurposes
<1>1. /\ Len(nodes) \in Nat /\ DOMAIN nodes = 1 .. Len(nodes)
      /\ \A i \in DOMAIN nodes : nodes[i] \in NodeType
  OBVIOUS
<1>2. ASSUME NEW r \in NodeType
      PROVE  /\ r.address \in Addrs /\ r.size \in Sizes
             /\ r.is_using \in BOOLEAN /\ r.purpose \in AllPurposes
  BY DEF NodeType
<1>3. \A z \in Sizes : z \in Nat /\ z # 0
  BY MemPoolAssumption
<1> QED BY <1>1, <1>2, <1>3

\* And Found, with which mp_malloc chooses, finds a node that fits.
LEMMA FoundFits ==
  ASSUME NEW n \in Nat, nodes \in Seq(NodeType), Fitting(n) # {}
  PROVE  Found(n) \in Fitting(n)
<1> DEFINE Size == {nodes[i].size : i \in Fitting(n)}
<1>1. Fitting(n) \in SUBSET Nat /\ \A i \in Fitting(n) : nodes[i].size \in Nat
  BY NodeFacts DEF Fitting
<1>2. PICK m \in Size : \A k \in Size : m <= k
  <2>1. Size \in SUBSET Nat /\ Size # {}
    BY <1>1
  <2> HIDE DEF Size
  <2> QED BY <2>1, LeastNat
<1> DEFINE Smallest == {i \in Fitting(n) : nodes[i].size = m}
<1>3. PICK i \in Smallest : \A j \in Smallest : i <= j
  <2>1. Smallest \in SUBSET Nat /\ Smallest # {}
    BY <1>1, <1>2
  <2> HIDE DEF Smallest
  <2> QED BY <2>1, LeastNat
<1>4. ASSUME NEW j \in Fitting(n)
      PROVE  nodes[i].size < nodes[j].size \/ (nodes[i].size = nodes[j].size /\ i <= j)
  <2>1. nodes[i].size = m /\ i \in Nat /\ j \in Nat
    BY <1>1, <1>3
  <2>2. m <= nodes[j].size /\ nodes[j].size \in Nat /\ m \in Nat
    BY <1>1, <1>2
  <2>3. nodes[j].size = m => i <= j
    BY <1>3
  <2> QED BY <2>1, <2>2, <2>3
<1>5. i \in Fitting(n)
  BY <1>3
<1> HIDE DEF Smallest, Size
<1> QED BY <1>4, <1>5 DEF Found

-----------------------------------------------------------------------------
\* c adds up the sizes of the list s from each node on.
Sums(c, s) ==
  /\ c \in [1 .. Len(s) + 1 -> Nat]
  /\ c[Len(s) + 1] = 0
  /\ \A i \in 1 .. Len(s) : c[i] = s[i].size + c[i + 1]

\* The recursive function SizeFrom is the function that does so.
LEMMA SizeFromSums ==
  ASSUME nodes \in Seq(NodeType), NEW c, Sums(c, nodes)
  PROVE  SizeFrom = c
<1> DEFINE L == Len(nodes)
           Eqn(f) == f = [i \in 1 .. L + 1 |->
                            IF i = L + 1 THEN 0 ELSE nodes[i].size + f[i + 1]]
<1>1. L \in Nat /\ \A i \in 1 .. L : nodes[i].size \in Nat
  BY NodeFacts
<1>2. Eqn(c)
  BY <1>1 DEF Sums
<1>3. Eqn(SizeFrom)
  BY <1>2 DEF SizeFrom
<1> DEFINE Bad == {k \in 0 .. L : SizeFrom[L + 1 - k] # c[L + 1 - k]}
<1>4. Bad = {}
  <2>1. SUFFICES ASSUME Bad # {} PROVE FALSE
    OBVIOUS
  <2>2. PICK k \in Bad : \A j \in Bad : k <= j
    <3>1. Bad \in SUBSET Nat
      BY <1>1
    <3> HIDE DEF Bad
    <3> QED BY <2>1, <3>1, LeastNat
  <2>3. k # 0
    BY <1>1, <1>3, <2>2 DEF Sums
  <2>4. SizeFrom[L + 1 - (k - 1)] = c[L + 1 - (k - 1)]
    <3>1. k - 1 \in 0 .. L /\ k - 1 \notin Bad
      <4>1. k \in 1 .. L
        BY <1>1, <2>2, <2>3
      <4>2. k - 1 \in 0 .. L /\ ~ (k <= k - 1)
        BY <1>1, <4>1
      <4> QED BY <2>2, <4>2
    <3> QED BY <3>1
  <2>5. L + 1 - k \in 1 .. L /\ L + 1 - k + 1 = L + 1 - (k - 1)
    BY <1>1, <2>2, <2>3
  <2> HIDE DEF L
  <2>6. SizeFrom[L + 1 - k] = nodes[L + 1 - k].size + SizeFrom[L + 1 - k + 1]
    BY <1>1, <1>3, <2>5
  <2> QED BY <1>1, <2>2, <2>4, <2>5, <2>6 DEF Sums, L
<1>5. ASSUME NEW i \in 1 .. L + 1 PROVE SizeFrom[i] = c[i]
  <2>1. L + 1 - i \in 0 .. L /\ L + 1 - (L + 1 - i) = i
    BY <1>1
  <2> QED BY <1>4, <2>1
<1> QED BY <1>1, <1>3, <1>5 DEF Sums

-----------------------------------------------------------------------------
Block == [addr : Addrs, n : Sizes]

Stat == [total_size : Int, total_nodes : Int, using_nodes : Int, free_nodes : Int]

Local == [addr : Addrs \cup {NoAddr}, n : Nat, count : Nat, figures : Seq(Int)]

PoolTyped ==
  /\ heap \in [Addrs -> {0} \cup Sizes]
  /\ nodes \in Seq(NodeType)
  /\ purposes \in [AllPurposes -> Nat]
  /\ stat \in Stat
  /\ held \in [Threads -> SUBSET Block]

Labels == {"idle", "realloc", "realloc_free", "stat", "detail_count",
           "detail_nodes", "detail_fill", "report"}

LocalTyped ==
  /\ pc \in [Threads -> Labels]
  /\ work \in [Threads -> Local]
  /\ raced \in [Threads -> BOOLEAN]

\* i is the node mp_free and mp_realloc find for address a.
IsFirst(i, a) ==
  /\ i \in DOMAIN nodes /\ nodes[i].address = a
  /\ \A j \in DOMAIN nodes : nodes[j].address = a => i <= j

\* A node that is free is the one that is found for its address, and says how
\* large the block there is.  (Later nodes of the address stay in use for ever:
\* they are those of blocks that went to free().)
FreeNodesRight ==
  \A i \in DOMAIN nodes : ~ nodes[i].is_using =>
    IsFirst(i, nodes[i].address) /\ heap[nodes[i].address] = nodes[i].size

\* For what a thread holds, the node that is found is in use and has the size
\* of the block.
HeldNodesRight ==
  \A t \in Threads : \A b \in held[t] : \E i \in DOMAIN nodes :
    /\ IsFirst(i, b.addr) /\ nodes[i].is_using
    /\ nodes[i].size = heap[b.addr] /\ nodes[i].size >= b.n

\* No two blocks that are held have the same address.
OneHolder ==
  \A t, u \in Threads : \A b \in held[t], c \in held[u] :
    b.addr = c.addr => t = u /\ b = c

\* Between the steps of mp_realloc the old block is still the thread's own.
ReallocRight(t) ==
  pc[t] \in {"realloc", "realloc_free"} =>
    /\ \E b \in held[t] : b.addr = work[t].addr
    /\ work[t].n \in Sizes
    /\ work[t].count = heap[work[t].addr]

InUse == {i \in DOMAIN nodes : nodes[i].is_using}

UsedFor(p) == {i \in DOMAIN nodes : nodes[i].is_using /\ nodes[i].purpose = p}

\* The statistics, with the sum of the sizes written as a function that adds
\* them up.
Books ==
  /\ stat.total_nodes = Len(nodes)
  /\ \E c : Sums(c, nodes) /\ stat.total_size = c[1]
  /\ stat.using_nodes = Cardinality(InUse)
  /\ stat.free_nodes = Len(nodes) - stat.using_nodes
  /\ \A p \in AllPurposes : purposes[p] = Cardinality(UsedFor(p))

\* get_mp_stat has not read all its counters yet; get_mp_stat_detail reads none.
FiguresRight(t) ==
  /\ pc[t] = "stat" => Len(work[t].figures) < 4 /\ work[t].n = 0
  /\ pc[t] \in {"detail_count", "detail_nodes", "detail_fill"} => work[t].figures = << >>

\* What a thread that reports and was not disturbed has in its local variables
\* is still true of the pool.
Reporting(t) ==
  /\ pc[t] \in {"stat", "report"} =>
       \A k \in 1 .. Len(work[t].figures) : work[t].figures[k] = stat[Counters[k]]
  /\ pc[t] = "report" => Len(work[t].figures) \in {0, 4} /\ work[t].n <= work[t].count
  /\ pc[t] = "detail_nodes" => work[t].count = Cardinality(Listed) + 1
  /\ pc[t] = "detail_fill" => Cardinality(Listed) <= work[t].count

PoolInv == PoolTyped /\ FreeNodesRight /\ HeldNodesRight /\ OneHolder /\ Books

ThreadRight(t) == ReallocRight(t) /\ FiguresRight(t) /\ (~ raced[t] => Reporting(t))

IInv == PoolInv /\ LocalTyped /\ \A t \in Threads : ThreadRight(t)

-----------------------------------------------------------------------------
\* The indices of a list one of whose nodes was put in front.
LEMMA ShiftedCardinality ==
  ASSUME NEW S \in SUBSET (Nat \ {0}), IsFiniteSet(S)
  PROVE  LET T == {i + 1 : i \in S} IN
         /\ IsFiniteSet(T) /\ Cardinality(T) = Cardinality(S)
         /\ Cardinality({1} \cup T) = Cardinality(S) + 1
<1> DEFINE T == {i + 1 : i \in S}
           f == [i \in S |-> i + 1]
<1>1. f \in Bijection(S, T)
  <2>1. f \in [S -> T] /\ DOMAIN f = S
    OBVIOUS
  <2>2. ASSUME NEW a \in S, NEW b \in S, f[a] = f[b] PROVE a = b
    <3>1. a \in Int /\ b \in Int /\ a + 1 = b + 1
      BY <2>2
    <3> QED BY ONLY <3>1
  <2>3. \A t \in T : \E a \in S : f[a] = t
    OBVIOUS
  <2> HIDE DEF f, T
  <2> QED BY <2>1, <2>2, <2>3 DEF Bijection, Injection, Surjection, IsInjective
<1>2. ExistsBijection(S, T)
  BY <1>1 DEF ExistsBijection
<1>3. IsFiniteSet(T) /\ Cardinality(T) = Cardinality(S)
  BY <1>2, FS_Bijection
<1>4. 1 \notin T /\ {1} \cup T = T \cup {1}
  OBVIOUS
<1> HIDE DEF T
<1>5. Cardinality(T \cup {1}) = Cardinality(S) + 1
  BY <1>3, <1>4, FS_AddElement
<1> QED BY <1>3, <1>4, <1>5 DEF T

\* The list after list_add.
LEMMA ConsFacts ==
  ASSUME nodes \in Seq(NodeType), NEW x \in NodeType, nodes' = << x >> \o nodes
  PROVE  /\ nodes' \in Seq(NodeType) /\ Len(nodes') = Len(nodes) + 1
         /\ nodes'[1] = x
         /\ \A i \in DOMAIN nodes : nodes'[i + 1] = nodes[i]
         /\ DOMAIN nodes' = {1} \cup {i + 1 : i \in DOMAIN nodes}
<1>1. nodes' \in Seq(NodeType) /\ Len(nodes') = Len(nodes) + 1 /\ Len(nodes) \in Nat
  OBVIOUS
<1>2. DOMAIN nodes = 1 .. Len(nodes) /\ DOMAIN nodes' = 1 .. Len(nodes) + 1
  BY <1>1
<1>3. nodes'[1] = x /\ \A i \in 1 .. Len(nodes) : nodes'[i + 1] = nodes[i]
  OBVIOUS
<1>4. 1 .. Len(nodes) + 1 = {1} \cup {i + 1 : i \in 1 .. Len(nodes)}
  <2>1. ASSUME NEW j \in 1 .. Len(nodes) + 1, j # 1 PROVE j \in {i + 1 : i \in 1 .. Len(nodes)}
    <3>1. j - 1 \in 1 .. Len(nodes) /\ j = (j - 1) + 1
      BY <1>1, <2>1
    <3> QED BY <3>1
  <2> QED BY <1>1, <2>1
<1> QED BY <1>1, <1>2, <1>3, <1>4

\* The nodes that are in use are finitely many.
LEMMA UseFacts ==
  ASSUME nodes \in Seq(NodeType)
  PROVE  /\ IsFiniteSet(InUse) /\ InUse \in SUBSET (Nat \ {0})
         /\ \A q : UsedFor(q) \in SUBSET (Nat \ {0}) /\ IsFiniteSet(UsedFor(q))
<1>1. DOMAIN nodes = 1 .. Len(nodes) /\ Len(nodes) \in Nat
  OBVIOUS
<1>2. IsFiniteSet(DOMAIN nodes) /\ DOMAIN nodes \subseteq Nat \ {0}
  <2>1. IsFiniteSet(1 .. Len(nodes))
    BY <1>1, FS_Interval
  <2>2. 1 .. Len(nodes) \subseteq Nat \ {0}
    BY <1>1
  <2> QED BY <1>1, <2>1, <2>2
<1>3. InUse \subseteq DOMAIN nodes
  BY DEF InUse
<1>4. ASSUME NEW q PROVE UsedFor(q) \subseteq DOMAIN nodes
  BY DEF UsedFor
<1>5. IsFiniteSet(InUse)
  BY <1>2, <1>3, FS_Subset
<1>6. ASSUME NEW q PROVE IsFiniteSet(UsedFor(q))
  BY <1>2, <1>4, FS_Subset
<1> QED BY <1>2, <1>3, <1>4, <1>5, <1>6

-----------------------------------------------------------------------------
\* mp_malloc, when no node fits.
LEMMA CreateKeeps ==
  ASSUME PoolInv, NEW t \in Threads, NEW p \in AllPurposes, NEW n \in Sizes,
         NEW a \in Addrs, Create(p, n, a), add_purpose(p),
         held' = [held EXCEPT ![t] = @ \cup {[addr |-> a, n |-> n]}]
  PROVE  PoolInv'
<1> DEFINE x == Node(a, n, p)
           b0 == [addr |-> a, n |-> n]
<1>1. x \in NodeType /\ x.address = a /\ x.size = n /\ x.is_using /\ x.purpose = p
      /\ b0 \in Block /\ b0.addr = a /\ b0.n = n /\ n \in Nat /\ n # 0
  BY MemPoolAssumption DEF Node, NodeType, Block
<1> HIDE DEF x, b0
<1>2. nodes' = << x >> \o nodes /\ held' = [held EXCEPT ![t] = @ \cup {b0}]
  BY DEF Create, list_add, x, b0
<1>3. heap[a] = 0 /\ heap' = [heap EXCEPT ![a] = n]
  BY DEF Create
<1>4. /\ nodes' \in Seq(NodeType) /\ Len(nodes') = Len(nodes) + 1
      /\ nodes'[1] = x
      /\ \A i \in DOMAIN nodes : nodes'[i + 1] = nodes[i]
      /\ DOMAIN nodes' = {1} \cup {i + 1 : i \in DOMAIN nodes}
  BY <1>1, <1>2, ConsFacts DEF PoolInv, PoolTyped
<1>5. DOMAIN nodes = 1 .. Len(nodes) /\ Len(nodes) \in Nat
      /\ \A i \in DOMAIN nodes : nodes[i] \in NodeType /\ nodes[i].address \in Addrs /\ nodes[i].size \in Nat /\ nodes[i].size # 0
  BY NodeFacts DEF PoolInv, PoolTyped
\* No node of a that is free, no holder of a: its block did not exist.
<1>6. \A i \in DOMAIN nodes : ~ nodes[i].is_using => nodes[i].address # a
  BY <1>3, <1>5 DEF PoolInv, FreeNodesRight
<1>7. \A u \in Threads : \A b \in held[u] : b.addr # a /\ b \in Block
  BY <1>3, <1>5 DEF PoolInv, HeldNodesRight, PoolTyped
<1>8. PoolTyped'
  <2>1. purposes' \in [AllPurposes -> Nat]
    BY DEF add_purpose, PoolInv, PoolTyped
  <2>2. stat' \in Stat
    <3>1. stat \in Stat /\ n \in Int
      BY <1>1 DEF PoolInv, PoolTyped
    <3>2. stat' = [stat EXCEPT !.total_nodes = @ + 1, !.total_size = @ + n, !.using_nodes = @ + 1]
      BY DEF Create
    <3>3. stat.total_size \in Int /\ stat.total_nodes \in Int /\ stat.using_nodes \in Int
      BY <3>1 DEF Stat
    <3>4. stat.total_size + n \in Int /\ stat.total_nodes + 1 \in Int /\ stat.using_nodes + 1 \in Int
      BY <3>1, <3>3
    <3> QED BY <3>1, <3>2, <3>4 DEF Stat
  <2>3. held' \in [Threads -> SUBSET Block]
    BY <1>1, <1>2 DEF PoolInv, PoolTyped
  <2>4. heap' \in [Addrs -> {0} \cup Sizes]
    BY <1>3 DEF PoolInv, PoolTyped
  <2> QED BY <1>4, <2>1, <2>2, <2>3, <2>4 DEF PoolTyped
<1>9. FreeNodesRight'
  <2> SUFFICES ASSUME NEW k \in DOMAIN nodes', ~ nodes'[k].is_using
               PROVE  /\ \A j \in DOMAIN nodes' : nodes'[j].address = nodes'[k].address => k <= j
                      /\ heap'[nodes'[k].address] = nodes'[k].size
    BY DEF FreeNodesRight, IsFirst
  <2>1. PICK i \in DOMAIN nodes : k = i + 1 /\ nodes'[k] = nodes[i]
    BY <1>1, <1>4
  <2>2. nodes[i].address # a /\ IsFirst(i, nodes[i].address) /\ heap[nodes[i].address] = nodes[i].size
    BY <1>6, <2>1 DEF PoolInv, FreeNodesRight
  <2>3. heap'[nodes[i].address] = nodes[i].size
    BY <1>3, <1>5, <2>2 DEF PoolInv, PoolTyped
  <2>4. ASSUME NEW j \in DOMAIN nodes', nodes'[j].address = nodes[i].address PROVE k <= j
    <3>1. PICK m \in DOMAIN nodes : j = m + 1 /\ nodes'[j] = nodes[m]
      BY <1>1, <1>4, <2>2, <2>4
    <3> QED BY <1>5, <2>1, <2>2, <2>4, <3>1 DEF IsFirst
  <2> QED BY <2>1, <2>3, <2>4
<1>10. HeldNodesRight'
  <2> SUFFICES ASSUME NEW u \in Threads, NEW b \in held'[u]
               PROVE  \E k \in DOMAIN nodes' :
                        /\ nodes'[k].address = b.addr
                        /\ \A j \in DOMAIN nodes' : nodes'[j].address = b.addr => k <= j
                        /\ nodes'[k].is_using
                        /\ nodes'[k].size = heap'[b.addr] /\ nodes'[k].size >= b.n
    BY DEF HeldNodesRight, IsFirst
  <2>1. CASE b = b0
    <3>1. heap'[a] = n
      BY <1>3 DEF PoolInv, PoolTyped
    <3>2. \A j \in DOMAIN nodes' : 1 <= j
      BY <1>4, <1>5
    <3> QED BY <1>1, <1>4, <2>1, <3>1, <3>2
  <2>2. CASE b # b0
    <3>1. b \in held[u] /\ b.addr # a /\ b \in Block
      BY <1>2, <1>7, <2>2 DEF PoolInv, PoolTyped
    <3>2. PICK i \in DOMAIN nodes : /\ IsFirst(i, b.addr) /\ nodes[i].is_using
                                    /\ nodes[i].size = heap[b.addr] /\ nodes[i].size >= b.n
      BY <3>1 DEF PoolInv, HeldNodesRight
    <3>3. heap'[b.addr] = heap[b.addr]
      BY <1>3, <3>1 DEF PoolInv, PoolTyped, Block
    <3>4. ASSUME NEW j \in DOMAIN nodes', nodes'[j].address = b.addr PROVE i + 1 <= j
      <4>1. PICK m \in DOMAIN nodes : j = m + 1 /\ nodes'[j] = nodes[m]
        BY <1>1, <1>4, <3>1, <3>4
      <4> QED BY <1>5, <3>2, <3>4, <4>1 DEF IsFirst
    <3>5. i + 1 \in DOMAIN nodes' /\ nodes'[i + 1] = nodes[i]
      BY <1>4
    <3> QED BY <3>2, <3>3, <3>4, <3>5 DEF IsFirst
  <2> QED BY <2>1, <2>2
<1>11. OneHolder'
  BY <1>1, <1>2, <1>7 DEF PoolInv, PoolTyped, OneHolder
<1>12. Books'
  <2>1. stat'.total_nodes = Len(nodes')
    BY <1>4 DEF Create, PoolInv, PoolTyped, Books, Stat
  <2>2. \E c : Sums(c, nodes') /\ stat'.total_size = c[1]
    <3>1. PICK c : Sums(c, nodes) /\ stat.total_size = c[1]
      BY DEF PoolInv, Books
    <3> DEFINE d == [i \in 1 .. Len(nodes') + 1 |-> IF i = 1 THEN n + c[1] ELSE c[i - 1]]
    <3>2. stat'.total_size = n + c[1]
      BY <1>1, <1>5, <3>1 DEF Create, PoolInv, PoolTyped, Stat, Sums
    <3>3. d \in [1 .. Len(nodes') + 1 -> Nat] /\ d[1] = n + c[1] /\ d[Len(nodes') + 1] = 0
      BY <1>1, <1>4, <1>5, <3>1 DEF Sums
    <3>4. \A i \in 1 .. Len(nodes') : d[i] = nodes'[i].size + d[i + 1]
      <4> SUFFICES ASSUME NEW i \in 1 .. Len(nodes') PROVE d[i] = nodes'[i].size + d[i + 1]
        OBVIOUS
      <4>1. CASE i = 1
        <5>1. d[2] = c[1]
          BY <1>4, <1>5
        <5> QED BY <1>1, <1>4, <3>3, <4>1, <5>1
      <4>2. CASE i # 1
        <5>1. i - 1 \in DOMAIN nodes /\ i = (i - 1) + 1
          BY <1>4, <1>5, <4>2
        <5>2. nodes'[i] = nodes[i - 1] /\ d[i] = c[i - 1] /\ d[i + 1] = c[i]
          BY <1>4, <1>5, <4>2, <5>1
        <5> QED BY <1>5, <3>1, <5>1, <5>2 DEF Sums
      <4> QED BY <4>1, <4>2
    <3>5. Sums(d, nodes')
      BY <3>3, <3>4 DEF Sums
    <3> HIDE DEF d
    <3> QED BY <3>2, <3>3, <3>5
  <2>3. IsFiniteSet(InUse) /\ InUse \in SUBSET (Nat \ {0})
        /\ \A q : UsedFor(q) \in SUBSET (Nat \ {0}) /\ IsFiniteSet(UsedFor(q))
    BY UseFacts DEF PoolInv, PoolTyped
  <2>4. InUse' = {1} \cup {i + 1 : i \in InUse}
    BY <1>1, <1>4 DEF InUse
  <2>5. Cardinality(InUse') = Cardinality(InUse) + 1
    BY <2>3, <2>4, ShiftedCardinality
  <2>6. ASSUME NEW q \in AllPurposes PROVE purposes'[q] = Cardinality(UsedFor(q)')
    <3>1. CASE q = p
      <4>1. UsedFor(q)' = {1} \cup {i + 1 : i \in UsedFor(q)}
        BY <1>1, <1>4, <3>1 DEF UsedFor
      <4>2. purposes'[q] = purposes[q] + 1
        BY <3>1 DEF add_purpose, PoolInv, PoolTyped
      <4> QED BY <2>3, <4>1, <4>2, ShiftedCardinality DEF PoolInv, Books
    <3>2. CASE q # p
      <4>1. UsedFor(q)' = {i + 1 : i \in UsedFor(q)}
        BY <1>1, <1>4, <3>2 DEF UsedFor
      <4>2. purposes'[q] = purposes[q]
        BY <3>2 DEF add_purpose, PoolInv, PoolTyped
      <4> QED BY <2>3, <4>1, <4>2, ShiftedCardinality DEF PoolInv, Books
    <3> QED BY <3>1, <3>2
  <2>7. stat'.using_nodes = stat.using_nodes + 1 /\ stat'.free_nodes = stat.free_nodes
        /\ stat.using_nodes \in Int
    BY DEF Create, PoolInv, PoolTyped, Stat
  <2> QED BY <1>4, <1>5, <2>1, <2>2, <2>5, <2>6, <2>7 DEF Books, PoolInv
<1> QED BY <1>8, <1>9, <1>10, <1>11, <1>12 DEF PoolInv

-----------------------------------------------------------------------------
\* A node whose use or purpose changes keeps its place, address and size.
LEMMA EditFacts ==
  ASSUME nodes \in Seq(NodeType), NEW i \in DOMAIN nodes, NEW y \in NodeType,
         y.address = nodes[i].address, y.size = nodes[i].size,
         nodes' = [nodes EXCEPT ![i] = y]
  PROVE  /\ nodes' \in Seq(NodeType) /\ Len(nodes') = Len(nodes)
         /\ DOMAIN nodes' = DOMAIN nodes /\ nodes'[i] = y
         /\ \A j \in DOMAIN nodes : j # i => nodes'[j] = nodes[j]
         /\ \A j \in DOMAIN nodes : nodes'[j].address = nodes[j].address
         /\ \A c : Sums(c, nodes) => Sums(c, nodes')
         /\ \A j, a : IsFirst(j, a) => IsFirst(j, a)'
<1>1. /\ nodes' \in Seq(NodeType) /\ Len(nodes') = Len(nodes)
      /\ DOMAIN nodes' = DOMAIN nodes /\ nodes'[i] = y
      /\ \A j \in DOMAIN nodes : j # i => nodes'[j] = nodes[j]
  OBVIOUS
<1>2. \A j \in DOMAIN nodes : nodes'[j].address = nodes[j].address /\ nodes'[j].size = nodes[j].size
  BY <1>1
<1>3. DOMAIN nodes = 1 .. Len(nodes)
  OBVIOUS
<1>4. \A c : Sums(c, nodes) => Sums(c, nodes')
  BY <1>1, <1>2, <1>3 DEF Sums
<1>5. \A j, a : IsFirst(j, a) => IsFirst(j, a)'
  BY <1>1, <1>2 DEF IsFirst
<1> QED BY <1>1, <1>2, <1>4, <1>5

\* mp_malloc, when a node fits.
LEMMA ReuseKeeps ==
  ASSUME PoolInv, NEW t \in Threads, NEW p \in AllPurposes, NEW n \in Sizes,
         NEW a \in Addrs, Reuse(p, n, a), add_purpose(p),
         held' = [held EXCEPT ![t] = @ \cup {[addr |-> a, n |-> n]}]
  PROVE  PoolInv'
<1> DEFINE F == Found(n)
           y == [nodes[F] EXCEPT !.is_using = TRUE, !.purpose = p]
           b0 == [addr |-> a, n |-> n]
<1>1. b0 \in Block /\ b0.addr = a /\ b0.n = n /\ n \in Nat /\ n # 0
  BY MemPoolAssumption DEF Block
<1>2. /\ DOMAIN nodes = 1 .. Len(nodes) /\ Len(nodes) \in Nat /\ nodes \in Seq(NodeType)
      /\ \A i \in DOMAIN nodes : /\ nodes[i] \in NodeType /\ nodes[i].address \in Addrs
                                 /\ nodes[i].size \in Nat
  BY NodeFacts DEF PoolInv, PoolTyped
<1>3. F \in DOMAIN nodes /\ ~ nodes[F].is_using /\ nodes[F].size >= n /\ nodes[F].address = a
  BY <1>1, <1>2, FoundFits DEF Reuse, Fitting
<1> HIDE DEF F
<1>4. /\ y \in NodeType /\ y.address = nodes[F].address /\ y.size = nodes[F].size
      /\ y.is_using /\ y.purpose = p
  BY <1>2, <1>3 DEF NodeType
<1>5. nodes' = [nodes EXCEPT ![F] = y]
  BY <1>2, <1>3 DEF Reuse, F
<1> HIDE DEF y, b0
<1>6. /\ nodes' \in Seq(NodeType) /\ Len(nodes') = Len(nodes)
      /\ DOMAIN nodes' = DOMAIN nodes /\ nodes'[F] = y
      /\ \A j \in DOMAIN nodes : j # F => nodes'[j] = nodes[j]
      /\ \A j \in DOMAIN nodes : nodes'[j].address = nodes[j].address
      /\ \A c : Sums(c, nodes) => Sums(c, nodes')
      /\ \A j, d : IsFirst(j, d) => IsFirst(j, d)'
  BY <1>2, <1>3, <1>4, <1>5, EditFacts
<1>7. held' = [held EXCEPT ![t] = @ \cup {b0}] /\ heap' = heap
  BY DEF b0, Reuse
\* The free node is the first of its address, so nobody holds the address.
<1>8. IsFirst(F, a) /\ heap[a] = nodes[F].size
  BY <1>3 DEF PoolInv, FreeNodesRight
<1>9. ASSUME NEW u \in Threads, NEW b \in held[u], b.addr = a PROVE FALSE
  <2>1. PICK k \in DOMAIN nodes : IsFirst(k, a) /\ nodes[k].is_using
    BY <1>9 DEF PoolInv, HeldNodesRight
  <2>2. k <= F /\ F <= k
    BY <1>8, <2>1 DEF IsFirst
  <2>3. k = F
    BY <1>2, <1>3, <2>1, <2>2
  <2> QED BY <1>3, <2>1, <2>3
<1>10. PoolTyped'
  <2>1. purposes' \in [AllPurposes -> Nat]
    BY DEF add_purpose, PoolInv, PoolTyped
  <2>2. stat' \in Stat
    <3>1. stat \in Stat
      BY DEF PoolInv, PoolTyped
    <3>2. stat' = [stat EXCEPT !.free_nodes = @ - 1, !.using_nodes = @ + 1]
      BY DEF Reuse
    <3>3. stat.free_nodes - 1 \in Int /\ stat.using_nodes + 1 \in Int
      BY <3>1 DEF Stat
    <3> QED BY <3>1, <3>2, <3>3 DEF Stat
  <2>3. held' \in [Threads -> SUBSET Block]
    BY <1>1, <1>7 DEF PoolInv, PoolTyped
  <2> QED BY <1>6, <1>7, <2>1, <2>2, <2>3 DEF PoolInv, PoolTyped
<1>11. FreeNodesRight'
  <2> SUFFICES ASSUME NEW k \in DOMAIN nodes', ~ nodes'[k].is_using
               PROVE  /\ IsFirst(k, nodes[k].address)'
                      /\ heap'[nodes'[k].address] = nodes'[k].size
    BY <1>6 DEF FreeNodesRight, IsFirst
  <2>1. k \in DOMAIN nodes /\ nodes'[k] = nodes[k]
    BY <1>4, <1>6
  <2>2. IsFirst(k, nodes[k].address) /\ heap[nodes[k].address] = nodes[k].size
    BY <2>1 DEF PoolInv, FreeNodesRight
  <2>3. IsFirst(k, nodes[k].address)'
    BY <1>6, <2>1, <2>2 DEF IsFirst
  <2> QED BY <1>7, <2>1, <2>2, <2>3
<1>12. HeldNodesRight'
  <2> SUFFICES ASSUME NEW u \in Threads, NEW b \in held'[u]
               PROVE  \E k \in DOMAIN nodes' :
                        /\ nodes'[k].address = b.addr
                        /\ \A j \in DOMAIN nodes' : nodes'[j].address = b.addr => k <= j
                        /\ nodes'[k].is_using
                        /\ nodes'[k].size = heap'[b.addr] /\ nodes'[k].size >= b.n
    BY DEF HeldNodesRight, IsFirst
  <2>1. CASE b = b0
    BY <1>1, <1>3, <1>4, <1>6, <1>7, <1>8, <2>1 DEF IsFirst
  <2>2. CASE b # b0
    <3>1. b \in held[u]
      BY <1>7, <2>2 DEF PoolInv, PoolTyped
    <3>2. PICK k \in DOMAIN nodes : /\ IsFirst(k, b.addr) /\ nodes[k].is_using
                                    /\ nodes[k].size = heap[b.addr] /\ nodes[k].size >= b.n
      BY <3>1 DEF PoolInv, HeldNodesRight
    <3>3. k # F
      BY <1>3, <3>2
    <3> QED BY <1>6, <1>7, <3>2, <3>3 DEF IsFirst
  <2> QED BY <2>1, <2>2
<1>13. OneHolder'
  BY <1>1, <1>7, <1>9 DEF PoolInv, PoolTyped, OneHolder
<1>14. Books'
  <2>1. /\ stat'.total_nodes = stat.total_nodes /\ stat'.total_size = stat.total_size
        /\ stat'.using_nodes = stat.using_nodes + 1 /\ stat'.free_nodes = stat.free_nodes - 1
        /\ stat.using_nodes \in Int /\ stat.free_nodes \in Int
    BY DEF Reuse, PoolInv, PoolTyped, Stat
  <2>2. \E c : Sums(c, nodes') /\ stat'.total_size = c[1]
    BY <1>6, <2>1 DEF PoolInv, Books
  <2>3. IsFiniteSet(InUse) /\ \A q : IsFiniteSet(UsedFor(q))
    BY <1>2, UseFacts
  <2>4. InUse' = InUse \cup {F} /\ F \notin InUse
    BY <1>3, <1>4, <1>6 DEF InUse
  <2>5. Cardinality(InUse') = Cardinality(InUse) + 1
    BY <2>3, <2>4, FS_AddElement
  <2>6. ASSUME NEW q \in AllPurposes PROVE purposes'[q] = Cardinality(UsedFor(q)')
    <3>1. CASE q = p
      <4>1. UsedFor(q)' = UsedFor(q) \cup {F} /\ F \notin UsedFor(q)
        BY <1>3, <1>4, <1>6, <3>1 DEF UsedFor
      <4>2. purposes'[q] = purposes[q] + 1
        BY <3>1 DEF add_purpose, PoolInv, PoolTyped
      <4>3. Cardinality(UsedFor(q)') = Cardinality(UsedFor(q)) + 1
        BY <2>3, <4>1, FS_AddElement
      <4> QED BY <4>2, <4>3 DEF PoolInv, Books
    <3>2. CASE q # p
      <4>1. UsedFor(q)' = UsedFor(q)
        BY <1>3, <1>4, <1>6, <3>2 DEF UsedFor
      <4>2. purposes'[q] = purposes[q]
        BY <3>2 DEF add_purpose, PoolInv, PoolTyped
      <4> QED BY <4>1, <4>2 DEF PoolInv, Books
    <3> QED BY <3>1, <3>2
  <2> QED BY <1>2, <1>6, <2>1, <2>2, <2>5, <2>6 DEF Books, PoolInv
<1> QED BY <1>10, <1>11, <1>12, <1>13, <1>14 DEF PoolInv

\* mp_free of a block the thread holds: the node found for its address is the
\* block's own, it is in use, and its purpose is counted (assert(p->count > 0)).
LEMMA ReleaseKeeps ==
  ASSUME PoolInv, NEW t \in Threads, NEW b0 \in held[t], Release(b0.addr),
         held' = [held EXCEPT ![t] = @ \ {b0}]
  PROVE  PoolInv'
<1> DEFINE a == b0.addr
           i == First(At(a))
           y == [nodes[i] EXCEPT !.is_using = FALSE]
           p == nodes[i].purpose
<1>1. /\ DOMAIN nodes = 1 .. Len(nodes) /\ Len(nodes) \in Nat /\ nodes \in Seq(NodeType)
      /\ \A k \in DOMAIN nodes : /\ nodes[k] \in NodeType /\ nodes[k].address \in Addrs
                                 /\ nodes[k].size \in Nat /\ nodes[k].purpose \in AllPurposes
  BY NodeFacts DEF PoolInv, PoolTyped
<1>2. /\ i \in DOMAIN nodes /\ IsFirst(i, a) /\ nodes[i].is_using
      /\ nodes[i].size = heap[a] /\ nodes[i].size >= b0.n
  <2>1. PICK k \in DOMAIN nodes : /\ IsFirst(k, a) /\ nodes[k].is_using
                                  /\ nodes[k].size = heap[a] /\ nodes[k].size >= b0.n
    BY DEF PoolInv, HeldNodesRight
  <2>2. At(a) \in SUBSET Nat /\ At(a) # {} /\ k \in At(a)
    BY <1>1, <2>1 DEF At, IsFirst
  <2>3. i \in At(a) /\ i <= k
    BY <2>2, FirstIsFirst
  <2>4. k <= i /\ i \in DOMAIN nodes
    BY <2>1, <2>3 DEF IsFirst, At
  <2>5. i = k
    BY <1>1, <2>3, <2>4
  <2> QED BY <2>1, <2>5
<1> HIDE DEF i
<1>3. y \in NodeType /\ y.address = nodes[i].address /\ y.size = nodes[i].size /\ ~ y.is_using
  BY <1>1, <1>2 DEF NodeType
<1>4. nodes' = [nodes EXCEPT ![i] = y]
  BY <1>1, <1>2 DEF Release, i
<1> HIDE DEF y
<1>5. /\ nodes' \in Seq(NodeType) /\ Len(nodes') = Len(nodes)
      /\ DOMAIN nodes' = DOMAIN nodes /\ nodes'[i] = y
      /\ \A j \in DOMAIN nodes : j # i => nodes'[j] = nodes[j]
      /\ \A j \in DOMAIN nodes : nodes'[j].address = nodes[j].address
      /\ \A c : Sums(c, nodes) => Sums(c, nodes')
      /\ \A j, d : IsFirst(j, d) => IsFirst(j, d)'
  BY <1>1, <1>2, <1>3, <1>4, EditFacts
<1>6. heap' = heap /\ nodes[i].address = a /\ sub_purpose(p)
      /\ stat' = [stat EXCEPT !.free_nodes = @ + 1, !.using_nodes = @ - 1]
  BY <1>2 DEF Release, IsFirst, i
<1>7. /\ IsFiniteSet(InUse) /\ \A q : IsFiniteSet(UsedFor(q))
  BY <1>1, UseFacts
<1>8. p \in AllPurposes /\ i \in UsedFor(p) /\ i \in InUse
  BY <1>1, <1>2 DEF UsedFor, InUse
<1> HIDE DEF p
<1>9. purposes[p] > 0 /\ purposes[p] \in Nat /\ purposes[p] = Cardinality(UsedFor(p))
  <2>1. UsedFor(p) # {} /\ IsFiniteSet(UsedFor(p)) /\ purposes[p] = Cardinality(UsedFor(p))
    BY <1>7, <1>8 DEF PoolInv, Books
  <2>2. purposes[p] # 0 /\ purposes[p] \in Nat
    BY <2>1, FS_EmptySet, FS_CardinalityType
  <2> QED BY <2>1, <2>2
<1>10. purposes' = [purposes EXCEPT ![p] = purposes[p] - 1]
  BY <1>6, <1>8, <1>9 DEF sub_purpose, PoolInv, PoolTyped
<1>11. PoolTyped'
  <2>1. purposes' \in [AllPurposes -> Nat]
    <3>1. purposes[p] - 1 \in Nat
      BY <1>9
    <3> QED BY <1>10, <3>1 DEF PoolInv, PoolTyped
  <2>2. stat' \in Stat
    <3>1. stat \in Stat
      BY DEF PoolInv, PoolTyped
    <3>2. stat.free_nodes + 1 \in Int /\ stat.using_nodes - 1 \in Int
      BY <3>1 DEF Stat
    <3> QED BY <1>6, <3>1, <3>2 DEF Stat
  <2>3. held' \in [Threads -> SUBSET Block]
    BY DEF PoolInv, PoolTyped
  <2> QED BY <1>5, <1>6, <2>1, <2>2, <2>3 DEF PoolInv, PoolTyped
<1>12. FreeNodesRight'
  <2> SUFFICES ASSUME NEW k \in DOMAIN nodes', ~ nodes'[k].is_using
               PROVE  /\ IsFirst(k, nodes[k].address)'
                      /\ heap'[nodes'[k].address] = nodes'[k].size
    BY <1>5 DEF FreeNodesRight, IsFirst
  <2>1. CASE k = i
    BY <1>2, <1>3, <1>5, <1>6, <2>1 DEF IsFirst
  <2>2. CASE k # i
    <3>1. k \in DOMAIN nodes /\ nodes'[k] = nodes[k]
      BY <1>5, <2>2
    <3>2. IsFirst(k, nodes[k].address) /\ heap[nodes[k].address] = nodes[k].size
      BY <3>1 DEF PoolInv, FreeNodesRight
    <3>3. IsFirst(k, nodes[k].address)'
      BY <1>5, <3>1, <3>2 DEF IsFirst
    <3> QED BY <1>6, <3>1, <3>2, <3>3
  <2> QED BY <2>1, <2>2
<1>13. \A u \in Threads : \A b \in held'[u] : b \in held[u] /\ b.addr # a
  BY DEF PoolInv, PoolTyped, OneHolder
<1>14. HeldNodesRight'
  <2> SUFFICES ASSUME NEW u \in Threads, NEW b \in held'[u]
               PROVE  \E k \in DOMAIN nodes' :
                        /\ nodes'[k].address = b.addr
                        /\ \A j \in DOMAIN nodes' : nodes'[j].address = b.addr => k <= j
                        /\ nodes'[k].is_using
                        /\ nodes'[k].size = heap'[b.addr] /\ nodes'[k].size >= b.n
    BY DEF HeldNodesRight, IsFirst
  <2>1. b \in held[u] /\ b.addr # a
    BY <1>13
  <2>2. PICK k \in DOMAIN nodes : /\ IsFirst(k, b.addr) /\ nodes[k].is_using
                                  /\ nodes[k].size = heap[b.addr] /\ nodes[k].size >= b.n
    BY <2>1 DEF PoolInv, HeldNodesRight
  <2>3. k # i
    BY <1>6, <2>1, <2>2 DEF IsFirst
  <2> QED BY <1>5, <1>6, <2>2, <2>3 DEF IsFirst
<1>15. OneHolder'
  BY <1>13 DEF PoolInv, OneHolder
<1>16. Books'
  <2>1. /\ stat'.total_nodes = stat.total_nodes /\ stat'.total_size = stat.total_size
        /\ stat'.using_nodes = stat.using_nodes - 1 /\ stat'.free_nodes = stat.free_nodes + 1
        /\ stat.using_nodes \in Int /\ stat.free_nodes \in Int
    BY <1>6 DEF PoolInv, PoolTyped, Stat
  <2>2. \E c : Sums(c, nodes') /\ stat'.total_size = c[1]
    BY <1>5, <2>1 DEF PoolInv, Books
  <2>3. InUse' = InUse \ {i}
    BY <1>3, <1>5 DEF InUse
  <2>4. Cardinality(InUse') = Cardinality(InUse) - 1
    BY <1>7, <1>8, <2>3, FS_RemoveElement
  <2>5. ASSUME NEW q \in AllPurposes PROVE purposes'[q] = Cardinality(UsedFor(q)')
    <3>1. CASE q = p
      <4>1. UsedFor(q)' = UsedFor(q) \ {i}
        BY <1>3, <1>5, <3>1 DEF UsedFor
      <4>2. Cardinality(UsedFor(q)') = Cardinality(UsedFor(q)) - 1
        BY <1>7, <1>8, <3>1, <4>1, FS_RemoveElement
      <4> QED BY <1>9, <1>10, <3>1, <4>2 DEF PoolInv, PoolTyped
    <3>2. CASE q # p
      <4>1. UsedFor(q)' = UsedFor(q)
        BY <1>3, <1>5, <3>2 DEF UsedFor, p
      <4> QED BY <1>10, <3>2, <4>1 DEF PoolInv, PoolTyped, Books
    <3> QED BY <3>1, <3>2
  <2> QED BY <1>1, <1>5, <2>1, <2>2, <2>4, <2>5 DEF Books, PoolInv
<1> QED BY <1>11, <1>12, <1>14, <1>15, <1>16 DEF PoolInv

\* sftt_packet_serialize: the node of the block that went to free() stays, in
\* use for ever, and no free node has its address.
LEMMA SerializeKeeps ==
  ASSUME PoolInv, NEW t \in Threads, NEW b0 \in held[t],
         heap' = [heap EXCEPT ![b0.addr] = 0],
         held' = [held EXCEPT ![t] = @ \ {b0}],
         UNCHANGED << nodes, purposes, stat >>
  PROVE  PoolInv'
<1> DEFINE a == b0.addr
<1>1. /\ DOMAIN nodes = 1 .. Len(nodes) /\ Len(nodes) \in Nat
      /\ \A k \in DOMAIN nodes : nodes[k].address \in Addrs
  BY NodeFacts DEF PoolInv, PoolTyped
<1>2. \A u \in Threads : \A b \in held'[u] : b \in held[u] /\ b.addr # a /\ b.addr \in Addrs
  BY DEF PoolInv, PoolTyped, OneHolder, Block
<1>3. ASSUME NEW k \in DOMAIN nodes, ~ nodes[k].is_using PROVE nodes[k].address # a
  <2>1. PICK m \in DOMAIN nodes : IsFirst(m, a) /\ nodes[m].is_using
    BY DEF PoolInv, HeldNodesRight
  <2>2. nodes[k].address = a => m <= k /\ k <= m
    BY <1>3, <2>1 DEF PoolInv, FreeNodesRight, IsFirst
  <2>3. nodes[k].address = a => m = k
    BY <1>1, <2>2
  <2> QED BY <1>3, <2>1, <2>3
<1>4. PoolTyped'
  <2>1. held' \in [Threads -> SUBSET Block]
    BY DEF PoolInv, PoolTyped
  <2>2. heap' \in [Addrs -> {0} \cup Sizes]
    BY DEF PoolInv, PoolTyped
  <2> QED BY <2>1, <2>2 DEF PoolInv, PoolTyped
<1>5. \A d \in Addrs : d # a => heap'[d] = heap[d]
  BY DEF PoolInv, PoolTyped
<1>6. FreeNodesRight'
  BY <1>1, <1>3, <1>5 DEF PoolInv, FreeNodesRight, IsFirst
<1>7. HeldNodesRight'
  BY <1>2, <1>5 DEF PoolInv, HeldNodesRight, IsFirst
<1>8. OneHolder'
  BY <1>2 DEF PoolInv, OneHolder
<1>9. Books'
  BY DEF PoolInv, Books, InUse, UsedFor, Sums
<1> QED BY <1>4, <1>6, <1>7, <1>8, <1>9 DEF PoolInv

-----------------------------------------------------------------------------
\* mp_malloc, whoever calls it, leaves the blocks that are held alone.
LEMMA AllocateKeeps ==
  ASSUME PoolInv, NEW t \in Threads, NEW p \in AllPurposes, NEW n \in Sizes,
         NEW a \in Addrs, Allocate(t, p, n, a)
  PROVE  /\ PoolInv'
         /\ \A u \in Threads : u # t => held'[u] = held[u]
         /\ held[t] \subseteq held'[t]
         /\ \A u \in Threads : \A b \in held[u] : heap'[b.addr] = heap[b.addr]
<1>1. PoolInv'
  BY CreateKeeps, ReuseKeeps DEF Allocate
<1>2. held \in [Threads -> SUBSET Block] /\ heap \in [Addrs -> {0} \cup Sizes]
  BY DEF PoolInv, PoolTyped
<1>3. (\A u \in Threads : u # t => held'[u] = held[u]) /\ held[t] \subseteq held'[t]
  BY <1>2 DEF Allocate
<1>4. ASSUME NEW u \in Threads, NEW b \in held[u] PROVE heap'[b.addr] = heap[b.addr]
  <2>1. b.addr \in Addrs
    BY <1>2 DEF Block
  <2>2. heap[b.addr] # 0
    BY NodeFacts DEF PoolInv, PoolTyped, HeldNodesRight
  <2>3. CASE Reuse(p, n, a)
    BY <2>3 DEF Reuse
  <2>4. CASE Create(p, n, a)
    <3>1. a # b.addr /\ heap' = [heap EXCEPT ![a] = n]
      BY <2>2, <2>4 DEF Create
    <3> QED BY <1>2, <2>1, <3>1
  <2> QED BY <2>3, <2>4 DEF Allocate
<1> QED BY <1>1, <1>3, <1>4

\* A step that leaves the pool and the blocks alone.
LEMMA SamePool ==
  ASSUME PoolInv, UNCHANGED << pool, held >>
  PROVE  PoolInv'
<1>1. heap' = heap /\ nodes' = nodes /\ purposes' = purposes /\ stat' = stat /\ held' = held
  BY DEF pool
<1>2. PoolTyped'
  BY <1>1 DEF PoolInv, PoolTyped
<1>3. FreeNodesRight' /\ HeldNodesRight' /\ OneHolder'
  BY <1>1 DEF PoolInv, FreeNodesRight, HeldNodesRight, OneHolder, IsFirst
<1>4. Books'
  BY <1>1 DEF PoolInv, Books, InUse, UsedFor
<1> QED BY <1>2, <1>3, <1>4 DEF PoolInv

\* What the others have in their local variables survives a step of t.
LEMMA OthersKeep ==
  ASSUME NEW t \in Threads, NEW u \in Threads, u # t, LocalTyped, ThreadRight(u),
         pc'[u] = pc[u], work'[u] = work[u], held'[u] = held[u],
         \A b \in held[u] : heap'[b.addr] = heap[b.addr],
         Changes(t) \/ (raced'[u] = raced[u] /\ UNCHANGED << purposes, stat >>)
  PROVE  ThreadRight(u)'
<1>1. ReallocRight(u)'
  BY DEF ThreadRight, ReallocRight
<1>2. FiguresRight(u)'
  BY DEF ThreadRight, FiguresRight
<1>3. ASSUME ~ raced'[u] PROVE Reporting(u)'
  <2>1. CASE Changes(t)
    <3>1. pc[u] = "idle"
      BY <1>3, <2>1 DEF Changes
    <3> QED BY <3>1 DEF Reporting
  <2>2. CASE raced'[u] = raced[u] /\ UNCHANGED << purposes, stat >>
    <3>1. Reporting(u)
      BY <1>3, <2>2 DEF ThreadRight
    <3> QED BY <2>2, <3>1 DEF Reporting, Listed
  <2> QED BY <2>1, <2>2
<1> QED BY <1>1, <1>2, <1>3 DEF ThreadRight

\* So each action below is left with the pool and its own local variables.
LEMMA StepKeeps ==
  ASSUME IInv, NEW t \in Threads, NEW l \in Labels, NEW w \in Local, PoolInv',
         pc' = [pc EXCEPT ![t] = l], work' = [work EXCEPT ![t] = w],
         \A u \in Threads : u # t =>
            held'[u] = held[u] /\ \A b \in held[u] : heap'[b.addr] = heap[b.addr],
         \/ Changes(t)
         \/ raced' = raced /\ UNCHANGED << purposes, stat >>
         \/ raced' = [raced EXCEPT ![t] = FALSE] /\ UNCHANGED << purposes, stat >>,
         pc'[t] = l /\ work'[t] = w => ThreadRight(t)'
  PROVE  IInv'
<1>1. LocalTyped
  BY DEF IInv
<1>2. LocalTyped'
  <2>1. pc' \in [Threads -> Labels] /\ work' \in [Threads -> Local]
    BY <1>1 DEF LocalTyped
  <2>2. raced' \in [Threads -> BOOLEAN]
    BY <1>1 DEF LocalTyped, Changes
  <2> QED BY <2>1, <2>2 DEF LocalTyped
<1>3. pc'[t] = l /\ work'[t] = w
  BY <1>1 DEF LocalTyped
<1>4. ASSUME NEW u \in Threads, u # t PROVE ThreadRight(u)'
  <2>1. pc'[u] = pc[u] /\ work'[u] = work[u]
    BY <1>1, <1>4 DEF LocalTyped
  <2>2. Changes(t) \/ (raced'[u] = raced[u] /\ UNCHANGED << purposes, stat >>)
    BY <1>1, <1>4 DEF LocalTyped
  <2>3. ThreadRight(u)
    BY DEF IInv
  <2> QED BY <1>1, <1>4, <2>1, <2>2, <2>3, OthersKeep
<1> QED BY <1>2, <1>3, <1>4 DEF IInv

-----------------------------------------------------------------------------
\* The purposes of the list are finitely many.
LEMMA ListedFacts ==
  ASSUME IInv
  PROVE  IsFiniteSet(AllPurposes) /\ IsFiniteSet(Listed) /\ Cardinality(Listed) \in Nat
<1>1. IsFiniteSet({"detail_struct"}) /\ IsFiniteSet({"detail_nodes"}) /\ IsFiniteSet({"mp_realloc"})
  BY FS_Singleton
<1>2. IsFiniteSet({"detail_struct"} \cup {"detail_nodes"})
  BY <1>1, FS_Union
<1>3. IsFiniteSet(({"detail_struct"} \cup {"detail_nodes"}) \cup {"mp_realloc"})
  BY <1>1, <1>2, FS_Union
<1>4. OwnPurposes = ({"detail_struct"} \cup {"detail_nodes"}) \cup {"mp_realloc"}
  BY DEF OwnPurposes
<1>5. IsFiniteSet(AllPurposes)
  BY <1>3, <1>4, MemPoolAssumption, FS_Union DEF AllPurposes
<1>6. Listed \subseteq AllPurposes
  BY DEF Listed
<1>7. IsFiniteSet(Listed)
  BY <1>5, <1>6, FS_Subset
<1> QED BY <1>5, <1>7, FS_CardinalityType

\* No step breaks the invariant.
LEMMA IInvKept == IInv /\ [Next]_vars => IInv'
<1> SUFFICES ASSUME IInv, [Next]_vars PROVE IInv'
  OBVIOUS
<1>1. PoolInv /\ LocalTyped /\ PoolTyped /\ \A u \in Threads : ThreadRight(u)
  BY DEF IInv, PoolInv
<1>2. /\ pc \in [Threads -> Labels] /\ work \in [Threads -> Local]
      /\ raced \in [Threads -> BOOLEAN] /\ held \in [Threads -> SUBSET Block]
      /\ heap \in [Addrs -> {0} \cup Sizes]
  BY <1>1 DEF LocalTyped, PoolTyped
<1>3. NoWork \in Local /\ NoWork.addr = NoAddr /\ NoWork.n = 0 /\ NoWork.count = 0
      /\ NoWork.figures = << >> /\ Len(NoWork.figures) = 0
  BY DEF NoWork, Local
<1>4. CASE UNCHANGED vars
  <2>1. PoolInv'
    BY <1>1, <1>4, SamePool DEF vars, pool
  <2>2. LocalTyped'
    BY <1>1, <1>4 DEF vars, LocalTyped
  <2>3. ASSUME NEW u \in Threads PROVE ThreadRight(u)'
    BY <1>1, <1>4 DEF vars, ThreadRight, ReallocRight, FiguresRight, Reporting, Listed
  <2> QED BY <2>1, <2>2, <2>3 DEF IInv
<1>5. ASSUME NEW t \in Threads, Step(t) PROVE IInv'
  <2>0. /\ pc[t] \in Labels /\ work[t] \in Local /\ ThreadRight(t)
        /\ pc = [pc EXCEPT ![t] = pc[t]] /\ work = [work EXCEPT ![t] = work[t]]
    BY <1>1, <1>2
  <2>1. ASSUME NEW p \in Purposes, NEW n \in Sizes, NEW a \in Addrs, mp_malloc(t, p, n, a)
        PROVE  IInv'
    <3>1. pc[t] = "idle" /\ Allocate(t, p, n, a) /\ Changes(t) /\ pc' = pc /\ work' = work
      BY <2>1 DEF mp_malloc
    <3>2. PoolInv' /\ \A u \in Threads : u # t =>
            held'[u] = held[u] /\ \A b \in held[u] : heap'[b.addr] = heap[b.addr]
      BY <1>1, <3>1, AllocateKeeps DEF AllPurposes
    <3>3. ThreadRight(t)'
      BY <3>1 DEF ThreadRight, ReallocRight, FiguresRight, Reporting
    <3> QED BY <2>0, <3>1, <3>2, <3>3, StepKeeps
  <2>2. ASSUME NEW b \in held[t], mp_free(t, b) PROVE IInv'
    <3>1. /\ pc[t] = "idle" /\ Release(b.addr) /\ Changes(t) /\ pc' = pc /\ work' = work
          /\ held' = [held EXCEPT ![t] = @ \ {b}]
      BY <2>2 DEF mp_free
    <3>2. PoolInv' /\ heap' = heap
      BY <1>1, <3>1, ReleaseKeeps DEF Release
    <3>3. ThreadRight(t)'
      BY <3>1 DEF ThreadRight, ReallocRight, FiguresRight, Reporting
    <3>4. \A u \in Threads : u # t => held'[u] = held[u]
      BY <1>2, <3>1
    <3> QED BY <2>0, <3>1, <3>2, <3>3, <3>4, StepKeeps
  <2>3. ASSUME NEW b \in held[t], sftt_packet_serialize(t, b) PROVE IInv'
    <3>1. /\ pc[t] = "idle" /\ pc' = pc /\ work' = work /\ raced' = raced
          /\ UNCHANGED << nodes, purposes, stat >>
          /\ heap' = [heap EXCEPT ![b.addr] = 0]
          /\ held' = [held EXCEPT ![t] = @ \ {b}]
      BY <2>3 DEF sftt_packet_serialize
    <3>2. PoolInv'
      BY <1>1, <3>1, SerializeKeeps
    <3>3. ThreadRight(t)'
      BY <3>1 DEF ThreadRight, ReallocRight, FiguresRight, Reporting
    <3>4. ASSUME NEW u \in Threads, u # t
          PROVE  held'[u] = held[u] /\ \A d \in held[u] : heap'[d.addr] = heap[d.addr]
      <4>1. held'[u] = held[u]
        BY <1>2, <3>1, <3>4
      <4>2. ASSUME NEW d \in held[u] PROVE heap'[d.addr] = heap[d.addr]
        <5>1. d.addr # b.addr
          BY <1>1, <3>4 DEF PoolInv, OneHolder
        <5>2. d.addr \in Addrs
          BY <1>2 DEF Block
        <5> QED BY <1>2, <3>1, <5>1, <5>2
      <4> QED BY <4>1, <4>2
    <3> QED BY <2>0, <3>1, <3>2, <3>3, <3>4, StepKeeps
  <2>4. ASSUME NEW b \in held[t], NEW n \in Sizes, mp_realloc(t, b, n) PROVE IInv'
    <3> DEFINE z == nodes[First(At(b.addr))].size
               w == [NoWork EXCEPT !.addr = b.addr, !.n = n, !.count = z]
    <3>1. /\ pc' = [pc EXCEPT ![t] = "realloc"] /\ raced' = [raced EXCEPT ![t] = FALSE]
          /\ work' = [work EXCEPT ![t] = w] /\ UNCHANGED << pool, held >>
      BY <2>4 DEF mp_realloc, Begin, Goto
    <3>2. z = heap[b.addr] /\ z \in Nat
      <4>1. PICK k \in DOMAIN nodes : IsFirst(k, b.addr) /\ nodes[k].size = heap[b.addr]
        BY <1>1 DEF PoolInv, HeldNodesRight
      <4>2. /\ DOMAIN nodes = 1 .. Len(nodes) /\ nodes[k].size \in Nat /\ Len(nodes) \in Nat
        BY <1>1, NodeFacts DEF PoolTyped
      <4>3. At(b.addr) \in SUBSET Nat /\ k \in At(b.addr)
        BY <4>1, <4>2 DEF At, IsFirst
      <4>4. First(At(b.addr)) \in At(b.addr) /\ First(At(b.addr)) <= k
        BY <4>3, FirstIsFirst
      <4>5. k <= First(At(b.addr)) /\ First(At(b.addr)) \in DOMAIN nodes
        BY <4>1, <4>4 DEF IsFirst, At
      <4>6. First(At(b.addr)) = k
        BY <4>2, <4>4, <4>5
      <4> QED BY <4>1, <4>2, <4>6
    <3> HIDE DEF z
    <3>3. w \in Local /\ w.addr = b.addr /\ w.n = n /\ w.count = z
      <4>1. b.addr \in Addrs /\ n \in Nat
        BY <1>2, MemPoolAssumption DEF Block
      <4> QED BY <1>3, <3>2, <4>1 DEF Local
    <3> HIDE DEF w
    <3>4. pc'[t] = "realloc" /\ work'[t] = w => ThreadRight(t)'
      BY <3>1, <3>2, <3>3 DEF ThreadRight, ReallocRight, FiguresRight, Reporting, pool
    <3>5. PoolInv'
      BY <1>1, <3>1, SamePool
    <3>6. "realloc" \in Labels
      BY DEF Labels
    <3>7. heap' = heap /\ held' = held /\ UNCHANGED << purposes, stat >>
      BY <3>1 DEF pool
    <3> QED BY <3>1, <3>3, <3>4, <3>5, <3>6, <3>7, StepKeeps
  <2>5. ASSUME NEW a \in Addrs, realloc_malloc(t, a) PROVE IInv'
    <3>1. /\ pc[t] = "realloc" /\ Allocate(t, "mp_realloc", work[t].n, a) /\ Changes(t)
          /\ pc' = [pc EXCEPT ![t] = "realloc_free"] /\ work' = work
      BY <2>5 DEF realloc_malloc, Goto
    <3>2. work[t].n \in Sizes /\ "mp_realloc" \in AllPurposes
      BY <2>0, <3>1 DEF ThreadRight, ReallocRight, AllPurposes, OwnPurposes
    <3>3. /\ PoolInv' /\ held[t] \subseteq held'[t]
          /\ \A u \in Threads : u # t => held'[u] = held[u]
          /\ \A u \in Threads : \A b \in held[u] : heap'[b.addr] = heap[b.addr]
      BY <1>1, <3>1, <3>2, AllocateKeeps
    <3>4. pc'[t] = "realloc_free" => ThreadRight(t)'
      BY <2>0, <3>1, <3>3 DEF ThreadRight, ReallocRight, FiguresRight, Reporting
    <3>5. "realloc_free" \in Labels
      BY DEF Labels
    <3>6. /\ work[t] \in Local /\ work' = [work EXCEPT ![t] = work[t]]
      BY <2>0, <3>1
    <3>7. pc'[t] = "realloc_free" /\ work'[t] = work[t] => ThreadRight(t)'
      BY <3>4
    <3>8. /\ pc' = [pc EXCEPT ![t] = "realloc_free"] /\ Changes(t)
          /\ \A u \in Threads : u # t =>
               held'[u] = held[u] /\ \A b \in held[u] : heap'[b.addr] = heap[b.addr]
      BY <3>1, <3>3
    <3> QED BY <3>3, <3>5, <3>6, <3>7, <3>8, StepKeeps
  <2>6. ASSUME realloc_free(t) PROVE IInv'
    <3>1. /\ pc[t] = "realloc_free" /\ Release(work[t].addr) /\ Changes(t)
          /\ held' = [held EXCEPT ![t] = {b \in @ : b.addr # work[t].addr}]
          /\ work' = [work EXCEPT ![t] = NoWork] /\ pc' = [pc EXCEPT ![t] = "idle"]
      BY <2>6 DEF realloc_free, Goto
    <3>2. PICK b \in held[t] : b.addr = work[t].addr
      BY <2>0, <3>1 DEF ThreadRight, ReallocRight
    <3>3. {d \in held[t] : d.addr # work[t].addr} = held[t] \ {b}
      BY <1>1, <3>2 DEF PoolInv, OneHolder
    <3>4. held' = [held EXCEPT ![t] = @ \ {b}]
      BY <3>1, <3>3
    <3>5. PoolInv' /\ heap' = heap
      BY <1>1, <3>1, <3>2, <3>4, ReleaseKeeps DEF Release
    <3>6. pc'[t] = "idle" => ThreadRight(t)'
      BY DEF ThreadRight, ReallocRight, FiguresRight, Reporting
    <3>7. "idle" \in Labels
      BY DEF Labels
    <3>8. \A u \in Threads : u # t => held'[u] = held[u]
      BY <1>2, <3>1
    <3> QED BY <1>3, <3>1, <3>5, <3>6, <3>7, <3>8, StepKeeps
  <2>7. ASSUME get_mp_stat(t) PROVE IInv'
    <3>1. /\ work' = [work EXCEPT ![t] = NoWork] /\ pc' = [pc EXCEPT ![t] = "stat"]
          /\ raced' = [raced EXCEPT ![t] = FALSE] /\ UNCHANGED << pool, held >>
      BY <2>7 DEF get_mp_stat, Begin, Goto
    <3>2. pc'[t] = "stat" /\ work'[t] = NoWork => ThreadRight(t)'
      BY <1>3 DEF ThreadRight, ReallocRight, FiguresRight, Reporting
    <3>3. PoolInv' /\ heap' = heap /\ held' = held /\ UNCHANGED << purposes, stat >>
      BY <1>1, <3>1, SamePool DEF pool
    <3>4. "stat" \in Labels
      BY DEF Labels
    <3> QED BY <1>3, <3>1, <3>2, <3>3, <3>4, StepKeeps
  <2>8. ASSUME get_mp_stat_next(t) PROVE IInv'
    <3> DEFINE k == Len(work[t].figures) + 1
               v == stat[Counters[k]]
               w == [work[t] EXCEPT !.figures = Append(@, v)]
               l == IF k = Len(Counters) THEN "report" ELSE "stat"
    <3>1. /\ pc[t] = "stat" /\ work' = [work EXCEPT ![t] = w] /\ pc' = [pc EXCEPT ![t] = l]
          /\ raced' = raced /\ UNCHANGED << pool, held >>
      BY <1>2, <2>8 DEF get_mp_stat_next, Goto
    <3>2. /\ work[t].figures \in Seq(Int) /\ Len(work[t].figures) \in Nat
          /\ Len(work[t].figures) < 4 /\ work[t].n = 0 /\ work[t].count \in Nat
      BY <2>0, <3>1 DEF Local, ThreadRight, FiguresRight
    <3>3. k \in 1 .. 4 /\ Len(Counters) = 4
      BY <3>2 DEF Counters
    <3>4. v \in Int
      <4>1. stat \in Stat
        BY <1>1 DEF PoolTyped
      <4>2. stat.total_size \in Int /\ stat.total_nodes \in Int
            /\ stat.using_nodes \in Int /\ stat.free_nodes \in Int
        BY <4>1 DEF Stat
      <4>3. k = 1 \/ k = 2 \/ k = 3 \/ k = 4
        BY <3>3
      <4>4. /\ Counters[1] = "total_size" /\ Counters[2] = "total_nodes"
            /\ Counters[3] = "using_nodes" /\ Counters[4] = "free_nodes"
        BY DEF Counters
      <4> HIDE DEF k
      <4> QED BY <4>2, <4>3, <4>4
    <3> HIDE DEF v
    <3>5. /\ Append(work[t].figures, v) \in Seq(Int) /\ Len(Append(work[t].figures, v)) = k
          /\ Append(work[t].figures, v)[k] = v
          /\ \A j \in 1 .. Len(work[t].figures) : Append(work[t].figures, v)[j] = work[t].figures[j]
      BY <3>2, <3>4
    <3>6. w \in Local /\ w.figures = Append(work[t].figures, v) /\ w.n = 0 /\ w.count = work[t].count
      BY <2>0, <3>2, <3>5 DEF Local
    <3>7. l \in Labels /\ l \in {"stat", "report"} /\ (l = "report" <=> k = 4)
      BY <3>3 DEF Labels
    <3> HIDE DEF w, l
    <3>8. stat' = stat /\ purposes' = purposes /\ heap' = heap /\ held' = held
      BY <3>1 DEF pool
    <3>9. ASSUME pc'[t] = l, work'[t] = w PROVE ThreadRight(t)'
      <4>1. ReallocRight(t)'
        BY <3>7, <3>9 DEF ReallocRight
      <4>2. FiguresRight(t)'
        <5>1. l = "stat" => k < 4
          BY <3>3, <3>7
        <5> QED BY <3>5, <3>6, <3>7, <3>9, <5>1 DEF FiguresRight
      <4>3. ASSUME ~ raced'[t] PROVE Reporting(t)'
        <5>1. Reporting(t)
          BY <2>0, <3>1, <4>3 DEF ThreadRight
        <5>2. ASSUME NEW j \in 1 .. k PROVE w.figures[j] = stat[Counters[j]]
          <6>1. CASE j = k
            BY <3>5, <3>6, <6>1 DEF v
          <6>2. CASE j # k
            <7>1. j \in 1 .. Len(work[t].figures)
              BY <3>2, <6>2
            <7> QED BY <3>1, <3>5, <3>6, <5>1, <7>1 DEF Reporting
          <6> QED BY <6>1, <6>2
        <5>3. Len(w.figures) = k
          BY <3>5, <3>6
        <5>4. l = "report" => Len(w.figures) \in {0, 4} /\ w.n <= w.count
          BY <3>2, <3>6, <3>7, <5>3
        <5> QED BY <3>7, <3>8, <3>9, <5>2, <5>3, <5>4 DEF Reporting
      <4> QED BY <4>1, <4>2, <4>3 DEF ThreadRight
    <3>10. PoolInv'
      BY <1>1, <3>1, SamePool
    <3> QED BY <3>1, <3>6, <3>7, <3>8, <3>9, <3>10, StepKeeps
  <2>9. ASSUME NEW a \in Addrs, get_mp_stat_detail(t, a) PROVE IInv'
    <3>1. /\ Allocate(t, "detail_struct", DetailSize, a) /\ Changes(t)
          /\ pc' = [pc EXCEPT ![t] = "detail_count"] /\ work' = [work EXCEPT ![t] = NoWork]
      BY <2>9 DEF get_mp_stat_detail, Goto
    <3>2. DetailSize \in Sizes /\ "detail_struct" \in AllPurposes
      BY MemPoolAssumption DEF AllPurposes, OwnPurposes
    <3>3. /\ PoolInv' /\ \A u \in Threads : u # t => held'[u] = held[u]
          /\ \A u \in Threads : \A b \in held[u] : heap'[b.addr] = heap[b.addr]
      BY <1>1, <3>1, <3>2, AllocateKeeps
    <3>4. pc'[t] = "detail_count" /\ work'[t] = NoWork => ThreadRight(t)'
      BY <1>3 DEF ThreadRight, ReallocRight, FiguresRight, Reporting
    <3>5. "detail_count" \in Labels
      BY DEF Labels
    <3> QED BY <1>3, <3>1, <3>3, <3>4, <3>5, StepKeeps
  <2>10. ASSUME get_purpose_count(t) PROVE IInv'
    <3> DEFINE w == [work[t] EXCEPT !.count = Cardinality(Listed) + 1]
    <3>1. /\ pc[t] = "detail_count" /\ work' = [work EXCEPT ![t] = w]
          /\ pc' = [pc EXCEPT ![t] = "detail_nodes"]
          /\ raced' = [raced EXCEPT ![t] = FALSE] /\ UNCHANGED << pool, held >>
      BY <1>2, <2>10 DEF get_purpose_count, Begin, Goto
    <3>2. Cardinality(Listed) \in Nat
      BY ListedFacts
    <3>3. w \in Local /\ w.count = Cardinality(Listed) + 1 /\ w.figures = work[t].figures
      BY <2>0, <3>2 DEF Local
    <3>4. work[t].figures = << >>
      BY <2>0, <3>1 DEF ThreadRight, FiguresRight
    <3> HIDE DEF w
    <3>5. PoolInv' /\ heap' = heap /\ held' = held /\ UNCHANGED << purposes, stat >>
      BY <1>1, <3>1, SamePool DEF pool
    <3>6. pc'[t] = "detail_nodes" /\ work'[t] = w => ThreadRight(t)'
      BY <3>3, <3>4, <3>5 DEF ThreadRight, ReallocRight, FiguresRight, Reporting, Listed
    <3>7. "detail_nodes" \in Labels
      BY DEF Labels
    <3> QED BY <3>1, <3>3, <3>5, <3>6, <3>7, StepKeeps
  <2>11. ASSUME NEW a \in Addrs, detail_nodes(t, a) PROVE IInv'
    <3>1. /\ pc[t] = "detail_nodes" /\ Allocate(t, "detail_nodes", DetailSize, a) /\ Changes(t)
          /\ pc' = [pc EXCEPT ![t] = "detail_fill"] /\ work' = work
      BY <2>11 DEF detail_nodes, Goto
    <3>2. DetailSize \in Sizes /\ "detail_nodes" \in AllPurposes
      BY MemPoolAssumption DEF AllPurposes, OwnPurposes
    <3>3. /\ PoolInv' /\ \A u \in Threads : u # t => held'[u] = held[u]
          /\ \A u \in Threads : \A b \in held[u] : heap'[b.addr] = heap[b.addr]
      BY <1>1, <3>1, <3>2, AllocateKeeps
    <3>4. raced'[t] = raced[t]
      BY <1>2, <3>1 DEF Changes
    \* The table's own purpose is the only one that the step can add to the list.
    <3>5. Cardinality(Listed') <= Cardinality(Listed) + 1 /\ Cardinality(Listed') \in Nat
      <4>1. Listed' \subseteq Listed \cup {"detail_nodes"}
        BY <1>1, <3>1 DEF Listed, Allocate, add_purpose, PoolTyped
      <4>2. IsFiniteSet(Listed) /\ Cardinality(Listed) \in Nat
        BY ListedFacts
      <4>3. /\ IsFiniteSet(Listed \cup {"detail_nodes"})
            /\ Cardinality(Listed \cup {"detail_nodes"}) <= Cardinality(Listed) + 1
            /\ Cardinality(Listed \cup {"detail_nodes"}) \in Nat
        <5> DEFINE T == Listed \cup {"detail_nodes"}
        <5>1. /\ IsFiniteSet(T)
              /\ Cardinality(T) = IF "detail_nodes" \in Listed THEN Cardinality(Listed)
                                                              ELSE Cardinality(Listed) + 1
          BY <4>2, FS_AddElement
        <5> HIDE DEF T
        <5> QED BY <4>2, <5>1 DEF T
      <4>4. /\ Cardinality(Listed') <= Cardinality(Listed \cup {"detail_nodes"})
            /\ IsFiniteSet(Listed')
        BY <4>1, <4>3, FS_Subset
      <4>5. Cardinality(Listed') \in Nat
        BY <4>4, FS_CardinalityType
      <4> QED BY <4>2, <4>3, <4>4, <4>5
    <3>6. ASSUME pc'[t] = "detail_fill" PROVE ThreadRight(t)'
      <4>1. ReallocRight(t)' /\ FiguresRight(t)'
        BY <2>0, <3>1, <3>6 DEF ThreadRight, ReallocRight, FiguresRight
      <4>2. ~ raced'[t] => Reporting(t)'
        <5>1. ~ raced'[t] => work[t].count = Cardinality(Listed) + 1
          BY <2>0, <3>1, <3>4 DEF ThreadRight, Reporting
        <5> QED BY <3>1, <3>5, <3>6, <5>1 DEF Reporting
      <4> QED BY <4>1, <4>2 DEF ThreadRight
    <3>7. "detail_fill" \in Labels
      BY DEF Labels
    <3>8. /\ work[t] \in Local /\ work' = [work EXCEPT ![t] = work[t]]
      BY <2>0, <3>1
    <3>9. pc'[t] = "detail_fill" /\ work'[t] = work[t] => ThreadRight(t)'
      BY <3>6
    <3>10. /\ pc' = [pc EXCEPT ![t] = "detail_fill"] /\ Changes(t)
          /\ \A u \in Threads : u # t =>
               held'[u] = held[u] /\ \A b \in held[u] : heap'[b.addr] = heap[b.addr]
      BY <3>1, <3>3
    <3> QED BY <3>3, <3>7, <3>8, <3>9, <3>10, StepKeeps
  <2>12. ASSUME detail_fill(t) PROVE IInv'
    <3> DEFINE w == [work[t] EXCEPT !.n = Cardinality(Listed)]
    <3>1. /\ pc[t] = "detail_fill" /\ work' = [work EXCEPT ![t] = w]
          /\ pc' = [pc EXCEPT ![t] = "report"]
          /\ raced' = raced /\ UNCHANGED << pool, held >>
      BY <1>2, <2>12 DEF detail_fill, Goto
    <3>2. Cardinality(Listed) \in Nat
      BY ListedFacts
    <3>3. /\ w \in Local /\ w.n = Cardinality(Listed) /\ w.figures = work[t].figures
          /\ w.count = work[t].count
      BY <2>0, <3>2 DEF Local
    <3>4. work[t].figures = << >>
      BY <2>0, <3>1 DEF ThreadRight, FiguresRight
    <3> HIDE DEF w
    <3>5. PoolInv' /\ heap' = heap /\ held' = held /\ UNCHANGED << purposes, stat >>
      BY <1>1, <3>1, SamePool DEF pool
    <3>6. ASSUME pc'[t] = "report", work'[t] = w PROVE ThreadRight(t)'
      <4>1. ~ raced'[t] => Cardinality(Listed) <= work[t].count
        BY <2>0, <3>1 DEF ThreadRight, Reporting
      <4>2. Len(w.figures) = 0
        BY <3>3, <3>4
      <4> QED BY <3>3, <3>6, <4>1, <4>2 DEF ThreadRight, ReallocRight, FiguresRight, Reporting
    <3>7. "report" \in Labels
      BY DEF Labels
    <3> QED BY <3>1, <3>3, <3>5, <3>6, <3>7, StepKeeps
  <2>13. ASSUME mp_dump_detail(t) PROVE IInv'
    <3>1. /\ work' = [work EXCEPT ![t] = NoWork] /\ pc' = [pc EXCEPT ![t] = "idle"]
          /\ raced' = raced /\ UNCHANGED << pool, held >>
      BY <2>13 DEF mp_dump_detail, Goto
    <3>2. pc'[t] = "idle" => ThreadRight(t)'
      BY <1>3 DEF ThreadRight, ReallocRight, FiguresRight, Reporting
    <3>3. PoolInv' /\ heap' = heap /\ held' = held /\ UNCHANGED << purposes, stat >>
      BY <1>1, <3>1, SamePool DEF pool
    <3>4. "idle" \in Labels
      BY DEF Labels
    <3> QED BY <1>3, <3>1, <3>2, <3>3, <3>4, StepKeeps
  <2> QED BY <1>5, <2>1, <2>2, <2>3, <2>4, <2>5, <2>6, <2>7, <2>8, <2>9, <2>10, <2>11,
             <2>12, <2>13 DEF Step
<1> QED BY <1>4, <1>5 DEF Next

LEMMA InitIInv == Init => IInv
<1> SUFFICES ASSUME Init PROVE IInv
  OBVIOUS
<1>1. nodes = << >> /\ Len(nodes) = 0 /\ DOMAIN nodes = {} /\ nodes \in Seq(NodeType)
  BY DEF Init
<1>2. PoolTyped
  BY <1>1 DEF Init, PoolTyped, Stat
<1>3. FreeNodesRight /\ HeldNodesRight /\ OneHolder
  BY <1>1 DEF Init, FreeNodesRight, HeldNodesRight, OneHolder
<1>4. Books
  <2> DEFINE c == [i \in 1 .. Len(nodes) + 1 |-> 0]
  <2>1. Sums(c, nodes) /\ c[1] = 0
    BY <1>1 DEF Sums
  <2> HIDE DEF c
  <2>2. \E d : Sums(d, nodes) /\ stat.total_size = d[1]
    BY <2>1 DEF Init
  <2>3. InUse = {} /\ \A p : UsedFor(p) = {}
    BY <1>1 DEF InUse, UsedFor
  <2>4. Cardinality({}) = 0
    BY FS_EmptySet
  <2>5. stat.total_nodes = 0 /\ stat.using_nodes = 0 /\ stat.free_nodes = 0
    BY DEF Init
  <2>6. \A p \in AllPurposes : purposes[p] = 0
    BY DEF Init
  <2>7. stat.total_nodes = Len(nodes) /\ stat.free_nodes = Len(nodes) - stat.using_nodes
    BY <1>1, <2>5
  <2> QED BY <2>2, <2>3, <2>4, <2>5, <2>6, <2>7 DEF Books
<1>5. NoWork \in Local
  BY DEF NoWork, Local
<1>6. LocalTyped
  BY <1>5 DEF Init, LocalTyped, Labels
<1>7. \A t \in Threads : ThreadRight(t)
  BY DEF Init, ThreadRight, ReallocRight, FiguresRight, Reporting
<1> QED BY <1>2, <1>3, <1>4, <1>6, <1>7 DEF IInv, PoolInv

\* The inductive invariant holds in every reachable state.
THEOREM PoolKept == Spec => []IInv
<1> QED BY InitIInv, IInvKept, PTL DEF Spec

-----------------------------------------------------------------------------
\* Whatever the order in which threads allocate, reallocate, free and lose
\* blocks, mp->stat and the purposes say what is in the list of nodes.
THEOREM BooksBalanced == Spec => []BooksBalance
<1>1. IInv => BooksBalance
  <2> SUFFICES ASSUME IInv PROVE BooksBalance
    OBVIOUS
  <2>1. Books /\ nodes \in Seq(NodeType)
    BY DEF IInv, PoolInv, PoolTyped
  <2>2. PICK c : Sums(c, nodes) /\ stat.total_size = c[1]
    BY <2>1 DEF Books
  <2>3. SizeFrom = c
    BY <2>1, <2>2, SizeFromSums
  <2>4. stat.total_size = SizeFrom[1]
    BY <2>2, <2>3
  <2> QED BY <2>1, <2>4 DEF Books, BooksBalance, InUse, UsedFor, Using
<1> QED BY <1>1, PoolKept, PTL

\* No address is handed out twice, and what a thread holds is allocated and as
\* large as it asked for, also while mp_realloc copies it: although nodes are
\* looked up by address only and blocks of the pool go to free().
THEOREM BlocksSafe == Spec => []HeldSafely
<1>1. IInv => HeldSafely
  <2> SUFFICES ASSUME IInv PROVE HeldSafely
    OBVIOUS
  <2>1. \A h \in Holdings : h \in Threads \X Block /\ h[1] \in Threads /\ h[2] \in held[h[1]]
    BY DEF Holdings, Block
  <2>2. ASSUME NEW g \in Holdings, NEW h \in Holdings, g[2].addr = h[2].addr PROVE g = h
    <3>1. g[1] = h[1] /\ g[2] = h[2]
      BY <2>1, <2>2 DEF IInv, PoolInv, OneHolder
    <3>2. g = << g[1], g[2] >> /\ h = << h[1], h[2] >>
      BY <2>1
    <3> QED BY <3>1, <3>2
  <2>3. ASSUME NEW h \in Holdings PROVE heap[h[2].addr] >= h[2].n
    BY <2>1 DEF IInv, PoolInv, HeldNodesRight
  <2>4. ASSUME NEW t \in Threads, pc[t] \in {"realloc", "realloc_free"}
        PROVE  heap[work[t].addr] >= work[t].count
    <3>1. work[t].count = heap[work[t].addr] /\ work[t].count \in Nat
      BY <2>4 DEF IInv, ThreadRight, ReallocRight, LocalTyped, Local
    <3> QED BY <3>1
  <2> QED BY <2>2, <2>3, <2>4 DEF HeldSafely
<1> QED BY <1>1, PoolKept, PTL

\* The figures of a report nobody disturbed add up, and the table of purposes
\* get_mp_stat_detail allocates has room for every purpose it fills in.
THEOREM Reports == Spec => []ReportsRight
<1>1. IInv => ReportsRight
  <2> SUFFICES ASSUME IInv, NEW t \in Threads, pc[t] = "report", ~ raced[t]
               PROVE  /\ work[t].n <= work[t].count
                      /\ work[t].figures # << >> =>
                           work[t].figures[2] = work[t].figures[3] + work[t].figures[4]
    BY DEF ReportsRight
  <2>1. Reporting(t)
    BY DEF IInv, ThreadRight
  <2>2. work[t].figures \in Seq(Int)
    BY DEF IInv, LocalTyped, Local
  <2>3. /\ stat.total_nodes = Len(nodes) /\ stat.free_nodes = Len(nodes) - stat.using_nodes
        /\ Len(nodes) \in Nat /\ stat.using_nodes \in Int
    BY DEF IInv, PoolInv, PoolTyped, Books, Stat
  <2>4. stat.total_nodes = stat.using_nodes + stat.free_nodes
    BY <2>3
  <2>5. ASSUME work[t].figures # << >>
        PROVE  work[t].figures[2] = work[t].figures[3] + work[t].figures[4]
    <3>1. Len(work[t].figures) = 4
      BY <2>1, <2>2, <2>5 DEF Reporting
    <3>2. /\ work[t].figures[2] = stat[Counters[2]] /\ work[t].figures[3] = stat[Counters[3]]
          /\ work[t].figures[4] = stat[Counters[4]]
      BY <2>1, <3>1 DEF Reporting
    <3> QED BY <2>4, <3>2 DEF Counters
  <2> QED BY <2>1, <2>5 DEF Reporting
<1> QED BY <1>1, PoolKept, PTL

\* The variables have their types, the counts of the statistics and of the
\* purposes are never negative: the assertion of sub_purpose holds.
THEOREM TypeCorrect == Spec => []TypeOK
<1>1. IInv => TypeOK
  <2> SUFFICES ASSUME IInv PROVE TypeOK
    OBVIOUS
  <2>1. PoolTyped /\ LocalTyped /\ Books
    BY DEF IInv, PoolInv
  <2>2. DOMAIN nodes = 1 .. Len(nodes) /\ Len(nodes) \in Nat
    BY <2>1 DEF PoolTyped
  <2>3. IsFiniteSet(DOMAIN nodes) /\ Cardinality(DOMAIN nodes) = Len(nodes)
    <3> DEFINE L == Len(nodes)
    <3>1. /\ IsFiniteSet(1 .. L)
          /\ Cardinality(1 .. L) = IF 1 > L THEN 0 ELSE L - 1 + 1
      <4>1. 1 \in Int /\ L \in Int
        BY <2>2
      <4> HIDE DEF L
      <4> QED BY <4>1, FS_Interval
    <3>2. (IF 1 > L THEN 0 ELSE L - 1 + 1) = L
      BY <2>2
    <3> QED BY <2>2, <3>1, <3>2
  <2>4. Cardinality(InUse) \in 0 .. Len(nodes)
    <3>1. InUse \subseteq DOMAIN nodes
      BY DEF InUse
    <3>2. IsFiniteSet(InUse) /\ Cardinality(InUse) <= Len(nodes)
      BY <2>3, <3>1, FS_Subset
    <3>3. Cardinality(InUse) \in Nat
      BY <3>2, FS_CardinalityType
    <3> QED BY <2>2, <3>2, <3>3
  <2>5. ASSUME NEW p \in AllPurposes PROVE purposes[p] \in 0 .. Len(nodes)
    <3>1. UsedFor(p) \subseteq DOMAIN nodes
      BY DEF UsedFor
    <3>2. IsFiniteSet(UsedFor(p)) /\ Cardinality(UsedFor(p)) <= Len(nodes)
      BY <2>3, <3>1, FS_Subset
    <3>3. Cardinality(UsedFor(p)) \in Nat
      BY <3>2, FS_CardinalityType
    <3> QED BY <2>1, <2>2, <3>2, <3>3 DEF Books
  <2>6. purposes \in [AllPurposes -> 0 .. Len(nodes)]
    BY <2>1, <2>5 DEF PoolTyped
  <2>7. /\ stat.total_size \in Nat /\ stat.total_nodes \in Nat
        /\ stat.using_nodes \in Nat /\ stat.free_nodes \in Nat
    BY <2>1, <2>2, <2>4 DEF Books, Sums
  <2>8. stat \in [{"total_size", "total_nodes", "using_nodes", "free_nodes"} -> Nat]
    BY <2>1, <2>7 DEF PoolTyped, Stat
  <2>9. \A t \in Threads : work[t].addr \in Addrs \cup {NoAddr}
    BY <2>1 DEF LocalTyped, Local
  <2> QED BY <2>1, <2>6, <2>8, <2>9 DEF TypeOK, PoolTyped, LocalTyped, Labels, NodeType, Block
<1> QED BY <1>1, PoolKept, PTL
=============================================================================
