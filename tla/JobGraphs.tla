----------------------------- MODULE JobGraphs -----------------------------
(***************************************************************************)
(* How a caller builds a graph of jobs (queue_job/delay.py): delayables,   *)
(* chains and groups nested in each other, on_done between them, split,    *)
(* and delay(), which makes one graph of jobs of them all, stores it or    *)
(* finds that it waits already, or performs it at once.                    *)
(*                                                                         *)
(* Objects are numbers: the delayables 1 .. Units, then the chains and the *)
(* groups in the order they are made, so that a part is smaller than what  *)
(* it is part of.  The calls are those of one transaction of the caller.   *)
(* What JobQueue does with the stored jobs is not repeated here.           *)
(***************************************************************************)
EXTENDS Integers, SequencesExt

CONSTANTS
    Units,       \* how many delayables the caller has
    Keys,        \* the delayables with an identity key
    Records,     \* the recordset of a delayable that is split
    MaxParts,    \* bound: parts of a chain or a group
    MaxCalls     \* bound: chains, groups, on_done and split

ASSUME JobGraphsAssumption ==
    /\ Units \in Nat \ {0} /\ Keys \subseteq 1 .. Units
    /\ Records \in Nat \ {0} /\ MaxParts \in Nat /\ MaxCalls \in Nat

VARIABLES
    used,      \* the delayables 1 .. used exist
    made,      \* the chains and groups
    after,     \* the calls of on_done
    batch,     \* batch[u]: the records u is about, where a split made it
    depends,   \* depends[u]: the jobs that the job of u depends on
    graph,     \* graph[u]: its graph_uuid, 0 for none
    stored,    \* the delayables whose job is in the table
    last,      \* the object whose graph was just stored, 0 for none
    direct,    \* the graph that is performed at once
    outcome    \* of the calls: "open", "raised", "found", "performing"

graphVars == <<used, made, after, batch, depends, graph, stored, last, direct, outcome>>

NoGraph == [edges |-> {}, queue |-> <<>>, waits |-> <<>>, ran |-> <<>>]

GraphInit ==
    /\ used = 0
    /\ made = <<>> /\ after = {}
    /\ batch = [u \in 1 .. Units |-> {}]
    /\ depends = [u \in 1 .. Units |-> {}]
    /\ graph = [u \in 1 .. Units |-> 0]
    /\ stored = {} /\ last = 0
    /\ direct = NoGraph
    /\ outcome = "open"

-----------------------------------------------------------------------------
(* Objects and what is connected to what.                                  *)

Objects == 1 .. used \cup (Units + 1 .. Units + Len(made))

IsUnit(o) == o <= Units

\* A delayable alone; a chain or a group keeps what it was made of.
Alone(u) == [kind |-> "alone", parts |-> <<u>>, size |-> 0,
             head |-> {u}, tail |-> {u}, begins |-> {u}, finishes |-> {u}, jobs |-> {u}]

Object(o) == IF IsUnit(o) THEN Alone(o) ELSE made[o - Units]

Parts(o) == Object(o).parts

Pairs(o) == {<<Parts(o)[i], Parts(o)[i + 1]>> : i \in 1 .. Len(Parts(o)) - 1}

\* Where a chain or a group starts and ends for what it is connected to: a chain takes
\* the tail of its first part for its head, and the head of its last part for its tail.
Chained(ps) ==
    [head |-> Object(Head(ps)).tail, tail |-> Object(Last(ps)).head]

Grouped(ps) ==
    [head |-> UNION {Object(p).head : p \in ToSet(ps)},
     tail |-> UNION {Object(p).tail : p \in ToSet(ps)}]

\* What it is, from its parts.  begins, finishes and jobs are what the calls say: the
\* first and the last jobs, and all of them.
Composite(kind, ps, size) ==
    LET ends == IF kind = "chain" THEN Chained(ps) ELSE Grouped(ps)
        heads == IF kind = "chain" THEN {Head(ps)} ELSE ToSet(ps)
        tails == IF kind = "chain" THEN {Last(ps)} ELSE ToSet(ps)
    IN [kind |-> kind, parts |-> ps, size |-> size,
        head |-> ends.head, tail |-> ends.tail,
        begins |-> UNION {Object(p).begins : p \in heads},
        finishes |-> UNION {Object(p).finishes : p \in tails},
        jobs |-> UNION {Object(p).jobs : p \in ToSet(ps)}]

\* Variant: on_done of a chain starts from its first part.
Ending_First(o) ==
    IF Object(o).kind = "chain" THEN {Head(Parts(o))} ELSE ToSet(Parts(o))

\* Objects that on_done links to what comes next.
Ending(o) ==
    IF Object(o).kind = "chain" THEN {Last(Parts(o))} ELSE ToSet(Parts(o))

Children(o) == {l[2] : l \in {k \in after : k[1] = o}}

\* The graph an object keeps: its parts one after the other where it is a chain, and
\* what its on_done were given.
Links(o) ==
    (Ending(o) \X Children(o)) \cup (IF Object(o).kind = "chain" THEN Pairs(o) ELSE {})

Vertices(o) == Children(o) \cup ToSet(Parts(o))

\* What is reached from S through the pairs of R, in as many turns as there can be objects.
Reached(R, S) ==
    LET turn[n \in 0 .. Units + MaxCalls] ==
          IF n = 0 THEN S
          ELSE UNION {{x} \cup {r[2] : r \in {k \in R : k[1] = x}} : x \in turn[n - 1]}
    IN turn[Units + MaxCalls]

\* The objects whose graphs _connect_graphs visits from o.
Visited(o) == Reached(UNION {{v} \X Vertices(v) : v \in Objects}, {o})

JobsFrom(o) == {x \in Visited(o) : IsUnit(x)}

\* _merge_graph, of every graph that is visited: the tails of an object go to the heads
\* of what is linked to it.
Connected(o) ==
    UNION {Object(l[1]).tail \X Object(l[2]).head : l \in UNION {Links(x) : x \in Visited(o)}}

-----------------------------------------------------------------------------
(* What the calls say.                                                     *)

\* What R says, through others or not.
Closure(R) == UNION {{r[1]} \X Reached(R, {r[2]}) : r \in R}

\* A chain is sequential; what is given to on_done comes after all the jobs of the
\* object (group, chain: delay.py).
Told(os) ==
    UNION {Object(l[1]).jobs \X Object(l[2]).jobs :
             l \in {k \in after : k[1] \in os}
               \cup UNION {Pairs(o) : o \in {x \in os : Object(x).kind = "chain"}}}

Said(os) == Closure(Told(os))

Cyclic == \E R \in {Told(Objects)} : \E r \in R : r[1] \in Reached(R, {r[2]})

\* A chain whose first or last part is itself a sequence of several jobs.
Turned(o) == Object(o).head # Object(o).begins \/ Object(o).tail # Object(o).finishes

-----------------------------------------------------------------------------
(* The calls.                                                              *)

Calls == Len(made) + Cardinality(after)

\* Delayables are numbered as they are first named.
Names(os) ==
    LET new == {i \in 1 .. Len(os) : IsUnit(os[i]) /\ os[i] > used} IN
    /\ \A i \in new : os[i] = used + Cardinality({k \in new : k <= i})
    /\ used' = used + Cardinality(new)

Nameable == 1 .. Units \cup Objects

Open == outcome = "open" /\ Calls < MaxCalls

\* Not part of a chain or a group.
Whole(o) == \A i \in 1 .. Len(made) : o \notin ToSet(made[i].parts)

\* chain and group.  Bounds: two parts at least, and an object is a part once.
Make(kind, ps) ==
    /\ Open
    /\ Names(ps)
    /\ IsInjective(ps) /\ \A o \in ToSet(ps) : Whole(o)
    /\ kind = "group" => \A i \in 1 .. Len(ps) - 1 : ps[i] < ps[i + 1]
    /\ made' = Append(made, Composite(kind, ps, 0))
    /\ UNCHANGED after
    /\ ~Cyclic'
    /\ last' = 0
    /\ UNCHANGED <<batch, depends, graph, stored, direct, outcome>>

\* on_done.  Bound: a graph has no cycle (Graph: "acyclic").
OnDone(o, y) ==
    /\ Open
    /\ Names(<<o, y>>)
    /\ <<o, y>> \notin after
    /\ after' = after \cup {<<o, y>>}
    /\ UNCHANGED made
    /\ ~Cyclic'
    /\ last' = 0
    /\ UNCHANGED <<batch, depends, graph, stored, direct, outcome>>

\* Variant: the last records make no slice.
Slices_RoundedDown(size) == Records \div size

\* split: a delayable of its own for every slice of the recordset.
Slices(size) == (Records + size - 1) \div size

Slice(size, i) == {r \in 1 .. Records : (i - 1) * size < r /\ r <= i * size}

Split(size, kind) ==
    /\ Open
    /\ used + Slices(size) <= Units
    /\ used' = used + Slices(size)
    /\ made' = Append(made, Composite(kind, [i \in 1 .. Slices(size) |-> used + i], size))
    /\ batch' = [u \in 1 .. Units |->
                    IF u \in used + 1 .. used' THEN Slice(size, u - used) ELSE batch[u]]
    /\ last' = 0
    /\ UNCHANGED <<after, depends, graph, stored, direct, outcome>>

\* _ensure_same_graph_uuid.
GraphsOf(js) == {graph[j] : j \in js} \ {0}

\* Variant: jobs of another graph are taken along.
Refused_Never(js) == FALSE

Refused(js) == IF Cardinality(js) = 1 THEN GraphsOf(js) # {} ELSE Cardinality(GraphsOf(js)) > 1

NextGraph(js) ==
    IF Cardinality(js) = 1 THEN 0
    ELSE IF GraphsOf(js) # {} THEN CHOOSE g \in GraphsOf(js) : TRUE
    ELSE 1 + Cardinality(GraphsOf(1 .. Units))

\* Every job with a key has one that waits in the table, and there is such a job: the
\* keys of others are `taken'.
AlreadyWaits(js, taken) == js \cap Keys # {} /\ js \cap Keys \subseteq taken \cup stored

DelayRaises(o) ==
    /\ outcome = "open"
    /\ Refused(JobsFrom(o))
    /\ outcome' = "raised"
    /\ last' = 0
    /\ UNCHANGED <<used, made, after, batch, depends, graph, stored, direct>>

\* delay: the jobs are stored, or nothing is.  A caller whose jobs were found is not
\* followed any further.
Delay(o) ==
    LET js == JobsFrom(o) IN
    /\ outcome = "open"
    /\ ~Refused(js)
    /\ graph' = [u \in 1 .. Units |-> IF u \in js THEN NextGraph(js) ELSE graph[u]]
    /\ depends' = [u \in 1 .. Units |-> depends[u] \cup {l[1] : l \in {k \in Connected(o) : k[2] = u}}]
    /\ \E taken \in SUBSET Keys :
       IF AlreadyWaits(js, taken)
       THEN outcome' = "found" /\ last' = 0 /\ UNCHANGED stored
       ELSE outcome' = "open" /\ last' = o /\ stored' = stored \cup js
    /\ UNCHANGED <<used, made, after, batch, direct>>

\* _execute_graph_direct, where jobs are not to be delayed: topological_sort.
Roots(o) == JobsFrom(o) \ {l[2] : l \in Connected(o)}

Perform(o) ==
    /\ outcome = "open" /\ stored = {}
    /\ ~Refused(JobsFrom(o))
    /\ \E q \in SetToSeqs(Roots(o)) :
          direct' = [edges |-> Connected(o), queue |-> q, ran |-> <<>>,
                     waits |-> [j \in JobsFrom(o) |->
                                  Cardinality({l \in Connected(o) : l[2] = j})]]
    /\ outcome' = "performing"
    /\ last' = 0
    /\ UNCHANGED <<used, made, after, batch, depends, graph, stored>>

PerformNext ==
    /\ direct.queue # <<>>
    /\ LET j == Head(direct.queue)
           nexts == {l[2] : l \in {k \in direct.edges : k[1] = j}}
           left == [i \in DOMAIN direct.waits |->
                      direct.waits[i] - (IF i \in nexts THEN 1 ELSE 0)]
       IN \E q \in SetToSeqs({i \in nexts : left[i] = 0}) :
             direct' = [direct EXCEPT !.queue = Tail(@) \o q, !.waits = left,
                                      !.ran = Append(@, j)]
    /\ UNCHANGED <<used, made, after, batch, depends, graph, stored, last, outcome>>

GraphNext ==
    \/ \E kind \in {"chain", "group"} :
          \/ \E ps \in SeqOf(Nameable, MaxParts) : Len(ps) >= 2 /\ Make(kind, ps)
          \/ \E size \in 1 .. Records : Split(size, kind)
    \/ \E o, y \in Nameable : OnDone(o, y)
    \/ \E o \in Objects : Whole(o) /\ (Delay(o) \/ DelayRaises(o) \/ Perform(o))
    \/ PerformNext

GraphSpec == GraphInit /\ [][GraphNext]_graphVars

-----------------------------------------------------------------------------
(* Properties.                                                             *)

\* The jobs of the graph that was just delayed depend on each other, through others or
\* not, exactly as the calls say, unless a chain begins or ends with a chain (chain,
\* group, on_done: delay.py).
OrderIsKept ==
    last # 0 /\ (\A o \in Visited(last) : ~Turned(o)) =>
        LET js == JobsFrom(last)
            inside == {l \in Closure(UNION {depends[u] \X {u} : u \in js}) : l[1] \in js}
        IN /\ Said(Visited(last)) \subseteq inside
           /\ inside \subseteq Said(Objects)

\* A stored job only waits for jobs that are stored in the same graph: it is never
\* left waiting for a job that no runner will see (_ensure_same_graph_uuid).
WaitsInsideGraph ==
    \A u \in stored : \A p \in depends[u] :
        outcome # "found" => p \in stored /\ graph[p] = graph[u] /\ graph[u] # 0

\* Jobs that are performed at once run once each, all of them, each after those it
\* depends on (topological_sort).
PerformedInOrder ==
    /\ \A i \in 1 .. Len(direct.ran) : \A l \in direct.edges :
          l[2] = direct.ran[i] => \E k \in 1 .. i - 1 : direct.ran[k] = l[1]
    /\ outcome = "performing" /\ direct.queue = <<>> =>
          /\ ToSet(direct.ran) = DOMAIN direct.waits
          /\ IsInjective(direct.ran)

\* Every record of a recordset that was split is in one of the batches, in order (split).
SplitIsWhole ==
    \A i \in 1 .. Len(made) : made[i].size # 0 =>
        LET ps == made[i].parts IN
        /\ UNION {batch[u] : u \in ToSet(ps)} = 1 .. Records
        /\ \A a, b \in 1 .. Len(ps) : a < b =>
              \A r \in batch[ps[a]], s \in batch[ps[b]] : r < s
        /\ \A u \in ToSet(ps) : Cardinality(batch[u]) \in 1 .. made[i].size

JobGraphInv == OrderIsKept /\ WaitsInsideGraph /\ PerformedInOrder /\ SplitIsWhole
=============================================================================
