------------------------------ MODULE LinkedList ------------------------------
(***************************************************************************)
(* can_msg_list.c: the doubly linked list that dev_can.c queues frames in. *)
(*                                                                         *)
(* The heap is the functions prev, next and val over the nodes that are    *)
(* allocated.  A freed node keeps its fields: whoever still follows them   *)
(* would go wrong, and no property lets that happen.  The functions take   *)
(* no lock, a caller holds one, so that every call is one step.  An        *)
(* iterator lives across calls.  match is NULL, as in dev_can.c, and what  *)
(* a node carries is compared as a pointer.                                *)
(***************************************************************************)
EXTENDS Integers, Sequences, FiniteSets

CONSTANTS
    Nodes,       \* the memory that list_node_new may be given
    Values,      \* what a node may carry
    Nothing,     \* NULL
    MaxVisits    \* bound: nodes one iterator returns

ASSUME ListAssumption ==
    /\ IsFiniteSet(Nodes)
    /\ Nothing \notin Nodes
    /\ MaxVisits \in Nat

VARIABLES
    head, tail, len,   \* the List
    prev, next, val,   \* the fields of every ListNode
    alloc,             \* nodes allocated
    made,              \* whether the list exists
    result,            \* what the last push, pop, list_at or list_find returned
    it,                \* the iterator, "none" if there is none
    loose,             \* history: allocated nodes that are not in the list
    plan,              \* history: the list when the iterator was made
    seen               \* history: the nodes the iterator has returned

listVars == <<head, tail, len>>
heapVars == <<prev, next, val, alloc>>
iterVars == <<it, plan, seen>>
vars == <<listVars, heapVars, made, result, loose, iterVars>>

Ends == Nodes \cup {Nothing}

Set(field, n, value) == [field EXCEPT ![n] = value]

\* The nodes met on n steps from start along the links of one direction.
Walk(start, links, n) ==
    LET at[i \in 0 .. n] ==
            IF i = 0 THEN start
            ELSE IF at[i - 1] \in Nodes THEN links[at[i - 1]] ELSE Nothing
    IN [i \in 1 .. n |-> at[i - 1]]

Stored == Walk(head, next, len)
Inside == {Stored[i] : i \in 1 .. len}

\* An iteration under way allows the removal of the node it returned last only.
Iterating == it.on /\ it.next # Nothing
MayLeave(n) == Iterating => seen # <<>> /\ n = seen[Len(seen)]

NoIterator == [on |-> FALSE, next |-> Nothing, forward |-> TRUE]

\* list_new
Init ==
    /\ head = Nothing
    /\ tail = Nothing
    /\ len = 0
    /\ prev = [n \in Nodes |-> Nothing]
    /\ next = [n \in Nodes |-> Nothing]
    /\ val \in [Nodes -> Values]
    /\ alloc = {}
    /\ made = TRUE
    /\ result = Nothing
    /\ it = NoIterator
    /\ loose = {}
    /\ plan = <<>>
    /\ seen = <<>>

-----------------------------------------------------------------------------
\* list_node_new
NodeNew(n, v) ==
    /\ n \notin alloc
    /\ alloc' = alloc \cup {n}
    /\ loose' = loose \cup {n}
    /\ prev' = Set(prev, n, Nothing)
    /\ next' = Set(next, n, Nothing)
    /\ val' = Set(val, n, v)
    /\ UNCHANGED <<listVars, made, result, iterVars>>

\* A caller frees a node it popped or never pushed.
NodeFree(n) ==
    /\ n \in loose
    /\ alloc' = alloc \ {n}
    /\ loose' = loose \ {n}
    /\ UNCHANGED <<listVars, prev, next, val, made, result, iterVars>>

\* What a push at either end leaves alone, and what a pop does.
Pushed(n) ==
    /\ made
    /\ n \in loose
    /\ loose' = loose \ {n}
    /\ len' = len + 1
    /\ result' = n
    /\ UNCHANGED <<val, alloc, made, iterVars>>

Popped(n) ==
    /\ made
    /\ len > 0
    /\ MayLeave(n)
    /\ loose' = loose \cup {n}
    /\ len' = len - 1
    /\ result' = n
    /\ UNCHANGED <<val, alloc, made, iterVars>>

\* Slip: the node pushed does not point back.
BackNowhere == Nothing
Back == IF len > 0 THEN tail ELSE Nothing

Rpush(n) ==
    /\ Pushed(n)
    /\ prev' = Set(prev, n, Back)
    /\ next' = Set(IF len > 0 THEN Set(next, tail, n) ELSE next, n, Nothing)
    /\ head' = IF len > 0 THEN head ELSE n
    /\ tail' = n

Lpush(n) ==
    /\ Pushed(n)
    /\ next' = Set(next, n, IF len > 0 THEN head ELSE Nothing)
    /\ prev' = Set(IF len > 0 THEN Set(prev, head, n) ELSE prev, n, Nothing)
    /\ tail' = IF len > 0 THEN tail ELSE n
    /\ head' = n

Rpop ==
    /\ Popped(tail)
    /\ tail' = IF len > 1 THEN prev[tail] ELSE Nothing
    /\ head' = IF len > 1 THEN head ELSE Nothing
    /\ next' = Set(IF len > 1 THEN Set(next, prev[tail], Nothing) ELSE next, tail, Nothing)
    /\ prev' = Set(prev, tail, Nothing)

Lpop ==
    /\ Popped(head)
    /\ head' = IF len > 1 THEN next[head] ELSE Nothing
    /\ tail' = IF len > 1 THEN tail ELSE Nothing
    /\ prev' = Set(IF len > 1 THEN Set(prev, next[head], Nothing) ELSE prev, head, Nothing)
    /\ next' = Set(next, head, Nothing)

\* Slip: tail is left at the node removed.
TailKept(n) == tail
TailWithout(n) == IF next[n] # Nothing THEN tail ELSE prev[n]

\* list_remove also frees the node and what it carries.
Remove(n) ==
    /\ made
    /\ n \in Inside
    /\ MayLeave(n)
    /\ next' = IF prev[n] # Nothing THEN Set(next, prev[n], next[n]) ELSE next
    /\ head' = IF prev[n] # Nothing THEN head ELSE next[n]
    /\ prev' = IF next[n] # Nothing THEN Set(prev, next[n], prev[n]) ELSE prev
    /\ tail' = TailWithout(n)
    /\ alloc' = alloc \ {n}
    /\ len' = IF len > 0 THEN len - 1 ELSE len
    /\ UNCHANGED <<val, made, result, loose, iterVars>>

\* A call that only returns a node, or NULL.
Returns(node) ==
    /\ made
    /\ result' = node
    /\ UNCHANGED <<listVars, heapVars, made, loose, iterVars>>

PopEmpty == len = 0 /\ Returns(Nothing)

\* Slip: a negative index is made positive by its sign alone.  The code has ~index.
FromBackNegated(i) == -i
FromBack(i) == -i - 1

\* list_at: the node met after index steps, from the end the sign names.
NodeAt(i) ==
    LET index == IF i < 0 THEN FromBack(i) ELSE i
        met == Walk(IF i < 0 THEN tail ELSE head, IF i < 0 THEN prev ELSE next, index + 1)
    IN IF index < len THEN met[index + 1] ELSE Nothing

At(i) == Returns(NodeAt(i))

\* list_find walks until it meets the value or NULL.
Find(v) ==
    LET hits == {i \in 1 .. len : val[Stored[i]] = v}
    IN Returns(IF hits = {} THEN Nothing
               ELSE Stored[CHOOSE i \in hits : \A j \in hits : i <= j])

\* list_find and list_at allocate an iterator, and return NULL if they cannot.
LookupFails == Returns(Nothing)

\* Slip: one node too few.
FreedOneLess == {Stored[i] : i \in 1 .. len - 1}
\* list_destroy frees as many nodes as len says, from head on.
Freed == {Stored[i] : i \in 1 .. len}

Destroy ==
    /\ made
    /\ ~it.on
    /\ alloc' = alloc \ Freed
    /\ made' = FALSE
    /\ UNCHANGED <<listVars, prev, next, val, result, loose, iterVars>>

-----------------------------------------------------------------------------
IteratorNew(forward) ==
    /\ made
    /\ ~it.on
    /\ it' = [on |-> TRUE, next |-> IF forward THEN head ELSE tail, forward |-> forward]
    /\ plan' = IF forward THEN Stored ELSE [i \in 1 .. len |-> Stored[len + 1 - i]]
    /\ seen' = <<>>
    /\ UNCHANGED <<listVars, heapVars, made, result, loose>>

\* Slip: the iterator always goes forward.
StepForward(n) == next[n]
Step(n) == IF it.forward THEN next[n] ELSE prev[n]

IteratorNext ==
    /\ it.on
    /\ Len(seen) < MaxVisits
    /\ it' = IF it.next # Nothing THEN [it EXCEPT !.next = Step(it.next)] ELSE it
    /\ seen' = IF it.next # Nothing THEN Append(seen, it.next) ELSE seen
    /\ UNCHANGED <<listVars, heapVars, made, result, loose, plan>>

IteratorDestroy ==
    /\ it.on
    /\ it' = NoIterator
    /\ plan' = <<>>
    /\ seen' = <<>>
    /\ UNCHANGED <<listVars, heapVars, made, result, loose>>

\* Every place there can be, and one beyond on either side.
Places == -(Cardinality(Nodes) + 1) .. Cardinality(Nodes)

Next ==
    \/ \E n \in Nodes : (\E v \in Values : NodeNew(n, v)) \/ NodeFree(n)
                        \/ Rpush(n) \/ Lpush(n) \/ Remove(n)
    \/ PopEmpty \/ Rpop \/ Lpop
    \/ \E i \in Places : At(i)
    \/ \E v \in Values : Find(v)
    \/ LookupFails \/ Destroy
    \/ \E forward \in BOOLEAN : IteratorNew(forward)
    \/ IteratorNext \/ IteratorDestroy

Spec == Init /\ [][Next]_vars

-----------------------------------------------------------------------------
\* The types of the list, of its nodes and of the iterator.
TypeOK ==
    /\ {head, tail, result, it.next} \subseteq Ends
    /\ len \in 0 .. Cardinality(Nodes)
    /\ prev \in [Nodes -> Ends]
    /\ next \in [Nodes -> Ends]
    /\ val \in [Nodes -> Values]
    /\ loose \subseteq alloc
    /\ alloc \subseteq Nodes
    /\ {made, it.on, it.forward} \subseteq BOOLEAN

\* Both directions tell the same list: going back from tail along prev meets the
\* nodes that going forth from head along next meets, in the other order; there
\* are len of them, no more, and none twice.
WellLinked ==
    made =>
        /\ Cardinality(Inside) = len
        /\ Inside \subseteq Nodes
        /\ \A i \in 1 .. len : Walk(tail, prev, len)[i] = Stored[len + 1 - i]
        /\ Walk(head, next, len + 1)[len + 1] = Nothing
        /\ Walk(tail, prev, len + 1)[len + 1] = Nothing

\* Every allocated node is in the list or in a caller's hands, not both; the list
\* holds no freed node; destroying it frees all that it held.
Ownership ==
    LET held == IF made THEN Inside ELSE {}
    IN alloc = held \cup loose /\ held \cap loose = {}

\* list_at counts from 0 at the head and from -1 at the tail, and knows a place
\* that is not there, on either side.
PlacesExact ==
    made => \A i \in Places :
        LET place == IF i < 0 THEN len + i + 1 ELSE i + 1
        IN NodeAt(i) = IF place \in 1 .. len THEN Stored[place] ELSE Nothing

\* What the iterator would still return.
Ahead ==
    LET met == Walk(it.next, IF it.forward THEN next ELSE prev, Cardinality(Nodes))
    IN [i \in 1 .. Cardinality({j \in DOMAIN met : met[j] # Nothing}) |-> met[i]]

\* An iterator returns every node the list had when it was made, in its order,
\* though each may be removed once it has been returned, and nodes pushed
\* meanwhile; it never points at a freed one.
IterationComplete ==
    it.on =>
        LET all == seen \o Ahead
        IN /\ \A i \in 1 .. Len(Ahead) : Ahead[i] \in Inside
           /\ Len(plan) <= Len(all)
           /\ \A i \in 1 .. Len(plan) : all[i] = plan[i]

-----------------------------------------------------------------------------
D == INSTANCE Deque WITH seq <- IF made THEN Stored ELSE <<>>

DequeNext ==
    \/ \E n \in Nodes : \/ Rpush(n) /\ D!PushBack(n)
                        \/ Lpush(n) /\ D!PushFront(n)
                        \/ Remove(n) /\ D!Delete(n)
    \/ (Rpop \/ PopEmpty) /\ D!PopBack
    \/ (Lpop \/ PopEmpty) /\ D!PopFront
    \/ \E i \in Places : At(i) /\ D!Look(i)
    \/ \E v \in Values : Find(v) /\ D!Search(v, val)
    \/ LookupFails /\ D!Fail
    \/ Destroy /\ D!Discard

\* The list is a deque: every call does to the sequence of nodes what the deque's
\* does, and returns what it returns.  (Which index list_at was asked for cannot be
\* seen in its result: PlacesExact tells that.)
ImplementsDeque == D!DequeInit /\ [][DequeNext]_(D!dequeVars)
=============================================================================
