---- MODULE LinkedList ----
(* The doubly linked list of lab 3: insert_in_order(), print_list() around each
   insertion, free_list() at the end, as main() calls them.  A node is the
   number of the insertion that made it, 0 the null pointer. *)
EXTENDS Integers, Sequences, SequencesExt

CONSTANT Inputs  \* the sequences of data that are inserted

ASSUME InputsAssumption == \A input \in Inputs : input \in Seq(Nat)

VARIABLES data,       \* what is inserted, in order: the data of each node
          made,       \* how many nodes were made
          head, tail, num_nodes,
          next, prev, \* the links of each node
          ptr1, ptr2, \* the loop in insert_in_order; ptr1 is the cursor in print_list
          listPc,     \* "insert", "loop", "print", "free" or "done"
          freed       \* the nodes free_list() has freed, in order

links == <<head, tail, next, prev>>
listVars == <<data, made, head, tail, num_nodes, next, prev, ptr1, ptr2, listPc, freed>>

NULL == 0
Nodes == 1..Len(data)

ListInit(inputs, at) ==
    /\ data \in inputs
    /\ made = 0 /\ num_nodes = 0
    /\ head = NULL /\ tail = NULL
    /\ next = [n \in Nodes |-> NULL] /\ prev = [n \in Nodes |-> NULL]
    /\ ptr1 = NULL /\ ptr2 = NULL
    /\ listPc = at /\ freed = <<>>

Inserted ==
    /\ num_nodes' = num_nodes + 1
    /\ listPc' = "print" /\ ptr1' = head' /\ ptr2' = NULL

(* create_node(), and insert_in_order() up to its loop. *)
InsertFirst ==
    /\ listPc = "insert" /\ made < Len(data) /\ head = NULL
    /\ made' = made + 1
    /\ head' = made' /\ tail' = made'
    /\ Inserted
    /\ UNCHANGED <<data, next, prev, freed>>

(* A new head: what follows it is the tail. *)
InsertHead ==
    /\ listPc = "insert" /\ made < Len(data) /\ head # NULL
    /\ data[made + 1] < data[head]
    /\ made' = made + 1
    /\ head' = made'
    /\ next' = [next EXCEPT ![made'] = tail]
    /\ prev' = [prev EXCEPT ![tail] = made']
    /\ Inserted
    /\ UNCHANGED <<data, tail, freed>>

StartLoop ==
    /\ listPc = "insert" /\ made < Len(data) /\ head # NULL
    /\ data[made + 1] >= data[head]
    /\ made' = made + 1
    /\ ptr1' = head /\ ptr2' = next[head]
    /\ listPc' = "loop"
    /\ UNCHANGED <<data, links, num_nodes, freed>>

(* The loop: n has the data of ptr1 and less than ptr2.  n->next = ptr1 comes
   where n->prev was meant. *)
InsertAfterEqual ==
    /\ listPc = "loop" /\ ptr2 # NULL
    /\ data[made] = data[ptr1] /\ data[made] < data[ptr2]
    /\ next' = [next EXCEPT ![ptr1] = made, ![made] = ptr1]
    /\ prev' = [prev EXCEPT ![ptr2] = made]
    /\ UNCHANGED <<data, made, head, tail, freed>>
    /\ Inserted

\* Mutation: the link back to n is missing.
InsertBetweenOneWay ==
    /\ listPc = "loop" /\ ptr2 # NULL
    /\ data[ptr1] < data[made] /\ data[made] < data[ptr2]
    /\ next' = [next EXCEPT ![ptr1] = made, ![made] = ptr2]
    /\ prev' = [prev EXCEPT ![made] = ptr1]
    /\ UNCHANGED <<data, made, head, tail, freed>>
    /\ Inserted

InsertBetween ==
    /\ listPc = "loop" /\ ptr2 # NULL
    /\ data[ptr1] < data[made] /\ data[made] < data[ptr2]
    /\ next' = [next EXCEPT ![ptr1] = made, ![made] = ptr2]
    /\ prev' = [prev EXCEPT ![ptr2] = made, ![made] = ptr1]
    /\ UNCHANGED <<data, made, head, tail, freed>>
    /\ Inserted

NextPair ==
    /\ listPc = "loop" /\ ptr2 # NULL
    /\ ~(data[ptr1] <= data[made] /\ data[made] < data[ptr2])
    /\ ptr1' = next[ptr1] /\ ptr2' = next[ptr2]
    /\ UNCHANGED <<data, made, links, num_nodes, listPc, freed>>

\* Mutation: prev of the other node is set.
InsertLastSwapped ==
    /\ listPc = "loop" /\ ptr2 = NULL
    /\ IF data[made] > data[ptr1]
       THEN next' = [next EXCEPT ![ptr1] = made] /\ prev' = [prev EXCEPT ![ptr1] = made] /\ tail' = made
       ELSE UNCHANGED <<next, prev, tail>>
    /\ UNCHANGED <<data, made, head, freed>>
    /\ Inserted

(* Behind the last node, if n is greater; an equal n is counted and lost. *)
InsertLast ==
    /\ listPc = "loop" /\ ptr2 = NULL
    /\ IF data[made] > data[ptr1]
       THEN /\ next' = [next EXCEPT ![ptr1] = made]
            /\ prev' = [prev EXCEPT ![made] = ptr1]
            /\ tail' = made
       ELSE UNCHANGED <<next, prev, tail>>
    /\ UNCHANGED <<data, made, head, freed>>
    /\ Inserted

PrintNode ==
    /\ listPc = "print" /\ ptr1 # NULL
    /\ ptr1' = next[ptr1]
    /\ UNCHANGED <<data, made, links, num_nodes, ptr2, listPc, freed>>

Printed ==
    /\ listPc = "print" /\ ptr1 = NULL
    /\ listPc' = IF made < Len(data) THEN "insert" ELSE "free"
    /\ UNCHANGED <<data, made, links, num_nodes, ptr1, ptr2, freed>>

FreeTail ==
    /\ listPc = "free" /\ tail # NULL
    /\ tail' = prev[tail]
    /\ freed' = Append(freed, tail)
    /\ UNCHANGED <<data, made, head, next, prev, num_nodes, ptr1, ptr2, listPc>>

Freed ==
    /\ listPc = "free" /\ tail = NULL
    /\ listPc' = "done"
    /\ UNCHANGED <<data, made, links, num_nodes, ptr1, ptr2, freed>>

ListNext ==
    \/ InsertFirst \/ InsertHead \/ StartLoop
    \/ InsertAfterEqual \/ InsertBetween \/ NextPair \/ InsertLast
    \/ PrintNode \/ Printed \/ FreeTail \/ Freed

ListSpec == ListInit(Inputs, "print") /\ [][ListNext]_listVars

(* -- What the list is --------------------------------------------------- *)

\* The place of data in a list that is in order: behind so many nodes.
Place(nodes, n) ==
    CHOOSE k \in 0..Len(nodes) : \A i \in DOMAIN nodes : i <= k <=> data[nodes[i]] <= data[n]

(* insert_in_order() as its comment has it: "in non-decreasing order", a value
   that is in the list already "AFTER the node(s) already in the list". *)
Put(nodes, n) == InsertAt(nodes, Place(nodes, n) + 1, n)

Expected[k \in 0..Len(data)] == IF k = 0 THEN <<>> ELSE Put(Expected[k - 1], k)

(* The insertions the code does otherwise: of data that is in the list already,
   and of a new head before more than one node. *)
Departs(k) ==
    LET before == Expected[k - 1]
    IN \/ \E i \in DOMAIN before : data[before[i]] = data[k]
       \/ Len(before) > 1 /\ data[k] < data[before[1]]
Departed == \E k \in 1..made : Departs(k)

FollowsNext(nodes) ==
    /\ head = nodes[1] /\ next[Last(nodes)] = NULL
    /\ \A i \in 1..Len(nodes) - 1 : next[nodes[i]] = nodes[i + 1]
FollowsPrev(nodes) ==
    /\ tail = Last(nodes) /\ prev[nodes[1]] = NULL
    /\ \A i \in 1..Len(nodes) - 1 : prev[nodes[i + 1]] = nodes[i]

InOrderBothWays == FollowsNext(Expected[made]) /\ FollowsPrev(Expected[made])

(* Until the first such insertion, whatever is inserted: every node is in the
   list, where the comment of insert_in_order() has it, followed either way. *)
ListAsExpected ==
    listPc \in {"insert", "print"} /\ made > 0 /\ ~Departed =>
        num_nodes = made /\ InOrderBothWays

(* "The node is inserted so that the data in the linked list is in
   non-decreasing order": after every insertion. *)
ListInOrder == listPc \in {"insert", "print"} /\ made > 0 => InOrderBothWays

(* Two nodes that follow each other for ever. *)
Ring == \E n \in Nodes : next[n] # NULL /\ next[next[n]] = n

(* "This will check if your previous pointers have been set up correctly":
   they lead to smaller data, always, so free_list() frees no node twice. *)
PrevDescends ==
    /\ IsInjective(freed)
    /\ \A n \in Nodes : prev[n] # NULL => data[prev[n]] < data[n]
====
