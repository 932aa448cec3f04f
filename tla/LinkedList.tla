----------------------------- MODULE LinkedList -----------------------------
(***************************************************************************)
(* The singly linked list of pkg/linked_list.go with its nodes and their   *)
(* pointers, as one goroutine uses it.  A node that no pointer leads to is *)
(* garbage and may be allocated again.                                     *)
(***************************************************************************)
EXTENDS Integers, Sequences, FiniteSets, SequencesExt

CONSTANTS Nodes,    \* addresses, numbers, as many as the heap has room for
          Values,   \* the values that are inserted
          nil       \* the null pointer

ASSUME ListAssumption == IsFiniteSet(Nodes) /\ Nodes \subseteq Nat /\ nil \notin Nodes

VARIABLES head,     \* l.Head
          node      \* node[n]: the fields Value and Next of the node at n

listVars == <<head, node>>

\* The address that k steps along Next lead to from the head, and the chain
\* of all addresses before nil.
Walk[k \in Nat] ==
    IF k = 0 THEN head
    ELSE LET current == Walk[k - 1] IN IF current = nil THEN nil ELSE node[current].Next
Length == Min({k \in 0 .. Cardinality(Nodes) : Walk[k] = nil})
Chain  == [i \in 1 .. Length |-> Walk[i - 1]]

\* What the list holds, in order.
Contents == LET c == Chain IN [i \in DOMAIN c |-> node[c[i]].Value]

\* The zero LinkedList.
ListInit == head = nil /\ node = [n \in Nodes |-> nil]

\* &Node{Value: value, Next: next}, at an address no pointer leads to.
Fresh == Nodes \ ToSet(Chain)
New   == Min(Fresh)
Stored(value, next) == [node EXCEPT ![New] = [Value |-> value, Next |-> next]]

InsertFront(value) ==
    /\ Fresh # {}
    /\ node' = Stored(value, head)
    /\ head' = New

InsertBack(value) ==
    /\ Fresh # {}
    /\ IF head = nil
       THEN head' = New /\ node' = Stored(value, nil)
       ELSE /\ node' = [Stored(value, nil) EXCEPT ![Last(Chain)].Next = New]
            /\ UNCHANGED head

\* The node where Delete's loop stops: the first one whose successor holds
\* the value, or the last one.
Stop(value) ==
    LET c == Chain
    IN  c[Min({i \in DOMAIN c : i = Len(c) \/ node[c[i + 1]].Value = value})]

\* Mutant: the loop starts at the head, which it never tests.
Delete_SkipsHead(value) ==
    LET current == Stop(value)
    IN  /\ head # nil /\ node[current].Next # nil
        /\ node' = [node EXCEPT ![current].Next = node[node[current].Next].Next]
        /\ UNCHANGED head

Delete(value) ==
    \/ head = nil /\ UNCHANGED listVars
    \/ /\ head # nil /\ node[head].Value = value
       /\ head' = node[head].Next
       /\ UNCHANGED node
    \/ /\ head # nil /\ node[head].Value # value
       /\ LET current == Stop(value)
          IN  node' = IF node[current].Next = nil THEN node
                      ELSE [node EXCEPT ![current].Next = node[node[current].Next].Next]
       /\ UNCHANGED head

ListNext == \E v \in Values : InsertFront(v) \/ InsertBack(v) \/ Delete(v)

ListSpec == ListInit /\ [][ListNext]_listVars
-----------------------------------------------------------------------------
\* The pointers implement a sequence: an insertion puts its value at the front
\* or the back, a deletion takes out the first occurrence, and the rest stays
\* reachable in its order, although nodes are allocated again and relinked.
ListIsSequence ==
    [][\A v \in Values :
          /\ InsertFront(v) => Contents' = <<v>> \o Contents
          /\ InsertBack(v) => Contents' = Append(Contents, v)
          /\ Delete(v) => Contents' = RemoveFirst(Contents, v)]_listVars
=============================================================================
