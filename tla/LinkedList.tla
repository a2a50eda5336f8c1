------------------------------ MODULE LinkedList ------------------------------
(***************************************************************************)
(* The list under every queue of the node (utils/linkedlist.ts,            *)
(* utils/queue.ts): nodes with a pointer to the next one, and a list that  *)
(* points to the first and to the last.  A node is a number and so is what  *)
(* it holds; 0 is null and nothing.                                        *)
(***************************************************************************)
EXTENDS Naturals, Sequences

EmptyList == [nodes |-> << >>, head |-> 0, tail |-> 0, size |-> 0]

\* new ListNode(data, next): its number is the next free one.
WithNode(nodes, data, next) == Append(nodes, [data |-> data, next |-> next])

AddLast(list, data) ==
    LET n == Len(list.nodes) + 1
        nodes == WithNode(list.nodes, data, 0)
    IN  IF list.tail # 0
        THEN [list EXCEPT !.nodes = [nodes EXCEPT ![list.tail].next = n], !.tail = n, !.size = @ + 1]
        ELSE [list EXCEPT !.nodes = nodes, !.head = n, !.tail = n, !.size = @ + 1]

\* The data of the first node, or nothing.
GetFirst(list) == IF list.head = 0 THEN 0 ELSE list.nodes[list.head].data

\* (Operators named Slip... are plausible mistakes in the operator that follows.)
SlipTailAfter(list, head) == list.tail

\* With the last node the list loses its tail too.
TailAfter(list, head) == IF head = 0 THEN 0 ELSE list.tail

RemoveFirst(list) ==
    LET head == list.nodes[list.head].next IN
    IF list.head = 0 THEN list
    ELSE [list EXCEPT !.head = head, !.tail = TailAfter(list, head), !.size = @ - 1]

\* Queue.enqueue, and the two halves of Queue.dequeue.
Enqueue(list, data) == AddLast(list, data)
Front(list)         == GetFirst(list)
Dequeue(list)       == RemoveFirst(list)
===============================================================================
