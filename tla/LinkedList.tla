----------------------------- MODULE LinkedList -----------------------------
(***************************************************************************)
(* The list of list/linkedlist.h: a macro template for a doubly linked     *)
(* list with a count, positions, node operations and an iterator.  One     *)
(* action is one function called by the one thread that owns the list;     *)
(* push_if and pop_if are push and pop with their condition.  malloc fails *)
(* when every node is in use; it is not part of the kernel, and nothing    *)
(* instantiates the template yet.  A store through a null pointer hits no  *)
(* node; such a call, and one that gives kfree a node, is recorded as      *)
(* undefined.                                                              *)
(*                                                                         *)
(* The caller keeps the template's rules: it calls on a list that exists,  *)
(* passes nodes of that list, and steps an iterator only while the list    *)
(* has not changed since the iterator was placed.  What becomes of a list  *)
(* that a call has left damaged is not followed further.                   *)
(***************************************************************************)
EXTENDS Integers, Sequences, FiniteSets

CONSTANTS ListNodes, Elements, NULL

VARIABLES
    l,          \* the list in memory: exists, head, tail, count, the node
                \* fields data, next and prev, and the nodes malloc gave out
    it,         \* the iterator, and whether it was placed on this list (history)
    op          \* the last call and its result (history)

listvars == <<l, it, op>>

(* size_t, scaled down: wide enough for every count, and it wraps. *)
SIZE == 16

Blank(v) == [n \in ListNodes |-> v]

NoOp == [fn |-> "", do |-> "none", at |-> 0, elem |-> 0, ok |-> TRUE]
NoIter == [cursor |-> NULL, index |-> 0, start |-> TRUE, end |-> TRUE, placed |-> FALSE]

ListInit ==
    /\ l = [exists |-> FALSE, head |-> NULL, tail |-> NULL, count |-> 0, used |-> {},
            data |-> Blank(0), next |-> Blank(NULL), prev |-> Blank(NULL)]
    /\ it = NoIter
    /\ op = NoOp

Field(f, n) == IF n = NULL THEN NULL ELSE f[n]
Store(f, n, v) == [m \in ListNodes |-> IF m = n THEN v ELSE f[m]]

(* k links from node n. *)
Walk(f, n, k) ==
    LET w[j \in 0..k] == IF j = 0 THEN n ELSE Field(f, w[j - 1]) IN w[k]

(* The nodes from the head on, as far as the links lead. *)
Chain ==
    LET nth == [k \in 1..Cardinality(ListNodes) |-> Walk(l.next, l.head, k - 1)]
    IN SelectSeq(nth, LAMBDA n : n # NULL)

Position(n) == CHOOSE k \in 0..(Len(Chain) - 1) : Chain[k + 1] = n

IsEmpty == l.count = 0

-----------------------------------------------------------------------------
(* What the calls do to the list. *)

(* new_node, with the memory malloc returned. *)
new_node(n, e) ==
    [l EXCEPT !.used = @ \cup {n}, !.data[n] = e, !.next[n] = NULL, !.prev[n] = NULL]

Freed(m, n) ==
    [m EXCEPT !.used = @ \ {n}, !.data = Store(@, n, 0),
              !.next = Store(@, n, NULL), !.prev = Store(@, n, NULL)]

push_front(n, e) ==
    IF IsEmpty THEN [new_node(n, e) EXCEPT !.head = n, !.tail = n, !.count = @ + 1]
    ELSE [new_node(n, e) EXCEPT !.next[n] = l.head, !.prev = Store(@, l.head, n),
                                !.head = n, !.count = @ + 1]

push_back(n, e) ==
    IF IsEmpty THEN [new_node(n, e) EXCEPT !.head = n, !.tail = n, !.count = @ + 1]
    ELSE [new_node(n, e) EXCEPT !.prev[n] = l.tail, !.next = Store(@, l.tail, n),
                                !.tail = n, !.count = @ + 1]

(* Mistake: the walk from the tail goes one node too far. *)
get_node_off_by_one(i) ==
    IF i >= l.count THEN NULL
    ELSE IF i <= l.count \div 2 THEN Walk(l.next, l.head, i)
    ELSE Walk(l.prev, l.tail, l.count - i)

(* The nearer end is where the walk starts. *)
get_node(i) ==
    IF i >= l.count THEN NULL
    ELSE IF i <= l.count \div 2 THEN Walk(l.next, l.head, i)
    ELSE Walk(l.prev, l.tail, l.count - 1 - i)

push(n, e, i) ==
    LET scan == get_node(i - 1)
        after == Field(l.next, scan) IN
    IF i = 0 THEN push_front(n, e)
    ELSE IF i = l.count THEN push_back(n, e)
    ELSE [new_node(n, e) EXCEPT !.next = Store(Store(@, n, after), scan, n),
                                !.prev = Store(Store(@, n, scan), after, n),
                                !.count = @ + 1]

pop_front ==
    LET head == Field(l.next, l.head) IN
    [Freed(l, l.head) EXCEPT !.head = head, !.count = @ - 1,
                             !.tail = IF head = NULL THEN NULL ELSE @,
                             !.prev = Store(@, head, NULL)]

(* Mistake: the head still points at the node when the list becomes empty. *)
pop_back_keeps_head ==
    LET tail == Field(l.prev, l.tail) IN
    [Freed(l, l.tail) EXCEPT !.tail = tail, !.count = @ - 1,
                             !.next = Store(@, tail, NULL)]

pop_back ==
    LET tail == Field(l.prev, l.tail) IN
    [Freed(l, l.tail) EXCEPT !.tail = tail, !.count = @ - 1,
                             !.head = IF tail = NULL THEN NULL ELSE @,
                             !.next = Store(@, tail, NULL)]

pop(i) ==
    LET n == get_node(i) IN
    IF i = 0 THEN pop_front
    ELSE IF i = l.count - 1 THEN pop_back
    ELSE Freed([l EXCEPT !.prev = Store(@, Field(l.next, n), Field(l.prev, n)),
                         !.next = Store(@, Field(l.prev, n), Field(l.next, n)),
                         !.count = @ - 1], n)

insert_nxt(node, n, e) ==
    LET after == l.next[node] IN
    [new_node(n, e) EXCEPT !.next[n] = after, !.next[node] = n,
                           !.prev = Store(Store(@, after, n), n, node),
                           !.tail = IF after = NULL THEN n ELSE @,
                           !.count = @ + 1]

insert_prv(node, n, e) ==
    LET before == l.prev[node] IN
    [new_node(n, e) EXCEPT !.prev[n] = before, !.prev[node] = n,
                           !.next = Store(Store(@, before, n), n, node),
                           !.head = IF before = NULL THEN n ELSE @,
                           !.count = @ + 1]

(* The test of node->next is made before the link moves on, so the tail is *)
(* never set and the last node's removal writes through null.              *)
remove_nxt(node) ==
    LET after == Field(l.next, l.next[node]) IN
    Freed([l EXCEPT !.next[node] = after, !.prev = Store(@, after, node),
                    !.count = @ - 1], l.next[node])

(* The same at the other end, and the count stays. *)
remove_prv(node) ==
    LET before == Field(l.prev, l.prev[node]) IN
    Freed([l EXCEPT !.prev[node] = before, !.next = Store(@, before, node)], l.prev[node])

remove_cur(node) ==
    LET before == l.prev[node]  after == l.next[node] IN
    Freed([l EXCEPT !.next = Store(@, before, after), !.prev = Store(@, after, before),
                    !.head = IF before = NULL THEN after ELSE @,
                    !.tail = IF after = NULL THEN before ELSE @,
                    !.count = @ - 1], node)

-----------------------------------------------------------------------------
(* The links, the ends and the count describe one list of the nodes in use. *)
Shape ==
    LET c == Chain IN
    /\ {c[k] : k \in DOMAIN c} = l.used
    /\ Len(c) = Cardinality(l.used) /\ l.count = Len(c)
    /\ l.head = IF c = <<>> THEN NULL ELSE c[1]
    /\ l.tail = IF c = <<>> THEN NULL ELSE c[Len(c)]
    /\ \A k \in DOMAIN c : l.prev[c[k]] = IF k = 1 THEN NULL ELSE c[k - 1]

Result(fn, do, at, e, ok) == op' = [fn |-> fn, do |-> do, at |-> at, elem |-> e, ok |-> ok]

(* The list becomes m: an iterator on it has lost its place. *)
Becomes(m) == l' = m /\ it' = NoIter

(* A call that found nothing to do, or no memory. *)
Refuse(fn, do, at, e) == Result(fn, do, at, e, FALSE) /\ UNCHANGED <<l, it>>

Unused == ListNodes \ l.used

list_new ==
    \E ok \in BOOLEAN :
       /\ Becomes(IF ok THEN [l EXCEPT !.exists = TRUE, !.count = 0, !.head = NULL,
                                       !.tail = NULL]
                  ELSE l)
       /\ Result("new", "none", 0, 0, ok)

(* The list's page came from kalloc and kfree takes it back.  The nodes    *)
(* came from malloc, so the first kfree of a node is undefined: it panics  *)
(* on an address that is no page, or clears and keeps a page of malloc's.  *)
list_free ==
    IF l.head = NULL
    THEN /\ Becomes([l EXCEPT !.exists = FALSE, !.tail = NULL, !.count = 0])
         /\ Result("free", "clear", 0, 0, TRUE)
    ELSE /\ Becomes([l EXCEPT !.head = l.next[l.head]])
         /\ Result("free", "undefined", 0, 0, TRUE)

PushEnds(e) ==
    \/ \E n \in Unused : Becomes(push_front(n, e)) /\ Result("push_front", "insert", 0, e, TRUE)
    \/ \E n \in Unused : Becomes(push_back(n, e)) /\ Result("push_back", "insert", l.count, e, TRUE)
    \/ Unused = {} /\ Refuse("push_front", "insert", 0, e)
    \/ Unused = {} /\ Refuse("push_back", "insert", l.count, e)

PushIf(e, i, condition) ==
    \/ ~condition /\ Refuse("push_if", "none", i, e)
    \/ condition /\ (i > l.count \/ Unused = {}) /\ Refuse("push", "insert", i, e)
    \/ /\ condition /\ i <= l.count
       /\ \E n \in Unused : Becomes(push(n, e, i)) /\ Result("push", "insert", i, e, TRUE)

PopEnds ==
    \/ IsEmpty /\ (Refuse("pop_front", "delete", 0, 0) \/ Refuse("pop_back", "delete", 0, 0))
    \/ ~IsEmpty /\ Becomes(pop_front) /\ Result("pop_front", "delete", 0, 0, TRUE)
    \/ ~IsEmpty /\ Becomes(pop_back) /\ Result("pop_back", "delete", l.count - 1, 0, TRUE)

PopIf(i, condition) ==
    \/ ~condition /\ Refuse("pop_if", "none", i, 0)
    \/ condition /\ (IsEmpty \/ i >= l.count) /\ Refuse("pop", "delete", i, 0)
    \/ condition /\ i < l.count /\ Becomes(pop(i)) /\ Result("pop", "delete", i, 0, TRUE)

(* front, back, get and count. *)
ReadElement(i) ==
    /\ \/ Result("front", "read", 0, IF IsEmpty THEN 0 ELSE l.data[l.head], TRUE)
       \/ Result("back", "read", l.count - 1, IF IsEmpty THEN 0 ELSE l.data[l.tail], TRUE)
       \/ Result("get", "read", i, IF get_node(i) = NULL THEN 0 ELSE l.data[get_node(i)], TRUE)
       \/ Result("count", "size", l.count, 0, TRUE)
    /\ UNCHANGED <<l, it>>

InsertBeside(node, e) ==
    \/ \E n \in Unused : Becomes(insert_nxt(node, n, e))
                         /\ Result("insert_nxt", "insert", Position(node) + 1, e, TRUE)
    \/ \E n \in Unused : Becomes(insert_prv(node, n, e))
                         /\ Result("insert_prv", "insert", Position(node), e, TRUE)
    \/ Unused = {} /\ Refuse("insert_nxt", "insert", Position(node) + 1, e)
    \/ Unused = {} /\ Refuse("insert_prv", "insert", Position(node), e)

RemoveNext(node) ==
    \/ l.next[node] = NULL /\ Refuse("remove_nxt", "delete", l.count, 0)
    \/ /\ l.next[node] # NULL
       /\ Becomes(remove_nxt(node))
       /\ Result("remove_nxt", IF l.next[l.next[node]] = NULL THEN "undefined" ELSE "delete",
                 Position(node) + 1, 0, TRUE)

RemovePrevious(node) ==
    \/ l.prev[node] = NULL /\ Refuse("remove_prv", "delete", -1, 0)
    \/ /\ l.prev[node] # NULL
       /\ Becomes(remove_prv(node))
       /\ Result("remove_prv", IF l.prev[l.prev[node]] = NULL THEN "undefined" ELSE "delete",
                 Position(node) - 1, 0, TRUE)

RemoveCurrent(node) ==
    /\ Becomes(remove_cur(node)) /\ Result("remove_cur", "delete", Position(node), 0, TRUE)

-----------------------------------------------------------------------------
(* The iterator. *)

(* iter_new and iter_tostart; iter_toend, whose index wraps when the list  *)
(* is empty.                                                               *)
iter_tostart ==
    /\ it' = [cursor |-> l.head, index |-> 0, start |-> TRUE, end |-> IsEmpty, placed |-> TRUE]
    /\ Result("iter_tostart", "none", 0, 0, TRUE) /\ UNCHANGED l

iter_toend ==
    /\ it' = [cursor |-> l.tail, index |-> (l.count - 1) % SIZE, start |-> IsEmpty,
              end |-> TRUE, placed |-> TRUE]
    /\ Result("iter_toend", "none", 0, 0, TRUE) /\ UNCHANGED l

iter_next ==
    LET after == Field(l.next, it.cursor) IN
    /\ it.placed
    /\ \/ it.end /\ Refuse("iter_next", "step", 0, 0)
       \/ /\ ~it.end
          /\ it' = IF after = NULL THEN [it EXCEPT !.start = FALSE, !.end = TRUE]
                   ELSE [it EXCEPT !.start = FALSE, !.cursor = after, !.index = (@ + 1) % SIZE]
          /\ Result("iter_next", "step", it.index, l.data[it.cursor], TRUE) /\ UNCHANGED l

iter_prev ==
    LET before == Field(l.prev, it.cursor) IN
    /\ it.placed
    /\ \/ it.start /\ Refuse("iter_prev", "step", 0, 0)
       \/ /\ ~it.start
          /\ it' = IF before = NULL THEN [it EXCEPT !.end = FALSE, !.start = TRUE]
                   ELSE [it EXCEPT !.end = FALSE, !.cursor = before, !.index = (@ - 1) % SIZE]
          /\ Result("iter_prev", "step", it.index, l.data[it.cursor], TRUE) /\ UNCHANGED l

(* What the two queries answer on a list that is not empty. *)
iter_start == l.prev[it.cursor] = NULL /\ it.start
iter_end == l.next[it.cursor] = NULL /\ it.end

-----------------------------------------------------------------------------
Positions == 0..(Cardinality(ListNodes) + 1)

(* The caller takes the result and goes on, unless the list is damaged. *)
TakeResult ==
    /\ op # NoOp /\ op.do # "undefined" /\ Shape
    /\ op' = NoOp
    /\ UNCHANGED <<l, it>>

Call ==
    \/ list_free \/ PopEnds
    \/ \E e \in Elements : PushEnds(e)
    \/ \E e \in Elements, i \in Positions, c \in BOOLEAN : PushIf(e, i, c)
    \/ \E i \in Positions, c \in BOOLEAN : PopIf(i, c)
    \/ \E i \in Positions : ReadElement(i)
    \/ \E n \in l.used, e \in Elements : InsertBeside(n, e)
    \/ \E n \in l.used : RemoveNext(n) \/ RemovePrevious(n) \/ RemoveCurrent(n)
    \/ iter_tostart \/ iter_toend \/ iter_next \/ iter_prev

ListNext ==
    \/ op = NoOp /\ IF l.exists THEN Call ELSE list_new
    \/ TakeResult

ListSpec == ListInit /\ [][ListNext]_listvars

(* After every call but those that cannot keep it (remove_prv, which       *)
(* leaves the count, any write through null, and the release of a list     *)
(* that still has nodes) the list is one list: the links in both           *)
(* directions, both ends and the count agree, and no node is lost.  A      *)
(* placed iterator stands on the node its index names, and iter_start and  *)
(* iter_end answer whether a step will be refused.                         *)
ListSound ==
    /\ (l.exists /\ op.do # "undefined" /\ op.fn # "remove_prv") => Shape
    /\ (~l.exists) => l.used = {}
    /\ (l.exists /\ it.placed) =>
          /\ it.cursor = IF IsEmpty THEN NULL ELSE Chain[it.index + 1]
          /\ IsEmpty => it.start /\ it.end
          /\ ~IsEmpty => (iter_start = it.start) /\ (iter_end = it.end)

Sequence == INSTANCE SeqList WITH
    seq <- [k \in DOMAIN Chain |-> l.data[Chain[k]]],
    Capacity <- Cardinality(ListNodes)

(* The pointers implement a sequence: each call inserts, deletes or reads  *)
(* at the position it names, and fails only when there is no such position *)
(* or no node is left.                                                     *)
ImplementsSequence == Sequence!Spec
=============================================================================
