-------------------------------- MODULE List --------------------------------
(***************************************************************************)
(* The intrusive list of list/list.c: a ring of struct list entries around *)
(* a head that is an entry itself.  One action is one call; the callers    *)
(* push entries that are not linked and remove entries that are.           *)
(***************************************************************************)
EXTENDS Integers, Sequences

CONSTANTS Entries, lst       \* the entries, and the head

VARIABLES
    link,       \* link.next and link.prev of every entry and of the head
    pushed,     \* the entries pushed and not taken out, latest first (history)
    stopped     \* a call panicked

lstvars == <<link, pushed, stopped>>

lst_init ==
    /\ link = [next |-> [e \in Entries \cup {lst} |-> lst],
               prev |-> [e \in Entries \cup {lst} |-> lst]]
    /\ pushed = <<>>
    /\ stopped = FALSE

lst_empty == link.next[lst] = lst

(* Mistake: the back link of the entry behind is forgotten. *)
UnlinkedForwardOnly(e) == [link EXCEPT !.next[link.prev[e]] = link.next[e]]

(* The entry's own links stay as they are. *)
Unlinked(e) ==
    [link EXCEPT !.next[link.prev[e]] = link.next[e], !.prev[link.next[e]] = link.prev[e]]

lst_remove(e) ==
    /\ link' = Unlinked(e)
    /\ pushed' = SelectSeq(pushed, LAMBDA x : x # e)
    /\ UNCHANGED stopped

lst_pop ==
    \/ /\ lst_empty
       /\ stopped' = TRUE
       /\ UNCHANGED <<link, pushed>>
    \/ /\ ~lst_empty
       /\ link' = Unlinked(link.next[lst])
       /\ pushed' = Tail(pushed)
       /\ UNCHANGED stopped

lst_push(e) ==
    /\ link' = [link EXCEPT !.next[e] = link.next[lst], !.prev[e] = lst,
                            !.prev[link.next[lst]] = e, !.next[lst] = e]
    /\ pushed' = <<e>> \o pushed
    /\ UNCHANGED stopped

OnList == {pushed[k] : k \in DOMAIN pushed}

LstNext ==
    /\ ~stopped
    /\ \/ \E e \in Entries \ OnList : lst_push(e)
       \/ \E e \in OnList : lst_remove(e)
       \/ lst_pop

(* The comment in list.c: "circular simplifies code, because don't have to *)
(* check for empty list in insert and remove".  Without those checks the   *)
(* ring is always the head and then the entries, latest first, with back   *)
(* links that are the reverse; and lst_pop panics only on an empty list.   *)
RingSound ==
    LET at(k) == IF k \in DOMAIN pushed THEN pushed[k] ELSE lst IN
    /\ \A k \in 0..Len(pushed) :
          link.next[at(k)] = at(k + 1) /\ link.prev[at(k + 1)] = at(k)
    /\ stopped => pushed = <<>>
=============================================================================
