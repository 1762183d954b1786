------------------------------- MODULE SeqList -------------------------------
(***************************************************************************)
(* What a list promises its caller (the comments of list/linkedlist.h): a  *)
(* sequence of at most Capacity elements that calls insert into, delete    *)
(* from and read by position.  A call that writes through a null pointer   *)
(* or frees what it must not is undefined and promises nothing.            *)
(***************************************************************************)
EXTENDS Integers, SequencesExt

CONSTANTS Elements, Capacity

VARIABLES
    seq,        \* the elements
    op          \* the last call: what it asked for and what it returned

Init == seq = <<>> /\ op.do = "none"

(* An insertion fails only past the end or when no memory is left. *)
Insert ==
    /\ op'.do = "insert"
    /\ op'.ok = (op'.at \in 0..Len(seq) /\ Len(seq) < Capacity)
    /\ seq' = IF op'.ok THEN InsertAt(seq, op'.at + 1, op'.elem) ELSE seq

(* A deletion fails only where there is no element. *)
Delete ==
    /\ op'.do = "delete"
    /\ op'.ok = (op'.at \in 0..(Len(seq) - 1))
    /\ seq' = IF op'.ok THEN RemoveAt(seq, op'.at + 1) ELSE seq

(* A read returns the element at the position, or 0. *)
Read ==
    /\ op'.do = "read"
    /\ op'.elem = IF op'.at \in 0..(Len(seq) - 1) THEN seq[op'.at + 1] ELSE 0
    /\ seq' = seq

(* A step of an iterator yields a position and the element there. *)
Step ==
    /\ op'.do = "step"
    /\ op'.ok => op'.at \in 0..(Len(seq) - 1) /\ op'.elem = seq[op'.at + 1]
    /\ seq' = seq

Size == op'.do = "size" /\ op'.at = Len(seq) /\ seq' = seq
Clear == op'.do = "clear" /\ seq' = <<>>
Pass == op'.do = "none" /\ seq' = seq
Undefined == op'.do = "undefined"

Next == Insert \/ Delete \/ Read \/ Step \/ Size \/ Clear \/ Pass \/ Undefined

Spec == Init /\ [][Next]_<<seq, op>>
=============================================================================
