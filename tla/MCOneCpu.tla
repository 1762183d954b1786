------------------------------ MODULE MCOneCpu ------------------------------
(* The parts in which one call at a time is at work, for TLC: the page     *)
(* allocator and the run queue when no call overlaps another, the list of  *)
(* list.c, the template of linkedlist.h, the first scheduler with its      *)
(* mutex, and the context switch.  They share nothing: a behaviour is one  *)
(* of one of them.                                                         *)
EXTENDS Kalloc, RunQueue, List, LinkedList, LegacySched, Context, TLC

CONSTANTS p1, p2, u1, u2, u3, u4

VARIABLE which       \* the part of this behaviour

MCProcessOf == (u1 :> p1) @@ (u2 :> p1) @@ (u3 :> p2) @@ (u4 :> p2)

OneCpuInit ==
    /\ which \in {"kalloc.c", "run queue", "list.c", "linkedlist.h", "scheduler.c", "swtch.asm"}
    /\ Init /\ QueueInit /\ lst_init /\ ListInit /\ LegacyInit /\ ContextInit

OneCpuNext ==
    /\ UNCHANGED which
    /\ \/ /\ which = "kalloc.c" /\ SerialNext
          /\ UNCHANGED <<queuevars, lstvars, listvars, legacyvars, contextvars>>
       \/ /\ which = "run queue" /\ QueueSerialNext
          /\ UNCHANGED <<vars, lstvars, listvars, legacyvars, contextvars>>
       \/ /\ which = "list.c" /\ LstNext
          /\ UNCHANGED <<vars, queuevars, listvars, legacyvars, contextvars>>
       \/ /\ which = "linkedlist.h" /\ ListNext
          /\ UNCHANGED <<vars, queuevars, lstvars, legacyvars, contextvars>>
       \/ /\ which = "scheduler.c" /\ LegacyNext
          /\ UNCHANGED <<vars, queuevars, lstvars, listvars, contextvars>>
       \/ /\ which = "swtch.asm" /\ ContextNext
          /\ UNCHANGED <<vars, queuevars, lstvars, listvars, legacyvars>>

OneCpuSpec ==
    /\ OneCpuInit
    /\ [][OneCpuNext]_<<which, vars, queuevars, lstvars, listvars, legacyvars, contextvars>>

(* The two generic lists keep their shape over every sequence of calls     *)
(* their rules allow, as List and LinkedList say it of each.               *)
ListsKeepShape == RingSound /\ ListSound

Symmetry == Permutations(ListNodes)
=============================================================================
