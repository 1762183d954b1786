------------------------------ MODULE Context ------------------------------
(***************************************************************************)
(* The switch between the scheduler of a CPU and its threads, instruction  *)
(* by instruction: switch_context (lib/src/swtch.asm), the first frame     *)
(* that init_thread builds (sched/threads.c) and the calls in              *)
(* sched/smp_sched.c.  SmpSched has a switch as one step; this is why.     *)
(*                                                                         *)
(* A stack is a page of words, the highest first used; a thread is also    *)
(* the name of its stack.  Between two switches the code of a stack may    *)
(* change every register and have a local variable on the stack or not.    *)
(* Interrupts are on: one may come between any two instructions, and its   *)
(* handler may use every word below the stack pointer.  After every        *)
(* instruction those words are taken to be lost.                           *)
(***************************************************************************)
EXTENDS Integers, Sequences

CONSTANTS
    Coroutines,     \* the threads of the CPU, the idle thread among them
    Scheduler,      \* sched_run
    StackWords      \* the words of a page

ASSUME ContextAssumption == Scheduler \notin Coroutines /\ StackWords \in Nat

VARIABLES
    core,       \* registers, stack pointer, and where the CPU is
    mem,        \* mem[s][i]: word i of stack s
    ctx,        \* thread->context and cpu->scheduler_ctx
    life,       \* life[t]: none, ready, exit
    called      \* what the caller of switch_context had at the call (history)

contextvars == <<core, mem, ctx, life, called>>

Stacks == Coroutines \cup {Scheduler}
Words == 1..StackWords

(* struct context, and the order in which switch_context pushes and pops. *)
Fields == <<"rax", "rbx", "rcx", "rdx", "rsi", "rdi", "rbp", "r8", "r9", "r10",
            "r11", "r12", "r13", "r14", "r15", "rip">>
PushOrder == <<"r15", "r14", "r13", "r12", "r11", "r10", "r9", "r8", "rbp", "rdi",
               "rsi", "rdx", "rcx", "rbx", "rax">>
PopOrderSwapped == <<"rax", "rbx", "rcx", "rdx", "rdi", "rsi", "rbp", "r8", "r9", "r10",
                     "r11", "r12", "r13", "r14", "r15">>     \* mistake: rdi before rsi
PopOrder == <<"rax", "rbx", "rcx", "rdx", "rsi", "rdi", "rbp", "r8", "r9", "r10",
              "r11", "r12", "r13", "r14", "r15">>
Regs == {PushOrder[k] : k \in DOMAIN PushOrder}

Zero == <<"zero">>
Garbage == <<"junk">>
Address(s, i) == <<"address", s, i>>

(* scheduler_ctx is first an empty context on a page of its own, which the *)
(* first switch replaces: no address of a stack here.                      *)
ContextInit ==
    /\ core = [regs |-> [r \in Regs |-> Zero], stack |-> Scheduler, at |-> StackWords + 1,
               pc |-> "code", k |-> 0, from |-> "start"]
    /\ mem = [s \in Stacks |-> [i \in Words |-> Garbage]]
    /\ ctx = [s \in Stacks |-> Zero]
    /\ life = [t \in Coroutines |-> "none"]
    /\ called = [s \in Stacks |-> Zero]

(* The stack of a CPU whose handlers may have run. *)
Interrupted(stack, at) == [i \in Words |-> IF i < at THEN Garbage ELSE stack[i]]

-----------------------------------------------------------------------------
(* The page of a new thread whose context is at sp: cleared but for the    *)
(* start function in its last word and two fields of the context.          *)
FirstFrame(t, sp) ==
    LET field(i) == IF i >= sp /\ i < StackWords THEN Fields[i - sp + 1] ELSE "none" IN
    [i \in Words |-> CASE i = StackWords      -> <<"start", t>>
                       [] field(i) = "rdi"    -> <<"argc", t>>
                       [] field(i) = "rsi"    -> <<"args", t>>
                       [] OTHER               -> Zero]

Created(t, sp) ==
    /\ life[t] = "none"
    /\ mem' = [mem EXCEPT ![t] = FirstFrame(t, sp)]
    /\ ctx' = [ctx EXCEPT ![t] = Address(t, sp)]
    /\ life' = [life EXCEPT ![t] = "ready"]
    /\ UNCHANGED <<core, called>>

(* Mistake: the context begins one word too low. *)
init_thread_low(t) == Created(t, StackWords - Len(Fields))

(* The word of the start function is the last field, rip. *)
init_thread(t) == Created(t, StackWords + 1 - Len(Fields))

(* The code of stack s calls switch_context(&ctx[s], ctx[to]): its two     *)
(* arguments are in rdi and rsi, the others have what the code left there, *)
(* n stands for; under the return address lie d words of locals.           *)
CallSwitch(s, to, n, d) ==
    LET regs == [r \in Regs |-> CASE r = "rdi" -> <<"slot", s>>
                                  [] r = "rsi" -> ctx[to]
                                  [] OTHER     -> <<"data", s, r, n>>]
        base == StackWords + 1 - d
    IN  /\ core.pc = "code" /\ core.stack = s
        /\ core' = [core EXCEPT !.regs = regs, !.at = base - 1, !.pc = "push", !.k = 1]
        /\ mem' = [mem EXCEPT ![s] = [i \in Words |-> CASE i >= base     -> <<"local", s, i, n>>
                                                        [] i = base - 1 -> <<"resume", s>>
                                                        [] OTHER        -> Garbage]]
        /\ called' = [called EXCEPT ![s] = [regs |-> regs, at |-> base, n |-> n]]
        /\ UNCHANGED ctx

(* sched_run has one call, always at the same depth. *)
sched_run(t, n) == life[t] = "ready" /\ CallSwitch(Scheduler, t, n, 1) /\ UNCHANGED life

(* Also idle_yield. *)
sched_yield(t, n, d) == CallSwitch(t, Scheduler, n, d) /\ UNCHANGED life

sched_exit(t, n, d) == CallSwitch(t, Scheduler, n, d) /\ life' = [life EXCEPT ![t] = "exit"]

-----------------------------------------------------------------------------
(* The instructions of switch_context. *)
PushReg ==
    /\ core.pc = "push"
    /\ core' = [core EXCEPT !.at = @ - 1, !.k = @ + 1,
                            !.pc = IF core.k = Len(PushOrder) THEN "store" ELSE "push"]
    /\ mem' = [mem EXCEPT ![core.stack][core.at - 1] = core.regs[PushOrder[core.k]]]
    /\ UNCHANGED <<ctx, life, called>>

(* mov [rdi], rsp *)
StoreRsp ==
    /\ core.pc = "store"
    /\ ctx' = [ctx EXCEPT ![core.regs["rdi"][2]] = Address(core.stack, core.at)]
    /\ core' = [core EXCEPT !.pc = "load"]
    /\ UNCHANGED <<mem, life, called>>

(* mov rsp, rsi *)
LoadRsp ==
    LET to == core.regs["rsi"][2]  sp == core.regs["rsi"][3] IN
    /\ core.pc = "load"
    /\ core' = [core EXCEPT !.stack = to, !.at = sp, !.pc = "pop", !.k = 1]
    /\ mem' = [mem EXCEPT ![to] = Interrupted(@, sp)]
    /\ UNCHANGED <<ctx, life, called>>

PopReg ==
    /\ core.pc = "pop"
    /\ core' = [core EXCEPT !.regs[PopOrder[core.k]] = mem[core.stack][core.at],
                            !.at = @ + 1, !.k = @ + 1,
                            !.pc = IF core.k = Len(PopOrder) THEN "ret" ELSE "pop"]
    /\ mem' = [mem EXCEPT ![core.stack] = Interrupted(@, core.at + 1)]
    /\ UNCHANGED <<ctx, life, called>>

(* Where the return leads: to a thread's start, behind the call, astray.   *)
Ret ==
    LET rip == mem[core.stack][core.at]
        good == rip \in {<<"start", core.stack>>, <<"resume", core.stack>>} IN
    /\ core.pc = "ret"
    /\ core' = [core EXCEPT !.at = @ + 1, !.k = 0, !.pc = IF good THEN "code" ELSE "astray",
                            !.from = rip[1]]
    /\ mem' = [mem EXCEPT ![core.stack] = Interrupted(@, core.at + 1)]
    /\ UNCHANGED <<ctx, life, called>>

ContextNext ==
    \/ \E t \in Coroutines : init_thread(t)
    \/ \E t \in Coroutines, n \in 0..1 : sched_run(t, n)
    \/ \E t \in Coroutines, n \in 0..1, d \in 0..1 :
          sched_yield(t, n, d) \/ sched_exit(t, n, d)
    \/ PushReg \/ StoreRsp \/ LoadRsp \/ PopReg \/ Ret

ContextSpec == ContextInit /\ [][ContextNext]_contextvars

(* switch_context returns to whoever is switched to, on that one's stack:  *)
(* a new thread starts its function with the two arguments, every other    *)
(* code finds all registers, its stack pointer and its locals as it had    *)
(* them when it called switch_context, whatever ran and whatever           *)
(* interrupted in between.  An exited thread never comes back ("Switch to  *)
(* scheduler - never returns"), and no stack leaves its page.              *)
ContextKept ==
    LET s == core.stack  c == called[s] IN
    /\ core.pc # "astray"
    /\ core.at \in 1..(StackWords + 1)
    /\ core.pc = "code" =>
          /\ s \in Coroutines => life[s] = "ready"
          /\ s \in Coroutines /\ core.from = "start" =>
                /\ core.at = StackWords + 1
                /\ \A r \in Regs : core.regs[r] = CASE r = "rdi" -> <<"argc", s>>
                                                    [] r = "rsi" -> <<"args", s>>
                                                    [] OTHER     -> Zero
          /\ core.from = "resume" =>
                /\ core.regs = c.regs /\ core.at = c.at
                /\ \A i \in c.at..StackWords : mem[s][i] = <<"local", s, i, c.n>>
=============================================================================
