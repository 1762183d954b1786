----------------------------- MODULE Interrupts -----------------------------
(***************************************************************************)
(* Interrupts, from the tables of Acpi to the handlers: setup_idt on the   *)
(* boot processor and setup_idt_ap on the others (idt/idt.c), the local    *)
(* APICs and the I/O APICs (apic/lapic.c, apic/ioapic.c), and the          *)
(* keyboard, timer, default and exception handlers                         *)
(* (idt/interrupt_handlers.c), against a keyboard that sends scancodes and *)
(* timers that fire at any moment.                                         *)
(***************************************************************************)
EXTENDS Acpi, TLC

CONSTANTS
    BspId,      \* the APIC number of the boot processor
    Aps,        \* the APIC numbers of the others
    MaxKeys     \* scancodes the keyboard sends (bounds the model only)

VARIABLES
    ioapics,    \* the array of ioapic.c: address, first GSI, last entry
    rte,        \* rte[addr][n]: redirection entry n of the I/O APIC at addr
    idt,        \* idt[v]: the gate of vector v, for all processors
    regs,       \* the pointer to the local APIC's registers in lapic.c
    lapic,      \* lapic[c]: software enable, IRR, ISR, the timer's LVT
    cpu,        \* cpu[c]: the IDTR, the interrupt flag, where c is
    kbd,        \* the keyboard controller: port and interrupt enabled, bytes waiting, sent
    ticks       \* ticks[c]: timer_ticks, modulo 2

irqVars == <<ioapics, rte, idt, regs, lapic, cpu, kbd, ticks>>
vars == <<acpiVars, irqVars>>

Bsp == BspId
Cpus == {Bsp} \cup Aps

APIC_TIMER_VECTOR == 32
APIC_KEYBOARD_VECTOR == 33
LAPIC_SPURIOUS_VECTOR == 255
Vectors == {14, APIC_TIMER_VECTOR, APIC_KEYBOARD_VECTOR, LAPIC_SPURIOUS_VECTOR}

Ioapic(e) == e.type = "ioapic"
IoapicEntries == {e \in {fw.tables[fw.madt].entries[i] :
                            i \in DOMAIN fw.tables[fw.madt].entries} : Ioapic(e)}

(* The firmware has left every redirection entry unmasked, and the         *)
(* keyboard's port and its interrupt enabled or not.                       *)
Init ==
    /\ AcpiInit
    /\ ioapics = <<>>
    /\ rte = [a \in {e.addr : e \in IoapicEntries} |->
                [n \in 0 .. (CHOOSE e \in IoapicEntries : e.addr = a).last |->
                   [vector |-> 8 + n, masked |-> 0, dest |-> 0]]]
    /\ idt = [v \in Vectors |-> "none"]
    /\ regs = 0
    /\ lapic = [c \in Cpus |-> [on |-> 0, irr |-> {}, isr |-> {}, timer |-> 0]]
    /\ cpu = [c \in Cpus |-> [idtr |-> 0, intr |-> 0, vector |-> 0,
                              pc |-> IF c = Bsp THEN "none" ELSE "off"]]
    /\ kbd \in [port : 0 .. 1, irq : 0 .. 1, waiting : {0}, sent : {0}]
    /\ ticks = [c \in Cpus |-> 0]

-----------------------------------------------------------------------------
(* setup_idt, in its order: fill the table and load it, mask the old PICs, *)
(* set up the local APIC, list and mask the I/O APICs, route the keyboard, *)
(* start the timer, enable interrupts.                                     *)
FillIdt ==
    /\ boot.pc = "idt"
    /\ idt' = [v \in Vectors |-> CASE v = APIC_TIMER_VECTOR    -> "timer"
                                   [] v = APIC_KEYBOARD_VECTOR -> "keyboard"
                                   [] v < 32                   -> "exception"
                                   [] OTHER                    -> "default"]
    /\ cpu' = [cpu EXCEPT ![Bsp].idtr = 1]
    /\ Goto("lapic")
    /\ UNCHANGED <<fw, acpi, mapped, free, oom, cleared, ioapics, rte, regs, lapic, kbd, ticks>>

(* A register access at an address that is not mapped is a page fault: the *)
(* boot goes no further and the processor is in the gate of vector 14.     *)
PageFault == Goto("fault") /\ cpu' = [cpu EXCEPT ![Bsp].pc = idt[14], ![Bsp].vector = 14]

(* What lapic_init leaves in the local APIC of a processor: enabled, and   *)
(* an interrupt that was in service acknowledged.                          *)
Initialised(la) == [la EXCEPT !.on = 1, !.isr = {}]

lapic_init ==
    /\ boot.pc = "lapic"
    /\ regs' = acpi.lapic_address
    /\ \/ acpi.lapic_address = 0 /\ Goto("ioapic") /\ UNCHANGED <<lapic, cpu>>
       \/ /\ acpi.lapic_address # 0 /\ IsMapped(acpi.lapic_address)
          /\ lapic' = [lapic EXCEPT ![Bsp] = Initialised(@)]
          /\ Goto("ioapic") /\ UNCHANGED cpu
       \/ /\ acpi.lapic_address # 0 /\ ~IsMapped(acpi.lapic_address)
          /\ PageFault /\ UNCHANGED lapic
    /\ UNCHANGED <<fw, acpi, mapped, free, oom, cleared, ioapics, rte, idt, kbd, ticks>>

(* ioapic_init, first loop: read the version register of every I/O APIC. *)
ioapic_init ==
    /\ boot.pc = "ioapic"
    /\ IF boot.i > Len(MadtEntries) \/ Len(ioapics) = MAX_IOAPICS
       THEN Goto("mask") /\ UNCHANGED <<ioapics, cpu>>
       ELSE LET e == MadtEntries[boot.i] IN
            \/ ~Ioapic(e) /\ Advance(e) /\ UNCHANGED <<ioapics, cpu>>
            \/ Ioapic(e) /\ ~IsMapped(e.addr) /\ PageFault /\ UNCHANGED ioapics
            \/ /\ Ioapic(e) /\ IsMapped(e.addr)
               /\ ioapics' = Append(ioapics, [addr |-> e.addr, gsi_base |-> e.gsi,
                                              max_redirect |-> e.last])
               /\ Advance(e) /\ UNCHANGED cpu
    /\ UNCHANGED <<fw, acpi, mapped, free, oom, cleared, rte, idt, regs, lapic, kbd, ticks>>

(* The I/O APIC of a global interrupt number, 0 for none. *)
ioapic_for_gsi(gsi) ==
    LET owns(i) == gsi >= ioapics[i].gsi_base
                   /\ gsi < ioapics[i].gsi_base + ioapics[i].max_redirect + 1
    IN  IF \E i \in DOMAIN ioapics : owns(i)
        THEN CHOOSE i \in DOMAIN ioapics : owns(i) /\ \A j \in 1 .. i - 1 : ~owns(j)
        ELSE 0

(* The redirection entry of an interrupt number, which the functions of    *)
(* ioapic.c take as a byte; and a write to a set of entries.               *)
EntryOf(irq) ==
    LET i == ioapic_for_gsi(irq % 256) IN
    IF i = 0 THEN <<>> ELSE <<ioapics[i].addr, (irq % 256) - ioapics[i].gsi_base>>
ioapic_write(entries, fields) ==
    rte' = [a \in DOMAIN rte |-> [n \in DOMAIN rte[a] |->
              IF <<a, n>> \in entries THEN fields @@ rte[a][n] ELSE rte[a][n]]]

(* Mistakes: the last entry of each I/O APIC is left out; the destination  *)
(* is not written.                                                         *)
MaskAllButLast ==
    /\ boot.pc = "mask"
    /\ IF boot.i > Len(ioapics)
       THEN Goto("low") /\ UNCHANGED rte
       ELSE LET io == ioapics[boot.i] IN
               /\ ioapic_write({EntryOf(io.gsi_base + n) : n \in 0 .. io.max_redirect - 1}, [masked |-> 1])
               /\ Again
    /\ UNCHANGED <<fw, acpi, mapped, free, oom, cleared, ioapics, idt, regs, lapic, cpu, kbd, ticks>>
NoDestination ==
    /\ boot.pc = "high" /\ Goto("ps2")
    /\ UNCHANGED <<fw, acpi, mapped, free, oom, cleared, irqVars>>

(* ioapic_init, second loop: ioapic_disable_irq for every entry of an      *)
(* I/O APIC.                                                               *)
ioapic_disable_irq ==
    /\ boot.pc = "mask"
    /\ IF boot.i > Len(ioapics)
       THEN Goto("low") /\ UNCHANGED rte
       ELSE LET io == ioapics[boot.i] IN
               /\ ioapic_write({EntryOf(io.gsi_base + n) : n \in 0 .. io.max_redirect}, [masked |-> 1])
               /\ Again
    /\ UNCHANGED <<fw, acpi, mapped, free, oom, cleared, ioapics, idt, regs, lapic, cpu, kbd, ticks>>

(* ioapic_enable_irq(1, ...): the low word first, which unmasks, then the  *)
(* high word with the destination.                                         *)
SetEntryLow ==
    /\ boot.pc = "low" /\ Goto("high")
    /\ ioapic_write({EntryOf(1)}, [vector |-> APIC_KEYBOARD_VECTOR, masked |-> 0])
    /\ UNCHANGED <<fw, acpi, mapped, free, oom, cleared, ioapics, idt, regs, lapic, cpu, kbd, ticks>>

SetEntryHigh ==
    /\ boot.pc = "high" /\ Goto("ps2")
    /\ ioapic_write({EntryOf(1)}, [dest |-> IF regs = 0 THEN 0 ELSE BspId])
    /\ UNCHANGED <<fw, acpi, mapped, free, oom, cleared, ioapics, idt, regs, lapic, cpu, kbd, ticks>>

(* The keyboard controller holds its line high while it has a byte and its *)
(* interrupt is enabled.  An edge on a line that is masked, or sent to a   *)
(* local APIC that is disabled or not there, is lost; so is a vector below *)
(* 16, which no local APIC accepts.                                        *)
KeyboardEntries ==
    {rte[e.addr][1 - e.gsi] : e \in {e \in IoapicEntries : e.gsi <= 1 /\ 1 <= e.gsi + e.last}}
Accepted(c) ==
    {e.vector : e \in {e \in KeyboardEntries : e.masked = 0 /\ e.dest = c /\ e.vector > 15}}
Edge(l) ==
    [c \in Cpus |-> IF l[c].on = 1 THEN [l[c] EXCEPT !.irr = @ \cup Accepted(c)] ELSE l[c]]

(* The first PS/2 port is enabled; from now on scancodes may come. *)
EnablePort ==
    /\ boot.pc = "ps2"
    /\ kbd' = [kbd EXCEPT !.port = 1]
    /\ Goto("config")
    /\ UNCHANGED <<fw, acpi, mapped, free, oom, cleared, ioapics, rte, idt, regs, lapic, cpu, ticks>>

(* The controller is asked for its configuration byte, and the next byte   *)
(* is taken for it.  If a scancode is waiting it is that byte: it is lost, *)
(* and the configuration byte stays in its place.                          *)
ReadConfig ==
    /\ boot.pc = "config"
    /\ Goto(IF kbd.waiting = 0 THEN "write" ELSE "write_scancode")
    /\ lapic' = IF kbd.waiting > 0 /\ kbd.irq = 1 THEN Edge(lapic) ELSE lapic
    /\ UNCHANGED <<fw, acpi, mapped, free, oom, cleared, ioapics, rte, idt, regs, cpu, kbd, ticks>>

(* Mistake: the interrupt is not enabled in the configuration byte. *)
WriteConfigUnchanged ==
    /\ boot.pc \in {"write", "write_scancode"}
    /\ Goto("timer")
    /\ UNCHANGED <<fw, acpi, mapped, free, oom, cleared, irqVars>>

(* The byte is written back with the interrupt enabled.  The one that was  *)
(* a scancode may say that the port is disabled.                           *)
WriteConfig ==
    /\ boot.pc \in {"write", "write_scancode"}
    /\ \E port \in IF boot.pc = "write" THEN {kbd.port} ELSE 0 .. 1 :
          kbd' = [kbd EXCEPT !.irq = 1, !.port = port]
    /\ lapic' = IF kbd.waiting > 0 /\ kbd.irq = 0 THEN Edge(lapic) ELSE lapic
    /\ Goto("timer")
    /\ UNCHANGED <<fw, acpi, mapped, free, oom, cleared, ioapics, rte, idt, regs, cpu, ticks>>

(* lapic_timer_start on processor c. *)
lapic_timer_start(c) ==
    lapic' = IF regs = 0 THEN lapic ELSE [lapic EXCEPT ![c].timer = APIC_TIMER_VECTOR]

StartTimer ==
    /\ boot.pc = "timer"
    /\ lapic_timer_start(Bsp)
    /\ Goto("sti")
    /\ UNCHANGED <<fw, acpi, mapped, free, oom, cleared, ioapics, rte, idt, regs, cpu, kbd, ticks>>

sti ==
    /\ boot.pc = "sti"
    /\ cpu' = [cpu EXCEPT ![Bsp].intr = 1]
    /\ Goto("run")
    /\ UNCHANGED <<fw, acpi, mapped, free, oom, cleared, ioapics, rte, idt, regs, lapic, kbd, ticks>>

-----------------------------------------------------------------------------
(* The other processors: start_all_aps comes after setup_idt, sends        *)
(* nothing without a local APIC, and skips processors that are not         *)
(* enabled.  One that answers (ApStartup) is in ap_entry, which calls      *)
(* lapic_init and setup_idt_ap and enables interrupts.                     *)
StartAp(c) ==
    /\ boot.pc = "run" /\ regs # 0 /\ c # Bsp /\ cpu[c].pc = "off"
    /\ \E i \in DOMAIN acpi.cpus : acpi.cpus[i].enabled /\ acpi.cpus[i].apic_id = c
    /\ cpu' = [cpu EXCEPT ![c].pc = "ap_lapic"]
    /\ UNCHANGED <<acpiVars, ioapics, rte, idt, regs, lapic, kbd, ticks>>

ApLapicInit(c) ==
    /\ cpu[c].pc = "ap_lapic"
    /\ lapic' = [lapic EXCEPT ![c] = Initialised(@)]
    /\ cpu' = [cpu EXCEPT ![c].pc = "ap_idt"]
    /\ UNCHANGED <<acpiVars, ioapics, rte, idt, regs, kbd, ticks>>

(* Mistake: the timer of the processor is not started. *)
IdtOnly(c) ==
    /\ cpu[c].pc = "ap_idt"
    /\ cpu' = [cpu EXCEPT ![c].idtr = 1, ![c].pc = "ap_sti"]
    /\ UNCHANGED <<acpiVars, ioapics, rte, idt, regs, lapic, kbd, ticks>>

setup_idt_ap(c) ==
    /\ cpu[c].pc = "ap_idt"
    /\ cpu' = [cpu EXCEPT ![c].idtr = 1, ![c].pc = "ap_sti"]
    /\ lapic_timer_start(c)
    /\ UNCHANGED <<acpiVars, ioapics, rte, idt, regs, kbd, ticks>>

ApSti(c) ==
    /\ cpu[c].pc = "ap_sti"
    /\ cpu' = [cpu EXCEPT ![c].intr = 1, ![c].pc = "none"]
    /\ UNCHANGED <<acpiVars, ioapics, rte, idt, regs, lapic, kbd, ticks>>

-----------------------------------------------------------------------------
(* The hardware.  The keyboard raises its line for a scancode when the one *)
(* before has been read.                                                   *)
KeyPress ==
    /\ kbd.port = 1 /\ kbd.sent < MaxKeys
    /\ kbd' = [kbd EXCEPT !.waiting = @ + 1, !.sent = @ + 1]
    /\ lapic' = IF kbd.waiting = 0 /\ kbd.irq = 1 THEN Edge(lapic) ELSE lapic
    /\ UNCHANGED <<acpiVars, ioapics, rte, idt, regs, cpu, ticks>>

TimerFires(c) ==
    /\ lapic[c].timer # 0
    /\ lapic' = [lapic EXCEPT ![c].irr = @ \cup {lapic[c].timer}]
    /\ UNCHANGED <<acpiVars, ioapics, rte, idt, regs, cpu, kbd, ticks>>

(* The processor takes the highest vector pending, if its class is above   *)
(* every one in service, through an interrupt gate.                        *)
Highest(S) == CHOOSE v \in S : \A w \in S : w <= v
Enter(c, v) == cpu' = [cpu EXCEPT ![c].intr = 0, ![c].pc = idt[v], ![c].vector = v]
Deliver(c) ==
    /\ cpu[c].intr = 1 /\ lapic[c].irr # {}
    /\ LET v == Highest(lapic[c].irr) IN
       /\ \A w \in lapic[c].isr : w \div 16 < v \div 16
       /\ lapic' = [lapic EXCEPT ![c].irr = @ \ {v}, ![c].isr = @ \cup {v}]
       /\ Enter(c, v)
    /\ UNCHANGED <<acpiVars, ioapics, rte, idt, regs, kbd, ticks>>

(* A spurious interrupt comes with no bit in service. *)
Spurious(c) ==
    /\ cpu[c].intr = 1 /\ lapic[c].on = 1
    /\ Enter(c, LAPIC_SPURIOUS_VECTOR)
    /\ UNCHANGED <<acpiVars, ioapics, rte, idt, regs, lapic, kbd, ticks>>

-----------------------------------------------------------------------------
(* The handlers, on processor c. *)
lapic_eoi(c) ==
    lapic' = IF regs = 0 \/ lapic[c].isr = {} THEN lapic
             ELSE [lapic EXCEPT ![c].isr = @ \ {Highest(@)}]

(* One step of c's handler, from and to. *)
HandlerStep(c, from, to) == cpu[c].pc = from /\ cpu' = [cpu EXCEPT ![c].pc = to]

(* Mistake: the handler returns without an EOI. *)
KeyboardWithoutEoi(c) ==
    /\ HandlerStep(c, "keyboard_eoi", "iret")
    /\ UNCHANGED <<acpiVars, ioapics, rte, idt, regs, lapic, kbd, ticks>>

(* keyboard_handler: read scancodes while the status register says there   *)
(* is one; then print, EOI, return.                                        *)
ReadStatus(c) ==
    /\ HandlerStep(c, "keyboard", IF kbd.waiting > 0 THEN "read" ELSE "keyboard_eoi")
    /\ UNCHANGED <<acpiVars, ioapics, rte, idt, regs, lapic, kbd, ticks>>
ReadData(c) ==
    /\ HandlerStep(c, "read", "keyboard")
    /\ kbd' = [kbd EXCEPT !.waiting = @ - 1]
    /\ lapic' = IF kbd.waiting > 1 /\ kbd.irq = 1 THEN Edge(lapic) ELSE lapic
    /\ UNCHANGED <<acpiVars, ioapics, rte, idt, regs, ticks>>
KeyboardEoi(c) ==
    /\ HandlerStep(c, "keyboard_eoi", "iret")
    /\ lapic_eoi(c)
    /\ UNCHANGED <<acpiVars, ioapics, rte, idt, regs, kbd, ticks>>

(* timer_interrupt: count, EOI; sched_tick changes nothing. *)
timer_interrupt(c) ==
    /\ HandlerStep(c, "timer", "iret")
    /\ ticks' = [ticks EXCEPT ![c] = (@ + 1) % 2]
    /\ lapic_eoi(c)
    /\ UNCHANGED <<acpiVars, ioapics, rte, idt, regs, kbd>>

(* default_handler: print, return. *)
default_handler(c) ==
    /\ HandlerStep(c, "default", "iret")
    /\ UNCHANGED <<acpiVars, ioapics, rte, idt, regs, lapic, kbd, ticks>>

(* The stub of an exception calls interrupt_handler, which prints and      *)
(* loops: nothing after the call in the stub is reached.                   *)
interrupt_handler(c) ==
    /\ HandlerStep(c, "exception", "loop")
    /\ UNCHANGED <<acpiVars, ioapics, rte, idt, regs, lapic, kbd, ticks>>

Iret(c) ==
    /\ cpu[c].pc = "iret"
    /\ cpu' = [cpu EXCEPT ![c].pc = "none", ![c].vector = 0, ![c].intr = 1]
    /\ UNCHANGED <<acpiVars, ioapics, rte, idt, regs, lapic, kbd, ticks>>

Boot ==
    \/ AcpiNext /\ UNCHANGED irqVars
    \/ FillIdt \/ lapic_init \/ ioapic_init \/ ioapic_disable_irq \/ SetEntryLow
    \/ SetEntryHigh \/ EnablePort \/ ReadConfig \/ WriteConfig \/ StartTimer \/ sti
Execute(c) ==
    \/ ApLapicInit(c) \/ setup_idt_ap(c) \/ ApSti(c)
    \/ ReadStatus(c) \/ ReadData(c) \/ KeyboardEoi(c) \/ timer_interrupt(c)
    \/ default_handler(c) \/ interrupt_handler(c) \/ Iret(c)

Next ==
    \/ Boot \/ KeyPress
    \/ \E c \in Cpus : StartAp(c) \/ Execute(c) \/ Deliver(c) \/ Spurious(c) \/ TimerFires(c)

Spec == Init /\ [][Next]_vars

(* The processors execute, the timers are periodic, and a processor whose  *)
(* interrupt flag is set again and again takes what is pending.            *)
FairSpec ==
    /\ Spec
    /\ WF_vars(Boot)
    /\ \A c \in Cpus : WF_vars(Execute(c)) /\ WF_vars(TimerFires(c)) /\ SF_vars(Deliver(c))

-----------------------------------------------------------------------------
(* The types of what the boot code finds and of the interrupt hardware. *)
TypeOK ==
    /\ boot.i \in Nat /\ free \in 0 .. MaxPages
    /\ Len(acpi.cpus) <= MAX_CPUS /\ Len(acpi.ioapics) <= MAX_IOAPICS
    /\ \A i \in DOMAIN acpi.cpus : acpi.cpus[i].apic_id \in 0 .. 255
    /\ \A c \in Cpus : lapic[c].irr \cup lapic[c].isr \subseteq 0 .. 255
    /\ \A a \in DOMAIN rte : \A n \in DOMAIN rte[a] :
          rte[a][n] \in [vector : 0 .. 255, masked : 0 .. 1, dest : 0 .. 255]
    /\ \A c \in Cpus : cpu[c].intr \in 0 .. 1 /\ ticks[c] \in 0 .. 1
    /\ kbd.waiting \in 0 .. MaxKeys

(* Every register of a local or I/O APIC is mapped before setup_idt's      *)
(* calls touch it: the loops of main.c and ioapic.c, which read the MADT   *)
(* before and after it moves, and the override that replaces the local     *)
(* APIC's address, agree.  Only a kalloc that returned 0 can break this,   *)
(* for map_apic_region then goes on without a mapping; the fault finds a   *)
(* gate.  And no processor enables interrupts before it has loaded the     *)
(* table of gates.                                                         *)
NoFault ==
    /\ boot.pc = "fault" => oom /\ cpu[Bsp].pc \in {"exception", "loop"}
    /\ \A c \in Cpus : cpu[c].intr = 1 => cpu[c].idtr = 1 /\ idt[14] # "none"

(* parse_madt_entries finds the first MAX_CPUS processors of the table, in *)
(* its order, enabled or not, up to an entry that is cut off; the first,   *)
(* and no other, is taken for the boot processor.  No array overflows and  *)
(* every number fits its field.                                            *)
Parsed == boot.pc \notin {"rsdp", "panic", "rsdt", "rsdt_full", "find", "find_full", "parse"} /\ acpi.madt # NULL
CpusFound ==
    /\ TypeOK
    /\ Parsed =>
        LET all == fw.tables[fw.madt].entries
            whole == {i \in DOMAIN all : \A j \in 1 .. i : all[j].length = "whole"}
            good == {i \in whole : all[i].type \in {"lapic", "x2apic"}}
            rank(i) == Cardinality({j \in good : j <= i})
        IN /\ Len(acpi.cpus) = IF Cardinality(good) < MAX_CPUS THEN Cardinality(good) ELSE MAX_CPUS
           /\ \A i \in good : rank(i) <= MAX_CPUS =>
                 acpi.cpus[rank(i)] = [apic_id |-> all[i].id % 256, enabled |-> all[i].enabled,
                                       is_bsp |-> rank(i) = 1]

(* setup_idt once it has masked the I/O APICs, and what comes after it. *)
Routing == boot.pc \in {"low", "high", "ps2", "config", "write", "write_scancode", "timer",
                        "sti", "run"}

(* The MADT is read three times and moves in between.  The processors are  *)
(* found as CpusFound says; the I/O APICs ioapic_init lists, from the copy *)
(* of the table, are those init_madt listed from the original before its   *)
(* memory was cleared; an entry that is cut off is in neither or in the    *)
(* second only.                                                            *)
TablesFound ==
    CpusFound /\
    (Routing /\ ~oom =>
        /\ Len(acpi.ioapics) <= Len(ioapics)
        /\ \A i \in DOMAIN acpi.ioapics : ioapics[i].addr = acpi.ioapics[i])

(* "Mask all interrupts initially": from then on, whatever the firmware    *)
(* left, the only unmasked entry of the I/O APICs that ioapic_init listed  *)
(* (the first MAX_IOAPICS of the table: those beyond keep their entries)   *)
(* is that of the keyboard, with its vector; its destination is the boot   *)
(* processor from the write of the high word on, before setup_idt touches  *)
(* the keyboard or enables interrupts.                                     *)
OnlyKeyboardUnmasked ==
    Routing =>
        \A i \in DOMAIN ioapics : \A n \in DOMAIN rte[ioapics[i].addr] :
            LET e == rte[ioapics[i].addr][n] IN
            e.masked = 0 =>
                /\ ioapics[i].gsi_base + n = 1 /\ e.vector = APIC_KEYBOARD_VECTOR
                /\ boot.pc # "high" => e.dest = IF regs = 0 THEN 0 ELSE BspId

(* Every byte the keyboard controller holds is read, whenever it came:     *)
(* with the line still masked, between the two writes of its entry (when   *)
(* it goes to the wrong processor), while setup_idt configures the         *)
(* keyboard, before interrupts are enabled, while the handler drains the   *)
(* controller or just before its EOI, if an I/O APIC serves the line.  The *)
(* handler reads it, or setup_idt, which takes a scancode that has come by *)
(* then for the configuration byte.                                        *)
KeyboardServed == lapic[Bsp].on = 1 /\ ioapic_for_gsi(1) # 0
KeysAreRead == (kbd.waiting > 0 /\ KeyboardServed) ~> kbd.waiting = 0

(* The boot processor gets to its scheduler with interrupts enabled,       *)
(* unless the boot has ended in a panic, a fault or an overrun copy, or an *)
(* entry of the MADT has no length; and every processor that has enabled   *)
(* interrupts takes its timer interrupt again and again, whatever the      *)
(* keyboard and spurious interrupts do.                                    *)
TimerKeepsTicking ==
    /\ <>(\/ boot.pc \in {"run", "panic", "fault", "overrun"}
          \/ \E i \in DOMAIN MadtEntries : MadtEntries[i].length = "zero")
    /\ \A c \in Cpus :
         (cpu[c].intr = 1 /\ lapic[c].on = 1) ~> ([]<>(ticks[c] = 0) /\ []<>(ticks[c] = 1))
=============================================================================
