------------------------------- MODULE Console -------------------------------
(***************************************************************************)
(* Output: the virtual terminals of tty/tty.c on the VGA memory of         *)
(* vga/vga.c, the serial ports of serial/serial.c, printf on both, panic   *)
(* and the keyboard handler that switches terminals.                       *)
(*                                                                         *)
(* A call is unfolded into the elementary steps it takes (take a lock,     *)
(* store a character, copy the terminal to the screen, ...), and todo[p]   *)
(* holds the steps process p has left.  The processes are the code running *)
(* on each CPU and Irq, the keyboard handler on the boot processor: it     *)
(* starts only where interrupts are enabled, and the code it interrupted   *)
(* waits for it.  Every character carries the locked section it belongs to *)
(* (msg), so that the order of the output can be stated.                   *)
(*                                                                         *)
(* Machines[machine] says what the kernel is used for: the calls each CPU  *)
(* makes, the keys that are pressed and the serial ports that answer.      *)
(***************************************************************************)
EXTENDS Format

CONSTANTS
    Cpus, Bsp,          \* the processors, the boot processor
    Irq,                \* the keyboard handler
    VGA_HEIGHT, VGA_WIDTH,
    TERMINALS_NUMBER,
    Com,                \* standard_com_ports, in the order they are probed
    Machines            \* what the kernel is used for

Procs == Cpus \cup {Irq}
MAX_SERIAL_PORTS == Len(Com)
Ports == Range(Com)
Terminals == 0..(TERMINALS_NUMBER - 1)
AnyTty == Terminals \cup {NULL}     \* what active_tty may point to
Cells == 0..(VGA_HEIGHT * VGA_WIDTH - 1)
SerialLock == <<"serial_printf_1", "serial_printf_2", "serial_printf_3", "serial_printf_4">>
Locks == {"printf", "print"} \cup {SerialLock[i] : i \in 1..MAX_SERIAL_PORTS}

ASSUME ConsoleAssumption ==
    /\ Bsp \in Cpus /\ Irq \notin Cpus
    /\ VGA_HEIGHT \in Nat \ {0} /\ VGA_WIDTH \in Nat \ {0}
    /\ TERMINALS_NUMBER \in Nat \ {0} /\ MAX_SERIAL_PORTS \in 1..4

VARIABLES
    machine,
    todo,           \* todo[p]: the steps p has left
    call,           \* call[p]: the call p is in
    budget,         \* budget[p]: calls p still makes, keys still pressed
    cli,            \* cli[p]: the pushcli's of p not yet undone
    locked,         \* locked[l]: the process in the locked section, or NULL
    up,             \* interrupts are on and the other CPUs run
    tty,            \* tty_terminals, and the memory at address 0 read as one
    active,         \* active_tty
    vga,            \* the memory at VGA_ADDRESS
    initialized_ports,
    default_serial_port,
    thr,            \* thr[port]: the transmit holding register, or NULL
    text,           \* history: what was put on each terminal
    wire,           \* history: what each port sent
    cleared         \* history: terminals clear_current_tty was called on

vars == <<machine, todo, call, budget, cli, locked, up, tty, active, vga,
          initialized_ports, default_serial_port, thr, text, wire, cleared>>
screen == <<tty, active, vga, text, cleared>>
serial == <<initialized_ports, default_serial_port, thr, wire>>
sync == <<cli, locked, up>>

Use == Machines[machine]

(* Colours are fg + (bg << 4); zeroed memory is a blank cell. *)
make_char(value, fg, bg) == [character |-> value, color |-> fg + (bg * 16)]
Blank == make_char("", 0, 0)
WHITE == 15

(***************************************************************************)
(* The steps of each call.                                                 *)
(***************************************************************************)
Do(op) == <<[op |-> op]>>
Acquire(l) == <<[op |-> "pushcli"], [op |-> "xchg", lock |-> l]>>
Release(l) == <<[op |-> "unlock", lock |-> l], [op |-> "popcli"]>>
Each(s, Op(_)) == FlattenSeq([i \in 1..Len(s) |-> Op(s[i])])

putchar(k, c) == <<[op |-> "scroll"], [op |-> "store", ch |-> c, msg |-> k]>>
PutAndShow(k, c) == putchar(k, c) \o Do("write_buffer")

(* Mistake: the terminal is not copied to the screen. *)
printWithoutShow(k, s) == Acquire("print") \o Each(s, LAMBDA c : putchar(k, c)) \o Release("print")

print(k, s) ==
    Acquire("print") \o Each(s, LAMBDA c : putchar(k, c)) \o Do("write_buffer") \o Release("print")

(* Mistake: a conversion calls printf with printf's lock held. *)
DirectiveNested(k, d) ==
    IF d.conv = "lit" THEN PutAndShow(k, d.str[1])
    ELSE Acquire("printf") \o Each(Convert(d), LAMBDA c : PutAndShow(k, c)) \o Release("printf")

(* One directive of printf's format; conv is "lit" for an ordinary         *)
(* character, "%" for "%%" and "" for a '%' that ends the format.  A       *)
(* number longer than buf overwrites the stack of printf: what the CPU     *)
(* does from there on is not defined, and the model follows it no further. *)
Directive(k, d) ==
    CASE d.conv = "lit" -> PutAndShow(k, d.str[1])
      [] d.conv = "%"   -> PutAndShow(k, "%")
      [] d.conv \in Buffered -> IF Overruns(d) THEN Do("overrun") ELSE print(k, Convert(d))
      [] d.conv = "c"   -> Each(CharPadding(d, FALSE), LAMBDA c : PutAndShow(k, c))
                           \o print(k, d.str)
                           \o Each(CharPadding(d, TRUE), LAMBDA c : PutAndShow(k, c))
      [] d.conv = "n"   -> <<>>
      [] OTHER          -> PutAndShow(k, "%") \o (IF d.conv = "" THEN <<>> ELSE print(k, <<d.conv>>))

(* Mistake: the lock is forgotten. *)
printfUnlocked(k, format) == Each(format, LAMBDA d : Directive(k, d))

printf(k, format) ==
    Acquire("printf") \o Each(format, LAMBDA d : Directive(k, d)) \o Release("printf")

Plain == [flags |-> {}, width |-> -1, precision |-> -1, star |-> FALSE, length |-> "",
          conv |-> "", arg |-> 0, str |-> <<>>]
Lit(c) == [Plain EXCEPT !.conv = "lit", !.str = <<c>>]
Number(conv, n) == [Plain EXCEPT !.conv = conv, !.arg = n]
Text(str) == [Plain EXCEPT !.conv = "s", !.str = str]

set_tty(k, terminal) ==
    IF TERMINALS_NUMBER <= terminal THEN <<>>
    ELSE Do("clear_vga")
         \o <<[op |-> "activate", tty |-> terminal]>>
         \o printf(k, <<Lit("T"), Number("d", terminal), Lit("\n")>>)
         \o Do("write_buffer")

clear_current_tty == Do("clear_buffer") \o Do("clear_vga")

init_tty ==
    Do("memset") \o set_tty(1, 0)
    \o <<[op |-> "init_spinlock", lock |-> "printf"], [op |-> "init_spinlock", lock |-> "print"]>>
    \o printf(2, <<Lit("\n")>>)

(***************************************************************************)
(* Serial ports.  The index of a port is its first place in the registry.  *)
(***************************************************************************)
get_port_index(ports, port) == SelectInSeq(ports, LAMBDA e : e = port)

serial_putchar(k, port, c) == <<[op |-> "outb", port |-> port, ch |-> c, msg |-> k]>>
serial_write(k, port, s) == Each(s, LAMBDA c : serial_putchar(k, port, c))

SerialDirective(k, port, d) ==
    CASE d.conv = "lit" -> serial_putchar(k, port, d.str[1])
      [] d.conv = "%"   -> serial_putchar(k, port, "%")
      [] d.conv \in Buffered -> IF Overruns(d) THEN Do("overrun")
                                ELSE serial_write(k, port, Convert(d))
      [] d.conv = "c"   -> serial_write(k, port, CharPadding(d, FALSE) \o d.str \o CharPadding(d, TRUE))
      [] d.conv = "n"   -> <<>>
      [] OTHER          -> serial_write(k, port, IF d.conv = "" THEN <<"%">> ELSE <<"%", d.conv>>)

serial_printf(k, ports, port, format) ==
    LET index == get_port_index(ports, port)
    IN  IF index = 0 THEN <<>>
        ELSE Acquire(SerialLock[index])
             \o Each(format, LAMBDA d : SerialDirective(k, port, d))
             \o Release(SerialLock[index])

LOG_SERIAL(k, format) == serial_printf(k, initialized_ports, default_serial_port, format)

init_serial_ports ==
    Each(Com, LAMBDA port : <<[op |-> "probe", port |-> port]>>) \o Do("pick_default")

(* Both messages and the two lines on the serial port, then a loop. *)
panic(message) ==
    print(1, message) \o print(2, <<"!">>)
    \o LOG_SERIAL(3, <<Text(message)>>)
    \o LOG_SERIAL(4, <<Lit("!")>>) \o Do("halt")

(* One scancode: 1 .. TERMINALS_NUMBER for F1, F2, ..., larger for others. *)
Scancode(res) ==
    LOG_SERIAL(1, <<Number("x", res)>>)
    \o (IF res \in 1..TERMINALS_NUMBER THEN set_tty(2, res - 1)
        ELSE printf(2, <<Number("x", res), Lit(" ")>>))
    \o Do("status")

(* kernel_main up to the point where interrupts are enabled.  It logs      *)
(* before init_tty, when active_tty is still a null pointer; one line      *)
(* stands for each group of LOGs.                                          *)
Boot ==
    init_serial_ports \o Do("LOG_SERIAL") \o printf(5, <<Lit("K"), Lit("\n")>>)
    \o init_tty
    \o Each([i \in 1..TERMINALS_NUMBER |-> i - 1], LAMBDA i : set_tty(3, i))
    \o set_tty(4, 0) \o Do("LOG_SERIAL") \o Do("sti")

Steps(x) ==
    CASE x.fn = "printf" -> printf(1, x.format)
      [] x.fn = "print" -> print(1, x.str)
      [] x.fn = "serial_printf" -> LOG_SERIAL(1, x.format)
      [] x.fn = "set_tty" -> set_tty(1, x.arg)
      [] x.fn = "clear_current_tty" -> clear_current_tty
      [] x.fn \in {"set_fg", "set_bg"} -> <<[op |-> x.fn, color |-> x.arg]>>
      [] x.fn = "panic" -> panic(x.str)

(***************************************************************************)
(* The effect of one step.  Next(p) drops it from todo[p].                 *)
(***************************************************************************)
At(p, op) == todo[p] # <<>> /\ Head(todo[p]).op = op
Arg(p) == Head(todo[p])
Then(p, steps) == todo' = [todo EXCEPT ![p] = steps \o Tail(@)]
Done(p) == Then(p, <<>>)
Me(p) == <<p, budget[p]>>

pushcli(p) ==
    /\ At(p, "pushcli")
    /\ cli' = [cli EXCEPT ![p] = @ + 1]
    /\ Done(p) /\ UNCHANGED <<locked, up, screen, serial>>

popcli(p) ==
    /\ At(p, "popcli")
    /\ cli' = [cli EXCEPT ![p] = @ - 1]
    /\ Done(p) /\ UNCHANGED <<locked, up, screen, serial>>

(* The exchange that finds the lock free; one that does not is repeated. *)
acquire_spinlock(p) ==
    /\ At(p, "xchg") /\ locked[Arg(p).lock] = NULL
    /\ locked' = [locked EXCEPT ![Arg(p).lock] = p]
    /\ Done(p) /\ UNCHANGED <<cli, up, screen, serial>>

release_spinlock(p) ==
    /\ At(p, "unlock") \/ At(p, "init_spinlock")
    /\ locked' = [locked EXCEPT ![Arg(p).lock] = NULL]
    /\ Done(p) /\ UNCHANGED <<cli, up, screen, serial>>

(* memset of VGA_HEIGHT * VGA_WIDTH bytes: half of the two-byte cells. *)
HalfCleared(cells) == [i \in Cells |-> IF 2 * i < VGA_HEIGHT * VGA_WIDTH THEN Blank ELSE cells[i]]

clear_vga(p) ==
    /\ At(p, "clear_vga")
    /\ vga' = HalfCleared(vga)
    /\ Done(p) /\ UNCHANGED <<tty, active, text, cleared, serial, sync>>

(* The buffer is that of the terminal active at the call; the cells are    *)
(* then copied one by one, with whatever is in them by that time.          *)
write_buffer(p) ==
    /\ At(p, "write_buffer")
    /\ Then(p, <<[op |-> "copy", tty |-> active, cell |-> 0]>>)
    /\ UNCHANGED <<screen, serial, sync>>

(* Mistake: the loop stops one cell early. *)
CopyCellShort(p) ==
    /\ At(p, "copy")
    /\ LET cell == Arg(p).cell
       IN  /\ vga' = [vga EXCEPT ![cell] = tty[Arg(p).tty].tty_buffer[cell]]
           /\ Then(p, IF cell + 2 \in Cells THEN <<[Arg(p) EXCEPT !.cell = cell + 1]>> ELSE <<>>)
    /\ UNCHANGED <<tty, active, text, cleared, serial, sync>>

CopyCell(p) ==
    /\ At(p, "copy")
    /\ LET cell == Arg(p).cell
       IN  /\ vga' = [vga EXCEPT ![cell] = tty[Arg(p).tty].tty_buffer[cell]]
           /\ Then(p, IF cell + 1 \in Cells THEN <<[Arg(p) EXCEPT !.cell = cell + 1]>> ELSE <<>>)
    /\ UNCHANGED <<tty, active, text, cleared, serial, sync>>

memset(p) ==
    /\ At(p, "memset")
    /\ tty' = [t \in AnyTty |-> IF t = NULL THEN tty[t] ELSE
                 [tty_buffer |-> [i \in Cells |-> Blank], line |-> 0, pos |-> 0, fg |-> 0, bg |-> WHITE]]
    /\ Done(p) /\ UNCHANGED <<active, vga, text, cleared, serial, sync>>

Activate(p) ==
    /\ At(p, "activate")
    /\ active' = Arg(p).tty
    /\ Done(p) /\ UNCHANGED <<tty, vga, text, cleared, serial, sync>>

ClearBuffer(p) ==
    /\ At(p, "clear_buffer")
    /\ tty' = [tty EXCEPT ![active] = [@ EXCEPT !.tty_buffer = HalfCleared(@), !.line = 0, !.pos = 0]]
    /\ cleared' = cleared \cup {active}
    /\ Done(p) /\ UNCHANGED <<active, vga, text, serial, sync>>

set_fg(p) ==
    /\ At(p, "set_fg")
    /\ tty' = [tty EXCEPT ![active].fg = Arg(p).color]
    /\ Done(p) /\ UNCHANGED <<active, vga, text, cleared, serial, sync>>

set_bg(p) ==
    /\ At(p, "set_bg")
    /\ tty' = [tty EXCEPT ![active].bg = Arg(p).color]
    /\ Done(p) /\ UNCHANGED <<active, vga, text, cleared, serial, sync>>

(* Mistake: the last line is not blanked. *)
ScrolledNoBlank(t) ==
    [t EXCEPT !.tty_buffer = [i \in Cells |-> IF i + VGA_WIDTH \in Cells THEN @[i + VGA_WIDTH] ELSE @[i]],
              !.line = VGA_HEIGHT - 1, !.pos = 0]

Scrolled(t) ==
    [t EXCEPT !.tty_buffer = [i \in Cells |-> IF i + VGA_WIDTH \in Cells THEN @[i + VGA_WIDTH] ELSE Blank],
              !.line = VGA_HEIGHT - 1, !.pos = 0]

(* putchar's first line, and the rest of it. *)
scroll(p) ==
    /\ At(p, "scroll")
    /\ tty' = IF tty[active].line >= VGA_HEIGHT THEN [tty EXCEPT ![active] = Scrolled(@)] ELSE tty
    /\ Done(p) /\ UNCHANGED <<active, vga, text, cleared, serial, sync>>

(* A store past the buffer lands in the terminal's other fields; the       *)
(* model ignores it: TerminalShowsItsText has the cursor stay inside.      *)
Stored(t, c) ==
    IF c = "\n" THEN [t EXCEPT !.line = @ + 1, !.pos = 0]
    ELSE LET at == (t.line * VGA_WIDTH) + t.pos
         IN  [t EXCEPT !.tty_buffer = [i \in Cells |-> IF i = at THEN make_char(c, t.fg, t.bg) ELSE @[i]],
                       !.line = @ + ((t.pos + 1) \div VGA_WIDTH),
                       !.pos = (@ + 1) % VGA_WIDTH]

StoreChar(p) ==
    /\ At(p, "store")
    /\ tty' = [tty EXCEPT ![active] = Stored(@, Arg(p).ch)]
    /\ text' = [text EXCEPT ![active] =
                  Append(@, [cell |-> make_char(Arg(p).ch, tty[active].fg, tty[active].bg),
                             msg |-> Append(Me(p), Arg(p).msg)])]
    /\ Done(p) /\ UNCHANGED <<active, vga, cleared, serial, sync>>

(* init_serial: a port that does not echo in loopback mode, or that finds  *)
(* the registry full, is left out; the others get a fresh lock and log.    *)
init_serial(p) ==
    /\ At(p, "probe")
    /\ LET port == Arg(p).port
           known == get_port_index(initialized_ports, port) # 0
           ports == IF known THEN initialized_ports ELSE Append(initialized_ports, port)
           lock == SerialLock[get_port_index(ports, port)]
       IN  IF port \in Use.good /\ (known \/ Len(initialized_ports) < MAX_SERIAL_PORTS)
           THEN /\ initialized_ports' = ports
                /\ Then(p, <<[op |-> "init_spinlock", lock |-> lock]>>
                           \o serial_printf(0, ports, port, <<Lit("S")>>)
                           \o <<[op |-> "probed", port |-> port]>>)
           ELSE Done(p) /\ UNCHANGED initialized_ports
    /\ UNCHANGED <<default_serial_port, thr, wire, screen, sync>>

(* The end of init_serial, and detect_serial_ports entering the port. *)
detect_serial_ports(p) ==
    /\ At(p, "probed")
    /\ default_serial_port' = IF Len(initialized_ports) = 1 THEN Arg(p).port ELSE default_serial_port
    /\ initialized_ports' = Append(initialized_ports, Arg(p).port)
    /\ Done(p) /\ UNCHANGED <<thr, wire, screen, sync>>

(* Mistake: the last port probed, not the last registered. *)
SetLastComDefault(p) ==
    /\ At(p, "pick_default")
    /\ default_serial_port' = Last(Com)
    /\ Done(p) /\ UNCHANGED <<initialized_ports, thr, wire, screen, sync>>

set_default_serial_port(p) ==
    /\ At(p, "pick_default")
    /\ default_serial_port' = IF initialized_ports = <<>> THEN default_serial_port
                              ELSE Last(initialized_ports)
    /\ Done(p) /\ UNCHANGED <<initialized_ports, thr, wire, screen, sync>>

LogSerial(p) ==
    /\ At(p, "LOG_SERIAL")
    /\ Then(p, LOG_SERIAL(6, <<Lit("B")>>))
    /\ UNCHANGED <<screen, serial, sync>>

(* serial_putchar waits until the holding register is empty. *)
Transmit(p) ==
    /\ At(p, "outb") /\ thr[Arg(p).port] = NULL
    /\ thr' = [thr EXCEPT ![Arg(p).port] = [ch |-> Arg(p).ch, msg |-> Append(Me(p), Arg(p).msg)]]
    /\ Done(p) /\ UNCHANGED <<initialized_ports, default_serial_port, wire, screen, sync>>

sti(p) ==
    /\ At(p, "sti")
    /\ up' = TRUE
    /\ Done(p) /\ UNCHANGED <<cli, locked, screen, serial>>

(* Code interrupted by the handler waits for it; panic's loop and what     *)
(* follows an overrun take no step.                                        *)
Step(p) ==
    /\ p = Bsp => todo[Irq] = <<>>
    /\ \/ pushcli(p) \/ popcli(p) \/ acquire_spinlock(p) \/ release_spinlock(p)
       \/ clear_vga(p) \/ write_buffer(p) \/ CopyCell(p) \/ memset(p) \/ Activate(p) \/ ClearBuffer(p)
       \/ set_fg(p) \/ set_bg(p) \/ scroll(p) \/ StoreChar(p)
       \/ init_serial(p) \/ detect_serial_ports(p) \/ set_default_serial_port(p)
       \/ LogSerial(p) \/ Transmit(p) \/ sti(p)
    /\ UNCHANGED <<machine, call, budget>>

Call(c) ==
    /\ up /\ todo[c] = <<>> /\ budget[c] > 0
    /\ c = Bsp => todo[Irq] = <<>>
    /\ \E x \in Use.calls[c] :
         /\ call' = [call EXCEPT ![c] = x]
         /\ todo' = [todo EXCEPT ![c] = Steps(x)]
    /\ budget' = [budget EXCEPT ![c] = @ - 1]
    /\ UNCHANGED <<machine, screen, serial, sync>>

(* keyboard_handler: entered with a key waiting, and looking again after   *)
(* each scancode whether another one is there.                             *)
KeyPressed ==
    /\ budget[Irq] > 0
    /\ \E res \in Use.scancodes : todo' = [todo EXCEPT ![Irq] = Scancode(res)]
    /\ budget' = [budget EXCEPT ![Irq] = @ - 1]
    /\ UNCHANGED <<machine, call, screen, serial, sync>>

KeyboardInterrupt ==
    /\ up /\ todo[Irq] = <<>> /\ cli[Bsp] = 0
    /\ KeyPressed

AnotherKey == At(Irq, "status") /\ KeyPressed

NoMoreKeys ==
    /\ At(Irq, "status")
    /\ Then(Irq, print(5, <<"\n">>))
    /\ UNCHANGED <<machine, call, budget, screen, serial, sync>>

(* The UART sends the byte it holds. *)
Drain(port) ==
    /\ thr[port] # NULL
    /\ wire' = [wire EXCEPT ![port] = Append(@, thr[port])]
    /\ thr' = [thr EXCEPT ![port] = NULL]
    /\ UNCHANGED <<machine, todo, call, budget, screen, initialized_ports, default_serial_port, sync>>

Rubbish == make_char("?", 7, 0)
Idle == [fn |-> "none"]

Init ==
    /\ machine \in DOMAIN Machines
    /\ todo = [p \in Procs |-> IF p = Bsp THEN Boot ELSE <<>>]
    /\ call = [c \in Cpus |-> Idle]
    /\ budget = Use.budget
    /\ cli = [p \in Procs |-> 0]
    /\ locked = [l \in Locks |-> NULL]
    /\ up = FALSE
    /\ tty = [t \in AnyTty |-> [tty_buffer |-> [i \in Cells |-> Rubbish], line |-> 0, pos |-> 0,
                                fg |-> 0, bg |-> 0]]
    /\ active = NULL
    /\ vga = [i \in Cells |-> Rubbish]
    /\ initialized_ports = <<>> /\ default_serial_port = Com[1]
    /\ thr = [port \in Ports |-> NULL]
    /\ text = [t \in AnyTty |-> <<>>] /\ wire = [port \in Ports |-> <<>>]
    /\ cleared = {}

Next ==
    \/ \E p \in Procs : Step(p)
    \/ \E c \in Cpus : Call(c)
    \/ KeyboardInterrupt \/ AnotherKey \/ NoMoreKeys
    \/ \E port \in Ports : Drain(port)

(* CPUs make progress, a spinning one because nobody keeps the lock for    *)
(* ever; the handler goes on; a UART sends what it was given.              *)
Fairness ==
    /\ \A p \in Procs : WF_vars(Step(p))
    /\ WF_vars(NoMoreKeys)
    /\ \A port \in Ports : WF_vars(Drain(port))

Spec == Init /\ [][Next]_vars /\ Fairness

-----------------------------------------------------------------------------
(* Types; in particular the registry never holds more than                 *)
(* MAX_SERIAL_PORTS entries although every port is entered twice, and a    *)
(* cursor is at most one line below its terminal.                          *)
TypeOK ==
    /\ active \in AnyTty
    /\ \A t \in AnyTty : tty[t].line \in 0..VGA_HEIGHT /\ tty[t].pos \in 0..(VGA_WIDTH - 1)
    /\ Len(initialized_ports) <= MAX_SERIAL_PORTS /\ Range(initialized_ports) \subseteq Ports
    /\ \A l \in Locks : locked[l] \in Procs \cup {NULL}
    /\ \A p \in Procs : cli[p] \in 0..2

Resting(p) == todo[p] = <<>> \/ At(p, "halt") \/ At(p, "overrun")

(* clear_vga and clear_current_tty clear half of what they should, set_tty *)
(* copies the new terminal after logging into it and without a lock, and   *)
(* write_buffer goes cell by cell through the buffer it was called with;   *)
(* still, whenever no call is under way the screen shows exactly the       *)
(* active terminal.  This is as the kernel calls them: set_tty before      *)
(* interrupts are on and from the keyboard handler (with them on, a key in *)
(* the middle of its copy would leave a mixed screen), and the terminals   *)
(* printed on by one CPU at a time.                                        *)
ScreenShowsActive == (\A p \in Procs : Resting(p)) => vga = tty[active].tty_buffer

(* The rows a text fills: a row ends at a newline or when it is full. *)
Rows(t) ==
    LET put(r, e) ==
          IF e.cell.character = "\n" THEN [done |-> Append(r.done, r.row), row |-> <<>>]
          ELSE IF Len(r.row) + 1 = VGA_WIDTH
               THEN [done |-> Append(r.done, Append(r.row, e.cell)), row |-> <<>>]
               ELSE [r EXCEPT !.row = Append(@, e.cell)]
        r == FoldLeft(put, [done |-> <<>>, row |-> <<>>], t)
    IN  IF r.row = <<>> THEN r.done ELSE Append(r.done, r.row)

Layout(t) ==
    LET rows == Rows(t)
        top == Larger(Len(rows) - VGA_HEIGHT, 0)
    IN  [i \in Cells |->
           LET y == top + (i \div VGA_WIDTH) + 1
               x == (i % VGA_WIDTH) + 1
           IN  IF y <= Len(rows) /\ x <= Len(rows[y]) THEN rows[y][x] ELSE Blank]

(* scroll, the deferred line break and the wrap at the right edge together *)
(* show the last VGA_HEIGHT rows of all that was ever put on the terminal, *)
(* each character in the colours of its time.  Terminals cleared by        *)
(* clear_current_tty, which keeps their lower half, are excepted.  And     *)
(* putchar, which scrolls before it stores, never stores below the last    *)
(* line, where tty_structure keeps the cursor itself.                      *)
TerminalShowsItsText ==
    /\ \A p \in Procs : At(p, "store") /\ Arg(p).ch # "\n" => tty[active].line < VGA_HEIGHT
    /\ (active # NULL /\ \A p \in Procs : ~At(p, "store")) =>
        \A t \in Terminals \ cleared : tty[t].tty_buffer = Layout(text[t])

Contiguous(s) ==
    \A i, j \in 1..Len(s) :
        (i < j /\ s[i].msg = s[j].msg) => \A m \in i..j : s[m].msg = s[i].msg

(* The ports that echoed, in the order they are probed. *)
Detected == SelectSeq(Com, LAMBDA port : port \in Use.good)

(* What one printf or print puts on a terminal is not broken up by another *)
(* call of the same one on another CPU or by the keyboard handler, nor     *)
(* what one serial_printf sends to a port by any other.  (A print on one   *)
(* CPU during a printf on another is not excluded: the two take different  *)
(* locks, and the run of TerminalShowsItsText with both shows more than    *)
(* mixed text.)  After init_serial_ports the registry, in which every port *)
(* is entered twice, holds as many of the detected ports as fit that way   *)
(* and has not overflowed; the default is the last of those, which is the  *)
(* "last available" of serial.h only when it is among them, and nothing    *)
(* was ever sent to a port that did not echo.                              *)
MessagesArrive ==
    /\ TypeOK
    /\ \A t \in Terminals : Contiguous(text[t])
    /\ \A port \in Ports : Contiguous(wire[port])
    /\ up /\ Detected # <<>> =>
         LET n == IF 2 * Len(Detected) <= MAX_SERIAL_PORTS THEN Len(Detected)
                  ELSE MAX_SERIAL_PORTS \div 2
         IN  /\ Range(initialized_ports) = {Detected[i] : i \in 1..n}
             /\ default_serial_port = Detected[n]
    /\ \A port \in Ports \ Use.good : thr[port] = NULL /\ wire[port] = <<>>

(* Every number and string printf was asked for reads back as its argument *)
(* reduced to the type the length modifier names, in a field of the        *)
(* requested shape (flags, width, precision).  A string stays within the   *)
(* buffer whatever width is asked for.  A number does if its width and its *)
(* precision leave room: format_unsigned and format_signed are not told    *)
(* the size ("must be large enough"), and printf passes any width on.      *)
FieldsReadBack ==
    \A c \in Cpus : call[c].fn \in {"printf", "serial_printf"} =>
        \A i \in 1..Len(call[c].format) :
            LET d == call[c].format[i]
            IN  /\ d.conv \in Buffered \ {"s"} =>
                     /\ IsField(Convert(d), d)
                     /\ Overruns(d) => Wanted(d).width >= BUFSZ \/ d.precision >= BUFSZ - 2
                /\ d.conv = "s" => IsStringField(Convert(d), d)

(* No output waits for ever: a call or handler that started returns, is a  *)
(* panic that reached its loop or overruns its buffer, whatever locks the  *)
(* others take.                                                            *)
CallsReturn == \A p \in Procs : (todo[p] # <<>>) ~> Resting(p)
=============================================================================
