------------------------------ MODULE MCConsole ------------------------------
(* Console for TLC.  The uses of the kernel: as it is today (terminals on  *)
(* the boot processor with the keyboard, serial output everywhere), two    *)
(* CPUs in printf as print_num would be, keys arriving together, clearing, *)
(* one conversion of each kind on either device, and the detection of      *)
(* every combination of ports.                                             *)
EXTENDS Console, TLC

CONSTANT Ap

McBits == [hh |-> 2, h |-> 3, int |-> 4, l |-> 5]
McCom == <<"COM1", "COM2", "COM3", "COM4">>

Case(calls_bsp, n_bsp, calls_ap, n_ap, keys, good) ==
    [calls |-> Bsp :> calls_bsp @@ Ap :> calls_ap,
     budget |-> Bsp :> n_bsp @@ Ap :> n_ap @@ Irq :> keys,
     scancodes |-> {2, 9}, good |-> good]
Fn(fn, arg) == [fn |-> fn, arg |-> arg, format |-> <<>>, str |-> <<>>]
Formatted(fn, format) == [Fn(fn, 0) EXCEPT !.format = format]
Str(fn, str) == [Fn(fn, 0) EXCEPT !.str = str]

BootCalls ==
    {Formatted("printf", <<Number("d", 5), Lit("a")>>), Str("print", <<"b", "\n", "c">>),
     Fn("set_fg", 1), Fn("set_bg", 2), Str("panic", <<"p">>)}
Today == Case(BootCalls, 2, {}, 0, 1, {"COM1"})
WithAp == Case(BootCalls, 1, {Formatted("serial_printf", <<Lit("u")>>)}, 1, 1, {"COM1"})

TypingFast == Case({Formatted("printf", <<Lit("a")>>)}, 1, {}, 0, 2, {})

(* clear_current_tty has no caller yet, and set_tty none with interrupts   *)
(* on; they take no lock, and an interrupt in the middle would leave the   *)
(* screen behind the terminal.                                             *)
Clearing ==
    Case({Fn("clear_current_tty", 0), Formatted("printf", <<Lit("a"), Lit("\n")>>),
          Fn("set_tty", 1), Fn("set_tty", 2)}, 3, {}, 0, 0, {})

TwoPrinters ==
    LET f == Formatted("printf", <<Lit("a"), Number("d", 5), Lit("\n")>>)
        g == Formatted("serial_printf", <<Lit("u"), Number("x", 7)>>)
    IN  Case({f, g}, 2, {f, g}, 1, 0, {"COM2"})

D(flags, width, precision, star, length, conv, arg) ==
    [flags |-> flags, width |-> width, precision |-> precision, star |-> star,
     length |-> length, conv |-> conv, arg |-> arg, str |-> <<>>]

Directives ==
    {D(f, w[1], p, w[2], "", c, a) :
        f \in {{}, {"zero"}, {"left", "zero"}, {"hash"}, {"hash", "zero"}, {"plus"}, {"space", "zero"}},
        w \in {<<-1, FALSE>>, <<5, FALSE>>, <<-4, TRUE>>}, p \in {-1, 0, 3},
        c \in {"d", "u", "x", "X", "o", "b", "p"}, a \in {0, 27}}
    \cup {D(f, w[1], w[2], w[3], "", c, 27) :
        f \in {{}, {"left"}, {"hash", "zero"}},
        w \in {<<7, -1, FALSE>>, <<8, -1, FALSE>>, <<-9, -1, TRUE>>, <<-1, 5, FALSE>>,
               <<-1, 7, FALSE>>, <<-1, 8, FALSE>>},
        c \in {"d", "x"}}
    \cup {D({}, -1, -1, FALSE, n, c, a) : n \in {"hh", "h", "l", "ll", "z"}, c \in {"i", "x"},
                                          a \in {0, 3, 6, 16, 31}}
    \cup {[D(f, w, p, FALSE, "", "s", 0) EXCEPT !.str = a] : f \in {{}, {"left"}}, w \in {-1, 3, 9}, p \in {-1, 0, 1},
                                          a \in {NULL, <<>>, <<"r", "s">>}}
    \cup {[D(f, w, -1, FALSE, "", "c", 0) EXCEPT !.str = <<"z">>] : f \in {{}, {"left"}}, w \in {-1, 1, 3}}
    \cup {D({}, -1, -1, FALSE, "", c, 0) : c \in {"n", "%", "q", ""}}

Conversions == Case({Formatted("serial_printf", <<d>>) : d \in Directives}, 1, {}, 0, 0, {"COM1"})
OnScreen == Case({Formatted("printf", <<d>>) : d \in {e \in Directives : e.conv \notin {"u", "x", "X", "o", "b", "p"}}},
                1, {}, 0, 0, {})

Probing == [good \in SUBSET Ports |-> Case({}, 0, {}, 0, 0, good)]

McMachines ==
    {"today"} :> Today @@ {"ap"} :> WithAp @@ {"typing"} :> TypingFast
    @@ {"two"} :> TwoPrinters @@ {"clear"} :> Clearing
    @@ {"conversions"} :> Conversions @@ {"screen"} :> OnScreen @@ Probing

(* A thread on the boot processor in printf while another CPU prints, as   *)
(* default_handler and panic do on any of them.                            *)
PrintMeetsPrintf ==
    Case({Formatted("printf", <<Lit("a"), Lit("\n")>>)}, 1, {Str("print", <<"u", "\n">>)}, 1, 0, {})
LockMachines == {"locks"} :> PrintMeetsPrintf
=============================================================================
