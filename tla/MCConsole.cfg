SPECIFICATION Spec
CONSTANTS
    NULL = NULL
    Bsp = bsp
    Ap = ap
    Irq = irq
    Cpus = {bsp, ap}
    Bits <- McBits
    BUFSZ = 8
    VGA_HEIGHT = 2
    VGA_WIDTH = 3
    TERMINALS_NUMBER = 2
    Com <- McCom
    Machines <- McMachines
INVARIANTS
    ScreenShowsActive
    TerminalShowsItsText
    MessagesArrive
    FieldsReadBack
PROPERTY
    CallsReturn
CHECK_DEADLOCK FALSE
