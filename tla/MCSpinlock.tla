----------------------------- MODULE MCSpinlock -----------------------------
(* The kernel's locks for TLC: sched_add_thread logs to the serial port    *)
(* under sched_lock, and printf calls print under printf_spinlock.         *)
EXTENDS Spinlock

CONSTANTS sched_lock, serial_lock, printf_lock, print_lock

KernelNesting == {<<sched_lock, serial_lock>>, <<printf_lock, print_lock>>}
=============================================================================
