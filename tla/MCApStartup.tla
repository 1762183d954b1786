---------------------------- MODULE MCApStartup -----------------------------
(* Start-up of small machines for TLC. *)
EXTENDS ApStartup

Cpu(id, on) == [apic_id |-> id, enabled |-> on]

(* Four processors: the boot CPU is not the first and one is disabled. *)
Machine == <<Cpu(2, TRUE), Cpu(1, TRUE), Cpu(3, FALSE), Cpu(4, TRUE)>>

(* Three processors, the boot CPU first. *)
SmallMachine == <<Cpu(1, TRUE), Cpu(2, TRUE), Cpu(3, TRUE)>>
=============================================================================
