---------------------------- MODULE MCInterrupts ----------------------------
(* Interrupts for TLC: machines whose tables differ in what the boot code  *)
(* looks at.  Addresses from PGSIZE on are tables and registers.           *)
EXTENDS Interrupts, TLC

Rsdp(sig, sum, revision, xsum) ==
    [sig |-> sig, sum |-> sum, revision |-> revision, xsum |-> xsum, rsdt |-> 20, xsdt |-> 21]
Entry(type, id, enabled, addr, gsi, last, length) ==
    [type |-> type, id |-> id, enabled |-> enabled, addr |-> addr, gsi |-> gsi,
     last |-> last, length |-> length]
Cpu(id, enabled) == Entry("lapic", id, enabled, 0, 0, 0, "whole")
Io(addr, gsi, last) == Entry("ioapic", 0, TRUE, addr, gsi, last, "whole")

(* Three processors for two places, and two I/O APICs. *)
TwoIoapics ==
    <<Cpu(1, TRUE), Cpu(0, TRUE), Io(40, 0, 2),
      Entry("x2apic", 258, TRUE, 0, 0, 0, "whole"), Entry("iso", 0, TRUE, 0, 2, 0, "whole"),
      Io(41, 3, 1), Entry("lapic_override", 0, TRUE, 31, 0, 0, "whole")>>
(* A disabled processor, the keyboard's line on the second I/O APIC, one   *)
(* too many, an entry cut off.                                             *)
SplitIoapics ==
    <<Entry("x2apic", 257, TRUE, 0, 0, 0, "whole"), Cpu(0, FALSE), Io(40, 0, 0), Io(41, 1, 1), Io(42, 3, 0),
      Entry("lapic", 7, TRUE, 0, 0, 0, "past_end")>>

(* An entry without a length between an I/O APIC and a processor. *)
NoLength == <<Cpu(1, TRUE), Io(40, 0, 1), Entry("iso", 0, TRUE, 0, 2, 0, "zero"), Cpu(0, TRUE)>>

Machine(ebda, bios, root, pointers, madt, entries) ==
    [ebda |-> ebda, bios |-> bios, madt |-> 23,
     tables |-> 20 :> [sig |-> "RSDT", sum |-> root.sum, pages |-> root.pages, pointers |-> pointers]
             @@ 21 :> [sig |-> "XSDT", sum |-> root.sum, pages |-> root.pages, pointers |-> pointers]
             @@ 22 :> [sig |-> "FACP", sum |-> TRUE, pages |-> 1]
             @@ 23 :> [sig |-> "APIC", sum |-> madt.sum, pages |-> madt.pages,
                       lapic |-> 30, entries |-> entries]]

Old == Rsdp("RSD PTR ", TRUE, 0, FALSE)
New == Rsdp("RSD PTR ", TRUE, 2, TRUE)
Bad == <<Rsdp("RSD PTR ", FALSE, 0, TRUE), Rsdp("RSD PTR ", TRUE, 2, FALSE)>>

(* Root table and MADT: the checksum, and the length in pages. *)
Good == [sum |-> TRUE, pages |-> 1]
BadSum == [sum |-> FALSE, pages |-> 1]
Long == [sum |-> TRUE, pages |-> 2]

Machines ==
    {Machine(<<>>, Bad \o <<New>>, Good, <<3, 22, 23>>, Good, TwoIoapics),
     Machine(<<Old>>, <<New>>, Good, <<23, 22>>, Good, SplitIoapics),
     Machine(<<>>, <<Old>>, Good, <<23>>, BadSum, TwoIoapics),
     Machine(<<>>, <<Old>>, BadSum, <<23>>, Good, TwoIoapics),
     Machine(<<>>, <<New>>, Long, <<22, 23>>, Long, TwoIoapics),
     Machine(<<>>, <<Old>>, Good, <<23>>, Good, NoLength),
     Machine(<<>>, <<Old>>, Good, <<22>>, Good, TwoIoapics),
     Machine(Bad, Bad, Good, <<23>>, Good, TwoIoapics)}
=============================================================================
