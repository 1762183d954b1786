-------------------------------- MODULE Acpi --------------------------------
(***************************************************************************)
(* How the kernel finds its processors and interrupt controllers at boot   *)
(* (desc/rsdp.c, desc/rsdt.c, desc/madt.c and init_acpi_and_map_apic in    *)
(* main.c): the scan for the RSDP, the root table, the MADT, the loop over *)
(* its entries, the mapping of the controllers' registers, and the copies  *)
(* made before kinit clears the memory the firmware's tables are in.       *)
(*                                                                         *)
(* A table is a record with the fields the code looks at: its length in    *)
(* pages, whether its checksum is good, its entries.  An entry of the MADT *)
(* has a length that is right ("whole"), runs past the end of the table,   *)
(* or is zero.                                                             *)
(***************************************************************************)
EXTENDS Integers, Sequences, FiniteSets

CONSTANTS
    Firmware,   \* the machines considered: what their tables say
    MAX_CPUS,   \* sizes of the arrays of madt.c and ioapic.c
    MAX_IOAPICS,
    PGSIZE,
    NULL,       \* the null pointer
    Copy,       \* a table's copy in a page of the lower pool
    MaxPages    \* pages in the pool, at most

VARIABLES
    fw,         \* the machine's tables (never changes)
    boot,       \* where kernel_main is, and the index of the loop it is in
    acpi,       \* the static variables of rsdp.c, rsdt.c and madt.c
    mapped,     \* the pages the page tables map: <<address of the region, number>>
    free,       \* pages kalloc can still hand out
    oom,        \* whether kalloc has ever returned 0 (history)
    cleared     \* whether kinit has cleared the memory the tables came in

acpiVars == <<fw, boot, acpi, mapped, free, oom, cleared>>

AcpiInit ==
    /\ fw \in Firmware
    /\ boot = [pc |-> "rsdp", i |-> 1]
    /\ acpi = [rsdp |-> NULL, xsdt |-> FALSE, root |-> NULL, madt |-> NULL,
               lapic_address |-> 0, cpus |-> <<>>, ioapics |-> <<>>]
    /\ mapped = {} /\ free \in 0 .. MaxPages /\ oom = FALSE /\ cleared = FALSE

Goto(pc) == boot' = [pc |-> pc, i |-> 1]
Again == boot' = [boot EXCEPT !.i = @ + 1]

(* map_mmio and map_apic_region: a page that is not mapped takes a page    *)
(* for a table or finds one there; a call that needs more tables than      *)
(* there are pages fails, and unmaps the pages of the region.              *)
Region(addr, pages) == {addr} \X (1 .. pages)
IsMapped(addr) == <<addr, 1>> \in mapped
Map(addr, pages, ok) ==
    \E tables \in 0 .. Cardinality(Region(addr, pages) \ mapped) :
        /\ ok = (tables <= free)
        /\ mapped' = IF ok THEN mapped \cup Region(addr, pages) ELSE mapped \ Region(addr, pages)
        /\ free' = IF ok THEN free - tables ELSE 0
        /\ oom' = (oom \/ ~ok)

(* init_rsdp: the first structure with the signature and good checksums,   *)
(* in the extended BIOS data area and then in the BIOS area.               *)
RsdpOk(r) == r.sig = "RSD PTR " /\ r.sum /\ (r.revision >= 2 => r.xsum)
scan_rsdp(area) ==
    LET good == {i \in DOMAIN area : RsdpOk(area[i])} IN
    IF good = {} THEN NULL
    ELSE area[CHOOSE i \in good : \A j \in good : i <= j]

init_rsdp ==
    /\ boot.pc = "rsdp"
    /\ LET ebda == scan_rsdp(fw.ebda)
           found == IF ebda # NULL THEN ebda ELSE scan_rsdp(fw.bios)
       IN /\ acpi' = [acpi EXCEPT !.rsdp = found]
          /\ Goto(IF found = NULL THEN "panic" ELSE "rsdt")
    /\ UNCHANGED <<fw, mapped, free, oom, cleared>>

RootAddr == IF acpi.rsdp.revision >= 2 THEN acpi.rsdp.xsdt ELSE acpi.rsdp.rsdt

(* init_rsdt: map the first page of the root table; map all of it if it is *)
(* longer; check its sum.                                                  *)
init_rsdt ==
    /\ boot.pc = "rsdt"
    /\ \E ok \in BOOLEAN : Map(RootAddr, 1, ok) /\ Goto(IF ok THEN "rsdt_full" ELSE "find")
    /\ UNCHANGED <<fw, acpi, cleared>>

MapFullRoot ==
    LET t == fw.tables[RootAddr] IN
    /\ boot.pc = "rsdt_full"
    /\ \E ok \in BOOLEAN :
          /\ IF t.pages > 1 THEN Map(RootAddr, t.pages, ok)
             ELSE ok /\ UNCHANGED <<mapped, free, oom>>
          /\ acpi' = IF ok /\ t.sum
                     THEN [acpi EXCEPT !.root = RootAddr, !.xsdt = acpi.rsdp.revision >= 2]
                     ELSE acpi
    /\ Goto("find")
    /\ UNCHANGED <<fw, cleared>>

(* rsdt_find_table("APIC"), one entry of the root table: pointers into the *)
(* first page and tables whose first page cannot be mapped are skipped,    *)
(* the first table with the signature is the answer, if all of it can be   *)
(* mapped and its sum is good.                                             *)
FoundAddr == fw.tables[acpi.root].pointers[boot.i]
rsdt_find_table ==
    /\ boot.pc = "find"
    /\ IF acpi.root = NULL \/ boot.i > Len(fw.tables[acpi.root].pointers)
       THEN Goto("map_lapic") /\ UNCHANGED <<mapped, free, oom>>
       ELSE IF FoundAddr < PGSIZE
       THEN Again /\ UNCHANGED <<mapped, free, oom>>
       ELSE \E ok \in BOOLEAN :
               /\ Map(FoundAddr, 1, ok)
               /\ IF ok /\ fw.tables[FoundAddr].sig = "APIC"
                  THEN boot' = [boot EXCEPT !.pc = "find_full"]
                  ELSE Again
    /\ UNCHANGED <<fw, acpi, cleared>>

MapFullTable ==
    LET t == fw.tables[FoundAddr] IN
    /\ boot.pc = "find_full"
    /\ \E ok \in BOOLEAN :
          /\ Map(FoundAddr, t.pages, ok)
          /\ IF ok /\ t.sum
             THEN /\ acpi' = [acpi EXCEPT !.madt = FoundAddr, !.lapic_address = t.lapic]
                  /\ Goto("parse")
             ELSE Goto("map_lapic") /\ UNCHANGED acpi
    /\ UNCHANGED <<fw, cleared>>

(* The entries the MADT pointer gives: those of the table, unless kinit    *)
(* has cleared the page they are in (a length of 0 ends every loop).       *)
MadtEntries ==
    CASE acpi.madt = NULL   -> <<>>
      [] acpi.madt = Copy -> fw.tables[fw.madt].entries
      [] OTHER              -> IF cleared THEN <<>> ELSE fw.tables[acpi.madt].entries

(* Mistake: disabled processors are left out. *)
CpuEntryEnabled(e) == e.type \in {"lapic", "x2apic"} /\ e.enabled

(* parse_madt_entries, one entry.  An entry of no length, or one that runs *)
(* past the end of the table, stops the loop; the arrays have a limit;     *)
(* APIC numbers are cut to a byte.                                         *)
CpuEntry(e) == e.type \in {"lapic", "x2apic"}
ApicId(e) == e.id % 256
parse_madt_entries ==
    /\ boot.pc = "parse"
    /\ IF boot.i > Len(MadtEntries) \/ MadtEntries[boot.i].length # "whole"
       THEN Goto("map_lapic") /\ UNCHANGED acpi
       ELSE LET e == MadtEntries[boot.i] IN
            /\ acpi' =
                 IF CpuEntry(e) /\ Len(acpi.cpus) < MAX_CPUS
                 THEN [acpi EXCEPT !.cpus = Append(@,
                        [apic_id |-> ApicId(e), enabled |-> e.enabled,
                         is_bsp |-> acpi.cpus = <<>>])]
                 ELSE IF e.type = "ioapic" /\ Len(acpi.ioapics) < MAX_IOAPICS
                 THEN [acpi EXCEPT !.ioapics = Append(@, e.addr)]
                 ELSE IF e.type = "lapic_override"
                 THEN [acpi EXCEPT !.lapic_address = e.addr]
                 ELSE acpi
            /\ Again
    /\ UNCHANGED <<fw, mapped, free, oom, cleared>>

(* map_apic_region: nobody looks at what it returns. *)
MapRegisters(addr) == \E ok \in BOOLEAN : Map(addr, 1, ok)

(* entry_ptr += header->Length. *)
Advance(e) == IF e.length = "zero" THEN UNCHANGED boot ELSE Again

(* Mistakes: the address in the table's header is mapped; the MADT is not  *)
(* copied.                                                                 *)
MapHeaderLapic ==
    /\ boot.pc = "map_lapic"
    /\ IF acpi.lapic_address # 0 THEN MapRegisters(fw.tables[fw.madt].lapic)
       ELSE UNCHANGED <<mapped, free, oom>>
    /\ Goto("map_ioapic")
    /\ UNCHANGED <<fw, acpi, cleared>>
CopyRootOnly ==
    /\ boot.pc = "copy"
    /\ acpi' = [acpi EXCEPT !.root = IF @ # NULL /\ free > 0 THEN Copy ELSE @]
    /\ free' = IF free > 0 THEN free - 1 ELSE 0
    /\ oom' = (oom \/ free = 0)
    /\ Goto("kinit")
    /\ UNCHANGED <<fw, mapped, cleared>>

(* init_acpi_and_map_apic: the local APIC, then every I/O APIC entry.  The *)
(* loop has no limit and no check of an entry's length: it does not get    *)
(* past an entry whose length is zero.                                     *)
MapLapic ==
    /\ boot.pc = "map_lapic"
    /\ IF acpi.lapic_address # 0 THEN MapRegisters(acpi.lapic_address)
       ELSE UNCHANGED <<mapped, free, oom>>
    /\ Goto("map_ioapic")
    /\ UNCHANGED <<fw, acpi, cleared>>

MapIoapic ==
    /\ boot.pc = "map_ioapic"
    /\ IF boot.i > Len(MadtEntries)
       THEN Goto("copy") /\ UNCHANGED <<mapped, free, oom>>
       ELSE /\ IF MadtEntries[boot.i].type = "ioapic" THEN MapRegisters(MadtEntries[boot.i].addr)
               ELSE UNCHANGED <<mapped, free, oom>>
            /\ Advance(MadtEntries[boot.i])
    /\ UNCHANGED <<fw, acpi, cleared>>

(* rsdt_copy_to_safe_memory and madt_copy_to_safe_memory: a page each, if  *)
(* there is one; otherwise the pointer keeps its old value.  A table that  *)
(* is longer than a page is copied over whatever follows the page: the     *)
(* model goes no further.                                                  *)
CopyTables ==
    /\ boot.pc = "copy"
    /\ LET rsdt == acpi.root # NULL
           madt == acpi.madt # NULL
           need == (IF rsdt THEN 1 ELSE 0) + (IF madt THEN 1 ELSE 0)
           copied == {t \in {acpi.root, acpi.madt} \ {NULL} : t = acpi.root \/ free >= need}
       IN /\ acpi' = [acpi EXCEPT !.root = IF rsdt /\ free > 0 THEN Copy ELSE @,
                                  !.madt = IF madt /\ free >= need THEN Copy ELSE @]
          /\ free' = IF free >= need THEN free - need ELSE 0
          /\ oom' = (oom \/ free < need)
          /\ Goto(IF free > 0 /\ \E t \in copied : fw.tables[t].pages > 1
                  THEN "overrun" ELSE "kinit")
    /\ UNCHANGED <<fw, mapped, cleared>>

(* kinit(INIT_PHYSTOP, PHYSTOP) clears every page of the upper memory and  *)
(* gives it to kalloc, which nothing below calls.                          *)
FreeUpperMemory ==
    /\ boot.pc = "kinit"
    /\ cleared' = TRUE
    /\ free' = MaxPages
    /\ Goto("idt")
    /\ UNCHANGED <<fw, acpi, mapped, oom>>

AcpiNext ==
    \/ init_rsdp \/ init_rsdt \/ MapFullRoot \/ rsdt_find_table \/ MapFullTable
    \/ parse_madt_entries
    \/ MapLapic \/ MapIoapic \/ CopyTables \/ FreeUpperMemory
=============================================================================
