----------------------------- MODULE AddressMap -----------------------------
(***************************************************************************)
(* The three translations between the process's virtual addresses and      *)
(* guest-physical addresses.  libdune's dune_va_to_pa fills the guest's    *)
(* page table; the kernel's gpa_to_hva finds the page for an EPT fault and *)
(* hva_to_gpa the EPT entry that an mmu notifier must clear.  They are     *)
(* written twice, in a header of the library and in the kernel module, and *)
(* share only the layout that DUNE_GET_LAYOUT returns.                     *)
(*                                                                         *)
(* Addresses are counted in pages: a guest-physical one is a page of the   *)
(* EPT of module Ept, whose faults and changes carry the addresses.        *)
(***************************************************************************)
EXTENDS Ept, Integers

CONSTANTS
    phys_end,       \* 1 << x86_phys_bits
    GPA_STACK_SIZE,
    GPA_MAP_SIZE,
    LgSize,         \* 2 MB, the alignment of LG_ALIGN
    mm_mmap_base,   \* mm->mmap_base
    mm_start_stack, \* mm->start_stack
    MaxVa           \* bound on the addresses

\* LG_ALIGN rounds up.
LG_ALIGN(a) == ((a + LgSize - 1) \div LgSize) * LgSize

\* DUNE_GET_LAYOUT.
base_map == LG_ALIGN(mm_mmap_base) - GPA_MAP_SIZE
base_stack == LG_ALIGN(mm_start_stack) - GPA_STACK_SIZE

ASSUME LayoutAssumption ==
    /\ phys_end \in Nat /\ GPA_STACK_SIZE \in Nat \ {0} /\ GPA_MAP_SIZE \in Nat \ {0}
    /\ LgSize \in Nat \ {0} /\ mm_mmap_base \in Nat /\ mm_start_stack \in Nat
    /\ MaxVa \in Nat
    /\ base_map \in Nat /\ base_stack \in Nat
    /\ phys_end >= GPA_STACK_SIZE + GPA_MAP_SIZE

ADDR_INVAL == -1

Addresses == 0..MaxVa

-----------------------------------------------------------------------------
(***************************************************************************)
(* Faulty variants of definitions below, for showing that each property    *)
(* notices the fault it is there for.  No specification uses them.         *)
(***************************************************************************)

\* The notifier looks for the stack below the map window.
HvaToGpaStackLow(h) ==
    IF h >= base_stack
    THEN IF h - base_stack >= GPA_STACK_SIZE THEN ADDR_INVAL
         ELSE h - base_stack + phys_end - GPA_STACK_SIZE - GPA_MAP_SIZE
    ELSE IF h >= base_map
    THEN IF h - base_map >= GPA_MAP_SIZE THEN ADDR_INVAL
         ELSE h - base_map + phys_end - GPA_STACK_SIZE - GPA_MAP_SIZE
    ELSE IF h >= phys_end - GPA_STACK_SIZE - GPA_MAP_SIZE THEN ADDR_INVAL ELSE h

\* The kernel forgets the alignment of the layout.
GpaToHvaUnaligned(g) ==
    IF g < phys_end - GPA_STACK_SIZE - GPA_MAP_SIZE THEN g
    ELSE IF g < phys_end - GPA_STACK_SIZE
         THEN g - (phys_end - GPA_STACK_SIZE - GPA_MAP_SIZE) + mm_mmap_base - GPA_MAP_SIZE
    ELSE IF g < phys_end
         THEN g - (phys_end - GPA_STACK_SIZE) + mm_start_stack - GPA_STACK_SIZE
    ELSE ADDR_INVAL

-----------------------------------------------------------------------------
dune_mmap_addr_to_pa(ptr) == ptr - base_map + phys_end - GPA_STACK_SIZE - GPA_MAP_SIZE

dune_stack_addr_to_pa(ptr) == ptr - base_stack + phys_end - GPA_STACK_SIZE

dune_va_to_pa(ptr) ==
    IF ptr >= base_stack THEN dune_stack_addr_to_pa(ptr)
    ELSE IF ptr >= base_map THEN dune_mmap_addr_to_pa(ptr)
    ELSE ptr

hva_to_gpa(h) ==
    IF h >= base_stack
    THEN IF h - base_stack >= GPA_STACK_SIZE THEN ADDR_INVAL
         ELSE h - base_stack + phys_end - GPA_STACK_SIZE
    ELSE IF h >= base_map
    THEN IF h - base_map >= GPA_MAP_SIZE THEN ADDR_INVAL
         ELSE h - base_map + phys_end - GPA_STACK_SIZE - GPA_MAP_SIZE
    ELSE IF h >= phys_end - GPA_STACK_SIZE - GPA_MAP_SIZE THEN ADDR_INVAL ELSE h

gpa_to_hva(g) ==
    IF g < phys_end - GPA_STACK_SIZE - GPA_MAP_SIZE THEN g
    ELSE IF g < phys_end - GPA_STACK_SIZE
         THEN g - (phys_end - GPA_STACK_SIZE - GPA_MAP_SIZE)
              + LG_ALIGN(mm_mmap_base) - GPA_MAP_SIZE
    ELSE IF g < phys_end
         THEN g - (phys_end - GPA_STACK_SIZE) + LG_ALIGN(mm_start_stack) - GPA_STACK_SIZE
    ELSE ADDR_INVAL

-----------------------------------------------------------------------------
\* The kernel supports the address.
InRange(a) == hva_to_gpa(a) # ADDR_INVAL
Supported == {a \in Addresses : InRange(a)}

\* The EPT fault in progress gets the page of the address that was touched:
\* libdune has entered no other supported address under the same guest-physical
\* one, wherever the kernel has put the process's mappings and stack.
FaultReachesPage ==
    flt.at # "idle" =>
        \A a \in Supported : dune_va_to_pa(a) = flt.page => gpa_to_hva(flt.page) = a

\* The notifier in progress looks, for every address of its range, at the EPT
\* entry that a fault on that address sets.
NotifierFindsEntry ==
    chg # NoChange =>
        \A a \in Supported :
            dune_va_to_pa(a) \in PagesOf[chg.node] => hva_to_gpa(a) = dune_va_to_pa(a)
=============================================================================
