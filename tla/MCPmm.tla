------------------------------- MODULE MCPmm -------------------------------
(* Pmm on sixteen blocks of four bytes in words of four bits.              *)
EXTENDS Pmm, TLC

CONSTANTS c1, c2

MCClients == {c1, c2}
Symmetry == Permutations(MCClients)

entry(base, length, avail) ==
  [base_addr |-> base, length |-> length, avail |-> avail]

(* All memory in one area; the boot information lies apart from the kernel *)
(* and straddles a block boundary.                                         *)
OneArea == [addr |-> 22, total_size |-> 3, KERNEL_END_PHYS |-> 12,
            mod_ends |-> {}, mmap |-> {entry(0, 60, TRUE), entry(60, 4, FALSE)}]

(* Low memory ending inside a block, a hole, high memory; a module after   *)
(* the kernel.  The available blocks reach past max_blocks.                *)
Hole == [addr |-> 5, total_size |-> 6, KERNEL_END_PHYS |-> 17,
         mod_ends |-> {20},
         mmap |-> {entry(0, 10, TRUE), entry(10, 6, FALSE),
                   entry(16, 40, TRUE), entry(56, 8, FALSE)}]

(* The boot information at the top of the address space.                   *)
InfoAtTop == [addr |-> 58, total_size |-> 5, KERNEL_END_PHYS |-> 12,
              mod_ends |-> {}, mmap |-> {entry(0, 8, FALSE), entry(8, 56, TRUE)}]

MCBootInfos == {OneArea, Hole, InfoAtTop}
ASSUME AreasBelow4GiB
=============================================================================
