-------------------------------- MODULE MCVm --------------------------------
(* A small instance of Vm: pages of two units, two pages per page table. *)
EXTENDS Vm

\* sbrk() by part of a page, by a page and a part, beyond 0, and to 0.
MCDeltas == {1, 3, -1, -3, -4, -5, -6, -30}

\* Segments that end in the middle of a page, leave a gap, lie inside one
\* another, are not aligned, and reach past user memory.
MCSegments ==
    {[vaddr |-> 0, memsz |-> 1, filesz |-> 1], [vaddr |-> 4, memsz |-> 2, filesz |-> 1],
     [vaddr |-> 1, memsz |-> 2, filesz |-> 2], [vaddr |-> 30, memsz |-> 4, filesz |-> 4]}

=============================================================================
