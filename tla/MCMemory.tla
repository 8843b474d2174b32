------------------------------ MODULE MCMemory ------------------------------
(* Memory on a small machine, with the programs that exec treats apart.     *)
EXTENDS Memory

Segment(vaddr, memsz, filesz) ==
  [vaddr |-> vaddr, memsz |-> memsz, filesz |-> filesz, complete |-> TRUE]
Program(segs) == [elf |-> TRUE, segs |-> segs]

MCPrograms ==
  { [elf |-> FALSE, segs |-> <<>>],
    Program(<<>>),                                    \* a stack only
    Program(<<Segment(0, 1, 1)>>),
    Program(<<Segment(0, 1, 1), Segment(2, 3, 1)>>),  \* text and data
    Program(<<Segment(2, 2, 1), Segment(0, 2, 2)>>),  \* in the other order
    Program(<<Segment(0, 2, 3)>>),                    \* larger in the file
    Program(<<Segment(0, 2, 1), Segment(1, 2, 2)>>),  \* not aligned
    Program(<<Segment(0, 0, 0)>>),                    \* no size
    Program(<<Segment(0, 2, 2), Segment(60, 8, 2)>>), \* wraps around
    Program(<<Segment(0, 2, 2),
              [Segment(2, 2, 2) EXCEPT !.complete = FALSE]>>) }  \* short file

MCAmounts == {-70, -3, -2, 0, 1, 5, 30}
=============================================================================
