----------------------------- MODULE MCBootInfo -----------------------------
(***************************************************************************)
(* Small memories for BootInfo.  Pages have four bytes; low memory ends at *)
(* 12, and the special pages are in it.  The last map of the firmware      *)
(* leaves room for the record of one module only.                         *)
(***************************************************************************)
EXTENDS BootInfo

E(start, size, free) == [start |-> start, size |-> size, free |-> free]
R(start, size)       == [start |-> start, size |-> size]

MCBaseMaps ==
    { <<E(0, 10, TRUE), E(10, 2, FALSE), E(12, 28, TRUE)>>,
      <<E(0, 12, TRUE), E(12, 16, TRUE), E(28, 2, FALSE), E(30, 14, TRUE)>>,
      <<E(0, 9, TRUE), E(13, 13, TRUE), E(26, 20, TRUE)>>,
      <<E(0, 4, TRUE)>> \o [i \in 1 .. 7 |-> E(i + 3, 1, FALSE)] \o <<E(12, 28, TRUE)>> }

MCBootModules == {R(s, n) : s \in {12, 16, 21, 28, 31}, n \in {2, 3, 7}}

MCSpecialPages == {R(4, 4), R(8, 4)}

MCRecordSize == [mmap |-> 1, vmap |-> 1, module |-> 2, cmdline |-> 1]
=============================================================================
