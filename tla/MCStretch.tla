----------------------------- MODULE MCStretch -----------------------------
(***************************************************************************)
(* A small address space for checking StretchAllocator with TLC.           *)
(***************************************************************************)
EXTENDS StretchAllocator, TLC

At(p)     == [page |-> p, inside |-> FALSE]
Inside(p) == [page |-> p, inside |-> TRUE]

Entry(start, n, t) == [start |-> start, len |-> n, type |-> t]

(* Memory in use at boot: page 2 holds bootinfo, page 1 a loaded module.   *)
MapReserved == <<Entry(At(1), 1, "loaded_module"), Entry(At(2), 1, "bootinfo")>>

(* The uses of memory that the boot code claims: the information page,     *)
(* bootinfo and the modules it loaded.                                     *)
MapBoot == <<Entry(At(0), 1, "info_page"), Entry(At(1), 1, "bootinfo"),
             Entry(At(2), 1, "loaded_module")>>

Places == {AnyAddress, At(1), At(2), At(4), Inside(3)}
=============================================================================
