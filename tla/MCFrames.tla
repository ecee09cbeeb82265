------------------------------ MODULE MCFrames ------------------------------
(***************************************************************************)
(* Small physical memories for checking FramesMod with TLC.                *)
(***************************************************************************)
EXTENDS FramesMod, TLC

Entry(s, n, t) == [start |-> s, len |-> n, type |-> t]

(* Two RAM areas around a reserved one, the first two frames in use.       *)
MapMarked == <<Entry(0, 5, "free"), Entry(5, 1, "reserved"),
               Entry(7, 4, "acpi_reclaimable"), Entry(0, 1, "non_free"),
               Entry(1, 1, "info_page")>>

(* Claims of the types the boot code gives them: the information page, the *)
(* bootinfo page and a module.                                             *)
MapBoot == <<Entry(0, 5, "free"), Entry(0, 1, "info_page"),
             Entry(1, 1, "bootinfo"), Entry(2, 2, "loaded_module")>>

(* RAM, a device area and a hole.                                          *)
MapDevice == <<Entry(0, 3, "free"), Entry(4, 2, "reserved")>>

Symmetry == Permutations(Domains)
=============================================================================
