--------------------------- MODULE MCKernelWaits ----------------------------
(* Blocks 0 and 1 are one page of the cache, 2 and 4 are in pages of their *)
(* own.                                                                    *)
EXTENDS KernelWaits

CONSTANTS t1, t2

Full == {<<"full", 0>>, <<"full", 1>>}

\* Partial writes and power failures in a cache of one page.
Parts == [tasks |-> {t1}, polling |-> TRUE, through |-> FALSE, blocks |-> {0, 2}, capacity |-> 1,
          writes |-> {<<"full", 0>>, <<"part", 1>>}, crashes |-> TRUE]
\* Pages with several dirty blocks, over a driver that waits.
Masks == [tasks |-> {t1}, polling |-> FALSE, through |-> FALSE, blocks |-> {0, 1, 2}, capacity |-> 1,
          writes |-> Full, crashes |-> TRUE]
\* The second-chance scan.
Scan == [tasks |-> {t1}, polling |-> TRUE, through |-> FALSE, blocks |-> {0, 2, 4}, capacity |-> 2,
         writes |-> Full, crashes |-> FALSE]
\* Two tasks over a driver that waits: write-through, and two pages that may be held.
Through == [tasks |-> {t1, t2}, polling |-> FALSE, through |-> TRUE, blocks |-> {0, 1, 2}, capacity |-> 1,
            writes |-> {<<"full", 1>>}, crashes |-> FALSE]

All == {Parts, Masks, Scan, Through}
=============================================================================
