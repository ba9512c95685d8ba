-------------------------- MODULE MCBootProtocols ---------------------------
(* BootProtocols for TLC.  The tables of contents of herolte have the      *)
(* blobs in several orders, loaded above and below BOOT, with an entry     *)
(* missing, given twice, empty or hidden behind the end of the list, and   *)
(* with blobs that overlap.                                                *)
EXTENDS BootProtocols

Blob(name, offset, load, size) ==
    [name |-> name, offset |-> offset, load |-> load, size |-> size]
End == Blob("", 0, 0, 0)

MCTocs == {
    <<Blob("TOC", 0, 0, 1), Blob("BOOT", 1, 4, 2), Blob("MAIN", 3, 7, 3), Blob("NV", 0, 1, 2), End>>,
    <<Blob("NV", 0, 2, 2), Blob("MAIN", 1, 5, 4), Blob("BOOT", 5, 9, 1)>>,
    <<Blob("BOOT", 1, 0, 1), Blob("MAIN", 2, 1, 3), Blob("MAIN", 5, 9, 1), Blob("NV", 1, 4, 1), End>>,
    <<Blob("BOOT", 1, 0, 1), Blob("MAIN", 2, 1, 3), Blob("NV", 0, 4, 0), End, Blob("NV", 1, 4, 1)>>,
    <<Blob("BOOT", 1, 0, 1), Blob("MAIN", 2, 1, 3), End, Blob("NV", 0, 4, 1)>>,
    <<Blob("BOOT", 1, 0, 3), Blob("MAIN", 4, 2, 2), Blob("NV", 0, 5, 1)>>}
=============================================================================
