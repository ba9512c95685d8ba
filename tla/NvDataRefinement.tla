-------------------------- MODULE NvDataRefinement --------------------------
(***************************************************************************)
(* The files of NvData as the two images of NvStore: the current image is  *)
(* nv_data while its digest matches, else the backup while its digest      *)
(* matches.                                                                *)
(***************************************************************************)
EXTENDS NvData

Saved == IF Intact(bak, bakmd5) THEN bak ELSE NoData

Current == IF Intact(nv, md5) THEN nv ELSE Saved

Goal == IF op = "write" /\ buf \in Image THEN buf ELSE NoData

Store == INSTANCE NvStore WITH
    current <- Current, saved <- Saved, call <- op, goal <- Goal,
    booted <- booted, ret <- ret

(* Four files, changed one system call at a time with crashes in between,  *)
(* behave as the one-image store: ipc_nv_data_load and a crash never       *)
(* change what the next load returns, an acknowledged ipc_nv_data_write is *)
(* what later loads and reads return, and an interrupted write leaves the  *)
(* old image, or the backup, but nothing else.                             *)
ImplementsStore == Store!Spec
=============================================================================
