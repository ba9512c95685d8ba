------------------------------ MODULE NvStore -------------------------------
(***************************************************************************)
(* What the nv_data store promises its client while files can be read and  *)
(* written: a store of one image and one saved image.                      *)
(*                                                                         *)
(*   - Loading changes nothing that a client can observe: it answers with  *)
(*     the current image and may save it when nothing was saved before.    *)
(*   - A crash changes neither image.                                      *)
(*   - A write replaces the current image at the moment it is acknowledged *)
(*     and not before; until then the current image may only fall back to  *)
(*     the saved one.                                                      *)
(*   - Only a restore replaces the current image by the saved one on       *)
(*     request, and nothing replaces a saved image.                        *)
(*                                                                         *)
(* `current` is the image the next load will give, NoData if there is      *)
(* none.                                                                   *)
(***************************************************************************)
EXTENDS Integers

CONSTANTS Image, NoData

VARIABLES
    current,  \* the image a load gives
    saved,    \* the image in the backup
    call,     \* the call in progress, "none" between calls
    goal,     \* the image a write in progress asks for
    booted,   \* a load succeeded since the process began
    ret       \* what the last call returned

vars == <<current, saved, call, goal, booted, ret>>

NoRet == [call |-> "none", rc |-> "none", data |-> NoData]

Init ==
    /\ current \in Image /\ saved \in Image \cup {NoData}
    /\ call = "none" /\ goal = NoData /\ booted = FALSE /\ ret = NoRet

Begin(c, g) ==
    /\ call = "none" /\ call' = c /\ goal' = g /\ ret' = NoRet
    /\ booted' = (booted /\ c # "load")
    /\ UNCHANGED <<current, saved>>

End(rc, data) ==
    /\ call # "none" /\ call' = "none" /\ goal' = NoData
    /\ ret' = [call |-> call, rc |-> rc, data |-> data]

Load == Begin("load", NoData)

Save ==
    /\ call = "load" /\ saved = NoData /\ current # NoData
    /\ saved' = current
    /\ UNCHANGED <<current, call, goal, booted, ret>>

LoadReturns ==
    /\ call = "load"
    /\ IF current # NoData THEN End("ok", current) ELSE End("error", NoData)
    /\ booted' = (current # NoData)
    /\ UNCHANGED <<current, saved>>

Restore == Begin("restore", NoData)

RollBack ==
    /\ call = "restore" /\ saved # NoData
    /\ current' = saved
    /\ UNCHANGED <<saved, call, goal, booted, ret>>

RestoreReturns ==
    /\ call = "restore"
    /\ \/ saved = NoData /\ End("error", NoData)
       \/ saved # NoData /\ current = saved /\ End("ok", NoData)
    /\ UNCHANGED <<current, saved, booted>>

(* A request beyond the end of nv_data has no image as its goal. *)
Write == booted /\ \E g \in Image \cup {NoData} : Begin("write", g)

FallBack ==
    /\ call = "write"
    /\ current' = saved
    /\ UNCHANGED <<saved, call, goal, booted, ret>>

WriteReturns ==
    /\ call = "write"
    /\ \/ goal = NoData /\ End("error", NoData) /\ UNCHANGED current
       \/ goal # NoData /\ End("ok", NoData) /\ current' = goal
    /\ UNCHANGED <<saved, booted>>

Refuse(c) ==
    /\ call = "none" /\ booted
    /\ ret' = [call |-> c, rc |-> "error", data |-> NoData]
    /\ UNCHANGED <<current, saved, call, goal, booted>>

Read ==
    /\ call = "none" /\ booted /\ current # NoData
    /\ \E from, to \in DOMAIN current :
          ret' = [call |-> "read", rc |-> "ok",
                  data |-> [b \in from .. to |-> current[b]]]
    /\ UNCHANGED <<current, saved, call, goal, booted>>

Crash ==
    /\ call' = "none" /\ goal' = NoData /\ booted' = FALSE /\ ret' = NoRet
    /\ UNCHANGED <<current, saved>>

Next ==
    \/ Load \/ Save \/ LoadReturns
    \/ Restore \/ RollBack \/ RestoreReturns
    \/ Write \/ FallBack \/ WriteReturns
    \/ Read \/ Refuse("read") \/ Refuse("write")
    \/ Crash

Spec == Init /\ [][Next]_vars
=============================================================================
