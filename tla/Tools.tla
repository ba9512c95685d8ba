------------------------------- MODULE Tools --------------------------------
(***************************************************************************)
(* The programs that talk to a modem: ipc-imei, on the tool library        *)
(* common/modem.c, and ipc-modem, which has a start-up and a read loop of  *)
(* its own.  One of them runs; the variables of the other are Unused.      *)
(***************************************************************************)
EXTENDS Naturals, Sequences

CONSTANTS
    MaxSent, MaxInbox,
    NewState,            \* ImeiTool
    Commands, MaxTries   \* ModemTool

VARIABLES
    program, pc, opened, msg, inbox, sent, online,
    client, powered, current_state, callback_state, resp, left, found,
    missed, status, request,                                 \* ImeiTool
    args, sim_pin, state, call_done, exitcode, calls, card, mode, lock,
    tries, outbox                                            \* ModemTool

shared   == <<pc, opened, msg, inbox, sent, online>>
ipcimei  == <<client, powered, current_state, callback_state, resp, left,
              found, missed, status, request>>
ipcmodem == <<args, sim_pin, state, call_done, exitcode, calls, card, mode,
              lock, tries, outbox>>
vars     == <<program, shared, ipcimei, ipcmodem>>

Imei  == INSTANCE ImeiTool
Modem == INSTANCE ModemTool

ASSUME ImeiAssumption  == Imei!NewStateAssumption /\ Imei!BoundsAssumption
ASSUME ModemAssumption == Modem!CommandsAssumption /\ Modem!BoundsAssumption

Unused == "unused"

NoImei ==
    /\ client = Unused /\ powered = Unused /\ current_state = Unused
    /\ callback_state = Unused /\ resp = Unused /\ left = Unused
    /\ found = Unused /\ missed = Unused /\ status = Unused
    /\ request = Unused
NoModem ==
    /\ args = Unused /\ sim_pin = Unused /\ state = Unused
    /\ call_done = Unused /\ exitcode = Unused /\ calls = Unused
    /\ card = Unused /\ mode = Unused /\ lock = Unused
    /\ tries = Unused /\ outbox = Unused

RunsImei  == program = "ipc-imei"
RunsModem == program = "ipc-modem"

Init ==
    \/ RunsImei /\ Imei!Init /\ NoModem
    \/ RunsModem /\ Modem!Init /\ NoImei

AsImei  == RunsImei /\ UNCHANGED <<program, ipcmodem>>
AsModem == RunsModem /\ UNCHANGED <<program, ipcimei>>

Next ==
    \/ AsImei /\ Imei!Next
    \/ AsModem /\ Modem!Next

(* The process runs; nothing is promised of the modem. *)
Spec ==
    /\ Init /\ [][Next]_vars
    /\ WF_vars(AsImei /\ Imei!Tool) /\ WF_vars(AsModem /\ Modem!Tool)

-----------------------------------------------------------------------------
(* ipc-imei.c: an exit with 0 and no IMEI has a reason: receiving failed,  *)
(* or the modem reported that no SIM card is present.                      *)
ImeiOrReason == RunsImei => Imei!ImeiOrReason

(* common/modem.c: a payload is freed once; undefined behaviour follows    *)
(* only a failed modem_start or a failed receive.                          *)
UndefinedOnlyOnFailure == RunsImei => Imei!UndefinedOnlyOnFailure

(* common/modem.c, ipc-imei.c: an answer that reaches the application's    *)
(* handler ends the read loop, unless the modem goes offline or the        *)
(* process fails.                                                          *)
AnswerFound ==
    (RunsImei /\ Imei!AnswerPending) ~> Imei!AnswerTaken

(* ipc-modem.c: only a wrong PIN that the user gave costs the card a try.  *)
TriesOnlyByWrongPin == RunsModem => Modem!TriesOnlyByWrongPin

(* ipc-modem.c: a modem the tool takes for ready is in NORMAL with an      *)
(* unlocked card, unless the news of a new start is still on its way or    *)
(* the modem is not there any more.                                        *)
SimOkIsTrue == RunsModem => Modem!SimOkIsTrue

(* ipc-modem.c: a report of the serving network leads to the call, unless  *)
(* receiving fails or the modem goes offline.                              *)
CallFollowsRegistration ==
    (RunsModem /\ Modem!Registered) ~> (RunsModem /\ Modem!Called)
=============================================================================
