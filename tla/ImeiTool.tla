------------------------------ MODULE ImeiTool ------------------------------
(***************************************************************************)
(* tools/ipc-imei.c on top of tools/common/modem.c: start the modem, ask   *)
(* for the IMEI once, read messages until a handler says it is done, stop  *)
(* the modem.  Messages go to the start-up handler of common/modem.c until *)
(* the modem is seen in the wanted state, to the application's handler     *)
(* from then on.  The modem and the kernel driver are the environment.     *)
(*                                                                         *)
(* pc = "undefined" stands for undefined behaviour: a second free of the   *)
(* same buffer, or a call on a destroyed client.                           *)
(***************************************************************************)
EXTENDS Naturals, Sequences

CONSTANTS
    NewState,   \* the state asked for: ipc-imei asks for "NORMAL"
    MaxSent,    \* unsolicited messages the modem sends
    MaxInbox    \* messages the driver holds

States == {"LPM", "NORMAL", "SIM_OK"}

NewStateAssumption == NewState \in States
BoundsAssumption == MaxSent \in Nat /\ MaxInbox \in Nat \ {0}

VARIABLES
    pc,
    client,          \* "live" or "destroyed"
    opened,          \* the IPC device is open
    powered,         \* the modem is on
    current_state,   \* what common/modem.c thinks the modem's state is
    callback_state,  \* "utils" or "app"
    resp,            \* resp.data: "null", "live" or "freed"
    msg,             \* the message last received
    left,            \* how modem_read_loop ended
    found,           \* the IMEI was printed
    missed,          \* an answer went to the start-up handler
    status,          \* of the process: running, success (0) or failure (1)
    inbox, sent, online, request   \* modem and driver

tool  == <<pc, client, opened, powered, current_state, callback_state, resp,
           msg, left, found, missed, status>>
modem == <<inbox, sent, online, request>>
vars  == <<pc, client, opened, powered, current_state, callback_state, resp,
           msg, left, found, missed, status, inbox, sent, online, request>>

(* Messages, told apart as far as the handlers tell them apart. *)
Unsolicited == {"pwr_up", "state_lpm", "state_normal", "no_card", "locked",
                "sim_init", "icc_unknown", "other_serial", "other"}
Answer == "imei"
HasData(m) == m \notin {"pwr_up", "other"}

Steps == <<"data_create", "boot", "power_on", "open", "power_on_again">>

Init ==
    /\ pc = "data_create" /\ client = "live"
    /\ opened = FALSE /\ powered = FALSE
    /\ current_state = "LPM" /\ callback_state = "utils"
    /\ resp = "null" /\ msg = "none" /\ left = "no"
    /\ found = FALSE /\ missed = FALSE /\ status = "running"
    /\ inbox = <<>> /\ sent = 0 /\ online = FALSE /\ request = "none"

(***************************************************************************)
(* modem_start                                                             *)
(***************************************************************************)
StepAfter(step) ==
    LET i == CHOOSE i \in 1 .. Len(Steps) : Steps[i] = step
    IN  IF i = Len(Steps) THEN "request" ELSE Steps[i + 1]

StartStep ==
    /\ \E i \in 1 .. Len(Steps) : pc = Steps[i]
    /\ pc' = StepAfter(pc)
    /\ opened' = (opened \/ pc = "open")
    /\ powered' = (powered \/ pc \in {"boot", "power_on", "power_on_again"})
    /\ online' = (online \/ pc = "boot")
    /\ UNCHANGED <<client, current_state, callback_state, resp, msg, left,
                   found, missed, status, inbox, sent, request>>

(* The client is destroyed and 1 is returned; main only tests for values   *)
(* below 0 and goes on.                                                    *)
StartFails ==
    /\ \E i \in 1 .. Len(Steps) : pc = Steps[i]
    /\ pc' = "request" /\ client' = "destroyed"
    /\ UNCHANGED <<opened, powered, current_state, callback_state, resp, msg,
                   left, found, missed, status, modem>>

(***************************************************************************)
(* modem_read_loop.  The result of ipc_imei_request_imei is not looked at. *)
(***************************************************************************)
RequestImei ==
    /\ pc = "request"
    /\ pc' = IF client = "live" THEN "poll" ELSE "undefined"
    /\ request' \in IF client = "live" /\ online
                    THEN {"none", "pending"} ELSE {"none"}
    /\ UNCHANGED <<client, opened, powered, current_state, callback_state,
                   resp, msg, left, found, missed, status, inbox, sent, online>>

Poll ==
    /\ pc = "poll" /\ online /\ inbox # <<>>
    /\ pc' = "recv"
    /\ UNCHANGED <<client, opened, powered, current_state, callback_state,
                   resp, msg, left, found, missed, status, modem>>

(* A poll that fails is repeated, with nothing changed. *)
PollFails == pc = "poll" /\ ~online /\ UNCHANGED vars

(* ipc_fmt_message_setup clears resp, then a payload is allocated. *)
RespAfter(m) == IF HasData(m) THEN "live" ELSE "null"

(* Slip: a message without payload leaves the old pointer. *)
RecvKeepsOld ==
    /\ pc = "recv" /\ online
    /\ msg' = Head(inbox) /\ inbox' = Tail(inbox)
    /\ resp' = IF HasData(Head(inbox)) THEN "live" ELSE resp
    /\ pc' = "handle"
    /\ UNCHANGED <<client, opened, powered, current_state, callback_state,
                   left, found, missed, status, sent, online, request>>

Recv ==
    /\ pc = "recv" /\ online
    /\ msg' = Head(inbox) /\ inbox' = Tail(inbox)
    /\ resp' = RespAfter(Head(inbox))
    /\ pc' = "handle"
    /\ UNCHANGED <<client, opened, powered, current_state, callback_state,
                   left, found, missed, status, sent, online, request>>

(* Whatever resp.data points to is freed: what an earlier message left     *)
(* there when the header cannot be read, the new payload when the rest     *)
(* cannot.                                                                 *)
RecvFails ==
    /\ pc = "recv"
    /\ \E data \in {resp} \cup (IF online THEN {RespAfter(Head(inbox))} ELSE {}) :
        /\ pc' = IF data = "freed" THEN "undefined" ELSE "close"
        /\ resp' = IF data = "null" THEN "null" ELSE "freed"
    /\ left' = "error"
    /\ UNCHANGED <<client, opened, powered, current_state, callback_state,
                   msg, found, missed, status, modem>>

(* modem_response_pwr.  The state is read as an int from a payload of one  *)
(* byte: the other bytes are whatever the heap holds.                      *)
ResponsePwr(m) ==
    CASE m = "pwr_up"       -> {"LPM"}
      [] m = "state_lpm"    -> {"LPM", "garbage"}
      [] m = "state_normal" -> {"NORMAL", "garbage"}
      [] OTHER              -> {current_state}

(* Slip: a locked card ends the start as an absent one does. *)
ResponseSecLocked(m) ==
    CASE m \in {"no_card", "locked", "icc_unknown"} /\ NewState = "SIM_OK" -> "error"
      [] m \in {"no_card", "locked"} /\ NewState # "SIM_OK" -> "done"
      [] m = "sim_init" /\ current_state = "NORMAL" -> "done"
      [] OTHER -> "again"

(* modem_response_sec *)
ResponseSec(m) ==
    CASE m \in {"no_card", "locked", "icc_unknown"} /\ NewState = "SIM_OK" -> "error"
      [] m = "no_card" /\ NewState # "SIM_OK" -> "done"
      [] m = "sim_init" /\ current_state = "NORMAL" -> "done"
      [] OTHER -> "again"

(* modem_start_response_handle: what current_state may be afterwards. *)
StartStateAfter(m) ==
    IF m = "sim_init" /\ current_state = "NORMAL" THEN {"SIM_OK"}
    ELSE ResponsePwr(m)

(* Slip: the handler goes on after printing the IMEI. *)
AppResponseGoesOn(m) == "again"

(* ipc_imei_response_handle *)
AppResponse(m) == IF m = Answer THEN "done" ELSE "again"

(* Who gets the message: tested before it is handled. *)
CallbackAfter(m) == IF current_state = NewState THEN "app" ELSE callback_state

(* The free of resp.data that follows the handler, and the end of the loop *)
(* unless the verdict is -EAGAIN.                                          *)
LoopEnds(verdict, by) ==
    /\ pc' = CASE resp = "freed"      -> "undefined"
               [] verdict = "again"   -> "poll"
               [] OTHER               -> "close"
    /\ resp' = IF resp = "null" THEN "null" ELSE "freed"
    /\ left' = CASE verdict = "again" -> left
                 [] verdict = "done"  -> by
                 [] OTHER             -> "error"

(* modem_response_handle *)
HandleInUtils ==
    /\ pc = "handle" /\ CallbackAfter(msg) = "utils"
    /\ current_state' \in StartStateAfter(msg)
    /\ callback_state' = IF ResponseSec(msg) = "done" THEN "app" ELSE "utils"
    /\ LoopEnds(ResponseSec(msg), "utils")
    /\ missed' = (missed \/ msg = Answer)
    /\ UNCHANGED <<client, opened, powered, msg, found, status, modem>>

HandleInApp ==
    /\ pc = "handle" /\ CallbackAfter(msg) = "app"
    /\ callback_state' = "app"
    /\ LoopEnds(AppResponse(msg), "app")
    /\ found' = (found \/ msg = Answer)
    /\ UNCHANGED <<client, opened, powered, current_state, msg, missed,
                   status, modem>>

(***************************************************************************)
(* modem_stop, and the end of main.                                        *)
(***************************************************************************)
Close ==
    /\ pc = "close"
    /\ pc' = "power_off" /\ opened' = FALSE
    /\ UNCHANGED <<client, powered, current_state, callback_state, resp, msg,
                   left, found, missed, status, modem>>

PowerOff ==
    /\ pc = "power_off"
    /\ pc' = "exit" /\ status' = "success" /\ powered' = FALSE
    /\ online' = FALSE /\ inbox' = <<>>
    /\ UNCHANGED <<client, opened, current_state, callback_state, resp, msg,
                   left, found, missed, sent, request>>

StopFails ==
    /\ pc \in {"close", "power_off"}
    /\ pc' = "exit" /\ status' = "failure"
    /\ UNCHANGED <<client, opened, powered, current_state, callback_state,
                   resp, msg, left, found, missed, modem>>

Tool ==
    \/ StartStep \/ StartFails \/ RequestImei
    \/ Poll \/ PollFails \/ Recv \/ RecvFails
    \/ HandleInUtils \/ HandleInApp
    \/ Close \/ PowerOff \/ StopFails

(***************************************************************************)
(* The modem: it tells its state and its SIM's when it likes, answers the  *)
(* request at most once, and may go offline for good.                      *)
(***************************************************************************)
ModemSends ==
    /\ online /\ sent < MaxSent /\ Len(inbox) < MaxInbox
    /\ \E m \in Unsolicited : inbox' = Append(inbox, m)
    /\ sent' = sent + 1
    /\ UNCHANGED <<tool, online, request>>

ModemAnswers ==
    /\ online /\ request = "pending" /\ Len(inbox) < MaxInbox
    /\ inbox' = Append(inbox, Answer) /\ request' = "answered"
    /\ UNCHANGED <<tool, sent, online>>

ModemFails ==
    /\ online /\ online' = FALSE
    /\ UNCHANGED <<tool, inbox, sent, request>>

Ended == pc \in {"exit", "undefined"} /\ UNCHANGED vars

Next == Tool \/ ModemSends \/ ModemAnswers \/ ModemFails \/ Ended

(* The process runs; nothing is promised of the modem. *)
Spec == Init /\ [][Next]_vars /\ WF_vars(Tool)

-----------------------------------------------------------------------------
(* ipc-imei prints an IMEI or has a reason not to: when it exits with 0    *)
(* and no IMEI, receiving failed or the modem reported that no SIM card is *)
(* present.                                                                *)
ImeiOrReason ==
    pc = "exit" /\ status = "success" =>
        found \/ left = "error" \/ msg = "no_card"

(* The payload is freed once per message.  Undefined behaviour is reached  *)
(* in two ways only: modem_start failed and main went on with the          *)
(* destroyed client, or receiving failed after a message that had data,    *)
(* whose freed pointer is still in resp.                                   *)
UndefinedOnlyOnFailure ==
    pc = "undefined" => client = "destroyed" \/ (left = "error" /\ HasData(msg))

AnswerPending ==
    /\ callback_state = "app" /\ left = "no"
    /\ \E i \in DOMAIN inbox : inbox[i] = Answer
AnswerTaken == left \in {"app", "error"} \/ ~online \/ pc = "undefined"

(* Once the application's handler is in charge, the answer is not lost: it *)
(* ends the read loop, unless the modem goes offline or the process fails. *)
AnswerFound == AnswerPending ~> AnswerTaken

(* modem.c:417: "The callback exited normally because it reached           *)
(* new_state."                                                             *)
ReachedNewState == left = "utils" => current_state = NewState

(* ipc-imei.c:187: the registered callback "would take over after          *)
(* modem_start is done": no answer goes to the start-up handler.           *)
CallbackTakesOver == ~missed
=============================================================================
