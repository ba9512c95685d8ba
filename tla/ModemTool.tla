----------------------------- MODULE ModemTool ------------------------------
(***************************************************************************)
(* tools/ipc-modem.c: the commands of main, modem_start, the read loop     *)
(* with its handlers, modem_stop.  The modem, its SIM card and the driver  *)
(* are the environment.  Requests that only set up sound or list calls,    *)
(* in_call, out_call and the number called, which decide about nothing     *)
(* else, are left out; so are the sequence numbers, which the tool never   *)
(* reads back.                                                             *)
(*                                                                         *)
(* Payloads have the length their command calls for.                       *)
(***************************************************************************)
EXTENDS Naturals, Sequences

CONSTANTS
    Commands,   \* the command lines: sequences of commands
    MaxSent,    \* messages the modem sends on its own
    MaxInbox,   \* messages the driver holds
    MaxTries    \* wrong PINs the card takes before it asks for the PUK

Command == {"start", "boot", "power-on", "power-off"}

CommandsAssumption == Commands \subseteq Seq(Command) /\ Commands # {}
BoundsAssumption ==
    MaxSent \in Nat /\ MaxInbox \in Nat \ {0} /\ MaxTries \in Nat \ {0}

VARIABLES
    pc,
    args,        \* commands not yet done
    sim_pin,     \* of --pin: "none", "right" or "wrong"
    state,       \* the tool's idea of the modem's state
    call_done,
    msg,         \* the message being handled
    opened,      \* the IPC device is open
    exitcode,    \* "none" while running
    calls,       \* outgoing calls requested
    card,        \* "absent", "free" or "locked" with a PIN
    online, mode, lock, tries, inbox, outbox, sent   \* modem, SIM, driver

tool  == <<pc, args, sim_pin, state, call_done, msg, opened, exitcode, calls>>
modem == <<card, online, mode, lock, tries, inbox, outbox, sent>>
vars  == <<pc, args, sim_pin, state, call_done, msg, opened, exitcode, calls,
           card, online, mode, lock, tries, inbox, outbox, sent>>

Init ==
    /\ pc = "main" /\ args \in Commands
    /\ sim_pin \in {"none", "right", "wrong"}
    /\ state = "LPM" /\ call_done = FALSE /\ msg = "none"
    /\ opened = FALSE /\ exitcode = "none" /\ calls = 0
    /\ card \in {"absent", "free", "locked"}
    /\ online = FALSE /\ mode = "off" /\ lock = "shut"
    /\ tries = MaxTries /\ inbox = <<>> /\ outbox = <<>> /\ sent = 0

(***************************************************************************)
(* main: one command after the other; power-on and power-off are the last. *)
(* Their results, and that of boot, are only printed.                      *)
(***************************************************************************)
Exit(code) == pc' = "exit" /\ exitcode' = code

(* The card after a power-up: it asks for its PIN again, or for its PUK. *)
LockAtBoot == IF lock = "puk" THEN "puk"
              ELSE IF card = "free" THEN "open" ELSE "shut"

(* A modem that boots is in LPM and says so first. *)
ModemBoots ==
    /\ online' = TRUE /\ mode' = "LPM" /\ inbox' = <<"pwr_up">> /\ outbox' = <<>>
    /\ lock' = LockAtBoot
    /\ UNCHANGED <<card, tries, sent>>

ModemOff ==
    /\ online' = FALSE /\ mode' = "off" /\ inbox' = <<>> /\ outbox' = <<>>
    /\ UNCHANGED <<card, lock, tries, sent>>

MainEnds ==
    /\ pc = "main" /\ args = <<>>
    /\ Exit("success")
    /\ UNCHANGED <<args, sim_pin, state, call_done, msg, opened,
                   calls, modem>>

MainPower ==
    /\ pc = "main" /\ args # <<>> /\ Head(args) \in {"power-on", "power-off"}
    /\ Exit("success")
    /\ IF Head(args) = "power-off" THEN ModemOff \/ UNCHANGED modem
                                   ELSE UNCHANGED modem
    /\ UNCHANGED <<args, sim_pin, state, call_done, msg, opened,
                   calls>>

MainBoot ==
    /\ pc = "main" /\ args # <<>> /\ Head(args) = "boot"
    /\ args' = Tail(args)
    /\ ModemBoots \/ UNCHANGED modem
    /\ UNCHANGED <<pc, sim_pin, state, call_done, msg, opened,
                   exitcode, calls>>

(* modem_start: data_create, boot, open, power_on. *)
MainStart ==
    /\ pc = "main" /\ args # <<>> /\ Head(args) = "start"
    /\ args' = Tail(args) /\ pc' = "open"
    /\ ModemBoots
    /\ UNCHANGED <<sim_pin, state, call_done, msg, opened,
                   exitcode, calls>>

MainStartFails ==
    /\ pc = "main" /\ args # <<>> /\ Head(args) = "start"
    /\ args' = Tail(args) /\ pc' = "stop_failed"
    /\ UNCHANGED <<sim_pin, state, call_done, msg, opened,
                   exitcode, calls, modem>>

StartOpen ==
    /\ pc = "open" /\ pc' = "poll" /\ opened' = TRUE
    /\ UNCHANGED <<args, sim_pin, state, call_done, msg,
                   exitcode, calls, modem>>

(* Opening failed, or power_on did with the device open. *)
StartOpenFails ==
    /\ pc = "open" /\ pc' = "stop_failed" /\ opened' \in BOOLEAN
    /\ UNCHANGED <<args, sim_pin, state, call_done, msg,
                   exitcode, calls, modem>>

(* modem_stop: power off, close; the results are not looked at.  After a   *)
(* failed start main returns 1 at once.                                    *)
Stop ==
    /\ pc \in {"stop", "stop_failed"}
    /\ opened' = FALSE
    /\ ModemOff \/ UNCHANGED modem
    /\ \/ pc = "stop_failed" /\ Exit("failure")
       \/ pc = "stop" /\ pc' = "main" /\ UNCHANGED exitcode
    /\ UNCHANGED <<args, sim_pin, state, call_done, msg, calls>>

(***************************************************************************)
(* modem_read_loop.  A poll that fails is repeated for ever; a receive     *)
(* that fails ends the loop.                                               *)
(***************************************************************************)
Poll ==
    /\ pc = "poll" /\ online /\ inbox # <<>>
    /\ pc' = "recv"
    /\ UNCHANGED <<args, sim_pin, state, call_done, msg, opened,
                   exitcode, calls, modem>>

PollFails == pc = "poll" /\ ~online /\ UNCHANGED vars

Recv ==
    /\ pc = "recv" /\ online /\ inbox # <<>>
    /\ msg' = Head(inbox) /\ inbox' = Tail(inbox) /\ pc' = "handle"
    /\ UNCHANGED <<args, sim_pin, state, call_done, opened,
                   exitcode, calls, card, online, mode, lock, tries,
                   outbox, sent>>

RecvFails ==
    /\ pc = "recv" /\ pc' = "stop"
    /\ UNCHANGED <<args, sim_pin, state, call_done, msg, opened,
                   exitcode, calls, modem>>

(* Slip: a reported NORMAL is taken for SIM_OK. *)
ResponsePwrAhead(m) ==
    CASE m = "pwr_up"       -> {"LPM"}
      [] m = "state_lpm"    -> {"other"}
      [] m = "state_normal" -> {"SIM_OK", "other"}
      [] OTHER              -> {state}

(* modem_response_pwr.  PHONE_STATE is read as an int from one byte; its   *)
(* LPM is 1, MODEM_STATE_LPM is 0.                                         *)
ResponsePwr(m) ==
    CASE m = "pwr_up"       -> {"LPM"}
      [] m = "state_lpm"    -> {"other"}
      [] m = "state_normal" -> {"NORMAL", "other"}
      [] OTHER              -> {state}

StateAfter(m) ==
    IF m = "sim_init" /\ state = "NORMAL" THEN {"SIM_OK"} ELSE ResponsePwr(m)

(* Slip: the PIN is sent without a look at whether there is one. *)
ResponseSecNoPin(m) == IF m = "pin_req" THEN {"pin"} ELSE {}

(* modem_response_sec: the requests it sends. *)
ResponseSec(m) == IF m = "pin_req" /\ sim_pin # "none" THEN {"pin"} ELSE {}

(* modem_response_sms *)
ResponseSms(m) ==
    CASE m = "sms_ready" /\ state = "LPM"    -> {"normal"}
      [] m = "sms_ready" /\ state = "SIM_OK" -> {"ready"}
      [] OTHER                               -> {}

(* modem_response_net and modem_exec_call_out. *)
ResponseNet(m) == IF m = "serving" /\ ~call_done THEN {"call"} ELSE {}

(* A request that cannot be sent is lost: no result of ipc_client_send is  *)
(* looked at.                                                              *)
Send(requests) ==
    IF requests = {} THEN outbox' = outbox
    ELSE \E r \in requests : outbox' \in {Append(outbox, r), outbox}

(* Slip: messages of the NET group are not handled. *)
HandleNoNet ==
    /\ pc = "handle" /\ pc' = "poll"
    /\ state' \in StateAfter(msg)
    /\ Send(ResponseSec(msg) \cup ResponseSms(msg))
    /\ UNCHANGED <<args, sim_pin, call_done, msg, opened, calls,
                   exitcode, card, online, mode, lock, tries, inbox, sent>>

(* modem_response_handle *)
Handle ==
    /\ pc = "handle" /\ pc' = "poll"
    /\ state' \in StateAfter(msg)
    /\ Send(ResponseSec(msg) \cup ResponseSms(msg) \cup ResponseNet(msg))
    /\ call_done' = (call_done \/ msg = "serving")
    /\ calls' = IF ResponseNet(msg) # {} THEN calls + 1 ELSE calls
    /\ UNCHANGED <<args, sim_pin, msg, opened, exitcode,
                   card, online, mode, lock, tries, inbox, sent>>

Tool ==
    \/ MainEnds \/ MainPower \/ MainBoot \/ MainStart \/ MainStartFails
    \/ StartOpen \/ StartOpenFails \/ Stop
    \/ Poll \/ PollFails \/ Recv \/ RecvFails \/ Handle

(***************************************************************************)
(* The modem: it tells what is true of it and its card whenever it likes,  *)
(* does what it is asked to, may start anew and may go offline.            *)
(***************************************************************************)
TrueReports ==
    (IF mode = "LPM" THEN {"state_lpm", "sms_ready"} ELSE {}) \cup
    (IF mode = "NORMAL" THEN {"state_normal", "sms_ready"} ELSE {}) \cup
    (CASE card = "absent" -> {"no_card"}
       [] lock = "puk"    -> {"puk_req"}
       [] lock = "open"   -> {"sim_init"}
       [] OTHER           -> {"pin_req"}) \cup
    (IF mode = "NORMAL" /\ lock = "open" THEN {"serving", "call"} ELSE {})

Report ==
    /\ online /\ sent < MaxSent /\ Len(inbox) < MaxInbox
    /\ \E m \in TrueReports : inbox' = Append(inbox, m)
    /\ sent' = sent + 1
    /\ UNCHANGED <<tool, card, online, mode, lock, tries, outbox>>

(* The PIN "none" is the empty PIN of a request sent without one. *)
ServeRequest ==
    /\ online /\ outbox # <<>>
    /\ outbox' = Tail(outbox)
    /\ mode' = IF Head(outbox) = "normal" THEN "NORMAL" ELSE mode
    /\ IF Head(outbox) = "pin" /\ lock = "shut"
       THEN IF sim_pin = "right"
            THEN lock' = "open" /\ tries' = MaxTries
            ELSE /\ tries' = tries - 1
                 /\ lock' = IF tries = 1 THEN "puk" ELSE "shut"
       ELSE UNCHANGED <<lock, tries>>
    /\ UNCHANGED <<tool, card, online, inbox, sent>>

StartsAnew ==
    /\ online /\ sent < MaxSent /\ Len(inbox) < MaxInbox
    /\ inbox' = Append(inbox, "pwr_up") /\ sent' = sent + 1
    /\ mode' = "LPM" /\ lock' = LockAtBoot
    /\ UNCHANGED <<tool, card, online, tries, outbox>>

GoesOffline ==
    /\ online /\ online' = FALSE
    /\ UNCHANGED <<tool, card, mode, lock, tries, inbox, outbox, sent>>

Ended == pc = "exit" /\ UNCHANGED vars

Next == Tool \/ Report \/ ServeRequest \/ StartsAnew \/ GoesOffline \/ Ended

(* The process runs; nothing is promised of the modem. *)
Spec == Init /\ [][Next]_vars /\ WF_vars(Tool)

-----------------------------------------------------------------------------
Pending(m) == \E i \in DOMAIN inbox : inbox[i] = m

(* Only a PIN the user gave, and a wrong one, costs the card a try; the    *)
(* same wrong PIN is repeated at every request until the card wants its    *)
(* PUK.                                                                    *)
TriesOnlyByWrongPin == tries < MaxTries => sim_pin = "wrong"

(* What the tool takes for a ready modem is one: while it believes in      *)
(* SIM_OK the modem is in NORMAL with an unlocked card, unless the news of *)
(* a new start is still on its way or the modem is not there any more.     *)
SimOkIsTrue ==
    pc \in {"poll", "recv"} /\ online /\ state = "SIM_OK" =>
        (mode = "NORMAL" /\ lock = "open") \/ Pending("pwr_up")

Registered == pc \in {"poll", "recv"} /\ Pending("serving")
Called == calls > 0 \/ ~online \/ pc \in {"stop", "exit"}

(* A report of the serving network leads to the call, unless receiving     *)
(* fails or the modem goes offline.  (The code asks for the call without   *)
(* --call too, with an empty number.)                                      *)
CallFollowsRegistration == Registered ~> Called
=============================================================================
