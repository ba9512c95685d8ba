----------------------------- MODULE ToolsProofs ----------------------------
(***************************************************************************)
(* Proofs about Tools: what ipc-imei and ipc-modem can rely on, for any    *)
(* number of messages, any size of the driver's queue and any number of    *)
(* tries a card allows.  In each part the actions of one program are shown *)
(* to keep its inductive invariant; the theorems at the end are about the  *)
(* composed specification.                                                 *)
(***************************************************************************)
EXTENDS Tools, Integers, TLAPS

-----------------------------------------------------------------------------
(***************************************************************************)
(* ipc-modem.                                                              *)
(***************************************************************************)
Request == {"pin", "normal", "ready", "call"}
(* What the modem of ipc-modem can send. *)
Message == {"pwr_up", "state_lpm", "state_normal", "sms_ready", "no_card",
            "puk_req", "pin_req", "sim_init", "serving", "call"}

(* No request with a PIN is under way when the user gave none. *)
PinOnlyIfGiven ==
    sim_pin = "none" => \A k \in DOMAIN outbox : outbox[k] # "pin"

(* Requests, tries, and the property itself. *)
PinInv ==
    /\ sim_pin \in {"none", "right", "wrong"}
    /\ outbox \in Seq(Request)
    /\ tries \in Int
    /\ PinOnlyIfGiven
    /\ Modem!TriesOnlyByWrongPin

(* A report that was true when it was sent is true, or a later message in  *)
(* the driver's queue says that the modem has started anew.                *)
NewsAfter(k) == \E j \in DOMAIN inbox : j > k /\ inbox[j] = "pwr_up"
NormalReports ==
    \A k \in DOMAIN inbox : inbox[k] = "state_normal" => mode = "NORMAL" \/ NewsAfter(k)
OpenReports ==
    \A k \in DOMAIN inbox : inbox[k] = "sim_init" => lock = "open" \/ NewsAfter(k)

(* The same of the message being handled, and of what the tool believes.   *)
News     == Modem!Pending("pwr_up")
Handling == pc = "handle"
Handled ==
    Handling =>
        /\ msg = "state_normal" => mode = "NORMAL" \/ News
        /\ msg = "sim_init" => lock = "open" \/ News
NewsDue == News \/ (Handling /\ msg = "pwr_up")
Beliefs ==
    /\ state \in {"NORMAL", "SIM_OK"} => mode = "NORMAL" \/ NewsDue
    /\ state = "SIM_OK" => lock = "open" \/ NewsDue

(* The tool listens to a modem it has booted. *)
Listening == online /\ pc \in {"open", "poll", "recv", "handle"}

(* What is believed while the tool listens. *)
BeliefInv ==
    /\ inbox \in Seq(Message)
    /\ Listening => NormalReports /\ OpenReports /\ Handled /\ Beliefs

(* The inductive invariant of ipc-modem. *)
ModemInv == PinInv /\ BeliefInv

USE DEF Modem!TriesOnlyByWrongPin

(* What Handle sends: a PIN only if there is one. *)
LEMMA HandleSends ==
    ASSUME Modem!Handle
    PROVE  \/ outbox' = outbox
           \/ \E r \in Request : /\ outbox' = Append(outbox, r)
                                 /\ sim_pin = "none" => r # "pin"
  <1> DEFINE Requests == Modem!ResponseSec(msg) \cup Modem!ResponseSms(msg)
                             \cup Modem!ResponseNet(msg)
  <1>1. Requests \subseteq Request /\ (sim_pin = "none" => "pin" \notin Requests)
    BY DEF Request, Modem!ResponseSec, Modem!ResponseSms, Modem!ResponseNet
  <1>2. outbox' = outbox \/ \E r \in Requests : outbox' = Append(outbox, r)
    BY DEF Modem!Handle, Modem!Send
  <1> HIDE DEF Requests
  <1>3. QED
    BY <1>1, <1>2 DEF Message

(* A PIN is sent only when the user gave one, and a try is lost only by    *)
(* it.                                                                     *)
LEMMA PinStep ==
    ASSUME PinInv, Modem!Next
    PROVE  PinInv'
  <1>1. CASE Modem!Handle
    <2>1. UNCHANGED <<sim_pin, tries>>
      BY <1>1 DEF Modem!Handle
    <2>2. QED
      BY <1>1, <2>1, HandleSends DEF PinInv, PinOnlyIfGiven
  <1>2. CASE Modem!ServeRequest
    <2>1. /\ outbox # <<>> /\ outbox' = Tail(outbox) /\ sim_pin' = sim_pin
          /\ IF Head(outbox) = "pin" /\ lock = "shut"
             THEN \/ sim_pin = "right" /\ tries' = MaxTries
                  \/ sim_pin # "right" /\ tries' = tries - 1
             ELSE tries' = tries
      BY <1>2 DEF Modem!ServeRequest, Modem!tool
    <2>2. MaxTries \in Int
      BY ModemAssumption DEF Modem!BoundsAssumption
    <2>3. QED
      BY <2>1, <2>2 DEF PinInv, PinOnlyIfGiven
  <1>3. CASE Modem!MainBoot \/ Modem!MainStart \/ Modem!MainPower \/ Modem!Stop
    <2>1. (outbox' = <<>> \/ outbox' = outbox) /\ UNCHANGED <<sim_pin, tries>>
      BY <1>3 DEF Modem!MainBoot, Modem!MainStart, Modem!MainPower, Modem!Stop,
                  Modem!ModemBoots, Modem!ModemOff, Modem!modem
    <2>2. CASE outbox' = <<>>
      BY <2>1, <2>2 DEF PinInv, PinOnlyIfGiven
    <2>3. QED
      BY <2>1, <2>2 DEF PinInv, PinOnlyIfGiven
  <1>4. CASE UNCHANGED <<outbox, sim_pin, tries>>
    BY <1>4 DEF PinInv, PinOnlyIfGiven
  <1>5. QED
    BY <1>1, <1>2, <1>3, <1>4
    DEF Modem!Next, Modem!Tool, Modem!MainEnds, Modem!MainStartFails,
        Modem!StartOpen, Modem!StartOpenFails, Modem!Poll, Modem!PollFails,
        Modem!Recv, Modem!RecvFails, Modem!Report, Modem!StartsAnew,
        Modem!GoesOffline, Modem!Ended, Modem!modem, Modem!tool, Modem!vars

(* What the handlers make of a message. *)
LEMMA StateStep ==
    ASSUME Modem!Handle
    PROVE  /\ state' = "NORMAL" =>
                  msg = "state_normal" \/ (state = "NORMAL" /\ msg # "pwr_up")
           /\ state' = "SIM_OK" =>
                  \/ state = "NORMAL" /\ msg = "sim_init"
                  \/ state = "SIM_OK" /\ msg # "pwr_up"
  BY DEF Modem!Handle, Modem!StateAfter, Modem!ResponsePwr

(* A report is true when it is sent. *)
LEMMA ReportIsTrue ==
    ASSUME NEW m \in Modem!TrueReports
    PROVE  /\ m \in Message
           /\ m = "state_normal" => mode = "NORMAL"
           /\ m = "sim_init" => lock = "open"
  <1> DEFINE Sim == CASE card = "absent" -> {"no_card"}
                      [] lock = "puk"    -> {"puk_req"}
                      [] lock = "open"   -> {"sim_init"}
                      [] OTHER           -> {"pin_req"}
  <1>1. \/ Sim = {"no_card"} \/ Sim = {"puk_req"} \/ Sim = {"pin_req"}
        \/ lock = "open" /\ Sim = {"sim_init"}
    OBVIOUS
  <1>2. \/ m \in {"state_lpm", "sms_ready", "serving", "call"}
        \/ mode = "NORMAL" /\ m = "state_normal"
        \/ m \in Sim
    BY DEF Modem!TrueReports
  <1> HIDE DEF Sim
  <1>3. QED
    BY <1>1, <1>2 DEF Message

USE DEF NormalReports, OpenReports, Handled, NewsDue, Beliefs, News,
        NewsAfter, Handling, Listening, Modem!Pending

(* What the tool believes of the modem stays true or due to be corrected. *)
LEMMA BeliefStep ==
    ASSUME BeliefInv, Modem!Next
    PROVE  BeliefInv'
  <1>1. CASE Modem!Handle
    <2>1. pc = "handle" /\ pc' = "poll" /\ UNCHANGED <<online, mode, lock, inbox>>
      BY <1>1 DEF Modem!Handle
    <2>2. QED
      BY <1>1, <2>1, StateStep DEF BeliefInv
  <1>2. CASE Modem!Recv
    <2>1. /\ inbox # <<>> /\ inbox' = Tail(inbox) /\ msg' = Head(inbox)
          /\ pc = "recv" /\ pc' = "handle" /\ UNCHANGED <<state, online, mode, lock>>
      BY <1>2 DEF Modem!Recv
    <2>2. /\ inbox' \in Seq(Message) /\ msg' = inbox[1]
          /\ \A k \in DOMAIN inbox' : k + 1 \in DOMAIN inbox /\ inbox'[k] = inbox[k + 1]
          /\ \A k \in DOMAIN inbox : k > 1 => k - 1 \in DOMAIN inbox' /\ inbox'[k - 1] = inbox[k]
          /\ DOMAIN inbox \subseteq Int /\ DOMAIN inbox' \subseteq Int
          /\ 1 \in DOMAIN inbox
          /\ \A k \in DOMAIN inbox : k >= 1
      BY <2>1 DEF BeliefInv
    <2>3. SUFFICES ASSUME Listening
                   PROVE  (NormalReports /\ OpenReports /\ Handled /\ Beliefs)'
      BY <2>1, <2>2 DEF BeliefInv
    <2>4. NormalReports /\ OpenReports /\ Beliefs
      BY <2>1, <2>3 DEF BeliefInv
    <2>5. \A k \in DOMAIN inbox : NewsAfter(k) =>
              News' /\ \A i \in DOMAIN inbox' : i + 1 = k => NewsAfter(i)'
      <3>1. SUFFICES ASSUME NEW k \in DOMAIN inbox,
                            NEW j \in DOMAIN inbox, j > k, inbox[j] = "pwr_up"
                     PROVE  /\ j - 1 \in DOMAIN inbox' /\ inbox'[j - 1] = "pwr_up"
                            /\ \A i \in DOMAIN inbox' : i + 1 = k => j - 1 > i
        OBVIOUS
      <3>2. QED
        BY <2>2, <3>1
    <2>6. NormalReports'
      BY <2>1, <2>2, <2>4, <2>5
    <2>7. OpenReports'
      BY <2>1, <2>2, <2>4, <2>5
    <2>8. Handled'
      BY <2>1, <2>2, <2>4, <2>5
    <2>9. NewsDue => NewsDue'
      <3>1. ASSUME NEW j \in DOMAIN inbox, inbox[j] = "pwr_up"
            PROVE  NewsDue'
        <4>1. CASE j = 1
          BY <2>1, <2>2, <3>1, <4>1
        <4>2. CASE j > 1
          BY <2>2, <3>1, <4>2
        <4>3. QED
          BY <2>2, <4>1, <4>2
      <3>2. QED
        BY <2>1, <3>1
    <2>10. QED
      BY <2>1, <2>4, <2>6, <2>7, <2>8, <2>9
  <1>3. CASE Modem!ServeRequest
    <2>1. /\ UNCHANGED <<pc, state, msg, online, inbox>>
          /\ mode = "NORMAL" => mode' = "NORMAL"
          /\ lock = "open" => lock' = "open"
      BY <1>3 DEF Modem!ServeRequest, Modem!tool
    <2>2. QED
      BY <2>1 DEF BeliefInv
  <1>4. CASE Modem!Report
    <2>1. PICK m \in Modem!TrueReports : inbox' = Append(inbox, m)
      BY <1>4 DEF Modem!Report
    <2>2. UNCHANGED <<pc, state, msg, online, mode, lock>>
      BY <1>4 DEF Modem!Report, Modem!tool
    <2>3. QED
      BY <2>1, <2>2, ReportIsTrue DEF BeliefInv
  <1>5. CASE Modem!StartsAnew
    <2>1. inbox' = Append(inbox, "pwr_up") /\ UNCHANGED <<pc, state, msg, online>>
      BY <1>5 DEF Modem!StartsAnew, Modem!tool
    <2>2. /\ inbox' \in Seq(Message)
          /\ Len(inbox') \in DOMAIN inbox' /\ inbox'[Len(inbox')] = "pwr_up"
          /\ \A k \in DOMAIN inbox' : k = Len(inbox') \/ k < Len(inbox')
      BY <2>1 DEF BeliefInv, Message
    <2>3. QED
      BY <2>1, <2>2 DEF BeliefInv
  <1>6. CASE Modem!MainStart
    <2>1. inbox' = <<"pwr_up">> /\ pc' = "open"
      BY <1>6 DEF Modem!MainStart, Modem!ModemBoots
    <2>2. inbox' \in Seq(Message) /\ DOMAIN inbox' = {1} /\ inbox'[1] = "pwr_up"
      BY <2>1 DEF Message
    <2>3. QED
      BY <2>1, <2>2 DEF BeliefInv
  <1>7. CASE Modem!MainBoot \/ Modem!MainPower \/ Modem!Stop \/ Modem!GoesOffline
    <2>1. /\ inbox' = <<>> \/ inbox' = <<"pwr_up">> \/ inbox' = inbox
          /\ pc' \in {"main", "exit"} \/ online' = FALSE
      BY <1>7 DEF Modem!MainBoot, Modem!MainPower, Modem!Stop, Modem!Exit,
                  Modem!GoesOffline, Modem!ModemBoots, Modem!ModemOff, Modem!modem
    <2>2. <<>> \in Seq(Message) /\ <<"pwr_up">> \in Seq(Message)
      BY DEF Message
    <2>3. QED
      BY <2>1, <2>2 DEF BeliefInv
  <1>8. CASE \/ Modem!MainEnds \/ Modem!MainStartFails \/ Modem!StartOpen
             \/ Modem!StartOpenFails \/ Modem!Poll \/ Modem!PollFails
             \/ Modem!RecvFails \/ Modem!Ended
    <2>1. /\ UNCHANGED <<state, msg, online, mode, lock, inbox>>
          /\ pc' = pc \/ pc' \notin {"open", "handle"}
          /\ pc' \in {"poll", "recv"} => pc \in {"open", "poll", "recv"}
      BY <1>8 DEF Modem!MainEnds, Modem!MainStartFails, Modem!StartOpen,
                  Modem!StartOpenFails, Modem!Poll, Modem!PollFails, Modem!Exit,
                  Modem!RecvFails, Modem!Ended, Modem!modem, Modem!vars
    <2>2. QED
      BY <2>1 DEF BeliefInv
  <1>9. QED
    BY <1>1, <1>2, <1>3, <1>4, <1>5, <1>6, <1>7, <1>8 DEF Modem!Next, Modem!Tool

(* Before the first message nothing is believed and nothing was sent. *)
LEMMA ModemInit == Modem!Init => ModemInv
  <1> SUFFICES ASSUME Modem!Init PROVE ModemInv
    OBVIOUS
  <1>1. MaxTries \in Int
    BY ModemAssumption DEF Modem!BoundsAssumption
  <1>2. PinInv
    BY <1>1 DEF Modem!Init, PinInv, PinOnlyIfGiven
  <1>3. BeliefInv
    BY DEF Modem!Init, BeliefInv
  <1>4. QED
    BY <1>2, <1>3 DEF ModemInv

-----------------------------------------------------------------------------
(***************************************************************************)
(* ipc-imei.                                                               *)
(***************************************************************************)

(* The pointer in resp is that of the message being handled; a freed one   *)
(* is left over from a message that had data.                              *)
Starting == {"data_create", "boot", "power_on", "open", "power_on_again", "request"}
RespInv ==
    /\ client \in {"live", "destroyed"}
    /\ pc \in Starting => resp = "null"
    /\ pc = "handle" => resp = Imei!RespAfter(msg)
    /\ pc \in {"poll", "recv"} /\ resp = "freed" => Imei!HasData(msg)
    /\ Imei!UndefinedOnlyOnFailure

(* The loop ended for a reason.  (While the start-up handler is in charge  *)
(* of a modem that is to be in LPM, it is thought to be there.)            *)
Reason == found \/ left = "error" \/ msg = "no_card"
ReasonInv ==
    /\ NewState = "LPM" /\ callback_state # "app" => current_state = "LPM"
    /\ pc \in {"close", "power_off"} => Reason
    /\ Imei!ImeiOrReason

USE DEF Imei!UndefinedOnlyOnFailure, Imei!ImeiOrReason

(* A message received is used once and freed once. *)
LEMMA RespStep ==
    ASSUME RespInv, Imei!Next
    PROVE  RespInv'
  <1>1. CASE Imei!StartStep \/ Imei!StartFails
    <2>1. pc \in Starting /\ pc' \in Starting /\ resp' = resp
          /\ client' \in {client, "destroyed"}
      BY <1>1 DEF Imei!StartStep, Imei!StartFails, Imei!Steps, Imei!StepAfter, Starting
    <2>2. QED
      BY <2>1 DEF RespInv, Starting
  <1>2. CASE Imei!RequestImei
    BY <1>2 DEF RespInv, Starting, Imei!RequestImei
  <1>3. CASE Imei!Recv
    BY <1>3 DEF RespInv, Starting, Imei!Recv
  <1>4. CASE Imei!RecvFails
    BY <1>4 DEF RespInv, Starting, Imei!RecvFails, Imei!RespAfter
  <1>5. CASE Imei!HandleInUtils \/ Imei!HandleInApp
    <2>1. /\ pc = "handle" /\ msg' = msg /\ client' = client
          /\ resp # "freed" => pc' \in {"poll", "close"}
          /\ resp' = IF resp = "null" THEN "null" ELSE "freed"
      BY <1>5 DEF Imei!HandleInUtils, Imei!HandleInApp, Imei!LoopEnds
    <2>2. QED
      BY <2>1 DEF RespInv, Starting, Imei!RespAfter
  <1>6. CASE Imei!Close \/ Imei!PowerOff \/ Imei!StopFails
    BY <1>6 DEF RespInv, Starting, Imei!Close, Imei!PowerOff, Imei!StopFails
  <1>7. CASE Imei!Poll
    BY <1>7 DEF RespInv, Starting, Imei!Poll
  <1>8. CASE UNCHANGED <<pc, resp, msg, client, left>>
    BY <1>8 DEF RespInv, Starting
  <1>9. QED
    BY <1>1, <1>2, <1>3, <1>4, <1>5, <1>6, <1>7, <1>8
    DEF Imei!Next, Imei!Tool, Imei!PollFails, Imei!ModemSends,
        Imei!ModemAnswers, Imei!ModemFails, Imei!Ended, Imei!vars, Imei!tool

(* ipc-imei asks for NORMAL; a card is required only of SIM_OK. *)
LEMMA ReasonStep ==
    ASSUME ReasonInv, Imei!Next, NewState # "SIM_OK"
    PROVE  ReasonInv'
  <1>1. CASE Imei!StartStep \/ Imei!StartFails
    <2>1. /\ pc' \notin {"close", "power_off", "exit"}
          /\ UNCHANGED <<callback_state, current_state>>
      BY <1>1 DEF Imei!StartStep, Imei!StartFails, Imei!Steps, Imei!StepAfter
    <2>2. QED
      BY <2>1 DEF ReasonInv
  <1>2. CASE Imei!RequestImei \/ Imei!Recv \/ Imei!Poll
    <2>1. /\ pc' \in {"undefined", "handle", "poll", "recv"}
          /\ UNCHANGED <<callback_state, current_state>>
      BY <1>2 DEF Imei!RequestImei, Imei!Recv, Imei!Poll
    <2>2. QED
      BY <2>1 DEF ReasonInv
  <1>3. CASE Imei!RecvFails
    BY <1>3 DEF ReasonInv, Reason, Imei!RecvFails
  <1>4. CASE Imei!HandleInUtils
    <2>1. /\ current_state # NewState /\ callback_state = "utils"
          /\ pc' \in {"undefined", "poll", "close"}
          /\ pc' = "close" => Imei!ResponseSec(msg) # "again"
          /\ Imei!ResponseSec(msg) \notin {"again", "done"} => left' = "error"
          /\ msg' = msg
      BY <1>4 DEF Imei!HandleInUtils, Imei!LoopEnds, Imei!CallbackAfter
    <2>2. NewState = "NORMAL"
      BY <2>1, ImeiAssumption DEF ReasonInv, Imei!NewStateAssumption, Imei!States
    <2>3. Imei!ResponseSec(msg) = "done" => msg = "no_card"
      BY <2>1, <2>2 DEF Imei!ResponseSec
    <2>4. QED
      BY <2>1, <2>2, <2>3 DEF ReasonInv, Reason
  <1>5. CASE Imei!HandleInApp
    <2>1. /\ callback_state' = "app"
          /\ pc' \in {"undefined", "poll", "close"}
          /\ pc' = "close" => found'
      BY <1>5 DEF Imei!HandleInApp, Imei!LoopEnds, Imei!AppResponse, Imei!Answer
    <2>2. QED
      BY <2>1 DEF ReasonInv, Reason
  <1>6. CASE Imei!Close \/ Imei!PowerOff \/ Imei!StopFails
    BY <1>6 DEF ReasonInv, Reason, Imei!Close, Imei!PowerOff, Imei!StopFails
  <1>7. CASE UNCHANGED <<pc, msg, left, found, status, callback_state, current_state>>
    BY <1>7 DEF ReasonInv, Reason
  <1>8. QED
    BY <1>1, <1>2, <1>3, <1>4, <1>5, <1>6, <1>7
    DEF Imei!Next, Imei!Tool, Imei!PollFails, Imei!ModemSends,
        Imei!ModemAnswers, Imei!ModemFails, Imei!Ended, Imei!vars, Imei!tool

(* ipc-imei has nothing received and nothing to report when it starts. *)
LEMMA ImeiInit == Imei!Init => RespInv /\ ReasonInv
  BY DEF Imei!Init, RespInv, ReasonInv, Starting

-----------------------------------------------------------------------------
(***************************************************************************)
(* The composed specification.                                             *)
(***************************************************************************)
IInv ==
    /\ RunsModem => ModemInv
    /\ RunsImei => RespInv
    /\ RunsImei /\ NewState # "SIM_OK" => ReasonInv

(* Each program keeps its invariant, whatever the modem sends. *)
THEOREM Inductive == Spec => []IInv
  <1>1. Init => IInv
    BY ModemInit, ImeiInit DEF Init, IInv, RunsImei, RunsModem
  <1>2. IInv /\ [Next]_vars => IInv'
    <2>1. SUFFICES ASSUME IInv, [Next]_vars PROVE IInv'
      OBVIOUS
    <2>2. CASE AsImei /\ Imei!Next
      BY <2>1, <2>2, RespStep, ReasonStep DEF IInv, AsImei, RunsImei, RunsModem
    <2>3. CASE AsModem /\ Modem!Next
      BY <2>1, <2>3, PinStep, BeliefStep DEF IInv, ModemInv, AsModem, RunsImei, RunsModem
    <2>4. CASE UNCHANGED vars
      BY <2>1, <2>4
      DEF IInv, vars, shared, ipcimei, ipcmodem, RunsImei, RunsModem, ModemInv,
          PinInv, PinOnlyIfGiven, BeliefInv, RespInv, Starting, ReasonInv, Reason
    <2>5. QED
      BY <2>1, <2>2, <2>3, <2>4 DEF Next
  <1>3. QED
    BY <1>1, <1>2, PTL DEF Spec

(* ipc-modem, modem_response_sec: whatever is received in whatever order,  *)
(* a card loses a try only by a wrong PIN the user gave.                   *)
THEOREM OnlyWrongPinsCostTries == Spec => []TriesOnlyByWrongPin
  <1>1. IInv => TriesOnlyByWrongPin
    BY DEF IInv, ModemInv, PinInv, TriesOnlyByWrongPin
  <1>2. QED
    BY <1>1, Inductive, PTL

(* ipc-modem, modem_response_handle: what the tool takes for a ready modem *)
(* is one, or the news of its new start is under way.                      *)
THEOREM ReadyModemIsReady == Spec => []SimOkIsTrue
  <1>1. IInv => SimOkIsTrue
    BY DEF IInv, ModemInv, BeliefInv, SimOkIsTrue, Modem!SimOkIsTrue
  <1>2. QED
    BY <1>1, Inductive, PTL

(* common/modem.c, modem_read_loop: no payload is freed twice, and no      *)
(* client used that is not there, but after a failed start or receive.     *)
THEOREM NoUndefinedOtherwise == Spec => []UndefinedOnlyOnFailure
  <1>1. IInv => UndefinedOnlyOnFailure
    BY DEF IInv, RespInv, UndefinedOnlyOnFailure
  <1>2. QED
    BY <1>1, Inductive, PTL

(* ipc-imei.c, main: for any state to be reached that needs no card, as    *)
(* the NORMAL of ipc-imei, an exit with 0 shows the IMEI or has a reason.  *)
THEOREM ImeiIsShown ==
    ASSUME NewState # "SIM_OK"
    PROVE  Spec => []ImeiOrReason
  <1>1. IInv => ImeiOrReason
    BY DEF IInv, ReasonInv, ImeiOrReason
  <1>2. QED
    BY <1>1, Inductive, PTL
=============================================================================
