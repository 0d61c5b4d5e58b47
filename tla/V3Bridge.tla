------------------------------ MODULE V3Bridge ------------------------------
(***************************************************************************)
(* The register bridge (mcu_to_ble_protocol_v3.0.c): a read or a write of  *)
(* a controller register, received over BLE, goes out on the UART; the     *)
(* controller's reply goes back, and when none has come after 800 ms the   *)
(* module answers NO_REPLY itself.                                         *)
(*                                                                         *)
(* Three contexts share v3_state without any lock: the Bluetooth receive   *)
(* thread forwards requests, the UART interrupt forwards replies, the      *)
(* 200 ms timer interrupt looks for timeouts.  An interrupt may come       *)
(* between any two statements of the thread, which is one step per         *)
(* statement here; the interrupts are atomic.                              *)
(*                                                                         *)
(* External: an application that sends one request at a time and takes     *)
(* the next notification for its answer, and a controller that answers     *)
(* what it receives, in order.                                             *)
(***************************************************************************)
EXTENDS Integers, Sequences

CONSTANTS
    Grp,            \* register groups
    MaxRequests,    \* bound on requests of the application
    MaxLoss,        \* bound on requests and replies lost on the UART
    MaxDamage,      \* bound on replies damaged on the UART
    MaxLate         \* bound on timeouts that expire with a frame on the UART

ASSUME V3BridgeAssumption ==
    {MaxRequests, MaxLoss, MaxDamage, MaxLate} \subseteq Nat

VARIABLES
    v3,         \* v3_state, without send_time_ms
    expired,    \* 800 ms have passed since send_time_ms
    thread,     \* the Bluetooth thread: the next statement, the request it handles
    timer,      \* check_timeout_timer has been started
    tx,         \* requests on the wire to the controller
    rx,         \* replies on the wire from the controller
    app,        \* the application: waiting for an answer, requests made so far
    answer,     \* the last notification to the application
    last,       \* history: the request forwarded last, the one before it, whether
                \* 800 ms have passed since, whether the controller has answered it
    faults      \* faults spent so far, per kind

wires == <<tx, rx>>
vars  == <<v3, expired, thread, timer, tx, rx, app, answer, last, faults>>

Cmd     == {"WRITE_CTRL", "READ_CTRL"}
Request == [cmd : Cmd, grp : Grp]
Number  == 0..MaxRequests
Pc      == {"idle", "send", "waiting", "cmd", "grp", "time"}
Kind    == {"none", "reply", "crc_error", "no_reply"}
TxFrame == [req : Request, id : Number]
RxFrame == [req : Request, id : Number, good : BOOLEAN]

TypeOK ==
    /\ v3 \in [waiting_mcu_reply : BOOLEAN, pending_cmd : Cmd, pending_grp : Grp]
    /\ expired \in BOOLEAN
    /\ thread \in [pc : Pc, req : Request]
    /\ timer \in BOOLEAN
    /\ tx \in Seq(TxFrame)
    /\ rx \in Seq(RxFrame)
    /\ app \in [waiting : BOOLEAN, made : Number]
    /\ answer \in [kind : Kind, cmd : Cmd, grp : Grp]
    /\ last \in [req : Request, before : Request, id : Number, due : BOOLEAN, heard : BOOLEAN]
    /\ faults \in [loss : Nat, damage : Nat, late : Nat]

(* Zero-initialised storage: the command 0x00 is WRITE_CTRL; at the first    *)
(* request the clock is well past 800 ms, send_time_ms is 0.                 *)
Init ==
    /\ \E grp \in Grp :
          /\ v3 = [waiting_mcu_reply |-> FALSE, pending_cmd |-> "WRITE_CTRL",
                   pending_grp |-> grp]
          /\ thread = [pc |-> "idle", req |-> [cmd |-> "WRITE_CTRL", grp |-> grp]]
          /\ answer = [kind |-> "none", cmd |-> "WRITE_CTRL", grp |-> grp]
          /\ last = [req |-> [cmd |-> "WRITE_CTRL", grp |-> grp],
                     before |-> [cmd |-> "WRITE_CTRL", grp |-> grp],
                     id |-> 0, due |-> TRUE, heard |-> FALSE]
    /\ expired = TRUE
    /\ timer = FALSE
    /\ tx = <<>>
    /\ rx = <<>>
    /\ app = [waiting |-> FALSE, made |-> 0]
    /\ faults = [loss |-> 0, damage |-> 0, late |-> 0]

(* bt_ven_notify: the application takes it for the answer it waits for. *)
Notify(kind, cmd, grp) ==
    /\ answer' = [kind |-> kind, cmd |-> cmd, grp |-> grp]
    /\ app' = [app EXCEPT !.waiting = FALSE]

-----------------------------------------------------------------------------
(* V3_handle_read_write, in the Bluetooth thread. *)

(* A frame with a wrong check code is answered at once. *)
Refuse(req) ==
    /\ thread.pc = "idle"
    /\ ~app.waiting
    /\ app.made < MaxRequests
    /\ answer' = [kind |-> "crc_error", cmd |-> req.cmd, grp |-> req.grp]
    /\ app' = [app EXCEPT !.made = @ + 1]
    /\ UNCHANGED <<v3, expired, thread, timer, wires, last, faults>>

Accept(req) ==
    /\ thread.pc = "idle"
    /\ ~app.waiting
    /\ app.made < MaxRequests
    /\ app' = [waiting |-> TRUE, made |-> app.made + 1]
    /\ thread' = [pc |-> "send", req |-> req]
    /\ UNCHANGED <<v3, expired, timer, wires, answer, last, faults>>

V3_handle_read_write(req) == Refuse(req) \/ Accept(req)

At(pc, next) == thread.pc = pc /\ thread' = [thread EXCEPT !.pc = next]

(* ble_send_data returns when the last byte has left the UART. *)
Send ==
    /\ At("send", "waiting")
    /\ tx' = Append(tx, [req |-> thread.req, id |-> app.made])
    /\ last' = [req |-> thread.req, before |-> last.req, id |-> app.made,
                due |-> FALSE, heard |-> FALSE]
    /\ UNCHANGED <<v3, expired, timer, rx, app, answer, faults>>

SetWaiting ==
    /\ At("waiting", "cmd")
    /\ v3' = [v3 EXCEPT !.waiting_mcu_reply = TRUE]
    /\ UNCHANGED <<expired, timer, wires, app, answer, last, faults>>

SetCmd ==
    /\ At("cmd", "grp")
    /\ v3' = [v3 EXCEPT !.pending_cmd = thread.req.cmd]
    /\ UNCHANGED <<expired, timer, wires, app, answer, last, faults>>

(* Mutant: the command is stored for the group. *)
SetGrpToCmd ==
    /\ At("grp", "time")
    /\ v3' = [v3 EXCEPT !.pending_grp = thread.req.cmd]
    /\ UNCHANGED <<expired, timer, wires, app, answer, last, faults>>

(* Mutant: the group is not recorded. *)
SetGrpForgotten ==
    /\ At("grp", "time")
    /\ UNCHANGED <<v3, expired, timer, wires, app, answer, last, faults>>

SetGrp ==
    /\ At("grp", "time")
    /\ v3' = [v3 EXCEPT !.pending_grp = thread.req.grp]
    /\ UNCHANGED <<expired, timer, wires, app, answer, last, faults>>

SetTime ==
    /\ At("time", "idle")
    /\ expired' = FALSE
    /\ UNCHANGED <<v3, timer, wires, app, answer, last, faults>>

Thread == Send \/ SetWaiting \/ SetCmd \/ SetGrp \/ SetTime

-----------------------------------------------------------------------------
V3_crc_verify(frame) == frame.good

(* Mutant: a reply with a wrong check code ends the wait without an answer. *)
ReplyDamagedDropped ==
    /\ rx # <<>>
    /\ rx' = Tail(rx)
    /\ IF V3_crc_verify(Head(rx))
       THEN Notify("reply", Head(rx).req.cmd, Head(rx).req.grp)
       ELSE UNCHANGED <<answer, app>>
    /\ v3' = [v3 EXCEPT !.waiting_mcu_reply = FALSE]
    /\ last' = [last EXCEPT !.heard = @ \/ Head(rx).id = last.id]
    /\ UNCHANGED <<expired, thread, timer, tx, faults>>

(* The UART interrupt: V3_handle_mcu_reply.  Whether the module waits, and   *)
(* for what, is not asked; a reply with a wrong check code is reported and   *)
(* leaves the module waiting.                                                *)
V3_handle_mcu_reply ==
    /\ rx # <<>>
    /\ rx' = Tail(rx)
    /\ LET reply == Head(rx)
       IN  /\ Notify(IF V3_crc_verify(reply) THEN "reply" ELSE "crc_error",
                     reply.req.cmd, reply.req.grp)
           /\ v3' = IF V3_crc_verify(reply) THEN [v3 EXCEPT !.waiting_mcu_reply = FALSE] ELSE v3
           /\ last' = [last EXCEPT !.heard = @ \/ reply.id = last.id]
    /\ UNCHANGED <<expired, thread, timer, tx, faults>>

(* Mutant: only writes are answered when they time out. *)
TimeoutOfWritesOnly ==
    /\ timer
    /\ v3.waiting_mcu_reply
    /\ expired
    /\ IF v3.pending_cmd = "WRITE_CTRL"
       THEN Notify("no_reply", v3.pending_cmd, v3.pending_grp)
       ELSE UNCHANGED <<answer, app>>
    /\ v3' = [v3 EXCEPT !.waiting_mcu_reply = FALSE]
    /\ UNCHANGED <<expired, thread, timer, wires, last, faults>>

(* The timer interrupt: V3_timeout_check. *)
V3_timeout_check ==
    /\ timer
    /\ v3.waiting_mcu_reply
    /\ expired
    /\ Notify("no_reply", v3.pending_cmd, v3.pending_grp)
    /\ v3' = [v3 EXCEPT !.waiting_mcu_reply = FALSE]
    /\ UNCHANGED <<expired, thread, timer, wires, last, faults>>

(* main() starts the timer when it leaves its OTA loop. *)
StartTimer ==
    /\ ~timer
    /\ timer' = TRUE
    /\ UNCHANGED <<v3, expired, thread, wires, app, answer, last, faults>>

(* 800 ms after send_time_ms.  A frame still on the UART then is late. *)
Elapse ==
    /\ thread.pc = "idle"
    /\ ~expired
    /\ expired' = TRUE
    /\ last' = [last EXCEPT !.due = TRUE]
    /\ IF wires = <<<<>>, <<>>>>
       THEN UNCHANGED faults
       ELSE /\ faults.late < MaxLate
            /\ faults' = [faults EXCEPT !.late = @ + 1]
    /\ UNCHANGED <<v3, thread, timer, wires, app, answer>>

-----------------------------------------------------------------------------
(* External: the application, the controller, the wires. *)

(* The application loses patience, or its connection. *)
GiveUp ==
    /\ app.waiting
    /\ app' = [app EXCEPT !.waiting = FALSE]
    /\ UNCHANGED <<v3, expired, thread, timer, wires, answer, last, faults>>

McuAnswer ==
    /\ tx # <<>>
    /\ tx' = Tail(tx)
    /\ rx' = Append(rx, [req |-> Head(tx).req, id |-> Head(tx).id, good |-> TRUE])
    /\ UNCHANGED <<v3, expired, thread, timer, app, answer, last, faults>>

Lose ==
    /\ faults.loss < MaxLoss
    /\ faults' = [faults EXCEPT !.loss = @ + 1]
    /\ \/ tx # <<>> /\ tx' = Tail(tx) /\ UNCHANGED rx
       \/ rx # <<>> /\ rx' = Tail(rx) /\ UNCHANGED tx
    /\ UNCHANGED <<v3, expired, thread, timer, app, answer, last>>

Damage ==
    /\ faults.damage < MaxDamage
    /\ faults' = [faults EXCEPT !.damage = @ + 1]
    /\ rx # <<>>
    /\ rx' = [rx EXCEPT ![1].good = FALSE]
    /\ UNCHANGED <<v3, expired, thread, timer, tx, app, answer, last>>

Next ==
    \/ \E req \in Request : V3_handle_read_write(req)
    \/ Thread
    \/ V3_handle_mcu_reply
    \/ V3_timeout_check
    \/ StartTimer
    \/ Elapse
    \/ GiveUp
    \/ McuAnswer
    \/ Lose
    \/ Damage

Spec == Init /\ [][Next]_vars

(* The thread and the interrupts run, time passes, no update of the          *)
(* controller is pending (the timer gets started), and what is on the UART   *)
(* is delivered or lost.                                                     *)
FairSpec ==
    /\ Spec
    /\ WF_vars(Thread)
    /\ WF_vars(V3_handle_mcu_reply)
    /\ WF_vars(V3_timeout_check)
    /\ WF_vars(StartTimer)
    /\ WF_vars(Elapse)
    /\ WF_vars(McuAnswer)

-----------------------------------------------------------------------------
(* As long as the application waits, the module waits for the controller:    *)
(* whatever interrupt comes between whichever statements of the thread, and  *)
(* however replies to older requests arrive, the wait of the module ends     *)
(* only together with the wait of the application.                           *)
WaitedFor ==
    (app.waiting /\ thread.pc = "idle") => v3.waiting_mcu_reply

(* The same at every statement after the one that starts the wait: with it   *)
(* the invariant is inductive.                                               *)
WaitedForAtAll ==
    (app.waiting /\ thread.pc \in {"idle", "cmd", "grp", "time"}) => v3.waiting_mcu_reply

(* What a timeout names, wherever the tick falls.  The thread forwards a     *)
(* request (line 97) before it records which one it is (101, 102): a tick in *)
(* between names the request before, and after line 101 the command of the   *)
(* new request with the group of the one before.  At every other statement,  *)
(* and between two requests, it names command and group of the request       *)
(* forwarded last, however many others were refused, given up or answered    *)
(* late.                                                                     *)
CmdUnrecorded == {"waiting", "cmd"}
GrpUnrecorded == CmdUnrecorded \cup {"grp"}

TimeoutNames ==
    [][ V3_timeout_check =>
          answer' = [kind |-> "no_reply",
                     cmd  |-> IF thread.pc \in CmdUnrecorded
                              THEN last.before.cmd ELSE last.req.cmd,
                     grp  |-> IF thread.pc \in GrpUnrecorded
                              THEN last.before.grp ELSE last.req.grp] ]_vars

(* The recorded command and group, statement by statement. *)
Recorded ==
    /\ v3.pending_cmd =
          IF thread.pc \in CmdUnrecorded THEN last.before.cmd ELSE last.req.cmd
    /\ v3.pending_grp =
          IF thread.pc \in GrpUnrecorded THEN last.before.grp ELSE last.req.grp

(* What the thread holds is what it has forwarded. *)
InHand == thread.pc \in {"waiting", "cmd", "grp", "time"} => last.req = thread.req

(* The inductive invariant. *)
IInv == TypeOK /\ WaitedForAtAll /\ InHand /\ Recorded

(* An application that waits is answered, with requests and replies lost,    *)
(* damaged and late.                                                         *)
Answered == app.waiting ~> ~app.waiting

(* A comment of the code (mcu_to_ble_protocol_v3.0.h:41) says of the error   *)
(* NO_REPLY that the controller "did not reply within timeout".              *)
NoReplyMeansSilence ==
    [][ V3_timeout_check => last.due /\ ~last.heard ]_vars
=============================================================================
