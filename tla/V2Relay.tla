------------------------------ MODULE V2Relay ------------------------------
(***************************************************************************)
(* The vehicle commands (mcu_to_ble_protocol_v2.0.c and their handlers in  *)
(* main.c).  The module shakes hands with the controller from a 1 s timer; *)
(* then the application may ask for the lock status, unlock, lock, and     *)
(* query faults.  A reply of the controller is two bytes that do not name  *)
(* the command they answer: it is attributed to the command sent last.     *)
(* A command without reply is answered as failed after 2 s.                *)
(*                                                                         *)
(* Contexts: the Bluetooth thread (one step per shared-state statement of  *)
(* BLE_send_protocol_cmd), the UART interrupt, the two timer interrupts    *)
(* (each atomic).                                                          *)
(*                                                                         *)
(* External: an application that sends one command at a time and takes the *)
(* next notification for its answer, and a controller that obeys and       *)
(* acknowledges the commands it receives, in order.                        *)
(***************************************************************************)
EXTENDS Integers, Sequences

CONSTANTS
    Refusable,      \* commands that the controller may answer with another code than expected
    MaxRetry,       \* HANDSHAKE_MAX_RETRY
    MaxCommands,    \* bound on commands of the application
    MaxLoss,        \* bound on commands and replies lost on the UART
    MaxLate         \* bound on timer expiries with a command unanswered on the UART

(* Any code but 00 00 is a fault to a fault query: it cannot be refused.     *)
ASSUME V2RelayAssumption ==
    /\ Refusable \subseteq {"HANDSHAKE", "UNLOCK_STATUS", "UNLOCK", "LOCK"}
    /\ {MaxRetry, MaxCommands, MaxLoss, MaxLate} \subseteq Nat

VARIABLES
    handshake_ok,   \* g_controler_state
    active_ok,
    last_cmd_type,
    sent,           \* history of last_cmd_type: it was set with nothing on the UART,
                    \* the controller has refused it
    cmd_wait,       \* cmd_wait[i].waiting, and whether 2 s have passed since send_time_ms
    retry,          \* handshake_retry_count
    timers,         \* the timers run; the handshake timer has been stopped
    led,            \* the LED pattern shown
    thread,         \* the Bluetooth thread: next statement, command it sends
    tx,             \* commands on the wire to the controller
    rx,             \* replies on the wire from the controller
    mcu,            \* external: the vehicle is unlocked, has a fault
    app,            \* external: the command the application waits for
    told,           \* the last notification to the application
    spent           \* commands, losses and late answers so far: what is bounded

controler_state == <<handshake_ok, active_ok, last_cmd_type, sent>>
wires == <<tx, rx>>
vars  == <<controler_state, cmd_wait, retry, timers, led, thread, wires, mcu, app, told,
           spent>>

(* ble_cmd_type_t, and the commands check_timeout_timer_cb looks at. *)
AppCmd == {"UNLOCK_STATUS", "UNLOCK", "LOCK", "FAULT_QUERY"}
Cmd    == {"HANDSHAKE"} \cup AppCmd
None   == "none"

(* The two-byte replies: 5A A5, 69 96, 96 69, 00 00, a fault code, any other. *)
Code == {"ACK", "UNLOCKED", "LOCKED", "NO_FAULT", "FAULT", "OTHER"}

Led == {"OFF", "GREEN_ON", "RED_ON", "RED_FAST_BLINK", "RED_SLOW_BLINK"}

Told == [cmd : Cmd \cup {None},
         result : {"none", "ok", "fail", "unlocked", "locked", "not_ready", "already",
                   "fault", "no_fault"}]

TypeOK ==
    /\ handshake_ok \in BOOLEAN
    /\ active_ok \in BOOLEAN
    /\ last_cmd_type \in Cmd \cup {None}
    /\ sent \in [apart : BOOLEAN, refused : BOOLEAN]
    /\ cmd_wait \in [Cmd -> [waiting : BOOLEAN, expired : BOOLEAN]]
    /\ retry \in 0..MaxRetry
    /\ timers \in [check : BOOLEAN, handshake : {"off", "on", "stopped"}]
    /\ led \in Led
    /\ thread \in [pc : {"idle", "check", "last", "waiting", "time", "send"},
                   cmd : AppCmd \cup {None}]
    /\ tx \in Seq(Cmd)
    /\ rx \in Seq(Code)
    /\ mcu \in [unlocked : BOOLEAN, fault : BOOLEAN]
    /\ app \in AppCmd \cup {None}
    /\ told \in Told
    /\ spent \in [commands : Nat, loss : Nat, late : Nat]

(* user_parameter_init; user_led_init shows nothing yet.  At the first       *)
(* command the clock is well past 2 s and every send_time_ms is 0.           *)
Init ==
    /\ handshake_ok = FALSE
    /\ active_ok = FALSE
    /\ last_cmd_type = None
    /\ sent = [apart |-> FALSE, refused |-> FALSE]
    /\ cmd_wait = [c \in Cmd |-> [waiting |-> FALSE, expired |-> TRUE]]
    /\ retry = 0
    /\ timers = [check |-> FALSE, handshake |-> "off"]
    /\ led = "OFF"
    /\ thread = [pc |-> "idle", cmd |-> None]
    /\ tx = <<>>
    /\ rx = <<>>
    /\ mcu \in [unlocked : BOOLEAN, fault : BOOLEAN]
    /\ app = None
    /\ told = [cmd |-> None, result |-> "none"]
    /\ spent = [commands |-> 0, loss |-> 0, late |-> 0]

InFlight == tx # <<>> \/ rx # <<>>

(* last_cmd_type is set.  Replies to older commands may still be under way.  *)
SetLastCmdType(cmd) ==
    /\ last_cmd_type' = cmd
    /\ sent' = [apart |-> ~InFlight, refused |-> FALSE]

(* bt_ven_notify: the application takes it for the answer it waits for. *)
Notify(cmd, result) ==
    /\ told' = [cmd |-> cmd, result |-> result]
    /\ app' = None

Silent == UNCHANGED <<told, app>>

-----------------------------------------------------------------------------
(* Handle_app_cmd_and_reply, in the Bluetooth thread. *)

AppMaySend == thread.pc = "idle" /\ app = None

StartSending(cmd) ==
    /\ spent.commands < MaxCommands
    /\ spent' = [spent EXCEPT !.commands = @ + 1]
    /\ thread' = [pc |-> "check", cmd |-> cmd]
    /\ app' = cmd
    /\ UNCHANGED told

(* The application's own handshake is answered only after the controller's. *)
AppHandshake ==
    /\ AppMaySend
    /\ IF handshake_ok
       THEN Notify("HANDSHAKE", "ok") /\ UNCHANGED led
       ELSE led' = "RED_SLOW_BLINK" /\ Silent
    /\ UNCHANGED <<controler_state, cmd_wait, retry, timers, thread, wires, mcu, spent>>

AppQuery ==
    /\ AppMaySend
    /\ IF handshake_ok
       THEN StartSending("UNLOCK_STATUS")
       ELSE Notify("UNLOCK_STATUS", "not_ready") /\ UNCHANGED <<thread, spent>>
    /\ UNCHANGED <<controler_state, cmd_wait, retry, timers, led, wires, mcu>>

(* An unlocked vehicle is not unlocked again; the answer carries the command *)
(* byte of the status query.                                                 *)
AppUnlock ==
    /\ AppMaySend
    /\ IF active_ok
       THEN Notify("UNLOCK_STATUS", "already") /\ UNCHANGED <<thread, spent>>
       ELSE StartSending("UNLOCK")
    /\ UNCHANGED <<controler_state, cmd_wait, retry, timers, led, wires, mcu>>

AppLockOrFault ==
    /\ AppMaySend
    /\ \E cmd \in {"LOCK", "FAULT_QUERY"} : StartSending(cmd)
    /\ UNCHANGED <<controler_state, cmd_wait, retry, timers, led, wires, mcu>>

Handle_app_cmd_and_reply == AppHandshake \/ AppQuery \/ AppUnlock \/ AppLockOrFault

-----------------------------------------------------------------------------
(* BLE_send_protocol_cmd in the Bluetooth thread, statement by statement. *)

At(pc, next) == thread.pc = pc /\ thread' = [thread EXCEPT !.pc = next]

(* Before the handshake the command is dropped and nobody is told. *)
Check ==
    /\ IF handshake_ok
       THEN At("check", "last")
       ELSE thread.pc = "check" /\ thread' = [pc |-> "idle", cmd |-> None]
    /\ UNCHANGED <<controler_state, cmd_wait, retry, timers, led, wires, mcu, app, told,
                   spent>>

(* Mutant: a lock command is not recorded as the last one. *)
SetLastForgetsLock ==
    /\ At("last", "waiting")
    /\ SetLastCmdType(IF thread.cmd = "LOCK" THEN last_cmd_type ELSE thread.cmd)
    /\ UNCHANGED <<handshake_ok, active_ok, cmd_wait, retry, timers, led, wires, mcu, app,
                   told, spent>>

SetLast ==
    /\ At("last", "waiting")
    /\ SetLastCmdType(thread.cmd)
    /\ UNCHANGED <<handshake_ok, active_ok, cmd_wait, retry, timers, led, wires, mcu, app,
                   told, spent>>

(* Mutant: the wait is not started. *)
SetWaitingForgotten ==
    /\ At("waiting", "time")
    /\ UNCHANGED <<controler_state, cmd_wait, retry, timers, led, wires, mcu, app, told,
                   spent>>

SetWaiting ==
    /\ At("waiting", "time")
    /\ cmd_wait' = [cmd_wait EXCEPT ![thread.cmd].waiting = TRUE]
    /\ UNCHANGED <<controler_state, retry, timers, led, wires, mcu, app, told, spent>>

SetTime ==
    /\ At("time", "send")
    /\ cmd_wait' = [cmd_wait EXCEPT ![thread.cmd].expired = FALSE]
    /\ UNCHANGED <<controler_state, retry, timers, led, wires, mcu, app, told, spent>>

Send ==
    /\ thread.pc = "send"
    /\ thread' = [pc |-> "idle", cmd |-> None]
    /\ tx' = Append(tx, thread.cmd)
    /\ UNCHANGED <<controler_state, cmd_wait, retry, timers, led, rx, mcu, app, told, spent>>

Thread == Check \/ SetLast \/ SetWaiting \/ SetTime \/ Send

-----------------------------------------------------------------------------
(* The UART interrupt: Handle_protocol_data, Handle_mcu_replydata. *)

(* A reply within 2 s ends the wait of the command it is attributed to. *)
ClearWait(cmd) ==
    cmd_wait' = [c \in Cmd |->
                   IF c = cmd /\ ~cmd_wait[c].expired
                   THEN [cmd_wait[c] EXCEPT !.waiting = FALSE] ELSE cmd_wait[c]]

UNCHANGED_Reply == UNCHANGED <<last_cmd_type, sent, timers, thread, tx, mcu, spent>>

HandshakeReply(code) ==
    /\ IF code = "ACK"
       THEN handshake_ok' = TRUE /\ retry' = 0 /\ led' = "GREEN_ON"
       ELSE led' = "RED_FAST_BLINK" /\ UNCHANGED <<handshake_ok, retry>>
    /\ Silent
    /\ UNCHANGED active_ok

StatusReply(code) ==
    /\ IF code \in {"UNLOCKED", "LOCKED"}
       THEN /\ active_ok' = (code = "UNLOCKED")
            /\ Notify("UNLOCK_STATUS", IF code = "UNLOCKED" THEN "unlocked" ELSE "locked")
            /\ UNCHANGED led
       ELSE led' = "GREEN_ON" /\ Silent /\ UNCHANGED active_ok
    /\ UNCHANGED <<handshake_ok, retry>>

(* Anything but 5A A5 is not an answer: the wait is over, nobody is told. *)
LockReply(cmd, code) ==
    /\ IF code = "ACK"
       THEN Notify(cmd, "ok") /\ UNCHANGED led
       ELSE led' = "GREEN_ON" /\ Silent
    /\ UNCHANGED <<handshake_ok, active_ok, retry>>

FaultReply(code) ==
    /\ Notify("FAULT_QUERY", IF code = "NO_FAULT" THEN "no_fault" ELSE "fault")
    /\ led' = IF code = "NO_FAULT" THEN led ELSE "RED_ON"
    /\ UNCHANGED <<handshake_ok, active_ok, retry>>

Handle_mcu_replydata ==
    /\ rx # <<>>
    /\ rx' = Tail(rx)
    /\ ClearWait(last_cmd_type)
    /\ LET cmd  == last_cmd_type
           code == Head(rx)
       IN  \/ cmd = "HANDSHAKE" /\ HandshakeReply(code)
           \/ cmd = "UNLOCK_STATUS" /\ StatusReply(code)
           \/ cmd \in {"UNLOCK", "LOCK"} /\ LockReply(cmd, code)
           \/ cmd = "FAULT_QUERY" /\ FaultReply(code)
    /\ UNCHANGED_Reply

-----------------------------------------------------------------------------
(* The timer interrupts, once main() has left its OTA loop. *)

Late ==
    IF InFlight
    THEN spent.late < MaxLate /\ spent' = [spent EXCEPT !.late = @ + 1]
    ELSE UNCHANGED spent

StartTimers ==
    /\ timers.handshake = "off"
    /\ timers' = [check |-> TRUE, handshake |-> "on"]
    /\ UNCHANGED <<controler_state, cmd_wait, retry, led, thread, wires, mcu, app, told,
                   spent>>

(* BLE_send_protocol_cmd(BLE_CMD_HANDSHAKE_RSP) from the interrupt. *)
SendHandshake ==
    /\ SetLastCmdType("HANDSHAKE")
    /\ cmd_wait' = [cmd_wait EXCEPT !["HANDSHAKE"] = [waiting |-> TRUE, expired |-> FALSE]]
    /\ tx' = Append(tx, "HANDSHAKE")

(* Mutant: one attempt too many. *)
HandshakeOnceMore ==
    /\ timers.handshake = "on"
    /\ ~handshake_ok
    /\ retry <= MaxRetry
    /\ SendHandshake
    /\ retry' = retry + 1
    /\ Late
    /\ UNCHANGED <<led, timers, handshake_ok, active_ok, thread, rx, mcu, app, told>>

handshake_timer_cb ==
    /\ timers.handshake = "on"
    /\ \/ /\ ~handshake_ok /\ retry < MaxRetry
          /\ SendHandshake
          /\ retry' = retry + 1
          /\ Late
          /\ UNCHANGED <<led, timers>>
       \/ /\ ~handshake_ok /\ retry >= MaxRetry
          /\ led' = "RED_FAST_BLINK"
          /\ timers' = [timers EXCEPT !.handshake = "stopped"]
          /\ UNCHANGED <<last_cmd_type, sent, cmd_wait, retry, tx, spent>>
       \/ /\ handshake_ok
          /\ timers' = [timers EXCEPT !.handshake = "stopped"]
          /\ UNCHANGED <<last_cmd_type, sent, cmd_wait, retry, tx, led, spent>>
    /\ UNCHANGED <<handshake_ok, active_ok, thread, rx, mcu, app, told>>

TimedOut == {c \in AppCmd : cmd_wait[c].waiting /\ cmd_wait[c].expired}

(* A status query that times out is answered "locked", a fault query "no     *)
(* fault".                                                                   *)
TimeoutResult(cmd) ==
    CASE cmd = "UNLOCK_STATUS" -> "locked"
      [] cmd = "FAULT_QUERY"   -> "no_fault"
      [] OTHER                 -> "fail"

(* The loop answers in the order of ble_cmd_type_t. *)
Order == [UNLOCK_STATUS |-> 1, UNLOCK |-> 2, LOCK |-> 3, FAULT_QUERY |-> 4]

(* Mutant: a lock command that times out is not answered. *)
TimeoutForgetsLock ==
    /\ timers.check
    /\ TimedOut # {}
    /\ cmd_wait' = [c \in Cmd |-> IF c \in TimedOut
                                  THEN [cmd_wait[c] EXCEPT !.waiting = FALSE] ELSE cmd_wait[c]]
    /\ \E cmd \in TimedOut :
          /\ \A c \in TimedOut : Order[c] <= Order[cmd]
          /\ IF cmd = "LOCK" THEN Silent ELSE Notify(cmd, TimeoutResult(cmd))
    /\ led' = IF "FAULT_QUERY" \in TimedOut THEN "GREEN_ON" ELSE led
    /\ UNCHANGED <<controler_state, retry, timers, thread, wires, mcu, spent>>

check_timeout_timer_cb ==
    /\ timers.check
    /\ TimedOut # {}
    /\ cmd_wait' = [c \in Cmd |-> IF c \in TimedOut
                                  THEN [cmd_wait[c] EXCEPT !.waiting = FALSE] ELSE cmd_wait[c]]
    /\ \E cmd \in TimedOut :
          /\ \A c \in TimedOut : Order[c] <= Order[cmd]
          /\ Notify(cmd, TimeoutResult(cmd))
    /\ led' = IF "FAULT_QUERY" \in TimedOut THEN "GREEN_ON" ELSE led
    /\ UNCHANGED <<controler_state, retry, timers, thread, wires, mcu, spent>>

(* 2 s after send_time_ms. *)
Elapse(cmd) ==
    /\ thread.pc = "idle"
    /\ ~cmd_wait[cmd].expired
    /\ cmd_wait' = [cmd_wait EXCEPT ![cmd].expired = TRUE]
    /\ Late
    /\ UNCHANGED <<controler_state, retry, timers, led, thread, wires, mcu, app, told>>

-----------------------------------------------------------------------------
(* External: the controller, the wires, the application. *)

Obey(cmd) ==
    mcu' = [mcu EXCEPT !.unlocked = CASE cmd = "UNLOCK" -> TRUE
                                      [] cmd = "LOCK"   -> FALSE
                                      [] OTHER          -> @]

ReplyCode(cmd) ==
    CASE cmd = "UNLOCK_STATUS" -> IF mcu.unlocked THEN "UNLOCKED" ELSE "LOCKED"
      [] cmd = "FAULT_QUERY"   -> IF mcu.fault THEN "FAULT" ELSE "NO_FAULT"
      [] OTHER                 -> "ACK"

McuAnswer ==
    /\ tx # <<>>
    /\ tx' = Tail(tx)
    /\ \/ /\ Obey(Head(tx))
          /\ rx' = Append(rx, ReplyCode(Head(tx)))
          /\ UNCHANGED sent
       \/ /\ Head(tx) \in Refusable
          /\ rx' = Append(rx, "OTHER")
          /\ sent' = [sent EXCEPT !.refused = TRUE]
          /\ UNCHANGED mcu
    /\ UNCHANGED <<handshake_ok, active_ok, last_cmd_type, cmd_wait, retry, timers, led,
                   thread, app, told, spent>>

Lose ==
    /\ spent.loss < MaxLoss
    /\ spent' = [spent EXCEPT !.loss = @ + 1]
    /\ \/ tx # <<>> /\ tx' = Tail(tx) /\ UNCHANGED rx
       \/ rx # <<>> /\ rx' = Tail(rx) /\ UNCHANGED tx
    /\ UNCHANGED <<controler_state, cmd_wait, retry, timers, led, thread, mcu, app, told>>

(* The application gives up on a command that the module has dropped. *)
GiveUp ==
    /\ app # None
    /\ thread.pc = "idle"
    /\ ~InFlight
    /\ \A c \in AppCmd : ~cmd_wait[c].waiting
    /\ app' = None
    /\ UNCHANGED <<controler_state, cmd_wait, retry, timers, led, thread, wires, mcu, told,
                   spent>>

Next ==
    \/ Handle_app_cmd_and_reply
    \/ Thread
    \/ Handle_mcu_replydata
    \/ StartTimers
    \/ handshake_timer_cb
    \/ check_timeout_timer_cb
    \/ \E cmd \in Cmd : Elapse(cmd)
    \/ McuAnswer
    \/ Lose
    \/ GiveUp

Spec == Init /\ [][Next]_vars

(* The thread and the interrupts run, time passes, the controller answers    *)
(* what reaches it.  Neither losses nor requests are obliged to happen.      *)
FairSpec ==
    /\ Spec
    /\ WF_vars(Thread)
    /\ WF_vars(Handle_mcu_replydata)
    /\ WF_vars(StartTimers)
    /\ WF_vars(handshake_timer_cb)
    /\ WF_vars(check_timeout_timer_cb)
    /\ WF_vars(\E cmd \in Cmd : Elapse(cmd))
    /\ WF_vars(McuAnswer)

-----------------------------------------------------------------------------
(* Is it true what an answer of a reply tells of the vehicle? *)
IsTrue(answer) ==
    /\ answer.cmd = "UNLOCK" => mcu.unlocked
    /\ answer.cmd = "LOCK" => ~mcu.unlocked
    /\ answer.cmd = "UNLOCK_STATUS" => (answer.result = "unlocked" <=> mcu.unlocked)
    /\ answer.cmd = "FAULT_QUERY" => (answer.result = "fault" <=> mcu.fault)

(* What a reply makes the module tell the application is true: although the  *)
(* replies do not say what they answer, and are credited to whatever was     *)
(* recorded last, no reply is credited to another command - if nothing was   *)
(* under way when the command was recorded.  Where a late answer or one of   *)
(* the handshake still was, the next command takes it for its own.  Losses,  *)
(* refusals and timeouts between any two statements are allowed.             *)
SuccessIsTrue ==
    [][ (/\ Handle_mcu_replydata
         /\ sent.apart
         /\ <<told, app>>' # <<told, app>>)
        => IsTrue(told') ]_vars

(* The command that was sent last is waited for as long as the application   *)
(* waits for it: no reply of another command, and no timeout in the middle   *)
(* of the thread, ends its wait only - again if nothing was under way before *)
(* it, and unless it was refused: then the wait is over and nobody is told.  *)
WaitedFor ==
    (/\ app # None /\ last_cmd_type = app /\ thread.pc = "idle"
     /\ sent.apart /\ ~sent.refused) => cmd_wait[app].waiting

(* Such a command is answered, by the controller or by the timeout, or it is *)
(* refused.                                                                  *)
Answered ==
    (app # None /\ last_cmd_type = app /\ thread.pc = "idle" /\ sent.apart)
        ~> (app = None \/ sent.refused)

(* A comment of the code (main.c:518) says of the unlock command: "first     *)
(* query the activation state of the controller; if it is unlocked already,  *)
(* do not unlock it again".                                                  *)
AlreadyUnlockedIsTrue ==
    (app = None /\ told.result = "already") => mcu.unlocked
=============================================================================
