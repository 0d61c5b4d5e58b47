------------------------------ MODULE CtrlOta ------------------------------
(***************************************************************************)
(* The second stage (controller_ota.c): at boot, when the EEPROM says      *)
(* READY, the module sends the stored file to the motor controller over    *)
(* the UART, chunk by chunk, stop-and-wait, and clears READY when the      *)
(* controller reports that the file code is right.                         *)
(*                                                                         *)
(* Two contexts share g_ctx.  The main thread runs Ctrl_ota_process in the *)
(* loop of main(); the UART interrupt runs Ctrl_ota_handle_reply and may   *)
(* come between any two steps of the main thread, which is therefore cut   *)
(* at every point where it reads or writes what the interrupt changes      *)
(* (pc is the cut it has reached).  The interrupt itself is atomic.        *)
(*                                                                         *)
(* The controller and the two directions of the wire are outside the       *)
(* repository: they are modelled from the commands the code sends and the  *)
(* replies it is written for.  Replies and frames may be lost or arrive    *)
(* late, never out of order.                                               *)
(***************************************************************************)
EXTENDS OtaEeprom

CONSTANTS
    RefusedLen,     \* file lengths the controller answers with LEN_ERROR
    MaxWire,        \* bound on frames and on replies in flight
    MaxLate,        \* bound on timeouts that expire with an answer in flight
    MaxFrameLoss,   \* bound on frames to the controller lost
    MaxDamage,      \* bound on data frames damaged
    MaxReplyLoss,   \* bound on replies lost
    MaxBoot         \* bound on power cycles

ASSUME CtrlOtaAssumption ==
    /\ Capacity \in Nat \ {0}
    /\ RefusedLen \subseteq Nat
    /\ {MaxWire, MaxLate, MaxFrameLoss, MaxDamage, MaxReplyLoss, MaxBoot} \subseteq Nat

VARIABLES
    g,          \* g_ctx, without last_request_time
    elapsed,    \* 500 ms have passed since last_request_time
    pc,         \* where the main thread is
    local,      \* what the main thread has read: locals of the functions it is in
    told,       \* the last result notified to the application
    tx,         \* frames on the wire to the controller
    rx,         \* replies on the wire from the controller
    ctl,        \* the controller's boot loader
    faults      \* faults spent so far, per kind

eeprom == <<image, flag, meta>>
main   == <<pc, local>>
wire   == <<tx, rx>>

ctrlOtaVars == <<image, flag, meta, g, elapsed, pc, local, told, tx, rx, ctl, faults>>

CtrlOtaState == {"IDLE", "SEND_REQUEST", "WAIT_CONFIRM", "SEND_DATA", "WAIT_DATA_ACK",
                 "WAIT_COMPLETE", "COMPLETE", "ERROR", "FILED"}

Cmd == {"REQ_CONFIRM", "FLASH_ERASE_OK", "DATA_ACK", "RECV_COMPLETE", "CRC_SUCCESS",
        "CRC_FAIL", "CRC_ERROR", "LEN_ERROR"}

Data == {<<>>} \cup {<<c>> : c \in Chunk}

Frame == [kind : {"request"}, len : 0..Capacity, crc : SUBSET Chunk]
         \cup [kind : {"data"}, more : BOOLEAN, data : Data]

\* CTRL_OTA_V3_RESULT as the application sees it; progress is not kept.
Told == {"none", "ok", "error", "failed"}

Pc == {"loop", "request", "to_complete", "set_wait", "frame", "read", "send",
       "ack_check", "resend", "restart", "rewind", "relay"}

Context == [ state : CtrlOtaState, file_length : 0..Capacity, file_crc : SUBSET Chunk,
             sent_length : 0..Capacity, eeprom_read_addr : 0..Capacity ]

Locals == [chunk : {0, 1}, more : BOOLEAN, data : Data, moved : BOOLEAN]

BootLoader == [ phase : {"boot", "recv", "stuck"}, len : 0..Capacity, crc : SUBSET Chunk,
                buf : Seq(Chunk), installed : Seq(Chunk) ]

Faults == [late : Nat, frame : Nat, damage : Nat, reply : Nat, boot : Nat]

CtrlOtaTypeOK ==
    /\ image \in [1..Capacity -> Chunk]
    /\ flag \in {READY, IDLE}
    /\ meta \in [len : 0..Capacity, crc : SUBSET Chunk]
    /\ g \in Context
    /\ elapsed \in BOOLEAN
    /\ pc \in Pc
    /\ local \in Locals
    /\ told \in Told
    /\ tx \in Seq(Frame) /\ Len(tx) <= MaxWire
    /\ rx \in Seq(Cmd)
    /\ ctl \in BootLoader
    /\ faults \in Faults

-----------------------------------------------------------------------------
(* Ctrl_ota_init *)
CtrlInit(f, m) ==
    IF f # READY
    THEN [ state |-> "IDLE", file_length |-> 0, file_crc |-> CrcZero,
           sent_length |-> 0, eeprom_read_addr |-> 0 ]
    ELSE [ state |-> "SEND_REQUEST", file_length |-> m.len, file_crc |-> m.crc,
           sent_length |-> 0, eeprom_read_addr |-> 0 ]

NoLocals == [chunk |-> 0, more |-> FALSE, data |-> <<>>, moved |-> FALSE]

(* The first boot after a download has finished. *)
CtrlOtaInit ==
    /\ image \in [1..Capacity -> Chunk]
    /\ meta \in {[len |-> n, crc |-> CrcOfPrefix(image, n)] : n \in 1..Capacity}
    /\ flag = READY
    /\ g = CtrlInit(flag, meta)
    /\ elapsed = TRUE
    /\ pc = "loop"
    /\ local = NoLocals
    /\ told = "none"
    /\ tx = <<>>
    /\ rx = <<>>
    /\ ctl = [ phase |-> "boot", len |-> 0, crc |-> CrcZero, buf |-> <<>>,
               installed |-> <<>> ]
    /\ faults = [late |-> 0, frame |-> 0, damage |-> 0, reply |-> 0, boot |-> 0]

-----------------------------------------------------------------------------
(* The main thread: the loop of main() and Ctrl_ota_process.                 *)

remaining == g.file_length - g.sent_length

(* A chunk, unless everything has been acknowledged. *)
ChunkLen == IF remaining > 0 THEN 1 ELSE 0

Ctrl_ota_is_active == g.state \notin {"IDLE", "COMPLETE"}

Goto(label) == pc' = label /\ UNCHANGED local

(* The loop ends, main() starts the timers of the normal bridge and never    *)
(* comes back.                                                               *)
LeaveLoop ==
    /\ pc = "loop"
    /\ ~Ctrl_ota_is_active
    /\ Goto("relay")
    /\ UNCHANGED <<eeprom, g, elapsed, told, wire, ctl, faults>>

(* The switch of Ctrl_ota_process, with what each case reads first.          *)
Dispatch ==
    /\ pc = "loop"
    /\ \/ g.state = "SEND_REQUEST" /\ Goto("request")
       \/ g.state = "SEND_DATA" /\ Goto(IF remaining = 0 THEN "to_complete" ELSE "set_wait")
       \/ /\ g.state = "WAIT_DATA_ACK"
          /\ pc' = "ack_check"
          /\ local' = [local EXCEPT !.moved = FALSE]
       \/ g.state = "ERROR" /\ Goto("restart")
    /\ UNCHANGED <<eeprom, g, elapsed, told, wire, ctl, faults>>

(* CTRL_OTA_FILED: the failure is notified again every 500 ms. *)
NotifyFailed ==
    /\ pc = "loop"
    /\ g.state = "FILED"
    /\ told' = "failed"
    /\ UNCHANGED <<eeprom, g, elapsed, main, wire, ctl, faults>>

(* Every 30 ms until the controller answers. *)
Ctrl_ota_send_request ==
    /\ pc = "request"
    /\ Len(tx) < MaxWire
    /\ tx' = Append(tx, [kind |-> "request", len |-> g.file_length, crc |-> g.file_crc])
    /\ elapsed' = FALSE
    /\ Goto("loop")
    /\ UNCHANGED <<eeprom, g, told, rx, ctl, faults>>

AllSent ==
    /\ pc = "to_complete"
    /\ g' = [g EXCEPT !.state = "WAIT_COMPLETE"]
    /\ Goto("loop")
    /\ UNCHANGED <<eeprom, elapsed, told, wire, ctl, faults>>

SetWaitAck ==
    /\ pc = "set_wait"
    /\ g' = [g EXCEPT !.state = "WAIT_DATA_ACK"]
    /\ Goto("frame")
    /\ UNCHANGED <<eeprom, elapsed, told, wire, ctl, faults>>

(* Ctrl_ota_send_data_frame, in three steps: the length of the chunk, the    *)
(* EEPROM read at eeprom_read_addr, the frame.                               *)
ReadRemaining ==
    /\ pc = "frame"
    /\ local' = [local EXCEPT !.chunk = ChunkLen, !.more = ChunkLen < remaining]
    /\ pc' = "read"
    /\ UNCHANGED <<eeprom, g, elapsed, told, wire, ctl, faults>>

(* Past the last chunk the read returns bytes of the flag page. *)
At(addr) == IF addr < Capacity THEN {image[addr + 1]} ELSE Chunk

ReadEeprom ==
    /\ pc = "read"
    /\ \E c \in At(g.eeprom_read_addr) :
          local' = [local EXCEPT !.data = IF local.chunk = 1 THEN <<c>> ELSE <<>>]
    /\ pc' = "send"
    /\ UNCHANGED <<eeprom, g, elapsed, told, wire, ctl, faults>>

SendFrame ==
    /\ pc = "send"
    /\ Len(tx) < MaxWire
    /\ tx' = Append(tx, [kind |-> "data", more |-> local.more, data |-> local.data])
    /\ elapsed' = FALSE
    /\ pc' = "loop"
    /\ local' = NoLocals
    /\ UNCHANGED <<eeprom, g, told, rx, ctl, faults>>

(* Mutant: no timeout while waiting for the acknowledgement. *)
AckCheckWaits ==
    /\ pc = "ack_check"
    /\ Goto("loop")
    /\ UNCHANGED <<eeprom, g, elapsed, told, wire, ctl, faults>>

(* now - last_request_time >= 500, with now taken on entry: when the         *)
(* interrupt has moved last_request_time past it, the unsigned difference    *)
(* wraps and the timeout fires, unless both fall in the same millisecond.    *)
AckCheck ==
    /\ pc = "ack_check"
    /\ \/ (elapsed \/ local.moved) /\ Goto("resend")
       \/ ~elapsed /\ Goto("loop")
    /\ UNCHANGED <<eeprom, g, elapsed, told, wire, ctl, faults>>

ResendChunk ==
    /\ pc = "resend"
    /\ g' = [g EXCEPT !.state = "SEND_DATA"]
    /\ Goto("loop")
    /\ UNCHANGED <<eeprom, elapsed, told, wire, ctl, faults>>

Restart ==
    /\ pc = "restart"
    /\ g' = [g EXCEPT !.state = "SEND_REQUEST"]
    /\ Goto("rewind")
    /\ UNCHANGED <<eeprom, elapsed, told, wire, ctl, faults>>

(* Mutant: the read address is not rewound. *)
RewindKeepsAddr ==
    /\ pc = "rewind"
    /\ g' = [g EXCEPT !.sent_length = 0]
    /\ elapsed' = FALSE
    /\ Goto("loop")
    /\ UNCHANGED <<eeprom, told, wire, ctl, faults>>

(* Mutant: the transfer goes on where it was after a new request. *)
RewindNothing ==
    /\ pc = "rewind"
    /\ elapsed' = FALSE
    /\ Goto("loop")
    /\ UNCHANGED <<eeprom, g, told, wire, ctl, faults>>

Rewind ==
    /\ pc = "rewind"
    /\ g' = [g EXCEPT !.sent_length = 0, !.eeprom_read_addr = 0]
    /\ elapsed' = FALSE
    /\ Goto("loop")
    /\ UNCHANGED <<eeprom, told, wire, ctl, faults>>

Main ==
    \/ LeaveLoop \/ Dispatch \/ NotifyFailed \/ Ctrl_ota_send_request \/ AllSent
    \/ SetWaitAck \/ ReadRemaining \/ ReadEeprom \/ SendFrame \/ AckCheck \/ ResendChunk
    \/ Restart \/ Rewind

(* The clock reaches 500 ms after last_request_time.  With nothing in flight *)
(* that is bound to happen; with an answer on its way it is a late answer.   *)
Elapse ==
    /\ ~elapsed
    /\ elapsed' = TRUE
    /\ IF wire = <<<<>>, <<>>>>
       THEN UNCHANGED faults
       ELSE /\ faults.late < MaxLate
            /\ faults' = [faults EXCEPT !.late = @ + 1]
    /\ UNCHANGED <<eeprom, g, main, told, wire, ctl>>

-----------------------------------------------------------------------------
(* The UART interrupt: Ctrl_ota_handle_reply, by reply.                      *)

Received(cmd) == rx # <<>> /\ Head(rx) = cmd /\ rx' = Tail(rx)

Unmoved == UNCHANGED <<image, meta, pc, tx, ctl, faults>>

ReplyConfirm ==
    /\ Received("REQ_CONFIRM")
    /\ g' = IF g.state = "SEND_REQUEST" THEN [g EXCEPT !.state = "WAIT_CONFIRM"] ELSE g
    /\ UNCHANGED <<flag, elapsed, local, told>> /\ Unmoved

ReplyErased ==
    /\ Received("FLASH_ERASE_OK")
    /\ g' = IF g.state \in {"SEND_REQUEST", "WAIT_CONFIRM"}
            THEN [g EXCEPT !.state = "SEND_DATA"] ELSE g
    /\ UNCHANGED <<flag, elapsed, local, told>> /\ Unmoved

(* Mutant: every acknowledgement counts for a whole chunk, in any state. *)
AckUnclamped ==
    /\ Received("DATA_ACK")
    /\ g' = [g EXCEPT !.sent_length = @ + 1, !.eeprom_read_addr = @ + 1,
                      !.state = IF g.sent_length + 1 = g.file_length
                                THEN "WAIT_COMPLETE" ELSE "SEND_DATA"]
    /\ elapsed' = FALSE
    /\ local' = [local EXCEPT !.moved = (pc = "ack_check")]
    /\ UNCHANGED <<flag, told>> /\ Unmoved

(* remaining is positive here only if no earlier acknowledgement has brought *)
(* sent_length to the end.                                                   *)
Ctrl_ota_advance_data ==
    [g EXCEPT !.eeprom_read_addr = @ + ChunkLen, !.sent_length = @ + ChunkLen]

ReplyAck ==
    /\ Received("DATA_ACK")
    /\ IF g.state = "WAIT_DATA_ACK"
       THEN LET advanced == Ctrl_ota_advance_data
            IN  /\ g' = [advanced EXCEPT !.state =
                            IF advanced.sent_length = g.file_length
                            THEN "WAIT_COMPLETE" ELSE "SEND_DATA"]
                /\ elapsed' = FALSE
                /\ local' = [local EXCEPT !.moved = (pc = "ack_check")]
       ELSE UNCHANGED <<g, elapsed, local>>
    /\ UNCHANGED <<flag, told>> /\ Unmoved

(* Mutant: the end of the reception is taken for the outcome. *)
ReceivedIsDone ==
    /\ Received("RECV_COMPLETE")
    /\ told' = "ok"
    /\ flag' = IDLE
    /\ g' = [g EXCEPT !.state = "COMPLETE"]
    /\ UNCHANGED <<elapsed, local>> /\ Unmoved

(* RECV_COMPLETE is logged and nothing else. *)
ReplyReceived ==
    /\ Received("RECV_COMPLETE")
    /\ UNCHANGED <<g, flag, elapsed, local, told>> /\ Unmoved

(* In any state: tell the application, clear READY, done. *)
ReplySuccess ==
    /\ Received("CRC_SUCCESS")
    /\ told' = "ok"
    /\ flag' = IDLE
    /\ g' = [g EXCEPT !.state = "COMPLETE"]
    /\ UNCHANGED <<elapsed, local>> /\ Unmoved

(* In any state: tell the application, start again from the request. *)
ReplyCrcFail ==
    /\ Received("CRC_FAIL")
    /\ told' = "error"
    /\ g' = [g EXCEPT !.state = "ERROR"]
    /\ UNCHANGED <<flag, elapsed, local>> /\ Unmoved

(* A damaged frame ends the transfer: the boot loader hangs until repowered. *)
ReplyCrcError ==
    /\ Received("CRC_ERROR")
    /\ IF g.state = "WAIT_DATA_ACK"
       THEN g' = [g EXCEPT !.state = "FILED"] /\ told' = "failed"
       ELSE UNCHANGED <<g, told>>
    /\ UNCHANGED <<flag, elapsed, local>> /\ Unmoved

(* Mutant: a refused length ends the transfer quietly. *)
LenErrorGivesUp ==
    /\ Received("LEN_ERROR")
    /\ g' = [g EXCEPT !.state = "IDLE"]
    /\ told' = "failed"
    /\ UNCHANGED <<flag, elapsed, local>> /\ Unmoved

ReplyLenError ==
    /\ Received("LEN_ERROR")
    /\ g' = [g EXCEPT !.state = "FILED"]
    /\ told' = "failed"
    /\ UNCHANGED <<flag, elapsed, local>> /\ Unmoved

Ctrl_ota_handle_reply ==
    \/ ReplyConfirm \/ ReplyErased \/ ReplyAck \/ ReplyReceived \/ ReplySuccess
    \/ ReplyCrcFail \/ ReplyCrcError \/ ReplyLenError

-----------------------------------------------------------------------------
(* External: the controller's boot loader.                                   *)

Arrives(kind) == tx # <<>> /\ Head(tx).kind = kind /\ Len(rx) < MaxWire /\ tx' = Tail(tx)

Unchanged_Module == UNCHANGED <<eeprom, g, elapsed, main, told>>

(* A request erases the flash, whatever was going on before. *)
CtlRequest ==
    /\ Arrives("request")
    /\ LET req == Head(tx)
       IN  IF ctl.phase = "stuck"
           THEN UNCHANGED <<ctl, rx>>
           ELSE IF req.len \in RefusedLen
           THEN /\ ctl' = [ctl EXCEPT !.phase = "stuck"]
                /\ rx' = Append(rx, "LEN_ERROR")
           ELSE /\ ctl' = [ctl EXCEPT !.phase = "recv", !.len = req.len, !.crc = req.crc,
                                      !.buf = <<>>]
                /\ rx' = rx \o <<"REQ_CONFIRM", "FLASH_ERASE_OK">>
    /\ UNCHANGED faults /\ Unchanged_Module

(* The same file code over exactly the announced length. *)
Verified(buf) == Len(buf) = ctl.len /\ CrcOf(buf) = ctl.crc

(* A data frame carries no number: every good one is appended and            *)
(* acknowledged, and the one marked last is followed by the outcome.  A      *)
(* buffer beyond the announced length is wrong whatever follows, so one      *)
(* chunk too many is kept.                                                   *)
CtlData ==
    /\ Arrives("data")
    /\ LET frame == Head(tx)
           buf == IF Len(ctl.buf) > ctl.len THEN ctl.buf ELSE ctl.buf \o frame.data
       IN  IF ctl.phase # "recv"
           THEN UNCHANGED <<ctl, rx>>
           ELSE IF frame.more
           THEN /\ ctl' = [ctl EXCEPT !.buf = buf]
                /\ rx' = Append(rx, "DATA_ACK")
           ELSE /\ ctl' = [ctl EXCEPT !.buf = buf, !.phase = "boot",
                                      !.installed = IF Verified(buf) THEN buf ELSE @]
                /\ rx' = rx \o <<"DATA_ACK", "RECV_COMPLETE",
                                 IF Verified(buf) THEN "CRC_SUCCESS" ELSE "CRC_FAIL">>
    /\ UNCHANGED faults /\ Unchanged_Module

(* A data frame damaged on the wire. *)
CtlDamaged ==
    /\ Arrives("data")
    /\ faults.damage < MaxDamage
    /\ faults' = [faults EXCEPT !.damage = @ + 1]
    /\ IF ctl.phase = "recv"
       THEN ctl' = [ctl EXCEPT !.phase = "stuck"] /\ rx' = Append(rx, "CRC_ERROR")
       ELSE UNCHANGED <<ctl, rx>>
    /\ Unchanged_Module

LoseFrame ==
    /\ tx # <<>>
    /\ faults.frame < MaxFrameLoss
    /\ faults' = [faults EXCEPT !.frame = @ + 1]
    /\ tx' = Tail(tx)
    /\ UNCHANGED <<rx, ctl>> /\ Unchanged_Module

LoseReply ==
    /\ rx # <<>>
    /\ faults.reply < MaxReplyLoss
    /\ faults' = [faults EXCEPT !.reply = @ + 1]
    /\ rx' = Tail(rx)
    /\ UNCHANGED <<tx, ctl>> /\ Unchanged_Module

(* The vehicle is switched off and on: both processors start again, the      *)
(* module from the record it finds (Ctrl_ota_init).                          *)
Restarted ==
    /\ faults.boot < MaxBoot
    /\ faults' = [faults EXCEPT !.boot = @ + 1]
    /\ g' = CtrlInit(flag', meta')
    /\ elapsed' = TRUE
    /\ pc' = "loop"
    /\ local' = NoLocals
    /\ told' = "none"
    /\ tx' = <<>>
    /\ rx' = <<>>
    /\ ctl' = [ctl EXCEPT !.phase = "boot", !.buf = <<>>]

PowerCycle == UNCHANGED eeprom /\ Restarted

Controller == CtlRequest \/ CtlData
Fault == CtlDamaged \/ LoseFrame \/ LoseReply \/ PowerCycle

CtrlOtaNext == Main \/ Elapse \/ Ctrl_ota_handle_reply \/ Controller \/ Fault

CtrlOtaSpec == CtrlOtaInit /\ [][CtrlOtaNext]_ctrlOtaVars

(* The loop of main() keeps running (it has the processor whenever nothing   *)
(* of higher priority is ready), interrupts are taken, time passes, and the  *)
(* controller answers what reaches it.  No fault is ever obliged to happen.  *)
CtrlOtaFairSpec ==
    /\ CtrlOtaSpec
    /\ WF_ctrlOtaVars(Main)
    /\ WF_ctrlOtaVars(Elapse)
    /\ WF_ctrlOtaVars(Ctrl_ota_handle_reply)
    /\ WF_ctrlOtaVars(Controller)

-----------------------------------------------------------------------------
(* READY is given up for one reason only: the controller has verified and    *)
(* installed the very file the EEPROM offered - in spite of frames repeated  *)
(* after late answers, skipped after acknowledgements counted twice, or read *)
(* at an address the interrupt has just moved (file chunks all different).   *)
ClearedOnlyWhenInstalled ==
    flag # READY => ctl.installed = SubSeq(image, 1, meta.len)

(* The module leaves its OTA loop for good only with nothing left to send:   *)
(* as long as the offered file is not installed, the loop goes on.           *)
LoopLeftOnlyWhenDone == pc = "relay" => flag # READY

(* The read address and the sent length move together, whichever of the main *)
(* thread and the interrupt moves them, and never beyond the file.           *)
CtrlOtaPosition ==
    /\ g.eeprom_read_addr = g.sent_length
    /\ g.sent_length <= g.file_length

(* The sender is never ahead of the controller: each chunk it has moved past *)
(* answers to a frame the controller took in this transfer - a repeated      *)
(* acknowledgement counts a repeated frame.                                  *)
AckedWasTaken ==
    (g.state \in {"SEND_DATA", "WAIT_DATA_ACK", "WAIT_COMPLETE"} /\ pc # "rewind") =>
        g.sent_length <= Len(ctl.buf)

(* Frames lost on the way to the controller, and a power cycle, only delay    *)
(* the transfer: the request is repeated every 30 ms and a chunk after 500 ms *)
(* without answer, and a boot finds READY still there.  The file is installed *)
(* and READY cleared in the end, unless the controller refuses its length, a  *)
(* data frame is damaged, or a reply is lost or late.                         *)
Excused ==
    \/ meta.len \in RefusedLen
    \/ faults.damage > 0 \/ faults.reply > 0 \/ faults.late > 0

Delivered ==
    <>(Excused \/ (flag # READY /\ ctl.installed = SubSeq(image, 1, meta.len)))

(* The code says of the two outcomes "OTA complete!" (controller_ota.c:303)  *)
(* and "restarting OTA flow" (controller_ota.c:319): what the interrupt has  *)
(* decided is not undone by the main thread.  Once COMPLETE, the transfer    *)
(* does not come back to life before the next boot; an ERROR leads back to   *)
(* the request phase.                                                        *)
OutcomeStands ==
    [][ faults'.boot = faults.boot =>
           /\ g.state = "COMPLETE" => g'.state = "COMPLETE"
           /\ g.state = "ERROR" => g'.state \in {"ERROR", "SEND_REQUEST", "COMPLETE"} ]_ctrlOtaVars
=============================================================================
