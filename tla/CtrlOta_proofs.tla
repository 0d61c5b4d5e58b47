--------------------------- MODULE CtrlOta_proofs ---------------------------
(***************************************************************************)
(* Proofs about the transfer to the controller, for every file, every      *)
(* EEPROM size, every set of refused lengths and every number of faults.   *)
(*                                                                         *)
(* The argument.  Data frames carry no number, so that the module is not   *)
(* ahead of the boot loader (AckedWasTaken) is a matter of counting: what  *)
(* it has advanced by, plus the acknowledgements on their way to it, is at *)
(* most what the boot loader holds (Credit).  A request empties the boot   *)
(* loader, so none may be accepted while something is counted:             *)
(*   - a request on the wire, or about to be sent, finds sent_length = 0   *)
(*     and no acknowledgement on the wire (FromStart, NoAckYet);           *)
(*   - after CRC_FAIL the module starts again, and until it has rewound no *)
(*     request is on the wire and nothing is received (AfterFailure), and  *)
(*     no acknowledgement comes after CRC_FAIL (FailureLast);              *)
(*   - data that will be received has no request behind it and belongs to  *)
(*     the transfer the module is in (DataAfterRequests).                  *)
(* A frame without data is acknowledged too; it is sent only when nothing  *)
(* is left (EmptyInHand, EmptyAtEnd), where the whole file is already with *)
(* the boot loader.                                                        *)
(*                                                                         *)
(* From there what is installed (OInv): the chunk a frame brings is one of *)
(* the file up to the place it gets (DueOnWire, NotAhead), and a buffer    *)
(* like that with the file's length and code is the file, provided its     *)
(* chunks are all different (VerifiedIsFile).                              *)
(***************************************************************************)
EXTENDS CtrlOta, FiniteSetTheorems, FunctionTheorems,
        SequenceTheorems, TLAPS

-----------------------------------------------------------------------------
(* What is on the wire. *)
IsData(i)  == tx[i].kind = "data"
HasRequest == \E i \in 1..Len(tx) : tx[i].kind = "request"

(* The module has yet to send data, or to decide that it starts again.       *)
Before ==
    \/ pc \in {"request", "restart", "rewind"}
    \/ g.state \in {"SEND_REQUEST", "WAIT_CONFIRM", "ERROR"}

(* The controller has told the module that the file is wrong, or is about to. *)
Failed ==
    \/ \E i \in 1..Len(rx) : rx[i] = "CRC_FAIL"
    \/ g.state = "ERROR"
    \/ pc \in {"restart", "rewind"}

(* The boot loader will take the frame tx[i] for part of a file. *)
Taken(i) == ctl.phase = "recv" \/ \E j \in 1..(i - 1) : tx[j].kind = "request"

(* Acknowledgements among the replies s. *)
NumAcks(s) == Cardinality({i \in 1..Len(s) : s[i] = "DATA_ACK"})

(* The module rests only when it has nothing to offer. *)
Done == (g.state \in {"IDLE", "COMPLETE"} \/ pc = "relay") => flag # READY

(* Within a case of the switch the interrupt cannot bring back the request   *)
(* phase.                                                                    *)
Labels ==
    pc \in {"to_complete", "set_wait", "frame", "read", "send", "ack_check", "resend",
            "restart"}
        => g.state \notin {"SEND_REQUEST", "WAIT_CONFIRM"}

(* The length the boot loader works with is the module's. *)
Announced ==
    /\ \A i \in 1..Len(tx) : tx[i].kind = "request" => tx[i].len = g.file_length
    /\ ctl.phase = "recv" => ctl.len = g.file_length

(* A request starts from nothing, unless the rewind is still to come. *)
FromStart ==
    (g.state \in {"SEND_REQUEST", "WAIT_CONFIRM"} \/ pc = "request" \/ HasRequest)
        => g.sent_length = 0 \/ pc = "rewind"

(* From a failure to the rewind nothing is received. *)
AfterFailure == Failed => ctl.phase # "recv" /\ ~HasRequest /\ pc # "request"

(* A failure is the last word of its transfer. *)
FailureLast ==
    \A i \in 1..Len(rx) : rx[i] = "CRC_FAIL" =>
        \A j \in (i + 1)..Len(rx) : rx[j] \notin {"DATA_ACK", "CRC_FAIL"}

(* No acknowledgement crosses a request. *)
NoAckYet ==
    Before \/ HasRequest => \A i \in 1..Len(rx) : rx[i] \notin {"DATA_ACK", "CRC_FAIL"}

(* Data to be received is this transfer's. *)
DataAfterRequests ==
    \A i \in 1..Len(tx) : IsData(i) /\ Taken(i) =>
        ~Before /\ \A j \in (i + 1)..Len(tx) : IsData(j)

(* No data is read, or sent, only at the end of the file. *)
EmptyInHand ==
    /\ pc \in {"read", "send"} /\ local.chunk = 0 => g.sent_length = g.file_length
    /\ pc = "send" /\ local.data = <<>> => local.chunk = 0

(* The same of the frames on the wire. *)
EmptyAtEnd ==
    \A i \in 1..Len(tx) : IsData(i) /\ Taken(i) /\ tx[i].data = <<>> =>
        g.sent_length = g.file_length

(* Each chunk advanced by, or about to be, is with the boot loader, or the    *)
(* whole file is.                                                            *)
Credit ==
    \/ pc = "rewind"
    \/ g.sent_length + NumAcks(rx) <= Len(ctl.buf)
    \/ g.file_length <= Len(ctl.buf)

(* What the module sends is a frame. *)
LEMMA FrameTypes ==
    /\ \A n \in 0..Capacity, crc \in SUBSET Chunk :
          [kind |-> "request", len |-> n, crc |-> crc] \in Frame
    /\ \A more \in BOOLEAN, data \in Data :
          [kind |-> "data", more |-> more, data |-> data] \in Frame
BY DEF Frame

(* The first boot after a download. *)
LEMMA InitTypes == CtrlOtaInit => CtrlOtaTypeOK
<1> SUFFICES ASSUME CtrlOtaInit PROVE CtrlOtaTypeOK
    OBVIOUS
<1>1. meta \in [len : 0..Capacity, crc : SUBSET Chunk]
  <2>1. PICK n \in 1..Capacity : meta = [len |-> n, crc |-> CrcOfPrefix(image, n)]
      BY DEF CtrlOtaInit
  <2> QED
      BY <2>1, CtrlOtaAssumption DEF CrcOfPrefix
<1>2. g = [ state |-> "SEND_REQUEST", file_length |-> meta.len, file_crc |-> meta.crc,
            sent_length |-> 0, eeprom_read_addr |-> 0 ]
    BY DEF CtrlOtaInit, CtrlInit
<1>3. g \in Context
    BY <1>1, <1>2, CtrlOtaAssumption DEF Context, CtrlOtaState
<1>4. local \in Locals
    BY DEF CtrlOtaInit, NoLocals, Locals, Data
<1>5. /\ tx \in Seq(Frame) /\ Len(tx) = 0 /\ rx \in Seq(Cmd)
      /\ <<>> \in Seq(Chunk) /\ Len(tx) <= MaxWire
    BY CtrlOtaAssumption DEF CtrlOtaInit
<1>6. ctl \in BootLoader
    BY <1>5, CtrlOtaAssumption DEF CtrlOtaInit, CrcZero, BootLoader
<1>7. faults \in Faults
    BY DEF CtrlOtaInit, Faults
<1> QED
    BY <1>1, <1>3, <1>4, <1>5, <1>6, <1>7 DEF CtrlOtaInit, CtrlOtaTypeOK, Told, Pc

(* The bounds the proofs use. *)
LEMMA Bounds == Capacity \in Nat /\ Capacity > 0 /\ MaxWire \in Nat
<1>1. MaxWire \in {MaxWire, MaxLate, MaxFrameLoss, MaxDamage, MaxReplyLoss, MaxBoot}
    OBVIOUS
<1> QED
    BY <1>1, CtrlOtaAssumption

(* A boot reads the length and the code from the record. *)
LEMMA CtrlInitType ==
    ASSUME NEW f, NEW m \in [len : 0..Capacity, crc : SUBSET Chunk]
    PROVE  CtrlInit(f, m) \in Context
BY CtrlOtaAssumption DEF Context, CtrlInit, CtrlOtaState, CrcZero

(* A fault counted keeps the counters natural. *)
LEMMA FaultCounts ==
    ASSUME CtrlOtaTypeOK
    PROVE  /\ [faults EXCEPT !.damage = @ + 1] \in Faults
           /\ [faults EXCEPT !.frame = @ + 1] \in Faults
           /\ [faults EXCEPT !.reply = @ + 1] \in Faults
           /\ [faults EXCEPT !.boot = @ + 1] \in Faults
<1>1. faults \in Faults
    BY DEF CtrlOtaTypeOK
<1>2. faults.damage + 1 \in Nat /\ faults.frame + 1 \in Nat /\ faults.reply + 1 \in Nat
      /\ faults.boot + 1 \in Nat
    BY <1>1 DEF Faults
<1> QED
    BY <1>1, <1>2 DEF Faults

(* What is queued keeps its type. *)
LEMMA QueueTypes ==
    ASSUME CtrlOtaTypeOK
    PROVE  /\ \A f \in Frame : Len(tx) < MaxWire =>
                Append(tx, f) \in Seq(Frame) /\ Len(Append(tx, f)) <= MaxWire
           /\ tx # <<>> => Head(tx) \in Frame /\ Tail(tx) \in Seq(Frame) /\ Len(Tail(tx)) <= MaxWire
           /\ rx # <<>> => Tail(rx) \in Seq(Cmd)
           /\ \A x \in Cmd : Append(rx, x) \in Seq(Cmd)
           /\ \A x \in Cmd : rx \o <<"DATA_ACK", "RECV_COMPLETE", x>> \in Seq(Cmd)
           /\ rx \o <<"REQ_CONFIRM", "FLASH_ERASE_OK">> \in Seq(Cmd)
<1>0. tx \in Seq(Frame) /\ Len(tx) <= MaxWire /\ rx \in Seq(Cmd)
    BY DEF CtrlOtaTypeOK
<1>1. \A x \in Cmd : <<"DATA_ACK", "RECV_COMPLETE", x>> \in Seq(Cmd)
    BY DEF Cmd
<1>2. <<"REQ_CONFIRM", "FLASH_ERASE_OK">> \in Seq(Cmd)
    BY DEF Cmd
<1>3. \A x \in Cmd : rx \o <<"DATA_ACK", "RECV_COMPLETE", x>> \in Seq(Cmd)
    BY <1>0, <1>1
<1>4. rx \o <<"REQ_CONFIRM", "FLASH_ERASE_OK">> \in Seq(Cmd)
    BY <1>0, <1>2
<1>7. \A f \in Frame : Len(tx) < MaxWire =>
            Append(tx, f) \in Seq(Frame) /\ Len(Append(tx, f)) <= MaxWire
    BY <1>0, Bounds
<1>8. tx # <<>> => Head(tx) \in Frame /\ Tail(tx) \in Seq(Frame) /\ Len(Tail(tx)) <= MaxWire
    BY <1>0, Bounds
<1>9. (rx # <<>> => Tail(rx) \in Seq(Cmd)) /\ \A x \in Cmd : Append(rx, x) \in Seq(Cmd)
    BY <1>0
<1> QED
    BY <1>3, <1>4, <1>7, <1>8, <1>9

(* An acknowledgement counts for a chunk or for nothing, and never leads     *)
(* beyond the file.                                                          *)
LEMMA ChunkLenType ==
    ASSUME CtrlOtaTypeOK
    PROVE  /\ ChunkLen \in {0, 1}
           /\ CtrlOtaPosition => /\ g.sent_length + ChunkLen \in 0..Capacity
                          /\ g.eeprom_read_addr + ChunkLen \in 0..Capacity
                          /\ g.sent_length + ChunkLen <= g.file_length
<1>1. g.sent_length \in 0..Capacity /\ g.file_length \in 0..Capacity
    BY DEF CtrlOtaTypeOK, Context
<1> QED
    BY <1>1, Bounds DEF ChunkLen, remaining, CtrlOtaPosition

(* The main thread and the clock keep every variable in its type. *)
LEMMA MainTypes ==
    ASSUME CtrlOtaTypeOK, Main \/ Elapse
    PROVE  CtrlOtaTypeOK'
<1> USE DEF CtrlOtaTypeOK, Goto, eeprom, wire, main
<1>1. CASE LeaveLoop
    BY <1>1 DEF LeaveLoop, Pc
<1>2. CASE Dispatch
    BY <1>2 DEF Dispatch, Pc, Locals
<1>3. CASE NotifyFailed
    BY <1>3 DEF NotifyFailed, Told
<1>4. CASE Ctrl_ota_send_request
  <2>1. [kind |-> "request", len |-> g.file_length, crc |-> g.file_crc] \in Frame
      BY FrameTypes DEF Context
  <2>2. tx' \in Seq(Frame) /\ Len(tx') <= MaxWire
      BY <1>4, <2>1, QueueTypes DEF Ctrl_ota_send_request
  <2> QED
      BY <1>4, <2>2 DEF Ctrl_ota_send_request, Pc
<1>5. CASE AllSent
    BY <1>5 DEF AllSent, Pc, Context, CtrlOtaState
<1>6. CASE SetWaitAck
    BY <1>6 DEF SetWaitAck, Pc, Context, CtrlOtaState
<1>7. CASE ReadRemaining
  <2>1. ChunkLen \in {0, 1} /\ (ChunkLen < remaining) \in BOOLEAN
      BY ChunkLenType
  <2>2. local' \in Locals
      BY <1>7, <2>1 DEF ReadRemaining, Locals
  <2> QED
      BY <1>7, <2>2 DEF ReadRemaining, Pc
<1>8. CASE ReadEeprom
  <2>1. PICK c \in At(g.eeprom_read_addr) :
            local' = [local EXCEPT !.data = IF local.chunk = 1 THEN <<c>> ELSE <<>>]
      BY <1>8 DEF ReadEeprom
  <2>2. g.eeprom_read_addr \in 0..Capacity
      BY DEF Context
  <2>3. c \in Chunk
      BY <2>1, <2>2, Bounds DEF At
  <2>4. (IF local.chunk = 1 THEN <<c>> ELSE <<>>) \in Data
      BY <2>3 DEF Data
  <2>5. local' \in Locals
      BY <2>1, <2>4 DEF Locals
  <2> QED
      BY <1>8, <2>5 DEF ReadEeprom, Pc
<1>9. CASE SendFrame
  <2>1. [kind |-> "data", more |-> local.more, data |-> local.data] \in Frame
      BY FrameTypes DEF Locals, Data
  <2>2. tx' \in Seq(Frame) /\ Len(tx') <= MaxWire
      BY <1>9, <2>1, QueueTypes DEF SendFrame
  <2>3. NoLocals \in Locals
      BY DEF NoLocals, Locals, Data
  <2> QED
      BY <1>9, <2>2, <2>3 DEF SendFrame, Pc
<1>10. CASE AckCheck
    BY <1>10 DEF AckCheck, Pc
<1>11. CASE ResendChunk
    BY <1>11 DEF ResendChunk, Pc, Context, CtrlOtaState
<1>12. CASE Restart
    BY <1>12 DEF Restart, Pc, Context, CtrlOtaState
<1>13. CASE Rewind
  <2>1. 0 \in 0..Capacity
      BY Bounds
  <2>2. g' \in Context
      BY <1>13, <2>1 DEF Rewind, Context
  <2> QED
      BY <1>13, <2>2 DEF Rewind, Pc
<1>14. CASE Elapse
  <2>1. faults' \in Faults
      BY <1>14 DEF Elapse, Faults
  <2> QED
      BY <1>14, <2>1 DEF Elapse
<1> QED
    BY <1>1, <1>2, <1>3, <1>4, <1>5, <1>6, <1>7, <1>8, <1>9, <1>10, <1>11, <1>12, <1>13,
       <1>14 DEF Main

(* So does the interrupt, given that it advances within the file. *)
LEMMA ReplyTypes ==
    ASSUME CtrlOtaTypeOK, CtrlOtaPosition, Ctrl_ota_handle_reply
    PROVE  CtrlOtaTypeOK'
<1> USE DEF CtrlOtaTypeOK, Received, Unmoved
<1>1. rx' \in Seq(Cmd)
    BY QueueTypes DEF Ctrl_ota_handle_reply, ReplyConfirm, ReplyErased, ReplyAck, ReplyReceived,
       ReplySuccess, ReplyCrcFail, ReplyCrcError, ReplyLenError
<1>2. CASE ReplyConfirm
    BY <1>1, <1>2 DEF ReplyConfirm, Context, CtrlOtaState
<1>3. CASE ReplyErased
    BY <1>1, <1>3 DEF ReplyErased, Context, CtrlOtaState
<1>4. CASE ReplyAck
  <2>1. /\ g.sent_length + ChunkLen \in 0..Capacity
        /\ g.eeprom_read_addr + ChunkLen \in 0..Capacity
      BY ChunkLenType
  <2>2. CASE g.state = "WAIT_DATA_ACK"
    <3>1. PICK st \in {"WAIT_COMPLETE", "SEND_DATA"} :
              g' = [g EXCEPT !.eeprom_read_addr = @ + ChunkLen, !.sent_length = @ + ChunkLen,
                             !.state = st]
        BY <1>4, <2>2 DEF ReplyAck, Ctrl_ota_advance_data, Context
    <3>2. g' \in Context
        BY <2>1, <3>1 DEF Context, CtrlOtaState
    <3>3. local' \in Locals
        BY <1>4, <2>2 DEF ReplyAck, Locals
    <3> QED
        BY <1>1, <1>4, <2>2, <3>2, <3>3 DEF ReplyAck
  <2>3. CASE g.state # "WAIT_DATA_ACK"
      BY <1>1, <1>4, <2>3 DEF ReplyAck
  <2> QED
      BY <2>2, <2>3
<1>5. CASE ReplyReceived
    BY <1>1, <1>5 DEF ReplyReceived
<1>6. CASE ReplySuccess
    BY <1>1, <1>6 DEF ReplySuccess, Context, CtrlOtaState, Told
<1>7. CASE ReplyCrcFail
    BY <1>1, <1>7 DEF ReplyCrcFail, Context, CtrlOtaState, Told
<1>8. CASE ReplyCrcError
  <2>1. g' \in Context /\ told' \in Told
      BY <1>8 DEF ReplyCrcError, Context, CtrlOtaState, Told
  <2> QED
      BY <1>1, <1>8, <2>1 DEF ReplyCrcError
<1>9. CASE ReplyLenError
    BY <1>1, <1>9 DEF ReplyLenError, Context, CtrlOtaState, Told
<1> QED
    BY <1>2, <1>3, <1>4, <1>5, <1>6, <1>7, <1>8, <1>9 DEF Ctrl_ota_handle_reply

(* So does a boot, from whatever EEPROM it finds. *)
LEMMA RestartedTypes ==
    ASSUME CtrlOtaTypeOK, Restarted,
           image' \in [1..Capacity -> Chunk], flag' \in {READY, IDLE},
           meta' \in [len : 0..Capacity, crc : SUBSET Chunk]
    PROVE  CtrlOtaTypeOK'
<1>1. <<>> \in Seq(Chunk) /\ <<>> \in Seq(Frame) /\ <<>> \in Seq(Cmd) /\ Len(<<>>) <= MaxWire
    BY Bounds
<1>2. g' \in Context
    BY CtrlInitType DEF Restarted
<1>3. NoLocals \in Locals
    BY DEF NoLocals, Locals, Data
<1>4. ctl' \in BootLoader /\ faults' \in Faults
    BY <1>1, FaultCounts DEF Restarted, BootLoader, CtrlOtaTypeOK
<1> QED
    BY <1>1, <1>2, <1>3, <1>4 DEF Restarted, Pc, Told, CtrlOtaTypeOK

(* So do the boot loader, the wire and a power cycle. *)
LEMMA ExternalTypes ==
    ASSUME CtrlOtaTypeOK, Controller \/ Fault
    PROVE  CtrlOtaTypeOK'
<1> USE DEF CtrlOtaTypeOK, Arrives, Unchanged_Module, eeprom, main
<1>0. <<>> \in Seq(Chunk) /\ <<>> \in Seq(Frame) /\ <<>> \in Seq(Cmd) /\ Len(<<>>) <= MaxWire
    BY Bounds
<1>1. CASE CtlRequest
  <2>1. Head(tx) \in Frame /\ Head(tx).kind = "request"
      BY <1>1, QueueTypes DEF CtlRequest
  <2>2. Head(tx).len \in 0..Capacity /\ Head(tx).crc \in SUBSET Chunk
      BY <2>1 DEF Frame
  <2>3. tx' \in Seq(Frame) /\ Len(tx') <= MaxWire /\ rx' \in Seq(Cmd)
      BY <1>1, QueueTypes DEF CtlRequest, Cmd
  <2>4. ctl' \in BootLoader
      BY <1>0, <1>1, <2>2 DEF CtlRequest, BootLoader
  <2> QED
      BY <1>1, <2>3, <2>4 DEF CtlRequest
<1>2. CASE CtlData
  <2> DEFINE buf == IF Len(ctl.buf) > ctl.len THEN ctl.buf ELSE ctl.buf \o Head(tx).data
  <2>1. Head(tx) \in Frame /\ Head(tx).kind = "data"
      BY <1>2, QueueTypes DEF CtlData
  <2>2. Head(tx).data \in Data
      BY <2>1 DEF Frame, Data
  <2>3. Head(tx).data \in Seq(Chunk)
    <3>1. \A c \in Chunk : <<c>> \in Seq(Chunk)
        OBVIOUS
    <3> QED
        BY <1>0, <2>2, <3>1 DEF Data
  <2>4. buf \in Seq(Chunk)
      BY <2>3 DEF BootLoader
  <2>5. rx' \in Seq(Cmd)
      BY <1>2, QueueTypes DEF CtlData, Cmd
  <2>6. tx' \in Seq(Frame) /\ Len(tx') <= MaxWire
      BY <1>2, QueueTypes DEF CtlData
  <2>7. \/ ctl' = ctl
        \/ ctl' = [ctl EXCEPT !.buf = buf]
        \/ ctl' = [ctl EXCEPT !.buf = buf, !.phase = "boot", !.installed = @]
        \/ ctl' = [ctl EXCEPT !.buf = buf, !.phase = "boot", !.installed = buf]
      BY <1>2 DEF CtlData
  <2> HIDE DEF buf
  <2>8. ctl' \in BootLoader
      BY <2>4, <2>7 DEF BootLoader
  <2> QED
      BY <1>2, <2>5, <2>6, <2>8 DEF CtlData
<1>3. CASE CtlDamaged
  <2>1. tx' \in Seq(Frame) /\ Len(tx') <= MaxWire /\ rx' \in Seq(Cmd)
      BY <1>3, QueueTypes DEF CtlDamaged, Cmd
  <2>2. ctl' \in BootLoader /\ faults' \in Faults
      BY <1>3, FaultCounts DEF CtlDamaged, BootLoader
  <2> QED
      BY <1>3, <2>1, <2>2 DEF CtlDamaged
<1>4. CASE LoseFrame
  <2>1. faults' \in Faults
      BY <1>4, FaultCounts DEF LoseFrame
  <2> QED
      BY <1>4, <2>1, QueueTypes DEF LoseFrame
<1>5. CASE LoseReply
  <2>1. faults' \in Faults
      BY <1>5, FaultCounts DEF LoseReply
  <2> QED
      BY <1>5, <2>1, QueueTypes DEF LoseReply
<1>6. CASE PowerCycle
    BY <1>6, RestartedTypes DEF PowerCycle
<1> QED
    BY <1>1, <1>2, <1>3, <1>4, <1>5, <1>6 DEF Controller, Fault

-----------------------------------------------------------------------------
(* Queues.                                                                   *)

(* What is left when the head has gone. *)
LEMMA Popped ==
    ASSUME NEW S, NEW s \in Seq(S), s # <<>>
    PROVE  /\ Len(s) \in Nat \ {0} /\ Len(Tail(s)) = Len(s) - 1
           /\ Head(s) = s[1]
           /\ \A i \in 1..Len(Tail(s)) : Tail(s)[i] = s[i + 1] /\ i + 1 \in 2..Len(s)
OBVIOUS

(* Where the elements of a concatenation come from. *)
LEMMA Joined ==
    ASSUME NEW S, NEW s \in Seq(S), NEW t \in Seq(S)
    PROVE  /\ Len(s \o t) = Len(s) + Len(t) /\ Len(s) \in Nat /\ Len(t) \in Nat
           /\ \A i \in 1..Len(s) : (s \o t)[i] = s[i]
           /\ \A i \in 1..Len(t) : (s \o t)[Len(s) + i] = t[i]
           /\ \A i \in 1..Len(s \o t) :
                \/ i \in 1..Len(s) /\ (s \o t)[i] = s[i]
                \/ i - Len(s) \in 1..Len(t) /\ (s \o t)[i] = t[i - Len(s)]
OBVIOUS

(* One element appended. *)
LEMMA Appended ==
    ASSUME NEW S, NEW s \in Seq(S), NEW x \in S
    PROVE  /\ Append(s, x) = s \o <<x>> /\ <<x>> \in Seq(S)
           /\ Len(<<x>>) = 1 /\ <<x>>[1] = x
           /\ Len(Append(s, x)) = Len(s) + 1 /\ Len(s) \in Nat
           /\ \A i \in 1..Len(s) : Append(s, x)[i] = s[i]
           /\ Append(s, x)[Len(s) + 1] = x
OBVIOUS

(* Acknowledgements in a queue, one by one. *)
Acks(s) == {i \in 1..Len(s) : s[i] = "DATA_ACK"}

(* Their number is a natural number, and zero when there are none. *)
LEMMA AcksFinite ==
    ASSUME NEW s \in Seq(Cmd)
    PROVE  /\ IsFiniteSet(Acks(s)) /\ NumAcks(s) = Cardinality(Acks(s)) /\ NumAcks(s) \in Nat
           /\ (\A i \in 1..Len(s) : s[i] # "DATA_ACK") => NumAcks(s) = 0
<1>1. IsFiniteSet(1..Len(s))
    BY FS_Interval
<1>2. IsFiniteSet(Acks(s))
    BY <1>1, FS_Subset DEF Acks
<1>3. NumAcks(s) = Cardinality(Acks(s))
    BY DEF NumAcks, Acks
<1>4. ASSUME \A i \in 1..Len(s) : s[i] # "DATA_ACK" PROVE NumAcks(s) = 0
  <2>1. Acks(s) = {}
      BY <1>4 DEF Acks
  <2> QED
      BY <1>3, <2>1, FS_EmptySet
<1> QED
    BY <1>2, <1>3, <1>4, FS_CardinalityType

(* An empty queue holds none. *)
LEMMA NoAcks == NumAcks(<<>>) = 0
<1>1. <<>> \in Seq(Cmd) /\ \A i \in 1..Len(<<>>) : <<>>[i] # "DATA_ACK"
    OBVIOUS
<1> QED
    BY <1>1, AcksFinite

(* Replies appended, of which at most the first acknowledges, add that one. *)
LEMMA AcksJoined ==
    ASSUME NEW s \in Seq(Cmd), NEW t \in Seq(Cmd), \A i \in 2..Len(t) : t[i] # "DATA_ACK",
           Len(t) > 0
    PROVE  NumAcks(s \o t) = NumAcks(s) + (IF t[1] = "DATA_ACK" THEN 1 ELSE 0)
<1>0. s \o t \in Seq(Cmd) /\ 1 \in 1..Len(t) /\ Len(s) \in Nat
    OBVIOUS
<1>3. /\ NumAcks(s \o t) = Cardinality(Acks(s \o t))
      /\ NumAcks(s) = Cardinality(Acks(s)) /\ NumAcks(s) \in Nat
    BY <1>0, AcksFinite
<1>1. CASE t[1] = "DATA_ACK"
  <2>1. Acks(s \o t) = Acks(s) \cup {Len(s) + 1}
    <3>1. ASSUME NEW i \in Acks(s \o t) PROVE i \in Acks(s) \cup {Len(s) + 1}
      <4>1. CASE i \in 1..Len(s) /\ (s \o t)[i] = s[i]
          BY <3>1, <4>1 DEF Acks
      <4>2. CASE i - Len(s) \in 1..Len(t) /\ (s \o t)[i] = t[i - Len(s)]
        <5>1. i - Len(s) = 1
            BY <3>1, <4>2 DEF Acks
        <5> QED
            BY <1>0, <3>1, <5>1 DEF Acks
      <4> QED
          BY <3>1, <4>1, <4>2, Joined DEF Acks
    <3>2. ASSUME NEW i \in Acks(s) PROVE i \in Acks(s \o t)
        BY <3>2, Joined DEF Acks
    <3>3. Len(s) + 1 \in Acks(s \o t)
        BY <1>0, <1>1, Joined DEF Acks
    <3> QED
        BY <3>1, <3>2, <3>3
  <2>2. Len(s) + 1 \notin Acks(s)
      BY DEF Acks
  <2>3. Cardinality(Acks(s) \cup {Len(s) + 1}) = Cardinality(Acks(s)) + 1
      BY <2>2, AcksFinite, FS_AddElement
  <2> QED
      BY <1>1, <1>3, <2>1, <2>3
<1>2. CASE t[1] # "DATA_ACK"
  <2>1. Acks(s \o t) = Acks(s)
      BY <1>2, Joined DEF Acks
  <2> QED
      BY <1>2, <1>3, <2>1
<1> QED
    BY <1>1, <1>2

(* A reply taken from the front takes itself away. *)
LEMMA AcksPopped ==
    ASSUME NEW s \in Seq(Cmd), s # <<>>
    PROVE  NumAcks(Tail(s)) = NumAcks(s) - (IF Head(s) = "DATA_ACK" THEN 1 ELSE 0)
<1> DEFINE Rest == Acks(s) \ {1}
           shift == [i \in Acks(Tail(s)) |-> i + 1]
<1>1. Tail(s) \in Seq(Cmd)
    OBVIOUS
<1>2. /\ \A i \in Acks(Tail(s)) : i + 1 \in Rest
      /\ \A j \in Rest : j - 1 \in Acks(Tail(s)) /\ (j - 1) + 1 = j
      /\ Acks(Tail(s)) \subseteq Int
    BY Popped DEF Acks
<1>3. shift \in Bijection(Acks(Tail(s)), Rest)
  <2>1. shift \in [Acks(Tail(s)) -> Rest]
      BY <1>2
  <2>2. \A i, j \in Acks(Tail(s)) : shift[i] = shift[j] => i = j
      BY <1>2
  <2>3. \A j \in Rest : \E i \in Acks(Tail(s)) : shift[i] = j
      BY <1>2
  <2> QED
      BY <2>1, <2>2, <2>3, Fun_IsBij
<1>4. Cardinality(Rest) = Cardinality(Acks(Tail(s)))
  <2>1. ExistsBijection(Acks(Tail(s)), Rest)
      BY <1>3, Fun_ExistsBij
  <2> QED
      BY <1>1, <2>1, AcksFinite, FS_Bijection
<1>5. Head(s) = s[1] /\ (1 \in Acks(s) <=> Head(s) = "DATA_ACK")
    BY Popped DEF Acks
<1>6. Cardinality(Rest) = IF 1 \in Acks(s) THEN Cardinality(Acks(s)) - 1 ELSE Cardinality(Acks(s))
    BY AcksFinite, FS_RemoveElement
<1>7. /\ NumAcks(Tail(s)) = Cardinality(Acks(Tail(s)))
      /\ NumAcks(s) = Cardinality(Acks(s)) /\ NumAcks(s) \in Nat
    BY <1>1, AcksFinite
<1> QED
    BY <1>4, <1>5, <1>6, <1>7

-----------------------------------------------------------------------------
(* What kinds of step there are, and what each leaves alone.                 *)

(* Main thread and clock, without the steps that send a frame. *)
Silent ==
    \/ LeaveLoop \/ Dispatch \/ NotifyFailed \/ AllSent \/ SetWaitAck \/ ReadRemaining
    \/ ReadEeprom \/ AckCheck \/ ResendChunk \/ Restart \/ Rewind \/ Elapse

(* What such a step may change.  Only the dispatch leads to a request, and   *)
(* only the rewind moves sent_length, back to the start.                     *)
LEMMA SilentStep ==
    ASSUME CtrlOtaTypeOK, Labels, Silent
    PROVE  /\ UNCHANGED <<flag, tx, rx, ctl>> /\ g'.file_length = g.file_length
           /\ Before' => Before
           /\ g'.state = "ERROR" \/ pc' \in {"restart", "rewind"}
                => g.state = "ERROR" \/ pc \in {"restart", "rewind"}
           /\ pc' = "request" =>
                pc = "request" \/ (g.state = "SEND_REQUEST" /\ pc = "loop" /\ g' = g)
           /\ \/ g'.sent_length = g.sent_length /\ (pc = "rewind" => pc' = "rewind")
              \/ pc = "rewind" /\ g'.sent_length = 0
           /\ g'.state \in {"SEND_REQUEST", "WAIT_CONFIRM"}
                => pc' = "rewind" \/ g.state \in {"SEND_REQUEST", "WAIT_CONFIRM"}
<1> USE DEF CtrlOtaTypeOK, Context, Goto, eeprom, wire, main, Labels, Before
<1>1. CASE LeaveLoop
    BY <1>1 DEF LeaveLoop
<1>2. CASE Dispatch
    BY <1>2 DEF Dispatch
<1>3. CASE NotifyFailed
    BY <1>3 DEF NotifyFailed
<1>4. CASE AllSent
    BY <1>4 DEF AllSent
<1>5. CASE SetWaitAck
    BY <1>5 DEF SetWaitAck
<1>6. CASE ReadRemaining
    BY <1>6 DEF ReadRemaining
<1>7. CASE ReadEeprom
    BY <1>7 DEF ReadEeprom
<1>8. CASE AckCheck
    BY <1>8 DEF AckCheck
<1>9. CASE ResendChunk
    BY <1>9 DEF ResendChunk
<1>10. CASE Restart
    BY <1>10 DEF Restart
<1>11. CASE Rewind
    BY <1>11 DEF Rewind
<1>12. CASE Elapse
  <2>1. UNCHANGED <<flag, tx, rx, ctl, g, pc>>
      BY <1>12 DEF Elapse
  <2> QED
      BY <2>1
<1> QED
    BY <1>1, <1>2, <1>3, <1>4, <1>5, <1>6, <1>7, <1>8, <1>9, <1>10, <1>11, <1>12 DEF Silent

(* What the interrupt may change.  It advances by a chunk only for an         *)
(* acknowledgement, and never leads back to the request phase by itself.     *)
LEMMA ReplyStep ==
    ASSUME CtrlOtaTypeOK, Ctrl_ota_handle_reply
    PROVE  /\ rx # <<>> /\ rx' = Tail(rx)
           /\ UNCHANGED <<tx, ctl, pc>> /\ g'.file_length = g.file_length
           /\ g'.state = "ERROR" => g.state = "ERROR" \/ Head(rx) = "CRC_FAIL"
           /\ g'.state \in {"SEND_REQUEST", "WAIT_CONFIRM"}
                => g.state \in {"SEND_REQUEST", "WAIT_CONFIRM"}
           /\ \/ g'.sent_length = g.sent_length
              \/ /\ Head(rx) = "DATA_ACK" /\ g.state = "WAIT_DATA_ACK"
                 /\ g'.sent_length = g.sent_length + ChunkLen
<1> USE DEF CtrlOtaTypeOK, Context, Received, Unmoved
<1>1. CASE ReplyConfirm
    BY <1>1 DEF ReplyConfirm
<1>2. CASE ReplyErased
    BY <1>2 DEF ReplyErased
<1>3. CASE ReplyAck
    BY <1>3, ChunkLenType DEF ReplyAck, Ctrl_ota_advance_data
<1>4. CASE ReplyReceived
    BY <1>4 DEF ReplyReceived
<1>5. CASE ReplySuccess
    BY <1>5 DEF ReplySuccess
<1>6. CASE ReplyCrcFail
    BY <1>6 DEF ReplyCrcFail
<1>7. CASE ReplyCrcError
    BY <1>7 DEF ReplyCrcError
<1>8. CASE ReplyLenError
    BY <1>8 DEF ReplyLenError
<1> QED
    BY <1>1, <1>2, <1>3, <1>4, <1>5, <1>6, <1>7, <1>8 DEF Ctrl_ota_handle_reply

(* The boot loader and the wire. *)
External == Controller \/ CtlDamaged \/ LoseFrame \/ LoseReply

(* Every step is of one of these kinds. *)
LEMMA Kinds ==
    CtrlOtaNext => \/ Silent \/ Ctrl_ota_send_request \/ SendFrame \/ Ctrl_ota_handle_reply
            \/ External \/ PowerCycle
BY DEF CtrlOtaNext, Main, Silent, External, Fault

-----------------------------------------------------------------------------
(* The sender alone.                                                         *)
Sender == CtrlOtaPosition /\ Labels /\ EmptyInHand

(* A boot starts it from the beginning of the file. *)
LEMMA RestartedSender ==
    ASSUME meta' \in [len : 0..Capacity, crc : SUBSET Chunk], Restarted
    PROVE  Sender'
BY Bounds DEF Restarted, CtrlInit, NoLocals, Sender, CtrlOtaPosition, Labels, EmptyInHand

(* The sender's own part is inductive. *)
LEMMA SenderStep ==
    ASSUME CtrlOtaTypeOK, Sender, CtrlOtaNext
    PROVE  Sender'
<1> USE DEF Sender, CtrlOtaPosition, Labels, EmptyInHand
<1>1. CASE Silent
  <2> USE DEF CtrlOtaTypeOK, Context, Locals, Goto, eeprom, wire, main, Ctrl_ota_is_active
  <2>1. CASE LeaveLoop
      BY <2>1 DEF LeaveLoop
  <2>2. CASE Dispatch
      BY <2>2 DEF Dispatch
  <2>3. CASE NotifyFailed
      BY <2>3 DEF NotifyFailed
  <2>4. CASE AllSent
      BY <2>4 DEF AllSent
  <2>5. CASE SetWaitAck
      BY <2>5 DEF SetWaitAck
  <2>6. CASE ReadRemaining
    <3>1. local'.chunk = 0 => g.sent_length = g.file_length
        BY <2>6, Bounds DEF ReadRemaining, ChunkLen, remaining
    <3> QED
        BY <2>6, <3>1 DEF ReadRemaining
  <2>7. CASE ReadEeprom
    <3>1. PICK c \in At(g.eeprom_read_addr) :
              local' = [local EXCEPT !.data = IF local.chunk = 1 THEN <<c>> ELSE <<>>]
        BY <2>7 DEF ReadEeprom
    <3>2. local'.chunk = local.chunk /\ (local'.data = <<>> => local.chunk = 0)
        BY <3>1
    <3> QED
        BY <2>7, <3>2 DEF ReadEeprom
  <2>8. CASE AckCheck
      BY <2>8 DEF AckCheck
  <2>9. CASE ResendChunk
      BY <2>9 DEF ResendChunk
  <2>10. CASE Restart
      BY <2>10 DEF Restart
  <2>11. CASE Rewind
      BY <2>11, Bounds DEF Rewind
  <2>12. CASE Elapse
      BY <2>12 DEF Elapse
  <2> QED
      BY <1>1, <2>1, <2>2, <2>3, <2>4, <2>5, <2>6, <2>7, <2>8, <2>9, <2>10, <2>11, <2>12
      DEF Silent
<1>2. CASE Ctrl_ota_send_request
    BY <1>2 DEF Ctrl_ota_send_request, Goto, eeprom, CtrlOtaTypeOK, Context
<1>3. CASE SendFrame
    BY <1>3 DEF SendFrame, eeprom, CtrlOtaTypeOK, Context
<1>4. CASE Ctrl_ota_handle_reply
  <2> USE DEF CtrlOtaTypeOK, Context, Locals, Received, Unmoved
  <2>1. CASE ReplyConfirm
      BY <2>1 DEF ReplyConfirm
  <2>2. CASE ReplyErased
      BY <2>2 DEF ReplyErased
  <2>3. CASE ReplyAck
    <3>1. CASE g.state = "WAIT_DATA_ACK"
      <4>0. PICK st \in {"WAIT_COMPLETE", "SEND_DATA"} :
                g' = [g EXCEPT !.eeprom_read_addr = @ + ChunkLen, !.sent_length = @ + ChunkLen,
                               !.state = st]
          BY <2>3, <3>1 DEF ReplyAck, Ctrl_ota_advance_data
      <4>1. /\ g'.sent_length = g.sent_length + ChunkLen
            /\ g'.eeprom_read_addr = g.eeprom_read_addr + ChunkLen
            /\ g'.file_length = g.file_length
            /\ g'.state \in {"WAIT_COMPLETE", "SEND_DATA"}
            /\ local'.chunk = local.chunk /\ local'.data = local.data
            /\ pc' = pc /\ flag' = flag
          BY <2>3, <3>1, <4>0 DEF ReplyAck
      <4>2. /\ g'.sent_length <= g.file_length
            /\ g.sent_length = g.file_length => g'.sent_length = g.file_length
        <5>1. g.sent_length \in Nat /\ g.file_length \in Nat
            BY Bounds
        <5> QED
            BY <4>1, <5>1 DEF ChunkLen, remaining
      <4> QED
          BY <3>1, <4>1, <4>2
    <3>2. CASE g.state # "WAIT_DATA_ACK"
        BY <2>3, <3>2 DEF ReplyAck
    <3> QED
        BY <3>1, <3>2
  <2>4. CASE ReplyReceived
      BY <2>4 DEF ReplyReceived
  <2>5. CASE ReplySuccess
      BY <2>5 DEF ReplySuccess, READY, IDLE
  <2>6. CASE ReplyCrcFail
      BY <2>6 DEF ReplyCrcFail
  <2>7. CASE ReplyCrcError
      BY <2>7 DEF ReplyCrcError
  <2>8. CASE ReplyLenError
      BY <2>8 DEF ReplyLenError
  <2> QED
      BY <1>4, <2>1, <2>2, <2>3, <2>4, <2>5, <2>6, <2>7, <2>8 DEF Ctrl_ota_handle_reply
<1>5. CASE External
    BY <1>5 DEF External, Controller, CtlRequest, CtlData, CtlDamaged, LoseFrame, LoseReply,
       Unchanged_Module, eeprom, main
<1>6. CASE PowerCycle
    BY <1>6, RestartedSender DEF PowerCycle, eeprom, CtrlOtaTypeOK
<1> QED
    BY <1>1, <1>2, <1>3, <1>4, <1>5, <1>6, Kinds

(* While nothing but the transfer writes the flag, the module rests only once *)
(* READY is gone.                                                            *)
LEMMA DoneStep ==
    ASSUME CtrlOtaTypeOK, Done, CtrlOtaNext
    PROVE  Done'
<1> USE DEF Done, CtrlOtaTypeOK, Context
<1>1. CASE Main \/ Elapse
  <2> USE DEF Goto, eeprom, main, Ctrl_ota_is_active
  <2>1. CASE LeaveLoop \/ Dispatch \/ NotifyFailed
      BY <2>1 DEF LeaveLoop, Dispatch, NotifyFailed
  <2>2. CASE Ctrl_ota_send_request \/ AllSent \/ SetWaitAck \/ ReadRemaining
      BY <2>2 DEF Ctrl_ota_send_request, AllSent, SetWaitAck, ReadRemaining
  <2>3. CASE ReadEeprom \/ SendFrame \/ AckCheck
      BY <2>3 DEF ReadEeprom, SendFrame, AckCheck
  <2>4. CASE ResendChunk \/ Restart \/ Rewind \/ Elapse
      BY <2>4 DEF ResendChunk, Restart, Rewind, Elapse
  <2> QED
      BY <1>1, <2>1, <2>2, <2>3, <2>4 DEF Main
<1>2. CASE Ctrl_ota_handle_reply
  <2> USE DEF Received, Unmoved
  <2>1. CASE ReplyAck
      BY <2>1, ChunkLenType DEF ReplyAck, Ctrl_ota_advance_data
  <2>2. CASE ReplySuccess
      BY <2>2 DEF ReplySuccess, READY, IDLE
  <2>3. CASE ~ReplyAck /\ ~ReplySuccess
      BY <1>2, <2>3 DEF Ctrl_ota_handle_reply, ReplyConfirm, ReplyErased, ReplyReceived,
         ReplyCrcFail, ReplyCrcError, ReplyLenError
  <2> QED
      BY <2>1, <2>2, <2>3
<1>3. CASE External
    BY <1>3 DEF External, Controller, CtlRequest, CtlData, CtlDamaged, LoseFrame, LoseReply,
       Unchanged_Module, eeprom, main
<1>4. CASE PowerCycle
    BY <1>4 DEF PowerCycle, Restarted, CtrlInit, eeprom
<1> QED
    BY <1>1, <1>2, <1>3, <1>4 DEF CtrlOtaNext, Fault, External

-----------------------------------------------------------------------------
(* The two queues, the sender and the boot loader together.                  *)
Queues ==
    /\ Announced /\ FromStart /\ AfterFailure /\ FailureLast /\ NoAckYet
    /\ DataAfterRequests /\ EmptyAtEnd /\ Credit

(* The main thread between two frames keeps the agreement. *)
LEMMA SilentQueues ==
    ASSUME CtrlOtaTypeOK, Sender, Queues, Silent
    PROVE  Queues'
<1> USE SilentStep DEF Queues, Sender
<1>1. Failed' => Failed
    BY DEF Failed
<1>2. /\ HasRequest' = HasRequest
      /\ \A i \in 1..Len(tx) : Taken(i)' = Taken(i) /\ IsData(i)' = IsData(i)
      /\ NumAcks(rx)' = NumAcks(rx) /\ tx' = tx /\ rx' = rx /\ ctl' = ctl
    BY DEF HasRequest, Taken, IsData, NumAcks
<1>3. Announced'
    BY <1>2 DEF Announced
<1>4. FromStart'
    BY <1>2 DEF FromStart
<1>5. AfterFailure'
  <2>1. pc' = "request" => ~Failed'
    <3>1. CASE pc = "request"
        BY <1>1, <3>1 DEF AfterFailure
    <3>2. CASE g.state = "SEND_REQUEST" /\ pc = "loop" /\ g' = g
        BY <1>2, <3>2 DEF Failed, NoAckYet, Before
    <3> QED
        BY <3>1, <3>2
  <2> QED
      BY <1>1, <1>2, <2>1 DEF AfterFailure
<1>6. FailureLast'
    BY <1>2 DEF FailureLast
<1>7. NoAckYet'
    BY <1>2 DEF NoAckYet
<1>8. DataAfterRequests'
    BY <1>2 DEF DataAfterRequests
<1>9. EmptyAtEnd'
  <2>1. CASE pc = "rewind"
    <3>1. Failed
        BY <2>1 DEF Failed
    <3>2. \A i \in 1..Len(tx) : ~Taken(i)
        BY <3>1 DEF AfterFailure, Taken, HasRequest, CtrlOtaTypeOK
    <3> QED
        BY <1>2, <3>2 DEF EmptyAtEnd
  <2>2. CASE pc # "rewind"
      BY <1>2, <2>2 DEF EmptyAtEnd
  <2> QED
      BY <2>1, <2>2
<1>10. Credit'
  <2>1. rx \in Seq(Cmd) /\ Len(ctl.buf) \in Nat /\ NumAcks(rx) \in Nat
      BY AcksFinite DEF CtrlOtaTypeOK, BootLoader
  <2>2. CASE pc = "rewind" /\ g'.sent_length = 0
    <3>1. NumAcks(rx) = 0
        BY <2>1, <2>2, AcksFinite DEF NoAckYet, Before
    <3> QED
        BY <1>2, <2>1, <2>2, <3>1 DEF Credit
  <2>3. CASE g'.sent_length = g.sent_length /\ (pc = "rewind" => pc' = "rewind")
      BY <1>2, <2>3 DEF Credit
  <2> QED
      BY <2>2, <2>3
<1> QED
    BY <1>3, <1>4, <1>5, <1>6, <1>7, <1>8, <1>9, <1>10

(* A reply handled by the interrupt: an acknowledgement leaves the wire for   *)
(* the chunk it adds, a failure is the last word of its transfer.             *)
LEMMA ReplyQueues ==
    ASSUME CtrlOtaTypeOK, Sender, Queues, Ctrl_ota_handle_reply
    PROVE  Queues'
<1> USE ReplyStep DEF Queues, Sender
<1>0. rx \in Seq(Cmd) /\ tx \in Seq(Frame)
    BY DEF CtrlOtaTypeOK
<1>1. /\ HasRequest' = HasRequest
      /\ \A i \in 1..Len(tx) : Taken(i)' = Taken(i) /\ IsData(i)' = IsData(i)
      /\ tx' = tx /\ ctl' = ctl /\ pc' = pc
    BY DEF HasRequest, Taken, IsData
<1>2. /\ Len(rx) \in Nat \ {0} /\ Len(rx') = Len(rx) - 1 /\ Head(rx) = rx[1]
      /\ \A i \in 1..Len(rx') : rx'[i] = rx[i + 1] /\ i + 1 \in 2..Len(rx)
    BY <1>0, Popped
<1>3. Failed' => Failed
    BY <1>2 DEF Failed
<1>4. Before' => Before \/ Head(rx) = "CRC_FAIL"
    BY DEF Before
<1>5. Announced'
    BY <1>1 DEF Announced
<1>6. FromStart'
  <2>1. CASE Head(rx) = "DATA_ACK"
    <3>1. ~Before /\ ~HasRequest
        BY <1>2, <2>1 DEF NoAckYet
    <3>2. g'.state \notin {"SEND_REQUEST", "WAIT_CONFIRM"} /\ pc' # "request" /\ ~HasRequest'
        BY <1>1, <3>1 DEF Before
    <3> QED
        BY <3>2 DEF FromStart
  <2>2. CASE Head(rx) # "DATA_ACK"
      BY <1>1, <2>2 DEF FromStart
  <2> QED
      BY <2>1, <2>2
<1>7. AfterFailure'
    BY <1>1, <1>3 DEF AfterFailure
<1>8. FailureLast'
    BY <1>2 DEF FailureLast
<1>9. NoAckYet'
  <2>1. CASE Head(rx) = "CRC_FAIL"
      BY <1>2, <2>1 DEF FailureLast, NoAckYet
  <2>2. CASE Head(rx) # "CRC_FAIL"
      BY <1>1, <1>2, <1>4, <2>2 DEF NoAckYet
  <2> QED
      BY <2>1, <2>2
<1>10. DataAfterRequests'
  <2>1. CASE Head(rx) = "CRC_FAIL"
    <3>1. Failed
        BY <1>2, <2>1 DEF Failed
    <3>2. \A i \in 1..Len(tx) : ~Taken(i)
        BY <1>0, <3>1 DEF AfterFailure, Taken, HasRequest
    <3> QED
        BY <1>1, <3>2 DEF DataAfterRequests
  <2>2. CASE Head(rx) # "CRC_FAIL"
      BY <1>1, <1>4, <2>2 DEF DataAfterRequests
  <2> QED
      BY <2>1, <2>2
<1>11. EmptyAtEnd'
  <2>1. g.sent_length = g.file_length => g'.sent_length = g.sent_length
      BY DEF ChunkLen, remaining, CtrlOtaTypeOK, Context
  <2> QED
      BY <1>1, <2>1 DEF EmptyAtEnd
<1>12. Credit'
  <2>1. NumAcks(rx') = NumAcks(rx) - (IF Head(rx) = "DATA_ACK" THEN 1 ELSE 0)
      BY <1>0, AcksPopped
  <2>2. NumAcks(rx) \in Nat /\ Len(ctl.buf) \in Nat /\ g.sent_length \in Nat
      BY <1>0, AcksFinite, Bounds DEF CtrlOtaTypeOK, BootLoader, Context
  <2>3. g'.sent_length <= g.sent_length + (IF Head(rx) = "DATA_ACK" THEN 1 ELSE 0)
      BY <2>2, ChunkLenType
  <2>4. g'.sent_length \in Nat
      BY <2>2, ChunkLenType
  <2> QED
      BY <1>1, <2>1, <2>2, <2>3, <2>4 DEF Credit
<1> QED
    BY <1>5, <1>6, <1>7, <1>8, <1>9, <1>10, <1>11, <1>12

(* A request goes out: nothing of the last transfer is left to be confused   *)
(* with what it starts.                                                      *)
LEMMA RequestQueues ==
    ASSUME CtrlOtaTypeOK, Sender, Queues, Ctrl_ota_send_request
    PROVE  Queues'
<1> USE DEF Queues
<1> DEFINE req == [kind |-> "request", len |-> g.file_length, crc |-> g.file_crc]
<1>1. /\ pc = "request" /\ pc' = "loop" /\ UNCHANGED <<g, rx, ctl, flag>>
      /\ tx' = Append(tx, req)
    BY DEF Ctrl_ota_send_request, Goto, eeprom
<1>2. req \in Frame /\ tx \in Seq(Frame) /\ rx \in Seq(Cmd) /\ Len(ctl.buf) \in Nat
    BY FrameTypes DEF CtrlOtaTypeOK, Context, BootLoader
<1>3. req.kind = "request" /\ req.len = g.file_length
    OBVIOUS
<1> HIDE DEF req
<1>4. /\ Len(tx) \in Nat /\ Len(tx') = Len(tx) + 1
      /\ \A i \in 1..Len(tx) : tx'[i] = tx[i]
      /\ tx'[Len(tx) + 1] = req
    BY <1>1, <1>2, Appended
<1>5. Before /\ ~Failed /\ g.sent_length = 0
    BY <1>1 DEF Before, AfterFailure, FromStart
<1>6. ~Failed'
    BY <1>1, <1>5 DEF Failed
<1>7. \A i \in 1..Len(rx) : rx[i] \notin {"DATA_ACK", "CRC_FAIL"}
    BY <1>5 DEF NoAckYet
<1>8. \A i \in 1..Len(tx') : ~(IsData(i)' /\ Taken(i)')
  <2> SUFFICES ASSUME NEW i \in 1..Len(tx'), IsData(i)', Taken(i)'
               PROVE  FALSE
      OBVIOUS
  <2>1. i \in 1..Len(tx)
      BY <1>3, <1>4 DEF IsData
  <2>2. IsData(i) /\ Taken(i)
      BY <1>1, <1>4, <2>1 DEF IsData, Taken
  <2> QED
      BY <1>5, <2>1, <2>2 DEF DataAfterRequests
<1>9. Announced'
    BY <1>1, <1>3, <1>4 DEF Announced
<1>10. NumAcks(rx) = 0
    BY <1>2, <1>7, AcksFinite
<1>11. Credit'
    BY <1>1, <1>2, <1>5, <1>10 DEF Credit
<1>12. FromStart' /\ AfterFailure' /\ FailureLast' /\ NoAckYet'
    BY <1>1, <1>5, <1>6, <1>7 DEF FromStart, AfterFailure, FailureLast, NoAckYet
<1>13. DataAfterRequests' /\ EmptyAtEnd'
    BY <1>8 DEF DataAfterRequests, EmptyAtEnd
<1> QED
    BY <1>9, <1>11, <1>12, <1>13

(* A data frame goes out: if the boot loader is to take it, the transfer it  *)
(* belongs to has not failed, and it is empty only at the end of the file.   *)
LEMMA DataQueues ==
    ASSUME CtrlOtaTypeOK, Sender, Queues, SendFrame
    PROVE  Queues'
<1> USE DEF Queues
<1> DEFINE frame == [kind |-> "data", more |-> local.more, data |-> local.data]
<1>1. /\ pc = "send" /\ pc' = "loop" /\ UNCHANGED <<g, rx, ctl, flag>>
      /\ tx' = Append(tx, frame)
    BY DEF SendFrame, eeprom
<1>2. frame \in Frame /\ tx \in Seq(Frame)
    BY FrameTypes DEF CtrlOtaTypeOK, Locals
<1>3. frame.kind = "data" /\ frame.data = local.data
    OBVIOUS
<1> HIDE DEF frame
<1> PICK n \in Nat : n = Len(tx)
    BY <1>2
<1>4. /\ n = Len(tx) /\ Len(tx') = n + 1
      /\ \A i \in 1..n : tx'[i] = tx[i]
      /\ tx'[n + 1] = frame
    BY <1>1, <1>2, Appended
<1>5. (HasRequest' <=> HasRequest) /\ (Failed' => Failed) /\ (Before' => Before)
    BY <1>1, <1>3, <1>4 DEF HasRequest, Failed, Before
<1>6. \A i \in 1..n : (IsData(i)' <=> IsData(i)) /\ (Taken(i)' <=> Taken(i))
    BY <1>1, <1>4 DEF IsData, Taken
<1>7. IsData(n + 1)'
    BY <1>3, <1>4 DEF IsData
<1>8. Announced'
    BY <1>1, <1>3, <1>4 DEF Announced
<1>9. FromStart' /\ AfterFailure' /\ FailureLast' /\ NoAckYet' /\ Credit'
    BY <1>1, <1>5 DEF FromStart, AfterFailure, FailureLast, NoAckYet, Credit
<1>10. DataAfterRequests'
  <2> SUFFICES ASSUME NEW i \in 1..Len(tx'), IsData(i)', Taken(i)'
               PROVE  ~Before' /\ \A j \in (i + 1)..Len(tx') : IsData(j)'
      BY DEF DataAfterRequests
  <2>1. CASE i \in 1..n
    <3>1. ~Before /\ \A j \in (i + 1)..Len(tx) : IsData(j)
        BY <1>6, <2>1 DEF DataAfterRequests
    <3> QED
        BY <1>4, <1>5, <1>6, <1>7, <2>1, <3>1
  <2>2. CASE i = n + 1
    <3>1. ctl.phase = "recv" \/ HasRequest
        BY <1>1, <1>4, <2>2 DEF Taken, HasRequest
    <3>2. g.state \notin {"SEND_REQUEST", "WAIT_CONFIRM", "ERROR"}
        BY <1>1, <3>1 DEF Sender, Labels, AfterFailure, Failed
    <3> QED
        BY <1>1, <1>4, <2>2, <3>2 DEF Before
  <2> QED
      BY <1>4, <2>1, <2>2
<1>11. EmptyAtEnd'
  <2> SUFFICES ASSUME NEW i \in 1..Len(tx'), IsData(i)', Taken(i)', tx'[i].data = <<>>
               PROVE  g.sent_length = g.file_length
      BY <1>1 DEF EmptyAtEnd
  <2>1. CASE i \in 1..n
      BY <1>4, <1>6, <2>1 DEF EmptyAtEnd
  <2>2. CASE i = n + 1
      BY <1>1, <1>3, <1>4, <2>2 DEF Sender, EmptyInHand
  <2> QED
      BY <1>4, <2>1, <2>2
<1> QED
    BY <1>8, <1>9, <1>10, <1>11

(* Once a frame has left the wire, what is behind it moves up one place.     *)
LEMMA FramePopped ==
    ASSUME CtrlOtaTypeOK, tx # <<>>, tx' = Tail(tx)
    PROVE  /\ Len(tx') \in Nat /\ Len(tx) = Len(tx') + 1 /\ 1 \in 1..Len(tx)
           /\ Head(tx) = tx[1] /\ Head(tx) \in Frame
           /\ \A i \in 1..Len(tx') : tx'[i] = tx[i + 1] /\ i + 1 \in 1..Len(tx)
           /\ HasRequest' => HasRequest
           /\ \A i \in 1..Len(tx') : IsData(i)' <=> IsData(i + 1)
<1>1. tx \in Seq(Frame)
    BY DEF CtrlOtaTypeOK
<1>2. /\ Len(tx) \in Nat \ {0} /\ Len(tx') = Len(tx) - 1 /\ Head(tx) = tx[1]
      /\ \A i \in 1..Len(tx') : tx'[i] = tx[i + 1] /\ i + 1 \in 2..Len(tx)
    BY <1>1, Popped
<1>3. Head(tx) \in Frame
    BY <1>1
<1> QED
    BY <1>2, <1>3 DEF HasRequest, IsData

(* Of a frame that goes without starting a reception, nothing is left but     *)
(* replies that count for nothing.                                           *)
LEMMA FrameDropped ==
    ASSUME CtrlOtaTypeOK, Queues, tx # <<>>, tx' = Tail(tx), UNCHANGED <<g, pc>>,
           UNCHANGED ctl \/ ctl' = [ctl EXCEPT !.phase = "stuck"],
           NEW x \in Cmd \ {"DATA_ACK", "CRC_FAIL"},
           UNCHANGED rx \/ rx' = Append(rx, x)
    PROVE  Queues'
<1> USE DEF Queues
<1>0. rx \in Seq(Cmd) /\ ctl \in BootLoader
    BY DEF CtrlOtaTypeOK
<1>1. /\ ctl'.phase = "recv" => ctl.phase = "recv"
      /\ ctl'.len = ctl.len /\ ctl'.buf = ctl.buf
    BY <1>0 DEF BootLoader
<1>2. /\ Len(rx) \in Nat /\ Len(rx') \in Nat
      /\ \A i \in 1..Len(rx') : (i \in 1..Len(rx) /\ rx'[i] = rx[i])
                                \/ rx'[i] \notin {"DATA_ACK", "CRC_FAIL"}
      /\ \A i \in 1..Len(rx) : i \in 1..Len(rx') /\ rx'[i] = rx[i]
    BY <1>0, Appended
<1>3. NumAcks(rx') = NumAcks(rx)
  <2>1. CASE rx' = Append(rx, x)
    <3> DEFINE t == <<x>>
    <3>1. rx' = rx \o t /\ t \in Seq(Cmd) /\ Len(t) = 1 /\ t[1] = x
        BY <1>0, <2>1, Appended
    <3> HIDE DEF t
    <3>2. NumAcks(rx) \in Nat
        BY <1>0, AcksFinite
    <3>3. NumAcks(rx \o t) = NumAcks(rx) + (IF t[1] = "DATA_ACK" THEN 1 ELSE 0)
        BY <1>0, <3>1, AcksJoined
    <3> QED
        BY <3>1, <3>2, <3>3
  <2> QED
      BY <2>1
<1>4. (Before' <=> Before) /\ (Failed' => Failed)
    BY <1>2 DEF Before, Failed
<1>5. \A i \in 1..Len(tx') : Taken(i)' => Taken(i + 1)
    BY <1>1, FramePopped DEF Taken
<1>6. Announced'
    BY <1>1, FramePopped DEF Announced
<1>7. FromStart' /\ AfterFailure'
    BY <1>1, <1>4, FramePopped DEF FromStart, AfterFailure
<1>8. FailureLast' /\ NoAckYet'
  <2>1. FailureLast'
    <3> SUFFICES ASSUME NEW i \in 1..Len(rx'), rx'[i] = "CRC_FAIL", NEW j \in (i + 1)..Len(rx')
                 PROVE  rx'[j] \notin {"DATA_ACK", "CRC_FAIL"}
        BY DEF FailureLast
    <3>1. i \in 1..Len(rx) /\ rx[i] = "CRC_FAIL" /\ j \in 1..Len(rx')
        BY <1>2
    <3>2. CASE j \in 1..Len(rx) /\ rx'[j] = rx[j]
        BY <1>2, <3>1, <3>2 DEF FailureLast
    <3> QED
        BY <1>2, <3>1, <3>2
  <2>2. NoAckYet'
    <3>1. Before' \/ HasRequest' => Before \/ HasRequest
        BY <1>4, FramePopped
    <3> QED
        BY <1>2, <3>1 DEF NoAckYet
  <2> QED
      BY <2>1, <2>2
<1>9. DataAfterRequests'
  <2> SUFFICES ASSUME NEW i \in 1..Len(tx'), IsData(i)', Taken(i)'
               PROVE  ~Before' /\ \A j \in (i + 1)..Len(tx') : IsData(j)'
      BY DEF DataAfterRequests
  <2>1. ~Before /\ \A j \in (i + 2)..Len(tx) : IsData(j)
      BY <1>5, FramePopped DEF DataAfterRequests
  <2> QED
      BY <1>4, <2>1, FramePopped
<1>10. EmptyAtEnd'
    BY <1>5, FramePopped DEF EmptyAtEnd
<1>11. Credit'
    BY <1>1, <1>3 DEF Credit
<1> QED
    BY <1>6, <1>7, <1>8, <1>9, <1>10, <1>11

(* The boot loader accepts a request: it holds nothing, and no reply on the  *)
(* wire counts for a chunk.                                                  *)
LEMMA AcceptedQueues ==
    ASSUME CtrlOtaTypeOK, Queues, Arrives("request"), UNCHANGED <<g, pc>>,
           ctl' = [ctl EXCEPT !.phase = "recv", !.len = Head(tx).len, !.crc = Head(tx).crc,
                              !.buf = <<>>],
           rx' = rx \o <<"REQ_CONFIRM", "FLASH_ERASE_OK">>
    PROVE  Queues'
<1> USE DEF Queues
<1>0. /\ rx \in Seq(Cmd) /\ ctl \in BootLoader /\ <<"REQ_CONFIRM", "FLASH_ERASE_OK">> \in Seq(Cmd)
      /\ tx # <<>> /\ tx' = Tail(tx) /\ Head(tx).kind = "request"
    BY DEF CtrlOtaTypeOK, Arrives, Cmd
<1>1. /\ ctl'.phase = "recv" /\ ctl'.len = Head(tx).len /\ ctl'.buf = <<>>
    BY <1>0 DEF BootLoader
<1>2. HasRequest
    BY <1>0, FramePopped DEF HasRequest
<1>3. ~Failed
    BY <1>2 DEF AfterFailure
<1>4. g.sent_length = 0 /\ pc # "rewind"
    BY <1>2, <1>3 DEF FromStart, Failed
<1>5. \A i \in 1..Len(rx) : rx[i] \notin {"DATA_ACK", "CRC_FAIL"}
    BY <1>2 DEF NoAckYet
<1>6. rx' \in Seq(Cmd) /\ \A i \in 1..Len(rx') : rx'[i] \notin {"DATA_ACK", "CRC_FAIL"}
  <2> DEFINE t == <<"REQ_CONFIRM", "FLASH_ERASE_OK">>
  <2>1. \A i \in 1..Len(t) : t[i] \notin {"DATA_ACK", "CRC_FAIL"}
      OBVIOUS
  <2>2. t \in Seq(Cmd) /\ rx' = rx \o t
      BY <1>0
  <2> HIDE DEF t
  <2> QED
      BY <1>0, <1>5, <2>1, <2>2, Joined
<1>7. (Before' <=> Before) /\ ~Failed'
    BY <1>3, <1>6 DEF Before, Failed
<1>8. \A i \in 1..Len(tx') : Taken(i + 1)
  <2> TAKE i \in 1..Len(tx')
  <2>1. 1 \in 1..((i + 1) - 1) /\ tx[1].kind = "request"
      BY <1>0, FramePopped
  <2> QED
      BY <2>1 DEF Taken
<1>9. Announced'
    BY <1>0, <1>1, FramePopped DEF Announced
<1>10. FromStart' /\ AfterFailure' /\ FailureLast' /\ NoAckYet'
    BY <1>4, <1>6, <1>7 DEF FromStart, AfterFailure, FailureLast, NoAckYet
<1>11. DataAfterRequests'
  <2> SUFFICES ASSUME NEW i \in 1..Len(tx'), IsData(i)'
               PROVE  ~Before' /\ \A j \in (i + 1)..Len(tx') : IsData(j)'
      BY DEF DataAfterRequests
  <2>1. ~Before /\ \A j \in (i + 2)..Len(tx) : IsData(j)
      BY <1>0, <1>8, FramePopped DEF DataAfterRequests
  <2> QED
      BY <1>0, <1>7, <2>1, FramePopped
<1>12. EmptyAtEnd'
    BY <1>0, <1>8, FramePopped DEF EmptyAtEnd
<1>13. Credit'
  <2>1. NumAcks(rx') = 0
      BY <1>6, AcksFinite
  <2> QED
      BY <1>1, <1>4, <2>1 DEF Credit
<1> QED
    BY <1>9, <1>10, <1>11, <1>12, <1>13

(* What a data frame adds to the buffer: its chunk, unless it is empty or    *)
(* the buffer is full.                                                       *)
LEMMA Grown ==
    ASSUME CtrlOtaTypeOK, Arrives("data"),
           NEW buf,
           buf = IF Len(ctl.buf) > ctl.len THEN ctl.buf ELSE ctl.buf \o Head(tx).data
    PROVE  \/ Len(buf) = Len(ctl.buf) + 1
           \/ /\ Len(buf) = Len(ctl.buf)
              /\ Len(ctl.buf) > ctl.len \/ Head(tx).data = <<>>
<1>1. ctl.buf \in Seq(Chunk)
    BY DEF CtrlOtaTypeOK, BootLoader
<1>2. Head(tx) \in Frame /\ Head(tx).kind = "data"
    BY QueueTypes DEF Arrives
<1>3. Head(tx).data \in Data
    BY <1>2 DEF Frame, Data
<1>4. CASE Head(tx).data = <<>>
    BY <1>1, <1>4, ConcatEmptySeq
<1>5. CASE Head(tx).data # <<>>
  <2>1. PICK c \in Chunk : Head(tx).data = <<c>>
      BY <1>3, <1>5 DEF Data
  <2>2. Append(ctl.buf, c) = ctl.buf \o <<c>> /\ Len(Append(ctl.buf, c)) = Len(ctl.buf) + 1
      BY <1>1, Appended
  <2> QED
      BY <2>1, <2>2
<1> QED
    BY <1>4, <1>5

(* A data frame is taken while a file is received: no request is behind it,  *)
(* no failure is on its way, and the chunk it carries pays for the           *)
(* acknowledgement, unless the file is already complete.                     *)
LEMMA TakenQueues ==
    ASSUME CtrlOtaTypeOK, Sender, Queues, Arrives("data"), UNCHANGED <<g, pc>>, ctl.phase = "recv",
           \/ Len(ctl'.buf) = Len(ctl.buf) + 1
           \/ /\ Len(ctl'.buf) = Len(ctl.buf)
              /\ Len(ctl.buf) > ctl.len \/ Head(tx).data = <<>>,
           ctl'.len = ctl.len, ctl'.phase = ctl.phase \/ ctl'.phase = "boot",
           NEW t \in Seq(Cmd), Len(t) > 0, t[1] = "DATA_ACK",
           \A i \in 2..Len(t) : t[i] # "DATA_ACK",
           \A i \in 1..Len(t) : t[i] = "CRC_FAIL" => i = Len(t) /\ ctl'.phase = "boot",
           rx' = rx \o t
    PROVE  Queues'
<1> USE DEF Queues
<1>0. /\ rx \in Seq(Cmd) /\ ctl \in BootLoader
      /\ tx # <<>> /\ tx' = Tail(tx) /\ Head(tx).kind = "data"
    BY DEF CtrlOtaTypeOK, Arrives
<1>1. /\ IsData(1) /\ \A i \in 1..Len(tx) : Taken(i)
      /\ 1 \in 1..Len(tx) /\ Head(tx) = tx[1] /\ Head(tx) \in Frame
    BY <1>0, FramePopped DEF IsData, Taken
<1>2. ~Before /\ \A i \in 1..Len(tx) : IsData(i)
    BY <1>1 DEF DataAfterRequests
<1>3. ~Failed /\ \A i \in 1..Len(rx) : rx[i] # "CRC_FAIL"
    BY DEF AfterFailure, Failed
<1>4. ~HasRequest' /\ ~Before'
    BY <1>0, <1>2, FramePopped DEF HasRequest, IsData, Before
<1>5. \A i \in 1..Len(rx') : rx'[i] = "CRC_FAIL" => i = Len(rx') /\ ctl'.phase = "boot"
  <2> SUFFICES ASSUME NEW i \in 1..Len(rx'), rx'[i] = "CRC_FAIL"
               PROVE  i = Len(rx') /\ ctl'.phase = "boot"
      OBVIOUS
  <2>1. /\ Len(rx') = Len(rx) + Len(t) /\ Len(rx) \in Nat /\ Len(t) \in Nat
        /\ \/ i \in 1..Len(rx) /\ rx'[i] = rx[i]
           \/ i - Len(rx) \in 1..Len(t) /\ rx'[i] = t[i - Len(rx)]
      BY <1>0, Joined
  <2>2. i - Len(rx) \in 1..Len(t) /\ t[i - Len(rx)] = "CRC_FAIL"
      BY <1>3, <2>1
  <2>3. i - Len(rx) = Len(t) /\ ctl'.phase = "boot"
      BY <2>2
  <2> QED
      BY <2>1, <2>3
<1>6. Announced'
  <2>1. \A i \in 1..Len(tx') : tx'[i].kind # "request"
      BY <1>4 DEF HasRequest
  <2> QED
      BY <2>1 DEF Announced
<1>7. FromStart'
    BY <1>4 DEF FromStart, Before
<1>8. AfterFailure'
  <2>1. Failed' => ctl'.phase = "boot"
      BY <1>3, <1>5 DEF Failed
  <2>2. pc' # "request"
      BY <1>4 DEF Before
  <2> QED
      BY <1>4, <2>1, <2>2 DEF AfterFailure
<1>9. FailureLast'
  <2>1. Len(rx') \in Nat
      BY <1>0, Joined
  <2> QED
      BY <1>5, <2>1 DEF FailureLast
<1>10. NoAckYet'
    BY <1>4 DEF NoAckYet
<1>11. DataAfterRequests'
    BY <1>0, <1>2, <1>4, FramePopped DEF DataAfterRequests
<1>12. EmptyAtEnd'
    BY <1>0, <1>1, FramePopped DEF EmptyAtEnd
<1>13. Credit'
  <2>1. NumAcks(rx') = NumAcks(rx) + 1
      BY <1>0, AcksJoined
  <2>2. /\ NumAcks(rx) \in Nat /\ g.sent_length \in Nat /\ g.file_length \in Nat
        /\ Len(ctl.buf) \in Nat /\ ctl.len = g.file_length
      BY <1>0, AcksFinite, Bounds DEF CtrlOtaTypeOK, Context, Announced, BootLoader
  <2>3. \/ g.sent_length + NumAcks(rx) <= Len(ctl.buf)
        \/ g.file_length <= Len(ctl.buf)
      BY <1>2 DEF Credit, Before
  <2>4. CASE Len(ctl'.buf) = Len(ctl.buf) + 1
      BY <2>1, <2>2, <2>3, <2>4 DEF Credit
  <2>5. CASE Len(ctl'.buf) = Len(ctl.buf) /\ Len(ctl.buf) > ctl.len
      BY <2>2, <2>5 DEF Credit
  <2>6. CASE Len(ctl'.buf) = Len(ctl.buf) /\ Head(tx).data = <<>>
    <3>1. g.sent_length = g.file_length
        BY <1>1, <2>6 DEF EmptyAtEnd
    <3>2. g.file_length <= Len(ctl.buf)
        BY <2>2, <2>3, <3>1
    <3> QED
        BY <2>6, <3>2 DEF Credit
  <2> QED
      BY <2>4, <2>5, <2>6
<1> QED
    BY <1>6, <1>7, <1>8, <1>9, <1>10, <1>11, <1>12, <1>13

(* A reply lost is one that counts for nothing any more. *)
LEMMA LoseReplyQueues ==
    ASSUME CtrlOtaTypeOK, Queues, LoseReply
    PROVE  Queues'
<1> USE DEF Queues
<1>0. /\ rx \in Seq(Cmd) /\ rx # <<>> /\ rx' = Tail(rx) /\ UNCHANGED <<tx, ctl, g, pc>>
      /\ Len(ctl.buf) \in Nat /\ g.sent_length \in Nat
    BY Bounds DEF CtrlOtaTypeOK, LoseReply, Unchanged_Module, main, BootLoader, Context
<1>1. /\ Len(rx) \in Nat \ {0} /\ Len(rx') = Len(rx) - 1
      /\ \A i \in 1..Len(rx') : rx'[i] = rx[i + 1] /\ i + 1 \in 2..Len(rx)
    BY <1>0, Popped
<1>2. /\ HasRequest' <=> HasRequest
      /\ \A i \in 1..Len(tx) : (Taken(i)' <=> Taken(i)) /\ (IsData(i)' <=> IsData(i))
      /\ Before' <=> Before
      /\ Failed' => Failed
    BY <1>0, <1>1 DEF HasRequest, Taken, IsData, Before, Failed
<1>3. NumAcks(rx') <= NumAcks(rx) /\ NumAcks(rx') \in Nat /\ NumAcks(rx) \in Nat
  <2>1. rx' \in Seq(Cmd) /\ NumAcks(rx') = NumAcks(rx) - (IF Head(rx) = "DATA_ACK" THEN 1 ELSE 0)
      BY <1>0, AcksPopped
  <2>2. NumAcks(rx') \in Nat /\ NumAcks(rx) \in Nat
      BY <1>0, <2>1, AcksFinite
  <2> QED
      BY <2>1, <2>2
<1>4. Announced' /\ FromStart' /\ AfterFailure'
    BY <1>0, <1>2 DEF Announced, FromStart, AfterFailure
<1>5. FailureLast' /\ NoAckYet'
    BY <1>1, <1>2 DEF FailureLast, NoAckYet
<1>6. DataAfterRequests' /\ EmptyAtEnd'
    BY <1>0, <1>2 DEF DataAfterRequests, EmptyAtEnd
<1>7. Credit'
    BY <1>0, <1>3 DEF Credit
<1> QED
    BY <1>4, <1>5, <1>6, <1>7

(* Every step of the boot loader and of the wire keeps the agreement. *)
LEMMA ExternalQueues ==
    ASSUME CtrlOtaTypeOK, Sender, Queues, External
    PROVE  Queues'
<1>0. UNCHANGED <<g, pc>>
    BY DEF External, Controller, CtlRequest, CtlData, CtlDamaged, LoseFrame, LoseReply,
       Unchanged_Module, main
<1>1. {"LEN_ERROR", "CRC_ERROR"} \subseteq Cmd \ {"DATA_ACK", "CRC_FAIL"}
    BY DEF Cmd
<1>2. CASE CtlRequest
  <2>1. CASE ctl.phase = "stuck"
      BY <1>0, <1>1, <1>2, <2>1, FrameDropped DEF CtlRequest, Arrives
  <2>2. CASE ctl.phase # "stuck" /\ Head(tx).len \in RefusedLen
      BY <1>0, <1>1, <1>2, <2>2, FrameDropped DEF CtlRequest, Arrives
  <2>3. CASE ctl.phase # "stuck" /\ Head(tx).len \notin RefusedLen
      BY <1>0, <1>2, <2>3, AcceptedQueues DEF CtlRequest
  <2> QED
      BY <2>1, <2>2, <2>3
<1>3. CASE CtlData
  <2>1. CASE ctl.phase # "recv"
      BY <1>0, <1>1, <1>3, <2>1, FrameDropped DEF CtlData, Arrives
  <2>2. CASE ctl.phase = "recv"
    <3> DEFINE buf == IF Len(ctl.buf) > ctl.len THEN ctl.buf ELSE ctl.buf \o Head(tx).data
    <3>1. Arrives("data")
        BY <1>3 DEF CtlData
    <3>2. ctl \in BootLoader /\ rx \in Seq(Cmd)
        BY DEF CtrlOtaTypeOK
    <3>3. \/ Len(buf) = Len(ctl.buf) + 1
          \/ /\ Len(buf) = Len(ctl.buf)
             /\ Len(ctl.buf) > ctl.len \/ Head(tx).data = <<>>
        BY <3>1, Grown
    <3>4. CASE Head(tx).more
      <4> DEFINE t == <<"DATA_ACK">>
      <4>1. /\ ctl' = [ctl EXCEPT !.buf = buf] /\ rx' = Append(rx, "DATA_ACK")
          BY <1>3, <2>2, <3>4 DEF CtlData
      <4> HIDE DEF buf
      <4>2. ctl'.len = ctl.len /\ ctl'.buf = buf /\ ctl'.phase = ctl.phase
          BY <3>2, <4>1 DEF BootLoader
      <4>3. /\ t \in Seq(Cmd) /\ Len(t) = 1 /\ t[1] = "DATA_ACK" /\ rx' = rx \o t
          BY <3>2, <4>1, Appended DEF Cmd
      <4>4. \/ Len(ctl'.buf) = Len(ctl.buf) + 1
            \/ /\ Len(ctl'.buf) = Len(ctl.buf)
               /\ Len(ctl.buf) > ctl.len \/ Head(tx).data = <<>>
          BY <3>3, <4>2
      <4> HIDE DEF t
      <4>5. /\ \A i \in 2..Len(t) : t[i] # "DATA_ACK"
            /\ \A i \in 1..Len(t) : t[i] # "CRC_FAIL"
          BY <4>3
      <4> QED
          BY <1>0, <2>2, <3>1, <4>2, <4>3, <4>4, <4>5, TakenQueues
    <3>5. CASE ~Head(tx).more
      <4>1. PICK x \in {"CRC_SUCCESS", "CRC_FAIL"}, inst \in {ctl.installed, buf} :
               /\ ctl' = [ctl EXCEPT !.buf = buf, !.phase = "boot", !.installed = inst]
               /\ rx' = rx \o <<"DATA_ACK", "RECV_COMPLETE", x>>
          BY <1>3, <2>2, <3>5 DEF CtlData
      <4> DEFINE t == <<"DATA_ACK", "RECV_COMPLETE", x>>
      <4> HIDE DEF buf
      <4>2. ctl'.len = ctl.len /\ ctl'.buf = buf /\ ctl'.phase = "boot"
          BY <3>2, <4>1 DEF BootLoader
      <4>3. /\ t \in Seq(Cmd) /\ Len(t) = 3 /\ t[1] = "DATA_ACK" /\ t[2] = "RECV_COMPLETE"
            /\ t[3] # "DATA_ACK" /\ rx' = rx \o t
          BY <4>1 DEF Cmd
      <4>4. \/ Len(ctl'.buf) = Len(ctl.buf) + 1
            \/ /\ Len(ctl'.buf) = Len(ctl.buf)
               /\ Len(ctl.buf) > ctl.len \/ Head(tx).data = <<>>
          BY <3>3, <4>2
      <4> HIDE DEF t
      <4>5. /\ Len(t) > 0
            /\ \A i \in 2..Len(t) : t[i] # "DATA_ACK"
            /\ \A i \in 1..Len(t) :
                  t[i] = "CRC_FAIL" => i = Len(t) /\ ctl'.phase = "boot"
          BY <4>2, <4>3
      <4> QED
          BY <1>0, <2>2, <3>1, <4>2, <4>3, <4>4, <4>5, TakenQueues
    <3> QED
        BY <3>4, <3>5
  <2> QED
      BY <2>1, <2>2
<1>4. CASE CtlDamaged
    BY <1>0, <1>1, <1>4, FrameDropped DEF CtlDamaged, Arrives
<1>5. CASE LoseFrame
    BY <1>0, <1>1, <1>5, FrameDropped DEF LoseFrame
<1>6. CASE LoseReply
    BY <1>6, LoseReplyQueues
<1> QED
    BY <1>2, <1>3, <1>4, <1>5, <1>6 DEF External, Controller

(* A boot finds the wire empty and starts from the record. *)
LEMMA RestartedQueues ==
    ASSUME CtrlOtaTypeOK, Restarted
    PROVE  Queues'
<1>1. /\ tx' = <<>> /\ rx' = <<>> /\ pc' = "loop" /\ g'.sent_length = 0
      /\ g'.state \in {"IDLE", "SEND_REQUEST"}
      /\ ctl'.phase = "boot" /\ ctl'.buf = <<>>
    BY DEF Restarted, CtrlInit, CtrlOtaTypeOK, BootLoader
<1>2. Len(tx') = 0 /\ Len(rx') = 0 /\ Len(ctl'.buf) = 0
    BY <1>1
<1>3. NumAcks(rx') = 0
    BY <1>1, NoAcks
<1> QED
    BY <1>1, <1>2, <1>3 DEF Queues, Announced, FromStart, AfterFailure, FailureLast, NoAckYet,
       DataAfterRequests, EmptyAtEnd, Credit, Failed, HasRequest

-----------------------------------------------------------------------------
(* The inductive invariant. *)
CtrlOtaIInv == CtrlOtaTypeOK /\ Sender /\ Done /\ Queues

(* It holds at the first boot. *)
LEMMA InitCtrlOtaIInv == CtrlOtaInit => CtrlOtaIInv
<1> SUFFICES ASSUME CtrlOtaInit PROVE CtrlOtaIInv
    OBVIOUS
<1>1. /\ g = [ state |-> "SEND_REQUEST", file_length |-> meta.len, file_crc |-> meta.crc,
               sent_length |-> 0, eeprom_read_addr |-> 0 ]
      /\ pc = "loop" /\ tx = <<>> /\ rx = <<>> /\ ctl.phase = "boot" /\ ctl.buf = <<>>
    BY DEF CtrlOtaInit, CtrlInit
<1>2. CtrlOtaTypeOK
    BY InitTypes
<1>3. Sender /\ Done
    BY <1>1, <1>2, Bounds DEF Sender, CtrlOtaPosition, Done, Labels, EmptyInHand, CtrlOtaTypeOK
<1>4. Len(tx) = 0 /\ Len(rx) = 0 /\ Len(ctl.buf) = 0
    BY <1>1
<1>5. NumAcks(rx) = 0
    BY <1>1, NoAcks
<1>6. Queues
    BY <1>1, <1>4, <1>5 DEF Queues, Announced, FromStart, AfterFailure, FailureLast, NoAckYet,
       DataAfterRequests, EmptyAtEnd, Credit, Failed, HasRequest
<1> QED
    BY <1>2, <1>3, <1>6 DEF CtrlOtaIInv

(* Every step keeps it. *)
LEMMA NextCtrlOtaIInv ==
    ASSUME CtrlOtaIInv, [CtrlOtaNext]_ctrlOtaVars
    PROVE  CtrlOtaIInv'
<1> USE DEF CtrlOtaIInv
<1>1. CASE CtrlOtaNext
  <2>1. CtrlOtaTypeOK'
      BY <1>1, MainTypes, ReplyTypes, ExternalTypes DEF CtrlOtaNext, Sender
  <2>2. Sender' /\ Done'
      BY <1>1, SenderStep, DoneStep
  <2>3. Queues'
      BY <1>1, Kinds, SilentQueues, RequestQueues, DataQueues, ReplyQueues, ExternalQueues,
         RestartedQueues DEF PowerCycle
  <2> QED
      BY <2>1, <2>2, <2>3
<1>2. CASE UNCHANGED ctrlOtaVars
  <2>1. CtrlOtaTypeOK'
      BY <1>2 DEF ctrlOtaVars, CtrlOtaTypeOK
  <2>2. Sender' /\ Done'
      BY <1>2 DEF ctrlOtaVars, Sender, CtrlOtaPosition, Done, Labels, EmptyInHand
  <2>3. Queues'
      BY <1>2 DEF ctrlOtaVars, Queues, Announced, FromStart, AfterFailure, FailureLast, NoAckYet,
         DataAfterRequests, EmptyAtEnd, Credit, Failed, HasRequest, Before, Taken, IsData, NumAcks
  <2> QED
      BY <2>1, <2>2, <2>3
<1> QED
    BY <1>1, <1>2

(* It holds at all times, for every file, every capacity and every number of *)
(* faults.                                                                   *)
LEMMA CtrlOtaInvariance == CtrlOtaSpec => []CtrlOtaIInv
BY InitCtrlOtaIInv, NextCtrlOtaIInv, PTL DEF CtrlOtaSpec

(* Every variable keeps its type: controller_ota.c never moves sent_length   *)
(* or eeprom_read_addr out of the file area.                                 *)
THEOREM CtrlOtaTypeCorrect == CtrlOtaSpec => []CtrlOtaTypeOK
<1>1. CtrlOtaIInv => CtrlOtaTypeOK
    BY DEF CtrlOtaIInv
<1> QED
    BY <1>1, CtrlOtaInvariance, PTL

(* Ctrl_ota_advance_data and the rewind move the read address and the sent   *)
(* length together and within the file, however interrupt and main thread    *)
(* interleave.                                                               *)
THEOREM PositionKept == CtrlOtaSpec => []CtrlOtaPosition
<1>1. CtrlOtaIInv => CtrlOtaPosition
    BY DEF CtrlOtaIInv, Sender
<1> QED
    BY <1>1, CtrlOtaInvariance, PTL

(* main() leaves the OTA loop for good only when READY has been cleared.     *)
THEOREM LoopLeft == CtrlOtaSpec => []LoopLeftOnlyWhenDone
<1>1. CtrlOtaIInv => LoopLeftOnlyWhenDone
    BY DEF CtrlOtaIInv, Done, LoopLeftOnlyWhenDone
<1> QED
    BY <1>1, CtrlOtaInvariance, PTL

(* Whatever is repeated, damaged, lost or late: the module never counts more *)
(* chunks as sent than the boot loader has taken in this transfer.           *)
THEOREM Acked == CtrlOtaSpec => []AckedWasTaken
<1>1. ASSUME CtrlOtaIInv PROVE AckedWasTaken
  <2>1. /\ g.sent_length \in Nat /\ g.file_length \in Nat /\ NumAcks(rx) \in Nat
        /\ Len(ctl.buf) \in Nat /\ g.sent_length <= g.file_length
      BY <1>1, AcksFinite, Bounds DEF CtrlOtaIInv, CtrlOtaTypeOK, Context, BootLoader, Sender, CtrlOtaPosition
  <2>2. pc # "rewind" => g.sent_length <= Len(ctl.buf)
      BY <1>1, <2>1 DEF CtrlOtaIInv, Queues, Credit
  <2> QED
      BY <2>2 DEF AckedWasTaken
<1> QED
    BY <1>1, CtrlOtaInvariance, PTL

-----------------------------------------------------------------------------
(* What is installed.  Each chunk the boot loader appends is one of the file  *)
(* up to the place it gets, because the module is not ahead of the boot      *)
(* loader (Credit).  If the chunks of the file are all different, a buffer    *)
(* of such chunks that has the file's length and code is the file.           *)
File == SubSeq(image, 1, meta.len)

(* The chunks of the file are all different. *)
Distinct == \A i, j \in 1..meta.len : image[i] = image[j] => i = j

(* The code in the record is the code of the file. *)
CodeStored == meta.crc = CrcOfPrefix(image, meta.len)

(* A boot without READY: nothing ever happens. *)
Resting ==
    /\ g.state = "IDLE" /\ pc \in {"loop", "relay"}
    /\ tx = <<>> /\ rx = <<>> /\ ctl.phase # "recv"

(* What is sent is the file of the record. *)
SendsFile == (g.file_length = meta.len /\ g.file_crc = meta.crc) \/ Resting

(* The code the boot loader works with is the module's. *)
CodeAnnounced ==
    /\ \A i \in 1..Len(tx) : tx[i].kind = "request" => tx[i].crc = g.file_crc
    /\ ctl.phase = "recv" => ctl.crc = g.file_crc

(* A frame carries a chunk up to the one that is due, or lies past the file. *)
Due(data) ==
    \E k \in 1..(g.sent_length + 1) : k <= g.file_length => data \in {<<>>, <<image[k]>>}

DueInHand == pc = "send" => Due(local.data)

DueOnWire == \A i \in 1..Len(tx) : IsData(i) /\ Taken(i) => Due(tx[i].data)

(* So the chunk at a place of the buffer is one of the file up to that place. *)
NotAhead ==
    ctl.phase = "recv" =>
        \A i \in 1..Len(ctl.buf) : i <= ctl.len => \E k \in 1..i : ctl.buf[i] = image[k]

(* READY is gone, or success on its way, only with the file installed. *)
Outcome ==
    (flag # READY \/ \E i \in 1..Len(rx) : rx[i] = "CRC_SUCCESS") => ctl.installed = File

OInv ==
    /\ Distinct /\ CodeStored /\ SendsFile /\ CodeAnnounced /\ DueInHand /\ DueOnWire
    /\ NotAhead /\ Outcome

(* A map of the places up to n that takes none further, and one that meets    *)
(* them all.                                                                 *)
Backwards(f, n) == \A i \in 1..n : f[i] \in 1..i
Onto(f, n) == \A k \in 1..n : \E i \in 1..n : f[i] = k

(* One that is both moves nothing: from any place on, going back along it is  *)
(* a map of the places from there on into themselves without repetition, so  *)
(* it reaches them all.                                                      *)
LEMMA NothingMoves ==
    ASSUME NEW n \in Nat, NEW f, Backwards(f, n), Onto(f, n)
    PROVE  \A i \in 1..n : f[i] = i
<1> SUFFICES ASSUME NEW i \in 1..n PROVE f[i] = i
    OBVIOUS
<1>0. (\A j \in 1..n : f[j] \in 1..j) /\ \A k \in 1..n : \E j \in 1..n : f[j] = k
    BY DEF Backwards, Onto
<1> DEFINE p == [k \in i..n |-> CHOOSE j \in 1..n : f[j] = k]
<1>1. \A k \in i..n : p[k] \in 1..n /\ f[p[k]] = k
    BY <1>0
<1>2. \A k \in i..n : p[k] \in i..n
    BY <1>0, <1>1
<1>3. p \in [i..n -> i..n]
    BY <1>2
<1>4. \A k, l \in i..n : p[k] = p[l] => k = l
    BY <1>1
<1> HIDE DEF p
<1>5. IsFiniteSet(i..n)
    BY FS_Interval
<1>6. p \in Surjection(i..n, i..n)
    BY <1>3, <1>4, <1>5, Fun_IsInj, FS_Injection
<1>7. PICK k \in i..n : p[k] = i
  <2>1. \A t \in i..n : \E k \in i..n : p[k] = t
      BY <1>6 DEF Surjection
  <2>2. i \in i..n
      OBVIOUS
  <2> QED
      BY <2>1, <2>2
<1> QED
    BY <1>0, <1>1, <1>7

(* A buffer of the file's length and code, in which the chunk at each place   *)
(* is one of the file's up to that place, is the file, if its chunks are all  *)
(* different.                                                                 *)
LEMMA VerifiedIsFile ==
    ASSUME NEW n \in Nat, NEW s, \A i \in 1..n : s[i] \in Chunk,
           \A i, j \in 1..n : s[i] = s[j] => i = j,
           NEW buf \in Seq(Chunk), Len(buf) = n, CrcOf(buf) = CrcOfPrefix(s, n),
           \A i \in 1..n : \E k \in 1..i : buf[i] = s[k]
    PROVE  buf = SubSeq(s, 1, n)
<1>1. ASSUME NEW j \in 1..n PROVE \E i \in 1..n : buf[i] = s[j]
  <2>1. {i \in 1..n : s[i] = s[j]} = {j}
      OBVIOUS
  <2>2. Cardinality({j}) % 2 = 1
    <3>1. Cardinality({j}) = 1
        BY FS_Singleton, Zenon
    <3> QED
        BY <3>1
  <2>3. s[j] \in CrcOfPrefix(s, n)
      BY <2>1, <2>2 DEF CrcOfPrefix
  <2> DEFINE Places == {i \in 1..n : buf[i] = s[j]}
  <2>4. Cardinality(Places) % 2 = 1
      BY <2>3 DEF CrcOf, CrcOfPrefix
  <2>5. Places # {}
    <3> HIDE DEF Places
    <3> SUFFICES ASSUME Places = {} PROVE FALSE
        OBVIOUS
    <3>1. Cardinality(Places) = 0
        BY FS_EmptySet
    <3> QED
        BY <2>4, <3>1
  <2> QED
      BY <2>5
<1> DEFINE f == [i \in 1..n |-> CHOOSE k \in 1..i : buf[i] = s[k]]
<1>2. \A i \in 1..n : f[i] \in 1..i /\ buf[i] = s[f[i]]
    OBVIOUS
<1> HIDE DEF f
<1>3. Onto(f, n)
  <2> SUFFICES ASSUME NEW k \in 1..n PROVE \E i \in 1..n : f[i] = k
      BY DEF Onto
  <2>1. PICK i \in 1..n : buf[i] = s[k]
      BY <1>1
  <2>2. f[i] \in 1..n /\ s[f[i]] = s[k]
      BY <1>2, <2>1
  <2> QED
      BY <2>2
<1>4. \A i \in 1..n : f[i] = i
  <2>1. Backwards(f, n)
      BY <1>2 DEF Backwards
  <2> QED
      BY <1>3, <2>1, NothingMoves
<1>5. \A i \in 1..n : buf[i] = s[i]
    BY <1>2, <1>4
<1>6. /\ SubSeq(s, 1, n) \in Seq(Chunk) /\ Len(SubSeq(s, 1, n)) = n
      /\ \A i \in 1..n : SubSeq(s, 1, n)[i] = s[i]
  <2>1. \A i \in 1..n : s[i] \in Chunk
      OBVIOUS
  <2> QED
      BY <2>1, SubSeqProperties
<1> DEFINE file == SubSeq(s, 1, n)
<1>7. file \in Seq(Chunk) /\ Len(file) = n /\ \A i \in 1..n : file[i] = s[i]
    BY <1>6
<1> HIDE DEF file
<1>8. buf = file
    BY <1>5, <1>7
<1> QED
    BY <1>8 DEF file

(* Nothing writes the file or its record, and the module keeps the length and *)
(* the code it has read at boot.                                              *)
LEMMA FileStands ==
    ASSUME CtrlOtaTypeOK, CtrlOtaNext
    PROVE  /\ image' = image /\ meta' = meta
           /\ PowerCycle \/ (g'.file_length = g.file_length /\ g'.file_crc = g.file_crc)
<1> USE DEF CtrlOtaTypeOK, Context, eeprom
<1>1. CASE Main
    BY <1>1 DEF Main, LeaveLoop, Dispatch, NotifyFailed, Ctrl_ota_send_request, AllSent,
       SetWaitAck, ReadRemaining, ReadEeprom, SendFrame, AckCheck, ResendChunk, Restart, Rewind
<1>2. CASE Elapse
    BY <1>2 DEF Elapse
<1>3. CASE Ctrl_ota_handle_reply
  <2> USE DEF Unmoved
  <2>1. CASE ReplyAck
      BY <2>1, ChunkLenType DEF ReplyAck, Ctrl_ota_advance_data
  <2>2. CASE ~ReplyAck
      BY <1>3, <2>2 DEF Ctrl_ota_handle_reply, ReplyConfirm, ReplyErased, ReplyReceived,
         ReplySuccess, ReplyCrcFail, ReplyCrcError, ReplyLenError
  <2> QED
      BY <2>1, <2>2
<1>4. CASE External
    BY <1>4 DEF External, Controller, CtlRequest, CtlData, CtlDamaged, LoseFrame, LoseReply,
       Unchanged_Module
<1>5. CASE PowerCycle
    BY <1>5 DEF PowerCycle
<1> QED
    BY <1>1, <1>2, <1>3, <1>4, <1>5 DEF CtrlOtaNext, Fault, External

(* The main thread between two frames reads the chunk that is due. *)
LEMMA SilentOutcome ==
    ASSUME CtrlOtaTypeOK, Sender, Queues, OInv, Silent
    PROVE  SendsFile' /\ CodeAnnounced' /\ DueInHand' /\ DueOnWire' /\ NotAhead' /\ Outcome'
<1> USE DEF OInv, Sender
<1>1. /\ UNCHANGED <<flag, tx, rx, ctl, image, meta>>
      /\ g'.file_length = g.file_length /\ g'.file_crc = g.file_crc
  <2>1. CtrlOtaNext /\ ~PowerCycle
      BY DEF Silent, CtrlOtaNext, Main, PowerCycle, Restarted, LeaveLoop, Dispatch, NotifyFailed,
         AllSent, SetWaitAck, ReadRemaining, ReadEeprom, AckCheck, ResendChunk, Restart, Rewind,
         Elapse, CtrlOtaTypeOK, Faults
  <2> QED
      BY <2>1, SilentStep, FileStands
<1>2. g.sent_length \in Nat /\ g.file_length \in Nat /\ g.file_length <= Capacity
    BY Bounds DEF CtrlOtaTypeOK, Context
<1>3. SendsFile'
  <2>1. CASE Resting
    <3>1. LeaveLoop \/ Elapse
        BY <2>1 DEF Resting, Silent, Dispatch, NotifyFailed, AllSent, SetWaitAck,
           ReadRemaining, ReadEeprom, AckCheck, ResendChunk, Restart, Rewind
    <3>2. g' = g /\ pc' \in {"loop", "relay"}
        BY <2>1, <3>1 DEF Resting, LeaveLoop, Elapse, Goto, main
    <3> QED
        BY <1>1, <2>1, <3>2 DEF SendsFile, Resting
  <2> QED
      BY <1>1, <2>1 DEF SendsFile
<1>4. CodeAnnounced' /\ NotAhead' /\ Outcome'
    BY <1>1 DEF CodeAnnounced, NotAhead, Outcome, File
<1>5. DueInHand'
  <2>1. CASE ReadEeprom
    <3>1. PICK c \in At(g.eeprom_read_addr) :
              local' = [local EXCEPT !.data = IF local.chunk = 1 THEN <<c>> ELSE <<>>]
        BY <2>1 DEF ReadEeprom
    <3>2. g' = g /\ local'.data \in {<<>>, <<c>>}
        BY <2>1, <3>1 DEF ReadEeprom, CtrlOtaTypeOK, Locals
    <3>3. g.sent_length + 1 <= g.file_length => c = image[g.sent_length + 1]
        BY <1>2, Bounds DEF At, CtrlOtaPosition
    <3>4. g.sent_length + 1 \in 1..(g.sent_length + 1)
        BY <1>2
    <3> QED
        BY <1>1, <3>2, <3>3, <3>4 DEF DueInHand, Due
  <2>2. CASE Elapse
      BY <1>1, <2>2 DEF Elapse, main, DueInHand, Due
  <2>3. CASE ~ReadEeprom /\ ~Elapse
    <3>1. pc' # "send"
        BY <2>3 DEF Silent, LeaveLoop, Dispatch, NotifyFailed, AllSent, SetWaitAck,
           ReadRemaining, AckCheck, ResendChunk, Restart, Rewind, Goto, main
    <3> QED
        BY <3>1 DEF DueInHand
  <2> QED
      BY <2>1, <2>2, <2>3
<1>6. DueOnWire'
  <2>1. \A i \in 1..Len(tx) : Taken(i)' = Taken(i) /\ IsData(i)' = IsData(i)
      BY <1>1 DEF Taken, IsData
  <2>2. CASE g'.sent_length = g.sent_length
      BY <1>1, <2>1, <2>2 DEF DueOnWire, Due
  <2>3. CASE pc = "rewind"
    <3>1. \A i \in 1..Len(tx) : ~Taken(i)
        BY <2>3 DEF Queues, AfterFailure, Failed, Taken, HasRequest, CtrlOtaTypeOK
    <3> QED
        BY <1>1, <2>1, <3>1 DEF DueOnWire
  <2> QED
      BY <2>2, <2>3, SilentStep
<1> QED
    BY <1>3, <1>4, <1>5, <1>6

(* A frame joins the others. *)
LEMMA FrameJoins ==
    ASSUME CtrlOtaTypeOK, NEW f \in Frame, tx' = Append(tx, f), UNCHANGED ctl
    PROVE  /\ Len(tx) \in Nat /\ Len(tx') = Len(tx) + 1 /\ tx'[Len(tx) + 1] = f
           /\ \A i \in 1..Len(tx) : /\ tx'[i] = tx[i]
                                    /\ Taken(i)' <=> Taken(i)
                                    /\ IsData(i)' <=> IsData(i)
<1>1. /\ Len(tx') = Len(tx) + 1 /\ Len(tx) \in Nat /\ tx'[Len(tx) + 1] = f
      /\ \A i \in 1..Len(tx) : tx'[i] = tx[i]
    BY Appended DEF CtrlOtaTypeOK
<1> QED
    BY <1>1 DEF Taken, IsData

(* A request announces the length and the code. *)
LEMMA RequestOutcome ==
    ASSUME CtrlOtaTypeOK, OInv, Ctrl_ota_send_request
    PROVE  SendsFile' /\ CodeAnnounced' /\ DueInHand' /\ DueOnWire' /\ NotAhead' /\ Outcome'
<1> DEFINE f == [kind |-> "request", len |-> g.file_length, crc |-> g.file_crc]
<1> USE DEF OInv
<1>1. /\ UNCHANGED <<flag, image, meta, g, rx, ctl>> /\ pc = "request" /\ pc' = "loop"
      /\ tx' = Append(tx, f)
    BY DEF Ctrl_ota_send_request, eeprom, Goto
<1>2. f \in Frame /\ f.kind = "request" /\ f.crc = g.file_crc
    BY FrameTypes DEF CtrlOtaTypeOK, Context
<1> HIDE DEF f
<1>3. SendsFile' /\ DueInHand' /\ NotAhead' /\ Outcome'
    BY <1>1 DEF SendsFile, Resting, DueInHand, NotAhead, Outcome, File
<1>4. CodeAnnounced'
  <2> SUFFICES ASSUME NEW i \in 1..Len(tx'), tx'[i].kind = "request"
               PROVE  tx'[i].crc = g.file_crc
      BY <1>1 DEF CodeAnnounced
  <2>1. CASE i = Len(tx) + 1
      BY <1>1, <1>2, <2>1, FrameJoins
  <2>2. CASE i # Len(tx) + 1
    <3>1. i \in 1..Len(tx) /\ tx'[i] = tx[i]
        BY <1>1, <1>2, <2>2, FrameJoins
    <3> QED
        BY <3>1 DEF CodeAnnounced
  <2> QED
      BY <2>1, <2>2
<1>5. DueOnWire'
  <2> SUFFICES ASSUME NEW i \in 1..Len(tx'), IsData(i)', Taken(i)' PROVE Due(tx[i].data)' /\ tx'[i] = tx[i]
      BY DEF DueOnWire
  <2>1. i # Len(tx) + 1
      BY <1>1, <1>2, FrameJoins DEF IsData
  <2>2. i \in 1..Len(tx) /\ tx'[i] = tx[i] /\ IsData(i) /\ Taken(i)
      BY <1>1, <1>2, <2>1, FrameJoins
  <2> QED
      BY <1>1, <2>2 DEF DueOnWire, Due
<1> QED
    BY <1>3, <1>4, <1>5

(* A data frame carries what was in hand. *)
LEMMA DataOutcome ==
    ASSUME CtrlOtaTypeOK, OInv, SendFrame
    PROVE  SendsFile' /\ CodeAnnounced' /\ DueInHand' /\ DueOnWire' /\ NotAhead' /\ Outcome'
<1> DEFINE f == [kind |-> "data", more |-> local.more, data |-> local.data]
<1> USE DEF OInv
<1>1. /\ UNCHANGED <<flag, image, meta, g, rx, ctl>> /\ pc = "send" /\ pc' = "loop"
      /\ tx' = Append(tx, f)
    BY DEF SendFrame, eeprom
<1>2. f \in Frame /\ f.kind = "data" /\ f.data = local.data
    BY FrameTypes DEF CtrlOtaTypeOK, Locals
<1> HIDE DEF f
<1>3. SendsFile' /\ DueInHand' /\ NotAhead' /\ Outcome'
    BY <1>1 DEF SendsFile, Resting, DueInHand, NotAhead, Outcome, File
<1>4. CodeAnnounced'
  <2> SUFFICES ASSUME NEW i \in 1..Len(tx'), tx'[i].kind = "request"
               PROVE  tx'[i].crc = g.file_crc
      BY <1>1 DEF CodeAnnounced
  <2>1. i # Len(tx) + 1
      BY <1>1, <1>2, FrameJoins
  <2>2. i \in 1..Len(tx) /\ tx'[i] = tx[i]
      BY <1>1, <1>2, <2>1, FrameJoins
  <2> QED
      BY <2>2 DEF CodeAnnounced
<1>5. DueOnWire'
  <2> SUFFICES ASSUME NEW i \in 1..Len(tx'), IsData(i)', Taken(i)' PROVE Due(tx[i].data)'
      BY DEF DueOnWire
  <2>1. CASE i = Len(tx) + 1
    <3>1. tx'[i].data = local.data /\ Due(local.data)
        BY <1>1, <1>2, <2>1, FrameJoins DEF DueInHand
    <3> QED
        BY <1>1, <3>1 DEF Due
  <2>2. CASE i # Len(tx) + 1
    <3>1. i \in 1..Len(tx) /\ tx'[i] = tx[i] /\ IsData(i) /\ Taken(i)
        BY <1>1, <1>2, <2>2, FrameJoins
    <3> QED
        BY <1>1, <3>1 DEF DueOnWire, Due
  <2> QED
      BY <2>1, <2>2
<1> QED
    BY <1>3, <1>4, <1>5

(* The interrupt clears READY only for a success, and only moves on. *)
LEMMA ReplyOutcome ==
    ASSUME CtrlOtaTypeOK, Sender, OInv, Ctrl_ota_handle_reply
    PROVE  SendsFile' /\ CodeAnnounced' /\ DueInHand' /\ DueOnWire' /\ NotAhead' /\ Outcome'
<1> USE DEF OInv
<1>1. /\ rx # <<>> /\ rx' = Tail(rx) /\ UNCHANGED <<tx, ctl, pc, image, meta>>
      /\ g'.file_length = g.file_length /\ g'.file_crc = g.file_crc
  <2>1. UNCHANGED faults
      BY DEF Ctrl_ota_handle_reply, Unmoved, ReplyConfirm, ReplyErased, ReplyAck,
         ReplyReceived, ReplySuccess, ReplyCrcFail, ReplyCrcError, ReplyLenError
  <2>2. CtrlOtaNext /\ ~PowerCycle
      BY <2>1 DEF CtrlOtaNext, PowerCycle, Restarted, CtrlOtaTypeOK, Faults
  <2> QED
      BY <2>2, ReplyStep, FileStands
<1>2. g'.sent_length \in Nat /\ g'.sent_length >= g.sent_length /\ g.sent_length \in Nat
  <2>1. g.sent_length \in Nat
      BY Bounds DEF CtrlOtaTypeOK, Context
  <2> QED
      BY <2>1, ReplyStep, ChunkLenType
<1>3. SendsFile'
    BY <1>1 DEF SendsFile, Resting
<1>4. CodeAnnounced' /\ NotAhead'
    BY <1>1 DEF CodeAnnounced, NotAhead
<1>5. DueInHand'
  <2>1. local'.data = local.data
      BY DEF Ctrl_ota_handle_reply, ReplyConfirm, ReplyErased, ReplyAck, ReplyReceived,
         ReplySuccess, ReplyCrcFail, ReplyCrcError, ReplyLenError, CtrlOtaTypeOK, Locals
  <2> SUFFICES ASSUME pc = "send" PROVE Due(local.data)'
      BY <1>1 DEF DueInHand
  <2> DEFINE d == local.data
  <2>2. Due(d) /\ local'.data = d
      BY <2>1 DEF DueInHand
  <2> HIDE DEF d
  <2>4. \E k \in 1..(g'.sent_length + 1) : k <= g'.file_length => d \in {<<>>, <<image'[k]>>}
      BY <1>1, <1>2, <2>2 DEF Due
  <2> QED
      BY <2>2, <2>4 DEF Due
<1>6. DueOnWire'
  <2> SUFFICES ASSUME NEW i \in 1..Len(tx), IsData(i), Taken(i) PROVE Due(tx[i].data)'
      BY <1>1 DEF DueOnWire, IsData, Taken
  <2>1. Due(tx[i].data)
      BY DEF DueOnWire
  <2> DEFINE d == tx[i].data
  <2>2. Due(d)
      BY <2>1
  <2> HIDE DEF d
  <2>3. \E k \in 1..(g'.sent_length + 1) : k <= g'.file_length => d \in {<<>>, <<image'[k]>>}
      BY <1>1, <1>2, <2>2 DEF Due
  <2> QED
      BY <1>1, <2>3 DEF Due, d
<1>7. Outcome'
  <2>1. /\ Head(rx) = rx[1] /\ 1 \in 1..Len(rx)
        /\ \A i \in 1..Len(rx') : rx'[i] = rx[i + 1] /\ i + 1 \in 1..Len(rx)
    <3>1. rx \in Seq(Cmd)
        BY DEF CtrlOtaTypeOK
    <3> QED
        BY <1>1, <3>1, Popped
  <2>2. flag' = flag \/ Head(rx) = "CRC_SUCCESS"
      BY DEF Ctrl_ota_handle_reply, Received, ReplyConfirm, ReplyErased, ReplyAck, ReplyReceived,
         ReplySuccess, ReplyCrcFail, ReplyCrcError, ReplyLenError
  <2> QED
      BY <1>1, <2>1, <2>2 DEF Outcome, File
<1> QED
    BY <1>3, <1>4, <1>5, <1>6, <1>7

(* A frame leaves the wire: of the others, none is taken that was not. *)
LEMMA FrameGone ==
    ASSUME CtrlOtaTypeOK, OInv, tx # <<>>, tx' = Tail(tx),
           UNCHANGED <<image, meta, g, pc, local>>,
           \A i \in 1..Len(tx') : Taken(i)' => Taken(i + 1)
    PROVE  /\ SendsFile' /\ DueInHand' /\ DueOnWire'
           /\ \A i \in 1..Len(tx') : tx'[i].kind = "request" => tx'[i].crc = g.file_crc
<1> USE DEF OInv
<1>1. SendsFile' /\ DueInHand'
    BY DEF SendsFile, Resting, DueInHand, Due
<1>2. \A i \in 1..Len(tx') : tx'[i].kind = "request" => tx'[i].crc = g.file_crc
    BY FramePopped DEF CodeAnnounced
<1>3. DueOnWire'
  <2> SUFFICES ASSUME NEW i \in 1..Len(tx'), IsData(i)', Taken(i)' PROVE Due(tx[i].data)'
      BY DEF DueOnWire
  <2>1. i + 1 \in 1..Len(tx) /\ tx'[i] = tx[i + 1] /\ IsData(i + 1) /\ Taken(i + 1)
      BY FramePopped
  <2> QED
      BY <2>1 DEF DueOnWire, Due
<1> QED
    BY <1>1, <1>2, <1>3

(* A data frame that is taken brings a chunk of the file up to its own place, *)
(* because the module is not ahead of the boot loader.                       *)
LEMMA GrownNotAhead ==
    ASSUME CtrlOtaTypeOK, Sender, Queues, OInv, Arrives("data"), ctl.phase = "recv",
           NEW buf,
           buf = IF Len(ctl.buf) > ctl.len THEN ctl.buf ELSE ctl.buf \o Head(tx).data
    PROVE  /\ buf \in Seq(Chunk)
           /\ \A i \in 1..Len(buf) : i <= ctl.len => \E k \in 1..i : buf[i] = image[k]
<1> USE DEF OInv
<1>1. /\ ctl.buf \in Seq(Chunk) /\ tx # <<>> /\ Head(tx) \in Frame /\ Head(tx).kind = "data"
      /\ Head(tx) = tx[1] /\ 1 \in 1..Len(tx)
    BY Popped, QueueTypes DEF CtrlOtaTypeOK, BootLoader, Arrives
<1>2. Head(tx).data \in Data
    BY <1>1 DEF Frame, Data
<1>3. IsData(1) /\ Taken(1)
    BY <1>1 DEF IsData, Taken
<1>4. PICK k \in 1..(g.sent_length + 1) :
         k <= g.file_length => Head(tx).data \in {<<>>, <<image[k]>>}
    BY <1>1, <1>3 DEF DueOnWire, Due
<1>5. /\ g.sent_length <= Len(ctl.buf) /\ ctl.len = g.file_length
      /\ g.sent_length \in Nat /\ g.file_length \in Nat /\ Len(ctl.buf) \in Nat
  <2>1. ~Before
      BY <1>1, <1>3 DEF Queues, DataAfterRequests
  <2>2. /\ g.sent_length \in Nat /\ g.file_length \in Nat /\ NumAcks(rx) \in Nat
        /\ Len(ctl.buf) \in Nat /\ g.sent_length <= g.file_length
      BY <1>1, AcksFinite, Bounds DEF CtrlOtaTypeOK, Context, Sender, CtrlOtaPosition
  <2>3. \/ g.sent_length + NumAcks(rx) <= Len(ctl.buf)
        \/ g.file_length <= Len(ctl.buf)
      BY <2>1 DEF Queues, Credit, Before
  <2> QED
      BY <2>2, <2>3 DEF Queues, Announced
<1>6. \A i \in 1..Len(ctl.buf) : i <= ctl.len => \E j \in 1..i : ctl.buf[i] = image[j]
    BY DEF NotAhead
<1>7. CASE buf = ctl.buf
    BY <1>1, <1>6, <1>7
<1>8. CASE buf # ctl.buf
  <2>1. Head(tx).data # <<>> /\ buf = ctl.buf \o Head(tx).data
      BY <1>1, <1>8, ConcatEmptySeq
  <2>2. PICK c \in Chunk : Head(tx).data = <<c>>
      BY <1>2, <2>1 DEF Data
  <2>3. /\ buf = Append(ctl.buf, c) /\ buf \in Seq(Chunk) /\ Len(buf) = Len(ctl.buf) + 1
        /\ \A i \in 1..Len(ctl.buf) : buf[i] = ctl.buf[i]
        /\ buf[Len(ctl.buf) + 1] = c
    <3> DEFINE old == ctl.buf
    <3>1. old \in Seq(Chunk) /\ buf = old \o <<c>>
        BY <1>1, <2>1, <2>2
    <3> HIDE DEF old
    <3>2. /\ Append(old, c) = old \o <<c>> /\ Len(Append(old, c)) = Len(old) + 1
          /\ Append(old, c) \in Seq(Chunk)
          /\ \A i \in 1..Len(old) : Append(old, c)[i] = old[i]
          /\ Append(old, c)[Len(old) + 1] = c
        BY <3>1
    <3>3. buf = Append(old, c)
        BY <3>1, <3>2
    <3> QED
        BY <3>2, <3>3 DEF old
  <2>4. ASSUME Len(ctl.buf) + 1 <= ctl.len
        PROVE  k \in 1..(Len(ctl.buf) + 1) /\ c = image[k]
    <3>1. k \in 1..(Len(ctl.buf) + 1) /\ k <= g.file_length
        BY <1>5, <2>4
    <3>2. <<c>> \in {<<>>, <<image[k]>>}
        BY <1>4, <2>2, <3>1
    <3> QED
        BY <3>1, <3>2
  <2> SUFFICES ASSUME NEW i \in 1..Len(buf), i <= ctl.len
               PROVE  \E j \in 1..i : buf[i] = image[j]
      BY <2>3
  <2>5. CASE i = Len(ctl.buf) + 1
      BY <2>3, <2>4, <2>5
  <2>6. CASE i # Len(ctl.buf) + 1
    <3>1. i \in 1..Len(ctl.buf)
      <4>1. Len(buf) = Len(ctl.buf) + 1 /\ Len(ctl.buf) \in Nat
          BY <1>5, <2>3
      <4>2. i \in 1..(Len(ctl.buf) + 1)
          BY <4>1, Zenon
      <4>3. \A m \in Nat : \A j \in 1..(m + 1) : j # m + 1 => j \in 1..m
          OBVIOUS
      <4> QED
          BY <2>6, <4>1, <4>2, <4>3, Zenon
    <3>2. buf[i] = ctl.buf[i]
        BY <2>3, <3>1
    <3> QED
        BY <1>6, <3>1, <3>2
  <2> QED
      BY <2>5, <2>6
<1> QED
    BY <1>7, <1>8

(* What the boot loader verifies is the file. *)
LEMMA OnlyTheFile ==
    ASSUME CtrlOtaTypeOK, Sender, Queues, OInv, tx # <<>>, ctl.phase = "recv",
           NEW buf \in Seq(Chunk), Verified(buf),
           \A i \in 1..Len(buf) : i <= ctl.len => \E k \in 1..i : buf[i] = image[k]
    PROVE  buf = File
<1> DEFINE n == meta.len
<1>1. n \in Nat /\ n <= Capacity /\ \A i \in 1..n : image[i] \in Chunk
    BY Bounds DEF CtrlOtaTypeOK
<1>2. ctl.len = n /\ ctl.crc = CrcOfPrefix(image, n)
    BY DEF OInv, SendsFile, Resting, CodeStored, CodeAnnounced, Queues, Announced
<1>3. Len(buf) = n /\ CrcOf(buf) = CrcOfPrefix(image, n)
    BY <1>2 DEF Verified
<1>4. \A i, j \in 1..n : image[i] = image[j] => i = j
    BY DEF OInv, Distinct
<1>5. \A i \in 1..n : \E k \in 1..i : buf[i] = image[k]
    BY <1>1, <1>2, <1>3
<1> HIDE DEF n
<1>6. buf = SubSeq(image, 1, n)
    BY <1>1, <1>3, <1>4, <1>5, VerifiedIsFile
<1> QED
    BY <1>6 DEF n, File

(* Replies appended: a success is an old one or among them. *)
LEMMA SuccessAmong ==
    ASSUME NEW t \in Seq(Cmd), rx \in Seq(Cmd), rx' = rx \o t, NEW i \in 1..Len(rx'),
           rx'[i] = "CRC_SUCCESS"
    PROVE  \/ \E j \in 1..Len(rx) : rx[j] = "CRC_SUCCESS"
           \/ \E j \in 1..Len(t) : t[j] = "CRC_SUCCESS"
<1>1. \/ i \in 1..Len(rx) /\ rx'[i] = rx[i]
      \/ i - Len(rx) \in 1..Len(t) /\ rx'[i] = t[i - Len(rx)]
    BY Joined
<1> QED
    BY <1>1

(* The boot loader reports success for nothing but the file. *)
LEMMA ExternalOutcome ==
    ASSUME CtrlOtaTypeOK, Sender, Queues, OInv, External
    PROVE  SendsFile' /\ CodeAnnounced' /\ DueInHand' /\ DueOnWire' /\ NotAhead' /\ Outcome'
<1> USE DEF OInv
<1>0. /\ UNCHANGED <<image, flag, meta, g, pc, local>>
      /\ rx \in Seq(Cmd) /\ tx \in Seq(Frame) /\ ctl \in BootLoader
    BY DEF External, Controller, CtlRequest, CtlData, CtlDamaged, LoseFrame, LoseReply,
       Unchanged_Module, main, eeprom, CtrlOtaTypeOK
<1>1. ASSUME tx # <<>>, tx' = Tail(tx),
             UNCHANGED ctl \/ ctl' = [ctl EXCEPT !.phase = "stuck"],
             NEW x \in Cmd \ {"CRC_SUCCESS"}, UNCHANGED rx \/ rx' = Append(rx, x)
      PROVE  SendsFile' /\ CodeAnnounced' /\ DueInHand' /\ DueOnWire' /\ NotAhead' /\ Outcome'
  <2>1. /\ ctl'.phase = "recv" => ctl' = ctl
        /\ ctl'.installed = ctl.installed
      BY <1>0, <1>1 DEF BootLoader
  <2>2. \A i \in 1..Len(tx') : Taken(i)' => Taken(i + 1)
      BY <1>1, <2>1, FramePopped DEF Taken
  <2>3. /\ SendsFile' /\ DueInHand' /\ DueOnWire'
        /\ \A i \in 1..Len(tx') : tx'[i].kind = "request" => tx'[i].crc = g.file_crc
      BY <1>0, <1>1, <2>2, FrameGone
  <2>4. CodeAnnounced' /\ NotAhead'
      BY <1>0, <2>1, <2>3 DEF CodeAnnounced, NotAhead
  <2>5. \A i \in 1..Len(rx') : rx'[i] = "CRC_SUCCESS" => \E j \in 1..Len(rx) : rx[j] = "CRC_SUCCESS"
    <3>1. CASE UNCHANGED rx
        BY <3>1
    <3>2. CASE rx' = Append(rx, x)
        BY <1>0, <1>1, <3>2, Appended
    <3> QED
        BY <1>1, <3>1, <3>2
  <2>6. Outcome'
      BY <1>0, <2>1, <2>5 DEF Outcome, File
  <2> QED
      BY <2>3, <2>4, <2>6
<1>2. CASE CtlRequest
  <2>1. CASE ctl.phase = "stuck" \/ Head(tx).len \in RefusedLen
    <3>1. "LEN_ERROR" \in Cmd \ {"CRC_SUCCESS"}
        BY DEF Cmd
    <3> QED
        BY <1>1, <1>2, <2>1, <3>1 DEF CtlRequest, Arrives
  <2>2. CASE ctl.phase # "stuck" /\ Head(tx).len \notin RefusedLen
    <3> DEFINE t == <<"REQ_CONFIRM", "FLASH_ERASE_OK">>
    <3>1. /\ tx # <<>> /\ tx' = Tail(tx) /\ Head(tx).kind = "request"
          /\ ctl' = [ctl EXCEPT !.phase = "recv", !.len = Head(tx).len, !.crc = Head(tx).crc,
                                !.buf = <<>>]
          /\ rx' = rx \o t
        BY <1>2, <2>2 DEF CtlRequest, Arrives
    <3>2. /\ ctl'.phase = "recv" /\ ctl'.crc = Head(tx).crc /\ ctl'.buf = <<>>
          /\ ctl'.installed = ctl.installed /\ Len(ctl'.buf) = 0
        BY <1>0, <3>1 DEF BootLoader
    <3>3. \A i \in 1..Len(tx') : Taken(i + 1)
      <4> TAKE i \in 1..Len(tx')
      <4>1. 1 \in 1..((i + 1) - 1) /\ tx[1].kind = "request"
          BY <3>1, FramePopped
      <4> QED
          BY <4>1 DEF Taken
    <3>4. /\ SendsFile' /\ DueInHand' /\ DueOnWire'
          /\ \A i \in 1..Len(tx') : tx'[i].kind = "request" => tx'[i].crc = g.file_crc
        BY <1>0, <3>1, <3>3, FrameGone
    <3>5. Head(tx).crc = g.file_crc
        BY <3>1, FramePopped DEF CodeAnnounced
    <3>6. CodeAnnounced' /\ NotAhead'
        BY <1>0, <3>2, <3>4, <3>5 DEF CodeAnnounced, NotAhead
    <3>7. t \in Seq(Cmd) /\ \A j \in 1..Len(t) : t[j] # "CRC_SUCCESS"
        BY DEF Cmd
    <3> HIDE DEF t
    <3>8. Outcome'
        BY <1>0, <3>1, <3>2, <3>7, SuccessAmong DEF Outcome, File
    <3> QED
        BY <3>4, <3>6, <3>8
  <2> QED
      BY <2>1, <2>2
<1>3. CASE CtlData
  <2>1. CASE ctl.phase # "recv"
    <3>1. "LEN_ERROR" \in Cmd \ {"CRC_SUCCESS"}
        BY DEF Cmd
    <3> QED
        BY <1>1, <1>3, <2>1, <3>1 DEF CtlData, Arrives
  <2>2. CASE ctl.phase = "recv"
    <3> DEFINE buf == IF Len(ctl.buf) > ctl.len THEN ctl.buf ELSE ctl.buf \o Head(tx).data
    <3>1. Arrives("data") /\ tx # <<>> /\ tx' = Tail(tx)
        BY <1>3 DEF CtlData, Arrives
    <3>2. /\ buf \in Seq(Chunk)
          /\ \A i \in 1..Len(buf) : i <= ctl.len => \E k \in 1..i : buf[i] = image[k]
        BY <2>2, <3>1, GrownNotAhead
    <3>3. Verified(buf) => buf = File
      <4> HIDE DEF buf
      <4> QED
          BY <2>2, <3>1, <3>2, OnlyTheFile
    <3>4. PICK t \in Seq(Cmd), phase \in {"recv", "boot"}, inst \in {ctl.installed, buf} :
             /\ ctl' = [ctl EXCEPT !.buf = buf, !.phase = phase, !.installed = inst]
             /\ rx' = rx \o t
             /\ inst = ctl.installed \/ Verified(buf)
             /\ (\E j \in 1..Len(t) : t[j] = "CRC_SUCCESS") => inst = buf /\ Verified(buf)
      <4>1. CASE Head(tx).more
        <5> DEFINE t == <<"DATA_ACK">>
        <5>1. t \in Seq(Cmd) /\ \A j \in 1..Len(t) : t[j] # "CRC_SUCCESS"
            BY DEF Cmd
        <5>2. rx' = rx \o t /\ ctl' = [ctl EXCEPT !.buf = buf]
          <6>1. rx' = Append(rx, "DATA_ACK") /\ ctl' = [ctl EXCEPT !.buf = buf]
              BY <1>3, <2>2, <4>1 DEF CtlData
          <6>2. Append(rx, "DATA_ACK") = rx \o t
              BY <1>0 DEF Cmd
          <6> QED
              BY <6>1, <6>2
        <5> HIDE DEF t, buf
        <5>3. ctl' = [ctl EXCEPT !.buf = buf, !.phase = "recv", !.installed = ctl.installed]
            BY <1>0, <2>2, <5>2 DEF BootLoader
        <5> QED
            BY <5>1, <5>2, <5>3
      <4>2. CASE ~Head(tx).more /\ Verified(buf)
        <5> DEFINE t == <<"DATA_ACK", "RECV_COMPLETE", "CRC_SUCCESS">>
        <5>1. t \in Seq(Cmd)
            BY DEF Cmd
        <5>2. /\ rx' = rx \o t
              /\ ctl' = [ctl EXCEPT !.buf = buf, !.phase = "boot", !.installed = buf]
            BY <1>3, <2>2, <4>2 DEF CtlData
        <5> HIDE DEF t, buf
        <5> QED
            BY <4>2, <5>1, <5>2
      <4>3. CASE ~Head(tx).more /\ ~Verified(buf)
        <5> DEFINE t == <<"DATA_ACK", "RECV_COMPLETE", "CRC_FAIL">>
        <5>1. t \in Seq(Cmd) /\ \A j \in 1..Len(t) : t[j] # "CRC_SUCCESS"
            BY DEF Cmd
        <5>2. /\ rx' = rx \o t
              /\ ctl' = [ctl EXCEPT !.buf = buf, !.phase = "boot", !.installed = @]
            BY <1>3, <2>2, <4>3 DEF CtlData
        <5> HIDE DEF t, buf
        <5>3. ctl' = [ctl EXCEPT !.buf = buf, !.phase = "boot", !.installed = ctl.installed]
            BY <1>0, <5>2 DEF BootLoader
        <5> QED
            BY <5>1, <5>2, <5>3
      <4> QED
          BY <4>1, <4>2, <4>3
    <3> HIDE DEF buf
    <3>5. /\ ctl'.buf = buf /\ ctl'.len = ctl.len /\ ctl'.crc = ctl.crc
          /\ ctl'.installed = inst
        BY <1>0, <3>4 DEF BootLoader
    <3>6. \A i \in 1..Len(tx') : Taken(i)' => Taken(i + 1)
        BY <2>2 DEF Taken
    <3>7. /\ SendsFile' /\ DueInHand' /\ DueOnWire'
          /\ \A i \in 1..Len(tx') : tx'[i].kind = "request" => tx'[i].crc = g.file_crc
        BY <1>0, <3>1, <3>6, FrameGone
    <3>8. CodeAnnounced'
        BY <1>0, <2>2, <3>5, <3>7 DEF CodeAnnounced
    <3>9. NotAhead'
        BY <1>0, <3>2, <3>5 DEF NotAhead
    <3>10. Outcome'
      <4>1. CASE Verified(buf) /\ inst = buf
          BY <1>0, <3>3, <3>5, <4>1 DEF Outcome, File
      <4>2. CASE inst = ctl.installed /\ \A j \in 1..Len(t) : t[j] # "CRC_SUCCESS"
          BY <1>0, <3>4, <3>5, <4>2, SuccessAmong DEF Outcome, File
      <4> QED
          BY <3>4, <4>1, <4>2
    <3> QED
        BY <3>7, <3>8, <3>9, <3>10
  <2> QED
      BY <2>1, <2>2
<1>4. CASE CtlDamaged \/ LoseFrame
  <2>1. "CRC_ERROR" \in Cmd \ {"CRC_SUCCESS"}
      BY DEF Cmd
  <2>2. /\ tx # <<>> /\ tx' = Tail(tx)
        /\ UNCHANGED ctl \/ ctl' = [ctl EXCEPT !.phase = "stuck"]
        /\ UNCHANGED rx \/ rx' = Append(rx, "CRC_ERROR")
      BY <1>4 DEF CtlDamaged, LoseFrame, Arrives
  <2> QED
      BY <1>1, <2>1, <2>2
<1>5. CASE LoseReply
  <2>1. rx # <<>> /\ rx' = Tail(rx) /\ UNCHANGED <<tx, ctl>>
      BY <1>5 DEF LoseReply
  <2>2. \A i \in 1..Len(rx') : rx'[i] = rx[i + 1] /\ i + 1 \in 1..Len(rx)
      BY <1>0, <2>1, Popped
  <2>3. Outcome'
      BY <1>0, <2>1, <2>2 DEF Outcome, File
  <2>4. SendsFile' /\ CodeAnnounced' /\ DueInHand' /\ NotAhead'
      BY <1>0, <2>1 DEF SendsFile, Resting, CodeAnnounced, DueInHand, Due, NotAhead
  <2>5. DueOnWire'
      BY <1>0, <2>1 DEF DueOnWire, Due, IsData, Taken
  <2> QED
      BY <2>3, <2>4, <2>5
<1> QED
    BY <1>2, <1>3, <1>4, <1>5 DEF External, Controller

(* A boot sends the file of the record, or rests. *)
LEMMA PowerCycleOutcome ==
    ASSUME CtrlOtaTypeOK, OInv, PowerCycle
    PROVE  SendsFile' /\ CodeAnnounced' /\ DueInHand' /\ DueOnWire' /\ NotAhead' /\ Outcome'
<1> USE DEF OInv
<1>1. /\ UNCHANGED <<image, flag, meta>>
      /\ tx' = <<>> /\ rx' = <<>> /\ pc' = "loop" /\ g' = CtrlInit(flag, meta)
      /\ ctl'.phase = "boot" /\ ctl'.installed = ctl.installed
    BY DEF PowerCycle, Restarted, eeprom, CtrlOtaTypeOK, BootLoader
<1>2. SendsFile'
    BY <1>1 DEF SendsFile, Resting, CtrlInit
<1>3. Len(tx') = 0 /\ Len(rx') = 0
    BY <1>1
<1>4. CodeAnnounced' /\ DueInHand' /\ DueOnWire' /\ NotAhead'
    BY <1>1, <1>3 DEF CodeAnnounced, DueInHand, DueOnWire, NotAhead
<1>5. Outcome'
    BY <1>1, <1>3 DEF Outcome, File
<1> QED
    BY <1>2, <1>4, <1>5

LEMMA InitOInv == CtrlOtaInit /\ Distinct => OInv
<1> SUFFICES ASSUME CtrlOtaInit, Distinct PROVE OInv
    OBVIOUS
<1>1. /\ g = [ state |-> "SEND_REQUEST", file_length |-> meta.len, file_crc |-> meta.crc,
               sent_length |-> 0, eeprom_read_addr |-> 0 ]
      /\ pc = "loop" /\ tx = <<>> /\ rx = <<>> /\ ctl.phase = "boot" /\ flag = READY
    BY DEF CtrlOtaInit, CtrlInit
<1>2. Len(tx) = 0 /\ Len(rx) = 0
    BY <1>1
<1>3. CodeStored
    BY DEF CtrlOtaInit, CodeStored
<1> QED
    BY <1>1, <1>2, <1>3 DEF OInv, SendsFile, CodeAnnounced, DueInHand, DueOnWire, NotAhead,
       Outcome

LEMMA NextOInv ==
    ASSUME CtrlOtaIInv, OInv, [CtrlOtaNext]_ctrlOtaVars
    PROVE  OInv'
<1> USE DEF CtrlOtaIInv
<1>1. CASE CtrlOtaNext
  <2>1. Distinct' /\ CodeStored'
      BY <1>1, FileStands DEF OInv, Distinct, CodeStored
  <2>2. SendsFile' /\ CodeAnnounced' /\ DueInHand' /\ DueOnWire' /\ NotAhead' /\ Outcome'
      BY <1>1, Kinds, SilentOutcome, RequestOutcome, DataOutcome, ReplyOutcome,
         ExternalOutcome, PowerCycleOutcome
  <2> QED
      BY <2>1, <2>2 DEF OInv
<1>2. CASE UNCHANGED ctrlOtaVars
    BY <1>2 DEF ctrlOtaVars, OInv, Distinct, CodeStored, SendsFile, Resting, CodeAnnounced, DueInHand,
       DueOnWire, Due, IsData, Taken, NotAhead, Outcome, File
<1> QED
    BY <1>1, <1>2

(* READY is given up only when the controller has verified and installed the  *)
(* file of the record, for every file whose chunks are all different:        *)
(* whatever is repeated after late answers, skipped after acknowledgements   *)
(* counted twice, read at an address the interrupt has just moved, lost,     *)
(* damaged, or begun again after a power cycle (controller_ota.c:299-310).   *)
THEOREM ClearedForTheFile == CtrlOtaSpec /\ Distinct => []ClearedOnlyWhenInstalled
<1>1. CtrlOtaIInv /\ OInv => ClearedOnlyWhenInstalled
    BY DEF OInv, Outcome, File, ClearedOnlyWhenInstalled
<1>2. CtrlOtaInit /\ Distinct => CtrlOtaIInv /\ OInv
    BY InitCtrlOtaIInv, InitOInv
<1>3. CtrlOtaIInv /\ OInv /\ [CtrlOtaNext]_ctrlOtaVars => CtrlOtaIInv' /\ OInv'
    BY NextCtrlOtaIInv, NextOInv
<1> QED
    BY <1>1, <1>2, <1>3, PTL DEF CtrlOtaSpec
=============================================================================
