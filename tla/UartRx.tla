------------------------------- MODULE UartRx -------------------------------
(***************************************************************************)
(* Where received bytes become calls.  From the controller: the UART       *)
(* receive interrupt (Ble_hid_uart_irq_rx_ready), which gathers bytes in   *)
(* RX_Sendata and, when the line has paused, decides which of the three    *)
(* protocols they belong to.  From the application: a BLE write            *)
(* (write_vnd), handed to the parser as it is.                             *)
(*                                                                         *)
(* The hardware raises DATA when its FIFO has reached a level, and TIMEOUT *)
(* when the FIFO holds something and the line is quiet.  The handler       *)
(* leaves one byte in the FIFO on DATA, so that TIMEOUT will come.         *)
(*                                                                         *)
(* External: a controller that pauses between its frames, except that      *)
(* replies of its boot loader may follow each other at once; and that may  *)
(* pause anywhere inside a register reply.  What its frames carry is any   *)
(* byte, those of the register head included; any byte may be lost.        *)
(*                                                                         *)
(* The interrupt knows a register reply by its first two bytes and keeps   *)
(* it until it is as long as its third byte says.  Where it may take other *)
(* bytes for these three, or not find them where they were, nothing more   *)
(* is claimed: the variable doubt says so, and TookOther below when.  What *)
(* the handler does to the memory behind a full buffer is not modelled.    *)
(***************************************************************************)
EXTENDS V3Parser, SequencesExt

CONSTANTS
    RX_BUFFER_SIZE,     \* 240
    MCU_MAX_LEN,        \* 128
    FifoSize,           \* bytes the hardware FIFO holds
    FifoLevel,          \* bytes at which it raises DATA
    MaxFrames,          \* bound on frames of the controller
    MaxBurst,           \* bound on boot loader replies without a pause
    Content,            \* what the controller's n-th frame carries, of either kind
    MaxPauses,          \* bound on pauses inside a register reply
    MaxLoss,            \* bound on bytes lost
    AppFrames,          \* frames of the application, with the handler of each
    Noise,              \* bytes that may stand between them, handler "none"
    MaxWrite            \* bound on frames, and runs of noise, in one write

ASSUME UartRxAssumption ==
    /\ RX_BUFFER_SIZE \in Nat \ {0}
    /\ FifoSize \in Nat /\ FifoLevel \in 2..FifoSize
    /\ MaxBurst \in Nat \ {0}
    /\ {MCU_MAX_LEN, MaxFrames, MaxPauses, MaxLoss, MaxWrite} \subseteq Nat

(* What the application writes: frames of the two protocols, each with the   *)
(* handler it is meant for, and bytes that are no frame.                     *)
ASSUME AppAssumption ==
    /\ \A f \in AppFrames : /\ f = [to |-> Handler(f.data), data |-> f.data]
                           /\ f.data \in Seq(0..255) /\ IsFrame(f.data)
    /\ \A f \in Noise : f.data \in Seq(0..255) /\ IsNoise(f.data) /\ f.to = "none"

VARIABLES
    sent,           \* the controller: the frames it has started, their kinds
    line,           \* the bytes it is sending
    fifo,           \* the hardware FIFO
    RX_Sendata,     \* the buffer, indexed from 0, with what earlier frames left
    USART_RX_CNT,   \* how many bytes of it are in use
    handled,        \* the calls made by the UART interrupt
    write,          \* the frames of the last BLE write
    parsed,         \* the calls it led to
    burst,          \* boot loader replies since the last pause
    pauses,         \* pauses inside a frame so far
    lost,           \* the frame that lost a byte last, 0 for none, and how many
    doubt           \* history: the interrupt may have taken other bytes for a head

uart == <<sent, line, fifo, RX_Sendata, USART_RX_CNT, handled, burst, pauses, lost, doubt>>
app  == <<write, parsed>>
vars == <<uart, app>>

Kind == {"ota", "v3", "v2", "uc"}
Byte == 0..255

CTRL_OTA_HEAD      == <<\hEB, \h90, \hEB, \h90, \hEB, \h90, \h08>>
CTRL_RSP_FRAME_LEN == 8
V3_HEAD            == <<V3_FRAME_HEAD_0, V3_FRAME_HEAD_1>>
UC_GET_MAC         == <<\hAA, \h10, \h55>>

\* Room behind a register reply that is not whole: for a burst, and for another one.
ASSUME RoomAssumption ==
    /\ V3_FRAME_SIZE_NORMAL - 1 + CTRL_RSP_FRAME_LEN * MaxBurst =< RX_BUFFER_SIZE
    /\ V3_FRAME_SIZE_NORMAL - 1 + V3_FRAME_SIZE_NORMAL =< RX_BUFFER_SIZE
    /\ Len(UC_GET_MAC) =< MCU_MAX_LEN

\* A boot loader reply, a register reply, a V2 reply: any bytes but the command of the second.
ASSUME ContentAssumption ==
    Content \in [1..MaxFrames -> [reply : Byte,
                                  cmd   : {READ_CTRL, WRITE_CTRL},
                                  regs  : [1..(V3_FRAME_SIZE_NORMAL - 3) -> Byte],
                                  word  : [1..2 -> Byte]]]

\* The controller's n-th frame.
Frame(kind, n) ==
    CASE kind = "ota" -> Append(CTRL_OTA_HEAD, Content[n].reply)
      [] kind = "v3"  -> V3_HEAD \o <<Content[n].cmd>> \o Content[n].regs
      [] kind = "v2"  -> Content[n].word
      [] kind = "uc"  -> UC_GET_MAC

\* The types, and that the buffer does not overrun.
Sound ==
    /\ sent \in Seq(Kind)
    /\ line \in Seq(Byte)
    /\ fifo \in Seq(Byte) /\ Len(fifo) =< FifoSize
    /\ DOMAIN RX_Sendata = 0..(RX_BUFFER_SIZE - 1)
    /\ \A i \in DOMAIN RX_Sendata : RX_Sendata[i] \in Byte
    /\ USART_RX_CNT \in 0..RX_BUFFER_SIZE
    /\ burst \in 0..MaxBurst
    /\ pauses \in 0..MaxPauses
    /\ lost \in [frame : 0..MaxFrames, bytes : 0..MaxLoss]

TypeOK == doubt \in BOOLEAN /\ (~doubt => Sound)

Init ==
    /\ sent = <<>>
    /\ line = <<>>
    /\ fifo = <<>>
    /\ RX_Sendata = [i \in 0..(RX_BUFFER_SIZE - 1) |-> 0]
    /\ USART_RX_CNT = 0
    /\ handled = <<>>
    /\ write = <<>>
    /\ parsed = <<>>
    /\ burst = 0
    /\ pauses = 0
    /\ lost = [frame |-> 0, bytes |-> 0]
    /\ doubt = FALSE

----------------------------------------------------------------------------
(* The controller and the hardware *)

Quiet == line = <<>>

HoldsHead(bytes) == \E i \in 1..Len(bytes) : bytes[i] = V3_FRAME_HEAD_0

\* A step at which the interrupt may begin to take other bytes for the head of a
\* register reply, or part of a reply for something else.
TookOther(happens) == IF happens THEN doubt' = TRUE ELSE doubt' = doubt

\* A frame, after the pause that ended the last one or at once in a burst.
SendFrame ==
    /\ Len(sent) < MaxFrames
    /\ Quiet
    /\ \E kind \in Kind :
         /\ \/ fifo = <<>> /\ burst' = IF kind = "ota" THEN 1 ELSE 0
            \/ /\ kind = "ota" /\ burst \in 1..(MaxBurst - 1)
               /\ fifo # <<>>
               /\ burst' = burst + 1
         /\ sent' = Append(sent, kind)
         /\ line' = Frame(kind, Len(sent'))
         /\ TookOther(kind = "v2" /\ line' = V3_HEAD)   \* kept for a register reply
    /\ write' = <<>>
    /\ parsed' = <<>>
    /\ UNCHANGED <<fifo, RX_Sendata, USART_RX_CNT, handled, pauses, lost>>

\* A byte reaches the FIFO, which is served before it is full.
Arrive ==
    /\ ~Quiet
    /\ Len(fifo) < FifoSize
    /\ fifo' = Append(fifo, Head(line))
    /\ line' = Tail(line)
    /\ UNCHANGED <<sent, RX_Sendata, USART_RX_CNT, handled, burst, pauses, lost, doubt, app>>

\* The position of the byte at the head of the line in its frame.
Position == Len(Frame(Last(sent), Len(sent))) - Len(line) + 1

\* Without its command byte the size of a register reply is read from its data; the
\* rest of another frame may begin with the first byte of the head.
Lose ==
    /\ ~Quiet
    /\ lost.bytes < MaxLoss
    /\ line' = Tail(line)
    /\ lost' = [frame |-> Len(sent), bytes |-> lost.bytes + 1]
    /\ TookOther(IF Last(sent) = "v3" THEN Position = 3
                 ELSE HoldsHead(Frame(Last(sent), Len(sent))))
    /\ UNCHANGED <<sent, fifo, RX_Sendata, USART_RX_CNT, handled, burst, pauses, app>>

----------------------------------------------------------------------------
(* Ble_hid_uart_irq_rx_ready *)

\* The buffer with bytes stored behind the n in use.
Stored(bytes, n) ==
    [i \in DOMAIN RX_Sendata |->
        IF i \in n..(n + Len(bytes) - 1) THEN bytes[i - n + 1] ELSE RX_Sendata[i]]

(* Mutant: nothing is left in the FIFO. *)
RecNumAll == Len(fifo)

\* All bytes but one; the loop looks whether the buffer is full after each byte.
RecNum ==
    Min({Len(fifo) - 1, Max({1, RX_BUFFER_SIZE - USART_RX_CNT})})

DataEvent ==
    /\ Len(fifo) >= FifoLevel
    /\ RX_Sendata' = Stored(SubSeq(fifo, 1, RecNum), USART_RX_CNT)
    /\ USART_RX_CNT' = USART_RX_CNT + RecNum
    /\ fifo' = SubSeq(fifo, RecNum + 1, Len(fifo))
    /\ UNCHANGED <<sent, line, handled, burst, pauses, lost, doubt, app>>

----------------------------------------------------------------------------

IsReply(bytes) ==
    Len(bytes) >= CTRL_RSP_FRAME_LEN /\ IsPrefix(CTRL_OTA_HEAD, bytes)

\* How many of them there are before the first thing that is none.
Replies(bytes) ==
    Max({n \in 0..(Len(bytes) \div CTRL_RSP_FRAME_LEN) : \A k \in 0..(n - 1) :
            IsReply(SubSeq(bytes, k * CTRL_RSP_FRAME_LEN + 1, Len(bytes)))})

OtaReply(cmd) == [to |-> "Ctrl_ota_handle_reply", data |-> <<cmd>>]

(* Mutant: only the first reply of a burst is taken. *)
FirstOtaReply(bytes) == << OtaReply(bytes[CTRL_RSP_FRAME_LEN]) >>

\* One call for every whole reply at the head of the bytes.
OtaReplies(bytes) ==
    [n \in 1..Replies(bytes) |-> OtaReply(bytes[n * CTRL_RSP_FRAME_LEN])]

\* The test of the two head bytes: the second may be one an earlier frame left.
StartsV3(buffer, count) ==
    count > 0 /\ buffer[0] = V3_FRAME_HEAD_0 /\ buffer[1] = V3_FRAME_HEAD_1

\* The size of the register frame at the head of the bytes once it is whole, 0 before.
V3Whole(bytes) ==
    LET size == IF Len(bytes) >= 3 THEN V3_frame_size_from_cmd(bytes[3]) ELSE 0
    IN  IF Len(bytes) >= size THEN size ELSE 0

\* A V2 reply, or the host's request for the MAC address.
OtherCalls(bytes) ==
    (IF Len(bytes) \in 1..MCU_MAX_LEN
     THEN << [to |-> "Handle_mcu_replydata", data |-> bytes] >> ELSE <<>>)
    \o (IF bytes = UC_GET_MAC THEN << [to |-> "send_mac_to_uc", data |-> <<>>] >>
        ELSE <<>>)

Pause ==
    \/ Quiet /\ pauses' = pauses
    \/ /\ ~Quiet /\ Last(sent) = "v3"
       /\ pauses < MaxPauses
       /\ pauses' = pauses + 1

Gathered ==
    [i \in 1..(USART_RX_CNT + Len(fifo)) |->
        IF i =< USART_RX_CNT THEN RX_Sendata[i - 1] ELSE fifo[i - USART_RX_CNT]]

\* What one memmove per reply leaves: the n-th reaches the cells that some byte
\* was still n replies behind.
MovedUp(bytes) ==
    LET all      == Stored(fifo, USART_RX_CNT)
        moved    == 1..Replies(bytes)
        moves(i) == {n \in moved : i + n * CTRL_RSP_FRAME_LEN < Len(bytes)}
    IN  [i \in DOMAIN all |-> all[i + Cardinality(moves(i)) * CTRL_RSP_FRAME_LEN]]

\* Whole boot loader replies: taken out one by one, the rest dropped.
TakeReplies(bytes) ==
    /\ IsReply(bytes)
    /\ handled' = handled \o OtaReplies(bytes)
    /\ RX_Sendata' = MovedUp(bytes)
    /\ USART_RX_CNT' = 0

(* Mutant: the buffer stays in use after a register frame. *)
TakeV3NotCleared(bytes) ==
    LET size == V3Whole(bytes)
    IN  /\ ~IsReply(bytes)
        /\ StartsV3(Stored(fifo, USART_RX_CNT), Len(bytes))
        /\ handled' = handled \o V3_handle_mcu_data(SubSeq(bytes, 1, size))
        /\ RX_Sendata' = Stored(fifo, USART_RX_CNT)
        /\ USART_RX_CNT' = Len(bytes)

(* Mutant: what follows a whole register frame is kept for the next one. *)
TakeV3KeepsRest(bytes) ==
    LET size == V3Whole(bytes)
        all  == Stored(fifo, USART_RX_CNT)
    IN  /\ ~IsReply(bytes)
        /\ StartsV3(all, Len(bytes))
        /\ handled' = handled \o V3_handle_mcu_data(SubSeq(bytes, 1, size))
        /\ USART_RX_CNT' = Len(bytes) - size
        /\ RX_Sendata' = [i \in DOMAIN all |->
                            IF i + size \in DOMAIN all THEN all[i + size] ELSE all[i]]

\* A register frame: kept until it is whole.
TakeV3(bytes) ==
    LET size == V3Whole(bytes)
        all  == Stored(fifo, USART_RX_CNT)
    IN  /\ ~IsReply(bytes)
        /\ StartsV3(all, Len(bytes))
        /\ handled' = handled \o V3_handle_mcu_data(SubSeq(bytes, 1, size))
        /\ RX_Sendata' = all
        /\ USART_RX_CNT' = IF size > 0 THEN 0 ELSE Len(bytes)

TakeOther(bytes) ==
    LET all == Stored(fifo, USART_RX_CNT)
    IN  /\ ~IsReply(bytes)
        /\ ~StartsV3(all, Len(bytes))
        /\ handled' = handled \o OtherCalls(bytes)
        /\ RX_Sendata' = all
        /\ USART_RX_CNT' = 0

\* A pause inside a register reply: between its two head bytes, or where what has come
\* of it is dropped after a loss and the rest holds the first byte of the head.
Broken(bytes) ==
    /\ ~Quiet
    /\ \/ bytes = <<V3_FRAME_HEAD_0>>
       \/ lost.bytes > 0 /\ USART_RX_CNT' = 0 /\ HoldsHead(line)

TimeoutEvent ==
    /\ fifo # <<>>
    /\ Pause
    /\ \/ TakeReplies(Gathered)
       \/ TakeV3(Gathered)
       \/ TakeOther(Gathered)
    /\ TookOther(Broken(Gathered))
    /\ fifo' = <<>>
    /\ burst' = 0
    /\ UNCHANGED <<sent, line, lost, app>>

----------------------------------------------------------------------------
(* write_vnd *)

\* The parser keeps nothing and shares nothing with the interrupt: one write, before
\* the UART is used, and its history forgotten then.
write_vnd ==
    /\ sent = <<>>
    /\ write = <<>>
    /\ \E frames \in BoundedSeq(AppFrames \cup Noise, MaxWrite) :
         /\ frames # <<>>
         /\ write' = frames
         /\ parsed' = V3_handle_app_data(FlattenSeq([i \in DOMAIN frames |-> frames[i].data]))
    /\ UNCHANGED uart

----------------------------------------------------------------------------

Next ==
    \/ SendFrame
    \/ Arrive
    \/ Lose
    \/ DataEvent
    \/ TimeoutEvent
    \/ write_vnd

Spec == Init /\ [][Next]_vars

\* A frame begun goes on; the hardware raises its events and the processor
\* takes them.
Fairness == WF_vars(Arrive) /\ WF_vars(DataEvent) /\ WF_vars(TimeoutEvent)

FairSpec == Spec /\ Fairness

----------------------------------------------------------------------------
(* Properties *)

\* The calls a frame of the controller stands for.
CallsFor(n) ==
    LET frame == Frame(sent[n], n)
    IN  CASE sent[n] = "ota" -> << OtaReply(Content[n].reply) >>
          [] sent[n] = "v3"  -> << [to |-> "V3_handle_mcu_reply", data |-> frame] >>
          [] sent[n] = "v2"  -> << [to |-> "Handle_mcu_replydata", data |-> frame] >>
          [] sent[n] = "uc"  -> << [to |-> "Handle_mcu_replydata", data |-> frame],
                                   [to |-> "send_mac_to_uc", data |-> <<>>] >>

\* As long as no byte is lost, the calls made are those of the frames sent, in
\* the order sent, none twice and none left out: whatever the interrupt found in
\* the FIFO when, replies of the boot loader back to back, register replies in
\* pieces, with any data in them (main.c:1255-1303).  Two things end this: a V2
\* reply 53 35, and a pause between the two head bytes.
HandledInOrder ==
    lost.bytes = 0 /\ ~doubt =>
        IsPrefix(handled, FlattenSeq([n \in DOMAIN sent |-> CallsFor(n)]))

\* A register reply that follows another one is handled, when nothing has been
\* lost since the first was begun: what an earlier lost byte has left in the
\* buffer costs one register reply and not every one (main.c:1286-1296).  Not
\* when the byte lost was the command of a register reply, and not when the rest
\* of a reply whose front was dropped at a pause can pass for a head: then the
\* buffer may be kept for good.
Recovered ==
    Quiet /\ fifo = <<>> /\ ~doubt =>
        \A n \in (lost.frame + 1)..(Len(sent) - 1) :
            sent[n] = "v3" /\ sent[n + 1] = "v3" =>
                \E i \in DOMAIN handled : << handled[i] >> = CallsFor(n + 1)

\* A BLE write is taken apart into the frames it is made of, in their order, what
\* looks like a head inside a frame notwithstanding, and bytes that are no frame
\* cost none of their neighbours (V3_parse_buffer, called from write_vnd).
WriteParsed ==
    parsed = FlattenSeq([i \in DOMAIN write |->
                            IF write[i].to = "none" THEN <<>> ELSE << write[i] >>])

\* Every frame is handled in the end unless a byte is lost: the interrupt never
\* empties the FIFO before the pause that makes it look at the buffer
\* (main.c:1307-1310).
Delivered ==
    \A n \in 1..MaxFrames :
        Len(sent) >= n ~> Len(handled) >= n \/ lost.bytes > 0 \/ doubt
=============================================================================
