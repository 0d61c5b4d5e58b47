------------------------------ MODULE V3Parser ------------------------------
(***************************************************************************)
(* Frames out of a run of bytes (V3_parse_buffer): the application's two   *)
(* protocols, 55 .. AA and 53 35 .., may be mixed in one BLE write, and    *)
(* the UART hands over one frame of the controller's.  The parser keeps    *)
(* nothing between two calls.                                              *)
(*                                                                         *)
(* Bytes are naturals.  The sizes that only say how much data a frame      *)
(* carries are constants, so that small frames can be checked.             *)
(***************************************************************************)
EXTENDS Integers, Sequences

CONSTANTS
    V3_FRAME_SIZE_HANDSHAKE,        \* 9
    V3_FRAME_SIZE_NORMAL,           \* 20
    V3_FRAME_SIZE_ERROR,            \* 7
    OTA_FRAME_START_REQ_SIZE,       \* 12
    OTA_FRAME_FLASH_ERASE_RSP_SIZE, \* 5, also the size of both retry requests
    OTA_FRAME_DATA_MIN_SIZE,        \* 8
    OTA_FRAME_DATA_MAX_SIZE         \* 208

ASSUME V3ParserAssumption ==
    /\ {V3_FRAME_SIZE_HANDSHAKE, V3_FRAME_SIZE_NORMAL, V3_FRAME_SIZE_ERROR,
        OTA_FRAME_START_REQ_SIZE, OTA_FRAME_FLASH_ERASE_RSP_SIZE,
        OTA_FRAME_DATA_MIN_SIZE, OTA_FRAME_DATA_MAX_SIZE} \subseteq 4..255
    /\ OTA_FRAME_DATA_MIN_SIZE =< OTA_FRAME_DATA_MAX_SIZE

APP_FRAME_HEAD  == \h55
APP_FRAME_TRAIL == \hAA
V3_FRAME_HEAD_0 == \h53
V3_FRAME_HEAD_1 == \h35

\* The commands with a 55 head, and how long their frames are.
AppSize == [cmd \in 1..5 |-> IF cmd = 1 THEN 7 ELSE 3]

WRITE_CTRL  == \h00
HANDSHAKE   == \h01
START       == \h06
DATA        == \h08
DATA_RETRY  == \h0B
ERASE_RETRY == \h0C
READ_CTRL   == \h0F
WRITE_ERR   == \h10
READ_ERR    == \h1F

AppCmd == {HANDSHAKE, WRITE_CTRL, READ_CTRL, START, DATA, DATA_RETRY, ERASE_RETRY}

\* The sizes a frame with a 53 35 head may have, per command.
V3Sizes ==
    [cmd \in AppCmd |->
        CASE cmd = HANDSHAKE                   -> {V3_FRAME_SIZE_HANDSHAKE}
          [] cmd \in {WRITE_CTRL, READ_CTRL}   -> {V3_FRAME_SIZE_NORMAL}
          [] cmd = START                       -> {OTA_FRAME_START_REQ_SIZE}
          [] cmd = DATA                        -> OTA_FRAME_DATA_MIN_SIZE..OTA_FRAME_DATA_MAX_SIZE
          [] cmd \in {DATA_RETRY, ERASE_RETRY} -> {OTA_FRAME_FLASH_ERASE_RSP_SIZE}]

\* Their fourth byte is the frame's size.
Measured == {START, DATA, DATA_RETRY, ERASE_RETRY}

\* Who takes a frame with a 53 35 head.
FromApp ==
    [cmd \in AppCmd |->
        CASE cmd = HANDSHAKE                 -> "V3_handle_handshake"
          [] cmd \in {WRITE_CTRL, READ_CTRL} -> "V3_handle_read_write"
          [] cmd = START                     -> "OtaHandleStartRequest"
          [] cmd = DATA                      -> "OtaHandleDataPacket"
          [] cmd = DATA_RETRY                -> "OtaPackageRetry"
          [] cmd = ERASE_RETRY               -> "OtaEraseRetry"]

FromMcu == [cmd \in {WRITE_CTRL, READ_CTRL} |-> "V3_handle_mcu_reply"]

----------------------------------------------------------------------------
(* The frames, as the two protocols have them; the parser is written below   *)
(* without these.                                                            *)

Heads == {APP_FRAME_HEAD, V3_FRAME_HEAD_0}

IsAppFrame(f) ==
    /\ f[1] = APP_FRAME_HEAD
    /\ f[2] \in DOMAIN AppSize /\ Len(f) = AppSize[f[2]]
    /\ f[Len(f)] = APP_FRAME_TRAIL

IsV3Frame(f) ==
    /\ f[1] = V3_FRAME_HEAD_0 /\ f[2] = V3_FRAME_HEAD_1
    /\ f[3] \in DOMAIN V3Sizes /\ Len(f) \in V3Sizes[f[3]]
    /\ f[3] \in Measured => f[4] = Len(f)

IsFrame(f) == Len(f) >= 3 /\ (IsAppFrame(f) \/ IsV3Frame(f))

Handler(f) ==
    IF f[1] = APP_FRAME_HEAD THEN "Handle_app_cmd_and_reply" ELSE FromApp[f[3]]

\* A head with a command that is unknown, or that does not have the length given.
IsRefused(f) ==
    \/ Len(f) >= 2 /\ f[1] = APP_FRAME_HEAD /\ f[2] \notin DOMAIN AppSize
    \/ /\ Len(f) >= 4 /\ f[1] = V3_FRAME_HEAD_0 /\ f[2] = V3_FRAME_HEAD_1
       /\ \/ f[3] \notin DOMAIN V3Sizes
          \/ f[3] \in Measured /\ f[4] \notin V3Sizes[f[3]]

\* Bytes that hold no frame, nor the beginning of one.  A head 53 that is not
\* followed by 35 is not among them: the parser stops there.
IsNoise(f) ==
    \/ /\ f # <<>>
       /\ f[1] \in Heads => IsRefused(f)
       /\ \A i \in 2..Len(f) : f[i] \notin Heads
    \/ /\ Len(f) >= 3 /\ f[1] = APP_FRAME_HEAD
       /\ f[2] \in DOMAIN AppSize /\ Len(f) = AppSize[f[2]]
       /\ f[Len(f)] # APP_FRAME_TRAIL

----------------------------------------------------------------------------

\* What the parser does at an offset: skip a byte, stop, or take n bytes.
Skip    == [do |-> "skip"]
Stop    == [do |-> "stop"]
Take(n) == [do |-> "take", n |-> n]

\* data is indexed from 1, offset from 0.
TakeIfWhole(data, offset, n) ==
    IF offset + n > Len(data) THEN Stop ELSE Take(n)

AtAppHead(data, offset) ==
    IF offset + 2 >= Len(data) THEN Stop
    ELSE LET cmd == data[offset + 2]
         IN  IF cmd \notin DOMAIN AppSize THEN Skip
             ELSE TakeIfWhole(data, offset, AppSize[cmd])

\* The code also reads the byte after the head when the head is the last one:
\* whatever is there, it stops.
AtV3Head(data, offset) ==
    IF offset + 3 >= Len(data) \/ data[offset + 2] # V3_FRAME_HEAD_1 THEN Stop
    ELSE LET cmd    == data[offset + 3]
             length == data[offset + 4]
             sizes  == IF cmd \in DOMAIN V3Sizes THEN V3Sizes[cmd] ELSE {}
         IN  CASE cmd \in Measured /\ length \in sizes ->
                    TakeIfWhole(data, offset, length)
               [] cmd \notin Measured /\ sizes # {} ->
                    TakeIfWhole(data, offset, CHOOSE n \in sizes : TRUE)
               [] OTHER -> Skip

(* Mutant: an unknown command ends the buffer. *)
AtStopsAtUnknown(data, offset) ==
    CASE data[offset + 1] = APP_FRAME_HEAD -> AtAppHead(data, offset)
      [] data[offset + 1] = V3_FRAME_HEAD_0 ->
            LET step == AtV3Head(data, offset)
            IN  IF step = Skip THEN Stop ELSE step
      [] OTHER -> Skip

At(data, offset) ==
    CASE data[offset + 1] = APP_FRAME_HEAD  -> AtAppHead(data, offset)
      [] data[offset + 1] = V3_FRAME_HEAD_0 -> AtV3Head(data, offset)
      [] OTHER -> Skip

\* The calls made for one frame: at most one.
Call(frame, from_app) ==
    LET handlers == IF from_app THEN FromApp ELSE FromMcu
    IN  IF frame[1] = APP_FRAME_HEAD
        THEN IF frame[Len(frame)] = APP_FRAME_TRAIL
             THEN << [to |-> "Handle_app_cmd_and_reply", data |-> frame] >>
             ELSE <<>>
        ELSE IF frame[3] \in DOMAIN handlers
             THEN << [to |-> handlers[frame[3]], data |-> frame] >>
             ELSE <<>>

\* The calls made for a buffer, in their order.
V3_parse_buffer(data, from_app) ==
    LET calls[offset \in Nat] ==
          IF offset >= Len(data) THEN <<>>
          ELSE LET step == At(data, offset)
               IN  CASE step.do = "skip" -> calls[offset + 1]
                     [] step.do = "stop" -> <<>>
                     [] step.do = "take" ->
                          Call(SubSeq(data, offset + 1, offset + step.n), from_app)
                          \o calls[offset + step.n]
    IN  calls[0]

V3_handle_app_data(data) == V3_parse_buffer(data, TRUE)
V3_handle_mcu_data(data) == V3_parse_buffer(data, FALSE)

\* The size the UART expects of the controller's frame, 0 for an unknown command.
V3_frame_size_from_cmd(cmd) ==
    CASE cmd = HANDSHAKE                -> V3_FRAME_SIZE_HANDSHAKE
      [] cmd \in {READ_CTRL, WRITE_CTRL} -> V3_FRAME_SIZE_NORMAL
      [] cmd \in {WRITE_ERR, READ_ERR}   -> V3_FRAME_SIZE_ERROR
      [] OTHER                           -> 0

=============================================================================
