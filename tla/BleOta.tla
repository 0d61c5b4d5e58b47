------------------------------- MODULE BleOta -------------------------------
(***************************************************************************)
(* The download stage (ble_ota.c): a phone application streams a firmware  *)
(* file over BLE, the module stores it in the I2C EEPROM and, when the     *)
(* last packet arrives and the file code agrees, sets the READY flag that  *)
(* makes the second stage (controller_ota.c) run at the next boot.         *)
(*                                                                         *)
(* Every handler runs to completion in the Bluetooth receive thread, so    *)
(* one handler call is one action.  What interrupts a handler is a power   *)
(* loss: RAM (ota) is lost, the EEPROM (image, flag, meta) is not.         *)
(***************************************************************************)
EXTENDS OtaEeprom

CONSTANTS
    AppFile,        \* the files the application may announce
    MaxResend       \* OTA_MAX_RESEND_COUNT

ASSUME BleOtaAssumption ==
    /\ AppFile \subseteq Seq(Chunk)
    /\ Capacity \in Nat \ {0}
    /\ MaxResend \in Nat \ {0}

VARIABLES
    ota,        \* g_ota_ctx
    reply,      \* the last frame notified to the application
    appFile,    \* the file the application announced last, and streams
    announced,  \* history: the file of the start request in force
    pure,       \* history: every chunk of this session came from announced
    promise,    \* history: what the session that last set READY had stored
    torn        \* history: READY was left by an interrupted write of the record

vars == <<ota, image, flag, meta, reply, appFile, announced, pure, promise, torn>>
history == <<announced, pure, promise, torn>>

(* START_RECEIVED, ERASING, COMPLETE and ERROR are left again before the   *)
(* handler that enters them returns, so between handlers only two states   *)
(* of OtaState are ever seen.                                              *)
OtaState == {"IDLE", "RECEIVING"}

(* memset(&g_ota_ctx, 0, ...); OTA_STATE_IDLE *)
OtaZero ==
    [ state |-> "IDLE", file_length |-> 0, file_crc |-> CrcZero,
      received_length |-> 0, running_crc |-> CrcZero, expected_seq |-> 0,
      eeprom_addr |-> 0, resend_count |-> 0 ]

(* Mutant: the running code is not restarted with the session. *)
OpenSessionKeepsCrc(len, crc) ==
    [ state |-> "RECEIVING", file_length |-> len, file_crc |-> crc,
      received_length |-> 0, running_crc |-> ota.running_crc, expected_seq |-> 0,
      eeprom_addr |-> 0, resend_count |-> 0 ]

(* ERASING, then RECEIVING with the stream at its beginning. *)
OpenSession(len, crc) ==
    [ state |-> "RECEIVING", file_length |-> len, file_crc |-> crc,
      received_length |-> 0, running_crc |-> CrcZero, expected_seq |-> 0,
      eeprom_addr |-> 0, resend_count |-> 0 ]

Reply == {"none", "start_fail", "erase_done", "continue", "resend", "fail",
          "package_ok", "package_fail", "erase_ok", "erase_fail"}

(* typedef OtaContext; the two fields of a half-filled CRC word are always    *)
(* zero here, since chunks are whole words.                                  *)
OtaContext ==
    [ state : OtaState, file_length : 0..Capacity, file_crc : SUBSET Chunk,
      received_length : 0..Capacity, running_crc : SUBSET Chunk, expected_seq : Nat,
      eeprom_addr : 0..Capacity, resend_count : 0..(MaxResend - 1) ]

TypeOK ==
    /\ ota \in OtaContext
    /\ image \in [1..Capacity -> Chunk]
    /\ flag \in {READY, IDLE}
    /\ meta \in [len : 0..Capacity, crc : SUBSET Chunk]
    /\ reply \in Reply
    /\ appFile \in Seq(Chunk)
    /\ announced \in Seq(Chunk)
    /\ pure \in BOOLEAN
    /\ promise \in [file : Seq(Chunk), pure : BOOLEAN, stored : 0..Capacity]
    /\ torn \in BOOLEAN

NoPromise == [file |-> <<>>, pure |-> TRUE, stored |-> 0]

(* A module out of the factory: no file was ever ready. *)
Init ==
    /\ ota = OtaZero
    /\ image \in [1..Capacity -> Chunk]
    /\ flag = IDLE
    /\ meta = [len |-> 0, crc |-> CrcZero]
    /\ reply = "none"
    /\ appFile = <<>>
    /\ announced = <<>>
    /\ pure = TRUE
    /\ promise = NoPromise
    /\ torn = FALSE

-----------------------------------------------------------------------------
(* OtaHandleStartRequest.  The application announces f.  A start request    *)
(* that finds a session open is dropped without an answer.                  *)

StartIgnored(f) ==
    /\ ota.state # "IDLE"
    /\ appFile' = f
    /\ UNCHANGED <<ota, image, flag, meta, reply, history>>

StartRejected(f) ==
    /\ ota.state = "IDLE"
    /\ Len(f) = 0 \/ Len(f) > Capacity
    /\ flag' = IDLE
    /\ ota' = OtaZero
    /\ reply' = "start_fail"
    /\ appFile' = f
    /\ torn' = FALSE
    /\ UNCHANGED <<image, meta, announced, pure, promise>>

(* Mutant: READY is left standing when a session opens. *)
StartKeepsReady(f) ==
    /\ ota.state = "IDLE"
    /\ Len(f) \in 1..Capacity
    /\ ota' = OpenSession(Len(f), CrcOf(f))
    /\ reply' = "erase_done"
    /\ appFile' = f
    /\ announced' = f
    /\ pure' = TRUE
    /\ UNCHANGED <<image, flag, meta, promise, torn>>

StartAccepted(f) ==
    /\ ota.state = "IDLE"
    /\ Len(f) \in 1..Capacity
    /\ flag' = IDLE
    /\ ota' = OpenSession(Len(f), CrcOf(f))
    /\ reply' = "erase_done"
    /\ appFile' = f
    /\ announced' = f
    /\ pure' = TRUE
    /\ torn' = FALSE
    /\ UNCHANGED <<image, meta, promise>>

OtaHandleStartRequest(f) == StartIgnored(f) \/ StartRejected(f) \/ StartAccepted(f)

-----------------------------------------------------------------------------
(* OtaHandleDataPacket(k, ok): packet k of the announced file, in whatever   *)
(* order and as often as the application sends it; ok is the packet check.   *)

(* The two error branches: answer RESEND, or give up after MaxResend. *)
Resend ==
    IF ota.resend_count + 1 >= MaxResend
    THEN ota' = OtaZero /\ reply' = "fail"
    ELSE /\ ota' = [ota EXCEPT !.resend_count = @ + 1]
         /\ reply' = "resend"

DataRefused(k, ok) ==
    /\ k # ota.expected_seq \/ ~ok
    /\ Resend
    /\ UNCHANGED <<image, flag, meta, appFile, history>>

(* Mutant: the payload is not cut at the announced length. *)
ValidLenUncut == 1

(* valid_len, in chunks: nothing is stored beyond the announced length. *)
ValidLen == IF ota.received_length < ota.file_length THEN 1 ELSE 0

(* EepromWrite, OtaFileCrcUpdate and the counters, before has_more is read. *)
NextCrc(chunk) ==
    IF ValidLen = 1 THEN CrcUpdate(ota.running_crc, chunk) ELSE ota.running_crc

Stored(chunk) ==
    [ state |-> "RECEIVING",
      file_length |-> ota.file_length,
      file_crc |-> ota.file_crc,
      received_length |-> ota.received_length + ValidLen,
      running_crc |-> NextCrc(chunk),
      expected_seq |-> ota.expected_seq + 1,
      eeprom_addr |-> ota.eeprom_addr + ValidLen,
      resend_count |-> 0 ]

ImageWith(chunk) ==
    IF ValidLen = 1 THEN [image EXCEPT ![ota.eeprom_addr + 1] = chunk] ELSE image

StillPure == pure /\ appFile = announced

DataStored(chunk) ==
    /\ ota' = Stored(chunk)
    /\ image' = ImageWith(chunk)
    /\ reply' = "continue"
    /\ pure' = StillPure
    /\ UNCHANGED <<flag, meta, appFile, announced, promise, torn>>

(* Mutant: the context is not reset after the last packet. *)
CompleteWithoutReset(chunk) ==
    /\ Stored(chunk).running_crc = ota.file_crc
    /\ image' = ImageWith(chunk)
    /\ flag' = READY
    /\ meta' = [len |-> ota.file_length, crc |-> ota.file_crc]
    /\ ota' = Stored(chunk)
    /\ reply' = "continue"
    /\ promise' = [file |-> announced, pure |-> StillPure,
                   stored |-> Stored(chunk).received_length]
    /\ pure' = StillPure
    /\ torn' = FALSE
    /\ UNCHANGED <<appFile, announced>>

(* Mutant: the code that came out is stored instead of being compared. *)
CompleteUnverified(chunk) ==
    /\ image' = ImageWith(chunk)
    /\ flag' = READY
    /\ meta' = [len |-> ota.file_length, crc |-> Stored(chunk).running_crc]
    /\ ota' = OtaZero
    /\ reply' = "continue"
    /\ promise' = [file |-> announced, pure |-> StillPure,
                   stored |-> Stored(chunk).received_length]
    /\ pure' = StillPure
    /\ torn' = FALSE
    /\ UNCHANGED <<appFile, announced>>

(* The record of the last page: the flag, the length and the file code. *)
Ctrl_ota_setota_readyflag(file_length, file_crc) ==
    /\ flag' = READY
    /\ meta' = [len |-> file_length, crc |-> file_crc]

(* The last packet with the right file code. *)
DataComplete(chunk) ==
    /\ Stored(chunk).running_crc = ota.file_crc
    /\ image' = ImageWith(chunk)
    /\ Ctrl_ota_setota_readyflag(ota.file_length, ota.file_crc)
    /\ ota' = OtaZero
    /\ reply' = "continue"
    /\ promise' = [file |-> announced, pure |-> StillPure,
                   stored |-> Stored(chunk).received_length]
    /\ pure' = StillPure
    /\ torn' = FALSE
    /\ UNCHANGED <<appFile, announced>>

DataMismatch(chunk) ==
    /\ Stored(chunk).running_crc # ota.file_crc
    /\ image' = ImageWith(chunk)
    /\ ota' = OtaZero
    /\ reply' = "fail"
    /\ pure' = StillPure
    /\ UNCHANGED <<flag, meta, appFile, announced, promise, torn>>

(* Mutant: a packet that repeats an earlier one is taken again. *)
DataAcceptsRepeated(k, ok) ==
    /\ ota.state = "RECEIVING"
    /\ LET chunk   == appFile[k + 1]
           hasMore == k + 1 < Len(appFile)
       IN  \/ DataRefused(k, ok)
           \/ /\ k <= ota.expected_seq
              /\ ok
              /\ \/ hasMore /\ DataStored(chunk)
                 \/ ~hasMore /\ (DataComplete(chunk) \/ DataMismatch(chunk))

OtaHandleDataPacket(k, ok) ==
    /\ ota.state = "RECEIVING"
    /\ LET chunk   == appFile[k + 1]
           hasMore == k + 1 < Len(appFile)
       IN  \/ DataRefused(k, ok)
           \/ /\ k = ota.expected_seq
              /\ ok
              /\ \/ hasMore /\ DataStored(chunk)
                 \/ ~hasMore /\ (DataComplete(chunk) \/ DataMismatch(chunk))

-----------------------------------------------------------------------------
(* Mutant: the write address is not rewound. *)
PackageRetryKeepsAddr(valid) ==
    /\ IF valid
       THEN /\ ota' = [OpenSession(ota.file_length, ota.file_crc) EXCEPT
                          !.eeprom_addr = ota.eeprom_addr]
            /\ reply' = "package_ok"
            /\ pure' = TRUE
       ELSE /\ reply' = "package_fail"
            /\ UNCHANGED <<ota, pure>>
    /\ UNCHANGED <<image, flag, meta, appFile, announced, promise, torn>>

(* OtaPackageRetry: start the stream over "with the total size unchanged".   *)
(* There is no check of the state: it also opens a session from IDLE.        *)
OtaPackageRetry(valid) ==
    /\ IF valid
       THEN /\ ota' = OpenSession(ota.file_length, ota.file_crc)
            /\ reply' = "package_ok"
            /\ pure' = TRUE
       ELSE /\ reply' = "package_fail"
            /\ UNCHANGED <<ota, pure>>
    /\ UNCHANGED <<image, flag, meta, appFile, announced, promise, torn>>

(* OtaEraseRetry: back to IDLE, the rest of the context is kept. *)
OtaEraseRetry(valid) ==
    /\ IF valid
       THEN ota' = [ota EXCEPT !.state = "IDLE"] /\ reply' = "erase_ok"
       ELSE reply' = "erase_fail" /\ UNCHANGED ota
    /\ UNCHANGED <<image, flag, meta, appFile, history>>

-----------------------------------------------------------------------------
(* Power loss and boot: Ota_init.  The EEPROM survives. *)
Reboot ==
    /\ ota' = OtaZero
    /\ reply' = "none"
    /\ UNCHANGED <<image, flag, meta, appFile, history>>

(* Power loss inside the handler, during the page write of a chunk: the cell *)
(* is left with whatever the interrupted write produced.                     *)
PowerLossInWrite(junk) ==
    /\ ota.state = "RECEIVING"
    /\ ValidLen = 1
    /\ image' = ImageWith(junk)
    /\ ota' = OtaZero
    /\ reply' = "none"
    /\ UNCHANGED <<flag, meta, appFile, history>>

(* Power loss inside the handler, while the nine bytes of the record are     *)
(* written, the last packet already acknowledged: the flag, the length and   *)
(* the code are each the old one or the new one.                             *)
PowerLossInRecord(k) ==
    /\ ota.state = "RECEIVING"
    /\ k = ota.expected_seq
    /\ k + 1 = Len(appFile)
    /\ Stored(appFile[k + 1]).running_crc = ota.file_crc
    /\ image' = ImageWith(appFile[k + 1])
    /\ flag' \in {flag, READY}
    /\ meta' \in [len : {meta.len, ota.file_length}, crc : {meta.crc, ota.file_crc}]
    /\ torn' = (flag' = READY)
    /\ promise' = NoPromise
    /\ ota' = OtaZero
    /\ reply' = "none"
    /\ UNCHANGED <<appFile, announced, pure>>

PowerLoss ==
    \/ Reboot
    \/ \E junk \in Chunk : PowerLossInWrite(junk)
    \/ \E k \in 0..(Len(appFile) - 1) : PowerLossInRecord(k)

Next ==
    \/ \E f \in AppFile : OtaHandleStartRequest(f)
    \/ \E k \in 0..(Len(appFile) - 1), ok \in BOOLEAN : OtaHandleDataPacket(k, ok)
    \/ \E valid \in BOOLEAN : OtaPackageRetry(valid) \/ OtaEraseRetry(valid)
    \/ PowerLoss

Spec == Init /\ [][Next]_vars

-----------------------------------------------------------------------------
(* A file is on offer to the next boot.  A record torn by a power loss is    *)
(* not: the code has nothing to recognise it by, and what the transfer makes *)
(* of it is the matter of OtaPipeline.                                       *)
Offered == flag = READY /\ meta.len > 0 /\ ~torn

(* Once a file is on offer, the EEPROM holds the announced file,             *)
(* whole: every chunk of it, in order, at its address - provided the         *)
(* application streamed only the file it had announced.  The code never      *)
(* compares received_length with file_length, so this rests on the packet    *)
(* numbers, on the restart of the address with the sequence, and on the      *)
(* image being left alone from then on, whatever requests follow.            *)
ReadyImage ==
    (Offered /\ promise.pure) =>
        /\ meta.len = Len(promise.file)
        /\ \A i \in 1..meta.len : image[i] = promise.file[i]

(* Even for an application that switches files in mid-stream, the file code  *)
(* kept beside READY is the code of what was stored: the running code was    *)
(* restarted with every session and no later write touched those chunks.     *)
ReadyCrc ==
    Offered =>
        CrcOfPrefix(image, promise.stored) = meta.crc

(* Whenever a session has a length, READY is off: no chunk is ever written   *)
(* under a READY flag, and a power loss in mid-download leaves no READY over *)
(* half a file.  OtaPackageRetry reopens sessions without clearing READY.    *)
NoDownloadUnderReady == ota.file_length > 0 => flag # READY

(* A packet acknowledged with CONTINUE is in the EEPROM: packets accepted    *)
(* and chunks stored agree while the application keeps to its file.          *)
AckedIsStored ==
    (ota.state = "RECEIVING" /\ ota.file_length > 0 /\ pure) =>
        /\ ota.received_length = ota.expected_seq
        /\ ota.eeprom_addr = ota.expected_seq
        /\ \A i \in 1..ota.expected_seq : image[i] = announced[i]

(* The parts that make the above inductive. *)
Position ==
    /\ ota.received_length <= ota.file_length
    /\ ota.eeprom_addr = ota.received_length

AnnouncedLength == ota.file_length > 0 => ota.file_length = Len(announced)

RunningCrc ==
    (ota.state = "RECEIVING" /\ ota.file_length > 0) =>
        ota.running_crc = CrcOfPrefix(image, ota.received_length)

PromiseKept == Offered => promise.stored <= meta.len

(* The inductive invariant. *)
IInv ==
    /\ TypeOK
    /\ Position
    /\ AnnouncedLength
    /\ NoDownloadUnderReady
    /\ AckedIsStored
    /\ RunningCrc
    /\ PromiseKept
    /\ ReadyImage
    /\ ReadyCrc

-----------------------------------------------------------------------------
(* What the download promises to the boot that follows: FirmwareSlot.        *)
Slot == INSTANCE FirmwareSlot WITH
    slot <- IF Offered THEN SubSeq(image, 1, meta.len) ELSE <<>>

(* The download never edits a file that is on offer: it withdraws it first   *)
(* (the flag is cleared before the first write of a session) and offers a    *)
(* new one only when it is complete, at any point of failure.                *)
SlotSpec == Slot!Spec
=============================================================================
