------------------------- MODULE OtaPipeline_proofs -------------------------
(***************************************************************************)
(* Proofs about the two stages together, for every set of files, every     *)
(* EEPROM size and any number of faults.                                   *)
(*                                                                         *)
(* The argument.  To the download, everything the transfer does is one of  *)
(* two things: nothing, or the loss of READY (EepromFromTransfer).  The    *)
(* inductive invariant of the download survives both                       *)
(* (WithdrawnKeeps), so it holds in the composition, where it carries over *)
(* what it implies; and to the slot such a step is a stutter or a          *)
(* Withdraw.                                                               *)
(*                                                                         *)
(* To the transfer, a download changes the chunks it is about to read and  *)
(* nothing else.  Its counting of what the boot loader holds (Agreement)   *)
(* does not depend on them.  What is installed does, and "the chunks of    *)
(* the file" is no invariant here; but a download writes at each place a   *)
(* chunk that some announced file has at that place (FrameInPlace), so the *)
(* boot loader's buffer holds no chunk before its place (GrownPlaced), and *)
(* such a buffer with the length and the code of an announced file is that *)
(* file (PlacedIsFile).                                                    *)
(***************************************************************************)
EXTENDS OtaPipeline, BleOta_proofs, CtrlOta_proofs

(* The transfer leaves the download alone but for the flag, which it may     *)
(* clear.                                                                    *)
Withdrawn ==
    /\ flag' \in {IDLE, flag}
    /\ UNCHANGED <<image, meta, download>>

(* What the main thread does to the EEPROM: it reads.                        *)
LEMMA MainReadsOnly ==
    ASSUME Main
    PROVE  UNCHANGED <<image, flag, meta>>
BY DEF Main, eeprom, LeaveLoop, Dispatch,
       NotifyFailed, Ctrl_ota_send_request, AllSent,
       SetWaitAck, ReadRemaining, ReadEeprom,
       SendFrame, AckCheck, ResendChunk, Restart,
       Rewind

(* The interrupt clears READY with the outcome; it writes nothing else.      *)
LEMMA InterruptWithdrawsOnly ==
    ASSUME Ctrl_ota_handle_reply
    PROVE  flag' \in {IDLE, flag} /\ UNCHANGED <<image, meta>>
BY DEF Ctrl_ota_handle_reply, Unmoved, ReplyConfirm,
       ReplyErased, ReplyAck, ReplyReceived,
       ReplySuccess, ReplyCrcFail, ReplyCrcError,
       ReplyLenError, IDLE

LEMMA EepromFromTransfer ==
    ASSUME TransferStep
    PROVE  Withdrawn
<1>1. CASE Main
    BY <1>1, MainReadsOnly DEF TransferStep, Withdrawn
<1>2. CASE Ctrl_ota_handle_reply
    BY <1>2, InterruptWithdrawsOnly DEF TransferStep, Withdrawn
<1>3. CASE Elapse \/ Controller \/ CtlDamaged
              \/ LoseFrame \/ LoseReply
    BY <1>3 DEF TransferStep, Withdrawn, Elapse, Controller,
       CtlRequest, CtlData, CtlDamaged, LoseFrame,
       LoseReply, Unchanged_Module, eeprom
<1> QED
    BY <1>1, <1>2, <1>3 DEF TransferStep

(* Every step of the composition is one of the download's, or at most takes  *)
(* READY away.                                                               *)
LEMMA StepOfDownload ==
    ASSUME [PipelineNext]_pipeline
    PROVE  [Next]_vars \/ Withdrawn
<1>1. CASE AppFrame
    BY <1>1 DEF AppFrame, Next
<1>2. CASE TransferStep
    BY <1>2, EepromFromTransfer
<1>3. CASE PowerCycled
    BY <1>3 DEF PowerCycled, Next
<1>4. CASE UNCHANGED pipeline
    BY <1>4 DEF pipeline
<1> QED
    BY <1>1, <1>2, <1>3, <1>4 DEF PipelineNext

(* The promises of the download survive that READY is taken away: each is    *)
(* about a record that still stands, or does not mention the flag.           *)
LEMMA WithdrawnKeeps ==
    ASSUME IInv, Withdrawn
    PROVE  IInv'
<1> USE DEF IInv, Withdrawn, download
<1>1. TypeOK'
    BY DEF TypeOK
<1>2. flag' = READY => flag = READY
    BY DEF IDLE, READY
<1>3. Position' /\ AnnouncedLength' /\ NoDownloadUnderReady'
    BY <1>2 DEF Position, AnnouncedLength, NoDownloadUnderReady
<1>4. AckedIsStored' /\ RunningCrc'
    BY DEF AckedIsStored, RunningCrc
<1>5. Offered' => Offered
    BY <1>2 DEF Offered
<1>6. PromiseKept' /\ ReadyImage' /\ ReadyCrc'
    BY <1>5 DEF PromiseKept, ReadyImage, ReadyCrc
<1> QED
    BY <1>1, <1>3, <1>4, <1>6

LEMMA PipelineInvariance == PipelineSpec => []IInv
<1>1. PipelineInit => IInv
    BY InitIInv DEF PipelineInit
<1>2. IInv /\ [PipelineNext]_pipeline => IInv'
    BY StepOfDownload, NextIInv, WithdrawnKeeps
<1> QED
    BY <1>1, <1>2, PTL DEF PipelineSpec

(* READY stands over nothing but a whole announced file, also when a         *)
(* transfer runs beside the download, with any faults of wire and power.     *)
THEOREM OfferStaysWhole == PipelineSpec => []OfferIsWhole
<1>1. IInv => OfferIsWhole
    BY DEF IInv, OfferIsWhole
<1> QED
    BY <1>1, PipelineInvariance, PTL

(* The code kept with READY is the code of what is stored: what the          *)
(* transfer announces to the controller is what it will send, unless a       *)
(* download intervenes.                                                      *)
THEOREM OfferedCodeStaysStored == PipelineSpec => []ReadyCrc
<1>1. IInv => ReadyCrc
    BY DEF IInv
<1> QED
    BY <1>1, PipelineInvariance, PTL

(* The two stages together implement FirmwareSlot: the transfer adds only    *)
(* withdrawals.                                                              *)
THEOREM PipelineImplementsSlot == PipelineSpec => OfferIsStable
<1>1. PipelineInit => Slot!Init
    BY DEF PipelineInit, Init, Slot!Init, Slot!Empty, Offered, READY, IDLE
<1>2. IInv /\ IInv' /\ [PipelineNext]_pipeline => [Slot!Next]_OnOffer
    <2> SUFFICES ASSUME IInv, IInv', [PipelineNext]_pipeline
                 PROVE  [Slot!Next]_OnOffer
        OBVIOUS
    <2>1. CASE [Next]_vars
        BY <2>1, StepImplementsSlot
    <2>2. CASE Withdrawn
        <3>1. OnOffer' = OnOffer \/ OnOffer' = <<>>
            BY <2>2, OfferKeptOrWithdrawn DEF Withdrawn, download
        <3> QED
            BY <3>1 DEF Slot!Next, Slot!Withdraw, Slot!Empty, OnOffer
    <2> QED
        BY <2>1, <2>2, StepOfDownload
<1> QED
    BY <1>1, <1>2, PipelineInvariance, PTL DEF PipelineSpec, OfferIsStable, Slot!Spec, OnOffer

-----------------------------------------------------------------------------
(* The transfer's agreement with the boot loader, beside a download.         *)

(* What the transfer alone has of its invariant beside a download: all but   *)
(* that it rests only without READY.                                         *)
Agreement == CtrlOtaTypeOK /\ Sender /\ Queues

(* The kinds of step a transfer has here: none restarts it, none writes the  *)
(* image, and the file it sends stays the one announced.                     *)
LEMMA TransferKinds ==
    ASSUME CtrlOtaTypeOK, TransferStep
    PROVE  /\ Silent \/ Ctrl_ota_send_request \/ SendFrame \/ Ctrl_ota_handle_reply \/ External
           /\ CtrlOtaNext
           /\ image' = image /\ g'.file_length = g.file_length /\ g'.file_crc = g.file_crc
<1>1. Silent \/ Ctrl_ota_send_request \/ SendFrame \/ Ctrl_ota_handle_reply \/ External
    BY DEF TransferStep, Main, Silent, External
<1>2. CtrlOtaNext
    BY DEF TransferStep, CtrlOtaNext, Fault
<1>3. faults'.boot = faults.boot
  <2>1. CASE Main \/ Ctrl_ota_handle_reply \/ Controller
      BY <2>1 DEF Main, LeaveLoop, Dispatch, NotifyFailed, Ctrl_ota_send_request, AllSent,
         SetWaitAck, ReadRemaining, ReadEeprom, SendFrame, AckCheck, ResendChunk, Restart,
         Rewind, Ctrl_ota_handle_reply, Unmoved, ReplyConfirm, ReplyErased, ReplyAck,
         ReplyReceived, ReplySuccess, ReplyCrcFail, ReplyCrcError, ReplyLenError, Controller,
         CtlRequest, CtlData
  <2>2. CASE Elapse \/ CtlDamaged \/ LoseFrame \/ LoseReply
      BY <2>2 DEF Elapse, CtlDamaged, LoseFrame, LoseReply, CtrlOtaTypeOK, Faults
  <2> QED
      BY <2>1, <2>2 DEF TransferStep
<1>4. ~PowerCycle
    BY <1>3 DEF PowerCycle, Restarted, CtrlOtaTypeOK, Faults
<1> QED
    BY <1>1, <1>2, <1>4, FileStands

(* The transfer's own agreement does not depend on what the download does. *)
LEMMA TransferKeepsAgreement ==
    ASSUME Agreement, TransferStep
    PROVE  Agreement'
<1> USE DEF Agreement
<1>1. CtrlOtaTypeOK'
    BY MainTypes, ReplyTypes, ExternalTypes DEF Sender, TransferStep, Fault
<1>2. Sender'
    BY TransferKinds, SenderStep
<1>3. Queues'
    BY TransferKinds, SilentQueues, RequestQueues, DataQueues, ReplyQueues, ExternalQueues
<1> QED
    BY <1>1, <1>2, <1>3

LEMMA FrameKeepsAgreement ==
    ASSUME Agreement, IInv', UNCHANGED transfer
    PROVE  Agreement'
<1>1. UNCHANGED <<g, elapsed, pc, local, told, tx, rx, ctl, faults>>
    BY DEF transfer
<1>2. CtrlOtaTypeOK'
    BY <1>1 DEF Agreement, CtrlOtaTypeOK, IInv, TypeOK
<1>3. Sender'
    BY <1>1 DEF Agreement, Sender, CtrlOtaPosition, Labels, EmptyInHand
<1>4. Queues'
    BY <1>1 DEF Agreement, Queues, Announced, FromStart, AfterFailure, FailureLast, NoAckYet,
       DataAfterRequests, EmptyAtEnd, Credit, Failed, HasRequest, Before, Taken, IsData, NumAcks
<1> QED
    BY <1>2, <1>3, <1>4 DEF Agreement

LEMMA PowerCycleKeepsAgreement ==
    ASSUME Agreement, IInv', PowerCycled
    PROVE  Agreement'
<1>1. /\ image' \in [1..Capacity -> Chunk] /\ flag' \in {READY, IDLE}
      /\ meta' \in [len : 0..Capacity, crc : SUBSET Chunk]
    BY DEF IInv, TypeOK
<1> QED
    BY <1>1, RestartedTypes, RestartedSender, RestartedQueues DEF Agreement, PowerCycled

(* Nothing is under way at the first power-on. *)
LEMMA InitAgreement == PipelineInit => Agreement
<1> SUFFICES ASSUME PipelineInit PROVE Agreement
    OBVIOUS
<1>1. IInv
    BY InitIInv DEF PipelineInit
<1>2. /\ g = [ state |-> "IDLE", file_length |-> 0, file_crc |-> CrcZero,
               sent_length |-> 0, eeprom_read_addr |-> 0 ]
      /\ pc = "loop" /\ tx = <<>> /\ rx = <<>> /\ local = NoLocals
      /\ ctl = [phase |-> "boot", len |-> 0, crc |-> CrcZero, buf |-> <<>>,
                installed |-> <<>>]
    BY DEF PipelineInit, Init, CtrlInit, READY, IDLE
<1>3. CtrlOtaTypeOK
  <2>1. g \in Context
      BY <1>2, Bounds DEF Context, CtrlOtaState, CrcZero
  <2>2. local \in Locals
      BY <1>2 DEF NoLocals, Locals, Data
  <2>3. /\ tx \in Seq(Frame) /\ Len(tx) = 0 /\ rx \in Seq(Cmd) /\ <<>> \in Seq(Chunk)
        /\ Len(tx) <= MaxWire
      BY <1>2, Bounds
  <2>4. ctl \in BootLoader
      BY <1>2, <2>3, Bounds DEF CrcZero, BootLoader
  <2>5. faults \in Faults
      BY DEF PipelineInit, Faults
  <2> QED
      BY <1>1, <2>1, <2>2, <2>3, <2>4, <2>5 DEF PipelineInit, CtrlOtaTypeOK, Told, Pc, IInv,
         TypeOK
<1>4. Sender
    BY <1>2 DEF Sender, CtrlOtaPosition, Labels, EmptyInHand
<1>5. Len(tx) = 0 /\ Len(rx) = 0 /\ Len(ctl.buf) = 0 /\ NumAcks(rx) = 0
    BY <1>2, NoAcks
<1>6. Queues
    BY <1>2, <1>5 DEF Queues, Announced, FromStart, AfterFailure, FailureLast, NoAckYet,
       DataAfterRequests, EmptyAtEnd, Credit, Failed, HasRequest
<1> QED
    BY <1>3, <1>4, <1>6 DEF Agreement

(* The agreement needs nothing of what is stored, nor of the record a boot   *)
(* finds.                                                                    *)
LEMMA AgreementInvariance == PipelineSpec => []Agreement
<1>1. PipelineInit => Agreement
    BY InitAgreement
<1>2. Agreement /\ IInv' /\ [PipelineNext]_pipeline => Agreement'
  <2> SUFFICES ASSUME Agreement, IInv', [PipelineNext]_pipeline PROVE Agreement'
      OBVIOUS
  <2>1. CASE AppFrame
      BY <2>1, FrameKeepsAgreement DEF AppFrame
  <2>2. CASE TransferStep
      BY <2>2, TransferKeepsAgreement
  <2>3. CASE PowerCycled
      BY <2>3, PowerCycleKeepsAgreement
  <2>4. CASE UNCHANGED pipeline
      BY <2>4, FrameKeepsAgreement DEF pipeline
  <2> QED
      BY <2>1, <2>2, <2>3, <2>4 DEF PipelineNext
<1> QED
    BY <1>1, <1>2, PipelineInvariance, PTL DEF PipelineSpec

(* The module counts no chunk the boot loader has not taken, whatever a      *)
(* download writes beneath the transfer, whatever record a torn write leaves *)
(* for the next boot, with any faults.                                       *)
THEOREM AckedBesideDownload == PipelineSpec => []AckedWasTaken
<1>1. Agreement => AckedWasTaken
  <2> SUFFICES ASSUME Agreement PROVE AckedWasTaken
      OBVIOUS
  <2>1. /\ g.sent_length \in Nat /\ g.file_length \in Nat /\ NumAcks(rx) \in Nat
        /\ Len(ctl.buf) \in Nat /\ g.sent_length <= g.file_length
      BY AcksFinite, Bounds DEF Agreement, CtrlOtaTypeOK, Context, BootLoader, Sender,
         CtrlOtaPosition
  <2> QED
      BY <2>1 DEF Agreement, Queues, Credit, AckedWasTaken
<1> QED
    BY <1>1, AgreementInvariance, PTL

(* Nor do they move the read address off the sent length or out of the file. *)
THEOREM PositionBesideDownload == PipelineSpec => []CtrlOtaPosition
<1>1. Agreement => CtrlOtaPosition
    BY DEF Agreement, Sender
<1> QED
    BY <1>1, AgreementInvariance, PTL

-----------------------------------------------------------------------------
(* What is installed.  The two stages share the image without a lock, so     *)
(* while the transfer of one file is under way its chunks may become those   *)
(* of another.  What no step of either changes is that the chunk at a place  *)
(* is the chunk some announced file has at that place; the file code then    *)
(* tells one file from every mixture, as long as chunks tell their place.    *)
PlacesTold ==
    \A f, h \in AppFile : \A i \in 1..Len(f), j \in 1..Len(h) : f[i] = h[j] => i = j

(* The announced files, and the file without chunks: nothing received, or    *)
(* nothing to send.                                                          *)
Files == AppFile \cup {<<>>}

(* c is what some announced file has at place i. *)
PlacedAt(c, i) == \E f \in AppFile : i \in 1..Len(f) /\ f[i] = c

(* The download: a packet accepted with room left carries the chunk of the   *)
(* place it is stored at.                                                    *)
Streams == appFile \in Files

SessionFile == \E f \in Files : ota.file_length = Len(f) /\ ota.file_crc = CrcOf(f)

InStep == ota.received_length < ota.file_length => ota.expected_seq = ota.received_length

StoredPlaced == \A i \in 1..ota.received_length : PlacedAt(image[i], i)

(* READY stands over an announced file, its length and its code. *)
OffersFile ==
    flag = READY =>
        \E f \in Files : /\ meta.len = Len(f) /\ meta.crc = CrcOf(f)
                         /\ \A i \in 1..Len(f) : image[i] = f[i]

DownloadInPlace == Streams /\ SessionFile /\ InStep /\ StoredPlaced /\ OffersFile

(* The files are sequences of chunks, and the empty one has the code zero. *)
LEMMA FilesFacts ==
    /\ Files \subseteq Seq(Chunk) /\ <<>> \in Files /\ Len(<<>>) = 0 /\ CrcOf(<<>>) = CrcZero
    /\ \A f \in Files : f \in AppFile \/ Len(f) = 0
<1>1. CrcOf(<<>>) = CrcZero
    BY CrcOfEmptyPrefix DEF CrcOf
<1>2. <<>> \in Seq(Chunk) /\ Len(<<>>) = 0 /\ AppFile \subseteq Seq(Chunk)
    BY BleOtaAssumption
<1> QED
    BY <1>1, <1>2 DEF Files

(* Placed chunks with the code of a file, no more of them than it has and    *)
(* none at a place before its own, are that file.                            *)
LEMMA PlacedIsFile ==
    ASSUME PlacesTold, NEW f \in Files, NEW n \in Nat, n <= Len(f), NEW s,
           CrcOfPrefix(s, n) = CrcOf(f),
           \A i \in 1..n : \E k \in 1..i : PlacedAt(s[i], k)
    PROVE  n = Len(f) /\ \A i \in 1..n : s[i] = f[i]
<1>0. f \in Seq(Chunk) /\ Len(f) \in Nat /\ (f \in AppFile \/ Len(f) = 0)
    BY FilesFacts
<1>1. CASE Len(f) = 0
    BY <1>1
<1>2. CASE f \in AppFile
  <2>1. \A i, j \in 1..Len(f) : f[i] = f[j] => i = j
      BY <1>2 DEF PlacesTold
  <2>2. ASSUME NEW j \in 1..Len(f) PROVE \E i \in 1..n : s[i] = f[j]
    <3>1. {i \in 1..Len(f) : f[i] = f[j]} = {j}
        BY <2>1
    <3>2. Cardinality({j}) % 2 = 1
      <4>1. Cardinality({j}) = 1
          BY FS_Singleton, Zenon
      <4> QED
          BY <4>1
    <3>3. f[j] \in CrcOf(f)
      <4>1. f[j] \in Chunk
          BY <1>0
      <4> QED
          BY <3>1, <3>2, <4>1, Zenon DEF CrcOf, CrcOfPrefix
    <3> DEFINE Occ == {i \in 1..n : s[i] = f[j]}
    <3>4. Cardinality(Occ) % 2 = 1
        BY <3>3 DEF CrcOfPrefix
    <3>5. Occ # {}
      <4> HIDE DEF Occ
      <4> SUFFICES ASSUME Occ = {} PROVE FALSE
          OBVIOUS
      <4>1. Cardinality(Occ) = 0
          BY FS_EmptySet
      <4> QED
          BY <3>4, <4>1
    <3> QED
        BY <3>5
  <2>3. \A j \in 1..Len(f) : PlacedAt(f[j], j)
      BY <1>2 DEF PlacedAt
  <2>4. \A c, i, j : PlacedAt(c, i) /\ PlacedAt(c, j) => i = j
      BY DEF PlacedAt, PlacesTold
  <2>5. n = Len(f)
    <3> SUFFICES ASSUME n < Len(f) PROVE FALSE
        BY <1>0
    <3>1. PICK i \in 1..n : s[i] = f[Len(f)]
        BY <1>0, <2>2
    <3>2. PICK k \in 1..i : PlacedAt(s[i], k)
        OBVIOUS
    <3>3. Len(f) \in 1..Len(f)
        BY <1>0
    <3>4. k = Len(f)
        BY <2>3, <2>4, <3>1, <3>2, <3>3
    <3> QED
        BY <1>0, <3>2, <3>4
  <2> DEFINE p == [i \in 1..n |-> CHOOSE k \in 1..i : PlacedAt(s[i], k)]
  <2>6. \A i \in 1..n : p[i] \in 1..i /\ PlacedAt(s[i], p[i])
      OBVIOUS
  <2> HIDE DEF p
  <2>7. \A i, j \in 1..n : s[i] = f[j] => p[i] = j
      BY <2>3, <2>4, <2>5, <2>6
  <2>8. Backwards(p, n) /\ Onto(p, n)
    <3>1. Backwards(p, n)
        BY <2>6 DEF Backwards
    <3>2. ASSUME NEW j \in 1..n PROVE \E i \in 1..n : p[i] = j
        BY <2>2, <2>5, <2>7
    <3> QED
        BY <3>1, <3>2 DEF Onto
  <2>9. \A i \in 1..n : p[i] = i
      BY <2>8, NothingMoves
  <2>10. ASSUME NEW i \in 1..n PROVE s[i] = f[i]
    <3>1. PICK j \in 1..n : s[j] = f[i]
        BY <2>2, <2>5
    <3>2. p[j] = i /\ p[j] = j
        BY <2>7, <2>9, <3>1
    <3> QED
        BY <3>1, <3>2
  <2> QED
      BY <2>5, <2>10
<1> QED
    BY <1>0, <1>1, <1>2

(* Each cell keeps its chunk or gets one of its own place. *)
WritesPlaced == \A i \in 1..Capacity : image'[i] = image[i] \/ PlacedAt(image'[i], i)

(* A packet accepted: the chunk it leaves in the EEPROM is in its place, and *)
(* with the code of the session's file the file is complete.                 *)
LEMMA StoredInPlace ==
    ASSUME IInv, DownloadInPlace, ota.state = "RECEIVING",
           NEW k \in 0..(Len(appFile) - 1), k = ota.expected_seq,
           image' = ImageWith(appFile[k + 1])
    PROVE  /\ WritesPlaced
           /\ flag = READY => image' = image
           /\ \A i \in 1..Stored(appFile[k + 1]).received_length : PlacedAt(image'[i], i)
<1> DEFINE chunk == appFile[k + 1]
<1>1. chunk \in Chunk
    BY StreamInStep
<1>2. appFile \in AppFile /\ k + 1 \in 1..Len(appFile)
  <2>1. appFile \in Seq(Chunk) /\ Len(appFile) \in Nat
      BY DEF IInv, TypeOK
  <2> QED
      BY <2>1, FilesFacts DEF DownloadInPlace, Streams, Files
<1>3. PlacedAt(chunk, k + 1)
    BY <1>2 DEF PlacedAt
<1> HIDE DEF chunk
<1>4. /\ ota.received_length \in Nat /\ ota.eeprom_addr = ota.received_length
      /\ ota.received_length <= ota.file_length /\ ota.file_length <= Capacity
      /\ ota.file_length \in Nat /\ ota.expected_seq \in Nat /\ Capacity \in Nat
    BY BleOtaAssumption DEF IInv, TypeOK, OtaContext, Position
<1>5. /\ Stored(chunk).received_length = ota.received_length + ValidLen
      /\ \A i \in 1..Capacity : i # ota.eeprom_addr + 1 => ImageWith(chunk)[i] = image[i]
      /\ ValidLen = 1 => ImageWith(chunk)[ota.eeprom_addr + 1] = chunk
      /\ ValidLen = 0 => ImageWith(chunk) = image
      /\ flag = READY => ImageWith(chunk) = image
    BY <1>1, StoredFacts, OfferUntouched
<1>6. CASE ValidLen = 0
    BY <1>4, <1>5, <1>6 DEF WritesPlaced, DownloadInPlace, StoredPlaced, chunk
<1>7. CASE ValidLen = 1
  <2>1. k = ota.received_length
      BY <1>4, <1>7 DEF ValidLen, DownloadInPlace, InStep
  <2>2. PlacedAt(image'[ota.received_length + 1], ota.received_length + 1)
      BY <1>3, <1>4, <1>5, <1>7, <2>1 DEF chunk
  <2>3. WritesPlaced
      BY <1>4, <1>5, <2>2 DEF WritesPlaced, chunk
  <2>4. ASSUME NEW i \in 1..(ota.received_length + 1) PROVE PlacedAt(image'[i], i)
    <3>1. CASE i = ota.received_length + 1
        BY <2>2, <3>1
    <3>2. CASE i # ota.received_length + 1
      <4>1. i \in 1..ota.received_length /\ i \in 1..Capacity
          BY <1>4, <3>2
      <4>2. image'[i] = image[i]
          BY <1>4, <1>5, <3>2, <4>1 DEF chunk
      <4> QED
          BY <4>1, <4>2 DEF DownloadInPlace, StoredPlaced
    <3> QED
        BY <3>1, <3>2
  <2> QED
      BY <1>4, <1>5, <1>7, <2>3, <2>4 DEF chunk
<1>8. ValidLen \in {0, 1}
    BY DEF ValidLen
<1> QED
    BY <1>6, <1>7, <1>8

(* When the code agrees with the one announced, what is stored is the file.  *)
LEMMA CompleteIsFile ==
    ASSUME PlacesTold, IInv, DownloadInPlace, ota.state = "RECEIVING",
           NEW k \in 0..(Len(appFile) - 1), k = ota.expected_seq,
           image' = ImageWith(appFile[k + 1]),
           Stored(appFile[k + 1]).running_crc = ota.file_crc
    PROVE  \E f \in Files : /\ ota.file_length = Len(f) /\ ota.file_crc = CrcOf(f)
                            /\ \A i \in 1..Len(f) : image'[i] = f[i]
<1> DEFINE chunk == appFile[k + 1]
           n == ota.received_length + ValidLen
<1>1. PICK f \in Files : ota.file_length = Len(f) /\ ota.file_crc = CrcOf(f)
    BY DEF DownloadInPlace, SessionFile
<1>2. chunk \in Chunk /\ (ota.file_length > 0 => NextCrc(chunk) = CrcOfPrefix(image', n))
    BY StreamInStep
<1>3. /\ Stored(chunk).running_crc = NextCrc(chunk) /\ Stored(chunk).received_length = n
      /\ n <= ota.file_length /\ n \in Nat /\ ota.file_length \in Nat
  <2>1. Capacity \in Nat /\ ota.file_length \in 0..Capacity
      BY BleOtaAssumption DEF IInv, TypeOK, OtaContext
  <2>2. /\ Stored(chunk).running_crc = NextCrc(chunk)
        /\ Stored(chunk).received_length = ota.received_length + ValidLen
        /\ Stored(chunk).received_length \in 0..Capacity
        /\ Stored(chunk).received_length <= ota.file_length
      BY <1>2, StoredFacts
  <2> QED
      BY <2>1, <2>2
<1>4. \A i \in 1..n : PlacedAt(image'[i], i)
    BY <1>3, StoredInPlace
<1>5. CASE ota.file_length = 0
  <2>1. \A i \in 1..Len(f) : image'[i] = f[i]
      BY <1>1, <1>5
  <2> QED
      BY <1>1, <2>1
<1>6. CASE ota.file_length > 0
  <2>1. CrcOfPrefix(image', n) = CrcOf(f)
      BY <1>1, <1>2, <1>3, <1>6
  <2> DEFINE s == image'
  <2>2. \A i \in 1..n : \E j \in 1..i : PlacedAt(s[i], j)
    <3> TAKE i \in 1..n
    <3>1. i \in 1..i /\ PlacedAt(s[i], i)
        BY <1>3, <1>4
    <3> QED
        BY <3>1
  <2> HIDE DEF n, s
  <2>3. n = Len(f) /\ \A i \in 1..n : s[i] = f[i]
    <3>1. CrcOfPrefix(s, n) = CrcOf(f)
        BY <2>1 DEF s
    <3> QED
        BY <1>1, <1>3, <2>2, <3>1, PlacedIsFile
  <2> QED
      BY <1>1, <2>3 DEF s
<1> QED
    BY <1>3, <1>5, <1>6

(* A context without a length, as a session leaves it. *)
LEMMA ClosedInPlace ==
    ASSUME DownloadInPlace, ota' = OtaZero, appFile' \in Files, OffersFile'
    PROVE  DownloadInPlace'
BY FilesFacts DEF DownloadInPlace, Streams, SessionFile, InStep, StoredPlaced, OtaZero

(* An application frame keeps all this, and writes chunks in their places.   *)
LEMMA FrameInPlace ==
    ASSUME PlacesTold, IInv, DownloadInPlace, AppFrame
    PROVE  DownloadInPlace' /\ WritesPlaced
<1>0. appFile \in Files /\ AppFile \subseteq Files
    BY DEF DownloadInPlace, Streams, Files
<1>1. ASSUME NEW f \in AppFile, OtaHandleStartRequest(f)
      PROVE  DownloadInPlace' /\ WritesPlaced
  <2>1. image' = image /\ appFile' = f
      BY <1>1 DEF OtaHandleStartRequest, StartIgnored, StartRejected, StartAccepted
  <2>2. WritesPlaced
      BY <2>1 DEF WritesPlaced
  <2>3. CASE StartIgnored(f)
    <3>1. UNCHANGED <<ota, image, flag, meta>>
        BY <2>3 DEF StartIgnored
    <3>2. appFile' \in Files
        BY <1>0, <2>1
    <3>3. Streams' /\ SessionFile' /\ InStep' /\ StoredPlaced' /\ OffersFile'
        BY <3>1, <3>2 DEF DownloadInPlace, Streams, SessionFile, InStep, StoredPlaced, OffersFile
    <3> QED
        BY <2>2, <3>3 DEF DownloadInPlace
  <2>4. CASE StartRejected(f)
    <3>1. ota' = OtaZero /\ flag' # READY
        BY <2>4 DEF StartRejected, READY, IDLE
    <3> QED
        BY <1>0, <2>1, <2>2, <3>1, ClosedInPlace DEF OffersFile
  <2>5. CASE StartAccepted(f)
    <3>1. ota' = OpenSession(Len(f), CrcOf(f)) /\ flag' # READY
        BY <2>5 DEF StartAccepted, READY, IDLE
    <3> QED
        BY <1>0, <2>1, <2>2, <3>1 DEF OpenSession, DownloadInPlace, Streams, SessionFile, InStep,
           StoredPlaced, OffersFile
  <2> QED
      BY <1>1, <2>3, <2>4, <2>5 DEF OtaHandleStartRequest
<1>2. ASSUME NEW k \in 0..(Len(appFile) - 1), NEW ok \in BOOLEAN, OtaHandleDataPacket(k, ok)
      PROVE  DownloadInPlace' /\ WritesPlaced
  <2> DEFINE chunk == appFile[k + 1]
  <2>0. ota.state = "RECEIVING"
      BY <1>2 DEF OtaHandleDataPacket
  <2>1. CASE DataRefused(k, ok)
    <3>1. UNCHANGED <<image, flag, meta, appFile>>
        BY <2>1 DEF DataRefused
    <3>2. OffersFile' /\ WritesPlaced
        BY <3>1 DEF DownloadInPlace, OffersFile, WritesPlaced
    <3>3. CASE ota' = OtaZero
        BY <1>0, <3>1, <3>2, <3>3, ClosedInPlace
    <3>4. CASE ota' = [ota EXCEPT !.resend_count = @ + 1]
      <4>1. /\ ota'.file_length = ota.file_length /\ ota'.file_crc = ota.file_crc
            /\ ota'.received_length = ota.received_length
            /\ ota'.expected_seq = ota.expected_seq
          BY <3>4 DEF IInv, TypeOK, OtaContext
      <4> QED
          BY <3>1, <3>2, <4>1 DEF DownloadInPlace, Streams, SessionFile, InStep, StoredPlaced
    <3> QED
        BY <2>1, <3>3, <3>4 DEF DataRefused, Resend
  <2>2. CASE k = ota.expected_seq /\ DataStored(chunk)
    <3>1. /\ ota' = Stored(chunk) /\ image' = ImageWith(chunk)
          /\ UNCHANGED <<flag, meta, appFile>>
        BY <2>2 DEF DataStored
    <3>2. /\ WritesPlaced /\ (flag = READY => image' = image)
          /\ \A i \in 1..ota'.received_length : PlacedAt(image'[i], i)
        BY <2>0, <2>2, <3>1, StoredInPlace
    <3>3. /\ ota'.file_length = ota.file_length /\ ota'.file_crc = ota.file_crc
          /\ ota'.received_length = ota.received_length + ValidLen
          /\ ota'.expected_seq = ota.expected_seq + 1
        BY <3>1 DEF Stored
    <3>4. InStep'
      <4>1. /\ ota.received_length \in Nat /\ ota.file_length \in Nat
            /\ ota.expected_seq \in Nat
          BY BleOtaAssumption DEF IInv, TypeOK, OtaContext
      <4> QED
          BY <3>3, <4>1 DEF DownloadInPlace, InStep, ValidLen
    <3>5. Streams' /\ SessionFile' /\ StoredPlaced' /\ OffersFile'
        BY <3>1, <3>2, <3>3 DEF DownloadInPlace, Streams, SessionFile, StoredPlaced, OffersFile
    <3> QED
        BY <3>2, <3>4, <3>5 DEF DownloadInPlace
  <2>3. CASE k = ota.expected_seq /\ DataMismatch(chunk)
    <3>1. /\ ota' = OtaZero /\ image' = ImageWith(chunk) /\ UNCHANGED <<flag, meta, appFile>>
        BY <2>3 DEF DataMismatch
    <3>2. WritesPlaced /\ (flag = READY => image' = image)
        BY <2>0, <2>3, <3>1, StoredInPlace
    <3>3. OffersFile'
        BY <3>1, <3>2 DEF DownloadInPlace, OffersFile
    <3> QED
        BY <1>0, <3>1, <3>2, <3>3, ClosedInPlace
  <2>4. CASE k = ota.expected_seq /\ DataComplete(chunk)
    <3>1. /\ ota' = OtaZero /\ image' = ImageWith(chunk) /\ UNCHANGED appFile
          /\ Stored(chunk).running_crc = ota.file_crc
          /\ meta'.len = ota.file_length /\ meta'.crc = ota.file_crc
        BY <2>4 DEF DataComplete, Ctrl_ota_setota_readyflag
    <3>2. WritesPlaced
        BY <2>0, <2>4, <3>1, StoredInPlace
    <3>3. OffersFile'
        BY <2>0, <2>4, <3>1, CompleteIsFile DEF OffersFile
    <3> QED
        BY <1>0, <3>1, <3>2, <3>3, ClosedInPlace
  <2> QED
      BY <1>2, <2>1, <2>2, <2>3, <2>4 DEF OtaHandleDataPacket
<1>3. ASSUME NEW valid \in BOOLEAN, OtaPackageRetry(valid) \/ OtaEraseRetry(valid)
      PROVE  DownloadInPlace' /\ WritesPlaced
  <2>1. UNCHANGED <<image, flag, meta, appFile>>
      BY <1>3 DEF OtaPackageRetry, OtaEraseRetry
  <2>2. OffersFile' /\ Streams' /\ WritesPlaced
      BY <2>1 DEF DownloadInPlace, OffersFile, Streams, WritesPlaced
  <2>3. CASE ota' = OpenSession(ota.file_length, ota.file_crc)
      BY <2>1, <2>2, <2>3 DEF OpenSession, DownloadInPlace, SessionFile, InStep, StoredPlaced
  <2>4. CASE ota' = ota \/ ota' = [ota EXCEPT !.state = "IDLE"]
    <3>1. /\ ota'.file_length = ota.file_length /\ ota'.file_crc = ota.file_crc
          /\ ota'.received_length = ota.received_length
          /\ ota'.expected_seq = ota.expected_seq
        BY <2>4 DEF IInv, TypeOK, OtaContext
    <3> QED
        BY <2>1, <2>2, <3>1 DEF DownloadInPlace, SessionFile, InStep, StoredPlaced
  <2> QED
      BY <1>3, <2>3, <2>4 DEF OtaPackageRetry, OtaEraseRetry
<1> QED
    BY <1>1, <1>2, <1>3 DEF AppFrame

(* So does a power loss that leaves no torn record: what it does to a cell,  *)
(* it does below no READY.                                                   *)
LEMMA PowerLossInPlace ==
    ASSUME IInv, DownloadInPlace, PowerLoss, ~torn'
    PROVE  DownloadInPlace'
<1>0. appFile \in Files
    BY DEF DownloadInPlace, Streams
<1>1. ota' = OtaZero /\ appFile' = appFile
    BY DEF PowerLoss, Reboot, PowerLossInWrite, PowerLossInRecord
<1>2. OffersFile'
  <2>1. CASE Reboot
      BY <2>1 DEF Reboot, DownloadInPlace, OffersFile
  <2>2. ASSUME NEW junk \in Chunk, PowerLossInWrite(junk) PROVE OffersFile'
    <3>1. UNCHANGED <<flag, meta>> /\ (flag = READY => image' = image)
        BY <2>2, OfferUntouched DEF PowerLossInWrite
    <3> QED
        BY <3>1 DEF DownloadInPlace, OffersFile
  <2>3. ASSUME NEW k \in 0..(Len(appFile) - 1), PowerLossInRecord(k) PROVE OffersFile'
      BY <2>3 DEF PowerLossInRecord, OffersFile
  <2> QED
      BY <2>1, <2>2, <2>3 DEF PowerLoss
<1> QED
    BY <1>0, <1>1, <1>2, ClosedInPlace


-----------------------------------------------------------------------------
(* The transfer: it has announced the length and the code of some announced  *)
(* file, and what it reads, sends and has sent are chunks of the places up   *)
(* to the one that is due.                                                   *)
SendsAnnounced == \E f \in Files : g.file_length = Len(f) /\ g.file_crc = CrcOf(f)

ReadsPlaced == \A i \in 1..g.file_length : PlacedAt(image[i], i)

(* The data of a frame: a chunk of such a place, unless it lies past the end. *)
Brings(data) ==
    \E k \in 1..(g.sent_length + 1) :
        k <= g.file_length => data = <<>> \/ \E c \in Chunk : data = <<c>> /\ PlacedAt(c, k)

InHandPlaced == pc = "send" => Brings(local.data)

OnWirePlaced == \A i \in 1..Len(tx) : IsData(i) /\ Taken(i) => Brings(tx[i].data)

BufferPlaced ==
    ctl.phase = "recv" =>
        \A i \in 1..Len(ctl.buf) : i <= ctl.len => \E k \in 1..i : PlacedAt(ctl.buf[i], k)

TransferInPlace ==
    /\ SendsAnnounced /\ ReadsPlaced /\ CodeAnnounced /\ InHandPlaced /\ OnWirePlaced
    /\ BufferPlaced /\ InstalledWasAnnounced

(* What is brought stays brought while the transfer moves on. *)
LEMMA BringsOn ==
    ASSUME NEW data, Brings(data), g.sent_length \in Nat, g'.sent_length \in Nat,
           g'.sent_length >= g.sent_length, g'.file_length = g.file_length
    PROVE  \E k \in 1..(g'.sent_length + 1) :
              k <= g'.file_length =>
                 data = <<>> \/ \E c \in Chunk : data = <<c>> /\ PlacedAt(c, k)
<1>1. PICK k \in 1..(g.sent_length + 1) :
         k <= g.file_length => data = <<>> \/ \E c \in Chunk : data = <<c>> /\ PlacedAt(c, k)
    BY DEF Brings
<1>2. k \in 1..(g'.sent_length + 1)
    OBVIOUS
<1> QED
    BY <1>1, <1>2

(* An application frame writes chunks in their places, under the transfer.   *)
LEMMA FrameUnderTransfer ==
    ASSUME CtrlOtaTypeOK, TransferInPlace, WritesPlaced, UNCHANGED transfer
    PROVE  TransferInPlace'
<1>1. UNCHANGED <<g, pc, local, tx, rx, ctl>>
    BY DEF transfer
<1>2. g.file_length \in 0..Capacity
    BY DEF CtrlOtaTypeOK, Context
<1>3. ReadsPlaced'
    BY <1>1, <1>2, Bounds DEF TransferInPlace, ReadsPlaced, WritesPlaced
<1>4. SendsAnnounced' /\ CodeAnnounced' /\ InHandPlaced'
    BY <1>1 DEF TransferInPlace, SendsAnnounced, CodeAnnounced, InHandPlaced, Brings
<1>5. OnWirePlaced' /\ BufferPlaced' /\ InstalledWasAnnounced'
    BY <1>1 DEF TransferInPlace, OnWirePlaced, Brings, IsData, Taken, BufferPlaced, InstalledWasAnnounced
<1> QED
    BY <1>3, <1>4, <1>5 DEF TransferInPlace

(* The main thread between two frames reads the chunk that is due. *)
LEMMA SilentPlaced ==
    ASSUME Agreement, TransferInPlace, TransferStep, Silent
    PROVE  TransferInPlace'
<1> USE DEF TransferInPlace, Agreement, Sender
<1>1. /\ UNCHANGED <<tx, rx, ctl, image>>
      /\ g'.file_length = g.file_length /\ g'.file_crc = g.file_crc
    BY SilentStep, TransferKinds
<1>2. g.sent_length \in Nat /\ g.file_length \in Nat /\ g.file_length <= Capacity
    BY Bounds DEF CtrlOtaTypeOK, Context
<1>3. /\ SendsAnnounced' /\ ReadsPlaced' /\ CodeAnnounced' /\ BufferPlaced'
      /\ InstalledWasAnnounced'
    BY <1>1 DEF SendsAnnounced, ReadsPlaced, CodeAnnounced, BufferPlaced, InstalledWasAnnounced
<1>4. InHandPlaced'
  <2>1. CASE ReadEeprom
    <3>1. PICK c \in At(g.eeprom_read_addr) :
              local' = [local EXCEPT !.data = IF local.chunk = 1 THEN <<c>> ELSE <<>>]
        BY <2>1 DEF ReadEeprom
    <3>2. g' = g /\ local'.data \in {<<>>, <<c>>}
        BY <2>1, <3>1 DEF ReadEeprom, CtrlOtaTypeOK, Locals
    <3> DEFINE k == g.sent_length + 1
    <3>3. k <= g.file_length => c \in Chunk /\ PlacedAt(c, k)
        BY <1>2, <3>1, Bounds DEF At, CtrlOtaPosition, ReadsPlaced, CtrlOtaTypeOK
    <3>4. k \in 1..(g'.sent_length + 1)
        BY <1>2, <3>2
    <3> HIDE DEF k
    <3> QED
        BY <3>2, <3>3, <3>4 DEF InHandPlaced, Brings
  <2>2. CASE Elapse
      BY <1>1, <2>2 DEF Elapse, main, InHandPlaced, Brings
  <2>3. CASE ~ReadEeprom /\ ~Elapse
    <3>1. pc' # "send"
        BY <2>3 DEF Silent, LeaveLoop, Dispatch, NotifyFailed, AllSent, SetWaitAck,
           ReadRemaining, AckCheck, ResendChunk, Restart, Rewind, Goto, main
    <3> QED
        BY <3>1 DEF InHandPlaced
  <2> QED
      BY <2>1, <2>2, <2>3
<1>5. OnWirePlaced'
  <2>1. \A i \in 1..Len(tx) : Taken(i)' = Taken(i) /\ IsData(i)' = IsData(i)
      BY <1>1 DEF Taken, IsData
  <2>2. CASE g'.sent_length = g.sent_length
      BY <1>1, <2>1, <2>2 DEF OnWirePlaced, Brings
  <2>3. CASE pc = "rewind"
    <3>1. \A i \in 1..Len(tx) : ~Taken(i)
        BY <2>3 DEF Queues, AfterFailure, Failed, Taken, HasRequest, CtrlOtaTypeOK
    <3> QED
        BY <1>1, <2>1, <3>1 DEF OnWirePlaced
  <2> QED
      BY <2>2, <2>3, SilentStep
<1> QED
    BY <1>3, <1>4, <1>5

(* A request announces the length and the code. *)
LEMMA RequestPlaced ==
    ASSUME Agreement, TransferInPlace, Ctrl_ota_send_request
    PROVE  TransferInPlace'
<1> DEFINE f == [kind |-> "request", len |-> g.file_length, crc |-> g.file_crc]
<1> USE DEF TransferInPlace, Agreement
<1>1. /\ UNCHANGED <<image, g, rx, ctl>> /\ pc' = "loop" /\ tx' = Append(tx, f)
    BY DEF Ctrl_ota_send_request, eeprom, Goto
<1>2. f \in Frame /\ f.kind = "request" /\ f.crc = g.file_crc
    BY FrameTypes DEF CtrlOtaTypeOK, Context
<1> HIDE DEF f
<1>3. /\ SendsAnnounced' /\ ReadsPlaced' /\ InHandPlaced' /\ BufferPlaced'
      /\ InstalledWasAnnounced'
    BY <1>1 DEF SendsAnnounced, ReadsPlaced, InHandPlaced, BufferPlaced, InstalledWasAnnounced
<1>4. CodeAnnounced'
  <2> SUFFICES ASSUME NEW i \in 1..Len(tx'), tx'[i].kind = "request"
               PROVE  tx'[i].crc = g.file_crc
      BY <1>1 DEF CodeAnnounced
  <2>1. CASE i = Len(tx) + 1
      BY <1>1, <1>2, <2>1, FrameJoins
  <2>2. CASE i # Len(tx) + 1
    <3>1. i \in 1..Len(tx) /\ tx'[i] = tx[i]
        BY <1>1, <1>2, <2>2, FrameJoins
    <3> QED
        BY <3>1 DEF CodeAnnounced
  <2> QED
      BY <2>1, <2>2
<1>5. OnWirePlaced'
  <2> SUFFICES ASSUME NEW i \in 1..Len(tx'), IsData(i)', Taken(i)'
               PROVE  Brings(tx[i].data)'
      BY DEF OnWirePlaced
  <2>1. i # Len(tx) + 1
      BY <1>1, <1>2, FrameJoins DEF IsData
  <2>2. i \in 1..Len(tx) /\ tx'[i] = tx[i] /\ IsData(i) /\ Taken(i)
      BY <1>1, <1>2, <2>1, FrameJoins
  <2> QED
      BY <1>1, <2>2 DEF OnWirePlaced, Brings
<1> QED
    BY <1>3, <1>4, <1>5

(* A data frame carries what was in hand. *)
LEMMA DataPlaced ==
    ASSUME Agreement, TransferInPlace, SendFrame
    PROVE  TransferInPlace'
<1> DEFINE f == [kind |-> "data", more |-> local.more, data |-> local.data]
<1> USE DEF TransferInPlace, Agreement
<1>1. /\ UNCHANGED <<image, g, rx, ctl>> /\ pc = "send" /\ pc' = "loop"
      /\ tx' = Append(tx, f)
    BY DEF SendFrame, eeprom
<1>2. f \in Frame /\ f.kind = "data" /\ f.data = local.data
    BY FrameTypes DEF CtrlOtaTypeOK, Locals
<1> HIDE DEF f
<1>3. /\ SendsAnnounced' /\ ReadsPlaced' /\ InHandPlaced' /\ BufferPlaced'
      /\ InstalledWasAnnounced'
    BY <1>1 DEF SendsAnnounced, ReadsPlaced, InHandPlaced, BufferPlaced, InstalledWasAnnounced
<1>4. CodeAnnounced'
  <2> SUFFICES ASSUME NEW i \in 1..Len(tx'), tx'[i].kind = "request"
               PROVE  tx'[i].crc = g.file_crc
      BY <1>1 DEF CodeAnnounced
  <2>1. i # Len(tx) + 1
      BY <1>1, <1>2, FrameJoins
  <2>2. i \in 1..Len(tx) /\ tx'[i] = tx[i]
      BY <1>1, <1>2, <2>1, FrameJoins
  <2> QED
      BY <2>2 DEF CodeAnnounced
<1>5. OnWirePlaced'
  <2> SUFFICES ASSUME NEW i \in 1..Len(tx'), IsData(i)', Taken(i)'
               PROVE  Brings(tx[i].data)'
      BY DEF OnWirePlaced
  <2>1. CASE i = Len(tx) + 1
    <3>1. tx'[i].data = local.data /\ Brings(local.data)
        BY <1>1, <1>2, <2>1, FrameJoins DEF InHandPlaced
    <3> QED
        BY <1>1, <3>1 DEF Brings
  <2>2. CASE i # Len(tx) + 1
    <3>1. i \in 1..Len(tx) /\ tx'[i] = tx[i] /\ IsData(i) /\ Taken(i)
        BY <1>1, <1>2, <2>2, FrameJoins
    <3> QED
        BY <1>1, <3>1 DEF OnWirePlaced, Brings
  <2> QED
      BY <2>1, <2>2
<1> QED
    BY <1>3, <1>4, <1>5

(* The interrupt only moves on. *)
LEMMA ReplyPlaced ==
    ASSUME Agreement, TransferInPlace, TransferStep, Ctrl_ota_handle_reply
    PROVE  TransferInPlace'
<1> USE DEF TransferInPlace, Agreement
<1>1. /\ UNCHANGED <<tx, ctl, pc, image>>
      /\ g'.file_length = g.file_length /\ g'.file_crc = g.file_crc
    BY ReplyStep, TransferKinds
<1>2. g'.sent_length \in Nat /\ g'.sent_length >= g.sent_length /\ g.sent_length \in Nat
  <2>1. g.sent_length \in Nat
      BY Bounds DEF CtrlOtaTypeOK, Context
  <2> QED
      BY <2>1, ReplyStep, ChunkLenType
<1>3. /\ SendsAnnounced' /\ ReadsPlaced' /\ CodeAnnounced' /\ BufferPlaced'
      /\ InstalledWasAnnounced'
    BY <1>1 DEF SendsAnnounced, ReadsPlaced, CodeAnnounced, BufferPlaced, InstalledWasAnnounced
<1>4. InHandPlaced'
  <2>1. local'.data = local.data
      BY DEF Ctrl_ota_handle_reply, ReplyConfirm, ReplyErased, ReplyAck, ReplyReceived,
         ReplySuccess, ReplyCrcFail, ReplyCrcError, ReplyLenError, CtrlOtaTypeOK, Locals
  <2> SUFFICES ASSUME pc = "send" PROVE Brings(local.data)'
      BY <1>1 DEF InHandPlaced
  <2> DEFINE d == local.data
  <2>2. Brings(d) /\ local'.data = d
      BY <2>1 DEF InHandPlaced
  <2> HIDE DEF d
  <2>3. \E k \in 1..(g'.sent_length + 1) :
           k <= g'.file_length => d = <<>> \/ \E c \in Chunk : d = <<c>> /\ PlacedAt(c, k)
      BY <1>1, <1>2, <2>2, BringsOn
  <2> QED
      BY <2>2, <2>3 DEF Brings
<1>5. OnWirePlaced'
  <2> SUFFICES ASSUME NEW i \in 1..Len(tx), IsData(i), Taken(i) PROVE Brings(tx[i].data)'
      BY <1>1 DEF OnWirePlaced, IsData, Taken
  <2> DEFINE d == tx[i].data
  <2>1. Brings(d)
      BY DEF OnWirePlaced
  <2> HIDE DEF d
  <2>2. \E k \in 1..(g'.sent_length + 1) :
           k <= g'.file_length => d = <<>> \/ \E c \in Chunk : d = <<c>> /\ PlacedAt(c, k)
      BY <1>1, <1>2, <2>1, BringsOn
  <2> QED
      BY <1>1, <2>2 DEF Brings, d
<1> QED
    BY <1>3, <1>4, <1>5

(* A frame leaves the wire: of the others, none is taken that was not.       *)
LEMMA GonePlaced ==
    ASSUME CtrlOtaTypeOK, TransferInPlace, tx # <<>>, tx' = Tail(tx), UNCHANGED <<image, g, pc, local>>,
           \A i \in 1..Len(tx') : Taken(i)' => Taken(i + 1)
    PROVE  /\ SendsAnnounced' /\ ReadsPlaced' /\ InHandPlaced' /\ OnWirePlaced'
           /\ \A i \in 1..Len(tx') : tx'[i].kind = "request" => tx'[i].crc = g.file_crc
<1> USE DEF TransferInPlace
<1>1. SendsAnnounced' /\ ReadsPlaced' /\ InHandPlaced'
    BY DEF SendsAnnounced, ReadsPlaced, InHandPlaced, Brings
<1>2. \A i \in 1..Len(tx') : tx'[i].kind = "request" => tx'[i].crc = g.file_crc
    BY FramePopped DEF CodeAnnounced
<1>3. OnWirePlaced'
  <2> SUFFICES ASSUME NEW i \in 1..Len(tx'), IsData(i)', Taken(i)' PROVE Brings(tx[i].data)'
      BY DEF OnWirePlaced
  <2>1. i + 1 \in 1..Len(tx) /\ tx'[i] = tx[i + 1] /\ IsData(i + 1) /\ Taken(i + 1)
      BY FramePopped
  <2> QED
      BY <2>1 DEF OnWirePlaced, Brings
<1> QED
    BY <1>1, <1>2, <1>3

(* A data frame that is taken brings a chunk of a place up to its own,       *)
(* because the module is not ahead of the boot loader.                       *)
LEMMA GrownPlaced ==
    ASSUME Agreement, TransferInPlace, Arrives("data"), ctl.phase = "recv",
           NEW buf,
           buf = IF Len(ctl.buf) > ctl.len THEN ctl.buf ELSE ctl.buf \o Head(tx).data
    PROVE  /\ buf \in Seq(Chunk)
           /\ \A i \in 1..Len(buf) : i <= ctl.len => \E k \in 1..i : PlacedAt(buf[i], k)
<1> USE DEF TransferInPlace, Agreement
<1>1. /\ ctl.buf \in Seq(Chunk) /\ tx # <<>> /\ Head(tx) \in Frame /\ Head(tx).kind = "data"
      /\ Head(tx) = tx[1] /\ 1 \in 1..Len(tx)
    BY Popped, QueueTypes DEF CtrlOtaTypeOK, BootLoader, Arrives
<1>2. Head(tx).data \in Data
    BY <1>1 DEF Frame, Data
<1>3. IsData(1) /\ Taken(1)
    BY <1>1 DEF IsData, Taken
<1>4. PICK k \in 1..(g.sent_length + 1) :
         k <= g.file_length =>
            Head(tx).data = <<>> \/ \E c \in Chunk : Head(tx).data = <<c>> /\ PlacedAt(c, k)
    BY <1>1, <1>3 DEF OnWirePlaced, Brings
<1>5. /\ g.sent_length <= Len(ctl.buf) /\ ctl.len = g.file_length
      /\ g.sent_length \in Nat /\ g.file_length \in Nat /\ Len(ctl.buf) \in Nat
  <2>1. ~Before
      BY <1>1, <1>3 DEF Queues, DataAfterRequests
  <2>2. /\ g.sent_length \in Nat /\ g.file_length \in Nat /\ NumAcks(rx) \in Nat
        /\ Len(ctl.buf) \in Nat /\ g.sent_length <= g.file_length
      BY <1>1, AcksFinite, Bounds DEF CtrlOtaTypeOK, Context, Sender, CtrlOtaPosition
  <2>3. \/ g.sent_length + NumAcks(rx) <= Len(ctl.buf)
        \/ g.file_length <= Len(ctl.buf)
      BY <2>1 DEF Queues, Credit, Before
  <2> QED
      BY <2>2, <2>3 DEF Queues, Announced
<1>6. \A i \in 1..Len(ctl.buf) : i <= ctl.len => \E j \in 1..i : PlacedAt(ctl.buf[i], j)
    BY DEF BufferPlaced
<1>7. CASE buf = ctl.buf
    BY <1>1, <1>6, <1>7
<1>8. CASE buf # ctl.buf
  <2>1. Head(tx).data # <<>> /\ buf = ctl.buf \o Head(tx).data
      BY <1>1, <1>8, ConcatEmptySeq
  <2>2. PICK c \in Chunk : Head(tx).data = <<c>>
      BY <1>2, <2>1 DEF Data
  <2>3. /\ buf \in Seq(Chunk) /\ Len(buf) = Len(ctl.buf) + 1
        /\ \A i \in 1..Len(ctl.buf) : buf[i] = ctl.buf[i]
        /\ buf[Len(ctl.buf) + 1] = c
    <3> DEFINE old == ctl.buf
    <3>1. old \in Seq(Chunk) /\ buf = old \o <<c>>
        BY <1>1, <2>1, <2>2
    <3> HIDE DEF old
    <3>2. /\ Append(old, c) = old \o <<c>> /\ Len(Append(old, c)) = Len(old) + 1
          /\ Append(old, c) \in Seq(Chunk)
          /\ \A i \in 1..Len(old) : Append(old, c)[i] = old[i]
          /\ Append(old, c)[Len(old) + 1] = c
        BY <3>1
    <3>3. buf = Append(old, c)
        BY <3>1, <3>2
    <3> QED
        BY <3>2, <3>3 DEF old
  <2>4. ASSUME Len(ctl.buf) + 1 <= ctl.len
        PROVE  k \in 1..(Len(ctl.buf) + 1) /\ PlacedAt(c, k)
    <3>1. k \in 1..(Len(ctl.buf) + 1) /\ k <= g.file_length
        BY <1>5, <2>4
    <3>2. PICK d \in Chunk : <<c>> = <<d>> /\ PlacedAt(d, k)
        BY <1>4, <2>1, <2>2, <3>1
    <3>3. c = d
        BY <3>2
    <3> QED
        BY <3>1, <3>2, <3>3
  <2> SUFFICES ASSUME NEW i \in 1..Len(buf), i <= ctl.len
               PROVE  \E j \in 1..i : PlacedAt(buf[i], j)
      BY <2>3
  <2>5. CASE i = Len(ctl.buf) + 1
      BY <2>3, <2>4, <2>5
  <2>6. CASE i # Len(ctl.buf) + 1
    <3>1. i \in 1..Len(ctl.buf)
      <4>1. Len(buf) = Len(ctl.buf) + 1 /\ Len(ctl.buf) \in Nat
          BY <1>5, <2>3
      <4>2. i \in 1..(Len(ctl.buf) + 1)
          BY <4>1, Zenon
      <4>3. \A m \in Nat : \A j \in 1..(m + 1) : j # m + 1 => j \in 1..m
          OBVIOUS
      <4> QED
          BY <2>6, <4>1, <4>2, <4>3, Zenon
    <3>2. buf[i] = ctl.buf[i]
        BY <2>3, <3>1
    <3> QED
        BY <1>6, <3>1, <3>2
  <2> QED
      BY <2>5, <2>6
<1> QED
    BY <1>7, <1>8

(* What the boot loader verifies is an announced file. *)
LEMMA OnlyAnAnnouncedFile ==
    ASSUME PlacesTold, Agreement, TransferInPlace, ctl.phase = "recv",
           NEW buf \in Seq(Chunk), Verified(buf),
           \A i \in 1..Len(buf) : i <= ctl.len => \E k \in 1..i : PlacedAt(buf[i], k)
    PROVE  buf \in Files
<1>1. PICK f \in Files : g.file_length = Len(f) /\ g.file_crc = CrcOf(f)
    BY DEF TransferInPlace, SendsAnnounced
<1>2. f \in Seq(Chunk) /\ Len(f) \in Nat
    BY FilesFacts
<1>3. ctl.len = Len(f) /\ ctl.crc = CrcOf(f)
    BY <1>1 DEF TransferInPlace, CodeAnnounced, Agreement, Queues, Announced
<1>4. Len(buf) = Len(f) /\ CrcOfPrefix(buf, Len(f)) = CrcOf(f)
    BY <1>3 DEF Verified, CrcOf
<1>5. \A i \in 1..Len(f) : \E k \in 1..i : PlacedAt(buf[i], k)
    BY <1>2, <1>3, <1>4
<1>6. \A i \in 1..Len(f) : buf[i] = f[i]
    BY <1>2, <1>4, <1>5, PlacedIsFile
<1>7. buf = f
    BY <1>2, <1>4, <1>6
<1> QED
    BY <1>7

(* The boot loader installs nothing else. *)
LEMMA ExternalPlaced ==
    ASSUME PlacesTold, Agreement, TransferInPlace, External
    PROVE  TransferInPlace'
<1> USE DEF TransferInPlace
<1>0. /\ UNCHANGED <<image, g, pc, local>>
      /\ CtrlOtaTypeOK /\ rx \in Seq(Cmd) /\ tx \in Seq(Frame) /\ ctl \in BootLoader
    BY DEF External, Controller, CtlRequest, CtlData, CtlDamaged, LoseFrame, LoseReply,
       Unchanged_Module, main, eeprom, Agreement, CtrlOtaTypeOK
<1>1. ASSUME tx # <<>>, tx' = Tail(tx),
             UNCHANGED ctl \/ ctl' = [ctl EXCEPT !.phase = "stuck"]
      PROVE  TransferInPlace'
  <2>1. /\ ctl'.phase = "recv" => ctl' = ctl
        /\ ctl'.installed = ctl.installed
      BY <1>0, <1>1 DEF BootLoader
  <2>2. \A i \in 1..Len(tx') : Taken(i)' => Taken(i + 1)
      BY <1>0, <1>1, <2>1, FramePopped DEF Taken
  <2>3. /\ SendsAnnounced' /\ ReadsPlaced' /\ InHandPlaced' /\ OnWirePlaced'
        /\ \A i \in 1..Len(tx') : tx'[i].kind = "request" => tx'[i].crc = g.file_crc
      BY <1>0, <1>1, <2>2, GonePlaced
  <2>4. CodeAnnounced' /\ BufferPlaced' /\ InstalledWasAnnounced'
      BY <1>0, <2>1, <2>3 DEF CodeAnnounced, BufferPlaced, InstalledWasAnnounced
  <2> QED
      BY <2>3, <2>4
<1>2. CASE CtlRequest
  <2>1. tx # <<>> /\ tx' = Tail(tx) /\ Head(tx).kind = "request"
      BY <1>2 DEF CtlRequest, Arrives
  <2>2. CASE ctl.phase = "stuck" \/ Head(tx).len \in RefusedLen
      BY <1>1, <1>2, <2>1, <2>2 DEF CtlRequest
  <2>3. CASE ctl.phase # "stuck" /\ Head(tx).len \notin RefusedLen
    <3>1. ctl' = [ctl EXCEPT !.phase = "recv", !.len = Head(tx).len, !.crc = Head(tx).crc,
                             !.buf = <<>>]
        BY <1>2, <2>3 DEF CtlRequest
    <3>2. /\ ctl'.phase = "recv" /\ ctl'.crc = Head(tx).crc
          /\ ctl'.installed = ctl.installed /\ ctl'.buf = <<>> /\ Len(ctl'.buf) = 0
        BY <1>0, <3>1 DEF BootLoader
    <3>3. \A i \in 1..Len(tx') : Taken(i + 1)
      <4> TAKE i \in 1..Len(tx')
      <4>1. 1 \in 1..((i + 1) - 1) /\ tx[1].kind = "request"
          BY <1>0, <2>1, FramePopped
      <4> QED
          BY <4>1 DEF Taken
    <3>4. /\ SendsAnnounced' /\ ReadsPlaced' /\ InHandPlaced' /\ OnWirePlaced'
          /\ \A i \in 1..Len(tx') : tx'[i].kind = "request" => tx'[i].crc = g.file_crc
        BY <1>0, <2>1, <3>3, GonePlaced
    <3>5. Head(tx).crc = g.file_crc
        BY <1>0, <2>1, FramePopped DEF CodeAnnounced
    <3>6. CodeAnnounced' /\ BufferPlaced' /\ InstalledWasAnnounced'
        BY <1>0, <3>2, <3>4, <3>5 DEF CodeAnnounced, BufferPlaced, InstalledWasAnnounced
    <3> QED
        BY <3>4, <3>6
  <2> QED
      BY <2>2, <2>3
<1>3. CASE CtlData
  <2>1. Arrives("data") /\ tx # <<>> /\ tx' = Tail(tx)
      BY <1>3 DEF CtlData, Arrives
  <2>2. CASE ctl.phase # "recv"
      BY <1>1, <1>3, <2>1, <2>2 DEF CtlData
  <2>3. CASE ctl.phase = "recv"
    <3> DEFINE buf == IF Len(ctl.buf) > ctl.len THEN ctl.buf ELSE ctl.buf \o Head(tx).data
    <3>1. /\ buf \in Seq(Chunk)
          /\ \A i \in 1..Len(buf) : i <= ctl.len => \E k \in 1..i : PlacedAt(buf[i], k)
        BY <2>1, <2>3, GrownPlaced
    <3>2. Verified(buf) => buf \in Files
      <4> HIDE DEF buf
      <4> QED
          BY <2>3, <3>1, OnlyAnAnnouncedFile
    <3>3. \/ ctl' = [ctl EXCEPT !.buf = buf]
          \/ ctl' = [ctl EXCEPT !.buf = buf, !.phase = "boot", !.installed = @]
          \/ /\ Verified(buf)
             /\ ctl' = [ctl EXCEPT !.buf = buf, !.phase = "boot", !.installed = buf]
        BY <1>3, <2>3 DEF CtlData
    <3> HIDE DEF buf
    <3>4. /\ ctl'.buf = buf /\ ctl'.len = ctl.len /\ ctl'.crc = ctl.crc
          /\ ctl'.installed = ctl.installed \/ ctl'.installed \in Files
        BY <1>0, <3>2, <3>3 DEF BootLoader
    <3>5. \A i \in 1..Len(tx') : Taken(i)' => Taken(i + 1)
        BY <2>3 DEF Taken
    <3>6. /\ SendsAnnounced' /\ ReadsPlaced' /\ InHandPlaced' /\ OnWirePlaced'
          /\ \A i \in 1..Len(tx') : tx'[i].kind = "request" => tx'[i].crc = g.file_crc
        BY <1>0, <2>1, <3>5, GonePlaced
    <3>7. CodeAnnounced'
        BY <1>0, <2>3, <3>4, <3>6 DEF CodeAnnounced
    <3>8. BufferPlaced' /\ InstalledWasAnnounced'
        BY <3>1, <3>4 DEF BufferPlaced, InstalledWasAnnounced, Files
    <3> QED
        BY <3>6, <3>7, <3>8
  <2> QED
      BY <2>2, <2>3
<1>4. CASE CtlDamaged \/ LoseFrame
    BY <1>1, <1>4 DEF CtlDamaged, LoseFrame, Arrives
<1>5. CASE LoseReply
  <2>1. UNCHANGED <<tx, ctl>>
      BY <1>5 DEF LoseReply
  <2>2. SendsAnnounced' /\ ReadsPlaced' /\ CodeAnnounced' /\ InHandPlaced'
      BY <1>0, <2>1 DEF SendsAnnounced, ReadsPlaced, CodeAnnounced, InHandPlaced, Brings
  <2>3. OnWirePlaced' /\ BufferPlaced' /\ InstalledWasAnnounced'
      BY <1>0, <2>1 DEF OnWirePlaced, Brings, IsData, Taken, BufferPlaced,
         InstalledWasAnnounced
  <2> QED
      BY <2>2, <2>3
<1> QED
    BY <1>2, <1>3, <1>4, <1>5 DEF External, Controller

LEMMA TransferPlaced ==
    ASSUME PlacesTold, Agreement, TransferInPlace, TransferStep
    PROVE  TransferInPlace'
BY TransferKinds, SilentPlaced, RequestPlaced, DataPlaced, ReplyPlaced, ExternalPlaced DEF Agreement

(* A boot announces the file on offer, or rests. *)
LEMMA PowerCyclePlaced ==
    ASSUME Agreement, TransferInPlace, OffersFile', Restarted
    PROVE  TransferInPlace'
<1>1. /\ tx' = <<>> /\ rx' = <<>> /\ pc' = "loop" /\ g' = CtrlInit(flag', meta')
      /\ ctl'.phase = "boot" /\ ctl'.installed = ctl.installed
    BY DEF Restarted, Agreement, CtrlOtaTypeOK, BootLoader
<1>2. SendsAnnounced' /\ ReadsPlaced'
  <2>1. CASE flag' = READY
    <3>1. PICK f \in Files : /\ meta'.len = Len(f) /\ meta'.crc = CrcOf(f)
                             /\ \A i \in 1..Len(f) : image'[i] = f[i]
        BY <2>1 DEF OffersFile
    <3>2. g'.file_length = Len(f) /\ g'.file_crc = CrcOf(f)
        BY <1>1, <2>1, <3>1 DEF CtrlInit
    <3>3. \A i \in 1..Len(f) : PlacedAt(f[i], i)
        BY FilesFacts DEF PlacedAt
    <3> QED
        BY <3>1, <3>2, <3>3 DEF SendsAnnounced, ReadsPlaced
  <2>2. CASE flag' # READY
    <3>1. g'.file_length = 0 /\ g'.file_crc = CrcZero
        BY <1>1, <2>2 DEF CtrlInit
    <3> QED
        BY <3>1, FilesFacts DEF SendsAnnounced, ReadsPlaced
  <2> QED
      BY <2>1, <2>2
<1>3. Len(tx') = 0
    BY <1>1
<1>4. CodeAnnounced' /\ InHandPlaced' /\ OnWirePlaced' /\ BufferPlaced'
    BY <1>1, <1>3 DEF CodeAnnounced, InHandPlaced, OnWirePlaced, BufferPlaced
<1>5. InstalledWasAnnounced'
    BY <1>1 DEF TransferInPlace, InstalledWasAnnounced
<1> QED
    BY <1>2, <1>4, <1>5 DEF TransferInPlace

-----------------------------------------------------------------------------
(* The inductive invariant of the two stages together.                       *)
PipelineIInv == PlacesTold /\ IInv /\ Agreement /\ DownloadInPlace /\ TransferInPlace

LEMMA InitPipelineIInv == PlacesTold /\ PipelineInit => PipelineIInv
<1> SUFFICES ASSUME PlacesTold, PipelineInit PROVE PipelineIInv
    OBVIOUS
<1>1. IInv /\ Agreement
    BY InitIInv, InitAgreement DEF PipelineInit
<1>2. /\ g.file_length = 0 /\ g.file_crc = CrcZero /\ pc = "loop" /\ tx = <<>>
      /\ ctl.phase = "boot" /\ ctl.installed = <<>>
      /\ ota = OtaZero /\ flag # READY /\ appFile = <<>>
    BY DEF PipelineInit, Init, CtrlInit, READY, IDLE
<1>3. DownloadInPlace
    BY <1>2, FilesFacts DEF DownloadInPlace, Streams, SessionFile, InStep, StoredPlaced,
       OffersFile, OtaZero
<1>4. SendsAnnounced /\ ReadsPlaced
    BY <1>2, FilesFacts DEF SendsAnnounced, ReadsPlaced
<1>5. Len(tx) = 0 /\ InstalledWasAnnounced
    BY <1>2 DEF InstalledWasAnnounced
<1>6. TransferInPlace
    BY <1>2, <1>4, <1>5 DEF TransferInPlace, CodeAnnounced, InHandPlaced, OnWirePlaced,
       BufferPlaced
<1> QED
    BY <1>1, <1>3, <1>6 DEF PipelineIInv

(* A flag that is only taken away leaves the download's part alone. *)
LEMMA WithdrawnInPlace ==
    ASSUME DownloadInPlace, Withdrawn
    PROVE  DownloadInPlace'
<1>1. /\ UNCHANGED <<image, meta, ota, appFile>>
      /\ flag' = READY => flag = READY
    BY DEF Withdrawn, download, READY, IDLE
<1> QED
    BY <1>1 DEF DownloadInPlace, Streams, SessionFile, InStep, StoredPlaced, OffersFile

LEMMA NextPipelineIInv ==
    ASSUME PipelineIInv, [PipelineNext]_pipeline, ~torn'
    PROVE  PipelineIInv'
<1> USE DEF PipelineIInv
<1>1. IInv'
    BY StepOfDownload, NextIInv, WithdrawnKeeps
<1>2. CASE AppFrame
  <2>1. UNCHANGED transfer
      BY <1>2 DEF AppFrame
  <2>2. DownloadInPlace' /\ WritesPlaced
      BY <1>2, FrameInPlace
  <2> QED
      BY <1>1, <2>1, <2>2, FrameKeepsAgreement, FrameUnderTransfer DEF Agreement
<1>3. CASE TransferStep
    BY <1>1, <1>3, EepromFromTransfer, WithdrawnInPlace, TransferKeepsAgreement, TransferPlaced
<1>4. CASE PowerCycled
  <2>1. DownloadInPlace'
      BY <1>4, PowerLossInPlace DEF PowerCycled
  <2>2. TransferInPlace'
      BY <1>4, <2>1, PowerCyclePlaced DEF PowerCycled, DownloadInPlace
  <2> QED
      BY <1>1, <1>4, <2>1, <2>2, PowerCycleKeepsAgreement
<1>5. CASE UNCHANGED pipeline
  <2>1. UNCHANGED transfer /\ UNCHANGED <<ota, image, flag, meta, appFile>>
      BY <1>5 DEF pipeline, vars
  <2>2. DownloadInPlace' /\ WritesPlaced
      BY <2>1 DEF DownloadInPlace, Streams, SessionFile, InStep, StoredPlaced, OffersFile, WritesPlaced
  <2> QED
      BY <1>1, <2>1, <2>2, FrameKeepsAgreement, FrameUnderTransfer DEF Agreement
<1> QED
    BY <1>2, <1>3, <1>4, <1>5 DEF PipelineNext

(* Nothing but a whole announced file is ever installed, although a download *)
(* may overwrite what the transfer is reading, under any late answers,       *)
(* losses, damage and power cycles - if chunks tell their place in their     *)
(* file and no power loss tears the nine bytes of the record.                *)
THEOREM OnlyAnnouncedInstalled ==
    PlacesTold /\ PipelineSpec /\ []~torn => []InstalledWasAnnounced
<1>1. PlacesTold /\ PipelineInit => PipelineIInv
    BY InitPipelineIInv
<1>2. PipelineIInv /\ [PipelineNext]_pipeline /\ (~torn)' => PipelineIInv'
    BY NextPipelineIInv
<1>3. PipelineIInv => InstalledWasAnnounced
    BY DEF PipelineIInv, TransferInPlace
<1> QED
    BY <1>1, <1>2, <1>3, PTL DEF PipelineSpec
=============================================================================
