---------------------------- MODULE BleOta_proofs ----------------------------
(***************************************************************************)
(* Proofs about the download stage, for every set of chunks, every set of  *)
(* files, every EEPROM size and every resend limit.                        *)
(*                                                                         *)
(* The argument.  None of the promises is inductive alone.  That a file on *)
(* offer is never touched needs NoDownloadUnderReady (a chunk is written   *)
(* only below a positive file_length, and such a context never coexists    *)
(* with READY); that it is complete when it is offered needs the agreement *)
(* of packet number, address and received length during the session        *)
(* (Position, AckedIsStored) and that the length in force is the announced *)
(* file's (AnnouncedLength).                                               *)
(***************************************************************************)
EXTENDS BleOta, FiniteSetTheorems, TLAPS

-----------------------------------------------------------------------------
(* The file code: what one update of the running code does. *)

(* Codes are sets of chunks.  About: the range of the running code in        *)
(* ble_ota.c, any 32-bit value.                                              *)
LEMMA CrcType ==
    ASSUME NEW s, NEW n, NEW crc \in SUBSET Chunk, NEW chunk \in Chunk
    PROVE  /\ CrcOfPrefix(s, n) \in SUBSET Chunk
           /\ CrcOf(s) \in SUBSET Chunk
           /\ CrcZero \in SUBSET Chunk
           /\ CrcUpdate(crc, chunk) \in SUBSET Chunk
BY DEF CrcOf, CrcOfPrefix, CrcZero, CrcUpdate

(* No chunk, code zero: OtaFileCrcReset is the code of the empty prefix.     *)
LEMMA CrcOfEmptyPrefix ==
    ASSUME NEW s
    PROVE  CrcOfPrefix(s, 0) = CrcZero
<1>1. \A c : {i \in 1..0 : s[i] = c} = {}
    OBVIOUS
<1>2. Cardinality({}) = 0
    BY FS_EmptySet
<1> QED
    BY <1>1, <1>2 DEF CrcOfPrefix, CrcZero

(* Writing chunk at place n+1 and updating the running code with it gives    *)
(* the code of the longer prefix: OtaFileCrcUpdate is incremental.           *)
LEMMA CrcOfNextPrefix ==
    ASSUME NEW s, NEW t, NEW n \in Nat, NEW chunk \in Chunk,
           \A i \in 1..n : s[i] = t[i], t[n + 1] = chunk
    PROVE  CrcOfPrefix(t, n + 1) = CrcUpdate(CrcOfPrefix(s, n), chunk)
<1> DEFINE Occ(c) == {i \in 1..n : s[i] = c}
           OccNext(c) == {i \in 1..(n + 1) : t[i] = c}
<1>1. \A c : IsFiniteSet(Occ(c)) /\ Cardinality(Occ(c)) \in Nat
    <2> TAKE c
    <2>1. IsFiniteSet(1..n)
        BY FS_Interval
    <2>2. Occ(c) \in SUBSET (1..n)
        OBVIOUS
    <2>3. IsFiniteSet(Occ(c))
        BY <2>1, <2>2, FS_Subset
    <2> QED
        BY <2>3, FS_CardinalityType
<1>2. \A c : c # chunk => OccNext(c) = Occ(c)
    OBVIOUS
<1>3. OccNext(chunk) = Occ(chunk) \cup {n + 1} /\ n + 1 \notin Occ(chunk)
    OBVIOUS
<1>4. Cardinality(OccNext(chunk)) = Cardinality(Occ(chunk)) + 1
    <2> HIDE DEF Occ, OccNext
    <2> QED
        BY <1>1, <1>3, FS_AddElement
<1>5. \A k \in Nat : (k + 1) % 2 = 1 <=> ~(k % 2 = 1)
    OBVIOUS
<1>6. Cardinality(OccNext(chunk)) % 2 = 1 <=> ~(Cardinality(Occ(chunk)) % 2 = 1)
    <2> HIDE DEF Occ, OccNext
    <2> QED
        BY <1>1, <1>4, <1>5
<1>7. CrcOfPrefix(s, n) = {c \in Chunk : Cardinality(Occ(c)) % 2 = 1}
    BY DEF CrcOfPrefix
<1>8. CrcOfPrefix(t, n + 1) = {c \in Chunk : Cardinality(OccNext(c)) % 2 = 1}
    BY DEF CrcOfPrefix
<1> DEFINE Before == CrcOfPrefix(s, n)
           After == CrcOfPrefix(t, n + 1)
<1>9. \A c \in Chunk : c \in After <=> (IF c = chunk THEN c \notin Before ELSE c \in Before)
    <2> SUFFICES ASSUME NEW c \in Chunk
                 PROVE  c \in After <=> (IF c = chunk THEN c \notin Before ELSE c \in Before)
        OBVIOUS
    <2> HIDE DEF Occ, OccNext
    <2>1. CASE c = chunk
        BY <1>6, <1>7, <1>8, <2>1, Zenon
    <2>2. CASE c # chunk
        BY <1>2, <1>7, <1>8, <2>2, Zenon
    <2> QED
        BY <2>1, <2>2
<1>10. Before \in SUBSET Chunk /\ After \in SUBSET Chunk
    BY CrcType
<1> HIDE DEF Before, After
<1>11. After = CrcUpdate(Before, chunk)
    BY <1>9, <1>10 DEF CrcUpdate
<1> QED
    BY <1>11 DEF Before, After

-----------------------------------------------------------------------------
(* The download *)

(* The context of a closed session and of one just opened are well typed.    *)
LEMMA ContextTypes ==
    ASSUME NEW len \in 0..Capacity, NEW crc \in SUBSET Chunk
    PROVE  OtaZero \in OtaContext /\ OpenSession(len, crc) \in OtaContext
<1>1. /\ 0 \in 0..Capacity /\ 0 \in 0..(MaxResend - 1) /\ 0 \in Nat
      /\ {} \in SUBSET Chunk
    BY BleOtaAssumption
<1> QED
    BY <1>1 DEF OtaZero, OpenSession, CrcZero, OtaContext, OtaState

(* In a session that has a length and room left, the next chunk fits in the  *)
(* EEPROM; when no room is left, nothing is written.                         *)
LEMMA ValidLenFacts ==
    ASSUME TypeOK, Position
    PROVE  /\ ValidLen \in {0, 1}
           /\ ValidLen = 1 => /\ ota.file_length > 0
                              /\ ota.eeprom_addr + 1 \in 1..Capacity
                              /\ ota.received_length + 1 <= ota.file_length
           /\ ValidLen = 0 => ota.received_length = ota.file_length
BY BleOtaAssumption DEF TypeOK, OtaContext, Position, ValidLen

(* What the handler of an accepted packet makes of the context and image.    *)
LEMMA StoredFacts ==
    ASSUME IInv, ota.state = "RECEIVING", NEW chunk \in Chunk
    PROVE  /\ Stored(chunk).state = "RECEIVING"
           /\ Stored(chunk).file_length = ota.file_length
           /\ Stored(chunk).file_crc = ota.file_crc
           /\ Stored(chunk).received_length = ota.received_length + ValidLen
           /\ Stored(chunk).eeprom_addr = ota.eeprom_addr + ValidLen
           /\ Stored(chunk).expected_seq = ota.expected_seq + 1
           /\ Stored(chunk).received_length \in 0..Capacity
           /\ Stored(chunk).received_length <= ota.file_length
           /\ Stored(chunk).running_crc = NextCrc(chunk)
           /\ Stored(chunk) \in OtaContext
           /\ ImageWith(chunk) \in [1..Capacity -> Chunk]
           /\ \A i \in 1..Capacity : i # ota.eeprom_addr + 1 => ImageWith(chunk)[i] = image[i]
           /\ ValidLen = 1 => ImageWith(chunk)[ota.eeprom_addr + 1] = chunk
           /\ ValidLen = 0 => ImageWith(chunk) = image
<1> USE DEF IInv
<1>1. TypeOK /\ Position
    OBVIOUS
<1>2. /\ ValidLen \in {0, 1}
      /\ ValidLen = 1 => /\ ota.eeprom_addr + 1 \in 1..Capacity
                         /\ ota.received_length + 1 <= ota.file_length
    BY ValidLenFacts
<1>3. NextCrc(chunk) \in SUBSET Chunk
    BY <1>1, CrcType DEF TypeOK, NextCrc, OtaContext
<1> HIDE DEF IInv
<1>4. /\ ImageWith(chunk) \in [1..Capacity -> Chunk]
      /\ \A i \in 1..Capacity : i # ota.eeprom_addr + 1 => ImageWith(chunk)[i] = image[i]
      /\ ValidLen = 1 => ImageWith(chunk)[ota.eeprom_addr + 1] = chunk
      /\ ValidLen = 0 => ImageWith(chunk) = image
    BY <1>1, <1>2 DEF ImageWith, TypeOK, OtaContext
<1>5. MaxResend \in Nat \ {0} /\ Capacity \in Nat \ {0}
    BY BleOtaAssumption
<1>6. /\ ota.received_length + ValidLen \in 0..Capacity
      /\ ota.eeprom_addr + ValidLen \in 0..Capacity
      /\ ota.received_length + ValidLen <= ota.file_length
    BY <1>1, <1>2, <1>5 DEF TypeOK, OtaContext, Position
<1>7. ota \in OtaContext
    BY <1>1 DEF TypeOK
<1>8. Stored(chunk) \in OtaContext
    <2>1. /\ ota.file_length \in 0..Capacity
          /\ ota.file_crc \in SUBSET Chunk /\ ota.expected_seq + 1 \in Nat
          /\ 0 \in 0..(MaxResend - 1)
        BY <1>5, <1>7 DEF OtaContext
    <2> QED
        BY <1>3, <1>6, <2>1 DEF Stored, OtaContext, OtaState
<1>9. /\ Stored(chunk).state = "RECEIVING"
      /\ Stored(chunk).file_length = ota.file_length
      /\ Stored(chunk).file_crc = ota.file_crc
      /\ Stored(chunk).received_length = ota.received_length + ValidLen
      /\ Stored(chunk).eeprom_addr = ota.eeprom_addr + ValidLen
      /\ Stored(chunk).expected_seq = ota.expected_seq + 1
      /\ Stored(chunk).running_crc = NextCrc(chunk)
    BY DEF Stored
<1> QED
    BY <1>4, <1>6, <1>8, <1>9

(* No chunk is written while a file is on offer.  About: EepromWrite at      *)
(* ble_ota.c:326 is reached only in a session opened with READY cleared.     *)
LEMMA OfferUntouched ==
    ASSUME IInv, ota.state = "RECEIVING", NEW chunk \in Chunk, flag = READY
    PROVE  ImageWith(chunk) = image
<1>1. ota.file_length = 0
    BY DEF IInv, NoDownloadUnderReady, TypeOK, OtaContext
<1>2. ValidLen \in {0, 1} /\ ~(ValidLen = 1)
    BY <1>1, ValidLenFacts DEF IInv
<1> QED
    BY <1>2, StoredFacts

(* The stream stays in step.  When packet expected_seq of the application's  *)
(* file is accepted, the running code is the code of what is stored, and as  *)
(* long as that file is the announced one the chunk lands at its own place.  *)
LEMMA StreamInStep ==
    ASSUME IInv, ota.state = "RECEIVING",
           NEW k \in 0..(Len(appFile) - 1), k = ota.expected_seq
    PROVE  /\ appFile[k + 1] \in Chunk
           /\ ota.file_length > 0 =>
                NextCrc(appFile[k + 1]) =
                    CrcOfPrefix(ImageWith(appFile[k + 1]), ota.received_length + ValidLen)
           /\ (ota.file_length > 0 /\ StillPure) =>
                /\ ota.received_length + ValidLen = ota.expected_seq + 1
                /\ ota.eeprom_addr + ValidLen = ota.expected_seq + 1
                /\ ota.expected_seq + 1 <= ota.file_length
                /\ \A i \in 1..(ota.expected_seq + 1) :
                        ImageWith(appFile[k + 1])[i] = announced[i]
<1> DEFINE chunk == appFile[k + 1]
<1>1. chunk \in Chunk
    <2>1. appFile \in Seq(Chunk) /\ Len(appFile) \in Nat
        BY DEF IInv, TypeOK
    <2>2. k + 1 \in 1..Len(appFile)
        BY <2>1
    <2> QED
        BY <2>1, <2>2
<1> HIDE DEF chunk
<1>2. /\ ota.received_length \in Nat /\ ota.eeprom_addr = ota.received_length
      /\ ota.received_length <= ota.file_length /\ ota.file_length <= Capacity
      /\ ota.file_length \in Nat /\ ota.expected_seq \in Nat /\ Capacity \in Nat
    BY BleOtaAssumption DEF IInv, TypeOK, OtaContext, Position
<1>3. /\ ValidLen \in {0, 1}
      /\ ValidLen = 1 => ota.received_length + 1 <= ota.file_length
      /\ ValidLen = 0 => ota.received_length = ota.file_length
    BY ValidLenFacts DEF IInv
<1>4. /\ \A i \in 1..Capacity : i # ota.eeprom_addr + 1 => ImageWith(chunk)[i] = image[i]
      /\ ValidLen = 1 => ImageWith(chunk)[ota.eeprom_addr + 1] = chunk
      /\ ValidLen = 0 => ImageWith(chunk) = image
    BY <1>1, StoredFacts
<1>5. ASSUME ota.file_length > 0
      PROVE  NextCrc(chunk) = CrcOfPrefix(ImageWith(chunk), ota.received_length + ValidLen)
    <2>1. ota.running_crc = CrcOfPrefix(image, ota.received_length)
        BY <1>5 DEF IInv, RunningCrc
    <2>2. CASE ValidLen = 0
        BY <1>2, <1>4, <2>1, <2>2 DEF NextCrc
    <2>3. CASE ValidLen = 1
        <3>1. \A i \in 1..ota.received_length : image[i] = ImageWith(chunk)[i]
            BY <1>2, <1>4
        <3>2. ImageWith(chunk)[ota.received_length + 1] = chunk
            BY <1>2, <1>4, <2>3
        <3>3. CrcOfPrefix(ImageWith(chunk), ota.received_length + 1) =
                 CrcUpdate(CrcOfPrefix(image, ota.received_length), chunk)
            BY <1>1, <1>2, <3>1, <3>2, CrcOfNextPrefix
        <3> QED
            BY <2>1, <2>3, <3>3 DEF NextCrc
    <2> QED
        BY <1>3, <2>2, <2>3
<1>6. ASSUME ota.file_length > 0, StillPure
      PROVE  /\ ota.received_length + ValidLen = ota.expected_seq + 1
             /\ ota.eeprom_addr + ValidLen = ota.expected_seq + 1
             /\ ota.expected_seq + 1 <= ota.file_length
             /\ \A i \in 1..(ota.expected_seq + 1) : ImageWith(chunk)[i] = announced[i]
    <2>1. pure /\ appFile = announced
        BY <1>6 DEF StillPure
    <2>2. /\ ota.received_length = ota.expected_seq
          /\ \A i \in 1..ota.expected_seq : image[i] = announced[i]
          /\ ota.file_length = Len(announced)
        BY <1>6, <2>1 DEF IInv, AckedIsStored, AnnouncedLength
    <2>3. k + 1 <= Len(appFile)
        BY <1>2, <2>1, <2>2
    <2>4. ValidLen = 1
        BY <1>2, <1>3, <2>1, <2>2, <2>3
    <2>5. chunk = announced[ota.expected_seq + 1]
        BY <2>1 DEF chunk
    <2>6. \A i \in 1..(ota.expected_seq + 1) : ImageWith(chunk)[i] = announced[i]
        <3> TAKE i \in 1..(ota.expected_seq + 1)
        <3>1. CASE i = ota.expected_seq + 1
            BY <1>2, <1>4, <2>2, <2>4, <2>5, <3>1
        <3>2. CASE i \in 1..ota.expected_seq
            BY <1>2, <1>4, <2>2, <3>2
        <3> QED
            BY <1>2, <3>1, <3>2
    <2> QED
        BY <1>2, <2>1, <2>2, <2>3, <2>4, <2>6
<1> QED
    BY <1>1, <1>5, <1>6 DEF chunk

-----------------------------------------------------------------------------
(* The initial states.                                                       *)
LEMMA InitIInv == Init => IInv
<1> SUFFICES ASSUME Init PROVE IInv
    OBVIOUS
<1>1. /\ Capacity \in Nat \ {0} /\ MaxResend \in Nat \ {0}
      /\ CrcZero \in SUBSET Chunk /\ <<>> \in Seq(Chunk) /\ 0 \in 0..Capacity
    BY BleOtaAssumption DEF CrcZero
<1>2. TypeOK
    <2>1. OtaZero \in OtaContext
        BY <1>1, ContextTypes
    <2> QED
        BY <1>1, <2>1 DEF Init, TypeOK, Reply, NoPromise
<1>3. Position /\ AnnouncedLength /\ AckedIsStored /\ RunningCrc /\ NoDownloadUnderReady
    BY DEF Init, OtaZero, Position, AnnouncedLength, AckedIsStored, RunningCrc,
           NoDownloadUnderReady
<1>4. PromiseKept /\ ReadyImage /\ ReadyCrc
    BY DEF Init, PromiseKept, ReadyImage, ReadyCrc, Offered, READY, IDLE
<1> QED
    BY <1>2, <1>3, <1>4 DEF IInv

(* A step that closes the session and leaves the EEPROM's offer alone or     *)
(* withdraws it: the rejected start, the final failure, the boot.            *)
LEMMA SessionClosed ==
    ASSUME IInv, ota' = OtaZero, image' \in [1..Capacity -> Chunk],
           flag = READY => image' = image,
           flag' \in {IDLE, flag}, meta' = meta, reply' \in Reply, appFile' \in Seq(Chunk),
           announced' = announced, pure' \in BOOLEAN, promise' = promise,
           torn' \in BOOLEAN, flag' = READY => torn' = torn
    PROVE  IInv'
<1>1. TypeOK'
    <2>1. 0 \in 0..Capacity /\ {} \in SUBSET Chunk
        BY BleOtaAssumption
    <2>2. ota' \in OtaContext
        BY <2>1, ContextTypes
    <2> QED
        BY <2>2 DEF IInv, TypeOK
<1>2. Position' /\ AnnouncedLength' /\ AckedIsStored' /\ RunningCrc' /\ NoDownloadUnderReady'
    BY DEF OtaZero, Position, AnnouncedLength, AckedIsStored, RunningCrc, NoDownloadUnderReady
<1>3. flag' = READY => flag = READY /\ image' = image
    BY DEF READY, IDLE
<1>4. PromiseKept' /\ ReadyImage' /\ ReadyCrc'
    BY <1>3 DEF IInv, PromiseKept, ReadyImage, ReadyCrc, Offered
<1> QED
    BY <1>1, <1>2, <1>4 DEF IInv

(* A session opened at the beginning of the stream, with READY off or with   *)
(* no length, for a file of that length.                                     *)
LEMMA SessionOpened ==
    ASSUME IInv, NEW len \in 0..Capacity, NEW crc \in SUBSET Chunk,
           ota' = OpenSession(len, crc), len > 0 => flag' # READY /\ len = Len(announced'),
           image' = image, flag' \in {IDLE, flag}, meta' = meta, reply' \in Reply,
           appFile' \in Seq(Chunk), announced' \in Seq(Chunk), pure' = TRUE,
           promise' = promise, torn' \in BOOLEAN, flag' = READY => torn' = torn
    PROVE  IInv'
<1>1. TypeOK'
    <2>1. ota' \in OtaContext
        BY ContextTypes
    <2> QED
        BY <2>1 DEF IInv, TypeOK
<1>2. Position' /\ AnnouncedLength' /\ AckedIsStored' /\ NoDownloadUnderReady'
    BY DEF OpenSession, Position, AnnouncedLength, AckedIsStored, NoDownloadUnderReady
<1>3. RunningCrc'
    BY CrcOfEmptyPrefix DEF OpenSession, RunningCrc
<1>4. flag' = READY => flag = READY
    BY DEF READY, IDLE
<1>5. PromiseKept' /\ ReadyImage' /\ ReadyCrc'
    BY <1>4 DEF IInv, PromiseKept, ReadyImage, ReadyCrc, Offered
<1> QED
    BY <1>1, <1>2, <1>3, <1>5 DEF IInv

(* The steps that touch neither the EEPROM nor the position in the stream.   *)
LEMMA StreamUnmoved ==
    ASSUME IInv, ota' \in OtaContext,
           ota'.state \in {"IDLE", ota.state},
           ota'.file_length = ota.file_length, ota'.file_crc = ota.file_crc,
           ota'.received_length = ota.received_length,
           ota'.eeprom_addr = ota.eeprom_addr, ota'.expected_seq = ota.expected_seq,
           ota'.running_crc = ota.running_crc,
           reply' \in Reply, appFile' \in Seq(Chunk),
           UNCHANGED <<image, flag, meta, announced, pure, promise, torn>>
    PROVE  IInv'
<1>1. TypeOK'
    BY DEF IInv, TypeOK
<1>2. Position' /\ AnnouncedLength' /\ NoDownloadUnderReady'
    BY DEF IInv, Position, AnnouncedLength, NoDownloadUnderReady
<1>3. ota'.state = "RECEIVING" => ota.state = "RECEIVING"
    OBVIOUS
<1>4. AckedIsStored' /\ RunningCrc'
    BY <1>3 DEF IInv, AckedIsStored, RunningCrc
<1>5. PromiseKept' /\ ReadyImage' /\ ReadyCrc'
    BY DEF IInv, PromiseKept, ReadyImage, ReadyCrc, Offered
<1> QED
    BY <1>1, <1>2, <1>4, <1>5 DEF IInv

(* A refused packet: OtaSendDataAck(RESEND), or the reset after the last try. *)
LEMMA DataRefusedKeeps ==
    ASSUME IInv, NEW k, NEW ok, DataRefused(k, ok)
    PROVE  IInv'
<1>1. image \in [1..Capacity -> Chunk] /\ appFile \in Seq(Chunk) /\ pure \in BOOLEAN
      /\ torn \in BOOLEAN
    BY DEF IInv, TypeOK
<1>2. CASE ota.resend_count + 1 >= MaxResend
    BY <1>1, <1>2, SessionClosed DEF DataRefused, Resend, Reply, history
<1>3. CASE ~(ota.resend_count + 1 >= MaxResend)
    <2>1. ota' = [ota EXCEPT !.resend_count = @ + 1] /\ reply' = "resend"
        BY <1>3 DEF DataRefused, Resend
    <2>2. ota \in OtaContext
        BY DEF IInv, TypeOK
    <2>3. ota.resend_count + 1 \in 0..(MaxResend - 1)
        BY <1>3, <2>2, BleOtaAssumption DEF OtaContext
    <2>4. ota' \in OtaContext
        BY <2>1, <2>2, <2>3 DEF OtaContext
    <2>5. /\ ota'.state = ota.state /\ ota'.file_length = ota.file_length
          /\ ota'.file_crc = ota.file_crc /\ ota'.received_length = ota.received_length
          /\ ota'.eeprom_addr = ota.eeprom_addr /\ ota'.expected_seq = ota.expected_seq
          /\ ota'.running_crc = ota.running_crc
        BY <2>1, <2>2 DEF OtaContext
    <2>6. reply' \in Reply /\ appFile' \in Seq(Chunk)
        BY <1>1, <2>1 DEF DataRefused, Reply
    <2>7. UNCHANGED <<image, flag, meta, announced, pure, promise, torn>>
        BY DEF DataRefused, history
    <2> QED
        BY <2>4, <2>5, <2>6, <2>7, StreamUnmoved
<1> QED
    BY <1>2, <1>3

(* A packet stored in mid-stream. *)
LEMMA DataStoredKeeps ==
    ASSUME IInv, ota.state = "RECEIVING",
           NEW k \in 0..(Len(appFile) - 1), k = ota.expected_seq,
           DataStored(appFile[k + 1])
    PROVE  IInv'
<1> DEFINE chunk == appFile[k + 1]
<1>1. chunk \in Chunk
    BY StreamInStep
<1>2. /\ ota' = Stored(chunk) /\ image' = ImageWith(chunk) /\ reply' = "continue"
      /\ pure' = StillPure
      /\ UNCHANGED <<flag, meta, appFile, announced, promise, torn>>
    BY DEF DataStored
<1>3. TypeOK'
    BY <1>1, <1>2, StoredFacts DEF IInv, TypeOK, Reply, StillPure
<1>4. /\ ota'.state = "RECEIVING" /\ ota'.file_length = ota.file_length
      /\ ota'.received_length = ota.received_length + ValidLen
      /\ ota'.eeprom_addr = ota.eeprom_addr + ValidLen
      /\ ota'.expected_seq = ota.expected_seq + 1
      /\ ota'.received_length <= ota.file_length
      /\ ota'.running_crc = NextCrc(chunk)
    BY <1>1, <1>2, StoredFacts
<1>5. Position' /\ AnnouncedLength' /\ NoDownloadUnderReady'
    BY <1>2, <1>4 DEF IInv, Position, AnnouncedLength, NoDownloadUnderReady
<1>6. AckedIsStored' /\ RunningCrc'
    BY <1>2, <1>4, StreamInStep DEF AckedIsStored, RunningCrc
<1>7. flag' = READY => flag = READY /\ image' = image
    BY <1>1, <1>2, OfferUntouched
<1>8. PromiseKept' /\ ReadyImage' /\ ReadyCrc'
    BY <1>2, <1>7 DEF IInv, PromiseKept, ReadyImage, ReadyCrc, Offered
<1> QED
    BY <1>3, <1>5, <1>6, <1>8 DEF IInv

(* The last packet, the file code in order: READY goes up over a whole file. *)
LEMMA DataCompleteKeeps ==
    ASSUME IInv, ota.state = "RECEIVING",
           NEW k \in 0..(Len(appFile) - 1), k = ota.expected_seq,
           ~(k + 1 < Len(appFile)), DataComplete(appFile[k + 1])
    PROVE  IInv'
<1> DEFINE chunk == appFile[k + 1]
<1>1. chunk \in Chunk
    BY StreamInStep
<1>2. /\ Stored(chunk).running_crc = ota.file_crc
      /\ ota' = OtaZero /\ image' = ImageWith(chunk) /\ reply' = "continue"
      /\ flag' = READY /\ meta' = [len |-> ota.file_length, crc |-> ota.file_crc]
      /\ promise' = [file |-> announced, pure |-> StillPure,
                     stored |-> Stored(chunk).received_length]
      /\ pure' = StillPure /\ torn' = FALSE
      /\ UNCHANGED <<appFile, announced>>
    BY DEF DataComplete, Ctrl_ota_setota_readyflag
<1>3. /\ Stored(chunk).running_crc = NextCrc(chunk)
      /\ Stored(chunk).received_length = ota.received_length + ValidLen
      /\ Stored(chunk).received_length \in 0..Capacity
      /\ Stored(chunk).received_length <= ota.file_length
      /\ ImageWith(chunk) \in [1..Capacity -> Chunk]
    BY <1>1, StoredFacts
<1>4. TypeOK'
    <2>1. OtaZero \in OtaContext
        BY ContextTypes, BleOtaAssumption, CrcZero \in SUBSET Chunk, 0 \in 0..Capacity
        DEF CrcZero
    <2>2. meta' \in [len : 0..Capacity, crc : SUBSET Chunk]
        BY <1>2 DEF IInv, TypeOK, OtaContext
    <2>3. promise' \in [file : Seq(Chunk), pure : BOOLEAN, stored : 0..Capacity]
        BY <1>2, <1>3 DEF IInv, TypeOK, StillPure
    <2> QED
        BY <1>2, <1>3, <2>1, <2>2, <2>3 DEF IInv, TypeOK, Reply, StillPure
<1>5. Position' /\ AnnouncedLength' /\ AckedIsStored' /\ RunningCrc' /\ NoDownloadUnderReady'
    BY <1>2 DEF OtaZero, Position, AnnouncedLength, AckedIsStored, RunningCrc,
                NoDownloadUnderReady
<1>6. meta'.len = ota.file_length /\ meta'.crc = ota.file_crc
    BY <1>2
<1>7. /\ promise'.file = announced /\ promise'.pure = StillPure
      /\ promise'.stored = ota.received_length + ValidLen
    BY <1>2, <1>3
<1>8. PromiseKept'
    BY <1>3, <1>6, <1>7 DEF PromiseKept, Offered
<1>9. ReadyCrc'
    BY <1>2, <1>3, <1>6, <1>7, StreamInStep DEF ReadyCrc, Offered
<1>10. ReadyImage'
    <2> SUFFICES ASSUME ota.file_length > 0, StillPure
                 PROVE  /\ ota.file_length = Len(announced)
                        /\ \A i \in 1..ota.file_length : ImageWith(chunk)[i] = announced[i]
        BY <1>2, <1>6, <1>7 DEF ReadyImage, Offered
    <2>1. ota.file_length = Len(announced) /\ appFile = announced
        BY DEF IInv, AnnouncedLength, StillPure
    <2>2. /\ ota.expected_seq + 1 <= ota.file_length
          /\ \A i \in 1..(ota.expected_seq + 1) : ImageWith(chunk)[i] = announced[i]
        BY StreamInStep
    <2>3. ota.expected_seq + 1 = ota.file_length
        BY <2>1, <2>2 DEF IInv, TypeOK, OtaContext
    <2> QED
        BY <2>1, <2>2, <2>3
<1> QED
    BY <1>4, <1>5, <1>8, <1>9, <1>10 DEF IInv

(* The last packet, the file code wrong: FAIL, and the context is reset.     *)
LEMMA DataMismatchKeeps ==
    ASSUME IInv, ota.state = "RECEIVING",
           NEW k \in 0..(Len(appFile) - 1), k = ota.expected_seq,
           DataMismatch(appFile[k + 1])
    PROVE  IInv'
<1>1. appFile[k + 1] \in Chunk
    BY StreamInStep
<1>2. /\ ImageWith(appFile[k + 1]) \in [1..Capacity -> Chunk]
      /\ flag = READY => ImageWith(appFile[k + 1]) = image
    BY <1>1, StoredFacts, OfferUntouched
<1>3. StillPure \in BOOLEAN /\ appFile \in Seq(Chunk) /\ torn \in BOOLEAN
    BY DEF StillPure, IInv, TypeOK
<1>4. /\ ota' = OtaZero /\ image' = ImageWith(appFile[k + 1]) /\ reply' = "fail"
      /\ pure' = StillPure /\ UNCHANGED <<flag, meta, appFile, announced, promise, torn>>
    BY DEF DataMismatch
<1> QED
    BY <1>2, <1>3, <1>4, SessionClosed DEF Reply

(* The start request. *)
LEMMA StartKeeps ==
    ASSUME IInv, NEW f \in AppFile, OtaHandleStartRequest(f)
    PROVE  IInv'
<1>1. f \in Seq(Chunk) /\ CrcOf(f) \in SUBSET Chunk
    BY BleOtaAssumption DEF CrcOf, CrcOfPrefix
<1>2. /\ ota \in OtaContext /\ pure \in BOOLEAN /\ announced \in Seq(Chunk)
      /\ image \in [1..Capacity -> Chunk] /\ reply \in Reply /\ torn \in BOOLEAN
    BY DEF IInv, TypeOK
<1>3. CASE StartIgnored(f)
    BY <1>1, <1>2, <1>3, StreamUnmoved DEF StartIgnored, history
<1>4. CASE StartRejected(f)
    BY <1>1, <1>2, <1>4, SessionClosed DEF StartRejected, Reply, IDLE, READY
<1>5. CASE StartAccepted(f)
    <2>1. Len(f) \in 0..Capacity
        BY <1>5, BleOtaAssumption DEF StartAccepted
    <2>2. IDLE # READY
        BY DEF IDLE, READY
    <2> QED
        BY <1>1, <1>2, <1>5, <2>1, <2>2, SessionOpened DEF StartAccepted, Reply
<1> QED
    BY <1>3, <1>4, <1>5 DEF OtaHandleStartRequest

(* The two retry commands. *)
LEMMA RetryKeeps ==
    ASSUME IInv, NEW valid \in BOOLEAN, OtaPackageRetry(valid) \/ OtaEraseRetry(valid)
    PROVE  IInv'
<1>1. /\ ota \in OtaContext /\ appFile \in Seq(Chunk) /\ announced \in Seq(Chunk)
      /\ torn \in BOOLEAN
    BY DEF IInv, TypeOK
<1>2. CASE OtaPackageRetry(valid) /\ valid
    <2>1. ota.file_length \in 0..Capacity /\ ota.file_crc \in SUBSET Chunk
        BY <1>1 DEF OtaContext
    <2>2. ota.file_length > 0 => flag # READY /\ ota.file_length = Len(announced)
        BY DEF IInv, NoDownloadUnderReady, AnnouncedLength
    <2> QED
        BY <1>1, <1>2, <2>1, <2>2, SessionOpened DEF OtaPackageRetry, Reply
<1>3. CASE OtaPackageRetry(valid) /\ ~valid
    BY <1>1, <1>3, StreamUnmoved DEF OtaPackageRetry, Reply
<1>4. CASE OtaEraseRetry(valid) /\ valid
    <2>1. ota' = [ota EXCEPT !.state = "IDLE"]
        BY <1>4 DEF OtaEraseRetry
    <2>2. ota' \in OtaContext
        BY <1>1, <2>1 DEF OtaContext, OtaState
    <2>3. /\ ota'.state = "IDLE" /\ ota'.file_length = ota.file_length
          /\ ota'.file_crc = ota.file_crc /\ ota'.received_length = ota.received_length
          /\ ota'.eeprom_addr = ota.eeprom_addr /\ ota'.expected_seq = ota.expected_seq
          /\ ota'.running_crc = ota.running_crc
        BY <1>1, <2>1 DEF OtaContext
    <2> QED
        BY <1>1, <1>4, <2>2, <2>3, StreamUnmoved DEF OtaEraseRetry, Reply, history
<1>5. CASE OtaEraseRetry(valid) /\ ~valid
    BY <1>1, <1>5, StreamUnmoved DEF OtaEraseRetry, Reply, history
<1> QED
    BY <1>2, <1>3, <1>4, <1>5

(* A power loss in the write of the record: nothing is on offer any more.    *)
LEMMA RecordTornKeeps ==
    ASSUME IInv, NEW k \in 0..(Len(appFile) - 1), PowerLossInRecord(k)
    PROVE  IInv'
<1>1. /\ ota.state = "RECEIVING" /\ k = ota.expected_seq
      /\ image' = ImageWith(appFile[k + 1]) /\ flag' \in {flag, READY}
      /\ meta' \in [len : {meta.len, ota.file_length}, crc : {meta.crc, ota.file_crc}]
      /\ torn' = (flag' = READY) /\ promise' = NoPromise
      /\ ota' = OtaZero /\ reply' = "none" /\ UNCHANGED <<appFile, announced, pure>>
    BY DEF PowerLossInRecord
<1>2. appFile[k + 1] \in Chunk
    BY <1>1, StreamInStep
<1>3. ImageWith(appFile[k + 1]) \in [1..Capacity -> Chunk]
    BY <1>1, <1>2, StoredFacts
<1>4. TypeOK'
    <2>1. 0 \in 0..Capacity /\ {} \in SUBSET Chunk
        BY BleOtaAssumption
    <2>2. ota' \in OtaContext
        BY <1>1, <2>1, ContextTypes
    <2>3. meta' \in [len : 0..Capacity, crc : SUBSET Chunk]
        BY <1>1 DEF IInv, TypeOK, OtaContext
    <2>4. promise' \in [file : Seq(Chunk), pure : BOOLEAN, stored : 0..Capacity]
        BY <1>1, <2>1 DEF NoPromise
    <2> QED
        BY <1>1, <1>3, <2>2, <2>3, <2>4 DEF IInv, TypeOK, Reply
<1>5. Position' /\ AnnouncedLength' /\ AckedIsStored' /\ RunningCrc' /\ NoDownloadUnderReady'
    BY <1>1 DEF OtaZero, Position, AnnouncedLength, AckedIsStored, RunningCrc,
                NoDownloadUnderReady
<1>6. PromiseKept' /\ ReadyImage' /\ ReadyCrc'
    BY <1>1 DEF PromiseKept, ReadyImage, ReadyCrc, Offered
<1> QED
    BY <1>4, <1>5, <1>6 DEF IInv

(* A power loss, between handlers, in the write of a chunk or of the record. *)
LEMMA PowerLossKeeps ==
    ASSUME IInv, PowerLoss
    PROVE  IInv'
<1>1. /\ image \in [1..Capacity -> Chunk] /\ appFile \in Seq(Chunk) /\ pure \in BOOLEAN
      /\ torn \in BOOLEAN
    BY DEF IInv, TypeOK
<1>2. CASE Reboot
    BY <1>1, <1>2, SessionClosed DEF Reboot, Reply, history
<1>3. ASSUME NEW junk \in Chunk, PowerLossInWrite(junk)
      PROVE  IInv'
    <2>1. ota.state = "RECEIVING" /\ image' = ImageWith(junk)
        BY <1>3 DEF PowerLossInWrite
    <2>2. /\ ImageWith(junk) \in [1..Capacity -> Chunk]
          /\ flag = READY => ImageWith(junk) = image
        BY <2>1, StoredFacts, OfferUntouched
    <2> QED
        BY <1>1, <1>3, <2>1, <2>2, SessionClosed DEF PowerLossInWrite, Reply, history
<1>4. ASSUME NEW k \in 0..(Len(appFile) - 1), PowerLossInRecord(k)
      PROVE  IInv'
    BY <1>4, RecordTornKeeps
<1> QED
    BY <1>2, <1>3, <1>4 DEF PowerLoss

(* Every step keeps the invariant. *)
LEMMA NextIInv ==
    ASSUME IInv, [Next]_vars
    PROVE  IInv'
<1>1. ASSUME NEW f \in AppFile, OtaHandleStartRequest(f)
      PROVE  IInv'
    BY <1>1, StartKeeps
<1>2. ASSUME NEW k \in 0..(Len(appFile) - 1), NEW ok \in BOOLEAN,
             OtaHandleDataPacket(k, ok)
      PROVE  IInv'
    BY <1>2, DataRefusedKeeps, DataStoredKeeps, DataCompleteKeeps, DataMismatchKeeps
    DEF OtaHandleDataPacket
<1>3. ASSUME NEW valid \in BOOLEAN, OtaPackageRetry(valid) \/ OtaEraseRetry(valid)
      PROVE  IInv'
    BY <1>3, RetryKeeps
<1>4. CASE PowerLoss
    BY <1>4, PowerLossKeeps
<1>5. CASE UNCHANGED vars
    BY <1>5 DEF vars, IInv, TypeOK, Position, AnnouncedLength, NoDownloadUnderReady,
                AckedIsStored, RunningCrc, PromiseKept, ReadyImage, ReadyCrc, Offered
<1> QED
    BY <1>1, <1>2, <1>3, <1>4, <1>5 DEF Next

(* The invariant holds at all times: between any two handlers, whatever the  *)
(* application sends and whenever the power fails.                           *)
THEOREM Invariance == Spec => []IInv
<1>1. Init => IInv
    BY InitIInv
<1>2. IInv /\ [Next]_vars => IInv'
    BY NextIInv
<1> QED
    BY <1>1, <1>2, PTL DEF Spec

(* Type correctness of the download stage. *)
THEOREM TypeCorrect == Spec => []TypeOK
<1>1. IInv => TypeOK
    BY DEF IInv
<1> QED
    BY <1>1, Invariance, PTL

(* A file on offer is whole and is the announced one: what the last packet's *)
(* READY says to the next boot, for files and EEPROMs of any size.           *)
THEOREM OfferedFileIsWhole == Spec => []ReadyImage
<1>1. IInv => ReadyImage
    BY DEF IInv
<1> QED
    BY <1>1, Invariance, PTL

(* The file code kept with READY is that of the chunks stored, even for an   *)
(* application that switches files in mid-stream.                            *)
THEOREM OfferedCodeIsStored == Spec => []ReadyCrc
<1>1. IInv => ReadyCrc
    BY DEF IInv
<1> QED
    BY <1>1, Invariance, PTL

(* No session with a length coexists with READY.                             *)
THEOREM ReadyExcludesDownload == Spec => []NoDownloadUnderReady
<1>1. IInv => NoDownloadUnderReady
    BY DEF IInv
<1> QED
    BY <1>1, Invariance, PTL

(* Every packet acknowledged with CONTINUE is in the EEPROM at its place.    *)
THEOREM AcknowledgedIsStored == Spec => []AckedIsStored
<1>1. IInv => AckedIsStored
    BY DEF IInv
<1> QED
    BY <1>1, Invariance, PTL

-----------------------------------------------------------------------------
(* The download implements FirmwareSlot.                                     *)

OnOffer == IF Offered THEN SubSeq(image, 1, meta.len) ELSE <<>>

(* What an EEPROM of Capacity chunks offers is a sequence of chunks.         *)
LEMMA OfferIsFile ==
    ASSUME NEW img \in [1..Capacity -> Chunk], NEW n \in 1..Capacity
    PROVE  SubSeq(img, 1, n) \in Seq(Chunk)
<1>1. Capacity \in Nat
    BY BleOtaAssumption
<1>2. img \in Seq(Chunk) /\ Len(img) = Capacity
    BY <1>1
<1> QED
    BY <1>1, <1>2

(* A step that keeps image while READY stands, and does not raise READY,     *)
(* keeps the offer or withdraws it.                                          *)
LEMMA OfferKeptOrWithdrawn ==
    ASSUME meta' = meta, flag' \in {IDLE, flag}, flag = READY => image' = image,
           flag' = READY => torn' = torn
    PROVE  OnOffer' = OnOffer \/ OnOffer' = <<>>
BY DEF OnOffer, Offered, READY, IDLE

(* A raised READY finds the slot empty: it was withdrawn when the session    *)
(* began, or the session has no length and offers nothing.                   *)
LEMMA OfferedIntoEmpty ==
    ASSUME IInv, NEW chunk, DataComplete(chunk)
    PROVE  OnOffer = <<>> \/ OnOffer' = <<>>
<1>1. meta'.len = ota.file_length
    BY DEF DataComplete, Ctrl_ota_setota_readyflag
<1>2. CASE ota.file_length > 0
    BY <1>2 DEF IInv, NoDownloadUnderReady, OnOffer, Offered
<1>3. CASE ~(ota.file_length > 0)
    BY <1>1, <1>3 DEF OnOffer, Offered
<1> QED
    BY <1>2, <1>3

(* Each action keeps, withdraws or, from an empty slot, makes an offer.      *)
LEMMA StepOfSlot ==
    ASSUME IInv, [Next]_vars
    PROVE  OnOffer' = OnOffer \/ OnOffer' = <<>> \/ OnOffer = <<>>
<1>1. ASSUME NEW f \in AppFile, OtaHandleStartRequest(f)
      PROVE  OnOffer' = OnOffer \/ OnOffer' = <<>>
    BY <1>1, OfferKeptOrWithdrawn
    DEF OtaHandleStartRequest, StartIgnored, StartRejected, StartAccepted, history,
        IDLE, READY
<1>2. ASSUME NEW k \in 0..(Len(appFile) - 1), NEW ok \in BOOLEAN,
             OtaHandleDataPacket(k, ok)
      PROVE  OnOffer' = OnOffer \/ OnOffer' = <<>> \/ OnOffer = <<>>
    <2>1. ota.state = "RECEIVING"
        BY <1>2 DEF OtaHandleDataPacket
    <2>2. CASE DataRefused(k, ok)
        BY <2>2, OfferKeptOrWithdrawn DEF DataRefused, history
    <2>3. ASSUME k = ota.expected_seq,
                 DataStored(appFile[k + 1]) \/ DataMismatch(appFile[k + 1])
          PROVE  OnOffer' = OnOffer \/ OnOffer' = <<>>
        <3>1. appFile[k + 1] \in Chunk
            BY <2>1, <2>3, StreamInStep
        <3>2. flag = READY => image' = image
            BY <2>1, <2>3, <3>1, OfferUntouched DEF DataStored, DataMismatch
        <3> QED
            BY <2>3, <3>2, OfferKeptOrWithdrawn DEF DataStored, DataMismatch
    <2>4. ASSUME k = ota.expected_seq, DataComplete(appFile[k + 1])
          PROVE  OnOffer' = <<>> \/ OnOffer = <<>>
        BY <2>4, OfferedIntoEmpty
    <2> QED
        BY <1>2, <2>2, <2>3, <2>4 DEF OtaHandleDataPacket
<1>3. ASSUME NEW valid \in BOOLEAN, OtaPackageRetry(valid) \/ OtaEraseRetry(valid)
      PROVE  OnOffer' = OnOffer
    BY <1>3 DEF OtaPackageRetry, OtaEraseRetry, OnOffer, Offered, history
<1>4. CASE Reboot
    BY <1>4 DEF Reboot, OnOffer, Offered, history
<1>5. ASSUME NEW junk \in Chunk, PowerLossInWrite(junk)
      PROVE  OnOffer' = OnOffer \/ OnOffer' = <<>>
    <2>1. flag = READY => image' = image
        BY <1>5, OfferUntouched DEF PowerLossInWrite
    <2> QED
        BY <1>5, <2>1, OfferKeptOrWithdrawn DEF PowerLossInWrite, history
<1>6. ASSUME NEW k \in 0..(Len(appFile) - 1), PowerLossInRecord(k)
      PROVE  OnOffer' = <<>>
    BY <1>6 DEF PowerLossInRecord, OnOffer, Offered
<1>7. CASE UNCHANGED vars
    BY <1>7 DEF vars, OnOffer, Offered
<1> QED
    BY <1>1, <1>2, <1>3, <1>4, <1>5, <1>6, <1>7 DEF Next, PowerLoss

(* Hence every step of the download is a step of the slot.                   *)
LEMMA StepImplementsSlot ==
    ASSUME IInv, IInv', [Next]_vars
    PROVE  [Slot!Next]_OnOffer
<1> SUFFICES ASSUME OnOffer' # OnOffer
             PROVE  Slot!Next
    OBVIOUS
<1>1. CASE OnOffer' = <<>>
    BY <1>1 DEF Slot!Next, Slot!Withdraw, Slot!Empty, OnOffer
<1>2. CASE OnOffer' # <<>>
    <2>1. OnOffer = <<>>
        BY <1>2, StepOfSlot
    <2>2. flag' = READY /\ meta'.len > 0
        BY <1>2 DEF OnOffer, Offered
    <2>3. OnOffer' \in Seq(Chunk)
        <3>1. image' \in [1..Capacity -> Chunk] /\ meta'.len \in 1..Capacity
            BY <2>2, BleOtaAssumption DEF IInv, TypeOK
        <3> QED
            BY <1>2, <3>1, OfferIsFile DEF OnOffer
    <2> QED
        BY <1>2, <2>1, <2>3 DEF Slot!Next, Slot!Offer, Slot!Empty, OnOffer
<1> QED
    BY <1>1, <1>2

(* The refinement: a file on offer is never edited, only withdrawn, and a    *)
(* new one is offered only into an empty slot - whatever the application     *)
(* sends and wherever the power fails.                                       *)
THEOREM DownloadImplementsSlot == Spec => SlotSpec
<1>1. Init => Slot!Init
    BY DEF Init, Slot!Init, Slot!Empty, Offered, READY, IDLE
<1>2. IInv /\ IInv' /\ [Next]_vars => [Slot!Next]_OnOffer
    BY StepImplementsSlot
<1> QED
    BY <1>1, <1>2, Invariance, PTL DEF Spec, SlotSpec, Slot!Spec, OnOffer
=============================================================================
