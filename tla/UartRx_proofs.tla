---------------------------- MODULE UartRx_proofs ----------------------------
(***************************************************************************)
(* Proofs about the receive path, for every size of a register frame, of   *)
(* the hardware FIFO and of the buffer that holds what the assumptions     *)
(* say, for every length of a burst, whatever bytes the controller's       *)
(* frames carry, and for every write of the application.                   *)
(*                                                                         *)
(* The argument.  FlattenSeq, the loop of the parser and the loop over the *)
(* replies of a burst are recursive functions: each is shown to exist, and *)
(* to be the only one its equations allow, by induction over the naturals  *)
(* (Induction, on sets).  From then on the parser's result at an offset is *)
(* known from its result behind the piece that stands there.               *)
(*                                                                         *)
(* For the interrupt everything is said of the stream: the bytes in the    *)
(* buffer, in the FIFO and still to come.  Only the sender and a timeout   *)
(* change it, and the hardware's events do not (ArriveKeeps, DataKeeps).   *)
(*   UartInv      the stream fits in the buffer; what the interrupt takes  *)
(*                for a register head in front of it is one;               *)
(*   InOrderInv   until a byte is lost it is what is unhandled of a burst  *)
(*                or of one frame;                                         *)
(*   RecoveredInv behind a register reply that lost nothing it is long     *)
(*                enough to be cleared, or holds no head.                  *)
(* The three hold together, as ReceiveInv, for as long as doubt is FALSE:  *)
(* that nothing is dropped without a loss (InOrderInv) is why the rest of  *)
(* a reply is no head for the next (UartInv).                              *)
(***************************************************************************)
EXTENDS UartRx, FiniteSetTheorems, SequenceTheorems, TLAPS

-----------------------------------------------------------------------------
(* Induction and recursion *)

(* Every set of naturals but the empty one has a least element: the intervals *)
(* below its elements are finite sets, which strict inclusion orders.         *)
LEMMA Least ==
    ASSUME NEW T, T \subseteq Nat, T # {}
    PROVE  \E n \in T : \A m \in T : n =< m
<1> PICK top \in T : TRUE
    OBVIOUS
<1> DEFINE S == 0..top
           Below == {0..n : n \in T \cap S}
           R == StrictSubsetOrdering(S)
<1>1. IsWellFoundedOn(R, FiniteSubsetsOf(S))
    BY FS_Interval, FS_StrictSubsetOrderingWellFounded
<1>2. Below \subseteq FiniteSubsetsOf(S) /\ Below # {}
    <2>1. \A n \in T \cap S : 0..n \subseteq S /\ IsFiniteSet(0..n)
        BY FS_Interval
    <2>2. top \in T \cap S
        OBVIOUS
    <2> QED
        BY <2>1, <2>2 DEF FiniteSubsetsOf
<1>3. \E b \in Below : \A c \in Below : ~(<<c, b>> \in R)
    <2> HIDE DEF Below, R, S
    <2> QED
        BY <1>1, <1>2, WFMin
<1>4. PICK n \in T \cap S : \A m \in T \cap S : ~(<<0..m, 0..n>> \in R)
    BY <1>3
<1>5. \A m \in T : n =< m
    <2> SUFFICES ASSUME NEW m \in T, m < n PROVE FALSE
        OBVIOUS
    <2>1. 0..m \in SUBSET S /\ 0..n \in SUBSET S /\ 0..m \subseteq 0..n /\ 0..m # 0..n
        OBVIOUS
    <2>2. <<0..m, 0..n>> \in R
        BY <2>1 DEF StrictSubsetOrdering
    <2>3. m \in T \cap S
        OBVIOUS
    <2> QED
        BY <1>4, <2>2, <2>3
<1> QED
    BY <1>4, <1>5

(* Induction over the naturals, for a set. *)
LEMMA Induction ==
    ASSUME NEW S, 0 \in S, \A n \in Nat : n \in S => n + 1 \in S
    PROVE  Nat \subseteq S
<1> SUFFICES ASSUME Nat \ S # {} PROVE FALSE
    OBVIOUS
<1>1. PICK n \in Nat \ S : \A m \in Nat \ S : n =< m
    BY Least
<1> QED
    BY <1>1, n - 1 \in Nat \/ n = 0

(* s \o t, under a name that the provers do not take apart.                  *)
Joined(s, t) == s \o t

LEMMA JoinedIsSeq ==
    ASSUME NEW T, NEW s \in Seq(T), NEW t \in Seq(T)
    PROVE  /\ Joined(s, t) \in Seq(T)
           /\ Len(Joined(s, t)) = Len(s) + Len(t)
           /\ \A i \in 1..Len(s) : Joined(s, t)[i] = s[i]
           /\ \A i \in 1..Len(t) : Joined(s, t)[Len(s) + i] = t[i]
           /\ Joined(s, <<>>) = s
           /\ Joined(<<>>, s) = s
BY ConcatProperties, ConcatEmptySeq DEF Joined

LEMMA JoinedFront ==
    ASSUME NEW T, NEW s \in Seq(T), NEW t \in Seq(T), NEW k \in 1..Len(s)
    PROVE  Joined(s, t)[k] = s[k]
BY JoinedIsSeq

LEMMA JoinedBehind ==
    ASSUME NEW T, NEW s \in Seq(T), NEW t \in Seq(T), NEW k \in 1..Len(t)
    PROVE  Joined(s, t)[Len(s) + k] = t[k]
BY JoinedIsSeq

LEMMA JoinedAssociative ==
    ASSUME NEW T, NEW s \in Seq(T), NEW t \in Seq(T), NEW u \in Seq(T)
    PROVE  Joined(Joined(s, t), u) = Joined(s, Joined(t, u))
BY ConcatAssociative DEF Joined

(* What FlattenSeq computes: sequence after sequence, appended.              *)
Appended(f, s) ==
    /\ f[0] = <<>>
    /\ \A i \in 1..Len(s) : f[i] = Joined(f[i - 1], s[i])

LEMMA AppendedExists ==
    ASSUME NEW T, NEW s \in Seq(Seq(T))
    PROVE  \E f \in [0..Len(s) -> Seq(T)] : Appended(f, s)
<1> DEFINE N == Len(s)
           Upto(f, n) == f[0] = <<>> /\ \A i \in 1..N : i =< n => f[i] = Joined(f[i - 1], s[i])
           S == {n \in Nat : \E f \in [0..N -> Seq(T)] : Upto(f, n)}
<1>0. N \in Nat /\ \A i \in 1..N : s[i] \in Seq(T)
    OBVIOUS
<1>1. 0 \in S
    <2> DEFINE f == [i \in 0..N |-> <<>>]
    <2>1. f \in [0..N -> Seq(T)]
        BY EmptySeq
    <2>2. Upto(f, 0)
        BY <1>0
    <2> QED
        BY <2>1, <2>2
<1>2. ASSUME NEW n \in Nat, n \in S PROVE n + 1 \in S
    <2>1. PICK f \in [0..N -> Seq(T)] : Upto(f, n)
        BY <1>2
    <2>2. CASE n + 1 > N
        <3>1. Upto(f, n + 1)
            BY <1>0, <2>1, <2>2
        <3> HIDE DEF Upto
        <3> QED
            BY <2>1, <3>1
    <2>3. CASE n + 1 =< N
        <3> DEFINE g == [f EXCEPT ![n + 1] = Joined(f[n], s[n + 1])]
        <3>1. Joined(f[n], s[n + 1]) \in Seq(T)
            <4>1. n \in 0..N /\ n + 1 \in 1..N
                BY <1>0, <2>3
            <4>2. f[n] \in Seq(T) /\ s[n + 1] \in Seq(T)
                BY <1>0, <4>1
            <4> QED
                BY <4>2, JoinedIsSeq
        <3>2. g \in [0..N -> Seq(T)]
            BY <3>1
        <3>3. /\ \A i \in 0..n : g[i] = f[i]
              /\ g[n + 1] = Joined(f[n], s[n + 1])
            BY <1>0, <2>3
        <3>4. ASSUME NEW i \in 1..N, i =< n + 1 PROVE g[i] = Joined(g[i - 1], s[i])
            <4>1. CASE i = n + 1
                BY <1>0, <3>3, <4>1
            <4>2. CASE i =< n
                <5>1. f[i] = Joined(f[i - 1], s[i])
                    BY <2>1, <4>2
                <5>2. g[i] = f[i] /\ g[i - 1] = f[i - 1]
                    BY <3>3, <4>2
                <5> QED
                    BY <5>1, <5>2
            <4> QED
                BY <3>4, <4>1, <4>2
        <3>5. Upto(g, n + 1)
            BY <2>1, <3>3, <3>4
        <3> HIDE DEF Upto, g
        <3> QED
            BY <3>2, <3>5
    <2> HIDE DEF S
    <2> QED
        BY <1>0, <2>2, <2>3
<1>3. N \in S
    <2> HIDE DEF S
    <2> QED
        BY <1>0, <1>1, <1>2, Induction
<1>4. PICK f \in [0..N -> Seq(T)] : Upto(f, N)
    BY <1>3
<1>5. Appended(f, s)
    BY <1>0, <1>4 DEF Appended
<1> QED
    BY <1>5

LEMMA FlattenIsAppended ==
    ASSUME NEW T, NEW s \in Seq(Seq(T)), NEW f \in [0..Len(s) -> Seq(T)], Appended(f, s)
    PROVE  FlattenSeq(s) = f[Len(s)]
<1>1. CASE s = <<>>
    BY <1>1 DEF FlattenSeq, Appended
<1>2. CASE s # <<>>
    <2> DEFINE N == Len(s)
               Step(h) == [i \in 1..N |-> IF i = 1 THEN s[i] ELSE Joined(h[i - 1], s[i])]
               flatten == CHOOSE h : h = Step(h)
    <2>1. N \in Nat /\ N >= 1 /\ \A i \in 1..N : s[i] \in Seq(T)
        BY <1>2
    <2>2. FlattenSeq(s) = flatten[N]
        BY <2>1 DEF FlattenSeq, Joined
    <2> DEFINE g == [i \in 1..N |-> f[i]]
    <2>3. \A i \in 1..N : f[i] = IF i = 1 THEN s[i] ELSE Joined(g[i - 1], s[i])
        <3>1. f[1] = s[1]
            <4>1. f[1] = Joined(<<>>, s[1])
                BY <2>1 DEF Appended
            <4>2. s[1] \in Seq(T)
                BY <2>1
            <4> QED
                BY <4>1, <4>2, JoinedIsSeq
        <3>2. \A i \in 2..N : f[i] = Joined(f[i - 1], s[i]) /\ g[i - 1] = f[i - 1]
            BY <2>1 DEF Appended
        <3> QED
            <4> TAKE i \in 1..N
            <4>1. CASE i = 1
                BY <3>1, <4>1
            <4>2. CASE i # 1
                <5>1. i \in 2..N
                    BY <2>1, <4>2
                <5> QED
                    BY <3>2, <4>2, <5>1
            <4> QED
                BY <4>1, <4>2
    <2>4. g = Step(g)
        BY <2>3
    <2>5. flatten = Step(flatten)
        BY <2>4
    <2> HIDE DEF flatten
    <2>6. \A i \in 1..N : flatten[i] = IF i = 1 THEN s[i] ELSE Joined(flatten[i - 1], s[i])
        BY <2>5
    <2> DEFINE S == {n \in Nat : n + 1 \in 1..N => flatten[n + 1] = f[n + 1]}
    <2>7. 0 \in S
        <3>1. 1 \in 1..N
            BY <2>1
        <3>2. flatten[1] = s[1] /\ f[1] = s[1]
            BY <2>3, <2>6, <3>1
        <3> QED
            BY <3>2
    <2>8. ASSUME NEW n \in Nat, n \in S PROVE n + 1 \in S
        <3> SUFFICES ASSUME n + 2 \in 1..N PROVE flatten[n + 2] = f[n + 2]
            OBVIOUS
        <3>1. flatten[n + 1] = f[n + 1] /\ g[n + 1] = f[n + 1]
            BY <2>1, <2>8
        <3>2. flatten[n + 2] = Joined(flatten[n + 1], s[n + 2]) /\ f[n + 2] = Joined(g[n + 1], s[n + 2])
            BY <2>1, <2>3, <2>6
        <3> QED
            BY <3>1, <3>2
    <2>9. N - 1 \in S
        <3>1. N - 1 \in Nat
            BY <2>1
        <3> HIDE DEF S
        <3>2. Nat \subseteq S
            BY <2>7, <2>8, Induction
        <3> QED
            BY <3>1, <3>2
    <2> QED
        BY <2>1, <2>2, <2>9
<1> QED
    BY <1>1, <1>2

(* FlattenSeq takes one sequence more.                                       *)
LEMMA FlattenAppend ==
    ASSUME NEW T, NEW s \in Seq(Seq(T)), NEW t \in Seq(T)
    PROVE  /\ FlattenSeq(s) \in Seq(T)
           /\ FlattenSeq(<<>>) = <<>>
           /\ FlattenSeq(Append(s, t)) = Joined(FlattenSeq(s), t)
<1>1. FlattenSeq(<<>>) = <<>>
    BY DEF FlattenSeq
<1>2. PICK f \in [0..Len(s) -> Seq(T)] : Appended(f, s)
    BY AppendedExists
<1>3. FlattenSeq(s) = f[Len(s)]
    BY <1>2, FlattenIsAppended
<1> DEFINE N == Len(s)
           g == [i \in 0..(N + 1) |-> IF i =< N THEN f[i] ELSE Joined(f[N], t)]
<1>4. N \in Nat /\ Append(s, t) \in Seq(Seq(T)) /\ Len(Append(s, t)) = N + 1
    OBVIOUS
<1>5. f[N] \in Seq(T) /\ Joined(f[N], t) \in Seq(T)
    <2>1. N \in 0..N
        BY <1>4
    <2>2. f[N] \in Seq(T)
        BY <2>1
    <2> QED
        BY <2>2, JoinedIsSeq
<1>6. g \in [0..(N + 1) -> Seq(T)]
    BY <1>4, <1>5
<1>7. Appended(g, Append(s, t))
    <2>1. \A i \in 1..N : Append(s, t)[i] = s[i] /\ g[i] = f[i] /\ g[i - 1] = f[i - 1]
        BY <1>4
    <2>2. Append(s, t)[N + 1] = t /\ g[N + 1] = Joined(f[N], t) /\ g[N] = f[N] /\ g[0] = f[0]
        BY <1>4
    <2>3. 1..(N + 1) = 1..N \cup {N + 1}
        BY <1>4
    <2>4. f[0] = <<>> /\ \A i \in 1..N : f[i] = Joined(f[i - 1], s[i])
        BY <1>2 DEF Appended
    <2> HIDE DEF g
    <2>5. ASSUME NEW i \in 1..(N + 1) PROVE g[i] = Joined(g[i - 1], Append(s, t)[i])
        <3>1. CASE i \in 1..N
            BY <2>1, <2>4, <3>1
        <3>2. CASE i = N + 1
            BY <1>4, <2>2, <3>2
        <3> QED
            BY <2>3, <3>1, <3>2
    <2> QED
        BY <1>4, <2>2, <2>4, <2>5 DEF Appended
<1>8. FlattenSeq(Append(s, t)) = g[N + 1]
    BY <1>4, <1>6, <1>7, FlattenIsAppended
<1> QED
    BY <1>1, <1>3, <1>4, <1>5, <1>8

-----------------------------------------------------------------------------
(* The parser *)

(* Every size is one, from four bytes on.                                    *)
LEMMA SizesAreSizes ==
    ASSUME NEW cmd \in AppCmd
    PROVE  /\ \A n \in V3Sizes[cmd] : n \in 4..255
           /\ cmd \notin Measured => \E n \in 4..255 : V3Sizes[cmd] = {n}
<1> USE DEF HANDSHAKE, START, DATA, WRITE_CTRL, READ_CTRL, DATA_RETRY, ERASE_RETRY
<1>1. OTA_FRAME_DATA_MIN_SIZE..OTA_FRAME_DATA_MAX_SIZE \subseteq 4..255
    BY V3ParserAssumption
<1>2. CASE cmd = DATA
    BY <1>1, <1>2 DEF V3Sizes, AppCmd, Measured
<1>3. CASE cmd = START
    <2>1. V3Sizes[cmd] = {OTA_FRAME_START_REQ_SIZE} /\ cmd \in Measured
        BY <1>3 DEF V3Sizes, AppCmd, Measured
    <2> QED
        BY <2>1, V3ParserAssumption
<1>4. CASE cmd \in {DATA_RETRY, ERASE_RETRY}
    <2>1. V3Sizes[cmd] = {OTA_FRAME_FLASH_ERASE_RSP_SIZE} /\ cmd \in Measured
        BY <1>4 DEF V3Sizes, AppCmd, Measured
    <2> QED
        BY <2>1, V3ParserAssumption
<1>5. CASE cmd = HANDSHAKE
    <2>1. V3Sizes[cmd] = {V3_FRAME_SIZE_HANDSHAKE}
        BY <1>5 DEF V3Sizes, AppCmd
    <2> QED
        BY <2>1, V3ParserAssumption
<1>6. CASE cmd \in {WRITE_CTRL, READ_CTRL}
    <2>1. V3Sizes[cmd] = {V3_FRAME_SIZE_NORMAL}
        BY <1>6 DEF V3Sizes, AppCmd
    <2> QED
        BY <2>1, V3ParserAssumption
<1> QED
    BY <1>2, <1>3, <1>4, <1>5, <1>6 DEF AppCmd

(* The functions that take what was received.                                *)
Callee == {"V3_handle_handshake", "V3_handle_read_write", "OtaHandleStartRequest",
           "OtaHandleDataPacket", "OtaPackageRetry", "OtaEraseRetry",
           "Handle_app_cmd_and_reply", "V3_handle_mcu_reply", "Ctrl_ota_handle_reply",
           "Handle_mcu_replydata", "send_mac_to_uc"}

AnyCall == [to : Callee, data : Seq(Nat)]

(* Every command has a handler.                                              *)
LEMMA HandlersAreNames ==
    /\ DOMAIN V3Sizes = AppCmd
    /\ DOMAIN FromApp = AppCmd
    /\ \A cmd \in AppCmd : FromApp[cmd] \in Callee
    /\ \A cmd \in DOMAIN FromMcu : FromMcu[cmd] \in Callee
<1> USE DEF HANDSHAKE, START, DATA, WRITE_CTRL, READ_CTRL, DATA_RETRY, ERASE_RETRY
<1>1. DOMAIN V3Sizes = AppCmd /\ DOMAIN FromApp = AppCmd
    BY DEF V3Sizes, FromApp
<1>2. \A cmd \in AppCmd : FromApp[cmd] \in Callee
    BY DEF FromApp, AppCmd, Callee
<1>3. \A cmd \in DOMAIN FromMcu : FromMcu[cmd] \in Callee
    BY DEF FromMcu, Callee
<1> QED
    BY <1>1, <1>2, <1>3

(* The calls for the n bytes from an offset on.                              *)
Taken(data, from_app, offset, n) == Call(SubSeq(data, offset + 1, offset + n), from_app)

(* What one step of V3_parse_buffer's loop makes of the calls further on.    *)
ParseStep(calls, data, from_app, offset) ==
    IF offset >= Len(data) THEN <<>>
    ELSE LET step == At(data, offset)
         IN  CASE step.do = "skip" -> calls[offset + 1]
               [] step.do = "stop" -> <<>>
               [] step.do = "take" ->
                    Joined(Taken(data, from_app, offset, step.n),
                           calls[offset + step.n])

(* A step skips, stops, or takes bytes that are there.                       *)
LEMMA StepKinds ==
    ASSUME NEW data \in Seq(Nat), NEW offset \in Nat, offset < Len(data)
    PROVE  \/ At(data, offset) = Skip
           \/ At(data, offset) = Stop
           \/ \E n \in Nat : n >= 3 /\ offset + n =< Len(data) /\ At(data, offset) = Take(n)
<1>1. \A n \in Nat : n >= 3 => \/ TakeIfWhole(data, offset, n) = Stop
                             \/ /\ TakeIfWhole(data, offset, n) = Take(n)
                                /\ offset + n =< Len(data)
    BY DEF TakeIfWhole
<1>2. CASE At(data, offset) = AtAppHead(data, offset)
    <2>1. \A cmd \in DOMAIN AppSize : AppSize[cmd] \in Nat /\ AppSize[cmd] >= 3
        BY DEF AppSize
    <2> QED
        BY <1>1, <1>2, <2>1 DEF AtAppHead
<1>3. CASE At(data, offset) = AtV3Head(data, offset)
    <2> DEFINE cmd    == data[offset + 3]
               length == data[offset + 4]
               sizes  == IF cmd \in DOMAIN V3Sizes THEN V3Sizes[cmd] ELSE {}
    <2>1. CASE offset + 3 >= Len(data) \/ data[offset + 2] # V3_FRAME_HEAD_1
        BY <1>3, <2>1 DEF AtV3Head
    <2>2. CASE ~(offset + 3 >= Len(data) \/ data[offset + 2] # V3_FRAME_HEAD_1)
        <3>1. CASE cmd \in Measured /\ length \in sizes
            <4>1. length \in Nat /\ length >= 3
                <5>1. cmd \in AppCmd /\ length \in V3Sizes[cmd]
                    BY <3>1, HandlersAreNames
                <5>2. \A m \in V3Sizes[cmd] : m \in 4..255
                    BY <5>1, SizesAreSizes
                <5>3. length \in 4..255
                    BY <5>1, <5>2, Zenon
                <5> HIDE DEF length
                <5> QED
                    BY <5>3
            <4>2. At(data, offset) = TakeIfWhole(data, offset, length)
                BY <1>3, <2>2, <3>1 DEF AtV3Head
            <4> QED
                BY <1>1, <4>1, <4>2
        <3>2. CASE cmd \notin Measured /\ sizes # {}
            <4> DEFINE n == CHOOSE n \in sizes : TRUE
            <4>1. n \in sizes
                BY <3>2
            <4>2. n \in Nat /\ n >= 3
                <5>1. cmd \in AppCmd /\ n \in V3Sizes[cmd]
                    BY <3>2, <4>1, HandlersAreNames
                <5> HIDE DEF n
                <5>2. \A m \in V3Sizes[cmd] : m \in 4..255
                    BY <5>1, SizesAreSizes
                <5>3. n \in 4..255
                    BY <5>1, <5>2, Zenon
                <5> QED
                    BY <5>3
            <4>3. At(data, offset) = TakeIfWhole(data, offset, n)
                BY <1>3, <2>2, <3>2 DEF AtV3Head
            <4> HIDE DEF n
            <4> QED
                BY <1>1, <4>2, <4>3
        <3>3. CASE ~(cmd \in Measured /\ length \in sizes) /\ ~(cmd \notin Measured /\ sizes # {})
            <4>1. AtV3Head(data, offset) = Skip
                BY <2>2, <3>3 DEF AtV3Head
            <4> QED
                BY <1>3, <4>1
        <3> QED
            BY <3>1, <3>2, <3>3
    <2> QED
        BY <2>1, <2>2
<1> QED
    BY <1>2, <1>3 DEF At

LEMMA CallIsCall ==
    ASSUME NEW frame \in Seq(Nat), NEW from_app \in BOOLEAN
    PROVE  Call(frame, from_app) \in Seq(AnyCall)
<1>1. \A to \in Callee : << [to |-> to, data |-> frame] >> \in Seq(AnyCall)
    BY DEF AnyCall
<1>2. "Handle_app_cmd_and_reply" \in Callee
    BY DEF Callee
<1>3. <<>> \in Seq(AnyCall)
    OBVIOUS
<1>4. CASE from_app
    BY <1>1, <1>2, <1>3, <1>4, HandlersAreNames DEF Call
<1>5. CASE ~from_app
    BY <1>1, <1>2, <1>3, <1>5, HandlersAreNames DEF Call
<1> QED
    BY <1>4, <1>5

LEMMA SkipValue ==
    ASSUME NEW data, NEW from_app, NEW offset \in Nat, offset < Len(data),
           At(data, offset) = Skip
    PROVE  \A calls : ParseStep(calls, data, from_app, offset) = calls[offset + 1]
BY DEF ParseStep, Skip

LEMMA StopValue ==
    ASSUME NEW data, NEW from_app, NEW offset \in Nat, offset < Len(data),
           At(data, offset) = Stop
    PROVE  \A calls : ParseStep(calls, data, from_app, offset) = <<>>
BY DEF ParseStep, Stop

LEMMA TakeValue ==
    ASSUME NEW data, NEW from_app, NEW offset \in Nat, offset < Len(data),
           NEW n, At(data, offset) = Take(n)
    PROVE  \A calls : ParseStep(calls, data, from_app, offset)
               = Joined(Taken(data, from_app, offset, n), calls[offset + n])
<1>1. At(data, offset).do = "take" /\ At(data, offset).n = n
    BY DEF Take
<1> QED
    BY <1>1 DEF ParseStep

(* A step looks at the calls further on only.                                *)
LEMMA StepLooksAhead ==
    ASSUME NEW data \in Seq(Nat), NEW from_app, NEW offset \in Nat, NEW c, NEW d,
           \A p \in Nat : p > offset => c[p] = d[p]
    PROVE  ParseStep(c, data, from_app, offset) = ParseStep(d, data, from_app, offset)
<1>1. CASE offset >= Len(data)
    BY <1>1 DEF ParseStep
<1>2. CASE offset < Len(data)
    <2>1. CASE At(data, offset) = Skip
        BY <1>2, <2>1, SkipValue, offset + 1 \in Nat, offset + 1 > offset
    <2>2. CASE At(data, offset) = Stop
        BY <1>2, <2>2, StopValue
    <2>3. ASSUME NEW n \in Nat, n >= 3, At(data, offset) = Take(n)
          PROVE  ParseStep(c, data, from_app, offset) = ParseStep(d, data, from_app, offset)
        <3>1. c[offset + n] = d[offset + n]
            BY <2>3
        <3>2. \A e : ParseStep(e, data, from_app, offset)
                  = Joined(Taken(data, from_app, offset, n), e[offset + n])
            BY <1>2, <2>3, TakeValue
        <3> QED
            BY <3>1, <3>2
    <2> QED
        BY <1>2, <2>1, <2>2, <2>3, StepKinds
<1> QED
    BY <1>1, <1>2

LEMMA StepIsCalls ==
    ASSUME NEW data \in Seq(Nat), NEW from_app \in BOOLEAN, NEW offset \in Nat,
           NEW c, \A o \in Nat : c[o] \in Seq(AnyCall)
    PROVE  ParseStep(c, data, from_app, offset) \in Seq(AnyCall)
<1>0. <<>> \in Seq(AnyCall)
    OBVIOUS
<1>1. CASE offset >= Len(data)
    BY <1>0, <1>1 DEF ParseStep
<1>2. CASE offset < Len(data)
    <2>1. CASE At(data, offset) = Skip
        BY <1>2, <2>1, SkipValue, offset + 1 \in Nat
    <2>2. CASE At(data, offset) = Stop
        BY <1>0, <1>2, <2>2, StopValue
    <2>3. ASSUME NEW n \in Nat, n >= 3, offset + n =< Len(data), At(data, offset) = Take(n)
          PROVE  ParseStep(c, data, from_app, offset) \in Seq(AnyCall)
        <3>1. SubSeq(data, offset + 1, offset + n) \in Seq(Nat)
            <4>1. \A i \in (offset + 1)..(offset + n) : data[i] \in Nat
                <5>1. \A i \in (offset + 1)..(offset + n) : i \in 1..Len(data)
                    BY <2>3
                <5> QED
                    BY <5>1, ElementOfSeq
            <4> QED
                BY <4>1, SubSeqProperties
        <3>2. Taken(data, from_app, offset, n) \in Seq(AnyCall)
            BY <3>1, CallIsCall DEF Taken
        <3>3. c[offset + n] \in Seq(AnyCall)
            OBVIOUS
        <3>4. \A e : ParseStep(e, data, from_app, offset)
                  = Joined(Taken(data, from_app, offset, n), e[offset + n])
            BY <1>2, <2>3, TakeValue
        <3> QED
            <4>1. ParseStep(c, data, from_app, offset) = Joined(Taken(data, from_app, offset, n), c[offset + n])
                BY <3>4
            <4>2. Joined(Taken(data, from_app, offset, n), c[offset + n]) \in Seq(AnyCall)
                BY <3>2, <3>3, JoinedIsSeq
            <4> QED
                BY <4>1, <4>2
    <2> QED
        BY <1>2, <2>1, <2>2, <2>3, StepKinds
<1> QED
    BY <1>1, <1>2

(* The loop ends: every step moves on.  calls[offset] are the calls made     *)
(* from there on.                                                            *)
Parses(calls, data, from_app) ==
    /\ calls \in [Nat -> Seq(AnyCall)]
    /\ \A offset \in Nat : calls[offset] = ParseStep(calls, data, from_app, offset)

LEMMA ParseExists ==
    ASSUME NEW data \in Seq(Nat), NEW from_app \in BOOLEAN
    PROVE  \E calls : Parses(calls, data, from_app)
<1> DEFINE N == Len(data)
           From(c, k) == \A o \in Nat : o + k >= N => c[o] = ParseStep(c, data, from_app, o)
           S == {k \in Nat : \E c \in [Nat -> Seq(AnyCall)] : From(c, k)}
<1>0. N \in Nat
    OBVIOUS
<1>1. 0 \in S
    <2> DEFINE c == [o \in Nat |-> <<>>]
    <2>1. c \in [Nat -> Seq(AnyCall)]
        BY EmptySeq
    <2>2. From(c, 0)
        BY <1>0 DEF ParseStep
    <2> HIDE DEF From, c
    <2> QED
        BY <2>1, <2>2
<1>2. ASSUME NEW k \in Nat, k \in S PROVE k + 1 \in S
    <2>1. PICK c \in [Nat -> Seq(AnyCall)] : From(c, k)
        BY <1>2
    <2> DEFINE d == [o \in Nat |-> IF o = N - k - 1
                                    THEN ParseStep(c, data, from_app, o) ELSE c[o]]
    <2>2. d \in [Nat -> Seq(AnyCall)]
        <3>1. \A o \in Nat : ParseStep(c, data, from_app, o) \in Seq(AnyCall)
            BY StepIsCalls
        <3> QED
            BY <3>1
    <2>3. \A o \in Nat : o + (k + 1) >= N => d[o] = ParseStep(c, data, from_app, o)
        BY <1>0, <2>1
    <2>4. \A o \in Nat : o + k >= N => d[o] = c[o]
        BY <1>0
    <2> HIDE DEF d
    <2>5. From(d, k + 1)
        <3> SUFFICES ASSUME NEW o \in Nat, o + (k + 1) >= N
                     PROVE  d[o] = ParseStep(d, data, from_app, o)
            OBVIOUS
        <3>1. \A p \in Nat : p > o => p + k >= N
            BY <1>0
        <3>2. ParseStep(c, data, from_app, o) = ParseStep(d, data, from_app, o)
            BY <2>4, <3>1, StepLooksAhead
        <3> QED
            BY <2>3, <3>2
    <2> HIDE DEF From
    <2> QED
        BY <2>2, <2>5
<1>3. N \in S
    <2> HIDE DEF S
    <2>1. Nat \subseteq S
        BY <1>1, <1>2, Induction
    <2> QED
        BY <1>0, <2>1
<1>4. PICK c \in [Nat -> Seq(AnyCall)] : From(c, N)
    BY <1>3
<1>5. Parses(c, data, from_app)
    BY <1>0, <1>4 DEF Parses
<1> QED
    BY <1>5

(* V3_parse_buffer is the loop from the first byte on.                       *)
LEMMA ParseBuffer ==
    ASSUME NEW data \in Seq(Nat), NEW from_app \in BOOLEAN
    PROVE  \E calls : /\ Parses(calls, data, from_app)
                      /\ V3_parse_buffer(data, from_app) = calls[0]
<1> DEFINE Loop(c) == [o \in Nat |-> ParseStep(c, data, from_app, o)]
           calls == CHOOSE c : c = Loop(c)
<1>1. V3_parse_buffer(data, from_app) = calls[0]
    BY DEF V3_parse_buffer, ParseStep, Taken, Joined
<1>2. PICK c : Parses(c, data, from_app)
    BY ParseExists
<1>3. c = Loop(c)
    BY <1>2 DEF Parses
<1>4. calls = Loop(calls)
    BY <1>3
<1> HIDE DEF calls
<1>5. \A o \in Nat : calls[o] = ParseStep(calls, data, from_app, o)
    BY <1>4
<1> DEFINE N == Len(data)
           S == {k \in Nat : \A o \in Nat : o + k >= N => calls[o] = c[o]}
<1>6. N \in Nat /\ \A o \in Nat : c[o] = ParseStep(c, data, from_app, o)
    BY <1>2 DEF Parses
<1>7. 0 \in S
    BY <1>5, <1>6 DEF ParseStep
<1>8. ASSUME NEW k \in Nat, k \in S PROVE k + 1 \in S
    <2> SUFFICES ASSUME NEW o \in Nat, o + (k + 1) >= N PROVE calls[o] = c[o]
        OBVIOUS
    <2>1. \A p \in Nat : p > o => calls[p] = c[p]
        BY <1>6, <1>8
    <2>2. ParseStep(calls, data, from_app, o) = ParseStep(c, data, from_app, o)
        BY <2>1, StepLooksAhead
    <2> QED
        BY <1>5, <1>6, <2>2
<1>9. N \in S
    <2> HIDE DEF S
    <2>1. Nat \subseteq S
        BY <1>7, <1>8, Induction
    <2> QED
        BY <1>6, <2>1
<1>10. calls[0] = c[0]
    <2>1. calls = Loop(calls) /\ \A o \in Nat : calls[o] = c[o]
        BY <1>4, <1>6, <1>9
    <2> QED
        BY <2>1
<1> QED
    BY <1>1, <1>2, <1>10

-----------------------------------------------------------------------------
(* What a BLE write is made of *)

(* The bytes of p stand in data, behind the offset.                          *)
Here(data, offset, p) ==
    /\ offset + Len(p) =< Len(data)
    /\ \A k \in 1..Len(p) : data[offset + k] = p[k]

LEMMA HereIsSubSeq ==
    ASSUME NEW data \in Seq(Nat), NEW offset \in Nat, NEW p \in Seq(Nat),
           Here(data, offset, p), p # <<>>
    PROVE  SubSeq(data, offset + 1, offset + Len(p)) = p
<1> DEFINE q == SubSeq(data, offset + 1, offset + Len(p))
<1>0. Len(p) \in Nat /\ Len(p) >= 1 /\ offset + Len(p) =< Len(data)
    BY DEF Here
<1>1. \A i \in (offset + 1)..(offset + Len(p)) : data[i] \in Nat
    <2>1. \A i \in (offset + 1)..(offset + Len(p)) : i \in 1..Len(data)
        BY <1>0
    <2> QED
        BY <2>1, ElementOfSeq
<1>2. q \in Seq(Nat) /\ Len(q) = Len(p)
    BY <1>0, <1>1, SubSeqProperties
<1>3. \A k \in 1..Len(p) : q[k] = data[offset + k]
    BY <1>0, <1>1, SubSeqProperties
<1>4. \A k \in 1..Len(p) : q[k] = p[k]
    BY <1>3 DEF Here
<1> HIDE DEF q
<1>5. q = p
    BY <1>2, <1>4, SeqEqual
<1> QED
    BY <1>5 DEF q

(* Bytes skipped one by one.                                                 *)
Skipped(data, offset, L) == \A k \in 0..(L - 1) : At(data, offset + k) = Skip

LEMMA SkipRun ==
    ASSUME NEW data \in Seq(Nat), NEW from_app, NEW calls,
           Parses(calls, data, from_app), NEW offset \in Nat, NEW L \in Nat,
           offset + L =< Len(data), Skipped(data, offset, L)
    PROVE  calls[offset] = calls[offset + L]
<1> DEFINE S == {n \in Nat : n =< L => calls[offset] = calls[offset + n]}
<1>1. 0 \in S
    OBVIOUS
<1>2. ASSUME NEW n \in Nat, n \in S PROVE n + 1 \in S
    <2> SUFFICES ASSUME n + 1 =< L PROVE calls[offset] = calls[offset + (n + 1)]
        OBVIOUS
    <2>1. calls[offset] = calls[offset + n]
        BY <1>2
    <2>2. n \in 0..(L - 1) /\ offset + n \in Nat /\ offset + n < Len(data)
        OBVIOUS
    <2>3. At(data, offset + n) = Skip
        BY <2>2 DEF Skipped
    <2>4. ParseStep(calls, data, from_app, offset + n) = calls[(offset + n) + 1]
        BY <2>2, <2>3, SkipValue
    <2>5. calls[offset + n] = ParseStep(calls, data, from_app, offset + n)
        BY <2>2 DEF Parses
    <2>6. (offset + n) + 1 = offset + (n + 1)
        OBVIOUS
    <2> QED
        BY <2>1, <2>4, <2>5, <2>6
<1>3. L \in S
    <2> HIDE DEF S
    <2>1. Nat \subseteq S
        BY <1>1, <1>2, Induction
    <2> QED
        BY <2>1
<1> QED
    BY <1>3

(* The end of the data, and a stop before it.                                *)
LEMMA NothingFollows ==
    ASSUME NEW data \in Seq(Nat), NEW from_app, NEW calls, Parses(calls, data, from_app)
    PROVE  /\ calls[Len(data)] = <<>>
           /\ \A offset \in Nat : offset < Len(data) /\ At(data, offset) = Stop
                  => calls[offset] = <<>>
<1>1. Len(data) \in Nat
    OBVIOUS
<1>2. \A offset \in Nat : calls[offset] = ParseStep(calls, data, from_app, offset)
    BY DEF Parses
<1>3. calls[Len(data)] = ParseStep(calls, data, from_app, Len(data))
    BY <1>1, <1>2
<1>4. calls[Len(data)] = <<>>
    BY <1>1, <1>3 DEF ParseStep
<1> QED
    BY <1>2, <1>4, StopValue

(* What a whole piece is taken for.                                          *)
LEMMA TakePiece ==
    ASSUME NEW data \in Seq(Nat), NEW from_app, NEW calls,
           Parses(calls, data, from_app), NEW offset \in Nat, NEW p \in Seq(Nat),
           Here(data, offset, p), p # <<>>, At(data, offset) = Take(Len(p))
    PROVE  calls[offset] = Joined(Call(p, from_app), calls[offset + Len(p)])
<1>1. offset < Len(data)
    BY DEF Here
<1>2. ParseStep(calls, data, from_app, offset)
          = Joined(Taken(data, from_app, offset, Len(p)), calls[offset + Len(p)])
    BY <1>1, TakeValue
<1>3. Taken(data, from_app, offset, Len(p)) = Call(p, from_app)
    BY HereIsSubSeq DEF Taken
<1>4. calls[offset] = ParseStep(calls, data, from_app, offset)
    BY DEF Parses
<1> QED
    BY <1>2, <1>3, <1>4

(* A command of the 55 protocol with its length is taken.                    *)
LEMMA AppTaken ==
    ASSUME NEW data \in Seq(Nat), NEW offset \in Nat, NEW p \in Seq(Nat),
           Here(data, offset, p), Len(p) >= 3, p[1] = APP_FRAME_HEAD,
           p[2] \in DOMAIN AppSize, Len(p) = AppSize[p[2]]
    PROVE  At(data, offset) = Take(Len(p))
<1>0. 1 \in 1..Len(p) /\ 2 \in 1..Len(p)
    OBVIOUS
<1>1. data[offset + 1] = p[1] /\ data[offset + 2] = p[2] /\ offset + Len(p) =< Len(data)
    BY <1>0 DEF Here
<1>2. At(data, offset) = AtAppHead(data, offset)
    BY <1>1 DEF At, APP_FRAME_HEAD, V3_FRAME_HEAD_0
<1>3. AtAppHead(data, offset) = TakeIfWhole(data, offset, AppSize[p[2]])
    BY <1>1 DEF AtAppHead
<1>4. TakeIfWhole(data, offset, Len(p)) = Take(Len(p))
    <2>1. ~(offset + Len(p) > Len(data))
        BY <1>1
    <2> QED
        BY <2>1 DEF TakeIfWhole
<1> QED
    BY <1>2, <1>3, <1>4

(* And so is one of the 53 35 protocol.                                      *)
LEMMA V3Taken ==
    ASSUME NEW data \in Seq(Nat), NEW offset \in Nat, NEW p \in Seq(Nat),
           Here(data, offset, p), Len(p) >= 3, IsV3Frame(p)
    PROVE  At(data, offset) = Take(Len(p)) /\ Len(p) >= 4
<1> DEFINE cmd == p[3]
<1>0. cmd \in AppCmd /\ cmd \in DOMAIN V3Sizes /\ Len(p) \in V3Sizes[cmd]
    BY HandlersAreNames DEF IsV3Frame
<1>1. Len(p) >= 4
    <2>1. \A n \in V3Sizes[cmd] : n \in 4..255
        BY <1>0, SizesAreSizes
    <2>2. Len(p) \in 4..255
        BY <1>0, <2>1, Zenon
    <2>3. \A n \in 4..255 : n >= 4
        OBVIOUS
    <2> QED
        BY <2>2, <2>3, Zenon
<1>2. /\ data[offset + 1] = p[1] /\ data[offset + 2] = p[2]
      /\ data[offset + 3] = cmd /\ data[offset + 4] = p[4]
      /\ offset + Len(p) =< Len(data) /\ ~(offset + 3 >= Len(data))
    <2>1. \A k \in 1..4 : k \in 1..Len(p)
        BY <1>1
    <2>2. offset + Len(p) =< Len(data) /\ \A k \in 1..4 : data[offset + k] = p[k]
        BY <2>1 DEF Here
    <2> QED
        BY <1>1, <2>2
<1>3. At(data, offset) = AtV3Head(data, offset)
    BY <1>2 DEF At, IsV3Frame, APP_FRAME_HEAD, V3_FRAME_HEAD_0
<1>4. TakeIfWhole(data, offset, Len(p)) = Take(Len(p))
    BY <1>2 DEF TakeIfWhole
<1>5. CASE cmd \in Measured
    <2>1. p[4] = Len(p) /\ p[2] = V3_FRAME_HEAD_1
        BY <1>5 DEF IsV3Frame
    <2>2. AtV3Head(data, offset) = TakeIfWhole(data, offset, p[4])
        BY <1>0, <1>2, <1>5, <2>1 DEF AtV3Head
    <2> QED
        BY <1>1, <1>3, <1>4, <2>1, <2>2
<1>6. CASE cmd \notin Measured
    <2>1. p[2] = V3_FRAME_HEAD_1
        BY DEF IsV3Frame
    <2>2. V3Sizes[cmd] = {Len(p)}
        <3>1. \E n \in 4..255 : V3Sizes[cmd] = {n}
            BY <1>0, <1>6, SizesAreSizes
        <3> QED
            BY <1>0, <3>1
    <2>3. (CHOOSE n \in V3Sizes[cmd] : TRUE) = Len(p)
        BY <2>2
    <2>4. AtV3Head(data, offset) = TakeIfWhole(data, offset, CHOOSE n \in V3Sizes[cmd] : TRUE)
        BY <1>0, <1>2, <1>6, <2>1, <2>2 DEF AtV3Head
    <2> QED
        BY <1>1, <1>3, <1>4, <2>3, <2>4
<1> QED
    BY <1>5, <1>6

(* What a piece of a BLE write leads to.                                     *)
Outcome(f) == IF f.to = "none" THEN <<>> ELSE << f >>

(* A truth value, under a name that the provers do not take apart.           *)
IsTrue(b) == b = TRUE

(* Noise leads to nothing: skipped, or the last thing there is.              *)
LEMMA NoisePiece ==
    ASSUME NEW data \in Seq(Nat), NEW from_app, IsTrue(from_app),
           NEW calls, Parses(calls, data, from_app),
           NEW offset \in Nat, NEW p \in Seq(Nat), Here(data, offset, p), IsNoise(p)
    PROVE  calls[offset] = calls[offset + Len(p)]
<1> USE DEF APP_FRAME_HEAD, V3_FRAME_HEAD_0
<1>0. Len(p) \in Nat /\ offset + Len(p) =< Len(data) /\ offset + Len(p) \in Nat
    BY DEF Here
<1>1. calls \in [Nat -> Seq(AnyCall)]
    BY DEF Parses
<1>2. CASE /\ Len(p) >= 3 /\ p[1] = APP_FRAME_HEAD
           /\ p[2] \in DOMAIN AppSize /\ Len(p) = AppSize[p[2]]
           /\ p[Len(p)] # APP_FRAME_TRAIL
    <2>1. At(data, offset) = Take(Len(p))
        BY <1>2, AppTaken
    <2>2. Call(p, from_app) = <<>>
        BY <1>2 DEF Call, IsTrue
    <2>3. calls[offset] = Joined(<<>>, calls[offset + Len(p)])
        <3>1. calls[offset] = Joined(Call(p, from_app), calls[offset + Len(p)])
            <4>1. p # <<>>
                BY <1>2
            <4> QED
                BY <2>1, <4>1, TakePiece
        <3> QED
            BY <2>2, <3>1
    <2>4. calls[offset + Len(p)] \in Seq(AnyCall)
        BY <1>0, <1>1
    <2> QED
        BY <2>3, <2>4, JoinedIsSeq
<1>3. CASE /\ p # <<>>
           /\ p[1] \in Heads => IsRefused(p)
           /\ \A i \in 2..Len(p) : p[i] \notin Heads
    <2>0. Len(p) >= 1 /\ offset < Len(data)
        BY <1>0, <1>3
    <2>1. ASSUME NEW k \in 1..(Len(p) - 1) PROVE At(data, offset + k) = Skip
        <3>1. k + 1 \in 2..Len(p) /\ k + 1 \in 1..Len(p) /\ offset + (k + 1) = (offset + k) + 1
            BY <1>0
        <3>2. data[(offset + k) + 1] = p[k + 1] /\ p[k + 1] \notin Heads
            BY <1>3, <3>1 DEF Here
        <3> QED
            BY <3>2 DEF At, Heads
    <2>2. data[offset + 1] = p[1]
        <3>1. 1 \in 1..Len(p)
            BY <1>0, <2>0
        <3> QED
            BY <3>1 DEF Here
    <2>3. ASSUME At(data, offset) = Skip PROVE calls[offset] = calls[offset + Len(p)]
        <3>1. Skipped(data, offset, Len(p))
            <4>1. \A k \in 0..(Len(p) - 1) : k = 0 \/ k \in 1..(Len(p) - 1)
                BY <1>0
            <4> QED
                BY <2>1, <2>3, <4>1, offset + 0 = offset DEF Skipped
        <3> QED
            BY <1>0, <3>1, SkipRun
    <2>4. CASE p[1] \notin Heads
        <3>1. At(data, offset) = Skip
            BY <2>2, <2>4 DEF At, Heads
        <3> QED
            BY <2>3, <3>1
    <2>5. CASE Len(p) >= 2 /\ p[1] = APP_FRAME_HEAD /\ p[2] \notin DOMAIN AppSize
        <3>1. data[offset + 2] = p[2]
            <4>1. 2 \in 1..Len(p)
                BY <1>0, <2>5
            <4> QED
                BY <4>1 DEF Here
        <3>2. At(data, offset) = AtAppHead(data, offset)
            BY <2>2, <2>5 DEF At
        <3>3. CASE offset + 2 >= Len(data)
            <4>1. At(data, offset) = Stop
                BY <3>2, <3>3 DEF AtAppHead
            <4>2. offset + Len(p) = Len(data)
                BY <1>0, <2>5, <3>3
            <4> QED
                BY <2>0, <4>1, <4>2, NothingFollows
        <3>4. CASE ~(offset + 2 >= Len(data))
            <4>1. At(data, offset) = Skip
                BY <2>5, <3>1, <3>2, <3>4 DEF AtAppHead
            <4> QED
                BY <2>3, <4>1
        <3> QED
            BY <3>3, <3>4
    <2>6. CASE /\ Len(p) >= 4 /\ p[1] = V3_FRAME_HEAD_0 /\ p[2] = V3_FRAME_HEAD_1
               /\ \/ p[3] \notin DOMAIN V3Sizes
                  \/ p[3] \in Measured /\ p[4] \notin V3Sizes[p[3]]
        <3>1. \A k \in 1..4 : data[offset + k] = p[k]
            <4>1. Len(p) >= 4
                BY <2>6
            <4>2. \A k \in 1..4 : k \in 1..Len(p)
                BY <1>0, <4>1
            <4> QED
                BY <4>2 DEF Here
        <3>2. /\ data[offset + 2] = p[2] /\ data[offset + 3] = p[3] /\ data[offset + 4] = p[4]
              /\ ~(offset + 3 >= Len(data))
            <4>1. data[offset + 2] = p[2] /\ data[offset + 3] = p[3] /\ data[offset + 4] = p[4]
                BY <3>1
            <4>2. Len(p) >= 4
                BY <2>6
            <4>3. ~(offset + 3 >= Len(data))
                BY <1>0, <4>2
            <4> QED
                BY <4>1, <4>3
        <3>3. At(data, offset) = AtV3Head(data, offset)
            BY <2>2, <2>6 DEF At
        <3>4. AtV3Head(data, offset) = Skip
            BY <2>6, <3>2 DEF AtV3Head
        <3> QED
            BY <2>3, <3>3, <3>4
    <2> QED
        BY <1>3, <2>4, <2>5, <2>6 DEF IsRefused
<1> QED
    BY <1>2, <1>3 DEF IsNoise

(* A frame leads to the call it is meant for.                                *)
LEMMA FramePiece ==
    ASSUME NEW data \in Seq(Nat), NEW from_app, IsTrue(from_app),
           NEW calls, Parses(calls, data, from_app),
           NEW offset \in Nat, NEW p \in Seq(Nat), Here(data, offset, p), IsFrame(p)
    PROVE  calls[offset] = Joined(<< [to |-> Handler(p), data |-> p] >>, calls[offset + Len(p)])
<1> USE DEF APP_FRAME_HEAD, V3_FRAME_HEAD_0
<1>1. Len(p) >= 3 /\ p # <<>>
    BY DEF IsFrame
<1>2. CASE IsAppFrame(p)
    <2>1. At(data, offset) = Take(Len(p))
        BY <1>1, <1>2, AppTaken DEF IsAppFrame
    <2>2. Call(p, from_app) = << [to |-> Handler(p), data |-> p] >>
        BY <1>2 DEF Call, Handler, IsAppFrame, IsTrue
    <2> QED
        <3>1. calls[offset] = Joined(Call(p, from_app), calls[offset + Len(p)])
            BY <1>1, <2>1, TakePiece
        <3> QED
            BY <2>2, <3>1
<1>3. CASE IsV3Frame(p)
    <2>1. At(data, offset) = Take(Len(p))
        BY <1>1, <1>3, V3Taken
    <2>2. p[3] \in DOMAIN FromApp /\ p[1] # APP_FRAME_HEAD
        BY <1>3, HandlersAreNames DEF IsV3Frame
    <2>3. Call(p, from_app) = << [to |-> Handler(p), data |-> p] >>
        BY <2>2 DEF Call, Handler, IsTrue
    <2> QED
        <3>1. calls[offset] = Joined(Call(p, from_app), calls[offset + Len(p)])
            BY <1>1, <2>1, TakePiece
        <3> QED
            BY <2>3, <3>1
<1> QED
    BY <1>2, <1>3 DEF IsFrame

LEMMA BytesAreNats == ASSUME NEW s \in Seq(0..255) PROVE s \in Seq(Nat)
<1>1. 0..255 \subseteq Nat
    OBVIOUS
<1> QED
    BY <1>1, SeqMonotonic

(* What is not noise is the call it is meant for.                            *)
LEMMA OutcomeIsCalls ==
    ASSUME NEW f \in AppFrames \cup Noise
    PROVE  f.data \in Seq(Nat) /\ Outcome(f) \in Seq(AnyCall)
<1>1. f.data \in Seq(Nat)
    <2>1. f.data \in Seq(0..255)
        BY AppAssumption
    <2> QED
        BY <2>1, BytesAreNats
<1>2. CASE f \in Noise
    <2>1. Outcome(f) = <<>>
        BY <1>2, AppAssumption DEF Outcome
    <2> QED
        BY <1>1, <2>1
<1>3. CASE f \in AppFrames
    <2>1. f = [to |-> Handler(f.data), data |-> f.data] /\ IsFrame(f.data)
        BY <1>3, AppAssumption
    <2>2. Handler(f.data) \in Callee
        BY <2>1, HandlersAreNames DEF IsFrame, IsAppFrame, IsV3Frame, Handler, Callee,
            APP_FRAME_HEAD, V3_FRAME_HEAD_0
    <2>3. Handler(f.data) # "none"
        BY <2>2 DEF Callee
    <2>4. Outcome(f) = << [to |-> Handler(f.data), data |-> f.data] >>
        BY <2>1, <2>3 DEF Outcome
    <2>5. Outcome(f) \in Seq(AnyCall)
        BY <1>1, <2>2, <2>4 DEF AnyCall
    <2> QED
        BY <1>1, <2>5
<1> QED
    BY <1>2, <1>3

LEMMA PieceValue ==
    ASSUME NEW data \in Seq(Nat), NEW from_app, IsTrue(from_app),
           NEW calls, Parses(calls, data, from_app),
           NEW offset \in Nat, NEW f \in AppFrames \cup Noise, Here(data, offset, f.data)
    PROVE  /\ f.data \in Seq(Nat) /\ Outcome(f) \in Seq(AnyCall)
           /\ calls[offset] = Joined(Outcome(f), calls[offset + Len(f.data)])
<1>1. f.data \in Seq(0..255) /\ f.data \in Seq(Nat)
    <2>1. f.data \in Seq(0..255)
        BY AppAssumption
    <2> QED
        BY <2>1, BytesAreNats
<1>2. CASE f \in Noise
    <2>1. IsNoise(f.data) /\ Outcome(f) = <<>>
        BY <1>2, AppAssumption DEF Outcome
    <2>2. calls[offset] = calls[offset + Len(f.data)]
        <3> DEFINE p == f.data
        <3>1. p \in Seq(Nat) /\ Here(data, offset, p) /\ IsNoise(p)
            BY <1>1, <2>1
        <3> HIDE DEF p
        <3>2. calls[offset] = calls[offset + Len(p)]
            BY <3>1, NoisePiece
        <3> QED
            BY <3>2 DEF p
    <2>3. calls[offset + Len(f.data)] \in Seq(AnyCall)
        <3>1. offset + Len(f.data) \in Nat
            BY <1>1
        <3> QED
            BY <3>1 DEF Parses
    <2>4. calls[offset] = Joined(Outcome(f), calls[offset + Len(f.data)])
        BY <2>1, <2>2, <2>3, JoinedIsSeq
    <2>5. Outcome(f) \in Seq(AnyCall)
        BY <2>1
    <2> QED
        BY <1>1, <2>4, <2>5
<1>3. CASE f \in AppFrames
    <2>1. f = [to |-> Handler(f.data), data |-> f.data] /\ IsFrame(f.data)
        BY <1>3, AppAssumption
    <2>2. Handler(f.data) \in Callee
        BY <2>1, HandlersAreNames DEF IsFrame, IsAppFrame, IsV3Frame, Handler, Callee,
            APP_FRAME_HEAD, V3_FRAME_HEAD_0
    <2>3. Handler(f.data) # "none"
        BY <2>2 DEF Callee
    <2>4. Outcome(f) = << [to |-> Handler(f.data), data |-> f.data] >>
        BY <2>1, <2>3 DEF Outcome
    <2>5. Outcome(f) \in Seq(AnyCall)
        BY <1>1, <2>2, <2>4 DEF AnyCall
    <2>6. calls[offset] = Joined(Outcome(f), calls[offset + Len(f.data)])
        <3>1. calls[offset] = Joined(<< [to |-> Handler(f.data), data |-> f.data] >>,
                                     calls[offset + Len(f.data)])
            BY <1>1, <2>1, FramePiece
        <3> QED
            BY <2>4, <3>1
    <2> QED
        BY <1>1, <2>5, <2>6
<1> QED
    BY <1>2, <1>3

(* Sequence after sequence, each stands in the whole where the ones before it *)
(* end.                                                                      *)
LEMMA PieceIsHere ==
    ASSUME NEW s \in Seq(Seq(Nat)), NEW f \in [0..Len(s) -> Seq(Nat)], Appended(f, s),
           NEW i \in 1..Len(s)
    PROVE  /\ Here(f[Len(s)], Len(f[i - 1]), s[i])
           /\ Len(f[i]) = Len(f[i - 1]) + Len(s[i])
<1> DEFINE N == Len(s)
           Begins(t, u) == Len(t) =< Len(u) /\ \A k \in 1..Len(t) : u[k] = t[k]
           S == {n \in Nat : i + n =< N => Begins(f[i], f[i + n])}
<1>a. N \in Nat /\ i \in 1..N /\ i - 1 \in 0..N /\ i \in 0..N /\ i \in Nat
    OBVIOUS
<1>b. (\A j \in 0..N : f[j] \in Seq(Nat)) /\ (\A j \in 1..N : s[j] \in Seq(Nat))
    <2>1. \A j \in 0..N : f[j] \in Seq(Nat)
        OBVIOUS
    <2>2. \A j \in 1..N : s[j] \in Seq(Nat)
        BY ElementOfSeq
    <2> QED
        BY <2>1, <2>2
<1>0. N \in Nat /\ f[i - 1] \in Seq(Nat) /\ f[i] \in Seq(Nat) /\ s[i] \in Seq(Nat)
    BY <1>a, <1>b
<1>1. 0 \in S
    BY <1>0
<1>2. ASSUME NEW n \in Nat, n \in S PROVE n + 1 \in S
    <2> SUFFICES ASSUME i + (n + 1) =< N PROVE Begins(f[i], f[i + (n + 1)])
        OBVIOUS
    <2>1. i + n \in 0..N /\ i + (n + 1) \in 1..N /\ (i + (n + 1)) - 1 = i + n
        BY <1>a
    <2>2. f[i + n] \in Seq(Nat) /\ s[i + (n + 1)] \in Seq(Nat)
        BY <1>b, <2>1
    <2>3. f[i + (n + 1)] = Joined(f[i + n], s[i + (n + 1)])
        BY <2>1 DEF Appended
    <2> DEFINE t == f[i]  u == f[i + n]  v == s[i + (n + 1)]  w == f[i + (n + 1)]
    <2>4. t \in Seq(Nat) /\ u \in Seq(Nat) /\ v \in Seq(Nat) /\ w = Joined(u, v) /\ Begins(t, u)
        BY <1>0, <1>2, <2>1, <2>2, <2>3
    <2> HIDE DEF t, u, v, w
    <2>5. Len(w) = Len(u) + Len(v) /\ \A k \in 1..Len(u) : w[k] = u[k]
        BY <2>4, JoinedIsSeq
    <2>6. Len(t) \in Nat /\ Len(u) \in Nat /\ Len(v) \in Nat
        BY <2>4
    <2>7. Begins(t, w)
        <3>1. Len(t) =< Len(w) /\ Len(t) =< Len(u)
            BY <2>4, <2>5, <2>6
        <3>2. ASSUME NEW k \in 1..Len(t) PROVE w[k] = t[k]
            <4>1. k \in 1..Len(u)
                BY <2>6, <3>1
            <4>2. u[k] = t[k]
                BY <2>4
            <4> QED
                BY <2>5, <4>1, <4>2
        <3> QED
            BY <3>1, <3>2
    <2> QED
        BY <2>7 DEF t, w
<1>3. N - i \in S
    <2> HIDE DEF S
    <2>1. Nat \subseteq S
        BY <1>1, <1>2, Induction
    <2> QED
        BY <1>a, <2>1, N - i \in Nat
<1>4. Begins(f[i], f[N])
    BY <1>a, <1>3, i + (N - i) = N
<1>5. f[i] = Joined(f[i - 1], s[i])
    BY DEF Appended
<1> DEFINE t == f[i - 1]  u == s[i]  v == f[i]  w == f[N]
<1>6. t \in Seq(Nat) /\ u \in Seq(Nat) /\ v = Joined(t, u) /\ Begins(v, w)
    BY <1>0, <1>4, <1>5
<1> HIDE DEF t, u, v, w
<1>7. Len(v) = Len(t) + Len(u) /\ \A k \in 1..Len(u) : v[Len(t) + k] = u[k]
    <2>1. t \in Seq(Nat) /\ u \in Seq(Nat) /\ v = Joined(t, u)
        BY <1>6
    <2>2. Len(Joined(t, u)) = Len(t) + Len(u)
        BY <2>1, JoinedIsSeq
    <2>3. \A k \in 1..Len(u) : Joined(t, u)[Len(t) + k] = u[k]
        BY <2>1, JoinedBehind
    <2> QED
        BY <2>1, <2>2, <2>3
<1>8. Len(t) \in Nat /\ Len(u) \in Nat
    BY <1>6
<1>9. ASSUME NEW k \in 1..Len(u) PROVE w[Len(t) + k] = u[k]
    <2>1. Len(t) + k \in 1..Len(v)
        BY <1>7, <1>8
    <2> QED
        BY <1>6, <1>7, <2>1
<1>10. Here(w, Len(t), u)
    BY <1>6, <1>7, <1>9 DEF Here
<1> QED
    BY <1>7, <1>10 DEF t, u, v, w

(* V3_parse_buffer gives every frame of a write to its handler, in order.     *)
LEMMA WriteLeadsTo ==
    ASSUME NEW frames \in Seq(AppFrames \cup Noise)
    PROVE  V3_handle_app_data(FlattenSeq([i \in DOMAIN frames |-> frames[i].data]))
               = FlattenSeq([i \in DOMAIN frames |-> Outcome(frames[i])])
<1> DEFINE N == Len(frames)
           s == [i \in DOMAIN frames |-> frames[i].data]
           e == [i \in DOMAIN frames |-> Outcome(frames[i])]
<1>0. N \in Nat /\ DOMAIN frames = 1..N /\ \A i \in 1..N : frames[i] \in AppFrames \cup Noise
    OBVIOUS
<1>1. \A f \in AppFrames \cup Noise : f.data \in Seq(Nat) /\ Outcome(f) \in Seq(AnyCall)
    BY OutcomeIsCalls
<1>2. s \in Seq(Seq(Nat)) /\ Len(s) = N /\ \A i \in 1..N : s[i] = frames[i].data
    BY <1>0, <1>1
<1>3. e \in Seq(Seq(AnyCall)) /\ Len(e) = N /\ \A i \in 1..N : e[i] = Outcome(frames[i])
    BY <1>0, <1>1
<1> HIDE DEF s, e
<1>4. PICK f \in [0..N -> Seq(Nat)] : Appended(f, s)
    BY <1>2, AppendedExists
<1>5. PICK g \in [0..N -> Seq(AnyCall)] : Appended(g, e)
    BY <1>3, AppendedExists
<1> DEFINE data == f[N]
<1>6. FlattenSeq(s) = data /\ FlattenSeq(e) = g[N] /\ data \in Seq(Nat) /\ g[N] \in Seq(AnyCall)
    BY <1>0, <1>2, <1>3, <1>4, <1>5, FlattenIsAppended, SMTT(30)
<1> HIDE DEF data
<1>7. PICK app_data \in BOOLEAN : IsTrue(app_data)
    BY DEF IsTrue
<1>8. V3_handle_app_data(data) = V3_parse_buffer(data, app_data)
    BY <1>7 DEF V3_handle_app_data, IsTrue
<1>9. PICK calls : Parses(calls, data, app_data) /\ V3_parse_buffer(data, app_data) = calls[0]
    BY <1>6, ParseBuffer
<1>10. \A o \in Nat : calls[o] \in Seq(AnyCall)
    BY <1>9 DEF Parses
<1> DEFINE S == {n \in Nat : n =< N => calls[0] = Joined(g[n], calls[Len(f[n])])}
<1>11. 0 \in S
    <2>1. f[0] = <<>> /\ g[0] = <<>>
        BY <1>4, <1>5 DEF Appended
    <2>2. Joined(<<>>, calls[0]) = calls[0]
        BY <1>10, JoinedIsSeq
    <2> QED
        BY <2>1, <2>2
<1>12. ASSUME NEW n \in Nat, n \in S PROVE n + 1 \in S
    <2> SUFFICES ASSUME n + 1 =< N PROVE calls[0] = Joined(g[n + 1], calls[Len(f[n + 1])])
        OBVIOUS
    <2>1. n \in 0..N /\ n + 1 \in 1..N /\ (n + 1) - 1 = n
        BY <1>0
    <2> DEFINE o == Len(f[n])
               piece == frames[n + 1]
    <2>2. f[n] \in Seq(Nat) /\ g[n] \in Seq(AnyCall) /\ piece \in AppFrames \cup Noise /\ o \in Nat
        <3>1. f[n] \in Seq(Nat) /\ g[n] \in Seq(AnyCall)
            BY <2>1
        <3>2. piece \in AppFrames \cup Noise
            BY <1>0, <2>1
        <3> QED
            BY <3>1, <3>2
    <2>3. calls[0] = Joined(g[n], calls[o])
        BY <1>12, <2>1
    <2>4. g[n + 1] = Joined(g[n], Outcome(piece))
        BY <1>3, <1>5, <2>1 DEF Appended
    <2>5. Here(data, o, piece.data) /\ Len(f[n + 1]) = o + Len(piece.data)
        <3>1. f \in [0..Len(s) -> Seq(Nat)] /\ n + 1 \in 1..Len(s)
            BY <1>2, <2>1
        <3>2. Here(f[Len(s)], Len(f[(n + 1) - 1]), s[n + 1]) /\ Len(f[n + 1]) = Len(f[(n + 1) - 1]) + Len(s[n + 1])
            BY <1>2, <1>4, <3>1, PieceIsHere
        <3>3. s[n + 1] = piece.data /\ f[Len(s)] = data
            BY <1>2, <2>1 DEF data
        <3> QED
            BY <2>1, <3>2, <3>3
    <2> HIDE DEF o, piece
    <2>6. /\ piece.data \in Seq(Nat) /\ Outcome(piece) \in Seq(AnyCall)
          /\ calls[o] = Joined(Outcome(piece), calls[o + Len(piece.data)])
        BY <1>6, <1>7, <1>9, <2>2, <2>5, PieceValue
    <2>7. calls[Len(f[n + 1])] \in Seq(AnyCall)
        BY <1>10, <2>2, <2>5, <2>6
    <2>8. Joined(g[n], Joined(Outcome(piece), calls[Len(f[n + 1])]))
              = Joined(Joined(g[n], Outcome(piece)), calls[Len(f[n + 1])])
        BY <2>2, <2>6, <2>7, JoinedAssociative
    <2> QED
        BY <2>3, <2>4, <2>5, <2>6, <2>8
<1>13. N \in S
    <2> HIDE DEF S
    <2>1. Nat \subseteq S
        BY <1>11, <1>12, Induction
    <2> QED
        BY <1>0, <2>1
<1>14. calls[0] = Joined(g[N], calls[Len(data)])
    BY <1>0, <1>13 DEF data
<1>15. calls[Len(data)] = <<>>
    BY <1>6, <1>9, NothingFollows
<1>16. calls[0] = g[N]
    BY <1>6, <1>14, <1>15, JoinedIsSeq
<1> QED
    BY <1>6, <1>8, <1>9, <1>16 DEF s, e

(* A BLE write is taken apart into its frames, whatever the parser meets in   *)
(* front of, inside and behind them (WriteParsed; V3_parse_buffer).           *)
THEOREM WritesAreParsed == Spec => []WriteParsed
<1>1. Init => WriteParsed
    <2> SUFFICES ASSUME Init PROVE WriteParsed
        OBVIOUS
    <2>1. parsed = <<>> /\ [i \in DOMAIN write |-> Outcome(write[i])] = <<>>
        BY DEF Init
    <2>2. FlattenSeq(<<>>) = <<>>
        BY DEF FlattenSeq
    <2> QED
        BY <2>1, <2>2 DEF WriteParsed, Outcome
<1>2. WriteParsed /\ [Next]_vars => WriteParsed'
    <2> SUFFICES ASSUME WriteParsed, [Next]_vars PROVE WriteParsed'
        OBVIOUS
    <2>1. CASE SendFrame
        <3>1. parsed' = <<>> /\ [i \in DOMAIN write' |-> Outcome(write'[i])] = <<>>
            BY <2>1 DEF SendFrame
        <3>2. FlattenSeq(<<>>) = <<>>
            BY DEF FlattenSeq
        <3> QED
            BY <3>1, <3>2 DEF WriteParsed, Outcome
    <2>2. CASE write_vnd
        <3>1. PICK frames \in BoundedSeq(AppFrames \cup Noise, MaxWrite) :
                  /\ write' = frames
                  /\ parsed' = V3_handle_app_data(FlattenSeq([i \in DOMAIN frames |-> frames[i].data]))
            BY <2>2 DEF write_vnd
        <3>2. frames \in Seq(AppFrames \cup Noise)
            BY SeqDef, UartRxAssumption DEF BoundedSeq, SeqOf
        <3>3. parsed' = FlattenSeq([i \in DOMAIN frames |-> Outcome(frames[i])])
            BY <3>1, <3>2, WriteLeadsTo
        <3> QED
            BY <3>1, <3>3 DEF WriteParsed, Outcome
    <2>3. CASE UNCHANGED app
        BY <2>3 DEF WriteParsed, app
    <2> QED
        BY <2>1, <2>2, <2>3 DEF Next, Arrive, Lose, DataEvent, TimeoutEvent, vars
<1> QED
    BY <1>1, <1>2, PTL DEF Spec

-----------------------------------------------------------------------------
(* The UART: the bytes of the controller's frames                            *)

USE DEF CTRL_RSP_FRAME_LEN, V3_FRAME_HEAD_0, V3_FRAME_HEAD_1, READ_CTRL, WRITE_CTRL

(* The largest of some naturals below a bound.                               *)
LEMMA MaxIsThere ==
    ASSUME NEW m \in Nat, NEW S, S \subseteq 0..m, S # {}
    PROVE  Max(S) \in S /\ \A y \in S : Max(S) >= y
<1> DEFINE T == {n \in Nat : m - n \in S}
<1>1. T \subseteq Nat /\ T # {}
    <2>1. PICK x \in S : TRUE
        OBVIOUS
    <2>2. m - x \in Nat /\ m - (m - x) = x
        BY <2>1
    <2> QED
        BY <2>1, <2>2
<1>2. PICK n \in T : \A k \in T : n =< k
    BY <1>1, Least
<1>3. m - n \in S /\ \A y \in S : m - n >= y
    <2>1. m - n \in S
        BY <1>2
    <2>2. ASSUME NEW y \in S PROVE m - n >= y
        <3>1. y \in Nat /\ m - y \in Nat /\ m - (m - y) = y
            OBVIOUS
        <3>2. m - y \in T
            BY <3>1
        <3> QED
            BY <1>2, <3>1, <3>2
    <2> QED
        BY <2>1, <2>2
<1> QED
    BY <1>3 DEF Max

(* Where the bytes of a frame are.                                           *)
FrameLength(kind) ==
    CASE kind = "ota" -> CTRL_RSP_FRAME_LEN
      [] kind = "v3"  -> V3_FRAME_SIZE_NORMAL
      [] kind = "v2"  -> 2
      [] kind = "uc"  -> 3

LEMMA Sizes ==
    /\ V3_FRAME_SIZE_NORMAL \in 4..255
    /\ MaxFrames \in Nat /\ MaxBurst \in Nat \ {0} /\ RX_BUFFER_SIZE \in Nat
    /\ V3_FRAME_SIZE_NORMAL - 1 + 8 * MaxBurst =< RX_BUFFER_SIZE
    /\ V3_FRAME_SIZE_NORMAL - 1 + V3_FRAME_SIZE_NORMAL =< RX_BUFFER_SIZE
    /\ MCU_MAX_LEN \in Nat /\ 3 =< MCU_MAX_LEN
    /\ FifoSize \in Nat /\ FifoLevel \in 2..FifoSize
    /\ MaxPauses \in Nat /\ MaxLoss \in Nat
BY V3ParserAssumption, UartRxAssumption, RoomAssumption DEF UC_GET_MAC

(* The command of a register reply.                                          *)
Command == {READ_CTRL, WRITE_CTRL}

LEMMA ContentBytes ==
    ASSUME NEW n \in 1..MaxFrames
    PROVE  /\ Content[n].reply \in Byte
           /\ Content[n].cmd \in Command /\ Content[n].cmd \in Byte
           /\ Content[n].regs \in [1..(V3_FRAME_SIZE_NORMAL - 3) -> Byte]
           /\ Content[n].word \in [1..2 -> Byte]
<1>1. Content[n] \in [reply : Byte, cmd : {READ_CTRL, WRITE_CTRL},
                      regs : [1..(V3_FRAME_SIZE_NORMAL - 3) -> Byte], word : [1..2 -> Byte]]
    BY ContentAssumption
<1>2. Command \subseteq Byte
    BY DEF Command, Byte, READ_CTRL, WRITE_CTRL
<1> QED
    BY <1>1, <1>2 DEF Command

LEMMA V3FrameBytes ==
    ASSUME NEW n \in 1..MaxFrames
    PROVE  /\ Frame("v3", n) \in Seq(Byte) /\ Len(Frame("v3", n)) = V3_FRAME_SIZE_NORMAL
           /\ Frame("v3", n)[1] = V3_FRAME_HEAD_0
           /\ Frame("v3", n)[2] = V3_FRAME_HEAD_1
           /\ Frame("v3", n)[3] \in Command
           /\ \A i \in 4..V3_FRAME_SIZE_NORMAL : Frame("v3", n)[i] = Content[n].regs[i - 3]
<1> DEFINE N == V3_FRAME_SIZE_NORMAL
           a == V3_HEAD
           b == << Content[n].cmd >>
           c == Content[n].regs
<1>0. N \in Nat /\ N >= 4 /\ Content[n].cmd \in Byte /\ Content[n].cmd \in Command
      /\ Content[n].regs \in [1..(N - 3) -> Byte]
    BY Sizes, ContentBytes
<1>1. a \in Seq(Byte) /\ Len(a) = 2 /\ a[1] = V3_FRAME_HEAD_0 /\ a[2] = V3_FRAME_HEAD_1
    BY DEF V3_HEAD, Byte
<1>2. b \in Seq(Byte) /\ Len(b) = 1 /\ b[1] \in Command
    BY <1>0
<1>3. c \in Seq(Byte) /\ Len(c) = N - 3 /\ \A i \in 1..(N - 3) : c[i] = Content[n].regs[i]
    BY <1>0
<1>4. Frame("v3", n) = Joined(Joined(a, b), c)
    BY DEF Frame, Joined
<1> HIDE DEF a, b, c
<1> DEFINE d == Joined(a, b)
           f == Joined(d, c)
<1>5. d \in Seq(Byte) /\ Len(d) = 3 /\ d[1] = a[1] /\ d[2] = a[2] /\ d[3] = b[1]
    <2>0. a \in Seq(Byte) /\ b \in Seq(Byte)
        BY <1>1, <1>2
    <2>1. d \in Seq(Byte) /\ Len(d) = Len(a) + Len(b)
        BY <2>0, JoinedIsSeq
    <2>2. \A i \in 1..Len(a) : d[i] = a[i]
        BY <2>0, JoinedFront
    <2>3. \A i \in 1..Len(b) : d[Len(a) + i] = b[i]
        BY <2>0, JoinedBehind
    <2> HIDE DEF d
    <2> QED
        BY <1>1, <1>2, <2>1, <2>2, <2>3
<1> HIDE DEF d
<1>6. f \in Seq(Byte) /\ Len(f) = N /\ f[1] = d[1] /\ f[2] = d[2] /\ f[3] = d[3]
      /\ \A i \in 1..(N - 3) : f[3 + i] = c[i]
    <2>0. d \in Seq(Byte) /\ c \in Seq(Byte)
        BY <1>3, <1>5
    <2>1. f \in Seq(Byte) /\ Len(f) = Len(d) + Len(c)
        BY <2>0, JoinedIsSeq
    <2>2. \A i \in 1..Len(d) : f[i] = d[i]
        BY <2>0, JoinedFront
    <2>3. \A i \in 1..Len(c) : f[Len(d) + i] = c[i]
        BY <2>0, JoinedBehind
    <2> HIDE DEF f
    <2>4. Len(f) = N
        BY <1>0, <1>3, <1>5, <2>1
    <2>5. 1 \in 1..Len(d) /\ 2 \in 1..Len(d) /\ 3 \in 1..Len(d)
        BY <1>5
    <2>6. f[1] = d[1] /\ f[2] = d[2] /\ f[3] = d[3]
        BY <2>2, <2>5
    <2>7. \A i \in 1..(N - 3) : f[3 + i] = c[i]
        BY <1>3, <1>5, <2>3
    <2> HIDE DEF N
    <2> QED
        BY <2>1, <2>4, <2>6, <2>7
<1> HIDE DEF f
<1>7. \A i \in 4..N : f[i] = Content[n].regs[i - 3]
    <2> TAKE i \in 4..N
    <2>1. i - 3 \in 1..(N - 3) /\ 3 + (i - 3) = i
        BY <1>0
    <2> QED
        BY <1>3, <1>6, <2>1
<1>8. Frame("v3", n) = f
    BY <1>4 DEF f, d
<1> QED
    BY <1>1, <1>2, <1>5, <1>6, <1>7, <1>8

LEMMA AppendIsThere ==
    ASSUME NEW T, NEW s \in Seq(T), NEW e \in T
    PROVE  /\ Append(s, e) \in Seq(T) /\ Len(Append(s, e)) = Len(s) + 1
           /\ Append(s, e)[Len(s) + 1] = e
BY AppendProperties

LEMMA AppendFront ==
    ASSUME NEW T, NEW s \in Seq(T), NEW e \in T, NEW i \in 1..Len(s)
    PROVE  Append(s, e)[i] = s[i]
BY AppendProperties

LEMMA OtaFrameBytes ==
    ASSUME NEW n \in 1..MaxFrames
    PROVE  /\ Frame("ota", n) \in Seq(Byte) /\ Len(Frame("ota", n)) = 8
           /\ \A i \in 1..7 : Frame("ota", n)[i] = CTRL_OTA_HEAD[i]
           /\ Frame("ota", n)[8] = Content[n].reply
<1> DEFINE F == Append(CTRL_OTA_HEAD, Content[n].reply)
<1>1. Content[n].reply \in Byte
    BY ContentBytes
<1>2. CTRL_OTA_HEAD \in Seq(Byte) /\ Len(CTRL_OTA_HEAD) = 7
    BY DEF CTRL_OTA_HEAD, Byte
<1>3. F \in Seq(Byte) /\ Len(F) = Len(CTRL_OTA_HEAD) + 1
    BY <1>1, <1>2, AppendIsThere
<1>4. /\ \A i \in 1..Len(CTRL_OTA_HEAD) : F[i] = CTRL_OTA_HEAD[i]
      /\ F[Len(CTRL_OTA_HEAD) + 1] = Content[n].reply
    <2>1. CTRL_OTA_HEAD \in Seq(Byte) /\ Content[n].reply \in Byte
        BY <1>1, <1>2
    <2>2. \A i \in 1..Len(CTRL_OTA_HEAD) : F[i] = CTRL_OTA_HEAD[i]
        BY <2>1, AppendFront
    <2>3. F[Len(CTRL_OTA_HEAD) + 1] = Content[n].reply
        BY <2>1, AppendIsThere
    <2> QED
        BY <2>2, <2>3
<1> HIDE DEF F
<1>5. Frame("ota", n) = F
    BY DEF Frame, F
<1> QED
    BY <1>2, <1>3, <1>4, <1>5

LEMMA OtherFrameBytes ==
    ASSUME NEW n \in 1..MaxFrames
    PROVE  /\ Frame("v2", n) = Content[n].word
           /\ Frame("v2", n) \in Seq(Byte) /\ Len(Frame("v2", n)) = 2
           /\ Frame("uc", n) = <<\hAA, \h10, \h55>>
<1>1. Content[n].word \in Seq(Byte) /\ Len(Content[n].word) = 2
    <2>1. Content[n].word \in [1..2 -> Byte]
        BY ContentBytes
    <2>2. \A m \in Nat : \A w \in [1..m -> Byte] : w \in Seq(Byte) /\ Len(w) = m
        OBVIOUS
    <2> QED
        BY <2>1, <2>2, 2 \in Nat
<1> QED
    BY <1>1 DEF Frame, UC_GET_MAC

LEMMA FrameBytes ==
    ASSUME NEW kind \in Kind, NEW n \in 1..MaxFrames
    PROVE  /\ Frame(kind, n) \in Seq(Byte)
           /\ Len(Frame(kind, n)) = FrameLength(kind)
           /\ FrameLength(kind) \in 2..255
<1>1. CASE kind = "v3"
    BY <1>1, V3FrameBytes, Sizes DEF FrameLength
<1>2. CASE kind = "ota"
    BY <1>2, OtaFrameBytes DEF FrameLength
<1>3. CASE kind = "v2"
    BY <1>3, OtherFrameBytes DEF FrameLength
<1>4. CASE kind = "uc"
    <2>1. Frame(kind, n) = <<\hAA, \h10, \h55>> /\ FrameLength(kind) = 3
        BY <1>4, OtherFrameBytes DEF FrameLength
    <2>2. <<\hAA, \h10, \h55>> \in Seq(Byte)
        BY DEF Byte
    <2> QED
        BY <2>1, <2>2
<1> QED
    BY <1>1, <1>2, <1>3, <1>4 DEF Kind

(* The bytes on their way to the handler: those of the buffer in use, those  *)
(* in the FIFO, those on the line.                                           *)
Stream ==
    [i \in 1..(USART_RX_CNT + Len(fifo) + Len(line)) |->
        IF i =< USART_RX_CNT THEN RX_Sendata[i - 1]
        ELSE IF i =< USART_RX_CNT + Len(fifo) THEN fifo[i - USART_RX_CNT]
        ELSE line[i - USART_RX_CNT - Len(fifo)]]

(* The line carries the end of the last frame.                               *)
TailOf(bytes, frame) ==
    /\ Len(bytes) =< Len(frame)
    /\ \A k \in 1..Len(bytes) : bytes[k] = frame[Len(frame) - Len(bytes) + k]

LastFrame == Frame(sent[Len(sent)], Len(sent))

(* What has been sent since the interrupt saw a pause.                       *)
SincePause ==
    IF burst > 0 THEN CTRL_RSP_FRAME_LEN * burst
    ELSE IF sent = <<>> THEN 0 ELSE Len(LastFrame)

(* How much of the stream the interrupt has, or is about to find.            *)
Within == USART_RX_CNT + Len(fifo)

IsLast(kinds) == sent # <<>> /\ sent[Len(sent)] \in kinds

NoHead(bytes) == \A i \in 1..Len(bytes) : bytes[i] # V3_FRAME_HEAD_0

(* Where the stream begins with the first byte of a register head, that is   *)
(* the head of a register reply: its three bytes are there, or the second is *)
(* lost and the command there in its place, or on the line; or the stream is *)
(* the last frame and no more, as when that is a V2 reply.                   *)
FrontIsReply ==
    Stream # <<>> /\ Stream[1] = V3_FRAME_HEAD_0 =>
        \/ Within >= 3 /\ Stream[2] = V3_FRAME_HEAD_1 /\ Stream[3] \in Command
        \/ Within >= 2 /\ Stream[2] \in Command
        \/ IsLast({"v2", "v3"}) /\ Stream = LastFrame /\ LastFrame # V3_HEAD
        \/ IsLast({"v3"}) /\ Within = 1 /\ Len(line) = V3_FRAME_SIZE_NORMAL - 2

(* The rest of a register reply of which the interrupt has nothing.          *)
RestHasNone ==
    Within = 0 /\ line # <<>> /\ IsLast({"v3"}) /\ Len(line) =< V3_FRAME_SIZE_NORMAL - 3
        => NoHead(line)

(* What a pause leaves in the buffer: a register reply, not whole.           *)
KeptIsReply ==
    fifo = <<>> => /\ USART_RX_CNT < V3_FRAME_SIZE_NORMAL
                   /\ USART_RX_CNT > 0 => /\ USART_RX_CNT >= 2
                                          /\ Stream[1] = V3_FRAME_HEAD_0
                                          /\ Stream[2] = V3_FRAME_HEAD_1

UartInv ==
    /\ Sound
    /\ Len(sent) =< MaxFrames
    /\ burst > 0 => IsLast({"ota"})
    /\ line # <<>> => sent # <<>> /\ TailOf(line, LastFrame)
    /\ USART_RX_CNT + Len(fifo) + Len(line) =< V3_FRAME_SIZE_NORMAL - 1 + SincePause
    /\ FrontIsReply
    /\ RestHasNone
    /\ KeptIsReply

-----------------------------------------------------------------------------
(* The stream and the steps                                                  *)

LEMMA LastFrameBytes ==
    ASSUME Sound, Len(sent) =< MaxFrames, sent # <<>>
    PROVE  /\ Len(sent) \in 1..MaxFrames /\ sent[Len(sent)] \in Kind
           /\ LastFrame \in Seq(Byte) /\ Len(LastFrame) = FrameLength(sent[Len(sent)])
           /\ Len(LastFrame) \in 2..255
           /\ Len(LastFrame) = V3_FRAME_SIZE_NORMAL \/ Len(LastFrame) =< 8
<1>1. sent \in Seq(Kind)
    BY DEF Sound
<1>2. Len(sent) \in 1..MaxFrames /\ sent[Len(sent)] \in Kind
    BY <1>1
<1> DEFINE kind == sent[Len(sent)]
           n == Len(sent)
<1>3. /\ Frame(kind, n) \in Seq(Byte) /\ Len(Frame(kind, n)) = FrameLength(kind)
      /\ FrameLength(kind) \in 2..255
    BY <1>2, FrameBytes
<1>4. FrameLength(kind) = V3_FRAME_SIZE_NORMAL \/ FrameLength(kind) =< 8
    BY <1>2 DEF FrameLength, Kind
<1> QED
    BY <1>2, <1>3, <1>4 DEF LastFrame

LEMMA Fits ==
    ASSUME UartInv
    PROVE  /\ SincePause \in Nat
           /\ USART_RX_CNT + Len(fifo) + Len(line) =< RX_BUFFER_SIZE
<1>1. /\ Sound /\ Len(sent) =< MaxFrames /\ burst \in 0..MaxBurst
      /\ USART_RX_CNT + Len(fifo) + Len(line) =< V3_FRAME_SIZE_NORMAL - 1 + SincePause
      /\ USART_RX_CNT \in Nat /\ Len(fifo) \in Nat /\ Len(line) \in Nat
    BY DEF UartInv, Sound
<1>2. SincePause \in Nat /\ (SincePause =< V3_FRAME_SIZE_NORMAL \/ SincePause =< 8 * MaxBurst)
    <2>1. CASE burst > 0
        BY <1>1, <2>1, Sizes DEF SincePause
    <2>2. CASE burst = 0 /\ sent = <<>>
        BY <2>2, Sizes DEF SincePause
    <2>3. CASE burst = 0 /\ sent # <<>>
        <3>1. SincePause = Len(LastFrame)
            BY <2>3 DEF SincePause
        <3>2. Len(LastFrame) \in 2..255 /\ (Len(LastFrame) = V3_FRAME_SIZE_NORMAL \/ Len(LastFrame) =< 8)
            BY <1>1, <2>3, LastFrameBytes
        <3> HIDE DEF LastFrame
        <3> QED
            BY <3>1, <3>2, Sizes, SMTT(30)
    <2> QED
        BY <1>1, <2>1, <2>2, <2>3
<1> QED
    BY <1>1, <1>2, Sizes

LEMMA StreamBytes ==
    ASSUME Sound
    PROVE  /\ USART_RX_CNT \in Nat /\ Len(fifo) \in Nat /\ Len(line) \in Nat
           /\ Stream \in Seq(Byte)
           /\ Len(Stream) = USART_RX_CNT + Len(fifo) + Len(line)
           /\ \A i \in 1..USART_RX_CNT : Stream[i] = RX_Sendata[i - 1]
           /\ \A i \in 1..Len(fifo) : Stream[USART_RX_CNT + i] = fifo[i]
           /\ \A i \in 1..Len(line) : Stream[USART_RX_CNT + Len(fifo) + i] = line[i]
<1> DEFINE c == USART_RX_CNT  f == Len(fifo)  l == Len(line)
           B(i) == IF i =< c THEN RX_Sendata[i - 1] ELSE IF i =< c + f THEN fifo[i - c] ELSE line[i - c - f]
<1>1. c \in 0..RX_BUFFER_SIZE /\ RX_BUFFER_SIZE \in Nat /\ f \in Nat /\ l \in Nat
    BY Sizes DEF Sound
<1>2. /\ \A i \in 0..(RX_BUFFER_SIZE - 1) : RX_Sendata[i] \in Byte
      /\ \A i \in 1..f : fifo[i] \in Byte
      /\ \A i \in 1..l : line[i] \in Byte
    <2>1. \A i \in DOMAIN RX_Sendata : RX_Sendata[i] \in Byte
        BY DEF Sound
    <2>2. DOMAIN RX_Sendata = 0..(RX_BUFFER_SIZE - 1) /\ fifo \in Seq(Byte) /\ line \in Seq(Byte)
        BY DEF Sound
    <2>3. (\A i \in 1..f : fifo[i] \in Byte) /\ (\A i \in 1..l : line[i] \in Byte)
        BY <2>2, ElementOfSeq
    <2> QED
        BY <2>1, <2>2, <2>3
<1>3. Stream = [i \in 1..(c + f + l) |-> B(i)]
    BY DEF Stream
<1> HIDE DEF c, f, l
<1>4. \A i \in 1..c : B(i) = RX_Sendata[i - 1] /\ i - 1 \in 0..(RX_BUFFER_SIZE - 1)
    BY <1>1
<1>5. \A i \in 1..f : B(c + i) = fifo[i]
    BY <1>1
<1>6. \A i \in 1..l : B(c + f + i) = line[i]
    BY <1>1
<1>7. \A i \in 1..(c + f + l) : B(i) \in Byte
    <2> TAKE i \in 1..(c + f + l)
    <2>1. CASE i =< c
        BY <1>1, <1>2, <1>4, <2>1
    <2>2. CASE i > c /\ i =< c + f
        <3>1. i - c \in 1..f /\ B(i) = fifo[i - c]
            BY <1>1, <2>2
        <3> QED
            BY <1>2, <3>1
    <2>3. CASE i > c + f
        <3>1. i - c - f \in 1..l /\ B(i) = line[i - c - f]
            BY <1>1, <2>3
        <3> QED
            BY <1>2, <3>1
    <2> QED
        BY <1>1, <2>1, <2>2, <2>3
<1> HIDE DEF B
<1>8. c + f + l \in Nat
    BY <1>1
<1>9. Stream \in Seq(Byte) /\ Len(Stream) = c + f + l /\ \A i \in 1..(c + f + l) : Stream[i] = B(i)
    BY <1>3, <1>7, <1>8
<1>10. /\ \A i \in 1..c : i \in 1..(c + f + l)
       /\ \A i \in 1..f : c + i \in 1..(c + f + l)
       /\ \A i \in 1..l : c + f + i \in 1..(c + f + l)
    BY <1>1
<1>11. /\ \A i \in 1..c : Stream[i] = RX_Sendata[i - 1]
       /\ \A i \in 1..f : Stream[c + i] = fifo[i]
       /\ \A i \in 1..l : Stream[c + f + i] = line[i]
    BY <1>4, <1>5, <1>6, <1>9, <1>10
<1> QED
    BY <1>1, <1>9, <1>11 DEF c, f, l

LEMMA ArriveKeeps ==
    ASSUME Sound, Arrive
    PROVE  /\ Stream' = Stream
           /\ line # <<>> /\ fifo' # <<>> /\ fifo' \in Seq(Byte) /\ line' \in Seq(Byte)
           /\ Len(fifo') = Len(fifo) + 1 /\ Len(line') = Len(line) - 1
           /\ \A i \in 1..Len(line') : line'[i] = line[i + 1]
<1> DEFINE c == USART_RX_CNT  f == Len(fifo)  l == Len(line)
           B(i) == IF i =< c THEN RX_Sendata[i - 1] ELSE IF i =< c + f THEN fifo[i - c] ELSE line[i - c - f]
           D(i) == IF i =< c THEN RX_Sendata[i - 1]
                   ELSE IF i =< c + (f + 1) THEN fifo'[i - c] ELSE line'[i - c - (f + 1)]
<1>1. c \in Nat /\ f \in Nat /\ l \in Nat /\ fifo \in Seq(Byte) /\ line \in Seq(Byte)
    BY StreamBytes DEF Sound
<1>2. /\ line # <<>> /\ fifo' = Append(fifo, line[1]) /\ line' = Tail(line)
      /\ RX_Sendata' = RX_Sendata /\ USART_RX_CNT' = c
    BY <1>1 DEF Arrive, Quiet
<1>3. l >= 1 /\ line[1] \in Byte
    BY <1>1, <1>2
<1>4. fifo' \in Seq(Byte) /\ Len(fifo') = f + 1 /\ fifo'[f + 1] = line[1]
    BY <1>1, <1>2, <1>3, AppendIsThere
<1>5. \A i \in 1..f : fifo'[i] = fifo[i]
    BY <1>1, <1>2, <1>3, AppendFront
<1>6. line' \in Seq(Byte) /\ Len(line') = l - 1 /\ \A i \in 1..(l - 1) : line'[i] = line[i + 1]
    BY <1>1, <1>2
<1>7. Stream = [i \in 1..(c + f + l) |-> B(i)]
    BY DEF Stream
<1>8. Stream' = [i \in 1..(c + f + l) |-> D(i)]
    <2>1. Stream' = [i \in 1..(c + (f + 1) + (l - 1)) |-> D(i)]
        BY <1>2, <1>4, <1>6 DEF Stream
    <2>2. c + (f + 1) + (l - 1) = c + f + l
        BY <1>1
    <2> QED
        BY <2>1, <2>2
<1>9. ASSUME NEW i \in 1..(c + f + l) PROVE B(i) = D(i)
    <2> HIDE DEF c, f, l
    <2>0. CASE i =< c
        BY <1>1, <2>0
    <2>1. CASE i > c /\ i =< c + f
        <3>1. i - c \in 1..f
            BY <1>1, <2>1
        <3>2. fifo'[i - c] = fifo[i - c]
            BY <1>5, <3>1
        <3> QED
            BY <1>1, <2>1, <3>2
    <2>2. CASE i = c + f + 1
        BY <1>1, <1>4, <2>2
    <2>3. CASE i > c + f + 1
        <3>1. i - c - (f + 1) \in 1..(l - 1) /\ (i - c - (f + 1)) + 1 = i - c - f
            BY <1>1, <2>3
        <3>2. line'[i - c - (f + 1)] = line[i - c - f]
            BY <1>6, <3>1
        <3> QED
            BY <1>1, <2>3, <3>2
    <2> QED
        BY <1>1, <2>0, <2>1, <2>2, <2>3
<1>10. Stream' = Stream
    <2> HIDE DEF B, D
    <2> QED
        BY <1>7, <1>8, <1>9
<1> QED
    BY <1>1, <1>2, <1>4, <1>6, <1>10

(* DATA takes all bytes but one: there is room for them.                     *)
LEMMA DataKeeps ==
    ASSUME Sound, USART_RX_CNT + Len(fifo) + Len(line) =< RX_BUFFER_SIZE, DataEvent
    PROVE  /\ Stream' = Stream
           /\ USART_RX_CNT' = USART_RX_CNT + (Len(fifo) - 1)
           /\ fifo' \in Seq(Byte) /\ Len(fifo') = 1 /\ Len(fifo) \in 2..FifoSize
           /\ DOMAIN RX_Sendata' = DOMAIN RX_Sendata
           /\ \A i \in DOMAIN RX_Sendata : RX_Sendata'[i] \in Byte
           /\ line' = line
<1> DEFINE c == USART_RX_CNT  f == Len(fifo)  l == Len(line)  r == f - 1
           B(i) == IF i =< c THEN RX_Sendata[i - 1] ELSE IF i =< c + f THEN fifo[i - c] ELSE line[i - c - f]
           D(i) == IF i =< c + r THEN RX_Sendata'[i - 1]
                   ELSE IF i =< c + r + 1 THEN fifo'[i - (c + r)] ELSE line[i - (c + r) - 1]
<1>1. /\ c \in Nat /\ f \in 2..FifoSize /\ f \in Nat /\ l \in Nat /\ r \in Nat /\ r >= 1
      /\ fifo \in Seq(Byte) /\ line \in Seq(Byte) /\ c + f + l =< RX_BUFFER_SIZE
    BY StreamBytes, Sizes, SMTT(30) DEF Sound, DataEvent
<1>2. RecNum = r
    <2>1. RecNum = Min({r, Max({1, RX_BUFFER_SIZE - c})})
        BY DEF RecNum
    <2>2. RX_BUFFER_SIZE - c \in Nat /\ RX_BUFFER_SIZE - c > r
        BY <1>1, Sizes
    <2> HIDE DEF r
    <2>3. \A x \in Nat : x > r => Max({1, x}) = x
        BY <1>1 DEF Max
    <2>4. \A x \in Nat : x > r => Min({r, x}) = r
        BY <1>1 DEF Min
    <2> QED
        BY <2>1, <2>2, <2>3, <2>4
<1>3. /\ RX_Sendata' = Stored(SubSeq(fifo, 1, r), c) /\ USART_RX_CNT' = c + r
      /\ fifo' = SubSeq(fifo, r + 1, f) /\ line' = line
    BY <1>2 DEF DataEvent
<1> DEFINE taken == SubSeq(fifo, 1, r)
<1>4. Len(taken) = r /\ \A i \in 1..r : taken[i] = fifo[i] /\ fifo[i] \in Byte
    <2>1. \A i \in 1..f : fifo[i] \in Byte
        BY <1>1
    <2>2. r =< f /\ \A i \in 1..r : i \in 1..f
        BY <1>1
    <2> HIDE DEF r
    <2>3. Len(taken) = r /\ \A i \in 1..r : taken[i] = fifo[i]
        BY <1>1, <2>2
    <2> QED
        BY <2>1, <2>2, <2>3
<1>5. fifo' \in Seq(Byte) /\ Len(fifo') = 1 /\ fifo'[1] = fifo[f]
    BY <1>1, <1>3
<1> HIDE DEF taken
<1>6. /\ DOMAIN RX_Sendata' = DOMAIN RX_Sendata
      /\ \A i \in DOMAIN RX_Sendata :
            RX_Sendata'[i] = IF i \in c..(c + r - 1) THEN taken[i - c + 1] ELSE RX_Sendata[i]
    BY <1>3, <1>4 DEF Stored, taken
<1>7. DOMAIN RX_Sendata = 0..(RX_BUFFER_SIZE - 1) /\ \A i \in DOMAIN RX_Sendata : RX_Sendata[i] \in Byte
    BY DEF Sound
<1>8. \A i \in DOMAIN RX_Sendata : RX_Sendata'[i] \in Byte
    <2> TAKE i \in DOMAIN RX_Sendata
    <2> HIDE DEF c, r
    <2>1. CASE i \in c..(c + r - 1)
        <3>1. i - c + 1 \in 1..r
            BY <1>1, <2>1
        <3> QED
            BY <1>4, <1>6, <2>1, <3>1
    <2> QED
        BY <1>6, <1>7, <2>1
<1>9. Stream = [i \in 1..(c + f + l) |-> B(i)]
    BY DEF Stream
<1>10. Stream' = [i \in 1..(c + f + l) |-> D(i)]
    <2>1. Stream' = [i \in 1..((c + r) + 1 + l) |-> D(i)]
        BY <1>3, <1>5 DEF Stream
    <2>2. (c + r) + 1 + l = c + f + l
        BY <1>1
    <2> QED
        BY <2>1, <2>2
<1>11. ASSUME NEW i \in 1..(c + f + l) PROVE B(i) = D(i)
    <2>1. r = f - 1 /\ RX_BUFFER_SIZE \in Nat
        BY Sizes
    <2> HIDE DEF c, f, l, r
    <2>2. CASE i =< c
        <3>1. i - 1 \in 0..(RX_BUFFER_SIZE - 1) /\ i - 1 \notin c..(c + r - 1)
            BY <1>1, <2>1, <2>2
        <3>2. RX_Sendata'[i - 1] = RX_Sendata[i - 1]
            BY <1>6, <1>7, <3>1
        <3> QED
            BY <1>1, <2>1, <2>2, <3>2
    <2>3. CASE i > c /\ i =< c + r
        <3>1. /\ i - 1 \in 0..(RX_BUFFER_SIZE - 1) /\ i - 1 \in c..(c + r - 1)
              /\ (i - 1) - c + 1 = i - c /\ i - c \in 1..r
            BY <1>1, <2>1, <2>3
        <3>2. RX_Sendata'[i - 1] = fifo[i - c]
            BY <1>4, <1>6, <1>7, <3>1
        <3> QED
            BY <1>1, <2>1, <2>3, <3>2
    <2>4. CASE i = c + r + 1
        BY <1>1, <1>5, <2>1, <2>4
    <2>5. CASE i > c + r + 1
        <3>1. i - (c + r) - 1 = i - c - f
            BY <1>1, <2>1
        <3> QED
            BY <1>1, <2>1, <2>5, <3>1
    <2> QED
        BY <1>1, <2>1, <2>2, <2>3, <2>4, <2>5
<1>12. Stream' = Stream
    <2> HIDE DEF B, D
    <2> QED
        BY <1>9, <1>10, <1>11
<1> QED
    BY <1>1, <1>3, <1>5, <1>6, <1>8, <1>12

(* What TIMEOUT finds is the beginning of the stream.                        *)
LEMMA GatheredBytes ==
    ASSUME Sound, USART_RX_CNT + Len(fifo) + Len(line) =< RX_BUFFER_SIZE
    PROVE  /\ Gathered \in Seq(Byte) /\ Len(Gathered) = USART_RX_CNT + Len(fifo)
           /\ \A i \in 1..(USART_RX_CNT + Len(fifo)) : Gathered[i] = Stream[i]
           /\ DOMAIN Stored(fifo, USART_RX_CNT) = 0..(RX_BUFFER_SIZE - 1)
           /\ \A i \in 0..(RX_BUFFER_SIZE - 1) : Stored(fifo, USART_RX_CNT)[i] \in Byte
           /\ \A i \in 1..(USART_RX_CNT + Len(fifo)) :
                 Stored(fifo, USART_RX_CNT)[i - 1] = Gathered[i]
<1> DEFINE c == USART_RX_CNT  f == Len(fifo)  all == Stored(fifo, c)
           G(i) == IF i =< c THEN RX_Sendata[i - 1] ELSE fifo[i - c]
<1>1. /\ c \in Nat /\ f \in Nat /\ RX_BUFFER_SIZE \in Nat /\ c + f =< RX_BUFFER_SIZE
      /\ fifo \in Seq(Byte) /\ Len(line) \in Nat
    BY StreamBytes, Sizes DEF Sound
<1>2. /\ \A i \in 1..f : fifo[i] \in Byte
      /\ DOMAIN RX_Sendata = 0..(RX_BUFFER_SIZE - 1)
      /\ \A i \in 0..(RX_BUFFER_SIZE - 1) : RX_Sendata[i] \in Byte
    <2>1. \A i \in 1..f : fifo[i] \in Byte
        BY <1>1, ElementOfSeq
    <2>2. DOMAIN RX_Sendata = 0..(RX_BUFFER_SIZE - 1)
        BY DEF Sound
    <2>3. \A i \in DOMAIN RX_Sendata : RX_Sendata[i] \in Byte
        BY DEF Sound
    <2> QED
        BY <2>1, <2>2, <2>3
<1>3. /\ Stream \in Seq(Byte)
      /\ \A i \in 1..c : Stream[i] = RX_Sendata[i - 1]
      /\ \A i \in 1..f : Stream[c + i] = fifo[i]
    BY StreamBytes
<1>4. Gathered = [i \in 1..(c + f) |-> G(i)]
    BY DEF Gathered
<1>5. /\ DOMAIN all = 0..(RX_BUFFER_SIZE - 1)
      /\ \A i \in 0..(RX_BUFFER_SIZE - 1) :
            all[i] = IF i \in c..(c + f - 1) THEN fifo[i - c + 1] ELSE RX_Sendata[i]
    BY <1>2 DEF Stored
<1> HIDE DEF c, f, all
<1>6. \A i \in 0..(RX_BUFFER_SIZE - 1) : all[i] \in Byte
    <2> TAKE i \in 0..(RX_BUFFER_SIZE - 1)
    <2>1. CASE i \in c..(c + f - 1)
        <3>1. i - c + 1 \in 1..f
            BY <1>1, <2>1
        <3> QED
            BY <1>2, <1>5, <2>1, <3>1
    <2> QED
        BY <1>2, <1>5, <2>1
<1>7. ASSUME NEW i \in 1..(c + f)
      PROVE  G(i) = Stream[i] /\ all[i - 1] = G(i) /\ i - 1 \in 0..(RX_BUFFER_SIZE - 1)
    <2>0. i - 1 \in 0..(RX_BUFFER_SIZE - 1)
        BY <1>1
    <2>1. CASE i =< c
        <3>1. i - 1 \notin c..(c + f - 1) /\ i \in 1..c
            BY <1>1, <2>1
        <3>2. all[i - 1] = RX_Sendata[i - 1]
            BY <1>5, <2>0, <3>1
        <3> QED
            BY <1>3, <2>0, <2>1, <3>1, <3>2
    <2>2. CASE i > c
        <3>1. i - 1 \in c..(c + f - 1) /\ i - c \in 1..f /\ c + (i - c) = i /\ (i - 1) - c + 1 = i - c
            BY <1>1, <2>2
        <3>2. all[i - 1] = fifo[i - c]
            BY <1>5, <2>0, <3>1
        <3>3. Stream[i] = fifo[i - c]
            BY <1>3, <3>1
        <3> QED
            BY <1>1, <2>0, <2>2, <3>2, <3>3
    <2> QED
        BY <1>1, <2>1, <2>2
<1>8. \A i \in 1..(c + f) : G(i) \in Byte
    BY <1>6, <1>7
<1> HIDE DEF G
<1>9. Gathered \in Seq(Byte) /\ Len(Gathered) = c + f /\ \A i \in 1..(c + f) : Gathered[i] = G(i)
    BY <1>1, <1>4, <1>8
<1> QED
    BY <1>5, <1>6, <1>7, <1>9 DEF c, f, all

(* After TIMEOUT the bytes are in the buffer, or gone.                       *)
LEMMA KeptBytes ==
    ASSUME Sound, USART_RX_CNT + Len(fifo) + Len(line) =< RX_BUFFER_SIZE,
           RX_Sendata' = Stored(fifo, USART_RX_CNT), USART_RX_CNT' = USART_RX_CNT + Len(fifo),
           fifo' = <<>>, line' = line
    PROVE  Stream' = Stream
<1> DEFINE c == USART_RX_CNT  f == Len(fifo)  l == Len(line)  all == Stored(fifo, c)
           D(i) == IF i =< c + f THEN all[i - 1] ELSE IF i =< c + f + 0 THEN fifo'[i - (c + f)] ELSE line[i - (c + f) - 0]
<1>1. c \in Nat /\ f \in Nat /\ l \in Nat
    BY StreamBytes
<1>2. /\ Stream \in Seq(Byte) /\ Len(Stream) = c + f + l
      /\ \A i \in 1..l : Stream[c + f + i] = line[i]
    BY StreamBytes
<1>3. \A i \in 1..(c + f) : all[i - 1] = Stream[i]
    BY GatheredBytes
<1>4. Stream' = [i \in 1..(c + f + 0 + l) |-> D(i)]
    BY DEF Stream
<1> HIDE DEF c, f, l, all
<1>5. \A i \in 1..(c + f + 0 + l) : D(i) = Stream[i]
    <2> TAKE i \in 1..(c + f + 0 + l)
    <2>1. CASE i =< c + f
        BY <1>1, <1>3, <2>1
    <2>2. CASE i > c + f
        <3>1. i - (c + f) \in 1..l /\ c + f + (i - (c + f)) = i /\ i - (c + f) - 0 = i - (c + f)
            BY <1>1, <2>2
        <3>2. Stream[i] = line[i - (c + f)]
            BY <1>2, <3>1
        <3> QED
            BY <1>1, <2>2, <3>1, <3>2
    <2> QED
        BY <1>1, <2>1, <2>2
<1>6. c + f + 0 + l = Len(Stream)
    BY <1>1, <1>2
<1> HIDE DEF D
<1>7. Stream = [i \in 1..Len(Stream) |-> Stream[i]]
    BY <1>2
<1> QED
    BY <1>4, <1>5, <1>6, <1>7

LEMMA ClearedBytes ==
    ASSUME Sound, USART_RX_CNT' = 0, fifo' = <<>>, line' = line
    PROVE  Stream' = line
<1>1. line \in Seq(Byte) /\ Len(line) \in Nat
    BY DEF Sound
<1>2. Stream' = [i \in 1..(0 + 0 + Len(line)) |->
            IF i =< 0 THEN RX_Sendata'[i - 1]
            ELSE IF i =< 0 + 0 THEN fifo'[i - 0] ELSE line[i - 0 - 0]]
    BY DEF Stream
<1>3. 0 + 0 + Len(line) = Len(line)
    BY <1>1
<1>4. line = [i \in 1..Len(line) |-> line[i]]
    BY <1>1
<1> QED
    BY <1>2, <1>3, <1>4

(* A reply is moved up from inside the buffer.                               *)
LEMMA RepliesBound ==
    ASSUME NEW bytes \in Seq(Byte)
    PROVE  /\ Replies(bytes) \in 0..(Len(bytes) \div CTRL_RSP_FRAME_LEN)
           /\ \A k \in 0..(Replies(bytes) - 1) :
                 IsReply(SubSeq(bytes, k * CTRL_RSP_FRAME_LEN + 1, Len(bytes)))
           /\ \A n \in 0..(Len(bytes) \div CTRL_RSP_FRAME_LEN) :
                 (\A k \in 0..(n - 1) : IsReply(SubSeq(bytes, k * CTRL_RSP_FRAME_LEN + 1, Len(bytes))))
                     => n =< Replies(bytes)
<1> DEFINE P(k) == IsReply(SubSeq(bytes, k * CTRL_RSP_FRAME_LEN + 1, Len(bytes)))
           m == Len(bytes) \div CTRL_RSP_FRAME_LEN
           S == {n \in 0..m : \A k \in 0..(n - 1) : P(k)}
<1>1. Len(bytes) \in Nat /\ m \in Nat
    BY DEF CTRL_RSP_FRAME_LEN
<1>2. Replies(bytes) = Max(S)
    BY DEF Replies
<1> HIDE DEF P, m
<1>3. S \subseteq 0..m /\ 0 \in S
    BY <1>1
<1>4. Max(S) \in S /\ \A y \in S : Max(S) >= y
    BY <1>1, <1>3, MaxIsThere
<1>5. Replies(bytes) \in 0..m /\ (\A k \in 0..(Replies(bytes) - 1) : P(k))
    BY <1>2, <1>4
<1>6. ASSUME NEW n \in 0..m, \A k \in 0..(n - 1) : P(k) PROVE n =< Replies(bytes)
    <2>1. n \in S
        BY <1>6
    <2> QED
        BY <1>2, <1>4, <1>5, <2>1
<1> QED
    BY <1>5, <1>6 DEF P, m

LEMMA MovedUpBytes ==
    ASSUME Sound, USART_RX_CNT + Len(fifo) + Len(line) =< RX_BUFFER_SIZE
    PROVE  /\ DOMAIN MovedUp(Gathered) = 0..(RX_BUFFER_SIZE - 1)
           /\ \A i \in 0..(RX_BUFFER_SIZE - 1) : MovedUp(Gathered)[i] \in Byte
<1> DEFINE all == Stored(fifo, USART_RX_CNT)
           R == Replies(Gathered)
           L == Len(Gathered)
           moves(i) == {n \in 1..R : i + n * CTRL_RSP_FRAME_LEN < L}
<1>1. /\ Gathered \in Seq(Byte) /\ L \in Nat /\ L =< RX_BUFFER_SIZE /\ RX_BUFFER_SIZE \in Nat
      /\ DOMAIN all = 0..(RX_BUFFER_SIZE - 1) /\ \A i \in 0..(RX_BUFFER_SIZE - 1) : all[i] \in Byte
    <2>1. Gathered \in Seq(Byte) /\ L = USART_RX_CNT + Len(fifo)
        BY GatheredBytes
    <2>2. USART_RX_CNT \in Nat /\ Len(fifo) \in Nat /\ Len(line) \in Nat
        BY StreamBytes
    <2>3. DOMAIN all = 0..(RX_BUFFER_SIZE - 1) /\ \A i \in 0..(RX_BUFFER_SIZE - 1) : all[i] \in Byte
        BY GatheredBytes
    <2> HIDE DEF all, L
    <2> QED
        BY <2>1, <2>2, <2>3, Sizes
<1>2. MovedUp(Gathered) = [i \in DOMAIN all |-> all[i + Cardinality(moves(i)) * CTRL_RSP_FRAME_LEN]]
    BY DEF MovedUp
<1>3. R \in Nat
    <2>1. R \in 0..(L \div CTRL_RSP_FRAME_LEN)
        BY <1>1, RepliesBound
    <2> HIDE DEF L, R
    <2> QED
        BY <1>1, <2>1
<1> HIDE DEF all, R, L
<1>4. ASSUME NEW i \in 0..(RX_BUFFER_SIZE - 1)
      PROVE  i + Cardinality(moves(i)) * CTRL_RSP_FRAME_LEN \in 0..(RX_BUFFER_SIZE - 1)
    <2> DEFINE C == Cardinality(moves(i))
    <2>1. IsFiniteSet(1..R) /\ moves(i) \in SUBSET (1..R)
        BY <1>3, FS_Interval
    <2>2. IsFiniteSet(moves(i)) /\ C \in Nat
        <3> HIDE DEF moves
        <3> QED
            BY <2>1, FS_Subset, FS_CardinalityType
    <2>3. CASE C = 0
        BY <2>3
    <2>4. CASE C > 0
        <3>1. \E n \in moves(i) : n >= C
            <4>0. \A n \in moves(i) : n \in Nat
                BY <1>3
            <4> SUFFICES ASSUME \A n \in moves(i) : n < C PROVE FALSE
                <5> HIDE DEF C, moves
                <5> QED
                    BY <2>2, <4>0
            <4>1. moves(i) \in SUBSET (1..(C - 1))
                <5>1. \A n \in moves(i) : n \in 1..R
                    OBVIOUS
                <5> HIDE DEF C, moves
                <5> QED
                    BY <1>3, <2>2, <5>1
            <4>2. C - 1 \in Int /\ IsFiniteSet(1..(C - 1)) /\ Cardinality(1..(C - 1)) = IF 1 > C - 1 THEN 0 ELSE (C - 1) - 1 + 1
                <5> HIDE DEF C
                <5> QED
                    BY <2>2, FS_Interval
            <4>3. C =< Cardinality(1..(C - 1))
                <5> HIDE DEF moves
                <5> QED
                    BY <4>1, <4>2, FS_Subset
            <4> HIDE DEF C
            <4> QED
                BY <2>2, <2>4, <4>2, <4>3
        <3> HIDE DEF C
        <3> QED
            BY <1>1, <1>3, <2>2, <3>1
    <2> HIDE DEF C
    <2> QED
        BY <2>2, <2>3, <2>4
<1> HIDE DEF moves
<1> QED
    BY <1>1, <1>2, <1>4

-----------------------------------------------------------------------------
(* What TIMEOUT does                                                         *)

(* The last frame, when the stream is that frame.                            *)
LEMMA FrameFront ==
    ASSUME Sound, Len(sent) =< MaxFrames
    PROVE  /\ IsLast({"v3"}) => /\ Len(LastFrame) = V3_FRAME_SIZE_NORMAL
                                /\ LastFrame[1] = V3_FRAME_HEAD_0
                                /\ LastFrame[2] = V3_FRAME_HEAD_1
                                /\ LastFrame[3] \in Command
           /\ IsLast({"v2"}) => Len(LastFrame) = 2
           /\ IsLast({"ota"}) => LastFrame[1] = \hEB
           /\ IsLast({"uc"}) => LastFrame[1] = \hAA
<1>1. ASSUME IsLast({"v3"})
      PROVE  /\ Len(LastFrame) = V3_FRAME_SIZE_NORMAL
             /\ LastFrame[1] = V3_FRAME_HEAD_0 /\ LastFrame[2] = V3_FRAME_HEAD_1
             /\ LastFrame[3] \in Command
    <2>1. LastFrame = Frame("v3", Len(sent)) /\ Len(sent) \in 1..MaxFrames
        BY <1>1, LastFrameBytes DEF IsLast, LastFrame
    <2> QED
        BY <2>1, V3FrameBytes
<1>2. ASSUME IsLast({"v2"}) PROVE Len(LastFrame) = 2
    <2>1. LastFrame = Frame("v2", Len(sent)) /\ Len(sent) \in 1..MaxFrames
        BY <1>2, LastFrameBytes DEF IsLast, LastFrame
    <2> QED
        BY <2>1, OtherFrameBytes
<1>3. ASSUME IsLast({"ota"}) PROVE LastFrame[1] = \hEB
    <2>1. LastFrame = Frame("ota", Len(sent)) /\ Len(sent) \in 1..MaxFrames
        BY <1>3, LastFrameBytes DEF IsLast, LastFrame
    <2>2. LastFrame[1] = CTRL_OTA_HEAD[1]
        BY <2>1, OtaFrameBytes
    <2> QED
        BY <2>2 DEF CTRL_OTA_HEAD
<1>4. ASSUME IsLast({"uc"}) PROVE LastFrame[1] = \hAA
    <2>1. LastFrame = Frame("uc", Len(sent)) /\ Len(sent) \in 1..MaxFrames
        BY <1>4, LastFrameBytes DEF IsLast, LastFrame
    <2>2. LastFrame = <<\hAA, \h10, \h55>>
        BY <2>1, OtherFrameBytes
    <2> QED
        BY <2>2
<1> QED
    BY <1>1, <1>2, <1>3, <1>4

(* What the interrupt takes for a register frame is a register reply, and     *)
(* whole when all its bytes are there.                                       *)
LEMMA WholeSize ==
    ASSUME UartInv, StartsV3(Stored(fifo, USART_RX_CNT), Len(Gathered))
    PROVE  /\ Len(Gathered) >= 1
           /\ Stored(fifo, USART_RX_CNT)[0] = V3_FRAME_HEAD_0
           /\ Stream # <<>> /\ Stream[1] = V3_FRAME_HEAD_0
           /\ Len(Gathered) >= 2 => Stream[2] = V3_FRAME_HEAD_1
           /\ V3Whole(Gathered) = IF Len(Gathered) >= V3_FRAME_SIZE_NORMAL
                                  THEN V3_FRAME_SIZE_NORMAL ELSE 0
<1> DEFINE L == Len(Gathered)  all == Stored(fifo, USART_RX_CNT)  N == V3_FRAME_SIZE_NORMAL
<1>1. /\ Sound /\ FrontIsReply /\ Len(sent) =< MaxFrames
      /\ USART_RX_CNT + Len(fifo) + Len(line) =< RX_BUFFER_SIZE
    BY Fits DEF UartInv
<1>2. /\ L \in Nat /\ L =< Len(Stream) /\ Len(Stream) \in Nat /\ L = Within
      /\ \A i \in 1..L : Gathered[i] = Stream[i]
      /\ \A i \in 1..L : all[i - 1] = Gathered[i]
    <2>1. /\ L = USART_RX_CNT + Len(fifo)
          /\ \A i \in 1..(USART_RX_CNT + Len(fifo)) : Gathered[i] = Stream[i]
          /\ \A i \in 1..(USART_RX_CNT + Len(fifo)) : all[i - 1] = Gathered[i]
        BY <1>1, GatheredBytes
    <2>2. /\ USART_RX_CNT \in Nat /\ Len(fifo) \in Nat /\ Len(line) \in Nat
          /\ Len(Stream) = USART_RX_CNT + Len(fifo) + Len(line)
        BY <1>1, StreamBytes
    <2> HIDE DEF L, all
    <2> QED
        BY <2>1, <2>2 DEF Within
<1>3. L > 0 /\ all[0] = V3_FRAME_HEAD_0 /\ all[1] = V3_FRAME_HEAD_1
    BY DEF StartsV3
<1>4. N \in 4..255 /\ \A cmd \in Command : V3_frame_size_from_cmd(cmd) = N
    BY Sizes DEF V3_frame_size_from_cmd, HANDSHAKE, WRITE_ERR, READ_ERR, Command
<1> HIDE DEF L, all
<1>5. Stream # <<>> /\ Stream[1] = V3_FRAME_HEAD_0
    <2>1. 1 \in 1..L /\ all[1 - 1] = Stream[1]
        BY <1>2, <1>3
    <2>2. Len(Stream) # Len(<<>>)
        BY <1>2, <1>3
    <2>3. Stream # <<>>
        BY <2>2, Zenon
    <2> QED
        BY <1>3, <2>1, <2>3
<1>6. L >= 2 => Stream[2] = V3_FRAME_HEAD_1
    <2> SUFFICES ASSUME L >= 2 PROVE Stream[2] = V3_FRAME_HEAD_1
        OBVIOUS
    <2>1. 2 \in 1..L /\ all[2 - 1] = Stream[2]
        BY <1>2
    <2> QED
        BY <1>3, <2>1
<1>7. CASE L < 3
    <2>1. V3Whole(Gathered) = 0
        BY <1>2, <1>7 DEF V3Whole, L
    <2> QED
        BY <1>2, <1>3, <1>4, <1>5, <1>6, <1>7, <2>1 DEF L, all
<1>8. CASE L >= 3
    <2>1. Stream[3] \in Command
        <3>1. \/ Within >= 3 /\ Stream[2] = V3_FRAME_HEAD_1 /\ Stream[3] \in Command
              \/ Within >= 2 /\ Stream[2] \in Command
              \/ IsLast({"v2", "v3"}) /\ Stream = LastFrame /\ LastFrame # V3_HEAD
              \/ IsLast({"v3"}) /\ Within = 1 /\ Len(line) = V3_FRAME_SIZE_NORMAL - 2
            BY <1>1, <1>5 DEF FrontIsReply
        <3>2. Stream[2] \notin Command
            BY <1>2, <1>6, <1>8 DEF Command
        <3>3. CASE IsLast({"v2", "v3"}) /\ Stream = LastFrame
            <4>1. ~IsLast({"v2"})
                <5>1. Len(Stream) # 2
                    BY <1>2, <1>8
                <5> QED
                    BY <1>1, <3>3, <5>1, FrameFront
            <4>2. IsLast({"v3"})
                BY <3>3, <4>1 DEF IsLast
            <4> QED
                BY <1>1, <3>3, <4>2, FrameFront
        <3> QED
            BY <1>2, <1>8, <3>1, <3>2, <3>3
    <2>2. 3 \in 1..L
        BY <1>2, <1>8
    <2>3. Gathered[3] \in Command
        BY <1>2, <2>1, <2>2
    <2>4. V3Whole(Gathered) = IF L >= N THEN N ELSE 0
        BY <1>4, <1>8, <2>3 DEF V3Whole, L
    <2> QED
        BY <1>2, <1>3, <1>5, <1>6, <2>4 DEF L, all
<1> QED
    BY <1>2, <1>7, <1>8

(* The first byte of a head alone is not the end of a frame.                 *)
LEMMA OneByteOfHead ==
    ASSUME UartInv, Stream # <<>>, Stream[1] = V3_FRAME_HEAD_0, Within = 1
    PROVE  line # <<>>
<1> SUFFICES ASSUME line = <<>> PROVE FALSE
    OBVIOUS
<1>1. Sound /\ Len(sent) =< MaxFrames
    BY DEF UartInv
<1>2. Len(line) = 0 /\ Len(Stream) = 1
    <2>1. Len(line) = 0 /\ Len(Stream) = Within + Len(line)
        BY <1>1, StreamBytes DEF Within
    <2> QED
        BY <2>1
<1>3. IsLast({"v2", "v3"}) /\ Stream = LastFrame
    BY <1>2, Sizes DEF UartInv, FrontIsReply
<1>4. Len(LastFrame) \in 2..255
    BY <1>1, <1>3, LastFrameBytes DEF IsLast
<1>5. \A n \in 2..255 : n # 1
    OBVIOUS
<1> QED
    BY <1>2, <1>3, <1>4, <1>5, Zenon

LEMMA TimeoutEffect ==
    ASSUME UartInv, TimeoutEvent, ~doubt'
    PROVE  /\ fifo' = <<>> /\ line' = line /\ sent' = sent /\ burst' = 0 /\ lost' = lost
           /\ DOMAIN RX_Sendata' = 0..(RX_BUFFER_SIZE - 1)
           /\ \A i \in 0..(RX_BUFFER_SIZE - 1) : RX_Sendata'[i] \in Byte
           /\ \/ USART_RX_CNT' = 0 /\ Stream' = line
              \/ /\ USART_RX_CNT' = USART_RX_CNT + Len(fifo) /\ Stream' = Stream
                 /\ USART_RX_CNT' \in 2..(V3_FRAME_SIZE_NORMAL - 1)
                 /\ Stream # <<>>
                 /\ Stream[1] = V3_FRAME_HEAD_0 /\ Stream[2] = V3_FRAME_HEAD_1
<1>1. /\ Sound /\ USART_RX_CNT + Len(fifo) + Len(line) =< RX_BUFFER_SIZE
    BY Fits DEF UartInv
<1>2. fifo' = <<>> /\ line' = line /\ sent' = sent /\ burst' = 0 /\ lost' = lost
    BY DEF TimeoutEvent
<1>3. /\ Len(Gathered) = USART_RX_CNT + Len(fifo)
      /\ \A i \in 1..(USART_RX_CNT + Len(fifo)) : Gathered[i] = Stream[i]
      /\ DOMAIN Stored(fifo, USART_RX_CNT) = 0..(RX_BUFFER_SIZE - 1)
      /\ \A i \in 0..(RX_BUFFER_SIZE - 1) : Stored(fifo, USART_RX_CNT)[i] \in Byte
      /\ \A i \in 1..(USART_RX_CNT + Len(fifo)) : Stored(fifo, USART_RX_CNT)[i - 1] = Gathered[i]
    BY <1>1, GatheredBytes
<1>4. /\ DOMAIN MovedUp(Gathered) = 0..(RX_BUFFER_SIZE - 1)
      /\ \A i \in 0..(RX_BUFFER_SIZE - 1) : MovedUp(Gathered)[i] \in Byte
    BY <1>1, MovedUpBytes
<1>5. USART_RX_CNT' = 0 => Stream' = line
    BY <1>1, <1>2, ClearedBytes
<1>6. CASE TakeReplies(Gathered)
    <2>1. RX_Sendata' = MovedUp(Gathered) /\ USART_RX_CNT' = 0
        BY <1>6 DEF TakeReplies
    <2> QED
        BY <1>2, <1>4, <1>5, <2>1
<1>7. CASE TakeOther(Gathered)
    <2>1. RX_Sendata' = Stored(fifo, USART_RX_CNT) /\ USART_RX_CNT' = 0
        BY <1>7 DEF TakeOther
    <2> QED
        BY <1>2, <1>3, <1>5, <2>1
<1>8. CASE TakeV3(Gathered)
    <2>1. /\ RX_Sendata' = Stored(fifo, USART_RX_CNT)
          /\ USART_RX_CNT' = IF V3Whole(Gathered) > 0 THEN 0 ELSE Len(Gathered)
          /\ StartsV3(Stored(fifo, USART_RX_CNT), Len(Gathered))
        BY <1>8 DEF TakeV3
    <2>2. /\ Len(Gathered) >= 1 /\ Stream # <<>> /\ Stream[1] = V3_FRAME_HEAD_0
          /\ Len(Gathered) >= 2 => Stream[2] = V3_FRAME_HEAD_1
          /\ V3Whole(Gathered) = IF Len(Gathered) >= V3_FRAME_SIZE_NORMAL
                                 THEN V3_FRAME_SIZE_NORMAL ELSE 0
        BY <2>1, WholeSize
    <2>3. V3_FRAME_SIZE_NORMAL \in Nat /\ V3_FRAME_SIZE_NORMAL > 0
        BY Sizes
    <2>4. /\ Stream \in Seq(Byte) /\ USART_RX_CNT \in Nat /\ Len(fifo) \in Nat /\ Len(line) \in Nat
          /\ Len(Stream) = USART_RX_CNT + Len(fifo) + Len(line)
        BY <1>1, StreamBytes
    <2>5. CASE Len(Gathered) >= V3_FRAME_SIZE_NORMAL
        <3>1. USART_RX_CNT' = 0
            BY <2>1, <2>2, <2>3, <2>5
        <3> QED
            BY <1>2, <1>3, <1>5, <2>1, <3>1
    <2>6. CASE ~(Len(Gathered) >= V3_FRAME_SIZE_NORMAL)
        <3>1. USART_RX_CNT' = USART_RX_CNT + Len(fifo) /\ USART_RX_CNT' < V3_FRAME_SIZE_NORMAL
            <4>1. USART_RX_CNT' = Len(Gathered)
                BY <2>1, <2>2, <2>6
            <4> QED
                BY <1>3, <2>3, <2>4, <2>6, <4>1
        <3>2. Stream' = Stream
            BY <1>1, <1>2, <2>1, <3>1, KeptBytes
        <3>3. Len(Gathered) # 1
            <4> SUFFICES ASSUME Len(Gathered) = 1 PROVE FALSE
                OBVIOUS
            <4>1. Within = 1
                BY <1>3 DEF Within
            <4>2. line # <<>>
                BY <2>2, <4>1, OneByteOfHead
            <4>3. Gathered = << V3_FRAME_HEAD_0 >>
                <5>1. Gathered \in Seq(Byte) /\ Gathered[1] = V3_FRAME_HEAD_0
                    <6>1. 1 \in 1..(USART_RX_CNT + Len(fifo))
                        BY <1>3
                    <6> QED
                        BY <1>1, <1>3, <2>2, <6>1, GatheredBytes
                <5> QED
                    BY <5>1
            <4>4. Broken(Gathered)
                BY <4>2, <4>3 DEF Broken, Quiet
            <4> QED
                BY <4>4, Zenon DEF TimeoutEvent, TookOther
        <3>4. USART_RX_CNT' \in 2..(V3_FRAME_SIZE_NORMAL - 1) /\ Stream[2] = V3_FRAME_HEAD_1
            <4>1. Len(Gathered) >= 2 /\ Len(Gathered) \in Nat
                BY <1>3, <2>2, <2>4, <3>3
            <4>2. USART_RX_CNT' = Len(Gathered)
                BY <1>3, <3>1
            <4> QED
                BY <2>2, <3>1, <4>1, <4>2, Sizes
        <3>5. DOMAIN RX_Sendata' = 0..(RX_BUFFER_SIZE - 1) /\ \A i \in 0..(RX_BUFFER_SIZE - 1) : RX_Sendata'[i] \in Byte
            BY <1>3, <2>1
        <3> QED
            BY <1>2, <2>2, <3>1, <3>2, <3>4, <3>5
    <2> QED
        BY <2>5, <2>6
<1> QED
    BY <1>6, <1>7, <1>8 DEF TimeoutEvent

-----------------------------------------------------------------------------
(* The invariant, step by step                                               *)

LEMMA ShorterTail ==
    ASSUME NEW l, Len(l) \in Nat, NEW frame, Len(frame) \in Nat, TailOf(l, frame),
           NEW t, Len(l) >= 1, Len(t) = Len(l) - 1, \A i \in 1..Len(t) : t[i] = l[i + 1]
    PROVE  TailOf(t, frame)
<1>1. Len(t) \in Nat /\ Len(t) =< Len(frame)
    BY DEF TailOf
<1>2. ASSUME NEW k \in 1..Len(t) PROVE t[k] = frame[Len(frame) - Len(t) + k]
    <2>1. k + 1 \in 1..Len(l) /\ Len(frame) - Len(l) + (k + 1) = Len(frame) - Len(t) + k
        BY <1>1
    <2>2. l[k + 1] = frame[Len(frame) - Len(l) + (k + 1)]
        BY <2>1 DEF TailOf
    <2> QED
        BY <2>1, <2>2
<1> QED
    BY <1>1, <1>2 DEF TailOf

LEMMA InvAtInit == ASSUME Init PROVE UartInv
<1>1. Sound
    <2>1. <<>> \in Seq(Kind) /\ <<>> \in Seq(Byte) /\ Len(<<>>) = 0
        OBVIOUS
    <2>2. [frame |-> 0, bytes |-> 0] \in [frame : 0..MaxFrames, bytes : 0..MaxLoss]
        BY Sizes
    <2> QED
        BY <2>1, <2>2, Sizes DEF Init, Sound, Byte
<1>2. Stream = <<>>
    BY DEF Init, Stream
<1>3. FrontIsReply /\ RestHasNone /\ KeptIsReply
    BY <1>2, Sizes DEF Init, FrontIsReply, RestHasNone, KeptIsReply
<1> QED
    BY <1>1, <1>2, <1>3, Sizes DEF Init, UartInv, SincePause, IsLast

LEMMA InvAtArrive == ASSUME UartInv, Arrive PROVE UartInv'
<1>1. Sound /\ line # <<>>
    BY ArriveKeeps DEF UartInv
<1>2. /\ Stream' = Stream /\ fifo' # <<>> /\ fifo' \in Seq(Byte) /\ line' \in Seq(Byte)
      /\ Len(fifo') = Len(fifo) + 1 /\ Len(line') = Len(line) - 1
      /\ \A i \in 1..Len(line') : line'[i] = line[i + 1]
    BY <1>1, ArriveKeeps
<1>3. /\ sent' = sent /\ RX_Sendata' = RX_Sendata /\ USART_RX_CNT' = USART_RX_CNT
      /\ burst' = burst /\ pauses' = pauses /\ lost' = lost /\ Len(fifo) < FifoSize
    BY DEF Arrive
<1>4. /\ USART_RX_CNT \in Nat /\ Len(fifo) \in Nat /\ Len(line) \in Nat
    BY <1>1, StreamBytes
<1>5. Sound'
    BY <1>1, <1>2, <1>3, <1>4, Sizes DEF Sound
<1>6. LastFrame' = LastFrame /\ SincePause' = SincePause
    BY <1>3 DEF LastFrame, SincePause
<1>7. sent # <<>> /\ TailOf(line', LastFrame)
    <2>1. sent # <<>> /\ TailOf(line, LastFrame) /\ Len(sent) =< MaxFrames
        BY <1>1 DEF UartInv
    <2>2. Len(LastFrame) \in Nat
        <3>1. Len(LastFrame) \in 2..255
            BY <1>1, <2>1, LastFrameBytes
        <3>2. \A n \in 2..255 : n \in Nat
            OBVIOUS
        <3> QED
            BY <3>1, <3>2, Zenon
    <2>3. Len(line) >= 1
        BY <1>1 DEF Sound
    <2>4. TailOf(line', LastFrame)
        BY <1>2, <1>4, <2>1, <2>2, <2>3, ShorterTail
    <2> QED
        BY <2>1, <2>4
<1>8. Within' = Within + 1 /\ Within \in Nat
    BY <1>2, <1>3, <1>4 DEF Within
<1>9. /\ Len(sent) =< MaxFrames /\ TailOf(line, LastFrame) /\ Len(line) >= 1
      /\ \A i \in 1..Len(line) : Stream[Within + i] = line[i]
    <2>1. Len(line) >= 1
        BY <1>1 DEF Sound
    <2> QED
        BY <1>1, <2>1, StreamBytes DEF UartInv, Within
<1>10. FrontIsReply'
    <2> SUFFICES ASSUME Stream # <<>>, Stream[1] = V3_FRAME_HEAD_0
                 PROVE  \/ Within' >= 3 /\ Stream[2] = V3_FRAME_HEAD_1 /\ Stream[3] \in Command
                        \/ Within' >= 2 /\ Stream[2] \in Command
                        \/ IsLast({"v2", "v3"}) /\ Stream = LastFrame /\ LastFrame # V3_HEAD
        BY <1>2, <1>3, <1>6 DEF FrontIsReply, IsLast
    <2>1. \/ Within >= 3 /\ Stream[2] = V3_FRAME_HEAD_1 /\ Stream[3] \in Command
          \/ Within >= 2 /\ Stream[2] \in Command
          \/ IsLast({"v2", "v3"}) /\ Stream = LastFrame /\ LastFrame # V3_HEAD
          \/ IsLast({"v3"}) /\ Within = 1 /\ Len(line) = V3_FRAME_SIZE_NORMAL - 2
        BY DEF UartInv, FrontIsReply
    <2>2. CASE IsLast({"v3"}) /\ Within = 1 /\ Len(line) = V3_FRAME_SIZE_NORMAL - 2
        <3>1. Stream[1 + 1] = line[1]
            BY <1>9, <2>2
        <3>2. line[1] = LastFrame[Len(LastFrame) - Len(line) + 1]
            BY <1>4, <1>9 DEF TailOf
        <3>3. Len(LastFrame) = V3_FRAME_SIZE_NORMAL /\ LastFrame[3] \in Command
            BY <1>1, <1>9, <2>2, FrameFront
        <3>4. Len(LastFrame) - Len(line) + 1 = 3
            BY <2>2, <3>3, Sizes
        <3>5. Stream[2] \in Command
            BY <3>1, <3>2, <3>3, <3>4
        <3> QED
            BY <1>8, <2>2, <3>5
    <2> QED
        BY <1>8, <2>1, <2>2
<1>11. RestHasNone' /\ KeptIsReply'
    <2>1. Within' # 0
        BY <1>8
    <2> QED
        BY <1>2, <2>1 DEF RestHasNone, KeptIsReply
<1> QED
    BY <1>2, <1>3, <1>4, <1>5, <1>6, <1>7, <1>10, <1>11 DEF UartInv, IsLast

LEMMA InvAtData == ASSUME UartInv, DataEvent PROVE UartInv'
<1>1. Sound /\ USART_RX_CNT + Len(fifo) + Len(line) =< RX_BUFFER_SIZE
    BY Fits DEF UartInv
<1>2. /\ Stream' = Stream
      /\ USART_RX_CNT' = USART_RX_CNT + (Len(fifo) - 1)
      /\ fifo' \in Seq(Byte) /\ Len(fifo') = 1 /\ Len(fifo) \in 2..FifoSize
      /\ DOMAIN RX_Sendata' = DOMAIN RX_Sendata
      /\ \A i \in DOMAIN RX_Sendata : RX_Sendata'[i] \in Byte
      /\ line' = line
    BY <1>1, DataKeeps
<1>3. sent' = sent /\ burst' = burst /\ pauses' = pauses /\ lost' = lost
    BY DEF DataEvent
<1>4. /\ USART_RX_CNT \in Nat /\ Len(fifo) \in Nat /\ Len(line) \in Nat
    BY <1>1, StreamBytes
<1>5. Sound'
    <2>1. USART_RX_CNT' \in 0..RX_BUFFER_SIZE /\ Len(fifo') =< FifoSize
        BY <1>1, <1>2, <1>4, Sizes
    <2> QED
        BY <1>1, <1>2, <1>3, <2>1 DEF Sound
<1>6. LastFrame' = LastFrame /\ SincePause' = SincePause
    BY <1>3 DEF LastFrame, SincePause
<1>7. fifo' # <<>>
    <2>1. Len(fifo') # Len(<<>>)
        BY <1>2
    <2> QED
        BY <2>1, Zenon
<1>8. USART_RX_CNT' + Len(fifo') + Len(line') = USART_RX_CNT + Len(fifo) + Len(line)
    BY <1>2, <1>4
<1>9. Within' = Within /\ Within \in Nat
    BY <1>2, <1>4 DEF Within
<1>10. FrontIsReply' /\ RestHasNone' /\ KeptIsReply'
    <2>1. FrontIsReply /\ RestHasNone
        BY DEF UartInv
    <2> QED
        BY <1>2, <1>3, <1>6, <1>7, <1>9, <2>1 DEF FrontIsReply, RestHasNone, KeptIsReply, IsLast
<1> QED
    BY <1>2, <1>3, <1>5, <1>6, <1>7, <1>8, <1>10 DEF UartInv, IsLast

(* When the interrupt drops a part of a register reply, the rest of it holds  *)
(* no head.                                                                  *)
LEMMA InvAtTimeout ==
    ASSUME UartInv, TimeoutEvent, ~doubt',
           USART_RX_CNT' = 0 /\ line # <<>> => NoHead(line)
    PROVE  UartInv'
<1>1. Sound /\ USART_RX_CNT + Len(fifo) + Len(line) =< RX_BUFFER_SIZE
    BY Fits DEF UartInv
<1>2. /\ fifo' = <<>> /\ line' = line /\ sent' = sent /\ burst' = 0 /\ lost' = lost
      /\ DOMAIN RX_Sendata' = 0..(RX_BUFFER_SIZE - 1)
      /\ \A i \in 0..(RX_BUFFER_SIZE - 1) : RX_Sendata'[i] \in Byte
      /\ \/ USART_RX_CNT' = 0 /\ Stream' = line
         \/ /\ USART_RX_CNT' = USART_RX_CNT + Len(fifo) /\ Stream' = Stream
            /\ USART_RX_CNT' \in 2..(V3_FRAME_SIZE_NORMAL - 1)
            /\ Stream # <<>>
            /\ Stream[1] = V3_FRAME_HEAD_0 /\ Stream[2] = V3_FRAME_HEAD_1
    BY TimeoutEffect
<1>3. /\ USART_RX_CNT \in Nat /\ Len(fifo) \in Nat /\ Len(line) \in Nat
      /\ Stream \in Seq(Byte) /\ Len(Stream) = USART_RX_CNT + Len(fifo) + Len(line)
      /\ \A i \in 1..Len(line) : Stream[USART_RX_CNT + Len(fifo) + i] = line[i]
    BY <1>1, StreamBytes
<1>4. USART_RX_CNT' \in 0..RX_BUFFER_SIZE /\ USART_RX_CNT' < V3_FRAME_SIZE_NORMAL
    BY <1>1, <1>2, <1>3, Sizes, SMTT(30)
<1>5. pauses' \in 0..MaxPauses
    BY <1>1, Sizes, SMTT(30) DEF TimeoutEvent, Pause, Sound
<1>6. Sound'
    <2>1. <<>> \in Seq(Byte) /\ Len(<<>>) = 0
        OBVIOUS
    <2> QED
        BY <1>1, <1>2, <1>4, <1>5, <2>1, Sizes DEF Sound
<1>8. LastFrame' = LastFrame
    BY <1>2 DEF LastFrame
<1>9. USART_RX_CNT' + Len(fifo') + Len(line') =< V3_FRAME_SIZE_NORMAL - 1 + SincePause'
    <2>1. Len(fifo') = 0 /\ Len(line') = Len(line)
        BY <1>2
    <2>2. SincePause' = IF sent = <<>> THEN 0 ELSE Len(LastFrame)
        BY <1>2, <1>8 DEF SincePause
    <2>3. CASE line = <<>>
        <3>1. SincePause' \in Nat
            <4>1. sent # <<>> => Len(LastFrame) \in 2..255
                BY <1>1, LastFrameBytes DEF UartInv
            <4> QED
                BY <2>2, <4>1
        <3>2. USART_RX_CNT' \in Nat /\ USART_RX_CNT' =< V3_FRAME_SIZE_NORMAL - 1
            BY <1>4, Sizes
        <3>3. USART_RX_CNT' + Len(fifo') + Len(line') = USART_RX_CNT'
            <4>1. Len(line) = 0
                BY <2>3
            <4>2. Len(fifo') = 0 /\ Len(line') = 0
                BY <2>1, <4>1
            <4> DEFINE a == USART_RX_CNT'  b == Len(fifo')  d == Len(line')
            <4>3. a \in Nat /\ b = 0 /\ d = 0
                BY <3>2, <4>2
            <4> HIDE DEF a, b, d
            <4>4. a + b + d = a
                BY <4>3
            <4> QED
                BY <4>4 DEF a, b, d
        <3> QED
            BY <3>1, <3>2, <3>3, Sizes
    <2>4. CASE line # <<>>
        <3>1. sent # <<>> /\ TailOf(line, LastFrame) /\ Len(LastFrame) \in 2..255
            BY <1>1, <2>4, LastFrameBytes DEF UartInv
        <3>2. Len(line) =< SincePause' /\ SincePause' \in Nat
            <4>1. SincePause' = Len(LastFrame)
                BY <2>2, <3>1
            <4>2. Len(line) =< Len(LastFrame)
                BY <3>1 DEF TailOf
            <4> HIDE DEF LastFrame
            <4> QED
                BY <3>1, <4>1, <4>2
        <3>3. USART_RX_CNT' \in Nat /\ USART_RX_CNT' =< V3_FRAME_SIZE_NORMAL - 1
            BY <1>4, Sizes
        <3>4. USART_RX_CNT' + Len(fifo') + Len(line') = USART_RX_CNT' + Len(line)
            BY <1>3, <2>1, <3>3
        <3>5. Len(line) \in Nat /\ V3_FRAME_SIZE_NORMAL \in Nat
            BY <1>3, Sizes
        <3> DEFINE a == USART_RX_CNT'  l == Len(line)  p == SincePause'
        <3>6. a + l =< V3_FRAME_SIZE_NORMAL - 1 + p
            <4>1. /\ a \in Nat /\ l \in Nat /\ p \in Nat /\ V3_FRAME_SIZE_NORMAL \in Nat
                  /\ a =< V3_FRAME_SIZE_NORMAL - 1 /\ l =< p
                BY <3>2, <3>3, <3>5
            <4> HIDE DEF a, l, p
            <4> QED
                BY <4>1
        <3> QED
            BY <3>4, <3>6
    <2> QED
        BY <2>3, <2>4
<1>10. /\ Len(sent') =< MaxFrames
       /\ burst' > 0 => IsLast({"ota"})'
       /\ line' # <<>> => sent' # <<>> /\ TailOf(line', LastFrame')
    BY <1>2, <1>8 DEF UartInv
<1>11. Len(fifo') = 0 /\ Within' = USART_RX_CNT'
    <2>1. Len(fifo') = 0
        BY <1>2
    <2> DEFINE a == USART_RX_CNT'
    <2>2. a \in Nat
        BY <1>4, Sizes
    <2>3. a + 0 = a
        <3> HIDE DEF a
        <3> QED
            BY <2>2
    <2> QED
        BY <2>1, <2>3 DEF Within
<1>12. FrontIsReply' /\ RestHasNone' /\ KeptIsReply'
    <2>1. CASE USART_RX_CNT' = 0 /\ Stream' = line
        <3>1. line # <<>> => NoHead(line) /\ line[1] # V3_FRAME_HEAD_0
            <4>1. line # <<>> => 1 \in 1..Len(line)
                BY <1>1 DEF Sound
            <4> QED
                BY <2>1, <4>1 DEF NoHead
        <3>2. FrontIsReply'
            BY <2>1, <3>1 DEF FrontIsReply
        <3>3. RestHasNone'
            BY <1>2, <3>1 DEF RestHasNone
        <3>4. KeptIsReply'
            BY <1>4, <2>1 DEF KeptIsReply
        <3> QED
            BY <3>2, <3>3, <3>4
    <2>2. CASE /\ USART_RX_CNT' = USART_RX_CNT + Len(fifo) /\ Stream' = Stream
               /\ USART_RX_CNT' \in 2..(V3_FRAME_SIZE_NORMAL - 1)
               /\ Stream[1] = V3_FRAME_HEAD_0 /\ Stream[2] = V3_FRAME_HEAD_1
        <3>1. Within' = Within
            BY <1>11, <2>2 DEF Within
        <3>2. FrontIsReply
            BY DEF UartInv
        <3>3. FrontIsReply'
            BY <1>2, <1>8, <2>2, <3>1, <3>2 DEF FrontIsReply, IsLast
        <3>4. Within' # 0 /\ USART_RX_CNT' >= 2 /\ USART_RX_CNT' < V3_FRAME_SIZE_NORMAL
            BY <1>11, <2>2, Sizes
        <3> QED
            BY <2>2, <3>3, <3>4 DEF RestHasNone, KeptIsReply
    <2> QED
        BY <1>2, <2>1, <2>2
<1> QED
    BY <1>6, <1>9, <1>10, <1>12 DEF UartInv

(* The stream with one frame more, and with one byte less.                   *)
LEMMA SendExtends ==
    ASSUME Sound, Len(sent) =< MaxFrames, SendFrame
    PROVE  /\ line = <<>> /\ fifo' = fifo /\ RX_Sendata' = RX_Sendata /\ USART_RX_CNT' = USART_RX_CNT
           /\ pauses' = pauses /\ lost' = lost /\ handled' = handled
           /\ sent' \in Seq(Kind) /\ Len(sent') = Len(sent) + 1 /\ Len(sent') \in 1..MaxFrames
           /\ sent' = Append(sent, sent'[Len(sent')])
           /\ LastFrame' = Frame(sent'[Len(sent')], Len(sent'))
           /\ line' = LastFrame' /\ line' \in Seq(Byte)
           /\ Stream' = [i \in 1..Len(Stream') |-> Stream'[i]]
           /\ Len(Stream') = Len(Stream) + Len(line')
           /\ \A i \in 1..Len(Stream) : Stream'[i] = Stream[i]
           /\ \A i \in 1..Len(line') : Stream'[Len(Stream) + i] = line'[i]
           /\ \/ fifo = <<>> /\ burst' = IF sent'[Len(sent')] = "ota" THEN 1 ELSE 0
              \/ /\ sent'[Len(sent')] = "ota" /\ burst \in 1..(MaxBurst - 1)
                 /\ fifo # <<>> /\ burst' = burst + 1
<1>1. /\ Len(sent) < MaxFrames /\ line = <<>> /\ fifo' = fifo
      /\ RX_Sendata' = RX_Sendata /\ USART_RX_CNT' = USART_RX_CNT
      /\ pauses' = pauses /\ lost' = lost /\ handled' = handled
    BY DEF SendFrame, Quiet
<1>2. PICK kind \in Kind :
         /\ \/ fifo = <<>> /\ burst' = IF kind = "ota" THEN 1 ELSE 0
            \/ /\ kind = "ota" /\ burst \in 1..(MaxBurst - 1)
               /\ fifo # <<>>
               /\ burst' = burst + 1
         /\ sent' = Append(sent, kind)
         /\ line' = Frame(kind, Len(sent'))
    BY DEF SendFrame
<1>3. sent' \in Seq(Kind) /\ Len(sent') = Len(sent) + 1 /\ sent'[Len(sent')] = kind /\ Len(sent') \in 1..MaxFrames
    <2>1. sent \in Seq(Kind) /\ Len(sent) \in Nat
        BY DEF Sound
    <2>2. sent' \in Seq(Kind) /\ Len(sent') = Len(sent) + 1 /\ sent'[Len(sent) + 1] = kind
        BY <1>2, <2>1, AppendIsThere
    <2> QED
        BY <1>1, <2>1, <2>2, Sizes
<1>4. LastFrame' = Frame(kind, Len(sent')) /\ line' = LastFrame'
    BY <1>2, <1>3 DEF LastFrame
<1>5. line' \in Seq(Byte)
    BY <1>2, <1>3, FrameBytes
<1> DEFINE c == USART_RX_CNT  f == Len(fifo)  l == Len(line')
           D(i) == IF i =< c THEN RX_Sendata[i - 1] ELSE IF i =< c + f THEN fifo[i - c] ELSE line'[i - c - f]
<1>6. /\ c \in Nat /\ f \in Nat /\ l \in Nat /\ Len(Stream) = c + f
      /\ \A i \in 1..c : Stream[i] = RX_Sendata[i - 1]
      /\ \A i \in 1..f : Stream[c + i] = fifo[i]
    <2>1. c \in Nat /\ f \in Nat /\ l \in Nat /\ Len(line) = 0 /\ Len(Stream) = c + f + Len(line)
        BY <1>1, <1>5, StreamBytes
    <2>2. /\ \A i \in 1..c : Stream[i] = RX_Sendata[i - 1]
          /\ \A i \in 1..f : Stream[c + i] = fifo[i]
        BY StreamBytes
    <2> HIDE DEF c, f, l
    <2> QED
        BY <2>1, <2>2
<1>7. Stream' = [i \in 1..(c + f + l) |-> D(i)]
    BY <1>1 DEF Stream
<1> HIDE DEF c, f, l
<1>8. /\ Len(Stream') = c + f + l /\ \A i \in 1..(c + f + l) : Stream'[i] = D(i)
      /\ Stream' = [i \in 1..Len(Stream') |-> Stream'[i]]
    <2> DEFINE m == c + f + l
    <2>1. m \in Nat
        BY <1>6
    <2> HIDE DEF m, D
    <2>2. Stream' = [i \in 1..m |-> D(i)]
        BY <1>7 DEF m
    <2>3. Len(Stream') = m /\ \A i \in 1..m : Stream'[i] = D(i)
        BY <2>1, <2>2
    <2>4. Stream' = [i \in 1..Len(Stream') |-> Stream'[i]]
        BY <2>2, <2>3
    <2> QED
        BY <2>3, <2>4 DEF m
<1>9. ASSUME NEW i \in 1..(c + f) PROVE Stream'[i] = Stream[i]
    <2>1. i \in 1..(c + f + l)
        BY <1>6
    <2>2. CASE i =< c
        <3>1. D(i) = RX_Sendata[i - 1] /\ i \in 1..c
            BY <1>6, <2>2
        <3> HIDE DEF D
        <3> QED
            BY <1>6, <1>8, <2>1, <3>1
    <2>3. CASE i > c
        <3>1. i - c \in 1..f /\ c + (i - c) = i
            BY <1>6, <2>3
        <3>2. Stream[i] = fifo[i - c]
            BY <1>6, <3>1
        <3>3. D(i) = fifo[i - c]
            BY <1>6, <2>3
        <3> QED
            BY <1>8, <2>1, <3>2, <3>3
    <2> QED
        BY <1>6, <2>2, <2>3
<1>10. ASSUME NEW i \in 1..l PROVE Stream'[c + f + i] = line'[i]
    <2>1. c + f + i \in 1..(c + f + l) /\ ~(c + f + i =< c) /\ ~(c + f + i =< c + f) /\ c + f + i - c - f = i
        BY <1>6
    <2>2. D(c + f + i) = line'[c + f + i - c - f]
        BY <1>6, <2>1
    <2>3. D(c + f + i) = line'[i]
        BY <2>1, <2>2
    <2> HIDE DEF D
    <2> QED
        BY <1>8, <2>1, <2>3
<1>11. /\ Len(Stream') = Len(Stream) + l
       /\ \A i \in 1..Len(Stream) : Stream'[i] = Stream[i]
       /\ \A i \in 1..l : Stream'[Len(Stream) + i] = line'[i]
    BY <1>6, <1>8, <1>9, <1>10
<1> QED
    BY <1>1, <1>2, <1>3, <1>4, <1>5, <1>8, <1>11 DEF l

(* A frame begun behind what a pause has left changes nothing in front of it; *)
(* begun alone it is a register reply, or a V2 reply that is no head.         *)
LEMMA SendKeepsFront ==
    ASSUME UartInv, SendFrame, ~doubt'
    PROVE  FrontIsReply' /\ RestHasNone' /\ KeptIsReply'
<1> DEFINE k == sent'[Len(sent')]  L == Len(Stream)  N == V3_FRAME_SIZE_NORMAL
<1>1. /\ Sound /\ Len(sent) =< MaxFrames /\ FrontIsReply /\ KeptIsReply
      /\ burst > 0 => IsLast({"ota"})
    BY DEF UartInv
<1>2. /\ line = <<>> /\ fifo' = fifo /\ USART_RX_CNT' = USART_RX_CNT
      /\ sent' \in Seq(Kind) /\ Len(sent') \in 1..MaxFrames
      /\ LastFrame' = Frame(k, Len(sent')) /\ line' = LastFrame' /\ line' \in Seq(Byte)
      /\ Stream' = [i \in 1..Len(Stream') |-> Stream'[i]]
      /\ Len(Stream') = L + Len(line')
      /\ \A i \in 1..L : Stream'[i] = Stream[i]
      /\ \A i \in 1..Len(line') : Stream'[L + i] = line'[i]
      /\ fifo = <<>> \/ burst \in 1..(MaxBurst - 1)
    BY <1>1, SendExtends
<1>3. k \in Kind /\ sent' # <<>>
    BY <1>2
<1>4. ~(k = "v2" /\ LastFrame' = V3_HEAD)
    <2>1. PICK kind \in Kind : /\ sent' = Append(sent, kind)
                               /\ TookOther(kind = "v2" /\ line' = V3_HEAD)
        BY DEF SendFrame
    <2>2. kind = k
        <3>1. sent \in Seq(Kind)
            BY <1>1 DEF Sound
        <3> QED
            BY <2>1, <3>1, AppendIsThere
    <2>3. ~(kind = "v2" /\ line' = V3_HEAD)
        BY <2>1, Zenon DEF TookOther
    <2> QED
        BY <1>2, <2>2, <2>3
<1>5. /\ L \in Nat /\ L = Within /\ Within' = Within /\ Stream \in Seq(Byte)
      /\ USART_RX_CNT \in Nat
      /\ fifo = <<>> => L = USART_RX_CNT
    <2>1. /\ USART_RX_CNT \in Nat /\ Len(fifo) \in Nat /\ Len(line) = 0 /\ Stream \in Seq(Byte)
          /\ L = USART_RX_CNT + Len(fifo) + Len(line)
        BY <1>1, <1>2, StreamBytes
    <2>2. fifo = <<>> => Len(fifo) = 0
        OBVIOUS
    <2> HIDE DEF L
    <2> QED
        BY <1>2, <2>1, <2>2 DEF Within
<1>6. /\ k = "v3" => Len(LastFrame') = N
      /\ k = "ota" => LastFrame'[1] = \hEB
      /\ k = "uc" => LastFrame'[1] = \hAA
    <2>1. k = "v3" => Len(LastFrame') = N
        BY <1>2, V3FrameBytes
    <2>2. k = "ota" => LastFrame'[1] = CTRL_OTA_HEAD[1]
        BY <1>2, OtaFrameBytes
    <2>3. k = "uc" => LastFrame' = <<\hAA, \h10, \h55>>
        BY <1>2, OtherFrameBytes
    <2>4. <<\hAA, \h10, \h55>>[1] = \hAA
        OBVIOUS
    <2> QED
        BY <2>1, <2>2, <2>3, <2>4 DEF CTRL_OTA_HEAD
<1>7. RestHasNone'
    <2> SUFFICES ASSUME IsLast({"v3"})' PROVE ~(Len(line') =< N - 3)
        BY DEF RestHasNone
    <2>1. Len(line') = N
        BY <1>2, <1>6 DEF IsLast
    <2> QED
        BY <2>1, Sizes
<1> HIDE DEF k, L
<1>8. CASE L = 0
    <2>1. Stream' = LastFrame'
        <3>1. Len(line') \in Nat /\ \A i \in 1..Len(line') : 0 + i = i
            BY <1>2
        <3>2. Len(Stream') = Len(line') /\ \A i \in 1..Len(line') : Stream'[i] = line'[i]
            BY <1>2, <1>8, <3>1
        <3>3. line' = [i \in 1..Len(line') |-> line'[i]]
            BY <1>2
        <3> QED
            BY <1>2, <3>2, <3>3
    <2>2. FrontIsReply'
        <3> SUFFICES ASSUME LastFrame'[1] = V3_FRAME_HEAD_0
                     PROVE  k \in {"v2", "v3"} /\ LastFrame' # V3_HEAD
            BY <1>3, <2>1 DEF FrontIsReply, IsLast, k
        <3>1. k \in {"v2", "v3"}
            BY <1>3, <1>6 DEF Kind
        <3>2. Len(V3_HEAD) = 2
            BY DEF V3_HEAD
        <3>3. Len(V3_HEAD) # N
            BY <3>2, Sizes
        <3>4. k = "v3" => LastFrame' # V3_HEAD
            BY <1>6, <3>3
        <3> QED
            BY <1>4, <3>1, <3>4
    <2>3. KeptIsReply'
        BY <1>1, <1>2, <1>5, <1>8, Sizes DEF KeptIsReply
    <2> QED
        BY <1>7, <2>2, <2>3
<1>9. CASE L > 0
    <2>1. 1 \in 1..L /\ (L >= 2 => 2 \in 1..L) /\ (L >= 3 => 3 \in 1..L)
        BY <1>5, <1>9
    <2>2. /\ Stream'[1] = Stream[1]
          /\ L >= 2 => Stream'[2] = Stream[2]
          /\ L >= 3 => Stream'[3] = Stream[3]
        BY <1>2, <2>1
    <2>3. Stream # <<>>
        <3>1. L # Len(<<>>)
            BY <1>9
        <3> QED
            BY <3>1, Zenon DEF L
    <2>4. KeptIsReply'
        <3> SUFFICES ASSUME fifo = <<>>
                     PROVE  /\ USART_RX_CNT < N
                            /\ USART_RX_CNT > 0 => /\ USART_RX_CNT >= 2
                                                   /\ Stream'[1] = V3_FRAME_HEAD_0
                                                   /\ Stream'[2] = V3_FRAME_HEAD_1
            BY <1>2 DEF KeptIsReply
        <3>1. /\ USART_RX_CNT < N /\ USART_RX_CNT >= 2
              /\ Stream[1] = V3_FRAME_HEAD_0 /\ Stream[2] = V3_FRAME_HEAD_1
            BY <1>1, <1>5, <1>9 DEF KeptIsReply
        <3> QED
            BY <1>5, <2>2, <3>1
    <2>5. FrontIsReply'
        <3> SUFFICES ASSUME Stream[1] = V3_FRAME_HEAD_0
                     PROVE  \/ L >= 3 /\ Stream'[2] = V3_FRAME_HEAD_1 /\ Stream'[3] \in Command
                            \/ L >= 2 /\ Stream'[2] \in Command
            BY <1>5, <2>2 DEF FrontIsReply
        <3>1. \/ L >= 3 /\ Stream[2] = V3_FRAME_HEAD_1 /\ Stream[3] \in Command
              \/ L >= 2 /\ Stream[2] \in Command
              \/ IsLast({"v2", "v3"}) /\ Stream = LastFrame /\ LastFrame # V3_HEAD
              \/ IsLast({"v3"}) /\ Within = 1 /\ Len(line) = N - 2
            BY <1>1, <1>5, <2>3 DEF FrontIsReply
        <3>2. ~(Len(line) = N - 2)
            <4>1. Len(line) = 0
                BY <1>2
            <4> QED
                BY <4>1, Sizes
        <3>3. ASSUME IsLast({"v2", "v3"}), Stream = LastFrame, LastFrame # V3_HEAD
              PROVE  FALSE
            <4>1. ~(burst > 0)
                BY <1>1, <3>3 DEF IsLast
            <4>2. fifo = <<>>
                BY <1>2, <4>1, Sizes
            <4>3. /\ L < N /\ Stream[1] = V3_FRAME_HEAD_0 /\ Stream[2] = V3_FRAME_HEAD_1
                BY <1>1, <1>5, <1>9, <4>2 DEF KeptIsReply
            <4>4. ~IsLast({"v3"})
                <5>1. Len(LastFrame) # N
                    BY <1>5, <3>3, <4>3, Sizes DEF L
                <5> QED
                    BY <1>1, <5>1, FrameFront
            <4>5. IsLast({"v2"})
                BY <3>3, <4>4 DEF IsLast
            <4>6. Len(Stream) = 2
                BY <1>1, <3>3, <4>5, FrameFront
            <4>7. Stream = V3_HEAD
                BY <1>5, <4>3, <4>6 DEF V3_HEAD
            <4> QED
                BY <3>3, <4>7
        <3> QED
            BY <1>5, <2>2, <3>1, <3>2, <3>3
    <2> QED
        BY <1>7, <2>4, <2>5
<1> QED
    BY <1>5, <1>8, <1>9

LEMMA InvAtSend == ASSUME UartInv, SendFrame, ~doubt' PROVE UartInv'
<1>1. Sound /\ Len(sent) =< MaxFrames
    BY DEF UartInv
<1>2. /\ line = <<>> /\ fifo' = fifo /\ RX_Sendata' = RX_Sendata /\ USART_RX_CNT' = USART_RX_CNT
      /\ pauses' = pauses /\ lost' = lost
    BY <1>1, SendExtends
<1>3. /\ sent' \in Seq(Kind) /\ Len(sent') = Len(sent) + 1 /\ Len(sent') \in 1..MaxFrames
      /\ LastFrame' = Frame(sent'[Len(sent')], Len(sent'))
      /\ line' = LastFrame' /\ line' \in Seq(Byte)
    BY <1>1, SendExtends
<1>4. /\ Len(Stream') = Len(Stream) + Len(line')
      /\ \A i \in 1..Len(Stream) : Stream'[i] = Stream[i]
      /\ \A i \in 1..Len(line') : Stream'[Len(Stream) + i] = line'[i]
    BY <1>1, SendExtends
<1>5. \/ fifo = <<>> /\ burst' = IF sent'[Len(sent')] = "ota" THEN 1 ELSE 0
      \/ /\ sent'[Len(sent')] = "ota" /\ burst \in 1..(MaxBurst - 1)
         /\ fifo # <<>> /\ burst' = burst + 1
    BY <1>1, SendExtends
<1>6. /\ USART_RX_CNT \in Nat /\ Len(fifo) \in Nat /\ Len(line) = 0 /\ Len(line') \in Nat
      /\ USART_RX_CNT + Len(fifo) + Len(line) =< V3_FRAME_SIZE_NORMAL - 1 + SincePause
      /\ fifo = <<>> => USART_RX_CNT < V3_FRAME_SIZE_NORMAL
    BY <1>1, <1>2, <1>3, StreamBytes DEF UartInv, KeptIsReply
<1>7. burst' \in 0..MaxBurst /\ (burst' > 0 => sent'[Len(sent')] = "ota")
    <2>1. MaxBurst \in Nat /\ MaxBurst >= 1
        BY Sizes
    <2> QED
        BY <1>5, <2>1
<1>8. Sound'
    BY <1>1, <1>2, <1>3, <1>7 DEF Sound
<1>9. sent'[Len(sent')] \in Kind /\ sent' # <<>>
    BY <1>3
<1>10. Len(line') = FrameLength(sent'[Len(sent')])
    BY <1>3, <1>9, FrameBytes
<1>11. USART_RX_CNT' + Len(fifo') + Len(line') =< V3_FRAME_SIZE_NORMAL - 1 + SincePause'
    <2>1. CASE fifo = <<>> /\ burst' = IF sent'[Len(sent')] = "ota" THEN 1 ELSE 0
        <3>1. SincePause' = Len(line')
            <4>1. CASE sent'[Len(sent')] = "ota"
                <5>1. burst' = 1 /\ Len(line') = 8
                    BY <1>10, <2>1, <4>1 DEF FrameLength
                <5> QED
                    BY <5>1 DEF SincePause
            <4>2. CASE sent'[Len(sent')] # "ota"
                <5>1. burst' = 0
                    BY <2>1, <4>2
                <5> QED
                    BY <1>3, <1>9, <5>1 DEF SincePause
            <4> QED
                BY <4>1, <4>2
        <3>2. Len(fifo) = 0
            BY <2>1
        <3>3. USART_RX_CNT =< V3_FRAME_SIZE_NORMAL - 1
            BY <1>6, <2>1, Sizes
        <3> QED
            BY <1>2, <1>6, <3>1, <3>2, <3>3, Sizes
    <2>2. CASE /\ sent'[Len(sent')] = "ota" /\ burst \in 1..(MaxBurst - 1) /\ burst' = burst + 1
        <3>1. Len(line') = 8
            BY <1>10, <2>2 DEF FrameLength
        <3>2. burst \in Nat /\ burst > 0 /\ burst' > 0
            BY <2>2, Sizes
        <3>3. SincePause = 8 * burst /\ SincePause' = 8 * (burst + 1)
            BY <2>2, <3>2 DEF SincePause
        <3> QED
            BY <1>2, <1>6, <3>1, <3>2, <3>3, Sizes
    <2> QED
        BY <1>5, <2>1, <2>2
<1>12. FrontIsReply' /\ RestHasNone' /\ KeptIsReply'
    BY SendKeepsFront
<1>13. TailOf(line', LastFrame')
    BY <1>3, <1>6 DEF TailOf
<1>14. Len(sent') =< MaxFrames
    BY <1>3
<1> QED
    BY <1>7, <1>8, <1>9, <1>11, <1>12, <1>13, <1>14 DEF UartInv, IsLast

LEMMA LoseShortens ==
    ASSUME Sound, line # <<>>, line' = Tail(line), fifo' = fifo, RX_Sendata' = RX_Sendata,
           USART_RX_CNT' = USART_RX_CNT
    PROVE  /\ line' \in Seq(Byte) /\ Len(line') = Len(line) - 1
           /\ \A i \in 1..Len(line') : line'[i] = line[i + 1]
           /\ Len(Stream') = Len(Stream) - 1
           /\ \A i \in 1..(USART_RX_CNT + Len(fifo)) : Stream'[i] = Stream[i]
           /\ \A i \in (USART_RX_CNT + Len(fifo) + 1)..(Len(Stream) - 1) : Stream'[i] = Stream[i + 1]
<1> DEFINE c == USART_RX_CNT  f == Len(fifo)  l == Len(line)
           D(i) == IF i =< c THEN RX_Sendata[i - 1] ELSE IF i =< c + f THEN fifo[i - c] ELSE line'[i - c - f]
<1>1. /\ c \in Nat /\ f \in Nat /\ l \in Nat /\ l >= 1
      /\ Len(Stream) = c + f + l
      /\ \A i \in 1..c : Stream[i] = RX_Sendata[i - 1]
      /\ \A i \in 1..f : Stream[c + i] = fifo[i]
      /\ \A i \in 1..l : Stream[c + f + i] = line[i]
    <2>1. l \in Nat /\ l >= 1
        BY DEF Sound
    <2> HIDE DEF l
    <2> QED
        BY <2>1, StreamBytes DEF l
<1>2. line' \in Seq(Byte) /\ Len(line') = l - 1 /\ \A i \in 1..(l - 1) : line'[i] = line[i + 1]
    BY DEF Sound
<1>3. Stream' = [i \in 1..(c + f + (l - 1)) |-> D(i)]
    BY <1>2 DEF Stream
<1> HIDE DEF c, f, l
<1>4. Len(Stream') = c + f + (l - 1) /\ \A i \in 1..(c + f + (l - 1)) : Stream'[i] = D(i)
    <2> DEFINE m == c + f + (l - 1)
    <2>1. m \in Nat
        BY <1>1
    <2> HIDE DEF m, D
    <2>2. Stream' = [i \in 1..m |-> D(i)]
        BY <1>3 DEF m
    <2>3. Len(Stream') = m /\ \A i \in 1..m : Stream'[i] = D(i)
        BY <2>1, <2>2
    <2> QED
        BY <2>3 DEF m
<1>5. ASSUME NEW i \in 1..(c + f) PROVE Stream'[i] = Stream[i]
    <2>1. i \in 1..(c + f + (l - 1))
        BY <1>1
    <2>2. CASE i =< c
        <3>1. D(i) = RX_Sendata[i - 1] /\ i \in 1..c
            BY <1>1, <2>2
        <3> HIDE DEF D
        <3> QED
            BY <1>1, <1>4, <2>1, <3>1
    <2>3. CASE i > c
        <3>1. i - c \in 1..f /\ c + (i - c) = i
            BY <1>1, <2>3
        <3>2. Stream[i] = fifo[i - c]
            BY <1>1, <3>1
        <3>3. D(i) = fifo[i - c]
            BY <1>1, <2>3
        <3> QED
            BY <1>4, <2>1, <3>2, <3>3
    <2> QED
        BY <1>1, <2>2, <2>3
<1>6. ASSUME NEW i \in (c + f + 1)..(c + f + l - 1) PROVE Stream'[i] = Stream[i + 1]
    <2>1. /\ i \in 1..(c + f + (l - 1)) /\ ~(i =< c) /\ ~(i =< c + f) /\ i - c - f \in 1..(l - 1)
          /\ (i - c - f) + 1 \in 1..l /\ c + f + ((i - c - f) + 1) = i + 1
        BY <1>1
    <2>2. D(i) = line'[i - c - f]
        BY <2>1
    <2>3. line'[i - c - f] = line[(i - c - f) + 1]
        BY <1>2, <2>1
    <2>4. Stream[i + 1] = line[(i - c - f) + 1]
        BY <1>1, <2>1
    <2> HIDE DEF D
    <2> QED
        BY <1>4, <2>1, <2>2, <2>3, <2>4
<1>7. Len(Stream') = Len(Stream) - 1
    BY <1>1, <1>4
<1> QED
    BY <1>1, <1>2, <1>5, <1>6, <1>7 DEF c, f, l

(* A byte lost leaves in front of the stream what the interrupt has of it; of *)
(* what the interrupt has nothing of, what is left holds no head.             *)
LEMMA LoseKeepsFront ==
    ASSUME UartInv, Lose, ~doubt'
    PROVE  FrontIsReply' /\ RestHasNone' /\ KeptIsReply'
<1> DEFINE W == Within  l == Len(line)  N == V3_FRAME_SIZE_NORMAL  F == LastFrame
<1>1. /\ Sound /\ Len(sent) =< MaxFrames /\ line # <<>> /\ sent # <<>> /\ TailOf(line, F)
      /\ FrontIsReply /\ RestHasNone /\ KeptIsReply
    BY DEF UartInv, Lose, Quiet
<1>2. /\ line' = Tail(line) /\ fifo' = fifo /\ RX_Sendata' = RX_Sendata
      /\ USART_RX_CNT' = USART_RX_CNT /\ sent' = sent
    BY DEF Lose
<1>3. /\ Within' = W /\ LastFrame' = F /\ \A kinds : IsLast(kinds)' <=> IsLast(kinds)
    BY <1>2 DEF Within, LastFrame, IsLast
<1>4. /\ line' \in Seq(Byte) /\ Len(line') = l - 1
      /\ \A i \in 1..Len(line') : line'[i] = line[i + 1]
      /\ Len(Stream') = Len(Stream) - 1
      /\ \A i \in 1..W : Stream'[i] = Stream[i]
      /\ \A i \in (W + 1)..(Len(Stream) - 1) : Stream'[i] = Stream[i + 1]
    BY <1>1, <1>2, LoseShortens DEF Within
<1>5. /\ W \in Nat /\ l \in Nat /\ l >= 1 /\ USART_RX_CNT \in Nat /\ USART_RX_CNT =< W
      /\ Len(Stream) = W + l /\ Stream \in Seq(Byte)
      /\ \A i \in 1..l : Stream[W + i] = line[i]
    <2>1. Len(line) >= 1
        BY <1>1 DEF Sound
    <2>2. /\ USART_RX_CNT \in Nat /\ Len(fifo) \in Nat /\ Len(line) \in Nat
          /\ Stream \in Seq(Byte) /\ Len(Stream) = USART_RX_CNT + Len(fifo) + Len(line)
          /\ \A i \in 1..Len(line) : Stream[USART_RX_CNT + Len(fifo) + i] = line[i]
        BY <1>1, StreamBytes
    <2> QED
        BY <2>1, <2>2 DEF Within
<1>6. /\ Len(F) \in 2..255 /\ l =< Len(F) /\ \A i \in 1..l : line[i] = F[Len(F) - l + i]
      /\ Position = Len(F) - l + 1
    <2>1. Position = Len(F) - l + 1
        BY DEF Position, LastFrame, Last
    <2> QED
        BY <1>1, <2>1, LastFrameBytes DEF TailOf
<1>7. /\ IsLast({"v3"}) => Position # 3
      /\ ~IsLast({"v3"}) => NoHead(F)
    <2>1. ~(IF Last(sent) = "v3" THEN Position = 3 ELSE HoldsHead(Frame(Last(sent), Len(sent))))
        BY Zenon DEF Lose, TookOther
    <2>2. Last(sent) = sent[Len(sent)] /\ F = Frame(Last(sent), Len(sent))
        BY DEF Last, LastFrame
    <2>3. IsLast({"v3"}) <=> Last(sent) = "v3"
        BY <1>1, <2>2 DEF IsLast
    <2>4. HoldsHead(F) \/ NoHead(F)
        BY DEF HoldsHead, NoHead
    <2> QED
        BY <2>1, <2>2, <2>3, <2>4
<1>8. IsLast({"v3"}) => /\ Len(F) = N /\ F[1] = V3_FRAME_HEAD_0 /\ F[2] = V3_FRAME_HEAD_1
                        /\ F[3] \in Command
    BY <1>1, FrameFront
<1>9. N \in 4..255
    BY Sizes
<1> HIDE DEF W, l, N, F
<1>0. /\ Len(F) \in Nat /\ 1 \in 1..Len(F)
      /\ IsLast({"v3"}) => l # N - 2
    <2> DEFINE n == Len(F)
    <2>1. n \in 2..255 /\ Position = n - l + 1
        BY <1>6
    <2>2. IsLast({"v3"}) => n = N /\ Position # 3
        BY <1>7, <1>8
    <2> HIDE DEF n
    <2>3. n \in Nat /\ 1 \in 1..n /\ (n = N /\ Position # 3 => l # N - 2)
        BY <1>5, <1>9, <2>1
    <2> QED
        BY <2>2, <2>3 DEF n
<1>10. KeptIsReply'
    <2> SUFFICES ASSUME fifo = <<>>, USART_RX_CNT > 0
                 PROVE  Stream'[1] = Stream[1] /\ Stream'[2] = Stream[2]
        BY <1>1, <1>2 DEF KeptIsReply
    <2>1. USART_RX_CNT >= 2
        BY <1>1 DEF KeptIsReply
    <2>2. 1 \in 1..W /\ 2 \in 1..W
        BY <1>5, <2>1
    <2> QED
        BY <1>4, <2>2
<1>11. RestHasNone'
    <2> SUFFICES ASSUME W = 0, IsLast({"v3"}), Len(line') =< N - 3 PROVE NoHead(line')
        BY <1>3 DEF RestHasNone, N, W
    <2>1. l # N - 2
        BY <1>0
    <2>2. l =< N - 3
        BY <1>4, <1>5, <1>9, <2>1
    <2>3. NoHead(line)
        BY <1>1, <2>2 DEF RestHasNone, W, l, N
    <2>4. \A i \in 1..Len(line') : i + 1 \in 1..l
        BY <1>4, <1>5
    <2> QED
        BY <1>4, <2>3, <2>4 DEF NoHead, l
<1>12. CASE W = 0
    <2>1. Stream' # <<>> => l >= 2 /\ Stream'[1] = line[2]
        <3> SUFFICES ASSUME Stream' # <<>> PROVE l >= 2 /\ Stream'[1] = line[2]
            OBVIOUS
        <3>1. Len(Stream') = l - 1
            BY <1>4, <1>5, <1>12
        <3>2. Len(Stream') # 0
            <4>1. Stream' = [i \in 1..(USART_RX_CNT' + Len(fifo') + Len(line')) |-> Stream'[i]]
                BY DEF Stream
            <4>2. Len(Stream') = 0 => Stream' = <<>>
                <5>1. USART_RX_CNT' + Len(fifo') + Len(line') = l - 1
                    <6>1. W = USART_RX_CNT + Len(fifo) /\ Len(fifo) \in Nat
                        BY <1>1 DEF Within, W, Sound
                    <6> QED
                        BY <1>2, <1>4, <1>5, <1>12, <6>1
                <5> QED
                    BY <1>5, <3>1, <4>1, <5>1
            <4> QED
                BY <4>2
        <3>3. l >= 2
            BY <1>5, <3>1, <3>2
        <3>4. 1 \in (W + 1)..(Len(Stream) - 1) /\ 2 \in 1..l /\ W + 2 = 2
            BY <1>5, <1>12, <3>3
        <3>5. Stream'[1] = Stream[1 + 1] /\ Stream[W + 2] = line[2]
            BY <1>4, <1>5, <3>4
        <3> QED
            BY <3>3, <3>4, <3>5
    <2>2. l >= 2 => line[2] # V3_FRAME_HEAD_0
        <3> SUFFICES ASSUME l >= 2 PROVE line[2] # V3_FRAME_HEAD_0
            OBVIOUS
        <3>1. 2 \in 1..l /\ line[2] = F[Len(F) - l + 2] /\ Len(F) - l + 2 \in 1..Len(F)
            BY <1>5, <1>6
        <3>2. CASE ~IsLast({"v3"})
            BY <1>7, <3>1, <3>2 DEF NoHead
        <3>3. CASE IsLast({"v3"})
            <4>1. CASE l = N
                BY <1>8, <3>1, <3>3, <4>1
            <4>2. CASE l = N - 1
                <5>1. line[2] = F[3]
                    BY <1>8, <1>9, <3>1, <3>3, <4>2
                <5> QED
                    BY <1>8, <3>3, <5>1 DEF Command
            <4>3. CASE l =< N - 3
                <5>1. NoHead(line)
                    BY <1>1, <1>12, <3>3, <4>3 DEF RestHasNone, W, l, N
                <5> QED
                    BY <3>1, <5>1 DEF NoHead, l
            <4>4. l # N - 2
                BY <1>0, <3>3
            <4>5. l \in Nat /\ N \in Nat /\ l =< N
                <5>1. l \in Nat /\ l =< Len(F)
                    BY <1>5, <1>6
                <5>2. Len(F) = N
                    BY <1>8, <3>3
                <5>3. N \in Nat
                    BY Sizes DEF N
                <5> HIDE DEF F, l, N
                <5> QED
                    BY <5>1, <5>2, <5>3
            <4>6. l = N \/ l = N - 1 \/ l =< N - 3
                <5> HIDE DEF l, N
                <5> QED
                    BY <4>4, <4>5
            <4> QED
                BY <4>1, <4>2, <4>3, <4>6
        <3> QED
            BY <3>2, <3>3
    <2> QED
        BY <1>10, <1>11, <2>1, <2>2 DEF FrontIsReply
<1>13. CASE W >= 1
    <2>1. 1 \in 1..W /\ (W >= 2 => 2 \in 1..W) /\ (W >= 3 => 3 \in 1..W)
        BY <1>5, <1>13
    <2>2. /\ Stream'[1] = Stream[1]
          /\ W >= 2 => Stream'[2] = Stream[2]
          /\ W >= 3 => Stream'[3] = Stream[3]
        BY <1>4, <2>1
    <2>3. Stream # <<>>
        <3>1. Len(Stream) # Len(<<>>)
            BY <1>5, <1>13
        <3> QED
            BY <3>1, Zenon
    <2>4. ASSUME Stream[1] = V3_FRAME_HEAD_0
          PROVE  \/ W >= 3 /\ Stream'[2] = V3_FRAME_HEAD_1 /\ Stream'[3] \in Command
                 \/ W >= 2 /\ Stream'[2] \in Command
                 \/ IsLast({"v3"}) /\ W = 1 /\ Len(line') = N - 2
        <3>1. \/ W >= 3 /\ Stream[2] = V3_FRAME_HEAD_1 /\ Stream[3] \in Command
              \/ W >= 2 /\ Stream[2] \in Command
              \/ IsLast({"v2", "v3"}) /\ Stream = F
              \/ IsLast({"v3"}) /\ W = 1 /\ l = N - 2
            BY <1>1, <2>3, <2>4 DEF FrontIsReply, W, l, N, F
        <3>2. CASE IsLast({"v3"}) /\ W = 1 /\ l = N - 2
            <4>1. Position = 3
                <5>1. Position = Len(F) - l + 1
                    BY <1>6
                <5>2. Len(F) = N
                    BY <1>8, <3>2
                <5>3. l = N - 2 /\ N \in Nat
                    BY <3>2, Sizes DEF N
                <5> HIDE DEF F, l, N
                <5> QED
                    BY <5>1, <5>2, <5>3
            <4> QED
                BY <1>7, <3>2, <4>1
        <3>3. CASE IsLast({"v2", "v3"}) /\ Stream = F
            <4>1. IsLast({"v3"})
                <5> SUFFICES ASSUME ~IsLast({"v3"}) PROVE FALSE
                    OBVIOUS
                <5>1. NoHead(F) /\ 1 \in 1..Len(F)
                    BY <1>0, <1>7
                <5> QED
                    BY <2>4, <3>3, <5>1 DEF NoHead
            <4>2. Len(F) = N /\ N = W + l
                BY <1>5, <1>8, <3>3, <4>1
            <4>3. CASE W = 1
                BY <1>4, <1>5, <4>1, <4>2, <4>3
            <4>4. CASE W = 2
                <5>1. Position = 3
                    BY <1>5, <1>6, <1>9, <4>2, <4>4
                <5> QED
                    BY <1>7, <4>1, <5>1
            <4>5. CASE W >= 3
                BY <1>5, <1>8, <2>2, <3>3, <4>1, <4>5
            <4> QED
                BY <1>5, <1>13, <4>3, <4>4, <4>5
        <3> QED
            BY <1>5, <2>2, <3>1, <3>2, <3>3
    <2>5. FrontIsReply'
        BY <1>3, <2>2, <2>4 DEF FrontIsReply, W, N
    <2> QED
        BY <1>10, <1>11, <2>5
<1> QED
    BY <1>5, <1>12, <1>13

LEMMA InvAtLose == ASSUME UartInv, Lose, ~doubt' PROVE UartInv'
<1>1. /\ Sound /\ line # <<>> /\ sent # <<>> /\ TailOf(line, LastFrame)
      /\ Len(sent) =< MaxFrames
    BY DEF UartInv, Lose, Quiet
<1>2. /\ line' = Tail(line) /\ fifo' = fifo /\ RX_Sendata' = RX_Sendata /\ USART_RX_CNT' = USART_RX_CNT
      /\ sent' = sent /\ burst' = burst /\ pauses' = pauses
      /\ lost' = [frame |-> Len(sent), bytes |-> lost.bytes + 1] /\ lost.bytes < MaxLoss
    BY DEF Lose
<1>3. /\ line' \in Seq(Byte) /\ Len(line') = Len(line) - 1
      /\ \A i \in 1..Len(line') : line'[i] = line[i + 1]
      /\ Len(Stream') = Len(Stream) - 1
      /\ \A i \in 1..(USART_RX_CNT + Len(fifo)) : Stream'[i] = Stream[i]
      /\ \A i \in (USART_RX_CNT + Len(fifo) + 1)..(Len(Stream) - 1) : Stream'[i] = Stream[i + 1]
    BY <1>1, <1>2, LoseShortens
<1>4. /\ USART_RX_CNT \in Nat /\ Len(fifo) \in Nat /\ Len(line) \in Nat /\ Len(line) >= 1
      /\ Stream \in Seq(Byte) /\ Len(Stream) = USART_RX_CNT + Len(fifo) + Len(line)
      /\ \A i \in 1..Len(line) : Stream[USART_RX_CNT + Len(fifo) + i] = line[i]
    <2>1. Len(line) >= 1
        BY <1>1 DEF Sound
    <2> QED
        BY <1>1, <2>1, StreamBytes
<1>5. Sound'
    <2>1. lost' \in [frame : 0..MaxFrames, bytes : 0..MaxLoss]
        <3>1. Len(sent) \in 0..MaxFrames /\ lost.bytes \in 0..MaxLoss /\ lost.bytes + 1 \in 0..MaxLoss
            <4>1. Len(sent) \in Nat /\ lost.bytes \in 0..MaxLoss
                BY <1>1 DEF Sound
            <4> QED
                BY <1>1, <1>2, <4>1, Sizes
        <3> QED
            BY <1>2, <3>1
    <2> QED
        BY <1>1, <1>2, <1>3, <2>1 DEF Sound
<1>6. LastFrame' = LastFrame /\ SincePause' = SincePause
    BY <1>2 DEF LastFrame, SincePause
<1>7. TailOf(line', LastFrame)
    <2>1. Len(LastFrame) \in Nat
        <3>1. Len(LastFrame) \in 2..255
            BY <1>1, LastFrameBytes
        <3>2. \A n \in 2..255 : n \in Nat
            OBVIOUS
        <3> QED
            BY <3>1, <3>2, Zenon
    <2> QED
        BY <1>1, <1>3, <1>4, <2>1, ShorterTail
<1>8. FrontIsReply' /\ RestHasNone' /\ KeptIsReply'
    BY LoseKeepsFront
<1>9. USART_RX_CNT' + Len(fifo') + Len(line') =< V3_FRAME_SIZE_NORMAL - 1 + SincePause'
    <2>1. USART_RX_CNT + Len(fifo) + Len(line) =< V3_FRAME_SIZE_NORMAL - 1 + SincePause
        BY DEF UartInv
    <2>2. SincePause \in Nat
        BY Fits
    <2> QED
        BY <1>2, <1>3, <1>4, <1>6, <2>1, <2>2, Sizes
<1>10. /\ Len(sent') =< MaxFrames
       /\ burst' > 0 => IsLast({"ota"})'
    BY <1>2 DEF UartInv, IsLast
<1> QED
    BY <1>1, <1>2, <1>5, <1>6, <1>7, <1>8, <1>9, <1>10 DEF UartInv

-----------------------------------------------------------------------------
(* The calls due                                                             *)

CallsOf(kind, n) ==
    CASE kind = "ota" -> << OtaReply(Content[n].reply) >>
      [] kind = "v3"  -> << [to |-> "V3_handle_mcu_reply", data |-> Frame(kind, n)] >>
      [] kind = "v2"  -> << [to |-> "Handle_mcu_replydata", data |-> Frame(kind, n)] >>
      [] kind = "uc"  -> << [to |-> "Handle_mcu_replydata", data |-> Frame(kind, n)],
                            [to |-> "send_mac_to_uc", data |-> <<>>] >>

(* Those of the first m frames.                                              *)
Due(s, m) == FlattenSeq([n \in 1..m |-> CallsOf(s[n], n)])

(* The calls of a burst of b replies behind m frames.                        *)
Burst(m, b) == [n \in 1..b |-> OtaReply(Content[m + n].reply)]

LEMMA BytesAreNaturals == ASSUME NEW s \in Seq(Byte) PROVE s \in Seq(Nat)
<1>1. s \in Seq(0..255)
    BY DEF Byte
<1> QED
    BY <1>1, BytesAreNats

LEMMA ReplyIsNat == ASSUME NEW n \in 1..MaxFrames PROVE Content[n].reply \in Nat
<1>1. Content[n].reply \in Byte
    BY ContentBytes
<1>2. \A c \in Byte : c \in Nat
    BY DEF Byte
<1> QED
    BY <1>1, <1>2, Zenon

LEMMA ReplyIsCall == ASSUME NEW c \in Nat PROVE OtaReply(c) \in AnyCall
<1>1. <<c>> \in Seq(Nat)
    OBVIOUS
<1> QED
    BY <1>1 DEF OtaReply, AnyCall, Callee

LEMMA CallsOfAreCalls ==
    ASSUME NEW kind \in Kind, NEW n \in 1..MaxFrames
    PROVE  CallsOf(kind, n) \in Seq(AnyCall)
<1> DEFINE F == Frame(kind, n)
           to(h) == [to |-> h, data |-> F]
<1>1. F \in Seq(Nat)
    BY FrameBytes, BytesAreNaturals
<1> HIDE DEF F
<1>2. to("V3_handle_mcu_reply") \in AnyCall /\ to("Handle_mcu_replydata") \in AnyCall
    BY <1>1 DEF AnyCall, Callee
<1>3. [to |-> "send_mac_to_uc", data |-> <<>>] \in AnyCall
    <2>1. <<>> \in Seq(Nat)
        OBVIOUS
    <2> QED
        BY <2>1 DEF AnyCall, Callee
<1>4. OtaReply(Content[n].reply) \in AnyCall
    BY ReplyIsNat, ReplyIsCall
<1> DEFINE r == OtaReply(Content[n].reply)
           x == to("V3_handle_mcu_reply")
           y == to("Handle_mcu_replydata")
           z == [to |-> "send_mac_to_uc", data |-> <<>>]
<1>5. CallsOf(kind, n) = <<r>> \/ CallsOf(kind, n) = <<x>> \/ CallsOf(kind, n) = <<y>> \/ CallsOf(kind, n) = <<y, z>>
    BY DEF CallsOf, Kind, F
<1> HIDE DEF r, x, y, z
<1>6. r \in AnyCall /\ x \in AnyCall /\ y \in AnyCall /\ z \in AnyCall
    BY <1>2, <1>3, <1>4 DEF r, x, y, z
<1>7. /\ << r >> \in Seq(AnyCall) /\ << x >> \in Seq(AnyCall) /\ << y >> \in Seq(AnyCall)
      /\ << y, z >> \in Seq(AnyCall)
    BY <1>6
<1> QED
    BY <1>5, <1>7

LEMMA DueMore ==
    ASSUME NEW s \in Seq(Kind), Len(s) =< MaxFrames, NEW m \in Nat, m =< Len(s)
    PROVE  /\ Due(s, m) \in Seq(AnyCall)
           /\ Due(s, 0) = <<>>
           /\ m + 1 =< Len(s) => Due(s, m + 1) = Joined(Due(s, m), CallsOf(s[m + 1], m + 1))
<1> DEFINE X(n) == CallsOf(s[n], n)
           f(k) == [n \in 1..k |-> X(n)]
<1>1. \A n \in 1..Len(s) : X(n) \in Seq(AnyCall)
    <2> TAKE n \in 1..Len(s)
    <2>1. n \in 1..MaxFrames /\ s[n] \in Kind
        BY Sizes
    <2> QED
        BY <2>1, CallsOfAreCalls
<1>2. Len(s) \in Nat
    OBVIOUS
<1>3. f(m) \in Seq(Seq(AnyCall)) /\ Len(f(m)) = m /\ \A n \in 1..m : f(m)[n] = X(n)
    <2>1. \A n \in 1..m : X(n) \in Seq(AnyCall)
        BY <1>1, <1>2
    <2> HIDE DEF X
    <2> QED
        BY <2>1
<1>4. Due(s, m) \in Seq(AnyCall)
    <2>1. Due(s, m) = FlattenSeq(f(m))
        BY DEF Due
    <2> HIDE DEF f
    <2> QED
        BY <1>3, <2>1, FlattenAppend, <<>> \in Seq(AnyCall)
<1>5. Due(s, 0) = <<>>
    <2>1. Due(s, 0) = FlattenSeq(<<>>)
        <3>1. f(0) = <<>>
            OBVIOUS
        <3> QED
            BY <3>1 DEF Due
    <2> QED
        BY <2>1 DEF FlattenSeq
<1>6. ASSUME m + 1 =< Len(s) PROVE Due(s, m + 1) = Joined(Due(s, m), X(m + 1))
    <2>1. X(m + 1) \in Seq(AnyCall)
        BY <1>1, <1>2, <1>6
    <2>2. f(m + 1) = Append(f(m), X(m + 1))
        <3> HIDE DEF X
        <3>1. /\ Append(f(m), X(m + 1)) \in Seq(Seq(AnyCall))
              /\ Len(Append(f(m), X(m + 1))) = m + 1
              /\ Append(f(m), X(m + 1))[m + 1] = X(m + 1)
            <4> HIDE DEF f
            <4> QED
                BY <1>3, <2>1, AppendIsThere
        <3>2. \A n \in 1..m : Append(f(m), X(m + 1))[n] = X(n)
            <4> HIDE DEF f
            <4>1. f(m) \in Seq(Seq(AnyCall)) /\ Len(f(m)) = m
                BY <1>3
            <4>2. \A n \in 1..m : Append(f(m), X(m + 1))[n] = f(m)[n]
                BY <2>1, <4>1, AppendFront
            <4> QED
                BY <1>3, <4>2
        <3> DEFINE g == Append(f(m), X(m + 1))
        <3> HIDE DEF g
        <3>3. g = [n \in 1..(m + 1) |-> g[n]] /\ 1..(m + 1) = 1..m \cup {m + 1}
            BY <3>1 DEF g
        <3>4. \A n \in 1..(m + 1) : g[n] = X(n)
            BY <3>1, <3>2, <3>3 DEF g
        <3> QED
            BY <3>3, <3>4 DEF g
    <2>3. Due(s, m) = FlattenSeq(f(m)) /\ Due(s, m + 1) = FlattenSeq(f(m + 1))
        BY DEF Due
    <2>4. FlattenSeq(Append(f(m), X(m + 1))) = Joined(FlattenSeq(f(m)), X(m + 1))
        <3> HIDE DEF f, X
        <3> QED
            BY <1>3, <2>1, FlattenAppend
    <2> HIDE DEF f, X
    <2> QED
        BY <2>2, <2>3, <2>4
<1> QED
    BY <1>4, <1>5, <1>6

LEMMA DueSame ==
    ASSUME NEW s, NEW t, NEW m \in Nat, \A n \in 1..m : t[n] = s[n]
    PROVE  Due(t, m) = Due(s, m)
<1>1. [n \in 1..m |-> CallsOf(t[n], n)] = [n \in 1..m |-> CallsOf(s[n], n)]
    OBVIOUS
<1> QED
    BY <1>1 DEF Due

(* What is due begins with what was due before.                              *)
LEMMA DueLonger ==
    ASSUME NEW s \in Seq(Kind), Len(s) =< MaxFrames, NEW m \in Nat, m =< Len(s)
    PROVE  \E u \in Seq(AnyCall) : Due(s, Len(s)) = Joined(Due(s, m), u)
<1> DEFINE P(d) == m + d =< Len(s) => \E u \in Seq(AnyCall) : Due(s, m + d) = Joined(Due(s, m), u)
           S == {d \in Nat : P(d)}
<1>0. Len(s) \in Nat /\ Due(s, m) \in Seq(AnyCall)
    BY DueMore
<1>1. 0 \in S
    <2>1. <<>> \in Seq(AnyCall) /\ Joined(Due(s, m), <<>>) = Due(s, m)
        BY <1>0, JoinedIsSeq
    <2>2. m + 0 = m
        OBVIOUS
    <2> QED
        BY <2>1, <2>2
<1>2. ASSUME NEW d \in Nat, d \in S PROVE d + 1 \in S
    <2> SUFFICES ASSUME m + (d + 1) =< Len(s)
                 PROVE  \E u \in Seq(AnyCall) : Due(s, m + (d + 1)) = Joined(Due(s, m), u)
        OBVIOUS
    <2>1. m + d \in Nat /\ m + d =< Len(s) /\ (m + d) + 1 = m + (d + 1) /\ (m + d) + 1 =< Len(s)
        BY <1>0
    <2>2. PICK u \in Seq(AnyCall) : Due(s, m + d) = Joined(Due(s, m), u)
        BY <1>2, <2>1
    <2>3. Due(s, (m + d) + 1) = Joined(Due(s, m + d), CallsOf(s[(m + d) + 1], (m + d) + 1))
        BY <2>1, DueMore
    <2> DEFINE v == CallsOf(s[(m + d) + 1], (m + d) + 1)
    <2>4. v \in Seq(AnyCall)
        <3>1. (m + d) + 1 \in 1..MaxFrames /\ s[(m + d) + 1] \in Kind
            BY <1>0, <2>1, Sizes
        <3> QED
            BY <3>1, CallsOfAreCalls
    <2> HIDE DEF v
    <2>5. Joined(Joined(Due(s, m), u), v) = Joined(Due(s, m), Joined(u, v)) /\ Joined(u, v) \in Seq(AnyCall)
        BY <1>0, <2>2, <2>4, JoinedAssociative, JoinedIsSeq
    <2> QED
        BY <2>1, <2>2, <2>3, <2>5 DEF v
<1>3. Len(s) - m \in Nat /\ m + (Len(s) - m) = Len(s)
    BY <1>0
<1>4. Len(s) - m \in S
    <2> HIDE DEF S
    <2>1. Nat \subseteq S
        BY <1>1, <1>2, Induction
    <2> QED
        BY <1>3, <2>1
<1> QED
    BY <1>0, <1>3, <1>4

LEMMA JoinedPrefix ==
    ASSUME NEW T, NEW s \in Seq(T), NEW t \in Seq(T)
    PROVE  IsPrefix(s, Joined(s, t))
<1> DEFINE j == Joined(s, t)
<1>1. j \in Seq(T) /\ Len(j) = Len(s) + Len(t) /\ Len(s) \in Nat /\ Len(t) \in Nat
    <2>1. j \in Seq(T) /\ Len(j) = Len(s) + Len(t)
        BY JoinedIsSeq
    <2>2. Len(s) \in Nat /\ Len(t) \in Nat
        OBVIOUS
    <2> QED
        BY <2>1, <2>2
<1>2. \A k \in 1..Len(s) : j[k] = s[k]
    BY JoinedFront
<1> HIDE DEF j
<1>3. SubSeq(s, 1, Len(s)) = SubSeq(j, 1, Len(s))
    <2> DEFINE n == Len(s)
    <2> HIDE DEF n
    <2>1. SubSeq(s, 1, n) = [i \in 1..n |-> s[i]] /\ SubSeq(j, 1, n) = [i \in 1..n |-> j[i]]
        BY <1>1 DEF n
    <2> QED
        BY <1>2, <2>1 DEF n
<1> QED
    BY <1>1, <1>3 DEF IsPrefix, j

(* A burst of replies.                                                       *)
LEMMA DueBurst ==
    ASSUME NEW s \in Seq(Kind), Len(s) =< MaxFrames, NEW m \in Nat, NEW b \in Nat, m + b =< Len(s),
           \A n \in (m + 1)..(m + b) : s[n] = "ota"
    PROVE  Due(s, m + b) = Joined(Due(s, m), Burst(m, b))
<1> DEFINE P(d) == d =< b => Burst(m, d) \in Seq(AnyCall) /\ Due(s, m + d) = Joined(Due(s, m), Burst(m, d))
           S == {d \in Nat : P(d)}
<1>0. Len(s) \in Nat /\ m =< Len(s) /\ Due(s, m) \in Seq(AnyCall)
    <2>1. Len(s) \in Nat /\ m =< Len(s)
        OBVIOUS
    <2> QED
        BY <2>1, DueMore
<1>1. 0 \in S
    <2>1. Burst(m, 0) = <<>> /\ <<>> \in Seq(AnyCall)
        BY DEF Burst
    <2>2. Joined(Due(s, m), <<>>) = Due(s, m) /\ m + 0 = m
        BY <1>0, JoinedIsSeq
    <2> QED
        BY <2>1, <2>2
<1>2. ASSUME NEW d \in Nat, d \in S PROVE d + 1 \in S
    <2> SUFFICES ASSUME d + 1 =< b
                 PROVE  /\ Burst(m, d + 1) \in Seq(AnyCall)
                        /\ Due(s, m + (d + 1)) = Joined(Due(s, m), Burst(m, d + 1))
        OBVIOUS
    <2>1. /\ m + d \in Nat /\ m + d =< Len(s) /\ (m + d) + 1 = m + (d + 1) /\ (m + d) + 1 =< Len(s)
          /\ s[(m + d) + 1] = "ota" /\ (m + d) + 1 \in 1..MaxFrames
        BY <1>0, Sizes
    <2>2. Burst(m, d) \in Seq(AnyCall) /\ Due(s, m + d) = Joined(Due(s, m), Burst(m, d))
        BY <1>2
    <2> DEFINE e == OtaReply(Content[m + (d + 1)].reply)
    <2>3. Due(s, (m + d) + 1) = Joined(Due(s, m + d), << e >>)
        <3>1. CallsOf(s[(m + d) + 1], (m + d) + 1) = << e >>
            BY <2>1 DEF CallsOf
        <3> QED
            BY <2>1, <3>1, DueMore
    <2>4. e \in AnyCall
        <3>1. Content[m + (d + 1)].reply \in Nat
            BY <2>1, ReplyIsNat
        <3> QED
            BY <3>1, ReplyIsCall
    <2>5. Burst(m, d + 1) = Joined(Burst(m, d), << e >>) /\ Burst(m, d + 1) \in Seq(AnyCall)
        <3> DEFINE u == Burst(m, d)  v == << e >>  j == Joined(u, v)
        <3>1. v \in Seq(AnyCall) /\ Len(v) = 1 /\ v[1] = e
            BY <2>4
        <3>2. u \in Seq(AnyCall) /\ Len(u) = d /\ \A n \in 1..d : u[n] = OtaReply(Content[m + n].reply)
            BY <2>2 DEF Burst
        <3> HIDE DEF u, v, e
        <3>3. j \in Seq(AnyCall) /\ Len(j) = Len(u) + Len(v)
            BY <3>1, <3>2, JoinedIsSeq
        <3>4. \A n \in 1..Len(u) : j[n] = u[n]
            BY <3>1, <3>2, JoinedFront
        <3>5. j[Len(u) + 1] = v[1]
            <4>1. u \in Seq(AnyCall) /\ v \in Seq(AnyCall) /\ 1 \in 1..Len(v)
                BY <3>1, <3>2
            <4> QED
                BY <4>1, JoinedBehind
        <3> HIDE DEF j
        <3>6. j = [n \in 1..(d + 1) |-> j[n]] /\ 1..(d + 1) = 1..d \cup {d + 1}
            BY <3>1, <3>2, <3>3
        <3>7. \A n \in 1..d : j[n] = OtaReply(Content[m + n].reply)
            BY <3>2, <3>4
        <3>8. j[d + 1] = OtaReply(Content[m + (d + 1)].reply)
            BY <3>1, <3>2, <3>5 DEF e
        <3>9. j = Burst(m, d + 1)
            BY <3>6, <3>7, <3>8 DEF Burst
        <3> QED
            BY <3>3, <3>9 DEF j, u, v
    <2> HIDE DEF e
    <2>6. << e >> \in Seq(AnyCall)
        BY <2>4
    <2>7. Joined(Joined(Due(s, m), Burst(m, d)), << e >>) = Joined(Due(s, m), Joined(Burst(m, d), << e >>))
        <3> DEFINE w == << e >>
        <3>1. Due(s, m) \in Seq(AnyCall) /\ Burst(m, d) \in Seq(AnyCall) /\ w \in Seq(AnyCall)
            BY <1>0, <2>2, <2>6
        <3> HIDE DEF w
        <3>2. Joined(Joined(Due(s, m), Burst(m, d)), w) = Joined(Due(s, m), Joined(Burst(m, d), w))
            BY <3>1, JoinedAssociative
        <3> QED
            BY <3>2 DEF w
    <2> QED
        BY <2>1, <2>2, <2>3, <2>5, <2>7
<1>3. b \in S
    <2> HIDE DEF S
    <2>1. Nat \subseteq S
        BY <1>1, <1>2, Induction
    <2> QED
        BY <2>1
<1> QED
    BY <1>3

(* Replies of the boot loader, recognised.                                   *)
LEMMA ReplyThere ==
    ASSUME NEW bytes \in Seq(Byte), NEW o \in Nat, o + 8 =< Len(bytes),
           \A j \in 1..7 : bytes[o + j] = CTRL_OTA_HEAD[j]
    PROVE  IsReply(SubSeq(bytes, o + 1, Len(bytes)))
<1> DEFINE L == Len(bytes)  q == SubSeq(bytes, o + 1, L)
<1>1. L \in Nat /\ o + 8 =< L
    OBVIOUS
<1>2. Len(q) = L - o /\ \A i \in 1..(L - o) : q[i] = bytes[o + i]
    <2> HIDE DEF L
    <2>1. q = [i \in 1..(L - o) |-> bytes[o + i]] /\ L - o \in Nat
        <3>1. q = [i \in 1..(L - (o + 1) + 1) |-> bytes[(o + 1) + i - 1]]
            BY <1>1
        <3>2. L - (o + 1) + 1 = L - o /\ L - o \in Nat
            BY <1>1
        <3>3. \A i \in 1..(L - o) : (o + 1) + i - 1 = o + i
            BY <1>1
        <3> QED
            BY <3>1, <3>2, <3>3
    <2> HIDE DEF q
    <2> QED
        BY <2>1
<1> HIDE DEF q, L
<1>3. Len(q) >= 8 /\ \A j \in 1..7 : q[j] = CTRL_OTA_HEAD[j]
    <2>1. \A j \in 1..7 : j \in 1..(L - o)
        BY <1>1
    <2> QED
        BY <1>1, <1>2, <2>1
<1>4. Len(CTRL_OTA_HEAD) = 7
    BY DEF CTRL_OTA_HEAD
<1>5. SubSeq(CTRL_OTA_HEAD, 1, 7) = [j \in 1..7 |-> CTRL_OTA_HEAD[j]] /\ SubSeq(q, 1, 7) = [j \in 1..7 |-> q[j]]
    OBVIOUS
<1>6. IsPrefix(CTRL_OTA_HEAD, q)
    <2>1. SubSeq(CTRL_OTA_HEAD, 1, 7) = SubSeq(q, 1, 7)
        BY <1>3, <1>5
    <2> QED
        BY <1>3, <1>4, <2>1 DEF IsPrefix
<1>7. IsReply(q)
    BY <1>3, <1>6 DEF IsReply
<1> QED
    BY <1>7 DEF q, L

LEMMA NoReply ==
    ASSUME NEW bytes \in Seq(Byte), bytes[1] # \hEB
    PROVE  ~IsReply(bytes)
<1> SUFFICES ASSUME IsReply(bytes) PROVE FALSE
    OBVIOUS
<1>1. Len(CTRL_OTA_HEAD) = 7 /\ CTRL_OTA_HEAD[1] = \hEB
    BY DEF CTRL_OTA_HEAD
<1>2. SubSeq(CTRL_OTA_HEAD, 1, 7) = SubSeq(bytes, 1, 7)
    BY <1>1 DEF IsReply, IsPrefix
<1>3. SubSeq(CTRL_OTA_HEAD, 1, 7) = [j \in 1..7 |-> CTRL_OTA_HEAD[j]] /\ SubSeq(bytes, 1, 7) = [j \in 1..7 |-> bytes[j]]
    OBVIOUS
<1>4. CTRL_OTA_HEAD[1] = bytes[1]
    <2>1. [j \in 1..7 |-> CTRL_OTA_HEAD[j]][1] = [j \in 1..7 |-> bytes[j]][1]
        BY <1>2, <1>3
    <2> QED
        BY <2>1
<1> QED
    BY <1>1, <1>4

(* The bytes of b replies, those behind the m-th frame.                      *)
IsBurst(bytes, m, b) ==
    /\ Len(bytes) = 8 * b
    /\ \A k \in 0..(b - 1) : \A j \in 1..8 : bytes[8 * k + j] = Frame("ota", m + 1 + k)[j]

LEMMA BurstCalls ==
    ASSUME NEW bytes \in Seq(Byte), NEW m \in Nat, NEW b \in Nat, b >= 1, m + b =< MaxFrames,
           IsBurst(bytes, m, b)
    PROVE  IsReply(bytes) /\ OtaReplies(bytes) = Burst(m, b)
<1> DEFINE F(k) == Frame("ota", m + 1 + k)
<1>1. Len(bytes) = 8 * b /\ \A k \in 0..(b - 1) : \A j \in 1..8 : bytes[8 * k + j] = F(k)[j]
    BY DEF IsBurst
<1>2. ASSUME NEW k \in 0..(b - 1)
      PROVE  /\ \A j \in 1..7 : F(k)[j] = CTRL_OTA_HEAD[j]
             /\ F(k)[8] = Content[m + 1 + k].reply
    <2>1. m + 1 + k \in 1..MaxFrames
        BY Sizes
    <2> QED
        BY <2>1, OtaFrameBytes
<1> HIDE DEF F
<1>3. ASSUME NEW k \in 0..(b - 1)
      PROVE  IsReply(SubSeq(bytes, k * 8 + 1, Len(bytes))) /\ bytes[8 * k + 8] = Content[m + 1 + k].reply
    <2>1. k * 8 \in Nat /\ k * 8 + 8 =< Len(bytes) /\ k * 8 = 8 * k
        BY <1>1
    <2> DEFINE o == k * 8
    <2>2. /\ \A j \in 1..7 : F(k)[j] = CTRL_OTA_HEAD[j]
          /\ F(k)[8] = Content[m + 1 + k].reply
        BY <1>2
    <2>3. \A j \in 1..8 : bytes[8 * k + j] = F(k)[j]
        BY <1>1
    <2>4. o = 8 * k /\ o \in Nat /\ o + 8 =< Len(bytes)
        BY <2>1
    <2> HIDE DEF o
    <2>5. ASSUME NEW j \in 1..7 PROVE bytes[o + j] = CTRL_OTA_HEAD[j]
        <3>1. j \in 1..8 /\ o + j = 8 * k + j
            BY <2>4
        <3>2. bytes[8 * k + j] = F(k)[j]
            BY <2>3, <3>1
        <3> QED
            BY <2>2, <3>1, <3>2
    <2>6. IsReply(SubSeq(bytes, o + 1, Len(bytes)))
        BY <2>4, <2>5, ReplyThere
    <2>7. bytes[8 * k + 8] = Content[m + 1 + k].reply
        BY <2>2, <2>3
    <2> QED
        BY <2>6, <2>7 DEF o
<1>4. Replies(bytes) = b
    <2>1. Len(bytes) \div 8 = b
        BY <1>1
    <2>2. Replies(bytes) \in 0..b
        BY <2>1, RepliesBound
    <2>3. b \in 0..(Len(bytes) \div CTRL_RSP_FRAME_LEN)
        BY <2>1
    <2>4. \A k \in 0..(b - 1) : IsReply(SubSeq(bytes, k * CTRL_RSP_FRAME_LEN + 1, Len(bytes)))
        BY <1>3
    <2>5. b =< Replies(bytes)
        BY <2>3, <2>4, RepliesBound
    <2> QED
        BY <2>2, <2>5
<1>5. ASSUME NEW n \in 1..b PROVE bytes[n * CTRL_RSP_FRAME_LEN] = Content[m + n].reply
    <2>1. n - 1 \in 0..(b - 1) /\ 8 * (n - 1) + 8 = n * CTRL_RSP_FRAME_LEN /\ m + 1 + (n - 1) = m + n
        OBVIOUS
    <2> QED
        BY <1>3, <2>1
<1>6. OtaReplies(bytes) = Burst(m, b)
    BY <1>4, <1>5 DEF OtaReplies, Burst
<1>7. IsReply(bytes)
    <2>1. 0 \in 0..(b - 1) /\ 0 * 8 + 1 = 1
        OBVIOUS
    <2>2. IsReply(SubSeq(bytes, 1, Len(bytes)))
        BY <1>3, <2>1
    <2>3. SubSeq(bytes, 1, Len(bytes)) = bytes
        OBVIOUS
    <2> QED
        BY <2>2, <2>3
<1> QED
    BY <1>6, <1>7

(* Nothing in the parser, and one register reply.                            *)
LEMMA NothingParsed == V3_handle_mcu_data(<<>>) = <<>>
<1>1. PICK from_app \in BOOLEAN : ~IsTrue(from_app)
    BY DEF IsTrue
<1>2. \A data : V3_handle_mcu_data(data) = V3_parse_buffer(data, from_app)
    BY <1>1 DEF V3_handle_mcu_data, IsTrue
<1>3. <<>> \in Seq(Nat) /\ Len(<<>>) = 0
    OBVIOUS
<1>4. PICK c : Parses(c, <<>>, from_app) /\ V3_parse_buffer(<<>>, from_app) = c[0]
    BY <1>3, ParseBuffer
<1>5. c[Len(<<>>)] = <<>>
    BY <1>3, <1>4, NothingFollows
<1> QED
    BY <1>2, <1>3, <1>4, <1>5

LEMMA RegisterCall ==
    ASSUME NEW n \in 1..MaxFrames
    PROVE  V3_handle_mcu_data(Frame("v3", n)) = CallsOf("v3", n)
<1> DEFINE F == Frame("v3", n)
<1>1. PICK from_app \in BOOLEAN : ~IsTrue(from_app)
    BY DEF IsTrue
<1>2. \A data : V3_handle_mcu_data(data) = V3_parse_buffer(data, from_app)
    BY <1>1 DEF V3_handle_mcu_data, IsTrue
<1>3. /\ F \in Seq(Byte) /\ Len(F) = V3_FRAME_SIZE_NORMAL
      /\ F[1] = V3_FRAME_HEAD_0 /\ F[2] = V3_FRAME_HEAD_1 /\ F[3] \in Command
    BY V3FrameBytes
<1>4. F \in Seq(Nat) /\ Len(F) >= 4 /\ F # <<>>
    BY <1>3, BytesAreNaturals, Sizes
<1> HIDE DEF F
<1>5. IsV3Frame(F)
    <2>1. \A cmd \in Command :
            cmd \in AppCmd /\ cmd \notin Measured /\ V3Sizes[cmd] = {V3_FRAME_SIZE_NORMAL}
        <3>1. READ_CTRL \in AppCmd /\ READ_CTRL \notin Measured /\ V3Sizes[READ_CTRL] = {V3_FRAME_SIZE_NORMAL}
            BY DEF AppCmd, Measured, V3Sizes, HANDSHAKE, START, DATA, WRITE_CTRL, DATA_RETRY, ERASE_RETRY
        <3>2. WRITE_CTRL \in AppCmd /\ WRITE_CTRL \notin Measured /\ V3Sizes[WRITE_CTRL] = {V3_FRAME_SIZE_NORMAL}
            BY DEF AppCmd, Measured, V3Sizes, HANDSHAKE, START, DATA, READ_CTRL, DATA_RETRY, ERASE_RETRY
        <3> QED
            BY <3>1, <3>2, Zenon DEF Command
    <2>2. DOMAIN V3Sizes = AppCmd
        BY HandlersAreNames
    <2> QED
        BY <1>3, <2>1, <2>2 DEF IsV3Frame
<1>6. Here(F, 0, F) /\ 0 + Len(F) = Len(F)
    BY <1>4 DEF Here
<1>7. At(F, 0) = Take(Len(F))
    BY <1>4, <1>5, <1>6, V3Taken
<1>8. PICK calls : Parses(calls, F, from_app) /\ V3_parse_buffer(F, from_app) = calls[0]
    BY <1>4, ParseBuffer
<1>9. calls[0] = Joined(Call(F, from_app), calls[Len(F)])
    BY <1>4, <1>6, <1>7, <1>8, TakePiece
<1>10. calls[Len(F)] = <<>>
    BY <1>4, <1>8, NothingFollows
<1>11. Call(F, from_app) \in Seq(AnyCall)
    BY <1>4, CallIsCall
<1>12. Call(F, from_app) = << [to |-> "V3_handle_mcu_reply", data |-> F] >>
    <2>1. \A cmd \in Command : cmd \in DOMAIN FromMcu /\ FromMcu[cmd] = "V3_handle_mcu_reply"
        BY DEF FromMcu, Command
    <2>2. F[1] # APP_FRAME_HEAD
        BY <1>3 DEF APP_FRAME_HEAD
    <2> QED
        BY <1>1, <1>3, <2>1, <2>2 DEF Call, IsTrue
<1>13. V3_handle_mcu_data(F) = << [to |-> "V3_handle_mcu_reply", data |-> F] >>
    BY <1>2, <1>8, <1>9, <1>10, <1>11, <1>12, JoinedIsSeq
<1> QED
    BY <1>13 DEF CallsOf, F

-----------------------------------------------------------------------------
(* The calls TIMEOUT makes                                                   *)

LEMMA GatheredIsStream ==
    ASSUME UartInv, line = <<>>
    PROVE  Gathered = Stream
<1>1. Sound /\ USART_RX_CNT + Len(fifo) + Len(line) =< RX_BUFFER_SIZE
    BY Fits DEF UartInv
<1> DEFINE L == USART_RX_CNT + Len(fifo)
<1>2. Gathered \in Seq(Byte) /\ Len(Gathered) = L /\ \A i \in 1..L : Gathered[i] = Stream[i]
    BY <1>1, GatheredBytes
<1>3. Stream \in Seq(Byte) /\ Len(Stream) = L
    <2>1. /\ Stream \in Seq(Byte) /\ Len(Stream) = L + Len(line)
          /\ USART_RX_CNT \in Nat /\ Len(fifo) \in Nat /\ Len(line) = 0
        BY <1>1, StreamBytes
    <2> QED
        BY <2>1
<1> HIDE DEF L
<1>4. \A i \in 1..Len(Gathered) : Gathered[i] = Stream[i]
    BY <1>2
<1> QED
    BY <1>2, <1>3, <1>4, SeqEqual

LEMMA BurstHandled ==
    ASSUME UartInv, TimeoutEvent, line = <<>>,
           NEW m \in Nat, NEW b \in Nat, b >= 1, m + b =< MaxFrames, IsBurst(Stream, m, b)
    PROVE  handled' = Joined(handled, Burst(m, b)) /\ USART_RX_CNT' = 0
<1>1. Gathered = Stream /\ Stream \in Seq(Byte)
    BY GatheredIsStream, StreamBytes DEF UartInv
<1>2. IsReply(Gathered) /\ OtaReplies(Gathered) = Burst(m, b)
    BY <1>1, BurstCalls
<1>3. TakeReplies(Gathered)
    BY <1>2 DEF TimeoutEvent, TakeV3, TakeOther
<1> QED
    BY <1>2, <1>3 DEF TakeReplies, Joined

(* The first byte tells a register reply; it is never the boot loader's.     *)
LEMMA FirstByte ==
    ASSUME UartInv, fifo # <<>>
    PROVE  /\ Gathered \in Seq(Byte) /\ Len(Gathered) >= 1 /\ Len(Stream) >= Len(Gathered)
           /\ Len(Gathered) = USART_RX_CNT + Len(fifo)
           /\ \A i \in 1..Len(Gathered) : Gathered[i] = Stream[i]
           /\ Gathered[1] = Stream[1]
           /\ Stored(fifo, USART_RX_CNT)[0] = Stream[1]
           /\ Len(Gathered) >= 2 => Stored(fifo, USART_RX_CNT)[1] = Stream[2]
<1>1. Sound /\ USART_RX_CNT + Len(fifo) + Len(line) =< RX_BUFFER_SIZE
    BY Fits DEF UartInv
<1>2. /\ Gathered \in Seq(Byte) /\ Len(Gathered) = USART_RX_CNT + Len(fifo)
      /\ \A i \in 1..(USART_RX_CNT + Len(fifo)) : Gathered[i] = Stream[i]
      /\ \A i \in 1..(USART_RX_CNT + Len(fifo)) :
            Stored(fifo, USART_RX_CNT)[i - 1] = Gathered[i]
    BY <1>1, GatheredBytes
<1>3. /\ USART_RX_CNT \in Nat /\ Len(fifo) \in Nat /\ Len(line) \in Nat
      /\ Len(Stream) = USART_RX_CNT + Len(fifo) + Len(line)
    BY <1>1, StreamBytes
<1>4. Len(fifo) >= 1
    BY <1>1 DEF Sound
<1>5. Len(Gathered) >= 1 /\ Len(Stream) >= Len(Gathered)
    BY <1>2, <1>3, <1>4
<1> DEFINE all == Stored(fifo, USART_RX_CNT)
<1>6. \A i \in 1..Len(Gathered) : Gathered[i] = Stream[i] /\ all[i - 1] = Stream[i]
    BY <1>2
<1> HIDE DEF all
<1>7. all[1 - 1] = Stream[1] /\ Gathered[1] = Stream[1]
    BY <1>2, <1>5, <1>6
<1>8. Len(Gathered) >= 2 => all[2 - 1] = Stream[2]
    <2> SUFFICES ASSUME Len(Gathered) >= 2 PROVE all[2 - 1] = Stream[2]
        OBVIOUS
    <2>1. 2 \in 1..Len(Gathered)
        BY <1>2
    <2> QED
        BY <1>6, <2>1
<1> QED
    BY <1>2, <1>5, <1>6, <1>7, <1>8 DEF all

LEMMA TwoCalls ==
    ASSUME NEW x, NEW y
    PROVE  Joined(<< x >>, << y >>) = << x, y >>
<1> DEFINE T == {x, y}  s == << x >>  t == << y >>  j == Joined(s, t)  u == << x, y >>
<1>1. s \in Seq(T) /\ t \in Seq(T) /\ Len(s) = 1 /\ Len(t) = 1 /\ s[1] = x /\ t[1] = y
    OBVIOUS
<1>2. u \in Seq(T) /\ Len(u) = 2 /\ u[1] = x /\ u[2] = y
    OBVIOUS
<1> HIDE DEF s, t, u, T
<1>3. j \in Seq(T) /\ Len(j) = 2
    <2>1. s \in Seq(T) /\ t \in Seq(T)
        BY <1>1
    <2>2. j \in Seq(T) /\ Len(j) = Len(s) + Len(t)
        BY <2>1, JoinedIsSeq
    <2> HIDE DEF j
    <2> QED
        BY <1>1, <2>2
<1>4. j[1] = s[1]
    BY <1>1, JoinedFront
<1>5. j[Len(s) + 1] = t[1]
    BY <1>1, JoinedBehind
<1> HIDE DEF j
<1>6. \A i \in 1..Len(j) : j[i] = u[i]
    BY <1>1, <1>2, <1>3, <1>4, <1>5
<1>7. j = u
    BY <1>2, <1>3, <1>6, SeqEqual
<1> QED
    BY <1>7 DEF j, s, t, u

(* A V2 reply alone in the stream is not the head of a register reply.       *)
LEMMA NoHeadAlone ==
    ASSUME UartInv, IsLast({"v2"}), Stream = LastFrame, line = <<>>, Len(Stream) = 2,
           Stream[1] = V3_FRAME_HEAD_0
    PROVE  Stream[2] # V3_FRAME_HEAD_1
<1> SUFFICES ASSUME Stream[2] = V3_FRAME_HEAD_1 PROVE FALSE
    OBVIOUS
<1>1. Sound /\ FrontIsReply
    BY DEF UartInv
<1>2. Stream \in Seq(Byte) /\ Within = 2
    <2> DEFINE l == Len(line)  t == Len(Stream)
    <2>1. Stream \in Seq(Byte) /\ Within \in Nat /\ l = 0 /\ t = 2 /\ t = Within + l
        BY <1>1, StreamBytes DEF Within
    <2> HIDE DEF l, t
    <2> QED
        BY <2>1
<1>3. Stream # <<>>
    <2>1. Len(Stream) # Len(<<>>)
        OBVIOUS
    <2> QED
        BY <2>1, Zenon
<1>4. Stream[2] \notin Command
    BY DEF Command, READ_CTRL, WRITE_CTRL
<1>5. LastFrame # V3_HEAD
    <2>1. \/ Within >= 3
          \/ Stream[2] \in Command
          \/ LastFrame # V3_HEAD
          \/ Within = 1
        BY <1>1, <1>3 DEF FrontIsReply
    <2> QED
        BY <1>2, <1>4, <2>1
<1>6. Stream = V3_HEAD
    <2>1. V3_HEAD \in Seq(Byte) /\ Len(V3_HEAD) = 2
        BY DEF V3_HEAD, Byte
    <2>2. V3_HEAD[1] = V3_FRAME_HEAD_0 /\ V3_HEAD[2] = V3_FRAME_HEAD_1
        BY DEF V3_HEAD
    <2>3. \A i \in 1..2 : Stream[i] = V3_HEAD[i]
        BY <2>2
    <2> QED
        BY <1>2, <2>1, <2>3, SeqEqual
<1> QED
    BY <1>5, <1>6

LEMMA OtherHandled ==
    ASSUME UartInv, TimeoutEvent, line = <<>>, sent # <<>>, sent[Len(sent)] \in {"v2", "uc"},
           Stream = LastFrame
    PROVE  handled' = Joined(handled, CallsOf(sent[Len(sent)], Len(sent))) /\ USART_RX_CNT' = 0
<1> DEFINE kind == sent[Len(sent)]  n == Len(sent)
<1>1. n \in 1..MaxFrames /\ kind \in {"v2", "uc"} /\ Stream = Frame(kind, n)
    BY LastFrameBytes DEF LastFrame, UartInv
<1> HIDE DEF kind, n
<1>2. Gathered = Frame(kind, n)
    BY <1>1, GatheredIsStream
<1>3. Len(Frame("v2", n)) = 2 /\ Frame("uc", n) = <<\hAA, \h10, \h55>>
    BY <1>1, OtherFrameBytes
<1>4. fifo # <<>> /\ Sound /\ Len(sent) =< MaxFrames
    BY DEF TimeoutEvent, UartInv
<1>5. /\ Gathered \in Seq(Byte) /\ Gathered[1] = Stream[1]
      /\ Stored(fifo, USART_RX_CNT)[0] = Stream[1]
      /\ Len(Gathered) >= 2 => Stored(fifo, USART_RX_CNT)[1] = Stream[2]
    BY <1>4, FirstByte
<1>6. ~IsReply(Gathered) /\ ~StartsV3(Stored(fifo, USART_RX_CNT), Len(Gathered))
    <2>1. CASE kind = "v2"
        <3>1. Len(Gathered) = 2 /\ Len(Stream) = 2
            BY <1>1, <1>2, <1>3, <2>1
        <3>2. ~IsReply(Gathered)
            BY <3>1 DEF IsReply
        <3>3. Stream[1] = V3_FRAME_HEAD_0 => Stream[2] # V3_FRAME_HEAD_1
            BY <1>4, <2>1, <3>1, NoHeadAlone DEF kind, IsLast
        <3> QED
            BY <1>5, <3>1, <3>2, <3>3 DEF StartsV3
    <2>2. CASE kind = "uc"
        <3>1. Stream = <<\hAA, \h10, \h55>> /\ Gathered = <<\hAA, \h10, \h55>>
            BY <1>1, <1>2, <1>3, <2>2
        <3>2. Stream[1] # V3_FRAME_HEAD_0 /\ Len(Gathered) = 3
            BY <3>1
        <3> QED
            BY <1>5, <3>2 DEF IsReply, StartsV3
    <2> QED
        BY <1>1, <2>1, <2>2
<1>7. TakeOther(Gathered)
    BY <1>6 DEF TimeoutEvent, TakeReplies, TakeV3
<1>8. OtherCalls(Frame(kind, n)) = CallsOf(kind, n)
    <2>1. CASE kind = "v2"
        <3> DEFINE F == Frame("v2", n)
        <3>1. Len(F) = 2 /\ F # UC_GET_MAC
            <4>1. Len(UC_GET_MAC) = 3
                BY DEF UC_GET_MAC
            <4>2. Len(F) = 2
                BY <1>3
            <4> HIDE DEF F
            <4> QED
                BY <4>1, <4>2
        <3> HIDE DEF F
        <3>2. Len(F) \in 1..MCU_MAX_LEN
            BY <3>1, Sizes
        <3>3. OtherCalls(F) = << [to |-> "Handle_mcu_replydata", data |-> F] >>
            BY <3>1, <3>2 DEF OtherCalls
        <3> QED
            BY <2>1, <3>3 DEF CallsOf, F
    <2>2. CASE kind = "uc"
        <3> DEFINE F == Frame("uc", n)
        <3>1. Len(F) = 3 /\ F = UC_GET_MAC
            BY <1>3 DEF UC_GET_MAC
        <3> HIDE DEF F
        <3>2. Len(F) \in 1..MCU_MAX_LEN
            BY <3>1, Sizes
        <3> DEFINE x == [to |-> "Handle_mcu_replydata", data |-> F]
                   y == [to |-> "send_mac_to_uc", data |-> <<>>]
        <3>3. OtherCalls(F) = << x >> \o << y >>
            BY <3>1, <3>2 DEF OtherCalls
        <3> HIDE DEF x, y
        <3>4. << x >> \o << y >> = << x, y >>
            BY TwoCalls DEF Joined
        <3>5. OtherCalls(F) = << x, y >>
            BY <3>3, <3>4
        <3> QED
            BY <2>2, <3>5 DEF CallsOf, F, x, y
    <2> QED
        BY <1>1, <2>1, <2>2
<1> QED
    BY <1>2, <1>7, <1>8 DEF TakeOther, Joined, kind, n

(* A register reply, whole or begun.                                         *)
LEMMA RegisterTaken ==
    ASSUME UartInv, TimeoutEvent, Stream[1] = V3_FRAME_HEAD_0,
           Len(Gathered) >= 2, Stream[2] = V3_FRAME_HEAD_1
    PROVE  /\ Len(Gathered) >= V3_FRAME_SIZE_NORMAL =>
                /\ handled' = Joined(handled, V3_handle_mcu_data(SubSeq(Gathered, 1, V3_FRAME_SIZE_NORMAL)))
                /\ USART_RX_CNT' = 0
           /\ Len(Gathered) < V3_FRAME_SIZE_NORMAL =>
                /\ handled' = Joined(handled, <<>>)
                /\ USART_RX_CNT' = Len(Gathered)
<1>1. fifo # <<>>
    BY DEF TimeoutEvent
<1> DEFINE L == Len(Gathered)  all == Stored(fifo, USART_RX_CNT)
<1>2. /\ Gathered \in Seq(Byte) /\ L \in Nat /\ Gathered[1] = Stream[1]
      /\ all[0] = V3_FRAME_HEAD_0 /\ all[1] = V3_FRAME_HEAD_1
    BY <1>1, FirstByte
<1> HIDE DEF L, all
<1>3. ~IsReply(Gathered) /\ StartsV3(all, L)
    <2>1. ~IsReply(Gathered)
        BY <1>2, NoReply
    <2> QED
        BY <1>2, <2>1 DEF StartsV3, L
<1>4. TakeV3(Gathered)
    BY <1>3 DEF TimeoutEvent, TakeReplies, TakeOther, L, all
<1> DEFINE size == V3Whole(Gathered)
<1>5. size = IF L >= V3_FRAME_SIZE_NORMAL THEN V3_FRAME_SIZE_NORMAL ELSE 0
    BY <1>3, WholeSize DEF L, all
<1>6. /\ handled' = Joined(handled, V3_handle_mcu_data(SubSeq(Gathered, 1, size)))
      /\ USART_RX_CNT' = IF size > 0 THEN 0 ELSE L
    BY <1>4 DEF TakeV3, Joined, L
<1>7. V3_FRAME_SIZE_NORMAL \in Nat /\ V3_FRAME_SIZE_NORMAL > 0
    BY Sizes
<1> HIDE DEF size
<1>8. L < V3_FRAME_SIZE_NORMAL => size = 0
    BY <1>2, <1>5, <1>7
<1>9. SubSeq(Gathered, 1, 0) = <<>>
    BY <1>2
<1>10. V3_handle_mcu_data(<<>>) = <<>>
    BY NothingParsed
<1>11. L < V3_FRAME_SIZE_NORMAL => handled' = Joined(handled, <<>>) /\ USART_RX_CNT' = L
    <2> SUFFICES ASSUME L < V3_FRAME_SIZE_NORMAL
                 PROVE  handled' = Joined(handled, <<>>) /\ USART_RX_CNT' = L
        OBVIOUS
    <2> DEFINE piece == SubSeq(Gathered, 1, size)
    <2>1. size = 0 /\ piece = <<>>
        BY <1>8, <1>9
    <2>2. handled' = Joined(handled, V3_handle_mcu_data(piece))
        BY <1>6
    <2>3. USART_RX_CNT' = L
        BY <1>6, <2>1
    <2> HIDE DEF piece
    <2> QED
        BY <1>10, <2>1, <2>2, <2>3
<1>12. L >= V3_FRAME_SIZE_NORMAL => size = V3_FRAME_SIZE_NORMAL
    BY <1>5
<1>13. L >= V3_FRAME_SIZE_NORMAL =>
          /\ handled' = Joined(handled, V3_handle_mcu_data(SubSeq(Gathered, 1, V3_FRAME_SIZE_NORMAL)))
          /\ USART_RX_CNT' = 0
    BY <1>6, <1>7, <1>12
<1> QED
    BY <1>11, <1>13 DEF L

-----------------------------------------------------------------------------
(* The frames in their order                                                 *)

(* The last frames are a burst, which nothing has looked at yet; or the last *)
(* one is another, and the stream holds it and nothing else.                 *)
InBurst ==
    /\ burst =< Len(sent)
    /\ \A n \in (Len(sent) - burst + 1)..Len(sent) : sent[n] = "ota"
    /\ handled = Due(sent, Len(sent) - burst)
    /\ IsBurst(Stream, Len(sent) - burst, burst)

InFrame ==
    /\ burst = 0 /\ sent # <<>> /\ sent[Len(sent)] # "ota"
    /\ handled = Due(sent, Len(sent) - 1)
    /\ Stream = LastFrame

InOrderInv ==
    lost.bytes = 0 =>
        /\ fifo = <<>> /\ USART_RX_CNT > 0 => sent # <<>> /\ sent[Len(sent)] = "v3"
        /\ InBurst \/ InFrame

LEMMA OrderAtInit == ASSUME Init PROVE InOrderInv
<1>1. /\ sent = <<>> /\ burst = 0 /\ handled = <<>> /\ USART_RX_CNT = 0 /\ Len(sent) - burst = 0
      /\ Len(sent) = 0
    BY DEF Init
<1>2. Stream = <<>>
    BY DEF Init, Stream
<1>3. Due(sent, 0) = <<>>
    <2>1. [n \in 1..0 |-> CallsOf(sent[n], n)] = <<>>
        OBVIOUS
    <2>2. FlattenSeq(<<>>) = <<>>
        BY DEF FlattenSeq
    <2> QED
        BY <2>1, <2>2 DEF Due
<1>4. IsBurst(Stream, 0, 0)
    BY <1>2 DEF IsBurst
<1> QED
    BY <1>1, <1>3, <1>4 DEF InOrderInv, InBurst

(* Between the frames nothing is left.                                       *)
LEMMA NothingLeft ==
    ASSUME UartInv, InOrderInv, lost.bytes = 0, fifo = <<>>, line = <<>>
    PROVE  /\ USART_RX_CNT = 0 /\ Len(Stream) = 0
           /\ handled = Due(sent, Len(sent))
<1>1. /\ Sound /\ Len(sent) =< MaxFrames /\ USART_RX_CNT < V3_FRAME_SIZE_NORMAL
      /\ burst \in Nat /\ Len(sent) \in Nat /\ V3_FRAME_SIZE_NORMAL \in Nat
    BY Sizes DEF UartInv, Sound, KeptIsReply
<1>2. USART_RX_CNT \in Nat /\ Len(Stream) = USART_RX_CNT /\ Len(Stream) \in Nat
    <2>1. /\ USART_RX_CNT \in Nat /\ Len(fifo) = 0 /\ Len(line) = 0
          /\ Len(Stream) = USART_RX_CNT + Len(fifo) + Len(line)
        BY <1>1, StreamBytes
    <2> QED
        BY <2>1
<1>3. ~InFrame
    <2> SUFFICES ASSUME InFrame PROVE FALSE
        OBVIOUS
    <2>1. Len(Stream) \in 2..255 /\ Len(Stream) = FrameLength(sent[Len(sent)])
        BY <1>1, LastFrameBytes DEF InFrame
    <2>2. sent[Len(sent)] = "v3"
        <3>1. \A n \in 2..255 : n > 0
            OBVIOUS
        <3>2. Len(Stream) > 0
            BY <2>1, <3>1, Zenon
        <3> QED
            BY <1>2, <3>2 DEF InOrderInv
    <2>3. FrameLength(sent[Len(sent)]) = V3_FRAME_SIZE_NORMAL
        BY <2>2 DEF FrameLength
    <2> QED
        BY <1>1, <1>2, <2>1, <2>3
<1>4. InBurst
    BY <1>3 DEF InOrderInv
<1>5. Len(Stream) = 8 * burst
    BY <1>4 DEF InBurst, IsBurst
<1>6. burst = 0
    <2> SUFFICES ASSUME burst > 0 PROVE FALSE
        BY <1>1
    <2>1. sent[Len(sent)] = "v3"
        BY <1>1, <1>2, <1>5 DEF InOrderInv
    <2>2. sent[Len(sent)] = "ota"
        BY DEF UartInv, IsLast
    <2> QED
        BY <2>1, <2>2
<1>7. Len(sent) - burst = Len(sent)
    BY <1>1, <1>6
<1> QED
    BY <1>2, <1>4, <1>5, <1>6, <1>7 DEF InBurst

LEMMA OrderAtSend == ASSUME UartInv, InOrderInv, SendFrame PROVE InOrderInv'
<1> SUFFICES ASSUME lost'.bytes = 0
             PROVE  /\ fifo' = <<>> /\ USART_RX_CNT' > 0 => sent' # <<>> /\ sent'[Len(sent')] = "v3"
                    /\ InBurst' \/ InFrame'
    BY DEF InOrderInv
<1> DEFINE s == sent'  n == Len(sent)
<1>1. Sound /\ Len(sent) =< MaxFrames /\ n \in Nat /\ burst \in Nat /\ sent \in Seq(Kind)
    BY Sizes DEF UartInv, Sound
<1>2. /\ line = <<>> /\ fifo' = fifo /\ USART_RX_CNT' = USART_RX_CNT
      /\ lost' = lost /\ handled' = handled
    BY <1>1, SendExtends
<1>3. /\ s \in Seq(Kind) /\ Len(s) = n + 1 /\ Len(s) \in 1..MaxFrames
      /\ s = Append(sent, s[Len(s)])
      /\ LastFrame' = Frame(s[Len(s)], Len(s))
      /\ line' = LastFrame' /\ line' \in Seq(Byte)
    BY <1>1, SendExtends
<1>4. /\ Len(Stream') = Len(Stream) + Len(line')
      /\ \A i \in 1..Len(Stream) : Stream'[i] = Stream[i]
      /\ \A i \in 1..Len(line') : Stream'[Len(Stream) + i] = line'[i]
    BY <1>1, SendExtends
<1>5. \/ fifo = <<>> /\ burst' = IF s[Len(s)] = "ota" THEN 1 ELSE 0
      \/ /\ s[Len(s)] = "ota" /\ burst \in 1..(MaxBurst - 1)
         /\ fifo # <<>> /\ burst' = burst + 1
    BY <1>1, SendExtends
<1>6. \A i \in 1..n : s[i] = sent[i]
    <2>1. s[Len(s)] \in Kind
        BY <1>3
    <2> HIDE DEF n
    <2>2. \A i \in 1..Len(sent) : Append(sent, s[Len(s)])[i] = sent[i]
        BY <1>1, <2>1, AppendFront
    <2> QED
        BY <1>3, <2>2 DEF n
<1>7. \A m \in 0..n : Due(s, m) = Due(sent, m)
    <2> TAKE m \in 0..n
    <2>1. m \in Nat /\ \A i \in 1..m : s[i] = sent[i]
        BY <1>1, <1>6
    <2> HIDE DEF s, n
    <2> QED
        BY <2>1, DueSame
<1>8. s # <<>>
    BY <1>3
<1> HIDE DEF s, n
<1>9. CASE fifo = <<>> /\ burst' = IF s[Len(s)] = "ota" THEN 1 ELSE 0
    <2>1. USART_RX_CNT = 0 /\ Len(Stream) = 0 /\ handled = Due(sent, n)
        BY <1>2, <1>9, NothingLeft DEF n
    <2>2. handled' = Due(s, n) /\ USART_RX_CNT' = 0
        BY <1>1, <1>2, <1>7, <2>1
    <2>3. Len(Stream') = Len(line') /\ \A i \in 1..Len(line') : Stream'[i] = line'[i]
        <3>1. Len(line') \in Nat /\ \A i \in 1..Len(line') : 0 + i = i
            BY <1>3
        <3> QED
            BY <1>4, <2>1, <3>1
    <2>4. CASE s[Len(s)] = "ota"
        <3>1. burst' = 1 /\ n + 1 - 1 = n
            BY <1>1, <1>9, <2>4
        <3>2. line' = Frame("ota", n + 1) /\ Len(line') = 8
            <4>1. line' = Frame("ota", n + 1) /\ n + 1 \in 1..MaxFrames
                BY <1>3, <2>4
            <4> QED
                BY <4>1, OtaFrameBytes
        <3>3. IsBurst(Stream', n, 1)
            <4>1. Len(Stream') = 8 * 1
                BY <2>3, <3>2
            <4>2. ASSUME NEW k \in 0..(1 - 1), NEW j \in 1..8
                  PROVE  Stream'[8 * k + j] = Frame("ota", n + 1 + k)[j]
                <5>1. k = 0 /\ 8 * k + j = j /\ n + 1 + k = n + 1
                    BY <1>1
                <5> QED
                    BY <2>3, <3>2, <5>1
            <4> QED
                BY <4>1, <4>2 DEF IsBurst
        <3>4. InBurst'
            <4>1. \A i \in (Len(s) - 1 + 1)..Len(s) : s[i] = "ota"
                BY <1>1, <1>3, <2>4
            <4>2. Len(s) - 1 = n /\ 1 =< Len(s)
                BY <1>1, <1>3
            <4> QED
                BY <2>2, <3>1, <3>3, <4>1, <4>2 DEF InBurst, s
        <3> QED
            BY <2>2, <3>4
    <2>5. CASE s[Len(s)] # "ota"
        <3>1. burst' = 0
            BY <1>9, <2>5
        <3>2. Stream' = LastFrame'
            <4>1. Stream' = [i \in 1..Len(Stream') |-> Stream'[i]]
                BY <1>1, SendExtends
            <4>2. line' = [i \in 1..Len(line') |-> line'[i]]
                BY <1>3
            <4> QED
                BY <1>3, <2>3, <4>1, <4>2
        <3>3. Len(s) - 1 = n
            BY <1>1, <1>3
        <3> QED
            BY <1>8, <2>2, <2>5, <3>1, <3>2, <3>3 DEF InFrame, s
    <2> QED
        BY <2>4, <2>5
<1>10. CASE /\ s[Len(s)] = "ota" /\ burst \in 1..(MaxBurst - 1)
            /\ fifo # <<>> /\ burst' = burst + 1
    <2>1. InBurst
        BY <1>2, <1>10, Sizes DEF InOrderInv, InFrame
    <2> DEFINE m == n - burst
    <2>2. /\ m \in Nat /\ m + burst = n /\ m =< n /\ burst >= 1
          /\ \A i \in (m + 1)..n : sent[i] = "ota"
          /\ handled = Due(sent, m) /\ IsBurst(Stream, m, burst)
        <3>1. burst =< n /\ burst >= 1
            BY <1>10, <2>1, Sizes DEF InBurst, n
        <3>2. m \in Nat /\ m + burst = n /\ m =< n
            BY <1>1, <3>1
        <3> QED
            BY <2>1, <3>1, <3>2 DEF InBurst, n
    <2>3. Len(s) - burst' = m
        BY <1>1, <1>3, <1>10
    <2> HIDE DEF m
    <2>4. handled' = Due(s, m)
        BY <1>2, <1>7, <2>2
    <2>5. \A i \in (m + 1)..Len(s) : s[i] = "ota"
        <3> TAKE i \in (m + 1)..Len(s)
        <3>1. CASE i = Len(s)
            BY <1>10, <3>1
        <3>2. CASE i # Len(s)
            <4>1. i \in (m + 1)..n /\ i \in 1..n
                BY <1>1, <1>3, <2>2, <3>2
            <4> QED
                BY <1>6, <2>2, <4>1
        <3> QED
            BY <3>1, <3>2
    <2>6. IsBurst(Stream', m, burst + 1)
        <3>1. Len(Stream) = 8 * burst
            BY <2>2 DEF IsBurst
        <3>2. line' = Frame("ota", n + 1) /\ Len(line') = 8
            <4>1. line' = Frame("ota", n + 1) /\ n + 1 \in 1..MaxFrames
                BY <1>3, <1>10
            <4> QED
                BY <4>1, OtaFrameBytes
        <3>3. Len(Stream') = 8 * (burst + 1)
            <4>1. Len(Stream') = 8 * burst + 8
                BY <1>4, <3>1, <3>2
            <4> QED
                BY <1>1, <4>1
        <3>4. ASSUME NEW k \in 0..((burst + 1) - 1), NEW j \in 1..8
              PROVE  Stream'[8 * k + j] = Frame("ota", m + 1 + k)[j]
            <4>1. CASE k = burst
                <5>1. 8 * k + j = Len(Stream) + j /\ m + 1 + k = n + 1
                    BY <1>1, <2>2, <3>1, <4>1
                <5> QED
                    BY <1>4, <3>2, <5>1
            <4>2. CASE k # burst
                <5>1. k \in 0..(burst - 1) /\ 8 * k + j \in 1..Len(Stream)
                    BY <1>1, <3>1, <4>2
                <5>2. Stream[8 * k + j] = Frame("ota", m + 1 + k)[j]
                    BY <2>2, <5>1 DEF IsBurst
                <5> QED
                    BY <1>4, <5>1, <5>2
            <4> QED
                BY <4>1, <4>2
        <3> QED
            BY <3>3, <3>4 DEF IsBurst
    <2>7. InBurst'
        <3>1. burst' =< Len(s) /\ burst' = burst + 1
            BY <1>1, <1>3, <1>10, <2>2
        <3> QED
            BY <2>3, <2>4, <2>5, <2>6, <3>1 DEF InBurst, s
    <2>8. fifo' # <<>>
        BY <1>2, <1>10
    <2> QED
        BY <2>7, <2>8
<1> QED
    BY <1>5, <1>9, <1>10

(* A register reply alone in the stream is handled when it is whole, and kept *)
(* before.                                                                   *)
LEMMA ReplyHandled ==
    ASSUME UartInv, TimeoutEvent, ~doubt', sent # <<>>, sent[Len(sent)] = "v3",
           Stream = LastFrame, handled \in Seq(AnyCall)
    PROVE  \/ line = <<>> /\ handled' = Joined(handled, CallsOf("v3", Len(sent))) /\ USART_RX_CNT' = 0
           \/ line # <<>> /\ handled' = handled /\ Stream' = Stream /\ USART_RX_CNT' # 0
<1> DEFINE n == Len(sent)  N == V3_FRAME_SIZE_NORMAL
<1>1. Sound /\ Len(sent) =< MaxFrames /\ fifo # <<>>
    BY DEF UartInv, TimeoutEvent
<1>2. n \in 1..MaxFrames /\ Len(LastFrame) = Len(Stream)
    BY <1>1, LastFrameBytes
<1>3. /\ N \in 4..255 /\ Stream = Frame("v3", n) /\ Len(Stream) = N
      /\ Stream[1] = V3_FRAME_HEAD_0 /\ Stream[2] = V3_FRAME_HEAD_1
    BY <1>2, Sizes, V3FrameBytes DEF LastFrame
<1>4. /\ USART_RX_CNT \in Nat /\ Len(fifo) \in Nat /\ Len(line) \in Nat
      /\ Len(Stream) = USART_RX_CNT + Len(fifo) + Len(line)
    BY <1>1, StreamBytes
<1>5. \/ USART_RX_CNT' = 0 /\ Stream' = line
      \/ USART_RX_CNT' = USART_RX_CNT + Len(fifo) /\ Stream' = Stream
    BY TimeoutEffect
<1>6. line # <<>> => Len(Gathered) # 1
    <2> SUFFICES ASSUME line # <<>>, Len(Gathered) = 1 PROVE FALSE
        OBVIOUS
    <2>1. Gathered \in Seq(Byte) /\ Gathered[1] = V3_FRAME_HEAD_0
        BY <1>1, <1>3, FirstByte
    <2>2. Gathered = << V3_FRAME_HEAD_0 >>
        BY <2>1
    <2>3. Broken(Gathered)
        BY <2>2 DEF Broken, Quiet
    <2> QED
        BY <2>3, Zenon DEF TimeoutEvent, TookOther
<1>7. /\ Gathered \in Seq(Byte) /\ Len(Gathered) = USART_RX_CNT + Len(fifo)
      /\ Len(Gathered) \in Nat
    <2>1. Gathered \in Seq(Byte) /\ Len(Gathered) = USART_RX_CNT + Len(fifo)
        BY <1>1, FirstByte
    <2> QED
        BY <1>4, <2>1
<1> HIDE DEF n, N
<1>8. CASE line = <<>>
    <2>1. Gathered = Frame("v3", n) /\ Len(Gathered) = N /\ Len(Gathered) >= 2 /\ Len(Gathered) >= N
        <3>1. Gathered = Stream
            BY <1>8, GatheredIsStream
        <3>2. N >= 2 /\ N >= N
            BY <1>3
        <3> QED
            BY <1>3, <3>1, <3>2
    <2>2. /\ handled' = Joined(handled, V3_handle_mcu_data(SubSeq(Gathered, 1, N)))
          /\ USART_RX_CNT' = 0
        BY <1>3, <2>1, RegisterTaken DEF N
    <2>3. SubSeq(Gathered, 1, N) = Frame("v3", n)
        <3>1. SubSeq(Gathered, 1, Len(Gathered)) = Gathered
            BY <1>7
        <3> QED
            BY <2>1, <3>1
    <2>4. V3_handle_mcu_data(Frame("v3", n)) = CallsOf("v3", n)
        BY <1>2, RegisterCall
    <2> QED
        BY <1>8, <2>2, <2>3, <2>4 DEF n
<1>9. CASE line # <<>>
    <2>1. Len(line) >= 1
        BY <1>1, <1>9 DEF Sound
    <2>2. Len(Gathered) < N /\ Len(Gathered) >= 2
        <3>1. Len(Gathered) >= 1
            BY <1>1, FirstByte
        <3> QED
            BY <1>3, <1>4, <1>6, <1>7, <1>9, <2>1, <3>1, Sizes
    <2>3. handled' = Joined(handled, <<>>) /\ USART_RX_CNT' = Len(Gathered)
        BY <1>3, <2>2, RegisterTaken DEF N
    <2>4. handled' = handled
        BY <2>3, JoinedIsSeq
    <2>5. Stream' = Stream
        BY <1>5, <1>7, <2>2, <2>3
    <2>6. USART_RX_CNT' # 0
        BY <1>7, <2>2, <2>3
    <2> QED
        BY <1>9, <2>4, <2>5, <2>6
<1> QED
    BY <1>8, <1>9

LEMMA OrderAtTimeout ==
    ASSUME UartInv, InOrderInv, TimeoutEvent, ~doubt'
    PROVE  InOrderInv'
<1> SUFFICES ASSUME lost'.bytes = 0
             PROVE  /\ fifo' = <<>> /\ USART_RX_CNT' > 0 => sent' # <<>> /\ sent'[Len(sent')] = "v3"
                    /\ InBurst' \/ InFrame'
    BY DEF InOrderInv
<1> DEFINE n == Len(sent)
<1>1. /\ Sound /\ Len(sent) =< MaxFrames /\ n \in Nat /\ burst \in Nat /\ sent \in Seq(Kind)
    BY Sizes DEF UartInv, Sound
<1>2. /\ fifo' = <<>> /\ line' = line /\ sent' = sent /\ burst' = 0 /\ lost' = lost
      /\ \/ USART_RX_CNT' = 0 /\ Stream' = line
         \/ USART_RX_CNT' = USART_RX_CNT + Len(fifo) /\ Stream' = Stream
    BY TimeoutEffect
<1>3. InBurst \/ InFrame
    BY <1>2 DEF InOrderInv
<1>4. /\ fifo # <<>> /\ Len(fifo) >= 1 /\ USART_RX_CNT \in Nat /\ Len(line) \in Nat
      /\ Len(Stream) = USART_RX_CNT + Len(fifo) + Len(line) /\ Len(Stream) >= 1
    <2>1. fifo # <<>> /\ fifo \in Seq(Byte)
        BY <1>1 DEF TimeoutEvent, Sound
    <2>2. Len(fifo) >= 1
        BY <2>1
    <2>3. /\ USART_RX_CNT \in Nat /\ Len(line) \in Nat
          /\ Len(Stream) = USART_RX_CNT + Len(fifo) + Len(line)
        BY <1>1, StreamBytes
    <2>4. Len(Stream) >= 1
        BY <2>2, <2>3
    <2> QED
        BY <2>1, <2>2, <2>3, <2>4
<1>5. LastFrame' = LastFrame
    BY <1>2 DEF LastFrame
<1>6. Quiet \/ sent[Len(sent)] = "v3"
    BY DEF TimeoutEvent, Pause, Last
(* Everything has been handled. *)
<1>7. ASSUME USART_RX_CNT' = 0, line = <<>>, handled' = Due(sent, n)
      PROVE  InBurst' /\ ~(USART_RX_CNT' > 0)
    <2>1. Stream' = <<>>
        BY <1>1, <1>2, <1>7, ClearedBytes
    <2>2. IsBurst(Stream', n, 0)
        BY <2>1 DEF IsBurst
    <2>3. n - 0 = n /\ 0 =< n /\ (n - 0 + 1)..n = {}
        BY <1>1
    <2> HIDE DEF n
    <2>4. /\ burst' =< n /\ (\A i \in (n - burst' + 1)..n : sent[i] = "ota")
          /\ handled' = Due(sent, n - burst') /\ IsBurst(Stream', n - burst', burst')
        BY <1>2, <1>7, <2>2, <2>3
    <2> QED
        BY <1>2, <1>7, <2>4 DEF InBurst, n
<1>8. CASE InBurst
    <2> DEFINE m == n - burst
    <2>1. burst >= 1
        <3>1. Len(Stream) = 8 * burst
            BY <1>8 DEF InBurst, IsBurst
        <3> QED
            BY <1>1, <1>4, <3>1
    <2>2. sent # <<>> /\ sent[Len(sent)] = "ota"
        BY <1>1, <2>1 DEF UartInv, IsLast
    <2>3. line = <<>>
        BY <1>6, <2>2 DEF Quiet
    <2>4. /\ m \in Nat /\ m + burst = n /\ m + burst =< MaxFrames
          /\ \A i \in (m + 1)..(m + burst) : sent[i] = "ota"
          /\ handled = Due(sent, m) /\ IsBurst(Stream, m, burst)
        <3>1. burst =< n
            BY <1>8 DEF InBurst
        <3>2. m \in Nat /\ m + burst = n
            BY <1>1, <3>1
        <3> QED
            BY <1>1, <1>8, <3>2 DEF InBurst
    <2> HIDE DEF m
    <2>5. handled' = Joined(handled, Burst(m, burst)) /\ USART_RX_CNT' = 0
        BY <1>1, <2>1, <2>3, <2>4, BurstHandled
    <2>6. Due(sent, m + burst) = Joined(Due(sent, m), Burst(m, burst))
        BY <1>1, <2>4, DueBurst
    <2> QED
        BY <1>7, <2>3, <2>4, <2>5, <2>6
<1>9. CASE InFrame
    <2> DEFINE kind == sent[Len(sent)]
    <2>1. /\ kind \in Kind /\ kind # "ota" /\ sent # <<>> /\ n \in 1..MaxFrames
          /\ handled = Due(sent, n - 1) /\ Stream = LastFrame
          /\ LastFrame \in Seq(Byte) /\ Len(LastFrame) = FrameLength(kind)
        BY <1>1, <1>9, LastFrameBytes DEF InFrame
    <2>2. Due(sent, n) = Joined(handled, CallsOf(kind, n)) /\ handled \in Seq(AnyCall)
        <3>1. n - 1 \in Nat /\ n - 1 =< Len(sent) /\ (n - 1) + 1 = n
            BY <2>1
        <3>2. /\ (n - 1) + 1 =< Len(sent) => Due(sent, (n - 1) + 1) = Joined(Due(sent, n - 1), CallsOf(sent[(n - 1) + 1], (n - 1) + 1))
              /\ Due(sent, n - 1) \in Seq(AnyCall)
            BY <1>1, <3>1, DueMore
        <3> QED
            BY <2>1, <3>1, <3>2
    <2>3. CASE kind \in {"v2", "uc"}
        <3>1. line = <<>>
            BY <1>6, <2>3 DEF Quiet
        <3>2. handled' = Joined(handled, CallsOf(kind, n)) /\ USART_RX_CNT' = 0
            BY <2>1, <2>3, <3>1, OtherHandled
        <3> QED
            BY <1>7, <2>2, <3>1, <3>2
    <2>4. CASE kind = "v3"
        <3>1. \/ line = <<>> /\ handled' = Joined(handled, CallsOf("v3", n)) /\ USART_RX_CNT' = 0
              \/ line # <<>> /\ handled' = handled /\ Stream' = Stream
            BY <2>1, <2>2, <2>4, ReplyHandled
        <3>2. CASE line = <<>>
            BY <1>7, <2>2, <2>4, <3>1, <3>2
        <3>3. CASE line # <<>>
            <4>1. InFrame'
                BY <1>2, <1>5, <1>9, <3>1, <3>3 DEF InFrame
            <4> QED
                BY <1>2, <2>1, <2>4, <4>1
        <3> QED
            BY <3>2, <3>3
    <2> QED
        BY <2>1, <2>3, <2>4 DEF Kind
<1> QED
    BY <1>3, <1>8, <1>9

LEMMA SameOrder ==
    ASSUME InOrderInv, Stream' = Stream, fifo' # <<>>,
           sent' = sent, burst' = burst, lost' = lost, handled' = handled
    PROVE  InOrderInv'
<1>1. LastFrame' = LastFrame
    BY DEF LastFrame
<1>2. (InBurst => InBurst') /\ (InFrame => InFrame')
    BY <1>1 DEF InBurst, InFrame
<1> QED
    BY <1>2 DEF InOrderInv

(* What comes is due, in the order sent.                                     *)
LEMMA OrderIsOrder ==
    ASSUME UartInv, InOrderInv
    PROVE  HandledInOrder
<1> SUFFICES ASSUME lost.bytes = 0
             PROVE  IsPrefix(handled, FlattenSeq([n \in DOMAIN sent |-> CallsFor(n)]))
    BY DEF HandledInOrder
<1>1. sent \in Seq(Kind) /\ Len(sent) \in Nat /\ Len(sent) =< MaxFrames /\ burst \in Nat
    BY Sizes DEF UartInv, Sound
<1>2. FlattenSeq([n \in DOMAIN sent |-> CallsFor(n)]) = Due(sent, Len(sent))
    <2>1. DOMAIN sent = 1..Len(sent) /\ \A n \in 1..Len(sent) : CallsFor(n) = CallsOf(sent[n], n)
        BY <1>1 DEF CallsFor, CallsOf
    <2>2. [n \in DOMAIN sent |-> CallsFor(n)] = [n \in 1..Len(sent) |-> CallsOf(sent[n], n)]
        BY <2>1
    <2> QED
        BY <2>2 DEF Due
<1>3. PICK m \in Nat : m =< Len(sent) /\ handled = Due(sent, m)
    <2>1. CASE InBurst
        <3>1. Len(sent) - burst \in Nat /\ Len(sent) - burst =< Len(sent)
            BY <1>1, <2>1 DEF InBurst
        <3> QED
            BY <2>1, <3>1 DEF InBurst
    <2>2. CASE InFrame
        <3>1. Len(sent) - 1 \in Nat /\ Len(sent) - 1 =< Len(sent)
            BY <1>1, <2>2 DEF InFrame
        <3> QED
            BY <2>2, <3>1 DEF InFrame
    <2> QED
        BY <2>1, <2>2 DEF InOrderInv
<1>4. PICK u \in Seq(AnyCall) : Due(sent, Len(sent)) = Joined(Due(sent, m), u)
    BY <1>1, <1>3, DueLonger
<1>5. Due(sent, m) \in Seq(AnyCall)
    BY <1>1, <1>3, DueMore
<1> QED
    BY <1>2, <1>3, <1>4, <1>5, JoinedPrefix

(* Where the interrupt has dropped what it had of a register reply, the rest  *)
(* of the reply holds no head: without a loss nothing is dropped.             *)
LEMMA RestHoldsNone ==
    ASSUME UartInv, InOrderInv, TimeoutEvent, ~doubt', USART_RX_CNT' = 0, line # <<>>
    PROVE  NoHead(line)
<1> DEFINE n == Len(sent)
<1>1. /\ Sound /\ n =< MaxFrames /\ n \in Nat /\ sent \in Seq(Kind) /\ burst \in Nat
      /\ lost.bytes \in 0..MaxLoss
    BY Sizes DEF UartInv, Sound
<1>2. sent[Len(sent)] = "v3"
    BY DEF TimeoutEvent, Pause, Quiet, Last
<1>3. CASE lost.bytes > 0
    <2>1. ~Broken(Gathered)
        BY Zenon DEF TimeoutEvent, TookOther
    <2>2. ~HoldsHead(line)
        BY <1>3, <2>1 DEF Broken, Quiet
    <2> QED
        BY <2>2 DEF HoldsHead, NoHead
<1>4. CASE lost.bytes = 0
    <2>1. InFrame
        <3> SUFFICES ASSUME InBurst PROVE FALSE
            BY <1>4 DEF InOrderInv
        <3>1. burst = 0
            <4> SUFFICES ASSUME burst > 0 PROVE FALSE
                BY <1>1
            <4> QED
                BY <1>2 DEF UartInv, IsLast
        <3>2. Len(Stream) = 0
            BY <3>1 DEF InBurst, IsBurst
        <3>3. /\ fifo # <<>> /\ Len(Gathered) >= 1 /\ Len(Stream) >= Len(Gathered)
              /\ Len(Gathered) \in Nat
            <4>1. fifo # <<>>
                BY DEF TimeoutEvent
            <4> QED
                BY <4>1, FirstByte
        <3> QED
            BY <3>2, <3>3
    <2>2. sent # <<>> /\ Stream = LastFrame /\ handled = Due(sent, n - 1)
        BY <2>1 DEF InFrame
    <2>3. handled \in Seq(AnyCall)
        <3>1. n \in 1..MaxFrames
            BY <1>1, <2>2, LastFrameBytes
        <3>2. n - 1 \in Nat /\ n - 1 =< Len(sent)
            BY <1>1, <3>1
        <3> QED
            BY <1>1, <2>2, <3>2, DueMore
    <2>4. USART_RX_CNT' # 0
        BY <1>2, <2>2, <2>3, ReplyHandled
    <2> QED
        BY <2>4
<1> QED
    BY <1>1, <1>3, <1>4, Sizes

-----------------------------------------------------------------------------
(* After a byte has been lost                                                *)

Handled(n) == \E i \in DOMAIN handled : << handled[i] >> = CallsOf("v3", n)

(* Once a register reply has been sent of which nothing was lost, the stream *)
(* is long enough to be cleared, or holds no head; the next one is alone in  *)
(* it until it is handled.                                                   *)
RecoveredInv ==
    /\ handled \in Seq(AnyCall)
    /\ sent # <<>> /\ Len(sent) > lost.frame /\ sent[Len(sent)] = "v3"
         => Len(Stream) >= V3_FRAME_SIZE_NORMAL \/ NoHead(Stream)
    /\ \A n \in (lost.frame + 1)..(Len(sent) - 1) :
            sent[n] = "v3" /\ sent[n + 1] = "v3" =>
                Handled(n + 1) \/ (n + 1 = Len(sent) /\ Stream = LastFrame)

(* Calls are only added.                                                     *)
LEMMA CallsAdded ==
    ASSUME UartInv, TimeoutEvent, handled \in Seq(AnyCall)
    PROVE  \E u \in Seq(AnyCall) : handled' = Joined(handled, u)
<1>1. Sound /\ USART_RX_CNT + Len(fifo) + Len(line) =< RX_BUFFER_SIZE
    BY Fits DEF UartInv
<1>2. Gathered \in Seq(Byte)
    BY <1>1, GatheredBytes
<1>3. CASE TakeReplies(Gathered)
    <2> DEFINE R == Replies(Gathered)
    <2>1. R \in 0..(Len(Gathered) \div CTRL_RSP_FRAME_LEN)
        BY <1>2, RepliesBound
    <2>2. Len(Gathered) \in Nat /\ R \in Nat /\ \A k \in 1..R : k * 8 \in 1..Len(Gathered)
        <3>1. Len(Gathered) \in Nat
            BY <1>2
        <3> HIDE DEF R
        <3> QED
            BY <2>1, <3>1
    <2> HIDE DEF R
    <2>3. \A k \in 1..R : OtaReply(Gathered[k * 8]) \in AnyCall
        <3> TAKE k \in 1..R
        <3>1. Gathered[k * 8] \in Nat
            <4>1. Gathered \in Seq(Nat) /\ k * 8 \in 1..Len(Gathered)
                BY <1>2, <2>2, BytesAreNaturals
            <4> QED
                BY <4>1, ElementOfSeq
        <3> QED
            BY <3>1, ReplyIsCall
    <2>4. OtaReplies(Gathered) \in Seq(AnyCall)
        BY <2>2, <2>3 DEF OtaReplies, R
    <2> QED
        BY <1>3, <2>4 DEF TakeReplies, Joined
<1>4. CASE TakeV3(Gathered)
    <2> DEFINE piece == SubSeq(Gathered, 1, V3Whole(Gathered))
    <2>1. handled' = Joined(handled, V3_handle_mcu_data(piece))
        BY <1>4 DEF TakeV3, Joined
    <2>2. piece \in Seq(Nat)
        <3>1. StartsV3(Stored(fifo, USART_RX_CNT), Len(Gathered))
            BY <1>4 DEF TakeV3
        <3>2. V3Whole(Gathered) = IF Len(Gathered) >= V3_FRAME_SIZE_NORMAL THEN V3_FRAME_SIZE_NORMAL ELSE 0
            BY <3>1, WholeSize
        <3>3. V3Whole(Gathered) \in 0..Len(Gathered)
            BY <1>2, <3>2, Sizes
        <3>4. Gathered \in Seq(Nat)
            BY <1>2, BytesAreNaturals
        <3> DEFINE w == V3Whole(Gathered)
        <3> HIDE DEF w
        <3>5. \A k \in 1..w : k \in 1..Len(Gathered)
            BY <1>2, <3>3 DEF w
        <3>6. \A k \in 1..w : Gathered[k] \in Nat
            BY <3>4, <3>5
        <3>7. SubSeq(Gathered, 1, w) \in Seq(Nat)
            <4>1. SubSeq(Gathered, 1, w) = [k \in 1..w |-> Gathered[k]] /\ w \in Nat
                BY <1>2, <3>3 DEF w
            <4> QED
                BY <3>6, <4>1
        <3> QED
            BY <3>7 DEF w
    <2> HIDE DEF piece
    <2>3. V3_handle_mcu_data(piece) \in Seq(AnyCall)
        <3>1. PICK from_app \in BOOLEAN : ~IsTrue(from_app)
            BY DEF IsTrue
        <3>2. V3_handle_mcu_data(piece) = V3_parse_buffer(piece, from_app)
            BY <3>1 DEF V3_handle_mcu_data, IsTrue
        <3>3. PICK calls : Parses(calls, piece, from_app) /\ V3_parse_buffer(piece, from_app) = calls[0]
            BY <2>2, ParseBuffer
        <3> QED
            BY <3>2, <3>3 DEF Parses
    <2> QED
        BY <2>1, <2>3
<1>5. CASE TakeOther(Gathered)
    <2>1. handled' = Joined(handled, OtherCalls(Gathered))
        BY <1>5 DEF TakeOther, Joined
    <2> DEFINE x == [to |-> "Handle_mcu_replydata", data |-> Gathered]
               y == [to |-> "send_mac_to_uc", data |-> <<>>]
               a == IF Len(Gathered) \in 1..MCU_MAX_LEN THEN << x >> ELSE <<>>
               b == IF Gathered = UC_GET_MAC THEN << y >> ELSE <<>>
    <2>2. x \in AnyCall /\ y \in AnyCall
        <3>1. Gathered \in Seq(Nat) /\ <<>> \in Seq(Nat)
            BY <1>2, BytesAreNaturals
        <3> QED
            BY <3>1 DEF AnyCall, Callee
    <2>3. OtherCalls(Gathered) = Joined(a, b)
        BY DEF OtherCalls, Joined
    <2> HIDE DEF x, y
    <2>4. a \in Seq(AnyCall) /\ b \in Seq(AnyCall)
        BY <2>2
    <2> HIDE DEF a, b
    <2>5. Joined(a, b) \in Seq(AnyCall)
        BY <2>4, JoinedIsSeq
    <2> QED
        BY <2>1, <2>3, <2>5
<1> QED
    BY <1>3, <1>4, <1>5 DEF TimeoutEvent

LEMMA StillHandled ==
    ASSUME NEW s \in Seq(AnyCall), NEW u \in Seq(AnyCall), NEW i \in DOMAIN s
    PROVE  i \in DOMAIN Joined(s, u) /\ Joined(s, u)[i] = s[i]
<1>1. i \in 1..Len(s) /\ Len(s) \in Nat /\ Len(u) \in Nat
    OBVIOUS
<1>2. Joined(s, u) \in Seq(AnyCall) /\ Len(Joined(s, u)) = Len(s) + Len(u)
    BY JoinedIsSeq
<1>3. Joined(s, u)[i] = s[i]
    BY <1>1, JoinedFront
<1> DEFINE j == Joined(s, u)
<1> HIDE DEF j
<1>4. DOMAIN j = 1..Len(j) /\ i \in 1..Len(j)
    BY <1>1, <1>2 DEF j
<1> QED
    BY <1>3, <1>4 DEF j

(* The calls of one register reply, added.                                   *)
LEMMA NowHandled ==
    ASSUME NEW s \in Seq(AnyCall), NEW n \in 1..MaxFrames
    PROVE  \E i \in DOMAIN Joined(s, CallsOf("v3", n)) :
              << Joined(s, CallsOf("v3", n))[i] >> = CallsOf("v3", n)
<1> DEFINE u == CallsOf("v3", n)  j == Joined(s, u)
<1>1. u \in Seq(AnyCall) /\ Len(u) = 1 /\ << u[1] >> = u
    <2>1. u \in Seq(AnyCall)
        BY CallsOfAreCalls DEF Kind
    <2>2. u = << [to |-> "V3_handle_mcu_reply", data |-> Frame("v3", n)] >>
        BY DEF CallsOf
    <2> HIDE DEF u
    <2> QED
        BY <2>1, <2>2
<1> HIDE DEF u
<1>2. Len(s) \in Nat /\ 1 \in 1..Len(u)
    BY <1>1
<1>3. u \in Seq(AnyCall)
    BY <1>1
<1>4. j \in Seq(AnyCall) /\ Len(j) = Len(s) + Len(u)
    BY <1>3, JoinedIsSeq
<1>5. j[Len(s) + 1] = u[1]
    BY <1>2, <1>3, JoinedBehind
<1> HIDE DEF j
<1>6. Len(s) + 1 \in DOMAIN j
    BY <1>1, <1>2, <1>4
<1> QED
    BY <1>1, <1>5, <1>6 DEF j, u

(* A register reply begun after another one stands alone.                    *)
LEMMA RecoveredAtSend == ASSUME UartInv, RecoveredInv, SendFrame PROVE RecoveredInv'
<1> DEFINE s == sent'  m == Len(sent)  N == V3_FRAME_SIZE_NORMAL
<1>1. /\ Sound /\ m =< MaxFrames /\ m \in Nat /\ burst \in Nat /\ sent \in Seq(Kind)
      /\ lost.frame \in Nat
    BY Sizes DEF UartInv, Sound
<1>2. /\ line = <<>> /\ fifo' = fifo /\ lost' = lost /\ handled' = handled
    BY <1>1, SendExtends
<1>3. /\ s \in Seq(Kind) /\ Len(s) = m + 1 /\ Len(s) \in 1..MaxFrames
      /\ s = Append(sent, s[Len(s)])
      /\ LastFrame' = Frame(s[Len(s)], Len(s))
      /\ line' = LastFrame' /\ line' \in Seq(Byte)
    BY <1>1, SendExtends
<1>4. /\ Len(Stream') = Len(Stream) + Len(line')
      /\ Stream' = [i \in 1..Len(Stream') |-> Stream'[i]]
      /\ \A i \in 1..Len(line') : Stream'[Len(Stream) + i] = line'[i]
    BY <1>1, SendExtends
<1>5. fifo = <<>> \/ (s[Len(s)] = "ota" /\ burst \in 1..(MaxBurst - 1))
    BY <1>1, SendExtends
<1>6. \A i \in 1..m : s[i] = sent[i]
    <2>1. s[Len(s)] \in Kind
        BY <1>3
    <2> HIDE DEF m
    <2>2. \A i \in 1..Len(sent) : Append(sent, s[Len(s)])[i] = sent[i]
        BY <1>1, <2>1, AppendFront
    <2> QED
        BY <1>3, <2>2 DEF m
<1>7. /\ Stream \in Seq(Byte) /\ Len(Stream) \in Nat
      /\ fifo = <<>> => Len(Stream) < N /\ (Len(Stream) > 0 => Stream[1] = V3_FRAME_HEAD_0)
    <2>1. /\ Stream \in Seq(Byte) /\ USART_RX_CNT \in Nat /\ Len(line) = 0
          /\ Len(fifo) \in Nat
          /\ Len(Stream) = USART_RX_CNT + Len(fifo) + Len(line)
          /\ \A i \in 1..USART_RX_CNT : Stream[i] = RX_Sendata[i - 1]
        BY <1>1, <1>2, StreamBytes
    <2>2. fifo = <<>> => /\ USART_RX_CNT < N
                         /\ USART_RX_CNT > 0 => Stream[1] = V3_FRAME_HEAD_0
        BY DEF UartInv, KeptIsReply
    <2>3. fifo = <<>> => Len(fifo) = 0
        OBVIOUS
    <2> QED
        BY <2>1, <2>2, <2>3
<1>8. N \in 4..255
    BY Sizes
<1> HIDE DEF s, m, N
<1>9. Len(s) > lost.frame /\ s[Len(s)] = "v3" => Len(Stream') >= N
    <2> SUFFICES ASSUME s[Len(s)] = "v3" PROVE Len(Stream') >= N
        OBVIOUS
    <2>1. Len(line') = N
        <3>1. line' = Frame("v3", Len(s))
            BY <1>3
        <3>2. Len(Frame("v3", Len(s))) = N
            BY <1>3, V3FrameBytes DEF N
        <3> QED
            BY <3>1, <3>2
    <2> QED
        BY <1>4, <1>7, <1>8, <2>1
<1>10. ASSUME NEW n \in (lost.frame + 1)..(Len(s) - 1), s[n] = "v3", s[n + 1] = "v3"
       PROVE  Handled(n + 1) \/ (n + 1 = Len(s) /\ Stream' = LastFrame')
    <2>1. CASE n + 1 =< m
        <3>1. n \in (lost.frame + 1)..(m - 1) /\ n \in 1..m /\ n + 1 \in 1..m
            BY <1>1, <2>1
        <3>2. sent[n] = "v3" /\ sent[n + 1] = "v3"
            BY <1>6, <1>10, <3>1
        <3>3. Handled(n + 1) \/ (n + 1 = m /\ Stream = LastFrame)
            BY <3>1, <3>2 DEF RecoveredInv, m
        <3>4. ASSUME n + 1 = m, Stream = LastFrame PROVE FALSE
            <4>1. sent[m] = "v3"
                BY <3>2, <3>4
            <4>2. ~(burst > 0)
                BY <4>1 DEF UartInv, IsLast, m
            <4>3. fifo = <<>>
                BY <1>1, <1>5, <4>2, Sizes
            <4>4. Len(LastFrame) = N
                <5>1. sent # <<>> /\ Len(sent) =< MaxFrames
                    BY <1>1, <3>1 DEF m
                <5>2. Len(LastFrame) = FrameLength(sent[Len(sent)])
                    BY <1>1, <5>1, LastFrameBytes
                <5> QED
                    BY <4>1, <5>2 DEF FrameLength, m, N
            <4> QED
                BY <1>7, <1>8, <3>4, <4>3, <4>4
        <3> QED
            BY <3>3, <3>4
    <2>2. CASE n = m
        <3>1. m >= 1 /\ m > lost.frame /\ n + 1 = Len(s) /\ m \in 1..m
            BY <1>1, <1>3, <2>2
        <3>2. sent[m] = "v3" /\ sent # <<>>
            BY <1>1, <1>6, <1>10, <2>2, <3>1 DEF m
        <3>3. fifo = <<>>
            BY <1>5, <1>10, <3>1
        <3>4. NoHead(Stream)
            <4>1. Len(Stream) >= N \/ NoHead(Stream)
                BY <3>1, <3>2 DEF RecoveredInv, m, N
            <4> QED
                BY <1>7, <1>8, <3>3, <4>1
        <3>5. Len(Stream) = 0
            BY <1>7, <3>3, <3>4 DEF NoHead
        <3>6. Len(Stream') = Len(line') /\ \A i \in 1..Len(line') : Stream'[i] = line'[i]
            <4>1. Len(line') \in Nat /\ \A i \in 1..Len(line') : 0 + i = i
                BY <1>3
            <4> QED
                BY <1>4, <3>5, <4>1
        <3>7. line' = [i \in 1..Len(line') |-> line'[i]]
            BY <1>3
        <3>8. Stream' = line'
            BY <1>4, <3>6, <3>7
        <3> QED
            BY <1>3, <3>1, <3>8
    <2> QED
        <3>1. n + 1 =< m \/ n = m
            BY <1>1, <1>3
        <3> QED
            BY <2>1, <2>2, <3>1
<1>11. \A n : Handled(n)' <=> Handled(n)
    BY <1>2 DEF Handled
<1> QED
    BY <1>2, <1>9, <1>10, <1>11 DEF RecoveredInv, s, N

LEMMA RecoveredAtTimeout ==
    ASSUME UartInv, RecoveredInv, TimeoutEvent, ~doubt',
           USART_RX_CNT' = 0 /\ line # <<>> => NoHead(line)
    PROVE  RecoveredInv'
<1> DEFINE m == Len(sent)
<1>1. /\ Sound /\ m =< MaxFrames /\ m \in Nat /\ sent \in Seq(Kind) /\ lost.frame \in Nat
      /\ handled \in Seq(AnyCall)
    BY Sizes DEF UartInv, Sound, RecoveredInv
<1>2. /\ sent' = sent /\ lost' = lost /\ line' = line
      /\ (USART_RX_CNT' = 0 /\ Stream' = line) \/ Stream' = Stream
    BY TimeoutEffect
<1>3. LastFrame' = LastFrame
    BY <1>2 DEF LastFrame
<1>4. PICK u \in Seq(AnyCall) : handled' = Joined(handled, u)
    BY <1>1, CallsAdded
<1>5. handled' \in Seq(AnyCall)
    BY <1>1, <1>4, JoinedIsSeq
<1>6. \A n : Handled(n) => Handled(n)'
    <2> SUFFICES ASSUME NEW n, NEW i \in DOMAIN handled, << handled[i] >> = CallsOf("v3", n)
                 PROVE  \E k \in DOMAIN handled' : << handled'[k] >> = CallsOf("v3", n)
        BY DEF Handled
    <2>1. i \in DOMAIN handled' /\ handled'[i] = handled[i]
        BY <1>1, <1>4, StillHandled
    <2> QED
        BY <2>1
<1> HIDE DEF m
<1>7. ASSUME sent # <<>>, m > lost.frame, sent[m] = "v3"
      PROVE  Len(Stream') >= V3_FRAME_SIZE_NORMAL \/ NoHead(Stream')
    <2>1. Len(Stream) >= V3_FRAME_SIZE_NORMAL \/ NoHead(Stream)
        BY <1>7 DEF RecoveredInv, m
    <2>2. USART_RX_CNT' = 0 => NoHead(line)
        <3>1. line = <<>> => NoHead(line)
            BY DEF NoHead
        <3> QED
            BY <3>1
    <2> QED
        BY <1>2, <2>1, <2>2
<1>8. ASSUME NEW n \in (lost.frame + 1)..(m - 1), sent[n] = "v3", sent[n + 1] = "v3"
      PROVE  Handled(n + 1)' \/ (n + 1 = m /\ Stream' = LastFrame)
    <2>1. Handled(n + 1) \/ (n + 1 = m /\ Stream = LastFrame)
        BY <1>8 DEF RecoveredInv, m
    <2>2. CASE n + 1 = m /\ Stream = LastFrame
        <3>1. sent # <<>> /\ sent[Len(sent)] = "v3" /\ m \in 1..MaxFrames
            BY <1>1, <1>8, <2>2, Sizes DEF m
        <3>2. \/ handled' = Joined(handled, CallsOf("v3", m))
              \/ handled' = handled /\ Stream' = Stream
            BY <1>1, <2>2, <3>1, ReplyHandled DEF m
        <3>3. CASE handled' = Joined(handled, CallsOf("v3", m))
            <4>1. handled \in Seq(AnyCall) /\ m \in 1..MaxFrames
                BY <1>1, <3>1
            <4>2. \E i \in DOMAIN Joined(handled, CallsOf("v3", m)) :
                      << Joined(handled, CallsOf("v3", m))[i] >> = CallsOf("v3", m)
                BY <4>1, NowHandled
            <4>3. \E i \in DOMAIN handled' : << handled'[i] >> = CallsOf("v3", m)
                BY <3>3, <4>2
            <4>4. \E i \in DOMAIN handled' : << handled'[i] >> = CallsOf("v3", n + 1)
                BY <2>2, <4>3
            <4> QED
                BY <4>4 DEF Handled
        <3> QED
            BY <2>2, <3>2, <3>3
    <2> QED
        BY <1>6, <2>1, <2>2
<1> QED
    BY <1>2, <1>3, <1>5, <1>7, <1>8 DEF RecoveredInv, m

LEMMA SameRecovered ==
    ASSUME RecoveredInv, Stream' = Stream, sent' = sent, lost' = lost, handled' = handled
    PROVE  RecoveredInv'
<1>1. LastFrame' = LastFrame
    BY DEF LastFrame
<1>2. \A n : Handled(n)' <=> Handled(n)
    BY DEF Handled
<1>3. NoHead(Stream') <=> NoHead(Stream)
    OBVIOUS
<1> QED
    BY <1>1, <1>2, <1>3 DEF RecoveredInv

(* A lost byte asks nothing of the frame it belonged to, nor of earlier ones. *)
LEMMA RecoveredAtLose ==
    ASSUME UartInv, RecoveredInv, Lose
    PROVE  RecoveredInv'
<1>1. sent' = sent /\ handled' = handled /\ lost'.frame = Len(sent)
    BY DEF Lose
<1>2. Len(sent) \in Nat
    BY DEF UartInv, Sound
<1>3. \A n \in (Len(sent) + 1)..(Len(sent) - 1) : FALSE
    BY <1>2
<1>4. ~(Len(sent) > Len(sent))
    BY <1>2
<1> QED
    BY <1>1, <1>3, <1>4 DEF RecoveredInv

(* When the controller and the FIFO are silent no reply is left to handle.   *)
LEMMA NoReplyLeft ==
    ASSUME UartInv, Quiet, fifo = <<>>, sent # <<>>, sent[Len(sent)] = "v3"
    PROVE  Stream # LastFrame
<1>1. Sound /\ Len(sent) =< MaxFrames
    BY DEF UartInv
<1>2. Len(Stream) = USART_RX_CNT + Len(fifo) + Len(line)
    BY <1>1, StreamBytes
<1>3. Len(fifo) = 0 /\ Len(line) = 0 /\ USART_RX_CNT \in Nat
    BY <1>1 DEF Quiet, Sound
<1>4. USART_RX_CNT < V3_FRAME_SIZE_NORMAL /\ V3_FRAME_SIZE_NORMAL \in Nat
    BY Sizes DEF UartInv, KeptIsReply
<1>5. Len(LastFrame) = V3_FRAME_SIZE_NORMAL
    BY <1>1, LastFrameBytes DEF FrameLength
<1>6. Len(Stream) # Len(LastFrame)
    BY <1>2, <1>3, <1>4, <1>5
<1> QED
    BY <1>6

LEMMA RecoveredAtInit == ASSUME Init PROVE RecoveredInv
<1>1. sent = <<>> /\ handled = <<>> /\ lost.frame = 0
    BY DEF Init
<1>2. Len(sent) = 0 /\ handled \in Seq(AnyCall)
    BY <1>1
<1>3. \A n \in (0 + 1)..(0 - 1) : FALSE
    OBVIOUS
<1> QED
    BY <1>1, <1>2, <1>3 DEF RecoveredInv

LEMMA RecoveredIsRecovered == ASSUME UartInv, RecoveredInv PROVE Recovered
<1> SUFFICES ASSUME Quiet, fifo = <<>>,
                    NEW n \in (lost.frame + 1)..(Len(sent) - 1),
                    sent[n] = "v3", sent[n + 1] = "v3"
             PROVE  \E i \in DOMAIN handled : << handled[i] >> = CallsFor(n + 1)
    BY DEF Recovered
<1>1. Handled(n + 1) \/ (n + 1 = Len(sent) /\ Stream = LastFrame)
    BY DEF RecoveredInv
<1>2. ASSUME n + 1 = Len(sent) PROVE Stream # LastFrame
    <2>1. sent # <<>>
        <3>1. lost.frame \in Nat /\ Len(sent) \in Nat
            BY DEF UartInv, Sound
        <3>2. Len(sent) # Len(<<>>)
            BY <3>1
        <3> QED
            BY <3>2, Zenon
    <2> QED
        BY <1>2, <2>1, NoReplyLeft
<1>3. Handled(n + 1)
    BY <1>1, <1>2
<1>4. CallsFor(n + 1) = CallsOf("v3", n + 1)
    BY DEF CallsFor, CallsOf
<1> QED
    BY <1>3, <1>4 DEF Handled

-----------------------------------------------------------------------------
(* The receive path                                                          *)

(* What holds until the interrupt may have taken other bytes for a head.     *)
ReceiveInv ==
    /\ doubt \in BOOLEAN
    /\ ~doubt => UartInv /\ InOrderInv /\ RecoveredInv

LEMMA ReceiveAtInit == ASSUME Init PROVE ReceiveInv
<1>1. doubt = FALSE
    BY DEF Init
<1> QED
    BY <1>1, InvAtInit, OrderAtInit, RecoveredAtInit DEF ReceiveInv

(* No step takes the doubt away.                                             *)
LEMMA DoubtStays ==
    ASSUME [Next]_vars, doubt \in BOOLEAN
    PROVE  doubt' \in BOOLEAN /\ (doubt => doubt')
<1>1. CASE SendFrame \/ Lose \/ TimeoutEvent
    BY <1>1, Zenon DEF SendFrame, Lose, TimeoutEvent, TookOther
<1>2. CASE Arrive \/ DataEvent \/ write_vnd \/ UNCHANGED vars
    <2>1. doubt' = doubt
        BY <1>2 DEF Arrive, DataEvent, write_vnd, uart, vars
    <2> QED
        BY <2>1, Zenon
<1> QED
    BY <1>1, <1>2 DEF Next

LEMMA ReceiveAtNext == ASSUME ReceiveInv, [Next]_vars PROVE ReceiveInv'
<1>1. doubt' \in BOOLEAN /\ (doubt => doubt')
    BY DoubtStays DEF ReceiveInv
<1> SUFFICES ASSUME ~doubt' PROVE UartInv' /\ InOrderInv' /\ RecoveredInv'
    BY <1>1, Zenon DEF ReceiveInv
<1>2. UartInv /\ InOrderInv /\ RecoveredInv
    BY <1>1, Zenon DEF ReceiveInv
<1>3. Sound /\ USART_RX_CNT + Len(fifo) + Len(line) =< RX_BUFFER_SIZE
    BY <1>2, Fits DEF UartInv
<1>4. CASE SendFrame
    BY <1>2, <1>4, InvAtSend, OrderAtSend, RecoveredAtSend
<1>5. CASE Arrive
    <2>1. Stream' = Stream /\ fifo' # <<>>
        BY <1>3, <1>5, ArriveKeeps
    <2>2. InOrderInv'
        BY <1>2, <1>5, <2>1, SameOrder DEF Arrive
    <2>3. RecoveredInv'
        BY <1>2, <1>5, <2>1, SameRecovered DEF Arrive
    <2> QED
        BY <1>2, <1>5, <2>2, <2>3, InvAtArrive
<1>6. CASE Lose
    <2>1. InOrderInv'
        <3>1. lost'.bytes = lost.bytes + 1
            BY <1>6 DEF Lose
        <3>2. lost.bytes \in Nat
            BY <1>3, Sizes DEF Sound
        <3> QED
            BY <3>1, <3>2 DEF InOrderInv
    <2> QED
        BY <1>2, <1>6, <2>1, InvAtLose, RecoveredAtLose
<1>7. CASE DataEvent
    <2>1. Stream' = Stream /\ Len(fifo') = 1
        BY <1>3, <1>7, DataKeeps
    <2>2. fifo' # <<>>
        <3>1. Len(fifo') # Len(<<>>)
            BY <2>1
        <3> QED
            BY <3>1, Zenon
    <2>3. InOrderInv'
        BY <1>2, <1>7, <2>1, <2>2, SameOrder DEF DataEvent
    <2>4. RecoveredInv'
        BY <1>2, <1>7, <2>1, SameRecovered DEF DataEvent
    <2> QED
        BY <1>2, <1>7, <2>3, <2>4, InvAtData
<1>8. CASE TimeoutEvent
    <2>1. USART_RX_CNT' = 0 /\ line # <<>> => NoHead(line)
        BY <1>2, <1>8, RestHoldsNone
    <2> QED
        BY <1>2, <1>8, <2>1, InvAtTimeout, OrderAtTimeout, RecoveredAtTimeout
<1>9. CASE write_vnd \/ UNCHANGED vars
    <2>1. UNCHANGED uart
        BY <1>9 DEF write_vnd, vars
    <2>2. Stream' = Stream /\ LastFrame' = LastFrame /\ Within' = Within /\ SincePause' = SincePause
        BY <2>1 DEF uart, Stream, LastFrame, Within, SincePause
    <2>3. FrontIsReply' /\ RestHasNone' /\ KeptIsReply'
        BY <1>2, <2>1, <2>2 DEF uart, UartInv, FrontIsReply, RestHasNone, KeptIsReply, IsLast
    <2>4. UartInv'
        BY <1>2, <2>1, <2>2, <2>3 DEF uart, UartInv, Sound, IsLast
    <2>5. InOrderInv'
        BY <1>2, <2>1, <2>2 DEF uart, InOrderInv, InBurst, InFrame
    <2>6. RecoveredInv'
        BY <1>2, <2>1, <2>2, SameRecovered DEF uart
    <2> QED
        BY <2>4, <2>5, <2>6
<1> QED
    BY <1>4, <1>5, <1>6, <1>7, <1>8, <1>9 DEF Next

LEMMA ReceiveAlways == Spec => []ReceiveInv
<1>1. Init => ReceiveInv
    BY ReceiveAtInit
<1>2. ReceiveInv /\ [Next]_vars => ReceiveInv'
    BY ReceiveAtNext
<1> QED
    BY <1>1, <1>2, PTL DEF Spec

(* The buffer never overruns and every cell of it stays a byte, whatever the  *)
(* frames carry, whatever is lost and wherever a register reply is interrupted *)
(* (TypeOK; Ble_hid_uart_irq_rx_ready), until the interrupt may have taken     *)
(* other bytes for a head (doubt).                                            *)
THEOREM TypeCorrect == Spec => []TypeOK
<1>1. ReceiveInv => TypeOK
    BY Zenon DEF ReceiveInv, TypeOK, UartInv
<1> QED
    BY <1>1, ReceiveAlways, PTL

(* As long as no byte is lost, the frames of the controller are handled in    *)
(* the order sent, none twice and none left out (HandledInOrder;              *)
(* Ble_hid_uart_irq_rx_ready), whatever they carry, until a V2 reply is       *)
(* 53 35 or a register reply is interrupted between its head bytes.           *)
THEOREM FramesHandledInOrder == Spec => []HandledInOrder
<1>1. ReceiveInv => HandledInOrder
    <2> SUFFICES ASSUME ReceiveInv, ~doubt PROVE HandledInOrder
        BY Zenon DEF HandledInOrder
    <2>1. UartInv /\ InOrderInv
        BY Zenon DEF ReceiveInv
    <2> QED
        BY <2>1, OrderIsOrder
<1> QED
    BY <1>1, ReceiveAlways, PTL

(* A register reply that follows another one is handled, when nothing has     *)
(* been lost since the first was begun, whatever earlier losses have left and *)
(* whatever the frames carry (Recovered; Ble_hid_uart_irq_rx_ready), until    *)
(* the interrupt may have taken other bytes for a head.                       *)
THEOREM RepliesRecovered == Spec => []Recovered
<1>1. ReceiveInv => Recovered
    <2> SUFFICES ASSUME ReceiveInv, ~doubt PROVE Recovered
        BY Zenon DEF Recovered
    <2>1. UartInv /\ RecoveredInv
        BY Zenon DEF ReceiveInv
    <2> QED
        BY <2>1, RecoveredIsRecovered
<1> QED
    BY <1>1, ReceiveAlways, PTL
=============================================================================
