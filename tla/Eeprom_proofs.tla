---------------------------- MODULE Eeprom_proofs ----------------------------
(***************************************************************************)
(* The EEPROM driver for blocks, pages and operations of any size: types,  *)
(* reads and the handshake whatever the chip's page; writes where the      *)
(* chip's page is a multiple of the driver's (PagesFit).                   *)
(*                                                                         *)
(* First the arithmetic of pages and blocks, then what a thread's call is  *)
(* in the middle of (IInv), then what is left to write (WInv).             *)
(***************************************************************************)
EXTENDS Eeprom, TLAPS

(* A thread's call. *)
Call == [pc : Pc, mem_addr : Cell \cup {Size}, len : 0..MaxLen, buf : Seq(Value),
         addr : Cell, asked : 0..MaxLen, want : Seq(Value),
         handshake : BOOLEAN, disturbed : BOOLEAN]

-----------------------------------------------------------------------------
(* Arithmetic *)

LEMMA Sizes ==
    /\ EEPROM_PAGE_SIZE \in Nat \ {0} /\ ChipPage \in Nat \ {0} /\ BlockSize \in Nat \ {0}
    /\ MaxLen \in Nat \ {0} /\ MaxWrites \in Nat /\ MaxReads \in Nat /\ MaxHandshakes \in Nat
    /\ Size = 2 * BlockSize /\ Size \in Nat \ {0}
    /\ FlagAddr \in Cell
    /\ Cell = 0..(Size - 1)
<1>1. /\ EEPROM_PAGE_SIZE \in Nat \ {0} /\ ChipPage \in Nat \ {0} /\ BlockSize \in Nat \ {0}
      /\ MaxLen \in Nat \ {0} /\ MaxWrites \in Nat /\ MaxReads \in Nat /\ MaxHandshakes \in Nat
    BY EepromAssumption
<1>2. FlagAddr \in 0..(2 * BlockSize - 1)
    BY EepromAssumption
<1> QED
    BY <1>1, <1>2 DEF Size, Cell

LEMMA Division ==
    ASSUME NEW n \in Nat \ {0}, NEW x \in Int
    PROVE  \E q \in Int, r \in 0..(n - 1) :
              x = n * q + r /\ x \div n = q /\ x % n = r
<1>1. PICK q \in Int, r \in Int : q = x \div n /\ r = x % n
    OBVIOUS
<1>2. x = n * q + r
    BY <1>1
<1>3. 0 <= r /\ r < n
    BY <1>1
<1> QED
    BY <1>1, <1>2, <1>3

LEMMA DivisionUnique ==
    ASSUME NEW n \in Nat \ {0}, NEW q \in Int, NEW r \in 0..(n - 1)
    PROVE  (n * q + r) \div n = q /\ (n * q + r) % n = r
<1>1. (n * q + r) \div n = q
    OBVIOUS
<1>2. (n * q + r) % n = r
    OBVIOUS
<1> QED
    BY <1>1, <1>2

(* Within one n on either side of zero. *)
LEMMA Remainder ==
    ASSUME NEW n \in Nat \ {0}, NEW r \in 0..(n - 1), NEW d \in Int
    PROVE  /\ d = r => d % n = r
           /\ d = r - n => d % n = r
<1>1. (n * 0 + r) % n = r /\ n * 0 + r = r
    BY DivisionUnique
<1>2. (n * (-1) + r) % n = r /\ n * (-1) + r = r - n
    BY DivisionUnique
<1> QED
    BY <1>1, <1>2

LEMMA MinOfTwo ==
    ASSUME NEW x \in Int, NEW y \in Int
    PROVE  Min({x, y}) = IF x <= y THEN x ELSE y
BY DEF Min

LEMMA Product ==
    ASSUME NEW n \in Nat \ {0}, NEW p \in Int, NEW q \in Int, p < q
    PROVE  n * p + n <= n * q
<1>1. p + 1 <= q
    OBVIOUS
<1>2. n * (p + 1) <= n * q
    BY <1>1
<1>3. n * (p + 1) = n * p + n
    OBVIOUS
<1> QED
    BY <1>2, <1>3

(* The device address and the two address bytes name the cell. *)
LEMMA Addressing ==
    ASSUME NEW x \in Cell
    PROVE  /\ eeprom_i2c_addr(x) \in 0..1
           /\ Word(x) \in 0..(BlockSize - 1)
           /\ x = eeprom_i2c_addr(x) * BlockSize + Word(x)
<1>1. x \in Int /\ 0 <= x /\ x < 2 * BlockSize
    BY Sizes
<1>2. PICK q \in Int, r \in 0..(BlockSize - 1) :
         x = BlockSize * q + r /\ x \div BlockSize = q /\ x % BlockSize = r
    BY <1>1, Sizes, Division
<1>3. q < 2
    <2>1. SUFFICES ASSUME 2 <= q PROVE FALSE
        BY <1>2
    <2>2. BlockSize * 2 <= BlockSize * q
        BY <2>1, Sizes
    <2> QED
        BY <1>1, <1>2, <2>2, Sizes
<1>4. q >= 0
    <2>1. SUFFICES ASSUME q < 0 PROVE FALSE
        BY <1>2
    <2>2. BlockSize * q + BlockSize <= BlockSize * 0
        BY <2>1, Sizes, Product
    <2> QED
        BY <1>1, <1>2, <2>2, Sizes
<1>5. q = 0 \/ q = 1
    BY <1>3, <1>4
<1>6. eeprom_i2c_addr(x) = q
    BY <1>2, <1>5 DEF eeprom_i2c_addr
<1>7. BlockSize * q = q * BlockSize
    BY <1>2, Sizes
<1> QED
    BY <1>2, <1>5, <1>6, <1>7, Sizes DEF Word

LEMMA WordInBlock == \A x \in Int : Word(x) \in 0..(BlockSize - 1)
<1> SUFFICES ASSUME NEW x \in Int PROVE Word(x) \in 0..(BlockSize - 1)
    OBVIOUS
<1> QED
    BY Sizes, Division DEF Word

(* A piece of a write ends with the driver's page. *)
LEMMA WritePiece ==
    ASSUME NEW c \in Call, c.len > 0
    PROVE  /\ WriteChunk(c) \in 1..c.len
           /\ WriteChunk(c) <= EEPROM_PAGE_SIZE - (c.mem_addr % EEPROM_PAGE_SIZE)
<1>1. c.mem_addr \in Int /\ c.len \in Int
    BY Sizes DEF Call
<1>2. PICK r \in 0..(EEPROM_PAGE_SIZE - 1) : c.mem_addr % EEPROM_PAGE_SIZE = r
    BY <1>1, Sizes, Division
<1>3. WriteChunk(c) = Min({c.len, EEPROM_PAGE_SIZE - r})
    BY <1>2 DEF WriteChunk
<1>4. EEPROM_PAGE_SIZE - r \in Int
    BY <1>2, Sizes
<1>5. WriteChunk(c) = IF c.len <= EEPROM_PAGE_SIZE - r THEN c.len ELSE EEPROM_PAGE_SIZE - r
    BY <1>1, <1>3, <1>4, MinOfTwo
<1> QED
    BY <1>1, <1>2, <1>5, Sizes

(* A piece of a read ends with the block. *)
LEMMA ReadPiece ==
    ASSUME NEW c \in Call, c.len > 0, c.mem_addr + c.len <= Size
    PROVE  /\ ReadChunk(c) \in 1..c.len
           /\ Word(c.mem_addr) + ReadChunk(c) <= BlockSize
<1>1. c.mem_addr \in Cell /\ c.len \in Int
    BY Sizes DEF Call
<1> DEFINE b == eeprom_i2c_addr(c.mem_addr)
           w == Word(c.mem_addr)
<1>2. b \in 0..1 /\ w \in 0..(BlockSize - 1) /\ c.mem_addr = b * BlockSize + w
    BY <1>1, Addressing
<1>3. (b + 1) * BlockSize = b * BlockSize + BlockSize
    BY <1>2, Sizes
<1>4. (b + 1) * BlockSize \in Int /\ b * BlockSize \in Int
    BY <1>2, Sizes
<1>5. (b + 1) * BlockSize - c.mem_addr = BlockSize - w
    BY <1>2, <1>3, <1>4, Sizes
<1>6. ReadChunk(c) = Min({c.len, BlockSize - w})
    BY <1>5 DEF ReadChunk
<1>7. BlockSize - w \in Int
    BY <1>2, Sizes
<1>8. ReadChunk(c) = IF c.len <= BlockSize - w THEN c.len ELSE BlockSize - w
    BY <1>1, <1>6, <1>7, MinOfTwo
<1> QED
    BY <1>1, <1>2, <1>8, Sizes

(* Inside a block the chip reads on from cell to cell. *)
LEMMA ReadsOn ==
    ASSUME NEW x \in Cell, NEW n \in Nat, Word(x) + n <= BlockSize, pointer = Word(x)
    PROVE  SequentialRead(eeprom_i2c_addr(x), n) = [i \in 1..n |-> mem[x + i - 1]]
<1> DEFINE b == eeprom_i2c_addr(x)
           w == Word(x)
<1>1. b \in 0..1 /\ w \in 0..(BlockSize - 1) /\ x = b * BlockSize + w
    BY Addressing
<1>2. ASSUME NEW i \in 1..n
      PROVE  b * BlockSize + ((pointer + i - 1) % BlockSize) = x + i - 1
    <2>1. w + i - 1 \in 0..(BlockSize - 1)
        BY <1>1, Sizes
    <2>4. (w + i - 1) % BlockSize = w + i - 1
        BY <2>1, Sizes, Remainder
    <2>5. b * BlockSize \in Int
        BY <1>1, Sizes
    <2> QED
        <3>1. (pointer + i - 1) % BlockSize = w + i - 1
            BY <2>4
        <3>2. w \in Int /\ i \in Int
            BY <1>1, Sizes
        <3>3. \A k, v, j \in Int : k + (v + j - 1) = (k + v) + j - 1
            OBVIOUS
        <3>4. b * BlockSize + (w + i - 1) = (b * BlockSize + w) + i - 1
            BY <2>5, <3>2, <3>3
        <3> QED
            BY <1>1, <3>1, <3>4
<1> QED
    BY <1>2 DEF SequentialRead

(* The chip's page holds the driver's pages whole. *)
PagesFit == ChipPage % EEPROM_PAGE_SIZE = 0

(* Then a piece of a write stays inside a page of the chip. *)
LEMMA PieceInPage ==
    ASSUME PagesFit, NEW x \in Nat
    PROVE  EEPROM_PAGE_SIZE - (x % EEPROM_PAGE_SIZE) <= ChipPage - (x % ChipPage)
<1> DEFINE e == EEPROM_PAGE_SIZE
<1>1. PICK k \in Int : ChipPage = e * k
    <2>1. PICK k \in Int, z \in 0..(e - 1) :
             ChipPage = e * k + z /\ ChipPage \div e = k /\ ChipPage % e = z
        BY Sizes, Division
    <2> QED
        <3>1. z = 0
            BY <2>1 DEF PagesFit
        <3> QED
            BY <2>1, <3>1, Sizes
<1>2. PICK q \in Int, r \in 0..(ChipPage - 1) :
         x = ChipPage * q + r /\ x \div ChipPage = q /\ x % ChipPage = r
    BY Sizes, Division
<1>3. PICK s \in Int, t \in 0..(e - 1) : r = e * s + t /\ r \div e = s /\ r % e = t
    BY <1>2, Sizes, Division
<1>4. x = e * (k * q + s) + t
    <2>1. ChipPage * q = e * (k * q)
        BY <1>1, <1>2, Sizes
    <2>2. e * (k * q + s) = e * (k * q) + e * s
        BY <1>1, <1>2, <1>3, Sizes
    <2> QED
        BY <1>2, <1>3, <2>1, <2>2, Sizes
<1>5. x % e = t
    <2>1. k * q + s \in Int
        BY <1>1, <1>2, <1>3
    <2> QED
        BY <1>3, <1>4, <2>1, Sizes, DivisionUnique
<1>6. e * s + e <= e * k
    <2>1. s < k
        <3>1. SUFFICES ASSUME k <= s PROVE FALSE
            BY <1>1, <1>3
        <3>2. e * k <= e * s
            BY <1>1, <1>3, <3>1, Sizes
        <3> QED
            BY <1>1, <1>2, <1>3, <3>2, Sizes
    <2> QED
        BY <1>1, <1>3, <2>1, Sizes, Product
<1> QED
    BY <1>1, <1>2, <1>3, <1>5, <1>6, Sizes

(* A piece inside a page goes to its cells and to no other. *)
LEMMA ProgrammedCells ==
    ASSUME NEW x \in Cell, NEW S, NEW bytes \in Seq(S), Len(bytes) <= ChipPage - (x % ChipPage)
    PROVE  Programmed(eeprom_i2c_addr(x), Word(x), bytes) =
             [c \in Cell |-> IF c \in x..(x + Len(bytes) - 1) THEN bytes[c - x + 1]
                             ELSE mem[c]]
<1> DEFINE P == ChipPage
           n == Len(bytes)
<1>1. eeprom_i2c_addr(x) * BlockSize + Word(x) = x
    BY Addressing
<1>0. P \in Nat \ {0} /\ \A c \in Cell : c \in Int
    BY Sizes
<1>2. PICK q \in Int, r \in 0..(P - 1) : x = P * q + r /\ x \div P = q /\ x % P = r
    BY <1>0, Division
<1>3. ASSUME NEW c \in Cell
      PROVE  /\ (c \div P = x \div P /\ (c - x) % P < n) <=> c \in x..(x + n - 1)
             /\ c \in x..(x + n - 1) => (c - x) % P = c - x
    <2>1. PICK v \in Int, z \in 0..(P - 1) : c = P * v + z /\ c \div P = v /\ c % P = z
        BY <1>0, Division
    <2>2. CASE c \div P = x \div P
        <3>1. c - x = z - r
            BY <1>2, <2>1, <2>2, Sizes
        <3>2. CASE z >= r
            <4>1. c - x \in 0..(P - 1)
                BY <1>2, <2>1, <3>1, <3>2, Sizes
            <4>3. (c - x) % P = c - x
                BY <1>0, <4>1, Remainder
            <4>4. c >= x
                BY <1>2, <2>1, <3>1, <3>2, Sizes
            <4> QED
                BY <2>2, <4>3, <4>4, Sizes
        <3>3. CASE z < r
            <4>1. P + z - r \in 0..(P - 1)
                BY <1>2, <2>1, <3>3, Sizes
            <4>2. c - x \in Int /\ c - x = (P + z - r) - P
                BY <1>2, <2>1, <3>1, Sizes
            <4>3. (c - x) % P = P + z - r
                BY <1>0, <4>1, <4>2, Remainder
            <4>4. ~((c - x) % P < n)
                BY <1>2, <2>1, <4>3, Sizes
            <4>5. c < x
                BY <1>2, <2>1, <3>1, <3>3, Sizes
            <4> QED
                BY <4>4, <4>5, Sizes
        <3> QED
            BY <1>2, <2>1, <3>2, <3>3, Sizes
    <2>3. CASE c \div P # x \div P
        <3>1. v < q \/ q < v
            BY <1>2, <2>1, <2>3
        <3>2. CASE v < q
            <4>1. P * v + P <= P * q
                BY <1>2, <2>1, <3>2, Sizes, Product
            <4>2. c < x
                BY <1>2, <2>1, <4>1, Sizes
            <4> QED
                BY <2>3, <4>2, Sizes
        <3>3. CASE q < v
            <4>1. P * q + P <= P * v
                BY <1>2, <2>1, <3>3, Sizes, Product
            <4>2. c >= P * q + P
                BY <1>2, <2>1, <4>1, Sizes
            <4>3. x + n <= P * q + P
                BY <1>2, Sizes
            <4>4. c > x + n - 1
                BY <1>2, <2>1, <4>2, <4>3, Sizes
            <4> QED
                BY <2>3, <4>4, Sizes
        <3> QED
            BY <3>1, <3>2, <3>3
    <2> QED
        BY <2>2, <2>3
<1> QED
    BY <1>1, <1>3 DEF Programmed

-----------------------------------------------------------------------------
(* What a call is in the middle of *)

(* What is left lies in the chip. *)
Placed(c) ==
    /\ c.mem_addr + c.len <= Size
    /\ c.pc # "idle" => c.len > 0

(* A write holds what is left to write. *)
Writing(c) ==
    c.pc \in {"write", "sleep"} =>
        c.want = <<>> /\ Len(c.buf) = c.len /\ c.buf \in Seq(Value \ {Unread})

(* A read has got what it wanted so far, if nobody came between. *)
Reading(c) == c.pc \in {"address", "data"} \/ c.want # <<>>

Fetched(c) ==
    Reading(c) =>
        /\ c.mem_addr = c.addr + Len(c.want)
        /\ Len(c.want) + c.len = c.asked
        /\ c.pc = "idle" => c.len = 0
        /\ ~c.disturbed => c.buf = c.want

(* Before the data transfer the chip points where the read goes on. *)
Pointed(c) == (c.pc = "data" /\ ~c.disturbed) => pointer = Word(c.mem_addr)

CallInv(c) == Placed(c) /\ Writing(c) /\ Fetched(c) /\ Pointed(c)

MainReads == thread["main"].pc \notin {"write", "sleep"} /\ ~thread["main"].handshake

(* The handshake reads one cell, the flag. *)
FlagRead ==
    LET c == thread["bluetooth"]
    IN  c.handshake =>
          /\ c.pc \in {"idle", "address", "data"}
          /\ c.pc # "idle" => c.mem_addr = FlagAddr /\ c.len = 1 /\ c.buf = <<>>

(* The inductive invariant of the reads. *)
IInv ==
    /\ TypeOK
    /\ \A t \in Thread : CallInv(thread[t])
    /\ MainReads
    /\ FlagRead
    /\ HandshakeTrue

LEMMA Calling == TypeOK => thread \in [Thread -> Call]
BY DEF TypeOK, Call

LEMMA InitIInv == Init => IInv
<1> SUFFICES ASSUME Init PROVE IInv
    OBVIOUS
<1>1. Idle \in Call
    BY Sizes DEF Idle, Call, Pc
<1>2. thread \in [Thread -> Call] /\ \A t \in Thread : thread[t] = Idle
    BY <1>1 DEF Init
<1>3. mem \in [Cell -> Value \ {Unread}] /\ meant \in [Cell -> Value]
    BY Sizes DEF Init, Value, Unread
<1>4. /\ pointer \in 0..(BlockSize - 1) /\ cycle \in BOOLEAN /\ told \in {"none", "NEED", "FINISH"}
      /\ ops \in [write : 0..MaxWrites, read : 0..MaxReads, handshake : 0..MaxHandshakes]
    <2>1. 0 \in 0..(BlockSize - 1)
        BY Sizes
    <2>2. 0 \in 0..MaxWrites /\ 0 \in 0..MaxReads /\ 0 \in 0..MaxHandshakes
        BY Sizes
    <2> QED
        BY <2>1, <2>2 DEF Init
<1>5. TypeOK
    BY <1>2, <1>3, <1>4 DEF TypeOK, Call
<1>6. CallInv(Idle)
    BY Sizes DEF Idle, CallInv, Placed, Writing, Fetched, Reading, Pointed
<1>7. MainReads /\ FlagRead /\ HandshakeTrue
    BY <1>2 DEF Thread, Idle, MainReads, FlagRead, HandshakeTrue
<1> QED
    BY <1>2, <1>5, <1>6, <1>7 DEF IInv

(* A call that begins. *)
LEMMA Begun ==
    ASSUME IInv, NEW t \in Thread, NEW pc \in {"write", "address"}, NEW len \in 1..MaxLen,
           NEW addr \in 0..(Size - len), NEW buf \in Seq(Value \ {Unread}),
           NEW handshake \in BOOLEAN,
           Calls(t, pc, addr, len, buf, handshake), pointer' = pointer,
           pc = "write" => Len(buf) = len, pc = "address" => buf = <<>>
    PROVE  /\ thread' \in [Thread -> Call]
           /\ \A u \in Thread : CallInv(thread[u])'
           /\ thread[t].pc = "idle"
           /\ thread'[t] = [pc |-> pc, mem_addr |-> addr, len |-> len, buf |-> buf,
                            addr |-> addr, asked |-> len, want |-> <<>>,
                            handshake |-> handshake, disturbed |-> FALSE]
           /\ \A u \in Thread \ {t} : thread'[u] = thread[u]
<1> DEFINE new == [pc |-> pc, mem_addr |-> addr, len |-> len, buf |-> buf,
                   addr |-> addr, asked |-> len, want |-> <<>>,
                   handshake |-> handshake, disturbed |-> FALSE]
<1>1. thread \in [Thread -> Call]
    BY Calling DEF IInv
<1>2. addr \in Cell /\ len \in 0..MaxLen /\ addr + len <= Size
    BY Sizes
<1>3. buf \in Seq(Value)
    OBVIOUS
<1>4. new \in Call
    BY <1>2, <1>3 DEF Call, Pc
<1>5. thread' = [thread EXCEPT ![t] = new] /\ thread[t].pc = "idle"
    BY DEF Calls
<1>6. CallInv(new)'
    BY <1>2, Sizes DEF CallInv, Placed, Writing, Fetched, Reading, Pointed
<1>7. ASSUME NEW u \in Thread \ {t} PROVE thread'[u] = thread[u] /\ CallInv(thread[u])'
    <2>1. thread'[u] = thread[u]
        BY <1>1, <1>5
    <2>2. CallInv(thread[u])
        BY DEF IInv
    <2> QED
        BY <2>1, <2>2 DEF CallInv, Placed, Writing, Fetched, Reading, Pointed
<1>8. thread'[t] = new
    BY <1>1, <1>5
<1> QED
    BY <1>1, <1>4, <1>5, <1>6, <1>7, <1>8 DEF CallInv, Placed, Writing, Fetched, Reading, Pointed

LEMMA BeginKeeps ==
    ASSUME IInv, EepromWrite \/ EepromRead \/ V3_handle_handshake
    PROVE  IInv'
<1> DEFINE Same == UNCHANGED <<mem, pointer, cycle, told>>
<1>0. /\ TypeOK /\ MainReads /\ FlagRead /\ HandshakeTrue
      /\ "bluetooth" \in Thread /\ "main" \in Thread /\ "main" # "bluetooth"
      /\ FALSE \in BOOLEAN
    BY DEF IInv, Thread
<1>4. ops \in [write : 0..MaxWrites, read : 0..MaxReads, handshake : 0..MaxHandshakes]
    BY <1>0 DEF TypeOK
<1>1. CASE EepromWrite
    <2>1. PICK len \in 1..MaxLen : \E addr \in 0..(Size - len) :
             /\ Calls("bluetooth", "write", addr, len, Data(len), FALSE)
             /\ meant' = [c \in Cell |->
                           IF c \in addr..(addr + len - 1) THEN Data(len)[c - addr + 1]
                           ELSE meant[c]]
             /\ Same
        BY <1>1 DEF EepromWrite
    <2>0. PICK addr \in 0..(Size - len) :
             /\ Calls("bluetooth", "write", addr, len, Data(len), FALSE)
             /\ meant' = [c \in Cell |->
                           IF c \in addr..(addr + len - 1) THEN Data(len)[c - addr + 1]
                           ELSE meant[c]]
             /\ Same
        BY <2>1
    <2>2. /\ Data(len) \in Seq(Value \ {Unread}) /\ Len(Data(len)) = len
          /\ \A i \in 1..len : Data(len)[i] \in Value
        BY Sizes DEF Data, Value, Unread
    <2>3. /\ thread' \in [Thread -> Call]
          /\ \A u \in Thread : CallInv(thread[u])'
          /\ thread'["bluetooth"].pc = "write" /\ ~thread'["bluetooth"].handshake
          /\ thread'["main"] = thread["main"]
        <3>1. pointer' = pointer
            BY <2>0
        <3>2. /\ thread' \in [Thread -> Call]
              /\ \A u \in Thread : CallInv(thread[u])'
              /\ thread'["bluetooth"] =
                   [pc |-> "write", mem_addr |-> addr, len |-> len, buf |-> Data(len),
                    addr |-> addr, asked |-> len, want |-> <<>>,
                    handshake |-> FALSE, disturbed |-> FALSE]
              /\ \A u \in Thread \ {"bluetooth"} : thread'[u] = thread[u]
            BY <1>0, <2>0, <2>2, <3>1, Begun
        <3> QED
            BY <1>0, <3>2 DEF Thread
    <2>4. meant' \in [Cell -> Value]
        <3>1. ASSUME NEW c \in Cell, c \in addr..(addr + len - 1)
              PROVE  Data(len)[c - addr + 1] \in Value
            <4>1. c - addr + 1 \in 1..len
                BY <3>1, Sizes
            <4> QED
                BY <2>2, <4>1
        <3>2. \A c \in Cell : meant[c] \in Value
            BY <1>0 DEF TypeOK
        <3> QED
            BY <2>0, <3>1, <3>2
    <2>5. ops' \in [write : 0..MaxWrites, read : 0..MaxReads, handshake : 0..MaxHandshakes]
        <3>1. ops.write < MaxWrites /\ ops' = [ops EXCEPT !.write = @ + 1]
            BY <1>1 DEF EepromWrite
        <3>2. ops.write + 1 \in 0..MaxWrites
            <4>1. MaxWrites \in Nat /\ ops.write \in 0..MaxWrites
                BY <1>4, Sizes
            <4> QED
                BY <3>1, <4>1
        <3> QED
            BY <1>4, <3>1, <3>2
    <2>6. TypeOK'
        BY <1>0, <2>0, <2>3, <2>4, <2>5 DEF TypeOK, Call
    <2>7. MainReads' /\ FlagRead' /\ HandshakeTrue'
        BY <1>0, <2>3 DEF MainReads, FlagRead, HandshakeTrue
    <2> QED
        BY <2>3, <2>6, <2>7 DEF IInv
<1>2. CASE EepromRead
    <2>1. PICK len \in 1..MaxLen : \E addr \in 0..(Size - len) :
             Calls("main", "address", addr, len, <<>>, FALSE) /\ Same /\ meant' = meant
        BY <1>2 DEF EepromRead
    <2>0. PICK addr \in 0..(Size - len) :
             Calls("main", "address", addr, len, <<>>, FALSE) /\ Same /\ meant' = meant
        BY <2>1
    <2>2. <<>> \in Seq(Value \ {Unread})
        OBVIOUS
    <2>3. /\ thread' \in [Thread -> Call]
          /\ \A u \in Thread : CallInv(thread[u])'
          /\ thread'["main"].pc = "address" /\ ~thread'["main"].handshake
          /\ thread'["bluetooth"] = thread["bluetooth"]
        <3>1. pointer' = pointer
            BY <2>0
        <3>2. /\ thread' \in [Thread -> Call]
              /\ \A u \in Thread : CallInv(thread[u])'
              /\ thread'["main"] =
                   [pc |-> "address", mem_addr |-> addr, len |-> len, buf |-> <<>>,
                    addr |-> addr, asked |-> len, want |-> <<>>,
                    handshake |-> FALSE, disturbed |-> FALSE]
              /\ \A u \in Thread \ {"main"} : thread'[u] = thread[u]
            BY <1>0, <2>0, <2>2, <3>1, Begun
        <3> QED
            BY <1>0, <3>2 DEF Thread
    <2>5. ops' \in [write : 0..MaxWrites, read : 0..MaxReads, handshake : 0..MaxHandshakes]
        <3>1. ops.read < MaxReads /\ ops' = [ops EXCEPT !.read = @ + 1]
            BY <1>2 DEF EepromRead
        <3>2. ops.read + 1 \in 0..MaxReads
            <4>1. MaxReads \in Nat /\ ops.read \in 0..MaxReads
                BY <1>4, Sizes
            <4> QED
                BY <3>1, <4>1
        <3> QED
            BY <1>4, <3>1, <3>2
    <2>6. TypeOK'
        BY <1>0, <2>0, <2>3, <2>5 DEF TypeOK, Call
    <2>7. MainReads' /\ FlagRead' /\ HandshakeTrue'
        BY <1>0, <2>0, <2>3 DEF MainReads, FlagRead, HandshakeTrue
    <2> QED
        BY <2>3, <2>6, <2>7 DEF IInv
<1>3. CASE V3_handle_handshake
    <2>1. /\ Calls("bluetooth", "address", FlagAddr, 1, <<>>, TRUE)
          /\ Same /\ meant' = meant
        BY <1>3 DEF V3_handle_handshake
    <2>2. <<>> \in Seq(Value \ {Unread})
        OBVIOUS
    <2>4. PICK len \in 1..MaxLen : len = 1
        BY Sizes
    <2>0. PICK addr \in 0..(Size - len) : addr = FlagAddr
        BY <2>4, Sizes
    <2>8. Calls("bluetooth", "address", addr, len, <<>>, TRUE)
        BY <2>0, <2>1, <2>4
    <2>3. /\ thread' \in [Thread -> Call]
          /\ \A u \in Thread : CallInv(thread[u])'
          /\ thread'["bluetooth"] =
               [pc |-> "address", mem_addr |-> FlagAddr, len |-> 1, buf |-> <<>>,
                addr |-> FlagAddr, asked |-> 1, want |-> <<>>,
                handshake |-> TRUE, disturbed |-> FALSE]
          /\ thread'["main"] = thread["main"]
        <3>1. pointer' = pointer /\ TRUE \in BOOLEAN
            BY <2>1
        <3>2. /\ thread' \in [Thread -> Call]
              /\ \A u \in Thread : CallInv(thread[u])'
              /\ thread'["bluetooth"] =
                   [pc |-> "address", mem_addr |-> addr, len |-> len, buf |-> <<>>,
                    addr |-> addr, asked |-> len, want |-> <<>>,
                    handshake |-> TRUE, disturbed |-> FALSE]
              /\ \A u \in Thread \ {"bluetooth"} : thread'[u] = thread[u]
            BY <1>0, <2>8, <2>2, <3>1, Begun
        <3> QED
            BY <1>0, <2>0, <2>4, <3>2
    <2>5. ops' \in [write : 0..MaxWrites, read : 0..MaxReads, handshake : 0..MaxHandshakes]
        <3>1. ops.handshake < MaxHandshakes /\ ops' = [ops EXCEPT !.handshake = @ + 1]
            BY <1>3 DEF V3_handle_handshake
        <3>2. ops.handshake + 1 \in 0..MaxHandshakes
            <4>1. MaxHandshakes \in Nat /\ ops.handshake \in 0..MaxHandshakes
                BY <1>4, Sizes
            <4> QED
                BY <3>1, <4>1
        <3> QED
            BY <1>4, <3>1, <3>2
    <2>6. TypeOK'
        BY <1>0, <2>1, <2>3, <2>5 DEF TypeOK, Call
    <2>7. MainReads' /\ FlagRead' /\ HandshakeTrue'
        BY <1>0, <2>3 DEF MainReads, FlagRead, HandshakeTrue
    <2> QED
        BY <2>3, <2>6, <2>7 DEF IInv
<1> QED
    BY <1>1, <1>2, <1>3

(* A call as it was, but for the mark. *)
Kept(u) ==
    /\ thread'[u].pc = thread[u].pc /\ thread'[u].mem_addr = thread[u].mem_addr
    /\ thread'[u].len = thread[u].len /\ thread'[u].buf = thread[u].buf
    /\ thread'[u].handshake = thread[u].handshake
    /\ thread[u].disturbed => thread'[u].disturbed

(* A transfer marks the other thread's read, if that is between its two. *)
LEMMA Transferred ==
    ASSUME IInv, NEW t \in Thread, NEW new \in Call,
           thread' = [Disturbing(t) EXCEPT ![t] = new]
    PROVE  /\ thread' \in [Thread -> Call]
           /\ thread'[t] = new
           /\ \A u \in Thread \ {t} : Kept(u) /\ CallInv(thread[u])'
<1>1. thread \in [Thread -> Call]
    BY Calling DEF IInv
<1>2. ASSUME NEW c \in Call
      PROVE  [c EXCEPT !.disturbed = TRUE] \in Call
    BY DEF Call
<1>3. Disturbing(t) \in [Thread -> Call]
    BY <1>1, <1>2 DEF Disturbing
<1>4. ASSUME NEW u \in Thread \ {t}
      PROVE  Kept(u) /\ CallInv(thread[u])'
    <2>1. thread'[u] = IF thread[u].pc = "data" THEN [thread[u] EXCEPT !.disturbed = TRUE]
                       ELSE thread[u]
        BY <1>3 DEF Disturbing
    <2>2. CallInv(thread[u]) /\ thread[u] \in Call
        BY <1>1 DEF IInv
    <2>3. CASE thread[u].pc = "data"
        <3>1. /\ thread'[u].disturbed = TRUE
              /\ thread'[u].pc = thread[u].pc /\ thread'[u].mem_addr = thread[u].mem_addr
              /\ thread'[u].len = thread[u].len /\ thread'[u].want = thread[u].want
              /\ thread'[u].addr = thread[u].addr /\ thread'[u].asked = thread[u].asked
              /\ thread'[u].buf = thread[u].buf /\ thread'[u].handshake = thread[u].handshake
            BY <2>1, <2>2, <2>3 DEF Call
        <3>2. CallInv(thread[u])'
            BY <2>2, <2>3, <3>1 DEF CallInv, Placed, Writing, Fetched, Reading, Pointed
        <3> QED
            BY <3>1, <3>2 DEF Kept
    <2>4. CASE thread[u].pc # "data"
        <3>1. thread'[u] = thread[u]
            BY <2>1, <2>4
        <3>2. CallInv(thread[u])'
            BY <2>2, <2>4, <3>1 DEF CallInv, Placed, Writing, Fetched, Reading, Pointed
        <3> QED
            BY <3>1, <3>2 DEF Kept
    <2> QED
        BY <2>3, <2>4
<1> QED
    BY <1>3, <1>4

(* Only the Bluetooth thread writes. *)
LEMMA WriterIsBluetooth ==
    ASSUME IInv, NEW t \in Thread, thread[t].pc \in {"write", "sleep"}
    PROVE  t = "bluetooth" /\ ~thread[t].handshake
BY DEF IInv, MainReads, FlagRead, Thread

(* What a piece of a write programs are values. *)
LEMMA ProgrammedType ==
    ASSUME mem \in [Cell -> Value \ {Unread}], NEW block \in Int, NEW word \in Int,
           NEW bytes \in Seq(Value \ {Unread})
    PROVE  Programmed(block, word, bytes) \in [Cell -> Value \ {Unread}]
<1> DEFINE first == block * BlockSize + word
<1>1. first \in Int
    BY Sizes
<1>2. ASSUME NEW c \in Cell, (c - first) % ChipPage < Len(bytes)
      PROVE  bytes[((c - first) % ChipPage) + 1] \in Value \ {Unread}
    <2>1. c - first \in Int
        BY <1>1, Sizes
    <2>2. PICK r \in 0..(ChipPage - 1) : (c - first) % ChipPage = r
        BY <2>1, Sizes, Division
    <2>3. r + 1 \in 1..Len(bytes)
        BY <1>2, <2>2, Sizes
    <2> QED
        BY <2>2, <2>3
<1> QED
    BY <1>2 DEF Programmed

LEMMA WriteKeeps ==
    ASSUME IInv, NEW t \in Thread, I2c_eeprom_write(t)
    PROVE  IInv'
<1> DEFINE c == thread[t]
           new == [c EXCEPT !.pc = "sleep"]
           chunk == WriteChunk(c)
<1>1. TypeOK /\ c \in Call /\ c.pc = "write" /\ CallInv(c)
    BY Calling DEF IInv, I2c_eeprom_write
<1>2. t = "bluetooth" /\ ~c.handshake
    BY <1>1, WriterIsBluetooth
<1>3. new \in Call
    BY <1>1 DEF Call, Pc
<1>4. thread' = [Disturbing(t) EXCEPT ![t] = new]
    <2>1. Disturbing(t)[t] = thread[t]
        BY DEF Disturbing
    <2>2. thread' = [Disturbing(t) EXCEPT ![t].pc = "sleep"]
        BY DEF I2c_eeprom_write
    <2> QED
        BY <2>1, <2>2
<1>5. /\ new.pc = "sleep" /\ new.mem_addr = c.mem_addr /\ new.len = c.len /\ new.buf = c.buf
      /\ new.want = c.want /\ new.handshake = c.handshake
    BY <1>1 DEF Call
<1>6. /\ thread' \in [Thread -> Call] /\ thread'[t] = new
      /\ \A u \in Thread \ {t} : Kept(u) /\ CallInv(thread[u])'
    BY <1>3, <1>4, Transferred
<1>7. CallInv(thread[t])'
    BY <1>1, <1>5, <1>6 DEF CallInv, Placed, Writing, Fetched, Reading, Pointed
<1>8. \A u \in Thread : CallInv(thread[u])'
    <2>1. ASSUME NEW u \in Thread PROVE CallInv(thread[u])'
        <3>1. CASE u = t
            BY <1>7, <3>1
        <3>2. CASE u # t
            BY <1>6, <3>2
        <3> QED
            BY <3>1, <3>2
    <2> QED
        BY <2>1
<1>9. mem' \in [Cell -> Value \ {Unread}] /\ pointer' \in 0..(BlockSize - 1) /\ cycle' \in BOOLEAN
    <2>1. chunk \in 1..c.len
        BY <1>1, WritePiece DEF CallInv, Placed
    <2>2. SubSeq(c.buf, 1, chunk) \in Seq(Value \ {Unread})
        BY <1>1, <2>1 DEF CallInv, Writing
    <2>3. c.mem_addr \in Int /\ c.mem_addr \in Cell /\ c.mem_addr + chunk \in Int
        BY <1>1, <2>1, Sizes DEF CallInv, Placed, Call
    <2>4. eeprom_i2c_addr(c.mem_addr) \in Int /\ Word(c.mem_addr) \in Int
        BY <2>3, Addressing, Sizes
    <2>5. Programmed(eeprom_i2c_addr(c.mem_addr), Word(c.mem_addr), SubSeq(c.buf, 1, chunk))
             \in [Cell -> Value \ {Unread}]
        BY <1>1, <2>2, <2>4, ProgrammedType DEF TypeOK
    <2>6. Word(c.mem_addr + chunk) \in 0..(BlockSize - 1)
        BY <2>3, WordInBlock
    <2>7. CASE cycle
        BY <1>1, <2>7 DEF TypeOK, I2c_eeprom_write
    <2>8. CASE ~cycle
        BY <2>5, <2>6, <2>8 DEF I2c_eeprom_write
    <2> QED
        BY <2>7, <2>8
<1>10. TypeOK'
    BY <1>1, <1>6, <1>9 DEF TypeOK, Call, I2c_eeprom_write
<1>11. MainReads'
    BY <1>2, <1>6 DEF IInv, MainReads, Kept, Thread
<1>12. FlagRead' /\ HandshakeTrue'
    BY <1>2, <1>5, <1>6 DEF FlagRead, HandshakeTrue
<1> QED
    BY <1>8, <1>10, <1>11, <1>12 DEF IInv

LEMMA WokenKeeps ==
    ASSUME IInv, NEW t \in Thread, Woken(t)
    PROVE  IInv'
<1> DEFINE c == thread[t]
           chunk == WriteChunk(c)
           new == [c EXCEPT !.buf = SubSeq(@, chunk + 1, Len(@)),
                            !.mem_addr = @ + chunk,
                            !.len = @ - chunk,
                            !.pc = IF c.len = chunk THEN "idle" ELSE "write"]
<1>1. TypeOK /\ c \in Call /\ c.pc = "sleep" /\ CallInv(c)
    BY Calling DEF IInv, Woken
<1>2. t = "bluetooth" /\ ~c.handshake
    BY <1>1, WriterIsBluetooth
<1>3. chunk \in 1..c.len /\ c.len \in 1..MaxLen /\ c.mem_addr \in Cell
      /\ c.mem_addr + c.len <= Size
    <2>1. c.len > 0 /\ c.mem_addr + c.len <= Size
        BY <1>1 DEF CallInv, Placed
    <2>2. c.len \in 0..MaxLen /\ c.mem_addr \in 0..Size
        BY <1>1, Sizes DEF Call
    <2>3. chunk \in 1..c.len
        BY <1>1, <2>1, WritePiece
    <2> QED
        BY <2>1, <2>2, <2>3, Sizes
<1>4. /\ Len(c.buf) = c.len /\ c.buf \in Seq(Value \ {Unread}) /\ c.want = <<>>
    BY <1>1 DEF CallInv, Writing
<1>5. /\ SubSeq(c.buf, chunk + 1, Len(c.buf)) \in Seq(Value \ {Unread})
      /\ SubSeq(c.buf, chunk + 1, Len(c.buf)) \in Seq(Value)
      /\ Len(SubSeq(c.buf, chunk + 1, Len(c.buf))) = c.len - chunk
    <2> DEFINE rest == SubSeq(c.buf, chunk + 1, Len(c.buf))
    <2>1. chunk \in Nat /\ Len(c.buf) \in Nat /\ chunk <= Len(c.buf)
        BY <1>3, <1>4, Sizes
    <2>2. rest \in Seq(Value \ {Unread}) /\ Len(rest) = Len(c.buf) - chunk
        BY <1>4, <2>1
    <2>3. rest \in Seq(Value)
        BY <2>2
    <2> QED
        BY <1>4, <2>2, <2>3
<1>6. /\ c.mem_addr + chunk \in Cell \cup {Size} /\ c.len - chunk \in 0..MaxLen
      /\ (c.mem_addr + chunk) + (c.len - chunk) <= Size
      /\ c.len # chunk => c.len - chunk > 0
    BY <1>3, Sizes
<1>7. /\ new \in Call
      /\ new.pc = (IF c.len = chunk THEN "idle" ELSE "write")
      /\ new.mem_addr = c.mem_addr + chunk /\ new.len = c.len - chunk
      /\ new.buf = SubSeq(c.buf, chunk + 1, Len(c.buf))
      /\ new.want = <<>> /\ new.handshake = c.handshake
    BY <1>1, <1>4, <1>5, <1>6 DEF Call, Pc
<1>8. /\ thread' = [thread EXCEPT ![t] = new]
      /\ UNCHANGED <<mem, pointer, cycle, told, meant, ops>>
    <2>1. thread' = [thread EXCEPT ![t] = new]
        BY DEF Woken
    <2>2. UNCHANGED <<mem, pointer, cycle, told, meant, ops>>
        BY DEF Woken
    <2> QED
        BY <2>1, <2>2
<1>9. /\ thread' \in [Thread -> Call] /\ thread'[t] = new
      /\ \A u \in Thread \ {t} : thread'[u] = thread[u]
    BY <1>7, <1>8, Calling DEF IInv
<1>10. CallInv(thread[t])'
    <2>1. /\ thread'[t].pc \in {"idle", "write"}
          /\ thread'[t].mem_addr + thread'[t].len <= Size
          /\ thread'[t].pc # "idle" => thread'[t].len > 0
          /\ thread'[t].want = <<>>
          /\ Len(thread'[t].buf) = thread'[t].len
          /\ thread'[t].buf \in Seq(Value \ {Unread})
        BY <1>5, <1>6, <1>7, <1>9
    <2> QED
        BY <2>1 DEF CallInv, Placed, Writing, Fetched, Reading, Pointed
<1>11. \A u \in Thread \ {t} : CallInv(thread[u])'
    BY <1>8, <1>9 DEF IInv, CallInv, Placed, Writing, Fetched, Reading, Pointed
<1>12. TypeOK'
    BY <1>1, <1>8, <1>9 DEF TypeOK, Call
<1>13. MainReads' /\ FlagRead' /\ HandshakeTrue'
    BY <1>2, <1>7, <1>9 DEF IInv, MainReads, FlagRead, HandshakeTrue, Thread
<1> QED
    BY <1>10, <1>11, <1>12, <1>13 DEF IInv

LEMMA AddressKeeps ==
    ASSUME IInv, NEW t \in Thread, I2c_eeprom_read_address(t)
    PROVE  IInv'
<1> DEFINE c == thread[t]
           new == [c EXCEPT !.pc = "data", !.disturbed = @ \/ cycle]
<1>1. TypeOK /\ c \in Call /\ c.pc = "address" /\ CallInv(c)
    BY Calling DEF IInv, I2c_eeprom_read_address
<1>2. new \in Call
    BY <1>1 DEF Call, Pc, TypeOK
<1>3. /\ new.pc = "data" /\ new.mem_addr = c.mem_addr /\ new.len = c.len /\ new.buf = c.buf
      /\ new.want = c.want /\ new.addr = c.addr /\ new.asked = c.asked
      /\ new.handshake = c.handshake /\ (~new.disturbed => ~c.disturbed /\ ~cycle)
    BY <1>1 DEF Call
<1>4. thread' = [Disturbing(t) EXCEPT ![t] = new]
    <2>1. Disturbing(t)[t] = thread[t] /\ t \in DOMAIN Disturbing(t)
        BY DEF Disturbing
    <2>2. thread' = [Disturbing(t) EXCEPT ![t].pc = "data", ![t].disturbed = @ \/ cycle]
        BY DEF I2c_eeprom_read_address
    <2> QED
        BY <1>1, <2>1, <2>2 DEF Call
<1>5. /\ thread' \in [Thread -> Call] /\ thread'[t] = new
      /\ \A u \in Thread \ {t} : Kept(u) /\ CallInv(thread[u])'
    BY <1>2, <1>4, Transferred
<1>6. c.mem_addr \in Int
    BY <1>1, Sizes DEF Call
<1>7. /\ pointer' = (IF cycle THEN pointer ELSE Word(c.mem_addr))
      /\ UNCHANGED <<mem, cycle, told, meant, ops>>
    BY DEF I2c_eeprom_read_address
<1>8. CallInv(thread[t])'
    BY <1>1, <1>3, <1>5, <1>7 DEF CallInv, Placed, Writing, Fetched, Reading, Pointed
<1>9. \A u \in Thread : CallInv(thread[u])'
    <2>1. ASSUME NEW u \in Thread PROVE CallInv(thread[u])'
        <3>1. CASE u = t
            BY <1>8, <3>1
        <3>2. CASE u # t
            BY <1>5, <3>2
        <3> QED
            BY <3>1, <3>2
    <2> QED
        BY <2>1
<1>10. TypeOK'
    <2>1. pointer' \in 0..(BlockSize - 1)
        BY <1>1, <1>6, <1>7, WordInBlock DEF TypeOK
    <2> QED
        BY <1>1, <1>5, <1>7, <2>1 DEF TypeOK, Call
<1>11. MainReads' /\ FlagRead' /\ HandshakeTrue'
    <2>1. CASE t = "main"
        <3>1. Kept("bluetooth")
            BY <1>5, <2>1 DEF Thread
        <3>2. MainReads'
            BY <1>3, <1>5, <2>1 DEF IInv, MainReads
        <3>3. FlagRead'
            BY <3>1 DEF IInv, FlagRead, Kept
        <3>4. HandshakeTrue'
            BY <1>7, <3>1 DEF IInv, HandshakeTrue, Kept
        <3> QED
            BY <3>2, <3>3, <3>4
    <2>2. CASE t = "bluetooth"
        <3>1. MainReads'
            BY <1>5, <2>2 DEF IInv, MainReads, Kept, Thread
        <3>2. FlagRead'
            BY <1>1, <1>3, <1>5, <2>2 DEF IInv, FlagRead
        <3>3. HandshakeTrue'
            BY <1>3, <1>5, <2>2 DEF HandshakeTrue
        <3> QED
            BY <3>1, <3>2, <3>3
    <2> QED
        BY <2>1, <2>2 DEF Thread
<1> QED
    BY <1>9, <1>10, <1>11 DEF IInv

(* A read c goes on with a piece; the cells were wanted. *)
ReadOn(c, chunk, bytes, wanted) ==
    [c EXCEPT !.buf = c.buf \o bytes, !.want = c.want \o wanted,
              !.mem_addr = c.mem_addr + chunk, !.len = c.len - chunk,
              !.disturbed = c.disturbed \/ cycle,
              !.pc = IF c.len = chunk THEN "idle" ELSE "address"]

(* The piece a read takes: an undisturbed one is the one it wants. *)
LEMMA PieceRead ==
    ASSUME IInv, NEW t \in Thread, I2c_eeprom_read_data(t)
    PROVE  \E chunk \in 1..thread[t].len, bytes, wanted \in Seq(Value) :
             /\ Len(bytes) = chunk /\ Len(wanted) = chunk
             /\ \A i \in 1..chunk : wanted[i] = mem[thread[t].mem_addr + i - 1]
             /\ (~thread[t].disturbed /\ ~cycle) => bytes = wanted
             /\ pointer' = IF cycle THEN pointer ELSE (pointer + chunk) % BlockSize
             /\ thread' = [Disturbing(t) EXCEPT ![t] =
                              ReadOn(thread[t], chunk, bytes, wanted)]
             /\ told' = IF thread[t].handshake
                        THEN V3_build_handshake_reply(thread[t].buf \o bytes) ELSE told
<1> DEFINE c == thread[t]
           chunk == ReadChunk(c)
           bytes == IF cycle THEN [i \in 1..chunk |-> Unread]
                    ELSE SequentialRead(eeprom_i2c_addr(c.mem_addr), chunk)
           first == c.addr + Len(c.want)
           wanted == [i \in 1..chunk |-> mem[first + i - 1]]
<1>1. TypeOK /\ c \in Call /\ c.pc = "data" /\ CallInv(c)
    BY Calling DEF IInv, I2c_eeprom_read_data
<1>2. c.len > 0 /\ c.mem_addr + c.len <= Size /\ first = c.mem_addr
    BY <1>1 DEF CallInv, Placed, Fetched, Reading
<1>3. chunk \in 1..c.len /\ Word(c.mem_addr) + chunk <= BlockSize
    BY <1>1, <1>2, ReadPiece
<1>4. c.mem_addr \in Cell /\ c.len \in Nat /\ chunk \in Nat
    <2>1. c.mem_addr \in 0..Size /\ c.len \in Nat
        BY <1>1, Sizes DEF Call
    <2>2. chunk \in Nat
        BY <1>3, <2>1
    <2> QED
        BY <1>2, <2>1, <2>2, Sizes
<1>5. \A i \in 1..chunk : c.mem_addr + i - 1 \in Cell
    <2>1. TAKE i \in 1..chunk
    <2>2. i \in Nat /\ 1 <= i /\ i <= c.len
        BY <1>3, <1>4
    <2>3. c.mem_addr \in Nat
        BY <1>4, Sizes
    <2> QED
        BY <1>2, <1>4, <2>2, <2>3, Sizes
<1>6. mem \in [Cell -> Value] /\ Unread \in Value
    <2>1. Unread \in Nat
        BY Sizes DEF Unread
    <2>2. Unread \in Value
        BY <2>1 DEF Value
    <2>3. mem \in [Cell -> Value \ {Unread}]
        BY <1>1 DEF TypeOK
    <2> QED
        BY <2>2, <2>3
<1>7. /\ wanted \in Seq(Value) /\ Len(wanted) = chunk
      /\ \A i \in 1..chunk : wanted[i] = mem[c.mem_addr + i - 1]
    <2>1. wanted \in [1..chunk -> Value]
        BY <1>2, <1>5, <1>6
    <2> QED
        <3>1. wanted \in Seq(Value) /\ Len(wanted) = chunk
            BY <1>4, <2>1
        <3>2. \A i \in 1..chunk : wanted[i] = mem[c.mem_addr + i - 1]
            BY <1>2
        <3> QED
            BY <3>1, <3>2
<1>8. bytes \in Seq(Value) /\ Len(bytes) = chunk
    <2>1. bytes \in [1..chunk -> Value]
        <3>1. CASE cycle
            BY <1>6, <3>1
        <3>2. CASE ~cycle
            <4>1. \A i \in 1..chunk : eeprom_i2c_addr(c.mem_addr) * BlockSize
                                        + ((pointer + i - 1) % BlockSize) \in Cell
                <5>1. TAKE i \in 1..chunk
                <5>2. pointer + i - 1 \in Int
                    BY <1>1, <1>4, Sizes DEF TypeOK
                <5>3. PICK r \in 0..(BlockSize - 1) : (pointer + i - 1) % BlockSize = r
                    BY <5>2, Sizes, Division
                <5>4. eeprom_i2c_addr(c.mem_addr) = 0 \/ eeprom_i2c_addr(c.mem_addr) = 1
                    BY <1>4, Addressing
                <5>5. 0 * BlockSize = 0 /\ 1 * BlockSize = BlockSize
                    BY Sizes
                <5> QED
                    BY <5>3, <5>4, <5>5, Sizes
            <4> QED
                BY <1>6, <3>2, <4>1 DEF SequentialRead
        <3> QED
            BY <3>1, <3>2
    <2> QED
        BY <1>4, <2>1
<1>9. (~c.disturbed /\ ~cycle) => bytes = wanted
    <2>1. SUFFICES ASSUME ~c.disturbed, ~cycle PROVE bytes = wanted
        OBVIOUS
    <2>2. pointer = Word(c.mem_addr)
        BY <1>1, <2>1 DEF CallInv, Pointed
    <2>3. SequentialRead(eeprom_i2c_addr(c.mem_addr), chunk)
            = [i \in 1..chunk |-> mem[c.mem_addr + i - 1]]
        BY <1>3, <1>4, <2>2, ReadsOn
    <2> QED
        BY <1>2, <2>1, <2>3
<1>10. /\ pointer' = IF cycle THEN pointer ELSE (pointer + chunk) % BlockSize
       /\ told' = IF c.handshake THEN V3_build_handshake_reply(c.buf \o bytes) ELSE told
    BY DEF I2c_eeprom_read_data
<1>11. thread' = [Disturbing(t) EXCEPT ![t] = ReadOn(c, chunk, bytes, wanted)]
    BY DEF I2c_eeprom_read_data, ReadOn
<1> HIDE DEF chunk, bytes, wanted
<1> QED
    BY <1>3, <1>7, <1>8, <1>9, <1>10, <1>11

LEMMA Longer ==
    ASSUME NEW S, NEW s \in Seq(S), NEW r \in Seq(S)
    PROVE  Len(s \o r) = Len(s) + Len(r)
OBVIOUS

LEMMA DataKeeps ==
    ASSUME IInv, NEW t \in Thread, I2c_eeprom_read_data(t)
    PROVE  IInv'
<1> DEFINE c == thread[t]
<1>1. TypeOK /\ c \in Call /\ c.pc = "data" /\ CallInv(c)
    BY Calling DEF IInv, I2c_eeprom_read_data
<1>2. PICK chunk \in 1..c.len, bytes, wanted \in Seq(Value) :
         /\ Len(bytes) = chunk /\ Len(wanted) = chunk
         /\ \A i \in 1..chunk : wanted[i] = mem[c.mem_addr + i - 1]
         /\ (~c.disturbed /\ ~cycle) => bytes = wanted
         /\ pointer' = IF cycle THEN pointer ELSE (pointer + chunk) % BlockSize
         /\ thread' = [Disturbing(t) EXCEPT ![t] = ReadOn(c, chunk, bytes, wanted)]
         /\ told' = IF c.handshake THEN V3_build_handshake_reply(c.buf \o bytes) ELSE told
    BY PieceRead
<1> DEFINE new == ReadOn(c, chunk, bytes, wanted)
<1>3. c.len > 0 /\ c.mem_addr + c.len <= Size /\ c.mem_addr \in 0..Size /\ c.len \in 0..MaxLen
      /\ Len(c.want) + c.len = c.asked /\ c.mem_addr = c.addr + Len(c.want)
      /\ c.addr \in Nat /\ c.asked \in Nat
    BY <1>1, Sizes DEF CallInv, Placed, Fetched, Reading, Call
<1>4. /\ c.mem_addr + chunk \in Cell \cup {Size} /\ c.len - chunk \in 0..MaxLen
      /\ (c.mem_addr + chunk) + (c.len - chunk) <= Size
      /\ c.len # chunk => c.len - chunk > 0
    <2>1. chunk \in Nat /\ 1 <= chunk /\ chunk <= c.len /\ c.len \in Nat /\ c.len <= MaxLen
        BY <1>2, <1>3, Sizes
    <2>2. c.mem_addr + chunk \in Cell \cup {Size}
        <3>1. c.mem_addr \in Nat /\ c.mem_addr + chunk <= Size
            BY <1>3, <2>1, Sizes
        <3>2. c.mem_addr + chunk \in 0..Size
            BY <2>1, <3>1, Sizes
        <3> QED
            BY <3>2, Sizes
    <2>3. c.len - chunk \in 0..MaxLen
        BY <2>1, Sizes
    <2>4. (c.mem_addr + chunk) + (c.len - chunk) <= Size
        BY <1>3, <2>1, Sizes
    <2> QED
        BY <2>1, <2>2, <2>3, <2>4
<1>5. /\ c.buf \o bytes \in Seq(Value) /\ c.want \o wanted \in Seq(Value)
      /\ Len(c.want \o wanted) = Len(c.want) + chunk
      /\ c.want \o wanted # <<>>
    <2>1. c.buf \in Seq(Value) /\ c.want \in Seq(Value)
        BY <1>1 DEF Call
    <2>2. Len(c.want \o wanted) = Len(c.want) + chunk
        <3>1. wanted \in Seq(Value) /\ Len(wanted) = chunk
            BY <1>2
        <3> QED
            BY <2>1, <3>1, Longer
    <2>3. Len(c.want) \in Nat /\ chunk \in Nat /\ chunk > 0
        BY <1>2, <1>3, <2>1
    <2>4. Len(c.want \o wanted) # 0
        BY <2>2, <2>3
    <2>5. Len(<<>>) = 0
        OBVIOUS
    <2> QED
        BY <1>2, <2>1, <2>2, <2>4, <2>5
<1>6. c.disturbed \/ cycle \in BOOLEAN
    BY <1>1 DEF Call, TypeOK
<1>7. new \in Call
    BY <1>1, <1>4, <1>5, <1>6 DEF Call, Pc, ReadOn
<1>8. /\ new.pc = (IF c.len = chunk THEN "idle" ELSE "address")
      /\ new.mem_addr = c.mem_addr + chunk /\ new.len = c.len - chunk
      /\ new.buf = c.buf \o bytes /\ new.want = c.want \o wanted
      /\ new.addr = c.addr /\ new.asked = c.asked /\ new.handshake = c.handshake
      /\ ~new.disturbed => ~c.disturbed /\ ~cycle
    BY <1>1 DEF Call, ReadOn
<1>9. /\ thread' \in [Thread -> Call] /\ thread'[t] = new
      /\ \A u \in Thread \ {t} : Kept(u) /\ CallInv(thread[u])'
    BY <1>2, <1>7, Transferred
<1>10. UNCHANGED <<mem, cycle, meant, ops>>
    BY DEF I2c_eeprom_read_data
<1> HIDE DEF new
<1>11. CallInv(thread[t])'
    <2>1. Placed(thread[t])'
        BY <1>3, <1>4, <1>8, <1>9 DEF Placed
    <2>2. Writing(thread[t])' /\ Pointed(thread[t])'
        BY <1>8, <1>9 DEF Writing, Pointed
    <2>3. Fetched(thread[t])'
        <3>0. Len(c.want) \in Nat /\ chunk \in Nat /\ c.len \in Nat /\ c.mem_addr \in Nat
            <4>1. c.want \in Seq(Value)
                BY <1>1 DEF Call
            <4>2. Len(c.want) \in Nat
                BY <4>1
            <4>3. c.len \in Nat /\ c.mem_addr \in Nat
                BY <1>3, Sizes
            <4> QED
                BY <1>2, <4>2, <4>3
        <3>5. /\ thread'[t].mem_addr = c.mem_addr + chunk /\ thread'[t].addr = c.addr
              /\ Len(thread'[t].want) = Len(c.want) + chunk
              /\ thread'[t].len = c.len - chunk /\ thread'[t].asked = c.asked
            BY <1>5, <1>8, <1>9
        <3>1. thread'[t].mem_addr = thread'[t].addr + Len(thread'[t].want)
            BY <1>3, <3>0, <3>5
        <3>2. Len(thread'[t].want) + thread'[t].len = thread'[t].asked
            BY <1>3, <3>0, <3>5
        <3>3. thread'[t].pc = "idle" => thread'[t].len = 0
            BY <1>8, <1>9, <3>0, <3>5
        <3>4. ~thread'[t].disturbed => thread'[t].buf = thread'[t].want
            BY <1>1, <1>2, <1>8, <1>9 DEF CallInv, Fetched, Reading
        <3> QED
            BY <3>1, <3>2, <3>3, <3>4 DEF Fetched
    <2> QED
        BY <2>1, <2>2, <2>3 DEF CallInv
<1>12. \A u \in Thread : CallInv(thread[u])'
    <2>1. ASSUME NEW u \in Thread PROVE CallInv(thread[u])'
        <3>1. CASE u = t
            BY <1>11, <3>1
        <3>2. CASE u # t
            BY <1>9, <3>2
        <3> QED
            BY <3>1, <3>2
    <2> QED
        BY <2>1
<1>13. TypeOK'
    <2>1. pointer' \in 0..(BlockSize - 1)
        <3>1. pointer \in 0..(BlockSize - 1)
            BY <1>1 DEF TypeOK
        <3>2. pointer + chunk \in Int
            BY <1>2, <3>1, Sizes
        <3>3. (pointer + chunk) % BlockSize \in 0..(BlockSize - 1)
            BY <3>2, WordInBlock DEF Word
        <3> QED
            BY <1>2, <3>1, <3>3
    <2>2. told' \in {"none", "NEED", "FINISH"}
        BY <1>1, <1>2 DEF TypeOK, V3_build_handshake_reply
    <2> QED
        BY <1>1, <1>9, <1>10, <2>1, <2>2 DEF TypeOK, Call
<1>14. MainReads'
    <2>1. CASE t = "main"
        BY <1>8, <1>9, <2>1 DEF IInv, MainReads
    <2>2. CASE t = "bluetooth"
        BY <1>9, <2>2 DEF IInv, MainReads, Kept, Thread
    <2> QED
        BY <2>1, <2>2 DEF Thread
<1>15. FlagRead' /\ HandshakeTrue'
    <2>1. CASE t = "main"
        <3>1. told' = told
            BY <1>2, <2>1 DEF IInv, MainReads
        <3> QED
            BY <1>9, <1>10, <2>1, <3>1 DEF IInv, FlagRead, HandshakeTrue, Kept, Thread
    <2>2. CASE t = "bluetooth" /\ ~c.handshake
        BY <1>8, <1>9, <2>2 DEF FlagRead, HandshakeTrue
    <2>3. CASE t = "bluetooth" /\ c.handshake
        <3>1. c.mem_addr = FlagAddr /\ c.len = 1 /\ c.buf = <<>>
            BY <1>1, <2>3 DEF IInv, FlagRead
        <3>2. chunk = 1
            BY <1>2, <3>1
        <3>3. c.buf \o bytes = bytes
            BY <1>2, <3>1
        <3>4. (~c.disturbed /\ ~cycle) => bytes = <<mem[FlagAddr]>>
            <4>1. wanted = <<wanted[1]>> /\ wanted[1] = mem[c.mem_addr + 1 - 1]
                BY <1>2, <3>2
            <4>2. c.mem_addr + 1 - 1 = FlagAddr
                BY <1>3, <3>1
            <4> QED
                BY <1>2, <4>1, <4>2, <3>1
        <3>5. ~new.disturbed => (told' = "NEED" <=> mem[FlagAddr] = READY)
            BY <1>2, <1>8, <2>3, <3>3, <3>4 DEF V3_build_handshake_reply
        <3>6. FlagRead'
            BY <1>8, <1>9, <2>3, <3>1, <3>2 DEF FlagRead
        <3>7. HandshakeTrue'
            BY <1>9, <1>10, <2>3, <3>5 DEF HandshakeTrue
        <3> QED
            BY <3>6, <3>7
    <2> QED
        BY <2>1, <2>2, <2>3 DEF Thread
<1> QED
    BY <1>12, <1>13, <1>14, <1>15 DEF IInv

LEMMA NextIInv ==
    ASSUME IInv, [Next]_vars
    PROVE  IInv'
<1>1. CASE EepromWrite \/ EepromRead \/ V3_handle_handshake
    BY <1>1, BeginKeeps
<1>2. CASE \E t \in Thread : Step(t)
    BY <1>2, WriteKeeps, WokenKeeps, AddressKeeps, DataKeeps DEF Step
<1>3. CASE CycleEnds
    <2>1. cycle' \in BOOLEAN /\ UNCHANGED <<mem, pointer, thread, told, meant, ops>>
        BY <1>3 DEF CycleEnds
    <2> QED
        BY <2>1 DEF IInv, TypeOK, CallInv, Placed, Writing, Fetched, Reading, Pointed,
                    MainReads, FlagRead, HandshakeTrue
<1>4. CASE UNCHANGED vars
    BY <1>4 DEF vars, IInv, TypeOK, CallInv, Placed, Writing, Fetched, Reading, Pointed,
                MainReads, FlagRead, HandshakeTrue
<1> QED
    BY <1>1, <1>2, <1>3, <1>4 DEF Next

LEMMA Invariance == Spec => []IInv
BY InitIInv, NextIInv, PTL DEF Spec

(* Every state of the driver is well typed: a call never leaves the chip, and *)
(* its loops count down to zero exactly (i2c_eeprom.c:36-90).                 *)
THEOREM TypeCorrect == Spec => []TypeOK
<1>1. IInv => TypeOK
    BY DEF IInv
<1> QED
    BY <1>1, Invariance, PTL

(* A read that nobody came between returns its range, whole, across the two  *)
(* blocks, while the other thread writes or reads before and after.          *)
THEOREM ReadsAreExact == Spec => []ReadExact
<1>1. ASSUME IInv PROVE ReadExact
    <2>1. ASSUME NEW t \in Thread, thread[t].want # <<>>, ~thread[t].disturbed
          PROVE  /\ thread[t].buf = thread[t].want
                 /\ thread[t].pc = "idle" => Len(thread[t].buf) = thread[t].asked
        <3>1. thread[t] \in Call /\ Fetched(thread[t])
            BY <1>1, Calling DEF IInv, CallInv
        <3>2. Len(thread[t].want) \in Nat
            BY <3>1 DEF Call
        <3> QED
            BY <2>1, <3>1, <3>2 DEF Fetched, Reading
    <2> QED
        BY <2>1 DEF ReadExact
<1> QED
    BY <1>1, Invariance, PTL

(* A handshake that nobody came between tells of an update exactly when the  *)
(* flag is READY.                                                            *)
THEOREM HandshakeTellsTheFlag == Spec => []HandshakeTrue
<1>1. IInv => HandshakeTrue
    BY DEF IInv
<1> QED
    BY <1>1, Invariance, PTL

-----------------------------------------------------------------------------
(* Writes *)

(* The cells once the write c has written the rest of its bytes. *)
Written(c, done) ==
    [x \in Cell |-> IF x \in (c.mem_addr + done)..(c.mem_addr + c.len - 1)
                    THEN c.buf[x - c.mem_addr + 1] ELSE mem[x]]

Pending(c) ==
    IF c.pc = "write" THEN Written(c, 0)
    ELSE IF c.pc = "sleep" THEN Written(c, WriteChunk(c)) ELSE mem

(* What is meant is what is there and what the write still holds; and no      *)
(* piece meets the cycle of the one before.                                   *)
WInv ==
    /\ PagesFit
    /\ cycle => thread["bluetooth"].pc = "sleep"
    /\ meant = Pending(thread["bluetooth"])

LEMMA InitWInv == PagesFit /\ Init => WInv
BY DEF Init, WInv, Pending, Idle, Thread

LEMMA Untouched ==
    ASSUME WInv, mem' = mem, cycle' = cycle, meant' = meant,
           thread'["bluetooth"].pc = thread["bluetooth"].pc,
           thread'["bluetooth"].mem_addr = thread["bluetooth"].mem_addr,
           thread'["bluetooth"].len = thread["bluetooth"].len,
           thread'["bluetooth"].buf = thread["bluetooth"].buf
    PROVE  WInv'
BY DEF WInv, Pending, Written, WriteChunk, PagesFit

LEMMA BeginWInv ==
    ASSUME IInv, WInv, EepromWrite \/ EepromRead \/ V3_handle_handshake
    PROVE  WInv'
<1>0. thread \in [Thread -> Call] /\ "bluetooth" \in Thread /\ "main" # "bluetooth"
    BY Calling DEF IInv, Thread
<1>1. CASE EepromWrite
    <2>1. PICK len \in 1..MaxLen : \E addr \in 0..(Size - len) :
             /\ Calls("bluetooth", "write", addr, len, Data(len), FALSE)
             /\ meant' = [x \in Cell |->
                           IF x \in addr..(addr + len - 1) THEN Data(len)[x - addr + 1]
                           ELSE meant[x]]
             /\ UNCHANGED <<mem, pointer, cycle, told>>
        BY <1>1 DEF EepromWrite
    <2>2. PICK addr \in 0..(Size - len) :
             /\ Calls("bluetooth", "write", addr, len, Data(len), FALSE)
             /\ meant' = [x \in Cell |->
                           IF x \in addr..(addr + len - 1) THEN Data(len)[x - addr + 1]
                           ELSE meant[x]]
             /\ UNCHANGED <<mem, pointer, cycle, told>>
        BY <2>1
    <2>3. /\ thread["bluetooth"].pc = "idle"
          /\ thread'["bluetooth"].pc = "write" /\ thread'["bluetooth"].mem_addr = addr
          /\ thread'["bluetooth"].len = len /\ thread'["bluetooth"].buf = Data(len)
        BY <1>0, <2>2 DEF Calls
    <2>4. meant = mem /\ ~cycle
        BY <2>3 DEF WInv, Pending
    <2>5. addr + 0 = addr
        BY Sizes
    <2> QED
        BY <2>2, <2>3, <2>4, <2>5 DEF WInv, Pending, Written, PagesFit
<1>2. CASE EepromRead
    <2>1. PICK len \in 1..MaxLen : \E addr \in 0..(Size - len) :
             /\ Calls("main", "address", addr, len, <<>>, FALSE)
             /\ UNCHANGED <<mem, pointer, cycle, told, meant>>
        BY <1>2 DEF EepromRead
    <2>2. thread'["bluetooth"] = thread["bluetooth"]
        BY <1>0, <2>1 DEF Calls
    <2> QED
        BY <2>1, <2>2, Untouched
<1>3. CASE V3_handle_handshake
    <2>1. /\ Calls("bluetooth", "address", FlagAddr, 1, <<>>, TRUE)
          /\ UNCHANGED <<mem, cycle, meant>>
        BY <1>3 DEF V3_handle_handshake
    <2>2. thread["bluetooth"].pc = "idle" /\ thread'["bluetooth"].pc = "address"
        BY <1>0, <2>1 DEF Calls
    <2> QED
        BY <2>1, <2>2 DEF WInv, Pending, PagesFit
<1> QED
    BY <1>1, <1>2, <1>3

(* A piece goes to its cells, and the write holds it no longer. *)
LEMMA WriteWInv ==
    ASSUME IInv, WInv, NEW t \in Thread, I2c_eeprom_write(t)
    PROVE  WInv'
<1> DEFINE c == thread[t]
           chunk == WriteChunk(c)
           bytes == SubSeq(c.buf, 1, chunk)
<1>1. TypeOK /\ c \in Call /\ c.pc = "write" /\ CallInv(c)
    BY Calling DEF IInv, I2c_eeprom_write
<1>2. t = "bluetooth" /\ ~cycle /\ PagesFit /\ meant = Written(c, 0)
    BY <1>1, WriterIsBluetooth DEF WInv, Pending
<1>3. /\ c.len > 0 /\ c.mem_addr + c.len <= Size /\ c.mem_addr \in Cell /\ c.len \in Nat
      /\ c.mem_addr \in Nat
    <2>1. c.len > 0 /\ c.mem_addr + c.len <= Size
        BY <1>1 DEF CallInv, Placed
    <2>2. c.mem_addr \in 0..Size /\ c.len \in Nat
        BY <1>1, Sizes DEF Call
    <2> QED
        BY <2>1, <2>2, Sizes
<1>4. chunk \in 1..c.len /\ chunk <= ChipPage - (c.mem_addr % ChipPage)
    <2>1. chunk \in 1..c.len /\ chunk <= EEPROM_PAGE_SIZE - (c.mem_addr % EEPROM_PAGE_SIZE)
        BY <1>1, <1>3, WritePiece
    <2>2. EEPROM_PAGE_SIZE - (c.mem_addr % EEPROM_PAGE_SIZE)
            <= ChipPage - (c.mem_addr % ChipPage)
        BY <1>2, <1>3, PieceInPage
    <2>3. /\ EEPROM_PAGE_SIZE - (c.mem_addr % EEPROM_PAGE_SIZE) \in Int
          /\ ChipPage - (c.mem_addr % ChipPage) \in Int
        BY <1>3, Sizes
    <2> QED
        BY <1>3, <2>1, <2>2, <2>3
<1>5. c.buf \in Seq(Value) /\ Len(c.buf) = c.len
    BY <1>1 DEF CallInv, Writing, Call
<1>6. bytes \in Seq(Value) /\ Len(bytes) = chunk /\ \A i \in 1..chunk : bytes[i] = c.buf[i]
    BY <1>3, <1>4, <1>5
<1>7. mem' = [x \in Cell |-> IF x \in c.mem_addr..(c.mem_addr + chunk - 1)
                             THEN bytes[x - c.mem_addr + 1] ELSE mem[x]]
    <2>1. mem' = Programmed(eeprom_i2c_addr(c.mem_addr), Word(c.mem_addr), bytes)
        BY <1>2 DEF I2c_eeprom_write
    <2> HIDE DEF bytes
    <2> QED
        BY <1>3, <1>4, <1>6, <2>1, ProgrammedCells
<1>8. /\ thread'[t].pc = "sleep" /\ thread'[t].mem_addr = c.mem_addr
      /\ thread'[t].len = c.len /\ thread'[t].buf = c.buf
    <2>1. Disturbing(t)[t] = thread[t] /\ t \in DOMAIN Disturbing(t)
        BY DEF Disturbing
    <2>2. thread' = [Disturbing(t) EXCEPT ![t].pc = "sleep"]
        BY DEF I2c_eeprom_write
    <2> QED
        BY <1>1, <2>1, <2>2 DEF Call
<1>9. meant' = meant
    BY DEF I2c_eeprom_write
<1>10. ASSUME NEW x \in Cell
       PROVE  meant[x] = IF x \in (c.mem_addr + chunk)..(c.mem_addr + c.len - 1)
                         THEN c.buf[x - c.mem_addr + 1] ELSE mem'[x]
    <2>1. x \in Int /\ chunk \in Nat
        BY <1>3, <1>4, Sizes
    <2>2. meant[x] = IF x \in c.mem_addr..(c.mem_addr + c.len - 1)
                     THEN c.buf[x - c.mem_addr + 1] ELSE mem[x]
        <3>1. c.mem_addr + 0 = c.mem_addr
            BY <1>3
        <3> QED
            BY <1>2, <3>1 DEF Written
    <2>3. CASE x \in (c.mem_addr + chunk)..(c.mem_addr + c.len - 1)
        <3>1. x \in c.mem_addr..(c.mem_addr + c.len - 1)
            BY <1>3, <2>1, <2>3
        <3> QED
            BY <2>2, <2>3, <3>1
    <2>4. CASE x \in c.mem_addr..(c.mem_addr + chunk - 1)
        <3>1. /\ x \in c.mem_addr..(c.mem_addr + c.len - 1)
              /\ x \notin (c.mem_addr + chunk)..(c.mem_addr + c.len - 1)
              /\ x - c.mem_addr + 1 \in 1..chunk
            BY <1>3, <1>4, <2>1, <2>4
        <3>2. mem'[x] = bytes[x - c.mem_addr + 1]
            BY <1>7, <2>4
        <3> QED
            BY <1>6, <2>2, <3>1, <3>2
    <2>5. CASE x \notin c.mem_addr..(c.mem_addr + c.len - 1)
        <3>1. /\ x \notin (c.mem_addr + chunk)..(c.mem_addr + c.len - 1)
              /\ x \notin c.mem_addr..(c.mem_addr + chunk - 1)
            BY <1>3, <1>4, <2>1, <2>5
        <3> QED
            BY <1>7, <2>2, <2>5, <3>1
    <2> QED
        BY <1>3, <1>4, <2>1, <2>3, <2>4, <2>5
<1>11. meant' = Pending(thread["bluetooth"])'
    <2>1. WriteChunk(thread[t])' = chunk
        BY <1>8 DEF WriteChunk
    <2>2. Pending(thread[t])'
            = [x \in Cell |-> IF x \in (c.mem_addr + chunk)..(c.mem_addr + c.len - 1)
                              THEN c.buf[x - c.mem_addr + 1] ELSE mem'[x]]
        BY <1>8, <2>1 DEF Pending, Written
    <2>3. meant \in [Cell -> Value]
        BY <1>1 DEF TypeOK
    <2> QED
        BY <1>2, <1>9, <1>10, <2>2, <2>3
<1> QED
    BY <1>2, <1>8, <1>11 DEF WInv, PagesFit

LEMMA Suffix ==
    ASSUME NEW S, NEW s \in Seq(S), NEW n \in 0..Len(s), NEW i \in 1..(Len(s) - n)
    PROVE  SubSeq(s, n + 1, Len(s))[i] = s[i + n]
OBVIOUS

LEMMA WokenWInv ==
    ASSUME IInv, WInv, NEW t \in Thread, Woken(t)
    PROVE  WInv'
<1> DEFINE c == thread[t]
           chunk == WriteChunk(c)
           rest == SubSeq(c.buf, chunk + 1, Len(c.buf))
<1>1. /\ TypeOK /\ c \in Call /\ c.pc = "sleep" /\ CallInv(c)
      /\ ~cycle /\ UNCHANGED <<mem, cycle, meant>>
    BY Calling DEF IInv, Woken
<1>2. t = "bluetooth" /\ PagesFit /\ meant = Written(c, chunk)
    BY <1>1, WriterIsBluetooth DEF WInv, Pending
<1>3. c.len > 0 /\ c.len \in Nat /\ c.mem_addr \in Nat
    <2>1. c.len > 0
        BY <1>1 DEF CallInv, Placed
    <2>2. c.mem_addr \in 0..Size /\ c.len \in Nat
        BY <1>1, Sizes DEF Call
    <2> QED
        BY <2>1, <2>2, Sizes
<1>4. chunk \in 1..c.len /\ chunk \in Nat
    BY <1>1, <1>3, WritePiece
<1>5. c.buf \in Seq(Value) /\ Len(c.buf) = c.len
    BY <1>1 DEF CallInv, Writing, Call
<1>6. \A i \in 1..(c.len - chunk) : rest[i] = c.buf[i + chunk]
    <2>1. chunk \in 0..Len(c.buf) /\ Len(c.buf) - chunk = c.len - chunk
        BY <1>3, <1>4, <1>5
    <2> HIDE DEF chunk
    <2> QED
        BY <1>5, <2>1, Suffix
<1>7. /\ thread'[t].pc = (IF c.len = chunk THEN "idle" ELSE "write")
      /\ thread'[t].mem_addr = c.mem_addr + chunk
      /\ thread'[t].len = c.len - chunk
      /\ thread'[t].buf = rest
    <2>1. thread' = [thread EXCEPT ![t] =
              [c EXCEPT !.buf = rest, !.mem_addr = c.mem_addr + chunk,
                        !.len = c.len - chunk,
                        !.pc = IF c.len = chunk THEN "idle" ELSE "write"]]
        BY DEF Woken
    <2>2. thread \in [Thread -> Call]
        BY Calling DEF IInv
    <2> HIDE DEF rest, chunk
    <2> QED
        BY <1>1, <2>1, <2>2 DEF Call
<1> HIDE DEF rest
<1>8. CASE c.len = chunk
    <2>1. \A x \in Cell : x \notin (c.mem_addr + chunk)..(c.mem_addr + c.len - 1)
        BY <1>3, <1>4, <1>8, Sizes
    <2>2. mem \in [Cell -> Value \ {Unread}]
        BY <1>1 DEF TypeOK
    <2>3. meant = mem
        BY <1>2, <2>1, <2>2 DEF Written
    <2>4. Pending(thread[t])' = mem'
        BY <1>7, <1>8 DEF Pending
    <2> QED
        BY <1>1, <1>2, <2>3, <2>4 DEF WInv, PagesFit
<1>9. CASE c.len # chunk
    <2>1. ASSUME NEW x \in Cell
          PROVE  meant[x] = IF x \in (c.mem_addr + chunk)..((c.mem_addr + chunk) + (c.len - chunk) - 1)
                            THEN rest[x - (c.mem_addr + chunk) + 1] ELSE mem[x]
        <3>1. x \in Int /\ (c.mem_addr + chunk) + (c.len - chunk) = c.mem_addr + c.len
            BY <1>3, <1>4, Sizes
        <3>4. x \in (c.mem_addr + chunk)..((c.mem_addr + chunk) + (c.len - chunk) - 1)
                <=> x \in (c.mem_addr + chunk)..(c.mem_addr + c.len - 1)
            BY <1>3, <1>4, <3>1
        <3>5. meant[x] = IF x \in (c.mem_addr + chunk)..(c.mem_addr + c.len - 1)
                         THEN c.buf[x - c.mem_addr + 1] ELSE mem[x]
            BY <1>2 DEF Written
        <3>2. CASE x \in (c.mem_addr + chunk)..(c.mem_addr + c.len - 1)
            <4>1. x - (c.mem_addr + chunk) + 1 \in 1..(c.len - chunk)
                BY <1>3, <1>4, <3>1, <3>2
            <4>2. (x - (c.mem_addr + chunk) + 1) + chunk = x - c.mem_addr + 1
                BY <1>3, <1>4, <3>1
            <4>3. rest[x - (c.mem_addr + chunk) + 1] = c.buf[x - c.mem_addr + 1]
                BY <1>6, <4>1, <4>2
            <4> QED
                BY <3>2, <3>4, <3>5, <4>3
        <3>3. CASE x \notin (c.mem_addr + chunk)..(c.mem_addr + c.len - 1)
            BY <3>3, <3>4, <3>5
        <3> QED
            BY <3>2, <3>3
    <2>2. Pending(thread[t])'
            = [x \in Cell |-> IF x \in (c.mem_addr + chunk)..((c.mem_addr + chunk) + (c.len - chunk) - 1)
                              THEN rest[x - (c.mem_addr + chunk) + 1] ELSE mem'[x]]
        <3>1. (c.mem_addr + chunk) + 0 = c.mem_addr + chunk
            BY <1>3, <1>4
        <3> QED
            BY <1>7, <1>9, <3>1 DEF Pending, Written
    <2>3. meant \in [Cell -> Value]
        BY <1>1 DEF TypeOK
    <2>4. meant' = Pending(thread[t])'
        BY <1>1, <2>1, <2>2, <2>3
    <2> QED
        BY <1>1, <1>2, <2>4 DEF WInv, PagesFit
<1> QED
    BY <1>8, <1>9

(* Reads leave the cells alone, and the write of the other thread. *)
LEMMA ReadWInv ==
    ASSUME IInv, WInv, NEW t \in Thread, NEW new \in Call,
           thread' = [Disturbing(t) EXCEPT ![t] = new],
           thread[t].pc \in {"address", "data"}, new.pc \in {"idle", "address", "data"},
           UNCHANGED <<mem, cycle, meant>>
    PROVE  WInv'
<1>1. thread'[t] = new /\ \A u \in Thread \ {t} : Kept(u)
    BY Transferred
<1>2. CASE t = "bluetooth"
    BY <1>1, <1>2 DEF WInv, Pending, PagesFit
<1>3. CASE t # "bluetooth"
    <2>1. Kept("bluetooth")
        BY <1>1, <1>3 DEF Thread
    <2> QED
        BY <2>1, Untouched DEF Kept
<1> QED
    BY <1>2, <1>3

LEMMA NextWInv ==
    ASSUME IInv, WInv, [Next]_vars
    PROVE  WInv'
<1>1. CASE EepromWrite \/ EepromRead \/ V3_handle_handshake
    BY <1>1, BeginWInv
<1>2. ASSUME NEW t \in Thread, I2c_eeprom_read_address(t)
      PROVE  WInv'
    <2> DEFINE c == thread[t]
               new == [c EXCEPT !.pc = "data", !.disturbed = @ \/ cycle]
    <2>1. c \in Call /\ c.pc = "address" /\ cycle \in BOOLEAN
        BY <1>2, Calling DEF IInv, TypeOK, I2c_eeprom_read_address
    <2>2. new \in Call /\ new.pc = "data"
        BY <2>1 DEF Call, Pc
    <2>3. thread' = [Disturbing(t) EXCEPT ![t] = new]
        <3>1. Disturbing(t)[t] = thread[t] /\ t \in DOMAIN Disturbing(t)
            BY DEF Disturbing
        <3>2. thread' = [Disturbing(t) EXCEPT ![t].pc = "data", ![t].disturbed = @ \/ cycle]
            BY <1>2 DEF I2c_eeprom_read_address
        <3> QED
            BY <2>1, <3>1, <3>2 DEF Call
    <2>4. UNCHANGED <<mem, cycle, meant>>
        BY <1>2 DEF I2c_eeprom_read_address
    <2> QED
        BY <2>1, <2>2, <2>3, <2>4, ReadWInv
<1>3. ASSUME NEW t \in Thread, I2c_eeprom_read_data(t)
      PROVE  WInv'
    <2>1. /\ thread[t] \in Call /\ thread[t].pc = "data"
          /\ UNCHANGED <<mem, cycle, meant>>
        BY <1>3, Calling DEF IInv, I2c_eeprom_read_data
    <2>2. thread' \in [Thread -> Call]
        BY <1>3, DataKeeps DEF IInv, TypeOK, Call
    <2>3. PICK new : thread' = [Disturbing(t) EXCEPT ![t] = new]
                     /\ new.pc \in {"idle", "address"}
        <3>1. PICK chunk \in 1..thread[t].len, bytes, wanted \in Seq(Value) :
                 thread' = [Disturbing(t) EXCEPT ![t] =
                              ReadOn(thread[t], chunk, bytes, wanted)]
            BY <1>3, PieceRead
        <3>2. ReadOn(thread[t], chunk, bytes, wanted).pc \in {"idle", "address"}
            BY <2>1 DEF Call, ReadOn
        <3> QED
            BY <3>1, <3>2
    <2>4. new \in Call
        <3>1. t \in DOMAIN Disturbing(t)
            BY DEF Disturbing
        <3> QED
            BY <2>2, <2>3, <3>1
    <2> QED
        BY <2>1, <2>3, <2>4, ReadWInv
<1>4. CASE \E t \in Thread : Step(t)
    BY <1>2, <1>3, <1>4, WriteWInv, WokenWInv DEF Step
<1>5. CASE CycleEnds
    <2>1. ~cycle' /\ UNCHANGED <<mem, thread, meant>>
        BY <1>5 DEF CycleEnds
    <2> QED
        BY <2>1 DEF WInv, Pending, Written, WriteChunk, PagesFit
<1>6. CASE UNCHANGED vars
    BY <1>6 DEF vars, WInv, Pending, Written, WriteChunk, PagesFit
<1> QED
    BY <1>1, <1>4, <1>5, <1>6 DEF Next

(* On a chip whose pages hold the driver's whole, a write of any length at   *)
(* any address changes its range to its bytes and no other cell, whatever    *)
(* the other thread reads meanwhile (i2c_eeprom.c:36-59).                    *)
THEOREM WritesAreExact == PagesFit => (Spec => []WriteExact)
<1>1. IInv /\ WInv => WriteExact
    BY DEF WInv, Pending, WriteExact
<1>2. PagesFit /\ Init => IInv /\ WInv
    BY InitIInv, InitWInv
<1>3. IInv /\ WInv /\ [Next]_vars => IInv' /\ WInv'
    BY NextIInv, NextWInv
<1> QED
    BY <1>1, <1>2, <1>3, PTL DEF Spec
=============================================================================
