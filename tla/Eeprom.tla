------------------------------- MODULE Eeprom -------------------------------
(***************************************************************************)
(* The EEPROM driver (i2c_eeprom.c) under two threads, and the reader that *)
(* is not part of the update: the handshake, which tells the application   *)
(* whether an update is waiting.                                           *)
(*                                                                         *)
(* An I2C transfer is one step.  A write is cut at pages and sleeps after  *)
(* each; a read is cut at the chip's two blocks and takes two transfers    *)
(* per piece, address and data.  Nothing keeps the threads apart, and the  *)
(* driver ignores what i2c_write and i2c_read return.                      *)
(*                                                                         *)
(* External: a chip whose address pointer every transfer moves, which      *)
(* wraps inside a page when written and inside a block when read, and      *)
(* which refuses transfers during the write cycle, shorter than the sleep. *)
(***************************************************************************)
EXTENDS Integers, Sequences, FiniteSetsExt

CONSTANTS
    EEPROM_PAGE_SIZE,   \* where the driver cuts writes, 256
    ChipPage,       \* the chip's page
    BlockSize,      \* bytes behind one device address, 64 K
    FlagAddr,       \* CTRL_OTA_FLAG_ADDR
    MaxLen,         \* bound on the bytes of one operation
    MaxWrites, MaxReads, MaxHandshakes  \* bounds on the operations of each kind

ASSUME EepromAssumption ==
    /\ {EEPROM_PAGE_SIZE, ChipPage, BlockSize} \subseteq Nat \ {0}
    /\ BlockSize % ChipPage = 0
    /\ FlagAddr \in 0..(2 * BlockSize - 1)
    /\ MaxLen \in Nat \ {0}
    /\ {MaxWrites, MaxReads, MaxHandshakes} \subseteq Nat

VARIABLES
    mem,        \* the cells of the chip
    pointer,    \* its address pointer, inside a block
    cycle,      \* it is in a write cycle
    thread,     \* the two threads' calls of the driver
    told,       \* the last handshake answer
    meant,      \* history: the cells as the writes begun so far mean them
    ops         \* operations begun so far, per kind

vars == <<mem, pointer, cycle, thread, told, meant, ops>>

Size  == 2 * BlockSize
Cell  == 0..(Size - 1)
Thread == {"bluetooth", "main"}

\* Cells start with a value each; a write brings new ones, the first is READY.
Data(len) == [i \in 1..len |-> Size + i]
READY     == Size + 1
Unread    == Size + MaxLen + 1      \* what an uninitialised buffer holds
Value     == 0..Unread

Pc == {"idle", "write", "sleep", "address", "data"}

TypeOK ==
    /\ mem \in [Cell -> Value \ {Unread}]
    /\ pointer \in 0..(BlockSize - 1)
    /\ cycle \in BOOLEAN
    /\ thread \in [Thread ->
         [pc : Pc, mem_addr : Cell \cup {Size}, len : 0..MaxLen, buf : Seq(Value),
          addr : Cell, asked : 0..MaxLen, want : Seq(Value),
          handshake : BOOLEAN, disturbed : BOOLEAN]]
    /\ told \in {"none", "NEED", "FINISH"}
    /\ meant \in [Cell -> Value]
    /\ ops \in [write : 0..MaxWrites, read : 0..MaxReads, handshake : 0..MaxHandshakes]

Idle == [pc |-> "idle", mem_addr |-> 0, len |-> 0, buf |-> <<>>,
         addr |-> 0, asked |-> 0, want |-> <<>>,
         handshake |-> FALSE, disturbed |-> FALSE]

Init ==
    /\ mem = [c \in Cell |-> c]
    /\ pointer = 0
    /\ cycle = FALSE
    /\ thread = [t \in Thread |-> Idle]
    /\ told = "none"
    /\ meant = mem
    /\ ops = [write |-> 0, read |-> 0, handshake |-> 0]

----------------------------------------------------------------------------
(* The chip *)

\* The device address carries the block, two bytes the place in it.
eeprom_i2c_addr(mem_addr) == (mem_addr \div BlockSize) % 2
Word(mem_addr) == mem_addr % BlockSize

\* bytes written from a place of a block: past the page's end they go to its start.
Programmed(block, word, bytes) ==
    LET first     == block * BlockSize + word
        offset(c) == (c - first) % ChipPage
    IN  [c \in Cell |->
           IF c \div ChipPage = first \div ChipPage /\ offset(c) < Len(bytes)
           THEN bytes[offset(c) + 1] ELSE mem[c]]

\* n bytes read from the pointer on: past the block's end from its start.
SequentialRead(block, n) ==
    [i \in 1..n |-> mem[block * BlockSize + ((pointer + i - 1) % BlockSize)]]

CycleEnds ==
    /\ cycle
    /\ cycle' = FALSE
    /\ UNCHANGED <<mem, pointer, thread, told, meant, ops>>

----------------------------------------------------------------------------
(* The driver *)

Calls(t, pc, addr, len, buf, handshake) ==
    /\ thread[t].pc = "idle"
    /\ thread' = [thread EXCEPT ![t] =
          [pc |-> pc, mem_addr |-> addr, len |-> len, buf |-> buf,
           addr |-> addr, asked |-> len, want |-> <<>>,
           handshake |-> handshake, disturbed |-> FALSE]]

EepromWrite ==
    /\ ops.write < MaxWrites
    /\ ops' = [ops EXCEPT !.write = @ + 1]
    /\ \E len \in 1..MaxLen : \E addr \in 0..(Size - len) :
         /\ Calls("bluetooth", "write", addr, len, Data(len), FALSE)
         /\ meant' = [c \in Cell |->
                       IF c \in addr..(addr + len - 1) THEN Data(len)[c - addr + 1]
                       ELSE meant[c]]
         /\ UNCHANGED <<mem, pointer, cycle, told>>

EepromRead ==
    /\ ops.read < MaxReads
    /\ ops' = [ops EXCEPT !.read = @ + 1]
    /\ \E len \in 1..MaxLen : \E addr \in 0..(Size - len) :
         /\ Calls("main", "address", addr, len, <<>>, FALSE)
         /\ UNCHANGED <<mem, pointer, cycle, told, meant>>

\* The handshake reads the flag.
V3_handle_handshake ==
    /\ ops.handshake < MaxHandshakes
    /\ ops' = [ops EXCEPT !.handshake = @ + 1]
    /\ Calls("bluetooth", "address", FlagAddr, 1, <<>>, TRUE)
    /\ UNCHANGED <<mem, pointer, cycle, told, meant>>

(* Mutant: a piece is cut at the page size, wherever it starts. *)
WriteChunkWholePage(c) == Min({c.len, EEPROM_PAGE_SIZE})

\* The piece of a write up to the end of the page.
WriteChunk(c) == Min({c.len, EEPROM_PAGE_SIZE - (c.mem_addr % EEPROM_PAGE_SIZE)})

(* Mutant: reads are not cut at the block's end. *)
ReadChunkUncut(c) == c.len

\* The piece of a read up to the end of the block.
ReadChunk(c) ==
    LET block_end == (eeprom_i2c_addr(c.mem_addr) + 1) * BlockSize
    IN  Min({c.len, block_end - c.mem_addr})

\* Another thread's transfer between the address and the data of a read.
Disturbing(t) ==
    [u \in Thread |->
        IF u # t /\ thread[u].pc = "data" THEN [thread[u] EXCEPT !.disturbed = TRUE]
        ELSE thread[u]]

I2c_eeprom_write(t) ==
    LET c     == thread[t]
        chunk == WriteChunk(c)
        block == eeprom_i2c_addr(c.mem_addr)
    IN  /\ c.pc = "write"
        /\ IF cycle THEN UNCHANGED <<mem, pointer, cycle>>
           ELSE /\ mem' = Programmed(block, Word(c.mem_addr), SubSeq(c.buf, 1, chunk))
                /\ pointer' = Word(c.mem_addr + chunk)
                /\ cycle' = TRUE
        /\ thread' = [Disturbing(t) EXCEPT ![t].pc = "sleep"]
        /\ UNCHANGED <<told, meant, ops>>

(* Mutant: the loop goes on with the same piece. *)
WokenSamePiece(t) ==
    /\ thread[t].pc = "sleep" /\ ~cycle
    /\ thread' = [thread EXCEPT ![t].pc = "write"]
    /\ UNCHANGED <<mem, pointer, cycle, told, meant, ops>>

(* Mutant: a whole page is counted for every piece. *)
WokenWholePage(t) ==
    LET c == thread[t]
    IN  /\ c.pc = "sleep" /\ ~cycle
        /\ thread' = [thread EXCEPT ![t] =
              [c EXCEPT !.buf = SubSeq(@, WriteChunk(c) + 1, Len(@)),
                        !.mem_addr = @ + EEPROM_PAGE_SIZE,
                        !.len = @ - EEPROM_PAGE_SIZE,
                        !.pc = IF c.len =< EEPROM_PAGE_SIZE THEN "idle" ELSE "write"]]
        /\ UNCHANGED <<mem, pointer, cycle, told, meant, ops>>

\* After the sleep, the next piece.
Woken(t) ==
    LET c     == thread[t]
        chunk == WriteChunk(c)
    IN  /\ c.pc = "sleep"
        /\ ~cycle
        /\ thread' = [thread EXCEPT ![t] =
              [c EXCEPT !.buf = SubSeq(@, chunk + 1, Len(@)),
                        !.mem_addr = @ + chunk,
                        !.len = @ - chunk,
                        !.pc = IF c.len = chunk THEN "idle" ELSE "write"]]
        /\ UNCHANGED <<mem, pointer, cycle, told, meant, ops>>

\* The dummy write that sets the pointer.
I2c_eeprom_read_address(t) ==
    LET c == thread[t]
    IN  /\ c.pc = "address"
        /\ pointer' = IF cycle THEN pointer ELSE Word(c.mem_addr)
        /\ thread' = [Disturbing(t) EXCEPT ![t].pc = "data",
                                           ![t].disturbed = @ \/ cycle]
        /\ UNCHANGED <<mem, cycle, told, meant, ops>>

(* Mutant: any value but IDLE, 0, calls for an update. *)
HandshakeReplyNotIdle(bytes) == IF bytes # <<0>> THEN "NEED" ELSE "FINISH"

V3_build_handshake_reply(bytes) == IF bytes = <<READY>> THEN "NEED" ELSE "FINISH"

I2c_eeprom_read_data(t) ==
    LET c     == thread[t]
        chunk == ReadChunk(c)
        bytes == IF cycle THEN [i \in 1..chunk |-> Unread]
                 ELSE SequentialRead(eeprom_i2c_addr(c.mem_addr), chunk)
        first == c.addr + Len(c.want)
    IN  /\ c.pc = "data"
        /\ pointer' = IF cycle THEN pointer ELSE (pointer + chunk) % BlockSize
        /\ thread' = [Disturbing(t) EXCEPT ![t] =
              [c EXCEPT !.buf = @ \o bytes,
                        !.want = @ \o [i \in 1..chunk |-> mem[first + i - 1]],
                        !.mem_addr = @ + chunk,
                        !.len = @ - chunk,
                        !.disturbed = @ \/ cycle,
                        !.pc = IF c.len = chunk THEN "idle" ELSE "address"]]
        /\ told' = IF c.handshake THEN V3_build_handshake_reply(c.buf \o bytes) ELSE told
        /\ UNCHANGED <<mem, cycle, meant, ops>>

Step(t) ==
    \/ I2c_eeprom_write(t)
    \/ Woken(t)
    \/ I2c_eeprom_read_address(t)
    \/ I2c_eeprom_read_data(t)

Next ==
    \/ EepromWrite
    \/ EepromRead
    \/ V3_handle_handshake
    \/ \E t \in Thread : Step(t)
    \/ CycleEnds

Spec == Init /\ [][Next]_vars

\* The threads run, and a write cycle ends.
FairSpec == Spec /\ WF_vars(CycleEnds) /\ \A t \in Thread : WF_vars(Step(t))

----------------------------------------------------------------------------
(* Properties *)

\* When no write is under way the cells are what the writes meant: each byte at
\* its address, across pages and blocks, and no neighbour touched
\* (i2c_eeprom.c:36-59), whatever the other thread reads meanwhile.
WriteExact == thread["bluetooth"].pc \notin {"write", "sleep"} => mem = meant

\* A read returns the cells of its range as they are when each piece is
\* transferred, unless another thread's transfer fell between address and data
\* or the chip was in a write cycle (i2c_eeprom.c:69-90).
ReadExact ==
    \A t \in Thread :
        LET c == thread[t]
        IN  c.want # <<>> /\ ~c.disturbed =>
              /\ c.buf = c.want
              /\ c.pc = "idle" => Len(c.buf) = c.asked

\* A handshake that was not disturbed tells the application of an update exactly
\* when the flag is READY (mcu_to_ble_protocol_v3.0.c:43-54).
HandshakeTrue ==
    LET c == thread["bluetooth"]
    IN  c.handshake /\ c.pc = "idle" /\ ~c.disturbed =>
            (told = "NEED" <=> mem[FlagAddr] = READY)

\* Every call of the driver returns (its loops count len down to 0).
CallsReturn == \A t \in Thread : thread[t].pc # "idle" ~> thread[t].pc = "idle"
=============================================================================
