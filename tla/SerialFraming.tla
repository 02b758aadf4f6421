--------------------------- MODULE SerialFraming ---------------------------
(***************************************************************************)
(* The framing of daemons/ZCB/SerialLink.c: eSL_WriteMessage turns a       *)
(* message into START, escaped header, checksum and data, END, and         *)
(* eSL_ReadMessage is the byte-wise automaton that takes it apart again.   *)
(*                                                                         *)
(* eRxState, u8CRC, u16Bytes and bInEsc are static in eSL_ReadMessage and  *)
(* survive its return; type, length and data belong to the reader thread,  *)
(* which wipes them before every call.  A call returns at the end of a     *)
(* good frame or when eSerial_Read finds no data, which can be in the      *)
(* middle of a frame (an interrupted read, a hung-up line).                *)
(*                                                                         *)
(* The line (external) carries one frame at a time; it may lose bytes of   *)
(* it and add noise between frames.                                        *)
(***************************************************************************)
EXTENDS Integers, SequencesExt

CONSTANTS Messages,        \* the messages that are sent
          Noise,           \* the bytes noise consists of
          u16MaxLength,    \* SL_MAX_MESSAGE_LENGTH
          MaxFaults,       \* bound on lost bytes, noise bytes and interrupted reads
          Faults,          \* the faults of this run
          XorByte(_, _)    \* exclusive or of two bytes

Byte == 0 .. 255
Word == 0 .. 65535

ASSUME FramingAssumption ==
    /\ u16MaxLength \in Nat \ {0} /\ u16MaxLength < 65535
    /\ MaxFaults \in Nat
    /\ Messages \subseteq [type : Word, data : Seq(Byte)]
    /\ \A m \in Messages : Len(m.data) \in Word
    /\ Noise \subseteq Byte
    /\ Faults \subseteq {"loss", "noise", "interrupt"}

\* What the escape needs of the exclusive or.
ASSUME XorAssumption ==
    /\ \A a, b \in Byte : XorByte(a, b) \in Byte
    /\ \A b \in 0 .. 15 : XorByte(b, 16) \in 16 .. 31 /\ XorByte(XorByte(b, 16), 16) = b

VARIABLES eRxState, u8CRC, u16Bytes, bInEsc,   \* static in eSL_ReadMessage
          u16Type, u16Length, au8Message,      \* sMessage of the reader thread
          wire,       \* the bytes of the current frame still on the line
          sent,       \* the message of the current frame
          intact,     \* nothing has happened to the current frame
          accepted,   \* the messages read since the current frame was sent
          stray,      \* how many bytes of noise have come since then
          faults,     \* how many faults have happened
          kinds       \* of which kinds

statics == <<eRxState, u8CRC, u16Bytes, bInEsc>>
message == <<u16Type, u16Length, au8Message>>
vars    == <<statics, message, wire, sent, intact, accepted, stray, faults, kinds>>

SL_START_CHAR == 1
SL_ESC_CHAR   == 2
SL_END_CHAR   == 3

\* teSL_RxState
RxStates == <<"TYPEMSB", "TYPELSB", "LENMSB", "LENLSB", "CRC", "DATA">>
NoMessage == [type |-> 0, data |-> <<>>]

-----------------------------------------------------------------------------
(* The sender                                                              *)

\* Faulty variant: shifted by half a byte.
MSBShort(w) == w \div 16

MSB(w) == w \div 256
LSB(w) == w % 256

XorAll(s) == FoldLeft(XorByte, 0, s)

\* u8SL_CalculateCRC: the exclusive or of both header words and the first u16Length
\* bytes of the data.
CalculateCRC(type, length, data) ==
    XorAll(<<MSB(type), LSB(type), MSB(length), LSB(length)>> \o SubSeq(data, 1, length))

\* iSL_TxByte for a byte that is not a special character.
TxByte(b) == IF b < 16 THEN <<SL_ESC_CHAR, XorByte(b, 16)>> ELSE <<b>>

\* eSL_WriteMessage
WriteMessage(m) ==
    LET length  == Len(m.data)
        content == <<MSB(m.type), LSB(m.type), MSB(length), LSB(length),
                     CalculateCRC(m.type, length, m.data)>> \o m.data
    IN  <<SL_START_CHAR>> \o FlattenSeq([i \in DOMAIN content |-> TxByte(content[i])])
                          \o <<SL_END_CHAR>>

-----------------------------------------------------------------------------
(* The receiver                                                            *)

Zeros == [i \in 1 .. u16MaxLength |-> 0]

\* Faulty variant: the length is initialised with 0, so that a stray end is checked.
WipedMessageShort == u16Type' = 0 /\ u16Length' = 0 /\ au8Message' = Zeros

\* The loop of pvReaderThread: wipe the message and call eSL_ReadMessage again.
WipedMessage == u16Type' = 0 /\ u16Length' = 65535 /\ au8Message' = Zeros

Init ==
    /\ eRxState = "START" /\ u8CRC = 0 /\ u16Bytes = 0 /\ bInEsc = FALSE
    /\ u16Type = 0 /\ u16Length = 65535 /\ au8Message = Zeros
    /\ wire = <<>> /\ sent = NoMessage /\ intact = FALSE
    /\ accepted = <<>> /\ stray = 0 /\ faults = 0 /\ kinds = {}

\* Faulty variant: an escape pending from before is still in force.
RxStartKeepsEsc ==
    /\ u16Bytes' = 0
    /\ eRxState' = "TYPEMSB"
    /\ UNCHANGED <<bInEsc, u8CRC, message, accepted>>

RxStart ==
    /\ u16Bytes' = 0
    /\ bInEsc' = FALSE
    /\ eRxState' = "TYPEMSB"
    /\ UNCHANGED <<u8CRC, message, accepted>>

RxEsc ==
    /\ bInEsc' = TRUE
    /\ UNCHANGED <<eRxState, u8CRC, u16Bytes, message, accepted>>

\* The end of a frame.  How many bytes of data came is not compared with the length.
RxEnd ==
    IF u16Length > u16MaxLength
       THEN /\ eRxState' = "START"
            /\ UNCHANGED <<u8CRC, u16Bytes, bInEsc, message, accepted>>
    ELSE IF u8CRC = CalculateCRC(u16Type, u16Length, au8Message)
       THEN /\ accepted' = Append(accepted, [type |-> u16Type,
                                             data |-> SubSeq(au8Message, 1, u16Length)])
            /\ eRxState' = "START"
            /\ WipedMessage
            /\ UNCHANGED <<u8CRC, u16Bytes, bInEsc>>
    ELSE UNCHANGED <<statics, message, accepted>>

Follow(state) == RxStates[1 + CHOOSE i \in 1 .. 5 : RxStates[i] = state]

\* Faulty variant: a frame that is too long is only noticed at its end.
RxLengthUnchecked(d) ==
    LET length == (u16Length + d) % 65536
    IN  /\ u16Length' = length
        /\ eRxState' = "CRC"
        /\ UNCHANGED <<u16Type, au8Message, u8CRC, u16Bytes>>

\* The low byte of the length is added to what is there, modulo 2^16.
RxLength(d) ==
    LET length == (u16Length + d) % 65536
    IN  /\ u16Length' = length
        /\ eRxState' = IF length > u16MaxLength THEN "START" ELSE "CRC"
        /\ UNCHANGED <<u16Type, au8Message, u8CRC, u16Bytes>>

\* Any other byte, unescaped.  A read interrupted while data is awaited leaves the
\* length at 65535, above every index of au8Message: what then runs past the buffer
\* is not stored.
RxData(d) ==
    CASE eRxState = "START"   -> UNCHANGED <<eRxState, u8CRC, u16Bytes, message>>
      [] eRxState = "TYPEMSB" -> /\ u16Type' = 256 * d
                                 /\ eRxState' = Follow(eRxState)
                                 /\ UNCHANGED <<u16Length, au8Message, u8CRC, u16Bytes>>
      [] eRxState = "TYPELSB" -> /\ u16Type' = (u16Type + d) % 65536
                                 /\ eRxState' = Follow(eRxState)
                                 /\ UNCHANGED <<u16Length, au8Message, u8CRC, u16Bytes>>
      [] eRxState = "LENMSB"  -> /\ u16Length' = 256 * d
                                 /\ eRxState' = Follow(eRxState)
                                 /\ UNCHANGED <<u16Type, au8Message, u8CRC, u16Bytes>>
      [] eRxState = "LENLSB"  -> RxLength(d)
      [] eRxState = "CRC"     -> /\ u8CRC' = d
                                 /\ eRxState' = Follow(eRxState)
                                 /\ UNCHANGED <<message, u16Bytes>>
      [] eRxState = "DATA"    -> IF u16Bytes < u16Length
                                    THEN /\ au8Message' = [au8Message EXCEPT ![u16Bytes + 1] = d]
                                         /\ u16Bytes' = u16Bytes + 1
                                         /\ UNCHANGED <<u16Type, u16Length, eRxState, u8CRC>>
                                    ELSE UNCHANGED <<eRxState, u8CRC, u16Bytes, message>>

RxByte(b) ==
    CASE b = SL_START_CHAR -> RxStart
      [] b = SL_ESC_CHAR   -> RxEsc
      [] b = SL_END_CHAR   -> RxEnd
      [] OTHER             -> /\ RxData(IF bInEsc THEN XorByte(b, 16) ELSE b)
                              /\ bInEsc' = FALSE
                              /\ UNCHANGED accepted

-----------------------------------------------------------------------------
(* The steps                                                               *)

Send(m) ==
    /\ wire = <<>>
    /\ wire' = WriteMessage(m)
    /\ sent' = m /\ intact' = TRUE /\ accepted' = <<>> /\ stray' = 0
    /\ UNCHANGED <<statics, message, faults, kinds>>

ReadByte ==
    /\ wire # <<>>
    /\ RxByte(Head(wire))
    /\ wire' = Tail(wire)
    /\ UNCHANGED <<sent, intact, stray, faults, kinds>>

Fault(f) ==
    /\ f \in Faults
    /\ faults < MaxFaults
    /\ faults' = faults + 1
    /\ kinds' = kinds \cup {f}

\* The line loses a byte of the frame.
LoseByte ==
    /\ Fault("loss")
    /\ wire # <<>>
    /\ wire' = Tail(wire)
    /\ intact' = FALSE
    /\ UNCHANGED <<statics, message, sent, accepted, stray>>

\* A byte that belongs to no frame comes in between two frames.
NoiseByte ==
    /\ Fault("noise")
    /\ wire = <<>>
    /\ \E b \in Noise : RxByte(b)
    /\ stray' = stray + 1
    /\ UNCHANGED <<wire, sent, intact>>

\* eSerial_Read has no data: eSL_ReadMessage returns E_SL_NOMESSAGE and is called
\* again.  Not in a frame that fills the buffer: the length is 65535 from then on and
\* would let the data run out of it.
Interrupt ==
    /\ Fault("interrupt")
    /\ Len(sent.data) < u16MaxLength
    /\ WipedMessage
    /\ intact' = (intact /\ wire \in {<<>>, WriteMessage(sent)})
    /\ UNCHANGED <<statics, wire, sent, accepted, stray>>

Next == (\E m \in Messages : Send(m)) \/ ReadByte \/ LoseByte \/ NoiseByte \/ Interrupt

Spec == Init /\ [][Next]_vars

-----------------------------------------------------------------------------
(* Properties                                                              *)

TypeOK ==
    /\ eRxState \in {"START", "TYPEMSB", "TYPELSB", "LENMSB", "LENLSB", "CRC", "DATA"}
    /\ u8CRC \in Byte /\ u16Bytes \in Word /\ bInEsc \in BOOLEAN
    /\ u16Type \in Word /\ u16Length \in Word
    /\ au8Message \in [1 .. u16MaxLength -> Byte]
    /\ wire \in Seq(Byte)
    /\ intact \in BOOLEAN
    /\ stray \in Nat /\ faults \in 0 .. MaxFaults /\ kinds \subseteq Faults

\* Five bytes of noise in a row can pass for an empty message, a start, two bytes of type,
\* a zero and an end: an end is taken before the rest of the length and the checksum have come.
NoFrameOfNoise == stray < 5 \/ SL_START_CHAR \notin Noise \/ SL_END_CHAR \notin Noise

\* However the automaton was left by noise, lost bytes and interrupted reads, the
\* next frame that arrives whole is read once and unchanged, unless it is longer
\* than the buffer, in which case nothing is read.
WholeFramesAreRead ==
    wire = <<>> /\ intact /\ NoFrameOfNoise
        => accepted = IF Len(sent.data) <= u16MaxLength THEN <<sent>> ELSE <<>>

\* Nothing is read that was not sent: noise before, between and after frames makes no
\* message.  The checksum is too weak to promise this of lost bytes.
AcceptedWasSent ==
    kinds \subseteq {"noise"} /\ NoFrameOfNoise => \A i \in DOMAIN accepted : accepted[i] = sent

\* While reads are not interrupted the data stays inside au8Message, whatever bytes
\* come and whatever is lost of a length or of an escape.
DataInBounds == "interrupt" \notin kinds => u16Bytes <= u16MaxLength
=============================================================================
