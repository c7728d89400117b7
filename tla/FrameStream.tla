----------------------------- MODULE FrameStream -----------------------------
(***************************************************************************)
(* Frames from a notification stream: the framing, encrypt(), decrypt() and *)
(* FrameStream of src/ble/protocol.js, for any checksum.                    *)
(*                                                                         *)
(* The lock (external) writes one or more frames at a time, padded to whole *)
(* blocks and encrypted; each write arrives in notifications of one or more *)
(* blocks, in order, and a notification carries blocks of one write only    *)
(* (247: "writes start on a block boundary").  The stream has to give back  *)
(* the frames that were sent, wherever the notifications are cut.           *)
(***************************************************************************)
EXTENDS Integers, SequencesExt

CONSTANTS
    crc8(_),    \* the checksum; the real one is in MCDataChannel
    BLOCK,      \* bytes in a cipher block
    MAX_FRAME,  \* the longest length field believed
    Commands,   \* command and response codes
    Payloads,   \* data of frames and of requests
    MaxPerWrite,\* bound: frames in one write
    MaxSent     \* bound: frames sent in all

START == 127
Byte  == 0..255

ASSUME FrameStreamAssumption ==
    /\ {BLOCK, MAX_FRAME, MaxPerWrite, MaxSent} \subseteq Nat \ {0}
    /\ Commands \subseteq Byte
    /\ \A p \in Payloads : p \in Seq(Byte) /\ Len(p) + 3 <= MAX_FRAME

VARIABLES
    air,    \* writes under way, each what is left of its encrypted blocks
    buffer, \* FrameStream.buffer
    sent,   \* history: what the lock sent
    frames  \* history: the frames push() returned

vars == <<air, buffer, sent, frames>>

Init == air = <<>> /\ buffer = <<>> /\ sent = <<>> /\ frames = <<>>

-----------------------------------------------------------------------------
(* Framing.                                                                 *)

(* writeUInt16LE.                                                           *)
LE16(n) == <<n % 256, n \div 256>>

Zeros(n) == [i \in 1..n |-> 0]

undefined == 256    \* not a byte

(* Mutant: the length excludes the CRC, as the comment in line 136 says.    *)
FramedShort(command, body) ==
    LET checked == <<command>> \o body
    IN  <<START>> \o LE16(Len(checked)) \o checked \o <<crc8(checked)>>

(* START, a length that counts command, body and CRC, the command, the body *)
(* and the CRC.                                                             *)
Framed(command, body) ==
    LET checked == <<command>> \o body
    IN  <<START>> \o LE16(4 + Len(body) - 2) \o checked \o <<crc8(checked)>>

(* readUInt16LE(1), and what it makes the length of the packet.             *)
DataLength(raw) == raw[2] + 256 * raw[3]
Total(bytes)    == DataLength(bytes) + 3

(* Mutant: the CRC's index as in utecio's framing (protocol.js 274-276).    *)
makeFrameUtecio(raw) ==
    LET crcIndex == DataLength(raw) + 3
    IN  [raw      |-> raw,
         command  |-> raw[4],
         status   |-> raw[5],
         data     |-> SubSeq(raw, 6, crcIndex),
         crcValid |-> TRUE]

(* A frame decoded.  Indexes are the code's, plus one; a frame that is all  *)
(* CRC has no status: undefined.                                            *)
makeFrame(raw) ==
    LET crcIndex == DataLength(raw) + 2
    IN  [raw      |-> raw,
         command  |-> raw[4],
         status   |-> IF Len(raw) > 4 THEN raw[5] ELSE undefined,
         data     |-> SubSeq(raw, 6, crcIndex),
         crcValid |-> crc8(SubSeq(raw, 4, crcIndex)) = raw[crcIndex + 1]]

(* encrypt(): zero padding to whole blocks, each a cipher context of its    *)
(* own, so that a ciphertext block tells its block and nothing else.        *)
encrypt(packet) ==
    LET rounded == (Len(packet) + BLOCK - 1) \div BLOCK
        blocks  == IF rounded < 1 THEN 1 ELSE rounded
        padded  == packet \o Zeros(blocks * BLOCK - Len(packet))
    IN  [b \in 1..blocks |-> SubSeq(padded, (b - 1) * BLOCK + 1, b * BLOCK)]

(* Mutant: one cipher context for the notification (protocol.js 161-163):   *)
(* blocks after the first come out wrong.                                   *)
decryptChained(chunk) ==
    FlattenSeq([b \in DOMAIN chunk |->
        IF b = 1 THEN chunk[b] ELSE [i \in 1..BLOCK |-> (chunk[b][i] + 1) % 256]])

(* decrypt(): block by block.                                               *)
decrypt(chunk) == FlattenSeq(chunk)

-----------------------------------------------------------------------------
(* push().                                                                  *)

(* The loop goes on while a frame begins at the front of the buffer.        *)
Begins(bytes) == Len(bytes) >= 5 /\ bytes[1] = START
Broken(bytes) == Begins(bytes) /\ DataLength(bytes) \notin 1..MAX_FRAME
Whole(bytes)  == /\ Begins(bytes) /\ DataLength(bytes) \in 1..MAX_FRAME
                 /\ Len(bytes) >= Total(bytes)

(* The frames the loop takes from the front of the bytes, and what it       *)
(* leaves of them, when it has used so many.                                *)
Walk(bytes) ==
    LET from[used \in 0..Len(bytes)] ==
            LET left == SubSeq(bytes, used + 1, Len(bytes))
            IN  IF Whole(left)
                THEN LET later == from[used + Total(left)]
                         first == SubSeq(left, 1, Total(left))
                     IN  [frames |-> <<makeFrame(first)>> \o later.frames, rest |-> later.rest]
                ELSE [frames |-> <<>>, rest |-> IF Broken(left) THEN <<>> ELSE left]
    IN  from[0]

(* Mutant: the padding stays in the buffer.                                 *)
RemainderKept(rest) == rest

(* A remainder that cannot begin a frame is padding.                        *)
Remainder(rest) == IF rest # <<>> /\ rest[1] # START THEN <<>> ELSE rest

push(chunk) ==
    LET walked == Walk(buffer \o decrypt(chunk))
    IN  /\ buffer' = Remainder(walked.rest)
        /\ frames' = frames \o walked.frames

-----------------------------------------------------------------------------
(* The lock: external.  It writes some frames at a time, asked or not.      *)
Messages == [command : Commands, status : {0, 1}, data : Payloads]
Frame(m) == Framed(m.command, <<m.status>> \o m.data)

Write ==
    /\ Len(air) < 2
    /\ \E n \in 1..MaxPerWrite :
          /\ Len(sent) + n <= MaxSent
          /\ \E payloads \in [1..n -> Payloads], command \in Commands, status \in {0, 1} :
                LET new == [i \in 1..n |-> [command |-> command, status |-> status,
                                            data |-> payloads[i]]]
                IN  /\ sent' = sent \o new
                    /\ air' = Append(air, encrypt(FlattenSeq([i \in 1..n |-> Frame(new[i])])))
    /\ UNCHANGED <<buffer, frames>>

(* A notification brings the next n blocks of a write.                      *)
Notification(n) ==
    /\ LET write == Head(air)
           rest  == SubSeq(write, n + 1, Len(write))
       IN  /\ push(SubSeq(write, 1, n))
           /\ air' = IF rest = <<>> THEN Tail(air) ELSE <<rest>> \o Tail(air)
    /\ UNCHANGED sent

Notified == air # <<>> /\ \E n \in 1..Len(Head(air)) : Notification(n)

Next == Write \/ Notified

Spec == Init /\ [][Next]_vars

-----------------------------------------------------------------------------
Decoded(m) == [raw |-> Frame(m), command |-> m.command, status |-> m.status,
               data |-> m.data, crcValid |-> TRUE]

(* push() returns what was sent, whole and in order: nothing is made up     *)
(* from a cut, from padding or from a START byte in a payload (225-251),    *)
(* and command, status, data and CRC are found where the lock put them.     *)
FramesAreSent == IsPrefix(frames, [i \in DOMAIN sent |-> Decoded(sent[i])])

(* No frame stays behind: when everything has arrived, everything has been  *)
(* returned, and padding does not keep the next write from being read.      *)
NothingStuck == air = <<>> => Len(frames) = Len(sent) /\ buffer = <<>>

=============================================================================
