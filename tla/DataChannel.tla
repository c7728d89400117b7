----------------------------- MODULE DataChannel -----------------------------
(***************************************************************************)
(* Both directions of the data channel: the frames that come in by module   *)
(* FrameStream, and the requests that go out: the credential and the        *)
(* request of src/ble/protocol.js, and the password as it comes from the    *)
(* cloud (src/ble/cloud.js).  The CRC is in MCDataChannel.                  *)
(*                                                                         *)
(* A string of digits is a sequence of digits.  A 32 bit integer is the     *)
(* sequence of its four bytes, the least significant first.                 *)
(***************************************************************************)
EXTENDS FrameStream

CONSTANTS
    or(_, _),   \* JavaScript's `|', of bytes
    Uids, Pins, \* of the accounts' locks; a PIN is a string of digits
    None

Digit == 0..9

VARIABLE
    asked       \* history: the request last written, until it is answered

channel == <<vars, asked>>

-----------------------------------------------------------------------------
(* writeUInt32LE.                                                           *)
LE32(n) == <<n % 256, (n \div 256) % 256, (n \div 65536) % 256, n \div 16777216>>

(* String(n) and Number(digits).                                            *)
Digits[n \in Nat] == IF n < 10 THEN <<n>> ELSE Append(Digits[n \div 10], n % 10)

Number(text) ==
    LET Value[n \in 0..Len(text)] == IF n = 0 THEN 0 ELSE 10 * Value[n - 1] + text[n]
    IN  Value[Len(text)]

(* A uid takes four bytes, a PIN leaves the nibble of its length free, and  *)
(* a request with a credential is no longer than a frame may be.            *)
ASSUME DataChannelAssumption ==
    /\ \A uid \in Uids : uid \in Nat /\ uid \div 16777216 \in Byte
    /\ \A pin \in Pins :
          pin \in Seq(Digit) /\ Len(pin) \in 1..9 /\ Number(pin) < 268435456
    /\ \A data \in Payloads : Len(data) + 10 <= MAX_FRAME

(* A nibble on top of another is their sum.                                 *)
ASSUME OrAssumption ==
    \A high, low \in 0..15 : or(16 * high, low) = 16 * high + low

-----------------------------------------------------------------------------
(* The credential.                                                          *)

(* Mutant: the value without its leading zeros.                             *)
decodePasswordUnpadded(packed) ==
    Digits[packed[1] + 256 * packed[2] + 65536 * packed[3] + 16777216 * (packed[4] % 16)]

(* cloud.js: the top nibble is the number of digits, the rest is the value, *)
(* padded with zeros to that number.  Without a number the value is taken   *)
(* as it is; above nine the code throws, and no lock has such a password.   *)
decodePassword(packed) ==
    LET declared == packed[4] \div 16
        value == Digits[packed[1] + 256 * packed[2] + 65536 * packed[3]
                        + 16777216 * (packed[4] % 16)]
    IN  IF Len(value) < declared THEN Zeros(declared - Len(value)) \o value ELSE value

(* Mutant: the digits of the number, not of the string, are counted.        *)
encodeAuthCounted(uid, password) ==
    LET number == LE32(Number(password))
    IN  LE32(uid) \o
        [number EXCEPT ![4] = or(Len(Digits[Number(password)]) * 16, @) % 256]

(* Four bytes of uid and four of password: both are strings, and never      *)
(* empty.  The count of digits is packed into the top nibble of the last.   *)
encodeAuth(uid, password) ==
    LET number == LE32(Number(password))
    IN  LE32(uid) \o [number EXCEPT ![4] = or(Len(password) * 16, @) % 256]

(* A credential is a uid and a password.                                    *)
buildRequest(command, credential, data, auth) ==
    Framed(command,
           (IF auth THEN encodeAuth(credential.uid, credential.password) ELSE <<>>) \o data)

-----------------------------------------------------------------------------
(* External: how the lock packs a password.                                 *)
Packed(pin) ==
    [LE32(Number(pin)) EXCEPT ![4] = @ + 16 * Len(pin)]

(* request(): the credential as `utec link' got it from the cloud, the      *)
(* packet written.                                                          *)
Request ==
    /\ asked = None /\ air = <<>> /\ sent = <<>>
    /\ \E command \in Commands, uid \in Uids, pin \in Pins, data \in Payloads, auth \in BOOLEAN :
          LET credential == [uid |-> uid, password |-> decodePassword(Packed(pin))]
              request == buildRequest(command, credential, data, auth)
          IN  asked' = [command |-> command, uid |-> uid, pin |-> pin, data |-> data,
                        auth |-> auth, blocks |-> encrypt(request)]
    /\ UNCHANGED vars

ChannelInit == Init /\ asked = None

ChannelNext ==
    \/ Request
    \/ Write /\ asked' = None
    \/ Notified /\ UNCHANGED asked

ChannelSpec == ChannelInit /\ [][ChannelNext]_channel

-----------------------------------------------------------------------------
(* What the lock reads of a request, framed as its answers are (274-276):   *)
(* the body lies between the command and the CRC.                           *)
Read == Walk(decrypt(asked.blocks)).frames
Body(raw) == SubSeq(raw, 5, Len(raw) - 1)

(* The lock finds exactly one packet in a request, with the command, a CRC  *)
(* that is right, the data at its end and as many bytes as the data and, if *)
(* it was asked for, the credential take: the length written is the length  *)
(* read, and the padding is no packet (125-142).                            *)
RequestUnderstood ==
    asked # None =>
        /\ Len(Read) = 1
        /\ Read[1].command = asked.command
        /\ Read[1].crcValid
        /\ IsSuffix(asked.data, Body(Read[1].raw))
        /\ Len(Body(Read[1].raw)) = Len(asked.data) + (IF asked.auth THEN 8 ELSE 0)

(* The PIN that the cloud delivers packed, and the plugin stores as a       *)
(* string and packs again, reaches the lock as the lock has it, its leading *)
(* zeros included (cloud.js 63-82, protocol.js 92-108).                     *)
PinSurvives ==
    asked # None /\ asked.auth =>
        IsPrefix(LE32(asked.uid) \o Packed(asked.pin), Body(Read[1].raw))

=============================================================================
