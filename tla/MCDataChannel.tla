---------------------------- MODULE MCDataChannel ----------------------------
(* An instance of DataChannel for TLC: blocks as long as a frame's head,    *)
(* data that ends before, on and behind a block boundary and holds START    *)
(* bytes and zeroes, PINs with and without leading zeroes, and the longest. *)
(* The checksum and the `|' of bytes are the code's.                        *)
EXTENDS DataChannel, Bitwise

CRC8_POLY == 140

(* One bit of the reflected CRC.                                            *)
Shifted(crc) == IF crc % 2 = 1 THEN (crc \div 2) ^^ CRC8_POLY ELSE crc \div 2

CRC8_TABLE ==
    [i \in Byte |-> FoldLeft(LAMBDA crc, bit : Shifted(crc), i, [bit \in 1..8 |-> bit])]

(* crc8().                                                                  *)
CRC8(bytes) == FoldLeft(LAMBDA crc, byte : CRC8_TABLE[crc ^^ byte], 0, bytes)

BitwiseOr(a, b) == a | b

-----------------------------------------------------------------------------
SomePayloads ==
    {<<>>, <<0, START>>, <<START, 0>>, <<START, START, 0, 9, 0>>}

SomePins ==
    {<<0, 0, 0, 0>>, <<0, 0, 4, 2>>, <<1, 2, 0, 0>>, <<6, 5, 5, 3, 6>>,
     <<0, 9, 9, 9, 9, 9, 9, 9>>, <<0, 0, 0, 0, 0, 0, 0, 0, 7>>, <<2, 6, 8, 4, 3, 5, 4, 5, 5>>}
=============================================================================
