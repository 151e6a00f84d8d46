------------------------------ MODULE Records ------------------------------
(***************************************************************************)
(* The four-byte big-endian records both index files are made of, and the  *)
(* ways the program turns one back into a position.                        *)
(***************************************************************************)
EXTENDS Integers

CONSTANT ByteBase       \* values of a byte: 256, smaller for TLC

ASSUME ByteBaseAssumption == ByteBase \in Nat /\ ByteBase >= 2

Bytes == 0 .. ByteBase - 1

(* Positions a record can hold.                                            *)
Width == ByteBase * ByteBase * ByteBase * ByteBase

(* Variants with the bytes in the wrong order, or without the last one.    *)
PackLittleEndian(p) ==
  << p % ByteBase, (p \div ByteBase) % ByteBase,
     (p \div (ByteBase * ByteBase)) % ByteBase,
     (p \div (ByteBase * ByteBase * ByteBase)) % ByteBase >>

(* operator<< and pack_pos: (v >> (3 - i) * 8) & 0xff for i = 0 .. 3.      *)
Pack(p) ==
  << (p \div (ByteBase * ByteBase * ByteBase)) % ByteBase,
     (p \div (ByteBase * ByteBase)) % ByteBase,
     (p \div ByteBase) % ByteBase,
     p % ByteBase >>

(* The number made of the first n bytes of a record.                       *)
Leading(p, n) ==
  CASE n = 1 -> p \div (ByteBase * ByteBase * ByteBase)
    [] n = 2 -> p \div (ByteBase * ByteBase)
    [] n = 3 -> p \div ByteBase

UnpackSwapped(r) ==
  ((r[1] * ByteBase + r[2]) * ByteBase + r[4]) * ByteBase + r[3]

(* get_str_pos and get_position_lua.                                       *)
Unpack(r) ==
  r[1] * (ByteBase * ByteBase * ByteBase) + r[2] * (ByteBase * ByteBase)
    + r[3] * ByteBase + r[4]

(* A size_t returned through C++ get_position's int.                       *)
AsInt(v) ==
  LET low == v % Width IN IF 2 * low < Width THEN low ELSE low - Width
=============================================================================
