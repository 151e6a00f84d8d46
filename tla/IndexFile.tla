----------------------------- MODULE IndexFile -----------------------------
(***************************************************************************)
(* The index file, from sufarr.cpp's operator<< to operator>>: the records *)
(* are written, what reaches the disk may be cut short (no write, close or *)
(* read is checked), and load_index reads the file byte by byte.  The Lua  *)
(* scripts seek in the same file instead.                                  *)
(***************************************************************************)
EXTENDS Records, Sequences

CONSTANTS
  Positions,    \* positions an entry of the suffix set may have
  MaxRecords    \* bound on the entries of the suffix set

VARIABLES
  entries,      \* positions in the order of the suffix set
  written,      \* how many have been written
  file,         \* the bytes of the file
  loaded,       \* Index::index, the positions in memory
  x,            \* the local x of operator>>
  got,          \* bytes of the record already in x
  pc            \* "write", "closed", "read" or "loaded"

vars == <<entries, written, file, loaded, x, got, pc>>

Init ==
  /\ entries \in UNION {[1 .. n -> Positions \intersect 0 .. Width - 1] : n \in 0 .. MaxRecords}
  /\ \A i, j \in 1 .. Len(entries) : entries[i] = entries[j] => i = j
  /\ written = 0
  /\ file = <<>>
  /\ loaded = <<>>
  /\ x = 0
  /\ got = 0
  /\ pc = "write"

(* One element of the set.                                                 *)
WriteRecord ==
  /\ pc = "write" /\ written < Len(entries)
  /\ written' = written + 1
  /\ file' = file \o Pack(entries[written + 1])
  /\ UNCHANGED <<entries, loaded, x, got, pc>>

(* ofs.close (): after a full disk or a crash only a prefix is there.      *)
Close ==
  /\ pc = "write" /\ written = Len(entries)
  /\ pc' = "closed"
  /\ \E n \in 0 .. Len(file) : file' = SubSeq(file, 1, n)
  /\ UNCHANGED <<entries, written, loaded, x, got>>

(* The next byte to read.                                                  *)
Offset == 4 * Len(loaded) + got

StartLoad ==
  /\ pc = "closed"
  /\ pc' = "read"
  /\ UNCHANGED <<entries, written, file, loaded, x, got>>

(* One turn of the inner loop; the fourth byte completes the element.      *)
ReadByte ==
  /\ pc = "read" /\ Offset < Len(file)
  /\ LET v == x * ByteBase + file[Offset + 1] IN
       IF got < 3
         THEN x' = v /\ got' = got + 1 /\ UNCHANGED loaded
         ELSE x' = 0 /\ got' = 0 /\ loaded' = Append(loaded, v)
  /\ UNCHANGED <<entries, written, file, pc>>

(* The get that finds the end of the file: x has been shifted already, the *)
(* break leaves the inner loop only, and x is pushed.                      *)
ReadPastEnd ==
  /\ pc = "read" /\ Offset = Len(file)
  /\ loaded' = Append(loaded, x * ByteBase)
  /\ x' = 0 /\ got' = 0 /\ pc' = "loaded"
  /\ UNCHANGED <<entries, written, file>>

Next == WriteRecord \/ Close \/ StartLoad \/ ReadByte \/ ReadPastEnd

Spec == Init /\ [][Next]_vars
-----------------------------------------------------------------------------
TypeOK ==
  /\ entries \in Seq(0 .. Width - 1)
  /\ written \in 0 .. Len(entries)
  /\ file \in Seq(Bytes)
  /\ loaded \in Seq(Nat)
  /\ x \in Nat
  /\ got \in 0 .. 3
  /\ pc \in {"write", "closed", "read", "loaded"}

(* The file is the records of the first entries, one after the other.      *)
FileIsPacked ==
  /\ Len(file) <= 4 * written
  /\ pc = "write" => Len(file) = 4 * written
  /\ pc # "write" => written = Len(entries)
  /\ \A i \in 1 .. Len(entries), j \in 1 .. 4 :
       4 * (i - 1) + j <= Len(file) => file[4 * (i - 1) + j] = Pack(entries[i])[j]

(* While the file is read: the elements so far are the entries, and x is   *)
(* the bytes read of the next one.                                         *)
LoadedSoFar ==
  /\ Offset <= Len(file)
  /\ pc \in {"write", "closed"} => Offset = 0
  /\ \A i \in 1 .. Len(loaded) : loaded[i] = entries[i]
  /\ x = IF got = 0 THEN 0 ELSE Leading(entries[Len(loaded) + 1], got)

(* After it: every whole record, and what is left of the next one, shifted *)
(* by a byte.                                                              *)
LoadedAll ==
  LET whole == Len(file) \div 4
      rest == Len(file) % 4 IN
    /\ Len(loaded) = whole + 1
    /\ \A i \in 1 .. whole : loaded[i] = entries[i]
    /\ loaded[whole + 1] = IF rest = 0 THEN 0
                           ELSE Leading(entries[whole + 1], rest) * ByteBase

IInv ==
  /\ TypeOK
  /\ FileIsPacked
  /\ pc # "loaded" => LoadedSoFar
  /\ pc = "loaded" => LoadedAll

(* get_position_lua: the record at 0-based index i, read from the file.    *)
GetPositionLua(i) == Unpack(SubSeq(file, 4 * i + 1, 4 * i + 4))

(* get_position: the same record from the index in memory.                 *)
GetPosition(i) == AsInt(loaded[i + 1])

(* Records wholly in the file.                                             *)
WholeRecords == Len(file) \div 4

(* What load_index gives: every whole record of the file in its place, and *)
(* always one element more, which is 0 when the file is complete.          *)
LoadsOneMore ==
  pc = "loaded" =>
    /\ Len(loaded) = WholeRecords + 1
    /\ \A i \in 1 .. WholeRecords : loaded[i] = entries[i]
    /\ Len(file) % 4 = 0 => loaded[WholeRecords + 1] = 0

(* However the file was cut, the element made of the cut record is no      *)
(* later in the text than the position that was being written: load_index  *)
(* never gives a position outside the text the index was built from.       *)
CutRecordStaysInText ==
  pc = "loaded" /\ WholeRecords < Len(entries) =>
    loaded[WholeRecords + 1] <= entries[WholeRecords + 1]

(* The two readers of the file agree on every position an int can hold.    *)
ReadersAgree ==
  pc = "loaded" =>
    \A i \in 0 .. WholeRecords - 1 :
      /\ GetPositionLua(i) = entries[i + 1]
      /\ 2 * entries[i + 1] < Width => GetPosition(i) = GetPositionLua(i)
=============================================================================
