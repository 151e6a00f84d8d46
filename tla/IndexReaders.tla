---------------------------- MODULE IndexReaders ----------------------------
(***************************************************************************)
(* The four readers of index files.  In a behaviour one of them runs: the  *)
(* binary search in an index (LowerBound) over a table of verdicts, that   *)
(* in a paragraph index (ParagraphLookup) over an index sorted or not, a   *)
(* file written and loaded (IndexFile), or the search in memory            *)
(* (MemorySearch).                                                         *)
(***************************************************************************)
EXTENDS LowerBound, Records, Sequences

CONSTANTS
  MaxRecords,     \* bound on the records of a paragraph index
  MaxPos,         \* bound on the positions in a paragraph index
  FilePositions,  \* positions a suffix set may have
  FileRecords,    \* bound on the records of a file that is written
  Files,          \* the texts searched in memory
  Words,          \* the words searched for
  RowLimit        \* 10 in search: rows beyond the first

ASSUME MaxRecordsAssumption == MaxRecords \in Nat
ASSUME MaxPosAssumption == MaxPos \in Nat
ASSUME FileRecordsAssumption == FileRecords \in Nat

(* Texts are in UTF-8, which has no byte 255, and of at most half the      *)
(* positions a record holds, so that get_position's int has them all; a    *)
(* word is typed on one line.                                              *)
ASSUME FilesAssumption == \A f \in Files : f \in Seq(0 .. 254) /\ 2 * Len(f) <= Width
ASSUME WordsAssumption == \A w \in Words : w \in Seq((1 .. 255) \ {10})
ASSUME RowLimitAssumption == RowLimit \in Nat

VARIABLES
  records, pos, low, high, width, result, lookup,           \* ParagraphLookup
  suffixes, written, file, loaded, partial, got, access,    \* IndexFile
  source, src, index, pat, first, len, lb, ub, row, results, search  \* MemorySearch

lookupVars == <<records, pos, low, high, width, result, lookup>>
fileVars == <<suffixes, written, file, loaded, partial, got, access>>
memoryVars == <<source, src, index, pat, first, len, lb, ub, row, results, search>>
readerVars == <<vars, lookupVars, fileVars, memoryVars>>

Lookup == INSTANCE ParagraphLookup WITH n1 <- low, n2 <- high, size <- width, pc <- lookup
Loader == INSTANCE IndexFile WITH
  entries <- suffixes, x <- partial, pc <- access,
  Positions <- FilePositions, MaxRecords <- FileRecords
Memory == INSTANCE MemorySearch WITH file <- source, i <- row, pc <- search

NoSearch == /\ entries = 0 /\ below = <<>> /\ pastEnd = {}
            /\ n1 = 1 /\ n2 = 1 /\ size = 0 /\ pc = "failed"
NoLookup == /\ records = <<>> /\ pos = 0 /\ low = 1 /\ high = 1
            /\ width = 0 /\ result = 0 /\ lookup = "failed"
NoAccess == /\ suffixes = <<>> /\ written = 0 /\ file = <<>>
            /\ loaded = <<>> /\ partial = 0 /\ got = 0 /\ access = "none"
NoMemory == /\ source = <<>> /\ src = <<>> /\ index = <<>> /\ pat = <<>>
            /\ first = 0 /\ len = 0 /\ lb = 0 /\ ub = 0 /\ row = 0
            /\ results = <<>> /\ search = "none"

ReadersInit ==
  \/ Init /\ NoLookup /\ NoAccess /\ NoMemory
  \/ NoSearch /\ Lookup!Init /\ NoAccess /\ NoMemory
  \/ NoSearch /\ NoLookup /\ Loader!Init /\ NoMemory
  \/ NoSearch /\ NoLookup /\ NoAccess /\ Memory!Init

LookupStep == Lookup!Next /\ UNCHANGED <<vars, fileVars, memoryVars>>
ReadersNext ==
  \/ Next /\ UNCHANGED <<lookupVars, fileVars, memoryVars>>
  \/ LookupStep
  \/ Loader!Next /\ UNCHANGED <<vars, lookupVars, memoryVars>>
  \/ Memory!Next /\ UNCHANGED <<vars, lookupVars, fileVars>>

(* Nothing blocks the two loops: the script runs on until a call returns.  *)
ReadersSpec ==
  ReadersInit /\ [][ReadersNext]_readerVars /\ Fairness /\ WF_readerVars(LookupStep)
-----------------------------------------------------------------------------
(* The paragraph found is the last one that begins at or before the        *)
(* position, in any index in order (indexer.lua:93).                       *)
FindsParagraph == Lookup!FindsParagraph

(* Every call of the two loops ends; lower_bound returns when the index    *)
(* has two records or more and belongs to the text (indexer.lua:142).      *)
EveryCallEnds == Terminates /\ Lookup!Terminates

(* load_index gives the whole records and one element more, made of what   *)
(* is left of the file, which stays inside the text (sufarr.cpp:109); the  *)
(* two readers of the file agree on every position an int can hold         *)
(* (indexer.lua:179, sufarr.cpp:183).                                      *)
LoadsOneMore ==
  Loader!LoadsOneMore /\ Loader!CutRecordStaysInText /\ Loader!ReadersAgree

(* Despite the made-up element, what is between the bounds are the         *)
(* occurrences of the word, up to the last record and that element, and    *)
(* the rows show them (sufarr.cpp:192, indexer.lua:290); no probe and no   *)
(* row is taken outside the vector (indexer.lua:287).                      *)
HitsAreTheOccurrences ==
  /\ Memory!HitsAreOccurrences /\ Memory!OccurrencesAreHits
  /\ Memory!RowsShowWord /\ Memory!NothingReadOutside
=============================================================================
