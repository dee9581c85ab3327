------------------------------ MODULE ArrayCIN ------------------------------
(***************************************************************************)
(* A cin table: class ArrayCIN of src/ArrayCIN.cpp, from the lines of its  *)
(* file to the answers of its three searches.  One step is one turn of a   *)
(* loop, or one sort.                                                      *)
(*                                                                         *)
(* A text is a number, its place in the byte order by which std::string    *)
(* compares.  Vector indices count from 0 as in the code, sequences from 1.*)
(***************************************************************************)
EXTENDS Integers, Sequences, FiniteSets

CONSTANTS
  Texts,      (* the keys and values of the files, and the keys asked for  *)
  lowerStr,   (* a text in lower case, or as it is if not all printable    *)
  Files,      (* [exists, lines, terminated]: whether a newline ends it    *)
  Modes,      (* the [reverse, sorting] arguments the tables are built with*)
  Patterns,   (* wildcard keys, each the set of texts OVWildcard matches   *)
  WideSize,   (* whether string::size_type is wider than unsigned int      *)
  ReadBound   (* bound: lines read from a file that is not there           *)

(* hash: the line starts with #.  tab: it has no tab, a tab with a value    *)
(* behind it, or tabs up to its end ("dangling").                           *)
Lines == [hash : BOOLEAN, tab : {"none", "value", "dangling"},
          key : Texts, value : Texts]

ASSUME TextAssumption ==
  /\ Texts \subseteq Nat /\ Texts # {}
  /\ lowerStr \in [Texts -> Texts]
  /\ Patterns \subseteq SUBSET Texts

ASSUME FileAssumption ==
  /\ Files \subseteq [exists : BOOLEAN, lines : Seq(Lines), terminated : BOOLEAN]
  /\ Modes \subseteq [reverse : BOOLEAN, sorting : BOOLEAN]
  /\ WideSize \in BOOLEAN /\ ReadBound \in Nat

VARIABLES
  file, mode,
  pc,          (* what the object is doing                                 *)
  stringVec,   (* the lines read                                           *)
  at,          (* lines read, parsed, entries mapped or maps scanned       *)
  is_start_reading,
  block_buf,   (* <<key, value>> pairs                                     *)
  maps,        (* [first, second] in the order of the keys                 *)
  reverse_map,
  query,       (* the search under way: in which map, for what             *)
  low, high,
  outVector

loader == <<stringVec, is_start_reading, block_buf, maps, reverse_map>>
search == <<query, low, high, outVector>>
vars   == <<file, mode, pc, at, loader, search>>

Blank   == [hash |-> FALSE, tab |-> "none", key |-> 0, value |-> 0]
NoQuery == [on |-> "none", key |-> {}]
Entries == [first : Texts, second : Seq(Texts)]
-----------------------------------------------------------------------------
(***************************************************************************)
(* Helpers.                                                                *)
(***************************************************************************)
(* The comparators compare the first or the second of two pairs.            *)
KeyField   == 1
ValueField == 2

(* stable_sort: what sorts before s[n] is smaller in the field compared, or *)
(* the same and earlier.                                                    *)
StableSort(s, field) ==
  LET rank(n) == Cardinality({m \in 1 .. Len(s) :
                   \/ s[m][field] < s[n][field]
                   \/ s[m][field] = s[n][field] /\ m <= n})
  IN  [r \in 1 .. Len(s) |-> s[CHOOSE n \in 1 .. Len(s) : rank(n) = r]]

(* Deliberately wrong: joins entries whose key is not larger. *)
put_joins_smaller(map, key, word) ==
  IF map # <<>> /\ map[Len(map)].first <= key
    THEN [map EXCEPT ![Len(map)].second = Append(@, word)]
    ELSE Append(map, [first |-> key, second |-> <<word>>])

(* A word joins the last entry when that has its key. *)
Put(map, key, word) ==
  IF map # <<>> /\ map[Len(map)].first = key
    THEN [map EXCEPT ![Len(map)].second = Append(@, word)]
    ELSE Append(map, [first |-> key, second |-> <<word>>])
-----------------------------------------------------------------------------
(***************************************************************************)
(* The constructor.                                                        *)
(***************************************************************************)
Init ==
  /\ file \in Files /\ mode \in Modes
  /\ pc = "reading" /\ at = 0
  /\ stringVec = <<>> /\ is_start_reading = FALSE /\ block_buf = <<>>
  /\ maps = <<>> /\ reverse_map = <<>>
  /\ query = NoQuery /\ low = 0 /\ high = -1 /\ outVector = <<>>

(* getline() reports the end of the file together with an unfinished line,  *)
(* which is dropped.                                                        *)
FullLines == IF file.terminated THEN Len(file.lines) ELSE Len(file.lines) - 1

ReadLine ==
  /\ pc = "reading" /\ file.exists /\ at < FullLines
  /\ stringVec' = Append(stringVec, file.lines[at + 1])
  /\ at' = at + 1
  /\ UNCHANGED <<file, mode, pc, is_start_reading, block_buf, maps,
                 reverse_map, search>>

EndOfFile ==
  /\ pc = "reading" /\ file.exists /\ at >= FullLines
  /\ pc' = "parsing" /\ at' = 0
  /\ UNCHANGED <<file, mode, loader, search>>

(* A stream that could not be opened fails without ever being at its end.   *)
ReadMissing ==
  /\ pc = "reading" /\ ~file.exists /\ at < ReadBound
  /\ stringVec' = Append(stringVec, Blank)
  /\ at' = at + 1
  /\ UNCHANGED <<file, mode, pc, is_start_reading, block_buf, maps,
                 reverse_map, search>>

Line == stringVec[at + 1]

Comment == Line.hash /\ ~is_start_reading

InParse == pc = "parsing" /\ at < Len(stringVec)

SkipComment ==
  /\ InParse /\ Comment
  /\ at' = at + 1
  /\ UNCHANGED <<file, mode, pc, loader, search>>

(* value_pos is an unsigned int: where size_type is wider, a missing value  *)
(* does not compare equal to npos, and substr() throws.                     *)
ParseLine ==
  /\ InParse /\ ~Comment
  /\ is_start_reading' = TRUE
  /\ IF Line.tab = "dangling" /\ WideSize
       THEN pc' = "thrown" /\ UNCHANGED <<at, block_buf>>
       ELSE /\ at' = at + 1
            /\ block_buf' = IF Line.tab = "value"
                 THEN Append(block_buf, <<lowerStr[Line.key], Line.value>>)
                 ELSE block_buf
            /\ UNCHANGED pc
  /\ UNCHANGED <<file, mode, stringVec, maps, reverse_map, search>>

ParseEnds ==
  /\ pc = "parsing" /\ at = Len(stringVec)
  /\ pc' = IF mode.reverse THEN "sortByValue" ELSE "sortByKey"
  /\ at' = 0
  /\ UNCHANGED <<file, mode, loader, search>>

SortByValue ==
  /\ pc = "sortByValue"
  /\ block_buf' = StableSort(block_buf, ValueField)
  /\ pc' = "reversing"
  /\ UNCHANGED <<file, mode, at, stringVec, is_start_reading, maps,
                 reverse_map, search>>

setReverseMap ==
  /\ pc = "reversing"
  /\ IF at < Len(block_buf)
       THEN /\ reverse_map' = Put(reverse_map, block_buf[at + 1][2],
                                  block_buf[at + 1][1])
            /\ at' = at + 1 /\ UNCHANGED pc
       ELSE pc' = "sortByKey" /\ at' = 0 /\ UNCHANGED reverse_map
  /\ UNCHANGED <<file, mode, stringVec, is_start_reading, block_buf, maps,
                 search>>

(* Deliberately wrong: never sorts. *)
key_sort_forgotten ==
  /\ pc = "sortByKey" /\ pc' = "mapping"
  /\ UNCHANGED <<file, mode, at, loader, search>>

SortByKey ==
  /\ pc = "sortByKey"
  /\ block_buf' = IF mode.sorting THEN StableSort(block_buf, KeyField)
                                  ELSE block_buf
  /\ pc' = "mapping"
  /\ UNCHANGED <<file, mode, at, stringVec, is_start_reading, maps,
                 reverse_map, search>>

setMap ==
  /\ pc = "mapping"
  /\ IF at < Len(block_buf)
       THEN /\ maps' = Put(maps, block_buf[at + 1][1], block_buf[at + 1][2])
            /\ at' = at + 1 /\ UNCHANGED <<pc, block_buf>>
       ELSE /\ pc' = "ready" /\ at' = 0 /\ block_buf' = <<>>
            /\ UNCHANGED maps
  /\ UNCHANGED <<file, mode, stringVec, is_start_reading, reverse_map, search>>
-----------------------------------------------------------------------------
(***************************************************************************)
(* The searches.  Callers pass a vector of their own, empty at first.      *)
(***************************************************************************)
Idle == pc \in {"ready", "answered"}

Searched == IF query.on = "reverse_map" THEN reverse_map ELSE maps

StartSearch(on, key, size) ==
  /\ Idle
  /\ query' = [on |-> on, key |-> key]
  /\ low' = 0 /\ high' = size - 1 /\ at' = 0 /\ outVector' = <<>>
  /\ UNCHANGED <<file, mode, loader>>

getWordsVector(key) ==
  StartSearch("maps", {key}, Len(maps)) /\ pc' = "searching"

(* Without a reverse map the answer is 0 at once. *)
getReverseWordsVector(key) ==
  /\ StartSearch("reverse_map", {key}, Len(reverse_map))
  /\ pc' = IF mode.reverse THEN "searching" ELSE "answered"

getWordsVectorWithWildcard(pattern) ==
  StartSearch("wildcard", pattern, Len(maps)) /\ pc' = "scanning"

mid == (low + high) \div 2

Answer(words) ==
  /\ pc' = "answered" /\ outVector' = words
  /\ UNCHANGED <<file, mode, at, loader, query, low, high>>

Narrow(l, h) ==
  /\ low' = l /\ high' = h
  /\ UNCHANGED <<file, mode, pc, at, loader, query, outVector>>

(* Deliberately wrong: keeps the middle, or leaves the vector below. *)
narrow_keeps_middle ==
  /\ pc = "searching"
  /\ LET key == CHOOSE k \in query.key : TRUE
     IN  IF low > high THEN Answer(<<>>)
         ELSE IF Searched[mid + 1].first = key
           THEN Answer(Searched[mid + 1].second)
         ELSE IF key < Searched[mid + 1].first THEN Narrow(low, mid - 1)
         ELSE Narrow(mid, high)

narrow_past_end ==
  /\ pc = "searching"
  /\ LET key == CHOOSE k \in query.key : TRUE
     IN  IF low > high THEN Answer(<<>>)
         ELSE IF Searched[mid + 1].first = key
           THEN Answer(Searched[mid + 1].second)
         ELSE IF key < Searched[mid + 1].first THEN Narrow(low - 1, mid - 1)
         ELSE Narrow(mid + 1, high)

searchCinMap ==
  /\ pc = "searching"
  /\ LET key == CHOOSE k \in query.key : TRUE
     IN  IF low > high THEN Answer(<<>>)
         ELSE IF Searched[mid + 1].first = key
           THEN Answer(Searched[mid + 1].second)
         ELSE IF key < Searched[mid + 1].first THEN Narrow(low, mid - 1)
         ELSE Narrow(mid + 1, high)

(* Deliberately wrong: leaves when an entry does not match. *)
scan_stops_early ==
  /\ pc = "scanning"
  /\ IF at < Len(maps) /\ maps[at + 1].first \in query.key
       THEN /\ outVector' = outVector \o maps[at + 1].second
            /\ at' = at + 1 /\ UNCHANGED pc
       ELSE pc' = "answered" /\ UNCHANGED <<at, outVector>>
  /\ UNCHANGED <<file, mode, loader, query, low, high>>

ScanMaps ==
  /\ pc = "scanning"
  /\ IF at < Len(maps)
       THEN /\ outVector' = IF maps[at + 1].first \in query.key
                              THEN outVector \o maps[at + 1].second
                              ELSE outVector
            /\ at' = at + 1 /\ UNCHANGED pc
       ELSE pc' = "answered" /\ UNCHANGED <<at, outVector>>
  /\ UNCHANGED <<file, mode, loader, query, low, high>>

Work ==
  \/ ReadLine \/ EndOfFile \/ ReadMissing
  \/ SkipComment \/ ParseLine \/ ParseEnds
  \/ SortByValue \/ setReverseMap \/ SortByKey \/ setMap
  \/ searchCinMap \/ ScanMaps

Ask ==
  \/ \E key \in Texts : getWordsVector(key) \/ getReverseWordsVector(key)
  \/ \E pattern \in Patterns : getWordsVectorWithWildcard(pattern)

Next == Work \/ Ask

(* A call under way runs on; nobody has to make one. *)
Spec == Init /\ [][Next]_vars /\ WF_vars(Work)
-----------------------------------------------------------------------------
(***************************************************************************)
(* What a file declares, read off its lines.                               *)
(***************************************************************************)
(* A line counts if it is finished, has a value, and is not in the comment  *)
(* at the head of the file.                                                 *)
Counts(n) ==
  /\ n <= FullLines /\ file.lines[n].tab = "value"
  /\ \E m \in 1 .. n : ~file.lines[m].hash

Declaring == {n \in 1 .. Len(file.lines) : Counts(n)}

KeyAt(n)   == lowerStr[file.lines[n].key]
ValueAt(n) == file.lines[n].value

FileSorted == \A m, n \in Declaring : m < n => KeyAt(m) <= KeyAt(n)

Times(s, w) == Cardinality({n \in DOMAIN s : s[n] = w})

(* s lists, for each text w, as many w as there are lines that say so. *)
Lists(s, Says(_, _)) ==
  \A w \in Texts : Times(s, w) = Cardinality({n \in Declaring : Says(n, w)})

Answered(on) == pc = "answered" /\ query.on = on

TypeOK ==
  /\ file \in Files /\ mode \in Modes
  /\ pc \in {"reading", "parsing", "sortByValue", "reversing", "sortByKey",
             "mapping", "ready", "searching", "scanning", "answered", "thrown"}
  /\ stringVec \in Seq(Lines \cup {Blank}) /\ at \in Nat
  /\ is_start_reading \in BOOLEAN
  /\ block_buf \in Seq(Texts \X Texts)
  /\ maps \in Seq(Entries) /\ reverse_map \in Seq(Entries)
  /\ query.on \in {"none", "maps", "reverse_map", "wildcard"}
  /\ query.key \subseteq Texts
  /\ low \in Int /\ high \in Int
  /\ outVector \in Seq(Texts)

(* The binary search reads inside the vector, the empty one included. *)
ProbesInside ==
  pc = "searching" /\ low <= high => 0 <= low /\ high < Len(Searched)

(* Every index and every entry is where and what the code takes it for.     *)
InRange == TypeOK /\ ProbesInside

(* A table that is not sorted when it is loaded keeps the order of its file,*)
(* unless the reverse map was sorted first.                                 *)
InKeyOrder == mode.sorting \/ (FileSorted /\ ~mode.reverse)

(* A search finds every word the file declares for the key, once each, and  *)
(* in the order of the file unless the reverse map was sorted first.  The   *)
(* phrase library is not sorted when it is loaded: this needs its file to   *)
(* be in order.                                                             *)
FindsDeclared ==
  Answered("maps") /\ InKeyOrder =>
    /\ Lists(outVector, LAMBDA n, w : KeyAt(n) \in query.key /\ ValueAt(n) = w)
    /\ mode.reverse \/
         \E place \in [DOMAIN outVector -> Declaring] :
           /\ \A r \in DOMAIN outVector :
                KeyAt(place[r]) \in query.key /\ ValueAt(place[r]) = outVector[r]
           /\ \A q, r \in DOMAIN outVector : q < r => place[q] < place[r]

(* The reverse search answers with the keys of a value, if it was asked for *)
(* when the table was built.                                                *)
FindsReverse ==
  Answered("reverse_map") =>
    IF mode.reverse
      THEN Lists(outVector,
                 LAMBDA n, w : ValueAt(n) \in query.key /\ KeyAt(n) = w)
      ELSE outVector = <<>>

(* A wildcard search misses nothing, however the file is ordered. *)
WildcardFindsAll ==
  Answered("wildcard") =>
    Lists(outVector, LAMBDA n, w : KeyAt(n) \in query.key /\ ValueAt(n) = w)

(* The reverse search and the wildcard search find what the file declares,  *)
(* however it is ordered.                                                   *)
FindsUnordered == FindsReverse /\ WildcardFindsAll

(* No search answers with a word of another key, even in a map whose order  *)
(* the binary search cannot rely on.                                        *)
FoundWasDeclared ==
  Answered("maps") =>
    \A r \in DOMAIN outVector :
      \E n \in Declaring : KeyAt(n) \in query.key /\ ValueAt(n) = outVector[r]

(* A search under way ends. *)
SearchEnds == pc \in {"searching", "scanning"} ~> pc = "answered"

(* A table whose file is there gets loaded, or dies of a line of its file.  *)
Loads == file.exists => <>(pc \in {"ready", "thrown"})

(* "if( value_pos == string::npos ) continue;": a line without a value is   *)
(* skipped.                                                                 *)
ValuelessIsSkipped == pc # "thrown"
=============================================================================
