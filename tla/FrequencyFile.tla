---------------------------- MODULE FrequencyFile ----------------------------
(***************************************************************************)
(* FrequencyProcessor::readFileAndCreateIDFreqMap, run by the constructor: *)
(* a file of entries "ID low frequency high" is read word by word into     *)
(* four strings that live across entries.  A read that fails leaves its    *)
(* string alone, and nobody looks at the result of one, so at the end of   *)
(* the file the words of the entry before are used again.                  *)
(***************************************************************************)
EXTENDS Integers, Sequences

CONSTANTS
  Words,    (* words of a file                                             *)
  IntOf,    (* word -> what stoi makes of it, for words it accepts         *)
  Unread    (* a string nothing has been read into                         *)

ASSUME WordAssumption ==
  /\ Unread \notin Words
  /\ DOMAIN IntOf \subseteq Words
  /\ \A w \in DOMAIN IntOf : IntOf[w] \in Int

VARIABLES
  words,            (* the file                                            *)
  newline,          (* the file ends with white space                      *)
  next,             (* the next word                                       *)
  strings,          (* <<idStr, freqStr[0], freqStr[1], freqStr[2]>>       *)
  idFrequencyMap,   (* ID -> <<low, frequency, high>>                      *)
  idTimestampMap,   (* ID -> 0                                             *)
  outcome           (* "reading", "loaded" or "error"                      *)

file == <<words, newline>>
vars == <<file, next, strings, idFrequencyMap, idTimestampMap, outcome>>

-----------------------------------------------------------------------------
Fields == 1 .. 4

(* Any file; good() is true of an empty one until it has been read from.   *)
Init ==
  /\ words \in Seq(Words)
  /\ newline \in BOOLEAN
  /\ next = 1
  /\ strings = [f \in Fields |-> Unread]
  /\ idFrequencyMap = <<>>
  /\ idTimestampMap = <<>>
  /\ outcome = "reading"

(* MUTANT of extract: a read that fails empties its string.                *)
extractClears ==
  strings' = [f \in Fields |->
    IF next + f - 1 \in DOMAIN words THEN words[next + f - 1] ELSE Unread]

(* Four times freqFile >> string.                                          *)
extract ==
  strings' = [f \in Fields |->
    IF next + f - 1 \in DOMAIN words THEN words[next + f - 1] ELSE strings[f]]

(* good() after that: no read has come to the end of the file.             *)
GoodAfter ==
  \/ next + 3 < Len(words)
  \/ next + 3 = Len(words) /\ newline

(* What the strings say is an entry: four numbers, the last three positive *)
(* and in order.                                                           *)
getIntFromString(s) == s \in DOMAIN IntOf

(* MUTANT of Accepted: the order is looked at between neighbours 0 and 1.  *)
AcceptedHalf(s) ==
  /\ \A f \in Fields : getIntFromString(s[f])
  /\ \A f \in 2 .. 4 : IntOf[s[f]] > 0
  /\ IntOf[s[2]] <= IntOf[s[3]]

Accepted(s) ==
  /\ \A f \in Fields : getIntFromString(s[f])
  /\ \A f \in 2 .. 4 : IntOf[s[f]] > 0
  /\ \A f \in 2 .. 3 : IntOf[s[f]] <= IntOf[s[f + 1]]

(* map::insert keeps the value of a key that is there already.             *)
Insert(m, key, value) ==
  [k \in DOMAIN m \cup {key} |-> IF k \in DOMAIN m THEN m[k] ELSE value]

Thresholds(s) == [f \in 1 .. 3 |-> IntOf[s[f + 1]]]

(* One turn of the loop.                                                   *)
readEntry ==
  /\ outcome = "reading"
  /\ extract
  /\ next' = next + 4
  /\ IF Accepted(strings')
     THEN LET id == IntOf[strings'[1]] IN
          /\ idFrequencyMap' = Insert(idFrequencyMap, id, Thresholds(strings'))
          /\ idTimestampMap' = Insert(idTimestampMap, id, 0)
          /\ outcome' = IF GoodAfter THEN "reading" ELSE "loaded"
     ELSE outcome' = "error" /\ UNCHANGED <<idFrequencyMap, idTimestampMap>>
  /\ UNCHANGED file

(* A file that is not there; the constructor prints a line either way, and *)
(* the processor is used with what the map holds.                          *)
openFails ==
  /\ next = 1 /\ outcome = "reading"
  /\ outcome' = "error"
  /\ UNCHANGED <<file, next, strings, idFrequencyMap, idTimestampMap>>

Next == readEntry \/ openFails

Spec == Init /\ [][Next]_vars

-----------------------------------------------------------------------------
(* Reference: the words of entry k of the file, and whether it is whole.   *)
Entry(k)  == SubSeq(words, 4 * k - 3, 4 * k)
Whole(k)  == 4 * k <= Len(words)
Good(k)   == Whole(k) /\ Accepted(Entry(k))
Id(k)     == IntOf[Entry(k)[1]]

(* Whatever the file says and wherever it breaks off, what the notifier    *)
(* and the frame thread are given can be used: each ID has a stamp and     *)
(* three positive thresholds in order.                                     *)
ThresholdsUsable ==
  /\ DOMAIN idFrequencyMap = DOMAIN idTimestampMap
  /\ \A id \in DOMAIN idFrequencyMap :
       LET t == idFrequencyMap[id] IN 0 < t[1] /\ t[1] <= t[2] /\ t[2] <= t[3]

(* The map is the file: every whole entry up to the first bad one is in    *)
(* it, the first one of an ID counts, and nothing else is in it but one    *)
(* entry made of the words that break off at the end and the words of the  *)
(* entry before.                                                           *)
Reads(k) == \A j \in 1 .. k : Good(j)

MixedEntry(k) ==
  [f \in Fields |-> IF 4 * k + f \in DOMAIN words THEN words[4 * k + f] ELSE Entry(k)[f]]

LoadedIsTheFile ==
  outcome # "reading" /\ next > 1 =>
    LET n     == Len(words) \div 4
        read  == {k \in 1 .. n : Reads(k)}
        first(id) == CHOOSE k \in read : Id(k) = id /\ \A j \in read : Id(j) = id => k <= j
        ids   == {Id(k) : k \in read}
        rest  == Len(words) % 4
        mixed == MixedEntry(n)
        mix   == rest # 0 /\ n # 0 /\ n \in read /\ Accepted(mixed)
    IN
    /\ \A id \in ids : idFrequencyMap[id] = Thresholds(Entry(first(id)))
    /\ DOMAIN idFrequencyMap = ids \cup (IF mix THEN {IntOf[mixed[1]]} ELSE {})
    /\ mix /\ IntOf[mixed[1]] \notin ids
         => idFrequencyMap[IntOf[mixed[1]]] = Thresholds(mixed)
    /\ outcome = "loaded" <=> n # 0 /\ n \in read /\ (rest # 0 => mix)
=============================================================================
