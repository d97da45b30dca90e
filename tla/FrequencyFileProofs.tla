------------------------- MODULE FrequencyFileProofs -------------------------
(***************************************************************************)
(* Proofs about the loader of the frequency file: for files of any words   *)
(* and any length.                                                         *)
(***************************************************************************)
EXTENDS FrequencyFile, SequenceTheorems, WellFoundedInduction, TLAPS

(* What an accepted entry brings into the map can be used.                 *)
LEMMA AcceptedUsable ==
  ASSUME NEW s, Accepted(s)
  PROVE  LET t == Thresholds(s) IN 0 < t[1] /\ t[1] <= t[2] /\ t[2] <= t[3]
<1>1. \A f \in 1 .. 4 : IntOf[s[f]] \in Int
  BY WordAssumption DEF Accepted, Fields, getIntFromString
<1>2. IntOf[s[2]] > 0
  BY DEF Accepted
<1>3. IntOf[s[2]] <= IntOf[s[3]] /\ IntOf[s[3]] <= IntOf[s[4]]
  BY DEF Accepted
<1> QED
  BY <1>1, <1>2, <1>3 DEF Thresholds

(* Whatever the frequency file says and wherever it breaks off, each ID    *)
(* that is watched has three positive thresholds in order and a stamp.     *)
THEOREM LoadedIsUsable == Spec => []ThresholdsUsable
<1>1. Init => ThresholdsUsable
  BY DEF Init, ThresholdsUsable
<1>2. ThresholdsUsable /\ [Next]_vars => ThresholdsUsable'
  <2> SUFFICES ASSUME ThresholdsUsable, [Next]_vars
               PROVE  ThresholdsUsable'
    OBVIOUS
  <2>1. CASE readEntry
    <3>1. CASE Accepted(strings')
      <4> DEFINE id == IntOf[strings'[1]]
                 t  == Thresholds(strings')
      <4>1. /\ idFrequencyMap' = Insert(idFrequencyMap, id, t)
            /\ idTimestampMap' = Insert(idTimestampMap, id, 0)
        BY <2>1, <3>1 DEF readEntry
      <4>2. 0 < t[1] /\ t[1] <= t[2] /\ t[2] <= t[3]
        BY <3>1, AcceptedUsable
      <4> HIDE DEF id, t
      <4>3. DOMAIN idFrequencyMap' = DOMAIN idTimestampMap'
        BY <4>1 DEF Insert, ThresholdsUsable
      <4>4. ASSUME NEW k \in DOMAIN idFrequencyMap'
            PROVE  LET u == idFrequencyMap'[k]
                   IN  0 < u[1] /\ u[1] <= u[2] /\ u[2] <= u[3]
        <5>1. CASE k \in DOMAIN idFrequencyMap
          BY <4>1, <5>1 DEF Insert, ThresholdsUsable
        <5>2. CASE k \notin DOMAIN idFrequencyMap
          <6>1. idFrequencyMap'[k] = t
            BY <4>1, <5>2 DEF Insert
          <6> QED
            BY <4>2, <6>1
        <5> QED
          BY <5>1, <5>2
      <4> QED
        BY <4>3, <4>4 DEF ThresholdsUsable
    <3>2. CASE ~Accepted(strings')
      BY <2>1, <3>2 DEF readEntry, ThresholdsUsable
    <3> QED
      BY <3>1, <3>2
  <2>2. CASE openFails
    BY <2>2 DEF openFails, ThresholdsUsable
  <2>3. CASE UNCHANGED vars
    BY <2>3 DEF vars, ThresholdsUsable
  <2> QED
    BY <2>1, <2>2, <2>3 DEF Next
<1> QED
  BY <1>1, <1>2, PTL DEF Spec


-----------------------------------------------------------------------------
(* Four fields make an entry what it is.                                   *)
LEMMA SameFields ==
  ASSUME NEW s, NEW t, \A f \in Fields : s[f] = t[f]
  PROVE  (Accepted(s) <=> Accepted(t)) /\ Thresholds(s) = Thresholds(t)
<1>1. Fields = 1 .. 4 /\ \A f \in 1 .. 3 : f + 1 \in Fields
  BY DEF Fields
<1>2. /\ \A f \in 2 .. 4 : s[f] = t[f]
      /\ \A f \in 1 .. 3 : s[f + 1] = t[f + 1]
  BY <1>1
<1>3. \A f \in 2 .. 3 : s[f] = t[f] /\ s[f + 1] = t[f + 1]
  BY <1>2
<1>4. Accepted(s) <=> Accepted(t)
  BY <1>2, <1>3 DEF Accepted
<1>5. QED
  BY <1>2, <1>4 DEF Thresholds

LEMMA EntryFields ==
  ASSUME words \in Seq(Words), NEW k \in Nat \ {0}, Whole(k), NEW f \in Fields
  PROVE  Entry(k)[f] = words[4 * (k - 1) + f] /\ 4 * (k - 1) + f \in DOMAIN words
<1>1. 4 * k \in Nat /\ 4 * k - 3 \in Nat \ {0} /\ 4 * k <= Len(words) /\ Len(words) \in Nat
  BY DEF Whole
<1>2. PICK a \in Nat, b \in Nat : a = 4 * k - 3 /\ b = 4 * k
  BY <1>1
<1>3. f \in 1 .. (1 + b - a) /\ f + a - 1 = 4 * (k - 1) + f /\ f + a - 1 \in 1 .. Len(words)
  BY <1>1, <1>2 DEF Fields
<1>4. SubSeq(words, a, b)[f] = words[f + a - 1]
  BY <1>3
<1>5. QED
  BY <1>2, <1>3, <1>4 DEF Entry

LEMMA Quarters ==
  ASSUME NEW l \in Nat
  PROVE  l \div 4 \in Nat /\ l % 4 \in 0 .. 3 /\ l = 4 * (l \div 4) + (l % 4)
OBVIOUS

-----------------------------------------------------------------------------
(* The map after m entries: the first entry of an ID counts.               *)
MapIs(map, m) ==
  /\ DOMAIN map = {Id(k) : k \in 1 .. m}
  /\ \A k \in 1 .. m :
       (\A j \in 1 .. (k - 1) : Id(j) # Id(k)) => map[Id(k)] = Thresholds(Entry(k))

(* In the middle of the file: m entries have been read, all of them good,  *)
(* and the strings hold the last one.                                      *)
MiddleInv ==
  outcome = "reading" =>
    \E m \in Nat :
      /\ next = 4 * m + 1
      /\ 4 * m <= Len(words)
      /\ Reads(m)
      /\ MapIs(idFrequencyMap, m)
      /\ \A f \in Fields :
           strings[f] = IF m = 0 THEN Unread ELSE words[4 * (m - 1) + f]

(* At the end: the entry after m good ones is bad, or the file has ended,  *)
(* and what it breaks off with makes an entry with the one before or not.  *)
Broken(m) == Len(words) % 4 # 0 /\ m # 0 /\ Accepted(MixedEntry(m))

EndInv ==
  outcome # "reading" /\ next > 1 =>
    \E m \in 0 .. (Len(words) \div 4) :
      /\ Reads(m)
      /\ \/ /\ m < Len(words) \div 4 /\ ~Good(m + 1)
            /\ MapIs(idFrequencyMap, m) /\ outcome = "error"
         \/ /\ m = Len(words) \div 4 /\ ~Broken(m)
            /\ MapIs(idFrequencyMap, m)
            /\ outcome = "loaded" <=> m # 0 /\ Len(words) % 4 = 0
         \/ /\ m = Len(words) \div 4 /\ Broken(m) /\ outcome = "loaded"
            /\ \E map : /\ MapIs(map, m)
                        /\ idFrequencyMap = Insert(map, IntOf[MixedEntry(m)[1]],
                                                   Thresholds(MixedEntry(m)))

LoaderInv == words \in Seq(Words) /\ MiddleInv /\ EndInv

LEMMA MapGrows ==
  ASSUME NEW m \in Nat, NEW map, MapIs(map, m)
  PROVE  MapIs(Insert(map, Id(m + 1), Thresholds(Entry(m + 1))), m + 1)
<1> DEFINE id == Id(m + 1)
           t == Thresholds(Entry(m + 1))
<1>1. \A k \in 1 .. (m + 1) : k \in 1 .. m \/ k = m + 1
  OBVIOUS
<1>2. 1 .. m \subseteq 1 .. (m + 1) /\ m + 1 \in 1 .. (m + 1) /\ 1 .. (m + 1 - 1) = 1 .. m
  OBVIOUS
<1>3. DOMAIN map = {Id(k) : k \in 1 .. m}
  BY DEF MapIs
<1>4. DOMAIN Insert(map, id, t) = {Id(k) : k \in 1 .. (m + 1)}
  BY <1>1, <1>2, <1>3 DEF Insert
<1>5. ASSUME NEW k \in 1 .. (m + 1), \A j \in 1 .. (k - 1) : Id(j) # Id(k)
      PROVE  Insert(map, id, t)[Id(k)] = Thresholds(Entry(k))
  <2>1. CASE k \in 1 .. m
    BY <1>3, <1>5, <2>1 DEF Insert, MapIs
  <2>2. CASE k = m + 1
    <3>1. id \notin DOMAIN map
      BY <1>2, <1>3, <1>5, <2>2
    <3>2. QED
      BY <2>2, <3>1 DEF Insert
  <2>3. QED
    BY <1>1, <2>1, <2>2
<1>6. QED
  BY <1>4, <1>5 DEF MapIs


LEMMA MapStays ==
  ASSUME NEW m \in Nat, NEW map, MapIs(map, m), NEW id \in DOMAIN map, NEW t
  PROVE  MapIs(Insert(map, id, t), m)
<1>1. /\ DOMAIN Insert(map, id, t) = DOMAIN map
      /\ \A k \in DOMAIN map : Insert(map, id, t)[k] = map[k]
  BY DEF Insert
<1>2. \A k \in 1 .. m : Id(k) \in DOMAIN map
  BY DEF MapIs
<1>3. QED
  BY <1>1, <1>2 DEF MapIs

LEMMA FileKept ==
  ASSUME words' = words
  PROVE  /\ \A k : Entry(k)' = Entry(k) /\ Id(k)' = Id(k) /\ MixedEntry(k)' = MixedEntry(k)
         /\ \A k : (Good(k)' <=> Good(k)) /\ (Broken(k)' <=> Broken(k))
         /\ \A m : Reads(m)' <=> Reads(m)
         /\ \A map, m : MapIs(map, m) => MapIs(map, m)'
<1>1. \A k : Entry(k)' = Entry(k)
  BY DEF Entry
<1>2. \A k : Id(k)' = Id(k) /\ MixedEntry(k)' = MixedEntry(k) /\ (Good(k)' <=> Good(k))
  BY <1>1 DEF Id, MixedEntry, Good, Whole
<1>3. \A k : Broken(k)' <=> Broken(k)
  BY <1>2 DEF Broken
<1>4. \A m : Reads(m)' <=> Reads(m)
  BY <1>2 DEF Reads
<1>5. \A map, m : MapIs(map, m) => MapIs(map, m)'
  BY <1>1, <1>2 DEF MapIs
<1>6. QED
  BY <1>1, <1>2, <1>3, <1>4, <1>5

(* One turn of the loop, after m entries that were good.                   *)
LEMMA TurnReads ==
  ASSUME words \in Seq(Words), NEW m \in Nat, next = 4 * m + 1, extract, NEW f \in Fields
  PROVE  strings'[f] = IF 4 * m + f <= Len(words) THEN words[4 * m + f] ELSE strings[f]
<1>1. next + f - 1 = 4 * m + f /\ 4 * m + f \in Nat \ {0}
  BY DEF Fields
<1>2. strings'[f] = IF 4 * m + f \in DOMAIN words THEN words[4 * m + f] ELSE strings[f]
  BY <1>1 DEF extract
<1>3. 4 * m + f \in DOMAIN words <=> 4 * m + f <= Len(words)
  BY <1>1
<1>4. QED
  BY <1>2, <1>3

LEMMA TurnWhole ==
  ASSUME LoaderInv, readEntry, NEW m \in Nat, next = 4 * m + 1, Reads(m),
         MapIs(idFrequencyMap, m), 4 * (m + 1) <= Len(words)
  PROVE  MiddleInv' /\ EndInv'
<1> DEFINE l == Len(words)
<1>1. l \in Nat /\ words \in Seq(Words) /\ extract /\ words' = words
      /\ next' = 4 * (m + 1) + 1
  BY DEF LoaderInv, readEntry, file
<1>2. ASSUME NEW f \in Fields
      PROVE  strings'[f] = words[4 * m + f] /\ strings'[f] = Entry(m + 1)[f]
  <2>1. 4 * m + f <= l
    BY <1>1 DEF Fields
  <2>2. strings'[f] = words[4 * m + f]
    BY <1>1, <2>1, TurnReads
  <2>3. Whole(m + 1) /\ m + 1 \in Nat \ {0} /\ 4 * (m + 1 - 1) = 4 * m
    BY DEF Whole
  <2>4. Entry(m + 1)[f] = words[4 * (m + 1 - 1) + f]
    BY <1>1, <2>3, EntryFields
  <2>5. QED
    BY <2>2, <2>3, <2>4
<1>3. /\ Accepted(strings') <=> Good(m + 1)
      /\ Thresholds(strings') = Thresholds(Entry(m + 1))
      /\ IntOf[strings'[1]] = Id(m + 1)
  BY <1>2, SameFields DEF Good, Whole, Id, Fields
<1>4. /\ l \div 4 \in Nat /\ l % 4 \in 0 .. 3 /\ l = 4 * (l \div 4) + (l % 4)
  BY <1>1, Quarters
<1>5. CASE Accepted(strings')
  <2>1. Reads(m + 1)
    <3>1. \A k \in 1 .. (m + 1) : k \in 1 .. m \/ k = m + 1
      OBVIOUS
    <3>2. QED
      BY <1>3, <1>5, <3>1 DEF Reads
  <2>2. idFrequencyMap' = Insert(idFrequencyMap, Id(m + 1), Thresholds(Entry(m + 1)))
        /\ outcome' = IF GoodAfter THEN "reading" ELSE "loaded"
    BY <1>3, <1>5 DEF readEntry
  <2>3. MapIs(idFrequencyMap, m + 1)'
    <3>1. MapIs(idFrequencyMap', m + 1)
      BY <2>2, MapGrows
    <3>2. QED
      BY <1>1, <3>1, FileKept DEF MapIs
  <2>4. Reads(m + 1)' /\ Len(words') = l
    BY <1>1, <2>1, FileKept
  <2>5. CASE GoodAfter
    <3>1. \A f \in Fields : strings'[f] = words'[4 * (m + 1 - 1) + f]
      BY <1>1, <1>2
    <3>2. m + 1 \in Nat /\ m + 1 # 0 /\ 4 * (m + 1) <= l
      OBVIOUS
    <3>3. MiddleInv'
      BY <1>1, <2>3, <2>4, <3>1, <3>2 DEF MiddleInv
    <3>4. EndInv'
      BY <2>2, <2>5 DEF EndInv
    <3>5. QED
      BY <3>3, <3>4
  <2>6. CASE ~GoodAfter
    <3>1. outcome' = "loaded"
      BY <2>2, <2>6
    <3>2. l = 4 * m + 4
      BY <1>1, <2>6 DEF GoodAfter
    <3>3. m + 1 = l \div 4 /\ l % 4 = 0 /\ m + 1 # 0 /\ m + 1 \in 0 .. (l \div 4)
      BY <1>4, <3>2
    <3>4. ~Broken(m + 1)'
      BY <1>1, <3>3 DEF Broken
    <3>5. EndInv'
      BY <1>1, <2>3, <2>4, <3>1, <3>3, <3>4 DEF EndInv
    <3>6. QED
      BY <3>1, <3>5 DEF MiddleInv
  <2>7. QED
    BY <2>5, <2>6
<1>6. CASE ~Accepted(strings')
  <2>1. outcome' = "error" /\ idFrequencyMap' = idFrequencyMap
    BY <1>6 DEF readEntry
  <2>2. m < l \div 4 /\ m \in 0 .. (l \div 4) /\ Len(words') = l
    BY <1>1, <1>4
  <2>3. ~Good(m + 1)' /\ Reads(m)' /\ MapIs(idFrequencyMap, m)'
    BY <1>1, <1>3, <1>6, <2>1, FileKept DEF MapIs
  <2>4. EndInv'
    BY <2>1, <2>2, <2>3 DEF EndInv
  <2>5. QED
    BY <2>1, <2>4 DEF MiddleInv
<1>7. QED
  BY <1>5, <1>6


LEMMA TurnBroken ==
  ASSUME LoaderInv, readEntry, NEW m \in Nat, next = 4 * m + 1, Reads(m),
         MapIs(idFrequencyMap, m), 4 * m <= Len(words), ~(4 * (m + 1) <= Len(words)),
         \A f \in Fields : strings[f] = IF m = 0 THEN Unread ELSE words[4 * (m - 1) + f]
  PROVE  MiddleInv' /\ EndInv'
<1> DEFINE l == Len(words)
<1>1. l \in Nat /\ words \in Seq(Words) /\ extract /\ words' = words /\ Len(words') = l
  BY DEF LoaderInv, readEntry, file
<1>2. /\ m = l \div 4 /\ m \in 0 .. (l \div 4) /\ 4 * m + 3 >= l
      /\ l % 4 \in 0 .. 3 /\ l = 4 * m + (l % 4)
  BY <1>1, Quarters
<1>3. outcome' = IF Accepted(strings') THEN "loaded" ELSE "error"
  <2>1. ~GoodAfter
    BY <1>1, <1>2 DEF GoodAfter
  <2>2. QED
    BY <2>1 DEF readEntry
<1>4. Reads(m)' /\ (Broken(m)' <=> Broken(m))
  BY <1>1, FileKept
<1>5. CASE m = 0
  <2>1. ~Accepted(strings')
    <3>1. 4 \in Fields /\ strings'[4] = Unread
      <4>1. 4 \in Fields /\ ~(4 * m + 4 <= l)
        BY <1>1, <1>2 DEF Fields
      <4>2. QED
        BY <1>1, <1>5, <4>1, TurnReads
    <3>2. ~getIntFromString(strings'[4])
      BY <3>1, WordAssumption DEF getIntFromString
    <3>3. QED
      BY <3>1, <3>2 DEF Accepted
  <2>2. outcome' = "error" /\ idFrequencyMap' = idFrequencyMap
    BY <1>3, <2>1 DEF readEntry
  <2>3. MapIs(idFrequencyMap, m)' /\ ~Broken(m)'
    BY <1>1, <1>4, <1>5, <2>2, FileKept DEF MapIs, Broken
  <2>4. EndInv'
    BY <1>1, <1>2, <1>4, <1>5, <2>2, <2>3 DEF EndInv
  <2>5. QED
    BY <2>2, <2>4 DEF MiddleInv
<1>6. CASE m # 0
  <2> DEFINE mixed == MixedEntry(m)
             id == IntOf[mixed[1]]
             t == Thresholds(mixed)
  <2>1. ASSUME NEW f \in Fields
        PROVE  /\ strings'[f] = mixed[f]
               /\ l % 4 = 0 => mixed[f] = Entry(m)[f]
    <3>1. m \in Nat \ {0} /\ Whole(m)
      BY <1>6 DEF Whole
    <3>2. Entry(m)[f] = words[4 * (m - 1) + f]
      BY <1>1, <3>1, EntryFields
    <3>3. 4 * m + f \in DOMAIN words <=> 4 * m + f <= l
      BY <1>1 DEF Fields
    <3>4. mixed[f] = IF 4 * m + f <= l THEN words[4 * m + f] ELSE Entry(m)[f]
      BY <3>3 DEF MixedEntry
    <3>5. strings'[f] = IF 4 * m + f <= l THEN words[4 * m + f] ELSE strings[f]
      BY <1>1, TurnReads
    <3>6. l % 4 = 0 => ~(4 * m + f <= l)
      BY <1>1, <1>2 DEF Fields
    <3>7. QED
      BY <1>6, <3>2, <3>4, <3>5, <3>6
  <2>2. /\ Accepted(strings') <=> Accepted(mixed)
        /\ Thresholds(strings') = t /\ IntOf[strings'[1]] = id
    BY <2>1, SameFields DEF Fields
  <2>3. idFrequencyMap' = IF Accepted(mixed) THEN Insert(idFrequencyMap, id, t)
                                             ELSE idFrequencyMap
    BY <2>2 DEF readEntry
  <2>4. CASE l % 4 = 0
    <3>1. m \in 1 .. m
      BY <1>6
    <3>2. Accepted(mixed) /\ id = Id(m)
      <4>1. Accepted(Entry(m))
        BY <3>1 DEF Reads, Good
      <4>2. \A f \in Fields : mixed[f] = Entry(m)[f]
        BY <2>1, <2>4
      <4> HIDE DEF mixed
      <4>3. Accepted(mixed)
        BY <4>1, <4>2, SameFields
      <4>4. id = Id(m)
        BY <4>2 DEF Id, Fields
      <4>5. QED
        BY <4>3, <4>4
    <3>3. id \in DOMAIN idFrequencyMap
      BY <3>1, <3>2 DEF MapIs
    <3>4. MapIs(idFrequencyMap', m)
      BY <2>3, <3>2, <3>3, MapStays
    <3>5. MapIs(idFrequencyMap, m)'
      BY <1>1, <3>4, FileKept DEF MapIs
    <3>6. outcome' = "loaded" /\ ~Broken(m)'
      BY <1>3, <1>4, <2>2, <2>4, <3>2 DEF Broken
    <3>7. EndInv'
      BY <1>1, <1>2, <1>4, <1>6, <2>4, <3>5, <3>6 DEF EndInv
    <3>8. QED
      BY <3>6, <3>7 DEF MiddleInv
  <2>5. CASE l % 4 # 0 /\ Accepted(mixed)
    <3>1. Broken(m)'
      BY <1>4, <1>6, <2>5 DEF Broken
    <3>2. outcome' = "loaded"
      BY <1>3, <2>2, <2>5
    <3>3. \E map : MapIs(map, m)' /\ idFrequencyMap' = Insert(map, id, t)
      BY <1>1, <2>3, <2>5, FileKept
    <3>4. MixedEntry(m)' = mixed
      BY <1>1, FileKept
    <3>5. \E map : /\ MapIs(map, m)'
                   /\ idFrequencyMap' = Insert(map, IntOf[MixedEntry(m)'[1]],
                                               Thresholds(MixedEntry(m)'))
      BY <3>3, <3>4
    <3>6. EndInv'
      BY <1>1, <1>2, <1>4, <3>1, <3>2, <3>5 DEF EndInv
    <3>7. QED
      BY <3>2, <3>6 DEF MiddleInv
  <2>6. CASE l % 4 # 0 /\ ~Accepted(mixed)
    <3>1. outcome' = "error" /\ idFrequencyMap' = idFrequencyMap
      BY <1>3, <2>2, <2>3, <2>6
    <3>2. MapIs(idFrequencyMap, m)' /\ ~Broken(m)'
      BY <1>1, <1>4, <2>6, <3>1, FileKept DEF MapIs, Broken
    <3>3. EndInv'
      BY <1>1, <1>2, <1>4, <2>6, <3>1, <3>2 DEF EndInv
    <3>4. QED
      BY <3>1, <3>3 DEF MiddleInv
  <2>7. QED
    BY <2>4, <2>5, <2>6
<1>7. QED
  BY <1>5, <1>6

LEMMA LoaderNext == LoaderInv /\ Next => LoaderInv'
<1> SUFFICES ASSUME LoaderInv, Next PROVE LoaderInv'
  OBVIOUS
<1>1. words' \in Seq(Words)
  BY DEF LoaderInv, Next, readEntry, openFails, file
<1>2. CASE readEntry
  <2>1. PICK m \in Nat :
          /\ next = 4 * m + 1
          /\ 4 * m <= Len(words)
          /\ Reads(m)
          /\ MapIs(idFrequencyMap, m)
          /\ \A f \in Fields :
               strings[f] = IF m = 0 THEN Unread ELSE words[4 * (m - 1) + f]
    BY <1>2 DEF LoaderInv, MiddleInv, readEntry
  <2>2. MiddleInv' /\ EndInv'
    BY <1>2, <2>1, TurnWhole, TurnBroken
  <2>3. QED
    BY <1>1, <2>2 DEF LoaderInv
<1>3. CASE openFails
  BY <1>1, <1>3 DEF openFails, LoaderInv, MiddleInv, EndInv
<1>4. QED
  BY <1>2, <1>3 DEF Next

LEMMA LoaderInvariant == Spec => []LoaderInv
<1>1. Init => LoaderInv
  <2> SUFFICES ASSUME Init PROVE LoaderInv
    OBVIOUS
  <2>1. words \in Seq(Words) /\ next = 4 * 0 + 1 /\ 4 * 0 <= Len(words) /\ outcome = "reading"
    BY DEF Init
  <2>2. Reads(0)
    BY DEF Reads
  <2>3. MapIs(idFrequencyMap, 0)
    <3>1. idFrequencyMap = <<>>
      BY DEF Init
    <3>2. QED
      BY <3>1 DEF MapIs
  <2>4. \A f \in Fields : strings[f] = Unread
    BY DEF Init
  <2>5. MiddleInv
    BY <2>1, <2>2, <2>3, <2>4 DEF MiddleInv
  <2>6. QED
    BY <2>1, <2>5 DEF LoaderInv, EndInv
<1>2. LoaderInv /\ UNCHANGED vars => LoaderInv'
  <2> SUFFICES ASSUME LoaderInv, UNCHANGED vars PROVE LoaderInv'
    OBVIOUS
  <2>1. UNCHANGED <<words, newline, next, strings, idFrequencyMap, outcome>>
    BY DEF vars, file
  <2>2. MiddleInv'
    BY <2>1, FileKept, ZenonT(60) DEF LoaderInv, MiddleInv, MapIs
  <2>3. EndInv'
    BY <2>1, FileKept, ZenonT(60) DEF LoaderInv, EndInv, MapIs
  <2>4. QED
    BY <2>1, <2>2, <2>3 DEF LoaderInv
<1>3. QED
  BY <1>1, <1>2, LoaderNext, PTL DEF Spec


-----------------------------------------------------------------------------
(* The first entry of an ID, as LoadedIsTheFile chooses it.                *)
FirstOf(read, id) ==
  CHOOSE k \in read : Id(k) = id /\ \A j \in read : Id(j) = id => k <= j

LEMMA FirstExists ==
  ASSUME NEW m \in Nat, NEW id \in {Id(k) : k \in 1 .. m}
  PROVE  /\ FirstOf(1 .. m, id) \in 1 .. m
         /\ Id(FirstOf(1 .. m, id)) = id
         /\ \A j \in 1 .. (FirstOf(1 .. m, id) - 1) : Id(j) # id
<1> DEFINE I == {k \in 1 .. m : Id(k) = id}
           R == {ss \in Nat \X Nat : ss[1] < ss[2]}
<1>1. IsWellFoundedOn(R, Nat)
  BY NatLessThanWellFounded DEF OpToRel
<1>2. I \subseteq Nat /\ I # {}
  OBVIOUS
<1> HIDE DEF R
<1>3. PICK x \in I : \A y \in I : ~(<<y, x>> \in R)
  BY <1>1, <1>2, WFMin
<1>4. ASSUME NEW y \in I PROVE x <= y
  <2>1. x \in Nat /\ y \in Nat /\ ~(<<y, x>> \in R)
    BY <1>3
  <2>2. QED
    BY <2>1 DEF R
<1>5. \E k \in 1 .. m : Id(k) = id /\ \A j \in 1 .. m : Id(j) = id => k <= j
  BY <1>3, <1>4
<1> DEFINE k == FirstOf(1 .. m, id)
<1>6. k \in 1 .. m /\ Id(k) = id /\ \A j \in 1 .. m : Id(j) = id => k <= j
  BY <1>5 DEF FirstOf
<1> HIDE DEF k
<1>7. ASSUME NEW j \in 1 .. (k - 1) PROVE Id(j) # id
  BY <1>6
<1>8. QED
  BY <1>6, <1>7 DEF k

LEMMA LoadedFromEnd == LoaderInv => LoadedIsTheFile
<1> SUFFICES ASSUME LoaderInv, outcome # "reading", next > 1
             PROVE  LoadedIsTheFile
  BY DEF LoadedIsTheFile
<1> DEFINE n     == Len(words) \div 4
           read  == {k \in 1 .. n : Reads(k)}
           first(id) == CHOOSE k \in read : Id(k) = id /\ \A j \in read : Id(j) = id => k <= j
           ids   == {Id(k) : k \in read}
           rest  == Len(words) % 4
           mixed == MixedEntry(n)
           mix   == rest # 0 /\ n # 0 /\ n \in read /\ Accepted(mixed)
<1>1. n \in Nat
  BY Quarters DEF LoaderInv
<1>2. PICK m \in 0 .. n :
        /\ Reads(m)
        /\ \/ m < n /\ ~Good(m + 1) /\ MapIs(idFrequencyMap, m) /\ outcome = "error"
           \/ /\ m = n /\ ~Broken(m) /\ MapIs(idFrequencyMap, m)
              /\ outcome = "loaded" <=> m # 0 /\ rest = 0
           \/ /\ m = n /\ Broken(m) /\ outcome = "loaded"
              /\ \E map : /\ MapIs(map, m)
                          /\ idFrequencyMap = Insert(map, IntOf[MixedEntry(m)[1]],
                                                     Thresholds(MixedEntry(m)))
  BY DEF LoaderInv, EndInv
<1>3. m < n => ~Good(m + 1)
  BY <1>1, <1>2
<1> HIDE DEF n
<1>4. read = 1 .. m
  <2>1. ASSUME NEW k \in 1 .. m PROVE k \in read
    <3>1. k \in 1 .. n /\ 1 .. k \subseteq 1 .. m
      BY <1>1, <1>2
    <3>2. QED
      BY <1>2, <3>1 DEF Reads
  <2>2. ASSUME NEW k \in read, k > m PROVE FALSE
    <3>1. m < n /\ m + 1 \in 1 .. k
      BY <1>1, <1>2, <2>2
    <3>2. QED
      BY <1>3, <2>2, <3>1 DEF Reads
  <2>3. \A k \in read : k \in 1 .. m
    BY <1>1, <1>2, <2>2
  <2>4. QED
    BY <2>1, <2>3
<1>5. ids = {Id(k) : k \in 1 .. m} /\ m \in Nat /\ \A id : first(id) = FirstOf(1 .. m, id)
  BY <1>1, <1>2, <1>4 DEF FirstOf
<1>6. ASSUME NEW map, MapIs(map, m)
      PROVE  /\ DOMAIN map = ids
             /\ \A id \in ids : map[id] = Thresholds(Entry(first(id)))
  <2>1. DOMAIN map = ids
    BY <1>5, <1>6 DEF MapIs
  <2>2. ASSUME NEW id \in ids PROVE map[id] = Thresholds(Entry(first(id)))
    <3>1. PICK k \in 1 .. m : k = FirstOf(1 .. m, id)
      BY <1>5, FirstExists
    <3>2. Id(k) = id /\ \A j \in 1 .. (k - 1) : Id(j) # id
      BY <1>5, <3>1, FirstExists
    <3>3. map[id] = Thresholds(Entry(k))
      BY <1>6, <3>2 DEF MapIs
    <3>4. QED
      BY <1>5, <3>1, <3>3
  <2>3. QED
    BY <2>1, <2>2
<1>7. mix <=> m = n /\ Broken(m)
  <2>1. n \in read /\ n # 0 <=> m = n /\ n # 0
    BY <1>1, <1>2, <1>4
  <2>2. QED
    BY <2>1 DEF Broken
<1>8. n # 0 /\ n \in read <=> m # 0 /\ m = n
  BY <1>1, <1>2, <1>4
<1> HIDE DEF read, first, ids, rest, mixed, mix
<1>9. CASE ~mix
  <2>1. MapIs(idFrequencyMap, m)
    BY <1>2, <1>7, <1>9
  <2>2. outcome = "loaded" <=> m = n /\ m # 0 /\ rest = 0
    BY <1>2, <1>7, <1>9
  <2>3. /\ \A id \in ids : idFrequencyMap[id] = Thresholds(Entry(first(id)))
        /\ DOMAIN idFrequencyMap = ids \cup (IF mix THEN {IntOf[mixed[1]]} ELSE {})
    BY <1>6, <1>9, <2>1
  <2>4. outcome = "loaded" <=> n # 0 /\ n \in read /\ (rest # 0 => mix)
    BY <1>8, <1>9, <2>2
  <2>5. QED
    BY <1>9, <2>3, <2>4, Zenon DEF LoadedIsTheFile, n, read, first, ids, rest, mixed, mix
<1>10. CASE mix
  <2>1. m = n /\ Broken(m) /\ outcome = "loaded"
    BY <1>2, <1>7, <1>10
  <2>2. PICK map : /\ MapIs(map, m)
                   /\ idFrequencyMap = Insert(map, IntOf[mixed[1]], Thresholds(mixed))
    BY <1>2, <2>1 DEF mixed
  <2>3. /\ DOMAIN map = ids
        /\ \A id \in ids : map[id] = Thresholds(Entry(first(id)))
    BY <1>6, <2>2
  <2>4. /\ \A id \in ids : idFrequencyMap[id] = Thresholds(Entry(first(id)))
        /\ DOMAIN idFrequencyMap = ids \cup {IntOf[mixed[1]]}
        /\ IntOf[mixed[1]] \notin ids => idFrequencyMap[IntOf[mixed[1]]] = Thresholds(mixed)
    BY <2>2, <2>3 DEF Insert
  <2>5. outcome = "loaded" <=> n # 0 /\ n \in read /\ (rest # 0 => mix)
    BY <1>8, <1>10, <2>1 DEF Broken
  <2>6. QED
    BY <1>10, <2>4, <2>5, Zenon DEF LoadedIsTheFile, n, read, first, ids, rest, mixed, mix
<1>11. QED
  BY <1>9, <1>10

(* The map is the file up to its first bad entry, and the one entry that   *)
(* can be made of two is named, for files of any length.                   *)
THEOREM FileLoaded == Spec => []LoadedIsTheFile
BY LoaderInvariant, LoadedFromEnd, PTL


-----------------------------------------------------------------------------
(* How many words the loop has still before it, and the turn it is in.     *)
WordsLeft == IF outcome = "reading" THEN (Len(words) - next) + 2 ELSE 0

(* While the loop goes on no read has gone past the end of the file.       *)
PlaceInv ==
  /\ words \in Seq(Words)
  /\ next \in Nat
  /\ outcome = "reading" => next <= Len(words) + 1

LEMMA PlaceNext == PlaceInv /\ [Next]_vars => PlaceInv'
<1> SUFFICES ASSUME PlaceInv, [Next]_vars PROVE PlaceInv'
  OBVIOUS
<1>1. PICK n \in Nat : n = Len(words)
  BY DEF PlaceInv
<1>2. CASE readEntry
  <2>1. words' = words /\ next' = next + 4 /\ next \in Nat
    BY <1>2 DEF readEntry, file, PlaceInv
  <2>2. outcome' = "reading" => next + 3 <= n
    BY <1>1, <1>2, <2>1 DEF readEntry, GoodAfter
  <2>3. QED
    BY <1>1, <2>1, <2>2 DEF PlaceInv
<1>3. CASE openFails \/ UNCHANGED vars
  BY <1>3 DEF openFails, file, vars, PlaceInv
<1>4. QED
  BY <1>2, <1>3 DEF Next

LEMMA WordsLeftDecrease ==
  PlaceInv /\ Next => WordsLeft \in Nat /\ WordsLeft' < WordsLeft
<1> SUFFICES ASSUME PlaceInv, Next PROVE WordsLeft \in Nat /\ WordsLeft' < WordsLeft
  OBVIOUS
<1>1. PICK n \in Nat : n = Len(words)
  BY DEF PlaceInv
<1>2. outcome = "reading" /\ next \in Nat /\ next <= n + 1
  BY <1>1 DEF Next, readEntry, openFails, PlaceInv
<1>3. WordsLeft = (n - next) + 2
  BY <1>1, <1>2 DEF WordsLeft
<1>4. CASE outcome' = "reading"
  <2>1. words' = words /\ next' = next + 4
    BY <1>4 DEF Next, readEntry, openFails, file
  <2>2. WordsLeft' = (n - (next + 4)) + 2
    BY <1>1, <1>4, <2>1 DEF WordsLeft
  <2>3. QED
    BY <1>2, <1>3, <2>2
<1>5. CASE outcome' # "reading"
  <2>1. WordsLeft' = 0
    BY <1>5 DEF WordsLeft
  <2>2. QED
    BY <1>2, <1>3, <2>1
<1>6. QED
  BY <1>4, <1>5

(* The loop on good() comes to an end for every file: each turn of it that *)
(* goes on has used words of the file, although no read looks at whether   *)
(* there was one.                                                          *)
THEOREM ReadingEnds ==
  Spec => [](WordsLeft \in Nat) /\ [][WordsLeft' < WordsLeft]_vars
<1>1. Init => PlaceInv
  BY DEF Init, PlaceInv
<1>2. PlaceInv /\ [Next]_vars => [WordsLeft' < WordsLeft]_vars
  BY WordsLeftDecrease
<1>3. PlaceInv => WordsLeft \in Nat
  <2> SUFFICES ASSUME PlaceInv PROVE WordsLeft \in Nat
    OBVIOUS
  <2>1. PICK n \in Nat : n = Len(words)
    BY DEF PlaceInv
  <2>2. next \in Nat /\ (outcome = "reading" => next <= n + 1)
    BY <2>1 DEF PlaceInv
  <2>3. WordsLeft = IF outcome = "reading" THEN (n - next) + 2 ELSE 0
    BY <2>1 DEF WordsLeft
  <2>4. QED
    BY <2>2, <2>3
<1>4. QED
  BY <1>1, <1>2, <1>3, PlaceNext, PTL DEF Spec
=============================================================================
