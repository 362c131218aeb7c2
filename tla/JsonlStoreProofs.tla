--------------------------- MODULE JsonlStoreProofs ---------------------------
(***************************************************************************)
(* What the store guarantees for any keys, values and lengths of the file, *)
(* and any of the mishaps.                                                 *)
(*                                                                         *)
(* Replay is recursive.  Facts about it are proved by induction in the     *)
(* form of LeastNumber: of the numbers for which a fact fails there is a   *)
(* least one, and it is neither zero nor the successor of another.         *)
(***************************************************************************)
EXTENDS JsonlStore, FiniteSetTheorems, TLAPS

\* A set of numbers has a least one: the intervals 0 .. n have a smallest one.
LEMMA LeastNumber ==
  ASSUME NEW S \in SUBSET Nat, S # {}
  PROVE  \E m \in S : \A n \in S : m <= n
  <1> DEFINE I == {0 .. n : n \in S}
  <1>1. I \subseteq FiniteSubsetsOf(Nat) /\ I # {}
    <2>1. ASSUME NEW n \in S PROVE 0 .. n \in SUBSET Nat /\ IsFiniteSet(0 .. n)
      BY FS_Interval
    <2> QED BY <2>1 DEF FiniteSubsetsOf
  <1>2. \E i \in I : \A j \in I : <<j, i>> \notin StrictSubsetOrdering(Nat)
    BY <1>1, FS_StrictSubsetOrderingWellFounded, WFMin, Zenon
  <1>3. PICK m \in S : \A n \in S : <<0 .. n, 0 .. m>> \notin StrictSubsetOrdering(Nat)
    BY <1>2
  <1>4. ASSUME NEW n \in S, n < m PROVE FALSE
    <2>1. 0 .. n \subseteq Nat /\ 0 .. m \subseteq Nat /\ 0 .. n \subseteq 0 .. m
      BY <1>4
    <2>2. m \in 0 .. m /\ m \notin 0 .. n
      BY <1>4
    <2> QED BY <1>3, <2>1, <2>2 DEF StrictSubsetOrdering
  <1> QED BY <1>4

-------------------------------------------------------------------------------
(* Replay.                                                                 *)

\* The dicts after each of the first n lines.
Upto(lines, n, f) ==
  f = [i \in 0 .. n |-> IF i = 0 THEN <<>> ELSE Put(f[i - 1], lines[i])]

LEMMA UptoExists ==
  ASSUME NEW lines, NEW n \in Nat
  PROVE  \E f : Upto(lines, n, f)
  <1> DEFINE bad == {k \in Nat : ~ \E f : Upto(lines, k, f)}
  <1> SUFFICES ASSUME bad # {} PROVE FALSE
    OBVIOUS
  <1>1. PICK m \in bad : \A k \in bad : m <= k
    BY LeastNumber, bad \subseteq Nat
  <1>2. Upto(lines, 0, [i \in 0 .. 0 |-> <<>>])
    BY DEF Upto
  <1>3. m # 0 /\ m - 1 \in Nat /\ m - 1 \notin bad
    BY <1>1, <1>2
  <1>4. PICK f : Upto(lines, m - 1, f)
    BY <1>3
  <1> DEFINE g == [i \in 0 .. m |-> IF i = m THEN Put(f[m - 1], lines[m]) ELSE f[i]]
  <1>5. ASSUME NEW i \in 0 .. m
        PROVE  g[i] = IF i = 0 THEN <<>> ELSE Put(g[i - 1], lines[i])
    <2>1. f = [j \in 0 .. m - 1 |-> IF j = 0 THEN <<>> ELSE Put(f[j - 1], lines[j])]
      BY <1>4 DEF Upto
    <2>2. CASE i = m
      BY <1>3, <2>2
    <2>3. CASE i # m
      <3>1. i \in 0 .. m - 1 /\ g[i] = f[i] /\ (i # 0 => g[i - 1] = f[i - 1])
        BY <1>3, <2>3
      <3> QED BY <2>1, <3>1
    <2> QED BY <2>2, <2>3
  <1>6. g = [i \in 0 .. m |-> g[i]]
    OBVIOUS
  <1>7. Upto(lines, m, g)
    <2> HIDE DEF g
    <2> QED BY <1>5, <1>6 DEF Upto
  <1> QED BY <1>1, <1>7

LEMMA ReplayIsUpto ==
  ASSUME NEW lines \in Seq(Entry)
  PROVE  \E f : Upto(lines, Len(lines), f) /\ Replay(lines) = f[Len(lines)]
  <1> DEFINE F == CHOOSE f : Upto(lines, Len(lines), f)
  <1>1. Upto(lines, Len(lines), F)
    BY UptoExists, Len(lines) \in Nat
  <1>2. Replay(lines) = F[Len(lines)]
    BY DEF Replay, Upto, Put
  <1> QED BY <1>1, <1>2

LEMMA ReplayEmpty == Replay(<<>>) = <<>>
  <1>1. PICK f : Upto(<<>>, Len(<<>>), f) /\ Replay(<<>>) = f[Len(<<>>)]
    BY ReplayIsUpto, <<>> \in Seq(Entry)
  <1> QED BY <1>1 DEF Upto

\* Reading one more line puts it into the dict.
LEMMA ReplayAppend ==
  ASSUME NEW lines \in Seq(Entry), NEW e \in Entry
  PROVE  Replay(Append(lines, e)) = Put(Replay(lines), e)
  <1> DEFINE more == Append(lines, e)
             n == Len(lines)
  <1>1. /\ more \in Seq(Entry) /\ Len(more) = n + 1 /\ n \in Nat
        /\ more[n + 1] = e /\ \A i \in 1 .. n : lines[i] = more[i]
    OBVIOUS
  <1>2. PICK f : Upto(lines, n, f) /\ Replay(lines) = f[n]
    BY ReplayIsUpto
  <1>3. PICK g : Upto(more, n + 1, g) /\ Replay(more) = g[n + 1]
    BY ReplayIsUpto, <1>1
  <1>4. g[n] = f[n]
    <2> DEFINE bad == {i \in 0 .. n : f[i] # g[i]}
    <2>1. SUFFICES ASSUME bad # {} PROVE FALSE
      BY <1>1
    <2>2. PICK i \in bad : \A k \in bad : i <= k
      BY <1>1, <2>1, LeastNumber, bad \subseteq Nat
    <2>3. /\ f = [j \in 0 .. n |-> IF j = 0 THEN <<>> ELSE Put(f[j - 1], lines[j])]
          /\ g = [j \in 0 .. n + 1 |-> IF j = 0 THEN <<>> ELSE Put(g[j - 1], more[j])]
      BY <1>2, <1>3 DEF Upto
    <2> HIDE DEF more, n
    <2>4. i # 0
      BY <1>1, <2>3
    <2>5. i - 1 \in 0 .. n /\ f[i - 1] = g[i - 1]
      BY <1>1, <2>2, <2>4
    <2>6. f[i] = Put(f[i - 1], lines[i]) /\ g[i] = Put(g[i - 1], more[i])
      BY <1>1, <2>3, <2>4
    <2> QED BY <1>1, <2>4, <2>5, <2>6
  <1>5. g[n + 1] = Put(g[n], more[n + 1])
    BY <1>1, <1>3 DEF Upto
  <1> QED BY <1>1, <1>2, <1>3, <1>4, <1>5

-------------------------------------------------------------------------------
(* Dicts: sequences of entries with distinct keys.                         *)

IsDict(d) ==
  d \in Seq(Entry) /\ \A i, j \in DOMAIN d : d[i].key = d[j].key => i = j

LEMMA PutIsDict ==
  ASSUME NEW d, IsDict(d), NEW e \in Entry
  PROVE  IsDict(Put(d, e)) /\ Put(d, e) # <<>>
  <1>1. CASE e.key \in KeysOf(d)
    <2>1. PICK k \in DOMAIN d : d[k].key = e.key
      BY <1>1 DEF KeysOf
    <2>2. /\ Put(d, e) \in Seq(Entry) /\ DOMAIN Put(d, e) = DOMAIN d
          /\ \A i \in DOMAIN d : Put(d, e)[i].key = d[i].key
      BY <1>1 DEF Put, IsDict
    <2> QED BY <2>1, <2>2 DEF IsDict
  <1>2. CASE e.key \notin KeysOf(d)
    <2>1. /\ Put(d, e) = Append(d, e) /\ Append(d, e) \in Seq(Entry)
          /\ DOMAIN Append(d, e) = 1 .. Len(d) + 1
          /\ \A i \in DOMAIN d : Append(d, e)[i] = d[i] /\ d[i].key # e.key
          /\ Append(d, e)[Len(d) + 1] = e /\ DOMAIN d = 1 .. Len(d) /\ Len(d) \in Nat
      BY <1>2 DEF Put, IsDict, KeysOf
    <2> QED BY <2>1 DEF IsDict
  <1> QED BY <1>1, <1>2

\* Setting a key changes that key's entry and no other.
LEMMA EntriesOfPut ==
  ASSUME NEW d, IsDict(d), NEW e \in Entry, NEW k
  PROVE  EntriesOf(Put(d, e), k) = IF k = e.key THEN {e} ELSE EntriesOf(d, k)
  <1>1. CASE e.key \in KeysOf(d)
    <2>1. PICK j \in DOMAIN d : d[j].key = e.key
      BY <1>1 DEF KeysOf
    <2>2. /\ DOMAIN Put(d, e) = DOMAIN d
          /\ \A i \in DOMAIN d : Put(d, e)[i] = IF i = j THEN e ELSE d[i]
      BY <1>1, <2>1 DEF Put, IsDict
    <2> QED BY <2>1, <2>2 DEF EntriesOf, IsDict
  <1>2. CASE e.key \notin KeysOf(d)
    <2>1. /\ DOMAIN Put(d, e) = DOMAIN d \cup {Len(d) + 1} /\ Len(d) + 1 \notin DOMAIN d
          /\ \A i \in DOMAIN d : Put(d, e)[i] = d[i] /\ d[i].key # e.key
          /\ Put(d, e)[Len(d) + 1] = e
      BY <1>2 DEF Put, IsDict, KeysOf
    <2> QED BY <2>1 DEF EntriesOf
  <1> QED BY <1>1, <1>2

\* Deleting a key takes its entry out and no other.
LEMMA WithoutIsDict ==
  ASSUME NEW d, IsDict(d), NEW k \in KeysOf(d)
  PROVE  /\ IsDict(Without(d, k))
         /\ \A j : EntriesOf(Without(d, k), j) = IF j = k THEN {} ELSE EntriesOf(d, j)
  <1> DEFINE at == CHOOSE i \in DOMAIN d : d[i].key = k
             w  == [i \in 1 .. Len(d) - 1 |-> IF i < at THEN d[i] ELSE d[i + 1]]
  <1>1. /\ at \in 1 .. Len(d) /\ d[at].key = k /\ Len(d) \in Nat /\ DOMAIN d = 1 .. Len(d)
        /\ \A i \in 1 .. Len(d) : d[i] \in Entry
    BY DEF KeysOf, IsDict
  <1>2. Without(d, k) = w
    BY DEF Without
  <1> HIDE DEF at
  <1>3. w \in Seq(Entry) /\ DOMAIN w = 1 .. Len(d) - 1
    BY <1>1
  <1>4. \A i \in 1 .. Len(d) - 1 : w[i] = d[IF i < at THEN i ELSE i + 1]
    OBVIOUS
  <1>5. \A i \in 1 .. Len(d) : i # at => d[i] = w[IF i < at THEN i ELSE i - 1]
    BY <1>1
  <1> HIDE DEF w
  <1>6. ASSUME NEW i \in DOMAIN w, NEW j \in DOMAIN w, w[i].key = w[j].key
        PROVE  i = j
    <2> DEFINE p(n) == IF n < at THEN n ELSE n + 1
    <2>1. w[i] = d[p(i)] /\ w[j] = d[p(j)] /\ p(i) \in DOMAIN d /\ p(j) \in DOMAIN d
      BY <1>1, <1>3, <1>4
    <2>2. p(i) = p(j)
      BY <1>6, <2>1 DEF IsDict
    <2> QED BY <1>1, <1>3, <2>2
  <1>7. ASSUME NEW j PROVE EntriesOf(w, j) = IF j = k THEN {} ELSE EntriesOf(d, j)
    <2>1. ASSUME NEW x \in EntriesOf(w, j) PROVE j # k /\ x \in EntriesOf(d, j)
      <3>1. PICK i \in DOMAIN w : x = w[i] /\ w[i].key = j
        BY <2>1 DEF EntriesOf
      <3>2. PICK m \in 1 .. Len(d) : x = d[m] /\ d[m].key = j /\ m # at
        BY <1>1, <1>3, <1>4, <3>1
      <3> QED BY <1>1, <3>2 DEF EntriesOf, IsDict
    <2>2. ASSUME NEW x \in EntriesOf(d, j), j # k PROVE x \in EntriesOf(w, j)
      <3>1. PICK m \in 1 .. Len(d) : x = d[m] /\ d[m].key = j /\ m # at
        BY <1>1, <2>2 DEF EntriesOf
      <3>2. (IF m < at THEN m ELSE m - 1) \in DOMAIN w
        BY <1>1, <1>3, <3>1
      <3> QED BY <1>5, <3>1, <3>2 DEF EntriesOf
    <2> QED BY <2>1, <2>2
  <1> QED BY <1>2, <1>3, <1>6, <1>7 DEF IsDict

\* What is replayed is a dict.
LEMMA ReplayIsDict ==
  ASSUME NEW lines \in Seq(Entry)
  PROVE  IsDict(Replay(lines))
  <1>1. PICK f : Upto(lines, Len(lines), f) /\ Replay(lines) = f[Len(lines)]
    BY ReplayIsUpto
  <1> DEFINE bad == {i \in 0 .. Len(lines) : ~IsDict(f[i])}
  <1> SUFFICES ASSUME bad # {} PROVE FALSE
    BY <1>1
  <1>2. PICK i \in bad : \A k \in bad : i <= k
    BY LeastNumber, bad \subseteq Nat
  <1>3. i # 0
    BY <1>1 DEF Upto, IsDict
  <1>4. i - 1 \in 0 .. Len(lines) /\ IsDict(f[i - 1]) /\ lines[i] \in Entry
    BY <1>2, <1>3
  <1>5. f[i] = Put(f[i - 1], lines[i])
    BY <1>1, <1>3 DEF Upto
  <1> QED BY <1>4, <1>5, PutIsDict

\* A dict written out and read back is the same dict, in the same order.
LEMMA ReplayDict ==
  ASSUME NEW d, IsDict(d)
  PROVE  Replay(d) = d
  <1>1. d \in Seq(Entry) /\ Len(d) \in Nat /\ DOMAIN d = 1 .. Len(d)
    BY DEF IsDict
  <1>2. PICK f : Upto(d, Len(d), f) /\ Replay(d) = f[Len(d)]
    BY ReplayIsUpto, <1>1
  <1> DEFINE bad == {i \in 0 .. Len(d) : f[i] # SubSeq(d, 1, i)}
  <1>3. SUFFICES ASSUME bad # {} PROVE FALSE
    <2>1. SubSeq(d, 1, Len(d)) = d
      BY <1>1
    <2> QED BY <1>1, <1>2, <1>3, <2>1
  <1>4. PICK i \in bad : \A k \in bad : i <= k
    BY <1>3, LeastNumber, bad \subseteq Nat
  <1>5. i # 0
    BY <1>1, <1>2 DEF Upto
  <1>6. f[i - 1] = SubSeq(d, 1, i - 1) /\ i - 1 \in 0 .. Len(d)
    BY <1>4, <1>5
  <1>7. f[i] = Put(f[i - 1], d[i])
    BY <1>2, <1>5 DEF Upto
  <1>8. d[i].key \notin KeysOf(SubSeq(d, 1, i - 1))
    BY <1>1, <1>5 DEF KeysOf, IsDict
  <1>9. Append(SubSeq(d, 1, i - 1), d[i]) = SubSeq(d, 1, i)
    BY <1>1, <1>5
  <1> QED BY <1>6, <1>7, <1>8, <1>9 DEF Put

-------------------------------------------------------------------------------
(* Types.                                                                  *)

\* Whatever is in the file, what an operation works on is a dict.
LEMMA DictIsDict ==
  ASSUME TypeOK
  PROVE  IsDict(OnDisk) /\ IsDict(Dict)
  <1>1. IsDict(OnDisk)
    <2>1. CASE tail.kind = "entry"
      <3>1. Append(file, tail.entry) \in Seq(Entry)
        BY <2>1 DEF TypeOK, Tails, NoTail, Junk
      <3> QED BY <2>1, <3>1, ReplayIsDict DEF OnDisk, Lines
    <2>2. CASE tail.kind # "entry"
      BY <2>2, ReplayIsDict DEF OnDisk, Lines, TypeOK
    <2> QED BY <2>1, <2>2
  <1>2. CASE cache = {}
    BY <1>1, <1>2 DEF Dict
  <1>3. CASE cache # {}
    BY <1>1, <1>3 DEF Dict, TypeOK, IsDict
  <1> QED BY <1>1, <1>2, <1>3

LEMMA AppendTypes ==
  ASSUME TypeOK, NEW e \in Entry, AppendLine(e) \/ AppendPart(e)
  PROVE  file' \in Seq(Entry) /\ tail' \in Tails
  <1>1. file \in Seq(Entry) /\ Append(file, e) \in Seq(Entry)
    BY DEF TypeOK
  <1>2. CASE AppendLine(e)
    BY <1>1, <1>2 DEF TypeOK, Tails, AppendLine
  <1>3. CASE AppendPart(e)
    BY <1>1, <1>3 DEF TypeOK, Tails, AppendPart
  <1> QED BY <1>2, <1>3

\* What a loss of power may leave.
DiskOK == disk \in SUBSET [lines : Seq(Entry), tail : Tails] /\ volatile \in SUBSET Keys

LEMMA ContentTypes ==
  ASSUME file' \in Seq(Entry), tail' \in Tails
  PROVE  Content' \in [lines : Seq(Entry), tail : Tails]
  BY DEF Content

LEMMA BeginningTypes ==
  ASSUME NEW f \in Seq(Entry)
  PROVE  Beginnings(f) \subseteq Seq(Entry)
  BY DEF Beginnings

LEMMA DiskTypes == TypeOK /\ [Next]_vars => DiskOK'
  <1> SUFFICES ASSUME TypeOK, [Next]_vars PROVE DiskOK'
    OBVIOUS
  <1>0. DiskOK /\ (UNCHANGED storage => DiskOK')
    BY DEF TypeOK, DiskOK, storage
  <1>1. ASSUME NEW e \in Entry, Set(e) \/ SetRaises(e) \/ SetInterrupted(e)
        PROVE  DiskOK'
    <2>1. file' \in Seq(Entry) /\ tail' \in Tails
      BY <1>1, AppendTypes DEF Set, SetRaises, SetInterrupted
    <2>2. Content' \in [lines : Seq(Entry), tail : Tails]
      BY <2>1, ContentTypes
    <2>3. Unsynced({Content'}) /\ volatile' \in SUBSET Keys
      BY <1>0, <1>1 DEF Set, SetRaises, SetInterrupted, DiskOK, Entry
    <2> QED BY <1>0, <2>2, <2>3 DEF Unsynced, DiskOK
  <1>2. CASE Replace
    <2>1. Unsynced([lines : Beginnings(tmp), tail : {NoTail}]) /\ volatile' = Keys
      BY <1>2 DEF Replace
    <2>2. [lines : Beginnings(tmp), tail : {NoTail}] \subseteq [lines : Seq(Entry), tail : Tails]
      BY BeginningTypes DEF TypeOK, Tails
    <2> QED BY <1>0, <2>1, <2>2 DEF Unsynced, DiskOK
  <1>3. CASE WriteBack
    <2>1. Content \in [lines : Seq(Entry), tail : Tails]
      BY DEF Content, TypeOK
    <2> QED BY <1>3, <2>1 DEF WriteBack, DiskOK
  <1>4. CASE PowerLoss
    <2>1. PICK c \in disk : /\ file' = c.lines /\ (tail' = c.tail \/ tail' = Junk)
                           /\ disk' = {Content'}
      BY <1>4 DEF PowerLoss
    <2>2. file' \in Seq(Entry) /\ tail' \in Tails
      BY <1>0, <2>1 DEF DiskOK, Tails
    <2> QED BY <1>4, <2>1, <2>2, ContentTypes DEF PowerLoss, DiskOK
  <1>5. CASE \/ Load \/ FlushLine \/ FlushRaises \/ Restart \/ UNCHANGED vars
           \/ \E k \in Keys : StartDelete(k)
    BY <1>0, <1>5
       DEF Load, FlushLine, FlushRaises, Restart, StartDelete, vars, storage
  <1> QED BY <1>1, <1>2, <1>3, <1>4, <1>5 DEF Next

LEMMA TypeStep == TypeOK /\ [Next]_vars => TypeOK'
  <1> SUFFICES ASSUME TypeOK, [Next]_vars PROVE TypeOK'
    OBVIOUS
  <1>0. IsDict(OnDisk) /\ IsDict(Dict) /\ DiskOK'
    BY DictIsDict, DiskTypes
  <1>1. CASE Load
    BY <1>0, <1>1 DEF Load, TypeOK, IsDict, DiskOK
  <1>2. ASSUME NEW e \in Entry, Set(e) \/ SetRaises(e) \/ SetInterrupted(e)
        PROVE  TypeOK'
    <2>1. file' \in Seq(Entry) /\ tail' \in Tails
      BY <1>2, AppendTypes DEF Set, SetRaises, SetInterrupted
    <2>2. \A d \in cache' : IsDict(d)
      BY <1>0, <1>2, PutIsDict DEF Set, SetRaises, SetInterrupted
    <2>3. /\ tmp' \in Seq(Entry) /\ pc' \in {"idle", "flush"}
          /\ acked' \in [Keys -> SUBSET Entry]
          /\ unsure' \in SUBSET Entry /\ diverged' \in BOOLEAN
      <3>1. e.key \in Keys
        BY DEF Entry
      <3>2. tmp' = tmp /\ pc' = pc /\ diverged' \in BOOLEAN
        BY <1>2 DEF Set, SetRaises, SetInterrupted, TypeOK
      <3>3. acked' \in [Keys -> SUBSET Entry]
        BY <1>2, <3>1 DEF Set, SetRaises, SetInterrupted, TypeOK
      <3>4. unsure' \in SUBSET Entry
        BY <1>2 DEF Set, SetRaises, SetInterrupted, TypeOK
      <3> QED BY <3>2, <3>3, <3>4 DEF TypeOK
    <2> QED BY <1>0, <2>1, <2>2, <2>3 DEF TypeOK, IsDict, DiskOK
  <1>3. ASSUME NEW k \in Keys, StartDelete(k) PROVE TypeOK'
    <2>1. \A d \in cache' : IsDict(d)
      BY <1>0, <1>3, WithoutIsDict DEF StartDelete
    <2>2. /\ tmp' \in Seq(Entry) /\ pc' \in {"idle", "flush"} /\ file' = file /\ tail' = tail
          /\ acked' \in [Keys -> SUBSET Entry]
          /\ unsure' \in SUBSET Entry /\ diverged' \in BOOLEAN
      BY <1>3 DEF StartDelete, TypeOK
    <2> QED BY <1>0, <2>1, <2>2 DEF TypeOK, IsDict, DiskOK
  <1>4. CASE FlushLine
    <2>1. Dict[Len(tmp) + 1] \in Entry
      BY <1>0, <1>4 DEF FlushLine, TypeOK, IsDict
    <2> QED BY <1>0, <1>4, <2>1 DEF FlushLine, TypeOK, DiskOK
  <1>5. CASE Replace \/ FlushRaises
    BY <1>0, <1>5, <<>> \in Seq(Entry) DEF Replace, FlushRaises, TypeOK, Tails, DiskOK
  <1>6. CASE Restart
    BY <1>0, <1>6, <<>> \in Seq(Entry) DEF Restart, TypeOK, DiskOK
  <1>7. CASE WriteBack
    BY <1>0, <1>7 DEF WriteBack, TypeOK, DiskOK
  <1>8. CASE PowerLoss
    <2>1. PICK c \in disk : /\ file' = c.lines /\ (tail' = c.tail \/ tail' = Junk)
                           /\ acked' = [k \in Keys |-> IF k \in volatile THEN EntriesOf(OnDisk', k)
                                                                        ELSE acked[k]]
      BY <1>8 DEF PowerLoss
    <2>2. file' \in Seq(Entry) /\ tail' \in Tails
      BY <2>1 DEF TypeOK, Tails
    <2>3. IsDict(OnDisk')
      <3>1. Lines(file', tail') \in Seq(Entry)
        BY <2>2 DEF Lines, Tails, NoTail, Junk
      <3> QED BY <3>1, ReplayIsDict DEF OnDisk
    <2>4. acked' \in [Keys -> SUBSET Entry]
      <3>1. \A k : EntriesOf(OnDisk', k) \subseteq Entry
        BY <2>3 DEF EntriesOf, IsDict
      <3> QED BY <2>1, <3>1 DEF TypeOK
    <2> QED BY <1>0, <1>8, <2>2, <2>4, <<>> \in Seq(Entry) DEF PowerLoss, TypeOK, DiskOK
  <1>9. CASE UNCHANGED vars
    BY <1>9 DEF vars, TypeOK
  <1> QED BY <1>1, <1>2, <1>3, <1>4, <1>5, <1>6, <1>7, <1>8, <1>9 DEF Next

\* Every variable keeps its type, and the dict in memory holds a key once: setting
\* a known key replaces its entry, and reading any file back does, too.
THEOREM TypeCorrect == Spec => []TypeOK
  <1>1. Init => TypeOK
    <2> SUFFICES ASSUME Init PROVE TypeOK
      OBVIOUS
    <2>1. file \in Seq(Entry) /\ tmp \in Seq(Entry) /\ tail \in Tails
      BY <<>> \in Seq(Entry) DEF Init, Tails
    <2>2. disk \in SUBSET [lines : Seq(Entry), tail : Tails]
      BY <2>1 DEF Init, Content
    <2> QED BY <2>1, <2>2 DEF Init, TypeOK
  <1> QED BY <1>1, TypeStep, PTL DEF Spec

-------------------------------------------------------------------------------
(* What a restart finds.                                                   *)

\* What d holds for k is what the caller may rely on, or of the unsure.
Kept(d, k, sure, maybe) ==
  \/ EntriesOf(d, k) = sure[k]
  \/ EntriesOf(d, k) # {} /\ EntriesOf(d, k) \subseteq maybe

\* The .tmp file is a beginning of the dict, and both the dict and the file hold
\* what the caller relies on.
TmpInv ==
  pc = "flush" => /\ cache # {} /\ Len(tmp) <= Len(Dict)
                  /\ \A i \in 1 .. Len(tmp) : tmp[i] = Dict[i]

KeptInv ==
  /\ Readable => \A k \in Keys : Kept(OnDisk, k, acked, unsure)
  /\ cache # {} => \A k \in Keys : Kept(Dict, k, acked, unsure)

\* ... and so does all that a loss of power may leave, but for the volatile keys.
LeftInv ==
  \A c \in disk : c.tail.kind # "junk" =>
    \A k \in Keys \ volatile : Kept(Replay(Lines(c.lines, c.tail)), k, acked, unsure)

StoreInv ==
  /\ \A d \in cache : cache = {d}
  /\ TmpInv /\ KeptInv /\ LeftInv /\ RestartIsInvisible

LEMMA SameDisk ==
  ASSUME UNCHANGED <<file, tail>>
  PROVE  OnDisk' = OnDisk /\ (Readable' <=> Readable)
  BY DEF OnDisk, Readable

\* A line that gets into the file, whole or in part, is read back or makes the file
\* unreadable.
LEMMA DiskAfterLine ==
  ASSUME TypeOK, NEW e \in Entry, AppendLine(e), Readable'
  PROVE  Readable /\ OnDisk' = Put(OnDisk, e)
  <1>1. tail.kind = "none" /\ file' = Append(file, e) /\ tail' = NoTail
    BY DEF AppendLine, Readable, Junk
  <1>2. file \in Seq(Entry)
    BY DEF TypeOK
  <1> QED BY <1>1, <1>2, ReplayAppend DEF OnDisk, Lines, Readable, NoTail

LEMMA DiskAfterPart ==
  ASSUME TypeOK, NEW e \in Entry, AppendPart(e), Readable'
  PROVE  Readable /\ OnDisk' \in {OnDisk, Put(OnDisk, e)}
  <1>1. file \in Seq(Entry)
    BY DEF TypeOK
  <1>2. CASE UNCHANGED <<file, tail>>
    BY <1>2, SameDisk
  <1>3. CASE ~UNCHANGED <<file, tail>>
    <2>1. file' = file /\ tail.kind = "none" /\ tail' = [kind |-> "entry", entry |-> e]
      BY <1>3 DEF AppendPart, Readable, Junk
    <2> QED BY <1>1, <2>1, ReplayAppend DEF OnDisk, Lines, Readable
  <1> QED BY <1>2, <1>3

\* Setting a key keeps what the dict or the file holds for every key.
LEMMA PutKeeps ==
  ASSUME NEW d, IsDict(d), NEW e \in Entry, NEW k \in Keys,
         NEW sure \in [Keys -> SUBSET Entry], NEW maybe, Kept(d, k, sure, maybe)
  PROVE  /\ Kept(Put(d, e), k, [sure EXCEPT ![e.key] = {e}], {u \in maybe : u.key # e.key})
         /\ Kept(Put(d, e), k, sure, maybe \cup {e})
         /\ Kept(d, k, sure, maybe \cup {e})
  <1>1. EntriesOf(Put(d, e), k) = IF k = e.key THEN {e} ELSE EntriesOf(d, k)
    BY EntriesOfPut
  <1>2. \A x \in EntriesOf(d, k) : x.key = k
    BY DEF EntriesOf
  <1> QED BY <1>1, <1>2 DEF Kept, Entry

\* ... and so does deleting one, for what may be found in the file.
LEMMA DeleteKeeps ==
  ASSUME NEW d, NEW k \in Keys, NEW j \in Keys,
         NEW sure \in [Keys -> SUBSET Entry], NEW maybe, Kept(d, j, sure, maybe)
  PROVE  /\ Kept(d, j, [sure EXCEPT ![k] = {}], maybe \cup sure[k])
         /\ IsDict(d) /\ k \in KeysOf(d) =>
              Kept(Without(d, k), j, [sure EXCEPT ![k] = {}], maybe \cup sure[k])
  <1>1. CASE EntriesOf(d, j) = {}
    BY <1>1, WithoutIsDict DEF Kept
  <1>2. CASE EntriesOf(d, j) # {}
    BY <1>2, WithoutIsDict DEF Kept
  <1> QED BY <1>1, <1>2

\* A line written since the system wrote the file back may be lost: no other is.
LEMMA LeftAfterLine ==
  ASSUME Unsynced({Content'}), KeptInv',
         \A c \in disk : c.tail.kind # "junk" =>
           \A k \in Keys \ volatile' : Kept(Replay(Lines(c.lines, c.tail)), k, acked', unsure')
  PROVE  LeftInv'
  <1>1. disk' \subseteq disk \cup {Content'}
    BY DEF Unsynced
  <1>2. /\ Content'.tail.kind # "junk" <=> Readable'
        /\ Replay(Lines(Content'.lines, Content'.tail)) = OnDisk'
    BY DEF Content, Readable, OnDisk
  <1>3. Readable' => \A k \in Keys : Kept(OnDisk', k, acked', unsure')
    BY DEF KeptInv
  <1> HIDE DEF Content
  <1> QED BY <1>1, <1>2, <1>3 DEF LeftInv

\* When the disk holds the file as it is, what is left is the file.
LEMMA LeftAsIs ==
  ASSUME KeptInv', disk' = {Content'}
  PROVE  LeftInv'
  <1>1. /\ Content'.tail.kind # "junk" <=> Readable'
        /\ Replay(Lines(Content'.lines, Content'.tail)) = OnDisk'
    BY DEF Content, Readable, OnDisk
  <1>2. Readable' => \A k \in Keys : Kept(OnDisk', k, acked', unsure')
    BY DEF KeptInv
  <1> HIDE DEF Content
  <1> QED BY <1>1, <1>2 DEF LeftInv

LEMMA StoreInit == Init => StoreInv
  <1> SUFFICES ASSUME Init PROVE StoreInv
    OBVIOUS
  <1>1. OnDisk = <<>>
    BY ReplayEmpty DEF Init, OnDisk, Lines, NoTail
  <1>2. \A k \in Keys : EntriesOf(<<>>, k) = {} /\ acked[k] = {}
    <2>1. DOMAIN <<>> = {}
      OBVIOUS
    <2> QED BY <2>1 DEF Init, EntriesOf
  <1>3. LeftInv
    <2>1. ASSUME NEW c \in disk, NEW k \in Keys
          PROVE  Kept(Replay(Lines(c.lines, c.tail)), k, acked, unsure)
      <3>1. c.lines = file /\ c.tail = tail
        BY <2>1 DEF Init, Content
      <3> QED BY <1>1, <1>2, <3>1 DEF OnDisk, Kept
    <2> QED BY <2>1 DEF LeftInv
  <1> QED BY <1>1, <1>2, <1>3 DEF Init, StoreInv, TmpInv, KeptInv, Kept, RestartIsInvisible

\* What an operation works on holds what the caller relies on.
LEMMA DictIsKept ==
  ASSUME TypeOK, StoreInv, Loadable
  PROVE  /\ IsDict(Dict) /\ \A k \in Keys : Kept(Dict, k, acked, unsure)
         /\ ~diverged /\ Readable /\ pc = "idle" => Dict = OnDisk
  <1>1. IsDict(Dict)
    BY DictIsDict
  <1>2. CASE cache = {}
    BY <1>1, <1>2 DEF Dict, Loadable, StoreInv, KeptInv
  <1>3. CASE cache # {}
    <2>1. Dict \in cache
      BY <1>3 DEF Dict
    <2> QED BY <1>1, <1>3, <2>1 DEF StoreInv, KeptInv, RestartIsInvisible
  <1> QED BY <1>2, <1>3

\* The dict of one that has just been put in memory.
LEMMA DictInMemory ==
  ASSUME NEW d, cache' = {d}
  PROVE  Dict' = d
  BY DEF Dict

\* An entry is set, its write raises or is interrupted.
LEMMA SetStep ==
  ASSUME TypeOK, StoreInv, NEW e \in Entry, Set(e) \/ SetRaises(e) \/ SetInterrupted(e)
  PROVE  StoreInv'
  <1> DEFINE p == Put(Dict, e)
  <1>1. /\ Loadable /\ pc = "idle" /\ pc' = "idle" /\ cache' \in {{p}, {}}
        /\ acked \in [Keys -> SUBSET Entry]
    BY DEF Set, SetRaises, SetInterrupted, TypeOK
  <1>2. /\ IsDict(Dict) /\ \A k \in Keys : Kept(Dict, k, acked, unsure)
        /\ ~diverged /\ Readable => Dict = OnDisk
    BY <1>1, DictIsKept
  <1>3. IsDict(OnDisk) /\ (Readable => \A k \in Keys : Kept(OnDisk, k, acked, unsure))
    BY DictIsDict DEF StoreInv, KeptInv
  <1>4. ASSUME NEW k \in Keys PROVE Kept(p, k, acked', unsure')
    <2>1. /\ Kept(p, k, [acked EXCEPT ![e.key] = {e}], {u \in unsure : u.key # e.key})
          /\ Kept(p, k, acked, unsure \cup {e})
      BY <1>1, <1>2, PutKeeps
    <2> QED BY <2>1 DEF Set, SetRaises, SetInterrupted
  <1>5. ASSUME NEW k \in Keys, Readable' PROVE Kept(OnDisk', k, acked', unsure')
    <2>1. CASE Set(e)
      <3>1. Readable /\ OnDisk' = Put(OnDisk, e)
        BY <1>5, <2>1, DiskAfterLine DEF Set
      <3>2. Kept(Put(OnDisk, e), k, acked', unsure')
        BY <1>1, <1>3, <2>1, <3>1, PutKeeps DEF Set
      <3> QED BY <3>1, <3>2
    <2>2. CASE SetRaises(e) \/ SetInterrupted(e)
      <3>1. Readable /\ OnDisk' \in {OnDisk, Put(OnDisk, e)}
        BY <1>5, <2>2, DiskAfterPart DEF SetRaises, SetInterrupted
      <3>2. acked' = acked /\ unsure' = unsure \cup {e}
        BY <2>2 DEF SetRaises, SetInterrupted
      <3>3. Kept(OnDisk, k, acked', unsure') /\ Kept(Put(OnDisk, e), k, acked', unsure')
        BY <1>1, <1>3, <3>1, <3>2, PutKeeps
      <3> QED BY <3>1, <3>3
    <2> QED BY <2>1, <2>2
  <1>6. cache' # {} => Dict' = p
    BY <1>1, DictInMemory
  <1>7. KeptInv'
    BY <1>4, <1>5, <1>6 DEF KeptInv
  <1>8. RestartIsInvisible'
    <2> SUFFICES ASSUME ~diverged', Readable', NEW d \in cache' PROVE d = OnDisk'
      BY DEF RestartIsInvisible
    <2>1. Set(e) /\ ~diverged /\ d = p
      BY <1>1 DEF Set, SetRaises, SetInterrupted, TypeOK
    <2>2. Readable /\ OnDisk' = Put(OnDisk, e)
      BY <2>1, DiskAfterLine DEF Set
    <2> QED BY <1>2, <2>1, <2>2
  <1>9. (\A d \in cache' : cache' = {d}) /\ TmpInv'
    BY <1>1 DEF TmpInv
  <1>10. LeftInv'
    <2>1. ASSUME NEW c \in disk, c.tail.kind # "junk", NEW k \in Keys \ volatile'
          PROVE  Kept(Replay(Lines(c.lines, c.tail)), k, acked', unsure')
      <3> DEFINE found == EntriesOf(Replay(Lines(c.lines, c.tail)), k)
      <3>1. k \notin volatile /\ (Set(e) => k # e.key)
        BY <2>1 DEF Set, SetRaises, SetInterrupted
      <3>2. Kept(Replay(Lines(c.lines, c.tail)), k, acked, unsure)
        BY <2>1, <3>1 DEF StoreInv, LeftInv
      <3>3. \A x \in found : x.key = k
        BY DEF EntriesOf
      <3>4. acked'[k] = acked[k] /\ \A u \in unsure : u.key = k => u \in unsure'
        BY <1>1, <3>1 DEF Set, SetRaises, SetInterrupted
      <3> QED BY <3>2, <3>3, <3>4 DEF Kept
    <2>2. Unsynced({Content'})
      BY DEF Set, SetRaises, SetInterrupted
    <2> QED BY <1>7, <2>1, <2>2, LeftAfterLine
  <1> QED BY <1>7, <1>8, <1>9, <1>10 DEF StoreInv

\* A key is deleted, and the rewrite begins.
LEMMA DeleteStep ==
  ASSUME TypeOK, StoreInv, NEW k \in Keys, StartDelete(k)
  PROVE  StoreInv'
  <1> DEFINE w == Without(Dict, k)
  <1>1. /\ Loadable /\ k \in KeysOf(Dict) /\ pc' = "flush" /\ tmp' = <<>> /\ cache' = {w}
        /\ acked' = [acked EXCEPT ![k] = {}] /\ unsure' = unsure \cup acked[k]
        /\ acked \in [Keys -> SUBSET Entry]
    BY DEF StartDelete, TypeOK
  <1>2. IsDict(Dict) /\ \A j \in Keys : Kept(Dict, j, acked, unsure)
    BY <1>1, DictIsKept
  <1>3. Dict' = w /\ IsDict(w)
    BY <1>1, <1>2, DictInMemory, WithoutIsDict
  <1>4. OnDisk' = OnDisk /\ (Readable' <=> Readable)
    BY SameDisk DEF StartDelete
  <1>5. KeptInv'
    <2>1. \A j \in Keys : Kept(w, j, acked', unsure')
      BY <1>1, <1>2, DeleteKeeps
    <2>2. Readable => \A j \in Keys : Kept(OnDisk, j, acked', unsure')
      BY <1>1, DeleteKeeps DEF StoreInv, KeptInv
    <2> QED BY <1>3, <1>4, <2>1, <2>2 DEF KeptInv
  <1>6. TmpInv'
    <2>1. Len(w) \in Nat /\ Len(<<>>) = 0
      BY <1>3 DEF IsDict
    <2> QED BY <1>1, <1>3, <2>1 DEF TmpInv
  <1>7. (\A d \in cache' : cache' = {d}) /\ RestartIsInvisible'
    BY <1>1 DEF RestartIsInvisible
  <1>8. LeftInv'
    <2>1. disk' = disk /\ volatile' = volatile
      BY DEF StartDelete, storage
    <2>2. ASSUME NEW c \in disk, c.tail.kind # "junk", NEW j \in Keys \ volatile
          PROVE  Kept(Replay(Lines(c.lines, c.tail)), j, acked', unsure')
      <3>1. Kept(Replay(Lines(c.lines, c.tail)), j, acked, unsure)
        BY <2>2 DEF StoreInv, LeftInv
      <3> QED BY <1>1, <3>1, DeleteKeeps
    <2> QED BY <2>1, <2>2 DEF LeftInv
  <1> QED BY <1>5, <1>6, <1>7, <1>8 DEF StoreInv

\* The rewrite takes the file's place: the .tmp file is the dict, line by line.
LEMMA ReplaceStep ==
  ASSUME TypeOK, StoreInv, Replace
  PROVE  StoreInv'
  <1>1. /\ IsDict(Dict) /\ cache # {} /\ Dict \in cache
        /\ \A k \in Keys : Kept(Dict, k, acked, unsure)
    BY DictIsDict DEF StoreInv, TmpInv, KeptInv, Replace, Dict
  <1>2. /\ pc' = "idle" /\ file' = tmp /\ tail' = NoTail /\ cache' = cache /\ acked' = acked
        /\ unsure' = {u \in unsure : u.key \in KeysOf(Dict)}
    BY DEF Replace
  <1>3. tmp = Dict
    BY <1>1 DEF Replace, StoreInv, TmpInv, TypeOK, IsDict
  <1>4. OnDisk' = Dict /\ Dict' = Dict /\ Readable'
    BY <1>1, <1>2, <1>3, ReplayDict DEF OnDisk, Lines, Readable, NoTail, Dict
  <1>5. ASSUME NEW k \in Keys PROVE Kept(Dict, k, acked', unsure')
    <2>1. \A x \in EntriesOf(Dict, k) : x.key \in KeysOf(Dict)
      BY DEF EntriesOf, KeysOf
    <2> QED BY <1>1, <1>2, <2>1 DEF Kept
  <1>6. KeptInv'
    BY <1>4, <1>5 DEF KeptInv
  <1>7. \A d \in cache' : cache' = {d} /\ d = OnDisk'
    BY <1>1, <1>2, <1>4 DEF StoreInv
  <1>8. LeftInv'
    BY DEF Replace, LeftInv
  <1> QED BY <1>2, <1>6, <1>7, <1>8 DEF StoreInv, TmpInv, RestartIsInvisible

\* The machine loses power: for a key that was on disk, whatever is left will do.
LEMMA PowerLossStep ==
  ASSUME TypeOK, StoreInv, PowerLoss
  PROVE  StoreInv'
  <1>1. PICK c \in disk : /\ file' = c.lines /\ (tail' = c.tail \/ tail' = Junk)
                         /\ disk' = {Content'}
                         /\ acked' = [k \in Keys |-> IF k \in volatile THEN EntriesOf(OnDisk', k)
                                                                      ELSE acked[k]]
    BY DEF PowerLoss
  <1>2. pc' = "idle" /\ cache' = {} /\ unsure' = unsure
    BY DEF PowerLoss
  <1>3. ASSUME Readable', NEW k \in Keys PROVE Kept(OnDisk', k, acked', unsure')
    <2>1. tail' = c.tail /\ c.tail.kind # "junk"
      BY <1>1, <1>3 DEF Readable, Junk
    <2>2. OnDisk' = Replay(Lines(c.lines, c.tail))
      BY <1>1, <2>1 DEF OnDisk
    <2>3. CASE k \in volatile
      BY <1>1, <2>3 DEF Kept
    <2>4. CASE k \notin volatile
      <3>1. Kept(Replay(Lines(c.lines, c.tail)), k, acked, unsure)
        BY <2>1, <2>4 DEF StoreInv, LeftInv
      <3> QED BY <1>1, <1>2, <2>2, <2>4, <3>1 DEF Kept
    <2> QED BY <2>3, <2>4
  <1>4. KeptInv'
    BY <1>2, <1>3 DEF KeptInv
  <1>5. LeftInv'
    BY <1>1, <1>4, LeftAsIs
  <1> QED BY <1>2, <1>4, <1>5 DEF StoreInv, TmpInv, RestartIsInvisible

LEMMA StoreStep == TypeOK /\ StoreInv /\ [Next]_vars => StoreInv'
  <1> SUFFICES ASSUME TypeOK, StoreInv, [Next]_vars PROVE StoreInv'
    OBVIOUS
  <1>1. CASE Load
    <2>1. /\ Readable /\ cache' = {OnDisk} /\ pc' = "idle" /\ acked' = acked /\ unsure' = unsure
          /\ OnDisk' = OnDisk /\ Dict' = OnDisk /\ disk' = disk /\ volatile' = volatile
      BY <1>1, SameDisk, DictInMemory DEF Load, storage
    <2> QED BY <2>1 DEF StoreInv, LeftInv, TmpInv, KeptInv, RestartIsInvisible
  <1>2. ASSUME NEW e \in Entry, Set(e) \/ SetRaises(e) \/ SetInterrupted(e)
        PROVE  StoreInv'
    BY <1>2, SetStep
  <1>3. ASSUME NEW k \in Keys, StartDelete(k) PROVE StoreInv'
    BY <1>3, DeleteStep
  <1>4. CASE FlushLine
    <2>1. /\ OnDisk' = OnDisk /\ (Readable' <=> Readable) /\ Dict' = Dict
          /\ UNCHANGED <<cache, pc, disk, acked, unsure, diverged, volatile>>
      BY <1>4, SameDisk DEF FlushLine, Dict, storage
    <2>2. TmpInv'
      <3>1. tmp \in Seq(Entry) /\ Len(Dict) \in Nat /\ Dict[Len(tmp) + 1] \in Entry
        BY <1>4, DictIsDict DEF TypeOK, IsDict, FlushLine
      <3>2. /\ pc = "flush" /\ Len(tmp) < Len(Dict) /\ tmp' = Append(tmp, Dict[Len(tmp) + 1])
        BY <1>4 DEF FlushLine
      <3> QED BY <2>1, <3>1, <3>2 DEF StoreInv, TmpInv
    <2> QED BY <2>1, <2>2 DEF StoreInv, KeptInv, LeftInv, RestartIsInvisible
  <1>5. CASE Replace
    BY <1>5, ReplaceStep
  <1>6. CASE FlushRaises
    <2>1. /\ OnDisk' = OnDisk /\ (Readable' <=> Readable) /\ Dict' = Dict
          /\ UNCHANGED <<cache, disk, acked, unsure, volatile>>
          /\ pc' = "idle" /\ diverged' = TRUE
      BY <1>6, SameDisk DEF FlushRaises, Dict, storage
    <2> QED BY <2>1 DEF StoreInv, TmpInv, KeptInv, LeftInv, RestartIsInvisible
  <1>7. CASE Restart
    <2>1. /\ OnDisk' = OnDisk /\ (Readable' <=> Readable)
          /\ UNCHANGED <<disk, acked, unsure, volatile>> /\ pc' = "idle" /\ cache' = {}
      BY <1>7, SameDisk DEF Restart, storage
    <2> QED BY <2>1 DEF StoreInv, TmpInv, KeptInv, LeftInv, RestartIsInvisible
  <1>8. CASE WriteBack
    <2>1. /\ OnDisk' = OnDisk /\ (Readable' <=> Readable) /\ Dict' = Dict
          /\ disk' = {Content'} /\ UNCHANGED <<tmp, cache, pc, acked, unsure, diverged>>
      BY <1>8, SameDisk DEF WriteBack, Dict, Content
    <2>2. KeptInv'
      BY <2>1 DEF StoreInv, KeptInv
    <2>3. LeftInv'
      BY <2>1, <2>2, LeftAsIs
    <2> QED BY <2>1, <2>2, <2>3 DEF StoreInv, TmpInv, RestartIsInvisible
  <1>9. CASE PowerLoss
    BY <1>9, PowerLossStep
  <1>10. CASE UNCHANGED vars
    <2>1. /\ OnDisk' = OnDisk /\ (Readable' <=> Readable) /\ Dict' = Dict
          /\ UNCHANGED <<tmp, cache, pc, disk, acked, unsure, diverged, volatile>>
      BY <1>10, SameDisk DEF vars, Dict
    <2> QED BY <2>1 DEF StoreInv, TmpInv, KeptInv, LeftInv, RestartIsInvisible
  <1> QED BY <1>1, <1>2, <1>3, <1>4, <1>5, <1>6, <1>7, <1>8, <1>9, <1>10 DEF Next

LEMMA StoreAlways == Spec => []StoreInv
  BY StoreInit, StoreStep, TypeCorrect, PTL DEF Spec

\* A restart finds what the caller may rely on, or one of the entries whose write or
\* delete was cut short: writes that stop anywhere, the disk filling up and a process
\* killed at any line of a rewrite lose nothing, and a loss of power costs no key that
\* was not written since the system wrote the file back, for any number of keys and
\* lines.
THEOREM NothingIsLost == Spec => []AckedSurvives
  <1>1. StoreInv => AckedSurvives
    BY DEF StoreInv, KeptInv, Kept, AckedSurvives
  <1> QED BY <1>1, StoreAlways, PTL

\* As long as every write succeeded, the file read back is the dict, in its order.
THEOREM RestartChangesNothing == Spec => []RestartIsInvisible
  <1>1. StoreInv => RestartIsInvisible
    BY DEF StoreInv
  <1> QED BY <1>1, StoreAlways, PTL

===============================================================================
