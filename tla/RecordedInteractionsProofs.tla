---------------------- MODULE RecordedInteractionsProofs ----------------------
(* What a cassette keeps, hides and gives back, for any suite, queries and *)
(* JSON values: the order of the files, the redaction of nested values,    *)
(* what is recorded and what a replay finds.                               *)
EXTENDS RecordedInteractions, SequenceTheorems, WellFoundedInduction, TLAPS

(* Below a thousand interactions, the order of the file names is the order *)
(* of the indexes: what Cassette!IsFront takes for granted.                *)
Thousand == 0 .. 999

(* The three digits of an index below a thousand, and the index they make. *)
LEMMA Digits ==
    ASSUME NEW n \in Thousand
    PROVE  /\ n \div 100 \in 0 .. 9
           /\ (n \div 10) % 10 \in 0 .. 9
           /\ n % 10 \in 0 .. 9
           /\ n = 100 * (n \div 100) + 10 * ((n \div 10) % 10) + (n % 10)
  BY SMT DEF Thousand

(* Names of indexes below a thousand compare as their digits do.           *)
LEMMA CompareDigits ==
    ASSUME NEW i \in Thousand, NEW j \in Thousand
    PROVE  LoadedBefore(i, j) <=>
             \/ i \div 100 < j \div 100
             \/ /\ i \div 100 = j \div 100
                /\ (i \div 10) % 10 < (j \div 10) % 10
             \/ /\ i \div 100 = j \div 100
                /\ (i \div 10) % 10 = (j \div 10) % 10
                /\ i % 10 < j % 10
  <1>. DEFINE a == i \div 100   b == (i \div 10) % 10   c == i % 10
              x == j \div 100   y == (j \div 10) % 10   z == j % 10
              s == <<a, b, c, Underscore, 0>>
              t == <<x, y, z, Underscore, 0>>
  <1>1. Name(i) = s /\ Name(j) = t
    BY SMT DEF Name, Thousand
  <1>2. a \in 0 .. 9 /\ b \in 0 .. 9 /\ c \in 0 .. 9
    BY Digits
  <1>3. x \in 0 .. 9 /\ y \in 0 .. 9 /\ z \in 0 .. 9
    BY Digits
  <1>. HIDE DEF a, b, c, x, y, z
  <1>4. ComesBefore(s, t) <=> a < x \/ (a = x /\ b < y) \/ (a = x /\ b = y /\ c < z)
    <2>1. s[1] = a /\ s[2] = b /\ s[3] = c /\ s[4] = Underscore /\ s[5] = 0
      OBVIOUS
    <2>2. t[1] = x /\ t[2] = y /\ t[3] = z /\ t[4] = Underscore /\ t[5] = 0
      OBVIOUS
    <2>. HIDE DEF s, t
    <2>3. ASSUME NEW k \in 1 .. 5, s[k] < t[k], \A l \in 1 .. (k - 1) : s[l] = t[l]
          PROVE  a < x \/ (a = x /\ b < y) \/ (a = x /\ b = y /\ c < z)
      <3>1. k \in {1, 2, 3}
        BY <2>1, <2>2, <2>3 DEF Underscore
      <3>2. CASE k = 1
        BY <2>1, <2>2, <2>3, <3>2
      <3>3. CASE k = 2
        <4>1. 1 \in 1 .. (k - 1)
          BY <3>3
        <4>2. QED  BY <2>1, <2>2, <2>3, <3>3, <4>1
      <3>4. CASE k = 3
        <4>1. 1 \in 1 .. (k - 1) /\ 2 \in 1 .. (k - 1)
          BY <3>4
        <4>2. QED  BY <2>1, <2>2, <2>3, <3>4, <4>1
      <3>5. QED  BY <3>1, <3>2, <3>3, <3>4
    <2>4. ASSUME a < x
          PROVE  ComesBefore(s, t)
      BY <2>1, <2>2, <2>4 DEF ComesBefore
    <2>5. ASSUME a = x, b < y
          PROVE  ComesBefore(s, t)
      <3>1. s[2] < t[2] /\ \A l \in 1 .. (2 - 1) : s[l] = t[l]
        BY <2>1, <2>2, <2>5
      <3>2. QED  BY <3>1 DEF ComesBefore
    <2>6. ASSUME a = x, b = y, c < z
          PROVE  ComesBefore(s, t)
      <3>1. s[3] < t[3] /\ \A l \in 1 .. (3 - 1) : s[l] = t[l]
        BY <2>1, <2>2, <2>6
      <3>2. QED  BY <3>1 DEF ComesBefore
    <2>7. QED  BY <2>3, <2>4, <2>5, <2>6 DEF ComesBefore
  <1>5. LoadedBefore(i, j) <=> ComesBefore(s, t)
    BY <1>1 DEF LoadedBefore
  <1>6. QED  BY <1>4, <1>5 DEF a, b, c, x, y, z

(* A cassette's interactions are loaded in the order of their indexes, as  *)
(* long as there are at most a thousand of them.                           *)
THEOREM LoadOrderIsIndexOrder ==
    \A i, j \in Thousand : LoadedBefore(i, j) <=> i < j
  <1>. SUFFICES ASSUME NEW i \in Thousand, NEW j \in Thousand
                PROVE  LoadedBefore(i, j) <=> i < j
    OBVIOUS
  <1>. DEFINE a == i \div 100   b == (i \div 10) % 10   c == i % 10
              x == j \div 100   y == (j \div 10) % 10   z == j % 10
  <1>1. LoadedBefore(i, j) <=>
            a < x \/ (a = x /\ b < y) \/ (a = x /\ b = y /\ c < z)
    BY CompareDigits
  <1>2. /\ a \in 0 .. 9 /\ b \in 0 .. 9 /\ c \in 0 .. 9
        /\ i = 100 * a + 10 * b + c
    BY Digits
  <1>3. /\ x \in 0 .. 9 /\ y \in 0 .. 9 /\ z \in 0 .. 9
        /\ j = 100 * x + 10 * y + z
    BY Digits
  <1>. HIDE DEF a, b, c, x, y, z
  <1>4. QED  BY <1>1, <1>2, <1>3
-----------------------------------------------------------------------------
LEMMA LeastElement ==
    ASSUME NEW S \in SUBSET Nat, S # {}
    PROVE  \E m \in S : \A k \in S : m <= k
  <1>. DEFINE R == {ss \in Nat \X Nat : ss[1] < ss[2]}
  <1>1. IsWellFoundedOn(R, Nat)
    BY NatLessThanWellFounded DEF OpToRel
  <1>2. PICK m \in S : \A k \in S : ~ (<<k, m>> \in R)
    <2>. HIDE DEF R
    <2>1. QED  BY <1>1, WFMin
  <1>3. \A k \in S : ~ (k < m)
    BY <1>2
  <1>4. QED  BY <1>3

(* What is left of a sequence without one of its elements.                 *)
LEMMA Removed ==
    ASSUME NEW S, NEW s \in Seq(S), NEW k \in 1 .. Len(s)
    PROVE  /\ RemoveAt(s, k) \in Seq(S)
           /\ Len(RemoveAt(s, k)) = Len(s) - 1
           /\ \A i \in 1 .. Len(s) - 1 :
                RemoveAt(s, k)[i] = s[IF i < k THEN i ELSE i + 1]
  <1>. DEFINE a == SubSeq(s, 1, k - 1)
              b == SubSeq(s, k + 1, Len(s))
  <1>1. a \in Seq(S) /\ Len(a) = k - 1 /\ \A i \in 1 .. k - 1 : a[i] = s[i]
    BY SubSeqProperties
  <1>2. b \in Seq(S) /\ Len(b) = Len(s) - k /\ \A i \in 1 .. Len(s) - k : b[i] = s[k + i]
    <2>1. k + 1 - 1 = k /\ Len(s) - (k + 1) + 1 = Len(s) - k
      OBVIOUS
    <2>2. QED  BY <2>1, SubSeqProperties
  <1>. HIDE DEF a, b
  <1>3. RemoveAt(s, k) = a \o b
    BY DEF RemoveAt, a, b
  <1>4. /\ a \o b \in Seq(S) /\ Len(a \o b) = Len(a) + Len(b)
        /\ \A i \in 1 .. Len(a) + Len(b) :
             (a \o b)[i] = IF i <= Len(a) THEN a[i] ELSE b[i - Len(a)]
    BY <1>1, <1>2, ConcatProperties
  <1>5. QED  BY <1>1, <1>2, <1>3, <1>4

LEMMA TheOthersRemain ==
    ASSUME NEW S, NEW s \in Seq(S), NEW k \in 1 .. Len(s)
    PROVE  /\ \A i \in DOMAIN RemoveAt(s, k) :
                \E l \in DOMAIN s : l # k /\ RemoveAt(s, k)[i] = s[l]
           /\ \A l \in DOMAIN s :
                l # k => \E i \in DOMAIN RemoveAt(s, k) : RemoveAt(s, k)[i] = s[l]
  <1>. DEFINE r == RemoveAt(s, k)
  <1>1. /\ Len(s) \in Nat /\ DOMAIN s = 1 .. Len(s) /\ DOMAIN r = 1 .. Len(s) - 1
        /\ \A i \in 1 .. Len(s) - 1 : r[i] = s[IF i < k THEN i ELSE i + 1]
    BY Removed
  <1>. HIDE DEF r
  <1>2. ASSUME NEW i \in DOMAIN r
        PROVE  \E l \in DOMAIN s : l # k /\ r[i] = s[l]
    <2>. DEFINE l == IF i < k THEN i ELSE i + 1
    <2>1. l \in DOMAIN s /\ l # k /\ r[i] = s[l]
      BY <1>1, <1>2
    <2>. HIDE DEF l
    <2>2. QED  BY <2>1
  <1>3. ASSUME NEW l \in DOMAIN s, l # k
        PROVE  \E i \in DOMAIN r : r[i] = s[l]
    <2>. DEFINE i == IF l < k THEN l ELSE l - 1
    <2>1. i \in DOMAIN r /\ (IF i < k THEN i ELSE i + 1) = l
      BY <1>1, <1>3
    <2>2. r[i] = s[l]
      BY <1>1, <2>1
    <2>. HIDE DEF i
    <2>3. QED  BY <2>1, <2>2
  <1>4. QED  BY <1>2, <1>3 DEF r

-----------------------------------------------------------------------------
(* What Record writes for the i-th query.                                  *)
FileOf(q, i) ==
    [index  |-> first + i - 1,
     sql    |-> normalise_sql(q.sql, suite.dialect),
     params |-> apply_scrubbing(serialise_params(q.params, Registry), ParamKeys, suite.scrubber),
     table  |-> RecordedTable(q)]

Stored(i) == FileOf(asked[i], i)

(* The cassette holds what was asked, and nothing else.                    *)
FilesInv ==
    /\ suite \in Suites /\ first \in FirstIndexes
    /\ asked \in Seq(Queries)
    /\ Len(asked) <= MaxQueries
    /\ \A i \in 1 .. Len(asked) : Serialisable(asked[i].params, Registry)
    /\ files = [i \in 1 .. Len(asked) |-> Stored(i)]

LEMMA FilesInit == Init => FilesInv
  <1>. SUFFICES ASSUME Init PROVE FilesInv
    OBVIOUS
  <1>1. asked = <<>> /\ files = <<>> /\ suite \in Suites /\ first \in FirstIndexes
    BY DEF Init
  <1>2. MaxQueries \in Nat
    BY InteractionsAssumption
  <1>3. QED  BY <1>1, <1>2 DEF FilesInv

LEMMA FilesStep == FilesInv /\ [Next]_vars => FilesInv'
  <1>. SUFFICES ASSUME FilesInv, [Next]_vars PROVE FilesInv'
    OBVIOUS
  <1>0. ASSUME UNCHANGED <<suite, first, files, asked>>
        PROVE  FilesInv'
    BY <1>0 DEF FilesInv, Stored, FileOf, Registry, ParamKeys, ResultKeys, RecordedTable
  <1>1. ASSUME NEW q \in Queries, Record(q)
        PROVE  FilesInv'
    <2>1. suite' = suite /\ first' = first /\ asked' = Append(asked, q)
      BY <1>1 DEF Record
    <2>2. asked \in Seq(Queries) /\ Len(asked) < MaxQueries
      BY <1>1 DEF Record, FilesInv
    <2>3. /\ asked' \in Seq(Queries) /\ Len(asked') = Len(asked) + 1
          /\ asked'[Len(asked) + 1] = q /\ \A i \in 1 .. Len(asked) : asked'[i] = asked[i]
      BY <2>1, <2>2, AppendProperties
    <2>4. Registry' = Registry /\ ParamKeys' = ParamKeys /\ ResultKeys' = ResultKeys
      BY <2>1 DEF Registry, ParamKeys, ResultKeys
    <2>5. \A i : Stored(i)' = FileOf(asked'[i], i)
      BY <2>1, <2>4 DEF Stored, FileOf, RecordedTable
    <2>. DEFINE S == {FileOf(p, i) : p \in Queries, i \in Nat}
    <2>6. files \in Seq(S) /\ Len(files) = Len(asked)
      <3>1. \A i \in 1 .. Len(asked) : asked[i] \in Queries
        BY <2>2
      <3>2. QED  BY <2>2, <3>1 DEF FilesInv, Stored
    <2>7. files' = Append(files, FileOf(q, Len(asked) + 1))
      <3>1. NextIndex = first + (Len(asked) + 1) - 1
        <4>1. first \in Nat /\ Len(asked) \in Nat
          BY <2>2, InteractionsAssumption DEF FilesInv
        <4>2. QED  BY <2>6, <4>1 DEF NextIndex
      <3>2. QED  BY <1>1, <3>1 DEF Record, FileOf
    <2>8. FileOf(q, Len(asked) + 1) \in S
      BY <2>2
    <2>9. /\ files' \in Seq(S) /\ Len(files') = Len(asked) + 1
          /\ files'[Len(asked) + 1] = FileOf(q, Len(asked) + 1)
          /\ \A i \in 1 .. Len(asked) : files'[i] = files[i]
      <3>. HIDE DEF S
      <3>1. QED  BY <2>6, <2>7, <2>8, AppendProperties
    <2>. HIDE DEF S
    <2>10. files' = [i \in 1 .. Len(files') |-> files'[i]]
      BY <2>9
    <2>11. \A i \in 1 .. Len(asked') : files'[i] = FileOf(asked'[i], i)
      <3>1. \A i \in 1 .. Len(asked) : files'[i] = FileOf(asked'[i], i)
        BY <2>3, <2>9 DEF FilesInv, Stored
      <3>2. \A i \in 1 .. Len(asked') : i \in 1 .. Len(asked) \/ i = Len(asked) + 1
        BY <2>2, <2>3
      <3>3. QED  BY <2>3, <2>9, <3>1, <3>2
    <2>12. files' = [i \in 1 .. Len(asked') |-> Stored(i)']
      BY <2>3, <2>5, <2>9, <2>10, <2>11
    <2>13. \A i \in 1 .. Len(asked') : Serialisable(asked'[i].params, Registry')
      <3>1. \A i \in 1 .. Len(asked') : i \in 1 .. Len(asked) \/ i = Len(asked) + 1
        BY <2>2, <2>3
      <3>2. Serialisable(q.params, Registry)
        BY <1>1 DEF Record
      <3>3. QED  BY <2>3, <2>4, <3>1, <3>2 DEF FilesInv
    <2>14. Len(asked') <= MaxQueries
      BY <2>2, <2>3, InteractionsAssumption
    <2>15. QED  BY <2>1, <2>3, <2>12, <2>13, <2>14 DEF FilesInv
  <1>2. ASSUME NEW q \in Queries, Refuse(q)
        PROVE  FilesInv'
    BY <1>0, <1>2 DEF Refuse, vars
  <1>3. CASE Reload
    BY <1>0, <1>3 DEF Reload
  <1>4. ASSUME NEW q \in Queries, Replay(q)
        PROVE  FilesInv'
    BY <1>0, <1>4 DEF Replay
  <1>5. CASE Finished \/ UNCHANGED vars
    BY <1>0, <1>5 DEF Finished, vars
  <1>6. QED  BY <1>1, <1>2, <1>3, <1>4, <1>5 DEF Next

LEMMA StoredFiles ==
    ASSUME FilesInv
    PROVE  /\ Len(asked) \in Nat /\ first \in Nat /\ Len(asked) <= MaxQueries
           /\ Len(files) = Len(asked) /\ DOMAIN files = 1 .. Len(asked)
           /\ \A n \in 1 .. Len(asked) :
                /\ asked[n] \in Queries
                /\ files[n] = Stored(n)
                /\ files[n].index = first + n - 1
  <1>1. /\ Len(asked) \in Nat /\ first \in Nat /\ Len(asked) <= MaxQueries
        /\ \A n \in 1 .. Len(asked) : asked[n] \in Queries
    BY InteractionsAssumption DEF FilesInv
  <1>2. /\ Len(files) = Len(asked) /\ DOMAIN files = 1 .. Len(asked)
        /\ \A n \in 1 .. Len(asked) : files[n] = Stored(n)
    BY <1>1 DEF FilesInv
  <1>3. \A n \in 1 .. Len(asked) : files[n].index = first + n - 1
    BY <1>2 DEF Stored, FileOf
  <1>4. QED  BY <1>1, <1>2, <1>3

LEMMA ThreeDigits ==
    ASSUME BelowAThousand, FilesInv
    PROVE  \A n \in 1 .. Len(asked) : files[n].index \in Thousand
  <1>1. first + MaxQueries <= 1000 /\ MaxQueries \in Nat
    BY InteractionsAssumption DEF FilesInv, BelowAThousand
  <1>2. /\ Len(asked) \in Nat /\ first \in Nat /\ Len(asked) <= MaxQueries
        /\ \A n \in 1 .. Len(asked) : files[n].index = first + n - 1
    BY StoredFiles
  <1>3. \A n \in 1 .. Len(asked) : first + n - 1 \in 0 .. 999
    <2>1. first + Len(asked) <= 1000 /\ Len(asked) \in Nat /\ first \in Nat
      BY <1>1, <1>2
    <2>2. QED  BY <2>1
  <1>4. QED  BY <1>2, <1>3, Zenon DEF Thousand

(* The listing is an order of all files, that of their indexes.            *)
LEMMA ListedInOrder ==
    ASSUME BelowAThousand, FilesInv
    PROVE  /\ Listing(files) \in Bijection(DOMAIN files, DOMAIN files)
           /\ \A k, l \in DOMAIN files :
                k < l => files[Listing(files)[k]].index < files[Listing(files)[l]].index
  <1>. DEFINE D == DOMAIN files
              Ordered(order) ==
                \A k, l \in D :
                  k < l => LoadedBefore(files[order[k]].index, files[order[l]].index)
              same == [k \in D |-> k]
  <1>1. /\ D = 1 .. Len(asked) /\ Len(asked) \in Nat /\ first \in Nat
        /\ \A n \in D : files[n].index = first + n - 1 /\ files[n].index \in Thousand
    BY StoredFiles, ThreeDigits
  <1>2. same \in Bijection(D, D)
    <2>. HIDE DEF D
    <2>1. QED  BY DEF Bijection, Injection, Surjection, IsInjective
  <1>3. Ordered(same)
    <2>1. SUFFICES ASSUME NEW k \in D, NEW l \in D, k < l
                   PROVE  LoadedBefore(files[k].index, files[l].index)
      OBVIOUS
    <2>2. files[k].index < files[l].index
      BY <1>1, <2>1
    <2>3. QED  BY <1>1, <2>2, LoadOrderIsIndexOrder
  <1>4. Listing(files) = CHOOSE order \in Bijection(D, D) : Ordered(order)
    BY DEF Listing
  <1>5. Listing(files) \in Bijection(D, D) /\ Ordered(Listing(files))
    <2>. HIDE DEF D, Ordered, same
    <2>1. QED  BY <1>2, <1>3, <1>4
  <1>6. \A k \in D : Listing(files)[k] \in D
    BY <1>5 DEF Bijection, Injection
  <1>7. QED  BY <1>1, <1>5, <1>6, LoadOrderIsIndexOrder

(* The queue holds files of the cassette, in order, once it is loaded.     *)
QueueInv ==
    /\ phase \in {"recording", "replaying"}
    /\ phase = "recording" => queue = <<>> /\ served = <<>>
    /\ queue \in Seq({files[n] : n \in 1 .. Len(asked)})
    /\ LoadedInIndexOrder

LEMMA QueueInit == Init => QueueInv
  BY DEF Init, QueueInv, LoadedInIndexOrder

LEMMA QueueStep ==
    ASSUME BelowAThousand
    PROVE  FilesInv /\ QueueInv /\ [Next]_vars => QueueInv'
  <1>. SUFFICES ASSUME FilesInv, QueueInv, [Next]_vars PROVE QueueInv'
    OBVIOUS
  <1>0. CASE UNCHANGED vars
    BY <1>0 DEF QueueInv, LoadedInIndexOrder, vars
  <1>1. ASSUME NEW q \in Queries, Record(q)
        PROVE  QueueInv'
    <2>1. phase = "recording" /\ phase' = phase /\ queue' = queue /\ served' = served
      BY <1>1 DEF Record
    <2>2. queue' = <<>> /\ served' = <<>>
      BY <2>1 DEF QueueInv
    <2>3. QED  BY <2>1, <2>2 DEF QueueInv, LoadedInIndexOrder
  <1>2. ASSUME NEW q \in Queries, Refuse(q)
        PROVE  QueueInv'
    BY <1>0, <1>2 DEF Refuse
  <1>3. CASE Reload
    <2>. DEFINE S == {files[n] : n \in 1 .. Len(asked)}
                D == DOMAIN files
    <2>1. /\ files' = files /\ asked' = asked /\ phase' = "replaying"
          /\ queue' = [k \in D |-> files[Listing(files)[k]]]
      BY <1>3 DEF Reload
    <2>2. D = 1 .. Len(asked) /\ Len(asked) \in Nat
      BY StoredFiles
    <2>3. /\ \A k \in D : Listing(files)[k] \in D
          /\ \A k, l \in D :
               k < l => files[Listing(files)[k]].index < files[Listing(files)[l]].index
      BY ListedInOrder DEF Bijection, Injection
    <2>. HIDE DEF D
    <2>4. queue' \in Seq(S)
      BY <2>1, <2>2, <2>3
    <2>5. \A k, l \in D : k < l => queue'[k].index < queue'[l].index
      BY <2>1, <2>3
    <2>6. DOMAIN queue' = D
      BY <2>1
    <2>7. LoadedInIndexOrder'
      BY <2>5, <2>6 DEF LoadedInIndexOrder
    <2>8. QED  BY <2>1, <2>4, <2>7 DEF QueueInv
  <1>4. ASSUME NEW q \in Queries, Replay(q)
        PROVE  QueueInv'
    <2>. DEFINE S == {files[n] : n \in 1 .. Len(asked)}
    <2>1. files' = files /\ asked' = asked /\ phase = "replaying" /\ phase' = phase
      BY <1>4 DEF Replay
    <2>2. queue \in Seq(S) /\ \A k, l \in 1 .. Len(queue) : k < l => queue[k].index < queue[l].index
      BY DEF QueueInv, LoadedInIndexOrder
    <2>. HIDE DEF S
    <2>3. CASE queue' = queue
      BY <2>1, <2>3 DEF QueueInv, LoadedInIndexOrder
    <2>4. ASSUME NEW k \in Found(q), queue' = RemoveAt(queue, k)
          PROVE  QueueInv'
      <3>1. k \in 1 .. Len(queue)
        BY <2>2, <2>4 DEF Found, Matches
      <3>2. /\ queue' \in Seq(S) /\ Len(queue') = Len(queue) - 1
            /\ \A i \in 1 .. Len(queue) - 1 : queue'[i] = queue[IF i < k THEN i ELSE i + 1]
        BY <2>2, <2>4, <3>1, Removed
      <3>3. \A i, j \in 1 .. Len(queue') : i < j => queue'[i].index < queue'[j].index
        <4>1. SUFFICES ASSUME NEW i \in 1 .. Len(queue'), NEW j \in 1 .. Len(queue'), i < j
                       PROVE  queue'[i].index < queue'[j].index
          OBVIOUS
        <4>. DEFINE ii == IF i < k THEN i ELSE i + 1
                    jj == IF j < k THEN j ELSE j + 1
        <4>2. ii \in 1 .. Len(queue) /\ jj \in 1 .. Len(queue) /\ ii < jj
          BY <2>2, <3>1, <3>2, <4>1
        <4>3. queue'[i] = queue[ii] /\ queue'[j] = queue[jj]
          BY <3>2
        <4>. HIDE DEF ii, jj
        <4>4. QED  BY <2>2, <4>2, <4>3
      <3>4. LoadedInIndexOrder'
        BY <3>2, <3>3 DEF LoadedInIndexOrder
      <3>5. QED  BY <2>1, <3>2, <3>4 DEF QueueInv, S
    <2>5. QED  BY <1>4, <2>3, <2>4 DEF Replay
  <1>5. CASE Finished
    BY <1>0, <1>5 DEF Finished
  <1>6. QED  BY <1>0, <1>1, <1>2, <1>3, <1>4, <1>5 DEF Next

-----------------------------------------------------------------------------
(* A lookup either has nothing to match, or takes the first match away.    *)
LEMMA Replays ==
    ASSUME FilesInv, QueueInv, NEW q \in Queries, Replay(q)
    PROVE  /\ UNCHANGED <<suite, first, files, phase, asked>> /\ phase = "replaying"
           /\ Serialisable(q.params, Registry)
           /\ \/ /\ Matches(q) = {} /\ queue' = queue
                 /\ served' = Append(served, [query |-> q, recording |-> 0])
              \/ \E k \in Matches(q) : \E n \in 1 .. Len(asked) :
                   /\ \A l \in Matches(q) : k <= l
                   /\ queue[k] = files[n] /\ files[n].index = first + n - 1
                   /\ queue' = RemoveAt(queue, k)
                   /\ served' = Append(served, [query |-> q, recording |-> n])
  <1>. DEFINE S == {files[n] : n \in 1 .. Len(asked)}
  <1>1. queue \in Seq(S)
    BY DEF QueueInv
  <1>2. Matches(q) \subseteq 1 .. Len(queue)
    BY <1>1 DEF Matches
  <1>3. CASE Found(q) = {}
    <2>1. Matches(q) = {}
      <3>1. SUFFICES ASSUME Matches(q) # {} PROVE FALSE
        OBVIOUS
      <3>2. Matches(q) \in SUBSET Nat
        BY <1>2
      <3>3. PICK m \in Matches(q) : \A l \in Matches(q) : m <= l
        BY <3>1, <3>2, LeastElement
      <3>4. QED  BY <1>3, <3>3 DEF Found
    <2>2. QED  BY <1>3, <2>1 DEF Replay
  <1>4. CASE Found(q) # {}
    <2>1. PICK k \in Found(q) :
            /\ queue' = RemoveAt(queue, k)
            /\ served' = Append(served, [query |-> q, recording |-> queue[k].index - first + 1])
      BY <1>4 DEF Replay
    <2>2. k \in Matches(q) /\ k \in 1 .. Len(queue) /\ \A l \in Matches(q) : k <= l
      BY <1>2, <2>1 DEF Found
    <2>3. queue[k] \in S
      BY <1>1, <2>2
    <2>4. PICK n \in 1 .. Len(asked) : queue[k] = files[n]
      BY <2>3
    <2>5. files[n].index = first + n - 1 /\ first \in Nat /\ Len(asked) \in Nat
      BY StoredFiles
    <2>6. queue[k].index - first + 1 = n
      BY <2>4, <2>5
    <2>7. QED  BY <2>1, <2>2, <2>4, <2>5, <2>6 DEF Replay
  <1>5. QED  BY <1>3, <1>4

(* What was served is of the kind that was asked for, and the recordings   *)
(* of it that are left were made later.                                    *)
AsStored ==
    \A i \in 1 .. Len(served) :
        /\ Serialisable(served[i].query.params, Registry)
        /\ served[i].recording # 0 =>
             /\ files[served[i].recording].sql = normalise_sql(served[i].query.sql, suite.dialect)
             /\ files[served[i].recording].params = serialise_params(served[i].query.params, Registry)

LaterOnesLeft ==
    \A q \in Queries : \A i \in 1 .. Len(served) :
        served[i].query = q /\ served[i].recording # 0 =>
          \A k \in Matches(q) : queue[k].index >= first + served[i].recording

InOrder ==
    \A i, j \in 1 .. Len(served) :
        i < j /\ served[i].query = served[j].query /\ served[j].recording # 0
          => served[i].recording < served[j].recording

(* A recording is in the queue until it is served.                         *)
NothingLost ==
    phase = "replaying" =>
      \A n \in 1 .. Len(asked) :
          \/ \E k \in DOMAIN queue : queue[k] = files[n]
          \/ \E j \in 1 .. Len(served) : served[j].recording = n

ServedInv ==
    /\ served \in Seq([query : Queries, recording : 0 .. Len(asked)])
    /\ AsStored
    /\ LaterOnesLeft
    /\ InOrder
    /\ NothingLost
    /\ FoundUnlessScrubbed

LEMMA ServedInit == Init => ServedInv
  BY DEF Init, ServedInv, AsStored, LaterOnesLeft, InOrder, NothingLost, FoundUnlessScrubbed

(* A replay that finds nothing.                                            *)
LEMMA ServedNothing ==
    ASSUME FilesInv, QueueInv, ServedInv, NEW q \in Queries,
           UNCHANGED <<suite, first, files, phase, asked>>, queue' = queue,
           phase = "replaying", Serialisable(q.params, Registry), Matches(q) = {},
           served' = Append(served, [query |-> q, recording |-> 0])
    PROVE  ServedInv'
  <1>. DEFINE S == [query : Queries, recording : 0 .. Len(asked)]
              last == Len(served) + 1
  <1>1. served \in Seq(S) /\ Len(served) \in Nat /\ Len(asked) \in Nat
    BY StoredFiles DEF ServedInv
  <1>2. [query |-> q, recording |-> 0] \in S
    BY <1>1
  <1>. HIDE DEF S
  <1>3. /\ served' \in Seq(S) /\ Len(served') = last
        /\ served'[last] = [query |-> q, recording |-> 0]
        /\ \A i \in 1 .. Len(served) : served'[i] = served[i]
    BY <1>1, <1>2, AppendProperties
  <1>4. /\ \A i \in 1 .. last : i \in 1 .. Len(served) \/ i = last
        /\ \A i \in 1 .. Len(served) : i \in 1 .. last /\ i < last
        /\ last \in 1 .. last
    BY <1>1
  <1>5. served'[last].query = q /\ served'[last].recording = 0
    BY <1>3
  <1>6. Registry' = Registry /\ \A p : Matches(p)' = Matches(p)
    BY DEF Registry, Matches
  <1>. HIDE DEF last
  <1>7. AsStored'
    BY <1>3, <1>4, <1>5, <1>6 DEF ServedInv, AsStored
  <1>8. LaterOnesLeft'
    BY <1>3, <1>4, <1>5, <1>6 DEF ServedInv, LaterOnesLeft
  <1>9. InOrder'
    <2>1. SUFFICES ASSUME NEW i \in 1 .. last, NEW j \in 1 .. last, i < j,
                          served'[i].query = served'[j].query, served'[j].recording # 0
                   PROVE  served'[i].recording < served'[j].recording
      BY <1>3 DEF InOrder
    <2>2. j \in 1 .. Len(served)
      BY <1>4, <1>5, <2>1
    <2>3. i \in 1 .. Len(served)
      BY <1>1, <2>1, <2>2
    <2>4. QED  BY <1>3, <2>1, <2>2, <2>3 DEF ServedInv, InOrder
  <1>10. NothingLost'
    <2>1. SUFFICES ASSUME NEW n \in 1 .. Len(asked)
                   PROVE  \/ \E k \in DOMAIN queue : queue[k] = files[n]
                          \/ \E j \in 1 .. last : served'[j].recording = n
      BY <1>3 DEF NothingLost
    <2>2. QED  BY <1>3, <1>4 DEF ServedInv, NothingLost
  <1>11. FoundUnlessScrubbed'
    <2>1. SUFFICES ASSUME NEW i \in 1 .. last, served'[i].recording = 0,
                          NEW n \in 1 .. Len(asked), asked[n] = served'[i].query,
                          files[n].params = serialise_params(asked[n].params, Registry)
                   PROVE  \E j \in 1 .. i : served'[j].recording = n
      <3>1. DOMAIN served' = 1 .. last /\ DOMAIN asked = 1 .. Len(asked)
        BY <1>3, <1>1 DEF FilesInv
      <3>2. asked' = asked /\ files' = files /\ Registry' = Registry
        BY <1>6
      <3>3. ASSUME NEW i \in DOMAIN served', served'[i].recording = 0,
                   NEW n \in DOMAIN asked', asked'[n] = served'[i].query
            PROVE  \/ files'[n].params # serialise_params(asked'[n].params, Registry')
                   \/ \E j \in 1 .. i : served'[j].recording = n
        <4>1. i \in 1 .. last /\ n \in 1 .. Len(asked) /\ asked[n] = served'[i].query
          BY <3>1, <3>2, <3>3
        <4>2. QED  BY <2>1, <3>2, <3>3, <4>1
      <3>4. QED  BY <3>3 DEF FoundUnlessScrubbed
    <2>2. CASE i \in 1 .. Len(served)
      <3>1. i \in DOMAIN served /\ n \in DOMAIN asked
        BY <1>1, <2>2 DEF FilesInv
      <3>2. PICK j \in 1 .. i : served[j].recording = n
        BY <1>3, <2>1, <2>2, <3>1 DEF ServedInv, FoundUnlessScrubbed
      <3>3. j \in 1 .. Len(served)
        BY <1>1, <2>2
      <3>4. QED  BY <1>3, <3>2, <3>3
    <2>3. CASE i = last
      <3>1. asked[n] = q
        BY <1>5, <2>1, <2>3
      <3>2. CASE \E k \in DOMAIN queue : queue[k] = files[n]
        <4>1. PICK k \in DOMAIN queue : queue[k] = files[n]
          BY <3>2
        <4>2. files[n].sql = normalise_sql(q.sql, suite.dialect)
          BY <3>1, StoredFiles DEF Stored, FileOf
        <4>3. k \in Matches(q)
          BY <2>1, <3>1, <4>1, <4>2 DEF Matches
        <4>4. QED  BY <4>3
      <3>3. CASE \E j \in 1 .. Len(served) : served[j].recording = n
        BY <1>3, <1>4, <2>3, <3>3
      <3>4. QED  BY <3>2, <3>3 DEF ServedInv, NothingLost
    <2>4. QED  BY <1>4, <2>2, <2>3
  <1>12. QED  BY <1>3, <1>7, <1>8, <1>9, <1>10, <1>11 DEF ServedInv, S

(* A replay that takes the k-th of the queue, which is the n-th recording. *)
LEMMA ServedOne ==
    ASSUME FilesInv, QueueInv, ServedInv, NEW q \in Queries,
           UNCHANGED <<suite, first, files, phase, asked>>,
           phase = "replaying", Serialisable(q.params, Registry),
           NEW k \in Matches(q), NEW n \in 1 .. Len(asked), \A l \in Matches(q) : k <= l,
           queue[k] = files[n], files[n].index = first + n - 1,
           queue' = RemoveAt(queue, k),
           served' = Append(served, [query |-> q, recording |-> n])
    PROVE  ServedInv'
  <1>. DEFINE S == [query : Queries, recording : 0 .. Len(asked)]
              F == {files[m] : m \in 1 .. Len(asked)}
              last == Len(served) + 1
  <1>1. served \in Seq(S) /\ Len(served) \in Nat /\ Len(asked) \in Nat /\ first \in Nat
    BY StoredFiles DEF ServedInv
  <1>2. [query |-> q, recording |-> n] \in S
    BY <1>1
  <1>. HIDE DEF S
  <1>3. /\ served' \in Seq(S) /\ Len(served') = last
        /\ served'[last] = [query |-> q, recording |-> n]
        /\ \A i \in 1 .. Len(served) : served'[i] = served[i]
    BY <1>1, <1>2, AppendProperties
  <1>4. /\ \A i \in 1 .. last : i \in 1 .. Len(served) \/ i = last
        /\ \A i \in 1 .. Len(served) : i \in 1 .. last /\ i < last
        /\ last \in 1 .. last
    BY <1>1
  <1>5. served'[last].query = q /\ served'[last].recording = n /\ n # 0
    BY <1>3
  <1>6. /\ asked' = asked /\ files' = files /\ Registry' = Registry
        /\ suite' = suite /\ first' = first
    BY DEF Registry
  <1>. HIDE DEF last
  <1>7. queue \in Seq(F) /\ k \in 1 .. Len(queue)
    BY DEF QueueInv, Matches
  <1>8. \A l \in DOMAIN queue :
          l # k => \E i \in DOMAIN queue' : queue'[i] = queue[l]
    <2>. HIDE DEF F
    <2>1. QED  BY <1>7, TheOthersRemain
  (* A match in what is left was one before, and not the one taken.        *)
  <1>9. \A p : \A i \in Matches(p)' :
          \E l \in Matches(p) : l # k /\ queue'[i] = queue[l]
    <2>. HIDE DEF F
    <2>1. \A i \in DOMAIN queue' : \E l \in DOMAIN queue : l # k /\ queue'[i] = queue[l]
      BY <1>7, TheOthersRemain
    <2>2. SUFFICES ASSUME NEW p, NEW i \in Matches(p)'
                   PROVE  \E l \in Matches(p) : l # k /\ queue'[i] = queue[l]
      OBVIOUS
    <2>3. /\ i \in DOMAIN queue'
          /\ queue'[i].sql = normalise_sql(p.sql, suite.dialect)
          /\ queue'[i].params = serialise_params(p.params, Registry)
      BY <1>6, <2>2 DEF Matches
    <2>4. PICK l \in DOMAIN queue : l # k /\ queue'[i] = queue[l]
      BY <2>1, <2>3
    <2>5. l \in Matches(p)
      BY <2>3, <2>4 DEF Matches
    <2>6. QED  BY <2>4, <2>5
  <1>10. AsStored'
    <2>1. /\ files[n].sql = normalise_sql(q.sql, suite.dialect)
          /\ files[n].params = serialise_params(q.params, Registry)
      BY DEF Matches
    <2>2. \A i \in 1 .. last :
            /\ Serialisable(served'[i].query.params, Registry)
            /\ served'[i].recording # 0 =>
                 /\ files[served'[i].recording].sql = normalise_sql(served'[i].query.sql, suite.dialect)
                 /\ files[served'[i].recording].params
                      = serialise_params(served'[i].query.params, Registry)
      BY <1>3, <1>4, <1>5, <2>1 DEF ServedInv, AsStored
    <2>3. QED  BY <1>3, <1>6, <2>2 DEF AsStored
  <1>11. LaterOnesLeft'
    <2>1. SUFFICES ASSUME NEW p \in Queries, NEW i \in 1 .. last,
                          served'[i].query = p, served'[i].recording # 0,
                          NEW kk \in Matches(p)'
                   PROVE  queue'[kk].index >= first + served'[i].recording
      BY <1>3, <1>6 DEF LaterOnesLeft
    <2>2. PICK l \in Matches(p) : l # k /\ queue'[kk] = queue[l]
      BY <1>9, <2>1
    <2>3. CASE i \in 1 .. Len(served)
      BY <1>3, <2>1, <2>2, <2>3 DEF ServedInv, LaterOnesLeft
    <2>4. CASE i = last
      <3>1. l \in Matches(q) /\ l \in DOMAIN queue /\ k \in DOMAIN queue
        BY <1>5, <2>1, <2>2, <2>4 DEF Matches
      <3>2. l \in Nat /\ k \in Nat /\ k <= l /\ k # l
        BY <1>7, <2>2, <3>1
      <3>3. queue[k].index < queue[l].index
        BY <3>1, <3>2 DEF QueueInv, LoadedInIndexOrder
      <3>4. queue[l].index \in Int
        <4>1. PICK m \in 1 .. Len(asked) : queue[l] = files[m]
          BY <1>7, <3>1
        <4>2. files[m].index = first + m - 1
          BY StoredFiles
        <4>3. QED  BY <1>1, <4>1, <4>2
      <3>5. queue[l].index > first + n - 1
        BY <3>3
      <3>6. queue[l].index >= first + n
        BY <1>1, <3>4, <3>5
      <3>7. QED  BY <1>5, <2>2, <2>4, <3>6
    <2>5. QED  BY <1>4, <2>3, <2>4
  <1>12. InOrder'
    <2>1. SUFFICES ASSUME NEW i \in 1 .. last, NEW j \in 1 .. last, i < j,
                          served'[i].query = served'[j].query, served'[j].recording # 0
                   PROVE  served'[i].recording < served'[j].recording
      BY <1>3 DEF InOrder
    <2>2. CASE j \in 1 .. Len(served)
      <3>1. i \in 1 .. Len(served)
        BY <1>1, <2>1, <2>2
      <3>2. QED  BY <1>3, <2>1, <2>2, <3>1 DEF ServedInv, InOrder
    <2>3. CASE j = last
      <3>1. i \in 1 .. Len(served) /\ served[i].query = q
        BY <1>1, <1>3, <1>4, <1>5, <2>1, <2>3
      <3>2. served[i] \in S
        BY <1>1, <3>1
      <3>3. served[i].recording \in 0 .. Len(asked)
        BY <3>2 DEF S
      <3>4. CASE served[i].recording = 0
        BY <1>3, <1>5, <2>3, <3>1, <3>4
      <3>5. CASE served[i].recording # 0
        <4>1. queue[k].index >= first + served[i].recording
          BY <3>1, <3>5 DEF ServedInv, LaterOnesLeft
        <4>2. first + n - 1 >= first + served[i].recording
          BY <4>1
        <4>3. served[i].recording < n
          BY <1>1, <3>3, <4>2
        <4>4. QED  BY <1>3, <1>5, <2>3, <3>1, <4>3
      <3>6. QED  BY <3>4, <3>5
    <2>4. QED  BY <1>4, <2>2, <2>3
  <1>13. NothingLost'
    <2>1. SUFFICES ASSUME NEW m \in 1 .. Len(asked)
                   PROVE  \/ \E i \in DOMAIN queue' : queue'[i] = files[m]
                          \/ \E j \in 1 .. last : served'[j].recording = m
      BY <1>3, <1>6 DEF NothingLost
    <2>2. CASE \E j \in 1 .. Len(served) : served[j].recording = m
      BY <1>3, <1>4, <2>2
    <2>3. CASE \E l \in DOMAIN queue : queue[l] = files[m]
      <3>1. PICK l \in DOMAIN queue : queue[l] = files[m]
        BY <2>3
      <3>2. CASE l = k
        <4>1. files[m].index = first + m - 1
          BY StoredFiles
        <4>2. first + m - 1 = first + n - 1
          BY <3>1, <3>2, <4>1
        <4>3. m = n
          BY <1>1, <4>2
        <4>4. QED  BY <1>4, <1>5, <4>3
      <3>3. CASE l # k
        BY <1>8, <3>1, <3>3
      <3>4. QED  BY <3>2, <3>3
    <2>4. QED  BY <2>2, <2>3 DEF ServedInv, NothingLost
  <1>14. FoundUnlessScrubbed'
    <2>1. SUFFICES ASSUME NEW i \in DOMAIN served', served'[i].recording = 0,
                          NEW m \in DOMAIN asked', asked'[m] = served'[i].query
                   PROVE  \/ files'[m].params # serialise_params(asked'[m].params, Registry')
                          \/ \E j \in 1 .. i : served'[j].recording = m
      BY DEF FoundUnlessScrubbed
    <2>2. i \in 1 .. Len(served)
      BY <1>3, <1>4, <1>5, <2>1
    <2>3. i \in DOMAIN served /\ m \in DOMAIN asked /\ served[i].recording = 0
          /\ asked[m] = served[i].query
      BY <1>1, <1>3, <1>6, <2>1, <2>2
    <2>4. \/ files[m].params # serialise_params(asked[m].params, Registry)
          \/ \E j \in 1 .. i : served[j].recording = m
      BY <2>3 DEF ServedInv, FoundUnlessScrubbed
    <2>5. \A j \in 1 .. i : j \in 1 .. Len(served)
      BY <1>1, <2>2
    <2>6. QED  BY <1>3, <1>6, <2>4, <2>5
  <1>15. QED
    BY <1>3, <1>6, <1>10, <1>11, <1>12, <1>13, <1>14 DEF ServedInv, S

LEMMA ServedStep ==
    ASSUME BelowAThousand
    PROVE  FilesInv /\ QueueInv /\ ServedInv /\ [Next]_vars => ServedInv'
  <1>. SUFFICES ASSUME FilesInv, QueueInv, ServedInv, [Next]_vars PROVE ServedInv'
    OBVIOUS
  (* While nothing is replayed there is nothing to keep.                   *)
  <1>0. ASSUME served' = <<>>,
               phase' = "replaying" =>
                 \A n \in 1 .. Len(asked') : \E k \in DOMAIN queue' : queue'[k] = files'[n]
        PROVE  ServedInv'
    BY <1>0 DEF ServedInv, AsStored, LaterOnesLeft, InOrder, NothingLost, FoundUnlessScrubbed
  <1>1. CASE UNCHANGED vars
    BY <1>1 DEF vars, ServedInv, AsStored, LaterOnesLeft, InOrder, NothingLost,
       FoundUnlessScrubbed, Matches, Registry
  <1>2. ASSUME NEW q \in Queries, Record(q)
        PROVE  ServedInv'
    BY <1>0, <1>2 DEF Record, QueueInv
  <1>3. ASSUME NEW q \in Queries, Refuse(q)
        PROVE  ServedInv'
    BY <1>1, <1>3 DEF Refuse
  <1>4. CASE Reload
    <2>1. /\ served' = <<>> /\ asked' = asked /\ files' = files
          /\ queue' = [k \in DOMAIN files |-> files[Listing(files)[k]]]
      BY <1>4 DEF Reload, QueueInv
    <2>2. DOMAIN files = 1 .. Len(asked)
      BY StoredFiles
    <2>3. \A n \in DOMAIN files : \E k \in DOMAIN files : Listing(files)[k] = n
      BY ListedInOrder DEF Bijection, Surjection
    <2>4. QED  BY <1>0, <2>1, <2>2, <2>3
  <1>5. ASSUME NEW q \in Queries, Replay(q)
        PROVE  ServedInv'
    BY <1>5, Replays, ServedNothing, ServedOne
  <1>6. CASE Finished
    BY <1>1, <1>6 DEF Finished
  <1>7. QED  BY <1>1, <1>2, <1>3, <1>4, <1>5, <1>6 DEF Next

LEMMA FilesInvariant == Spec => []FilesInv
  BY FilesInit, FilesStep, PTL DEF Spec

InteractionsInv == FilesInv /\ QueueInv /\ ServedInv

LEMMA InteractionsInvariant ==
    ASSUME BelowAThousand
    PROVE  Spec => []InteractionsInv
  <1>1. Init => InteractionsInv
    BY FilesInit, QueueInit, ServedInit DEF InteractionsInv
  <1>2. InteractionsInv /\ [Next]_vars => InteractionsInv'
    BY FilesStep, QueueStep, ServedStep DEF InteractionsInv
  <1>3. QED  BY <1>1, <1>2, PTL DEF Spec

-----------------------------------------------------------------------------
(* Below a thousand, an index for each query; what is served was recorded. *)
THEOREM InteractionTypes ==
    ASSUME BelowAThousand
    PROVE  Spec => []TypeOK
  <1>1. InteractionsInv => TypeOK
    <2>. SUFFICES ASSUME InteractionsInv PROVE TypeOK
      OBVIOUS
    <2>1. FilesInv /\ QueueInv /\ ServedInv
      BY DEF InteractionsInv
    <2>2. /\ Len(files) = Len(asked) /\ DOMAIN files = 1 .. Len(asked)
          /\ first \in Nat /\ Len(asked) \in Nat /\ Len(asked) <= MaxQueries
          /\ \A n \in 1 .. Len(asked) : files[n].index = first + n - 1
      BY <2>1, StoredFiles
    <2>3. \A n \in 1 .. Len(asked) : files[n].index \in first .. first + MaxQueries - 1
      <3>1. \A n \in 1 .. Len(asked) : first + n - 1 \in first .. first + MaxQueries - 1
        BY <2>2, InteractionsAssumption
      <3>2. QED  BY <2>2, <3>1
    <2>4. \A i \in DOMAIN served : served[i] \in [query : Queries, recording : 0 .. Len(files)]
      <3>. DEFINE S == [query : Queries, recording : 0 .. Len(files)]
      <3>1. served \in Seq(S)
        BY <2>1, <2>2 DEF ServedInv
      <3>. HIDE DEF S
      <3>2. \A i \in DOMAIN served : served[i] \in S
        BY <3>1
      <3>3. QED  BY <3>2 DEF S
    <2>5. QED  BY <2>1, <2>2, <2>3, <2>4 DEF TypeOK, FilesInv, QueueInv
  <1>2. QED  BY <1>1, InteractionsInvariant, PTL

(* The queue is in the order of recording from the first load on.          *)
THEOREM LoadedAsRecorded ==
    ASSUME BelowAThousand
    PROVE  Spec => []LoadedInIndexOrder
  <1>1. InteractionsInv => LoadedInIndexOrder
    BY DEF InteractionsInv, QueueInv
  <1>2. QED  BY <1>1, InteractionsInvariant, PTL

(* A recording in which nothing is redacted is missed only when used up.   *)
THEOREM FoundAgain ==
    ASSUME BelowAThousand
    PROVE  Spec => []FoundUnlessScrubbed
  <1>1. InteractionsInv => FoundUnlessScrubbed
    BY DEF InteractionsInv, ServedInv
  <1>2. QED  BY <1>1, InteractionsInvariant, PTL
-----------------------------------------------------------------------------
LEMMA TextOfStatement ==
    ASSUME NEW sql, NEW dialect
    PROVE  normalise_sql(sql, dialect) \in TextsOf(sql, dialect)
  <1>. DEFINE tree == parse_one[<<sql, dialect>>]
  <1>1. CASE tree = Unparsable \/ Renderings(tree, dialect) = {}
    BY <1>1 DEF normalise_sql, TextsOf
  <1>2. CASE tree # Unparsable /\ Renderings(tree, dialect) # {}
    <2>1. normalise_sql(sql, dialect) \in Renderings(tree, dialect)
      BY <1>2 DEF normalise_sql
    <2>2. Renderings(tree, dialect) \subseteq TextsOf(sql, dialect)
      BY <1>2 DEF Renderings, TextsOf
    <2>3. QED  BY <2>1, <2>2
  <1>3. QED  BY <1>1, <1>2

(* Parameters are a kind and a function to values.                         *)
LEMMA ParamsOfQuery ==
    ASSUME NEW q \in Queries
    PROVE  /\ q.params = [kind |-> q.params.kind, items |-> q.params.items]
           /\ q.params.items \in [DOMAIN q.params.items -> [type : STRING, text : STRING]]
           /\ \A k \in DOMAIN q.params.items :
                /\ q.params.items[k] \in Values
                /\ q.params.items[k] \in [type : STRING, text : STRING]
  <1>1. q.params \in [kind : {"none", "value", "list", "dict"},
                      items : [DOMAIN q.params.items -> [type : STRING, text : STRING]]]
    BY InteractionsAssumption
  <1>2. \A k \in DOMAIN q.params.items : q.params.items[k] \in Values
    BY DEF Values
  <1>3. QED  BY <1>1, <1>2

LEMMA Serialised ==
    ASSUME NEW q \in Queries, NEW R
    PROVE  serialise_params(q.params, R) =
             [kind |-> q.params.kind,
              items |-> [k \in DOMAIN q.params.items |-> _serialise_value(q.params.items[k], R)]]
  <1>1. \A kind, items :
          serialise_params([kind |-> kind, items |-> items], R) =
            [kind |-> kind, items |-> [k \in DOMAIN items |-> _serialise_value(items[k], R)]]
    BY DEF serialise_params
  <1>2. q.params = [kind |-> q.params.kind, items |-> q.params.items]
    BY ParamsOfQuery
  <1>. DEFINE kind == q.params.kind
              items == q.params.items
  <1>. HIDE DEF kind, items
  <1>3. serialise_params([kind |-> kind, items |-> items], R) =
            [kind |-> kind, items |-> [k \in DOMAIN items |-> _serialise_value(items[k], R)]]
    BY <1>1
  <1>4. QED  BY <1>2, <1>3 DEF kind, items

Redacted(items, names) ==
    [k \in DOMAIN items |-> IF k \in names THEN REDACTED ELSE items[k]]

Answered(scrubber) == IF scrubber.answers THEN scrubber.redacts ELSE {}

(* The keys and the callback redact values of a dict, in one go.           *)
LEMMA ScrubbedParams ==
    ASSUME NEW kind, NEW D, NEW S, NEW items \in [D -> S], NEW keys, NEW scrubber
    PROVE  apply_scrubbing([kind |-> kind, items |-> items], keys, scrubber) =
             [kind  |-> kind,
              items |-> IF kind = "dict" THEN Redacted(items, keys \union Answered(scrubber))
                        ELSE items]
  <1>. DEFINE p == [kind |-> kind, items |-> items]
              rec(f) == [kind |-> kind, items |-> f]
  <1>1. CASE kind # "dict"
    BY <1>1 DEF apply_scrubbing, _apply_config_scrubbing
  <1>2. CASE kind = "dict"
    <2>1. \A f, names : _apply_config_scrubbing(rec(f), names) = rec(Redacted(f, names))
      BY <1>2 DEF _apply_config_scrubbing, Redacted
    <2>2. CASE scrubber.answers
      <3>1. apply_scrubbing(p, keys, scrubber)
              = rec(Redacted(Redacted(items, keys), scrubber.redacts))
        BY <2>1, <2>2 DEF apply_scrubbing
      <3>2. Redacted(Redacted(items, keys), scrubber.redacts)
              = Redacted(items, keys \union scrubber.redacts)
        BY DEF Redacted
      <3>3. QED  BY <1>2, <2>2, <3>1, <3>2 DEF Answered
    <2>3. CASE ~scrubber.answers
      <3>1. apply_scrubbing(p, keys, scrubber) = rec(Redacted(items, keys))
        BY <2>1, <2>3 DEF apply_scrubbing
      <3>2. keys \union Answered(scrubber) = keys
        BY <2>3 DEF Answered
      <3>3. QED  BY <1>2, <3>1, <3>2
    <2>4. QED  BY <2>2, <2>3
  <1>3. QED  BY <1>1, <1>2

LEMMA NativeClasses ==
    ASSUME NEW v, IsNative(v)
    PROVE  NativeClass(v) \in NativeTypes
  BY DEF IsNative, NativeClass

LEMMA SerialisedNative ==
    ASSUME NEW v, NEW R, IsNative(v)
    PROVE  /\ _serialise_value(v, R) = [type |-> NativeClass(v), text |-> v.text]
           /\ NativeClass(v) \in NativeTypes
  BY NativeClasses DEF _serialise_value

LEMMA SerialisedByHandler ==
    ASSUME NEW v, NEW R, ~IsNative(v)
    PROVE  _serialise_value(v, R)
             = [type |-> "object", tag |-> HandlerOf(v, R).tag, text |-> v.text]
  BY DEF _serialise_value

(* Stored parameters that a lookup matches are as they were serialised.    *)
LEMMA NothingRedacted ==
    ASSUME NonePassesRedacted, NEW q \in Queries, NEW r \in Queries, NEW R, NEW keys,
           NEW scrubber,
           apply_scrubbing(serialise_params(q.params, R), keys, scrubber)
             = serialise_params(r.params, R)
    PROVE  serialise_params(q.params, R) = serialise_params(r.params, R)
  <1>. DEFINE D == DOMAIN q.params.items
              E == DOMAIN r.params.items
              qs == [k \in D |-> _serialise_value(q.params.items[k], R)]
              rs == [k \in E |-> _serialise_value(r.params.items[k], R)]
  <1>1. /\ serialise_params(q.params, R) = [kind |-> q.params.kind, items |-> qs]
        /\ serialise_params(r.params, R) = [kind |-> r.params.kind, items |-> rs]
    BY Serialised
  <1>2. \A k \in E : rs[k] # REDACTED
    <2>1. SUFFICES ASSUME NEW k \in E PROVE rs[k] # REDACTED
      OBVIOUS
    <2>. DEFINE v == r.params.items[k]
    <2>2. _serialise_value(v, R) # REDACTED
      <3>1. v \in Values /\ v \in [type : STRING, text : STRING]
        BY ParamsOfQuery
      <3>. HIDE DEF v
      <3>2. CASE ~IsNative(v)
        <4>. DEFINE t == HandlerOf(v, R).tag
        <4>1. _serialise_value(v, R) = [type |-> "object", tag |-> t, text |-> v.text]
          BY <3>2, SerialisedByHandler
        <4>. HIDE DEF t
        <4>2. QED  BY <4>1 DEF REDACTED
      <3>3. CASE IsNative(v)
        <4>1. _serialise_value(v, R) = [type |-> NativeClass(v), text |-> v.text]
          BY <3>3, SerialisedNative
        <4>2. v \in Natives
          BY <3>1, <3>3 DEF Natives
        <4>3. QED  BY <4>1, <4>2 DEF NonePassesRedacted
      <3>4. QED  BY <3>2, <3>3
    <2>3. QED  BY <2>2
  <1>. DEFINE S == {qs[k] : k \in D}
  <1>3. /\ qs \in [D -> S] /\ qs = [k \in D |-> qs[k]] /\ DOMAIN rs = E
        /\ rs = [k \in E |-> rs[k]]
    OBVIOUS
  <1>. HIDE DEF D, E, S, qs, rs
  <1>. DEFINE names == keys \union Answered(scrubber)
              scrubbed == IF q.params.kind = "dict" THEN Redacted(qs, names) ELSE qs
  <1>4. apply_scrubbing([kind |-> q.params.kind, items |-> qs], keys, scrubber)
          = [kind |-> q.params.kind, items |-> scrubbed]
    <2>1. qs \in [D -> S]
      BY <1>3
    <2>. DEFINE kind == q.params.kind
    <2>. HIDE DEF kind
    <2>2. apply_scrubbing([kind |-> kind, items |-> qs], keys, scrubber) =
             [kind  |-> kind,
              items |-> IF kind = "dict" THEN Redacted(qs, keys \union Answered(scrubber)) ELSE qs]
      BY <2>1, ScrubbedParams
    <2>3. QED  BY <2>2 DEF kind
  <1>5. /\ DOMAIN scrubbed = D
        /\ \A k \in D : scrubbed[k] \in {qs[k], REDACTED}
    BY <1>3 DEF Redacted
  <1>. HIDE DEF names, scrubbed
  <1>6. [kind |-> q.params.kind, items |-> scrubbed] = [kind |-> r.params.kind, items |-> rs]
    BY <1>1, <1>4
  <1>7. q.params.kind = r.params.kind /\ scrubbed = rs
    BY <1>6
  <1>8. D = E
    BY <1>3, <1>5, <1>7
  <1>9. \A k \in D : qs[k] = rs[k]
    BY <1>2, <1>5, <1>7, <1>8
  <1>10. qs = rs
    BY <1>3, <1>8, <1>9
  <1>11. QED  BY <1>1, <1>7, <1>10

LEMMA SameParams ==
    ASSUME TagsTell, NEW s \in Suites, NEW q \in Queries, NEW r \in Queries,
           NEW R, R = build_registry(s.serialisers),
           Serialisable(q.params, R), Serialisable(r.params, R),
           serialise_params(q.params, R) = serialise_params(r.params, R)
    PROVE  q.params = r.params
  <1>. DEFINE a == q.params.items
              b == r.params.items
              as == [k \in DOMAIN a |-> _serialise_value(a[k], R)]
              bs == [k \in DOMAIN b |-> _serialise_value(b[k], R)]
  <1>1. [kind |-> q.params.kind, items |-> as] = [kind |-> r.params.kind, items |-> bs]
    BY Serialised
  <1>2. q.params.kind = r.params.kind /\ as = bs
    <2>. HIDE DEF as, bs
    <2>1. QED  BY <1>1
  <1>3. DOMAIN a = DOMAIN b
    BY <1>2
  <1>4. ASSUME NEW k \in DOMAIN a
        PROVE  a[k] = b[k]
    <2>1. _serialise_value(a[k], R) = _serialise_value(b[k], R)
      BY <1>2, <1>3
    <2>2. /\ a[k] \in Values /\ a[k] \in [type : STRING, text : STRING]
          /\ b[k] \in Values /\ b[k] \in [type : STRING, text : STRING]
      BY <1>3, ParamsOfQuery
    <2>. DEFINE v == a[k]   w == b[k]
                t == HandlerOf(v, R).tag   u == HandlerOf(w, R).tag
    <2>. HIDE DEF v, w, t, u
    <2>. DEFINE native(x) == [type |-> NativeClass(x), text |-> x.text]
                handled(x, tag) == [type |-> "object", tag |-> tag, text |-> x.text]
    <2>3. IsNative(v) => _serialise_value(v, R) = native(v) /\ NativeClass(v) # "object"
      BY SerialisedNative DEF NativeTypes
    <2>4. IsNative(w) => _serialise_value(w, R) = native(w) /\ NativeClass(w) # "object"
      BY SerialisedNative DEF NativeTypes
    <2>5. /\ ~IsNative(v) => _serialise_value(v, R) = handled(v, t)
          /\ ~IsNative(w) => _serialise_value(w, R) = handled(w, u)
      BY SerialisedByHandler DEF t, u
    <2>6. /\ \A x, y : native(x) = native(y) => NativeClass(x) = NativeClass(y) /\ x.text = y.text
          /\ \A x, y, tag, other : handled(x, tag) = handled(y, other) => tag = other /\ x.text = y.text
          /\ \A x, y, tag : native(x) = handled(y, tag) => NativeClass(x) = "object"
      OBVIOUS
    <2>. HIDE DEF native, handled
    <2>7. _serialise_value(v, R) = _serialise_value(w, R)
      BY <2>1 DEF v, w
    <2>8. IsNative(v) <=> IsNative(w)
      BY <2>3, <2>4, <2>5, <2>6, <2>7
    <2>9. v.text = w.text
      BY <2>3, <2>4, <2>5, <2>6, <2>7, <2>8
    <2>10. v.type = w.type
      <3>1. CASE IsNative(v)
        <4>1. v \in Natives /\ w \in Natives
          BY <2>2, <2>8, <3>1 DEF Natives, v, w
        <4>2. NativeClass(v) = NativeClass(w)
          BY <2>3, <2>4, <2>6, <2>7, <2>8, <3>1
        <4>3. QED  BY <2>9, <4>1, <4>2 DEF TagsTell
      <3>2. CASE ~IsNative(v)
        <4>1. v \in Custom(R) /\ w \in Custom(R)
          <5>1. CanBeSerialised(v, R) /\ CanBeSerialised(w, R)
            BY <1>3 DEF Serialisable, v, w
          <5>2. QED  BY <2>2, <2>8, <3>2, <5>1 DEF Custom, CanBeSerialised, v, w
        <4>2. HandlerOf(v, R).tag = HandlerOf(w, R).tag
          BY <2>5, <2>6, <2>7, <2>8, <3>2 DEF t, u
        <4>3. QED  BY <2>9, <4>1, <4>2 DEF TagsTell
      <3>3. QED  BY <3>1, <3>2
    <2>11. QED  BY <2>2, <2>9, <2>10 DEF v, w
  <1>5. a = b
    <2>. DEFINE V == [type : STRING, text : STRING]
    <2>1. a \in [DOMAIN a -> V] /\ b \in [DOMAIN b -> V]
      BY ParamsOfQuery
    <2>. HIDE DEF a, b, V
    <2>2. QED  BY <1>3, <1>4, <2>1
  <1>6. QED  BY <1>2, <1>5, ParamsOfQuery

(* A replay answers what was asked, with the parameters it was asked with, *)
(* and recordings of one query are replayed in the order they were made.   *)
THEOREM AnswersWhatWasAsked ==
    ASSUME BelowAThousand, TextsTell, TagsTell, NonePassesRedacted
    PROVE  Spec => []ReplaysWhatWasAsked
  <1>1. InteractionsInv => ReplaysWhatWasAsked
    <2>. SUFFICES ASSUME InteractionsInv PROVE ReplaysWhatWasAsked
      OBVIOUS
    <2>1. FilesInv /\ QueueInv /\ ServedInv
      BY DEF InteractionsInv
    <2>2. DOMAIN served = 1 .. Len(served)
      BY <2>1 DEF ServedInv
    <2>3. ASSUME NEW i \in DOMAIN served, served[i].recording # 0
          PROVE  LET n == served[i].recording
                 IN /\ Meaning[asked[n].sql] = Meaning[served[i].query.sql]
                    /\ asked[n].params = served[i].query.params
      <3>. DEFINE S == [query : Queries, recording : 0 .. Len(asked)]
                  n == served[i].recording
                  q == served[i].query
      <3>1. served[i] \in S
        <4>1. served \in Seq(S)
          BY <2>1 DEF ServedInv
        <4>. HIDE DEF S
        <4>2. QED  BY <2>3, <4>1
      <3>2. q \in Queries /\ n \in 1 .. Len(asked)
        <4>1. Len(asked) \in Nat
          BY <2>1, StoredFiles
        <4>2. QED  BY <2>3, <3>1, <4>1
      <3>3. /\ Serialisable(q.params, Registry)
            /\ files[n].sql = normalise_sql(q.sql, suite.dialect)
            /\ files[n].params = serialise_params(q.params, Registry)
        BY <2>1, <2>2, <2>3 DEF ServedInv, AsStored
      <3>4. /\ asked[n] \in Queries /\ suite \in Suites
            /\ Serialisable(asked[n].params, Registry)
            /\ files[n].sql = normalise_sql(asked[n].sql, suite.dialect)
            /\ files[n].params = apply_scrubbing(serialise_params(asked[n].params, Registry),
                                                 ParamKeys, suite.scrubber)
        BY <2>1, <3>2, StoredFiles DEF FilesInv, Stored, FileOf
      <3>. HIDE DEF n, q
      <3>5. Meaning[asked[n].sql] = Meaning[q.sql]
        <4>1. /\ normalise_sql(q.sql, suite.dialect) \in TextsOf(q.sql, suite.dialect)
              /\ normalise_sql(asked[n].sql, suite.dialect) \in TextsOf(asked[n].sql, suite.dialect)
          BY TextOfStatement
        <4>2. TextsOf(asked[n].sql, suite.dialect) \intersect TextsOf(q.sql, suite.dialect) # {}
          BY <3>3, <3>4, <4>1
        <4>3. QED  BY <3>2, <3>4, <4>2 DEF TextsTell
      <3>6. asked[n].params = q.params
        <4>1. serialise_params(asked[n].params, Registry) = serialise_params(q.params, Registry)
          <5>1. apply_scrubbing(serialise_params(asked[n].params, Registry),
                                ParamKeys, suite.scrubber)
                  = serialise_params(q.params, Registry)
            BY <3>3, <3>4
          <5>2. q \in Queries /\ asked[n] \in Queries
            BY <3>2, <3>4
          <5>3. \A a, b \in Queries : \A R, keys, scrubber :
                  apply_scrubbing(serialise_params(a.params, R), keys, scrubber)
                      = serialise_params(b.params, R)
                    => serialise_params(a.params, R) = serialise_params(b.params, R)
            BY NothingRedacted
          <5>4. QED  BY <5>1, <5>2, <5>3
        <4>2. QED  BY <3>2, <3>3, <3>4, <4>1, SameParams DEF Registry
      <3>7. QED  BY <3>5, <3>6 DEF n, q
    <2>4. \A i, j \in DOMAIN served :
            i < j /\ served[i].query = served[j].query /\ served[j].recording # 0
              => served[i].recording < served[j].recording
      BY <2>1, <2>2 DEF ServedInv, InOrder
    <2>5. QED  BY <2>3, <2>4 DEF ReplaysWhatWasAsked
  <1>2. QED  BY <1>1, InteractionsInvariant, PTL
-----------------------------------------------------------------------------
(* A built-in class has its own handler in front of its superclasses'.     *)
LEMMA OwnHandler ==
    ASSUME NEW v, v.type \in Classes(_BUILTIN_SERIALISERS)
    PROVE  HandlerOf(v, _BUILTIN_SERIALISERS) \in ToSet(_BUILTIN_SERIALISERS)
           /\ HandlerOf(v, _BUILTIN_SERIALISERS).tag = v.type
  <1>. DEFINE B == _BUILTIN_SERIALISERS
  <1>1. /\ DOMAIN B = 1 .. 4 /\ \A i \in 1 .. 4 : B[i].tag = B[i].class
        /\ B[1].class = "datetime" /\ B[2].class = "date" /\ B[3].class = "bytes"
        /\ B[4].class = "UUID"
    BY DEF _BUILTIN_SERIALISERS, Handler
  <1>2. \A i \in 1 .. 4 : B[i].class \in Classes(B)
    BY <1>1 DEF Classes, ToSet
  <1>3. \A i \in 1 .. 4 : i \in Accepting(v, B) =>
            B[i].class = v.type \/ (v.type = "datetime" /\ B[i].class = "date")
    BY <1>2, SubclassesAssumption DEF Accepting, IsInstance
  <1>4. PICK own \in 1 .. 4 : B[own].class = v.type
    BY <1>1 DEF Classes, ToSet
  <1>5. own \in Accepting(v, B) /\ Accepting(v, B) \subseteq 1 .. 4
    BY <1>1, <1>4 DEF Accepting, IsInstance
  <1>6. \A i \in Accepting(v, B) : own <= i
    <2>1. SUFFICES ASSUME NEW i \in Accepting(v, B) PROVE own <= i
      OBVIOUS
    <2>2. i \in 1 .. 4 /\ (B[i].class = v.type \/ (v.type = "datetime" /\ B[i].class = "date"))
      BY <1>3, <1>5, <2>1
    <2>. HIDE DEF B
    <2>3. CASE B[i].class = v.type
      <3>1. own = i
        <4>1. i \in {1, 2, 3, 4} /\ own \in {1, 2, 3, 4}
          BY <2>2
        <4>2. QED  BY <1>1, <1>4, <2>3, <4>1
      <3>2. QED  BY <3>1
    <2>4. CASE v.type = "datetime" /\ B[i].class = "date"
      <3>1. own = 1
        <4>1. own \in {1, 2, 3, 4}
          OBVIOUS
        <4>2. QED  BY <1>1, <1>4, <2>4, <4>1
      <3>2. QED  BY <2>2, <3>1
    <2>5. QED  BY <2>2, <2>3, <2>4
  <1>. DEFINE head == CHOOSE i \in Accepting(v, B) : \A j \in Accepting(v, B) : i <= j
  <1>7. head \in Accepting(v, B) /\ \A j \in Accepting(v, B) : head <= j
    BY <1>5, <1>6
  <1>8. head = own
    <2>1. head <= own /\ own <= head
      BY <1>5, <1>6, <1>7
    <2>2. head \in 1 .. 4
      BY <1>5, <1>7
    <2>. HIDE DEF head, B
    <2>3. QED  BY <2>1, <2>2
  <1>9. HandlerOf(v, B) = B[own]
    <2>1. HandlerOf(v, B) = B[head]
      BY DEF HandlerOf
    <2>2. QED  BY <1>8, <2>1
  <1>10. QED  BY <1>1, <1>4, <1>9 DEF ToSet

(* A stored parameter in which nothing is redacted comes back as the value *)
(* it was, of its very type, if that is a native or a built-in one and the *)
(* suite has no handlers of its own.                                       *)
THEOREM ParamsComeBack == Spec => []ParamsAreRestored
  <1>. DEFINE B == _BUILTIN_SERIALISERS
  <1>1. ASSUME NEW v \in [type : STRING, text : STRING],
               v.type \in NativeTypes \union Classes(B)
        PROVE  _deserialise_value(_serialise_value(v, B)) = v
    <2>1. CASE v.type \in NativeTypes
      <3>1. _serialise_value(v, B) = [type |-> v.type, text |-> v.text]
        <4>1. IsNative(v) /\ NativeClass(v) = v.type
          BY <2>1 DEF IsNative, IsInstance, NativeClass
        <4>2. QED  BY <4>1, SerialisedNative
      <3>2. [type |-> v.type, text |-> v.text].type # "object"
        BY <2>1 DEF NativeTypes
      <3>. HIDE DEF B
      <3>3. _deserialise_value([type |-> v.type, text |-> v.text]) = [type |-> v.type, text |-> v.text]
        BY <3>2 DEF _deserialise_value
      <3>4. QED  BY <1>1, <3>1, <3>3
    <2>2. CASE v.type \in Classes(B)
      <3>1. ~IsNative(v)
        <4>1. Classes(B) \intersect NativeTypes = {}
          BY DEF _BUILTIN_SERIALISERS, Handler, Classes, ToSet, NativeTypes
        <4>2. \A class \in NativeTypes : <<v.type, class>> \notin Subclasses
          <5>1. "date" \notin NativeTypes
            BY DEF NativeTypes
          <5>2. QED  BY <2>2, <5>1, SubclassesAssumption
        <4>3. QED  BY <2>2, <4>1, <4>2 DEF IsNative, IsInstance
      <3>2. HandlerOf(v, B) \in ToSet(B) /\ HandlerOf(v, B).tag = v.type
        BY <2>2, OwnHandler
      <3>. HIDE DEF B
      <3>3. _serialise_value(v, B) = [type |-> "object", tag |-> v.type, text |-> v.text]
        BY <3>1, <3>2, SerialisedByHandler
      <3>4. v.type \in {h.tag : h \in ToSet(B)}
        BY <3>2
      <3>5. _deserialise_value(_serialise_value(v, B)) = [type |-> v.type, text |-> v.text]
        BY <3>3, <3>4 DEF _deserialise_value, B
      <3>6. QED  BY <1>1, <3>5
    <2>3. QED  BY <1>1, <2>1, <2>2
  <1>2. FilesInv => ParamsAreRestored
    <2>. SUFFICES ASSUME FilesInv, NEW i \in DOMAIN files, ~suite.serialisers.given,
                         NEW k \in DOMAIN asked[i].params.items,
                         asked[i].params.items[k].type \in NativeTypes \union Classes(B),
                         files[i].params.items[k]
                           = _serialise_value(asked[i].params.items[k], Registry)
                  PROVE  deserialise_params(files[i].params).items[k] = asked[i].params.items[k]
      BY DEF ParamsAreRestored
    <2>. DEFINE q == asked[i]
                v == q.params.items[k]
                kind == q.params.kind
                D == DOMAIN q.params.items
                raw == [n \in D |-> _serialise_value(q.params.items[n], Registry)]
                S == {raw[n] : n \in D}
                stored == IF kind = "dict"
                          THEN Redacted(raw, ParamKeys \union Answered(suite.scrubber)) ELSE raw
    <2>1. q \in Queries /\ files[i].params = apply_scrubbing(serialise_params(q.params, Registry),
                                                            ParamKeys, suite.scrubber)
      BY StoredFiles DEF Stored, FileOf
    <2>2. serialise_params(q.params, Registry) = [kind |-> kind, items |-> raw]
      BY <2>1, Serialised
    <2>3. raw \in [D -> S]
      OBVIOUS
    <2>4. Registry = B
      BY DEF Registry, build_registry
    <2>5. v \in [type : STRING, text : STRING] /\ k \in D
      BY <2>1, ParamsOfQuery
    <2>6. \A f, g : deserialise_params([kind |-> f, items |-> g]) =
                       [kind |-> f, items |-> [n \in DOMAIN g |-> _deserialise_value(g[n])]]
      BY DEF deserialise_params
    <2>. HIDE DEF B, kind, D, raw, S
    <2>7. apply_scrubbing([kind |-> kind, items |-> raw], ParamKeys, suite.scrubber)
            = [kind |-> kind, items |-> stored]
      BY <2>3, ScrubbedParams
    <2>8. files[i].params = [kind |-> kind, items |-> stored] /\ DOMAIN stored = D
      BY <2>1, <2>2, <2>3, <2>7 DEF Redacted
    <2>. HIDE DEF stored, q
    <2>9. stored[k] = _serialise_value(v, B)
      BY <2>4, <2>8 DEF q
    <2>10. deserialise_params(files[i].params).items[k] = _deserialise_value(stored[k])
      <3>1. deserialise_params([kind |-> kind, items |-> stored])
              = [kind |-> kind, items |-> [n \in DOMAIN stored |-> _deserialise_value(stored[n])]]
        BY <2>6
      <3>2. k \in DOMAIN stored
        BY <2>5, <2>8
      <3>3. QED  BY <2>8, <3>1, <3>2
    <2>11. v.type \in NativeTypes \union Classes(B)
      BY DEF q
    <2>12. _deserialise_value(_serialise_value(v, B)) = v
      BY <1>1, <2>5, <2>11
    <2>13. QED  BY <2>9, <2>10, <2>12 DEF q
  <1>3. QED  BY <1>2, FilesInvariant, PTL

-----------------------------------------------------------------------------
(* What redaction and the leaves of a tree are, of those of its parts.     *)
RedactStep(t, keys, redact) ==
    [t EXCEPT !.parts =
       [k \in DOMAIN @ |->
          IF t.kind = "object" /\ k \in keys THEN RedactedLeaf ELSE redact[@[k]]]]

LeavesStep(t, leaves) ==
    IF DOMAIN t.parts = {} THEN {[path |-> <<>>, value |-> t]}
    ELSE UNION {Under(t.kind, k, leaves[t.parts[k]]) : k \in DOMAIN t.parts}

BothSteps(t, keys, both) ==
    <<RedactStep(t, keys, [x \in Trees |-> both[x][1]]),
      LeavesStep(t, [x \in Trees |-> both[x][2]])>>

LEMMA TreeTypes ==
    ASSUME NEW t \in Trees
    PROVE  /\ t = [kind |-> t.kind, value |-> t.value, parts |-> t.parts]
           /\ t.parts \in [DOMAIN t.parts -> Trees]
           /\ depth[t] \in Nat
           /\ \A k \in DOMAIN t.parts :
                t.parts[k] \in Trees /\ depth[t.parts[k]] \in Nat /\ depth[t.parts[k]] < depth[t]
  <1>1. /\ t \in [kind : {"leaf", "object", "array"}, value : {t.value},
                  parts : [DOMAIN t.parts -> Trees]]
        /\ depth[t] \in Nat
        /\ \A k \in DOMAIN t.parts : depth[t.parts[k]] < depth[t]
    BY TreesAssumption
  <1>2. \A k \in DOMAIN t.parts : t.parts[k] \in Trees
    BY <1>1
  <1>3. \A k \in DOMAIN t.parts : depth[t.parts[k]] \in Nat
    BY <1>2, TreesAssumption
  <1>4. QED  BY <1>1, <1>2, <1>3

LEMMA StepsOfParts ==
    ASSUME NEW t \in Trees, NEW keys, NEW f, NEW g,
           \A k \in DOMAIN t.parts : f[t.parts[k]] = g[t.parts[k]]
    PROVE  BothSteps(t, keys, f) = BothSteps(t, keys, g)
  <1>. DEFINE f1 == [x \in Trees |-> f[x][1]]
              g1 == [x \in Trees |-> g[x][1]]
              f2 == [x \in Trees |-> f[x][2]]
              g2 == [x \in Trees |-> g[x][2]]
  <1>1. \A k \in DOMAIN t.parts :
          f1[t.parts[k]] = g1[t.parts[k]] /\ f2[t.parts[k]] = g2[t.parts[k]]
    BY TreeTypes
  <1>. HIDE DEF f1, g1, f2, g2
  <1>2. RedactStep(t, keys, f1) = RedactStep(t, keys, g1)
    BY <1>1 DEF RedactStep
  <1>3. LeavesStep(t, f2) = LeavesStep(t, g2)
    <2>1. {Under(t.kind, k, f2[t.parts[k]]) : k \in DOMAIN t.parts}
            = {Under(t.kind, k, g2[t.parts[k]]) : k \in DOMAIN t.parts}
      BY <1>1
    <2>2. QED  BY <2>1 DEF LeavesStep
  <1>4. QED  BY <1>2, <1>3 DEF BothSteps, f1, g1, f2, g2

Below(n) == {t \in Trees : depth[t] < n}

Solves(f, n, keys) == f = [t \in Below(n) |-> BothSteps(t, keys, f)]

(* What is defined of trees below two bounds is the same.                  *)
LEMMA OneSolution ==
    ASSUME NEW keys, NEW m \in Nat, NEW n \in Nat, NEW f, NEW g,
           Solves(f, m, keys), Solves(g, n, keys),
           NEW tree \in Below(m) \intersect Below(n)
    PROVE  f[tree] = g[tree]
  <1>. DEFINE Bad == {t \in Below(m) \intersect Below(n) : f[t] # g[t]}
              Depths == {depth[t] : t \in Bad}
  <1>1. SUFFICES ASSUME Bad # {} PROVE FALSE
    OBVIOUS
  <1>2. Depths \in SUBSET Nat /\ Depths # {}
    BY <1>1, TreeTypes, Zenon DEF Below
  <1>3. PICK d \in Depths : \A e \in Depths : d <= e
    <2>. HIDE DEF Depths
    <2>1. QED  BY <1>2, LeastElement
  <1>4. PICK t \in Bad : depth[t] = d
    BY <1>3
  <1>5. t \in Trees /\ t \in Below(m) /\ t \in Below(n) /\ f[t] # g[t]
    BY <1>4 DEF Below
  <1>6. \A k \in DOMAIN t.parts : f[t.parts[k]] = g[t.parts[k]]
    <2>1. SUFFICES ASSUME NEW k \in DOMAIN t.parts, f[t.parts[k]] # g[t.parts[k]]
                   PROVE  FALSE
      OBVIOUS
    <2>2. /\ t.parts[k] \in Trees /\ depth[t.parts[k]] \in Nat
          /\ depth[t] \in Nat /\ depth[t.parts[k]] < depth[t]
      BY <1>5, TreeTypes
    <2>3. depth[t] < m /\ depth[t] < n
      BY <1>5 DEF Below
    <2>4. t.parts[k] \in Below(m) /\ t.parts[k] \in Below(n)
      BY <2>2, <2>3 DEF Below
    <2>5. t.parts[k] \in Bad
      BY <2>1, <2>4
    <2>6. d <= depth[t.parts[k]]
      BY <1>3, <2>5
    <2>7. QED  BY <1>4, <2>2, <2>6
  <1>7. BothSteps(t, keys, f) = BothSteps(t, keys, g)
    BY <1>5, <1>6, StepsOfParts
  <1>8. f[t] = BothSteps(t, keys, f) /\ g[t] = BothSteps(t, keys, g)
    BY <1>5 DEF Solves
  <1>9. QED  BY <1>5, <1>7, <1>8

LEMMA SolutionBelow ==
    ASSUME NEW keys, NEW n \in Nat
    PROVE  \E f : Solves(f, n, keys)
  <1>. DEFINE Bad == {m \in Nat : ~ \E f : Solves(f, m, keys)}
  <1>1. SUFFICES ASSUME Bad # {} PROVE FALSE
    OBVIOUS
  <1>2. PICK m \in Bad : \A l \in Bad : m <= l
    <2>1. Bad \in SUBSET Nat
      OBVIOUS
    <2>. HIDE DEF Bad
    <2>2. QED  BY <1>1, <2>1, LeastElement
  <1>3. m \in Nat /\ ~ \E f : Solves(f, m, keys)
    BY <1>2
  <1>4. CASE m = 0
    <2>1. Below(m) = {}
      BY <1>4, TreeTypes DEF Below
    <2>. DEFINE f == [t \in Below(m) |-> 0]
    <2>2. f = [t \in Below(m) |-> BothSteps(t, keys, f)]
      BY <2>1
    <2>. HIDE DEF f
    <2>3. QED  BY <1>3, <2>2 DEF Solves
  <1>5. CASE m # 0
    <2>1. m - 1 \in Nat /\ m - 1 \notin Bad
      BY <1>2, <1>3, <1>5
    <2>2. PICK f : Solves(f, m - 1, keys)
      BY <2>1
    <2>. DEFINE g == [t \in Below(m) |-> BothSteps(t, keys, f)]
    <2>3. ASSUME NEW t \in Below(m)
          PROVE  BothSteps(t, keys, f) = BothSteps(t, keys, g)
      <3>1. t \in Trees /\ depth[t] < m
        BY DEF Below
      <3>2. \A k \in DOMAIN t.parts : f[t.parts[k]] = g[t.parts[k]]
        <4>1. SUFFICES ASSUME NEW k \in DOMAIN t.parts
                       PROVE  f[t.parts[k]] = g[t.parts[k]]
          OBVIOUS
        <4>2. /\ t.parts[k] \in Trees /\ depth[t.parts[k]] \in Nat
              /\ depth[t] \in Nat /\ depth[t.parts[k]] < depth[t]
          BY <3>1, TreeTypes
        <4>3. t.parts[k] \in Below(m - 1) /\ t.parts[k] \in Below(m)
          BY <1>3, <3>1, <4>2 DEF Below
        <4>4. f[t.parts[k]] = BothSteps(t.parts[k], keys, f)
          BY <2>2, <4>3 DEF Solves
        <4>5. QED  BY <4>3, <4>4
      <3>. HIDE DEF g
      <3>3. QED  BY <3>1, <3>2, StepsOfParts
    <2>4. g = [t \in Below(m) |-> BothSteps(t, keys, g)]
      BY <2>3
    <2>. HIDE DEF g
    <2>5. QED  BY <1>3, <2>4 DEF Solves
  <1>6. QED  BY <1>4, <1>5

(* The recursive definitions of redaction and leaves have a solution.      *)
LEMMA SolutionOfAll ==
    ASSUME NEW keys
    PROVE  \E f : f = [t \in Trees |-> BothSteps(t, keys, f)]
  <1>. DEFINE At(t) == CHOOSE f : Solves(f, depth[t] + 1, keys)
              F == [t \in Trees |-> At(t)[t]]
  <1>1. ASSUME NEW t \in Trees
        PROVE  depth[t] + 1 \in Nat /\ Solves(At(t), depth[t] + 1, keys) /\ t \in Below(depth[t] + 1)
    <2>1. depth[t] \in Nat /\ depth[t] + 1 \in Nat
      BY TreeTypes
    <2>2. \E f : Solves(f, depth[t] + 1, keys)
      BY <2>1, SolutionBelow
    <2>3. QED  BY <2>1, <2>2 DEF Below
  <1>2. ASSUME NEW t \in Trees
        PROVE  At(t)[t] = BothSteps(t, keys, F)
    <2>1. At(t)[t] = BothSteps(t, keys, At(t))
      <3>1. Solves(At(t), depth[t] + 1, keys) /\ t \in Below(depth[t] + 1)
        BY <1>1
      <3>. HIDE DEF At
      <3>2. QED  BY <3>1 DEF Solves
    <2>2. \A k \in DOMAIN t.parts : At(t)[t.parts[k]] = F[t.parts[k]]
      <3>1. SUFFICES ASSUME NEW k \in DOMAIN t.parts
                     PROVE  At(t)[t.parts[k]] = F[t.parts[k]]
        OBVIOUS
      <3>. DEFINE p == t.parts[k]
      <3>2. p \in Trees /\ depth[p] \in Nat /\ depth[t] \in Nat /\ depth[p] < depth[t]
        BY TreeTypes
      <3>3. p \in Below(depth[t] + 1) \intersect Below(depth[p] + 1)
        BY <3>2 DEF Below
      <3>4. /\ depth[t] + 1 \in Nat /\ Solves(At(t), depth[t] + 1, keys)
            /\ depth[p] + 1 \in Nat /\ Solves(At(p), depth[p] + 1, keys)
        BY <1>1, <3>2
      <3>5. F[p] = At(p)[p]
        BY <3>2
      <3>. HIDE DEF At, p, F
      <3>6. At(t)[p] = At(p)[p]
        BY <3>3, <3>4, OneSolution
      <3>7. QED  BY <3>5, <3>6 DEF p
    <2>. HIDE DEF At, F
    <2>3. BothSteps(t, keys, At(t)) = BothSteps(t, keys, F)
      BY <2>2, StepsOfParts
    <2>4. QED  BY <2>1, <2>3
  <1>3. F = [t \in Trees |-> BothSteps(t, keys, F)]
    <2>1. \A t \in Trees : At(t)[t] = BothSteps(t, keys, F)
      BY <1>2
    <2>2. QED  BY <2>1
  <1>. HIDE DEF F
  <1>4. QED  BY <1>3

(* _redact_json and Leaves of a tree are what their recursion says.        *)
LEMMA RedactUnfolds ==
    ASSUME NEW t \in Trees, NEW keys
    PROVE  _redact_json(t, keys) =
             [kind |-> t.kind, value |-> t.value,
              parts |-> [k \in DOMAIN t.parts |->
                IF t.kind = "object" /\ k \in keys THEN RedactedLeaf
                ELSE _redact_json(t.parts[k], keys)]]
  <1>. DEFINE Solved(r) == r = [x \in Trees |-> RedactStep(x, keys, r)]
              R == CHOOSE r : Solved(r)
  <1>1. \A x : _redact_json(x, keys) = R[x]
    BY DEF _redact_json, RedactStep
  <1>2. \E r : Solved(r)
    <2>1. PICK F : F = [x \in Trees |-> BothSteps(x, keys, F)]
      BY SolutionOfAll
    <2>. DEFINE r == [x \in Trees |-> F[x][1]]
    <2>2. \A x \in Trees : F[x][1] = RedactStep(x, keys, r)
      <3>1. \A x \in Trees : F[x] = BothSteps(x, keys, F)
        BY <2>1
      <3>2. \A x : BothSteps(x, keys, F)[1] = RedactStep(x, keys, r)
        BY DEF BothSteps
      <3>3. QED  BY <3>1, <3>2
    <2>3. Solved(r)
      BY <2>2
    <2>4. QED  BY <2>3
  <1>3. Solved(R)
    BY <1>2
  <1>4. R[t] = RedactStep(t, keys, R)
    BY <1>3
  <1>. HIDE DEF R
  <1>5. RedactStep(t, keys, R) =
          [kind |-> t.kind, value |-> t.value,
           parts |-> [k \in DOMAIN t.parts |->
             IF t.kind = "object" /\ k \in keys THEN RedactedLeaf ELSE R[t.parts[k]]]]
    <2>1. \A kind, value, parts :
            RedactStep([kind |-> kind, value |-> value, parts |-> parts], keys, R) =
              [kind |-> kind, value |-> value,
               parts |-> [k \in DOMAIN parts |->
                 IF kind = "object" /\ k \in keys THEN RedactedLeaf ELSE R[parts[k]]]]
      BY DEF RedactStep
    <2>2. t = [kind |-> t.kind, value |-> t.value, parts |-> t.parts]
      BY TreeTypes
    <2>. DEFINE kind == t.kind   value == t.value   parts == t.parts
    <2>. HIDE DEF kind, value, parts
    <2>3. RedactStep([kind |-> kind, value |-> value, parts |-> parts], keys, R) =
              [kind |-> kind, value |-> value,
               parts |-> [k \in DOMAIN parts |->
                 IF kind = "object" /\ k \in keys THEN RedactedLeaf ELSE R[parts[k]]]]
      BY <2>1
    <2>4. QED  BY <2>2, <2>3 DEF kind, value, parts
  <1>6. QED  BY <1>1, <1>4, <1>5

LEMMA LeavesUnfold ==
    ASSUME NEW t \in Trees
    PROVE  Leaves(t) =
             IF DOMAIN t.parts = {} THEN {[path |-> <<>>, value |-> t]}
             ELSE UNION {Under(t.kind, k, Leaves(t.parts[k])) : k \in DOMAIN t.parts}
  <1>. DEFINE Solved(ls) == ls = [x \in Trees |-> LeavesStep(x, ls)]
              L == CHOOSE ls : Solved(ls)
  <1>1. \A x : Leaves(x) = L[x]
    BY DEF Leaves, LeavesStep
  <1>2. \E ls : Solved(ls)
    <2>1. PICK F : F = [x \in Trees |-> BothSteps(x, {}, F)]
      BY SolutionOfAll
    <2>. DEFINE ls == [x \in Trees |-> F[x][2]]
    <2>2. \A x \in Trees : F[x][2] = LeavesStep(x, ls)
      <3>1. \A x \in Trees : F[x] = BothSteps(x, {}, F)
        BY <2>1
      <3>2. \A x : BothSteps(x, {}, F)[2] = LeavesStep(x, ls)
        BY DEF BothSteps
      <3>3. QED  BY <3>1, <3>2
    <2>3. Solved(ls)
      BY <2>2
    <2>4. QED  BY <2>3
  <1>3. Solved(L)
    BY <1>2
  <1>4. L[t] = LeavesStep(t, L)
    BY <1>3
  <1>. HIDE DEF L
  <1>5. {Under(t.kind, k, L[t.parts[k]]) : k \in DOMAIN t.parts}
          = {Under(t.kind, k, Leaves(t.parts[k])) : k \in DOMAIN t.parts}
    BY <1>1
  <1>6. QED  BY <1>1, <1>4, <1>5 DEF LeavesStep

(* What holds of a tree whenever it holds of its parts holds of all trees. *)
LEMMA TreeInduction ==
    ASSUME NEW S, \A t \in Trees : (\A k \in DOMAIN t.parts : t.parts[k] \in S) => t \in S
    PROVE  \A t \in Trees : t \in S
  <1>. DEFINE Bad == {t \in Trees : t \notin S}
              Depths == {depth[t] : t \in Bad}
  <1>1. SUFFICES ASSUME Bad # {} PROVE FALSE
    OBVIOUS
  <1>2. Depths \in SUBSET Nat /\ Depths # {}
    BY <1>1, TreeTypes
  <1>3. PICK d \in Depths : \A e \in Depths : d <= e
    <2>. HIDE DEF Depths
    <2>1. QED  BY <1>2, LeastElement
  <1>4. PICK t \in Bad : depth[t] = d
    BY <1>3
  <1>5. PICK k \in DOMAIN t.parts : t.parts[k] \notin S
    BY <1>4
  <1>6. /\ t.parts[k] \in Trees /\ depth[t.parts[k]] \in Nat /\ depth[t] \in Nat
        /\ depth[t.parts[k]] < depth[t]
    BY <1>4, <1>5, TreeTypes
  <1>7. d <= depth[t.parts[k]]
    BY <1>3, <1>5, <1>6
  <1>8. QED  BY <1>4, <1>6, <1>7

Steps == UNION {{[kind |-> t.kind, key |-> k] : k \in DOMAIN t.parts} : t \in Trees}

LEMMA LeafTypes ==
    \A t \in Trees : Leaves(t) # {} /\ Leaves(t) \subseteq [path : Seq(Steps), value : Trees]
  <1>. DEFINE Good == {t \in Trees : /\ Leaves(t) # {}
                                     /\ Leaves(t) \subseteq [path : Seq(Steps), value : Trees]}
  <1>1. ASSUME NEW t \in Trees, \A k \in DOMAIN t.parts : t.parts[k] \in Good
        PROVE  t \in Good
    <2>1. CASE DOMAIN t.parts = {}
      <3>1. Leaves(t) = {[path |-> <<>>, value |-> t]}
        BY <2>1, LeavesUnfold
      <3>2. [path |-> <<>>, value |-> t] \in [path : Seq(Steps), value : Trees]
        OBVIOUS
      <3>3. Leaves(t) # {} /\ Leaves(t) \subseteq [path : Seq(Steps), value : Trees]
        BY <3>1, <3>2
      <3>4. QED  BY <3>3
    <2>2. CASE DOMAIN t.parts # {}
      <3>1. Leaves(t) = UNION {Under(t.kind, k, Leaves(t.parts[k])) : k \in DOMAIN t.parts}
        BY <2>2, LeavesUnfold
      <3>2. ASSUME NEW k \in DOMAIN t.parts, NEW l \in Under(t.kind, k, Leaves(t.parts[k]))
            PROVE  l \in [path : Seq(Steps), value : Trees]
        <4>. DEFINE step == [kind |-> t.kind, key |-> k]
        <4>1. PICK m \in Leaves(t.parts[k]) : l = [path |-> <<step>> \o m.path, value |-> m.value]
          BY <3>2 DEF Under
        <4>2. m.path \in Seq(Steps) /\ m.value \in Trees
          BY <1>1, <4>1
        <4>3. step \in Steps
          BY DEF Steps
        <4>. HIDE DEF step
        <4>4. <<step>> \in Seq(Steps)
          BY <4>3
        <4>5. <<step>> \o m.path \in Seq(Steps)
          BY <4>2, <4>4, ConcatProperties
        <4>6. QED  BY <4>1, <4>2, <4>5
      <3>3. Leaves(t) # {}
        <4>1. PICK k \in DOMAIN t.parts : TRUE
          BY <2>2
        <4>2. PICK m \in Leaves(t.parts[k]) : TRUE
          BY <1>1
        <4>3. [path |-> <<[kind |-> t.kind, key |-> k]>> \o m.path, value |-> m.value]
                \in Under(t.kind, k, Leaves(t.parts[k]))
          BY <4>2 DEF Under
        <4>4. QED  BY <3>1, <4>3
      <3>4. QED  BY <3>1, <3>2, <3>3
    <2>3. QED  BY <2>1, <2>2
  <1>2. \A t \in Trees : t \in Good
    <2>. HIDE DEF Good
    <2>1. QED  BY <1>1, TreeInduction
  <1>3. QED  BY <1>2

(* A path through an object's key is secret from there on.                 *)
LEMMA SecretUnder ==
    ASSUME NEW kind, NEW key, NEW path \in Seq(Steps), NEW keys,
           [kind |-> kind, key |-> key] \in Steps
    PROVE  Secret(<<[kind |-> kind, key |-> key]>> \o path, keys)
             <=> (kind = "object" /\ key \in keys) \/ Secret(path, keys)
  <1>. DEFINE step == [kind |-> kind, key |-> key]
              whole == <<step>> \o path
  <1>1. step.kind = kind /\ step.key = key
    OBVIOUS
  <1>. HIDE DEF step
  <1>2. <<step>> \in Seq(Steps)
    BY DEF step
  <1>3. /\ whole \in Seq(Steps) /\ Len(whole) = 1 + Len(path) /\ Len(path) \in Nat
        /\ whole[1] = step /\ \A i \in 1 .. Len(path) : whole[i + 1] = path[i]
    <2>1. /\ whole \in Seq(Steps) /\ Len(whole) = Len(<<step>>) + Len(path)
          /\ \A i \in 1 .. Len(<<step>>) + Len(path) :
               whole[i] = IF i <= Len(<<step>>) THEN <<step>>[i] ELSE path[i - Len(<<step>>)]
      BY <1>2, ConcatProperties
    <2>2. Len(<<step>>) = 1 /\ <<step>>[1] = step /\ Len(path) \in Nat
      OBVIOUS
    <2>. HIDE DEF whole
    <2>3. QED  BY <2>1, <2>2
  <1>4. DOMAIN whole = 1 .. Len(path) + 1 /\ DOMAIN path = 1 .. Len(path)
    BY <1>3
  <1>. HIDE DEF whole
  <1>5. ASSUME NEW i \in DOMAIN whole, i # 1
        PROVE  i - 1 \in DOMAIN path /\ whole[i] = path[i - 1]
    <2>1. i - 1 \in 1 .. Len(path) /\ (i - 1) + 1 = i
      BY <1>3, <1>4, <1>5
    <2>2. QED  BY <1>3, <1>4, <2>1
  <1>6. 1 \in DOMAIN whole /\ \A i \in DOMAIN path : i + 1 \in DOMAIN whole /\ whole[i + 1] = path[i]
    BY <1>3, <1>4
  <1>7. Secret(whole, keys) => (kind = "object" /\ key \in keys) \/ Secret(path, keys)
    BY <1>1, <1>3, <1>5 DEF Secret
  <1>8. (kind = "object" /\ key \in keys) \/ Secret(path, keys) => Secret(whole, keys)
    BY <1>1, <1>3, <1>6 DEF Secret
  <1>9. QED  BY <1>7, <1>8 DEF whole, step

LEMMA LeavesOfRedacted ==
    RedactedLeaf \in Trees /\ Leaves(RedactedLeaf) = {[path |-> <<>>, value |-> RedactedLeaf]}
  <1>1. RedactedLeaf \in Trees
    BY TreesAssumption
  <1>2. DOMAIN RedactedLeaf.parts = {}
    BY DEF RedactedLeaf, Leaf
  <1>3. QED  BY <1>1, <1>2, LeavesUnfold

Open(t, keys) == {l \in Leaves(t) : ~Secret(l.path, keys)}

RedactedRight(t, keys) ==
    /\ \A l \in Leaves(_redact_json(t, keys)) : Secret(l.path, keys) => l.value = RedactedLeaf
    /\ Open(_redact_json(t, keys), keys) = Open(t, keys)
    /\ Open(t, keys) = Leaves(t) => _redact_json(t, keys) = t

(* Redaction reaches what an object's key names at any depth, changes no   *)
(* other leaf, and leaves a tree alone that has no such key.               *)
LEMMA RedactsByKey ==
    ASSUME NEW keys, \A t \in Trees : _redact_json(t, keys) \in Trees
    PROVE  \A t \in Trees : RedactedRight(t, keys)
  <1>. DEFINE Good == {t \in Trees : RedactedRight(t, keys)}
  <1>1. ASSUME NEW t \in Trees, \A k \in DOMAIN t.parts : t.parts[k] \in Good
        PROVE  RedactedRight(t, keys)
    <2>. DEFINE D == DOMAIN t.parts
                R == _redact_json(t, keys)
                Hit(k) == t.kind = "object" /\ k \in keys
    <2>1. R = [kind |-> t.kind, value |-> t.value,
               parts |-> [k \in D |-> IF Hit(k) THEN RedactedLeaf
                                      ELSE _redact_json(t.parts[k], keys)]]
      BY RedactUnfolds
    <2>2. /\ R.kind = t.kind /\ DOMAIN R.parts = D /\ R \in Trees
          /\ \A k \in D : R.parts[k] = IF Hit(k) THEN RedactedLeaf
                                       ELSE _redact_json(t.parts[k], keys)
      BY <1>1, <2>1
    <2>3. \A k \in D : t.parts[k] \in Trees /\ RedactedRight(t.parts[k], keys)
      BY <1>1
    <2>4. CASE D = {}
      <3>1. R = t
        <4>1. t.parts \in [D -> Trees] /\ t = [kind |-> t.kind, value |-> t.value, parts |-> t.parts]
          BY <1>1, TreeTypes
        <4>2. [k \in D |-> IF Hit(k) THEN RedactedLeaf ELSE _redact_json(t.parts[k], keys)] = t.parts
          BY <2>4, <4>1
        <4>3. QED  BY <2>1, <4>1, <4>2
      <3>2. Leaves(t) = {[path |-> <<>>, value |-> t]}
        BY <1>1, <2>4, LeavesUnfold
      <3>3. ~Secret(<<>>, keys)
        BY DEF Secret
      <3>4. QED  BY <3>1, <3>2, <3>3 DEF RedactedRight
    <2>5. CASE D # {}
      <3>1. /\ Leaves(t) = UNION {Under(t.kind, k, Leaves(t.parts[k])) : k \in D}
            /\ Leaves(R) = UNION {Under(t.kind, k, Leaves(R.parts[k])) : k \in D}
        <4>1. Leaves(t) = UNION {Under(t.kind, k, Leaves(t.parts[k])) : k \in D}
          BY <1>1, <2>5, LeavesUnfold
        <4>. HIDE DEF R
        <4>2. Leaves(R) = UNION {Under(R.kind, k, Leaves(R.parts[k])) : k \in DOMAIN R.parts}
          BY <2>2, <2>5, LeavesUnfold
        <4>3. QED  BY <2>2, <4>1, <4>2
      <3>. DEFINE Path(k, p) == <<[kind |-> t.kind, key |-> k]>> \o p
                  Deeper(k, m) == [path |-> Path(k, m.path), value |-> m.value]
      (* The leaves of a tree are those of its parts, further down.        *)
      <3>2. ASSUME NEW l \in Leaves(t)
            PROVE  \E k \in D : \E m \in Leaves(t.parts[k]) : l = Deeper(k, m)
        BY <3>1, <3>2 DEF Under
      <3>3. ASSUME NEW l \in Leaves(R)
            PROVE  \E k \in D : \E m \in Leaves(R.parts[k]) : l = Deeper(k, m)
        BY <3>1, <3>3 DEF Under
      <3>4. \A k \in D : \A m \in Leaves(t.parts[k]) : Deeper(k, m) \in Leaves(t)
        <4>1. \A k \in D : \A m \in Leaves(t.parts[k]) :
                Deeper(k, m) \in Under(t.kind, k, Leaves(t.parts[k]))
          BY DEF Under
        <4>. HIDE DEF R, Deeper
        <4>2. QED  BY <3>1, <4>1
      <3>5. \A k \in D : \A m \in Leaves(R.parts[k]) : Deeper(k, m) \in Leaves(R)
        <4>1. \A k \in D : \A m \in Leaves(R.parts[k]) :
                Deeper(k, m) \in Under(t.kind, k, Leaves(R.parts[k]))
          BY DEF Under
        <4>. HIDE DEF R, Deeper
        <4>2. QED  BY <3>1, <4>1
      <3>6. ASSUME NEW u \in Trees, NEW m \in Leaves(u), NEW k \in D
            PROVE  Secret(Path(k, m.path), keys) <=> Hit(k) \/ Secret(m.path, keys)
        <4>1. m.path \in Seq(Steps)
          BY <3>6, LeafTypes
        <4>2. [kind |-> t.kind, key |-> k] \in Steps
          BY <1>1, <3>6 DEF Steps
        <4>3. QED  BY <4>1, <4>2, SecretUnder
      <3>7. \A k \in D : R.parts[k] \in Trees
        BY <2>2, <2>3, LeavesOfRedacted
      <3>8. \A k \in D : \A m : Deeper(k, m).path = Path(k, m.path) /\ Deeper(k, m).value = m.value
        OBVIOUS
      <3>. HIDE DEF R, D, Hit, Path, Deeper
      <3>9. ASSUME NEW l \in Leaves(R), Secret(l.path, keys)
            PROVE  l.value = RedactedLeaf
        <4>1. PICK k \in D : \E m \in Leaves(R.parts[k]) : l = Deeper(k, m)
          BY <3>3
        <4>2. PICK m \in Leaves(R.parts[k]) : l = Deeper(k, m)
          BY <4>1
        <4>3. CASE Hit(k)
          <5>1. m = [path |-> <<>>, value |-> RedactedLeaf]
            BY <2>2, <4>2, <4>3, LeavesOfRedacted
          <5>2. QED  BY <3>8, <4>2, <5>1
        <4>4. CASE ~Hit(k)
          <5>1. Secret(m.path, keys)
            BY <3>6, <3>7, <3>8, <3>9, <4>2, <4>4
          <5>2. m.value = RedactedLeaf
            BY <2>2, <2>3, <4>2, <4>4, <5>1 DEF RedactedRight
          <5>3. QED  BY <3>8, <4>2, <5>2
        <4>5. QED  BY <4>3, <4>4
      <3>10. ASSUME NEW k \in D, ~Hit(k)
             PROVE  Open(R.parts[k], keys) = Open(t.parts[k], keys)
        BY <2>2, <2>3, <3>10 DEF RedactedRight
      <3>11. ASSUME NEW l \in Open(R, keys)
             PROVE  l \in Open(t, keys)
        <4>1. l \in Leaves(R) /\ ~Secret(l.path, keys)
          BY <3>11 DEF Open
        <4>2. PICK k \in D : \E m \in Leaves(R.parts[k]) : l = Deeper(k, m)
          BY <3>3, <4>1
        <4>3. PICK m \in Leaves(R.parts[k]) : l = Deeper(k, m)
          BY <4>2
        <4>4. ~Hit(k) /\ ~Secret(m.path, keys)
          BY <3>6, <3>7, <3>8, <4>1, <4>3
        <4>5. m \in Open(t.parts[k], keys)
          BY <3>10, <4>3, <4>4 DEF Open
        <4>6. QED  BY <3>4, <4>1, <4>3, <4>5 DEF Open
      <3>12. ASSUME NEW l \in Open(t, keys)
             PROVE  l \in Open(R, keys)
        <4>1. l \in Leaves(t) /\ ~Secret(l.path, keys)
          BY <3>12 DEF Open
        <4>2. PICK k \in D : \E m \in Leaves(t.parts[k]) : l = Deeper(k, m)
          BY <3>2, <4>1
        <4>3. PICK m \in Leaves(t.parts[k]) : l = Deeper(k, m)
          BY <4>2
        <4>4. ~Hit(k) /\ ~Secret(m.path, keys)
          BY <2>3, <3>6, <3>8, <4>1, <4>3
        <4>5. m \in Open(R.parts[k], keys)
          BY <3>10, <4>3, <4>4 DEF Open
        <4>6. QED  BY <3>5, <4>1, <4>3, <4>5 DEF Open
      <3>13. ASSUME Open(t, keys) = Leaves(t)
             PROVE  R = t
        <4>1. \A l \in Leaves(t) : ~Secret(l.path, keys)
          BY <3>13 DEF Open
        <4>2. ASSUME NEW k \in D
              PROVE  R.parts[k] = t.parts[k]
          <5>1. \A m \in Leaves(t.parts[k]) : ~Hit(k) /\ ~Secret(m.path, keys)
            BY <2>3, <3>4, <3>6, <3>8, <4>1
          <5>2. ~Hit(k)
            BY <2>3, <5>1, LeafTypes
          <5>3. Open(t.parts[k], keys) = Leaves(t.parts[k])
            BY <5>1 DEF Open
          <5>4. _redact_json(t.parts[k], keys) = t.parts[k]
            BY <2>3, <5>3 DEF RedactedRight
          <5>5. QED  BY <2>2, <5>2, <5>4
        <4>3. /\ t = [kind |-> t.kind, value |-> t.value, parts |-> t.parts]
              /\ R = [kind |-> R.kind, value |-> R.value, parts |-> R.parts]
              /\ t.parts \in [D -> Trees] /\ R.parts \in [D -> Trees]
          BY <1>1, <2>2, TreeTypes DEF D
        <4>4. t.parts = R.parts
          BY <4>2, <4>3
        <4>5. t.value = R.value
          BY <2>1
        <4>6. QED  BY <2>2, <4>3, <4>4, <4>5
      <3>14. Open(R, keys) = Open(t, keys)
        BY <3>11, <3>12
      <3>15. QED  BY <3>9, <3>13, <3>14 DEF RedactedRight, R
    <2>6. QED  BY <2>4, <2>5
  <1>2. \A t \in Trees : (\A k \in DOMAIN t.parts : t.parts[k] \in Good) => t \in Good
    BY <1>1
  <1>3. \A t \in Trees : t \in Good
    <2>. HIDE DEF Good
    <2>1. QED  BY <1>2, TreeInduction
  <1>4. QED  BY <1>3

-----------------------------------------------------------------------------
(* The keys that concern a driver are those that are redacted for it.      *)
LEMMA NamedKeys ==
    ASSUME suite \in Suites
    PROVE  \A lines : NamedIn(lines) = ScrubKeys(lines, suite.driver)
  <1>1. suite.driver # NoDriver
    BY InteractionsAssumption
  <1>2. SUFFICES ASSUME NEW lines
                 PROVE  NamedIn(lines) = ScrubKeys(lines, suite.driver)
    OBVIOUS
  <1>3. {l \in ToSet(lines) : l.colon => l.driver = suite.driver}
          = {l \in ToSet(lines) : ~l.colon \/ IsFor(l, suite.driver)}
    BY <1>1 DEF IsFor
  <1>4. QED  BY <1>3 DEF NamedIn, ScrubKeys, Words

LEMMA ColumnScrubbed ==
    ASSUME NEW column \in Columns, NEW keys, NEW after, after = ScrubbedColumn(column, keys)
    PROVE  /\ after.name = column.name /\ after.strings = column.strings
           /\ DOMAIN after.cells = DOMAIN column.cells
           /\ \A r \in DOMAIN column.cells :
                /\ column.cells[r] \in Cells
                /\ after.cells[r] =
                     IF ~column.strings THEN column.cells[r]
                     ELSE IF column.name \in keys
                     THEN IF column.cells[r] = Null THEN Null ELSE Text("REDACTED")
                     ELSE RedactedText(column.cells[r], keys)
  <1>1. /\ column = [name |-> column.name, strings |-> column.strings, cells |-> column.cells]
        /\ column.cells \in Seq(Cells)
    BY DEF Columns
  <1>2. \A r \in DOMAIN column.cells : column.cells[r] \in Cells
    BY <1>1
  <1>3. CASE ~column.strings
    BY <1>2, <1>3 DEF ScrubbedColumn
  <1>4. CASE column.strings
    <2>. DEFINE cells == [r \in DOMAIN column.cells |->
                  IF column.name \in keys
                  THEN IF column.cells[r] = Null THEN Null ELSE Text("REDACTED")
                  ELSE RedactedText(column.cells[r], keys)]
    <2>1. ScrubbedColumn(column, keys) = [column EXCEPT !.cells = cells]
      BY <1>4 DEF ScrubbedColumn
    <2>2. /\ DOMAIN cells = DOMAIN column.cells
          /\ \A r \in DOMAIN column.cells : cells[r] =
                  IF column.name \in keys
                  THEN IF column.cells[r] = Null THEN Null ELSE Text("REDACTED")
                  ELSE RedactedText(column.cells[r], keys)
      OBVIOUS
    <2>. HIDE DEF cells
    <2>3. [column EXCEPT !.cells = cells]
            = [name |-> column.name, strings |-> column.strings, cells |-> cells]
      BY <1>1
    <2>4. QED  BY <1>2, <1>4, <2>1, <2>2, <2>3
  <1>5. QED  BY <1>3, <1>4

LEMMA CellRedacted ==
    ASSUME NEW cell \in Cells, NEW keys, \A t \in Trees : _redact_json(t, keys) \in Trees
    PROVE  /\ cell.kind # "json" => RedactedText(cell, keys) = cell
           /\ cell.kind = "json" =>
                /\ loads[cell.json] \in Trees
                /\ RedactedText(cell, keys).kind = "json"
                /\ loads[RedactedText(cell, keys).json] = _redact_json(loads[cell.json], keys)
                /\ _redact_json(loads[cell.json], keys) = loads[cell.json]
                     => RedactedText(cell, keys) = cell
  <1>1. CASE cell.kind # "json"
    BY <1>1 DEF RedactedText
  <1>2. CASE cell.kind = "json"
    <2>. DEFINE tree == loads[cell.json]
                redacted == _redact_json(tree, keys)
    <2>1. cell \in [kind : {"json"}, json : DOMAIN loads]
      BY <1>2 DEF Cells
    <2>2. tree \in Trees /\ redacted \in Trees
      BY <2>1, JsonAssumption
    <2>3. CASE redacted = tree
      BY <1>2, <2>2, <2>3 DEF RedactedText
    <2>4. CASE redacted # tree
      <3>1. RedactedText(cell, keys) = Json(dumps[redacted])
        BY <1>2, <2>4 DEF RedactedText
      <3>. HIDE DEF tree, redacted
      <3>2. loads[dumps[redacted]] = redacted
        BY <2>2, JsonAssumption
      <3>3. RedactedText(cell, keys).kind = "json" /\ RedactedText(cell, keys).json = dumps[redacted]
        BY <3>1 DEF Json
      <3>4. QED  BY <1>2, <2>2, <2>4, <3>2, <3>3 DEF tree, redacted
    <2>5. QED  BY <2>3, <2>4
  <1>3. QED  BY <1>1, <1>2

(* The stored columns of an interaction, of those the driver answered.     *)
LEMMA StoredTable ==
    ASSUME FilesInv, NEW i \in DOMAIN files
    PROVE  /\ DOMAIN files[i].table = DOMAIN asked[i].table
           /\ \A c \in DOMAIN asked[i].table :
                /\ asked[i].table[c] \in Columns
                /\ files[i].table[c] = ScrubbedColumn(asked[i].table[c], ResultKeys)
  <1>1. asked[i] \in Queries /\ files[i] = Stored(i)
    BY StoredFiles
  <1>2. asked[i].table \in Seq(Columns)
    BY <1>1, InteractionsAssumption
  <1>3. files[i].table = [c \in DOMAIN asked[i].table |->
                            ScrubbedColumn(asked[i].table[c], ResultKeys)]
    BY <1>1 DEF Stored, FileOf, RecordedTable, scrub_result_table
  <1>4. QED  BY <1>2, <1>3

(* What the callback or a key redacts is on disk in no parameter, and what *)
(* a key redacts in no result, at whatever depth of a JSON cell.           *)
THEOREM SecretsAreOut ==
    ASSUME RedactedIsJson
    PROVE  Spec => []SecretsStayOut
  <1>1. FilesInv => SecretsStayOut
    <2>. SUFFICES ASSUME FilesInv, NEW i \in DOMAIN files
                  PROVE
          /\ LET p == files[i].params
                 named == NamedIn(suite.scrub_lines)
                            \union (IF suite.scrubber.answers THEN suite.scrubber.redacts ELSE {})
             IN p.kind = "dict" => \A k \in DOMAIN p.items \intersect named : p.items[k] = REDACTED
          /\ \A c \in DOMAIN files[i].table :
               LET column == files[i].table[c]
                   secret == NamedIn(suite.result_lines)
               IN column.strings => \A r \in DOMAIN column.cells :
                    LET cell == column.cells[r]
                    IN /\ column.name \in secret => cell \in {Null, Text("REDACTED")}
                       /\ cell.kind = "json" => \A l \in Leaves(loads[cell.json]) :
                            Secret(l.path, secret) => l.value = RedactedLeaf
      BY DEF SecretsStayOut
    <2>1. FilesInv /\ suite \in Suites
      BY DEF FilesInv
    <2>. DEFINE p == files[i].params
                named == NamedIn(suite.scrub_lines)
                            \union (IF suite.scrubber.answers THEN suite.scrubber.redacts ELSE {})
                secret == NamedIn(suite.result_lines)
    <2>2. ASSUME p.kind = "dict", NEW k \in DOMAIN p.items \intersect named
          PROVE  p.items[k] = REDACTED
      <3>. DEFINE q == asked[i]
                  kind == q.params.kind
                  items == [n \in DOMAIN q.params.items |->
                              _serialise_value(q.params.items[n], Registry)]
                  names == ParamKeys \union Answered(suite.scrubber)
      <3>1. q \in Queries /\ p = apply_scrubbing(serialise_params(q.params, Registry),
                                                 ParamKeys, suite.scrubber)
        BY <2>1, StoredFiles DEF Stored, FileOf
      <3>2. serialise_params(q.params, Registry) = [kind |-> kind, items |-> items]
        BY <3>1, Serialised
      <3>. DEFINE S == {items[n] : n \in DOMAIN q.params.items}
      <3>3. items \in [DOMAIN q.params.items -> S]
        OBVIOUS
      <3>4. named = names
        BY <2>1, NamedKeys DEF Answered, ParamKeys
      <3>. HIDE DEF kind, items, S, q, names, named, p
      <3>5. apply_scrubbing([kind |-> kind, items |-> items], ParamKeys, suite.scrubber) =
              [kind  |-> kind,
               items |-> IF kind = "dict"
                         THEN Redacted(items, ParamKeys \union Answered(suite.scrubber)) ELSE items]
        BY <3>3, ScrubbedParams
      <3>6. p = [kind  |-> kind,
                 items |-> IF kind = "dict" THEN Redacted(items, names) ELSE items]
        BY <3>1, <3>2, <3>5 DEF names
      <3>7. p.items = Redacted(items, names)
        BY <2>2, <3>6
      <3>8. QED  BY <2>2, <3>4, <3>7 DEF Redacted
    <2>3. ASSUME NEW c \in DOMAIN files[i].table, files[i].table[c].strings,
                 NEW r \in DOMAIN files[i].table[c].cells
          PROVE  LET column == files[i].table[c]
                     cell   == column.cells[r]
                 IN /\ column.name \in secret => cell \in {Null, Text("REDACTED")}
                    /\ cell.kind = "json" => \A l \in Leaves(loads[cell.json]) :
                         Secret(l.path, secret) => l.value = RedactedLeaf
      <3>. DEFINE before == asked[i].table[c]
                  column == files[i].table[c]
                  cell == column.cells[r]
      <3>1. before \in Columns /\ column = ScrubbedColumn(before, ResultKeys)
        BY <2>1, <2>3, StoredTable
      <3>2. /\ column.name = before.name /\ column.strings = before.strings
            /\ before.cells[r] \in Cells
            /\ cell = IF ~before.strings THEN before.cells[r]
                      ELSE IF before.name \in ResultKeys
                      THEN IF before.cells[r] = Null THEN Null ELSE Text("REDACTED")
                      ELSE RedactedText(before.cells[r], ResultKeys)
        <4>1. r \in DOMAIN column.cells
          BY <2>3
        <4>. HIDE DEF before, column
        <4>2. QED  BY <3>1, <4>1, ColumnScrubbed
      <3>3. secret = ResultKeys
        BY <2>1, NamedKeys DEF ResultKeys
      <3>4. \A t \in Trees : _redact_json(t, ResultKeys) \in Trees
        BY <2>1 DEF RedactedIsJson, ResultKeys
      <3>. DEFINE old == before.cells[r]
      <3>. HIDE DEF before, column, cell, old, secret
      <3>5. CASE before.name \in ResultKeys
        <4>1. cell = IF old = Null THEN Null ELSE Text("REDACTED")
          BY <2>3, <3>2, <3>5 DEF old, column
        <4>2. Null.kind # "json" /\ Text("REDACTED").kind # "json"
          BY DEF Null, Text
        <4>3. QED  BY <4>1, <4>2 DEF column, cell
      <3>6. CASE before.name \notin ResultKeys
        <4>1. cell = RedactedText(old, ResultKeys) /\ old \in Cells
          BY <2>3, <3>2, <3>6 DEF old, column
        <4>2. ASSUME cell.kind = "json", NEW l \in Leaves(loads[cell.json]), Secret(l.path, secret)
              PROVE  l.value = RedactedLeaf
          <5>1. old.kind = "json"
            BY <3>4, <4>1, <4>2, CellRedacted
          <5>2. /\ loads[old.json] \in Trees
                /\ loads[cell.json] = _redact_json(loads[old.json], ResultKeys)
            BY <3>4, <4>1, <5>1, CellRedacted
          <5>3. RedactedRight(loads[old.json], ResultKeys)
            BY <3>4, <5>2, RedactsByKey
          <5>4. QED  BY <3>3, <4>2, <5>2, <5>3 DEF RedactedRight
        <4>3. column.name \notin secret
          BY <3>2, <3>3, <3>6
        <4>4. QED  BY <4>2, <4>3 DEF column, cell
      <3>7. QED  BY <3>5, <3>6
    <2>4. QED  BY <2>2, <2>3
  <1>2. QED  BY <1>1, FilesInvariant, PTL

(* What no key names is on disk as it was: other cells to the letter, and  *)
(* of a JSON cell that is rewritten every other leaf that json.loads read. *)
THEOREM OthersStay ==
    ASSUME RedactedIsJson
    PROVE  Spec => []OthersAreKept
  <1>1. FilesInv => OthersAreKept
    <2>. SUFFICES ASSUME FilesInv, NEW i \in DOMAIN files,
                         NEW c \in DOMAIN files[i].table,
                         NEW r \in DOMAIN asked[i].table[c].cells,
                         ~(asked[i].table[c].strings
                             /\ asked[i].table[c].name \in NamedIn(suite.result_lines))
                  PROVE
          LET before == asked[i].table[c]
              after  == files[i].table[c]
              secret == NamedIn(suite.result_lines)
              open(cell) == {l \in Leaves(loads[cell.json]) : ~Secret(l.path, secret)}
              cell == before.cells[r]
          IN IF cell.kind # "json" \/ ~before.strings THEN after.cells[r] = cell
             ELSE /\ after.cells[r].kind = "json"
                  /\ open(after.cells[r]) = open(cell)
                  /\ open(cell) = Leaves(loads[cell.json]) => after.cells[r] = cell
      BY DEF OthersAreKept
    <2>1. FilesInv /\ suite \in Suites
      BY DEF FilesInv
    <2>. DEFINE before == asked[i].table[c]
                after == files[i].table[c]
                secret == NamedIn(suite.result_lines)
                cell == before.cells[r]
                new == after.cells[r]
    <2>2. before \in Columns /\ after = ScrubbedColumn(before, ResultKeys)
      BY <2>1, StoredTable
    <2>3. secret = ResultKeys
      BY <2>1, NamedKeys DEF ResultKeys
    <2>4. /\ cell \in Cells
          /\ new = IF ~before.strings THEN cell ELSE RedactedText(cell, ResultKeys)
      <3>1. ~(before.strings /\ before.name \in ResultKeys)
        BY <2>3
      <3>2. r \in DOMAIN before.cells
        OBVIOUS
      <3>. HIDE DEF before, after
      <3>3. QED  BY <2>2, <3>1, <3>2, ColumnScrubbed
    <2>5. \A t \in Trees : _redact_json(t, ResultKeys) \in Trees
      BY <2>1 DEF RedactedIsJson, ResultKeys
    <2>. HIDE DEF before, after, secret, cell, new
    <2>6. CASE cell.kind # "json" \/ ~before.strings
      <3>1. new = cell
        BY <2>4, <2>5, <2>6, CellRedacted
      <3>2. QED  BY <2>6, <3>1 DEF before, after, cell, new
    <2>7. CASE cell.kind = "json" /\ before.strings
      <3>. DEFINE old == loads[cell.json]   tree == loads[new.json]
      <3>1. /\ old \in Trees /\ new.kind = "json"
            /\ tree = _redact_json(old, ResultKeys)
            /\ _redact_json(old, ResultKeys) = old => new = cell
        BY <2>4, <2>5, <2>7, CellRedacted
      <3>. HIDE DEF old, tree
      <3>2. RedactedRight(old, ResultKeys)
        BY <2>5, <3>1, RedactsByKey
      <3>3. Open(tree, secret) = Open(old, secret)
        BY <2>3, <3>1, <3>2 DEF RedactedRight
      <3>4. Open(old, secret) = Leaves(old) => new = cell
        BY <2>3, <3>1, <3>2 DEF RedactedRight
      <3>5. QED  BY <2>7, <3>1, <3>3, <3>4 DEF Open, before, after, cell, new, secret, old, tree
    <2>8. QED  BY <2>6, <2>7
  <1>2. QED  BY <1>1, FilesInvariant, PTL

=============================================================================
