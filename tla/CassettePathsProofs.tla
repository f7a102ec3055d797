------------------------ MODULE CassettePathsProofs ------------------------
(* Cassettes of a suite: which connections share one, with one dialect and *)
(* one state; and no recording wiped that is not the test's own or that it *)
(* has just made.                                                          *)
EXTENDS CassettePaths, SequenceTheorems, FiniteSetTheorems, FunctionTheorems, TLAPS

(* Sequences of names.  (That the literal is a string the provers do not   *)
(* know.)                                                                  *)
Name == STRING \union {"unknown"}

Paths == Seq(Name)

LEMMA StringsArePaths ==
    ASSUME NEW s \in Seq(STRING)
    PROVE  s \in Paths
  BY SeqMonotonic DEF Paths, Name

-----------------------------------------------------------------------------
(* Counting the positions up to each gives every number up to how many     *)
(* there are, once.                                                        *)
LEMMA NthIsOnto ==
    ASSUME NEW S \in SUBSET Nat, IsFiniteSet(S)
    PROVE  /\ \A n \in 1 .. Cardinality(S) : Nth(n, S) \in S
           /\ \A i \in S : \E n \in 1 .. Cardinality(S) : Nth(n, S) = i
  <1>. DEFINE upTo(i) == {j \in S : j <= i}
              rank == [i \in S |-> Cardinality(upTo(i))]
  <1>1. \A i \in S : /\ IsFiniteSet(upTo(i)) /\ Cardinality(upTo(i)) \in Nat
                     /\ Cardinality(upTo(i)) <= Cardinality(S)
                     /\ Cardinality(upTo(i)) >= 1
    <2>1. SUFFICES ASSUME NEW i \in S
                   PROVE  /\ IsFiniteSet(upTo(i)) /\ Cardinality(upTo(i)) \in Nat
                          /\ Cardinality(upTo(i)) <= Cardinality(S)
                          /\ Cardinality(upTo(i)) >= 1
      OBVIOUS
    <2>2. upTo(i) \in SUBSET S /\ i \in upTo(i)
      OBVIOUS
    <2>. HIDE DEF upTo
    <2>3. IsFiniteSet(upTo(i)) /\ Cardinality(upTo(i)) <= Cardinality(S)
      BY <2>2, FS_Subset
    <2>4. Cardinality(upTo(i)) \in Nat /\ Cardinality(upTo(i)) # 0
      BY <2>2, <2>3, FS_CardinalityType, FS_EmptySet
    <2>5. QED  BY <2>3, <2>4
  <1>2. \A i, j \in S : i < j => Cardinality(upTo(i)) # Cardinality(upTo(j))
    <2>1. SUFFICES ASSUME NEW i \in S, NEW j \in S, i < j
                   PROVE  Cardinality(upTo(i)) # Cardinality(upTo(j))
      OBVIOUS
    <2>2. i \in Nat /\ j \in Nat /\ \A k \in S : k \in Nat
      BY <2>1
    <2>3. \A k \in S : k <= i => k <= j
      BY <2>1, <2>2
    <2>4. upTo(i) \in SUBSET upTo(j)
      BY <2>3
    <2>5. j \in upTo(j) /\ j \notin upTo(i)
      BY <2>1, <2>2
    <2>6. IsFiniteSet(upTo(j))
      BY <1>1
    <2>. HIDE DEF upTo
    <2>7. QED  BY <2>4, <2>5, <2>6, FS_Subset
  <1>3. rank \in Injection(S, 1 .. Cardinality(S))
    <2>1. rank \in [S -> 1 .. Cardinality(S)]
      <3>1. Cardinality(S) \in Nat
        BY FS_CardinalityType
      <3>. HIDE DEF upTo
      <3>2. QED  BY <1>1, <3>1
    <2>2. \A i, j \in S : i # j => Cardinality(upTo(i)) # Cardinality(upTo(j))
      <3>. HIDE DEF upTo
      <3>1. QED  BY <1>2
    <2>. HIDE DEF upTo
    <2>3. QED  BY <2>1, <2>2 DEF Injection, IsInjective
  <1>4. rank \in Surjection(S, 1 .. Cardinality(S))
    <2>1. Cardinality(S) \in Nat
      BY FS_CardinalityType
    <2>2. IsFiniteSet(1 .. Cardinality(S)) /\ Cardinality(1 .. Cardinality(S)) = Cardinality(S)
      BY <2>1, FS_Interval
    <2>. HIDE DEF rank
    <2>3. QED  BY <1>3, <2>2, FS_Injection
  <1>5. \A n \in 1 .. Cardinality(S) : \E i \in S : Cardinality(upTo(i)) = n
    BY <1>4 DEF Surjection
  <1>6. ASSUME NEW n \in 1 .. Cardinality(S)
        PROVE  Nth(n, S) \in S /\ Cardinality(upTo(Nth(n, S))) = n
    BY <1>5 DEF Nth
  <1>7. ASSUME NEW i \in S
        PROVE  \E n \in 1 .. Cardinality(S) : Nth(n, S) = i
    <2>. DEFINE n == Cardinality(upTo(i))
    <2>1. n \in 1 .. Cardinality(S)
      BY <1>1, FS_CardinalityType
    <2>2. Nth(n, S) \in S /\ Cardinality(upTo(Nth(n, S))) = n
      BY <1>6, <2>1
    <2>3. Nth(n, S) = i
      <3>. DEFINE k == Nth(n, S)
      <3>1. k \in S /\ Cardinality(upTo(k)) = Cardinality(upTo(i))
        BY <2>2
      <3>. HIDE DEF upTo, k
      <3>2. k \in Nat /\ i \in Nat /\ ~(k < i) /\ ~(i < k)
        BY <1>2, <3>1
      <3>3. k = i
        BY <3>2
      <3>4. QED  BY <3>3 DEF k
    <2>4. QED  BY <2>1, <2>3
  <1>8. QED  BY <1>6, <1>7

(* The positions of the keys that are given.                               *)
Present(arguments, keys) == {i \in DOMAIN keys : keys[i] \in DOMAIN arguments}

(* There are finitely many.                                                *)
LEMMA PresentFinite ==
    ASSUME NEW arguments, NEW keys \in Seq(STRING)
    PROVE  /\ Present(arguments, keys) \in SUBSET Nat
           /\ IsFiniteSet(Present(arguments, keys))
           /\ Cardinality(Present(arguments, keys)) \in Nat
  <1>1. Len(keys) \in Nat /\ DOMAIN keys = 1 .. Len(keys)
    BY LenProperties
  <1>2. IsFiniteSet(1 .. Len(keys))
    BY <1>1, FS_Interval
  <1>3. Present(arguments, keys) \in SUBSET (1 .. Len(keys))
    BY <1>1 DEF Present
  <1>4. QED  BY <1>1, <1>2, <1>3, FS_Subset, FS_CardinalityType

(* A segment for each key that is given, a name.                           *)
LEMMA SegmentsType ==
    ASSUME NEW arguments, NEW keys \in Seq(STRING),
           \A k \in DOMAIN arguments : arguments[k] \in DOMAIN Stem
    PROVE  /\ Segments(arguments, keys) \in Paths
           /\ Len(Segments(arguments, keys)) = Cardinality(Present(arguments, keys))
  <1>. DEFINE S == Present(arguments, keys)
              e(n) == Stem[arguments[keys[Nth(n, S)]]]
  <1>1. Segments(arguments, keys) = [n \in 1 .. Cardinality(S) |-> e(n)]
    BY DEF Segments, Present
  <1>2. Cardinality(S) \in Nat /\ \A n \in 1 .. Cardinality(S) : Nth(n, S) \in S
    BY PresentFinite, NthIsOnto
  <1>3. \A n \in 1 .. Cardinality(S) : e(n) \in Name
    BY <1>2, NamesAssumption DEF Present, Name
  <1>. HIDE DEF S, e
  <1>4. QED  BY <1>1, <1>2, <1>3, LenProperties DEF Paths, S
-----------------------------------------------------------------------------
(* A path lies within another if it begins with it.                        *)
LEMMA WithinBegins ==
    ASSUME NEW p \in Paths, NEW q \in Paths
    PROVE  Within(p, q) <=> Len(q) <= Len(p) /\ \A i \in 1 .. Len(q) : p[i] = q[i]
  <1>1. Len(p) \in Nat /\ Len(q) \in Nat
    BY LenProperties DEF Paths
  <1>2. CASE ~(Len(q) <= Len(p))
    BY <1>2 DEF Within
  <1>3. CASE Len(q) <= Len(p)
    <2>. DEFINE b == SubSeq(p, 1, Len(q))
    <2>1. /\ b \in Paths /\ Len(b) = Len(q)
          /\ \A i \in 1 .. Len(q) : b[i] = p[i]
      <3>1. \A i \in 1 .. Len(q) : i \in 1 .. Len(p) /\ 1 + i - 1 = i
        BY <1>1, <1>3
      <3>2. 1 \in 1 .. Len(p) + 1 /\ Len(q) \in 0 .. Len(p)
        BY <1>1, <1>3
      <3>3. QED
        BY <1>1, <1>3, <3>1, <3>2, SubSeqProperties DEF Paths
    <2>. HIDE DEF b
    <2>2. b = q <=> \A i \in 1 .. Len(q) : b[i] = q[i]
      BY <2>1, SeqEqual DEF Paths
    <2>3. Within(p, q) <=> b = q
      BY <1>3 DEF Within, b
    <2>4. QED  BY <1>3, <2>1, <2>2, <2>3
  <1>4. QED  BY <1>2, <1>3

(* If a path lies within another, of the directories that they begin with  *)
(* one lies within the other.                                              *)
LEMMA DirectoriesNested ==
    ASSUME NEW a \in Paths, NEW b \in Paths, NEW r \in Paths, NEW s \in Paths,
           Within(a \o r, b \o s)
    PROVE  Nested(a, b)
  <1>. DEFINE p == a \o r   q == b \o s
  <1>1. /\ p \in Paths /\ q \in Paths
        /\ Len(p) = Len(a) + Len(r) /\ Len(q) = Len(b) + Len(s)
        /\ \A i \in 1 .. Len(a) + Len(r) : p[i] = IF i <= Len(a) THEN a[i] ELSE r[i - Len(a)]
        /\ \A i \in 1 .. Len(b) + Len(s) : q[i] = IF i <= Len(b) THEN b[i] ELSE s[i - Len(b)]
    BY ConcatProperties DEF Paths
  <1>2. Len(a) \in Nat /\ Len(b) \in Nat /\ Len(r) \in Nat /\ Len(s) \in Nat
    BY LenProperties DEF Paths
  <1>3. Within(p, q)
    OBVIOUS
  <1>. HIDE DEF p, q
  <1>4. Len(q) <= Len(p) /\ \A i \in 1 .. Len(q) : p[i] = q[i]
    BY <1>1, <1>3, WithinBegins
  <1>5. \A i \in Nat : 1 <= i /\ i <= Len(a) /\ i <= Len(b) => a[i] = b[i]
    <2>1. SUFFICES ASSUME NEW i \in Nat, 1 <= i, i <= Len(a), i <= Len(b)
                   PROVE  a[i] = b[i]
      OBVIOUS
    <2>2. i \in 1 .. Len(a) + Len(r) /\ i \in 1 .. Len(b) + Len(s) /\ i \in 1 .. Len(q)
      BY <1>1, <1>2, <2>1
    <2>3. p[i] = a[i] /\ q[i] = b[i] /\ p[i] = q[i]
      BY <1>1, <1>4, <2>1, <2>2
    <2>4. QED  BY <2>3
  <1>6. CASE Len(b) <= Len(a)
    <2>1. \A i \in 1 .. Len(b) : a[i] = b[i]
      BY <1>2, <1>5, <1>6
    <2>2. QED  BY <1>6, <2>1, WithinBegins DEF Nested
  <1>7. CASE Len(a) <= Len(b)
    <2>1. \A i \in 1 .. Len(a) : b[i] = a[i]
      BY <1>2, <1>5, <1>7
    <2>2. QED  BY <1>7, <2>1, WithinBegins DEF Nested
  <1>8. QED  BY <1>2, <1>6, <1>7

LEMMA WithinItself ==
    ASSUME NEW p \in Paths
    PROVE  Within(p, p)
  <1>1. Len(p) \in Nat
    BY LenProperties DEF Paths
  <1>2. QED  BY <1>1, WithinBegins
-----------------------------------------------------------------------------
(* The slugs of names are a path.                                          *)
LEMMA SluggedType ==
    ASSUME NEW names \in Seq(DOMAIN Slug)
    PROVE  Slugged(names) \in Paths
  <1>1. Len(names) \in Nat /\ DOMAIN names = 1 .. Len(names)
    BY LenProperties
  <1>2. \A i \in 1 .. Len(names) : Slug[names[i]] \in Name
    BY <1>1, ElementOfSeq, NamesAssumption DEF Name
  <1>3. Slugged(names) = [i \in 1 .. Len(names) |-> Slug[names[i]]]
    BY <1>1 DEF Slugged
  <1>. DEFINE e(i) == Slug[names[i]]
  <1>4. \A i \in 1 .. Len(names) : e(i) \in Name
    BY <1>2
  <1>5. Slugged(names) = [i \in 1 .. Len(names) |-> e(i)]
    BY <1>3
  <1>. HIDE DEF e
  <1>6. QED  BY <1>1, <1>4, <1>5 DEF Paths

LEMMA NodePathType ==
    ASSUME NEW t \in Tests
    PROVE  NodePath(t) \in Paths
  <1>1. ModulePath[t] \in Seq(DOMAIN Slug) /\ NodeNames[t] \in Seq(DOMAIN Slug)
    BY NamesAssumption
  <1>2. WithoutTests(ModulePath[t]) \in Seq(DOMAIN Slug)
    <2>1. CASE Len(ModulePath[t]) > 1
      <3>1. ModulePath[t] # <<>>
        BY <1>1, <2>1, EmptySeq
      <3>2. Tail(ModulePath[t]) \in Seq(DOMAIN Slug)
        BY <1>1, <3>1, HeadTailProperties
      <3>3. QED  BY <1>1, <3>2 DEF WithoutTests
    <2>2. CASE ~(Len(ModulePath[t]) > 1)
      BY <1>1, <2>2 DEF WithoutTests
    <2>3. QED  BY <2>1, <2>2
  <1>3. Slugged(WithoutTests(ModulePath[t])) \in Paths /\ Slugged(NodeNames[t]) \in Paths
    BY <1>1, <1>2, SluggedType
  <1>4. QED  BY <1>3, ConcatProperties DEF NodePath, Paths

LEMMA DirectoryType ==
    ASSUME NEW c \in Calls
    PROVE  Directory(c) \in Paths
  <1>1. c.test \in Tests /\ c.name \in Paths
    BY PathsAssumption, NamesAssumption, StringsArePaths
  <1>2. NodePath(c.test) \in Paths /\ Marker[c.test].name \in Paths
    BY <1>1, NodePathType, NamesAssumption, StringsArePaths
  <1>3. <<"unknown">> \in Paths
    BY DEF Paths, Name
  <1>4. WrapDirectory(c) \in Paths
    BY <1>1, <1>2, <1>3 DEF WrapDirectory
  <1>5. TestPath(c.test) \in Paths
    BY <1>2 DEF TestPath
  <1>6. QED  BY <1>4, <1>5 DEF Directory

(* Every argument that a call recovers was given.                          *)
LEMMA ArgumentsType ==
    ASSUME NEW c \in Calls
    PROVE  /\ \A k \in DOMAIN Arguments(c) : Arguments(c)[k] \in DOMAIN Stem
           /\ \A k \in DOMAIN c.keywords : c.keywords[k] \in DOMAIN Stem
  <1>1. /\ c.keywords \in [DOMAIN c.keywords -> DOMAIN Stem]
        /\ c.positional \in Seq(DOMAIN Stem)
    BY NamesAssumption
  <1>2. \A k \in DOMAIN c.keywords : c.keywords[k] \in DOMAIN Stem
    BY <1>1
  <1>. DEFINE bound == IF Binds(c) THEN DOMAIN c.positional ELSE {}
              named == {Signature[c.driver][i] : i \in bound}
              pick(k) == CHOOSE i \in bound : Signature[c.driver][i] = k
              value(k) == IF k \in DOMAIN c.keywords THEN c.keywords[k] ELSE c.positional[pick(k)]
  <1>3. Arguments(c) = [k \in named \union DOMAIN c.keywords |-> value(k)]
    BY DEF Arguments
  <1>4. \A i \in bound : c.positional[i] \in DOMAIN Stem
    <2>1. \A i \in DOMAIN c.positional : c.positional[i] \in DOMAIN Stem
      BY <1>1, ElementOfSeq, LenProperties
    <2>2. QED  BY <2>1
  <1>5. \A k \in named : pick(k) \in bound
    <2>. HIDE DEF bound
    <2>1. QED  OBVIOUS
  <1>. HIDE DEF bound, pick
  <1>6. \A k \in named \union DOMAIN c.keywords : value(k) \in DOMAIN Stem
    BY <1>2, <1>4, <1>5
  <1>. HIDE DEF value, named
  <1>7. QED  BY <1>2, <1>3, <1>6

(* What comes below its directory in the path of a call.                   *)
Below(c) ==
    IF c.style = "wrap" THEN Segments(c.keywords, IF c.overrides THEN c.keys ELSE DefaultKeys)
    ELSE <<c.driver>> \o Segments(Arguments(c), DefaultKeys)

LEMMA PathBelowDirectory ==
    ASSUME NEW c \in Calls
    PROVE  /\ CassettePath(c) \in Paths /\ Below(c) \in Paths
           /\ CassettePath(c) = Directory(c) \o Below(c)
  <1>1. Directory(c) \in Paths
    BY DirectoryType
  <1>2. DefaultKeys \in Seq(STRING) /\ c.keys \in Seq(STRING)
    BY NamesAssumption DEF DefaultKeys
  <1>3. Segments(Arguments(c), DefaultKeys) \in Paths
    BY <1>2, ArgumentsType, SegmentsType
  <1>4. Segments(c.keywords, IF c.overrides THEN c.keys ELSE DefaultKeys) \in Paths
    BY <1>2, ArgumentsType, SegmentsType
  <1>5. <<c.driver>> \in Paths
    BY NamesAssumption DEF Paths, Name
  <1>6. Below(c) \in Paths
    BY <1>3, <1>4, <1>5, ConcatProperties DEF Below, Paths
  <1>7. CassettePath(c) = Directory(c) \o Below(c)
    <2>1. CASE c.style = "wrap"
      BY <2>1 DEF CassettePath, Directory, Below, WrapPath
    <2>2. CASE c.style # "wrap"
      <3>1. Directory(c) = TestPath(c.test)
        BY <2>2 DEF Directory
      <3>2. CassettePath(c) = (Directory(c) \o <<c.driver>>) \o Segments(Arguments(c), DefaultKeys)
        BY <2>2, <3>1 DEF CassettePath, ItemPath
      <3>3. Below(c) = <<c.driver>> \o Segments(Arguments(c), DefaultKeys)
        BY <2>2 DEF Below
      <3>4. QED  BY <1>1, <1>3, <1>5, <3>2, <3>3, ConcatAssociative DEF Paths
    <2>3. QED  BY <2>1, <2>2
  <1>8. QED  BY <1>1, <1>6, <1>7, ConcatProperties DEF Paths
-----------------------------------------------------------------------------
(* Arguments that can be bound are recovered as they were given.           *)
LEMMA RecoversGiven ==
    ASSUME PositionsHaveNames(Calls), NEW c \in Connecting(Calls)
    PROVE  Arguments(c) = Given(c)
  <1>1. CASE c.positional = <<>>
    BY <1>1 DEF Arguments, Given
  <1>2. CASE c.positional # <<>>
    <2>1. Binds(c)
      BY <1>2 DEF PositionsHaveNames, Binds
    <2>2. QED  BY <2>1 DEF Arguments, Given
  <1>3. QED  BY <1>1, <1>2

(* Which keys are present depends on which are given.                      *)
LEMMA SamePresent ==
    ASSUME NEW a, NEW b, NEW keys,
           DOMAIN a \intersect ToSet(keys) = DOMAIN b \intersect ToSet(keys)
    PROVE  Present(a, keys) = Present(b, keys)
  BY DEF Present, ToSet

(* Values of the same keys with equal stems make equal segments.           *)
LEMMA SameSegments ==
    ASSUME NEW a, NEW b, NEW keys \in Seq(STRING),
           DOMAIN a \intersect ToSet(keys) = DOMAIN b \intersect ToSet(keys),
           \A k \in DOMAIN a \intersect ToSet(keys) : Stem[a[k]] = Stem[b[k]]
    PROVE  Segments(a, keys) = Segments(b, keys)
  <1>. DEFINE S == Present(a, keys)
              n_ == Cardinality(S)
              e(n) == Stem[a[keys[Nth(n, S)]]]
              f(n) == Stem[b[keys[Nth(n, S)]]]
  <1>1. S = Present(b, keys)
    BY SamePresent
  <1>2. Segments(a, keys) = [n \in 1 .. n_ |-> e(n)]
    BY DEF Segments, Present
  <1>3. Segments(b, keys) = [n \in 1 .. n_ |-> f(n)]
    BY <1>1 DEF Segments, Present
  <1>4. \A n \in 1 .. n_ : e(n) = f(n)
    <2>1. SUFFICES ASSUME NEW n \in 1 .. n_
                   PROVE  e(n) = f(n)
      OBVIOUS
    <2>2. Nth(n, S) \in S
      BY PresentFinite, NthIsOnto
    <2>3. keys[Nth(n, S)] \in DOMAIN a \intersect ToSet(keys)
      BY <2>2 DEF Present, ToSet
    <2>4. QED  BY <2>3
  <1>. HIDE DEF e, f, n_
  <1>5. QED  BY <1>2, <1>3, <1>4

(* Equal segments of the same keys come from values with equal stems.      *)
LEMMA SegmentsTell ==
    ASSUME NEW a, NEW b, NEW keys \in Seq(STRING),
           Present(a, keys) = Present(b, keys),
           Segments(a, keys) = Segments(b, keys)
    PROVE  \A k \in DOMAIN a \intersect ToSet(keys) : Stem[a[k]] = Stem[b[k]]
  <1>. DEFINE S == Present(a, keys)
              n_ == Cardinality(S)
              e(n) == Stem[a[keys[Nth(n, S)]]]
              f(n) == Stem[b[keys[Nth(n, S)]]]
  <1>1. Segments(a, keys) = [n \in 1 .. n_ |-> e(n)]
    BY DEF Segments, Present
  <1>2. Segments(b, keys) = [n \in 1 .. n_ |-> f(n)]
    BY DEF Segments, Present
  <1>3. \A n \in 1 .. n_ : e(n) = f(n)
    <2>. HIDE DEF e, f, n_
    <2>1. QED  BY <1>1, <1>2
  <1>4. SUFFICES ASSUME NEW k \in DOMAIN a \intersect ToSet(keys)
                 PROVE  Stem[a[k]] = Stem[b[k]]
    OBVIOUS
  <1>5. PICK i \in S : keys[i] = k
    BY <1>4 DEF Present, ToSet
  <1>6. PICK n \in 1 .. n_ : Nth(n, S) = i
    BY PresentFinite, NthIsOnto
  <1>7. e(n) = f(n)
    BY <1>3
  <1>8. QED  BY <1>5, <1>6, <1>7
-----------------------------------------------------------------------------
(* The keys of a call that are present in its path are those it is given.  *)
LEMMA ItemPathOfGiven ==
    ASSUME PositionsHaveNames(Calls), NEW c \in Connecting(Calls), c.style # "wrap"
    PROVE  /\ c \in Calls
           /\ Directory(c) = TestPath(c.test)
           /\ Below(c) = <<c.driver>> \o Segments(Given(c), DefaultKeys)
           /\ Segments(Given(c), DefaultKeys) \in Paths
           /\ Len(Segments(Given(c), DefaultKeys)) = Cardinality(Present(Given(c), DefaultKeys))
           /\ DOMAIN Given(c) \intersect ToSet(DefaultKeys) = KeysGiven(c)
  <1>1. c \in Calls
    BY DEF Connecting
  <1>2. Arguments(c) = Given(c)
    BY RecoversGiven
  <1>3. DefaultKeys \in Seq(STRING)
    BY NamesAssumption DEF DefaultKeys
  <1>4. \A k \in DOMAIN Given(c) : Given(c)[k] \in DOMAIN Stem
    BY <1>1, <1>2, ArgumentsType
  <1>5. /\ Segments(Given(c), DefaultKeys) \in Paths
        /\ Len(Segments(Given(c), DefaultKeys)) = Cardinality(Present(Given(c), DefaultKeys))
    BY <1>3, <1>4, SegmentsType
  <1>6. QED  BY <1>1, <1>2, <1>5 DEF Directory, Below, KeysGiven

(* However the arguments are passed, a database has one path in a test.    *)
LEMMA PathOfDatabase ==
    ASSUME PositionsHaveNames(Calls),
           NEW c \in Connecting(Calls), NEW d \in Connecting(Calls),
           c.style # "wrap", d.style # "wrap", c.test = d.test, Database(c) = Database(d)
    PROVE  CassettePath(c) = CassettePath(d)
  <1>1. DefaultKeys \in Seq(STRING)
    BY NamesAssumption DEF DefaultKeys
  <1>. DEFINE g == [k \in KeysGiven(c) |-> Given(c)[k]]
              h == [k \in KeysGiven(d) |-> Given(d)[k]]
  <1>2. c.driver = d.driver /\ g = h
    <2>1. <<c.driver, g>> = <<d.driver, h>>
      BY DEF Database
    <2>. HIDE DEF g, h
    <2>2. QED  BY <2>1
  <1>3. DOMAIN g = KeysGiven(c) /\ DOMAIN h = KeysGiven(d)
    OBVIOUS
  <1>4. KeysGiven(c) = KeysGiven(d)
    <2>. HIDE DEF g, h
    <2>1. QED  BY <1>2, <1>3
  <1>5. \A k \in KeysGiven(c) : Given(c)[k] = Given(d)[k]
    <2>1. SUFFICES ASSUME NEW k \in KeysGiven(c)
                   PROVE  Given(c)[k] = Given(d)[k]
      OBVIOUS
    <2>2. g[k] = Given(c)[k] /\ h[k] = Given(d)[k]
      BY <1>4
    <2>. HIDE DEF g, h
    <2>3. QED  BY <1>2, <2>2
  <1>6. Segments(Given(c), DefaultKeys) = Segments(Given(d), DefaultKeys)
    <2>1. \A k \in KeysGiven(c) : Stem[Given(c)[k]] = Stem[Given(d)[k]]
      BY <1>5
    <2>2. QED  BY <1>1, <1>4, <2>1, ItemPathOfGiven, SameSegments
  <1>7. Directory(c) = Directory(d) /\ Below(c) = Below(d)
    BY <1>2, <1>6, ItemPathOfGiven
  <1>8. QED  BY <1>7, PathBelowDirectory, ItemPathOfGiven
-----------------------------------------------------------------------------
LEMMA PairsEqual ==
    ASSUME NEW x, NEW y, NEW u, NEW v, <<x, y>> = <<u, v>>
    PROVE  x = u /\ y = v
  OBVIOUS

(* A call's test and name decide its owner and directory.                  *)
LEMMA OwnersDirectory ==
    ASSUME NEW c \in Calls, NEW d \in Calls,
           c.style # "wrap", d.style # "wrap", Owner(c) = Owner(d)
    PROVE  Directory(c) = Directory(d)
  <1>1. Directory(c) = TestPath(c.test) /\ Directory(d) = TestPath(d.test)
    BY DEF Directory
  <1>2. CASE NamedByMarker(c.test)
    <2>1. Owner(c) = <<"named", Marker[c.test].name>>
      BY <1>2 DEF Owner
    <2>2. NamedByMarker(d.test)
      BY <2>1 DEF Owner
    <2>3. Owner(d) = <<"named", Marker[d.test].name>>
      BY <2>2 DEF Owner
    <2>4. Marker[c.test].name = Marker[d.test].name
      <3>1. <<"named", Marker[c.test].name>> = <<"named", Marker[d.test].name>>
        BY <2>1, <2>3
      <3>2. QED  BY <3>1, PairsEqual
    <2>5. QED  BY <1>1, <1>2, <2>2, <2>4 DEF TestPath
  <1>3. CASE ~NamedByMarker(c.test)
    <2>1. Owner(c) = <<"test", <<c.test>> >>
      BY <1>3 DEF Owner
    <2>2. ~NamedByMarker(d.test)
      BY <2>1 DEF Owner
    <2>3. Owner(d) = <<"test", <<d.test>> >>
      BY <2>2 DEF Owner
    <2>4. <<c.test>> = <<d.test>>
      <3>1. <<"test", <<c.test>> >> = <<"test", <<d.test>> >>
        BY <2>1, <2>3
      <3>2. QED  BY <3>1, PairsEqual
    <2>5. c.test = d.test
      BY <2>4
    <2>6. QED  BY <1>1, <2>5
  <1>4. QED  BY <1>2, <1>3

LEMMA SameTestSameOwner ==
    ASSUME NEW c, NEW d, c.test = d.test
    PROVE  Owner(c) = Owner(d)
  BY DEF Owner

(* Where one cassette lies in another, so do the directories of the calls. *)
LEMMA NestedDirectories ==
    ASSUME NEW c \in Calls, NEW d \in Calls, Within(CassettePath(c), CassettePath(d))
    PROVE  Nested(Directory(c), Directory(d)) /\ Nested(Directory(d), Directory(c))
  <1>1. Directory(c) \in Paths /\ Directory(d) \in Paths
    BY DirectoryType
  <1>2. Below(c) \in Paths /\ Below(d) \in Paths
    BY PathBelowDirectory
  <1>3. Within(Directory(c) \o Below(c), Directory(d) \o Below(d))
    BY PathBelowDirectory
  <1>4. Nested(Directory(c), Directory(d))
    BY <1>1, <1>2, <1>3, DirectoriesNested
  <1>5. QED  BY <1>4 DEF Nested

(* A name after a directory, and what comes after it.                      *)
LEMMA NameAfter ==
    ASSUME NEW a \in Paths, NEW x \in Name, NEW s \in Paths
    PROVE  /\ Len(a \o (<<x>> \o s)) = Len(a) + 1 + Len(s)
           /\ (a \o (<<x>> \o s))[Len(a) + 1] = x
  <1>. DEFINE r == <<x>> \o s
  <1>1. Len(a) \in Nat /\ Len(s) \in Nat
    BY LenProperties DEF Paths
  <1>. DEFINE b == <<x>>
  <1>2. b \in Paths /\ Len(b) = 1 /\ b[1] = x
    BY DEF Paths
  <1>3. r \in Paths /\ Len(r) = 1 + Len(s) /\ r[1] = x
    <2>1. r = b \o s
      OBVIOUS
    <2>. HIDE DEF b, r
    <2>2. /\ r \in Paths /\ Len(r) = Len(b) + Len(s)
          /\ \A i \in 1 .. Len(b) + Len(s) : r[i] = IF i <= Len(b) THEN b[i] ELSE s[i - Len(b)]
      BY <1>2, <2>1, ConcatProperties DEF Paths
    <2>3. 1 \in 1 .. Len(b) + Len(s) /\ 1 <= Len(b)
      BY <1>1, <1>2
    <2>4. QED  BY <1>2, <2>2, <2>3
  <1>. HIDE DEF r, b
  <1>4. /\ Len(a \o r) = Len(a) + Len(r)
        /\ \A i \in 1 .. Len(a) + Len(r) :
             (a \o r)[i] = IF i <= Len(a) THEN a[i] ELSE r[i - Len(a)]
    <2>1. r \in Seq(Name) /\ a \in Seq(Name)
      BY <1>3 DEF Paths
    <2>2. QED  BY <2>1, ConcatProperties
  <1>5. /\ Len(a) + 1 \in 1 .. Len(a) + Len(r) /\ ~(Len(a) + 1 <= Len(a))
        /\ (Len(a) + 1) - Len(a) = 1 /\ Len(a) + Len(r) = Len(a) + 1 + Len(s)
    BY <1>1, <1>3
  <1>6. Len(a \o r) = Len(a) + 1 + Len(s) /\ (a \o r)[Len(a) + 1] = x
    BY <1>3, <1>4, <1>5
  <1>7. QED  BY <1>6 DEF r, b

(* With the same differentiators given, none of the cassettes of a patched *)
(* connect() or adbc_connect lies inside another: there is a name for the  *)
(* driver, and as many after it.                                           *)
LEMMA ItemsNotNested ==
    ASSUME PositionsHaveNames(Calls), SameKeysGiven(Calls),
           NEW c \in Connecting(Calls), NEW d \in Connecting(Calls),
           c.style # "wrap", d.style # "wrap", Owner(c) = Owner(d),
           Within(CassettePath(c), CassettePath(d))
    PROVE  /\ CassettePath(c) = CassettePath(d)
           /\ c.driver = d.driver
           /\ KeysGiven(c) = KeysGiven(d)
           /\ Segments(Given(c), DefaultKeys) = Segments(Given(d), DefaultKeys)
  <1>. DEFINE a == Directory(c)
              s == Segments(Given(c), DefaultKeys)
              t == Segments(Given(d), DefaultKeys)
              p == CassettePath(c)
              q == CassettePath(d)
  <1>1. c \in Calls /\ d \in Calls
    BY DEF Connecting
  <1>2. a \in Paths /\ p \in Paths /\ q \in Paths
    BY <1>1, DirectoryType, PathBelowDirectory
  <1>3. c.driver \in Name /\ d.driver \in Name
    BY <1>1, NamesAssumption DEF Name
  <1>4. s \in Paths /\ t \in Paths
    BY ItemPathOfGiven
  <1>5. p = a \o (<<c.driver>> \o s)
    BY <1>1, ItemPathOfGiven, PathBelowDirectory
  <1>6. q = a \o (<<d.driver>> \o t)
    BY <1>1, ItemPathOfGiven, PathBelowDirectory, OwnersDirectory
  <1>7. Len(s) = Cardinality(Present(Given(c), DefaultKeys))
    BY ItemPathOfGiven
  <1>8. Len(t) = Cardinality(Present(Given(d), DefaultKeys))
    BY ItemPathOfGiven
  <1>9. Within(p, q)
    OBVIOUS
  <1>10. Len(a) \in Nat /\ Len(s) \in Nat /\ Len(t) \in Nat
    BY <1>2, <1>4, LenProperties DEF Paths
  <1>. HIDE DEF a, s, t, p, q
  <1>11. Len(p) = Len(a) + 1 + Len(s) /\ p[Len(a) + 1] = c.driver
    BY <1>2, <1>3, <1>4, <1>5, NameAfter
  <1>12. Len(q) = Len(a) + 1 + Len(t) /\ q[Len(a) + 1] = d.driver
    BY <1>2, <1>3, <1>4, <1>6, NameAfter
  <1>13. \A i \in 1 .. Len(q) : p[i] = q[i]
    BY <1>2, <1>9, WithinBegins
  <1>14. c.driver = d.driver
    <2>1. Len(a) + 1 \in 1 .. Len(q)
      BY <1>10, <1>12
    <2>2. QED  BY <1>11, <1>12, <1>13, <2>1
  <1>15. KeysGiven(c) = KeysGiven(d)
    BY <1>14 DEF SameKeysGiven
  <1>16. Present(Given(c), DefaultKeys) = Present(Given(d), DefaultKeys)
    BY <1>15, ItemPathOfGiven, SamePresent
  <1>17. Len(p) = Len(q)
    BY <1>7, <1>8, <1>11, <1>12, <1>16
  <1>18. p = q
    BY <1>2, <1>13, <1>17, SeqEqual DEF Paths
  <1>19. s = t
    <2>1. <<c.driver>> \in Paths
      BY <1>3 DEF Paths
    <2>2. <<c.driver>> \o s \in Paths /\ <<c.driver>> \o t \in Paths
      BY <1>4, <2>1, ConcatProperties DEF Paths
    <2>3. a \o (<<c.driver>> \o s) = a \o (<<c.driver>> \o t)
      BY <1>5, <1>6, <1>14, <1>18
    <2>4. <<c.driver>> \o s = <<c.driver>> \o t
      BY <1>2, <2>2, <2>3, ConcatSimplifications DEF Paths
    <2>5. QED  BY <1>4, <2>1, <2>4, ConcatSimplifications DEF Paths
  <1>20. QED  BY <1>14, <1>15, <1>18, <1>19 DEF p, q, s, t

(* A cassette inside another belongs to the same tests.                    *)
LEMMA NestedCassettesOneOwner ==
    ASSUME OwnersApart(Calls), NEW c \in Connecting(Calls), NEW d \in Connecting(Calls),
           Within(CassettePath(c), CassettePath(d))
    PROVE  Owner(c) = Owner(d)
  BY NestedDirectories DEF OwnersApart, Connecting

(* The path of a patched connect() or of adbc_connect: its directory, the  *)
(* driver and what is seen of the differentiators.                         *)
LEMMA ItemPathSeen ==
    ASSUME NEW c \in Calls, c.style # "wrap"
    PROVE  /\ Directory(c) \in Paths /\ c.driver \in Name
           /\ Segments(Arguments(c), DefaultKeys) \in Paths
           /\ CassettePath(c) = Directory(c) \o (<<c.driver>> \o Segments(Arguments(c), DefaultKeys))
  <1>1. DefaultKeys \in Seq(STRING)
    BY NamesAssumption DEF DefaultKeys
  <1>2. Segments(Arguments(c), DefaultKeys) \in Paths
    BY <1>1, ArgumentsType, SegmentsType
  <1>3. c.driver \in Name
    BY NamesAssumption DEF Name
  <1>4. Below(c) = <<c.driver>> \o Segments(Arguments(c), DefaultKeys)
    BY DEF Below
  <1>5. QED  BY <1>2, <1>3, <1>4, DirectoryType, PathBelowDirectory

(* Below one directory, one path has one driver and one list of stems.     *)
LEMMA OnePathOneDriver ==
    ASSUME NEW c \in Calls, NEW d \in Calls, c.style # "wrap", d.style # "wrap",
           Directory(c) = Directory(d), CassettePath(c) = CassettePath(d)
    PROVE  /\ c.driver = d.driver
           /\ Segments(Arguments(c), DefaultKeys) = Segments(Arguments(d), DefaultKeys)
  <1>. DEFINE a == Directory(c)
              x == c.driver
              y == d.driver
              s == Segments(Arguments(c), DefaultKeys)
              t == Segments(Arguments(d), DefaultKeys)
  <1>1. /\ a \in Paths /\ x \in Name /\ y \in Name /\ s \in Paths /\ t \in Paths
        /\ a \o (<<x>> \o s) = a \o (<<y>> \o t)
    BY ItemPathSeen
  <1>. HIDE DEF a, x, y, s, t
  <1>2. x = y
    BY <1>1, NameAfter
  <1>3. <<x>> \in Paths
    BY <1>1 DEF Paths
  <1>4. <<x>> \o s \in Paths /\ <<x>> \o t \in Paths
    BY <1>1, <1>3, ConcatProperties DEF Paths
  <1>5. <<x>> \o s = <<x>> \o t
    BY <1>1, <1>2, <1>4, ConcatSimplifications DEF Paths
  <1>6. s = t
    BY <1>1, <1>3, <1>5, ConcatSimplifications DEF Paths
  <1>7. QED  BY <1>2, <1>6 DEF x, y, s, t

(* With the same keys seen, two calls of one owner have one path exactly   *)
(* if they have one driver and the same stems.                             *)
LEMMA PathTellsStems ==
    ASSUME NEW c \in Calls, NEW d \in Calls, c.style # "wrap", d.style # "wrap",
           Owner(c) = Owner(d), KeysSeen(c) = KeysSeen(d)
    PROVE  CassettePath(c) = CassettePath(d) <=>
             c.driver = d.driver /\ StemsSeen(c) = StemsSeen(d)
  <1>1. Directory(c) = Directory(d)
    BY OwnersDirectory
  <1>2. DefaultKeys \in Seq(STRING)
    BY NamesAssumption DEF DefaultKeys
  <1>3. DOMAIN Arguments(c) \intersect ToSet(DefaultKeys)
          = DOMAIN Arguments(d) \intersect ToSet(DefaultKeys)
    BY DEF KeysSeen
  <1>4. ASSUME CassettePath(c) = CassettePath(d)
        PROVE  c.driver = d.driver /\ StemsSeen(c) = StemsSeen(d)
    <2>1. /\ c.driver = d.driver
          /\ Segments(Arguments(c), DefaultKeys) = Segments(Arguments(d), DefaultKeys)
      BY <1>1, <1>4, OnePathOneDriver
    <2>2. Present(Arguments(c), DefaultKeys) = Present(Arguments(d), DefaultKeys)
      BY <1>3, SamePresent
    <2>3. \A k \in KeysSeen(c) : Stem[Arguments(c)[k]] = Stem[Arguments(d)[k]]
      BY <1>2, <2>1, <2>2, SegmentsTell DEF KeysSeen
    <2>4. StemsSeen(c) = StemsSeen(d)
      BY <2>3 DEF StemsSeen
    <2>5. QED  BY <2>1, <2>4
  <1>5. ASSUME c.driver = d.driver, StemsSeen(c) = StemsSeen(d)
        PROVE  CassettePath(c) = CassettePath(d)
    <2>1. \A k \in KeysSeen(c) : StemsSeen(c)[k] = Stem[Arguments(c)[k]]
      BY DEF StemsSeen
    <2>2. \A k \in KeysSeen(c) : StemsSeen(d)[k] = Stem[Arguments(d)[k]]
      BY DEF StemsSeen
    <2>3. \A k \in KeysSeen(c) : Stem[Arguments(c)[k]] = Stem[Arguments(d)[k]]
      BY <1>5, <2>1, <2>2
    <2>4. Segments(Arguments(c), DefaultKeys) = Segments(Arguments(d), DefaultKeys)
      BY <1>2, <1>3, <2>3, SameSegments DEF KeysSeen
    <2>5. QED  BY <1>1, <1>5, <2>4, ItemPathSeen
  <1>6. QED  BY <1>4, <1>5

(* Within a test, the cassette that a deletion finds in the directory of   *)
(* another is that other, and both connections keep the state of the test. *)
LEMMA NestedInTest ==
    ASSUME PositionsHaveNames(Calls), SameKeysGiven(Calls), WrapsApart(Calls),
           NEW c \in Connecting(Calls), NEW d \in Connecting(Calls),
           c.test = d.test, KeepsState(c), Within(CassettePath(c), CassettePath(d))
    PROVE  CassettePath(c) = CassettePath(d) /\ KeepsState(d)
  <1>1. c \in Calls /\ d \in Calls
    BY DEF Connecting
  <1>2. Nested(Directory(c), Directory(d)) /\ Nested(Directory(d), Directory(c))
    BY <1>1, NestedDirectories
  <1>3. CASE c.style = "wrap" \/ d.style = "wrap"
    BY <1>2, <1>3 DEF WrapsApart
  <1>4. CASE c.style # "wrap" /\ d.style # "wrap"
    <2>1. CassettePath(c) = CassettePath(d)
      BY <1>4, SameTestSameOwner, ItemsNotNested
    <2>2. QED  BY <1>4, <2>1 DEF KeepsState
  <1>5. QED  BY <1>3, <1>4
-----------------------------------------------------------------------------
(* The invariant of types.  A connection is what Open made it ...          *)
Connections ==
    {[call |-> c, path |-> CassettePath(c), dialect |-> Dialect(c), state |-> n] :
        c \in Connecting(Calls), n \in Nat}

(* ... the connections and keys are of the test that runs ...              *)
OfTheTest ==
    /\ running = NoTest => connections = <<>> /\ cassette_states = {}
    /\ running # NoTest => run >= 1
    /\ \A k \in DOMAIN connections : connections[k].call.test = running

(* ... and a file is where the call that recorded it puts it.              *)
FilesInPlace ==
    /\ IsFiniteSet(files)
    /\ \A f \in files : f.call \in Connecting(Calls) /\ f.path = CassettePath(f.call)

PathsInv == TypeOK /\ connections \in Seq(Connections) /\ OfTheTest /\ FilesInPlace

CassetteStates == [wiped : BOOLEAN, once_replay : {"undecided", "replay", "record"}]

LEMMA ConnectionFields ==
    ASSUME NEW x \in Connections
    PROVE  /\ x.call \in Connecting(Calls) /\ x.call \in Calls
           /\ x.path = CassettePath(x.call)
           /\ x.dialect = Dialect(x.call)
           /\ x.state \in Nat
  BY DEF Connections, Connecting

LEMMA AnyConnection ==
    ASSUME PathsInv, NEW k \in DOMAIN connections
    PROVE  /\ connections[k] \in Connections
           /\ connections[k].call \in Connecting(Calls) /\ connections[k].call \in Calls
           /\ connections[k].path = CassettePath(connections[k].call)
           /\ connections[k].dialect = Dialect(connections[k].call)
           /\ connections[k].state \in DOMAIN states
           /\ connections[k].call.test = running
           /\ running # NoTest
  <1>1. connections[k] \in Connections
    BY ElementOfSeq, LenProperties DEF PathsInv
  <1>2. running # NoTest
    <2>1. CASE running = NoTest
      BY <2>1 DEF PathsInv, OfTheTest
    <2>2. QED  BY <2>1
  <1>3. connections[k].state \in DOMAIN states
    BY DEF PathsInv, TypeOK
  <1>4. connections[k].call.test = running
    BY DEF PathsInv, OfTheTest
  <1>5. QED  BY <1>1, <1>2, <1>3, <1>4, ConnectionFields

LEMMA PathsInit == Init => PathsInv
  <1>1. SUFFICES ASSUME Init PROVE PathsInv
    OBVIOUS
  <1>2. IsFiniteSet(files)
    BY <1>1, FS_EmptySet DEF Init
  <1>3. TypeOK
    BY <1>1, PathsAssumption DEF Init, TypeOK
  <1>4. connections \in Seq(Connections)
    BY <1>1 DEF Init
  <1>5. QED  BY <1>1, <1>2, <1>3, <1>4 DEF Init, PathsInv, OfTheTest, FilesInPlace

(* What a connection that is opened is.                                    *)
LEMMA OpenAdds ==
    ASSUME PathsInv, NEW c \in Calls, Open(c)
    PROVE  /\ states' \in Seq(CassetteStates) /\ DOMAIN states \subseteq DOMAIN states'
           /\ \A i \in DOMAIN states : states'[i] = states[i]
           /\ running # NoTest /\ running = c.test
           /\ \E id \in DOMAIN states' :
                /\ connections' = Append(connections,
                     [call |-> c, path |-> CassettePath(c), dialect |-> Dialect(c), state |-> id])
                /\ \/ /\ Known(c) = {} /\ id = Len(states) + 1 /\ KeepsState(c)
                      /\ cassette_states' = cassette_states \union
                            {[test |-> c.test, path |-> CassettePath(c), state |-> id]}
                   \/ Known(c) = {} /\ cassette_states' = cassette_states /\ ~KeepsState(c)
                   \/ /\ cassette_states' = cassette_states
                      /\ \E k \in Known(c) : k.state = id
  <1>. DEFINE new == Known(c) = {}
              id == IF new THEN Len(states) + 1 ELSE (CHOOSE k \in Known(c) : TRUE).state
              fresh == [wiped |-> FALSE, once_replay |-> "undecided"]
  <1>1. states \in Seq(CassetteStates)
    BY DEF PathsInv, TypeOK, CassetteStates
  <1>2. Len(states) \in Nat /\ DOMAIN states = 1 .. Len(states)
    BY <1>1, LenProperties
  <1>3. fresh \in CassetteStates
    BY DEF CassetteStates
  <1>4. running = c.test /\ running # NoTest
    BY PathsAssumption DEF Open
  <1>5. connections' = Append(connections,
          [call |-> c, path |-> CassettePath(c), dialect |-> Dialect(c), state |-> id])
    BY DEF Open
  <1>6. states' = IF new THEN Append(states, fresh) ELSE states
    BY DEF Open
  <1>7. cassette_states' =
          IF new /\ KeepsState(c)
          THEN cassette_states \union {[test |-> c.test, path |-> CassettePath(c), state |-> id]}
          ELSE cassette_states
    BY DEF Open
  <1>. HIDE DEF fresh
  <1>8. CASE new
    <2>1. id = Len(states) + 1
      BY <1>8
    <2>. HIDE DEF new, id
    <2>2. /\ states' \in Seq(CassetteStates) /\ Len(states') = Len(states) + 1
          /\ \A i \in 1 .. Len(states) : states'[i] = states[i]
      BY <1>1, <1>3, <1>6, <1>8, AppendProperties
    <2>3. DOMAIN states' = 1 .. Len(states) + 1
      BY <2>2, LenProperties
    <2>4. id \in DOMAIN states' /\ DOMAIN states \subseteq DOMAIN states'
      BY <1>2, <2>1, <2>3
    <2>5. QED  BY <1>2, <1>4, <1>5, <1>7, <1>8, <2>1, <2>2, <2>4 DEF new
  <1>9. CASE ~new
    <2>1. PICK k \in Known(c) : k.state = id
      BY <1>9
    <2>2. states' = states /\ cassette_states' = cassette_states
      BY <1>6, <1>7, <1>9
    <2>3. id \in DOMAIN states
      BY <2>1 DEF Known, PathsInv, TypeOK
    <2>. HIDE DEF new, id
    <2>4. QED  BY <1>1, <1>4, <1>5, <2>1, <2>2, <2>3
  <1>10. QED  BY <1>8, <1>9

(* What a query adds, removes and remembers.                               *)
LEMMA QueryDoes ==
    ASSUME PathsInv, NEW k \in DOMAIN connections, Query(k)
    PROVE  /\ \A f \in files \ files' : f \in Wiped(k)
           /\ \A f \in files' \ files : /\ f.call = connections[k].call
                                       /\ f.path = connections[k].path
                                       /\ f.run = run /\ f.index \in Nat
           /\ IsFiniteSet(files')
           /\ \A f \in recorded' \ recorded : /\ f \in files'
                                             /\ f.call = connections[k].call
                                             /\ f.path = connections[k].path
           /\ states' \in Seq(CassetteStates) /\ DOMAIN states' = DOMAIN states
           /\ states'[connections[k].state].wiped = (mode = "all")
           /\ \A i \in DOMAIN states : i # connections[k].state => states'[i] = states[i]
  <1>. DEFINE s == connections[k].state
              rest == files \ Wiped(k)
              n == Cardinality(In(connections[k].path) \ Wiped(k))
              new == [path |-> connections[k].path, index |-> n, run |-> run,
                      call |-> connections[k].call]
              after == [wiped |-> mode = "all", once_replay |-> Decision(k)]
  <1>1. states \in Seq(CassetteStates) /\ s \in DOMAIN states
    BY AnyConnection DEF PathsInv, TypeOK, CassetteStates
  <1>2. Decision(k) \in {"undecided", "replay", "record"}
    <2>1. states[s] \in CassetteStates
      BY <1>1, ElementOfSeq, LenProperties
    <2>2. states[s].once_replay \in {"undecided", "replay", "record"}
      BY <2>1 DEF CassetteStates
    <2>3. QED  BY <2>2 DEF Decision
  <1>3. after \in CassetteStates
    BY <1>2 DEF CassetteStates
  <1>4. states' = [states EXCEPT ![s] = after]
    BY DEF Query
  <1>5. /\ states' \in Seq(CassetteStates) /\ DOMAIN states' = DOMAIN states
        /\ states'[s] = after /\ \A i \in DOMAIN states : i # s => states'[i] = states[i]
    <2>. HIDE DEF after, s
    <2>1. QED  BY <1>1, <1>3, <1>4, ExceptSeq, LenProperties
  <1>6. \/ files' = files /\ recorded' = recorded
        \/ files' = rest \union {new} /\ recorded' = recorded \union {new}
    BY DEF Query
  <1>7. IsFiniteSet(files) /\ IsFiniteSet(rest) /\ n \in Nat
    <2>1. IsFiniteSet(files)
      BY DEF PathsInv, FilesInPlace
    <2>2. rest \in SUBSET files /\ In(connections[k].path) \ Wiped(k) \in SUBSET files
      BY DEF In
    <2>3. QED  BY <2>1, <2>2, FS_Subset, FS_CardinalityType
  <1>8. /\ new.path = connections[k].path /\ new.call = connections[k].call
        /\ new.run = run /\ new.index = n
    OBVIOUS
  <1>9. after.wiped = (mode = "all")
    OBVIOUS
  <1>10. \A f \in files \ rest : f \in Wiped(k)
    OBVIOUS
  <1>. HIDE DEF s, rest, n, new, after
  <1>11. IsFiniteSet(files')
    BY <1>6, <1>7, FS_AddElement
  <1>12. /\ \A f \in files \ files' : f \in Wiped(k)
         /\ \A f \in files' \ files : f = new \/ f \in rest
    BY <1>6, <1>10
  <1>13. \A f \in files' \ files : f = new
    BY <1>12 DEF rest
  <1>14. \A f \in recorded' \ recorded : f = new /\ f \in files'
    BY <1>6
  <1>15. QED  BY <1>5, <1>7, <1>8, <1>9, <1>11, <1>12, <1>13, <1>14 DEF s

LEMMA PathsNext == PathsInv /\ [Next]_vars => PathsInv'
  <1>. SUFFICES ASSUME PathsInv, [Next]_vars
                PROVE  PathsInv'
    OBVIOUS
  <1>. USE DEF CassetteStates
  <1>1. ASSUME NEW t \in Tests, StartTest(t)
        PROVE  PathsInv'
    <2>1. connections = <<>> /\ cassette_states = {}
      BY <1>1 DEF StartTest, PathsInv, OfTheTest
    <2>2. TypeOK'
      BY <1>1, <2>1, PathsAssumption DEF StartTest, PathsInv, TypeOK
    <2>3. OfTheTest'
      <3>1. run' >= 1
        BY <1>1, PathsAssumption DEF StartTest, PathsInv, TypeOK
      <3>2. QED  BY <1>1, <2>1, <3>1, PathsAssumption DEF StartTest, OfTheTest
    <2>4. FilesInPlace'
      BY <1>1 DEF StartTest, PathsInv, FilesInPlace
    <2>5. QED  BY <1>1, <2>2, <2>3, <2>4 DEF StartTest, PathsInv
  <1>2. ASSUME EndTest
        PROVE  PathsInv'
    <2>1. cassette_states' = {}
      BY <1>2 DEF EndTest, KeysAfterRelease, PathsInv, TypeOK
    <2>2. TypeOK'
      BY <1>2, <2>1 DEF EndTest, PathsInv, TypeOK
    <2>3. OfTheTest' /\ FilesInPlace'
      BY <1>2, <2>1 DEF EndTest, PathsInv, OfTheTest, FilesInPlace
    <2>4. connections' \in Seq(Connections)
      BY <1>2 DEF EndTest
    <2>5. QED  BY <2>2, <2>3, <2>4 DEF PathsInv
  <1>3. ASSUME NEW c \in Calls, Open(c)
        PROVE  PathsInv'
    <2>1. /\ states' \in Seq(CassetteStates) /\ DOMAIN states \subseteq DOMAIN states'
          /\ running # NoTest /\ running = c.test
      BY <1>3, OpenAdds
    <2>2. PICK id \in DOMAIN states' :
            /\ connections' = Append(connections,
                 [call |-> c, path |-> CassettePath(c), dialect |-> Dialect(c), state |-> id])
            /\ \/ cassette_states' = cassette_states \union
                      {[test |-> c.test, path |-> CassettePath(c), state |-> id]}
               \/ cassette_states' = cassette_states
      BY <1>3, OpenAdds
    <2>. DEFINE new == [call |-> c, path |-> CassettePath(c), dialect |-> Dialect(c), state |-> id]
    <2>3. UNCHANGED <<mode, run, running, files, queries, recorded>>
      BY <1>3 DEF Open
    <2>4. new \in Connections
      <3>1. c \in Connecting(Calls)
        BY <1>3 DEF Open, Connecting
      <3>2. id \in Nat
        BY <2>1, <2>2, LenProperties
      <3>3. QED  BY <3>1, <3>2 DEF Connections
    <2>5. new.call = c /\ new.path = CassettePath(c) /\ new.state = id
      OBVIOUS
    <2>. HIDE DEF new
    <2>6. /\ connections \in Seq(Connections)
          /\ connections' \in Seq(Connections) /\ Len(connections') = Len(connections) + 1
          /\ \A i \in 1 .. Len(connections) : connections'[i] = connections[i]
          /\ connections'[Len(connections) + 1] = new
      BY <2>2, <2>4, AppendProperties DEF PathsInv, new
    <2>7. /\ DOMAIN connections' = 1 .. Len(connections) + 1
          /\ DOMAIN connections = 1 .. Len(connections) /\ Len(connections) \in Nat
      BY <2>6, LenProperties
    <2>8. \A i \in DOMAIN connections' :
            \/ i \in DOMAIN connections /\ connections'[i] = connections[i]
            \/ connections'[i] = new
      BY <2>6, <2>7
    <2>9. \A key \in cassette_states' : key.test = running /\ key.state \in DOMAIN states'
      BY <2>1, <2>2 DEF PathsInv, TypeOK
    <2>10. \A i \in DOMAIN connections' :
             /\ connections'[i].call \in Calls
             /\ connections'[i].path = CassettePath(connections'[i].call)
             /\ connections'[i].state \in DOMAIN states'
             /\ connections'[i].call.test = running
      <3>1. SUFFICES ASSUME NEW i \in DOMAIN connections'
                     PROVE  /\ connections'[i].call \in Calls
                            /\ connections'[i].path = CassettePath(connections'[i].call)
                            /\ connections'[i].state \in DOMAIN states'
                            /\ connections'[i].call.test = running
        OBVIOUS
      <3>2. CASE i \in DOMAIN connections /\ connections'[i] = connections[i]
        BY <2>1, <3>2, AnyConnection
      <3>3. CASE connections'[i] = new
        BY <2>1, <2>2, <2>5, <3>3
      <3>4. QED  BY <2>8, <3>2, <3>3
    <2>11. TypeOK'
      BY <2>1, <2>3, <2>9, <2>10 DEF PathsInv, TypeOK
    <2>12. OfTheTest'
      BY <2>1, <2>3, <2>10 DEF PathsInv, OfTheTest
    <2>13. FilesInPlace'
      BY <2>3 DEF PathsInv, FilesInPlace
    <2>14. QED  BY <2>6, <2>11, <2>12, <2>13 DEF PathsInv
  <1>4. ASSUME NEW k \in DOMAIN connections, Query(k)
        PROVE  PathsInv'
    <2>1. UNCHANGED <<mode, run, running, cassette_states, connections>>
      BY <1>4 DEF Query
    <2>2. /\ states' \in Seq(CassetteStates) /\ DOMAIN states' = DOMAIN states
          /\ IsFiniteSet(files')
          /\ \A f \in files' \ files : /\ f.call = connections[k].call
                                      /\ f.path = connections[k].path
                                      /\ f.run = run /\ f.index \in Nat
      BY <1>4, QueryDoes
    <2>3. /\ connections[k].call \in Connecting(Calls) /\ connections[k].call \in Calls
          /\ connections[k].path = CassettePath(connections[k].call)
          /\ running # NoTest
      BY <1>4, AnyConnection
    <2>4. run \in 1 .. run
      BY <2>3, PathsAssumption DEF PathsInv, TypeOK, OfTheTest
    <2>5. queries' \in 0 .. MaxQueries
      BY <1>4, PathsAssumption DEF Query, PathsInv, TypeOK
    <2>6. TypeOK'
      BY <2>1, <2>2, <2>3, <2>4, <2>5 DEF PathsInv, TypeOK
    <2>7. FilesInPlace'
      BY <2>2, <2>3 DEF PathsInv, FilesInPlace
    <2>8. OfTheTest' /\ connections' \in Seq(Connections)
      BY <2>1 DEF PathsInv, OfTheTest
    <2>9. QED  BY <2>6, <2>7, <2>8 DEF PathsInv
  <1>5. ASSUME UNCHANGED vars
        PROVE  PathsInv'
    BY <1>5 DEF vars, PathsInv, TypeOK, OfTheTest, FilesInPlace
  <1>6. QED  BY <1>1, <1>2, <1>3, <1>4, <1>5 DEF Next, Finished

LEMMA PathsAlways == Spec => []PathsInv
  <1>1. QED  BY PathsInit, PathsNext, PTL DEF Spec

(* Types: and a connection has the path of its call, a key is of the test  *)
(* that runs.                                                              *)
THEOREM PathTypes == Spec => []TypeOK
  <1>1. PathsInv => TypeOK
    BY DEF PathsInv
  <1>2. QED  BY <1>1, PathsAlways, PTL
-----------------------------------------------------------------------------
(* Whatever a suite calls, patched connects and adbc_connect of a test     *)
(* that share a cassette normalise with one dialect: the path below the    *)
(* test's directory begins with the driver, and test and driver decide the *)
(* dialect.                                                                *)
THEOREM OneDialect == Spec => []OneDialectPerCassette
  <1>1. PathsInv => OneDialectPerCassette
    <2>1. SUFFICES ASSUME PathsInv, NEW j \in DOMAIN connections, NEW k \in DOMAIN connections,
                          connections[j].call.style # "wrap", connections[k].call.style # "wrap",
                          connections[j].path = connections[k].path
                   PROVE  connections[j].dialect = connections[k].dialect
      BY DEF OneDialectPerCassette
    <2>. DEFINE c == connections[j].call
                d == connections[k].call
    <2>2. /\ c \in Calls /\ d \in Calls /\ c.test = d.test
          /\ connections[j].path = CassettePath(c) /\ connections[j].dialect = Dialect(c)
          /\ connections[k].path = CassettePath(d) /\ connections[k].dialect = Dialect(d)
      BY <2>1, AnyConnection
    <2>3. c.style # "wrap" /\ d.style # "wrap" /\ CassettePath(c) = CassettePath(d)
      BY <2>1, <2>2
    <2>. HIDE DEF c, d
    <2>4. Directory(c) = Directory(d)
      BY <2>2, <2>3 DEF Directory
    <2>5. c.driver = d.driver
      BY <2>2, <2>3, <2>4, OnePathOneDriver
    <2>6. QED  BY <2>2, <2>3, <2>5 DEF Dialect, ItemDialect
  <1>2. QED  BY <1>1, PathsAlways, PTL

(* No recording of anybody else is ever deleted, whatever the suite calls, *)
(* if the directories of different owners do not lie inside one another.   *)
(* That the cassettes below them do not either follows: a path begins with *)
(* its directory.                                                          *)
THEOREM WipesItsOwn ==
    ASSUME OwnersApart(Calls)
    PROVE  Spec => WipesOwnOnly
  <1>. DEFINE Own == \A f \in files \ files' : Owner(f.call) = Owner([test |-> running])
  <1>1. PathsInv /\ [Next]_vars => [Own]_vars
    <2>1. SUFFICES ASSUME PathsInv, Next, NEW f \in files \ files'
                   PROVE  Owner(f.call) = Owner([test |-> running])
      OBVIOUS
    <2>2. \E k \in DOMAIN connections : Query(k)
      BY <2>1 DEF Next, StartTest, EndTest, Open, Finished, vars
    <2>3. PICK k \in DOMAIN connections : Query(k)
      BY <2>2
    <2>4. f \in Wiped(k)
      BY <2>1, <2>3, QueryDoes
    <2>5. Within(f.path, connections[k].path)
      BY <2>4 DEF Wiped
    <2>6. f.call \in Connecting(Calls) /\ f.path = CassettePath(f.call)
      BY <2>1 DEF PathsInv, FilesInPlace
    <2>7. /\ connections[k].call \in Connecting(Calls)
          /\ connections[k].path = CassettePath(connections[k].call)
          /\ connections[k].call.test = running
      BY <2>1, AnyConnection
    <2>8. Owner(f.call) = Owner(connections[k].call)
      BY <2>5, <2>6, <2>7, NestedCassettesOneOwner
    <2>9. QED  BY <2>7, <2>8, SameTestSameOwner
  <1>2. QED  BY <1>1, PathsAlways, PTL DEF Spec, WipesOwnOnly

(* Whatever a suite calls, of the recordings that are made for the same    *)
(* differentiators by one owner, a cassette has those of one driver and    *)
(* one list of stems, and has all of them.                                 *)
THEOREM StoredApart == Spec => []StoredSeparately
  <1>1. PathsInv => StoredSeparately
    <2>1. SUFFICES ASSUME PathsInv, NEW f \in files, NEW g \in files,
                          f.call.style # "wrap", g.call.style # "wrap",
                          Owner(f.call) = Owner(g.call), KeysSeen(f.call) = KeysSeen(g.call)
                   PROVE  f.path = g.path <=>
                            /\ f.call.driver = g.call.driver
                            /\ StemsSeen(f.call) = StemsSeen(g.call)
      BY DEF StoredSeparately
    <2>2. /\ f.call \in Calls /\ g.call \in Calls
          /\ f.path = CassettePath(f.call) /\ g.path = CassettePath(g.call)
      BY <2>1 DEF PathsInv, FilesInPlace, Connecting
    <2>3. QED  BY <2>1, <2>2, PathTellsStems
  <1>2. QED  BY <1>1, PathsAlways, PTL
-----------------------------------------------------------------------------
(* A path leads to one state, and every connection that keeps the state of *)
(* its test has the state of its path.                                     *)
KeysUnique == \A k, l \in cassette_states : k.path = l.path => k = l

StateOfPath ==
    \A k \in DOMAIN connections : KeepsState(connections[k].call) =>
        \E key \in cassette_states :
            key.path = connections[k].path /\ key.state = connections[k].state

(* In 'all', where the test has recorded the wipe is remembered.           *)
WipedWhereRecorded ==
    running # NoTest =>
        \A f \in recorded :
            /\ f.call \in Connecting(Calls) /\ f.call.test = running
            /\ f.path = CassettePath(f.call)
            /\ KeepsState(f.call) /\ mode = "all" =>
                 \E key \in cassette_states : key.path = f.path /\ states[key.state].wiped

StatesInv == PathsInv /\ KeysUnique /\ StateOfPath /\ WipedWhereRecorded

LEMMA StatesInit == Init => StatesInv
  BY PathsInit DEF Init, StatesInv, KeysUnique, StateOfPath, WipedWhereRecorded

(* What the invariant says of two connections with one path.               *)
LEMMA OnePathOneState ==
    ASSUME StatesInv, NEW j \in DOMAIN connections, NEW k \in DOMAIN connections,
           KeepsState(connections[j].call), KeepsState(connections[k].call),
           connections[j].path = connections[k].path
    PROVE  connections[j].state = connections[k].state
  BY DEF StatesInv, StateOfPath, KeysUnique

LEMMA StatesNext == StatesInv /\ [Next]_vars => StatesInv'
  <1>. SUFFICES ASSUME StatesInv, [Next]_vars
                PROVE  StatesInv'
    OBVIOUS
  <1>1. PathsInv /\ PathsInv'
    BY PathsNext DEF StatesInv
  <1>2. ASSUME NEW t \in Tests, StartTest(t)
        PROVE  StatesInv'
    BY <1>1, <1>2 DEF StartTest, StatesInv, KeysUnique, StateOfPath, WipedWhereRecorded
  <1>3. ASSUME EndTest
        PROVE  StatesInv'
    <2>1. cassette_states' = {} /\ connections' = <<>> /\ running' = NoTest
      BY <1>1, <1>3 DEF EndTest, KeysAfterRelease, PathsInv, TypeOK
    <2>2. QED  BY <1>1, <2>1 DEF StatesInv, KeysUnique, StateOfPath, WipedWhereRecorded
  <1>4. ASSUME NEW c \in Calls, Open(c)
        PROVE  StatesInv'
    <2>1. /\ \A i \in DOMAIN states : states'[i] = states[i]
          /\ running # NoTest /\ running = c.test
      BY <1>1, <1>4, OpenAdds
    <2>2. PICK id \in DOMAIN states' :
            /\ connections' = Append(connections,
                 [call |-> c, path |-> CassettePath(c), dialect |-> Dialect(c), state |-> id])
            /\ \/ /\ Known(c) = {} /\ id = Len(states) + 1 /\ KeepsState(c)
                  /\ cassette_states' = cassette_states \union
                        {[test |-> c.test, path |-> CassettePath(c), state |-> id]}
               \/ Known(c) = {} /\ cassette_states' = cassette_states /\ ~KeepsState(c)
               \/ /\ cassette_states' = cassette_states
                  /\ \E k \in Known(c) : k.state = id
      BY <1>1, <1>4, OpenAdds
    <2>. DEFINE new == [call |-> c, path |-> CassettePath(c), dialect |-> Dialect(c), state |-> id]
                key == [test |-> c.test, path |-> CassettePath(c), state |-> id]
    <2>3. new.call = c /\ new.path = CassettePath(c) /\ new.state = id
      OBVIOUS
    <2>4. key.path = CassettePath(c) /\ key.state = id
      OBVIOUS
    <2>. HIDE DEF new, key
    <2>5. UNCHANGED <<mode, running, recorded>>
      BY <1>4 DEF Open
    <2>6. \A i \in DOMAIN connections' :
            \/ i \in DOMAIN connections /\ connections'[i] = connections[i]
            \/ connections'[i] = new
      <3>1. /\ connections \in Seq(Connections)
            /\ connections' \in Seq(Connections)
        BY <1>1 DEF PathsInv
      <3>2. /\ Len(connections) \in Nat
            /\ DOMAIN connections = 1 .. Len(connections)
            /\ DOMAIN connections' = 1 .. Len(connections')
        BY <3>1, LenProperties
      <3>3. connections' = Append(connections, new)
        BY <2>2 DEF new
      <3>4. /\ Len(connections') = Len(connections) + 1
            /\ \A i \in 1 .. Len(connections) : connections'[i] = connections[i]
            /\ connections'[Len(connections) + 1] = new
        <4>1. c \in Connecting(Calls) /\ id \in Nat
          <5>1. states' \in Seq(CassetteStates)
            BY <1>1, <1>4, OpenAdds
          <5>2. QED  BY <1>4, <2>2, <5>1, LenProperties DEF Open, Connecting
        <4>2. new \in Connections
          BY <4>1 DEF new, Connections
        <4>3. QED  BY <3>1, <3>3, <4>2, AppendProperties
      <3>5. QED  BY <3>2, <3>4
    <2>7. cassette_states \subseteq cassette_states'
      BY <2>2
    <2>8. KeysUnique'
      <3>1. CASE cassette_states' = cassette_states
        BY <3>1 DEF StatesInv, KeysUnique
      <3>2. CASE Known(c) = {} /\ KeepsState(c) /\ cassette_states' = cassette_states \union {key}
        <4>1. \A k \in cassette_states : k.path # key.path
          BY <1>1, <2>1, <2>4, <3>2 DEF Known, PathsInv, TypeOK
        <4>2. QED  BY <3>2, <4>1 DEF StatesInv, KeysUnique
      <3>3. QED  BY <2>2, <3>1, <3>2 DEF key
    <2>9. StateOfPath'
      <3>1. SUFFICES ASSUME NEW i \in DOMAIN connections', KeepsState(connections'[i].call)
                     PROVE  \E k \in cassette_states' :
                                k.path = connections'[i].path /\ k.state = connections'[i].state
        BY DEF StateOfPath, KeepsState
      <3>2. CASE i \in DOMAIN connections /\ connections'[i] = connections[i]
        BY <2>7, <3>1, <3>2 DEF StatesInv, StateOfPath
      <3>3. CASE connections'[i] = new
        <4>1. KeepsState(c)
          BY <2>3, <3>1, <3>3
        <4>2. CASE cassette_states' = cassette_states \union {key}
          BY <2>3, <2>4, <3>3, <4>2
        <4>3. CASE \E k \in Known(c) : k.state = id
          BY <2>3, <2>7, <3>3, <4>3 DEF Known
        <4>4. QED  BY <2>2, <4>1, <4>2, <4>3 DEF key
      <3>4. QED  BY <2>6, <3>2, <3>3
    <2>10. WipedWhereRecorded'
      <3>1. SUFFICES ASSUME NEW f \in recorded
                     PROVE  /\ f.call \in Connecting(Calls) /\ f.call.test = running
                            /\ f.path = CassettePath(f.call)
                            /\ KeepsState(f.call) /\ mode = "all" =>
                                 \E k \in cassette_states' : k.path = f.path /\ states'[k.state].wiped
        BY <2>5 DEF WipedWhereRecorded
      <3>2. /\ f.call \in Connecting(Calls) /\ f.call.test = running
            /\ f.path = CassettePath(f.call)
            /\ KeepsState(f.call) /\ mode = "all" =>
                 \E k \in cassette_states : k.path = f.path /\ states[k.state].wiped
        BY <2>1, <3>1 DEF StatesInv, WipedWhereRecorded
      <3>3. \A k \in cassette_states : k.state \in DOMAIN states
        BY <1>1 DEF PathsInv, TypeOK
      <3>4. QED  BY <2>1, <2>7, <3>2, <3>3
    <2>11. QED  BY <1>1, <2>8, <2>9, <2>10 DEF StatesInv
  <1>5. ASSUME NEW k \in DOMAIN connections, Query(k)
        PROVE  StatesInv'
    <2>1. UNCHANGED <<mode, running, cassette_states, connections>>
      BY <1>5 DEF Query
    <2>2. /\ \A f \in recorded' \ recorded : /\ f.call = connections[k].call
                                            /\ f.path = connections[k].path
          /\ states'[connections[k].state].wiped = (mode = "all")
          /\ \A i \in DOMAIN states : i # connections[k].state => states'[i] = states[i]
      BY <1>1, <1>5, QueryDoes
    <2>3. /\ connections[k].call \in Connecting(Calls)
          /\ connections[k].path = CassettePath(connections[k].call)
          /\ connections[k].call.test = running /\ running # NoTest
      BY <1>1, <1>5, AnyConnection
    <2>4. KeysUnique' /\ StateOfPath'
      BY <2>1 DEF StatesInv, KeysUnique, StateOfPath
    <2>5. WipedWhereRecorded'
      <3>1. SUFFICES ASSUME NEW f \in recorded'
                     PROVE  /\ f.call \in Connecting(Calls) /\ f.call.test = running
                            /\ f.path = CassettePath(f.call)
                            /\ KeepsState(f.call) /\ mode = "all" =>
                                 \E key \in cassette_states : key.path = f.path /\ states'[key.state].wiped
        BY <2>1 DEF WipedWhereRecorded
      <3>2. CASE f \in recorded
        <4>1. /\ f.call \in Connecting(Calls) /\ f.call.test = running
              /\ f.path = CassettePath(f.call)
              /\ KeepsState(f.call) /\ mode = "all" =>
                   \E key \in cassette_states : key.path = f.path /\ states[key.state].wiped
          BY <2>3, <3>2 DEF StatesInv, WipedWhereRecorded
        <4>2. ASSUME KeepsState(f.call), mode = "all"
              PROVE  \E key \in cassette_states : key.path = f.path /\ states'[key.state].wiped
          <5>1. PICK key \in cassette_states : key.path = f.path /\ states[key.state].wiped
            BY <4>1, <4>2
          <5>2. key.state \in DOMAIN states
            BY <1>1 DEF PathsInv, TypeOK
          <5>3. states'[key.state].wiped
            BY <2>2, <4>2, <5>1, <5>2
          <5>4. QED  BY <5>1, <5>3
        <4>3. QED  BY <4>1, <4>2
      <3>3. CASE f \notin recorded
        <4>1. f.call = connections[k].call /\ f.path = connections[k].path
          BY <2>2, <3>1, <3>3
        <4>2. ASSUME KeepsState(f.call), mode = "all"
              PROVE  \E key \in cassette_states : key.path = f.path /\ states'[key.state].wiped
          <5>1. PICK key \in cassette_states :
                  key.path = connections[k].path /\ key.state = connections[k].state
            BY <1>5, <4>1, <4>2 DEF StatesInv, StateOfPath
          <5>2. QED  BY <2>2, <4>1, <4>2, <5>1
        <4>3. QED  BY <2>3, <4>1, <4>2
      <3>4. QED  BY <3>2, <3>3
    <2>6. QED  BY <1>1, <2>4, <2>5 DEF StatesInv
  <1>6. ASSUME UNCHANGED vars
        PROVE  StatesInv'
    BY <1>1, <1>6 DEF vars, StatesInv, KeysUnique, StateOfPath, WipedWhereRecorded
  <1>7. QED  BY <1>2, <1>3, <1>4, <1>5, <1>6 DEF Next, Finished

LEMMA StatesAlways == Spec => []StatesInv
  <1>1. QED  BY StatesInit, StatesNext, PTL DEF Spec

(* Two connections of a test to one database share cassette and state,     *)
(* however their arguments are passed, if those by position can be named.  *)
THEOREM PassedEitherWay ==
    ASSUME PositionsHaveNames(Calls)
    PROVE  Spec => []HoweverPassed
  <1>1. StatesInv => HoweverPassed
    <2>1. SUFFICES ASSUME StatesInv, NEW j \in DOMAIN connections, NEW k \in DOMAIN connections,
                          connections[j].call.style # "wrap", connections[k].call.style # "wrap",
                          Database(connections[j].call) = Database(connections[k].call)
                   PROVE  /\ connections[j].path = connections[k].path
                          /\ connections[j].state = connections[k].state
      BY DEF HoweverPassed
    <2>2. PathsInv
      BY <2>1 DEF StatesInv
    <2>3. /\ connections[j].call \in Connecting(Calls) /\ connections[k].call \in Connecting(Calls)
          /\ connections[j].path = CassettePath(connections[j].call)
          /\ connections[k].path = CassettePath(connections[k].call)
          /\ connections[j].call.test = connections[k].call.test
      BY <2>1, <2>2, AnyConnection
    <2>4. connections[j].path = connections[k].path
      BY <2>1, <2>3, PathOfDatabase
    <2>5. KeepsState(connections[j].call) /\ KeepsState(connections[k].call)
      BY <2>1 DEF KeepsState
    <2>6. QED  BY <2>1, <2>4, <2>5, OnePathOneState
  <1>2. QED  BY <1>1, StatesAlways, PTL

(* What a test has recorded stays until it ends, whatever its other        *)
(* connections ask: the one that wipes finds the recordings of a cassette  *)
(* in its own directory, so it is on that cassette, has its state, and the *)
(* state remembers that the test has wiped it before it recorded there.    *)
THEOREM RecordingsStay ==
    ASSUME PositionsHaveNames(Calls), SameKeysGiven(Calls), WrapsApart(Calls)
    PROVE  Spec => []RecordedStays
  <1>1. Init => RecordedStays
    BY DEF Init, RecordedStays
  <1>2. StatesInv /\ RecordedStays /\ [Next]_vars => RecordedStays'
    <2>. SUFFICES ASSUME StatesInv, RecordedStays, [Next]_vars
                  PROVE  RecordedStays'
      OBVIOUS
    <2>1. PathsInv
      BY DEF StatesInv
    <2>2. ASSUME NEW t \in Tests, StartTest(t)
          PROVE  RecordedStays'
      BY <2>2 DEF StartTest, RecordedStays
    <2>3. ASSUME EndTest
          PROVE  RecordedStays'
      BY <2>3 DEF EndTest, RecordedStays
    <2>4. ASSUME NEW c \in Calls, Open(c)
          PROVE  RecordedStays'
      BY <2>4 DEF Open, RecordedStays, KeepsState
    <2>5. ASSUME NEW k \in DOMAIN connections, Query(k)
          PROVE  RecordedStays'
      <3>1. running' = running
        BY <2>5 DEF Query
      <3>2. SUFFICES ASSUME running # NoTest, NEW f \in recorded', KeepsState(f.call)
                     PROVE  f \in files'
        BY <3>1 DEF RecordedStays, KeepsState
      <3>3. CASE f \notin recorded
        BY <2>1, <2>5, <3>2, <3>3, QueryDoes
      <3>4. CASE f \in recorded
        <4>1. f \in files
          BY <3>2, <3>4 DEF RecordedStays
        <4>2. SUFFICES ASSUME f \notin files'
                       PROVE  FALSE
          OBVIOUS
        <4>3. f \in Wiped(k)
          BY <2>1, <2>5, <4>1, <4>2, QueryDoes
        <4>4. /\ mode = "all" /\ ~states[connections[k].state].wiped
              /\ Within(f.path, connections[k].path)
          BY <4>3 DEF Wiped
        <4>5. /\ f.call \in Connecting(Calls) /\ f.call.test = running
              /\ f.path = CassettePath(f.call)
          BY <3>2, <3>4 DEF StatesInv, WipedWhereRecorded
        <4>6. PICK key \in cassette_states : key.path = f.path /\ states[key.state].wiped
          BY <3>2, <3>4, <4>4 DEF StatesInv, WipedWhereRecorded
        <4>7. /\ connections[k].call \in Connecting(Calls)
              /\ connections[k].path = CassettePath(connections[k].call)
              /\ connections[k].call.test = running
          BY <2>1, <2>5, AnyConnection
        <4>8. f.path = connections[k].path /\ KeepsState(connections[k].call)
          BY <3>2, <4>4, <4>5, <4>7, NestedInTest
        <4>9. PICK own \in cassette_states :
                own.path = connections[k].path /\ own.state = connections[k].state
          BY <2>5, <4>8 DEF StatesInv, StateOfPath
        <4>10. key = own
          BY <4>6, <4>8, <4>9 DEF StatesInv, KeysUnique
        <4>11. QED  BY <4>4, <4>6, <4>9, <4>10
      <3>5. QED  BY <3>3, <3>4
    <2>6. ASSUME UNCHANGED vars
          PROVE  RecordedStays'
      BY <2>6 DEF vars, RecordedStays, KeepsState
    <2>7. QED  BY <2>2, <2>3, <2>4, <2>5, <2>6 DEF Next, Finished
  <1>3. QED  BY <1>1, <1>2, StatesAlways, PTL DEF Spec
=============================================================================
