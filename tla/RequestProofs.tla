--------------------------- MODULE RequestProofs ----------------------------
(* Proofs about the serving of a request, for every program: the routing    *)
(* table and its reverse, the plan of a request and what runs of it, and    *)
(* the standard plugs, for every chain of them around one handler.          *)
EXTENDS RequestCycle, StandardPlugs, SequenceLemmas, FiniteSetTheorems

-----------------------------------------------------------------------------
(* The paths of a route are sequences of segments.                          *)

(* A piece of a sequence: its elements and its length.                      *)
LEMMA PieceIs ==
    ASSUME NEW S, NEW s \in Seq(S), NEW m \in Nat, NEW n \in 0..Len(s), m >= 1
    PROVE  /\ SubSeq(s, m, n) \in Seq(S)
           /\ Len(SubSeq(s, m, n)) = IF m <= n THEN n - m + 1 ELSE 0
           /\ \A i \in 1..Len(SubSeq(s, m, n)) : SubSeq(s, m, n)[i] = s[m + i - 1]
<1>1. m \in Int /\ n \in Int /\ \A i \in m..n : s[i] \in S
  OBVIOUS
<1>2. /\ SubSeq(s, m, n) \in Seq(S)
      /\ Len(SubSeq(s, m, n)) = IF m <= n THEN n - m + 1 ELSE 0
      /\ \A i \in 1..(n - m + 1) : SubSeq(s, m, n)[i] = s[m + i - 1]
  BY <1>1, SubSeqProperties
<1>3. 1..Len(SubSeq(s, m, n)) \subseteq 1..(n - m + 1)
  BY <1>1, <1>2
<1> QED BY <1>2, <1>3

(* A path without its leading slashes is a path.                            *)
LEMMA TrimStartIs ==
    ASSUME NEW S, NEW path \in Seq(S), path # <<>>
    PROVE  TrimStart(path) \in Seq(S)
<1>1. PICK n \in Nat : n = Len(path) /\ n >= 1 /\ DOMAIN path = 1..n
  OBVIOUS
<1>2. PICK T : T = {Len(path)} \cup {i \in DOMAIN path : NonEmpty(path[i])}
  OBVIOUS
<1>3. Min(T) \in T /\ T \subseteq 1..n
  <2>1. T \subseteq Nat /\ T # {} /\ T \subseteq 1..n
    BY <1>1, <1>2
  <2> QED BY <2>1, MinOf
<1>4. PICK m \in 1..n : m = Min(T)
  BY <1>3
<1>5. SubSeq(path, m, n) \in Seq(S)
  BY <1>1, PieceIs
<1> QED BY <1>1, <1>2, <1>4, <1>5 DEF TrimStart

(* A path without its trailing slashes is a path.                           *)
LEMMA TrimEndIs ==
    ASSUME NEW S, NEW path \in Seq(S), path # <<>>
    PROVE  TrimEnd(path) \in Seq(S)
<1>1. PICK n \in Nat : n = Len(path) /\ n >= 1 /\ DOMAIN path = 1..n
  OBVIOUS
<1>2. PICK T : T = {1} \cup {i \in DOMAIN path : NonEmpty(path[i])}
  OBVIOUS
<1>3. Max(T) \in T /\ T \subseteq 1..n
  <2>1. T \in SUBSET (1..n) /\ T # {}
    BY <1>1, <1>2
  <2> QED BY <2>1, MaxOf
<1>4. PICK m \in 1..n : m = Max(T)
  BY <1>3
<1>5. SubSeq(path, 1, m) \in Seq(S)
  BY <1>1, PieceIs
<1> QED BY <1>2, <1>4, <1>5 DEF TrimEnd

(* The matchit path of a path is a path.                                    *)
LEMMA ColonToBraceIs ==
    ASSUME NEW S, Empty \in S, NEW path \in Seq(S), path # <<>>
    PROVE  ColonToBrace(path) \in Seq(S)
<1>1. TrimStart(path) \in Seq(S) /\ <<Empty>> \in Seq(S)
  BY TrimStartIs
<1> QED BY <1>1 DEF ColonToBrace

(* A normalized prefix is a path.                                           *)
LEMMA NormalizePrefixIs ==
    ASSUME NEW S, Empty \in S, NEW path \in Seq(S), path # <<>>
    PROVE  NormalizePrefix(path) \in Seq(S) /\ NormalizePrefix(path) # <<>>
<1>1. PICK trimmed \in Seq(S) : trimmed = TrimEnd(path)
  BY TrimEndIs
<1>2. <<Empty>> \o trimmed \in Seq(S) /\ <<Empty>> \o trimmed # <<>>
  <2>1. <<Empty>> \in Seq(S) /\ Len(<<Empty>>) = 1
    OBVIOUS
  <2>2. <<Empty>> \o trimmed \in Seq(S) /\ Len(<<Empty>> \o trimmed) = 1 + Len(trimmed)
    BY <2>1, ConcatProperties
  <2> QED BY <2>2
<1>3. Len(trimmed) > 1 => trimmed # <<>>
  OBVIOUS
<1> QED BY <1>1, <1>2, <1>3 DEF NormalizePrefix, StartsWithSlash

(* The matchit path of a prefix and a path is a path.                       *)
LEMMA BuildMatchitPathIs ==
    ASSUME NEW S, Empty \in S, NEW prefix \in Seq(S), prefix # <<>>, NEW path \in Seq(S), path # <<>>
    PROVE  BuildMatchitPath(prefix, path) \in Seq(S)
<1>1. Tail(path) \in Seq(S)
  OBVIOUS
<1>2. /\ prefix \o path \in Seq(S) /\ prefix \o path # <<>>
      /\ prefix \o Tail(path) \in Seq(S) /\ prefix \o Tail(path) # <<>>
  BY <1>1, HeadTail
<1>3. /\ ColonToBrace(prefix) \in Seq(S) /\ ColonToBrace(prefix \o path) \in Seq(S)
      /\ ColonToBrace(prefix \o Tail(path)) \in Seq(S)
  <2>1. PICK p \in Seq(S), q \in Seq(S) : p = prefix \o path /\ q = prefix \o Tail(path)
    BY <1>2
  <2>2. ColonToBrace(prefix) \in Seq(S) /\ ColonToBrace(p) \in Seq(S) /\ ColonToBrace(q) \in Seq(S)
    BY <1>2, <2>1, ColonToBraceIs
  <2> QED BY <2>1, <2>2
<1> QED BY <1>3 DEF BuildMatchitPath

(* ParseSegments is the filter for the segments that are not empty.         *)
LEMMA ParseSegmentsIs ==
    ASSUME NEW S, NEW path \in Seq(S)
    PROVE  ParseSegments(path) = Those(path, S \ {Empty})
<1>1. PICK P, Q : P = {i \in DOMAIN path : NonEmpty(path[i])} /\ Q = {i \in DOMAIN path : path[i] \in S \ {Empty}}
  OBVIOUS
<1>2. \A i \in 1..Len(path) : i \in P <=> i \in Q
  BY <1>1 DEF NonEmpty
<1>3. Kept(path, P) = Kept(path, Q)
  BY <1>2, KeptSame
<1> QED BY <1>1, <1>3 DEF ParseSegments, Those

(* What is trimmed off a path is empty.                                     *)
LEMMA TrimStartSplits ==
    ASSUME NEW S, NEW path \in Seq(S), path # <<>>
    PROVE  /\ TrimStart(path) # <<>>
           /\ \E a \in Seq(S) : path = a \o TrimStart(path) /\ \A i \in 1..Len(a) : a[i] = Empty
<1>1. PICK n \in Nat : n = Len(path) /\ n >= 1 /\ DOMAIN path = 1..n
  OBVIOUS
<1>2. PICK T : T = {Len(path)} \cup {i \in DOMAIN path : NonEmpty(path[i])}
  OBVIOUS
<1>3. Min(T) \in 1..n /\ \A j \in T : Min(T) <= j
  <2>1. T \subseteq Nat /\ T # {} /\ T \subseteq 1..n
    BY <1>1, <1>2
  <2> QED BY <2>1, MinOf
<1>4. PICK m \in 1..n : m = Min(T)
  BY <1>3
<1>5. PICK k \in 0..(n - 1) : k = m - 1 /\ k + 1 = m
  <2>1. m - 1 \in 0..(n - 1) /\ (m - 1) + 1 = m
    OBVIOUS
  <2> QED BY <2>1
<1>6. SubSeq(path, 1, k) \o SubSeq(path, k + 1, n) = SubSeq(path, 1, n) /\ SubSeq(path, 1, n) = path
  <2>1. 1 \in 1..Len(path) + 1 /\ k \in (1 - 1)..Len(path) /\ n \in k..Len(path)
    BY <1>1, <1>5
  <2> QED BY <1>1, <2>1, ConcatAdjacentSubSeq, SubSeqFull
<1>7. PICK a \in Seq(S) : a = SubSeq(path, 1, k) /\ Len(a) = k /\ \A i \in 1..k : a[i] = path[i]
  <2>1. 1 \in Nat /\ k \in 0..Len(path) /\ 1 >= 1
    BY <1>1
  <2>2. /\ SubSeq(path, 1, k) \in Seq(S) /\ Len(SubSeq(path, 1, k)) = IF 1 <= k THEN k - 1 + 1 ELSE 0
        /\ \A i \in 1..Len(SubSeq(path, 1, k)) : SubSeq(path, 1, k)[i] = path[1 + i - 1]
    BY <2>1, PieceIs
  <2>3. Len(SubSeq(path, 1, k)) = k
    BY <2>2
  <2>4. \A i \in 1..k : SubSeq(path, 1, k)[i] = path[i]
    <3> TAKE i \in 1..k
    <3>1. 1 + i - 1 = i
      OBVIOUS
    <3> QED BY <2>2, <2>3, <3>1
  <2> QED BY <2>2, <2>3, <2>4
<1>8. TrimStart(path) = SubSeq(path, k + 1, n)
  BY <1>1, <1>2, <1>4, <1>5 DEF TrimStart
<1>9. \A i \in 1..k : path[i] = Empty
  <2> SUFFICES ASSUME NEW i \in 1..k, path[i] # Empty PROVE FALSE
    OBVIOUS
  <2>1. i \in T
    BY <1>1, <1>2, <1>5 DEF NonEmpty
  <2> QED BY <1>3, <1>4, <1>5, <2>1
<1>10. SubSeq(path, k + 1, n) # <<>>
  <2>1. m \in Nat /\ m >= 1 /\ n \in 0..Len(path)
    BY <1>1
  <2>2. Len(SubSeq(path, m, n)) = IF m <= n THEN n - m + 1 ELSE 0
    BY <2>1, PieceIs
  <2> QED BY <1>5, <2>2
<1> QED BY <1>6, <1>7, <1>8, <1>9, <1>10

(* What trimming the end takes away is slashes.                             *)
LEMMA TrimEndSplits ==
    ASSUME NEW S, NEW path \in Seq(S), path # <<>>
    PROVE  \E a \in Seq(S) : path = TrimEnd(path) \o a /\ \A i \in 1..Len(a) : a[i] = Empty
<1>1. PICK n \in Nat : n = Len(path) /\ n >= 1 /\ DOMAIN path = 1..n
  OBVIOUS
<1>2. PICK T : T = {1} \cup {i \in DOMAIN path : NonEmpty(path[i])}
  OBVIOUS
<1>3. Max(T) \in 1..n /\ \A j \in T : Max(T) >= j
  <2>1. T \in SUBSET (1..n) /\ T # {}
    BY <1>1, <1>2
  <2> QED BY <2>1, MaxOf
<1>4. PICK m \in 1..n : m = Max(T)
  BY <1>3
<1>6. SubSeq(path, 1, m) \o SubSeq(path, m + 1, n) = SubSeq(path, 1, n) /\ SubSeq(path, 1, n) = path
  <2>1. 1 \in 1..Len(path) + 1 /\ m \in (1 - 1)..Len(path) /\ n \in m..Len(path)
    BY <1>1
  <2> QED BY <1>1, <2>1, ConcatAdjacentSubSeq, SubSeqFull
<1>7. PICK a \in Seq(S) : a = SubSeq(path, m + 1, n) /\ \A i \in 1..Len(a) : m + i \in 1..n /\ a[i] = path[m + i]
  <2>1. m + 1 \in Nat /\ n \in 0..Len(path) /\ m + 1 >= 1
    BY <1>1
  <2>2. /\ SubSeq(path, m + 1, n) \in Seq(S)
        /\ Len(SubSeq(path, m + 1, n)) = IF m + 1 <= n THEN n - (m + 1) + 1 ELSE 0
        /\ \A i \in 1..Len(SubSeq(path, m + 1, n)) : SubSeq(path, m + 1, n)[i] = path[m + 1 + i - 1]
    BY <2>1, PieceIs
  <2>3. PICK a \in Seq(S) : a = SubSeq(path, m + 1, n)
    BY <2>2
  <2>4. \A i \in 1..Len(a) : m + i \in 1..n /\ m + 1 + i - 1 = m + i
    BY <2>2, <2>3
  <2> QED BY <2>2, <2>3, <2>4
<1>8. TrimEnd(path) = SubSeq(path, 1, m)
  BY <1>2, <1>4 DEF TrimEnd
<1>9. \A i \in 1..Len(a) : path[m + i] = Empty
  <2> SUFFICES ASSUME NEW i \in 1..Len(a), path[m + i] # Empty PROVE FALSE
    OBVIOUS
  <2>1. m + i \in T
    BY <1>1, <1>2, <1>7 DEF NonEmpty
  <2> QED BY <1>3, <1>4, <2>1
<1> QED BY <1>6, <1>7, <1>8, <1>9

(* The segments of a path stay the same however it is normalized.           *)
LEMMA ThoseTrimmed ==
    ASSUME NEW S, NEW path \in Seq(S), path # <<>>, NEW V, Empty \notin V
    PROVE  Those(TrimStart(path), V) = Those(path, V) /\ Those(TrimEnd(path), V) = Those(path, V)
<1>0. \A s, t \in Seq(S) : Those(s \o t, V) = Those(s, V) \o Those(t, V)
  BY ThoseOfParts
<1>1. PICK a \in Seq(S) : path = a \o TrimStart(path) /\ \A i \in 1..Len(a) : a[i] = Empty
  BY TrimStartSplits
<1>2. PICK b \in Seq(S) : path = TrimEnd(path) \o b /\ \A i \in 1..Len(b) : b[i] = Empty
  BY TrimEndSplits
<1>3. PICK p \in Seq(S), q \in Seq(S) : p = TrimStart(path) /\ q = TrimEnd(path)
  <2>1. TrimStart(path) \in Seq(S) /\ TrimEnd(path) \in Seq(S)
    BY TrimStartIs, TrimEndIs
  <2> QED BY <2>1
<1>4. Those(a, V) = <<>> /\ Those(b, V) = <<>>
  BY <1>1, <1>2, ThoseNowhere
<1>5. Those(a \o p, V) = Those(a, V) \o Those(p, V) /\ Those(q \o b, V) = Those(q, V) \o Those(b, V)
  BY <1>0, Zenon
<1>6. <<>> \o Those(p, V) = Those(p, V) /\ Those(q, V) \o <<>> = Those(q, V)
  <2>1. PICK k \in Seq(S), l \in Seq(S) : k = Those(p, V) /\ l = Those(q, V)
    <3>1. Those(p, V) \in Seq(S) /\ Those(q, V) \in Seq(S)
      BY ThoseIs
    <3> QED BY <3>1
  <2> QED BY <2>1, ConcatEmptySeq
<1> QED BY <1>1, <1>2, <1>3, <1>4, <1>5, <1>6

(* A slash in front adds no segment.                                        *)
LEMMA ThoseSlashed ==
    ASSUME NEW S, Empty \in S, NEW path \in Seq(S), NEW V, Empty \notin V
    PROVE  Those(<<Empty>> \o path, V) = Those(path, V)
<1>1. PICK e \in Seq(S) : e = <<Empty>>
  <2>1. <<Empty>> \in Seq(S)
    OBVIOUS
  <2> QED BY <2>1
<1>2. Those(e, V) = <<>>
  <2>1. \A i \in 1..Len(e) : e[i] \notin V
    BY <1>1
  <2> QED BY <2>1, ThoseNowhere
<1>3. Those(e \o path, V) = Those(e, V) \o Those(path, V)
  BY ThoseOfParts
<1>4. <<>> \o Those(path, V) = Those(path, V)
  <2>1. Those(path, V) \in Seq(S)
    BY ThoseIs
  <2> QED BY <2>1, ConcatEmptySeq
<1> QED BY <1>1, <1>2, <1>3, <1>4

(* Neither normalizing a prefix nor building a matchit path adds or loses   *)
(* a segment.                                                               *)
LEMMA ThoseNormalized ==
    ASSUME NEW S, Empty \in S, NEW path \in Seq(S), path # <<>>, NEW V, Empty \notin V
    PROVE  /\ Those(NormalizePrefix(path), V) = Those(path, V)
           /\ Those(ColonToBrace(path), V) = Those(path, V)
<1>1. PICK p \in Seq(S), q \in Seq(S) : p = TrimStart(path) /\ q = TrimEnd(path)
  <2>1. TrimStart(path) \in Seq(S) /\ TrimEnd(path) \in Seq(S)
    BY TrimStartIs, TrimEndIs
  <2> QED BY <2>1
<1>2. Those(<<Empty>> \o p, V) = Those(p, V) /\ Those(<<Empty>> \o q, V) = Those(q, V)
  BY ThoseSlashed
<1>3. Those(p, V) = Those(path, V) /\ Those(q, V) = Those(path, V)
  BY <1>1, ThoseTrimmed
<1> QED BY <1>1, <1>2, <1>3 DEF NormalizePrefix, ColonToBrace

(* A route's matchit path has the segments of its prefix and its path.      *)
LEMMA ThoseBuilt ==
    ASSUME NEW S, Empty \in S, NEW prefix \in Seq(S), prefix # <<>>, NEW path \in Seq(S), path # <<>>,
           NEW V, Empty \notin V
    PROVE  Those(BuildMatchitPath(prefix, path), V) = Those(prefix, V) \o Those(path, V)
<1>0. \A s, t \in Seq(S) : Those(s \o t, V) = Those(s, V) \o Those(t, V)
  BY ThoseOfParts, SMTT(30)
<1>1. PICK k \in Seq(S), l \in Seq(S) : k = Those(prefix, V) /\ l = Those(path, V)
  <2>1. Those(prefix, V) \in Seq(S) /\ Those(path, V) \in Seq(S)
    BY ThoseIs
  <2> QED BY <2>1
<1>2. CASE path \in {Root, <<Empty>>}
  <2>1. \A i \in 1..Len(path) : path[i] \notin V
    BY <1>2 DEF Root
  <2>2. l = <<>>
    BY <1>1, <2>1, ThoseNowhere
  <2>3. BuildMatchitPath(prefix, path) = ColonToBrace(prefix)
    BY <1>2 DEF BuildMatchitPath
  <2>4. Those(ColonToBrace(prefix), V) = k
    BY <1>1, ThoseNormalized
  <2>5. k \o <<>> = k
    BY ConcatEmptySeq
  <2> QED BY <1>1, <2>2, <2>3, <2>4, <2>5
<1>3. CASE path \notin {Root, <<Empty>>} /\ StartsWithSlash(path)
  <2>1. PICK t \in Seq(S) : t = Tail(path) /\ path = <<Empty>> \o t
    <3>1. Head(path) = Empty
      BY <1>3 DEF StartsWithSlash
    <3>2. Tail(path) \in Seq(S) /\ path = <<Head(path)>> \o Tail(path)
      OBVIOUS
    <3> QED BY <3>1, <3>2
  <2>2. PICK x \in Seq(S) : x = prefix \o t /\ x # <<>>
    <3>1. prefix \o t \in Seq(S) /\ prefix \o t # <<>>
      BY HeadTail
    <3> QED BY <3>1
  <2>3. BuildMatchitPath(prefix, path) = ColonToBrace(x)
    BY <1>3, <2>1, <2>2 DEF BuildMatchitPath
  <2>4. Those(ColonToBrace(x), V) = Those(x, V)
    BY <2>2, ThoseNormalized
  <2>5. Those(prefix \o t, V) = k \o Those(t, V)
    BY <1>0, <1>1, Zenon
  <2>6. Those(<<Empty>> \o t, V) = Those(t, V)
    BY ThoseSlashed
  <2> QED BY <1>1, <2>1, <2>2, <2>3, <2>4, <2>5, <2>6
<1>4. CASE path \notin {Root, <<Empty>>} /\ ~StartsWithSlash(path)
  <2>2. PICK x \in Seq(S) : x = prefix \o path /\ x # <<>>
    <3>1. prefix \o path \in Seq(S) /\ prefix \o path # <<>>
      BY HeadTail
    <3> QED BY <3>1
  <2>3. BuildMatchitPath(prefix, path) = ColonToBrace(x)
    BY <1>4, <2>2 DEF BuildMatchitPath
  <2>4. Those(ColonToBrace(x), V) = Those(x, V)
    BY <2>2, ThoseNormalized
  <2>5. Those(prefix \o path, V) = k \o l
    BY <1>0, <1>1, Zenon
  <2> QED BY <1>1, <2>2, <2>3, <2>4, <2>5
<1> QED BY <1>2, <1>3, <1>4

(* A matchit path begins with a slash.                                      *)
Slashes(p) == Len(p) > 1 /\ p[1] = Empty

(* A matchit path starts with its slash.                                    *)
LEMMA ColonToBraceSlashes ==
    ASSUME NEW S, Empty \in S, NEW path \in Seq(S), path # <<>>
    PROVE  Slashes(ColonToBrace(path))
<1>1. PICK t \in Seq(S) : t = TrimStart(path) /\ Len(t) >= 1
  <2>1. TrimStart(path) \in Seq(S) /\ TrimStart(path) # <<>>
    BY TrimStartIs, TrimStartSplits
  <2> QED BY <2>1
<1>2. PICK e \in Seq(S) : e = <<Empty>> /\ Len(e) = 1 /\ e[1] = Empty
  <2>1. <<Empty>> \in Seq(S)
    OBVIOUS
  <2> QED BY <2>1
<1>3. Len(e \o t) = Len(e) + Len(t) /\ (e \o t)[1] = e[1]
  BY <1>1, <1>2, ConcatProperties
<1> QED BY <1>1, <1>2, <1>3 DEF ColonToBrace, Slashes

(* So does that of a prefix and a path.                                     *)
LEMMA BuildMatchitPathSlashes ==
    ASSUME NEW S, Empty \in S, NEW prefix \in Seq(S), prefix # <<>>, NEW path \in Seq(S), path # <<>>
    PROVE  Slashes(BuildMatchitPath(prefix, path))
<1>1. Tail(path) \in Seq(S)
  OBVIOUS
<1>2. PICK p \in Seq(S), q \in Seq(S) :
        p = prefix \o path /\ q = prefix \o Tail(path) /\ p # <<>> /\ q # <<>>
  <2>1. /\ prefix \o path \in Seq(S) /\ prefix \o path # <<>>
        /\ prefix \o Tail(path) \in Seq(S) /\ prefix \o Tail(path) # <<>>
    BY <1>1, HeadTail
  <2> QED BY <2>1
<1>3. Slashes(ColonToBrace(prefix)) /\ Slashes(ColonToBrace(p)) /\ Slashes(ColonToBrace(q))
  BY <1>2, ColonToBraceSlashes
<1> QED BY <1>2, <1>3 DEF BuildMatchitPath

-----------------------------------------------------------------------------
(* What the matchit path of neat paths looks like.                          *)

(* A matchit path with a trailing or a doubled slash.                       *)
Slashed(path) == path # Root /\ \E i \in 2..Len(path) : path[i] = Empty

(* Empty segments come first.                                               *)
LeadingOnly(path) == \A i, j \in 1..Len(path) : i < j /\ path[i] # Empty => path[j] # Empty

(* Where they do, they are what ColonToBrace makes one slash of.            *)
LEMMA LeadingCollapse ==
    ASSUME NEW S, NEW path \in Seq(S), path # <<>>, LeadingOnly(path)
    PROVE  ~Slashed(ColonToBrace(path))
<1>1. PICK n \in Nat : n = Len(path) /\ n >= 1 /\ DOMAIN path = 1..n
  OBVIOUS
<1>2. PICK T : T = {n} \cup {i \in 1..n : path[i] # Empty}
  OBVIOUS
<1>3. PICK m \in 1..n : m = Min(T) /\ m \in T
  <2>1. T \subseteq Nat /\ T # {} /\ T \subseteq 1..n
    BY <1>1, <1>2
  <2>2. Min(T) \in T
    BY <2>1, MinOf
  <2> QED BY <2>1, <2>2
<1>4. TrimStart(path) = SubSeq(path, m, n)
  <2>1. T = {Len(path)} \cup {i \in DOMAIN path : NonEmpty(path[i])}
    BY <1>1, <1>2 DEF NonEmpty
  <2> QED BY <1>1, <1>3, <2>1 DEF TrimStart
<1>5. PICK t \in Seq(S) : /\ t = TrimStart(path) /\ Len(t) = n - m + 1
                         /\ \A i \in 1..(n - m + 1) : t[i] = path[m + i - 1]
  <2>1. SubSeq(path, m, n) \in Seq(S) /\ Len(SubSeq(path, m, n)) = n - m + 1
    BY <1>1, PieceIs
  <2>2. \A i \in 1..(n - m + 1) : SubSeq(path, m, n)[i] = path[m + i - 1]
    BY <1>1, PieceIs
  <2> QED BY <1>4, <2>1, <2>2
<1>6. PICK b : b = ColonToBrace(path) /\ b = <<Empty>> \o t
  BY <1>5 DEF ColonToBrace
<1>7. Len(b) = n - m + 2 /\ b[1] = Empty /\ \A i \in 2..(n - m + 2) : b[i] = path[m + i - 2]
  BY <1>3, <1>5, <1>6, SMTT(30)
<1>8. CASE path[m] # Empty
  <2>1. \A i \in 2..Len(b) : b[i] # Empty
    <3> TAKE i \in 2..Len(b)
    <3>1. m + i - 2 \in 1..n /\ m <= m + i - 2 /\ b[i] = path[m + i - 2]
      BY <1>3, <1>7, SMTT(30)
    <3> QED BY <1>1, <1>3, <1>8, <3>1 DEF LeadingOnly
  <2> QED BY <1>6, <2>1 DEF Slashed
<1>9. CASE path[m] = Empty
  <2>1. m = n
    BY <1>2, <1>3, <1>9
  <2>2. t = <<Empty>>
    <3>1. Len(t) = 1 /\ t[1] = Empty
      BY <1>3, <1>5, <1>9, <2>1
    <3> QED BY <1>5, <3>1
  <2>3. b = Root
    <3>1. PICK e : e = Empty
      OBVIOUS
    <3>2. b \in Seq({e}) /\ Len(b) = 2 /\ b[1] = e /\ b[2] = e
      BY <1>6, <2>2, <3>1
    <3>3. b = <<e, e>>
      BY <3>2
    <3> QED BY <3>1, <3>3, Zenon DEF Root
  <2> QED BY <1>6, <2>3 DEF Slashed
<1> QED BY <1>8, <1>9

(* A neat path, and the root, have their empty segments first.              *)
LEMMA NeatLeads ==
    ASSUME NEW S, NEW path \in Seq(S), Neat(path) \/ path = Root
    PROVE  LeadingOnly(path)
<1>1. CASE Neat(path)
  <2>1. Len(path) \in Nat
    OBVIOUS
  <2>2. ASSUME NEW i \in 1..Len(path), NEW j \in 1..Len(path), i < j PROVE path[j] # Empty
    <3>1. j \in 2..Len(path)
      BY <2>1, <2>2
    <3> QED BY <1>1, <3>1 DEF Neat, NonEmpty
  <2> QED BY <2>2 DEF LeadingOnly
<1>2. CASE path = Root
  BY <1>2 DEF LeadingOnly, Root
<1> QED BY <1>1, <1>2

(* So does a normalized prefix, whatever slashes it ended with.             *)
LEMMA NormalizedLeads ==
    ASSUME NEW S, Empty \in S, NEW prefix \in Seq(S), prefix # <<>>, Neat(TrimEnd(prefix))
    PROVE  LeadingOnly(NormalizePrefix(prefix))
<1>1. PICK t \in Seq(S) : t = TrimEnd(prefix)
  BY TrimEndIs
<1>2. CASE StartsWithSlash(t)
  BY <1>1, <1>2, NeatLeads DEF NormalizePrefix
<1>3. CASE ~StartsWithSlash(t)
  <2>1. PICK b : b = <<Empty>> \o t /\ b = NormalizePrefix(prefix)
    BY <1>1, <1>3 DEF NormalizePrefix
  <2>2. PICK n \in Nat : n = Len(t)
    OBVIOUS
  <2>3. Len(b) = n + 1 /\ b[1] = Empty /\ \A i \in 2..(n + 1) : b[i] = t[i - 1]
    BY <1>1, <2>1, <2>2
  <2>4. ASSUME NEW i \in 1..Len(b), NEW j \in 1..Len(b), i < j, b[i] # Empty PROVE b[j] # Empty
    <3>1. i # 1 /\ j \in 3..(n + 1)
      BY <2>2, <2>3, <2>4
    <3>2. j - 1 \in 2..Len(t) /\ b[j] = t[j - 1]
      BY <2>2, <2>3, <3>1
    <3> QED BY <1>1, <3>2 DEF Neat, NonEmpty
  <2> QED BY <2>1, <2>4 DEF LeadingOnly
<1> QED BY <1>2, <1>3

(* Segments that are not empty may follow.                                  *)
LEMMA LeadingGrows ==
    ASSUME NEW S, NEW path \in Seq(S), LeadingOnly(path),
           NEW more \in Seq(S), \A i \in 1..Len(more) : more[i] # Empty
    PROVE  LeadingOnly(path \o more)
<1>1. PICK k \in Nat, l \in Nat : k = Len(path) /\ l = Len(more)
  OBVIOUS
<1>2. PICK b : b = path \o more
  OBVIOUS
<1>3. /\ Len(b) = k + l
      /\ \A i \in 1..k : b[i] = path[i]
      /\ \A i \in (k + 1)..(k + l) : b[i] = more[i - k]
  BY <1>1, <1>2
<1>4. ASSUME NEW i \in 1..Len(b), NEW j \in 1..Len(b), i < j, b[i] # Empty PROVE b[j] # Empty
  <2>1. CASE j <= k
    <3>1. i \in 1..k /\ j \in 1..k /\ b[i] = path[i] /\ b[j] = path[j]
      BY <1>1, <1>3, <1>4, <2>1
    <3> QED BY <1>1, <1>4, <3>1 DEF LeadingOnly
  <2>2. CASE j > k
    <3>1. j - k \in 1..Len(more) /\ b[j] = more[j - k]
      BY <1>1, <1>3, <1>4, <2>2
    <3> QED BY <3>1
  <2> QED BY <1>1, <1>3, <1>4, <2>1, <2>2
<1> QED BY <1>2, <1>4 DEF LeadingOnly

(* A neat path behind a normalized prefix gives a matchit path without a    *)
(* trailing or a doubled slash.                                             *)
LEMMA BuiltNeatly ==
    ASSUME NEW S, Empty \in S, NEW prefix \in Seq(S), prefix # <<>>, LeadingOnly(prefix),
           NEW path \in Seq(S), path # <<>>, Neat(path) \/ path = Root
    PROVE  ~Slashed(BuildMatchitPath(prefix, path))
<1>1. CASE path \in {Root, <<Empty>>}
  <2>1. BuildMatchitPath(prefix, path) = ColonToBrace(prefix)
    BY <1>1 DEF BuildMatchitPath
  <2> QED BY <2>1, LeadingCollapse
<1>2. ASSUME path \notin {Root, <<Empty>>}, NEW t \in Seq(S), \A i \in 1..Len(t) : t[i] # Empty,
             BuildMatchitPath(prefix, path) = ColonToBrace(prefix \o t)
      PROVE  ~Slashed(BuildMatchitPath(prefix, path))
  <2>1. PICK x \in Seq(S) : x = prefix \o t /\ x # <<>>
    BY HeadTail
  <2>2. LeadingOnly(x)
    BY <1>2, <2>1, LeadingGrows
  <2> QED BY <1>2, <2>1, <2>2, LeadingCollapse
<1>3. CASE path \notin {Root, <<Empty>>} /\ StartsWithSlash(path)
  <2>1. PICK t \in Seq(S) : t = Tail(path) /\ Len(t) = Len(path) - 1 /\ \A i \in 1..Len(t) : t[i] = path[i + 1]
    BY HeadTailProperties
  <2>2. \A i \in 1..Len(t) : t[i] # Empty
    <3> TAKE i \in 1..Len(t)
    <3>1. i + 1 \in 2..Len(path)
      BY <2>1
    <3> QED BY <1>3, <2>1, <3>1 DEF Neat, NonEmpty
  <2>3. BuildMatchitPath(prefix, path) = ColonToBrace(prefix \o t)
    BY <1>3, <2>1 DEF BuildMatchitPath
  <2> QED BY <1>2, <1>3, <2>2, <2>3
<1>4. CASE path \notin {Root, <<Empty>>} /\ ~StartsWithSlash(path)
  <2>1. PICK n \in Nat : n = Len(path) /\ n >= 1
    OBVIOUS
  <2>2. path[1] # Empty
    <3>1. CASE n > 1
      BY <1>4, <2>1, <3>1 DEF StartsWithSlash
    <3>2. CASE n = 1
      <4>1. ASSUME path[1] = Empty PROVE path = <<Empty>>
        <5>1. PICK e : e = Empty
          OBVIOUS
        <5>2. Len(path) = 1 /\ path[1] = e
          BY <2>1, <3>2, <4>1, <5>1
        <5>3. path = <<e>>
          BY <5>2
        <5> QED BY <5>1, <5>3
      <4> QED BY <1>4, <4>1
    <3> QED BY <2>1, <3>1, <3>2
  <2>3. \A i \in 1..Len(path) : path[i] # Empty
    <3> TAKE i \in 1..Len(path)
    <3>1. i = 1 \/ i \in 2..Len(path)
      BY <2>1
    <3> QED BY <1>4, <2>2, <3>1 DEF Neat, NonEmpty
  <2>4. BuildMatchitPath(prefix, path) = ColonToBrace(prefix \o path)
    BY <1>4 DEF BuildMatchitPath
  <2> QED BY <1>2, <1>4, <2>3, <2>4
<1> QED BY <1>1, <1>3, <1>4

-----------------------------------------------------------------------------
(* What the pipelines of a route run, plug by plug.                         *)

FlattenedBy(f, ss) ==
    /\ FlattenSeq(ss) = f[Len(ss)]
    /\ f[0] = <<>>
    /\ \A i \in 1..Len(ss) : f[i] = f[i - 1] \o ss[i]

(* The steps of FlattenSeq, under one name.                                 *)
LEMMA FlattenHasSteps ==
    ASSUME NEW S, NEW ss \in Seq(Seq(S))
    PROVE  \E f \in [0..Len(ss) -> Seq(S)] : FlattenedBy(f, ss)
BY FlattenSteps DEF FlattenedBy

(* What a list of pipelines runs is a list.                                 *)
LEMMA FlattenIs ==
    ASSUME NEW S, NEW ss \in Seq(Seq(S))
    PROVE  FlattenSeq(ss) \in Seq(S) /\ (ss = <<>> => FlattenSeq(ss) = <<>>)
<1>1. PICK f \in [0..Len(ss) -> Seq(S)] : FlattenedBy(f, ss)
  BY FlattenHasSteps
<1>2. Len(ss) \in 0..Len(ss) /\ (ss = <<>> => Len(ss) = 0)
  OBVIOUS
<1> QED BY <1>1, <1>2 DEF FlattenedBy

(* The first pipeline runs first, then the others.                          *)
LEMMA FlattenHead ==
    ASSUME NEW S, NEW ss \in Seq(Seq(S)), ss # <<>>
    PROVE  FlattenSeq(ss) = Head(ss) \o FlattenSeq(Tail(ss))
<1>0. \A a, b, c \in Seq(S) : (a \o b) \o c = a \o (b \o c)
  <2> TAKE a, b, c \in Seq(S)
  <2>1. a \in Seq(S) /\ b \in Seq(S) /\ c \in Seq(S)
    OBVIOUS
  <2> QED BY ConcatAssociative, SMTT(30)
<1>1. PICK n \in Nat, h \in Seq(S), tt \in Seq(Seq(S)) :
        /\ n = Len(tt) /\ Len(ss) = n + 1 /\ h = ss[1] /\ h = Head(ss) /\ tt = Tail(ss)
        /\ \A i \in 1..n : tt[i] = ss[i + 1]
  <2>1. Head(ss) \in Seq(S) /\ Tail(ss) \in Seq(Seq(S)) /\ Len(Tail(ss)) \in Nat
    <3>1. \A D : ss \in Seq(D) => Head(ss) \in D /\ Tail(ss) \in Seq(D) /\ Len(Tail(ss)) \in Nat
      OBVIOUS
    <3> QED BY <3>1, Zenon
  <2>2. /\ Len(ss) = Len(Tail(ss)) + 1 /\ Head(ss) = ss[1]
        /\ \A i \in 1..Len(Tail(ss)) : Tail(ss)[i] = ss[i + 1]
    OBVIOUS
  <2> QED BY <2>1, <2>2
<1>2. PICK f \in [0..Len(ss) -> Seq(S)] : FlattenedBy(f, ss)
  BY FlattenHasSteps
<1>3. PICK g \in [0..Len(tt) -> Seq(S)] : FlattenedBy(g, tt)
  BY FlattenHasSteps
<1>4. \A k \in 0..n : f[k + 1] = h \o g[k]
  <2> DEFINE T == {k \in 0..n : f[k + 1] = h \o g[k]}
  <2>1. 0 \in T
    <3>1. 1 \in 1..Len(ss) /\ 0 + 1 = 1 /\ 1 - 1 = 0
      BY <1>1
    <3>2. f[1] = f[0] \o ss[1] /\ f[0] = <<>> /\ g[0] = <<>>
      BY <1>2, <1>3, <3>1 DEF FlattenedBy
    <3>3. <<>> \o h = h /\ h \o <<>> = h
      OBVIOUS
    <3> QED BY <1>1, <3>1, <3>2, <3>3
  <2>2. ASSUME NEW k \in 0..(n - 1), k \in T PROVE k + 1 \in T
    <3>1. /\ k + 1 \in 1..n /\ k + 1 \in 0..n /\ (k + 1) - 1 = k /\ k \in 0..n
          /\ k + 2 \in 1..Len(ss) /\ (k + 1) + 1 = k + 2 /\ (k + 2) - 1 = k + 1
      BY <1>1
    <3>2. f[k + 2] = f[k + 1] \o ss[k + 2]
      BY <1>2, <3>1 DEF FlattenedBy
    <3>3. g[k + 1] = g[k] \o tt[k + 1]
      BY <1>1, <1>3, <3>1 DEF FlattenedBy
    <3>4. PICK a \in Seq(S), b \in Seq(S) : a = g[k] /\ b = tt[k + 1] /\ b = ss[k + 2]
      <4>1. g[k] \in Seq(S) /\ tt[k + 1] = ss[k + 2]
        BY <1>1, <3>1
      <4>2. \A D : tt \in Seq(D) => \A i \in 1..Len(tt) : tt[i] \in D
        OBVIOUS
      <4>3. tt[k + 1] \in Seq(S)
        BY <1>1, <3>1, <4>2, Zenon
      <4> QED BY <4>1, <4>3
    <3>5. (h \o a) \o b = h \o (a \o b)
      BY <1>0, Zenon
    <3> QED BY <2>2, <3>1, <3>2, <3>3, <3>4, <3>5
  <2> HIDE DEF T
  <2>3. \A k \in 0..n : k \in T
    BY <2>1, <2>2, UpTo
  <2> QED BY <2>3 DEF T
<1>5. f[n + 1] = h \o g[n]
  BY <1>4
<1> QED BY <1>1, <1>2, <1>3, <1>5 DEF FlattenedBy

(* Taking the first plug off the first pipeline takes it off the whole.     *)
LEMMA FlattenPlug ==
    ASSUME NEW S, NEW ss \in Seq(Seq(S)), ss # <<>>, Head(ss) # <<>>
    PROVE  /\ Head(Head(ss)) \in S /\ <<Tail(Head(ss))>> \o Tail(ss) \in Seq(Seq(S))
           /\ FlattenSeq(ss) = <<Head(Head(ss))>> \o FlattenSeq(<<Tail(Head(ss))>> \o Tail(ss))
<1>1. PICK h \in Seq(S), tt \in Seq(Seq(S)) : h = Head(ss) /\ tt = Tail(ss)
  <2>1. \A D : ss \in Seq(D) => Head(ss) \in D /\ Tail(ss) \in Seq(D)
    OBVIOUS
  <2> QED BY <2>1, Zenon
<1>2. PICK x \in S, u \in Seq(S) : x = Head(h) /\ u = Tail(h) /\ h = <<x>> \o u
  <2>1. Head(h) \in S /\ Tail(h) \in Seq(S)
    BY <1>1
  <2>2. h = <<Head(h)>> \o Tail(h)
    BY <1>1
  <2> QED BY <2>1, <2>2
<1>3. <<u>> \o tt \in Seq(Seq(S)) /\ <<u>> \o tt # <<>>
      /\ Head(<<u>> \o tt) = u /\ Tail(<<u>> \o tt) = tt
  <2>1. \A D : u \in D /\ tt \in Seq(D) =>
           /\ <<u>> \o tt \in Seq(D) /\ <<u>> \o tt # <<>>
           /\ Head(<<u>> \o tt) = u /\ Tail(<<u>> \o tt) = tt
    <3> TAKE D
    <3> HAVE u \in D /\ tt \in Seq(D)
    <3>1. <<u>> \in Seq(D) /\ <<u>> # <<>> /\ Head(<<u>>) = u /\ Tail(<<u>>) = <<>> /\ <<>> \o tt = tt
      OBVIOUS
    <3>2. PICK o \in Seq(D) : o = <<u>>
      BY <3>1
    <3>3. /\ o \o tt \in Seq(D) /\ o \o tt # <<>>
          /\ Head(o \o tt) = Head(o) /\ Tail(o \o tt) = Tail(o) \o tt
      BY <3>1, <3>2, HeadTail
    <3> QED BY <3>1, <3>2, <3>3
  <2> QED BY <2>1, Zenon
<1>4. PICK rr \in Seq(Seq(S)) : rr = <<u>> \o tt
  BY <1>3
<1>5. FlattenSeq(ss) = h \o FlattenSeq(tt) /\ FlattenSeq(rr) = u \o FlattenSeq(tt)
  BY <1>1, <1>3, <1>4, FlattenHead
<1>6. PICK w \in Seq(S) : w = FlattenSeq(tt)
  BY FlattenIs
<1>7. (<<x>> \o u) \o w = <<x>> \o (u \o w)
  <2>1. <<x>> \in Seq(S)
    OBVIOUS
  <2> QED BY <2>1, ConcatAssociative, SMTT(30)
<1> QED BY <1>1, <1>2, <1>3, <1>4, <1>5, <1>6, <1>7

-----------------------------------------------------------------------------
(* The match that resolve returns exists: on a path, one of two patterns    *)
(* beats the other unless they have the same shape.                         *)

(* A finite set under a total and transitive relation has a winner.         *)
LEMMA WinnerExists ==
    ASSUME NEW n \in Nat, NEW P \in SUBSET (1..n), P # {}, NEW R,
           \A i, j \in P : i # j => <<i, j>> \in R \/ <<j, i>> \in R,
           \A i, j, k \in P : <<i, j>> \in R /\ <<j, k>> \in R => <<i, k>> \in R
    PROVE  \E w \in P : \A j \in P \ {w} : <<w, j>> \in R
<1> DEFINE Wins(w, k) == \A j \in P \cap 1..k : j # w => <<w, j>> \in R
           T == {k \in 0..n : P \cap 1..k # {} => \E w \in P \cap 1..k : Wins(w, k)}
<1>1. 0 \in T
  OBVIOUS
<1>2. ASSUME NEW k \in 0..(n - 1), k \in T PROVE k + 1 \in T
  <2>1. k + 1 \in 0..n /\ P \cap 1..k \subseteq P \cap 1..(k + 1)
        /\ \A j \in P \cap 1..(k + 1) : j \in P \cap 1..k \/ j = k + 1
    OBVIOUS
  <2>2. CASE k + 1 \notin P
    <3>1. P \cap 1..(k + 1) = P \cap 1..k
      BY <2>1, <2>2
    <3> QED BY <1>2, <2>1, <3>1
  <2>3. CASE k + 1 \in P /\ P \cap 1..k = {}
    <3>1. k + 1 \in P \cap 1..(k + 1) /\ Wins(k + 1, k + 1)
      BY <2>1, <2>3
    <3> QED BY <2>1, <3>1
  <2>4. CASE k + 1 \in P /\ P \cap 1..k # {}
    <3>1. PICK w \in P \cap 1..k : Wins(w, k)
      BY <1>2, <2>4
    <3>2. w \in P /\ w # k + 1 /\ k + 1 \in P \cap 1..(k + 1) /\ w \in P \cap 1..(k + 1)
      BY <2>1, <2>4
    <3>3. CASE <<w, k + 1>> \in R
      <4>1. Wins(w, k + 1)
        BY <2>1, <3>1, <3>3
      <4> QED BY <2>1, <3>2, <4>1
    <3>4. CASE <<k + 1, w>> \in R
      <4>1. ASSUME NEW j \in P \cap 1..(k + 1), j # k + 1 PROVE <<k + 1, j>> \in R
        <5>1. j \in P \cap 1..k
          BY <2>1, <4>1
        <5>2. CASE j = w
          BY <3>4, <5>2
        <5>3. CASE j # w
          <6>1. <<w, j>> \in R
            BY <3>1, <5>1, <5>3
          <6> QED BY <2>4, <3>2, <3>4, <6>1
        <5> QED BY <5>2, <5>3
      <4>2. Wins(k + 1, k + 1)
        BY <4>1
      <4> QED BY <2>1, <3>2, <4>2
    <3> QED BY <2>4, <3>2, <3>3, <3>4
  <2> QED BY <2>2, <2>3, <2>4
<1> HIDE DEF T
<1>3. n \in T
  BY <1>1, <1>2, UpTo
<1>4. P \cap 1..n = P
  OBVIOUS
<1>5. PICK w \in P : Wins(w, n)
  BY <1>3, <1>4 DEF T
<1> QED BY <1>4, <1>5

(* Patterns of a path have its length, and what they say at a place is      *)
(* settled by whether they have a parameter there.                          *)
LEMMA MatchesIs ==
    ASSUME NEW S, NEW p \in Seq(S), NEW path \in Seq(S), Matches(p, path)
    PROVE  Len(p) = Len(path) /\ DOMAIN p = 1..Len(path)
           /\ \A i \in 1..Len(path) : ~IsParam(p[i]) => p[i] = path[i]
<1>1. DOMAIN path = 1..Len(path) /\ DOMAIN p = 1..Len(p)
  OBVIOUS
<1> QED BY <1>1 DEF Matches

(* One of two patterns of a path that differ in shape beats the other.      *)
LEMMA OneBeats ==
    ASSUME NEW S, NEW p \in Seq(S), NEW q \in Seq(S), NEW path \in Seq(S),
           Matches(p, path), Matches(q, path), ~SameShape(p, q)
    PROVE  Beats(p, q) \/ Beats(q, p)
<1>1. PICK n \in Nat : n = Len(path)
  OBVIOUS
<1>2. /\ Len(p) = n /\ DOMAIN p = 1..n /\ \A i \in 1..n : ~IsParam(p[i]) => p[i] = path[i]
      /\ Len(q) = n /\ DOMAIN q = 1..n /\ \A i \in 1..n : ~IsParam(q[i]) => q[i] = path[i]
  BY <1>1, MatchesIs
<1> DEFINE D == {i \in 1..n : ~(IsParam(p[i]) <=> IsParam(q[i]))}
<1>3. D # {}
  <2> SUFFICES ASSUME D = {} PROVE SameShape(p, q)
    OBVIOUS
  <2>1. ASSUME NEW i \in 1..n PROVE p[i] = q[i] \/ (IsParam(p[i]) /\ IsParam(q[i]))
    <3>1. IsParam(p[i]) <=> IsParam(q[i])
      OBVIOUS
    <3> QED BY <1>2, <3>1
  <2> QED BY <1>2, <2>1 DEF SameShape
<1>4. PICK k \in D : \A m \in D : k <= m
  <2>1. D \subseteq Nat
    OBVIOUS
  <2> HIDE DEF D
  <2> QED BY <1>3, <2>1, LeastNumber
<1>5. k \in 1..n /\ \A j \in 1..(k - 1) : j \in 1..n /\ j \notin D
  BY <1>4
<1>6. \A j \in 1..(k - 1) : IsParam(p[j]) <=> IsParam(q[j])
  BY <1>5
<1>7. \/ ~IsParam(p[k]) /\ IsParam(q[k])
      \/ ~IsParam(q[k]) /\ IsParam(p[k])
  OBVIOUS
<1> QED BY <1>2, <1>5, <1>6, <1>7 DEF Beats

(* Patterns of a path are ordered by what beats what.                       *)
LEMMA BeatsOn ==
    ASSUME NEW S, NEW p \in Seq(S), NEW q \in Seq(S), NEW r \in Seq(S),
           Len(p) = Len(q), Len(q) = Len(r), Beats(p, q), Beats(q, r)
    PROVE  Beats(p, r)
<1>1. PICK n \in Nat : n = Len(p) /\ DOMAIN p = 1..n /\ DOMAIN q = 1..n
  OBVIOUS
<1>2. PICK i \in 1..n : /\ ~IsParam(p[i]) /\ IsParam(q[i])
                        /\ \A j \in 1..(i - 1) : IsParam(p[j]) <=> IsParam(q[j])
  BY <1>1 DEF Beats
<1>3. PICK k \in 1..n : /\ ~IsParam(q[k]) /\ IsParam(r[k])
                        /\ \A j \in 1..(k - 1) : IsParam(q[j]) <=> IsParam(r[j])
  BY <1>1 DEF Beats
<1>4. i # k
  BY <1>2, <1>3
<1>5. CASE i < k
  <2>1. i \in 1..(k - 1) /\ \A j \in 1..(i - 1) : j \in 1..(k - 1)
    BY <1>5
  <2>2. IsParam(r[i]) /\ \A j \in 1..(i - 1) : IsParam(p[j]) <=> IsParam(r[j])
    BY <1>2, <1>3, <2>1
  <2> QED BY <1>1, <1>2, <2>2 DEF Beats
<1>6. CASE k < i
  <2>1. k \in 1..(i - 1) /\ \A j \in 1..(k - 1) : j \in 1..(i - 1)
    BY <1>6
  <2>2. ~IsParam(p[k]) /\ \A j \in 1..(k - 1) : IsParam(p[j]) <=> IsParam(r[j])
    BY <1>2, <1>3, <2>1
  <2> QED BY <1>1, <1>3, <2>2 DEF Beats
<1> QED BY <1>4, <1>5, <1>6

(* The route w wins a request: it is of its method, matches it and beats    *)
(* every other one that does; or w is 0 and none does.                      *)
WonBy(table, n, method, path, w) ==
    /\ w \in 0..n
    /\ w # 0 => /\ table[w].method = TableMethod(method) /\ Matches(table[w].matchitPath, path)
                /\ \A i \in 1..n : /\ table[i].method = TableMethod(method)
                                   /\ Matches(table[i].matchitPath, path)
                                   /\ i # w
                                   => Beats(table[w].matchitPath, table[i].matchitPath)
    /\ w = 0 => \A i \in 1..n : ~(/\ table[i].method = TableMethod(method)
                                  /\ Matches(table[i].matchitPath, path))

(* A table that compiles resolves a path to a route that matches it and     *)
(* beats every other route that does, or to none when none matches.         *)
LEMMA RouteAtIs ==
    ASSUME NEW S, NEW table, NEW n \in Nat, n = Len(table), DOMAIN table = 1..n,
           \A i \in 1..n : table[i].matchitPath \in Seq(S),
           ~CompileFails(table), NEW method, NEW path \in Seq(S)
    PROVE  WonBy(table, n, method, path, RouteAt(table, method, path))
<1> DEFINE Hit(i) == table[i].method = TableMethod(method) /\ Matches(table[i].matchitPath, path)
           hits == {i \in DOMAIN table : Hit(i)}
           R == {ij \in (1..n) \X (1..n) : Beats(table[ij[1]].matchitPath, table[ij[2]].matchitPath)}
<1>1. CASE hits = {}
  <2>1. RouteAt(table, method, path) = 0
    BY <1>1 DEF RouteAt
  <2>2. \A i \in 1..n : ~Hit(i)
    BY <1>1
  <2> QED BY <2>1, <2>2 DEF WonBy
<1>2. CASE hits # {}
  <2>1. hits \in SUBSET (1..n)
    OBVIOUS
  <2>2. ASSUME NEW i \in hits, NEW j \in hits, i # j PROVE <<i, j>> \in R \/ <<j, i>> \in R
    <3>1. i \in 1..n /\ j \in 1..n /\ Hit(i) /\ Hit(j)
      OBVIOUS
    <3>2. PICK p \in Seq(S), q \in Seq(S) : p = table[i].matchitPath /\ q = table[j].matchitPath
      BY <3>1
    <3>3. ~SameShape(p, q) \/ ~SameShape(q, p)
      <4>1. i < j \/ j < i
        BY <2>2, <3>1
      <4> QED BY <3>1, <3>2, <4>1 DEF CompileFails
    <3>4. Beats(p, q) \/ Beats(q, p)
      BY <3>1, <3>2, <3>3, OneBeats
    <3> QED BY <3>1, <3>2, <3>4
  <2>3. ASSUME NEW i \in hits, NEW j \in hits, NEW k \in hits, <<i, j>> \in R, <<j, k>> \in R
        PROVE  <<i, k>> \in R
    <3>1. i \in 1..n /\ j \in 1..n /\ k \in 1..n /\ Hit(i) /\ Hit(j) /\ Hit(k)
      OBVIOUS
    <3>2. PICK p \in Seq(S), q \in Seq(S), r \in Seq(S) :
            p = table[i].matchitPath /\ q = table[j].matchitPath /\ r = table[k].matchitPath
      BY <3>1
    <3>3. Beats(p, q) /\ Beats(q, r)
      BY <2>3, <3>2
    <3>4. Len(p) = Len(q) /\ Len(q) = Len(r)
      BY <3>1, <3>2, MatchesIs
    <3>5. Beats(p, r)
      BY <3>3, <3>4, BeatsOn
    <3> QED BY <3>1, <3>2, <3>5
  <2>4. \E w \in hits : \A j \in hits \ {w} : <<w, j>> \in R
    <3> HIDE DEF hits, R
    <3> QED BY <1>2, <2>1, <2>2, <2>3, WinnerExists
  <2>5. \E w \in hits : \A j \in hits \ {w} : Beats(table[w].matchitPath, table[j].matchitPath)
    BY <2>4
  <2>6. RouteAt(table, method, path)
          = CHOOSE w \in hits : \A j \in hits \ {w} : Beats(table[w].matchitPath, table[j].matchitPath)
    BY <1>2 DEF RouteAt
  <2>7. PICK w \in hits : /\ w = RouteAt(table, method, path)
                          /\ \A j \in hits \ {w} : Beats(table[w].matchitPath, table[j].matchitPath)
    <3> HIDE DEF hits
    <3> QED BY <2>5, <2>6
  <2>8. w \in 1..n /\ Hit(w)
    OBVIOUS
  <2>9. \A i \in 1..n : Hit(i) /\ i # w => Beats(table[w].matchitPath, table[i].matchitPath)
    BY <2>7
  <2>10. WonBy(table, n, method, path, w)
    BY <2>8, <2>9 DEF WonBy
  <2> QED BY <2>7, <2>10
<1> QED BY <1>1, <1>2

-----------------------------------------------------------------------------
(* The inductive invariant.                                                 *)

(* The routes that the calls of the menus register.                         *)
ScopeRoutes    == UNION {UNION {ToSet(Declared(s, d)) : d \in ToSet(s.body)} : s \in ScopeMenu}
TopLevelRoutes == {TopLevelRoute(t.method, t.path, t.name) : t \in TopLevelMenu}
DeclaredRoutes == ScopeRoutes \cup TopLevelRoutes

Item == [step : {"plug", "handler", "not_found", "after"}, id : Nat]
Planned(step, ids) == [i \in DOMAIN ids |-> [step |-> step, id |-> ids[i]]]
Did == [i \in DOMAIN ran |-> [step |-> ran[i].step, id |-> ran[i].id]]

Serving == {"pipelines", "handler", "not_found", "after", "done"}

(* What is still to run for the request.                                    *)
Rest ==
    CASE pc = "pipelines" ->
            Planned("plug", FlattenSeq(todo)) \o Planned("handler", <<route>>) \o Planned("after", after)
      [] pc = "handler"   -> Planned("handler", <<route>>) \o Planned("after", after)
      [] pc = "not_found" -> Planned("not_found", <<0>>) \o Planned("after", after)
      [] OTHER            -> Planned("after", after)

RouterInv ==
    /\ routes \in Seq(DeclaredRoutes)
    /\ \A n \in DOMAIN pipelines : pipelines[n] \in Seq(Nat)
    /\ server.after \in Seq(Nat) /\ after \in Seq(Nat)
    /\ compiled \in BOOLEAN
    /\ compiled => ~CompileFails(routes)
    /\ pc = "building" => ~compiled
    /\ pc = "resolve" => /\ request \in RoutedRequests /\ after = server.after
                         /\ todo = <<>> /\ ran = <<>> /\ halted = FALSE

HaltInv ==
    /\ ran \in Seq(Steps) /\ halted \in BOOLEAN
    /\ \A i \in DOMAIN ran : ran[i].halts => i = Len(ran)
    /\ halted <=> ran # <<>> /\ Last(ran).halts

PlanInv ==
    /\ route \in 0..Len(routes) /\ todo \in Seq(Seq(Nat))
    /\ pc \in {"pipelines", "handler"} => route # 0
    /\ pc = "not_found" => route = 0
    /\ pc \in {"handler", "not_found"} => ~halted
    /\ pc = "done" /\ ~halted => after = <<>>
    /\ halted => IsPrefix(Did, Plan)
    /\ ~halted => Did \o Rest = Plan

CycleInv == RouterInv /\ (pc \in Serving => HaltInv /\ PlanInv)

(* What ToSet lists.                                                        *)
LEMMA SeqToSet ==
    ASSUME NEW S, NEW s \in Seq(S)
    PROVE  s \in Seq(ToSet(s)) /\ \A i \in 1..Len(s) : s[i] \in ToSet(s)
<1>1. s \in [1..Len(s) -> S] /\ DOMAIN s = 1..Len(s) /\ Len(s) \in Nat
  OBVIOUS
<1>2. \A i \in 1..Len(s) : s[i] \in ToSet(s)
  BY <1>1 DEF ToSet
<1>3. PICK D : D = ToSet(s)
  OBVIOUS
<1>4. s \in Seq(D)
  BY <1>1, <1>2, <1>3
<1> QED BY <1>2, <1>3, <1>4

(* What the paths of a program, and those the builder makes of them, are    *)
(* made of.                                                                 *)
Pieces == Segments \cup {Empty, Param("id")}

(* The two descriptions of a route say the same: the segments of the one    *)
(* are those of the other, and the parameters are known by their names.     *)
RouteIs(r) ==
    /\ r.matchitPath \in Seq(Pieces) /\ Slashes(r.matchitPath)
    /\ r.segments = ParseSegments(r.matchitPath)
    /\ r.paramKeys = ExtractParamKeys(r.segments)
    /\ r.pipelineNames \in Seq(STRING)
    /\ r.method \in Methods

(* A route of a scope.                                                      *)
LEMMA ScopedRouteIs ==
    ASSUME NEW S, Empty \in S, NEW prefix \in Seq(S), prefix # <<>>, NEW path \in Seq(S), path # <<>>,
           NEW names, NEW method, NEW name, NEW handler
    PROVE  LET r == ScopedRoute(prefix, names, method, path, name, handler)
           IN  /\ r.matchitPath \in Seq(S) /\ Slashes(r.matchitPath)
               /\ r.segments = ParseSegments(r.matchitPath)
               /\ r.paramKeys = ExtractParamKeys(r.segments)
               /\ r.pipelineNames = names /\ r.method = method
<1>1. PICK p \in Seq(S) : p = NormalizePrefix(prefix) /\ p # <<>>
  BY NormalizePrefixIs
<1>2. PICK m \in Seq(S) : m = BuildMatchitPath(p, path)
  BY <1>1, BuildMatchitPathIs
<1>3. Slashes(m)
  BY <1>1, <1>2, BuildMatchitPathSlashes
<1>4. PICK V : V = S \ {Empty} /\ Empty \notin V
  <2>1. Empty \notin S \ {Empty}
    OBVIOUS
  <2> QED BY <2>1, Zenon
<1>5. ParseSegments(m) = Those(m, V) /\ ParseSegments(prefix) = Those(prefix, V) /\ ParseSegments(path) = Those(path, V)
  BY <1>4, ParseSegmentsIs
<1>6. Those(m, V) = Those(p, V) \o Those(path, V)
  BY <1>1, <1>2, <1>4, ThoseBuilt, ZenonT(30)
<1>7. Those(p, V) = Those(prefix, V)
  BY <1>1, <1>4, ThoseNormalized
<1>8. ParseSegments(m) = ParseSegments(prefix) \o ParseSegments(path)
  BY <1>5, <1>6, <1>7
<1> QED BY <1>1, <1>2, <1>3, <1>8 DEF ScopedRoute, Route

(* A path of a program.                                                     *)
LEMMA PathsAre ==
    ASSUME NEW path \in Paths
    PROVE  path \in Seq(Pieces) /\ path # <<>>
<1>1. path \in Seq(Segments) /\ path # <<>>
  BY DEF Paths
<1>2. PICK S, P : S = Segments /\ P = Pieces /\ S \subseteq P
  BY DEF Pieces
<1>3. \A s \in Seq(S) : s \in Seq(P)
  BY <1>2
<1> QED BY <1>1, <1>2, <1>3

(* A declaration, of a route or of a resource, registers routes.            *)
LEMMA RoutesOf ==
    ASSUME NEW s \in ScopeMenu, NEW d \in ToSet(s.body)
    PROVE  /\ Declared(s, d) \in Seq(ToSet(Declared(s, d)))
           /\ \A r \in ToSet(Declared(s, d)) : RouteIs(r)
<1>1. /\ s.prefix \in Seq(Pieces) /\ s.prefix # <<>> /\ s.names \in Seq(STRING)
      /\ d.path \in Seq(Pieces) /\ d.path # <<>>
  BY MenuAssumption, PathsAre
<1>a. Empty \in Pieces /\ Param("id") \in Pieces
  BY DEF Pieces
<1>2. PICK P, id : P = Pieces /\ id = Param("id") /\ Empty \in P /\ id \in P
  BY <1>a
<1>3. PICK prefix \in Seq(P), path \in Seq(P) : prefix = s.prefix /\ path = d.path /\ prefix # <<>> /\ path # <<>>
  BY <1>1, <1>2
<1>4. PICK withId \in Seq(P) : withId = path \o <<id>> /\ withId # <<>>
  <2>1. PICK o \in Seq(P) : o = <<id>>
    <3>1. <<id>> \in Seq(P)
      BY <1>2
    <3> QED BY <3>1
  <2>2. path \o o \in Seq(P) /\ path \o o # <<>>
    BY <1>3, HeadTail
  <2> QED BY <2>1, <2>2
<1> DEFINE Of(method, p, name, handler) == ScopedRoute(prefix, s.names, method, p, name, handler)
<1>5. \A method \in Methods : \A name, handler :
        RouteIs(Of(method, path, name, handler)) /\ RouteIs(Of(method, withId, name, handler))
  <2> TAKE method \in Methods
  <2> TAKE name, handler
  <2>1. ASSUME NEW q \in Seq(P), q # <<>> PROVE RouteIs(Of(method, q, name, handler))
    <3>1. /\ Of(method, q, name, handler).matchitPath \in Seq(P) /\ Slashes(Of(method, q, name, handler).matchitPath)
          /\ Of(method, q, name, handler).segments = ParseSegments(Of(method, q, name, handler).matchitPath)
          /\ Of(method, q, name, handler).paramKeys = ExtractParamKeys(Of(method, q, name, handler).segments)
          /\ Of(method, q, name, handler).pipelineNames = s.names /\ Of(method, q, name, handler).method = method
      BY <1>2, <1>3, <2>1, ScopedRouteIs
    <3> HIDE DEF Of
    <3> QED BY <1>1, <1>2, <3>1 DEF RouteIs
  <2>2. withId # <<>>
    BY <1>4
  <2> HIDE DEF Of
  <2> QED BY <1>3, <2>1, <2>2
<1>6. CASE d.method = "resources"
  <2>1. PICK a, b, c, e, f :
          /\ Declared(s, d) = <<a, b, c, e, f>>
          /\ RouteIs(a) /\ RouteIs(b) /\ RouteIs(c) /\ RouteIs(e) /\ RouteIs(f)
    <3>1. Declared(s, d) = <<Of("GET", path, <<TrimStart(path), "index">>, "index"),
                             Of("GET", withId, <<TrimStart(path), "show">>, "show"),
                             Of("POST", path, <<TrimStart(path), "create">>, "create"),
                             Of("PUT", withId, <<TrimStart(path), "update">>, "update"),
                             Of("DELETE", withId, <<TrimStart(path), "delete">>, "delete")>>
      BY <1>2, <1>3, <1>4, <1>6 DEF Declared, Resources
    <3>2. {"GET", "POST", "PUT", "DELETE"} \subseteq Methods
      BY DEF Methods
    <3> HIDE DEF Of
    <3> QED BY <1>5, <3>1, <3>2
  <2>2. ToSet(<<a, b, c, e, f>>) = {a, b, c, e, f} /\ <<a, b, c, e, f>> \in Seq({a, b, c, e, f})
    BY DEF ToSet
  <2> QED BY <2>1, <2>2
<1>7. CASE d.method # "resources"
  <2>1. PICK a : Declared(s, d) = <<a>> /\ RouteIs(a)
    <3>1. Declared(s, d) = <<Of(d.method, path, d.name, "plug")>>
      BY <1>3, <1>7 DEF Declared
    <3>2. d.method \in Methods
      BY <1>7, MenuAssumption
    <3> HIDE DEF Of
    <3> QED BY <1>5, <3>1, <3>2
  <2>2. ToSet(<<a>>) = {a} /\ <<a>> \in Seq({a})
    BY DEF ToSet
  <2> QED BY <2>1, <2>2
<1> QED BY <1>6, <1>7

(* A top-level route.                                                       *)
LEMMA TopLevelRouteIs ==
    ASSUME NEW t \in TopLevelMenu
    PROVE  RouteIs(TopLevelRoute(t.method, t.path, t.name))
<1>1. t.path \in Seq(Pieces) /\ t.path # <<>> /\ t.method \in Methods
  BY MenuAssumption, PathsAre
<1>2. Empty \in Pieces
  BY DEF Pieces
<1>3. PICK P : P = Pieces /\ Empty \in P
  BY <1>2
<1>4. PICK path \in Seq(P) : path = t.path /\ path # <<>>
  BY <1>1, <1>3
<1>5. PICK m \in Seq(P) : m = ColonToBrace(path) /\ Slashes(m)
  BY <1>3, <1>4, ColonToBraceIs, ColonToBraceSlashes
<1>6. ParseSegments(m) = ParseSegments(path)
  <2>1. PICK V : V = P \ {Empty} /\ Empty \notin V
    <3>1. Empty \notin P \ {Empty}
      OBVIOUS
    <3> QED BY <3>1, Zenon
  <2>2. ParseSegments(m) = Those(m, V) /\ ParseSegments(path) = Those(path, V)
    BY <2>1, ParseSegmentsIs
  <2>3. Those(m, V) = Those(path, V)
    BY <1>3, <1>4, <1>5, <2>1, ThoseNormalized
  <2> QED BY <2>2, <2>3
<1>7. <<>> \in Seq(STRING)
  OBVIOUS
<1> QED BY <1>1, <1>3, <1>4, <1>5, <1>6, <1>7 DEF TopLevelRoute, Route, RouteIs

(* Every route that a call registers has a list of segments to match and a  *)
(* list of pipeline names.                                                  *)
LEMMA DeclaredRoutesAre ==
    \A r \in DeclaredRoutes : RouteIs(r)
<1> TAKE r \in DeclaredRoutes
<1>1. CASE r \in TopLevelRoutes
  BY <1>1, TopLevelRouteIs DEF TopLevelRoutes
<1>2. CASE r \in ScopeRoutes
  <2>1. PICK s \in ScopeMenu : r \in UNION {ToSet(Declared(s, d)) : d \in ToSet(s.body)}
    BY <1>2 DEF ScopeRoutes
  <2>2. PICK d \in ToSet(s.body) : r \in ToSet(Declared(s, d))
    BY <2>1
  <2> QED BY <2>2, RoutesOf
<1> QED BY <1>1, <1>2 DEF DeclaredRoutes

(* A route of a neat path in a scope with a prefix neat but for its end.    *)
LEMMA ScopedNeatly ==
    ASSUME NEW prefix \in Seq(Pieces), prefix # <<>>, Neat(TrimEnd(prefix)),
           NEW path \in Seq(Pieces), path # <<>>, Neat(path) \/ path = Root,
           NEW names, NEW method, NEW name, NEW handler
    PROVE  ~Slashed(ScopedRoute(prefix, names, method, path, name, handler).matchitPath)
<1>1. PICK S : S = Pieces /\ Empty \in S
  BY DEF Pieces
<1>2. PICK p \in Seq(S) : p = NormalizePrefix(prefix) /\ p # <<>>
  BY <1>1, NormalizePrefixIs
<1>3. LeadingOnly(p)
  BY <1>1, <1>2, NormalizedLeads
<1>4. ~Slashed(BuildMatchitPath(p, path))
  BY <1>1, <1>2, <1>3, BuiltNeatly
<1> QED BY <1>2, <1>4 DEF ScopedRoute, Route

(* What is spelt neatly has neither a trailing nor a doubled slash left in  *)
(* its matchit path, also when its scope's prefix ended with slashes.       *)
LEMMA NeatRoutesAre ==
    \A r \in NeatRoutes : ~Slashed(r.matchitPath)
<1> TAKE r \in NeatRoutes
<1>1. CASE \E t \in TopLevelMenu : /\ Neat(t.path) \/ t.path = Root
                                   /\ r = TopLevelRoute(t.method, t.path, t.name)
  <2>1. PICK t \in TopLevelMenu : /\ Neat(t.path) \/ t.path = Root
                                  /\ r = TopLevelRoute(t.method, t.path, t.name)
    BY <1>1
  <2>2. t.path \in Seq(Pieces) /\ t.path # <<>>
    BY MenuAssumption, PathsAre
  <2>3. LeadingOnly(t.path)
    BY <2>1, <2>2, NeatLeads
  <2>4. ~Slashed(ColonToBrace(t.path))
    BY <2>2, <2>3, LeadingCollapse
  <2> QED BY <2>1, <2>4 DEF TopLevelRoute, Route
<1>2. CASE \E s \in ScopeMenu : \E d \in ToSet(s.body) :
             /\ Neat(TrimEnd(s.prefix))
             /\ Neat(d.path) \/ (d.path = Root /\ d.method # "resources")
             /\ r \in ToSet(Declared(s, d))
  <2>0. PICK s \in ScopeMenu : \E d \in ToSet(s.body) :
             /\ Neat(TrimEnd(s.prefix))
             /\ Neat(d.path) \/ (d.path = Root /\ d.method # "resources")
             /\ r \in ToSet(Declared(s, d))
    BY <1>2
  <2>1. PICK d \in ToSet(s.body) :
             /\ Neat(TrimEnd(s.prefix))
             /\ Neat(d.path) \/ (d.path = Root /\ d.method # "resources")
             /\ r \in ToSet(Declared(s, d))
    BY <2>0
  <2>2. /\ s.prefix \in Seq(Pieces) /\ s.prefix # <<>>
        /\ d.path \in Seq(Pieces) /\ d.path # <<>>
    BY MenuAssumption, PathsAre
  <2>3. PICK path \in Seq(Pieces) : path = d.path /\ path # <<>>
    BY <2>2
  <2>4. PICK i \in DOMAIN Declared(s, d) : r = Declared(s, d)[i]
    BY <2>1 DEF ToSet
  <2> DEFINE Of(method, p, name, handler) == ScopedRoute(s.prefix, s.names, method, p, name, handler)
  <2>5. CASE d.method = "resources"
    <3>1. PICK withId : withId = path \o <<Param("id")>>
      OBVIOUS
    <3>2. withId \in Seq(Pieces) /\ withId # <<>> /\ Neat(withId)
      <4>1. PICK P, id : P = Pieces /\ id = Param("id") /\ id \in P /\ id # Empty
        BY DEF Pieces, Param, Empty
      <4>2. PICK n \in Nat : n = Len(path)
        BY <2>3
      <4>3. /\ withId \in Seq(P) /\ Len(withId) = n + 1 /\ withId[n + 1] = id
            /\ \A k \in 1..n : withId[k] = path[k]
        BY <2>3, <3>1, <4>1, <4>2
      <4>4. ASSUME NEW k \in 2..(n + 1) PROVE withId[k] # Empty
        <5>1. CASE k = n + 1
          BY <4>1, <4>3, <5>1
        <5>2. CASE k \in 2..n
          BY <2>1, <2>3, <2>5, <4>2, <4>3, <5>2 DEF Neat, NonEmpty
        <5> QED BY <4>2, <4>4, <5>1, <5>2
      <4>5. withId # <<>>
        BY <4>2, <4>3
      <4> QED BY <4>1, <4>3, <4>4, <4>5 DEF Neat, NonEmpty
    <3>3. \A method, name, handler : /\ ~Slashed(Of(method, path, name, handler).matchitPath)
                                     /\ ~Slashed(Of(method, withId, name, handler).matchitPath)
      BY <2>1, <2>2, <2>3, <2>5, <3>2, ScopedNeatly
    <3>4. Declared(s, d) = <<Of("GET", path, <<TrimStart(path), "index">>, "index"),
                             Of("GET", withId, <<TrimStart(path), "show">>, "show"),
                             Of("POST", path, <<TrimStart(path), "create">>, "create"),
                             Of("PUT", withId, <<TrimStart(path), "update">>, "update"),
                             Of("DELETE", withId, <<TrimStart(path), "delete">>, "delete")>>
      BY <2>3, <2>5, <3>1 DEF Declared, Resources
    <3> HIDE DEF Of
    <3>5. \/ r = Of("GET", path, <<TrimStart(path), "index">>, "index")
          \/ r = Of("GET", withId, <<TrimStart(path), "show">>, "show")
          \/ r = Of("POST", path, <<TrimStart(path), "create">>, "create")
          \/ r = Of("PUT", withId, <<TrimStart(path), "update">>, "update")
          \/ r = Of("DELETE", withId, <<TrimStart(path), "delete">>, "delete")
      BY <2>4, <3>4
    <3> QED BY <3>3, <3>5
  <2>6. CASE d.method # "resources"
    <3>1. Declared(s, d) = <<Of(d.method, path, d.name, "plug")>>
      BY <2>3, <2>6 DEF Declared
    <3>2. ~Slashed(Of(d.method, path, d.name, "plug").matchitPath)
      BY <2>1, <2>2, <2>3, ScopedNeatly
    <3> HIDE DEF Of
    <3>3. r = Of(d.method, path, d.name, "plug")
      BY <2>4, <3>1
    <3> QED BY <3>2, <3>3
  <2> QED BY <2>5, <2>6
<1>3. \/ \E t \in TopLevelMenu : /\ Neat(t.path) \/ t.path = Root
                                /\ r = TopLevelRoute(t.method, t.path, t.name)
      \/ \E s \in ScopeMenu : \E d \in ToSet(s.body) :
             /\ Neat(TrimEnd(s.prefix))
             /\ Neat(d.path) \/ (d.path = Root /\ d.method # "resources")
             /\ r \in ToSet(Declared(s, d))
  <2>1. PICK top, within :
          /\ top = {TopLevelRoute(t.method, t.path, t.name) :
                      t \in {t \in TopLevelMenu : Neat(t.path) \/ t.path = Root}}
          /\ within = UNION {UNION {ToSet(Declared(s, d)) :
                                      d \in {d \in ToSet(s.body) :
                                               Neat(d.path) \/ (d.path = Root /\ d.method # "resources")}} :
                                s \in {s \in ScopeMenu : Neat(TrimEnd(s.prefix))}}
    OBVIOUS
  <2>2. r \in top \cup within
    BY <2>1, Zenon DEF NeatRoutes
  <2>3. CASE r \in top
    BY <2>1, <2>3, Zenon
  <2>4. CASE r \in within
    <3>1. PICK s \in ScopeMenu :
            /\ Neat(TrimEnd(s.prefix))
            /\ r \in UNION {ToSet(Declared(s, d)) :
                              d \in {d \in ToSet(s.body) :
                                       Neat(d.path) \/ (d.path = Root /\ d.method # "resources")}}
      BY <2>1, <2>4
    <3>2. PICK d \in ToSet(s.body) : /\ Neat(d.path) \/ (d.path = Root /\ d.method # "resources")
                                     /\ r \in ToSet(Declared(s, d))
      BY <3>1
    <3> QED BY <3>1, <3>2
  <2> QED BY <2>2, <2>3, <2>4
<1> QED BY <1>1, <1>2, <1>3

(* The routes of a scope are declared ones.                                 *)
LEMMA ScopeRegisters ==
    ASSUME NEW s \in ScopeMenu
    PROVE  FlattenSeq([i \in DOMAIN s.body |-> Declared(s, s.body[i])]) \in Seq(DeclaredRoutes)
<1>1. PICK D : D = DeclaredRoutes
  OBVIOUS
<1>a. PICK B : B = ToSet(s.body)
  OBVIOUS
<1>2. PICK body \in Seq(B) : body = s.body
  BY <1>a, MenuAssumption
<1>3. PICK n \in Nat : n = Len(body) /\ DOMAIN body = 1..n /\ \A i \in 1..n : body[i] \in B
  OBVIOUS
<1>4. ASSUME NEW i \in 1..n PROVE Declared(s, body[i]) \in Seq(D)
  <2>1. PICK d \in ToSet(s.body) : d = body[i]
    BY <1>a, <1>2, <1>3
  <2>2. PICK E : E = ToSet(Declared(s, d)) /\ Declared(s, d) \in Seq(E)
    BY RoutesOf
  <2>3. E \subseteq D
    <3>1. E \in {ToSet(Declared(s, dd)) : dd \in ToSet(s.body)}
      BY <2>2
    <3>2. E \subseteq UNION {ToSet(Declared(s, dd)) : dd \in ToSet(s.body)}
      BY <3>1
    <3>3. UNION {ToSet(Declared(s, dd)) : dd \in ToSet(s.body)} \subseteq ScopeRoutes
      BY DEF ScopeRoutes
    <3> QED BY <1>1, <3>2, <3>3 DEF DeclaredRoutes
  <2>4. \A q \in Seq(E) : q \in Seq(D)
    BY <2>3
  <2> QED BY <2>1, <2>2, <2>4
<1>5. PICK ss : ss = [i \in 1..n |-> Declared(s, body[i])]
  OBVIOUS
<1>6. ss \in Seq(Seq(D))
  <2>1. \A Q : (\A i \in 1..n : Declared(s, body[i]) \in Q) => ss \in Seq(Q)
    BY <1>5
  <2> QED BY <1>4, <2>1, Zenon
<1>7. FlattenSeq(ss) \in Seq(D)
  BY <1>6, FlattenIs
<1> QED BY <1>1, <1>2, <1>3, <1>5, <1>7

(* The pipelines a route resolves to are lists of plugs.                    *)
LEMMA ResolvedPipelinesAre ==
    ASSUME NEW r, RouteIs(r), \A n \in DOMAIN pipelines : pipelines[n] \in Seq(Nat)
    PROVE  ResolvedPipelines(r) \in Seq(Seq(Nat))
<1>a. PICK A : A = STRING
  OBVIOUS
<1>1. PICK s \in Seq(A) : s = r.pipelineNames
  BY <1>a DEF RouteIs
<1>2. PICK P : P = {i \in DOMAIN r.pipelineNames : r.pipelineNames[i] \in DOMAIN pipelines}
  OBVIOUS
<1>3. PICK q \in Seq(A) : q = Kept(s, P) /\ Lists(q, s, Len(s), P)
  BY KeptLists
<1>4. PICK at \in [1..Len(q) -> 1..Len(s)] :
        \A k \in 1..Len(q) : at[k] \in P /\ q[k] = s[at[k]]
  BY <1>3 DEF Lists
<1>5. \A k \in 1..Len(q) : q[k] \in DOMAIN pipelines
  BY <1>1, <1>2, <1>4
<1>6. PICK m \in Nat : m = Len(q) /\ DOMAIN q = 1..m
  OBVIOUS
<1>7. PICK u : u = [i \in 1..m |-> pipelines[q[i]]]
  OBVIOUS
<1>8. u \in Seq(Seq(Nat))
  <2>1. \A Q : (\A i \in 1..m : pipelines[q[i]] \in Q) => u \in Seq(Q)
    BY <1>7
  <2>2. \A i \in 1..m : pipelines[q[i]] \in Seq(Nat)
    BY <1>5, <1>6
  <2> QED BY <2>1, <2>2, Zenon
<1> QED BY <1>1, <1>2, <1>3, <1>6, <1>7, <1>8 DEF ResolvedPipelines

(* The plan of some steps of a kind.                                        *)
StepNames == {"plug", "handler", "not_found", "after"}

(* The plan of a list of plugs, item by item.                               *)
LEMMA PlannedIs ==
    ASSUME NEW step \in StepNames, NEW ids \in Seq(Nat)
    PROVE  Planned(step, ids) \in Seq(Item) /\ Len(Planned(step, ids)) = Len(ids)
           /\ \A i \in 1..Len(ids) : Planned(step, ids)[i] = [step |-> step, id |-> ids[i]]
<1>1. PICK n \in Nat : n = Len(ids) /\ DOMAIN ids = 1..n /\ \A i \in 1..n : ids[i] \in Nat
  OBVIOUS
<1>2. \A i \in 1..n : [step |-> step, id |-> ids[i]] \in Item
  BY <1>1 DEF Item, StepNames
<1>3. PICK I, p : I = Item /\ p = Planned(step, ids)
  OBVIOUS
<1>4. p = [i \in 1..n |-> [step |-> step, id |-> ids[i]]]
  BY <1>1, <1>3 DEF Planned
<1>5. p \in Seq(I) /\ Len(p) = n
  BY <1>2, <1>3, <1>4
<1> QED BY <1>1, <1>3, <1>4, <1>5

(* Of no plugs there is no plan.                                            *)
LEMMA PlannedNone ==
    ASSUME NEW step
    PROVE  Planned(step, <<>>) = <<>>
<1>1. DOMAIN <<>> = 1..0
  OBVIOUS
<1>2. Planned(step, <<>>) = [i \in 1..0 |-> [step |-> step, id |-> <<>>[i]]]
  BY <1>1 DEF Planned
<1> QED BY <1>2

(* The plan of one.                                                         *)
LEMMA PlannedOne ==
    ASSUME NEW step, NEW x
    PROVE  Planned(step, <<x>>) = <<[step |-> step, id |-> x]>>
BY DEF Planned

(* The plan of a list is that of its first, then that of the others.        *)
LEMMA PlannedFirst ==
    ASSUME NEW step \in StepNames, NEW x \in Nat, NEW ids \in Seq(Nat)
    PROVE  Planned(step, <<x>> \o ids) = <<[step |-> step, id |-> x]>> \o Planned(step, ids)
<1>a. PICK I : I = Item
  OBVIOUS
<1>1. PICK n \in Nat, w \in I : n = Len(ids) /\ w = [step |-> step, id |-> x]
  <2>1. Len(ids) \in Nat /\ [step |-> step, id |-> x] \in Item
    BY DEF Item, StepNames
  <2> QED BY <1>a, <2>1
<1>2. PICK all \in Seq(Nat) : /\ all = <<x>> \o ids /\ Len(all) = n + 1 /\ all[1] = x
                              /\ \A i \in 2..(n + 1) : all[i] = ids[i - 1]
  <2>1. /\ <<x>> \o ids \in Seq(Nat) /\ Len(<<x>> \o ids) = n + 1 /\ (<<x>> \o ids)[1] = x
        /\ \A i \in 2..(n + 1) : (<<x>> \o ids)[i] = ids[i - 1]
    BY <1>1
  <2> QED BY <2>1
<1>3. PICK p \in Seq(I), q \in Seq(I) : p = Planned(step, ids) /\ q = Planned(step, all)
  BY <1>a, <1>1, PlannedIs
<1>4. /\ Len(p) = n /\ Len(q) = n + 1
      /\ \A i \in 1..n : p[i] = [step |-> step, id |-> ids[i]]
      /\ \A i \in 1..(n + 1) : q[i] = [step |-> step, id |-> all[i]]
  BY <1>1, <1>2, <1>3, PlannedIs, ZenonT(30)
<1>5. PICK o \in Seq(I) : o = <<w>> \o p
  <2>1. <<w>> \in Seq(I)
    OBVIOUS
  <2>2. <<w>> \o p \in Seq(I)
    BY <2>1, ConcatProperties
  <2> QED BY <2>2
<1>6. /\ Len(o) = n + 1 /\ o[1] = w /\ \A i \in 2..(n + 1) : o[i] = p[i - 1]
  BY <1>4, <1>5
<1>7. ASSUME NEW i \in 1..(n + 1) PROVE q[i] = o[i]
  <2>1. CASE i = 1
    BY <1>1, <1>2, <1>4, <1>6, <2>1
  <2>2. CASE i # 1
    <3>1. i \in 2..(n + 1) /\ i - 1 \in 1..n
      BY <2>2
    <3> QED BY <1>2, <1>4, <1>6, <3>1, ZenonT(30)
  <2> QED BY <2>1, <2>2
<1>8. q = o
  BY <1>4, <1>6, <1>7, SeqEqual
<1> QED BY <1>1, <1>2, <1>3, <1>5, <1>8

-----------------------------------------------------------------------------
(* One thing that runs.                                                     *)

(* What has run, item by item.                                              *)
LEMMA DidIs ==
    ASSUME ran \in Seq(Steps)
    PROVE  Did \in Seq(Item) /\ Len(Did) = Len(ran)
           /\ \A i \in 1..Len(ran) : Did[i] = [step |-> ran[i].step, id |-> ran[i].id]
<1>1. PICK s \in Seq(Steps) : s = ran
  OBVIOUS
<1>2. PICK n \in Nat : n = Len(s) /\ DOMAIN s = 1..n /\ \A i \in 1..n : s[i] \in Steps
  OBVIOUS
<1>3. \A i \in 1..n : [step |-> s[i].step, id |-> s[i].id] \in Item
  BY <1>2 DEF Steps, Item
<1>4. PICK I, p : I = Item /\ p = Did
  OBVIOUS
<1>5. p = [i \in 1..n |-> [step |-> s[i].step, id |-> s[i].id]]
  BY <1>1, <1>2, <1>4 DEF Did
<1>6. p \in Seq(I) /\ Len(p) = n
  BY <1>3, <1>4, <1>5
<1> QED BY <1>1, <1>2, <1>4, <1>5, <1>6

(* A run adds one item to what has run, and halts only as the last.         *)
LEMMA RunsNext ==
    ASSUME HaltInv, ~halted, NEW step \in StepNames, NEW id \in Nat, NEW mayHalt,
           Run(step, id, mayHalt)
    PROVE  HaltInv' /\ Did' = Append(Did, [step |-> step, id |-> id])
<1>1. PICK h \in BOOLEAN : halted' = (halted \/ h) /\ ran' = Append(ran, [step |-> step, id |-> id, halts |-> h])
  BY DEF Run
<1>a. PICK S : S = Steps
  OBVIOUS
<1>2. PICK w \in S : w = [step |-> step, id |-> id, halts |-> h]
  <2>1. [step |-> step, id |-> id, halts |-> h] \in Steps
    BY DEF Steps, StepNames
  <2> QED BY <1>a, <2>1
<1>3. PICK n \in Nat, s \in Seq(S) : s = ran /\ n = Len(s)
  BY <1>a DEF HaltInv
<1>4. PICK t \in Seq(S) : t = ran' /\ t = Append(s, w)
  BY <1>1, <1>2, <1>3
<1>5. /\ Len(t) = n + 1 /\ DOMAIN t = 1..(n + 1) /\ t[n + 1] = w /\ \A i \in 1..n : t[i] = s[i]
      /\ DOMAIN s = 1..n
  BY <1>2, <1>3, <1>4
<1>6. \A i \in 1..n : ~s[i].halts
  <2>1. ASSUME NEW i \in 1..n, s[i].halts PROVE FALSE
    <3>1. i = n /\ s # <<>>
      BY <1>3, <1>5, <2>1 DEF HaltInv
    <3> QED BY <1>3, <2>1, <3>1 DEF HaltInv, Last
  <2> QED BY <2>1
<1>7. HaltInv'
  <2>1. halted' = h /\ halted' \in BOOLEAN
    BY <1>1 DEF HaltInv
  <2>2. w.halts = h
    BY <1>2
  <2>3. \A i \in DOMAIN t : t[i].halts => i = Len(t)
    BY <1>5, <1>6
  <2>4. t # <<>> /\ Last(t) = w
    BY <1>5 DEF Last
  <2> QED BY <1>a, <1>4, <2>1, <2>2, <2>3, <2>4 DEF HaltInv
<1>8. Did' = Append(Did, [step |-> step, id |-> id])
  <2>1. /\ Did \in Seq(Item) /\ Len(Did) = n /\ \A i \in 1..n : Did[i] = [step |-> s[i].step, id |-> s[i].id]
    BY <1>a, <1>3, DidIs
  <2>a. PICK I : I = Item
    OBVIOUS
  <2>2. PICK p \in Seq(I), x \in I : p = Did /\ x = [step |-> step, id |-> id]
    <3>1. [step |-> step, id |-> id] \in Item
      BY DEF Item, StepNames
    <3> QED BY <2>a, <2>1, <3>1
  <2>3. PICK q : q = Did'
    OBVIOUS
  <2>4. q = [i \in 1..(n + 1) |-> [step |-> t[i].step, id |-> t[i].id]]
    BY <1>4, <1>5, <2>3 DEF Did
  <2>b. Len(p) = n /\ \A i \in 1..n : p[i] = [step |-> s[i].step, id |-> s[i].id]
    BY <2>1, <2>2
  <2>5. ASSUME NEW i \in 1..n PROVE q[i] = p[i]
    <3>1. i \in 1..(n + 1) /\ t[i] = s[i]
      BY <1>5
    <3> QED BY <2>b, <2>4, <3>1
  <2>6. q[n + 1] = x
    BY <1>2, <1>5, <2>2, <2>4
  <2>7. q \in Seq(I) /\ Len(q) = n + 1
    <3>1. \A i \in 1..(n + 1) : q[i] \in I
      <4>1. \A i \in 1..n : p[i] \in I
        BY <2>1, <2>2
      <4> QED BY <2>5, <2>6, <4>1
    <3> QED BY <2>4, <3>1
  <2>8. PICK r \in Seq(I) : r = Append(p, x) /\ Len(r) = n + 1 /\ r[n + 1] = x /\ \A i \in 1..n : r[i] = p[i]
    <3>1. Append(p, x) \in Seq(I) /\ Len(Append(p, x)) = Len(p) + 1 /\ Append(p, x)[Len(p) + 1] = x
          /\ \A i \in 1..Len(p) : Append(p, x)[i] = p[i]
      BY AppendProperties
    <3> QED BY <2>b, <3>1
  <2>9. q = r
    <3>1. \A i \in 1..Len(q) : q[i] = r[i]
      BY <2>5, <2>6, <2>7, <2>8
    <3> QED BY <2>7, <2>8, <3>1, SeqEqual
  <2> QED BY <2>2, <2>3, <2>8, <2>9
<1> QED BY <1>7, <1>8

(* What was next in the plan has been done.                                 *)
LEMMA PlanMoves ==
    ASSUME NEW S, NEW did \in Seq(S), NEW x \in S, NEW rest \in Seq(S)
    PROVE  /\ Append(did, x) \o rest = did \o (<<x>> \o rest)
           /\ IsPrefix(Append(did, x), did \o (<<x>> \o rest))
<1>1. PICK o \in Seq(S) : o = <<x>>
  <2>1. <<x>> \in Seq(S)
    OBVIOUS
  <2> QED BY <2>1
<1>2. PICK p \in Seq(S) : p = Append(did, x) /\ p = did \o o
  <2>1. Append(did, x) = did \o <<x>> /\ Append(did, x) \in Seq(S)
    OBVIOUS
  <2> QED BY <1>1, <2>1
<1>3. (did \o o) \o rest = did \o (o \o rest)
  BY ConcatAssociative, SMTT(30)
<1>4. PICK q \in Seq(S) : q = p \o rest
  BY ConcatProperties
<1>5. IsPrefix(p, q)
  <2>1. Len(p) <= Len(q) /\ \A i \in 1..Len(p) : p[i] = q[i]
    BY <1>4, ConcatProperties
  <2> QED BY <2>1, PrefixIs
<1> QED BY <1>1, <1>2, <1>3, <1>4, <1>5

-----------------------------------------------------------------------------
(* The router and the endpoint keep what the plan of a request rests on.    *)

(* A step that leaves the router alone keeps its invariant.                 *)
LEMMA RouterSame ==
    ASSUME RouterInv, UNCHANGED <<routes, pipelines, server, compiled>>,
           pc' \notin {"building", "resolve"}, after' \in Seq(Nat)
    PROVE  RouterInv'
BY DEF RouterInv

(* So does a builder's call that adds what the menus allow.                 *)
LEMMA RouterGrows ==
    ASSUME RouterInv, pc = "building", pc' = pc, UNCHANGED <<server, compiled, after>>,
           routes' \in Seq(DeclaredRoutes), \A n \in DOMAIN pipelines' : pipelines'[n] \in Seq(Nat)
    PROVE  RouterInv'
BY DEF RouterInv

(* Registering a pipeline keeps the router's invariant.                     *)
LEMMA PipelineKeeps ==
    ASSUME RouterInv, Pipeline
    PROVE  RouterInv'
<1>1. PICK p \in PipelineMenu : pipelines' = Inserted(pipelines, [n \in {p.name} |-> p.plugs])
  BY DEF Pipeline
<1>2. p.plugs \in Seq(Nat)
  BY MenuAssumption
<1>3. \A n \in DOMAIN pipelines' : pipelines'[n] \in Seq(Nat)
  BY <1>1, <1>2 DEF Inserted, RouterInv
<1> QED BY <1>3, RouterGrows DEF Pipeline, BuilderCall, connVars, RouterInv

(* Registering routes keeps it.                                             *)
LEMMA RegisterKeeps ==
    ASSUME RouterInv, BuilderCall, NEW rs \in Seq(DeclaredRoutes), Register(rs)
    PROVE  RouterInv'
<1>1. PICK D : D = DeclaredRoutes
  OBVIOUS
<1>2. routes \o rs \in Seq(D)
  <2>1. routes \in Seq(D) /\ rs \in Seq(D)
    BY <1>1 DEF RouterInv
  <2> QED BY <2>1, ConcatProperties
<1> QED BY <1>1, <1>2, RouterGrows DEF Register, BuilderCall, connVars, RouterInv

(* Every step keeps it; the table that compiled is served from unchanged.   *)
LEMMA RouterKeeps ==
    ASSUME RouterInv, [RequestNext]_requestVars
    PROVE  RouterInv'
<1>1. CASE Pipeline
  BY <1>1, PipelineKeeps
<1>2. CASE Scope
  <2>1. PICK s \in ScopeMenu : Register(FlattenSeq([i \in DOMAIN s.body |-> Declared(s, s.body[i])]))
    BY <1>2 DEF Scope
  <2>2. PICK rs \in Seq(DeclaredRoutes) : rs = FlattenSeq([i \in DOMAIN s.body |-> Declared(s, s.body[i])])
    BY ScopeRegisters
  <2> QED BY <1>2, <2>1, <2>2, RegisterKeeps DEF Scope
<1>3. CASE TopLevel
  <2>1. PICK t \in TopLevelMenu : Register(<<TopLevelRoute(t.method, t.path, t.name)>>)
    BY <1>3 DEF TopLevel
  <2>2. PICK r \in DeclaredRoutes : r = TopLevelRoute(t.method, t.path, t.name)
    BY DEF DeclaredRoutes, TopLevelRoutes
  <2>3. PICK rs \in Seq(DeclaredRoutes) : rs = <<r>>
    <3>1. <<r>> \in Seq(DeclaredRoutes)
      OBVIOUS
    <3> QED BY <3>1
  <2> QED BY <1>3, <2>1, <2>2, <2>3, RegisterKeeps DEF TopLevel
<1>4. CASE Serve
  <2>1. PICK e \in BOOLEAN, a \in AfterMenu : server' = [errorHandler |-> e, after |-> a]
    BY <1>4 DEF Serve
  <2>2. server'.after \in Seq(Nat)
    BY <2>1, MenuAssumption
  <2> QED BY <1>4, <2>2 DEF Serve, RouterInv, routerVars, connVars
<1>5. CASE Receive
  BY <1>5 DEF Receive, RouterInv, routerVars
<1>6. CASE Resolve
  <2>1. pc' \in {"not_found", "pipelines"} /\ ~CompileFails(routes)
    BY <1>6 DEF Resolve, RouterInv
  <2> QED BY <1>6, <2>1 DEF Resolve, RouterInv, routerVars
<1>7. CASE AfterPlug
  <2>1. Tail(after) \in Seq(Nat)
    BY <1>7 DEF AfterPlug, RouterInv
  <2> QED BY <1>7, <2>1, RouterSame DEF AfterPlug, routerVars
<1>8. CASE ResolvePanics \/ PipelinePlug \/ PipelineEnds \/ PipelinesEnd \/ Handle \/ NotFound \/ Executed
  <2>1. UNCHANGED <<routes, pipelines, server, compiled, after>> /\ pc' \notin {"building", "resolve"}
    BY <1>8 DEF ResolvePanics, PipelinePlug, PipelineEnds, PipelinesEnd, Handle, NotFound, Executed,
       routerVars, connVars
  <2> QED BY <2>1, RouterSame DEF RouterInv
<1>9. CASE UNCHANGED requestVars
  BY <1>9 DEF requestVars, routerVars, connVars, RouterInv
<1> QED BY <1>1, <1>2, <1>3, <1>4, <1>5, <1>6, <1>7, <1>8, <1>9 DEF RequestNext, Builder, Cycle

-----------------------------------------------------------------------------
(* The plan of a request, and what is left of it.                           *)

(* The plan, by the parts it is made of.                                    *)
LEMMA PlanIs ==
    Plan = (IF route = 0 THEN Planned("not_found", <<0>>)
            ELSE Planned("plug", FlattenSeq(ResolvedPipelines(routes[route])))
                   \o Planned("handler", <<route>>))
           \o Planned("after", server.after)
BY DEF Plan, Planned

(* The plan of a request stays as long as router, endpoint and route do.    *)
LEMMA PlanSame ==
    ASSUME UNCHANGED <<routerVars, server, route>>
    PROVE  Plan' = Plan
<1>1. routes' = routes /\ pipelines' = pipelines /\ server' = server /\ route' = route
  BY DEF routerVars
<1>2. ResolvedPipelines(routes[route])' = ResolvedPipelines(routes[route])
  BY <1>1 DEF ResolvedPipelines
<1> QED BY <1>1, <1>2 DEF Plan

(* The parts of the plan are lists.                                         *)
LEMMA PartsAre ==
    /\ \A ids \in Seq(Nat) : \A step \in StepNames : Planned(step, ids) \in Seq(Item)
    /\ \A x \in Nat : \A step \in StepNames : Planned(step, <<x>>) = <<[step |-> step, id |-> x]>>
    /\ \A x \in Nat : <<x>> \in Seq(Nat)
    /\ "plug" \in StepNames /\ "handler" \in StepNames /\ "not_found" \in StepNames /\ "after" \in StepNames
BY PlannedIs, PlannedOne DEF StepNames

(* What is left is a list of items.                                         *)
LEMMA RestIs ==
    ASSUME RouterInv, PlanInv
    PROVE  Rest \in Seq(Item)
<1>1. route \in Nat /\ after \in Seq(Nat) /\ 0 \in Nat
  BY DEF PlanInv, RouterInv
<1>2. PICK I : I = Item
  OBVIOUS
<1>3. PICK a \in Seq(I), b \in Seq(I), c \in Seq(I), d \in Seq(I) :
        /\ a = Planned("plug", FlattenSeq(todo)) /\ b = Planned("handler", <<route>>)
        /\ c = Planned("after", after) /\ d = Planned("not_found", <<0>>)
  <2>1. FlattenSeq(todo) \in Seq(Nat)
    BY FlattenIs DEF PlanInv
  <2>2. /\ Planned("plug", FlattenSeq(todo)) \in Seq(I) /\ Planned("handler", <<route>>) \in Seq(I)
        /\ Planned("after", after) \in Seq(I) /\ Planned("not_found", <<0>>) \in Seq(I)
    BY <1>1, <1>2, <2>1, PartsAre
  <2> QED BY <2>2
<1>4. (a \o b) \o c \in Seq(I) /\ b \o c \in Seq(I) /\ d \o c \in Seq(I)
  OBVIOUS
<1> QED BY <1>2, <1>3, <1>4 DEF Rest

(* A step that runs nothing and leaves the rest as it is.                   *)
LEMMA QuietKeeps ==
    ASSUME HaltInv, PlanInv, UNCHANGED <<routerVars, server, route, ran, halted>>,
           todo' \in Seq(Seq(Nat)),
           pc' \in {"pipelines", "handler"} => route # 0, pc' # "not_found",
           pc' = "handler" => ~halted, pc' = "done" /\ ~halted => after' = <<>>,
           ~halted => Rest' = Rest
    PROVE  HaltInv' /\ PlanInv'
<1>1. Plan' = Plan
  BY PlanSame
<1>2. Did' = Did
  BY DEF Did
<1>3. HaltInv'
  BY DEF HaltInv
<1>4. PlanInv'
  BY <1>1, <1>2 DEF PlanInv, routerVars
<1> QED BY <1>3, <1>4

(* A step that runs the first of the rest.                                  *)
LEMMA RunKeeps ==
    ASSUME HaltInv, PlanInv, ~halted, NEW step \in StepNames, NEW id \in Nat, NEW mayHalt,
           Run(step, id, mayHalt), UNCHANGED <<routerVars, server, route>>,
           todo' \in Seq(Seq(Nat)), pc' \in {"pipelines", "after"}, pc' = "pipelines" => route # 0,
           Rest' \in Seq(Item), Rest = <<[step |-> step, id |-> id]>> \o Rest'
    PROVE  HaltInv' /\ PlanInv'
<1>1. Plan' = Plan
  BY PlanSame
<1>2. HaltInv' /\ Did' = Append(Did, [step |-> step, id |-> id])
  BY RunsNext
<1>3. PICK I : I = Item
  OBVIOUS
<1>4. PICK did \in Seq(I), x \in I, rest \in Seq(I) : did = Did /\ x = [step |-> step, id |-> id] /\ rest = Rest'
  <2>1. Did \in Seq(Item)
    BY DidIs DEF HaltInv
  <2>2. [step |-> step, id |-> id] \in Item
    BY DEF Item, StepNames
  <2> QED BY <1>3, <2>1, <2>2
<1>5. /\ Append(did, x) \o rest = did \o (<<x>> \o rest)
      /\ IsPrefix(Append(did, x), did \o (<<x>> \o rest))
  BY PlanMoves
<1>6. Plan = did \o (<<x>> \o rest)
  BY <1>4 DEF PlanInv
<1>7. IsPrefix(Did', Plan') /\ Did' \o Rest' = Plan'
  BY <1>1, <1>2, <1>4, <1>5, <1>6
<1>8. PlanInv'
  BY <1>7 DEF PlanInv, routerVars
<1> QED BY <1>2, <1>8

-----------------------------------------------------------------------------
(* Every step keeps to the plan.                                            *)

(* resolve sets the whole plan to be run, by the route that wins.           *)
LEMMA ResolveKeeps ==
    ASSUME RouterInv, Resolve
    PROVE  HaltInv' /\ PlanInv'
<1> DEFINE i == RouteAt(routes, request.method, request.path)
<1>a. pc = "resolve" /\ UNCHANGED <<routerVars, server, request, after, halted, ran>>
  BY DEF Resolve
<1>b. /\ request \in RoutedRequests /\ after = server.after /\ todo = <<>> /\ ran = <<>> /\ halted = FALSE
      /\ ~CompileFails(routes)
  BY <1>a DEF Resolve, RouterInv
<1>c. /\ route' = i
      /\ IF i = 0 THEN pc' = "not_found" /\ UNCHANGED <<todo, pathParams>>
         ELSE /\ pc' = "pipelines"
              /\ todo' = ResolvedPipelines(routes[i])
              /\ pathParams' = PathParams(routes[i], request.path)
  BY DEF Resolve
<1>1. /\ ran' = <<>> /\ halted' = FALSE /\ route' = i /\ after' = after
      /\ after = server.after /\ server' = server /\ routes' = routes /\ pipelines' = pipelines
      /\ request \in RoutedRequests /\ ~CompileFails(routes)
      /\ IF i = 0 THEN pc' = "not_found" /\ todo' = <<>>
         ELSE pc' = "pipelines" /\ todo' = ResolvedPipelines(routes[i])
  <2> HIDE DEF i
  <2> QED BY <1>a, <1>b, <1>c DEF routerVars
<1>2. HaltInv'
  <2>1. <<>> \in Seq(Steps) /\ DOMAIN <<>> = {}
    OBVIOUS
  <2>2. ran' = <<>> /\ halted' = FALSE
    BY <1>1
  <2> QED BY <2>1, <2>2 DEF HaltInv
<1>3. Did' = <<>>
  <2>1. DOMAIN <<>> = 1..0
    OBVIOUS
  <2>2. Did' = [k \in 1..0 |-> [step |-> ran'[k].step, id |-> ran'[k].id]]
    BY <1>1, <2>1 DEF Did
  <2> QED BY <2>2
<1>4. \A k \in DOMAIN routes : RouteIs(routes[k])
  BY DeclaredRoutesAre DEF RouterInv
<1>5. i \in 0..Len(routes)
  <2>1. PICK P : P = Pieces
    OBVIOUS
  <2>2. PICK path \in Seq(P) : path = request.path
    <3>1. request.path \in Paths
      BY <1>1, MenuAssumption
    <3> QED BY <2>1, <3>1, PathsAre
  <2>3. PICK n \in Nat : n = Len(routes) /\ DOMAIN routes = 1..n
    BY DEF RouterInv
  <2>4. \A k \in 1..n : routes[k].matchitPath \in Seq(P)
    BY <1>4, <2>1, <2>3 DEF RouteIs
  <2> QED BY <1>1, <2>2, <2>3, <2>4, RouteAtIs DEF WonBy
<1>6. pc' = "pipelines" => ResolvedPipelines(routes[i]) \in Seq(Seq(Nat))
  <2> SUFFICES ASSUME pc' = "pipelines" PROVE ResolvedPipelines(routes[i]) \in Seq(Seq(Nat))
    OBVIOUS
  <2>1. i \in DOMAIN routes
    <3>1. DOMAIN routes = 1..Len(routes)
      BY DEF RouterInv
    <3>2. i # 0
      BY <1>1
    <3> HIDE DEF i
    <3> QED BY <1>5, <3>1, <3>2
  <2>2. RouteIs(routes[i])
    BY <1>4, <2>1
  <2> QED BY <2>2, ResolvedPipelinesAre DEF RouterInv
<1>7. Plan' = (IF i = 0 THEN Planned("not_found", <<0>>)
               ELSE Planned("plug", FlattenSeq(ResolvedPipelines(routes[i]))) \o Planned("handler", <<i>>))
              \o Planned("after", server.after)
  <2>1. ResolvedPipelines(routes[route])' = ResolvedPipelines(routes[i])
    BY <1>1 DEF ResolvedPipelines
  <2>2. server'.after = server.after /\ route' = i
    BY <1>1
  <2> HIDE DEF i
  <2> QED BY <2>1, <2>2 DEF Plan, Planned
<1>8. Rest' = Plan'
  <2> HIDE DEF i
  <2>1. CASE i = 0
    BY <1>1, <1>7, <2>1 DEF Rest, Planned
  <2>2. CASE i # 0
    <3>1. pc' = "pipelines" /\ todo' = ResolvedPipelines(routes[i]) /\ route' = i /\ after' = server.after
      BY <1>1, <2>2
    <3>2. Rest' = Planned("plug", FlattenSeq(todo')) \o Planned("handler", <<i>>) \o Planned("after", server.after)
      BY <3>1 DEF Rest, Planned
    <3> QED BY <1>7, <2>2, <3>1, <3>2
  <2> QED BY <2>1, <2>2
<1>9. todo' \in Seq(Seq(Nat)) /\ route' \in 0..Len(routes')
  <2>1. CASE i = 0
    BY <1>1, <1>5, <2>1
  <2>2. CASE i # 0
    BY <1>1, <1>5, <1>6, <2>2
  <2> QED BY <2>1, <2>2
<1>10. Rest' \in Seq(Item)
  <2>1. PICK I : I = Item
    OBVIOUS
  <2>2. i \in Nat /\ 0 \in Nat /\ server.after \in Seq(Nat)
    BY <1>5 DEF RouterInv
  <2>3. PICK b \in Seq(I), c \in Seq(I), d \in Seq(I) :
          /\ b = Planned("handler", <<i>>) /\ c = Planned("after", server.after)
          /\ d = Planned("not_found", <<0>>)
    <3> HIDE DEF i
    <3>1. /\ Planned("handler", <<i>>) \in Seq(I) /\ Planned("after", server.after) \in Seq(I)
          /\ Planned("not_found", <<0>>) \in Seq(I)
      BY <2>1, <2>2, PartsAre
    <3> QED BY <3>1
  <2>4. CASE i = 0
    <3>1. d \o c \in Seq(I)
      OBVIOUS
    <3> QED BY <1>7, <1>8, <2>1, <2>3, <2>4, <3>1
  <2>5. CASE i # 0
    <3>1. pc' = "pipelines"
      BY <1>1, <2>5
    <3>2. PICK a \in Seq(I) : a = Planned("plug", FlattenSeq(ResolvedPipelines(routes[i])))
      <4>1. FlattenSeq(ResolvedPipelines(routes[i])) \in Seq(Nat)
        <5> HIDE DEF i
        <5> QED BY <1>6, <3>1, FlattenIs
      <4>2. Planned("plug", FlattenSeq(ResolvedPipelines(routes[i]))) \in Seq(I)
        <5> HIDE DEF i
        <5> QED BY <2>1, <4>1, PartsAre
      <4> QED BY <4>2
    <3>3. (a \o b) \o c \in Seq(I)
      OBVIOUS
    <3> HIDE DEF i
    <3> QED BY <1>7, <1>8, <2>1, <2>3, <2>5, <3>2, <3>3
  <2> QED BY <2>4, <2>5
<1>11. Did' \o Rest' = Plan'
  <2>1. \A r \in Seq(Item) : <<>> \o r = r
    BY ConcatEmptySeq
  <2> QED BY <1>3, <1>8, <1>10, <2>1
<1>12. /\ pc' \in {"pipelines", "handler"} => route' # 0
       /\ pc' = "not_found" => route' = 0
       /\ pc' # "done"
  <2> HIDE DEF i
  <2> QED BY <1>1
<1>13. halted' = FALSE
  BY <1>1
<1> HIDE DEF i
<1>14. PlanInv'
  BY <1>9, <1>11, <1>12, <1>13 DEF PlanInv
<1> QED BY <1>2, <1>14

(* A plug of a pipeline is the next item of the plan.                       *)
LEMMA PipelinePlugKeeps ==
    ASSUME RouterInv, RouterInv', HaltInv, PlanInv, PipelinePlug
    PROVE  HaltInv' /\ PlanInv'
<1>1. /\ pc = "pipelines" /\ pc' = "pipelines" /\ ~halted /\ todo # <<>> /\ Head(todo) # <<>>
      /\ todo' = <<Tail(Head(todo))>> \o Tail(todo) /\ after' = after /\ route' = route
      /\ Run("plug", Head(Head(todo)), TRUE) /\ UNCHANGED <<routerVars, server, route>>
  BY DEF PipelinePlug
<1>2. /\ Head(Head(todo)) \in Nat /\ todo' \in Seq(Seq(Nat))
      /\ FlattenSeq(todo) = <<Head(Head(todo))>> \o FlattenSeq(todo')
  BY <1>1, FlattenPlug DEF PlanInv
<1>3. PICK x \in Nat, f \in Seq(Nat) : x = Head(Head(todo)) /\ f = FlattenSeq(todo')
  BY <1>2, FlattenIs
<1>4. PICK I : I = Item
  OBVIOUS
<1>b. \A p, q, r \in Seq(I) : (p \o q) \o r = p \o (q \o r)
  BY ConcatAssociative, SMTT(30)
<1>5. PICK w \in I : w = [step |-> "plug", id |-> x]
  BY <1>4 DEF Item
<1>6. route \in Nat /\ after \in Seq(Nat)
  BY DEF PlanInv, RouterInv
<1>7. PICK a \in Seq(I), b \in Seq(I), c \in Seq(I) :
        a = Planned("plug", f) /\ b = Planned("handler", <<route>>) /\ c = Planned("after", after)
  <2>1. /\ Planned("plug", f) \in Seq(I) /\ Planned("handler", <<route>>) \in Seq(I)
        /\ Planned("after", after) \in Seq(I)
    BY <1>4, <1>6, PartsAre
  <2> QED BY <2>1
<1>8. Planned("plug", FlattenSeq(todo)) = <<w>> \o a
  <2>1. "plug" \in StepNames
    BY DEF StepNames
  <2>2. Planned("plug", <<x>> \o f) = <<[step |-> "plug", id |-> x]>> \o Planned("plug", f)
    BY <2>1, PlannedFirst
  <2> QED BY <1>2, <1>3, <1>5, <1>7, <2>2
<1>9. Rest = ((<<w>> \o a) \o b) \o c
  BY <1>1, <1>7, <1>8 DEF Rest
<1>10. Rest' = (a \o b) \o c
  BY <1>1, <1>3, <1>7 DEF Rest, Planned
<1>11. ((<<w>> \o a) \o b) \o c = <<w>> \o ((a \o b) \o c) /\ (a \o b) \o c \in Seq(I)
  <2>1. PICK o \in Seq(I) : o = <<w>>
    <3>1. <<w>> \in Seq(I)
      OBVIOUS
    <3> QED BY <3>1
  <2>2. (o \o a) \o b = o \o (a \o b)
    BY <1>b, Zenon
  <2>3. PICK d \in Seq(I) : d = a \o b
    BY ConcatProperties
  <2>4. (o \o d) \o c = o \o (d \o c)
    BY <1>b, ZenonT(30), SMTT(30)
  <2>5. d \o c \in Seq(I)
    BY ConcatProperties
  <2> QED BY <2>1, <2>2, <2>3, <2>4, <2>5
<1>12. Rest' \in Seq(Item) /\ Rest = <<[step |-> "plug", id |-> x]>> \o Rest'
  BY <1>4, <1>5, <1>9, <1>10, <1>11
<1>13. pc' = "pipelines" => route # 0
  BY <1>1 DEF PlanInv
<1> QED BY <1>1, <1>2, <1>3, <1>12, <1>13, RunKeeps, PartsAre

(* A pipeline ends when nothing of it is left, or everything is cut by a    *)
(* halt.                                                                    *)
LEMMA PipelineEndsKeeps ==
    ASSUME HaltInv, PlanInv, PipelineEnds
    PROVE  HaltInv' /\ PlanInv'
<1>1. /\ pc = "pipelines" /\ pc' = "pipelines" /\ todo # <<>> /\ (Head(todo) = <<>> \/ halted)
      /\ todo' = Tail(todo) /\ UNCHANGED <<routerVars, server, route, after, ran, halted>>
  BY DEF PipelineEnds
<1>2. todo \in Seq(Seq(Nat)) /\ route # 0
  BY <1>1 DEF PlanInv
<1>3. todo' \in Seq(Seq(Nat))
  <2>1. \A D : todo \in Seq(D) => Tail(todo) \in Seq(D)
    BY <1>1
  <2> QED BY <1>1, <1>2, <2>1, Zenon
<1>4. ~halted => Rest' = Rest
  <2> SUFFICES ASSUME ~halted PROVE Rest' = Rest
    OBVIOUS
  <2>1. Head(todo) = <<>>
    BY <1>1
  <2>2. PICK f \in Seq(Nat) : f = FlattenSeq(todo')
    BY <1>3, FlattenIs
  <2>3. FlattenSeq(todo) = Head(todo) \o FlattenSeq(todo')
    BY <1>1, <1>2, FlattenHead
  <2>4. <<>> \o f = f
    BY ConcatEmptySeq
  <2>5. FlattenSeq(todo) = FlattenSeq(todo')
    BY <2>1, <2>2, <2>3, <2>4
  <2>6. Rest = Planned("plug", FlattenSeq(todo)) \o Planned("handler", <<route>>) \o Planned("after", after)
    BY <1>1 DEF Rest
  <2>7. Rest' = Planned("plug", FlattenSeq(todo')) \o Planned("handler", <<route>>) \o Planned("after", after)
    BY <1>1 DEF Rest, Planned
  <2> QED BY <2>5, <2>6, <2>7
<1> QED BY <1>1, <1>2, <1>3, <1>4, QuietKeeps

(* After the last pipeline the handler is next, unless something halted.    *)
LEMMA PipelinesEndKeeps ==
    ASSUME RouterInv, HaltInv, PlanInv, PipelinesEnd
    PROVE  HaltInv' /\ PlanInv'
<1>1. /\ pc = "pipelines" /\ todo = <<>> /\ pc' = IF halted THEN "after" ELSE "handler"
      /\ todo' = todo /\ UNCHANGED <<routerVars, server, route, after, ran, halted>>
  BY DEF PipelinesEnd, connVars
<1>2. todo' \in Seq(Seq(Nat)) /\ route # 0
  BY <1>1 DEF PlanInv
<1>3. ~halted => Rest' = Rest
  <2> SUFFICES ASSUME ~halted PROVE Rest' = Rest
    OBVIOUS
  <2>1. pc' = "handler" /\ FlattenSeq(todo) = <<>>
    BY <1>1, FlattenIs DEF PlanInv
  <2>2. Rest' = Planned("handler", <<route>>) \o Planned("after", after)
    BY <1>1, <2>1 DEF Rest, Planned
  <2>3. Rest = (<<>> \o Planned("handler", <<route>>)) \o Planned("after", after)
    BY <1>1, <2>1, PlannedNone DEF Rest
  <2>4. Planned("handler", <<route>>) \in Seq(Item)
    <3>1. route \in Nat
      BY DEF PlanInv
    <3> QED BY <3>1, PartsAre
  <2>5. \A r \in Seq(Item) : <<>> \o r = r
    BY ConcatEmptySeq
  <2> QED BY <2>2, <2>3, <2>4, <2>5
<1>4. pc' = "handler" => ~halted
  BY <1>1
<1>5. pc' \notin {"not_found", "done"}
  BY <1>1
<1> QED BY <1>1, <1>2, <1>3, <1>4, <1>5, QuietKeeps

(* The response is sent when nothing is left, or after a halt.              *)
LEMMA RespondKeeps ==
    ASSUME HaltInv, PlanInv, Executed
    PROVE  HaltInv' /\ PlanInv'
<1>1. /\ pc = "after" /\ (after = <<>> \/ halted) /\ pc' = "done" /\ after' = after
      /\ todo' = todo /\ UNCHANGED <<routerVars, server, route, ran, halted>>
  BY DEF Executed, connVars
<1>2. todo' \in Seq(Seq(Nat))
  BY <1>1 DEF PlanInv
<1>3. Rest' = Rest
  BY <1>1 DEF Rest, Planned
<1> QED BY <1>1, <1>2, <1>3, QuietKeeps

(* The handlers take the first of the rest off.                             *)
LEMMA RestAfter ==
    ASSUME RouterInv, PlanInv, pc \in {"handler", "not_found"}, pc' = "after", UNCHANGED <<todo, after>>
    PROVE  /\ Rest' = Planned("after", after) /\ Rest' \in Seq(Item)
           /\ ~halted /\ todo' \in Seq(Seq(Nat)) /\ route \in Nat
<1>1. after \in Seq(Nat) /\ ~halted /\ todo' \in Seq(Seq(Nat)) /\ route \in Nat
  BY DEF RouterInv, PlanInv
<1>2. Rest' = Planned("after", after)
  BY DEF Rest, Planned
<1> QED BY <1>1, <1>2, PartsAre

(* The handler is the next item of the plan.                                *)
LEMMA HandleKeeps ==
    ASSUME RouterInv, HaltInv, PlanInv, Handle
    PROVE  HaltInv' /\ PlanInv'
<1>1. /\ pc = "handler" /\ pc' = "after" /\ Run("handler", route, TRUE)
      /\ UNCHANGED <<routerVars, server, route, todo, after>>
  BY DEF Handle
<1>2. /\ Rest' = Planned("after", after) /\ Rest' \in Seq(Item)
      /\ ~halted /\ todo' \in Seq(Seq(Nat)) /\ route \in Nat
  BY <1>1, RestAfter
<1>3. Rest = <<[step |-> "handler", id |-> route]>> \o Rest'
  BY <1>1, <1>2, PartsAre DEF Rest
<1>4. "handler" \in StepNames
  BY DEF StepNames
<1>5. PICK x \in Nat : x = route
  BY <1>2
<1> QED BY <1>1, <1>2, <1>3, <1>4, <1>5, RunKeeps

(* The error handler is the next item of the plan.                          *)
LEMMA NotFoundKeeps ==
    ASSUME RouterInv, HaltInv, PlanInv, NotFound
    PROVE  HaltInv' /\ PlanInv'
<1>1. /\ pc = "not_found" /\ pc' = "after" /\ Run("not_found", 0, server.errorHandler)
      /\ UNCHANGED <<routerVars, server, route, todo, after>>
  BY DEF NotFound
<1>2. /\ Rest' = Planned("after", after) /\ Rest' \in Seq(Item)
      /\ ~halted /\ todo' \in Seq(Seq(Nat)) /\ route \in Nat
  BY <1>1, RestAfter
<1>3. Rest = <<[step |-> "not_found", id |-> 0]>> \o Rest'
  BY <1>1, <1>2, PartsAre DEF Rest
<1>4. "not_found" \in StepNames
  BY DEF StepNames
<1>5. PICK x, may : x \in Nat /\ x = 0 /\ may = server.errorHandler
  OBVIOUS
<1> QED BY <1>1, <1>2, <1>3, <1>4, <1>5, RunKeeps

(* An after-plug is the next item of the plan.                              *)
LEMMA AfterPlugKeeps ==
    ASSUME RouterInv, HaltInv, PlanInv, AfterPlug
    PROVE  HaltInv' /\ PlanInv'
<1>1. /\ pc = "after" /\ pc' = "after" /\ after # <<>> /\ ~halted /\ Run("after", Head(after), TRUE)
      /\ after' = Tail(after) /\ UNCHANGED <<routerVars, server, route, todo>>
  BY DEF AfterPlug
<1>2. after \in Seq(Nat) /\ todo' \in Seq(Seq(Nat))
  BY <1>1 DEF RouterInv, PlanInv
<1>3. PICK x \in Nat, u \in Seq(Nat) : x = Head(after) /\ u = Tail(after) /\ after = <<x>> \o u
  <2>1. Head(after) \in Nat /\ Tail(after) \in Seq(Nat)
    BY <1>1, <1>2
  <2>2. after = <<Head(after)>> \o Tail(after)
    BY <1>1, <1>2
  <2> QED BY <2>1, <2>2
<1>4. Planned("after", after) = <<[step |-> "after", id |-> x]>> \o Planned("after", u)
  <2>1. "after" \in StepNames
    BY DEF StepNames
  <2>2. Planned("after", <<x>> \o u) = <<[step |-> "after", id |-> x]>> \o Planned("after", u)
    BY <2>1, PlannedFirst
  <2> QED BY <1>3, <2>2
<1>5. Rest' = Planned("after", u) /\ Rest = Planned("after", after)
  BY <1>1, <1>3 DEF Rest, Planned
<1>6. Rest' \in Seq(Item)
  BY <1>3, <1>5, PartsAre
<1>7. Rest = <<[step |-> "after", id |-> x]>> \o Rest' /\ Run("after", x, TRUE)
  BY <1>1, <1>3, <1>4, <1>5
<1> QED BY <1>1, <1>2, <1>3, <1>6, <1>7, RunKeeps, PartsAre

-----------------------------------------------------------------------------
(* The invariant.                                                           *)

(* At the start there are no routes and there is no request.                *)
LEMMA CycleStarts ==
    RequestInit => CycleInv
<1> SUFFICES ASSUME RequestInit PROVE CycleInv
  OBVIOUS
<1>1. RouterInv
  <2>1. PICK D : D = DeclaredRoutes
    OBVIOUS
  <2>2. <<>> \in Seq(D) /\ <<>> \in Seq(Nat) /\ DOMAIN <<>> = {}
    OBVIOUS
  <2>3. /\ routes = <<>> /\ pipelines = <<>> /\ after = <<>> /\ compiled = FALSE /\ pc = "building"
        /\ server.after = <<>>
    BY DEF RequestInit
  <2> QED BY <2>1, <2>2, <2>3 DEF RouterInv
<1>2. pc \notin Serving
  BY DEF RequestInit, Serving
<1> QED BY <1>1, <1>2 DEF CycleInv

(* Every step keeps what was done and what is left in step with the plan.   *)
LEMMA CycleSteps ==
    CycleInv /\ [RequestNext]_requestVars => CycleInv'
<1> SUFFICES ASSUME CycleInv, [RequestNext]_requestVars, pc' \in Serving PROVE HaltInv' /\ PlanInv'
  BY RouterKeeps DEF CycleInv
<1>1. RouterInv /\ RouterInv' /\ (pc \in Serving => HaltInv /\ PlanInv)
  BY RouterKeeps DEF CycleInv
<1>2. CASE Pipeline \/ Scope \/ TopLevel \/ Serve \/ Receive \/ ResolvePanics
  BY <1>2 DEF Pipeline, Scope, TopLevel, BuilderCall, Serve, Receive, ResolvePanics, Serving
<1>3. CASE Resolve
  BY <1>1, <1>3, ResolveKeeps
<1>4. CASE PipelinePlug
  BY <1>1, <1>4, PipelinePlugKeeps DEF PipelinePlug, Serving
<1>5. CASE PipelineEnds
  BY <1>1, <1>5, PipelineEndsKeeps DEF PipelineEnds, Serving
<1>6. CASE PipelinesEnd
  BY <1>1, <1>6, PipelinesEndKeeps DEF PipelinesEnd, Serving
<1>7. CASE Handle
  BY <1>1, <1>7, HandleKeeps DEF Handle, Serving
<1>8. CASE NotFound
  BY <1>1, <1>8, NotFoundKeeps DEF NotFound, Serving
<1>9. CASE AfterPlug
  BY <1>1, <1>9, AfterPlugKeeps DEF AfterPlug, Serving
<1>10. CASE Executed
  BY <1>1, <1>10, RespondKeeps DEF Executed, Serving
<1>11. CASE UNCHANGED requestVars
  <2>1. /\ UNCHANGED <<routerVars, server, route, ran, halted, todo, after, pc>> /\ HaltInv /\ PlanInv
    BY <1>1, <1>11 DEF requestVars, connVars
  <2>2. Rest' = Rest
    BY <2>1 DEF Rest, Planned
  <2>3. Plan' = Plan
    BY <2>1, PlanSame
  <2>4. Did' = Did
    BY <2>1 DEF Did
  <2>5. HaltInv'
    BY <2>1 DEF HaltInv
  <2>6. PlanInv'
    BY <2>1, <2>2, <2>3, <2>4 DEF PlanInv, routerVars
  <2> QED BY <2>5, <2>6
<1> QED BY <1>2, <1>3, <1>4, <1>5, <1>6, <1>7, <1>8, <1>9, <1>10, <1>11 DEF RequestNext, Builder, Cycle

(* What has been done and what is left make up the plan.                    *)
LEMMA CycleAlways ==
    RequestSpec => []CycleInv
BY CycleStarts, CycleSteps, PTL DEF RequestSpec

(* What was done is a prefix of the plan, and all of it when nothing is     *)
(* left.                                                                    *)
LEMMA CycleShows ==
    CycleInv => RanAsPlanned
<1> SUFFICES ASSUME CycleInv, pc \in Serving PROVE RanAsPlanned
  BY DEF RanAsPlanned, Serving
<1>1. RouterInv /\ HaltInv /\ PlanInv
  BY DEF CycleInv
<1>2. PICK I : I = Item
  OBVIOUS
<1>3. PICK did \in Seq(I), rest \in Seq(I) : did = Did /\ rest = Rest
  <2>1. Did \in Seq(Item) /\ Rest \in Seq(Item)
    BY <1>1, DidIs, RestIs DEF HaltInv
  <2> QED BY <1>2, <2>1
<1>4. IsPrefix(Did, Plan)
  <2>1. CASE halted
    BY <1>1, <2>1 DEF PlanInv
  <2>2. CASE ~halted
    <3>1. PICK p \in Seq(I) : p = did \o rest
      BY ConcatProperties
    <3>2. Len(did) <= Len(p) /\ \A i \in 1..Len(did) : did[i] = p[i]
      BY <3>1, ConcatProperties
    <3>3. IsPrefix(did, p)
      BY <3>2, PrefixIs
    <3> QED BY <1>1, <1>3, <2>2, <3>1, <3>3 DEF PlanInv
  <2> QED BY <2>1, <2>2
<1>5. ASSUME pc = "done", ~halted PROVE Did = Plan
  <2>1. Rest = <<>>
    BY <1>1, <1>5, PlannedNone DEF PlanInv, Rest
  <2>2. did \o <<>> = did
    BY ConcatEmptySeq
  <2> QED BY <1>1, <1>3, <1>5, <2>1, <2>2 DEF PlanInv
<1> QED BY <1>1, <1>4, <1>5 DEF RanAsPlanned, HaltInv, Did

(* What runs for a request is a prefix of its plan - its scope's pipelines  *)
(* in the order they are named, the handler or the error handler, the       *)
(* after-plugs -, all of it unless something halted, and nothing after a    *)
(* halt: for every program, table of routes and request.                    *)
THEOREM RanAsPlannedHolds ==
    RequestSpec => []RanAsPlanned
BY CycleAlways, CycleShows, PTL

-----------------------------------------------------------------------------
(* Reverse routing.                                                         *)

(* The keys of a route are the names of its parameters.                     *)
LEMMA KeysAre ==
    ASSUME NEW S, NEW segments \in Seq(S)
    PROVE  ToSet(ExtractParamKeys(segments))
             = {segments[i].name : i \in {j \in DOMAIN segments : IsParam(segments[j])}}
<1>1. PICK P : P = {i \in DOMAIN segments : IsParam(segments[i])}
  OBVIOUS
<1>2. PICK q \in Seq(S) : q = Kept(segments, P) /\ Lists(q, segments, Len(segments), P)
  BY KeptLists
<1>3. PICK at \in [1..Len(q) -> 1..Len(segments)] :
        /\ \A k \in 1..Len(q) : at[k] \in P /\ q[k] = segments[at[k]]
        /\ \A i \in 1..Len(segments) : i \in P => \E k \in 1..Len(q) : at[k] = i
  BY <1>2 DEF Lists
<1>4. PICK m \in Nat, n \in Nat : m = Len(q) /\ n = Len(segments) /\ DOMAIN q = 1..m /\ DOMAIN segments = 1..n
  OBVIOUS
<1>5. ExtractParamKeys(segments) = [i \in 1..m |-> q[i].name]
  BY <1>1, <1>2, <1>4 DEF ExtractParamKeys
<1>6. ToSet(ExtractParamKeys(segments)) = {q[k].name : k \in 1..m}
  BY <1>5 DEF ToSet
<1>7. ASSUME NEW k \in 1..m PROVE q[k].name \in {segments[i].name : i \in P}
  BY <1>3, <1>4
<1>8. ASSUME NEW i \in P PROVE segments[i].name \in {q[k].name : k \in 1..m}
  <2>1. i \in 1..n
    BY <1>1, <1>4
  <2>2. PICK k \in 1..m : at[k] = i
    BY <1>3, <1>4, <2>1
  <2> QED BY <1>3, <1>4, <2>2
<1>9. {q[k].name : k \in 1..m} = {segments[i].name : i \in P}
  BY <1>7, <1>8
<1> QED BY <1>1, <1>6, <1>9

(* The k-th parameter of a request is the value at place i of its path.     *)
ValueAt(r, path, k, i) ==
    /\ IsParam(r.matchitPath[i])
    /\ PathParams(r, path)[k] = <<r.matchitPath[i].name, path[i]>>

(* The parameters of a request are the values at the parameters' places.    *)
LEMMA PathParamsAre ==
    ASSUME NEW S, NEW r, r.matchitPath \in Seq(S), NEW path \in Seq(S), Len(path) = Len(r.matchitPath),
           NEW k \in DOMAIN PathParams(r, path)
    PROVE  \E i \in DOMAIN r.matchitPath : ValueAt(r, path, k, i)
<1>1. PICK p \in Seq(S), n \in Nat : /\ p = r.matchitPath /\ n = Len(p) /\ DOMAIN p = 1..n
                                     /\ \A i \in 1..n : p[i] \in S /\ path[i] \in S
  <2>1. PICK p \in Seq(S) : p = r.matchitPath
    OBVIOUS
  <2>2. /\ Len(p) \in Nat /\ DOMAIN p = 1..Len(p) /\ \A i \in 1..Len(p) : p[i] \in S
        /\ Len(path) = Len(p) /\ \A i \in 1..Len(path) : path[i] \in S
    BY <2>1
  <2> QED BY <2>1, <2>2
<1> DEFINE D == S \X S
<1>2. PICK u \in Seq(D) : u = [i \in 1..n |-> <<p[i], path[i]>>] /\ Len(u) = n
  <2>1. \A i \in 1..n : <<p[i], path[i]>> \in D
    BY <1>1
  <2> HIDE DEF D
  <2>2. PICK u : u = [i \in 1..n |-> <<p[i], path[i]>>]
    OBVIOUS
  <2>3. u \in Seq(D) /\ Len(u) = n
    BY <2>1, <2>2
  <2> QED BY <2>2, <2>3
<1>3. PICK P : P = {i \in DOMAIN p : IsParam(p[i])}
  OBVIOUS
<1>4. PICK q \in Seq(D) : q = Kept(u, P) /\ Lists(q, u, Len(u), P)
  <2> HIDE DEF D
  <2> QED BY KeptLists
<1>5. PICK at \in [1..Len(q) -> 1..Len(u)] :
        \A j \in 1..Len(q) : at[j] \in P /\ q[j] = u[at[j]]
  BY <1>4 DEF Lists
<1>6. PICK m \in Nat : m = Len(q) /\ DOMAIN q = 1..m
  <2> HIDE DEF D
  <2> QED OBVIOUS
<1>7. PathParams(r, path) = [i \in 1..m |-> <<q[i][1].name, q[i][2]>>]
  BY <1>1, <1>2, <1>3, <1>4, <1>6 DEF PathParams
<1>8. k \in 1..m /\ PathParams(r, path)[k] = <<q[k][1].name, q[k][2]>>
  BY <1>7
<1>9. PICK i \in 1..n : i = at[k] /\ i \in P /\ q[k] = u[i]
  BY <1>2, <1>5, <1>6, <1>8
<1>10. q[k] = <<p[i], path[i]>>
  BY <1>2, <1>9
<1>11. PathParams(r, path)[k] = <<p[i].name, path[i]>>
  BY <1>8, <1>10
<1>12. i \in DOMAIN r.matchitPath /\ IsParam(r.matchitPath[i])
  BY <1>1, <1>3, <1>9
<1> HIDE DEF D
<1> QED BY <1>1, <1>11, <1>12 DEF ValueAt

(* A route without a trailing or a doubled slash is the slash and its       *)
(* segments.                                                                *)
LEMMA PlainRoute ==
    ASSUME NEW r, RouteIs(r), ~Slashed(r.matchitPath)
    PROVE  \/ r.matchitPath = Root /\ r.segments = <<>>
           \/ /\ r.segments \in Seq(Pieces) /\ r.segments # <<>>
              /\ Len(r.matchitPath) = Len(r.segments) + 1
              /\ r.matchitPath[1] = Empty
              /\ \A i \in 1..Len(r.segments) : r.matchitPath[i + 1] = r.segments[i]
<1>a. PICK P : P = Pieces
  OBVIOUS
<1>1. PICK p \in Seq(P) : p = r.matchitPath /\ Len(p) > 1 /\ p[1] = Empty
  BY <1>a DEF RouteIs, Slashes
<1>b. PICK n \in Nat : n = Len(p) /\ n > 1 /\ \A i \in 1..n : p[i] \in P
  BY <1>1
<1>2. PICK V : V = P \ {Empty}
  OBVIOUS
<1>3. r.segments = Those(p, V)
  BY <1>1, <1>2, ParseSegmentsIs DEF RouteIs
<1>4. CASE p = Root
  <2>1. \A i \in 1..Len(p) : p[i] \notin V
    BY <1>2, <1>4 DEF Root
  <2> QED BY <1>1, <1>3, <1>4, <2>1, ThoseNowhere
<1>5. CASE p # Root
  <2>1. \A i \in 2..n : p[i] # Empty
    BY <1>1, <1>b, <1>5 DEF Slashed
  <2>2. PICK t \in Seq(P) : /\ t = Tail(p) /\ Len(t) = n - 1 /\ \A i \in 1..(n - 1) : t[i] = p[i + 1]
                            /\ p = <<Empty>> \o t
    <3>1. Tail(p) \in Seq(P) /\ Len(Tail(p)) = Len(p) - 1 /\ \A i \in 1..Len(Tail(p)) : Tail(p)[i] = p[i + 1]
      BY <1>1, HeadTailProperties
    <3>2. p = <<Empty>> \o Tail(p)
      BY <1>1
    <3> QED BY <1>b, <3>1, <3>2
  <2>3. \A i \in 1..Len(t) : t[i] \in V
    <3> TAKE i \in 1..Len(t)
    <3>1. i \in 1..(n - 1) /\ i + 1 \in 2..n /\ i + 1 \in 1..n
      BY <1>b, <2>2
    <3> QED BY <1>b, <1>2, <2>1, <2>2, <3>1
  <2>4. Those(t, V) = t
    BY <2>3, ThoseAll
  <2>5. Empty \in P /\ Empty \notin V
    <3>1. p[1] \in P
      BY <1>b
    <3> QED BY <1>1, <1>2, <3>1
  <2>6. Those(<<Empty>> \o t, V) = Those(t, V)
    BY <2>5, ThoseSlashed
  <2>7. r.segments = t
    BY <1>3, <2>2, <2>4, <2>6
  <2>8. t # <<>> /\ Len(p) = Len(t) + 1
    <3>1. Len(t) = n - 1 /\ Len(t) # 0 /\ Len(p) = Len(t) + 1
      BY <1>b, <2>2, SMTT(30)
    <3> QED BY <3>1
  <2> QED BY <1>a, <1>1, <1>b, <2>2, <2>7, <2>8
<1> QED BY <1>4, <1>5

(* What path_for builds from a value for every parameter matches the route, *)
(* and the request that asks for it gets those values.                      *)
LEMMA PathForMatches ==
    ASSUME NEW r, RouteIs(r), ~Slashed(r.matchitPath), NEW params, DOMAIN params = ParamNames(r),
           NEW V, \A k \in DOMAIN params : params[k] \in V /\ NonEmpty(params[k])
    PROVE  LET path == PathFor(r, params)
           IN  /\ path \in Seq(Pieces \cup V) /\ Matches(r.matchitPath, path)
               /\ \A k \in DOMAIN PathParams(r, path) :
                    /\ params[PathParams(r, path)[k][1]] = PathParams(r, path)[k][2]
                    /\ PathParams(r, path)[k][1] \in ToSet(r.paramKeys)
<1>1. PICK S : S = Pieces \cup V /\ Empty \in S /\ Pieces \subseteq S
  <2>1. Empty \in Pieces
    BY DEF Pieces
  <2> QED BY <2>1
<1>2. PICK pattern \in Seq(S) : pattern = r.matchitPath /\ Len(pattern) > 1 /\ pattern[1] = Empty
  <2>1. PICK A : A = Pieces
    OBVIOUS
  <2>2. \A s \in Seq(A) : s \in Seq(S)
    BY <1>1, <2>1
  <2> QED BY <2>1, <2>2 DEF RouteIs, Slashes
<1>3. PICK segments \in Seq(S) :
        /\ segments = r.segments
        /\ \/ pattern = Root /\ segments = <<>>
           \/ /\ segments # <<>> /\ Len(pattern) = Len(segments) + 1
              /\ \A i \in 1..Len(segments) : pattern[i + 1] = segments[i]
  <2>1. PICK A : A = Pieces
    OBVIOUS
  <2>2. \A s \in Seq(A) : s \in Seq(S)
    BY <1>1, <2>1
  <2>3. <<>> \in Seq(S)
    OBVIOUS
  <2> QED BY <1>2, <2>1, <2>2, <2>3, PlainRoute
<1>4. PICK n \in Nat : n = Len(segments) /\ DOMAIN segments = 1..n /\ \A i \in 1..n : segments[i] \in S
  BY SMTT(30)
<1>5. \A i \in 1..n : IsParam(segments[i]) => segments[i].name \in DOMAIN params
  <2>1. ParamNames(r) = {segments[i].name : i \in {j \in DOMAIN segments : IsParam(segments[j])}}
    BY <1>3, KeysAre DEF ParamNames
  <2> QED BY <1>4, <2>1
<1>6. PICK parts : parts = [i \in 1..n |-> IF IsParam(segments[i]) THEN params[segments[i].name] ELSE segments[i]]
  OBVIOUS
<1>7. parts \in Seq(S) /\ Len(parts) = n
  <2>1. \A i \in 1..n : parts[i] \in S
    BY <1>1, <1>4, <1>5, <1>6
  <2> QED BY <1>6, <2>1
<1>8. PathFor(r, params) = IF segments = <<>> THEN Root ELSE <<Empty>> \o parts
  BY <1>3, <1>4, <1>5, <1>6 DEF PathFor
<1>9. PICK path \in Seq(S) :
        /\ path = PathFor(r, params) /\ Len(path) = Len(pattern)
        /\ \A i \in 1..Len(path) :
              \/ ~IsParam(pattern[i]) /\ path[i] = pattern[i]
              \/ /\ IsParam(pattern[i]) /\ pattern[i].name \in DOMAIN params
                 /\ path[i] = params[pattern[i].name]
  <2>0. ~IsParam(Empty)
    BY DEF IsParam, Empty
  <2>1. CASE segments = <<>>
    <3>1. pattern = Root /\ PathFor(r, params) = Root
      BY <1>3, <1>8, <2>1
    <3>2. \A i \in 1..Len(Root) : ~IsParam(Root[i])
      BY <2>0 DEF Root
    <3> QED BY <1>2, <3>1, <3>2
  <2>2. CASE segments # <<>>
    <3>1. PICK e \in Seq(S) : e = <<Empty>> /\ Len(e) = 1 /\ e[1] = Empty
      <4>1. <<Empty>> \in Seq(S)
        BY <1>1
      <4> QED BY <4>1
    <3>2. PICK path \in Seq(S) : /\ path = e \o parts /\ Len(path) = n + 1 /\ path[1] = Empty
                                 /\ \A i \in 2..(n + 1) : path[i] = parts[i - 1]
      <4>1. /\ e \o parts \in Seq(S) /\ Len(e \o parts) = n + 1 /\ (e \o parts)[1] = Empty
            /\ \A i \in 2..(n + 1) : (e \o parts)[i] = parts[i - 1]
        BY <1>7, <3>1, ConcatProperties
      <4> QED BY <4>1
    <3>3. Len(pattern) = n + 1 /\ \A i \in 1..n : pattern[i + 1] = segments[i]
      BY <1>3, <1>4, <2>2
    <3>4. ASSUME NEW i \in 1..Len(path)
          PROVE  \/ ~IsParam(pattern[i]) /\ path[i] = pattern[i]
                 \/ /\ IsParam(pattern[i]) /\ pattern[i].name \in DOMAIN params
                    /\ path[i] = params[pattern[i].name]
      <4>1. CASE i = 1
        BY <1>2, <2>0, <3>2, <4>1
      <4>2. CASE i # 1
        <5>1. PICK j \in 1..n : j = i - 1 /\ j + 1 = i
          <6>1. i - 1 \in 1..n /\ (i - 1) + 1 = i
            BY <3>2, <4>2
          <6> QED BY <6>1
        <5>2. i \in 2..(n + 1)
          BY <3>2, <4>2
        <5>3. pattern[i] = segments[j] /\ path[i] = parts[j]
          BY <3>2, <3>3, <5>1, <5>2
        <5> QED BY <1>5, <1>6, <5>1, <5>3
      <4> QED BY <4>1, <4>2
    <3>5. path = PathFor(r, params) /\ Len(path) = Len(pattern)
      BY <1>8, <2>2, <3>1, <3>2, <3>3
    <3> QED BY <3>4, <3>5
  <2> QED BY <2>1, <2>2
<1>10. DOMAIN path = 1..Len(path) /\ DOMAIN pattern = 1..Len(path)
  BY <1>9
<1>11. Matches(pattern, path)
  BY <1>9, <1>10 DEF Matches
<1>12. ASSUME NEW k \in DOMAIN PathParams(r, path)
       PROVE  /\ params[PathParams(r, path)[k][1]] = PathParams(r, path)[k][2]
              /\ PathParams(r, path)[k][1] \in ToSet(r.paramKeys)
  <2>1. PICK i \in DOMAIN r.matchitPath : ValueAt(r, path, k, i)
    <3>1. r.matchitPath \in Seq(S) /\ Len(path) = Len(r.matchitPath)
      BY <1>2, <1>9
    <3>2. path \in Seq(S) /\ k \in DOMAIN PathParams(r, path)
      BY <1>12
    <3> QED BY <3>1, <3>2, PathParamsAre, ZenonT(30)
  <2>2. i \in 1..Len(path) /\ IsParam(pattern[i]) /\ PathParams(r, path)[k] = <<pattern[i].name, path[i]>>
    BY <1>2, <1>10, <2>1 DEF ValueAt
  <2>3. pattern[i].name \in DOMAIN params /\ path[i] = params[pattern[i].name]
    BY <1>9, <2>2
  <2>4. ToSet(r.paramKeys) = DOMAIN params
    BY DEF RouteIs, ParamNames
  <2> QED BY <2>2, <2>3, <2>4
<1> QED BY <1>1, <1>2, <1>9, <1>11, <1>12

(* The name index: every name, and the last route registered under it.      *)
NamesOf(table) == {table[i].name : i \in DOMAIN table} \ {NoName}
LastIn(table, n) == Max({i \in DOMAIN table : table[i].name = n})
NamedLast(index, table) ==
    /\ DOMAIN index = NamesOf(table)
    /\ \A n \in DOMAIN index : index[n] = LastIn(table, n)

(* The last route of a name is one of that name.                            *)
LEMMA LastInIs ==
    ASSUME NEW table, NEW k \in Nat, DOMAIN table = 1..k, NEW n \in NamesOf(table)
    PROVE  LastIn(table, n) \in 1..k /\ table[LastIn(table, n)].name = n /\ n # NoName
<1>1. PICK P : P = {i \in 1..k : table[i].name = n}
  OBVIOUS
<1>2. P \in SUBSET (1..k) /\ P # {}
  BY <1>1 DEF NamesOf
<1>3. Max(P) \in P
  BY <1>2, MaxOf
<1> QED BY <1>1, <1>3 DEF LastIn, NamesOf

(* Registering more routes keeps the index at the last ones.                *)
LEMMA IndexFollows ==
    ASSUME NEW S, NEW old \in Seq(S), NEW rs \in Seq(S), NEW index, NamedLast(index, old)
    PROVE  NamedLast(Inserted(index, Indexed(old \o rs, Len(old) + 1)), old \o rs)
<1>1. PICK all \in Seq(S) : all = old \o rs
  BY ConcatProperties
<1>2. PICK k \in Nat, m \in Nat :
        /\ k = Len(old) /\ m = Len(all) /\ k <= m /\ DOMAIN old = 1..k /\ DOMAIN all = 1..m
        /\ \A i \in 1..k : all[i] = old[i]
  <2>1. /\ Len(old) \in Nat /\ Len(all) \in Nat /\ Len(old) <= Len(all)
        /\ DOMAIN old = 1..Len(old) /\ DOMAIN all = 1..Len(all)
        /\ \A i \in 1..Len(old) : all[i] = old[i]
    BY <1>1, ConcatProperties
  <2> QED BY <2>1
<1>3. PICK new : new = {i \in (k + 1)..m : all[i].name # NoName}
  OBVIOUS
<1>4. PICK fresh : fresh = [n \in {all[i].name : i \in new} |-> Max({i \in new : all[i].name = n})]
  OBVIOUS
<1>5. Indexed(all, Len(old) + 1) = fresh
  BY <1>2, <1>3, <1>4 DEF Indexed
<1>6. PICK now : now = Inserted(index, fresh)
  OBVIOUS
<1>7. DOMAIN now = DOMAIN index \cup DOMAIN fresh
  BY <1>6 DEF Inserted
<1>8. \A n \in DOMAIN now : now[n] = IF n \in DOMAIN fresh THEN fresh[n] ELSE index[n]
  BY <1>6 DEF Inserted
<1>9. DOMAIN now = NamesOf(all)
  <2>1. \A i \in 1..m : i \in 1..k \/ i \in (k + 1)..m
    BY <1>2
  <2>2. (1..k) \subseteq 1..m /\ ((k + 1)..m) \subseteq 1..m
    BY <1>2
  <2>3. DOMAIN index = NamesOf(old) /\ DOMAIN fresh = {all[i].name : i \in new}
    BY <1>4 DEF NamedLast
  <2>4. ASSUME NEW n \in NamesOf(all) PROVE n \in DOMAIN now
    <3>1. PICK i \in 1..m : n = all[i].name /\ n # NoName
      BY <1>2 DEF NamesOf
    <3>2. CASE i \in 1..k
      BY <1>2, <1>7, <2>3, <3>1, <3>2 DEF NamesOf
    <3>3. CASE i \in (k + 1)..m
      BY <1>3, <1>7, <2>3, <3>1, <3>3
    <3> QED BY <2>1, <3>2, <3>3
  <2>5. ASSUME NEW n \in DOMAIN now PROVE n \in NamesOf(all)
    <3>1. CASE n \in DOMAIN index
      <4>1. PICK i \in 1..k : n = old[i].name /\ n # NoName
        BY <1>2, <2>3, <3>1 DEF NamesOf
      <4> QED BY <1>2, <2>2, <4>1 DEF NamesOf
    <3>2. CASE n \in DOMAIN fresh
      <4>1. PICK i \in new : n = all[i].name
        BY <2>3, <3>2
      <4>2. i \in 1..m /\ n # NoName
        BY <1>3, <2>2, <4>1
      <4> QED BY <1>2, <4>1, <4>2 DEF NamesOf
    <3> QED BY <1>7, <3>1, <3>2
  <2> QED BY <2>4, <2>5
<1>10. ASSUME NEW n \in DOMAIN now PROVE now[n] = LastIn(all, n)
  <2>0. n # NoName
    BY <1>9 DEF NamesOf
  <2>1. CASE n \in DOMAIN fresh
    <3>1. PICK A, B : A = {i \in new : all[i].name = n} /\ B = {i \in 1..m : all[i].name = n}
      OBVIOUS
    <3>2. A \in SUBSET (1..m) /\ A # {} /\ A \subseteq B
      <4>1. PICK i \in new : all[i].name = n
        BY <1>4, <2>1
      <4>2. new \subseteq 1..m
        BY <1>2, <1>3
      <4> QED BY <3>1, <4>1, <4>2
    <3>3. \A b \in B : b \in A \/ b <= k
      BY <1>2, <1>3, <2>0, <3>1
    <3>4. \A a \in A : a > k
      BY <1>2, <1>3, <3>1
    <3>5. Max(A) \in A /\ \A a \in A : Max(A) >= a
      BY <3>2, MaxOf
    <3>6. B \in SUBSET (1..m) /\ B # {}
      BY <3>1, <3>2
    <3>7. Max(B) \in B /\ \A b \in B : Max(B) >= b
      BY <3>6, MaxOf
    <3>8. Max(B) \in A
      <4>1. Max(B) >= Max(A) /\ Max(A) > k
        BY <3>2, <3>4, <3>5, <3>7
      <4>2. Max(A) \in 1..m /\ Max(B) \in 1..m
        BY <3>2, <3>5, <3>6, <3>7
      <4> QED BY <1>2, <3>3, <3>7, <4>1, <4>2
    <3>9. Max(A) = Max(B)
      <4>1. Max(A) \in 1..m /\ Max(B) \in 1..m
        BY <3>2, <3>5, <3>6, <3>7
      <4> QED BY <3>2, <3>5, <3>7, <3>8, <4>1
    <3>10. now[n] = Max(A) /\ LastIn(all, n) = Max(B)
      BY <1>2, <1>4, <1>8, <2>1, <3>1 DEF LastIn
    <3> QED BY <3>9, <3>10
  <2>2. CASE n \notin DOMAIN fresh
    <3>1. n \in DOMAIN index /\ now[n] = index[n]
      BY <1>7, <1>8, <2>2
    <3>2. {i \in 1..k : old[i].name = n} = {i \in 1..m : all[i].name = n}
      <4>1. \A i \in 1..m : all[i].name = n => i \in 1..k
        BY <1>2, <1>3, <1>4, <2>0, <2>2
      <4> QED BY <1>2, <4>1
    <3>3. index[n] = LastIn(old, n)
      BY <3>1 DEF NamedLast
    <3> QED BY <1>2, <3>1, <3>2, <3>3 DEF LastIn
  <2> QED BY <2>1, <2>2
<1> QED BY <1>1, <1>5, <1>6, <1>9, <1>10 DEF NamedLast

NameInv == NamedLast(nameIndex, routes)

(* Without routes there are no names.                                       *)
LEMMA NameStarts ==
    RequestInit => NameInv
<1> SUFFICES ASSUME RequestInit PROVE NameInv
  OBVIOUS
<1>1. routes = <<>> /\ nameIndex = <<>>
  BY DEF RequestInit
<1>2. DOMAIN <<>> = {}
  OBVIOUS
<1> QED BY <1>1, <1>2 DEF NameInv, NamedLast, NamesOf

(* Routes registered later win their names, all others stay.                *)
LEMMA RegisterNames ==
    ASSUME RouterInv, NameInv, NEW rs \in Seq(DeclaredRoutes), Register(rs)
    PROVE  NameInv'
<1>1. PICK D : D = DeclaredRoutes
  OBVIOUS
<1>a. PICK index : index = nameIndex
  OBVIOUS
<1>2. PICK old \in Seq(D) : old = routes
  BY <1>1 DEF RouterInv
<1>3. NamedLast(Inserted(index, Indexed(old \o rs, Len(old) + 1)), old \o rs)
  BY <1>1, <1>a, <1>2, IndexFollows DEF NameInv
<1>4. /\ routes' = old \o rs
      /\ nameIndex' = Inserted(index, Indexed(old \o rs, Len(old) + 1))
  BY <1>a, <1>2 DEF Register
<1>5. NameInv' <=> NamedLast(nameIndex', routes')
  BY DEF NameInv
<1> QED BY <1>3, <1>4, <1>5

(* Every step keeps the name index at the last route of each name.          *)
LEMMA NameSteps ==
    RouterInv /\ NameInv /\ [RequestNext]_requestVars => NameInv'
<1> SUFFICES ASSUME RouterInv, NameInv, [RequestNext]_requestVars PROVE NameInv'
  OBVIOUS
<1>1. CASE Scope
  <2>1. PICK s \in ScopeMenu : Register(FlattenSeq([i \in DOMAIN s.body |-> Declared(s, s.body[i])]))
    BY <1>1 DEF Scope
  <2>2. PICK rs \in Seq(DeclaredRoutes) : rs = FlattenSeq([i \in DOMAIN s.body |-> Declared(s, s.body[i])])
    BY ScopeRegisters
  <2> QED BY <2>1, <2>2, RegisterNames
<1>2. CASE TopLevel
  <2>1. PICK t \in TopLevelMenu : Register(<<TopLevelRoute(t.method, t.path, t.name)>>)
    BY <1>2 DEF TopLevel
  <2>2. PICK r \in DeclaredRoutes : r = TopLevelRoute(t.method, t.path, t.name)
    BY DEF DeclaredRoutes, TopLevelRoutes
  <2>3. PICK rs \in Seq(DeclaredRoutes) : rs = <<r>>
    <3>1. <<r>> \in Seq(DeclaredRoutes)
      OBVIOUS
    <3> QED BY <3>1
  <2> QED BY <2>1, <2>2, <2>3, RegisterNames
<1>3. ASSUME UNCHANGED <<routes, nameIndex>> PROVE NameInv'
  BY <1>3 DEF NameInv, NamedLast, NamesOf, LastIn
<1>4. CASE Pipeline \/ Serve \/ Receive \/ Cycle \/ UNCHANGED requestVars
  <2>1. UNCHANGED <<routes, nameIndex>>
    BY <1>4 DEF Pipeline, Serve, Receive, Cycle, ResolvePanics, Resolve, PipelinePlug, PipelineEnds,
       PipelinesEnd, Handle, NotFound, AfterPlug, Executed, requestVars, routerVars
  <2> QED BY <1>3, <2>1
<1> QED BY <1>1, <1>2, <1>4 DEF RequestNext, Builder

(* The name index points at the last route of each name in every reachable  *)
(* state.                                                                   *)
LEMMA NamesAlways ==
    RequestSpec => [](RouterInv /\ NameInv)
<1>1. RequestInit => RouterInv /\ NameInv
  BY CycleStarts, NameStarts DEF CycleInv
<1>2. RouterInv /\ NameInv /\ [RequestNext]_requestVars => RouterInv' /\ NameInv'
  BY RouterKeeps, NameSteps
<1> QED BY <1>1, <1>2, PTL DEF RequestSpec

(* path_for has nothing to put in the place of a parameter without a value. *)
LEMMA PathForMissing ==
    ASSUME NEW r, RouteIs(r), NEW params, DOMAIN params \in SUBSET ParamNames(r),
           DOMAIN params # ParamNames(r)
    PROVE  PathFor(r, params) = <<>>
<1>1. PICK P : P = Pieces
  OBVIOUS
<1>2. PICK p \in Seq(P) : p = r.matchitPath
  BY <1>1 DEF RouteIs
<1>3. PICK segments \in Seq(P) : segments = r.segments
  <2>1. r.segments = Those(p, P \ {Empty})
    BY <1>2, ParseSegmentsIs DEF RouteIs
  <2> QED BY <2>1, ThoseIs
<1>4. ParamNames(r) = {segments[i].name : i \in {j \in DOMAIN segments : IsParam(segments[j])}}
  BY <1>3, KeysAre DEF ParamNames
<1>5. PICK k \in ParamNames(r) : k \notin DOMAIN params
  OBVIOUS
<1>6. PICK i \in DOMAIN segments : IsParam(segments[i]) /\ segments[i].name \notin DOMAIN params
  BY <1>4, <1>5
<1> QED BY <1>3, <1>6 DEF PathFor

(* What a partial assignment gives a parameter is one of the values.        *)
LEMMA AssignmentIs ==
    ASSUME NEW r, NEW params \in Assignments(r)
    PROVE  DOMAIN params \in SUBSET ParamNames(r) /\ \A k \in DOMAIN params : params[k] \in ParamValues
<1>1. PICK F : F \in {[ks -> ParamValues] : ks \in SUBSET ParamNames(r)} /\ params \in F
  BY DEF Assignments
<1>2. PICK ks \in SUBSET ParamNames(r) : F = [ks -> ParamValues]
  BY <1>1
<1> QED BY <1>1, <1>2

(* A name's last route matches what path_for builds of it, so resolve       *)
(* finds it or one that beats it.                                           *)
LEMMA NamesShow ==
    RouterInv /\ NameInv => PathForResolves
<1> SUFFICES ASSUME RouterInv, NameInv, pc = "idle", ~CompileFails(routes),
                    NEW name \in {routes[i].name : i \in DOMAIN routes} \ {NoName},
                    routes[LastNamed(name)] \in NeatRoutes,
                    NEW params \in Assignments(routes[LastNamed(name)])
             PROVE  LET due   == routes[LastNamed(name)]
                        path  == PathFor(routes[nameIndex[name]], params)
                        i     == RouteAt(routes, due.method, path)
                        found == PathParams(due, path)
                    IN  IF DOMAIN params # ParamNames(due) THEN path = <<>>
                        ELSE \/ /\ i = LastNamed(name)
                                /\ \A k \in DOMAIN found :
                                     /\ params[found[k][1]] = found[k][2]
                                     /\ found[k][1] \in ToSet(due.paramKeys)
                             \/ i # 0 /\ Beats(routes[i].matchitPath, due.matchitPath)
  BY DEF PathForResolves
<1>1. PICK D : D = DeclaredRoutes
  OBVIOUS
<1>2. PICK table \in Seq(D) : table = routes
  BY <1>1 DEF RouterInv
<1>3. PICK n \in Nat : n = Len(table) /\ DOMAIN table = 1..n /\ \A i \in 1..n : table[i] \in D
  OBVIOUS
<1>4. PICK last \in 1..n : last = LastNamed(name) /\ last = nameIndex[name]
  <2>1. name \in NamesOf(table)
    BY <1>2 DEF NamesOf
  <2>2. LastIn(table, name) \in 1..n
    BY <1>3, <2>1, LastInIs
  <2>3. LastNamed(name) = LastIn(table, name)
    BY <1>2 DEF LastNamed, LastIn
  <2>4. nameIndex[name] = LastIn(table, name)
    BY <1>2, <2>1 DEF NameInv, NamedLast
  <2> QED BY <2>2, <2>3, <2>4
<1>5. PICK due \in D : due = table[last]
  BY <1>3
<1>6. RouteIs(due) /\ ~Slashed(due.matchitPath) /\ params \in Assignments(due)
  BY <1>1, <1>2, <1>4, <1>5, DeclaredRoutesAre, NeatRoutesAre
<1>7. DOMAIN params \in SUBSET ParamNames(due) /\ \A k \in DOMAIN params : params[k] \in ParamValues
  BY <1>6, AssignmentIs
<1>8. PICK path : path = PathFor(due, params)
  OBVIOUS
<1>9. ASSUME DOMAIN params # ParamNames(due) PROVE path = <<>>
  BY <1>6, <1>7, <1>8, <1>9, PathForMissing
<1>10. PICK w : w = RouteAt(table, due.method, path)
  OBVIOUS
<1>11. ASSUME DOMAIN params = ParamNames(due)
       PROVE  \/ /\ w = last
                 /\ \A k \in DOMAIN PathParams(due, path) :
                      /\ params[PathParams(due, path)[k][1]] = PathParams(due, path)[k][2]
                      /\ PathParams(due, path)[k][1] \in ToSet(due.paramKeys)
              \/ w # 0 /\ Beats(table[w].matchitPath, due.matchitPath)
  <2>0. PICK V : V = ParamValues
    OBVIOUS
  <2>1. \A k \in DOMAIN params : params[k] \in ParamValues /\ NonEmpty(params[k])
    BY <1>7, MenuAssumption
  <2>2. /\ path \in Seq(Pieces \cup ParamValues) /\ Matches(due.matchitPath, path)
        /\ \A k \in DOMAIN PathParams(due, path) :
             /\ params[PathParams(due, path)[k][1]] = PathParams(due, path)[k][2]
             /\ PathParams(due, path)[k][1] \in ToSet(due.paramKeys)
    <3>1. \A k \in DOMAIN params : params[k] \in V /\ NonEmpty(params[k])
      BY <2>0, <2>1
    <3>2. /\ PathFor(due, params) \in Seq(Pieces \cup V) /\ Matches(due.matchitPath, PathFor(due, params))
          /\ \A k \in DOMAIN PathParams(due, PathFor(due, params)) :
               /\ params[PathParams(due, PathFor(due, params))[k][1]] = PathParams(due, PathFor(due, params))[k][2]
               /\ PathParams(due, PathFor(due, params))[k][1] \in ToSet(due.paramKeys)
      BY <1>6, <1>11, <3>1, PathForMatches, Zenon
    <3> QED BY <1>8, <2>0, <3>2
  <2>3. PICK S : S = Pieces \cup ParamValues
    OBVIOUS
  <2>4. PICK way \in Seq(S) : way = path
    BY <2>2, <2>3
  <2>5. \A i \in 1..n : table[i].matchitPath \in Seq(S)
    <3> TAKE i \in 1..n
    <3>1. PICK P : P = Pieces /\ P \subseteq S
      BY <2>3
    <3>2. table[i].matchitPath \in Seq(P)
      BY <1>1, <1>3, <3>1, DeclaredRoutesAre DEF RouteIs
    <3>3. \A s \in Seq(P) : s \in Seq(S)
      BY <3>1
    <3> QED BY <3>2, <3>3
  <2>6. TableMethod(due.method) = due.method
    BY <1>6 DEF RouteIs, TableMethod, Methods
  <2>7. PICK method : method = due.method
    OBVIOUS
  <2>8. ~CompileFails(table)
    BY <1>2
  <2>9. /\ w \in 0..n
        /\ w # 0 => \A i \in 1..n :
                      /\ table[i].method = TableMethod(method)
                      /\ Matches(table[i].matchitPath, way)
                      /\ i # w
                      => Beats(table[w].matchitPath, table[i].matchitPath)
        /\ w = 0 => \A i \in 1..n : ~(/\ table[i].method = TableMethod(method)
                                     /\ Matches(table[i].matchitPath, way))
    <3>1. w = RouteAt(table, method, way)
      BY <1>10, <2>4, <2>7
    <3>2. n = Len(table) /\ DOMAIN table = 1..n
      BY <1>3
    <3>3. WonBy(table, n, method, way, RouteAt(table, method, way))
      BY <2>5, <2>8, <3>2, RouteAtIs, Zenon
    <3>4. WonBy(table, n, method, way, w)
      BY <3>1, <3>3
    <3> QED BY <3>4 DEF WonBy
  <2>10. table[last].method = TableMethod(method) /\ Matches(table[last].matchitPath, way)
    BY <1>5, <2>2, <2>4, <2>6, <2>7
  <2>11. w # 0
    BY <2>9, <2>10
  <2> QED BY <1>5, <2>2, <2>9, <2>10, <2>11
<1> QED BY <1>2, <1>4, <1>5, <1>8, <1>9, <1>10, <1>11

(* Reverse routing undoes routing: what path_for builds under a name is     *)
(* resolved to the last route of that name, with the parameter values that  *)
(* went in, or to a route with a static segment where it has a parameter,   *)
(* for every table that compiles and however its prefixes were spelt.       *)
THEOREM PathForResolvesHolds ==
    RequestSpec => []PathForResolves
BY NamesAlways, NamesShow, PTL

-----------------------------------------------------------------------------
(* The standard plugs.                                                      *)

ConnFields ==
    {"method", "path", "headers", "query", "status", "resp", "respBody", "halted", "assigns"}
Codes == {200, 304, 403, 404, 511}
IsBody(b) == DOMAIN b = {"of", "enc", "version"} /\ b.version \in Nat

(* A Conn is a record with one of the statuses and a body.                  *)
Shape(c) ==
    /\ DOMAIN c = ConnFields
    /\ c.status \in Codes
    /\ IsFiniteSet(DOMAIN c.resp)
    /\ IsBody(c.respBody)
    /\ c.halted \in BOOLEAN

(* A plug works on the Conn it is given.                                    *)
Frame(c, d) ==
    DOMAIN d = ConnFields /\ d.method = c.method /\ d.path = c.path /\ d.headers = c.headers

(* What the plugs set besides the tag, the encoding and the length.         *)
OwnNames == {"x-request-id", "x-csrf-token", "content-type", "cache-control"} \cup SecureNames

HeadersKept(c, d) ==
    /\ DOMAIN c.resp \subseteq DOMAIN d.resp
    /\ DOMAIN d.resp \subseteq DOMAIN c.resp \cup OwnNames
    /\ \A n \in DOMAIN c.resp : n \notin OwnNames => d.resp[n] = c.resp[n]

Light(c, d) ==
    /\ Frame(c, d) /\ HeadersKept(c, d)
    /\ d.status = c.status /\ d.respBody = c.respBody /\ d.halted = c.halted

-----------------------------------------------------------------------------
(* The setters of Conn.                                                     *)
LEMMA PutStatusFacts ==
    ASSUME NEW c, DOMAIN c = ConnFields, NEW s
    PROVE  /\ Frame(c, PutStatus(c, s)) /\ PutStatus(c, s).status = s
           /\ PutStatus(c, s).resp = c.resp /\ PutStatus(c, s).respBody = c.respBody
           /\ PutStatus(c, s).halted = c.halted
           /\ PutStatus(c, s).query = c.query /\ PutStatus(c, s).assigns = c.assigns
BY DEF PutStatus, Frame, ConnFields

(* What Conn::put_resp_body changes.                                        *)
LEMMA PutBodyFacts ==
    ASSUME NEW c, DOMAIN c = ConnFields, NEW b
    PROVE  /\ Frame(c, PutBody(c, b)) /\ PutBody(c, b).respBody = b
           /\ PutBody(c, b).resp = c.resp /\ PutBody(c, b).status = c.status
           /\ PutBody(c, b).halted = c.halted
           /\ PutBody(c, b).query = c.query /\ PutBody(c, b).assigns = c.assigns
BY DEF PutBody, Frame, ConnFields

(* What Conn::halt changes.                                                 *)
LEMMA HaltFacts ==
    ASSUME NEW c, DOMAIN c = ConnFields
    PROVE  /\ Frame(c, Halt(c)) /\ Halt(c).halted = TRUE
           /\ Halt(c).resp = c.resp /\ Halt(c).status = c.status /\ Halt(c).respBody = c.respBody
           /\ Halt(c).query = c.query /\ Halt(c).assigns = c.assigns
BY DEF Halt, Frame, ConnFields

(* What Conn::put_resp_header changes.                                      *)
LEMMA PutHeaderFacts ==
    ASSUME NEW c, DOMAIN c = ConnFields, NEW n, NEW v
    PROVE  /\ Frame(c, PutHeader(c, n, v))
           /\ PutHeader(c, n, v).resp = With(c.resp, n, v)
           /\ PutHeader(c, n, v).respBody = c.respBody /\ PutHeader(c, n, v).status = c.status
           /\ PutHeader(c, n, v).halted = c.halted
           /\ PutHeader(c, n, v).query = c.query /\ PutHeader(c, n, v).assigns = c.assigns
BY DEF PutHeader, Frame, ConnFields

(* What Conn::assign changes.                                               *)
LEMMA AssignFacts ==
    ASSUME NEW c, DOMAIN c = ConnFields, NEW n, NEW v
    PROVE  /\ Frame(c, Assign(c, n, v))
           /\ Assign(c, n, v).assigns = <<With(Assigns(c), n, v)>>
           /\ Assign(c, n, v).respBody = c.respBody /\ Assign(c, n, v).status = c.status
           /\ Assign(c, n, v).halted = c.halted
           /\ Assign(c, n, v).query = c.query /\ Assign(c, n, v).resp = c.resp
BY DEF Assign, Frame, ConnFields

(* What Conn::parse_query_params changes.                                   *)
LEMMA ParseQueryFacts ==
    ASSUME NEW c, DOMAIN c = ConnFields
    PROVE  /\ Frame(c, ParseQueryParams(c))
           /\ ParseQueryParams(c).query = IF c.headers.query = {} THEN c.query ELSE <<c.headers.query>>
           /\ ParseQueryParams(c).respBody = c.respBody /\ ParseQueryParams(c).status = c.status
           /\ ParseQueryParams(c).halted = c.halted
           /\ ParseQueryParams(c).assigns = c.assigns /\ ParseQueryParams(c).resp = c.resp
BY DEF ParseQueryParams, Frame, ConnFields

(* An insert into a map changes its one key.                                *)
LEMMA WithFacts ==
    ASSUME NEW f, NEW k, NEW v
    PROVE  /\ DOMAIN With(f, k, v) = DOMAIN f \cup {k}
           /\ With(f, k, v)[k] = v
           /\ \A x \in DOMAIN f : x # k => With(f, k, v)[x] = f[x]
BY DEF With

(* unwrap_or of Some(x) is x.                                               *)
LEMMA UnwrapSome == ASSUME NEW x, NEW d PROVE UnwrapOr(<<x>>, d) = x
BY DEF UnwrapOr
-----------------------------------------------------------------------------
(* What each plug does to a Conn.                                           *)
LEMMA OwnHeader ==
    ASSUME NEW c, DOMAIN c = ConnFields, NEW n \in OwnNames, NEW v
    PROVE  Light(c, PutHeader(c, n, v))
<1> DEFINE d == PutHeader(c, n, v)
<1>1. /\ Frame(c, d) /\ d.resp = With(c.resp, n, v)
      /\ d.status = c.status /\ d.respBody = c.respBody /\ d.halted = c.halted
  BY PutHeaderFacts
<1>2. /\ DOMAIN With(c.resp, n, v) = DOMAIN c.resp \cup {n}
      /\ \A x \in DOMAIN c.resp : x # n => With(c.resp, n, v)[x] = c.resp[x]
  BY DEF With
<1> HIDE DEF d
<1>3. HeadersKept(c, d)
  BY <1>1, <1>2 DEF HeadersKept
<1>4. Light(c, d)
  BY <1>1, <1>3 DEF Light
<1> QED BY <1>4 DEF d

(* Two light plugs one after the other are light.                           *)
LEMMA LightTransitive ==
    ASSUME NEW c, NEW d, NEW e, Light(c, d), Light(d, e)
    PROVE  Light(c, e)
BY DEF Light, HeadersKept, Frame

(* assign is light.                                                         *)
LEMMA AssignIsLight ==
    ASSUME NEW c, DOMAIN c = ConnFields, NEW n, NEW v
    PROVE  Light(c, Assign(c, n, v))
BY AssignFacts DEF Light, HeadersKept

(* RequestId only sets a header and an assign.                              *)
LEMMA RequestIdIsLight ==
    ASSUME NEW c, DOMAIN c = ConnFields, NEW fresh
    PROVE  Light(c, RequestId(c, fresh))
<1> DEFINE id == IF c.headers.id = "none" THEN fresh ELSE c.headers.id
           d  == Assign(c, "request_id", id)
<1>1. Light(c, d)
  BY AssignIsLight
<1>2. DOMAIN d = ConnFields
  BY <1>1 DEF Light, Frame
<1>3. Light(d, PutHeader(d, "x-request-id", id))
  <2> HIDE DEF d, id
  <2> QED BY <1>2, OwnHeader DEF OwnNames
<1>4. RequestId(c, fresh) = PutHeader(d, "x-request-id", id)
  BY DEF RequestId
<1> HIDE DEF d, id
<1> QED BY <1>1, <1>3, <1>4, LightTransitive

(* SecureHeaders only sets headers.                                         *)
LEMMA SecureHeadersIsLight ==
    ASSUME NEW c, DOMAIN c = ConnFields
    PROVE  Light(c, SecureHeaders(c))
<1> DEFINE h == [n \in DOMAIN c.resp \cup SecureNames |-> IF n \in SecureNames THEN TRUE ELSE c.resp[n]]
<1>1. /\ DOMAIN h = DOMAIN c.resp \cup SecureNames
      /\ \A n \in DOMAIN c.resp : n \notin SecureNames => h[n] = c.resp[n]
  OBVIOUS
<1>2. SecureHeaders(c) = [c EXCEPT !.resp = h]
  BY DEF SecureHeaders
<1> HIDE DEF h
<1>3. /\ Frame(c, SecureHeaders(c)) /\ SecureHeaders(c).resp = h
      /\ SecureHeaders(c).status = c.status /\ SecureHeaders(c).respBody = c.respBody
      /\ SecureHeaders(c).halted = c.halted
  BY <1>2 DEF Frame, ConnFields
<1> QED BY <1>1, <1>3 DEF Light, HeadersKept, OwnNames

(* CsrfProtection lets a Conn pass, or halts it with a 403.                 *)
Refused(c, d) ==
    /\ c.method \notin {"GET", "HEAD", "OPTIONS"}
    /\ Frame(c, d) /\ d.status = 403 /\ d.halted = TRUE /\ d.resp = c.resp
    /\ d.respBody = Body("forbidden", Identity, 1)

(* CsrfProtection lets a Conn pass or halts it with 403.                    *)
LEMMA CsrfEffect ==
    ASSUME NEW c, DOMAIN c = ConnFields, NEW fresh
    PROVE  \/ Light(c, CsrfProtection(c, fresh))
           \/ Refused(c, CsrfProtection(c, fresh))
<1>1. CASE c.method \in {"GET", "HEAD", "OPTIONS"}
  <2> DEFINE d == Assign(c, "csrf", fresh)
  <2>1. Light(c, d)
    BY AssignIsLight
  <2>2. DOMAIN d = ConnFields
    BY <2>1 DEF Light, Frame
  <2>3. CsrfProtection(c, fresh) = PutHeader(d, "x-csrf-token", fresh)
    BY <1>1 DEF CsrfProtection
  <2> HIDE DEF d
  <2>4. Light(d, PutHeader(d, "x-csrf-token", fresh))
    BY <2>2, OwnHeader DEF OwnNames
  <2> QED BY <2>1, <2>3, <2>4, LightTransitive
<1>2. CASE c.method \notin {"GET", "HEAD", "OPTIONS"} /\ c.headers.csrf = "valid"
  BY <1>2, AssignIsLight DEF CsrfProtection
<1>3. CASE c.method \notin {"GET", "HEAD", "OPTIONS"} /\ c.headers.csrf # "valid"
  <2> DEFINE a == PutStatus(c, 403)
             b == PutBody(a, Body("forbidden", Identity, 1))
  <2>1. CsrfProtection(c, fresh) = Halt(b)
    BY <1>3 DEF CsrfProtection
  <2>2. Frame(c, a) /\ a.status = 403 /\ a.resp = c.resp
    BY PutStatusFacts
  <2>3. /\ Frame(a, b) /\ b.status = a.status /\ b.resp = a.resp
        /\ b.respBody = Body("forbidden", Identity, 1)
    <3> HIDE DEF a
    <3> QED BY <2>2, PutBodyFacts DEF Frame
  <2> HIDE DEF a, b
  <2>4. /\ Frame(b, Halt(b)) /\ Halt(b).halted = TRUE /\ Halt(b).status = b.status
        /\ Halt(b).resp = b.resp /\ Halt(b).respBody = b.respBody
    BY <2>3, HaltFacts DEF Frame
  <2> QED BY <1>3, <2>1, <2>2, <2>3, <2>4 DEF Frame, Refused
<1> QED BY <1>1, <1>2, <1>3

(* A 304 is halted and empty; its headers stay.                             *)
LEMMA NotModifiedEffect ==
    ASSUME NEW c, DOMAIN c = ConnFields
    PROVE  /\ Frame(c, NotModified(c)) /\ NotModified(c).status = 304 /\ NotModified(c).halted = TRUE
           /\ NotModified(c).resp = c.resp /\ NotModified(c).respBody = EmptyBody
           /\ NotModified(c).query = c.query /\ NotModified(c).assigns = c.assigns
<1> DEFINE a == PutStatus(c, 304)
           b == PutBody(a, EmptyBody)
<1>1. NotModified(c) = Halt(b)
  BY DEF NotModified
<1>2. Frame(c, a) /\ a.status = 304 /\ a.resp = c.resp /\ a.query = c.query /\ a.assigns = c.assigns
  BY PutStatusFacts
<1>3. /\ Frame(a, b) /\ b.status = a.status /\ b.resp = a.resp /\ b.respBody = EmptyBody
      /\ b.query = a.query /\ b.assigns = a.assigns
  <2> HIDE DEF a
  <2> QED BY <1>2, PutBodyFacts DEF Frame
<1> HIDE DEF a, b
<1>4. /\ Frame(b, Halt(b)) /\ Halt(b).halted = TRUE /\ Halt(b).status = b.status
      /\ Halt(b).resp = b.resp /\ Halt(b).respBody = b.respBody
      /\ Halt(b).query = b.query /\ Halt(b).assigns = b.assigns
  BY <1>3, HaltFacts DEF Frame
<1> QED BY <1>1, <1>2, <1>3, <1>4 DEF Frame

(* The handler: a page, a stream, an odd status, or 404.                    *)
LEMMA HandlerEffect ==
    ASSUME NEW c, DOMAIN c = ConnFields, NEW d, d = RouteHandler(c)
    PROVE  /\ Frame(c, d) /\ HeadersKept(c, d) /\ d.halted = c.halted
           /\ c.path = "/page" => d.status = c.status /\ d.respBody = Body("/page", Identity, page)
           /\ c.path = "/events" => d.status = 200 /\ d.respBody = c.respBody
           /\ c.path = "/odd" => d.status = 511 /\ d.respBody = c.respBody
           /\ c.path \notin {"/page", "/events", "/odd"} =>
                d.status = 404 /\ d.respBody = Body("missing", Identity, 1)
<1>1. CASE c.path = "/page"
  <2> DEFINE a == ParseQueryParams(c)
  <2>1. RouteHandler(c) = PutBody(a, Body("/page", Identity, page))
    BY <1>1 DEF RouteHandler
  <2>2. Frame(c, a) /\ a.status = c.status /\ a.resp = c.resp /\ a.halted = c.halted
    BY ParseQueryFacts
  <2> HIDE DEF a
  <2>3. /\ Frame(a, d) /\ d.status = a.status /\ d.resp = a.resp /\ d.halted = a.halted
        /\ d.respBody = Body("/page", Identity, page)
    BY <2>1, <2>2, PutBodyFacts DEF Frame
  <2> QED BY <1>1, <2>1, <2>2, <2>3 DEF Frame, HeadersKept
<1>2. CASE c.path = "/events"
  <2> DEFINE a == PutStatus(c, 200)
             b == PutHeader(a, "content-type", TRUE)
             e == PutHeader(b, "cache-control", TRUE)
  <2>1. RouteHandler(c) = Assign(e, "sse_stream", TRUE)
    BY <1>2 DEF RouteHandler, SseResponse
  <2>2. /\ Frame(c, a) /\ a.status = 200 /\ a.resp = c.resp /\ a.halted = c.halted
        /\ a.respBody = c.respBody
    BY PutStatusFacts
  <2>3. Light(a, b)
    <3> HIDE DEF a
    <3> QED BY <2>2, OwnHeader DEF OwnNames, Frame
  <2>4. Light(b, e)
    <3>1. DOMAIN b = ConnFields
      BY <2>3 DEF Light, Frame
    <3> HIDE DEF b
    <3> QED BY <3>1, OwnHeader DEF OwnNames
  <2> HIDE DEF a, b, e
  <2>5. Light(e, Assign(e, "sse_stream", TRUE))
    <3>1. DOMAIN e = ConnFields
      BY <2>4 DEF Light, Frame
    <3> QED BY <3>1, AssignIsLight
  <2>6. Light(a, Assign(e, "sse_stream", TRUE))
    BY <2>3, <2>4, <2>5, LightTransitive
  <2> QED BY <1>2, <2>1, <2>2, <2>6, ZenonT(30) DEF Light, Frame, HeadersKept
<1>3. CASE c.path = "/odd"
  <2>1. RouteHandler(c) = PutStatus(c, 511)
    BY <1>3 DEF RouteHandler
  <2> QED BY <1>3, <2>1, PutStatusFacts DEF HeadersKept
<1>4. CASE c.path \notin {"/page", "/events", "/odd"}
  <2> DEFINE a == PutStatus(c, 404)
  <2>1. RouteHandler(c) = PutBody(a, Body("missing", Identity, 1))
    BY <1>4 DEF RouteHandler
  <2>2. Frame(c, a) /\ a.status = 404 /\ a.resp = c.resp /\ a.halted = c.halted
    BY PutStatusFacts
  <2> HIDE DEF a
  <2>3. /\ Frame(a, d) /\ d.status = a.status /\ d.resp = a.resp /\ d.halted = a.halted
        /\ d.respBody = Body("missing", Identity, 1)
    BY <2>1, <2>2, PutBodyFacts DEF Frame
  <2> QED BY <1>4, <2>1, <2>2, <2>3 DEF Frame, HeadersKept
<1> QED BY <1>1, <1>2, <1>3, <1>4

(* ETag passes a Conn on, tags it, or turns it into a 304.                  *)
Tagged(c, d) ==
    /\ c.status = 200 /\ c.respBody # EmptyBody
    /\ Frame(c, d) /\ d.resp = With(c.resp, "etag", c.respBody)
    /\ \/ /\ c.headers.ifNoneMatch = c.respBody
          /\ d.status = 304 /\ d.halted = TRUE /\ d.respBody = EmptyBody
       \/ d.status = 200 /\ d.halted = c.halted /\ d.respBody = c.respBody

(* ETag leaves a Conn alone, or tags it, with a 304 for a tag that          *)
(* matches.                                                                 *)
LEMMA ETagEffect ==
    ASSUME NEW c, DOMAIN c = ConnFields
    PROVE  ETag(c) = c \/ Tagged(c, ETag(c))
<1>1. CASE c.status # 200 \/ c.respBody = EmptyBody
  BY <1>1 DEF ETag
<1>2. CASE c.status = 200 /\ c.respBody # EmptyBody
  <2> DEFINE t == PutHeader(c, "etag", c.respBody)
  <2>1. ETag(c) = IF c.headers.ifNoneMatch = c.respBody THEN NotModified(t) ELSE t
    BY <1>2 DEF ETag
  <2>2. /\ Frame(c, t) /\ t.resp = With(c.resp, "etag", c.respBody) /\ t.status = c.status
        /\ t.halted = c.halted /\ t.respBody = c.respBody
    BY PutHeaderFacts
  <2> HIDE DEF t
  <2>3. /\ Frame(t, NotModified(t)) /\ NotModified(t).status = 304 /\ NotModified(t).halted = TRUE
        /\ NotModified(t).resp = t.resp /\ NotModified(t).respBody = EmptyBody
    <3>1. DOMAIN t = ConnFields
      BY <2>2 DEF Frame
    <3> QED BY <3>1, NotModifiedEffect, ZenonT(30)
  <2>4. CASE c.headers.ifNoneMatch = c.respBody
    <3>1. ETag(c) = NotModified(t)
      BY <2>1, <2>4
    <3> QED BY <1>2, <2>2, <2>3, <2>4, <3>1 DEF Frame, Tagged
  <2>5. CASE c.headers.ifNoneMatch # c.respBody
    <3>1. ETag(c) = t
      BY <2>1, <2>5
    <3> QED BY <1>2, <2>2, <3>1 DEF Tagged
  <2> QED BY <2>4, <2>5
<1> QED BY <1>1, <1>2

(* A header is put without disturbing another one.                          *)
LEMMA PutOther ==
    ASSUME NEW c, DOMAIN c = ConnFields, NEW n, NEW v
    PROVE  LET d == PutHeader(c, n, v)
           IN  /\ Frame(c, d) /\ d.status = c.status /\ d.respBody = c.respBody
               /\ d.halted = c.halted /\ d.query = c.query /\ d.assigns = c.assigns
               /\ DOMAIN d.resp = DOMAIN c.resp \cup {n} /\ d.resp[n] = v
               /\ \A x \in DOMAIN c.resp : x # n => d.resp[x] = c.resp[x]
               /\ IsFiniteSet(DOMAIN c.resp) => IsFiniteSet(DOMAIN d.resp)
<1> DEFINE d == PutHeader(c, n, v)
<1>1. /\ Frame(c, d) /\ d.status = c.status /\ d.respBody = c.respBody
      /\ d.halted = c.halted /\ d.query = c.query /\ d.assigns = c.assigns
      /\ d.resp = With(c.resp, n, v)
  BY PutHeaderFacts
<1>2. /\ DOMAIN With(c.resp, n, v) = DOMAIN c.resp \cup {n} /\ With(c.resp, n, v)[n] = v
      /\ \A x \in DOMAIN c.resp : x # n => With(c.resp, n, v)[x] = c.resp[x]
  BY DEF With
<1>3. IsFiniteSet(DOMAIN c.resp) => IsFiniteSet(DOMAIN c.resp \cup {n})
  BY FS_AddElement
<1> HIDE DEF d
<1>4. /\ DOMAIN d.resp = DOMAIN c.resp \cup {n} /\ d.resp[n] = v
      /\ \A x \in DOMAIN c.resp : x # n => d.resp[x] = c.resp[x]
      /\ IsFiniteSet(DOMAIN c.resp) => IsFiniteSet(DOMAIN d.resp)
  BY <1>1, <1>2, <1>3
<1> QED BY <1>1, <1>4 DEF d

(* A file, or a variant of it, is served, confirmed, or described.          *)
Served(c, d, body) ==
    /\ Frame(c, d) /\ d.halted = TRUE
    /\ {"content-length", "etag"} \subseteq DOMAIN d.resp
    /\ d.resp["content-length"] = BodyLen(body) /\ d.resp["etag"] = body
    /\ body.enc # Identity => "content-encoding" \in DOMAIN d.resp /\ d.resp["content-encoding"] = body.enc
    /\ IsFiniteSet(DOMAIN c.resp) => IsFiniteSet(DOMAIN d.resp)
    /\ \/ /\ c.headers.ifNoneMatch = body
          /\ d.status = 304 /\ d.respBody = EmptyBody
       \/ /\ d.status = 200
          /\ d.respBody = IF c.method = "HEAD" THEN c.respBody ELSE body

(* A served file is halted, with its length and its tag.                    *)
LEMMA ServeFileEffect ==
    ASSUME NEW c, DOMAIN c = ConnFields, NEW body
    PROVE  Served(c, ServeFile(c, body), body)
<1> DEFINE a == PutStatus(c, 200)
           b == PutHeader(a, "content-type", TRUE)
           typed   == PutHeader(b, "cache-control", TRUE)
           encoded == IF body.enc = Identity THEN typed ELSE PutHeader(typed, "content-encoding", body.enc)
           varied  == IF body.of \in CompressiblePaths THEN PutHeader(encoded, "vary", TRUE) ELSE encoded
           long    == PutHeader(varied, "content-length", BodyLen(body))
           served  == PutHeader(long, "etag", body)
           Base(x) == /\ Frame(c, x) /\ x.status = 200 /\ x.respBody = c.respBody
                      /\ IsFiniteSet(DOMAIN c.resp) => IsFiniteSet(DOMAIN x.resp)
<1>0. ASSUME NEW x, Base(x), NEW n, NEW v PROVE Base(PutHeader(x, n, v))
  <2>1. DOMAIN x = ConnFields
    BY <1>0 DEF Frame
  <2> DEFINE y == PutHeader(x, n, v)
  <2>2. /\ Frame(x, y) /\ y.status = x.status /\ y.respBody = x.respBody
        /\ IsFiniteSet(DOMAIN x.resp) => IsFiniteSet(DOMAIN y.resp)
    BY <2>1, PutOther
  <2> HIDE DEF y
  <2>3. Base(y)
    BY <1>0, <2>2 DEF Frame
  <2> QED BY <2>3 DEF y
<1>1. Base(a)
  BY PutStatusFacts
<1>2. Base(b)
  <2> HIDE DEF a, Base
  <2> QED BY <1>0, <1>1
<1>3. Base(typed)
  <2> HIDE DEF b, Base
  <2> QED BY <1>0, <1>2
<1>4. Base(encoded) /\ (body.enc # Identity =>
                          "content-encoding" \in DOMAIN encoded.resp /\ encoded.resp["content-encoding"] = body.enc)
  <2> HIDE DEF typed
  <2>1. CASE body.enc = Identity
    BY <1>3, <2>1
  <2>2. CASE body.enc # Identity
    <3>1. encoded = PutHeader(typed, "content-encoding", body.enc)
      BY <2>2
    <3> HIDE DEF encoded
    <3> QED BY <1>3, <2>2, <3>1, PutOther DEF Frame
  <2> QED BY <2>1, <2>2
<1>5. Base(varied) /\ (body.enc # Identity =>
                         "content-encoding" \in DOMAIN varied.resp /\ varied.resp["content-encoding"] = body.enc)
  <2> HIDE DEF encoded
  <2>1. CASE body.of \in CompressiblePaths
    <3>1. varied = PutHeader(encoded, "vary", TRUE)
      BY <2>1
    <3> HIDE DEF varied
    <3>2. Base(varied)
      <4> HIDE DEF Base
      <4> QED BY <1>0, <1>4, <3>1
    <3>3. DOMAIN encoded = ConnFields
      BY <1>4 DEF Frame
    <3>4. /\ DOMAIN varied.resp = DOMAIN encoded.resp \cup {"vary"}
          /\ \A x \in DOMAIN encoded.resp : x # "vary" => varied.resp[x] = encoded.resp[x]
      <4>1. varied.resp = With(encoded.resp, "vary", TRUE)
        BY <3>1, <3>3, PutHeaderFacts, ZenonT(30)
      <4> QED BY <4>1 DEF With
    <3> QED BY <1>4, <3>2, <3>4
  <2>2. CASE body.of \notin CompressiblePaths
    BY <1>4, <2>2
  <2> QED BY <2>1, <2>2
<1>6. /\ Base(long) /\ "content-length" \in DOMAIN long.resp /\ long.resp["content-length"] = BodyLen(body)
      /\ body.enc # Identity =>
            "content-encoding" \in DOMAIN long.resp /\ long.resp["content-encoding"] = body.enc
  <2> HIDE DEF varied
  <2> QED BY <1>5, PutOther DEF Frame
<1>7. /\ Base(served) /\ {"content-length", "etag"} \subseteq DOMAIN served.resp
      /\ served.resp["content-length"] = BodyLen(body) /\ served.resp["etag"] = body
      /\ body.enc # Identity => "content-encoding" \in DOMAIN served.resp /\ served.resp["content-encoding"] = body.enc
  <2> HIDE DEF long
  <2> QED BY <1>6, PutOther DEF Frame
<1>8. ServeFile(c, body) = IF c.headers.ifNoneMatch = body THEN NotModified(served)
                           ELSE Halt(IF c.method = "HEAD" THEN served ELSE PutBody(served, body))
  BY DEF ServeFile, CheckEtag
<1> HIDE DEF a, b, typed, encoded, varied, long, served
<1>9. CASE c.headers.ifNoneMatch = body
  <2>1. /\ Frame(served, NotModified(served)) /\ NotModified(served).status = 304
        /\ NotModified(served).halted = TRUE /\ NotModified(served).resp = served.resp
        /\ NotModified(served).respBody = EmptyBody
    <3>1. DOMAIN served = ConnFields
      BY <1>7 DEF Frame
    <3> QED BY <3>1, NotModifiedEffect, ZenonT(30)
  <2>2. ServeFile(c, body) = NotModified(served)
    BY <1>8, <1>9
  <2> QED BY <1>7, <1>9, <2>1, <2>2 DEF Frame, Served
<1>10. CASE c.headers.ifNoneMatch # body
  <2> DEFINE m == IF c.method = "HEAD" THEN served ELSE PutBody(served, body)
  <2>1. /\ Frame(c, m) /\ m.status = 200 /\ m.resp = served.resp
        /\ m.respBody = IF c.method = "HEAD" THEN c.respBody ELSE body
    <3>1. CASE c.method = "HEAD"
      BY <1>7, <3>1
    <3>2. CASE c.method # "HEAD"
      <4>1. m = PutBody(served, body)
        BY <3>2
      <4> HIDE DEF m
      <4> QED BY <1>7, <3>2, <4>1, PutBodyFacts DEF Frame
    <3> QED BY <3>1, <3>2
  <2>2. ServeFile(c, body) = Halt(m)
    BY <1>8, <1>10
  <2> HIDE DEF m
  <2>3. /\ Frame(m, Halt(m)) /\ Halt(m).halted = TRUE
        /\ Halt(m).resp = m.resp /\ Halt(m).status = m.status /\ Halt(m).respBody = m.respBody
    BY <2>1, HaltFacts DEF Frame
  <2> QED BY <1>7, <2>1, <2>2, <2>3 DEF Frame, Served
<1> QED BY <1>9, <1>10

(* The first variant StaticFiles finds is one of those it may serve.        *)
LEMMA FirstVariant ==
    ASSUME NEW V \in SUBSET (1..3), V # {}
    PROVE  Min(V) \in V
<1>1. \E i \in V : \A j \in V : i <= j
  <2>1. CASE 1 \in V
    BY <2>1
  <2>2. CASE 1 \notin V /\ 2 \in V
    BY <2>2
  <2>3. CASE 1 \notin V /\ 2 \notin V
    <3>1. PICK i \in V : TRUE
      OBVIOUS
    <3>2. \A j \in V : j = 3
      BY <2>3
    <3> QED BY <3>1, <3>2
  <2> QED BY <2>1, <2>2, <2>3
<1> QED BY <1>1 DEF Min

(* StaticFiles passes a Conn on, or serves the file or a variant of it that *)
(* is on the disk and that the client accepts.                              *)
Servable(c, body) ==
    /\ c.path \in StaticPaths
    /\ \E e \in {Identity, "br", "zstd", "gzip"} :
         body = Body(c.path, e, disk[c.path][e]) /\ (e # Identity => e \in c.headers.accept)

(* StaticFiles passes, answers 304, or serves what exists.                  *)
LEMMA StaticFilesEffect ==
    ASSUME NEW c, NEW readable
    PROVE  \/ StaticFiles(c, readable) = c
           \/ \E body : Servable(c, body) /\ StaticFiles(c, readable) = ServeFile(c, body)
<1> DEFINE there    == {e \in readable : disk[c.path][e] # 0}
           variants == {i \in DOMAIN Encodings : Encodings[i] \in there \cap c.headers.accept}
           choice   == IF c.path \in CompressiblePaths /\ variants # {} THEN Encodings[Min(variants)]
                       ELSE Identity
           passed   == \/ c.method \notin {"GET", "HEAD"} \/ c.path \notin StaticPaths
                       \/ disk[c.path][Identity] = 0 \/ choice \notin there
<1>1. StaticFiles(c, readable) =
        IF passed THEN c ELSE ServeFile(c, Body(c.path, choice, disk[c.path][choice]))
  BY DEF StaticFiles
<1>2. /\ choice \in {Identity, "br", "zstd", "gzip"}
      /\ choice # Identity => choice \in c.headers.accept
  <2>1. CASE c.path \in CompressiblePaths /\ variants # {}
    <3>1. DOMAIN Encodings = 1..3 /\ \A i \in 1..3 : Encodings[i] \in {"br", "zstd", "gzip"}
      BY DEF Encodings
    <3>2. variants \in SUBSET (1..3)
      BY <3>1
    <3>3. Min(variants) \in variants
      <4> HIDE DEF variants
      <4> QED BY <2>1, <3>2, FirstVariant
    <3>4. choice = Encodings[Min(variants)]
      BY <2>1
    <3>5. PICK k \in 1..3 : k = Min(variants)
      BY <3>2, <3>3
    <3>6. Encodings[k] \in c.headers.accept
      BY <3>3, <3>5
    <3> QED BY <3>1, <3>4, <3>5, <3>6
  <2>2. CASE ~(c.path \in CompressiblePaths /\ variants # {})
    BY <2>2
  <2> QED BY <2>1, <2>2
<1>3. CASE passed
  BY <1>1, <1>3
<1>4. CASE ~passed
  <2> DEFINE body == Body(c.path, choice, disk[c.path][choice])
  <2>1. c.path \in StaticPaths
    BY <1>4
  <2>2. StaticFiles(c, readable) = ServeFile(c, body)
    BY <1>1, <1>4
  <2>3. Servable(c, body)
    <3> HIDE DEF choice
    <3> QED BY <1>2, <2>1 DEF Servable
  <2> HIDE DEF body
  <2> QED BY <2>2, <2>3
<1> HIDE DEF passed
<1> QED BY <1>3, <1>4

-----------------------------------------------------------------------------
(* Framing and room: the shape of the Conn, and what may be said of its     *)
(* length and its body while the plugs run.                                 *)

VersionTypes ==
    /\ page \in Nat
    /\ disk \in [StaticPaths -> [{Identity, "br", "zstd", "gzip"} -> Nat]]

(* Only a Conn that is halted is a 304 or has a length of its own.          *)
Framing(c) ==
    /\ c.status = 304 => c.halted /\ c.respBody = EmptyBody
    /\ "content-length" \in DOMAIN c.resp =>
          /\ c.halted
          /\ c.method = "HEAD" \/ c.status = 304 \/ c.resp["content-length"] = BodyLen(c.respBody)

FramingInv ==
    /\ VersionTypes /\ Shape(conn) /\ Framing(conn)
    /\ exchange.pc = "answered" =>
          wire.unsafe <= capacity /\ wire = SerializeResponse(conn)
    /\ capacity \in Nat
    /\ DOMAIN exchange = {"pc", "chain", "todo", "count", "changes"}
    /\ exchange.chain \in Chains /\ exchange.todo \in Seq(Plugs)

(* What Body makes is a body.                                               *)
LEMMA BodyIsBody ==
    ASSUME NEW of, NEW enc, NEW v \in Nat PROVE IsBody(Body(of, enc, v))
BY DEF IsBody, Body

(* The empty body is one, of length 0.                                      *)
LEMMA EmptyIsBody == IsBody(EmptyBody) /\ BodyLen(EmptyBody) = 0
BY SizeAssumption DEF IsBody, EmptyBody, BodyLen

(* Conn::new makes a Conn of the shape.                                     *)
LEMMA NewIsShaped ==
    ASSUME NEW r
    PROVE  /\ Shape(ConnNew(r)) /\ Framing(ConnNew(r))
           /\ ConnNew(r).method = r.method /\ ConnNew(r).path = r.path /\ ConnNew(r).headers = r
           /\ ConnNew(r).status = 200 /\ ConnNew(r).respBody = EmptyBody
           /\ ConnNew(r).halted = FALSE /\ DOMAIN ConnNew(r).resp = {}
<1> DEFINE c == ConnNew(r)
<1>1. /\ DOMAIN c = ConnFields /\ c.method = r.method /\ c.path = r.path /\ c.headers = r
      /\ c.status = 200 /\ c.respBody = EmptyBody /\ c.halted = FALSE /\ c.resp = <<>>
  BY DEF ConnNew, ConnFields
<1>2. DOMAIN c.resp = {} /\ IsFiniteSet(DOMAIN c.resp)
  BY <1>1, FS_EmptySet
<1> HIDE DEF c
<1>3. Shape(c)
  <2>1. c.halted \in BOOLEAN /\ c.status \in Codes
    BY <1>1, ZenonT(30) DEF Codes
  <2> QED BY <2>1, <1>1, <1>2, EmptyIsBody DEF Shape
<1>4. Framing(c)
  BY <1>1, <1>2 DEF Framing
<1> QED BY <1>1, <1>2, <1>3, <1>4 DEF c

(* A Conn before its first plug.                                            *)
Blank(c, r) ==
    /\ c.method = r.method /\ c.path = r.path /\ c.headers = r
    /\ c.status = 200 /\ c.respBody = EmptyBody /\ c.halted = FALSE /\ DOMAIN c.resp = {}

(* Conn::new gives a Conn of that shape, and a blank one.                   *)
LEMMA NewIsBlank ==
    ASSUME NEW r
    PROVE  Shape(ConnNew(r)) /\ Framing(ConnNew(r)) /\ Blank(ConnNew(r), r)
<1> DEFINE c == ConnNew(r)
<1>1. /\ Shape(c) /\ Framing(c) /\ c.method = r.method /\ c.path = r.path /\ c.headers = r
      /\ c.status = 200 /\ c.respBody = EmptyBody /\ c.halted = FALSE /\ DOMAIN c.resp = {}
  BY NewIsShaped, ZenonT(30)
<1> HIDE DEF c
<1>2. Blank(c, r)
  BY <1>1 DEF Blank
<1> QED BY <1>1, <1>2 DEF c

(* The header names the plugs use are finitely many.                        *)
LEMMA FiniteNames == IsFiniteSet(OwnNames)
<1>1. IsFiniteSet({}) /\ \A S, x : IsFiniteSet(S) => IsFiniteSet(S \cup {x})
  BY FS_EmptySet, FS_AddElement
<1>2. OwnNames = ((((((((((({} \cup {"x-request-id"}) \cup {"x-csrf-token"}) \cup {"content-type"})
         \cup {"cache-control"}) \cup {"x-content-type-options"}) \cup {"x-frame-options"})
         \cup {"x-xss-protection"}) \cup {"strict-transport-security"}) \cup {"x-download-options"})
         \cup {"x-permitted-cross-domain-policies"}) \cup {"referrer-policy"})
  BY DEF OwnNames, SecureNames
<1> QED BY <1>1, <1>2

(* A light plug leaves the framing as it is.                                *)
LEMMA LightKeepsFraming ==
    ASSUME NEW c, NEW d, Shape(c), Framing(c), Light(c, d), ~c.halted
    PROVE  Shape(d) /\ Framing(d)
<1>1. IsFiniteSet(DOMAIN d.resp)
  <2>1. IsFiniteSet(DOMAIN c.resp \cup OwnNames)
    BY FiniteNames, FS_Union DEF Shape
  <2>2. DOMAIN d.resp \in SUBSET (DOMAIN c.resp \cup OwnNames)
    BY DEF Light, HeadersKept
  <2> QED BY <2>1, <2>2, FS_Subset
<1>2. "content-length" \notin OwnNames
  BY DEF OwnNames, SecureNames
<1> QED BY <1>1, <1>2 DEF Shape, Framing, Light, Frame, HeadersKept

(* A plug leaves the Conn alone but for headers of its own, refuses it,     *)
(* handles it, tags it, or serves a file.                                   *)
LEMMA PlugEffect ==
    ASSUME NEW c, DOMAIN c = ConnFields, NEW plug \in Plugs, NEW fresh, NEW readable,
           NEW d, d = CallPlug(plug, c, fresh, readable)
    PROVE  \/ plug = "handler" /\ d = RouteHandler(c)
           \/ /\ plug # "handler"
              /\ \/ Light(c, d) \/ Refused(c, d) \/ d = ETag(c)
                 \/ \E body : Servable(c, body) /\ d = ServeFile(c, body)
<1>0. Light(c, c)
  BY DEF Light, Frame, HeadersKept
<1>1. CASE plug = "logger_start"
  <2>1. d = Assign(c, "start_time", TRUE)
    BY <1>1 DEF CallPlug, LoggerStart
  <2> QED BY <1>1, <2>1, AssignIsLight
<1>2. CASE plug = "logger_finish"
  <2>1. d = c
    BY <1>2 DEF CallPlug
  <2> QED BY <1>0, <1>2, <2>1
<1>3. CASE plug = "request_id"
  <2>1. d = RequestId(c, fresh)
    BY <1>3 DEF CallPlug
  <2> QED BY <1>3, <2>1, RequestIdIsLight
<1>4. CASE plug = "csrf"
  <2>1. d = CsrfProtection(c, fresh)
    BY <1>4 DEF CallPlug
  <2> QED BY <1>4, <2>1, CsrfEffect
<1>5. CASE plug = "secure_headers"
  <2>1. d = SecureHeaders(c)
    BY <1>5 DEF CallPlug
  <2> QED BY <1>5, <2>1, SecureHeadersIsLight
<1>6. CASE plug = "handler"
  BY <1>6 DEF CallPlug
<1>7. CASE plug = "etag"
  <2>1. d = ETag(c)
    BY <1>7 DEF CallPlug
  <2> QED BY <1>7, <2>1
<1>8. CASE plug = "static_files"
  <2>1. d = StaticFiles(c, readable)
    BY <1>8 DEF CallPlug
  <2>2. CASE StaticFiles(c, readable) = c
    BY <1>0, <1>8, <2>1, <2>2
  <2>3. CASE \E body : Servable(c, body) /\ StaticFiles(c, readable) = ServeFile(c, body)
    BY <1>8, <2>1, <2>3
  <2> QED BY <2>2, <2>3, StaticFilesEffect
<1> QED BY <1>1, <1>2, <1>3, <1>4, <1>5, <1>6, <1>7, <1>8 DEF Plugs

(* What a static path may serve is a body.                                  *)
LEMMA ServableIsBody ==
    ASSUME VersionTypes, NEW c, NEW body, Servable(c, body)
    PROVE  IsBody(body)
<1>1. PICK e \in {Identity, "br", "zstd", "gzip"} : body = Body(c.path, e, disk[c.path][e])
  BY DEF Servable
<1>2. disk[c.path][e] \in Nat
  BY DEF Servable, VersionTypes
<1> QED BY <1>1, <1>2, BodyIsBody

(* Every plug keeps the framing of a Conn that is not halted.               *)
LEMMA PlugKeepsFraming ==
    ASSUME NEW c, Shape(c), Framing(c), ~c.halted, VersionTypes,
           NEW plug \in Plugs, NEW fresh, NEW readable,
           NEW d, d = CallPlug(plug, c, fresh, readable)
    PROVE  Shape(d) /\ Framing(d)
<1>0. /\ DOMAIN c = ConnFields /\ c.status \in Codes /\ c.status # 304
      /\ "content-length" \notin DOMAIN c.resp /\ c.halted = FALSE
  BY DEF Shape, Framing
<1>1. CASE Light(c, d)
  BY <1>1, LightKeepsFraming
<1>2. CASE Refused(c, d)
  <2>1. /\ Frame(c, d) /\ d.status = 403 /\ d.halted = TRUE /\ d.resp = c.resp /\ IsBody(d.respBody)
    BY <1>2, BodyIsBody DEF Refused
  <2>2. d.status \in Codes /\ d.halted \in BOOLEAN
    BY <2>1 DEF Codes
  <2> QED BY <1>0, <2>1, <2>2 DEF Shape, Framing, Frame
<1>3. CASE d = RouteHandler(c)
  <2>1. Frame(c, d) /\ HeadersKept(c, d) /\ d.halted = c.halted
    BY <1>0, <1>3, HandlerEffect
  <2>2. d.status \in Codes \ {304} /\ IsBody(d.respBody)
    <3>1. page \in Nat
      BY DEF VersionTypes
    <3>2. /\ IsBody(Body("/page", Identity, page)) /\ IsBody(Body("missing", Identity, 1))
          /\ IsBody(c.respBody)
      BY <3>1, BodyIsBody DEF Shape
    <3>3. /\ c.path = "/page" => d.status = c.status /\ d.respBody = Body("/page", Identity, page)
          /\ c.path = "/events" => d.status = 200 /\ d.respBody = c.respBody
          /\ c.path = "/odd" => d.status = 511 /\ d.respBody = c.respBody
          /\ c.path \notin {"/page", "/events", "/odd"} =>
                d.status = 404 /\ d.respBody = Body("missing", Identity, 1)
      BY <1>0, <1>3, HandlerEffect
    <3> QED BY <1>0, <3>2, <3>3 DEF Codes
  <2>3. IsFiniteSet(DOMAIN d.resp)
    <3>1. IsFiniteSet(DOMAIN c.resp \cup OwnNames)
      BY FiniteNames, FS_Union DEF Shape
    <3>2. DOMAIN d.resp \in SUBSET (DOMAIN c.resp \cup OwnNames)
      BY <2>1 DEF HeadersKept
    <3> QED BY <3>1, <3>2, FS_Subset
  <2>4. "content-length" \notin DOMAIN d.resp
    BY <1>0, <2>1 DEF HeadersKept, OwnNames, SecureNames
  <2> QED BY <1>0, <2>1, <2>2, <2>3, <2>4 DEF Shape, Framing, Frame
<1>4. CASE d = ETag(c)
  <2>1. CASE d = c
    BY <2>1
  <2>2. CASE d # c
    <3>1. /\ Frame(c, d) /\ d.resp = With(c.resp, "etag", c.respBody)
          /\ \/ d.status = 304 /\ d.halted = TRUE /\ d.respBody = EmptyBody
             \/ d.status = 200 /\ d.halted = c.halted /\ d.respBody = c.respBody
      <4>1. Tagged(c, d)
        BY <1>0, <1>4, <2>2, ETagEffect
      <4> QED BY <4>1 DEF Tagged
    <3>2. DOMAIN d.resp = DOMAIN c.resp \cup {"etag"}
      BY <3>1 DEF With
    <3>3. IsFiniteSet(DOMAIN d.resp) /\ "content-length" \notin DOMAIN d.resp
      BY <1>0, <3>2, FS_AddElement DEF Shape
    <3>4. d.status \in Codes /\ d.halted \in BOOLEAN
      <4>1. CASE d.status = 304 /\ d.halted = TRUE
        BY <4>1 DEF Codes
      <4>2. CASE d.status = 200 /\ d.halted = c.halted
        <5>1. d.status \in Codes
          BY <4>2 DEF Codes
        <5>2. c.halted \in BOOLEAN
          BY DEF Shape
        <5> QED BY <4>2, <5>1, <5>2
      <4> QED BY <3>1, <4>1, <4>2
    <3>5. IsBody(d.respBody)
      BY <3>1, EmptyIsBody DEF Shape
    <3> QED BY <1>0, <3>1, <3>3, <3>4, <3>5 DEF Shape, Framing, Frame
  <2> QED BY <2>1, <2>2
<1>5. CASE \E body : Servable(c, body) /\ d = ServeFile(c, body)
  <2>1. PICK body : Servable(c, body) /\ d = ServeFile(c, body)
    BY <1>5
  <2>2. /\ Frame(c, d) /\ d.halted = TRUE /\ d.resp["content-length"] = BodyLen(body)
        /\ IsFiniteSet(DOMAIN c.resp) => IsFiniteSet(DOMAIN d.resp)
        /\ \/ d.status = 304 /\ d.respBody = EmptyBody
           \/ d.status = 200 /\ d.respBody = IF c.method = "HEAD" THEN c.respBody ELSE body
    <3>1. Served(c, d, body)
      BY <1>0, <2>1, ServeFileEffect
    <3> QED BY <3>1 DEF Served
  <2>3. IsBody(body) /\ IsBody(c.respBody)
    BY <2>1, ServableIsBody DEF Shape
  <2>4. d.status \in Codes /\ d.halted \in BOOLEAN /\ IsBody(d.respBody)
    BY <2>2, <2>3, EmptyIsBody DEF Codes
  <2> QED BY <2>2, <2>4 DEF Shape, Framing, Frame
<1> QED BY <1>0, <1>1, <1>2, <1>3, <1>4, <1>5, PlugEffect

(* What a response takes besides its headers and its body fits in the 128   *)
(* bytes that are reserved for it: a status line of up to 46, 16 + 10 + 2   *)
(* of content-length and 24 of connection.                                  *)
LEMMA ReservedIsEnough ==
    ASSUME NEW c, Shape(c)
    PROVE  /\ UnsafeBytes(c) \in Nat /\ Needed(c) \in Nat
           /\ UnsafeBytes(c) <= Needed(c)
<1> DEFINE h == HeaderBytes(c)
           b == BodyLen(c.respBody)
           s == StatusLineLen(c.status)
           g == Digits(b)
<1>1. h \in Nat
  <2>1. Cardinality(DOMAIN c.resp) \in Nat
    BY FS_CardinalityType DEF Shape
  <2> QED BY <2>1, SizeAssumption DEF HeaderBytes
<1>2. b \in Nat
  BY SizeAssumption DEF BodyLen, Shape, IsBody
<1>3. s \in 17..46
  BY DEF Shape, Codes, StatusLineLen
<1>4. g \in 1..10
  <2> DEFINE K == {k \in 1..9 : 10^k <= b}
  <2>1. IsFiniteSet(1..9) /\ Cardinality(1..9) = 9
    <3>1. /\ 1 \in Int /\ 9 \in Int /\ ~(1 > 9) /\ 9 - 1 + 1 = 9
      OBVIOUS
    <3>2. IsFiniteSet(1..9) /\ Cardinality(1..9) = IF 1 > 9 THEN 0 ELSE 9 - 1 + 1
      BY <3>1, FS_Interval, Zenon
    <3> QED BY <3>1, <3>2
  <2>2. K \in SUBSET (1..9)
    OBVIOUS
  <2> HIDE DEF K
  <2>3. IsFiniteSet(K) /\ Cardinality(K) <= 9
    BY <2>1, <2>2, FS_Subset
  <2>4. Cardinality(K) \in Nat
    BY <2>3, FS_CardinalityType
  <2>5. g = 1 + Cardinality(K)
    BY DEF Digits, K
  <2> HIDE DEF g
  <2> QED BY <2>3, <2>4, <2>5
<1>5. /\ UnsafeBytes(c) = s + h + (IF "content-length" \in DOMAIN c.resp THEN 0 ELSE 16 + g + 2) + 24
      /\ Needed(c) = 128 + h + b
  BY DEF UnsafeBytes, Needed
<1> HIDE DEF h, b, s, g
<1> QED BY <1>1, <1>2, <1>3, <1>4, <1>5

(* Before the first request there is nothing to frame.                      *)
LEMMA FramingInvInit == PlugsInit => FramingInv
<1> SUFFICES ASSUME PlugsInit PROVE FramingInv
  OBVIOUS
<1>1. Shape(conn) /\ Framing(conn)
  BY NewIsShaped DEF PlugsInit
<1>2. ToSet(Encodings) = {"br", "zstd", "gzip"}
  BY DEF ToSet, Encodings
<1>3. VersionTypes
  BY <1>2 DEF PlugsInit, VersionTypes
<1>4. PICK chain \in Chains : exchange = [pc |-> "idle", chain |-> chain, todo |-> <<>>,
                                          count |-> 0, changes |-> 0]
  BY DEF PlugsInit
<1>5. exchange.pc = "idle" /\ exchange.todo \in Seq(Plugs) /\ capacity \in Nat
  BY <1>4 DEF PlugsInit
<1>6. exchange.chain \in Chains /\ DOMAIN exchange = {"pc", "chain", "todo", "count", "changes"}
  BY <1>4
<1> QED BY <1>1, <1>3, <1>5, <1>6 DEF FramingInv

(* Every step keeps the framing invariant.                                  *)
LEMMA FramingInvStep == FramingInv /\ [PlugsNext]_plugVars => FramingInv'
<1> SUFFICES ASSUME FramingInv, [PlugsNext]_plugVars PROVE FramingInv'
  OBVIOUS
<1>t. /\ VersionTypes /\ Shape(conn) /\ Framing(conn)
      /\ DOMAIN exchange = {"pc", "chain", "todo", "count", "changes"}
      /\ exchange.chain \in Chains /\ exchange.todo \in Seq(Plugs) /\ capacity \in Nat
  BY DEF FramingInv
<1>v. ASSUME UNCHANGED <<disk, page>> PROVE VersionTypes'
  BY <1>t, <1>v DEF VersionTypes
<1>s. ASSUME Shape(conn'), Framing(conn') PROVE Shape(conn)' /\ Framing(conn)'
  BY <1>s DEF Shape, Framing
<1>1. CASE ParseRequest
  <2>1. PICK req : conn' = ConnNew(req)
    BY <1>1 DEF ParseRequest
  <2>2. Shape(conn)' /\ Framing(conn)'
    BY <2>1, <1>s, NewIsBlank
  <2>3. /\ exchange' = [exchange EXCEPT !.pc = "running", !.todo = exchange.chain, !.count = @ + 1]
        /\ UNCHANGED <<disk, page, capacity>>
    BY <1>1 DEF ParseRequest
  <2>4. /\ DOMAIN exchange' = DOMAIN exchange /\ exchange'.pc = "running"
        /\ exchange'.chain = exchange.chain /\ exchange'.todo = exchange.chain
    BY <1>t, <2>3
  <2>5. exchange'.todo \in Seq(Plugs)
    BY <1>t, <2>4, ChainAssumption
  <2>6. VersionTypes'
    BY <1>v, <2>3
  <2> QED BY <1>t, <2>2, <2>3, <2>4, <2>5, <2>6 DEF FramingInv
<1>2. CASE RunPlug
  <2>1. /\ exchange.pc = "running" /\ exchange.todo # <<>> /\ ~conn.halted
        /\ exchange' = [exchange EXCEPT !.todo = Tail(@)]
        /\ UNCHANGED <<disk, page, capacity>>
    BY <1>2 DEF RunPlug
  <2>2. PICK readable : conn' = CallPlug(Head(exchange.todo), conn, "fresh", readable)
    BY <1>2 DEF RunPlug
  <2>3. Head(exchange.todo) \in Plugs /\ Tail(exchange.todo) \in Seq(Plugs)
    BY <1>t, <2>1
  <2>4. Shape(conn') /\ Framing(conn')
    BY <1>t, <2>1, <2>2, <2>3, PlugKeepsFraming
  <2>5. /\ DOMAIN exchange' = DOMAIN exchange /\ exchange'.pc = "running"
        /\ exchange'.chain = exchange.chain /\ exchange'.todo = Tail(exchange.todo)
    BY <1>t, <2>1
  <2>6. VersionTypes'
    BY <1>v, <2>1
  <2>7. Shape(conn)' /\ Framing(conn)'
    BY <1>s, <2>4
  <2> QED BY <1>t, <2>1, <2>3, <2>5, <2>6, <2>7 DEF FramingInv
<1>3. CASE SendResponse
  <2>1. /\ wire' = SerializeResponse(conn)
        /\ capacity' = IF capacity < Needed(conn) THEN Needed(conn) ELSE capacity
        /\ exchange' = [exchange EXCEPT !.pc = "answered"]
        /\ UNCHANGED <<conn, disk, page>>
    BY <1>3 DEF SendResponse
  <2>2. UnsafeBytes(conn) \in Nat /\ Needed(conn) \in Nat /\ UnsafeBytes(conn) <= Needed(conn)
    BY <1>t, ReservedIsEnough
  <2>3. wire'.unsafe = UnsafeBytes(conn)
    BY <2>1 DEF SerializeResponse
  <2>4. wire'.unsafe <= capacity'
    <3>1. capacity \in Nat
      BY DEF FramingInv
    <3> QED BY <2>1, <2>2, <2>3, <3>1
  <2>5. wire' = SerializeResponse(conn)'
    BY <2>1 DEF SerializeResponse, BodyLen, UnsafeBytes, StatusLineLen, HeaderBytes, Digits
  <2>6. VersionTypes' /\ Shape(conn)' /\ Framing(conn)'
    <3>1. conn' = conn
      BY <2>1
    <3> QED BY <1>t, <1>s, <1>v, <2>1, <3>1
  <2>7. /\ DOMAIN exchange' = DOMAIN exchange
        /\ exchange'.chain = exchange.chain /\ exchange'.todo = exchange.todo
    BY <1>t, <2>1
  <2>8. capacity' \in Nat
    BY <1>t, <2>1, <2>2
  <2> QED BY <1>t, <2>4, <2>5, <2>6, <2>7, <2>8 DEF FramingInv
<1>4. CASE StreamEvents
  <2>1. /\ conn' = ConnNew(NoRequestYet) /\ capacity' = 256 /\ UNCHANGED <<disk, page>>
        /\ exchange' = [exchange EXCEPT !.pc = "idle", !.todo = <<>>]
    BY <1>4 DEF StreamEvents
  <2>2. Shape(conn') /\ Framing(conn')
    BY <2>1, NewIsShaped
  <2>3. Shape(conn)' /\ Framing(conn)'
    BY <1>s, <2>2
  <2>4. /\ DOMAIN exchange' = DOMAIN exchange /\ exchange'.pc = "idle"
        /\ exchange'.chain = exchange.chain /\ exchange'.todo = <<>>
    BY <1>t, <2>1
  <2>5. VersionTypes' /\ exchange'.todo \in Seq(Plugs) /\ capacity' \in Nat
    <3>1. VersionTypes'
      BY <1>v, <2>1
    <3> QED BY <2>1, <2>4, <3>1
  <2> QED BY <1>t, <2>3, <2>4, <2>5 DEF FramingInv
<1>5. CASE ContentChanges
  <2>1. /\ exchange.pc # "answered" /\ exchange' = [exchange EXCEPT !.changes = @ + 1]
        /\ UNCHANGED <<conn, capacity>>
    BY <1>5 DEF ContentChanges
  <2>2. /\ DOMAIN exchange' = DOMAIN exchange /\ exchange'.pc = exchange.pc
        /\ exchange'.chain = exchange.chain /\ exchange'.todo = exchange.todo
    BY <1>t, <2>1
  <2>3. VersionTypes'
    <3>1. CASE page' = page + 1 /\ UNCHANGED disk
      <4>1. page' \in Nat
        BY <1>t, <3>1 DEF VersionTypes
      <4>2. disk' \in [StaticPaths -> [{Identity, "br", "zstd", "gzip"} -> Nat]]
        BY <1>t, <3>1 DEF VersionTypes
      <4> QED BY <4>1, <4>2 DEF VersionTypes
    <3>2. CASE /\ UNCHANGED page
               /\ \E p \in StaticPaths, e \in {Identity, "br"} :
                    \E v \in {0} \cup (disk[p][e] + 1)..MaxVersion : disk' = [disk EXCEPT ![p][e] = v]
      <4>1. PICK p \in StaticPaths, e \in {Identity, "br"} :
              \E v \in {0} \cup (disk[p][e] + 1)..MaxVersion : disk' = [disk EXCEPT ![p][e] = v]
        BY <3>2
      <4>2. disk[p][e] \in Nat
        BY <1>t DEF VersionTypes
      <4>3. PICK v \in Nat : disk' = [disk EXCEPT ![p][e] = v]
        <5>1. {0} \cup (disk[p][e] + 1)..MaxVersion \subseteq Nat
          BY <4>2, SizeAssumption
        <5> QED BY <4>1, <5>1
      <4> QED BY <1>t, <3>2, <4>3 DEF VersionTypes
    <3> QED BY <1>5, <3>1, <3>2 DEF ContentChanges
  <2>4. Shape(conn)' /\ Framing(conn)'
    <3>1. conn' = conn
      BY <2>1
    <3> QED BY <1>t, <1>s, <3>1
  <2> QED BY <1>t, <2>1, <2>2, <2>3, <2>4 DEF FramingInv
<1>6. CASE UNCHANGED plugVars
  <2>1. /\ conn' = conn /\ exchange' = exchange /\ wire' = wire /\ capacity' = capacity
        /\ UNCHANGED <<disk, page>>
    BY <1>6 DEF plugVars
  <2>2. SerializeResponse(conn)' = SerializeResponse(conn)
    BY <2>1 DEF SerializeResponse, BodyLen, UnsafeBytes, StatusLineLen, HeaderBytes, Digits
  <2>3. VersionTypes' /\ Shape(conn)' /\ Framing(conn)'
    BY <1>t, <1>s, <1>v, <2>1
  <2> QED BY <2>1, <2>2, <2>3 DEF FramingInv
<1> QED BY <1>1, <1>2, <1>3, <1>4, <1>5, <1>6 DEF PlugsNext

(* The head of a response never runs past what was reserved for it through  *)
(* the raw pointer of serialize_response_into, whatever headers the plugs   *)
(* set and however large the buffer was from an earlier response.           *)
THEOREM HeadFitsBuffer == PlugsSpec => []WritesFit
<1>1. FramingInv => WritesFit
  BY DEF FramingInv, WritesFit
<1> QED BY <1>1, FramingInvInit, FramingInvStep, PTL DEF PlugsSpec

(* What follows the head of a response is as long as the head says, for     *)
(* every order of the plugs: a HEAD and a 304 have no body, whoever set     *)
(* content-length, and any other response has the body it declares.         *)
THEOREM ResponsesAreFramed == PlugsSpec => []FramedAsDeclared
<1>1. FramingInv => FramedAsDeclared
  <2> SUFFICES ASSUME FramingInv, exchange.pc = "answered"
               PROVE  IF conn.method = "HEAD" \/ wire.status = 304 THEN wire.bytes = 0
                      ELSE wire.bytes = wire.declared
    BY DEF FramedAsDeclared
  <2>1. /\ wire.status = conn.status
        /\ wire.declared = IF "content-length" \in DOMAIN conn.resp
                           THEN conn.resp["content-length"] ELSE BodyLen(conn.respBody)
        /\ wire.bytes = IF conn.method = "HEAD" THEN 0 ELSE BodyLen(conn.respBody)
    BY DEF FramingInv, SerializeResponse
  <2>2. conn.status = 304 => BodyLen(conn.respBody) = 0
    BY EmptyIsBody DEF FramingInv, Framing
  <2> QED BY <2>1, <2>2 DEF FramingInv, Framing
<1> QED BY <1>1, FramingInvInit, FramingInvStep, PTL DEF PlugsSpec

-----------------------------------------------------------------------------
(* The client's cache. Until the handler has run a Conn has no body and no  *)
(* tag; afterwards a page it may cache is one that existed since the        *)
(* request came; a halted Conn is what the client will see.                 *)

Cacheable(c) == c.method = "GET" /\ c.path \in StaticPaths \cup {"/page"}

Unhandled(c) == c.respBody = EmptyBody /\ c.status = 200 /\ "etag" \notin DOMAIN c.resp

TagsItsBody(c) == "etag" \in DOMAIN c.resp => c.resp["etag"] = c.respBody

Handled(c) ==
    Cacheable(c) /\ c.status = 200 =>
        c.respBody \in alive /\ c.respBody.enc = Identity /\ TagsItsBody(c)

Pending(c, left) ==
    \/ /\ \E i \in DOMAIN left : \A j \in DOMAIN left : left[j] = "handler" <=> j = i
       /\ Unhandled(c)
    \/ (\A j \in DOMAIN left : left[j] # "handler") /\ Handled(c)

Shows(c, b) ==
    /\ IsBody(b) /\ b \in alive
    /\ b.enc \in c.headers.accept \cup {Identity}
    /\ b.enc # Identity => "content-encoding" \in DOMAIN c.resp /\ c.resp["content-encoding"] = b.enc

Settled(c) ==
    Cacheable(c) =>
        /\ c.status = 200 => Shows(c, c.respBody) /\ TagsItsBody(c)
        /\ c.status = 304 => Shows(c, c.headers.ifNoneMatch)

CacheTypes ==
    /\ DOMAIN cache = StaticPaths \cup {"/page"}
    /\ \A p \in DOMAIN cache : cache[p].etag \in {Nothing, cache[p].body}

RunningInv ==
    /\ Existing \subseteq alive
    /\ Cacheable(conn) => conn.headers.ifNoneMatch = cache[conn.path].etag
    /\ IF conn.halted THEN Settled(conn) ELSE Pending(conn, exchange.todo)

CurrentInv ==
    /\ CacheTypes
    /\ exchange.pc = "running" => RunningInv
    /\ ClientShowsCurrent

(* A tag that is a body is not the absent tag.                              *)
LEMMA BodyIsNotNothing == ASSUME NEW b, IsBody(b) PROVE b # Nothing
<1>1. DOMAIN Nothing = {"of"}
  BY DEF Nothing
<1>2. "enc" \in DOMAIN b
  BY DEF IsBody
<1> QED BY <1>1, <1>2

(* What a static path serves exists at that moment.                         *)
LEMMA ServableExists ==
    ASSUME NEW c, NEW body, Servable(c, body)
    PROVE  body \in Existing /\ body.enc \in c.headers.accept \cup {Identity}
<1>1. PICK e \in {Identity, "br", "zstd", "gzip"} :
        body = Body(c.path, e, disk[c.path][e]) /\ (e # Identity => e \in c.headers.accept)
  BY DEF Servable
<1>2. ToSet(Encodings) = {"br", "zstd", "gzip"}
  BY DEF ToSet, Encodings
<1>3. c.path \in StaticPaths /\ body.enc = e
  BY <1>1 DEF Servable, Body
<1>4. body \in Existing
  BY <1>1, <1>2, <1>3 DEF Existing
<1> QED BY <1>1, <1>3, <1>4

(* The rest of a chain: its handler, if it is to come, comes one earlier.   *)
LEMMA RestOfChain ==
    ASSUME NEW left \in Seq(Plugs), left # <<>>
    PROVE  /\ Head(left) = left[1] /\ Tail(left) \in Seq(Plugs)
           /\ DOMAIN Tail(left) = 1..(Len(left) - 1)
           /\ \A j \in 1..(Len(left) - 1) : Tail(left)[j] = left[j + 1]
           /\ 1 \in DOMAIN left /\ \A j \in 1..(Len(left) - 1) : j + 1 \in DOMAIN left
OBVIOUS

(* A plug that is not the handler leaves the handler where it was in the    *)
(* chain.                                                                   *)
LEMMA PendingMoves ==
    ASSUME NEW left \in Seq(Plugs), left # <<>>, Head(left) # "handler", NEW c, NEW d,
           Pending(c, left), Unhandled(c) => Unhandled(d), Handled(c) => Handled(d)
    PROVE  Pending(d, Tail(left))
<1>1. CASE /\ \E i \in DOMAIN left : \A j \in DOMAIN left : left[j] = "handler" <=> j = i
           /\ Unhandled(c)
  <2>1. PICK i \in DOMAIN left : \A j \in DOMAIN left : left[j] = "handler" <=> j = i
    BY <1>1
  <2>2. i \in 2..Len(left)
    BY <2>1, RestOfChain
  <2>3. i - 1 \in DOMAIN Tail(left)
    BY <2>2, RestOfChain
  <2>4. \A j \in DOMAIN Tail(left) : Tail(left)[j] = "handler" <=> j = i - 1
    BY <2>1, <2>2, RestOfChain
  <2> QED BY <1>1, <2>3, <2>4 DEF Pending
<1>2. CASE (\A j \in DOMAIN left : left[j] # "handler") /\ Handled(c)
  <2>1. \A j \in DOMAIN Tail(left) : Tail(left)[j] # "handler"
    BY <1>2, RestOfChain
  <2> QED BY <1>2, <2>1 DEF Pending
<1> QED BY <1>1, <1>2 DEF Pending

(* Every plug keeps the Conn pending, or settles it with what exists.       *)
LEMMA PlugKeepsCurrent ==
    ASSUME NEW c, Shape(c), Framing(c), ~c.halted, VersionTypes, Existing \subseteq alive,
           NEW left \in Seq(Plugs), left # <<>>, Pending(c, left), NEW fresh, NEW readable,
           NEW d, d = CallPlug(Head(left), c, fresh, readable)
    PROVE  Frame(c, d) /\ IF d.halted THEN Settled(d) ELSE Pending(d, Tail(left))
<1>0. DOMAIN c = ConnFields /\ Head(left) \in Plugs /\ c.halted = FALSE
  BY DEF Shape
<1>1. CASE Head(left) # "handler" /\ Light(c, d)
  <2>1. /\ Frame(c, d) /\ d.status = c.status /\ d.respBody = c.respBody /\ d.halted = FALSE
        /\ HeadersKept(c, d)
    BY <1>0, <1>1 DEF Light
  <2>2. "etag" \notin OwnNames
    BY DEF OwnNames, SecureNames
  <2>3. Unhandled(c) => Unhandled(d)
    BY <2>1, <2>2 DEF Unhandled, HeadersKept
  <2>4. Handled(c) => Handled(d)
    BY <2>1, <2>2 DEF Handled, HeadersKept, Cacheable, Frame, TagsItsBody
  <2>5. Pending(d, Tail(left))
    BY <1>1, <2>3, <2>4, PendingMoves
  <2> QED BY <2>1, <2>5
<1>2. CASE Refused(c, d)
  <2>1. Frame(c, d) /\ d.halted = TRUE /\ c.method # "GET"
    BY <1>2 DEF Refused
  <2> QED BY <2>1 DEF Settled, Cacheable, Frame
<1>3. CASE Head(left) = "handler" /\ d = RouteHandler(c)
  <2>1. /\ Frame(c, d) /\ HeadersKept(c, d) /\ d.halted = FALSE
        /\ c.path = "/page" => d.status = c.status /\ d.respBody = Body("/page", Identity, page)
        /\ c.path \notin {"/page", "/events", "/odd"} => d.status = 404
    BY <1>0, <1>3, HandlerEffect
  <2>2. /\ \E i \in DOMAIN left : \A j \in DOMAIN left : left[j] = "handler" <=> j = i
        /\ Unhandled(c)
    BY <1>3, RestOfChain DEF Pending
  <2>3. \A j \in DOMAIN Tail(left) : Tail(left)[j] # "handler"
    BY <1>3, <2>2, RestOfChain
  <2>4. "etag" \notin DOMAIN d.resp
    BY <2>1, <2>2 DEF Unhandled, HeadersKept, OwnNames, SecureNames
  <2>5. Body("/page", Identity, page) \in alive
    BY DEF Existing
  <2>6. Body("/page", Identity, page).enc = Identity
    BY DEF Body
  <2>7. Handled(d)
    <3> SUFFICES ASSUME Cacheable(d), d.status = 200
                 PROVE  d.respBody \in alive /\ d.respBody.enc = Identity /\ TagsItsBody(d)
      BY DEF Handled
    <3>1. c.path = "/page"
      BY <2>1, PathAssumption DEF Cacheable, Frame
    <3> QED BY <2>1, <2>4, <2>5, <2>6, <3>1 DEF TagsItsBody
  <2> QED BY <2>1, <2>3, <2>7 DEF Pending
<1>4. CASE Head(left) # "handler" /\ d = ETag(c)
  <2>1. CASE d = c
    <3>1. Pending(d, Tail(left))
      BY <1>4, <2>1, PendingMoves
    <3> QED BY <1>0, <2>1, <3>1 DEF Frame
  <2>2. CASE Tagged(c, d)
    <3>1. Handled(c) /\ ~Unhandled(c)
      BY <2>2 DEF Pending, Tagged, Unhandled
    <3>2. /\ Frame(c, d) /\ "etag" \in DOMAIN d.resp /\ d.resp["etag"] = c.respBody /\ c.status = 200
      BY <2>2 DEF Tagged, With
    <3>3. CASE /\ c.headers.ifNoneMatch = c.respBody /\ d.status = 304 /\ d.halted = TRUE
               /\ d.respBody = EmptyBody
      <4> SUFFICES ASSUME Cacheable(d) PROVE Shows(d, d.headers.ifNoneMatch)
        BY <3>2, <3>3 DEF Settled
      <4>1. d.headers.ifNoneMatch = c.respBody /\ Cacheable(c) /\ IsBody(c.respBody)
        BY <3>2, <3>3 DEF Frame, Cacheable, Shape
      <4> QED BY <3>1, <3>2, <4>1 DEF Handled, Shows
    <3>4. CASE d.status = 200 /\ d.halted = c.halted /\ d.respBody = c.respBody
      <4>1. Handled(d)
        BY <3>1, <3>2, <3>4 DEF Handled, Cacheable, Frame, TagsItsBody
      <4>2. Pending(d, Tail(left))
        BY <1>4, <3>1, <4>1, PendingMoves
      <4> QED BY <1>0, <3>2, <3>4, <4>2
    <3> QED BY <2>2, <3>3, <3>4 DEF Tagged
  <2> QED BY <1>0, <1>4, <2>1, <2>2, ETagEffect
<1>5. CASE \E body : Servable(c, body) /\ d = ServeFile(c, body)
  <2>1. PICK body : Servable(c, body) /\ d = ServeFile(c, body)
    BY <1>5
  <2>2. Served(c, d, body)
    BY <1>0, <2>1, ServeFileEffect
  <2>3. IsBody(body) /\ body \in alive /\ body.enc \in c.headers.accept \cup {Identity}
    BY <2>1, ServableIsBody, ServableExists
  <2>4. Frame(c, d) /\ d.halted = TRUE
    BY <2>2 DEF Served
  <2>5. Shows(d, body)
    BY <2>2, <2>3 DEF Shows, Served, Frame
  <2>6. Settled(d)
    <3>1. ASSUME Cacheable(d), d.status = 200 PROVE d.respBody = body /\ d.resp["etag"] = body
      BY <2>2, <3>1 DEF Served, Cacheable, Frame
    <3>2. ASSUME d.status = 304 PROVE d.headers.ifNoneMatch = body
      BY <2>2, <3>2 DEF Served, Frame
    <3> QED BY <2>5, <3>1, <3>2 DEF Settled, TagsItsBody
  <2> QED BY <2>4, <2>6
<1> QED BY <1>0, <1>1, <1>2, <1>3, <1>4, <1>5, PlugEffect

(* An empty cache shows nothing.                                            *)
LEMMA CurrentInvInit == PlugsInit => CurrentInv
<1> SUFFICES ASSUME PlugsInit PROVE CurrentInv
  OBVIOUS
<1>1. CacheTypes
  BY DEF PlugsInit, CacheTypes
<1>2. exchange.pc = "idle"
  BY DEF PlugsInit
<1> QED BY <1>1, <1>2 DEF CurrentInv, ClientShowsCurrent

(* Every step keeps caches and Conn current.                                *)
LEMMA CurrentInvStep == FramingInv /\ CurrentInv /\ [PlugsNext]_plugVars => CurrentInv'
<1> SUFFICES ASSUME FramingInv, CurrentInv, [PlugsNext]_plugVars PROVE CurrentInv'
  OBVIOUS
<1>t. /\ VersionTypes /\ Shape(conn) /\ Framing(conn)
      /\ DOMAIN exchange = {"pc", "chain", "todo", "count", "changes"}
      /\ exchange.chain \in Chains /\ exchange.todo \in Seq(Plugs)
  BY DEF FramingInv
<1>c. ASSUME cache' = cache PROVE CacheTypes'
  BY <1>c DEF CurrentInv, CacheTypes
<1>1. CASE ParseRequest
  <2>1. /\ exchange' = [exchange EXCEPT !.pc = "running", !.todo = exchange.chain, !.count = @ + 1]
        /\ alive' = Existing /\ UNCHANGED <<disk, page, cache>>
    BY <1>1 DEF ParseRequest
  <2>2. PICK r \in PlugRequests :
          LET tag == IF r.path \in DOMAIN cache /\ r.method # "POST" THEN cache[r.path].etag ELSE Nothing
              req == With(r, "ifNoneMatch", tag)
          IN  conn' = ConnNew(req)
    BY <1>1 DEF ParseRequest
  <2> DEFINE tag == IF r.path \in DOMAIN cache /\ r.method # "POST" THEN cache[r.path].etag ELSE Nothing
             req == With(r, "ifNoneMatch", tag)
  <2>3. conn' = ConnNew(req)
    BY <2>2
  <2>4. req.ifNoneMatch = tag /\ req.path = r.path /\ req.method = r.method
    <3> HIDE DEF tag
    <3> QED BY RequestAssumption DEF With
  <2>5. tag = IF r.path \in DOMAIN cache /\ r.method # "POST" THEN cache[r.path].etag ELSE Nothing
    OBVIOUS
  <2> HIDE DEF tag, req
  <2>6. /\ conn'.method = r.method /\ conn'.path = r.path /\ conn'.headers = req
        /\ conn'.status = 200 /\ conn'.respBody = EmptyBody /\ conn'.halted = FALSE
        /\ DOMAIN conn'.resp = {}
    <3>1. /\ conn'.method = req.method /\ conn'.path = req.path /\ conn'.headers = req
          /\ conn'.status = 200 /\ conn'.respBody = EmptyBody /\ conn'.halted = FALSE
          /\ DOMAIN conn'.resp = {}
      <4>1. Blank(conn', req)
        BY <2>3, NewIsBlank
      <4> QED BY <4>1 DEF Blank
    <3> QED BY <2>4, <3>1
  <2>7. exchange'.pc = "running" /\ exchange'.todo = exchange.chain
    BY <1>t, <2>1
  <2>8. Existing' \subseteq alive'
    BY <2>1 DEF Existing
  <2>9. Cacheable(conn)' => conn'.headers.ifNoneMatch = cache'[conn'.path].etag
    BY <2>1, <2>4, <2>5, <2>6 DEF Cacheable, CurrentInv, CacheTypes
  <2>10. Pending(conn, exchange.todo)'
    <3>1. Unhandled(conn)'
      BY <2>6 DEF Unhandled
    <3>2. \E i \in DOMAIN exchange.chain :
             \A j \in DOMAIN exchange.chain : exchange.chain[j] = "handler" <=> j = i
      BY <1>t, ChainAssumption
    <3> QED BY <2>7, <3>1, <3>2 DEF Pending
  <2>11. RunningInv'
    BY <2>6, <2>8, <2>9, <2>10 DEF RunningInv
  <2> QED BY <1>c, <2>1, <2>7, <2>11 DEF CurrentInv, ClientShowsCurrent
<1>2. CASE RunPlug
  <2>1. /\ exchange.pc = "running" /\ exchange.todo # <<>> /\ ~conn.halted
        /\ exchange' = [exchange EXCEPT !.todo = Tail(@)]
        /\ UNCHANGED <<disk, page, alive, cache>>
    BY <1>2 DEF RunPlug
  <2>2. PICK readable : conn' = CallPlug(Head(exchange.todo), conn, "fresh", readable)
    BY <1>2 DEF RunPlug
  <2>3. RunningInv
    BY <2>1 DEF CurrentInv
  <2>4. Frame(conn, conn') /\ IF conn'.halted THEN Settled(conn') ELSE Pending(conn', Tail(exchange.todo))
    <3>1. Existing \subseteq alive /\ Pending(conn, exchange.todo)
      BY <2>1, <2>3 DEF RunningInv
    <3> QED BY <1>t, <2>1, <2>2, <3>1, PlugKeepsCurrent
  <2>5. exchange'.pc = "running" /\ exchange'.todo = Tail(exchange.todo)
    BY <1>t, <2>1
  <2>6. /\ Settled(conn') => Settled(conn)'
        /\ Pending(conn', Tail(exchange.todo)) => Pending(conn, exchange.todo)'
    <3>1. Settled(conn') => Settled(conn)'
      BY <2>1 DEF Settled, Shows, TagsItsBody, Cacheable
    <3>2. (Handled(conn') => Handled(conn)') /\ (Unhandled(conn') => Unhandled(conn)')
      BY <2>1 DEF Handled, Unhandled, TagsItsBody, Cacheable
    <3>3. Pending(conn', Tail(exchange.todo)) => Pending(conn, exchange.todo)'
      <4> DEFINE rest == Tail(exchange.todo)
      <4>1. exchange'.todo = rest
        BY <2>5
      <4>2. CASE (\E i \in DOMAIN rest : \A j \in DOMAIN rest : rest[j] = "handler" <=> j = i) /\ Unhandled(conn')
        <5> HIDE DEF rest
        <5> QED BY <3>2, <4>1, <4>2 DEF Pending
      <4>3. CASE (\A j \in DOMAIN rest : rest[j] # "handler") /\ Handled(conn')
        <5> HIDE DEF rest
        <5> QED BY <3>2, <4>1, <4>3 DEF Pending
      <4> QED BY <4>2, <4>3 DEF Pending
    <3> QED BY <3>1, <3>3
  <2>7. /\ Existing' \subseteq alive'
        /\ Cacheable(conn)' => conn'.headers.ifNoneMatch = cache'[conn'.path].etag
    BY <2>1, <2>3, <2>4 DEF RunningInv, Existing, Cacheable, Frame
  <2>8. RunningInv'
    BY <2>4, <2>6, <2>7 DEF RunningInv
  <2> QED BY <1>c, <2>1, <2>5, <2>8 DEF CurrentInv, ClientShowsCurrent
<1>3. CASE SendResponse
  <2>1. /\ Finished /\ wire' = SerializeResponse(conn)
        /\ exchange' = [exchange EXCEPT !.pc = "answered"]
        /\ cache' = IF conn.method = "GET" /\ conn.status = 200 /\ conn.path \in DOMAIN cache
                    THEN [cache EXCEPT ![conn.path] =
                            [body |-> conn.respBody,
                             etag |-> IF "etag" \in DOMAIN conn.resp THEN conn.resp["etag"] ELSE Nothing]]
                    ELSE cache
        /\ UNCHANGED <<conn, alive>>
    BY <1>3 DEF SendResponse
  <2>2. /\ exchange'.pc = "answered" /\ wire'.status = conn.status
        /\ RunningInv /\ DOMAIN cache = StaticPaths \cup {"/page"}
    BY <1>t, <2>1 DEF Finished, CurrentInv, CacheTypes, SerializeResponse
  <2>3. /\ Cacheable(conn) /\ conn.status = 200 => Shows(conn, conn.respBody) /\ TagsItsBody(conn)
        /\ Cacheable(conn) /\ conn.status = 304 => Shows(conn, conn.headers.ifNoneMatch)
    <3>1. CASE conn.halted
      BY <2>2, <3>1 DEF RunningInv, Settled
    <3>2. CASE ~conn.halted
      <4>1. exchange.todo = <<>> /\ Pending(conn, exchange.todo)
        BY <2>1, <2>2, <3>2 DEF RunningInv, Finished
      <4>2. Handled(conn)
        BY <4>1 DEF Pending
      <4>3. conn.status # 304 /\ IsBody(conn.respBody)
        BY <1>t, <3>2 DEF Framing, Shape
      <4> QED BY <4>2, <4>3 DEF Handled, Shows
    <3> QED BY <3>1, <3>2
  <2>4. CASE Cacheable(conn) /\ conn.status = 200
    <3> DEFINE kept == [body |-> conn.respBody,
                        etag |-> IF "etag" \in DOMAIN conn.resp THEN conn.resp["etag"] ELSE Nothing]
    <3>1. cache' = [cache EXCEPT ![conn.path] = kept] /\ conn.path \in DOMAIN cache
      BY <2>1, <2>2, <2>4 DEF Cacheable
    <3>2. kept.body = conn.respBody /\ kept.etag \in {Nothing, conn.respBody}
      BY <2>3, <2>4 DEF TagsItsBody
    <3> HIDE DEF kept
    <3>3. /\ DOMAIN cache' = DOMAIN cache /\ cache'[conn.path] = kept
          /\ \A p \in DOMAIN cache : p # conn.path => cache'[p] = cache[p]
      BY <3>1
    <3>4. CacheTypes'
      BY <3>2, <3>3 DEF CurrentInv, CacheTypes
    <3>5. ClientShowsCurrent'
      BY <2>1, <2>3, <2>4, <3>2, <3>3 DEF ClientShowsCurrent, Shows
    <3> QED BY <2>2, <3>4, <3>5 DEF CurrentInv
  <2>5. CASE Cacheable(conn) /\ conn.status = 304
    <3>1. cache' = cache
      BY <2>1, <2>5
    <3>2. conn.headers.ifNoneMatch = cache[conn.path].etag
      BY <2>2, <2>5 DEF RunningInv
    <3>3. conn.headers.ifNoneMatch # Nothing
      BY <2>3, <2>5, BodyIsNotNothing DEF Shows
    <3>4. conn.headers.ifNoneMatch = cache[conn.path].body
      BY <2>2, <2>5, <3>2, <3>3 DEF Cacheable, CurrentInv, CacheTypes
    <3>5. ClientShowsCurrent'
      BY <2>1, <2>3, <2>5, <3>1, <3>4 DEF ClientShowsCurrent, Shows
    <3> QED BY <1>c, <2>2, <3>1, <3>5 DEF CurrentInv
  <2>6. CASE ~(Cacheable(conn) /\ conn.status \in {200, 304})
    <3>1. cache' = cache
      BY <2>1, <2>2, <2>6 DEF Cacheable
    <3>2. ClientShowsCurrent'
      BY <2>1, <2>2, <2>6, <3>1 DEF ClientShowsCurrent, Cacheable
    <3> QED BY <1>c, <2>2, <3>1, <3>2 DEF CurrentInv
  <2> QED BY <2>4, <2>5, <2>6
<1>4. CASE StreamEvents
  <2>1. cache' = cache /\ exchange' = [exchange EXCEPT !.pc = "idle", !.todo = <<>>]
    BY <1>4 DEF StreamEvents
  <2>2. exchange'.pc = "idle"
    BY <1>t, <2>1
  <2> QED BY <1>c, <2>1, <2>2 DEF CurrentInv, ClientShowsCurrent
<1>5. CASE ContentChanges
  <2>1. /\ exchange.pc # "answered" /\ exchange' = [exchange EXCEPT !.changes = @ + 1]
        /\ alive' = alive \cup Existing' /\ UNCHANGED <<conn, cache>>
    BY <1>5 DEF ContentChanges
  <2>2. exchange'.pc = exchange.pc /\ exchange'.todo = exchange.todo
    BY <1>t, <2>1
  <2>3. ASSUME exchange.pc = "running" PROVE RunningInv'
    <3>1. RunningInv
      BY <2>3 DEF CurrentInv
    <3>2. Existing' \subseteq alive' /\ alive \subseteq alive'
      BY <2>1
    <3>3. Settled(conn) => Settled(conn)'
      BY <2>1, <3>2 DEF Settled, Shows, TagsItsBody, Cacheable
    <3>4. Pending(conn, exchange.todo) => Pending(conn, exchange.todo)'
      BY <2>1, <2>2, <3>2 DEF Pending, Handled, Unhandled, TagsItsBody, Cacheable
    <3> QED BY <2>1, <3>1, <3>2, <3>3, <3>4 DEF RunningInv, Cacheable
  <2> QED BY <1>c, <2>1, <2>2, <2>3 DEF CurrentInv, ClientShowsCurrent
<1>6. CASE UNCHANGED plugVars
  BY <1>6 DEF plugVars, CurrentInv, CacheTypes, ClientShowsCurrent, RunningInv, Existing, Cacheable,
              Settled, Shows, TagsItsBody, Pending, Handled, Unhandled
<1> QED BY <1>1, <1>2, <1>3, <1>4, <1>5, <1>6 DEF PlugsNext

(* A caching client shows a body that existed while its request was served, *)
(* in an encoding it accepts and was told of, for every chain of plugs      *)
(* around a handler: neither the tags of StaticFiles, which may be those of *)
(* a variant, nor those of ETag ever confirm another body, however files,   *)
(* variants and pages change between and during the requests.               *)
THEOREM CachesStayCurrent == PlugsSpec => []ClientShowsCurrent
<1>1. CurrentInv => ClientShowsCurrent
  BY DEF CurrentInv
<1> QED BY <1>1, FramingInvInit, FramingInvStep, CurrentInvInit, CurrentInvStep, PTL DEF PlugsSpec
=============================================================================
