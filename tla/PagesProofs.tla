----------------------------- MODULE PagesProofs -----------------------------
(***************************************************************************)
(* What a walk over a paginated listing misses, for any rows, any size of  *)
(* a page and whatever is created and deleted meanwhile.                   *)
(***************************************************************************)
EXTENDS Pages, FiniteSetTheorems, SequenceTheorems, TLAPS

-----------------------------------------------------------------------------
\* How far down the list the pages so far reached.
Reach == (page - 1) * PageSize

\* The rows that were listed all along and are no longer ahead of the walk, nor with it.
Behind == {row \in standing \ got : \E i \in DOMAIN list : i <= Reach /\ list[i] = row}

PagesTypeOK ==
  /\ list \in Seq(Rows)
  /\ fresh \subseteq Rows
  /\ walk \in {"idle", "walking", "done", "refused", "failed"}
  /\ page \in Nat \ {0}
  /\ got \subseteq Rows
  /\ standing \subseteq Rows
  /\ removed \in Nat
  /\ shrunk \in BOOLEAN

\* Which rows are where.
RowsSound ==
  /\ fresh \cap ToSet(list) = {}
  /\ standing \subseteq ToSet(list)

WalkSound ==
  /\ walk = "idle" => page = 1 /\ got = {}
  /\ walk = "walking" => Cardinality(Behind) <= removed
  /\ walk = "walking" /\ ~shrunk => Found(page)

PagesInv == PagesTypeOK /\ RowsSound /\ WalkSound /\ MissedByDeletionOnly

-----------------------------------------------------------------------------
\* Rows at their places.

LEMMA InsertedAt ==
  ASSUME NEW s \in Seq(Rows), NEW row \in Rows, NEW i \in 1..(Len(s) + 1)
  PROVE  /\ InsertAt(s, i, row) \in Seq(Rows)
         /\ Len(InsertAt(s, i, row)) = Len(s) + 1
         /\ \A j \in 1..(Len(s) + 1) :
              InsertAt(s, i, row)[j] = IF j < i THEN s[j] ELSE IF j = i THEN row ELSE s[j - 1]
<1> DEFINE a == SubSeq(s, 1, i - 1)
           b == SubSeq(s, i, Len(s))
<1>1. Len(s) \in Nat /\ i \in Nat /\ DOMAIN s = 1..Len(s)
  OBVIOUS
<1>2. a \in Seq(Rows) /\ Len(a) = i - 1 /\ \A j \in 1..(i - 1) : a[j] = s[j]
  BY <1>1, SubSeqProperties
<1>3. b \in Seq(Rows) /\ Len(b) = Len(s) - i + 1 /\ \A j \in 1..(Len(s) - i + 1) : b[j] = s[i + j - 1]
  BY <1>1, SubSeqProperties
<1> HIDE DEF a, b
<1>4. /\ a \o <<row>> \in Seq(Rows) /\ Len(a \o <<row>>) = i
      /\ \A j \in 1..i : (a \o <<row>>)[j] = IF j < i THEN s[j] ELSE row
  BY <1>1, <1>2
<1> DEFINE c == a \o <<row>>
<1> HIDE DEF c
<1>5. /\ c \o b \in Seq(Rows) /\ Len(c \o b) = Len(s) + 1
      /\ \A j \in 1..(Len(s) + 1) : (c \o b)[j] = IF j <= i THEN c[j] ELSE b[j - i]
  <2>1. c \in Seq(Rows) /\ Len(c) = i
    BY <1>4 DEF c
  <2> QED BY <1>1, <1>3, <2>1, ConcatProperties
<1>6. \A j \in 1..(Len(s) + 1) : j > i => b[j - i] = s[j - 1]
  <2> SUFFICES ASSUME NEW j \in 1..(Len(s) + 1), j > i PROVE b[j - i] = s[j - 1]
    OBVIOUS
  <2>1. j - i \in 1..(Len(s) - i + 1) /\ i + (j - i) - 1 = j - 1
    BY <1>1
  <2> QED BY <1>3, <2>1
<1>7. /\ c \o b \in Seq(Rows) /\ Len(c \o b) = Len(s) + 1
      /\ \A j \in 1..(Len(s) + 1) :
           (c \o b)[j] = IF j < i THEN s[j] ELSE IF j = i THEN row ELSE s[j - 1]
  BY <1>1, <1>4, <1>5, <1>6 DEF c
<1> QED BY <1>7 DEF InsertAt, a, b, c

LEMMA RemovedAt ==
  ASSUME NEW s \in Seq(Rows), NEW i \in DOMAIN s
  PROVE  /\ RemoveAt(s, i) \in Seq(Rows)
         /\ Len(RemoveAt(s, i)) = Len(s) - 1
         /\ \A j \in 1..(Len(s) - 1) : RemoveAt(s, i)[j] = IF j < i THEN s[j] ELSE s[j + 1]
<1> DEFINE a == SubSeq(s, 1, i - 1)
           b == SubSeq(s, i + 1, Len(s))
<1>1. Len(s) \in Nat /\ i \in Nat /\ i \in 1..Len(s) /\ DOMAIN s = 1..Len(s)
  OBVIOUS
<1>2. a \in Seq(Rows) /\ Len(a) = i - 1 /\ \A j \in 1..(i - 1) : a[j] = s[j]
  BY <1>1, SubSeqProperties
<1>3. b \in Seq(Rows) /\ Len(b) = Len(s) - i /\ \A j \in 1..(Len(s) - i) : b[j] = s[i + j]
  BY <1>1, SubSeqProperties
<1> HIDE DEF a, b
<1>4. /\ a \o b \in Seq(Rows) /\ Len(a \o b) = Len(s) - 1
      /\ \A j \in 1..(Len(s) - 1) : (a \o b)[j] = IF j <= i - 1 THEN a[j] ELSE b[j - (i - 1)]
  <2>1. /\ a \o b \in Seq(Rows) /\ Len(a \o b) = Len(a) + Len(b)
        /\ \A j \in 1..(Len(a) + Len(b)) : (a \o b)[j] = IF j <= Len(a) THEN a[j] ELSE b[j - Len(a)]
    BY <1>2, <1>3, ConcatProperties
  <2>2. Len(a) + Len(b) = Len(s) - 1
    BY <1>1, <1>2, <1>3
  <2> QED BY <1>2, <2>1, <2>2
<1>5. \A j \in 1..(Len(s) - 1) : ~(j <= i - 1) => b[j - (i - 1)] = s[j + 1]
  <2> SUFFICES ASSUME NEW j \in 1..(Len(s) - 1), ~(j <= i - 1) PROVE b[j - (i - 1)] = s[j + 1]
    OBVIOUS
  <2>1. j - (i - 1) \in 1..(Len(s) - i) /\ i + (j - (i - 1)) = j + 1
    BY <1>1
  <2> QED BY <1>3, <2>1
<1>6. /\ a \o b \in Seq(Rows) /\ Len(a \o b) = Len(s) - 1
      /\ \A j \in 1..(Len(s) - 1) : (a \o b)[j] = IF j < i THEN s[j] ELSE s[j + 1]
  BY <1>1, <1>2, <1>4, <1>5
<1> QED BY <1>6 DEF RemoveAt, a, b

\* Which page a row is on.
LEMMA PageOf ==
  ASSUME NEW j \in Nat \ {0}, NEW p \in Nat \ {0}
  PROVE  (j - 1) \div PageSize = p - 1 <=> (p - 1) * PageSize < j /\ j <= p * PageSize
<1>1. PageSize \in Nat /\ PageSize > 0
  BY PageSizeAssumption
<1> DEFINE q == (j - 1) \div PageSize
           r == (j - 1) % PageSize
<1>2. q \in Nat /\ r \in 0..(PageSize - 1) /\ j - 1 = PageSize * q + r
  BY <1>1, SMT
<1> HIDE DEF q, r
<1>3. p * PageSize = (p - 1) * PageSize + PageSize
  BY <1>1, SMT
<1>4. CASE q = p - 1
  BY <1>1, <1>2, <1>3, <1>4, SMT
<1>5. CASE q < p - 1
  <2>1. PICK k \in Nat : p - 1 = q + 1 + k
    <3>1. p - 1 - q - 1 \in Nat /\ p - 1 = q + 1 + (p - 1 - q - 1)
      BY <1>2, <1>5, SMT
    <3> QED BY <3>1
  <2>2. (p - 1) * PageSize = PageSize * q + PageSize + k * PageSize /\ k * PageSize >= 0
    BY <1>1, <1>2, <2>1, SMT
  <2> QED BY <1>1, <1>2, <1>5, <2>2, SMT
<1>6. CASE q > p - 1
  <2>1. PICK k \in Nat : q = p + k
    <3>1. q - p \in Nat /\ q = p + (q - p)
      BY <1>2, <1>6, SMT
    <3> QED BY <3>1
  <2>2. PageSize * q = p * PageSize + k * PageSize /\ k * PageSize >= 0
    BY <1>1, <1>2, <2>1, SMT
  <2> QED BY <1>1, <1>2, <1>3, <1>6, <2>2, SMT
<1> QED BY <1>2, <1>4, <1>5, <1>6 DEF q

LEMMA ReachTyped ==
  ASSUME NEW p \in Nat \ {0}
  PROVE  (p - 1) * PageSize \in Nat /\ p * PageSize \in Nat /\ (p = 1 => (p - 1) * PageSize = 0)
<1>1. PageSize \in Nat
  BY PageSizeAssumption
<1> QED BY <1>1, SMT

\* Sets of rows have a size, and one row more is one more at most.
LEMMA RowsCounted ==
  ASSUME NEW S \in SUBSET Rows
  PROVE  /\ IsFiniteSet(S) /\ Cardinality(S) \in Nat
         /\ \A T \in SUBSET S : Cardinality(T) <= Cardinality(S)
         /\ \A row : \A T \in SUBSET (S \cup {row}) : Cardinality(T) <= Cardinality(S) + 1
<1>1. IsFiniteSet(S)
  BY RowsAssumption, FS_Subset
<1>2. Cardinality(S) \in Nat
  BY <1>1, FS_CardinalityType
<1>3. \A T \in SUBSET S : Cardinality(T) <= Cardinality(S)
  BY <1>1, FS_Subset
<1>4. ASSUME NEW row, NEW T \in SUBSET (S \cup {row})
      PROVE  Cardinality(T) <= Cardinality(S) + 1
  <2>1. /\ IsFiniteSet(S \cup {row})
        /\ Cardinality(S \cup {row}) = IF row \in S THEN Cardinality(S) ELSE Cardinality(S) + 1
    BY <1>1, FS_AddElement
  <2>2. Cardinality(T) <= Cardinality(S \cup {row}) /\ Cardinality(T) \in Nat
    BY <2>1, FS_Subset, FS_CardinalityType
  <2> QED BY <1>2, <2>1, <2>2
<1> QED BY <1>1, <1>2, <1>3, <1>4

LEMMA BehindAreRows == PagesTypeOK => Behind \subseteq Rows
BY DEF PagesTypeOK, Behind

-----------------------------------------------------------------------------
\* The steps.

LEMMA InitSound == Init => PagesInv
<1> SUFFICES ASSUME Init PROVE PagesInv
  OBVIOUS
<1>1. PICK there \in SUBSET Rows : list \in SetToSeqs(there) /\ fresh = Rows \ there
  BY DEF Init
<1>2. list \in [1..Cardinality(there) -> there] /\ Cardinality(there) \in Nat
  BY <1>1, RowsCounted DEF SetToSeqs
<1>3. list \in Seq(Rows)
  BY <1>2
<1>4. PagesTypeOK
  <2>1. walk = "idle" /\ page = 1 /\ got = {} /\ standing = {} /\ removed = 0 /\ shrunk = FALSE
    BY DEF Init
  <2>2. 1 \in Nat \ {0} /\ 0 \in Nat /\ {} \subseteq Rows
    OBVIOUS
  <2> QED BY <1>1, <1>3, <2>1, <2>2 DEF PagesTypeOK
<1>5. RowsSound
  BY <1>1, <1>2 DEF RowsSound, ToSet, Init
<1> QED BY <1>4, <1>5 DEF PagesInv, WalkSound, MissedByDeletionOnly, Init

\* What is created was never listed, and pushes what is behind it on.
LEMMA CreateSound ==
  ASSUME PagesInv, NEW row \in fresh, NEW i \in 1..(Len(list) + 1), Create(row, i)
  PROVE  PagesInv'
<1> USE DEF PagesInv
<1>1. /\ UNCHANGED <<walk, page, got, standing, removed, shrunk>> /\ fresh' = fresh \ {row}
      /\ list' = InsertAt(list, i, row) /\ row \in Rows /\ list \in Seq(Rows)
  BY DEF Create, client, PagesTypeOK
<1>2. /\ list' \in Seq(Rows) /\ Len(list') = Len(list) + 1
      /\ \A j \in 1..(Len(list) + 1) :
           list'[j] = IF j < i THEN list[j] ELSE IF j = i THEN row ELSE list[j - 1]
  BY <1>1, InsertedAt
<1>3. PagesTypeOK'
  BY <1>1, <1>2 DEF PagesTypeOK
<1>4. Len(list) \in Nat /\ DOMAIN list = 1..Len(list) /\ DOMAIN list' = 1..(Len(list) + 1) /\ i \in Nat
  BY <1>1, <1>2
<1>5. ASSUME NEW j \in DOMAIN list'
      PROVE  list'[j] = row \/ \E k \in DOMAIN list : k <= j /\ list'[j] = list[k]
  <2>1. CASE j < i
    BY <1>2, <1>4, <2>1
  <2>2. CASE j = i
    BY <1>2, <1>4, <2>2
  <2>3. CASE j > i
    <3>1. j - 1 \in DOMAIN list /\ j - 1 <= j /\ list'[j] = list[j - 1]
      BY <1>2, <1>4, <2>3
    <3> QED BY <3>1
  <2> QED BY <1>4, <2>1, <2>2, <2>3
<1>6. ASSUME NEW k \in DOMAIN list
      PROVE  \E j \in DOMAIN list' : list'[j] = list[k]
  <2>1. CASE k < i
    BY <1>2, <1>4, <2>1
  <2>2. CASE k >= i
    <3>1. k + 1 \in DOMAIN list' /\ list'[k + 1] = list[k]
      BY <1>2, <1>4, <2>2
    <3> QED BY <3>1
  <2> QED BY <1>4, <2>1, <2>2
<1>7. RowsSound'
  BY <1>1, <1>5, <1>6 DEF RowsSound, ToSet
<1>8. row \notin standing
  BY DEF RowsSound
<1>9. Reach' = Reach /\ Reach \in Nat
  BY <1>1, ReachTyped DEF Reach, PagesTypeOK
<1>10. Behind' \subseteq Behind
  <2> SUFFICES ASSUME NEW r \in Behind' PROVE r \in Behind
    OBVIOUS
  <2>1. r \in standing \ got
    BY <1>1 DEF Behind
  <2>2. PICK j \in DOMAIN list' : j <= Reach /\ list'[j] = r
    BY <1>1, <1>9 DEF Behind
  <2>3. PICK k \in DOMAIN list : k <= j /\ list'[j] = list[k]
    BY <1>5, <1>8, <2>1, <2>2
  <2>4. k <= Reach
    BY <1>4, <1>9, <2>2, <2>3
  <2> QED BY <2>1, <2>2, <2>3, <2>4 DEF Behind
<1>11. Cardinality(Behind') <= Cardinality(Behind)
  BY <1>10, BehindAreRows, RowsCounted
<1>12. Found(page) => Found(page)'
  BY <1>1, <1>2, <1>4, <1>9 DEF Found, Reach
<1>13. Cardinality(Behind) <= removed => Cardinality(Behind') <= removed
  BY <1>10, <1>11, BehindAreRows, RowsCounted DEF PagesTypeOK
<1>14. WalkSound'
  BY <1>1, <1>12, <1>13 DEF WalkSound
<1>15. MissedByDeletionOnly'
  BY <1>1 DEF MissedByDeletionOnly
<1> QED BY <1>3, <1>7, <1>14, <1>15

\* What is deleted behind the walk lets one row slip past it.
LEMMA DeleteSound ==
  ASSUME PagesInv, NEW i \in DOMAIN list, Delete(i)
  PROVE  PagesInv'
<1> USE DEF PagesInv
<1>1. /\ UNCHANGED <<fresh, walk, page, got>> /\ standing' = standing \ {list[i]}
      /\ list' = RemoveAt(list, i) /\ list \in Seq(Rows)
      /\ removed' = (IF Read(i) THEN removed + 1 ELSE removed) /\ removed \in Nat
      /\ shrunk' = (shrunk \/ walk = "walking")
  BY DEF Delete, client, PagesTypeOK
<1>2. /\ list' \in Seq(Rows) /\ Len(list') = Len(list) - 1
      /\ \A j \in 1..(Len(list) - 1) : list'[j] = IF j < i THEN list[j] ELSE list[j + 1]
  BY <1>1, RemovedAt
<1>3. PagesTypeOK'
  BY <1>1, <1>2 DEF PagesTypeOK
<1>4. Len(list) \in Nat /\ DOMAIN list = 1..Len(list) /\ DOMAIN list' = 1..(Len(list) - 1) /\ i \in Nat
  BY <1>1, <1>2
<1>5. ASSUME NEW j \in DOMAIN list'
      PROVE  /\ j \in DOMAIN list /\ j + 1 \in DOMAIN list
             /\ j < i => list'[j] = list[j]
             /\ j >= i => list'[j] = list[j + 1]
  BY <1>2, <1>4
<1>6. ASSUME NEW k \in DOMAIN list, k # i
      PROVE  \E j \in DOMAIN list' : list'[j] = list[k]
  <2>1. CASE k < i
    <3>1. k \in DOMAIN list'
      BY <1>4, <2>1
    <3> QED BY <1>5, <2>1, <3>1
  <2>2. CASE k > i
    <3>1. k - 1 \in DOMAIN list' /\ k - 1 >= i /\ (k - 1) + 1 = k
      BY <1>4, <2>2
    <3> QED BY <1>5, <3>1
  <2> QED BY <1>4, <1>6, <2>1, <2>2
<1>7. RowsSound'
  BY <1>1, <1>5, <1>6 DEF RowsSound, ToSet
<1>8. Reach' = Reach /\ Reach \in Nat
  BY <1>1, ReachTyped DEF Reach, PagesTypeOK
<1>9. Behind \subseteq Rows /\ Cardinality(Behind) \in Nat /\ Behind' \subseteq Rows
      /\ Cardinality(Behind') \in Nat
  BY <1>3, BehindAreRows, RowsCounted DEF Behind, PagesTypeOK
<1>10. ASSUME i > Reach
       PROVE  Cardinality(Behind') <= Cardinality(Behind)
  <2>1. Behind' \subseteq Behind
    <3> SUFFICES ASSUME NEW r \in Behind' PROVE r \in Behind
      OBVIOUS
    <3>1. PICK j \in DOMAIN list' : j <= Reach /\ list'[j] = r
      BY <1>8 DEF Behind
    <3>2. j < i
      BY <1>4, <1>8, <1>10, <3>1
    <3> QED BY <1>1, <1>5, <3>1, <3>2 DEF Behind
  <2> QED BY <1>9, <2>1, RowsCounted
<1>11. Cardinality(Behind') <= Cardinality(Behind) + 1
  <2>1. PICK next : \A r \in Behind' : r \in Behind \cup {next}
    <3>1. CASE Reach + 1 \in DOMAIN list
      <4>1. ASSUME NEW r \in Behind'
            PROVE  r \in Behind \cup {list[Reach + 1]}
        <5>1. PICK j \in DOMAIN list' : j <= Reach /\ list'[j] = r
          BY <1>8 DEF Behind
        <5>2. CASE j < i
          BY <1>1, <1>5, <5>1, <5>2 DEF Behind
        <5>3. CASE j >= i
          <6>1. j + 1 \in DOMAIN list /\ list[j + 1] = r
            BY <1>5, <5>1, <5>3
          <6>2. CASE j = Reach
            BY <6>1, <6>2
          <6>3. CASE j < Reach
            <7>1. j + 1 <= Reach
              BY <1>4, <1>8, <6>3
            <7> QED BY <1>1, <6>1, <7>1 DEF Behind
          <6> QED BY <1>4, <1>8, <5>1, <6>2, <6>3
        <5> QED BY <1>4, <5>2, <5>3
      <4> QED BY <4>1
    <3>2. CASE Reach + 1 \notin DOMAIN list
      <4>1. ASSUME NEW r \in Behind'
            PROVE  r \in Behind
        <5>1. PICK j \in DOMAIN list' : j <= Reach /\ list'[j] = r
          BY <1>8 DEF Behind
        <5>2. PICK k \in DOMAIN list : list[k] = r
          BY <1>5, <5>1, <1>4
        <5>3. k <= Reach
          BY <1>4, <1>8, <3>2
        <5> QED BY <1>1, <5>2, <5>3 DEF Behind
      <4> QED BY <4>1
    <3> QED BY <3>1, <3>2
  <2>2. Behind' \in SUBSET (Behind \cup {next})
    BY <2>1
  <2> QED BY <1>9, <2>2, RowsCounted
<1>12. ASSUME walk = "walking"
       PROVE  Cardinality(Behind') <= removed'
  <2>1. Read(i) <=> i <= Reach
    BY <1>12 DEF Read, Reach
  <2>2. Cardinality(Behind) <= removed
    BY <1>12 DEF WalkSound
  <2> QED BY <1>1, <1>4, <1>8, <1>9, <1>10, <1>11, <2>1, <2>2
<1>13. WalkSound'
  BY <1>1, <1>12 DEF WalkSound
<1>14. MissedByDeletionOnly'
  <2>1. walk = "done" => removed' = removed
    BY <1>1 DEF Read
  <2>2. (standing \ got)' \subseteq standing \ got /\ standing \ got \in SUBSET Rows
    BY <1>1 DEF PagesTypeOK
  <2>3. /\ Cardinality((standing \ got)') <= Cardinality(standing \ got)
        /\ Cardinality((standing \ got)') \in Nat /\ Cardinality(standing \ got) \in Nat
    BY <2>2, RowsCounted
  <2>4. walk' = "done" => Cardinality((standing \ got)') <= removed'
    BY <1>1, <2>1, <2>3 DEF MissedByDeletionOnly
  <2>5. walk' = "refused" => shrunk'
    BY <1>1 DEF MissedByDeletionOnly
  <2> QED BY <2>4, <2>5 DEF MissedByDeletionOnly
<1> QED BY <1>3, <1>7, <1>13, <1>14

LEMMA BeginSound ==
  ASSUME PagesInv, BeginWalk
  PROVE  PagesInv'
<1> USE DEF PagesInv
<1>1. /\ UNCHANGED <<list, fresh, page, got, removed, shrunk>> /\ walk = "idle" /\ walk' = "walking"
      /\ standing' = ToSet(list) /\ list \in Seq(Rows) /\ removed \in Nat
  BY DEF BeginWalk, server, PagesTypeOK
<1>2. ToSet(list) \subseteq Rows
  BY <1>1 DEF ToSet
<1>3. PagesTypeOK' /\ RowsSound'
  BY <1>1, <1>2 DEF PagesTypeOK, RowsSound
<1>4. page = 1 /\ Reach' = 0
  BY <1>1, ReachTyped DEF Reach, WalkSound, PagesTypeOK
<1>5. Behind' = {}
  <2>1. \A i \in DOMAIN list : ~(i <= 0)
    BY <1>1
  <2> QED BY <1>1, <1>4, <2>1 DEF Behind
<1>6. Cardinality(Behind') = 0
  BY <1>5, FS_EmptySet
<1>7. WalkSound'
  BY <1>1, <1>4, <1>6 DEF WalkSound, Found
<1>8. MissedByDeletionOnly'
  BY <1>1 DEF MissedByDeletionOnly
<1> QED BY <1>3, <1>7, <1>8

\* A page takes with it what is on it, and leaves nothing more behind.
LEMMA FetchSound ==
  ASSUME PagesInv, Fetch
  PROVE  PagesInv'
<1> USE DEF PagesInv
<1>1. /\ UNCHANGED <<list, fresh, standing, removed, shrunk>> /\ walk = "walking" /\ Found(page)
      /\ got' = got \cup Results(page) /\ list \in Seq(Rows) /\ removed \in Nat /\ page \in Nat \ {0}
      /\ NextPage(page) <= page => walk' = "done" /\ page' = page
      /\ ~(NextPage(page) <= page) => walk' = "walking" /\ page' = NextPage(page)
  BY DEF Fetch, server, PagesTypeOK
<1>2. Len(list) \in Nat /\ DOMAIN list = 1..Len(list) /\ Reach \in Nat /\ page * PageSize \in Nat
  BY <1>1, ReachTyped DEF Reach
<1>3. ASSUME NEW j \in DOMAIN list, j > Reach, j <= page * PageSize
      PROVE  list[j] \in got'
  <2>1. (j - 1) \div PageSize = page - 1
    BY <1>1, <1>2, <1>3, PageOf DEF Reach
  <2> QED BY <1>1, <2>1 DEF Results
<1>4. Results(page) \subseteq Rows
  BY <1>1 DEF Results
<1>5. NextPage(page) = (IF page * PageSize < Len(list) THEN page + 1 ELSE 0)
  BY DEF NextPage
<1>6. PagesTypeOK' /\ RowsSound'
  BY <1>1, <1>4, <1>5 DEF PagesTypeOK, RowsSound
<1>7. Cardinality(Behind) <= removed /\ Cardinality(Behind) \in Nat /\ Behind \in SUBSET Rows
  BY <1>1, BehindAreRows, RowsCounted DEF WalkSound
<1>8. CASE page * PageSize < Len(list)
  <2>1. walk' = "walking" /\ page' = page + 1 /\ Reach' = page * PageSize
    BY <1>1, <1>5, <1>8 DEF Reach
  <2>2. Behind' \subseteq Behind
    <3> SUFFICES ASSUME NEW r \in Behind' PROVE r \in Behind
      OBVIOUS
    <3>1. r \in standing \ got /\ r \notin got'
      BY <1>1 DEF Behind
    <3>2. PICK j \in DOMAIN list : j <= page * PageSize /\ list[j] = r
      BY <1>1, <2>1 DEF Behind
    <3>3. j <= Reach
      BY <1>2, <1>3, <3>1, <3>2
    <3> QED BY <3>1, <3>2, <3>3 DEF Behind
  <2>3. Cardinality(Behind') <= Cardinality(Behind) /\ Cardinality(Behind') \in Nat
    BY <1>7, <2>2, RowsCounted
  <2>4. Found(page)'
    BY <1>1, <1>8, <2>1 DEF Found
  <2>5. WalkSound'
    BY <1>1, <1>7, <2>1, <2>3, <2>4 DEF WalkSound
  <2> QED BY <1>6, <2>1, <2>5 DEF MissedByDeletionOnly
<1>9. CASE ~(page * PageSize < Len(list))
  <2>1. walk' = "done" /\ page' = page
    BY <1>1, <1>5, <1>9
  <2>2. standing \ got' \subseteq Behind
    <3> SUFFICES ASSUME NEW r \in standing \ got' PROVE r \in Behind
      OBVIOUS
    <3>1. PICK j \in DOMAIN list : list[j] = r
      BY DEF RowsSound, ToSet
    <3>2. j <= Reach
      BY <1>2, <1>3, <1>9, <3>1
    <3> QED BY <1>1, <3>1, <3>2 DEF Behind
  <2>3. /\ Cardinality(standing \ got') <= Cardinality(Behind)
        /\ Cardinality(standing \ got') \in Nat
    BY <1>7, <2>2, RowsCounted
  <2>4. MissedByDeletionOnly'
    BY <1>1, <1>7, <2>1, <2>3 DEF MissedByDeletionOnly
  <2> QED BY <1>6, <2>1, <2>4 DEF WalkSound
<1> QED BY <1>8, <1>9

LEMMA DropSound ==
  ASSUME PagesInv, FetchNotFound \/ FetchFails
  PROVE  PagesInv'
<1>1. /\ UNCHANGED <<list, fresh, page, standing, removed, shrunk>> /\ got' = {} /\ walk = "walking"
      /\ walk' \in {"refused", "failed"}
      /\ walk' = "refused" => ~Found(page)
  BY DEF FetchNotFound, FetchFails, Drop, server
<1>2. walk' = "refused" => shrunk'
  BY <1>1 DEF PagesInv, WalkSound
<1> QED BY <1>1, <1>2 DEF PagesInv, PagesTypeOK, RowsSound, WalkSound, MissedByDeletionOnly

LEMMA PagesStep == PagesInv /\ [Next]_vars => PagesInv'
<1> SUFFICES ASSUME PagesInv, [Next]_vars PROVE PagesInv'
  OBVIOUS
<1>1. CASE UNCHANGED vars
  <2>1. UNCHANGED <<list, fresh, walk, page, got, standing, removed, shrunk>>
    BY <1>1 DEF vars, server, client
  <2> QED BY <2>1 DEF PagesInv, PagesTypeOK, RowsSound, WalkSound, MissedByDeletionOnly, Behind, Reach, Found
<1> QED BY <1>1, CreateSound, DeleteSound, BeginSound, FetchSound, DropSound DEF Next, Step

\* The inductive invariant of the walk and the list it walks.
THEOREM PagesInvariant == Spec => []PagesInv
BY InitSound, PagesStep, PTL DEF Spec

\* "Returns every provider" (ListAllProviders): of the rows that were listed all along a
\* walk misses no more than were deleted behind it, and only a list that shrank refuses
\* it a page.
THEOREM NothingElseIsMissed == Spec => []MissedByDeletionOnly
<1>1. PagesInv => MissedByDeletionOnly
  BY DEF PagesInv
<1> QED BY <1>1, PagesInvariant, PTL
=============================================================================
