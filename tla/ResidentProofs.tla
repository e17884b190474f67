--------------------------- MODULE ResidentProofs ---------------------------
(***************************************************************************)
(* A resident session, for any number of witnesses, questions and index    *)
(* files, and any bounds of the memo.                                      *)
(*                                                                         *)
(* Any number of clients: the files and the clients keep to their types    *)
(* (TypeCorrect), and the memo to its bounds if no client dies at work     *)
(* (BoundsHold).  Commands that run one at a time, whatever the faults: a  *)
(* memoized result is one of the witness its key names (OneClientMemo), a  *)
(* retired session stays retired (OneClientRetired), rebuilt indexes are   *)
(* those of the handle's witness (OneClientRebuild), and a result that     *)
(* fits the memo survives its own eviction (OneClientKept).                *)
(*                                                                         *)
(* The bytes of the memo are a fold over a set of keys.  What is proved of *)
(* them goes by the smallest set that could refute it.                     *)
(***************************************************************************)
EXTENDS ResidentSession, FiniteSetTheorems, SequenceTheorems,
        WellFoundedInduction, TLAPS

USE DEF Nothing, Labels

-----------------------------------------------------------------------------
(* The bytes of the memo *)

\* Induction: a set of numbers has a least one.
LEMMA LeastNatural ==
  ASSUME NEW S \in SUBSET Nat, S # {}
  PROVE  \E n \in S : \A m \in S : n <= m
<1> DEFINE Less == {ss \in Nat \X Nat : ss[1] < ss[2]}
<1>1. IsWellFoundedOn(Less, Nat)
  BY NatLessThanWellFounded DEF OpToRel
<1>2. \A m, n \in Nat : m < n => <<m, n>> \in Less
  OBVIOUS
<1> HIDE DEF Less
<1>3. PICK n \in S : \A m \in S : ~(<<m, n>> \in Less)
  BY <1>1, WFMin
<1>4. ASSUME NEW m \in S PROVE n <= m
  <2>1. m \in Nat /\ n \in Nat OBVIOUS
  <2>2. ~(<<m, n>> \in Less) BY <1>3
  <2>3. ~(m < n) BY <1>2, <2>1, <2>2
  <2>4. QED BY <2>1, <2>3
<1>5. QED BY <1>4

\* ... and a set of finite sets has a smallest one.
LEMMA SmallestSet ==
  ASSUME NEW B, B # {}, \A T \in B : IsFiniteSet(T)
  PROVE  \E T \in B : \A U \in B : Cardinality(T) <= Cardinality(U)
<1> DEFINE sizes == {Cardinality(T) : T \in B}
<1>1. sizes \in SUBSET Nat /\ sizes # {} BY FS_CardinalityType
<1>2. PICK n \in sizes : \A m \in sizes : n <= m BY <1>1, LeastNatural
<1>3. QED BY <1>2

\* The bytes of a set of keys, one by one.
Weight(k) == Size[k[2]]
Units(S) == {u \in S \X Nat : u[2] \in 1..Weight(u[1])}

LEMMA UnitsGrow ==
  ASSUME NEW S \in SUBSET Keys, NEW x \in S, IsFiniteSet(Units(S \ {x}))
  PROVE  /\ IsFiniteSet(Units(S))
         /\ Cardinality(Units(S)) = Weight(x) + Cardinality(Units(S \ {x}))
<1> DEFINE new == {x} \X (1..Weight(x))
           old == Units(S \ {x})
<1>1. Weight(x) \in Nat BY SizesAssumption DEF Weight, Keys
<1>2. Units(S) = new \cup old /\ new \cap old = {} BY <1>1 DEF Units
<1>3. IsFiniteSet({x}) /\ Cardinality({x}) = 1 BY FS_Singleton
<1>4. IsFiniteSet(1..Weight(x)) /\ Cardinality(1..Weight(x)) = Weight(x)
  BY <1>1, FS_Interval
<1>5. IsFiniteSet(new) /\ Cardinality(new) = Weight(x)
  <2>1. /\ IsFiniteSet(new)
        /\ Cardinality(new) = Cardinality({x}) * Cardinality(1..Weight(x))
    BY <1>3, <1>4, FS_Product
  <2>2. QED BY <1>1, <1>3, <1>4, <2>1
<1> HIDE DEF new, old
<1>6. /\ IsFiniteSet(new \cup old)
      /\ Cardinality(new \cup old) =
           Cardinality(new) + Cardinality(old) - Cardinality(new \cap old)
  BY <1>5, FS_Union DEF old
<1>7. Cardinality(new \cap old) = 0 /\ Cardinality(old) \in Nat
  BY <1>2, FS_EmptySet, FS_CardinalityType DEF old
<1>8. QED BY <1>1, <1>2, <1>5, <1>6, <1>7 DEF old

LEMMA UnitsFinite ==
  ASSUME NEW S \in SUBSET Keys, IsFiniteSet(S)
  PROVE  IsFiniteSet(Units(S))
<1> DEFINE Bad == {T \in SUBSET S : ~IsFiniteSet(Units(T))}
<1>1. SUFFICES ASSUME Bad # {} PROVE FALSE OBVIOUS
<1>2. \A T \in Bad : IsFiniteSet(T) BY FS_Subset
<1>3. PICK T \in Bad : \A U \in Bad : Cardinality(T) <= Cardinality(U)
  <2> HIDE DEF Bad
  <2>1. QED BY <1>1, <1>2, SmallestSet
<1>4. CASE T = {}
  <2>1. Units(T) = {} BY <1>4 DEF Units
  <2>2. QED BY <2>1, FS_EmptySet
<1>5. ASSUME NEW x \in T PROVE FALSE
  <2>1. Cardinality(T \ {x}) = Cardinality(T) - 1 /\ Cardinality(T) \in Nat
    BY <1>2, FS_RemoveElement, FS_CardinalityType
  <2>2. T \ {x} \notin Bad BY <1>3, <2>1
  <2>3. QED BY <2>2, UnitsGrow
<1>6. QED BY <1>4, <1>5

\* Bytes adds up what it is said to add up, in whatever order.
LEMMA BytesAreUnits ==
  ASSUME NEW S \in SUBSET Keys, IsFiniteSet(S)
  PROVE  Bytes(S) = Cardinality(Units(S))
<1> DEFINE Chosen(s) == CHOOSE x \in s : TRUE
           Adds(f) == f = [s \in SUBSET S |->
                             IF s = {} THEN 0
                             ELSE Weight(Chosen(s)) + f[s \ {Chosen(s)}]]
           units == [s \in SUBSET S |-> Cardinality(Units(s))]
           sum == CHOOSE f : Adds(f)
<1>1. Bytes(S) = sum[S]
  BY DEF Bytes, MapThenSumSet, MapThenFoldSet, Weight
<1>2. \A s \in SUBSET S : IsFiniteSet(s) /\ s \in SUBSET Keys BY FS_Subset
<1>3. \A s \in SUBSET S : s # {} => Chosen(s) \in s OBVIOUS
<1> HIDE DEF Chosen
<1>4. \A s \in SUBSET S :
        Cardinality(Units(s)) = IF s = {} THEN 0
                                ELSE Weight(Chosen(s)) + Cardinality(Units(s \ {Chosen(s)}))
  <2>1. Cardinality(Units({})) = 0
    <3>1. Units({}) = {} BY DEF Units
    <3>2. QED BY <3>1, FS_EmptySet
  <2>2. QED BY <1>2, <1>3, <2>1, UnitsGrow, UnitsFinite
<1>5. Adds(units) BY <1>4
<1>6. Adds(sum) BY <1>5, Zenon
<1> HIDE DEF sum
<1>7. \A s \in SUBSET S :
        sum[s] = IF s = {} THEN 0 ELSE Weight(Chosen(s)) + sum[s \ {Chosen(s)}]
  BY <1>6
<1> HIDE DEF Adds, units
<1> DEFINE Bad == {s \in SUBSET S : sum[s] # Cardinality(Units(s))}
<1>8. Bad = {}
  <2>1. SUFFICES ASSUME Bad # {} PROVE FALSE OBVIOUS
  <2>2. \A s \in Bad : IsFiniteSet(s) BY <1>2
  <2>3. PICK s \in Bad : \A t \in Bad : Cardinality(s) <= Cardinality(t)
    <3> HIDE DEF Bad
    <3>1. QED BY <2>1, <2>2, SmallestSet
  <2>4. s # {} BY <1>4, <1>7
  <2>5. Chosen(s) \in s BY <1>3, <2>4
  <2>6. Cardinality(s \ {Chosen(s)}) = Cardinality(s) - 1 /\ Cardinality(s) \in Nat
    BY <2>2, <2>5, FS_RemoveElement, FS_CardinalityType
  <2>7. s \ {Chosen(s)} \notin Bad BY <2>3, <2>6
  <2>8. QED BY <1>4, <1>7, <2>4, <2>7
<1>9. QED BY <1>1, <1>8

LEMMA BytesBounds ==
  ASSUME NEW B \in SUBSET Keys, IsFiniteSet(B), NEW A \in SUBSET B
  PROVE  Bytes(A) \in Nat /\ Bytes(B) \in Nat /\ Bytes(A) <= Bytes(B)
<1>1. IsFiniteSet(A) /\ A \in SUBSET Keys BY FS_Subset
<1>2. Units(A) \in SUBSET Units(B) BY DEF Units
<1>3. QED
  BY <1>1, <1>2, UnitsFinite, BytesAreUnits, FS_Subset, FS_CardinalityType

LEMMA BytesOfOne ==
  ASSUME NEW k \in Keys
  PROVE  Bytes({k}) = Size[k[2]]
<1>1. Units({k} \ {k}) = {} /\ {k} \ {k} = {} BY DEF Units
<1>2. Cardinality(Units({k})) = Weight(k) + 0
  BY <1>1, UnitsGrow, FS_EmptySet
<1>3. Weight(k) \in Nat BY SizesAssumption DEF Weight, Keys
<1>4. IsFiniteSet({k}) BY FS_Singleton
<1>5. Bytes({k}) = Cardinality(Units({k})) BY <1>4, BytesAreUnits
<1>6. QED BY <1>2, <1>3, <1>5 DEF Weight
-----------------------------------------------------------------------------
(* The list of the memo's files *)

\* What is removed from a list is the first place it has there.
LEMMA FirstRemoved ==
  ASSUME NEW S, NEW s \in Seq(S), NEW k
  PROVE  \/ (\A i \in 1..Len(s) : s[i] # k) /\ RemoveFirst(s, k) = s
         \/ \E n \in 1..Len(s) :
              /\ s[n] = k /\ (\A m \in 1..(n - 1) : s[m] # k)
              /\ RemoveFirst(s, k) = SubSeq(s, 1, n - 1) \o SubSeq(s, n + 1, Len(s))
<1>1. CASE \E i \in 1..Len(s) : s[i] = k
  <2> DEFINE I == {i \in 1..Len(s) : s[i] = k}
  <2>1. I # {} BY <1>1
  <2>2. SelectInSeq(s, LAMBDA v : v = k) = Min(I) BY <2>1, Zenon DEF SelectInSeq
  <2>3. RemoveFirst(s, k) = RemoveAt(s, Min(I)) BY <1>1, <2>2, Zenon DEF RemoveFirst
  <2>4. I \in SUBSET Nat OBVIOUS
  <2> HIDE DEF I
  <2>5. \E n \in I : \A m \in I : n <= m BY <2>1, <2>4, LeastNatural
  <2>6. Min(I) \in I /\ \A m \in I : Min(I) <= m BY <2>5 DEF Min
  <2>7. PICK n \in 1..Len(s) : n = Min(I) /\ s[n] = k /\ \A m \in I : n <= m
    BY <2>6 DEF I
  <2>8. \A m \in 1..(n - 1) : s[m] # k BY <2>7 DEF I
  <2>9. QED BY <2>3, <2>7, <2>8 DEF RemoveAt
<1>2. CASE ~\E i \in 1..Len(s) : s[i] = k BY <1>2 DEF RemoveFirst
<1>3. QED BY <1>1, <1>2

LEMMA Spliced ==
  ASSUME NEW S, NEW s \in Seq(S), NEW n \in 1..Len(s)
  PROVE  LET r == SubSeq(s, 1, n - 1) \o SubSeq(s, n + 1, Len(s))
         IN /\ r \in Seq(S) /\ Len(r) = Len(s) - 1
            /\ \A i \in 1..(Len(s) - 1) : r[i] = IF i < n THEN s[i] ELSE s[i + 1]
<1> DEFINE a == SubSeq(s, 1, n - 1)
           b == SubSeq(s, n + 1, Len(s))
           r == a \o b
<1>1. a \in Seq(S) /\ Len(a) = n - 1 /\ \A i \in 1..(n - 1) : a[i] = s[i]
  OBVIOUS
<1>2. b \in Seq(S) /\ Len(b) = Len(s) - n
  OBVIOUS
<1>3. \A i \in 1..(Len(s) - n) : b[i] = s[n + i]
  OBVIOUS
<1> HIDE DEF a, b
<1>4. /\ r \in Seq(S) /\ Len(r) = Len(a) + Len(b)
      /\ \A i \in 1..(Len(a) + Len(b)) :
           r[i] = IF i <= Len(a) THEN a[i] ELSE b[i - Len(a)]
  BY <1>1, <1>2, ConcatProperties
<1> HIDE DEF r
<1>5. Len(r) = Len(s) - 1 BY <1>1, <1>2, <1>4
<1>6. ASSUME NEW i \in 1..(Len(s) - 1)
      PROVE  r[i] = IF i < n THEN s[i] ELSE s[i + 1]
  <2>1. i \in 1..(Len(a) + Len(b)) BY <1>1, <1>2
  <2>2. r[i] = IF i <= n - 1 THEN a[i] ELSE b[i - (n - 1)] BY <1>1, <1>4, <2>1
  <2>3. CASE i <= n - 1
    <3>1. i \in 1..(n - 1) /\ i < n BY <2>3
    <3>2. a[i] = s[i] BY <1>1, <3>1
    <3>3. QED BY <2>2, <2>3, <3>1, <3>2
  <2>4. CASE i > n - 1
    <3>1. /\ (i - (n - 1)) \in 1..(Len(s) - n) /\ n + (i - (n - 1)) = i + 1
          /\ ~(i < n) /\ ~(i <= n - 1)
      BY <2>4
    <3>2. b[i - (n - 1)] = s[n + (i - (n - 1))] BY <1>3, <3>1
    <3>3. QED BY <2>2, <3>1, <3>2
  <2>5. QED BY <2>3, <2>4
<1>7. QED BY <1>4, <1>5, <1>6 DEF r, a, b

\* Every other element stays, in its order, and the type is kept.
LEMMA OthersStay ==
  ASSUME NEW S, NEW s \in Seq(S), NEW k
  PROVE  /\ RemoveFirst(s, k) \in Seq(S)
         /\ \A j \in 1..Len(s) : s[j] # k =>
              \E i \in 1..Len(RemoveFirst(s, k)) : RemoveFirst(s, k)[i] = s[j]
<1>1. CASE RemoveFirst(s, k) = s BY <1>1
<1>2. ASSUME NEW n \in 1..Len(s), s[n] = k,
             RemoveFirst(s, k) = SubSeq(s, 1, n - 1) \o SubSeq(s, n + 1, Len(s))
      PROVE  /\ RemoveFirst(s, k) \in Seq(S)
             /\ \A j \in 1..Len(s) : s[j] # k =>
                  \E i \in 1..Len(RemoveFirst(s, k)) : RemoveFirst(s, k)[i] = s[j]
  <2> DEFINE r == SubSeq(s, 1, n - 1) \o SubSeq(s, n + 1, Len(s))
  <2>1. /\ r \in Seq(S) /\ Len(r) = Len(s) - 1
        /\ \A i \in 1..(Len(s) - 1) : r[i] = IF i < n THEN s[i] ELSE s[i + 1]
    BY Spliced
  <2> HIDE DEF r
  <2>2. ASSUME NEW j \in 1..Len(s), s[j] # k
        PROVE  \E i \in 1..Len(r) : r[i] = s[j]
    <3>1. CASE j < n
      <4>1. j \in 1..Len(r) /\ r[j] = s[j] BY <2>1, <3>1
      <4>2. QED BY <4>1
    <3>2. CASE j > n
      <4>1. (j - 1) \in 1..Len(r) /\ r[j - 1] = s[j] BY <2>1, <3>2
      <4>2. QED BY <4>1
    <3>3. QED BY <1>2, <2>2, <3>1, <3>2
  <2>3. QED BY <1>2, <2>1, <2>2 DEF r
<1>3. QED BY <1>1, <1>2, FirstRemoved

\* A list that names nothing twice.
Distinct(s) == \A i, j \in 1..Len(s) : s[i] = s[j] => i = j

LEMMA StaysDistinct ==
  ASSUME NEW S, NEW s \in Seq(S), NEW k, Distinct(s)
  PROVE  /\ Distinct(RemoveFirst(s, k))
         /\ \A i \in 1..Len(RemoveFirst(s, k)) :
              /\ RemoveFirst(s, k)[i] # k
              /\ \E j \in 1..Len(s) : RemoveFirst(s, k)[i] = s[j]
<1>1. CASE RemoveFirst(s, k) = s /\ \A i \in 1..Len(s) : s[i] # k
  BY <1>1
<1>2. ASSUME NEW n \in 1..Len(s), s[n] = k,
             RemoveFirst(s, k) = SubSeq(s, 1, n - 1) \o SubSeq(s, n + 1, Len(s))
      PROVE  /\ Distinct(RemoveFirst(s, k))
             /\ \A i \in 1..Len(RemoveFirst(s, k)) :
                  /\ RemoveFirst(s, k)[i] # k
                  /\ \E j \in 1..Len(s) : RemoveFirst(s, k)[i] = s[j]
  <2> DEFINE r == SubSeq(s, 1, n - 1) \o SubSeq(s, n + 1, Len(s))
  <2>1. /\ Len(r) = Len(s) - 1
        /\ \A i \in 1..(Len(s) - 1) : r[i] = IF i < n THEN s[i] ELSE s[i + 1]
    BY Spliced
  <2> HIDE DEF r
  <2>2. Distinct(r) BY <2>1 DEF Distinct
  <2>3. ASSUME NEW i \in 1..Len(r)
        PROVE  r[i] # k /\ \E j \in 1..Len(s) : r[i] = s[j]
    <3>1. CASE i < n BY <1>2, <2>1, <3>1 DEF Distinct
    <3>2. CASE i >= n
      <4>1. (i + 1) \in 1..Len(s) /\ r[i] = s[i + 1] /\ i + 1 # n BY <2>1, <3>2
      <4>2. QED BY <1>2, <4>1 DEF Distinct
    <3>3. QED BY <2>1, <3>1, <3>2
  <2>4. QED BY <1>2, <2>2, <2>3 DEF r
<1>3. \/ RemoveFirst(s, k) = s /\ \A i \in 1..Len(s) : s[i] # k
      \/ \E n \in 1..Len(s) :
           /\ s[n] = k
           /\ RemoveFirst(s, k) = SubSeq(s, 1, n - 1) \o SubSeq(s, n + 1, Len(s))
  BY FirstRemoved
<1>4. QED BY <1>1, <1>2, <1>3

LEMMA HeadRemoved ==
  ASSUME NEW S, NEW s \in Seq(S), s # <<>>
  PROVE  RemoveFirst(s, Head(s)) = Tail(s)
<1>1. 1 \in 1..Len(s) /\ s[1] = Head(s) OBVIOUS
<1>2. PICK n \in 1..Len(s) :
        /\ s[n] = Head(s) /\ (\A m \in 1..(n - 1) : s[m] # Head(s))
        /\ RemoveFirst(s, Head(s)) = SubSeq(s, 1, n - 1) \o SubSeq(s, n + 1, Len(s))
  BY <1>1, FirstRemoved
<1>3. n = 1 BY <1>1, <1>2
<1>4. SubSeq(s, 1, 0) \o SubSeq(s, 2, Len(s)) = Tail(s) OBVIOUS
<1>5. QED BY <1>2, <1>3, <1>4
-----------------------------------------------------------------------------
(* Any number of clients: types *)

\* A document that names a session names the witness of it.
Bound(d) == d.state # "absent" => d.witness \in Witnesses

\* What an attach or a query holds while it is at work.
Working(c) ==
  /\ pc[c] = "check" => mine[c].state # "absent"
  /\ pc[c] \in {"reread", "load", "store", "list", "evict"} =>
       asked[c] \in Witnesses /\ goal[c] \in Questions
  /\ pc[c] = "store" => loaded[c] \in Witnesses
  /\ IsFiniteSet(missed[c])

FilesTyped ==
  /\ doc \in Document /\ Bound(doc)
  /\ held \in Contents
  /\ indexes \in [Indexes -> Known]
  /\ memo \in [Keys -> Known]
  /\ recent \in Seq(Keys)

ClientsTyped ==
  /\ pc \in [Clients -> Labels]
  /\ goal \in [Clients -> Goals]
  /\ mine \in [Clients -> Document]
  /\ asked \in [Clients -> Known]
  /\ loaded \in [Clients -> Known]
  /\ next \in [Clients -> Indexes]
  /\ listing \in [Clients -> Seq(Keys)]
  /\ missed \in [Clients -> SUBSET Keys]
  /\ wiping \in [Clients -> SUBSET Parts]
  /\ \A c \in Clients : Bound(mine[c]) /\ Working(c)

TypedInv == FilesTyped /\ ClientsTyped

LEMMA TypedInit == Init => TypedInv
<1> SUFFICES ASSUME Init PROVE TypedInv OBVIOUS
<1>1. 1 \in Indexes BY SizesAssumption DEF Indexes
<1>2. IsFiniteSet({}) BY FS_EmptySet
<1>3. NoDocument \in Document /\ Bound(NoDocument)
  BY DEF NoDocument, Document, Known, Bound
<1>4. FilesTyped
  BY <1>3 DEF Init, FilesTyped, Contents, Known
<1>5. ClientsTyped
  BY <1>1, <1>2, <1>3 DEF Init, ClientsTyped, Working, Known, Goals
<1>6. QED BY <1>4, <1>5 DEF TypedInv

LEMMA ReturnTyped ==
  ASSUME ClientsTyped, NEW c \in Clients, Return(c)
  PROVE  ClientsTyped'
<1>1. 1 \in Indexes BY SizesAssumption DEF Indexes
<1>2. IsFiniteSet({}) BY FS_EmptySet
<1>3. NoDocument \in Document /\ Bound(NoDocument)
  BY DEF NoDocument, Document, Known, Bound
<1>4. /\ pc' \in [Clients -> Labels]
      /\ goal' \in [Clients -> Goals]
      /\ mine' \in [Clients -> Document]
      /\ asked' \in [Clients -> Known]
      /\ loaded' \in [Clients -> Known]
      /\ next' \in [Clients -> Indexes]
      /\ listing' \in [Clients -> Seq(Keys)]
      /\ missed' \in [Clients -> SUBSET Keys]
      /\ wiping' \in [Clients -> SUBSET Parts]
  BY <1>1, <1>3 DEF ClientsTyped, Return, Goto, Goals, Known
<1>5. ASSUME NEW d \in Clients PROVE Bound(mine'[d]) /\ Working(d)'
  <2>1. CASE d = c
    BY <1>2, <1>3, <2>1 DEF ClientsTyped, Return, Goto, Working
  <2>2. CASE d # c
    BY <2>2 DEF ClientsTyped, Return, Goto, Working
  <2>3. QED BY <2>1, <2>2
<1>6. QED BY <1>4, <1>5 DEF ClientsTyped

LEMMA AnswerTyped ==
  ASSUME ClientsTyped, NEW c \in Clients, Answer(c)
  PROVE  ClientsTyped'
<1>1. CASE goal[c] \in Questions /\ mine[c].state = "open"
  <2>1. mine[c].witness \in Witnesses
    BY <1>1 DEF ClientsTyped, Bound
  <2>2. QED BY <1>1, <2>1 DEF Answer, ClientsTyped, Goto, Working, Known
<1>2. CASE ~(goal[c] \in Questions /\ mine[c].state = "open")
  BY <1>2, ReturnTyped, Zenon DEF Answer
<1>3. QED BY <1>1, <1>2

\* A client writes its own copy of the handle.
LEMMA CopyTyped ==
  ASSUME TypedInv, NEW c \in Clients, doc' = mine[c],
         UNCHANGED <<held, indexes, memo, recent>>
  PROVE  FilesTyped'
BY DEF TypedInv, FilesTyped, ClientsTyped

LEMMA TypedOpen ==
  ASSUME TypedInv, NEW c \in Clients,
         OpenRead(c) \/ OpenPlace(c) \/ WriteIndex(c) \/ OpenCommit(c)
  PROVE  TypedInv'
<1> USE DEF dir, locals
<1>1. CASE OpenRead(c)
  <2>1. PICK w, b \in Witnesses :
          /\ mine' = [mine EXCEPT ![c] = [state |-> "open", witness |-> w, digest |-> b]]
          /\ loaded' = [loaded EXCEPT ![c] = w]
    BY <1>1 DEF OpenRead
  <2> DEFINE copy == [state |-> "open", witness |-> w, digest |-> b]
  <2>2. copy \in Document /\ Bound(copy) BY DEF Document, Known, Bound
  <2> HIDE DEF copy
  <2>3. mine' = [mine EXCEPT ![c] = copy] BY <2>1 DEF copy
  <2>4. ClientsTyped'
    BY <1>1, <2>1, <2>2, <2>3 DEF OpenRead, TypedInv, ClientsTyped, Working, Goto, Known, Goals
  <2>5. QED BY <1>1, <2>4 DEF OpenRead, TypedInv, FilesTyped
<1>2. CASE OpenPlace(c)
  BY <1>2 DEF OpenPlace, Goto, TypedInv, FilesTyped, ClientsTyped, Working, Document,
              Contents, Known
<1>3. CASE WriteIndex(c)
  <2>1. FilesTyped'
    BY <1>3 DEF WriteIndex, TypedInv, FilesTyped, ClientsTyped
  <2>2. next' \in [Clients -> Indexes]
    <3>1. next \in [Clients -> Indexes] /\ next[c] \in Indexes
      BY DEF TypedInv, ClientsTyped
    <3>2. next[c] < NumIndexes => next[c] + 1 \in Indexes
      BY <3>1, SizesAssumption DEF Indexes
    <3>3. next' = next \/ (next[c] < NumIndexes /\ next' = [next EXCEPT ![c] = next[c] + 1])
      BY <1>3 DEF WriteIndex
    <3>4. QED BY <3>1, <3>2, <3>3
  <2>3. pc' \in [Clients -> Labels] /\ (pc' = pc \/ pc' = [pc EXCEPT ![c] = "commit"]
                                                \/ pc' = [pc EXCEPT ![c] = "record"])
    BY <1>3 DEF WriteIndex, Goto, TypedInv, ClientsTyped
  <2>4. \A d \in Clients : Bound(mine'[d]) /\ Working(d)'
    BY <1>3, <2>3 DEF WriteIndex, TypedInv, ClientsTyped, Working
  <2>5. QED BY <1>3, <2>1, <2>2, <2>3, <2>4 DEF WriteIndex, TypedInv, ClientsTyped
<1>4. CASE OpenCommit(c)
  BY <1>4, CopyTyped, ReturnTyped DEF OpenCommit, TypedInv
<1>5. QED BY <1>1, <1>2, <1>3, <1>4

LEMMA TypedAttach ==
  ASSUME TypedInv, NEW c \in Clients,
         \/ AttachRead(c) \/ AttachFresh(c) \/ AttachStale(c)
         \/ AttachOrient(c) \/ AttachRebuild(c) \/ AttachRecord(c)
  PROVE  TypedInv'
<1> USE DEF dir, locals
<1>1. CASE AttachRead(c)
  BY <1>1 DEF AttachRead, Goto, TypedInv, FilesTyped, ClientsTyped, Working
<1>2. CASE AttachFresh(c)
  BY <1>2 DEF AttachFresh, Goto, TypedInv, FilesTyped, ClientsTyped, Working
<1>3. CASE AttachStale(c)
  <2>1. doc' \in Document /\ Bound(doc')
    BY <1>3 DEF AttachStale, TypedInv, ClientsTyped, Working, Document, Bound
  <2>2. ClientsTyped' BY <1>3, ReturnTyped DEF AttachStale, TypedInv
  <2>3. QED BY <1>3, <2>1, <2>2 DEF AttachStale, TypedInv, FilesTyped
<1>4. CASE AttachOrient(c)
  BY <1>4, AnswerTyped DEF AttachOrient, TypedInv, FilesTyped
<1>5. CASE AttachRebuild(c)
  <2>1. CASE Loads(c)
    <3>1. /\ loaded' = [loaded EXCEPT ![c] = held] /\ held \in Known
          /\ pc' = [pc EXCEPT ![c] = "index"]
          /\ UNCHANGED <<doc, held, indexes, memo, recent>>
          /\ UNCHANGED <<goal, mine, asked, next, listing, missed, wiping>>
      BY <1>5, <2>1 DEF AttachRebuild, Loads, Goto, Known
    <3>2. FilesTyped' BY <3>1 DEF TypedInv, FilesTyped
    <3>3. \A d \in Clients : Bound(mine'[d]) /\ Working(d)'
      BY <3>1 DEF TypedInv, ClientsTyped, Working
    <3>4. QED BY <3>1, <3>2, <3>3 DEF TypedInv, ClientsTyped
  <2>2. CASE ~Loads(c)
    BY <1>5, <2>2, ReturnTyped DEF AttachRebuild, TypedInv, FilesTyped
  <2>3. QED BY <2>1, <2>2
<1>6. CASE AttachRecord(c)
  BY <1>6, CopyTyped, AnswerTyped DEF AttachRecord, TypedInv
<1>7. QED BY <1>1, <1>2, <1>3, <1>4, <1>5, <1>6

LEMMA TypedQuery ==
  ASSUME TypedInv, NEW c \in Clients,
         \/ QueryReread(c) \/ QueryLoad(c) \/ MemoStore(c) \/ MemoList(c)
         \/ MemoEvict(c) \/ MemoEvicted(c) \/ QueryCount(c)
  PROVE  TypedInv'
<1> USE DEF dir, locals
<1>1. CASE QueryReread(c)
  <2>1. CASE doc.state = "absent"
    BY <1>1, <2>1, ReturnTyped DEF QueryReread, TypedInv, FilesTyped
  <2>2. CASE doc.state # "absent"
    <3>1. /\ mine' = [mine EXCEPT ![c] = doc]
          /\ pc' = [pc EXCEPT ![c] = "count"] \/ pc' = [pc EXCEPT ![c] = "load"]
          /\ UNCHANGED <<doc, held, indexes, memo, recent>>
          /\ UNCHANGED <<goal, asked, loaded, next, listing, missed, wiping>>
          /\ pc[c] = "reread"
      BY <1>1, <2>2 DEF QueryReread, Goto
    <3>2. FilesTyped' BY <3>1 DEF TypedInv, FilesTyped
    <3>3. \A d \in Clients : Bound(mine'[d]) /\ Working(d)'
      BY <3>1 DEF TypedInv, FilesTyped, ClientsTyped, Working
    <3>4. QED BY <3>1, <3>2, <3>3 DEF TypedInv, FilesTyped, ClientsTyped
  <2>3. QED BY <2>1, <2>2
<1>2. CASE QueryLoad(c)
  <2>1. CASE Return(c)
    BY <1>2, <2>1, ReturnTyped DEF QueryLoad, TypedInv, FilesTyped
  <2>2. CASE ~Return(c)
    <3>1. /\ loaded' = [loaded EXCEPT ![c] = held] /\ held \in Witnesses
          /\ pc' = [pc EXCEPT ![c] = "store"] /\ pc[c] = "load"
          /\ UNCHANGED <<doc, held, indexes, memo, recent>>
          /\ UNCHANGED <<goal, mine, asked, next, listing, missed, wiping>>
      BY <1>2, <2>2 DEF QueryLoad, Loads, Goto
    <3>2. FilesTyped' BY <3>1 DEF TypedInv, FilesTyped
    <3>3. \A d \in Clients : Bound(mine'[d]) /\ Working(d)'
      BY <3>1 DEF TypedInv, ClientsTyped, Working
    <3>4. QED BY <3>1, <3>2, <3>3 DEF TypedInv, ClientsTyped, Known
  <2>3. QED BY <2>1, <2>2
<1>3. CASE MemoStore(c)
  <2>1. Key(c) \in Keys /\ loaded[c] \in Known
    BY <1>3 DEF MemoStore, Key, Keys, TypedInv, ClientsTyped, Working
  <2>2. RemoveFirst(recent, Key(c)) \in Seq(Keys)
    BY OthersStay DEF TypedInv, FilesTyped
  <2>3. recent' \in Seq(Keys)
    BY <1>3, <2>1, <2>2 DEF MemoStore
  <2>4. FilesTyped'
    BY <1>3, <2>1, <2>3 DEF MemoStore, TypedInv, FilesTyped
  <2>5. ClientsTyped'
    BY <1>3 DEF MemoStore, Goto, TypedInv, ClientsTyped, Working
  <2>6. QED BY <2>4, <2>5 DEF TypedInv
<1>4. CASE MemoList(c)
  <2>1. recent \in Seq(Keys) BY DEF TypedInv, FilesTyped
  <2>2. ClientsTyped'
    BY <1>4, <2>1 DEF MemoList, Goto, TypedInv, ClientsTyped, Working
  <2>3. QED BY <1>4, <2>2 DEF MemoList, TypedInv, FilesTyped
<1>5. CASE MemoEvict(c)
  <2> DEFINE k == Head(listing[c])
             now == IF memo[k] = Nothing THEN missed[c] \cup {k} ELSE missed[c]
  <2>1. /\ Evicting(c) /\ Unlink(k)
        /\ missed' = [missed EXCEPT ![c] = now]
        /\ listing' = [listing EXCEPT ![c] = Tail(listing[c])]
        /\ UNCHANGED <<doc, held, indexes, pc, goal, mine, asked, loaded, next, wiping>>
    BY <1>5 DEF MemoEvict
  <2>2. listing[c] \in Seq(Keys) /\ listing[c] # <<>>
    BY <2>1 DEF Evicting, TypedInv, ClientsTyped
  <2>3. k \in Keys /\ Tail(listing[c]) \in Seq(Keys)
    BY <2>2
  <2> HIDE DEF k
  <2>4. RemoveFirst(recent, k) \in Seq(Keys)
    BY OthersStay DEF TypedInv, FilesTyped
  <2>5. FilesTyped'
    BY <2>1, <2>3, <2>4 DEF Unlink, TypedInv, FilesTyped, Known
  <2>6. now \in SUBSET Keys /\ IsFiniteSet(now)
    BY <2>3, FS_AddElement DEF TypedInv, ClientsTyped, Working
  <2> HIDE DEF now
  <2>7. \A d \in Clients : Bound(mine'[d]) /\ Working(d)'
    BY <2>1, <2>6 DEF TypedInv, ClientsTyped, Working
  <2>8. QED BY <2>1, <2>3, <2>5, <2>6, <2>7 DEF TypedInv, ClientsTyped
<1>6. CASE MemoEvicted(c)
  BY <1>6 DEF MemoEvicted, Goto, TypedInv, FilesTyped, ClientsTyped, Working
<1>7. CASE QueryCount(c)
  BY <1>7, CopyTyped, ReturnTyped DEF QueryCount, TypedInv
<1>8. QED BY <1>1, <1>2, <1>3, <1>4, <1>5, <1>6, <1>7

LEMMA TypedClose ==
  ASSUME TypedInv, NEW c \in Clients,
         \/ \E wipe \in BOOLEAN : CloseRead(c, wipe)
         \/ CloseMark(c) \/ WipeScan(c) \/ WipeOne(c) \/ WipeDone(c)
  PROVE  TypedInv'
<1> USE DEF dir, locals
<1>1. CASE \E wipe \in BOOLEAN : CloseRead(c, wipe)
  <2> DEFINE copy == [doc EXCEPT !.state = "closed"]
  <2>1. copy \in Document /\ (doc.state # "absent" => Bound(copy))
    BY DEF TypedInv, FilesTyped, Document, Bound
  <2> HIDE DEF copy
  <2>2. PICK wipe \in BOOLEAN :
          /\ doc.state # "absent" /\ mine' = [mine EXCEPT ![c] = copy]
          /\ wiping' = [wiping EXCEPT ![c] = IF wipe THEN Parts ELSE {}]
          /\ pc' = [pc EXCEPT ![c] = "mark"]
          /\ UNCHANGED <<doc, held, indexes, memo, recent>>
          /\ UNCHANGED <<goal, asked, loaded, next, listing, missed>>
    BY <1>1 DEF CloseRead, Goto, copy
  <2>3. \A d \in Clients : Bound(mine'[d]) /\ Working(d)'
    BY <2>1, <2>2 DEF TypedInv, ClientsTyped, Working
  <2>4. QED BY <2>1, <2>2, <2>3 DEF TypedInv, FilesTyped, ClientsTyped
<1>2. CASE CloseMark(c)
  <2>1. FilesTyped' BY <1>2, CopyTyped DEF CloseMark
  <2>2. CASE Return(c) BY <2>1, <2>2, ReturnTyped DEF TypedInv
  <2>3. CASE ~Return(c)
    BY <1>2, <2>1, <2>3 DEF CloseMark, Goto, TypedInv, ClientsTyped, Working
  <2>4. QED BY <2>2, <2>3
<1>3. CASE WipeScan(c)
  BY <1>3 DEF WipeScan, Goto, TypedInv, FilesTyped, ClientsTyped, Working
<1>4. CASE WipeOne(c)
  <2>1. PICK f \in wiping[c] : WipeOne(c)!2!(f)
    BY <1>4 DEF WipeOne
  <2>2. doc' \in Document /\ Bound(doc')
    BY <2>1 DEF TypedInv, FilesTyped, Document, Known, NoDocument, Bound
  <2>3. held' \in Contents /\ indexes' \in [Indexes -> Known] /\ memo' \in [Keys -> Known]
        /\ recent' \in Seq(Keys)
    BY <2>1 DEF TypedInv, FilesTyped, Contents, Known
  <2>4. CASE Return(c)
    BY <2>2, <2>3, <2>4, ReturnTyped DEF TypedInv, FilesTyped
  <2>5. CASE ~Return(c)
    <3>1. /\ wiping' = [wiping EXCEPT ![c] = wiping[c] \ {f}]
          /\ UNCHANGED <<pc, goal, mine, asked, loaded, next, listing, missed>>
      BY <2>1, <2>5
    <3>2. ClientsTyped' BY <3>1 DEF TypedInv, ClientsTyped, Working
    <3>3. QED BY <2>2, <2>3, <3>2 DEF TypedInv, FilesTyped
  <2>6. QED BY <2>4, <2>5
<1>5. CASE WipeDone(c)
  BY <1>5, ReturnTyped DEF WipeDone, TypedInv, FilesTyped
<1>6. QED BY <1>1, <1>2, <1>3, <1>4, <1>5

LEMMA TypedStep ==
  ASSUME TypedInv, [Next]_vars
  PROVE  TypedInv'
<1>1. ASSUME NEW c \in Clients, Invoke(c) \/ Proceed(c) PROVE TypedInv'
  BY <1>1, TypedOpen, TypedAttach, TypedQuery, TypedClose DEF Invoke, Proceed
<1>2. ASSUME NEW c \in Clients, Crash(c) PROVE TypedInv'
  BY <1>2, ReturnTyped DEF Crash, dir, TypedInv, FilesTyped
<1>3. CASE Tamper \/ LoseIndex \/ UNCHANGED vars
  BY <1>3 DEF Tamper, LoseIndex, vars, dir, locals, TypedInv, FilesTyped,
              ClientsTyped, Working, Contents, Known
<1>4. QED BY <1>1, <1>2, <1>3 DEF Next

\* However many clients share the directory and whatever happens to them and to
\* its files, only the values the code knows are written (TypeOK): the handle's
\* state is one attach_session and query_session handle, and a memo key names a
\* witness and a question.
THEOREM TypeCorrect == Spec => []TypeOK
<1>1. Init => TypedInv BY TypedInit
<1>2. TypedInv /\ [Next]_vars => TypedInv' BY TypedStep
<1>3. TypedInv => TypeOK BY DEF TypedInv, FilesTyped, ClientsTyped, TypeOK
<1>4. QED BY <1>1, <1>2, <1>3, PTL DEF Spec
-----------------------------------------------------------------------------
(* Any number of clients: the bounds of the memo *)

InMemo == {k \in Keys : memo[k] # Nothing}

\* A set of keys the memo may hold.
Small(S) == Cardinality(S) <= MaxEntries /\ Bytes(S) <= MaxBytes

\* Who still has to bring the memo within its bounds: a client that is about to
\* list the files, or whose listing has them all.
Responsible(c) ==
  \/ pc[c] = "list"
  \/ pc[c] = "evict" /\ InMemo \subseteq ToSet(listing[c])

\* Whoever stores last is responsible; the files only get fewer until the next
\* one stores.
BoundedInv ==
  /\ TypedInv
  /\ InMemo \subseteq ToSet(recent)
  /\ Small(InMemo) \/ \E c \in Clients : Responsible(c)

LEMMA SmallEmpty == Small({})
<1>1. Cardinality({}) = 0 /\ IsFiniteSet({}) BY FS_EmptySet
<1>2. {} \in SUBSET Keys /\ Units({}) = {} BY DEF Units
<1>3. Bytes({}) = 0 BY <1>1, <1>2, BytesAreUnits
<1>4. QED BY <1>1, <1>3, SizesAssumption DEF Small

LEMMA SmallSubset ==
  ASSUME NEW B \in SUBSET Keys, IsFiniteSet(B), Small(B), NEW A \in SUBSET B
  PROVE  Small(A)
<1>1. Bytes(A) \in Nat /\ Bytes(B) \in Nat /\ Bytes(A) <= Bytes(B)
  BY BytesBounds
<1>2. /\ Cardinality(A) \in Nat /\ Cardinality(B) \in Nat
      /\ Cardinality(A) <= Cardinality(B)
  BY FS_Subset, FS_CardinalityType
<1>3. QED BY <1>1, <1>2, SizesAssumption DEF Small

LEMMA RangeFinite ==
  ASSUME NEW S, NEW s \in Seq(S)
  PROVE  IsFiniteSet(ToSet(s)) /\ ToSet(s) \in SUBSET S
<1> DEFINE f == [i \in 1..Len(s) |-> s[i]]
<1>1. IsFiniteSet(1..Len(s)) BY FS_Interval
<1>2. f \in Surjection(1..Len(s), ToSet(s)) BY DEF Surjection, ToSet
<1>3. IsFiniteSet(ToSet(s))
  <2> HIDE DEF f
  <2>1. QED BY <1>1, <1>2, FS_Surjection
<1>4. QED BY <1>3 DEF ToSet

\* A step that adds no file, moves no listing and leaves no list or eviction.
LEMMA BoundedKept ==
  ASSUME BoundedInv, TypedInv', memo' = memo, recent' = recent,
         \A c \in Clients : /\ pc[c] = "list" => pc'[c] = "list"
                            /\ pc[c] = "evict" => pc'[c] = "evict" /\ listing'[c] = listing[c]
  PROVE  BoundedInv'
<1>1. InMemo' = InMemo BY DEF InMemo
<1>2. \A c \in Clients : Responsible(c) => Responsible(c)'
  BY <1>1 DEF Responsible
<1>3. QED BY <1>1, <1>2 DEF BoundedInv, Small

\* What a step of one client does to the others.
LEMMA OneMoves ==
  ASSUME TypedInv, NEW c \in Clients, pc[c] \notin {"list", "evict"}, memo' = memo, recent' = recent,
         \/ UNCHANGED <<pc, listing>>
         \/ (\E l : Goto(c, l)) /\ (UNCHANGED listing \/ listing' = [listing EXCEPT ![c] = <<>>])
  PROVE  \A d \in Clients : /\ pc[d] = "list" => pc'[d] = "list"
                            /\ pc[d] = "evict" => pc'[d] = "evict" /\ listing'[d] = listing[d]
BY DEF TypedInv, ClientsTyped, Goto

LEMMA BoundedStore ==
  ASSUME BoundedInv, TypedInv', NEW c \in Clients, MemoStore(c)
  PROVE  BoundedInv'
<1>1. recent \in Seq(Keys) /\ Key(c) \in Keys /\ memo \in [Keys -> Known]
  BY DEF MemoStore, Key, Keys, BoundedInv, TypedInv, FilesTyped, ClientsTyped, Working
<1> DEFINE rest == RemoveFirst(recent, Key(c))
<1>2. /\ rest \in Seq(Keys)
      /\ \A j \in 1..Len(recent) : recent[j] # Key(c) => \E i \in 1..Len(rest) : rest[i] = recent[j]
  BY <1>1, OthersStay
<1>3. recent' = Append(rest, Key(c)) BY DEF MemoStore
<1> HIDE DEF rest
<1>4. /\ Len(recent') = Len(rest) + 1 /\ recent'[Len(rest) + 1] = Key(c)
      /\ \A i \in 1..Len(rest) : recent'[i] = rest[i]
  BY <1>1, <1>2, <1>3
<1>5. InMemo' \subseteq InMemo \cup {Key(c)}
  BY <1>1 DEF InMemo, MemoStore
<1>6. ASSUME NEW k \in InMemo' PROVE k \in ToSet(recent)'
  <2>1. CASE k = Key(c)
    <3>1. Len(rest) + 1 \in 1..Len(recent') BY <1>2, <1>4
    <3>2. QED BY <1>4, <2>1, <3>1 DEF ToSet
  <2>2. CASE k # Key(c)
    <3>1. k \in ToSet(recent) BY <1>5, <2>2 DEF BoundedInv
    <3>2. PICK j \in 1..Len(recent) : recent[j] = k BY <3>1 DEF ToSet
    <3>3. PICK i \in 1..Len(rest) : rest[i] = k BY <1>2, <2>2, <3>2
    <3>4. i \in 1..Len(recent') /\ recent'[i] = k BY <1>2, <1>4, <3>3
    <3>5. QED BY <3>4 DEF ToSet
  <2>3. QED BY <2>1, <2>2
<1>7. Responsible(c)'
  BY DEF MemoStore, Goto, Responsible, BoundedInv, TypedInv, ClientsTyped
<1>8. QED BY <1>6, <1>7 DEF BoundedInv

LEMMA BoundedList ==
  ASSUME BoundedInv, TypedInv', NEW c \in Clients, MemoList(c)
  PROVE  BoundedInv'
<1>1. /\ InMemo' = InMemo /\ recent' = recent
      /\ listing'[c] = recent /\ pc'[c] = "evict"
  BY DEF MemoList, Goto, dir, InMemo, BoundedInv, TypedInv, ClientsTyped
<1>2. Responsible(c)' BY <1>1 DEF Responsible, BoundedInv
<1>3. QED BY <1>1, <1>2 DEF BoundedInv

LEMMA BoundedEvict ==
  ASSUME BoundedInv, TypedInv', NEW c \in Clients, MemoEvict(c)
  PROVE  BoundedInv'
<1> DEFINE k == Head(listing[c])
<1>1. /\ listing[c] \in Seq(Keys) /\ listing[c] # <<>> /\ listing \in [Clients -> Seq(Keys)]
      /\ recent \in Seq(Keys) /\ memo \in [Keys -> Known]
  BY DEF MemoEvict, Evicting, BoundedInv, TypedInv, FilesTyped, ClientsTyped
<1>2. k \in Keys BY <1>1
<1>3. /\ memo' = [memo EXCEPT ![k] = Nothing] /\ recent' = RemoveFirst(recent, k)
      /\ listing' = [listing EXCEPT ![c] = Tail(listing[c])] /\ pc' = pc
  BY DEF MemoEvict, Unlink
<1>4. \A x \in ToSet(listing[c]) : x # k => x \in ToSet(Tail(listing[c]))
  <2>1. TAKE x \in ToSet(listing[c])
  <2>2. HAVE x # k
  <2>3. PICK i \in 1..Len(listing[c]) : listing[c][i] = x BY DEF ToSet
  <2>4. i # 1 BY <1>1, <2>2, <2>3
  <2>5. (i - 1) \in 1..Len(Tail(listing[c])) /\ Tail(listing[c])[i - 1] = x
    BY <1>1, <2>3, <2>4
  <2>6. QED BY <2>5 DEF ToSet
<1> HIDE DEF k
<1>5. InMemo' = InMemo \ {k}
  BY <1>1, <1>2, <1>3 DEF InMemo
<1>6. ASSUME NEW x \in InMemo' PROVE x \in ToSet(recent)'
  <2>1. x \in ToSet(recent) /\ x # k BY <1>5 DEF BoundedInv
  <2>2. PICK j \in 1..Len(recent) : recent[j] = x BY <2>1 DEF ToSet
  <2>3. \E i \in 1..Len(RemoveFirst(recent, k)) : RemoveFirst(recent, k)[i] = x
    BY <1>1, <2>1, <2>2, OthersStay
  <2>4. QED BY <1>3, <2>3 DEF ToSet
<1>7. CASE Small(InMemo)
  <2>1. IsFiniteSet(InMemo)
    BY <1>1, RangeFinite, FS_Subset DEF BoundedInv
  <2>2. InMemo \in SUBSET Keys /\ InMemo' \in SUBSET InMemo BY <1>5 DEF InMemo
  <2>3. Small(InMemo') BY <1>7, <2>1, <2>2, SmallSubset
  <2>4. QED BY <1>6, <2>3 DEF BoundedInv
<1>8. ASSUME NEW d \in Clients, Responsible(d) PROVE Responsible(d)'
  <2>1. CASE d = c
    BY <1>1, <1>3, <1>4, <1>5, <1>8, <2>1 DEF Responsible
  <2>2. CASE d # c
    BY <1>1, <1>3, <1>5, <1>8, <2>2 DEF Responsible
  <2>3. QED BY <2>1, <2>2
<1>9. QED BY <1>6, <1>7, <1>8 DEF BoundedInv

LEMMA BoundedEvicted ==
  ASSUME BoundedInv, TypedInv', NEW c \in Clients, MemoEvicted(c)
  PROVE  BoundedInv'
<1>1. /\ memo' = memo /\ recent' = recent /\ listing' = listing
      /\ pc' = [pc EXCEPT ![c] = "count"] /\ pc[c] = "evict"
      /\ listing[c] = <<>> \/ ~Full(c)
  BY DEF MemoEvicted, Evicting, Goto, dir, locals
<1>2. InMemo' = InMemo BY <1>1 DEF InMemo
<1>3. ASSUME NEW d \in Clients, d # c, Responsible(d) PROVE Responsible(d)'
  BY <1>1, <1>2, <1>3 DEF Responsible, BoundedInv, TypedInv, ClientsTyped
<1>4. CASE Responsible(c)
  <2>1. listing[c] \in Seq(Keys) /\ missed[c] \in SUBSET Keys /\ IsFiniteSet(missed[c])
    BY DEF BoundedInv, TypedInv, ClientsTyped, Working
  <2>2. InMemo \subseteq ToSet(listing[c]) BY <1>1, <1>4 DEF Responsible
  <2>3. ASSUME listing[c] = <<>> PROVE Small(InMemo)
    <3>1. InMemo = {} BY <2>2, <2>3 DEF ToSet
    <3>2. QED BY <3>1, SmallEmpty
  <2>4. ASSUME ~Full(c) PROVE Small(InMemo)
    <3>1. /\ IsFiniteSet(ToSet(listing[c])) /\ ToSet(listing[c]) \in SUBSET Keys
      BY <2>1, RangeFinite
    <3>2. IsFiniteSet(Counted(c)) /\ Counted(c) \in SUBSET Keys
      BY <2>1, <3>1, FS_Union DEF Counted
    <3>3. Cardinality(Counted(c)) \in Nat /\ Bytes(Counted(c)) \in Nat
      BY <3>2, FS_CardinalityType, BytesBounds
    <3>4. Small(Counted(c)) BY <2>4, <3>3, SizesAssumption DEF Small, Full
    <3>5. InMemo \in SUBSET Counted(c) BY <2>2 DEF Counted
    <3>6. QED BY <3>2, <3>4, <3>5, SmallSubset
  <2>5. Small(InMemo) BY <1>1, <2>3, <2>4
  <2>6. QED BY <1>1, <1>2, <2>5 DEF BoundedInv, Small
<1>5. CASE Small(InMemo)
  BY <1>1, <1>2, <1>5 DEF BoundedInv, Small
<1>6. CASE \E d \in Clients : d # c /\ Responsible(d)
  BY <1>1, <1>2, <1>3, <1>6 DEF BoundedInv
<1>7. QED BY <1>4, <1>5, <1>6 DEF BoundedInv

LEMMA BoundedWipe ==
  ASSUME BoundedInv, TypedInv', NEW c \in Clients, WipeOne(c)
  PROVE  BoundedInv'
<1>1. PICK f \in wiping[c] : WipeOne(c)!2!(f)
  BY DEF WipeOne
<1>2. CASE f = "memo"
  <2>1. InMemo' = {} BY <1>1, <1>2 DEF InMemo
  <2>2. QED BY <2>1, SmallEmpty DEF BoundedInv, Small
<1>3. CASE f # "memo"
  <2>1. memo' = memo /\ recent' = recent BY <1>1, <1>3
  <2>2. \/ UNCHANGED <<pc, listing>>
        \/ (\E l : Goto(c, l)) /\ listing' = [listing EXCEPT ![c] = <<>>]
    BY <1>1 DEF Return
  <2>3. pc[c] \notin {"list", "evict"} BY DEF WipeOne
  <2>4. QED BY <2>1, <2>2, <2>3, OneMoves, BoundedKept DEF BoundedInv
<1>4. QED BY <1>2, <1>3

LEMMA BoundedStep ==
  ASSUME BoundedInv, "crash" \notin Faults, [Next]_vars
  PROVE  BoundedInv'
<1>1. TypedInv /\ TypedInv' BY TypedStep DEF BoundedInv
<1> DEFINE Moves(c) == \/ UNCHANGED <<pc, listing>>
                       \/ /\ \E l : Goto(c, l)
                          /\ UNCHANGED listing \/ listing' = [listing EXCEPT ![c] = <<>>]
<1>2. ASSUME NEW c \in Clients, pc[c] \notin {"list", "evict"}, Moves(c), memo' = memo, recent' = recent
      PROVE  BoundedInv'
  BY <1>1, <1>2, OneMoves, BoundedKept
<1>3. ASSUME NEW c \in Clients, Return(c) PROVE Moves(c)
  BY <1>3 DEF Return
<1>4. ASSUME NEW c \in Clients, Answer(c) PROVE Moves(c)
  BY <1>3, <1>4 DEF Answer
<1> USE DEF dir, locals
<1>5. ASSUME NEW c \in Clients, Invoke(c) PROVE BoundedInv'
  <2>1. pc[c] = "idle" /\ memo' = memo /\ recent' = recent /\ listing' = listing /\ \E l : Goto(c, l)
    BY <1>5 DEF Invoke, OpenRead, AttachRead, CloseRead
  <2>2. QED BY <1>2, <2>1
<1>6. ASSUME NEW c \in Clients, Proceed(c) PROVE BoundedInv'
  <2>1. CASE OpenPlace(c) \/ WriteIndex(c) \/ OpenCommit(c)
    <3>1. pc[c] \notin {"list", "evict"} /\ memo' = memo /\ recent' = recent
      BY <2>1 DEF OpenPlace, WriteIndex, OpenCommit
    <3>2. Moves(c) BY <2>1, <1>3 DEF OpenPlace, WriteIndex, OpenCommit
    <3>3. QED BY <1>2, <3>1, <3>2
  <2>2. CASE AttachFresh(c) \/ AttachStale(c) \/ AttachOrient(c) \/ AttachRebuild(c) \/ AttachRecord(c)
    <3>1. pc[c] \notin {"list", "evict"} /\ memo' = memo /\ recent' = recent
      BY <2>2 DEF AttachFresh, AttachStale, AttachOrient, AttachRebuild, AttachRecord
    <3>2. Moves(c)
      BY <2>2, <1>3, <1>4 DEF AttachFresh, AttachStale, AttachOrient, AttachRebuild, AttachRecord
    <3>3. QED BY <1>2, <3>1, <3>2
  <2>3. CASE QueryReread(c) \/ QueryLoad(c) \/ QueryCount(c)
    <3>1. pc[c] \notin {"list", "evict"} /\ memo' = memo /\ recent' = recent
      BY <2>3 DEF QueryReread, QueryLoad, QueryCount
    <3>2. Moves(c) BY <2>3, <1>3 DEF QueryReread, QueryLoad, QueryCount
    <3>3. QED BY <1>2, <3>1, <3>2
  <2>4. CASE CloseMark(c) \/ WipeScan(c) \/ WipeDone(c)
    <3>1. pc[c] \notin {"list", "evict"} /\ memo' = memo /\ recent' = recent
      BY <2>4 DEF CloseMark, WipeScan, WipeDone
    <3>2. Moves(c) BY <2>4, <1>3 DEF CloseMark, WipeScan, WipeDone
    <3>3. QED BY <1>2, <3>1, <3>2
  <2>5. CASE MemoStore(c) \/ MemoList(c) \/ MemoEvict(c) \/ MemoEvicted(c) \/ WipeOne(c)
    BY <1>1, <2>5, BoundedStore, BoundedList, BoundedEvict, BoundedEvicted, BoundedWipe
  <2>6. QED BY <1>6, <2>1, <2>2, <2>3, <2>4, <2>5 DEF Proceed
<1>7. ASSUME NEW c \in Clients, Crash(c) PROVE FALSE
  BY <1>7 DEF Crash
<1>8. CASE Tamper \/ LoseIndex \/ UNCHANGED vars
  BY <1>1, <1>8, BoundedKept DEF Tamper, LoseIndex, vars
<1>9. QED BY <1>5, <1>6, <1>7, <1>8 DEF Next

LEMMA BoundedInit == Init => BoundedInv
<1> SUFFICES ASSUME Init PROVE BoundedInv OBVIOUS
<1>1. InMemo = {} BY DEF Init, InMemo
<1>2. QED BY <1>1, TypedInit, SmallEmpty DEF BoundedInv

\* If no client dies at work, the memo is within its bounds whenever all are at
\* rest (MemoBounded), however many clients list, count and remove its files
\* with no lock: whoever stored last sees every file in the listing it takes
\* after that.
THEOREM BoundsHold ==
  ASSUME "crash" \notin Faults
  PROVE  Spec => []MemoBounded
<1>1. Init => BoundedInv BY BoundedInit
<1>2. BoundedInv /\ [Next]_vars => BoundedInv' BY BoundedStep
<1>3. BoundedInv => MemoBounded
  BY DEF BoundedInv, Responsible, Settled, MemoBounded, InMemo, Small
<1>4. QED BY <1>1, <1>2, <1>3, PTL DEF Spec
-----------------------------------------------------------------------------
(* One client: its copies, and where results come from *)

\* What a client needs is that the copies it works on are still those of the
\* handle; witness.json is not part of the argument, it may change at any moment.

Shape ==
  /\ doc \in Document
  /\ memo \in [Keys -> Known]
  /\ pc \in [Clients -> Labels]
  /\ goal \in [Clients -> Goals]
  /\ mine \in [Clients -> Document]
  /\ asked \in [Clients -> Known]
  /\ loaded \in [Clients -> Known]

\* Where the client's copy of session.json is the file.
Fresh(c) ==
  \/ pc[c] \in {"check", "orient", "record", "load", "store", "list", "evict", "count"}
  \/ pc[c] = "index" /\ goal[c] # "open"

Copies(c) ==
  /\ pc[c] = "place" => goal[c] = "open"
  /\ pc[c] = "check" => mine[c].state \in {"open", "stale"}
  /\ Fresh(c) => mine[c] = doc
  /\ pc[c] = "mark" => mine[c] = [doc EXCEPT !.state = "closed"]

\* The witness of the memo key is the one the result is computed from, that of
\* the handle the one its indexes are rebuilt from.
Provenance(c) ==
  /\ pc[c] = "index" /\ goal[c] # "open" => loaded[c] = mine[c].witness
  /\ pc[c] = "reread" => asked[c] = doc.witness
  /\ pc[c] = "load" => asked[c] = mine[c].witness
  /\ pc[c] = "store" => asked[c] = loaded[c]

SoundInv ==
  /\ Shape
  /\ \A c \in Clients : Copies(c) /\ Provenance(c)
  /\ MemoSound

LEMMA SoundInit == Init => SoundInv
BY DEF Init, SoundInv, Shape, Copies, Provenance, Fresh, MemoSound, NoDocument,
       Document, Known, Goals, Keys, Nothing

LEMMA SoundOpen ==
  ASSUME NEW c, Clients = {c}, SoundInv,
         OpenRead(c) \/ OpenPlace(c) \/ WriteIndex(c) \/ OpenCommit(c)
  PROVE  SoundInv'
<1> USE DEF SoundInv, Shape, Copies, Provenance, Fresh, MemoSound, dir, locals
<1>1. CASE OpenRead(c)
  BY <1>1 DEF OpenRead, Goto, Document, Known, Goals
<1>2. CASE OpenPlace(c)
  BY <1>2 DEF OpenPlace, Goto
<1>3. CASE WriteIndex(c)
  BY <1>3 DEF WriteIndex, Goto
<1>4. CASE OpenCommit(c)
  BY <1>4 DEF OpenCommit, Return, Goto, Document, Known, Goals, NoDocument
<1>5. QED BY <1>1, <1>2, <1>3, <1>4

LEMMA SoundAnswer ==
  ASSUME NEW c, Clients = {c}, SoundInv, Answer(c), mine[c] = doc,
         UNCHANGED <<doc, memo>>
  PROVE  SoundInv'
BY DEF SoundInv, Shape, Copies, Provenance, Fresh, MemoSound, Answer, Return,
       Goto, Document, Known, Goals, NoDocument

LEMMA SoundReturn ==
  ASSUME NEW c, Clients = {c}, SoundInv, Return(c), UNCHANGED <<doc, memo>>
  PROVE  SoundInv'
BY DEF SoundInv, Shape, Copies, Provenance, Fresh, MemoSound, Return, Goto,
       Document, Known, Goals, NoDocument

LEMMA SoundAttach ==
  ASSUME NEW c, Clients = {c}, SoundInv,
         \/ AttachRead(c) \/ AttachFresh(c) \/ AttachStale(c)
         \/ AttachOrient(c) \/ AttachRebuild(c) \/ AttachRecord(c)
  PROVE  SoundInv'
<1> USE DEF SoundInv, Shape, Copies, Provenance, Fresh, MemoSound, dir, locals
<1>1. CASE AttachRead(c)
  BY <1>1 DEF AttachRead, Goto
<1>2. CASE AttachFresh(c)
  BY <1>2 DEF AttachFresh, Goto
<1>3. CASE AttachStale(c)
  BY <1>3 DEF AttachStale, Return, Goto, Document, Known, Goals, NoDocument
<1>4. CASE AttachOrient(c)
  BY <1>4, SoundAnswer DEF AttachOrient
<1>5. CASE AttachRebuild(c)
  <2>1. CASE Loads(c)
    BY <1>5, <2>1 DEF AttachRebuild, Loads, Goto, Known
  <2>2. CASE ~Loads(c)
    BY <1>5, <2>2, SoundReturn DEF AttachRebuild
  <2>3. QED BY <2>1, <2>2
<1>6. CASE AttachRecord(c)
  BY <1>6, SoundAnswer DEF AttachRecord
<1>7. QED BY <1>1, <1>2, <1>3, <1>4, <1>5, <1>6

LEMMA SoundQuery ==
  ASSUME NEW c, Clients = {c}, SoundInv,
         \/ QueryReread(c) \/ QueryLoad(c) \/ MemoStore(c) \/ MemoList(c)
         \/ MemoEvict(c) \/ MemoEvicted(c) \/ QueryCount(c)
  PROVE  SoundInv'
<1> USE DEF SoundInv, Shape, Copies, Provenance, Fresh, MemoSound, dir, locals
<1>1. CASE QueryReread(c)
  <2>1. CASE doc.state = "absent"
    BY <1>1, <2>1, SoundReturn DEF QueryReread
  <2>2. CASE doc.state # "absent"
    BY <1>1, <2>2 DEF QueryReread, Goto
  <2>3. QED BY <2>1, <2>2
<1>2. CASE QueryLoad(c)
  <2>1. CASE Return(c)
    BY <1>2, <2>1, SoundReturn DEF QueryLoad
  <2>2. CASE ~Return(c)
    BY <1>2, <2>2 DEF QueryLoad, Loads, Goto, Known
  <2>3. QED BY <2>1, <2>2
<1>3. CASE MemoStore(c)
  <2>1. Key(c)[1] = loaded[c]
    BY <1>3 DEF MemoStore, Key
  <2>2. \A k \in Keys : memo'[k] = IF k = Key(c) THEN loaded[c] ELSE memo[k]
    BY <1>3 DEF MemoStore
  <2>3. MemoSound' /\ memo' \in [Keys -> Known]
    BY <1>3, <2>1, <2>2 DEF MemoStore
  <2>4. QED BY <1>3, <2>3 DEF MemoStore, Goto
<1>4. CASE MemoList(c)
  BY <1>4 DEF MemoList, Goto
<1>5. CASE MemoEvict(c)
  <2>1. memo' = [memo EXCEPT ![Head(listing[c])] = Nothing]
    BY <1>5 DEF MemoEvict, Unlink
  <2>2. MemoSound' /\ memo' \in [Keys -> Known]
    BY <2>1 DEF Known
  <2>3. UNCHANGED <<doc, pc, goal, mine, asked, loaded>>
    BY <1>5 DEF MemoEvict
  <2>4. QED BY <2>2, <2>3
<1>6. CASE MemoEvicted(c)
  BY <1>6 DEF MemoEvicted, Goto
<1>7. CASE QueryCount(c)
  BY <1>7 DEF QueryCount, Return, Goto, Document, Known, Goals, NoDocument
<1>8. QED BY <1>1, <1>2, <1>3, <1>4, <1>5, <1>6, <1>7

LEMMA SoundClose ==
  ASSUME NEW c, Clients = {c}, SoundInv,
         \/ \E wipe \in BOOLEAN : CloseRead(c, wipe)
         \/ CloseMark(c) \/ WipeScan(c) \/ WipeOne(c) \/ WipeDone(c)
  PROVE  SoundInv'
<1> USE DEF SoundInv, Shape, Copies, Provenance, Fresh, MemoSound, dir, locals
<1>1. CASE \E wipe \in BOOLEAN : CloseRead(c, wipe)
  BY <1>1 DEF CloseRead, Goto, Document
<1>2. CASE CloseMark(c)
  BY <1>2 DEF CloseMark, Return, Goto, Document, Known, Goals, NoDocument
<1>3. CASE WipeScan(c)
  BY <1>3 DEF WipeScan, Goto
<1>4. CASE WipeOne(c)
  <2>1. PICK f \in wiping[c] : WipeOne(c)!2!(f)
    BY <1>4 DEF WipeOne
  <2>2. doc' \in Document /\ memo' \in [Keys -> Known] /\ MemoSound'
    BY <2>1 DEF Document, Known, NoDocument
  <2>3. pc[c] = "wipe"
    BY <1>4 DEF WipeOne
  <2>4. CASE UNCHANGED <<pc, goal, mine, asked, loaded, next, listing, missed>>
    BY <2>2, <2>3, <2>4
  <2>5. CASE Return(c)
    BY <2>2, <2>5 DEF Return, Goto, Document, Known, Goals, NoDocument
  <2>6. QED BY <2>1, <2>4, <2>5
<1>5. CASE WipeDone(c)
  BY <1>5, SoundReturn DEF WipeDone
<1>6. QED BY <1>1, <1>2, <1>3, <1>4, <1>5

LEMMA SoundStep ==
  ASSUME NEW c, Clients = {c}, SoundInv, [Next]_vars
  PROVE  SoundInv'
<1>1. CASE Invoke(c)
  BY <1>1, SoundOpen, SoundAttach, SoundClose DEF Invoke
<1>2. CASE Proceed(c)
  BY <1>2, SoundOpen, SoundAttach, SoundQuery, SoundClose DEF Proceed
<1>3. CASE Crash(c)
  BY <1>3, SoundReturn DEF Crash, dir
<1>4. CASE Tamper \/ LoseIndex \/ UNCHANGED vars
  BY <1>4 DEF Tamper, LoseIndex, vars, dir, locals, SoundInv, Shape, Copies,
              Provenance, Fresh, MemoSound
<1>5. QED BY <1>1, <1>2, <1>3, <1>4 DEF Next

\* Commands that run one at a time never memoize a result of another witness
\* (MemoSound), whatever happens to the held witness between its digest check
\* and its load, and wherever they die.
THEOREM OneClientMemo ==
  ASSUME NEW c, Clients = {c}
  PROVE  Spec => []MemoSound
<1>1. Init => SoundInv
  BY SoundInit
<1>2. SoundInv /\ [Next]_vars => SoundInv'
  BY SoundStep
<1>3. SoundInv => MemoSound
  BY DEF SoundInv
<1>4. QED BY <1>1, <1>2, <1>3, PTL DEF Spec

\* Commands that run one at a time bring no closed or stale session back
\* (RetiredStays): only "open --force" and a wipe end it.
THEOREM OneClientRetired ==
  ASSUME NEW self, Clients = {self}
  PROVE  Spec => RetiredStays
<1>1. Init => SoundInv
  BY SoundInit
<1>2. SoundInv /\ [Next]_vars => SoundInv'
  BY SoundStep
<1>3. ASSUME SoundInv, [Next]_vars, doc.state \in {"closed", "stale"}, doc' # doc
      PROVE  \/ \E c \in Clients : OpenCommit(c)
             \/ doc' = NoDocument
             \/ doc' = [doc EXCEPT !.state = "closed"]
  <2> USE DEF SoundInv, Shape, Copies, Fresh, Document
  <2>1. CASE Invoke(self)
    BY <1>3, <2>1 DEF Invoke, OpenRead, AttachRead, CloseRead, dir
  <2>2. CASE Proceed(self)
    <3>1. CASE AttachStale(self)
      BY <1>3, <3>1 DEF AttachStale
    <3>2. CASE AttachRecord(self) \/ QueryCount(self)
      BY <1>3, <3>2 DEF AttachRecord, QueryCount
    <3>3. CASE CloseMark(self)
      BY <1>3, <3>3 DEF CloseMark
    <3>4. CASE WipeOne(self)
      BY <1>3, <3>4 DEF WipeOne
    <3>5. CASE OpenCommit(self)
      BY <1>3, <3>5
    <3>6. CASE OpenPlace(self) \/ WriteIndex(self) \/ AttachFresh(self) \/ AttachOrient(self)
               \/ AttachRebuild(self)
      BY <1>3, <3>6 DEF OpenPlace, WriteIndex, AttachFresh, AttachOrient, AttachRebuild, dir
    <3>7. CASE QueryReread(self) \/ QueryLoad(self) \/ MemoStore(self) \/ MemoList(self)
               \/ MemoEvict(self) \/ MemoEvicted(self) \/ WipeScan(self) \/ WipeDone(self)
      BY <1>3, <3>7 DEF QueryReread, QueryLoad, MemoStore, MemoList, MemoEvict,
                  MemoEvicted, WipeScan, WipeDone, dir
    <3>8. QED BY <2>2, <3>1, <3>2, <3>3, <3>4, <3>5, <3>6, <3>7 DEF Proceed
  <2>3. CASE Crash(self) \/ Tamper \/ LoseIndex \/ UNCHANGED vars
    BY <1>3, <2>3 DEF Crash, Tamper, LoseIndex, vars, dir
  <2>4. QED BY <1>3, <2>1, <2>2, <2>3 DEF Next
<1>4. SoundInv /\ [Next]_vars =>
        [doc.state \in {"closed", "stale"} /\ doc' # doc =>
           \/ \E c \in Clients : OpenCommit(c)
           \/ doc' = NoDocument
           \/ doc' = [doc EXCEPT !.state = "closed"]]_doc
  BY <1>3
<1>5. QED BY <1>1, <1>2, <1>4, PTL DEF Spec, RetiredStays

\* Indexes rebuilt by a command that runs alone are those of the witness the
\* handle binds (RebuildFaithful), although witness.json may be exchanged and an
\* index file lost again while they are written.
THEOREM OneClientRebuild ==
  ASSUME NEW self, Clients = {self}
  PROVE  Spec => RebuildFaithful
<1>1. Init => SoundInv /\ TypedInv
  BY SoundInit, TypedInit
<1>2. SoundInv /\ TypedInv /\ [Next]_vars => (SoundInv /\ TypedInv)'
  BY SoundStep, TypedStep
<1>3. ASSUME SoundInv, TypedInv, NEW i \in Indexes, NEW c \in Clients,
             goal[c] # "open", WriteIndex(c), indexes'[i] # indexes[i]
      PROVE  indexes'[i] = doc.witness
  <2>1. indexes' = [indexes EXCEPT ![next[c]] = loaded[c]] /\ pc[c] = "index"
    BY <1>3 DEF WriteIndex
  <2>2. indexes'[i] = loaded[c]
    BY <1>3, <2>1 DEF TypedInv, FilesTyped
  <2>3. loaded[c] = mine[c].witness /\ mine[c] = doc
    BY <1>3, <2>1 DEF SoundInv, Copies, Provenance, Fresh
  <2>4. QED BY <2>2, <2>3
<1>4. SoundInv /\ TypedInv /\ [Next]_vars =>
        [\A i \in Indexes, c \in Clients :
           goal[c] # "open" /\ WriteIndex(c) /\ indexes'[i] # indexes[i] =>
             indexes'[i] = doc.witness]_indexes
  BY <1>3
<1>5. QED BY <1>1, <1>2, <1>4, PTL DEF Spec, RebuildFaithful
-----------------------------------------------------------------------------
(* One client: what it has just stored *)

\* The list is that of the files in the memo, each once.
Listed == Distinct(recent) /\ \A i \in 1..Len(recent) : memo[recent[i]] # Nothing

Fits(c) == Size[goal[c]] <= MaxBytes /\ MaxEntries > 0

\* The file of the query's result is there, and is the newest.
Newest(c) == recent # <<>> /\ recent[Len(recent)] = Key(c)

Kept(c) ==
  /\ missed[c] = {}
  /\ pc[c] = "list" => Newest(c)
  /\ pc[c] = "evict" => listing[c] = recent /\ (Fits(c) => Newest(c))

KeptInv == TypedInv /\ Listed /\ \A c \in Clients : Kept(c)

\* A step outside the eviction that moves no file of the memo.
LEMMA KeptKept ==
  ASSUME NEW c, Clients = {c}, KeptInv, TypedInv', memo' = memo, recent' = recent,
         pc'[c] \notin {"list", "evict"}, missed'[c] \in {missed[c], {}}
  PROVE  KeptInv'
BY DEF KeptInv, Listed, Distinct, Kept

\* One file left that fits is within the bounds.
LEMMA OneFits ==
  ASSUME KeptInv, NEW c \in Clients, Evicting(c), Fits(c)
  PROVE  Len(recent) > 1 /\ recent[Len(recent)] = Key(c)
<1>1. /\ recent \in Seq(Keys) /\ recent # <<>> /\ recent[Len(recent)] = Key(c)
      /\ Counted(c) = ToSet(recent)
  BY DEF KeptInv, Kept, Newest, Evicting, TypedInv, FilesTyped, Counted
<1>2. ASSUME Len(recent) = 1 PROVE FALSE
  <2>1. Key(c) \in Keys BY <1>1, <1>2
  <2>2. ToSet(recent) = {Key(c)} BY <1>1, <1>2 DEF ToSet
  <2>3. Cardinality(Counted(c)) = 1 BY <1>1, <2>2, FS_Singleton
  <2>4. Bytes(Counted(c)) = Size[goal[c]] BY <1>1, <2>1, <2>2, BytesOfOne DEF Key
  <2>5. Size[goal[c]] \in Nat
    BY <2>1, SizesAssumption DEF Key, Keys
  <2>6. QED BY <2>3, <2>4, <2>5, SizesAssumption DEF Evicting, Full, Fits
<1>3. Len(recent) \in Nat /\ Len(recent) # 0 BY <1>1, EmptySeq
<1>4. Len(recent) # 1 BY <1>2
<1>5. Len(recent) > 1 BY <1>3, <1>4
<1>6. QED BY <1>1, <1>5

LEMMA KeptStore ==
  ASSUME NEW c, Clients = {c}, KeptInv, TypedInv', MemoStore(c)
  PROVE  KeptInv'
<1>1. /\ recent \in Seq(Keys) /\ Key(c) \in Keys /\ memo \in [Keys -> Known]
      /\ loaded[c] \in Witnesses
  BY DEF MemoStore, Key, Keys, KeptInv, TypedInv, FilesTyped, ClientsTyped, Working
<1>2. loaded[c] # Nothing BY <1>1, NamesApart
<1> DEFINE rest == RemoveFirst(recent, Key(c))
<1>3. rest \in Seq(Keys) BY <1>1, OthersStay
<1>4. /\ Distinct(rest)
      /\ \A i \in 1..Len(rest) : rest[i] # Key(c) /\ \E j \in 1..Len(recent) : rest[i] = recent[j]
  BY <1>1, StaysDistinct DEF KeptInv, Listed
<1>5. recent' = Append(rest, Key(c)) BY DEF MemoStore
<1> HIDE DEF rest
<1>6. /\ Len(recent') = Len(rest) + 1 /\ recent'[Len(rest) + 1] = Key(c)
      /\ \A i \in 1..Len(rest) : recent'[i] = rest[i]
      /\ Len(rest) \in Nat
  BY <1>1, <1>3, <1>5
<1>7. Distinct(recent') BY <1>4, <1>6 DEF Distinct
<1>8. memo' = [memo EXCEPT ![Key(c)] = loaded[c]] BY DEF MemoStore
<1>9. ASSUME NEW i \in 1..Len(recent') PROVE memo'[recent'[i]] # Nothing
  <2>1. CASE i = Len(rest) + 1 BY <1>1, <1>2, <1>6, <1>8, <2>1
  <2>2. CASE i # Len(rest) + 1
    <3>1. i \in 1..Len(rest) BY <1>6, <2>2
    <3>2. recent'[i] # Key(c) /\ \E j \in 1..Len(recent) : recent'[i] = recent[j]
      BY <1>4, <1>6, <3>1
    <3>3. memo[recent'[i]] # Nothing BY <3>2 DEF KeptInv, Listed
    <3>4. QED BY <1>1, <1>8, <3>2, <3>3
  <2>3. QED BY <2>1, <2>2
<1>10. /\ pc'[c] = "list" /\ missed'[c] = {} /\ Key(c)' = Key(c)
  BY DEF MemoStore, Goto, locals, Key, KeptInv, Kept, TypedInv, ClientsTyped
<1>11. recent' # <<>> /\ recent'[Len(recent')] = Key(c) BY <1>6
<1>12. Kept(c)' BY <1>10, <1>11 DEF Kept, Newest
<1>13. QED BY <1>7, <1>9, <1>12 DEF KeptInv, Listed

LEMMA KeptList ==
  ASSUME NEW c, Clients = {c}, KeptInv, TypedInv', MemoList(c)
  PROVE  KeptInv'
<1>1. /\ memo' = memo /\ recent' = recent /\ pc[c] = "list"
      /\ listing'[c] = recent /\ pc'[c] = "evict" /\ missed' = missed
      /\ Key(c)' = Key(c)
  BY DEF MemoList, Goto, dir, Key, KeptInv, TypedInv, ClientsTyped
<1>2. Kept(c)' BY <1>1 DEF KeptInv, Kept, Newest
<1>3. QED BY <1>1, <1>2 DEF KeptInv, Listed, Distinct

LEMMA KeptEvict ==
  ASSUME NEW c, Clients = {c}, KeptInv, TypedInv', MemoEvict(c)
  PROVE  KeptInv'
<1>1. /\ Evicting(c) /\ listing[c] = recent /\ recent # <<>> /\ recent \in Seq(Keys)
      /\ memo \in [Keys -> Known] /\ missed[c] = {}
  BY DEF MemoEvict, Evicting, KeptInv, Kept, TypedInv, FilesTyped
<1> DEFINE k == Head(recent)
<1>2. recent[1] = k /\ 1 \in 1..Len(recent) BY <1>1
<1>3. memo[k] # Nothing BY <1>2 DEF KeptInv, Listed
<1>4. /\ memo' = [memo EXCEPT ![k] = Nothing] /\ recent' = RemoveFirst(recent, k)
      /\ listing'[c] = Tail(recent) /\ missed'[c] = {} /\ pc'[c] = "evict"
      /\ Key(c)' = Key(c) /\ goal' = goal
  BY <1>1, <1>3 DEF MemoEvict, Evicting, Unlink, Key, KeptInv, TypedInv, ClientsTyped
<1>5. RemoveFirst(recent, k) = Tail(recent) BY <1>1, HeadRemoved
<1>6. /\ Distinct(RemoveFirst(recent, k))
      /\ \A i \in 1..Len(RemoveFirst(recent, k)) :
           /\ RemoveFirst(recent, k)[i] # k
           /\ \E j \in 1..Len(recent) : RemoveFirst(recent, k)[i] = recent[j]
  BY <1>1, StaysDistinct DEF KeptInv, Listed
<1> HIDE DEF k
<1>7. ASSUME NEW i \in 1..Len(recent') PROVE memo'[recent'[i]] # Nothing
  <2>1. recent'[i] # k /\ \E j \in 1..Len(recent) : recent'[i] = recent[j]
    BY <1>4, <1>6
  <2>2. memo[recent'[i]] # Nothing BY <2>1 DEF KeptInv, Listed
  <2>3. QED BY <1>1, <1>4, <2>1, <2>2
<1>8. ASSUME Fits(c) PROVE recent' # <<>> /\ recent'[Len(recent')] = Key(c)
  <2>1. Len(recent) > 1 /\ recent[Len(recent)] = Key(c) BY <1>1, <1>8, OneFits
  <2>2. recent' = Tail(recent) BY <1>4, <1>5
  <2>3. /\ Len(Tail(recent)) = Len(recent) - 1
        /\ \A i \in 1..Len(Tail(recent)) : Tail(recent)[i] = recent[i + 1]
    BY <1>1
  <2>4. Len(Tail(recent)) > 0 /\ Len(Tail(recent)) \in Nat
    BY <1>1, <2>1, <2>3
  <2>5. Tail(recent)[Len(Tail(recent))] = recent[Len(recent)]
    BY <1>1, <2>3, <2>4
  <2>6. QED BY <2>1, <2>2, <2>4, <2>5
<1>9. Kept(c)' BY <1>4, <1>5, <1>8 DEF Kept, Newest, Fits
<1>10. QED BY <1>4, <1>6, <1>7, <1>9 DEF KeptInv, Listed

LEMMA KeptWipe ==
  ASSUME NEW c, Clients = {c}, KeptInv, TypedInv', WipeOne(c)
  PROVE  KeptInv'
<1>1. PICK f \in wiping[c] : WipeOne(c)!2!(f)
  BY DEF WipeOne
<1>2. pc'[c] \notin {"list", "evict"} /\ missed'[c] \in {missed[c], {}}
  BY <1>1 DEF WipeOne, Return, Goto, KeptInv, TypedInv, ClientsTyped
<1>3. CASE f = "memo"
  BY <1>1, <1>2, <1>3 DEF KeptInv, Listed, Distinct, Kept
<1>4. CASE f # "memo"
  BY <1>1, <1>2, <1>4, KeptKept
<1>5. QED BY <1>3, <1>4

LEMMA KeptStep ==
  ASSUME NEW c, Clients = {c}, KeptInv, [Next]_vars
  PROVE  KeptInv'
<1>1. TypedInv /\ TypedInv' BY TypedStep DEF KeptInv
<1> DEFINE Leaves == pc'[c] \notin {"list", "evict"} /\ missed'[c] \in {missed[c], {}}
<1>2. Return(c) => Leaves
  BY <1>1 DEF Return, Goto, TypedInv, ClientsTyped
<1>3. Answer(c) => Leaves
  BY <1>1, <1>2 DEF Answer, Goto, TypedInv, ClientsTyped
<1> USE DEF dir, locals
<1>4. CASE Invoke(c)
  <2>1. Leaves /\ memo' = memo /\ recent' = recent
    BY <1>1, <1>4 DEF Invoke, OpenRead, AttachRead, CloseRead, Goto, TypedInv, ClientsTyped
  <2>2. QED BY <1>1, <2>1, KeptKept
<1>5. CASE OpenPlace(c) \/ WriteIndex(c) \/ OpenCommit(c)
  <2>1. Leaves /\ memo' = memo /\ recent' = recent
    BY <1>1, <1>2, <1>5 DEF OpenPlace, WriteIndex, OpenCommit, Goto, TypedInv, ClientsTyped
  <2>2. QED BY <1>1, <2>1, KeptKept
<1>6. CASE \/ AttachFresh(c) \/ AttachStale(c) \/ AttachOrient(c) \/ AttachRebuild(c)
           \/ AttachRecord(c)
  <2>1. Leaves /\ memo' = memo /\ recent' = recent
    BY <1>1, <1>2, <1>3, <1>6 DEF AttachFresh, AttachStale, AttachOrient, AttachRebuild,
          AttachRecord, Goto, TypedInv, ClientsTyped
  <2>2. QED BY <1>1, <2>1, KeptKept
<1>7. CASE QueryReread(c) \/ QueryLoad(c) \/ MemoEvicted(c) \/ QueryCount(c)
  <2>1. Leaves /\ memo' = memo /\ recent' = recent
    BY <1>1, <1>2, <1>7 DEF QueryReread, QueryLoad, MemoEvicted, QueryCount, Goto,
          TypedInv, ClientsTyped
  <2>2. QED BY <1>1, <2>1, KeptKept
<1>8. CASE CloseMark(c) \/ WipeScan(c) \/ WipeDone(c)
  <2>1. Leaves /\ memo' = memo /\ recent' = recent
    BY <1>1, <1>2, <1>8 DEF CloseMark, WipeScan, WipeDone, Goto, TypedInv, ClientsTyped
  <2>2. QED BY <1>1, <2>1, KeptKept
<1>9. CASE MemoStore(c) \/ MemoList(c) \/ MemoEvict(c) \/ WipeOne(c)
  BY <1>1, <1>9, KeptStore, KeptList, KeptEvict, KeptWipe
<1>10. CASE Crash(c)
  BY <1>1, <1>2, <1>10, KeptKept DEF Crash
<1>11. CASE Tamper \/ LoseIndex \/ UNCHANGED vars
  <2>1. UNCHANGED <<memo, recent, pc, goal, asked, listing, missed>>
    BY <1>11 DEF Tamper, LoseIndex, vars
  <2>2. QED BY <1>1, <2>1 DEF KeptInv, Listed, Distinct, Kept, Newest, Fits, Key
<1>12. CASE Proceed(c)
  BY <1>5, <1>6, <1>7, <1>8, <1>9, <1>12 DEF Proceed
<1>13. QED BY <1>4, <1>10, <1>11, <1>12 DEF Next

LEMMA KeptInit ==
  ASSUME Init
  PROVE  KeptInv
<1>1. recent = <<>> /\ Len(recent) = 0 BY DEF Init
<1>2. QED BY <1>1, TypedInit DEF KeptInv, Listed, Distinct, Kept, Init

\* A result that fits the memo is still there when the eviction its own store
\* causes is over (FreshResultKept), for one command at a time, whatever befalls
\* the other files: the oldest go first, and the newest alone is within bounds.
THEOREM OneClientKept ==
  ASSUME NEW self, Clients = {self}
  PROVE  Spec => FreshResultKept
<1>1. Init => KeptInv BY KeptInit
<1>2. KeptInv /\ [Next]_vars => KeptInv' BY KeptStep
<1>3. ASSUME KeptInv, NEW c \in Clients, MemoEvicted(c), Fits(c)
      PROVE  memo[Key(c)] # Nothing
  <2>1. recent # <<>> /\ recent[Len(recent)] = Key(c) /\ recent \in Seq(Keys)
    BY <1>3 DEF MemoEvicted, KeptInv, Kept, Newest, TypedInv, FilesTyped
  <2>2. Len(recent) \in 1..Len(recent) BY <2>1
  <2>3. QED BY <1>3, <2>1, <2>2 DEF KeptInv, Listed
<1>4. KeptInv /\ [Next]_vars =>
        [\A c \in Clients :
           MemoEvicted(c) /\ Size[goal[c]] <= MaxBytes /\ MaxEntries > 0 =>
             memo[Key(c)] # Nothing]_pc
  BY <1>3 DEF Fits
<1>5. QED BY <1>1, <1>2, <1>4, PTL DEF Spec, FreshResultKept
=============================================================================
