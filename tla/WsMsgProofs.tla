----------------------------- MODULE WsMsgProofs ------------------------------
(***************************************************************************)
(* Reading what was written.                                               *)
(***************************************************************************)
EXTENDS MessageExchange, WsPipeline, FiniteSetTheorems, WellFoundedInduction, TLAPS

LEMMA Least ==
  ASSUME NEW S \in SUBSET Nat, S # {}
  PROVE  \E k \in S : \A j \in S : k <= j
<1>1. PICK k \in S : \A j \in S : ~(<<j, k>> \in OpToRel(<, Nat))
  BY NatLessThanWellFounded, WFMin, Zenon
<1>2. \A j \in S : ~(j < k)
  BY <1>1 DEF OpToRel
<1>3. QED BY <1>2

\* Induction: a set that has 0 and every successor has every number.
LEMMA FromZero ==
  ASSUME NEW S, 0 \in S, \A k \in Nat : k \in S => k + 1 \in S
  PROVE  Nat \subseteq S
<1> DEFINE Missing == Nat \ S
<1>1. SUFFICES ASSUME Missing # {} PROVE FALSE
  OBVIOUS
<1>2. PICK k \in Missing : \A j \in Missing : k <= j
  BY <1>1, Least
<1>3. k # 0 /\ k - 1 \in Nat /\ k - 1 < k /\ (k - 1) + 1 = k
  OBVIOUS
<1>4. k - 1 \in S
  BY <1>2, <1>3
<1>5. QED BY <1>3, <1>4

-------------------------------------------------------------------------------
\* The objects there are while the first n fields of w are read into base.
States(base, w, n, read) ==
  read = [k \in 0 .. n |-> IF k = 0 THEN base ELSE ReadField(read[k - 1], w[k])]

LEMMA StatesExist ==
  ASSUME NEW base, NEW w, NEW n \in Nat
  PROVE  \E read : States(base, w, n, read)
<1> DEFINE S == {k \in Nat : \E read : States(base, w, k, read)}
<1>1. 0 \in S
  <2>1. States(base, w, 0, [k \in 0 .. 0 |-> base])
    BY DEF States
  <2>2. QED BY <2>1
<1>2. ASSUME NEW m \in Nat, m \in S PROVE m + 1 \in S
  <2>1. PICK read : States(base, w, m, read)
    BY <1>2
  <2> DEFINE more == [k \in 0 .. m + 1 |->
                        IF k = m + 1 THEN ReadField(read[m], w[m + 1]) ELSE read[k]]
  <2>2. \A k \in 0 .. m : more[k] = read[k]
    OBVIOUS
  <2>3. more[m + 1] = ReadField(more[m], w[m + 1])
    BY <2>2
  <2>4. \A k \in 0 .. m : more[k] = IF k = 0 THEN base ELSE ReadField(more[k - 1], w[k])
    <3> SUFFICES ASSUME NEW k \in 0 .. m
                 PROVE  more[k] = IF k = 0 THEN base ELSE ReadField(more[k - 1], w[k])
      OBVIOUS
    <3>1. read[k] = IF k = 0 THEN base ELSE ReadField(read[k - 1], w[k])
      BY <2>1 DEF States
    <3>2. k # 0 => k - 1 \in 0 .. m
      OBVIOUS
    <3> HIDE DEF more
    <3>3. QED BY <2>2, <3>1, <3>2
  <2>5. /\ more = [k \in 0 .. m + 1 |-> more[k]]
        /\ \A k \in 0 .. m + 1 : k = m + 1 \/ k \in 0 .. m
        /\ m + 1 # 0 /\ (m + 1) - 1 = m
    OBVIOUS
  <2> HIDE DEF more
  <2>6. \A k \in 0 .. m + 1 : more[k] = IF k = 0 THEN base ELSE ReadField(more[k - 1], w[k])
    BY <2>3, <2>4, <2>5
  <2>7. States(base, w, m + 1, more)
    BY <2>5, <2>6, Zenon DEF States
  <2>8. QED BY <2>7
<1> HIDE DEF S
<1>3. Nat \subseteq S
  BY <1>1, <1>2, FromZero
<1>4. QED BY <1>3 DEF S

\* Reading goes from object to object, one field at a time.
LEMMA Reading ==
  ASSUME NEW base, NEW w, Len(w) \in Nat
  PROVE  \E read : /\ read[0] = base
                   /\ \A n \in 1 .. Len(w) : read[n] = ReadField(read[n - 1], w[n])
                   /\ ReadFields(base, w) = read[Len(w)]
<1> DEFINE read == CHOOSE read : States(base, w, Len(w), read)
<1>1. ReadFields(base, w) = read[Len(w)]
  BY DEF ReadFields, States
<1>2. States(base, w, Len(w), read)
  BY StatesExist
<1> HIDE DEF read
<1>3. \A n \in 0 .. Len(w) : read[n] = IF n = 0 THEN base ELSE ReadField(read[n - 1], w[n])
  BY <1>2, Zenon DEF States
<1>4. QED BY <1>1, <1>3

\* Fields are read up to the first end of a group.
LEMMA Before ==
  ASSUME NEW w \in Seq(Field)
  PROVE  /\ BeforeEndGroup(w) \in Seq(Field)
         /\ Len(BeforeEndGroup(w)) <= Len(w)
         /\ \A i \in 1 .. Len(BeforeEndGroup(w)) : BeforeEndGroup(w)[i] = w[i] /\ w[i][1] # 0
         /\ Len(BeforeEndGroup(w)) < Len(w) => w[Len(BeforeEndGroup(w)) + 1][1] = 0
<1> DEFINE ended == w \o << <<0>> >>
           ends  == {i \in 1 .. Len(ended) : ended[i][1] = 0}
           e     == Min(ends)
<1>1. /\ Len(ended) = Len(w) + 1 /\ Len(w) \in Nat
      /\ \A i \in 1 .. Len(w) : ended[i] = w[i]
      /\ ended[Len(w) + 1] = <<0>>
  OBVIOUS
<1>2. Len(w) + 1 \in ends
  BY <1>1
<1>3. e \in ends /\ \A k \in ends : e <= k
  <2>1. ends \in SUBSET Nat /\ ends # {}
    BY <1>1, <1>2
  <2> HIDE DEF ends
  <2>2. \E k \in ends : \A j \in ends : k <= j
    BY <2>1, Least
  <2>3. QED BY <2>2 DEF Min
<1>4. BeforeEndGroup(w) = SubSeq(w, 1, e - 1)
  BY <1>2 DEF BeforeEndGroup, SelectInSeq
<1> HIDE DEF ended, e
<1>5. e \in 1 .. Len(w) + 1
  BY <1>1, <1>3
<1>6. /\ SubSeq(w, 1, e - 1) \in Seq(Field) /\ Len(SubSeq(w, 1, e - 1)) = e - 1
      /\ \A i \in 1 .. e - 1 : SubSeq(w, 1, e - 1)[i] = w[i]
  BY <1>1, <1>5
<1>7. \A i \in 1 .. e - 1 : w[i][1] # 0
  BY <1>1, <1>3, <1>5
<1>8. e - 1 < Len(w) => w[(e - 1) + 1][1] = 0
  BY <1>1, <1>3, <1>5
<1>9. QED BY <1>1, <1>4, <1>5, <1>6, <1>7, <1>8
-------------------------------------------------------------------------------
\* readInt32 keeps what fits, and cuts the rest by a multiple of the numbers there are.
LEMMA Division ==
  ASSUME NEW m \in Int, NEW d \in Nat \ {0}
  PROVE  /\ m \div d \in Int /\ m % d \in 0 .. d - 1 /\ m = d * (m \div d) + (m % d)
         /\ \A q \in Int, r \in 0 .. d - 1 : m = d * q + r => r = m % d
<1>1. m \div d \in Int /\ m % d \in 0 .. d - 1 /\ m = d * (m \div d) + (m % d)
  OBVIOUS
<1>2. \A p, q \in Int, r, s \in 0 .. d - 1 : d * p + r = d * q + s => p = q /\ r = s
  OBVIOUS
<1> QED BY <1>1, <1>2

LEMMA Sizes == IntMax \in Nat \ {0}
BY WsMsgAssumption, Zenon

LEMMA Int32 ==
  ASSUME NEW v \in Int
  PROVE  /\ readInt32(v) \in -IntMax .. IntMax - 1
         /\ (v - readInt32(v)) % (2 * IntMax) = 0
         /\ v \in -IntMax .. IntMax - 1 => readInt32(v) = v
<1> DEFINE d == 2 * IntMax
           x == v + IntMax
           r == x % d
           q == x \div d
<1>1. d \in Nat \ {0} /\ x \in Int /\ IntMax \in Nat /\ d - IntMax = IntMax
  BY Sizes
<1> HIDE DEF d
<1>2. r \in 0 .. d - 1 /\ q \in Int /\ x = d * q + r
  BY <1>1, Division
<1>3. readInt32(v) = r - IntMax
  BY DEF readInt32, d
<1>4. v - (r - IntMax) = d * q
  <2>1. d * q \in Int
    BY <1>1, <1>2
  <2> DEFINE t == d * q
  <2> HIDE DEF t, r
  <2>2. x = t + r
    BY <1>2 DEF t
  <2>3. QED BY <1>1, <1>2, <2>1, <2>2 DEF t
<1>5. (d * q) % d = 0
  <2>1. d * q \in Int /\ 0 \in 0 .. d - 1 /\ d * q = d * q + 0
    BY <1>1, <1>2
  <2>2. QED BY <1>1, <1>2, <2>1, Division
<1>6. v \in -IntMax .. IntMax - 1 => r = x
  <2> SUFFICES ASSUME v \in -IntMax .. IntMax - 1 PROVE r = x
    OBVIOUS
  <2>1. x \in 0 .. d - 1
    BY <1>1
  <2> HIDE DEF x
  <2>2. x = d * 0 + x
    BY <1>1, <2>1
  <2>3. QED BY <1>1, <2>1, <2>2, Division
<1>7. /\ r - IntMax \in -IntMax .. IntMax - 1
      /\ r = x => r - IntMax = v
  <2> HIDE DEF r
  <2>1. QED BY <1>1, <1>2
<1>8. QED BY <1>3, <1>4, <1>5, <1>6, <1>7 DEF d

\* What a field that is read changes.
LEMMA ReadOne ==
  ASSUME NEW m \in Msg, NEW f \in Field
  PROVE  /\ ReadField(m, f) \in Msg
         /\ getMsgseq(ReadField(m, f)) = IF f[1] = 1 THEN readInt32(f[2]) ELSE getMsgseq(m)
         /\ getMsgid(ReadField(m, f)) = IF f[1] = 2 THEN f[2] ELSE getMsgid(m)
         /\ getContent(ReadField(m, f)) = IF f[1] = 3 THEN f[2] ELSE getContent(m)
<1> DEFINE n == ReadField(m, f)
<1>1. /\ m.msgseq \in Int \cup {Null} /\ m.msgid \in Texts \cup {Null}
      /\ m.content \in Content \cup {Null}
      /\ Null \notin Int /\ Null \notin Texts /\ Null \notin Content
  BY WsMsgAssumption DEF Msg
<1>3. CASE f[1] = 1
  <2>1. f[2] \in Int
    BY <1>3 DEF Field
  <2>2. readInt32(f[2]) \in Int
    <3>1. readInt32(f[2]) \in -IntMax .. IntMax - 1
      BY <2>1, Int32
    <3>2. QED BY <3>1, Sizes
  <2>3. n = [m EXCEPT !.msgseq = IgnoringDefault(readInt32(f[2]), 0)]
    BY <1>3 DEF ReadField, setMsgseq
  <2>4. n \in Msg
    BY <2>2, <2>3 DEF Msg, IgnoringDefault
  <2>5. n.msgseq = IgnoringDefault(readInt32(f[2]), 0) /\ n.msgid = m.msgid /\ n.content = m.content
    BY <2>3 DEF Msg
  <2>6. WithDefault(n.msgseq, 0) = readInt32(f[2])
    BY <1>1, <2>2, <2>5 DEF WithDefault, IgnoringDefault
  <2>7. QED BY <1>3, <2>4, <2>5, <2>6 DEF getMsgseq, getMsgid, getContent
<1>4. CASE f[1] = 2
  <2>1. f[2] \in Texts
    BY <1>4 DEF Field
  <2>3. n = [m EXCEPT !.msgid = IgnoringDefault(f[2], "")]
    BY <1>4 DEF ReadField, setMsgid
  <2>4. n \in Msg
    BY <2>1, <2>3 DEF Msg, IgnoringDefault
  <2>5. n.msgseq = m.msgseq /\ n.msgid = IgnoringDefault(f[2], "") /\ n.content = m.content
    BY <2>3 DEF Msg
  <2>6. WithDefault(n.msgid, "") = f[2]
    <3>1. f[2] # Null
      BY <1>1, <2>1
    <3>2. QED BY <2>5, <3>1, Zenon DEF WithDefault, IgnoringDefault
  <2>7. getMsgid(n) = f[2]
    BY <2>6, Zenon DEF getMsgid
  <2>8. getMsgseq(n) = getMsgseq(m) /\ getContent(n) = getContent(m)
    BY <2>5 DEF getMsgseq, getContent
  <2> HIDE DEF n
  <2>9. QED BY <1>4, <2>4, <2>7, <2>8 DEF n
<1>5. CASE f[1] = 3
  <2>1. f[2] \in Content
    BY <1>5 DEF Field
  <2>3. n = [m EXCEPT !.content = IgnoringDefault(f[2], EmptyText)]
    BY <1>5 DEF ReadField, setContent
  <2>4. n \in Msg
    BY <2>1, <2>3 DEF Msg, IgnoringDefault
  <2>5. n.msgseq = m.msgseq /\ n.msgid = m.msgid /\ n.content = IgnoringDefault(f[2], EmptyText)
    BY <2>3 DEF Msg
  <2>6. WithDefault(n.content, EmptyText) = f[2]
    <3>1. f[2] # Null
      BY <1>1, <2>1
    <3>2. QED BY <2>5, <3>1, Zenon DEF WithDefault, IgnoringDefault
  <2>7. QED BY <1>5, <2>4, <2>5, <2>6 DEF getMsgseq, getMsgid, getContent
<1>6. CASE f[1] \notin {1, 2, 3}
  BY <1>6 DEF ReadField
<1>7. QED BY <1>3, <1>4, <1>5, <1>6

\* Field n does not occur in the first k fields of w; it does so last at i.
Never(w, n, k)     == \A i \in 1 .. k : w[i][1] # n
Latest(w, n, k, i) == i \in 1 .. k /\ w[i][1] = n /\ \A j \in i + 1 .. k : w[j][1] # n

\* What m is if it is base and the first k fields of w have been read into it.
After(base, w, k, m) ==
  /\ m \in Msg
  /\ Never(w, 1, k) => getMsgseq(m) = getMsgseq(base)
  /\ Never(w, 2, k) => getMsgid(m) = getMsgid(base)
  /\ Never(w, 3, k) => getContent(m) = getContent(base)
  /\ \A i : Latest(w, 1, k, i) => getMsgseq(m) = readInt32(w[i][2])
  /\ \A i : Latest(w, 2, k, i) => getMsgid(m) = w[i][2]
  /\ \A i : Latest(w, 3, k, i) => getContent(m) = w[i][2]

LEMMA ReadNext ==
  ASSUME NEW base, NEW w \in Seq(Field), NEW k \in Nat, k + 1 <= Len(w),
         NEW m, After(base, w, k, m)
  PROVE  After(base, w, k + 1, ReadField(m, w[k + 1]))
<1> DEFINE f == w[k + 1]
           n == ReadField(m, f)
<1>1. f \in Field
  OBVIOUS
<1>2. /\ n \in Msg
      /\ getMsgseq(n) = IF f[1] = 1 THEN readInt32(f[2]) ELSE getMsgseq(m)
      /\ getMsgid(n) = IF f[1] = 2 THEN f[2] ELSE getMsgid(m)
      /\ getContent(n) = IF f[1] = 3 THEN f[2] ELSE getContent(m)
  BY <1>1, ReadOne DEF After
<1>3. \A t : Never(w, t, k + 1) => Never(w, t, k) /\ f[1] # t
  BY DEF Never
<1>4. \A t, i : Latest(w, t, k + 1, i) => \/ f[1] = t /\ w[i] = f
                                          \/ f[1] # t /\ Latest(w, t, k, i)
  BY DEF Latest
<1> HIDE DEF f, n
<1>5. /\ Never(w, 1, k + 1) => getMsgseq(n) = getMsgseq(base)
      /\ Never(w, 2, k + 1) => getMsgid(n) = getMsgid(base)
      /\ Never(w, 3, k + 1) => getContent(n) = getContent(base)
  BY <1>2, <1>3 DEF After
<1>6. /\ \A i : Latest(w, 1, k + 1, i) => getMsgseq(n) = readInt32(w[i][2])
      /\ \A i : Latest(w, 2, k + 1, i) => getMsgid(n) = w[i][2]
      /\ \A i : Latest(w, 3, k + 1, i) => getContent(n) = w[i][2]
  BY <1>2, <1>4 DEF After
<1>7. After(base, w, k + 1, n)
  BY <1>2, <1>5, <1>6 DEF After
<1>8. QED BY <1>7 DEF n, f

LEMMA ReadAll ==
  ASSUME NEW base \in Msg, NEW w \in Seq(Field)
  PROVE  After(base, w, Len(w), ReadFields(base, w))
<1>1. Len(w) \in Nat
  OBVIOUS
<1>2. PICK read : /\ read[0] = base
                  /\ \A n \in 1 .. Len(w) : read[n] = ReadField(read[n - 1], w[n])
                  /\ ReadFields(base, w) = read[Len(w)]
  BY <1>1, Reading
<1> DEFINE S == {k \in Nat : k <= Len(w) => After(base, w, k, read[k])}
<1>3. 0 \in S
  BY <1>2 DEF After, Never, Latest
<1>4. ASSUME NEW k \in Nat, k \in S PROVE k + 1 \in S
  <2> SUFFICES ASSUME k + 1 <= Len(w) PROVE After(base, w, k + 1, read[k + 1])
    OBVIOUS
  <2>1. After(base, w, k, read[k])
    BY <1>1, <1>4
  <2>2. read[k + 1] = ReadField(read[k], w[k + 1])
    BY <1>1, <1>2
  <2>3. QED BY <2>1, <2>2, ReadNext
<1> HIDE DEF S
<1>5. Nat \subseteq S
  BY <1>3, <1>4, FromZero
<1>6. QED BY <1>1, <1>2, <1>5 DEF S

LEMMA Greatest ==
  ASSUME NEW n \in Nat, NEW S \in SUBSET (1 .. n), S # {}
  PROVE  \E k \in S : \A j \in S : j <= k
<1> DEFINE T == {n - j : j \in S}
<1>1. T \in SUBSET Nat /\ T # {}
  <2>1. \A j \in S : n - j \in Nat
    OBVIOUS
  <2>2. \A t \in T : t \in Nat
    BY <2>1
  <2>3. PICK j \in S : TRUE
    OBVIOUS
  <2>4. n - j \in T
    OBVIOUS
  <2>5. QED BY <2>2, <2>4
<1>2. PICK t \in T : \A u \in T : t <= u
  BY <1>1, Least
<1>3. PICK k \in S : t = n - k
  OBVIOUS
<1>4. \A j \in S : n - k <= n - j
  BY <1>2, <1>3
<1>5. \A j \in S : j <= k
  BY <1>4
<1>6. QED BY <1>5

\* LastOf is the value of the last occurrence among the fields that are read.
LEMMA LastRead ==
  ASSUME NEW w \in Seq(Field), NEW n \in {1, 2, 3}, NEW default, NEW b, b = BeforeEndGroup(w)
  PROVE  \/ Never(b, n, Len(b)) /\ LastOf(w, n, default) = default
         \/ \E i : Latest(b, n, Len(b), i) /\ LastOf(w, n, default) = b[i][2]
<1> DEFINE at == {i \in DOMAIN w : w[i][1] = n /\ \A k \in 1 .. i : w[k][1] # 0}
<1>1. /\ Len(b) \in Nat /\ Len(b) <= Len(w) /\ DOMAIN w = 1 .. Len(w) /\ Len(w) \in Nat
      /\ \A i \in 1 .. Len(b) : b[i] = w[i] /\ w[i][1] # 0
      /\ Len(b) < Len(w) => w[Len(b) + 1][1] = 0
  BY Before
<1>2. at = {i \in 1 .. Len(b) : b[i][1] = n}
  <2>1. \A i \in at : i <= Len(b)
    BY <1>1
  <2>2. QED BY <1>1, <2>1
<1>3. LastOf(w, n, default)
        = IF at = {} THEN default ELSE w[CHOOSE i \in at : \A k \in at : k <= i][2]
  BY DEF LastOf
<1> HIDE DEF at
<1>4. CASE at = {}
  BY <1>2, <1>3, <1>4 DEF Never
<1>5. CASE at # {}
  <2> DEFINE i == CHOOSE i \in at : \A k \in at : k <= i
  <2>1. at \in SUBSET (1 .. Len(b))
    BY <1>2
  <2>2. \E j \in at : \A k \in at : k <= j
    BY <1>1, <1>5, <2>1, Greatest
  <2>3. i \in at /\ \A k \in at : k <= i
    BY <2>2
  <2>4. LastOf(w, n, default) = w[i][2]
    BY <1>3, <1>5
  <2> HIDE DEF i
  <2>5. Latest(b, n, Len(b), i)
    BY <1>1, <1>2, <2>3 DEF Latest
  <2>6. w[i] = b[i]
    BY <1>1, <2>1, <2>3
  <2>7. QED BY <2>4, <2>5, <2>6
<1>6. QED BY <1>4, <1>5

LEMMA Occurs ==
  ASSUME NEW S, NEW w \in Seq(S), NEW n
  PROVE  Never(w, n, Len(w)) \/ \E i : Latest(w, n, Len(w), i)
<1> DEFINE at == {i \in 1 .. Len(w) : w[i][1] = n}
<1>1. CASE at = {}
  BY <1>1 DEF Never
<1>2. CASE at # {}
  <2>1. PICK i \in at : \A j \in at : j <= i
    <3>1. at \in SUBSET (1 .. Len(w)) /\ Len(w) \in Nat
      OBVIOUS
    <3> HIDE DEF at
    <3>2. QED BY <1>2, <3>1, Greatest
  <2>2. Latest(w, n, Len(w), i)
    BY <2>1 DEF Latest
  <2>3. QED BY <2>2
<1>3. QED BY <1>1, <1>2
-------------------------------------------------------------------------------
(* What a message is written as. *)

Elements(w) == {w[i] : i \in 1 .. Len(w)}

LEMMA Joined ==
  ASSUME NEW S, NEW a \in Seq(S), NEW b \in Seq(S)
  PROVE  /\ a \o b \in Seq(S) /\ Len(a \o b) = Len(a) + Len(b)
         /\ Elements(a \o b) = Elements(a) \cup Elements(b)
<1> DEFINE c == a \o b
<1>1. /\ c \in Seq(S) /\ Len(c) = Len(a) + Len(b) /\ Len(a) \in Nat /\ Len(b) \in Nat
      /\ \A i \in 1 .. Len(a) : c[i] = a[i]
      /\ \A i \in Len(a) + 1 .. Len(c) : c[i] = b[i - Len(a)]
  OBVIOUS
<1> HIDE DEF c
<1>2. ASSUME NEW i \in 1 .. Len(c) PROVE c[i] \in Elements(a) \cup Elements(b)
  <2>1. CASE i <= Len(a)
    BY <1>1, <2>1 DEF Elements
  <2>2. CASE i > Len(a)
    <3>1. i - Len(a) \in 1 .. Len(b)
      BY <1>1, <2>2
    <3>2. QED BY <1>1, <2>2, <3>1 DEF Elements
  <2>3. QED BY <1>1, <2>1, <2>2
<1>3. ASSUME NEW i \in 1 .. Len(a) PROVE a[i] \in Elements(c)
  BY <1>1 DEF Elements
<1>4. ASSUME NEW i \in 1 .. Len(b) PROVE b[i] \in Elements(c)
  <2>1. /\ i + Len(a) \in Len(a) + 1 .. Len(c) /\ i + Len(a) \in 1 .. Len(c)
        /\ (i + Len(a)) - Len(a) = i
    BY <1>1
  <2>2. c[i + Len(a)] = b[i]
    BY <1>1, <2>1
  <2>3. QED BY <2>1, <2>2 DEF Elements
<1>5. Elements(c) = Elements(a) \cup Elements(b)
  BY <1>2, <1>3, <1>4 DEF Elements
<1>6. QED BY <1>1, <1>5 DEF c

LEMMA AtMostOne ==
  ASSUME NEW S, NEW x \in S, NEW s, s = <<>> \/ s = <<x>>
  PROVE  /\ s \in Seq(S) /\ Len(s) \in {0, 1}
         /\ Elements(s) = IF s = <<>> THEN {} ELSE {x}
<1>1. CASE s = <<>>
  <2>1. s \in Seq(S) /\ Len(s) = 0
    BY <1>1
  <2>2. QED BY <1>1, <2>1 DEF Elements
<1>2. CASE s = <<x>>
  <2>1. s \in Seq(S) /\ Len(s) = 1 /\ s[1] = x /\ s # <<>>
    BY <1>2
  <2>2. QED BY <2>1 DEF Elements
<1>3. QED BY <1>1, <1>2

\* A field that is at its default is left out.
Entry(n, v, default) == IF v = default THEN {} ELSE {<<n, v>>}

LEMMA Written ==
  ASSUME NEW m \in Msg
  PROVE  /\ getMsgseq(m) \in Int /\ getMsgid(m) \in Texts /\ getContent(m) \in Content
         /\ serializeBinary(m) \in Seq(Field) /\ Len(serializeBinary(m)) <= 3
         /\ Elements(serializeBinary(m)) =
              Entry(1, getMsgseq(m), 0) \cup Entry(2, getMsgid(m), "")
                \cup Entry(3, <<"u8", getContent(m)[2]>>, <<"u8", "">>)
<1>1. /\ m.msgseq \in Int \cup {Null} /\ m.msgid \in Texts \cup {Null}
      /\ m.content \in Content \cup {Null}
  BY DEF Msg
<1>2. getMsgseq(m) \in Int /\ getContent(m) \in Content
  <2>1. EmptyText \in Content
    BY WsMsgAssumption DEF EmptyText, Content
  <2>2. getMsgseq(m) \in Int
    BY <1>1 DEF getMsgseq, WithDefault
  <2>3. getContent(m) \in Content
    BY <1>1, <2>1 DEF getContent, WithDefault
  <2>4. QED BY <2>2, <2>3
<1>3. getMsgid(m) \in Texts
  <2>1. "" \in Texts
    BY WsMsgAssumption
  <2>2. QED BY <1>1, <2>1, Zenon DEF getMsgid, WithDefault
<1>4. getContent(m)[2] \in Texts /\ <<"u8", getContent(m)[2]>> \in Content
  BY <1>2 DEF Content
<1> DEFINE f == <<1, getMsgseq(m)>>
           g == <<2, getMsgid(m)>>
           h == <<3, <<"u8", getContent(m)[2]>> >>
           a == IF getMsgseq(m) # 0 THEN <<f>> ELSE <<>>
           b == IF getMsgid(m) # "" THEN <<g>> ELSE <<>>
           c == IF getContent(m)[2] # "" THEN <<h>> ELSE <<>>
<1>5. f \in Field /\ g \in Field /\ h \in Field
  BY <1>2, <1>3, <1>4 DEF Field
<1>6. serializeBinary(m) = (a \o b) \o c
  BY DEF serializeBinary, getContent_asU8
<1>7. getContent(m)[2] = "" <=> <<"u8", getContent(m)[2]>> = <<"u8", "">>
  OBVIOUS
<1>8. /\ a = <<>> \/ a = <<f>>
      /\ b = <<>> \/ b = <<g>>
      /\ c = <<>> \/ c = <<h>>
      /\ <<f>> # <<>> /\ <<g>> # <<>> /\ <<h>> # <<>>
  OBVIOUS
<1>9. /\ Entry(1, getMsgseq(m), 0) = IF a = <<>> THEN {} ELSE {f}
      /\ Entry(2, getMsgid(m), "") = IF b = <<>> THEN {} ELSE {g}
      /\ Entry(3, <<"u8", getContent(m)[2]>>, <<"u8", "">>) = IF c = <<>> THEN {} ELSE {h}
  <2>1. Entry(1, getMsgseq(m), 0) = IF a = <<>> THEN {} ELSE {f}
    BY <1>8 DEF Entry
  <2>2. Entry(2, getMsgid(m), "") = IF b = <<>> THEN {} ELSE {g}
    BY <1>8 DEF Entry
  <2>3. Entry(3, <<"u8", getContent(m)[2]>>, <<"u8", "">>) = IF c = <<>> THEN {} ELSE {h}
    BY <1>7, <1>8 DEF Entry
  <2>4. QED BY <2>1, <2>2, <2>3
<1> HIDE DEF f, g, h, a, b, c
<1>12. /\ a \in Seq(Field) /\ Len(a) \in {0, 1} /\ Elements(a) = IF a = <<>> THEN {} ELSE {f}
       /\ b \in Seq(Field) /\ Len(b) \in {0, 1} /\ Elements(b) = IF b = <<>> THEN {} ELSE {g}
       /\ c \in Seq(Field) /\ Len(c) \in {0, 1} /\ Elements(c) = IF c = <<>> THEN {} ELSE {h}
  BY <1>5, <1>8, AtMostOne
<1> DEFINE ab == a \o b
<1>14. /\ ab \in Seq(Field) /\ Len(ab) = Len(a) + Len(b)
       /\ Elements(ab) = Elements(a) \cup Elements(b)
  BY <1>12, Joined
<1>13. serializeBinary(m) = ab \o c
  BY <1>6
<1> HIDE DEF ab
<1>15. /\ ab \o c \in Seq(Field) /\ Len(ab \o c) = Len(ab) + Len(c)
       /\ Elements(ab \o c) = Elements(ab) \cup Elements(c)
  <2>1. ab \in Seq(Field) /\ c \in Seq(Field)
    BY <1>12, <1>14
  <2>2. QED BY <2>1, Joined, Zenon
<1>16. Len(serializeBinary(m)) <= 3
  <2>1. Len(serializeBinary(m)) = (Len(a) + Len(b)) + Len(c)
    BY <1>13, <1>14, <1>15, Zenon
  <2>2. \A i, j, k \in {0, 1} : (i + j) + k <= 3
    OBVIOUS
  <2>3. Len(a) \in {0, 1} /\ Len(b) \in {0, 1} /\ Len(c) \in {0, 1}
    BY <1>12
  <2>4. QED BY <2>1, <2>2, <2>3, Zenon
<1>17. QED BY <1>2, <1>3, <1>9, <1>12, <1>13, <1>14, <1>15, <1>16

\* Where no group ends all fields are read.
LEMMA NoEnd ==
  ASSUME NEW w \in Seq(Field), \A f \in Elements(w) : f[1] # 0
  PROVE  BeforeEndGroup(w) = w
<1> DEFINE b == BeforeEndGroup(w)
<1>1. /\ b \in Seq(Field) /\ Len(b) <= Len(w)
      /\ \A i \in 1 .. Len(b) : b[i] = w[i]
      /\ Len(b) < Len(w) => w[Len(b) + 1][1] = 0
  BY Before
<1> HIDE DEF b
<1>2. Len(b) = Len(w)
  <2>1. \A i \in 1 .. Len(w) : w[i][1] # 0
    BY DEF Elements
  <2>2. Len(b) \in Nat /\ Len(w) \in Nat
    BY <1>1
  <2>3. QED BY <1>1, <2>1, <2>2
<1>3. b = w
  BY <1>1, <1>2
<1>4. QED BY <1>3 DEF b

Has(w, n) == \E f \in Elements(w) : f[1] = n

\* All occurrences of a field have the same value.
AllSay(w, i, s, c) == \A f \in Elements(w) : \/ f[1] = 1 /\ f[2] = i
                                             \/ f[1] = 2 /\ f[2] = s
                                             \/ f[1] = 3 /\ f[2] = c

\* What reading such a w into base comes to.
Overlaid(base, w, i, s, c, m) ==
  /\ m \in Msg
  /\ getMsgseq(m) = IF Has(w, 1) THEN readInt32(i) ELSE getMsgseq(base)
  /\ getMsgid(m) = IF Has(w, 2) THEN s ELSE getMsgid(base)
  /\ getContent(m) = IF Has(w, 3) THEN c ELSE getContent(base)

LEMMA Reads ==
  ASSUME NEW base \in Msg, NEW w \in Seq(Field), NEW i, NEW s, NEW c, AllSay(w, i, s, c)
  PROVE  Overlaid(base, w, i, s, c, deserializeBinaryFromReader(base, w))
<1> DEFINE m == deserializeBinaryFromReader(base, w)
<1>1. After(base, w, Len(w), m)
  <2>1. BeforeEndGroup(w) = w
    BY NoEnd DEF AllSay
  <2>2. QED BY <2>1, ReadAll DEF deserializeBinaryFromReader
<1> HIDE DEF m
<1>2. \A n : ~Has(w, n) => Never(w, n, Len(w))
  BY DEF Never, Elements, Has
<1>3. \A n : Has(w, n) => \E k : Latest(w, n, Len(w), k) /\ w[k] \in Elements(w) /\ w[k][1] = n
  <2> SUFFICES ASSUME NEW n, Has(w, n)
               PROVE  \E k : Latest(w, n, Len(w), k) /\ w[k] \in Elements(w) /\ w[k][1] = n
    OBVIOUS
  <2>1. ~Never(w, n, Len(w))
    BY DEF Never, Elements, Has
  <2>2. PICK k : Latest(w, n, Len(w), k)
    BY <2>1, Occurs
  <2>3. QED BY <2>2 DEF Latest, Elements
<1>4. getMsgseq(m) = IF Has(w, 1) THEN readInt32(i) ELSE getMsgseq(base)
  <2>1. CASE Has(w, 1)
    <3>1. PICK k : Latest(w, 1, Len(w), k) /\ w[k] \in Elements(w) /\ w[k][1] = 1
      BY <1>3, <2>1
    <3>2. w[k][2] = i
      BY <3>1 DEF AllSay
    <3>3. QED BY <1>1, <2>1, <3>1, <3>2 DEF After
  <2>2. CASE ~Has(w, 1)
    BY <1>1, <1>2, <2>2 DEF After
  <2>3. QED BY <2>1, <2>2
<1>5. getMsgid(m) = IF Has(w, 2) THEN s ELSE getMsgid(base)
  <2>1. CASE Has(w, 2)
    <3>1. PICK k : Latest(w, 2, Len(w), k) /\ w[k] \in Elements(w) /\ w[k][1] = 2
      BY <1>3, <2>1
    <3>2. w[k][2] = s
      BY <3>1 DEF AllSay
    <3>3. QED BY <1>1, <2>1, <3>1, <3>2 DEF After
  <2>2. CASE ~Has(w, 2)
    BY <1>1, <1>2, <2>2 DEF After
  <2>3. QED BY <2>1, <2>2
<1>6. getContent(m) = IF Has(w, 3) THEN c ELSE getContent(base)
  <2>1. CASE Has(w, 3)
    <3>1. PICK k : Latest(w, 3, Len(w), k) /\ w[k] \in Elements(w) /\ w[k][1] = 3
      BY <1>3, <2>1
    <3>2. w[k][2] = c
      BY <3>1 DEF AllSay
    <3>3. QED BY <1>1, <2>1, <3>1, <3>2 DEF After
  <2>2. CASE ~Has(w, 3)
    BY <1>1, <1>2, <2>2 DEF After
  <2>3. QED BY <2>1, <2>2
<1>7. m \in Msg
  BY <1>1 DEF After
<1>8. QED BY <1>4, <1>5, <1>6, <1>7 DEF m, Overlaid

\* Reading what was written: the fields that are not at their defaults.
LEMMA ReadBack ==
  ASSUME NEW base \in Msg, NEW m \in Msg, Writable(m)
  PROVE  LET n == deserializeBinaryFromReader(base, serializeBinary(m))
         IN  /\ n \in Msg
             /\ getMsgseq(n) = IF getMsgseq(m) = 0 THEN getMsgseq(base) ELSE getMsgseq(m)
             /\ getMsgid(n) = IF getMsgid(m) = "" THEN getMsgid(base) ELSE getMsgid(m)
             /\ getContent(n)[2] = IF getContent(m)[2] = "" THEN getContent(base)[2]
                                                            ELSE getContent(m)[2]
<1> DEFINE w == serializeBinary(m)
           i == getMsgseq(m)
           s == getMsgid(m)
           b == getContent(m)[2]
           c == <<"u8", b>>
           n == deserializeBinaryFromReader(base, w)
<1>1. /\ w \in Seq(Field) /\ i \in Int
      /\ Elements(w) = Entry(1, i, 0) \cup Entry(2, s, "") \cup Entry(3, c, <<"u8", "">>)
  BY Written
<1>2. readInt32(i) = i
  BY <1>1, Int32 DEF Writable
<1> HIDE DEF w, i, s, b
<1>3. c = <<"u8", "">> <=> b = ""
  OBVIOUS
<1> HIDE DEF c
<1> DEFINE f1 == <<1, i>>
           f2 == <<2, s>>
           f3 == <<3, c>>
           none == s = ""
           void == b = ""
<1>4. /\ f1[1] = 1 /\ f1[2] = i
      /\ f2[1] = 2 /\ f2[2] = s
      /\ f3[1] = 3 /\ f3[2] = c
  OBVIOUS
<1>5. \A f : f \in Elements(w) <=> \/ f = f1 /\ i # 0
                                   \/ f = f2 /\ ~none
                                   \/ f = f3 /\ ~void
  <2> DEFINE E1 == Entry(1, i, 0)
             E2 == Entry(2, s, "")
             E3 == Entry(3, c, <<"u8", "">>)
  <2>1. \A f : f \in E1 <=> f = f1 /\ i # 0
    BY Zenon DEF Entry
  <2>2. \A f : f \in E2 <=> f = f2 /\ ~none
    BY Zenon DEF Entry
  <2>3. \A f : f \in E3 <=> f = f3 /\ ~void
    BY <1>3, Zenon DEF Entry
  <2>4. \A f : f \in Elements(w) <=> f \in E1 \/ f \in E2 \/ f \in E3
    BY <1>1, Zenon
  <2> HIDE DEF f1, f2, f3, E1, E2, E3, none, void
  <2>5. QED BY <2>1, <2>2, <2>3, <2>4, Zenon
<1> HIDE DEF f1, f2, f3, none, void
<1>6. AllSay(w, i, s, c)
  BY <1>4, <1>5, Zenon DEF AllSay
<1>7. /\ Has(w, 1) <=> i # 0
      /\ Has(w, 2) <=> ~none
      /\ Has(w, 3) <=> ~void
  <2>1. f1[1] # 2 /\ f1[1] # 3 /\ f2[1] # 1 /\ f2[1] # 3 /\ f3[1] # 1 /\ f3[1] # 2
    BY <1>4
  <2>2. Has(w, 1) <=> i # 0
    BY <1>4, <1>5, <2>1 DEF Has
  <2>3. Has(w, 2) <=> ~none
    BY <1>4, <1>5, <2>1 DEF Has
  <2>4. Has(w, 3) <=> ~void
    BY <1>4, <1>5, <2>1 DEF Has
  <2>5. QED BY <2>2, <2>3, <2>4
<1>9. /\ n \in Msg
      /\ getMsgseq(n) = IF Has(w, 1) THEN readInt32(i) ELSE getMsgseq(base)
      /\ getMsgid(n) = IF Has(w, 2) THEN s ELSE getMsgid(base)
      /\ getContent(n) = IF Has(w, 3) THEN c ELSE getContent(base)
  <2>1. Overlaid(base, w, i, s, c, n)
    BY <1>1, <1>6, Reads, Zenon
  <2>2. QED BY <2>1, Zenon DEF Overlaid
<1> HIDE DEF n
<1>10. c[2] = b
  BY DEF c
<1>11. getContent(n)[2] = IF void THEN getContent(base)[2] ELSE b
  BY <1>7, <1>9, <1>10, Zenon
<1>12. /\ getMsgseq(n) = IF i = 0 THEN getMsgseq(base) ELSE i
       /\ getMsgid(n) = IF none THEN getMsgid(base) ELSE s
  BY <1>2, <1>7, <1>9, Zenon
<1>13. QED BY <1>9, <1>11, <1>12 DEF n, w, i, s, b, none, void
-------------------------------------------------------------------------------
(* MessageExchange: the object and the messages on the wire. *)

Objs == {toObject(m) : m \in Msg}

ExchangeTypes == /\ msg \in Msg
                 /\ wire \in Seq(Seq(Field)) /\ written \in Seq(Objs \cup {Null})
                 /\ Len(written) = Len(wire)

\* What was written of the program's object is what serializeBinary made of one.
Sources ==
  \A i \in 1 .. Len(wire) :
    written[i] # Null =>
      \E m \in Msg : Writable(m) /\ wire[i] = serializeBinary(m) /\ written[i] = toObject(m)

ExchangeInv == ExchangeTypes /\ Sources

LEMMA Empty ==
  /\ EmptyMsg \in Msg
  /\ getMsgseq(EmptyMsg) = 0 /\ getMsgid(EmptyMsg) = "" /\ getContent(EmptyMsg) = EmptyText
<1>1. EmptyMsg \in Msg
  BY DEF EmptyMsg, Msg
<1>2. EmptyMsg.msgseq = Null /\ EmptyMsg.msgid = Null /\ EmptyMsg.content = Null
  BY DEF EmptyMsg
<1>3. QED BY <1>1, <1>2, Zenon DEF getMsgseq, getMsgid, getContent, WithDefault

LEMMA Same ==
  ASSUME NEW m \in Msg, Writable(m)
  PROVE  toObject(deserializeBinary(serializeBinary(m))) = toObject(m)
<1> DEFINE n == deserializeBinaryFromReader(EmptyMsg, serializeBinary(m))
<1>1. /\ getMsgseq(n) = IF getMsgseq(m) = 0 THEN getMsgseq(EmptyMsg) ELSE getMsgseq(m)
      /\ getMsgid(n) = IF getMsgid(m) = "" THEN getMsgid(EmptyMsg) ELSE getMsgid(m)
      /\ getContent(n)[2] = IF getContent(m)[2] = "" THEN getContent(EmptyMsg)[2]
                                                     ELSE getContent(m)[2]
  BY Empty, ReadBack
<1>2. EmptyText[2] = ""
  BY DEF EmptyText
<1>3. /\ getMsgseq(n) = getMsgseq(m) /\ getMsgid(n) = getMsgid(m)
      /\ getContent(n)[2] = getContent(m)[2]
  BY <1>1, <1>2, Empty, Zenon
<1>4. toObject(n) = toObject(m)
  BY <1>3, Zenon DEF toObject, getContent_asB64
<1>5. QED BY <1>4 DEF deserializeBinary

LEMMA SetTyped ==
  ASSUME msg \in Msg
  PROVE  /\ \A n \in Numbers : setMsgseq(msg, n) \in Msg
         /\ \A t \in Names : setMsgid(msg, t) \in Msg
         /\ \A c \in Contents : setContent(msg, c) \in Msg
<1>1. Numbers \subseteq Int /\ Names \subseteq Texts /\ Contents \subseteq Content
  BY ExchangeAssumption
<1>2. QED BY <1>1 DEF setMsgseq, setMsgid, setContent, IgnoringDefault, Msg

LEMMA ReadTyped ==
  ASSUME NEW base \in Msg, NEW w \in Seq(Field)
  PROVE  deserializeBinaryFromReader(base, w) \in Msg
<1>1. BeforeEndGroup(w) \in Seq(Field)
  BY Before
<1>2. QED BY <1>1, ReadAll DEF deserializeBinaryFromReader, After

LEMMA ExchangeStep == ExchangeInv /\ [ExchangeNext]_exchangeVars => ExchangeInv'
<1> SUFFICES ASSUME ExchangeInv, [ExchangeNext]_exchangeVars PROVE ExchangeInv'
  OBVIOUS
<1> USE DEF ExchangeInv
<1>1. /\ msg \in Msg /\ wire \in Seq(Seq(Field)) /\ written \in Seq(Objs \cup {Null})
      /\ Len(written) = Len(wire) /\ Len(wire) \in Nat
  BY DEF ExchangeTypes
<1>2. ASSUME msg' \in Msg, UNCHANGED <<wire, written>> PROVE ExchangeInv'
  BY <1>2 DEF ExchangeTypes, Sources
<1>3. ASSUME NEW w \in Seq(Field), NEW o \in Objs \cup {Null},
             wire' = Append(wire, w), written' = Append(written, o), UNCHANGED msg,
             o # Null => \E m \in Msg : Writable(m) /\ w = serializeBinary(m) /\ o = toObject(m)
      PROVE  ExchangeInv'
  <2>1. ExchangeTypes'
    BY <1>1, <1>3 DEF ExchangeTypes
  <2>2. ASSUME NEW i \in 1 .. Len(wire'), written'[i] # Null
        PROVE  \E m \in Msg : /\ Writable(m) /\ wire'[i] = serializeBinary(m)
                              /\ written'[i] = toObject(m)
    <3>1. CASE i = Len(wire) + 1
      <4>1. wire'[i] = w /\ written'[i] = o
        BY <1>1, <1>3, <3>1
      <4>2. QED BY <1>3, <2>2, <4>1
    <3>2. CASE i \in 1 .. Len(wire)
      <4>1. wire'[i] = wire[i] /\ written'[i] = written[i]
        BY <1>1, <1>3, <3>2
      <4>2. QED BY <2>2, <3>2, <4>1 DEF Sources
    <3>3. QED BY <1>1, <1>3, <3>1, <3>2
  <2>3. Sources'
    BY <2>2 DEF Sources
  <2>4. QED BY <2>1, <2>3
<1>4. ASSUME wire # <<>>, NEW m \in Msg, Received(m) PROVE ExchangeInv'
  <2>1. ExchangeTypes'
    BY <1>1, <1>4 DEF ExchangeTypes, Received
  <2>2. \A i \in 1 .. Len(wire') : /\ i + 1 \in 1 .. Len(wire)
                                   /\ wire'[i] = wire[i + 1] /\ written'[i] = written[i + 1]
    BY <1>1, <1>4 DEF Received
  <2>3. Sources'
    BY <2>2 DEF Sources
  <2>4. QED BY <2>1, <2>3
<1>5. ASSUME NEW data \in Arrays, Construct(data) PROVE ExchangeInv'
  BY <1>2, <1>5, ExchangeAssumption DEF Construct
<1>6. CASE Set
  BY <1>1, <1>2, <1>6, SetTyped DEF Set
<1>7. CASE Write
  <2>1. serializeBinary(msg) \in Seq(Field) /\ toObject(msg) \in Objs
    BY <1>1, Written DEF Objs
  <2>2. QED BY <1>1, <1>3, <1>7, <2>1 DEF Write
<1>8. ASSUME NEW w \in PeerMessages, PeerWrites(w) PROVE ExchangeInv'
  <2>1. w \in Seq(Field)
    BY ExchangeAssumption
  <2>2. QED BY <1>3, <1>8, <2>1 DEF PeerWrites
<1>9. wire # <<>> => Head(wire) \in Seq(Field)
  BY <1>1
<1>10. CASE Read
  BY <1>4, <1>9, <1>10, Empty, ReadTyped DEF Read, deserializeBinary
<1>11. CASE ReadInto
  BY <1>1, <1>4, <1>9, <1>11, ReadTyped DEF ReadInto
<1>12. CASE UNCHANGED exchangeVars
  BY <1>1, <1>2, <1>12 DEF exchangeVars
<1>13. QED
  BY <1>5, <1>6, <1>7, <1>8, <1>10, <1>11, <1>12 DEF ExchangeNext

LEMMA Exchanged == ExchangeSpec => []ExchangeInv
<1>1. ExchangeInit => ExchangeInv
  <2> SUFFICES ASSUME ExchangeInit PROVE ExchangeInv
    OBVIOUS
  <2>1. /\ <<>> \in Seq(Seq(Field)) /\ <<>> \in Seq(Objs \cup {Null})
        /\ 1 .. Len(<<>>) = {}
    OBVIOUS
  <2>2. QED BY <2>1, Empty DEF ExchangeInit, ExchangeInv, ExchangeTypes, Sources
<1>2. QED BY <1>1, ExchangeStep, PTL DEF ExchangeSpec

\* A message that was written reads as the object it was written from, whatever the
\* numbers, names and contents, and however the program came to hold that object.
THEOREM ReadsAsWritten == ExchangeSpec => []RoundTrip
<1>1. ExchangeInv => RoundTrip
  <2> SUFFICES ASSUME ExchangeInv, NEW i \in DOMAIN wire, written[i] # Null
               PROVE  toObject(deserializeBinary(wire[i])) = written[i]
    BY DEF RoundTrip
  <2>1. DOMAIN wire = 1 .. Len(wire)
    BY DEF ExchangeInv, ExchangeTypes
  <2>2. PICK m \in Msg : /\ Writable(m) /\ wire[i] = serializeBinary(m)
                         /\ written[i] = toObject(m)
    BY <2>1 DEF ExchangeInv, Sources
  <2>3. toObject(deserializeBinary(serializeBinary(m))) = toObject(m)
    BY <2>2, Same
  <2>4. QED BY <2>2, <2>3
<1>2. QED BY <1>1, Exchanged, PTL

\* Whatever fields another version wrote, in any order and number: a field reads as its
\* last occurrence before the end of a group, cut to 32 bits, or as its default.
THEOREM LastWins == ExchangeSpec => []LastOccurrenceWins
<1>1. ExchangeInv => LastOccurrenceWins
  <2> SUFFICES ASSUME ExchangeInv, NEW i \in DOMAIN wire
               PROVE  LET o == toObject(deserializeBinary(wire[i]))
                          n == LastOf(wire[i], 1, 0)
                      IN  /\ o.msgseq \in -IntMax .. IntMax - 1
                          /\ (n - o.msgseq) % (2 * IntMax) = 0
                          /\ o.msgid = LastOf(wire[i], 2, "")
                          /\ o.content[2] = LastOf(wire[i], 3, EmptyText)[2]
    BY DEF LastOccurrenceWins
  <2> DEFINE w == wire[i]
             b == BeforeEndGroup(w)
             m == deserializeBinary(w)
             n == LastOf(w, 1, 0)
  <2>1. w \in Seq(Field)
    BY DEF ExchangeInv, ExchangeTypes
  <2>2. b \in Seq(Field)
    BY <2>1, Before
  <2>3. After(EmptyMsg, b, Len(b), m)
    BY <2>2, Empty, ReadAll DEF deserializeBinary, deserializeBinaryFromReader
  <2> HIDE DEF m, n, w
  <2>4. \A d : \A t \in {1, 2, 3} :
          \/ Never(b, t, Len(b)) /\ LastOf(w, t, d) = d
          \/ \E k : Latest(b, t, Len(b), k) /\ LastOf(w, t, d) = b[k][2]
    BY <2>1, LastRead
  <2>5. 1 \in {1, 2, 3} /\ 2 \in {1, 2, 3} /\ 3 \in {1, 2, 3}
    OBVIOUS
  <2>6. getMsgseq(m) \in -IntMax .. IntMax - 1 /\ (n - getMsgseq(m)) % (2 * IntMax) = 0
    <3>1. \/ Never(b, 1, Len(b)) /\ n = 0
          \/ \E k : Latest(b, 1, Len(b), k) /\ n = b[k][2]
      <4>1. \/ Never(b, 1, Len(b)) /\ LastOf(w, 1, 0) = 0
            \/ \E k : Latest(b, 1, Len(b), k) /\ LastOf(w, 1, 0) = b[k][2]
        BY <2>4, <2>5, Zenon
      <4>2. QED BY <4>1, Zenon DEF n
    <3>2. CASE Never(b, 1, Len(b)) /\ n = 0
      <4>1. getMsgseq(m) = 0
        BY <2>3, <3>2, Empty DEF After
      <4>2. 0 \in -IntMax .. IntMax - 1 /\ (0 - 0) % (2 * IntMax) = 0
        BY Sizes
      <4>3. QED BY <3>2, <4>1, <4>2
    <3>3. ASSUME NEW k, Latest(b, 1, Len(b), k), n = b[k][2]
          PROVE  getMsgseq(m) \in -IntMax .. IntMax - 1 /\ (n - getMsgseq(m)) % (2 * IntMax) = 0
      <4>1. getMsgseq(m) = readInt32(n)
        BY <2>3, <3>3 DEF After
      <4>2. n \in Int
        <5>1. b[k] \in Field /\ b[k][1] = 1
          BY <2>2, <3>3 DEF Latest
        <5>2. QED BY <3>3, <5>1 DEF Field
      <4>3. QED BY <4>1, <4>2, Int32
    <3>4. QED BY <3>1, <3>2, <3>3
  <2>7. getMsgid(m) = LastOf(w, 2, "")
    <3>1. \/ Never(b, 2, Len(b)) /\ LastOf(w, 2, "") = ""
          \/ \E k : Latest(b, 2, Len(b), k) /\ LastOf(w, 2, "") = b[k][2]
      BY <2>4, <2>5, Zenon
    <3>2. QED BY <2>3, <3>1, Empty, Zenon DEF After
  <2>8. getContent(m) = LastOf(w, 3, EmptyText)
    <3>1. \/ Never(b, 3, Len(b)) /\ LastOf(w, 3, EmptyText) = EmptyText
          \/ \E k : Latest(b, 3, Len(b), k) /\ LastOf(w, 3, EmptyText) = b[k][2]
      BY <2>4, <2>5, Zenon
    <3>2. QED BY <2>3, <3>1, Empty, Zenon DEF After
  <2>9. /\ toObject(m).msgseq = getMsgseq(m) /\ toObject(m).msgid = getMsgid(m)
        /\ toObject(m).content[2] = getContent(m)[2]
    BY DEF toObject, getContent_asB64
  <2>10. QED BY <2>6, <2>7, <2>8, <2>9 DEF m, n, w
<1>2. QED BY <1>1, Exchanged, PTL

\* Reading into an object: what the message has at its default keeps the object's value,
\* and nothing else of the object is left.
THEOREM Overlays == ExchangeSpec => ReadIntoOverlays
<1>1. ExchangeInv /\ [ExchangeNext]_exchangeVars
        => (ReadInto /\ Head(written) # Null =>
              toObject(msg') = Overlay(toObject(msg), Head(written)))
  <2> SUFFICES ASSUME ExchangeInv, ReadInto, Head(written) # Null
               PROVE  toObject(msg') = Overlay(toObject(msg), Head(written))
    OBVIOUS
  <2>1. /\ msg \in Msg /\ wire # <<>> /\ 1 \in 1 .. Len(wire)
        /\ Head(wire) = wire[1] /\ Head(written) = written[1]
    BY DEF ExchangeInv, ExchangeTypes, ReadInto
  <2>2. PICK m \in Msg : Writable(m) /\ wire[1] = serializeBinary(m) /\ written[1] = toObject(m)
    BY <2>1 DEF ExchangeInv, Sources
  <2>3. msg' = deserializeBinaryFromReader(msg, serializeBinary(m))
    BY <2>1, <2>2 DEF ReadInto, Received
  <2> DEFINE n == msg'
             e == toObject(m)
             o == toObject(msg)
  <2>4. /\ getMsgseq(n) = IF getMsgseq(m) = 0 THEN getMsgseq(msg) ELSE getMsgseq(m)
        /\ getMsgid(n) = IF getMsgid(m) = "" THEN getMsgid(msg) ELSE getMsgid(m)
        /\ getContent(n)[2] = IF getContent(m)[2] = "" THEN getContent(msg)[2]
                                                       ELSE getContent(m)[2]
    BY <2>1, <2>2, <2>3, ReadBack
  <2>5. Default = [msgseq |-> 0, msgid |-> "", content |-> <<"b64", "">>]
    <3>1. EmptyText[2] = ""
      BY DEF EmptyText
    <3>2. QED BY <3>1, Empty DEF Default, toObject, getContent_asB64
  <2>6. /\ e.msgseq = getMsgseq(m) /\ e.msgid = getMsgid(m)
        /\ e.content = <<"b64", getContent(m)[2]>>
        /\ o.msgseq = getMsgseq(msg) /\ o.msgid = getMsgid(msg)
        /\ o.content = <<"b64", getContent(msg)[2]>>
        /\ DOMAIN o = {"msgseq", "msgid", "content"}
    BY DEF toObject, getContent_asB64
  <2>7. e.content = Default.content <=> getContent(m)[2] = ""
    <3>1. \A x : <<"b64", x>> = <<"b64", "">> <=> x = ""
      OBVIOUS
    <3>2. Default.content = <<"b64", "">>
      BY <2>5
    <3>3. QED BY <2>6, <3>1, <3>2, Zenon
  <2>8. toObject(n) = [msgseq  |-> IF e.msgseq = Default.msgseq THEN o.msgseq ELSE e.msgseq,
                       msgid   |-> IF e.msgid = Default.msgid THEN o.msgid ELSE e.msgid,
                       content |-> IF e.content = Default.content THEN o.content ELSE e.content]
    <3>1. Default.msgseq = 0 /\ Default.msgid = ""
      BY <2>5
    <3>2. toObject(n) = [msgseq |-> getMsgseq(n), msgid |-> getMsgid(n),
                         content |-> <<"b64", getContent(n)[2]>>]
      BY Zenon DEF toObject, getContent_asB64
    <3> HIDE DEF n, e, o
    <3>3. /\ getMsgseq(n) = IF e.msgseq = Default.msgseq THEN o.msgseq ELSE e.msgseq
          /\ getMsgid(n) = IF e.msgid = Default.msgid THEN o.msgid ELSE e.msgid
      BY <2>4, <2>6, <3>1, Zenon
    <3>4. <<"b64", getContent(n)[2]>>
            = IF e.content = Default.content THEN o.content ELSE e.content
      BY <2>4, <2>6, <2>7, Zenon
    <3>5. QED BY <3>2, <3>3, <3>4, Zenon
  <2>9. QED BY <2>1, <2>2, <2>6, <2>8 DEF Overlay
<1>2. QED BY <1>1, Exchanged, PTL DEF ReadIntoOverlays, ExchangeSpec
-------------------------------------------------------------------------------
(* WsPipeline: what becomes of a message on its way. *)

\* A frame that begins a message: the only ones that are passed on.
Starts(f) == f.type \in {"text", "binary"}

Begun == [type : {"text", "binary"}, obj : Objects, cut : Nat, at : Nat]
Frame == [type : {"text", "binary", "continuation", "ping"}, n : Nat, from : Nat, to : Nat]
Handled == [n : Nat, obj : Objs]
PipeTypes == sent \in Seq(Begun) /\ frames \in Seq(Frame) /\ delivered \in Seq(Handled)

\* It is the first one of its message.
Framed ==
  \A i \in 1 .. Len(frames) :
    Starts(frames[i]) =>
      /\ frames[i].n \in 1 .. Len(sent)
      /\ frames[i].type = sent[frames[i].n].type
      /\ frames[i].from = 0 /\ frames[i].to = sent[frames[i].n].cut

Cuts == \A n \in 1 .. Len(sent) : sent[n].cut <= SizeOf(n)

\* Messages are on their way and handled in the order of sending.
InOrder ==
  /\ \A i, j \in 1 .. Len(frames) :
       i < j /\ Starts(frames[i]) /\ Starts(frames[j]) => frames[i].n < frames[j].n
  /\ \A d \in 1 .. Len(delivered), i \in 1 .. Len(frames) :
       Starts(frames[i]) => delivered[d].n < frames[i].n
  /\ \A d, e \in 1 .. Len(delivered) : d < e => delivered[d].n < delivered[e].n
  /\ \A d \in 1 .. Len(delivered) : delivered[d].n \in 1 .. Len(sent)

\* What was handled is all of what was sent, or some fields of it.
Partial(obj, o) == \A f \in {"msgseq", "msgid", "content"} : obj[f] \in {o[f], Default[f]}
OwnOnly ==
  \A d \in 1 .. Len(delivered) :
    LET n == delivered[d].n
    IN  IF Fragmented(n) THEN Partial(delivered[d].obj, Meant(n))
                         ELSE delivered[d].obj = Meant(n)

\* A whole message is handled or on its way.
Underway ==
  open => \A n \in 1 .. Len(sent) :
            \/ Fragmented(n) \/ sent[n].obj = Null
            \/ \E d \in 1 .. Len(delivered) : delivered[d].n = n
            \/ \E i \in 1 .. Len(frames) : Starts(frames[i]) /\ frames[i].n = n

PipeInv == PipeTypes /\ Framed /\ Cuts /\ InOrder /\ OwnOnly /\ Underway

LEMMA Tags ==
  ASSUME NEW f
  PROVE  /\ Starts(f) <=> Tag(f) # 0
         /\ f.type = "text" <=> Tag(f) = 1
         /\ f.type = "binary" <=> Tag(f) = 2
         /\ Tag(f) \in {0, 1, 2}
BY DEF Starts, Tag

LEMMA Sized ==
  ASSUME NEW type, NEW obj \in Objects
  PROVE  /\ Size(type, obj) \in Nat
         /\ obj # Null => obj \in Msg /\ Writable(obj) /\ serializeBinary(obj) \in Seq(Field)
         /\ Fields[obj] = IF obj = Null THEN <<>> ELSE serializeBinary(obj)
<1>1. ASSUME obj # Null
      PROVE  obj \in Msg /\ Writable(obj) /\ serializeBinary(obj) \in Seq(Field)
  <2>1. obj \in Msg /\ Writable(obj)
    BY <1>1, PipelineAssumption
  <2>2. QED BY <2>1, Written
<1>2. Size(type, obj) \in Nat
  <2>1. obj # Null => Len(serializeBinary(obj)) \in Nat
    BY <1>1
  <2>2. QED BY <2>1 DEF Size, Fields
<1>3. Fields[obj] = IF obj = Null THEN <<>> ELSE serializeBinary(obj)
  BY Zenon DEF Fields
<1>4. QED BY <1>1, <1>2, <1>3

\* The fields of a message say what it holds, and those left out are at their defaults.
LEMMA Says ==
  ASSUME NEW m \in Msg
  PROVE  LET w == serializeBinary(m)
             b == getContent(m)[2]
         IN  /\ AllSay(w, getMsgseq(m), getMsgid(m), <<"u8", b>>)
             /\ Has(w, 1) \/ getMsgseq(m) = 0
             /\ Has(w, 2) \/ getMsgid(m) = ""
             /\ Has(w, 3) \/ b = ""
<1> DEFINE w == serializeBinary(m)
           i == getMsgseq(m)
           t == getMsgid(m)
           b == getContent(m)[2]
           c == <<"u8", b>>
<1>1. Elements(w) = Entry(1, i, 0) \cup Entry(2, t, "") \cup Entry(3, c, <<"u8", "">>)
  BY Written
<1>2. c = <<"u8", "">> <=> b = ""
  OBVIOUS
<1> HIDE DEF w, i, t, b, c
<1> DEFINE f1 == <<1, i>>
           f2 == <<2, t>>
           f3 == <<3, c>>
           none == t = ""
           void == b = ""
<1>3. /\ f1[1] = 1 /\ f1[2] = i
      /\ f2[1] = 2 /\ f2[2] = t
      /\ f3[1] = 3 /\ f3[2] = c
  OBVIOUS
<1>4. \A f : f \in Elements(w) <=> \/ f = f1 /\ i # 0
                                   \/ f = f2 /\ ~none
                                   \/ f = f3 /\ ~void
  <2> DEFINE E1 == Entry(1, i, 0)
             E2 == Entry(2, t, "")
             E3 == Entry(3, c, <<"u8", "">>)
  <2>1. \A f : f \in E1 <=> f = f1 /\ i # 0
    BY Zenon DEF Entry
  <2>2. \A f : f \in E2 <=> f = f2 /\ ~none
    BY Zenon DEF Entry
  <2>3. \A f : f \in E3 <=> f = f3 /\ ~void
    BY <1>2, Zenon DEF Entry
  <2>4. \A f : f \in Elements(w) <=> f \in E1 \/ f \in E2 \/ f \in E3
    BY <1>1, Zenon
  <2> HIDE DEF f1, f2, f3, E1, E2, E3, none, void
  <2>5. QED BY <2>1, <2>2, <2>3, <2>4, Zenon
<1> HIDE DEF f1, f2, f3, none, void
<1>5. AllSay(w, i, t, c)
  BY <1>3, <1>4, Zenon DEF AllSay
<1>6. /\ Has(w, 1) \/ i = 0
      /\ Has(w, 2) \/ none
      /\ Has(w, 3) \/ void
  BY <1>3, <1>4, Zenon DEF Has
<1>7. QED BY <1>5, <1>6, Zenon DEF w, i, t, b, c, none, void

\* No fields make an object that is all defaults.
LEMMA Nothing ==
  LET o == toObject(deserializeBinary(<<>>)) IN o \in Objs /\ o = Default
<1> DEFINE n == deserializeBinaryFromReader(EmptyMsg, <<>>)
           none == <<>>
<1>1. /\ none \in Seq(Field) /\ Elements(none) = {}
  BY DEF Elements
<1> HIDE DEF none
<1>2. Overlaid(EmptyMsg, none, 0, 0, 0, deserializeBinaryFromReader(EmptyMsg, none))
  <2>1. AllSay(none, 0, 0, 0)
    BY <1>1 DEF AllSay
  <2>2. QED BY <1>1, <2>1, Empty, Reads
<1>3. /\ n \in Msg /\ getMsgseq(n) = getMsgseq(EmptyMsg) /\ getMsgid(n) = getMsgid(EmptyMsg)
      /\ getContent(n) = getContent(EmptyMsg)
  BY <1>1, <1>2, Zenon DEF Overlaid, Has, none
<1>4. toObject(n) = toObject(EmptyMsg)
  BY <1>3, Zenon DEF toObject, getContent_asB64
<1>5. QED BY <1>3, <1>4 DEF Default, Objs, deserializeBinary

\* What the server makes of a JSON message: the fields of a message, its texts recoded.
Heard(o) == [msgseq  |-> o.msgseq, msgid |-> Charset[o.msgid],
             content |-> <<"b64", Charset[o.content[2]]>>]

LEMMA Parsed ==
  ASSUME NEW m \in Objects, m # Null
  PROVE  LET o == toObject(deserializeBinary(FieldsOfJson[m]))
         IN  /\ deserializeBinary(FieldsOfJson[m]) \in Msg
             /\ o \in Objs /\ o = Heard(toObject(m))
<1> DEFINE w == serializeBinary(m)
           r == FieldsOfJson[m]
           i == getMsgseq(m)
           t == getMsgid(m)
           b == getContent(m)[2]
           c == <<"u8", b>>
           s == Charset[t]
           d == Charset[b]
           e == <<"u8", d>>
           n == deserializeBinaryFromReader(EmptyMsg, r)
<1>1. /\ m \in Msg /\ Writable(m) /\ w \in Seq(Field) /\ Fields[m] = w
  BY Sized
<1>2. i \in Int /\ t \in Texts /\ b \in Texts /\ c \in Content
  <2>1. i \in Int /\ t \in Texts /\ getContent(m) \in Content
    BY <1>1, Written
  <2>2. QED BY <2>1 DEF Content
<1>3. /\ AllSay(w, i, t, c)
      /\ Has(w, 1) \/ i = 0
      /\ Has(w, 2) \/ t = ""
      /\ Has(w, 3) \/ b = ""
  BY <1>1, Says, Zenon
<1>4. readInt32(i) = i
  BY <1>1, <1>2, Int32 DEF Writable
<1>5. s \in Texts /\ d \in Texts /\ e \in Content /\ Charset[""] = ""
  <2>1. s \in Texts /\ d \in Texts /\ Charset[""] = ""
    BY <1>2, CharsetAssumption, Zenon
  <2> HIDE DEF s, d
  <2>2. e \in Content
    BY <2>1 DEF Content
  <2>3. QED BY <2>1, <2>2
<1>6. c[2] = b /\ e[2] = d
  OBVIOUS
<1>7. r = [k \in 1 .. Len(w) |-> Recoded(w[k])]
  <2>1. DOMAIN w = 1 .. Len(w)
    BY <1>1
  <2>2. r = [k \in DOMAIN w |-> Recoded(w[k])]
    BY <1>1, Zenon DEF FieldsOfJson
  <2>3. QED BY <2>1, <2>2
<1> HIDE DEF w, r, i, t, b, c, s, d, e
<1>8. ASSUME NEW k \in 1 .. Len(w)
      PROVE  /\ Recoded(w[k]) \in Field /\ Recoded(w[k])[1] = w[k][1]
             /\ \/ Recoded(w[k])[1] = 1 /\ Recoded(w[k])[2] = i
                \/ Recoded(w[k])[1] = 2 /\ Recoded(w[k])[2] = s
                \/ Recoded(w[k])[1] = 3 /\ Recoded(w[k])[2] = e
  <2> DEFINE f == w[k]
  <2>1. f \in Field /\ f \in Elements(w)
    BY <1>1 DEF Elements
  <2>2. \/ f[1] = 1 /\ f[2] = i
        \/ f[1] = 2 /\ f[2] = t
        \/ f[1] = 3 /\ f[2] = c
    BY <1>3, <2>1 DEF AllSay
  <2> HIDE DEF f
  <2>3. CASE f[1] = 1 /\ f[2] = i
    <3>1. Recoded(f) = f
      BY <2>3 DEF Recoded
    <3>2. QED BY <2>1, <2>3, <3>1 DEF f
  <2>4. CASE f[1] = 2 /\ f[2] = t
    <3>1. Recoded(f) = <<2, s>>
      BY <2>4 DEF Recoded, s
    <3>2. <<2, s>> \in Field
      BY <1>5 DEF Field
    <3>3. QED BY <2>4, <3>1, <3>2 DEF f
  <2>5. CASE f[1] = 3 /\ f[2] = c
    <3>1. c[1] = "u8"
      BY DEF c
    <3>2. Recoded(f) = <<3, <<f[2][1], Charset[f[2][2]]>> >>
      BY <2>5 DEF Recoded
    <3>3. <<f[2][1], Charset[f[2][2]]>> = e
      BY <1>6, <2>5, <3>1 DEF e, d
    <3>4. <<3, e>> \in Field
      BY <1>5 DEF Field
    <3>5. QED BY <2>5, <3>2, <3>3, <3>4 DEF f
  <2>6. QED BY <2>2, <2>3, <2>4, <2>5
<1>9. r \in Seq(Field) /\ Len(r) = Len(w) /\ \A k \in 1 .. Len(w) : r[k] = Recoded(w[k])
  <2>1. Len(w) \in Nat
    BY <1>1
  <2>2. \A k \in 1 .. Len(w) : Recoded(w[k]) \in Field
    BY <1>8
  <2>3. \A l \in Nat : \A g \in [1 .. l -> Field] : g \in Seq(Field) /\ Len(g) = l
    OBVIOUS
  <2>4. r \in [1 .. Len(w) -> Field] /\ \A k \in 1 .. Len(w) : r[k] = Recoded(w[k])
    BY <1>7, <2>2
  <2>5. QED BY <2>1, <2>3, <2>4
<1>10. AllSay(r, i, s, e)
  BY <1>8, <1>9 DEF AllSay, Elements
<1>11. \A l : Has(w, l) => Has(r, l)
  BY <1>8, <1>9 DEF Has, Elements
<1>12. Overlaid(EmptyMsg, r, i, s, e, n)
  BY <1>9, <1>10, Empty, Reads
<1> HIDE DEF n
<1>13. n \in Msg /\ getMsgseq(n) = i /\ getMsgid(n) = s /\ getContent(n)[2] = d
  <2>1. EmptyText[2] = ""
    BY DEF EmptyText
  <2> DEFINE none == t = ""
             void == b = ""
             p == ""
  <2>2. /\ none => s = p
        /\ void => d = p
        /\ getMsgid(EmptyMsg) = p /\ getContent(EmptyMsg)[2] = p
    BY <1>5, <2>1, Empty, Zenon DEF s, d
  <2>3. /\ Has(r, 1) \/ i = 0
        /\ Has(r, 2) \/ none
        /\ Has(r, 3) \/ void
    BY <1>3, <1>11, Zenon
  <2> HIDE DEF none, void, p
  <2>4. QED BY <1>4, <1>6, <1>12, <2>2, <2>3, Empty, Zenon DEF Overlaid
<1>14. toObject(n) = Heard(toObject(m))
  <2>1. toObject(n) = [msgseq |-> i, msgid |-> s, content |-> <<"b64", d>>]
    BY <1>13, Zenon DEF toObject, getContent_asB64
  <2>2. toObject(m) = [msgseq |-> i, msgid |-> t, content |-> <<"b64", b>>]
    BY Zenon DEF toObject, getContent_asB64, i, t, b
  <2> DEFINE o == [msgseq |-> i, msgid |-> t, content |-> <<"b64", b>>]
  <2>3. Heard(o) = [msgseq |-> i, msgid |-> s, content |-> <<"b64", d>>]
    <3>1. o.msgseq = i /\ o.msgid = t /\ o.content[2] = b
      OBVIOUS
    <3> HIDE DEF o
    <3>2. QED BY <3>1, Zenon DEF Heard, s, d
  <2>4. QED BY <2>1, <2>2, <2>3
<1>15. QED BY <1>13, <1>14 DEF Objs, n, r, deserializeBinary

\* What the server makes of the first frame of a binary message.
LEMMA Decoded ==
  ASSUME NEW m \in Msg, Writable(m), NEW k \in Nat
  PROVE  LET w == serializeBinary(m)
             o == toObject(deserializeBinary(SubSeq(w, 1, k)))
         IN  k <= Len(w) => /\ o \in Objs
                            /\ Partial(o, toObject(m))
                            /\ k = Len(w) => o = toObject(m)
<1> DEFINE w == serializeBinary(m)
           v == SubSeq(w, 1, k)
           i == getMsgseq(m)
           t == getMsgid(m)
           c == <<"u8", getContent(m)[2]>>
           n == deserializeBinaryFromReader(EmptyMsg, v)
<1>1. /\ w \in Seq(Field) /\ i \in Int
      /\ Elements(w) = Entry(1, i, 0) \cup Entry(2, t, "") \cup Entry(3, c, <<"u8", "">>)
  BY Written
<1>2. readInt32(i) = i
  BY <1>1, Int32 DEF Writable
<1> HIDE DEF w, i, t, c
<1>3. AllSay(w, i, t, c)
  BY Says, Zenon DEF w, i, t, c
<1> SUFFICES ASSUME k <= Len(w)
             PROVE  LET o == toObject(deserializeBinary(v))
                    IN  o \in Objs /\ Partial(o, toObject(m)) /\ (k = Len(w) => o = toObject(m))
  BY DEF w
<1>4. /\ v \in Seq(Field) /\ Len(v) = k
      /\ \A j \in 1 .. k : v[j] = w[j]
  <2>1. w \in Seq(Field)
    BY <1>1, Zenon
  <2>2. QED BY <2>1
<1>5. AllSay(v, i, t, c)
  <2>1. Elements(v) \subseteq Elements(w)
    <3>1. 1 .. k \subseteq 1 .. Len(w)
      <4>1. w \in Seq(Field)
        BY <1>1, Zenon
      <4>2. QED BY <4>1
    <3> HIDE DEF v
    <3>2. QED BY <1>4, <3>1 DEF Elements
  <2>2. QED BY <1>3, <2>1 DEF AllSay
<1> HIDE DEF v
<1>6. Overlaid(EmptyMsg, v, i, t, c, n)
  BY <1>4, <1>5, Empty, Reads
<1>7. n \in Msg
  BY <1>6 DEF Overlaid
<1> HIDE DEF n
<1>8. getMsgseq(n) \in {i, 0} /\ getMsgid(n) \in {t, ""} /\ getContent(n)[2] \in {c[2], ""}
  <2>1. EmptyText[2] = ""
    BY DEF EmptyText
  <2>2. QED BY <1>2, <1>6, <2>1, Empty, Zenon DEF Overlaid
<1>9. Partial(toObject(n), toObject(m))
  <2>1. /\ toObject(n).msgseq \in {toObject(m).msgseq, Default.msgseq}
        /\ toObject(n).msgid \in {toObject(m).msgid, Default.msgid}
    BY <1>8, Empty DEF toObject, Default, i, t
  <2>2. toObject(n).content \in {toObject(m).content, Default.content}
    <3>1. /\ toObject(n).content = <<"b64", getContent(n)[2]>>
          /\ toObject(m).content = <<"b64", getContent(m)[2]>>
          /\ Default.content = <<"b64", "">>
      <4>1. EmptyText[2] = ""
        BY DEF EmptyText
      <4>2. QED BY <4>1, Empty DEF toObject, Default, getContent_asB64
    <3>2. c[2] = getContent(m)[2]
      BY DEF c
    <3>3. QED BY <1>8, <3>1, <3>2, Zenon
  <2>3. QED BY <2>1, <2>2 DEF Partial
<1>10. k = Len(w) => toObject(n) = toObject(m)
  <2>1. ASSUME k = Len(w) PROVE v = w
    <3>1. /\ v \in Seq(Field) /\ w \in Seq(Field) /\ Len(v) = Len(w)
          /\ \A j \in 1 .. Len(w) : v[j] = w[j]
      BY <1>1, <1>4, <2>1
    <3>2. QED BY <3>1
  <2>2. QED BY <2>1, Same DEF n, w, deserializeBinary
<1>11. toObject(n) \in Objs
  BY <1>7 DEF Objs
<1>12. QED BY <1>9, <1>10, <1>11 DEF n, deserializeBinary

\* The size of a message, whether it was cut and what it says are settled when it is begun.
LEMMA Settled ==
  ASSUME NEW n, sent'[n].type = sent[n].type, sent'[n].obj = sent[n].obj,
         sent'[n].cut = sent[n].cut
  PROVE  /\ SizeOf(n)' = SizeOf(n) /\ (Fragmented(n)' <=> Fragmented(n))
         /\ Meant(n)' = Meant(n)
BY DEF SizeOf, Fragmented, Size, Meant

\* Sending a frame: another one of a message, or the first one of the next message.
LEMMA Sending ==
  ASSUME PipeInv, PipeTypes', NEW f, frames' = Append(frames, f), delivered' = delivered,
         open' = open,
         \A n \in 1 .. Len(sent) : /\ sent'[n].type = sent[n].type
                                   /\ sent'[n].obj = sent[n].obj
                                   /\ sent'[n].cut = sent[n].cut,
         \/ ~Starts(f) /\ Len(sent') = Len(sent)
         \/ /\ Starts(f) /\ Len(sent') = Len(sent) + 1 /\ f.n = Len(sent) + 1 /\ f.from = 0
            /\ f.type = sent'[f.n].type /\ f.to = sent'[f.n].cut
            /\ sent'[f.n].cut <= SizeOf(f.n)'
  PROVE  PipeInv'
<1> USE DEF PipeInv
<1> DEFINE k == Len(frames) + 1
<1>1. /\ Len(sent) \in Nat /\ Len(frames) \in Nat /\ Len(delivered) \in Nat
      /\ Len(frames') = k
      /\ frames'[k] = f
      /\ \A i \in 1 .. Len(frames) : frames'[i] = frames[i]
  BY DEF PipeTypes
<1>2. \A i \in 1 .. Len(frames') : i \in 1 .. Len(frames) \/ (i = k /\ frames'[i] = f)
  <2> SUFFICES ASSUME NEW i \in 1 .. Len(frames')
               PROVE  i \in 1 .. Len(frames) \/ (i = k /\ frames'[i] = f)
    OBVIOUS
  <2>1. \A m \in Nat : \A j \in 1 .. m + 1 : j \in 1 .. m \/ j = m + 1
    OBVIOUS
  <2>2. i \in 1 .. Len(frames) + 1
    BY <1>1
  <2>3. i \in 1 .. Len(frames) \/ i = k
    BY <1>1, <2>1, <2>2
  <2>4. QED BY <1>1, <2>3
<1>3. /\ 1 .. Len(sent) \subseteq 1 .. Len(sent')
      /\ \A n \in 1 .. Len(sent') : n \in 1 .. Len(sent) \/ (Starts(f) /\ n = f.n)
      /\ Starts(f) => f.n \in 1 .. Len(sent') /\ f.n = Len(sent) + 1
  <2>1. \A m \in Nat : /\ \A i \in 1 .. m + 1 : i \in 1 .. m \/ i = m + 1
                       /\ 1 .. m \subseteq 1 .. m + 1 /\ m + 1 \in 1 .. m + 1
    OBVIOUS
  <2>2. CASE ~Starts(f)
    <3>1. Len(sent') = Len(sent)
      BY <2>2
    <3>2. QED BY <2>2, <3>1
  <2>3. CASE Starts(f)
    <3>1. Len(sent') = Len(sent) + 1 /\ f.n = Len(sent) + 1
      BY <2>3
    <3>2. QED BY <1>1, <2>1, <2>3, <3>1
  <2>4. QED BY <2>2, <2>3
<1>4. \A n \in 1 .. Len(sent) : /\ SizeOf(n)' = SizeOf(n) /\ (Fragmented(n)' <=> Fragmented(n))
                                /\ Meant(n)' = Meant(n)
  BY Settled
<1>5. Framed'
  <2> SUFFICES ASSUME NEW i \in 1 .. Len(frames'), Starts(frames'[i])
               PROVE  /\ frames'[i].n \in 1 .. Len(sent')
                      /\ frames'[i].type = sent'[frames'[i].n].type
                      /\ frames'[i].from = 0 /\ frames'[i].to = sent'[frames'[i].n].cut
    BY DEF Framed, Starts
  <2>1. CASE i \in 1 .. Len(frames)
    BY <1>1, <1>3, <2>1 DEF Framed
  <2>2. CASE i = k /\ frames'[i] = f
    BY <1>3, <2>2
  <2>3. QED BY <1>2, <2>1, <2>2
<1>6. Cuts'
  BY <1>3, <1>4 DEF Cuts
<1>7. InOrder'
  <2>1. ASSUME NEW i \in 1 .. Len(frames'), NEW j \in 1 .. Len(frames'), i < j,
               Starts(frames'[i]), Starts(frames'[j])
        PROVE  frames'[i].n < frames'[j].n
    <3>1. i \in 1 .. Len(frames) /\ frames'[i] = frames[i]
      BY <1>1, <2>1
    <3>2. CASE j \in 1 .. Len(frames)
      BY <1>1, <2>1, <3>1, <3>2 DEF InOrder
    <3>3. CASE j = k /\ frames'[j] = f
      <4>1. frames[i].n \in 1 .. Len(sent)
        BY <2>1, <3>1 DEF Framed
      <4>2. QED BY <1>1, <1>3, <2>1, <3>1, <3>3, <4>1
    <3>4. QED BY <1>2, <3>2, <3>3
  <2>2. ASSUME NEW d \in 1 .. Len(delivered), NEW i \in 1 .. Len(frames'), Starts(frames'[i])
        PROVE  delivered[d].n < frames'[i].n
    <3>1. CASE i \in 1 .. Len(frames)
      BY <1>1, <2>2, <3>1 DEF InOrder
    <3>2. CASE i = k /\ frames'[i] = f
      <4>1. delivered[d].n \in 1 .. Len(sent)
        BY DEF InOrder
      <4>2. QED BY <1>1, <1>3, <2>2, <3>2, <4>1
    <3>3. QED BY <1>2, <3>1, <3>2
  <2>3. \A d \in 1 .. Len(delivered) : delivered[d].n \in 1 .. Len(sent')
    BY <1>3 DEF InOrder
  <2>4. \A d, e \in 1 .. Len(delivered) : d < e => delivered[d].n < delivered[e].n
    BY DEF InOrder
  <2>5. QED BY <2>1, <2>2, <2>3, <2>4 DEF InOrder, Starts
<1>8. OwnOnly'
  <2> SUFFICES ASSUME NEW d \in 1 .. Len(delivered)
               PROVE  IF Fragmented(delivered[d].n)'
                      THEN Partial(delivered[d].obj, Meant(delivered[d].n)')
                      ELSE delivered[d].obj = Meant(delivered[d].n)'
    BY DEF OwnOnly, Partial, Meant
  <2>1. delivered[d].n \in 1 .. Len(sent)
    BY DEF InOrder
  <2>2. QED BY <1>4, <2>1 DEF OwnOnly
<1>9. Underway'
  <2> SUFFICES ASSUME open, NEW n \in 1 .. Len(sent')
               PROVE  \/ Fragmented(n)' \/ sent'[n].obj = Null
                      \/ \E d \in 1 .. Len(delivered) : delivered[d].n = n
                      \/ \E i \in 1 .. Len(frames') : Starts(frames'[i]) /\ frames'[i].n = n
    BY DEF Underway, Starts
  <2>1. CASE n \in 1 .. Len(sent)
    <3>1. \/ Fragmented(n) \/ sent[n].obj = Null
          \/ \E d \in 1 .. Len(delivered) : delivered[d].n = n
          \/ \E i \in 1 .. Len(frames) : Starts(frames[i]) /\ frames[i].n = n
      BY <2>1 DEF Underway
    <3>2. ASSUME NEW i \in 1 .. Len(frames), Starts(frames[i]), frames[i].n = n
          PROVE  i \in 1 .. Len(frames') /\ Starts(frames'[i]) /\ frames'[i].n = n
      BY <1>1, <3>2
    <3>3. QED BY <1>4, <2>1, <3>1, <3>2
  <2>2. CASE Starts(f) /\ n = f.n
    BY <1>1, <2>2
  <2>3. QED BY <1>3, <2>1, <2>2
<1>10. QED BY <1>5, <1>6, <1>7, <1>8, <1>9

LEMMA Taken ==
  ASSUME NEW S, NEW w \in Seq(S), w # <<>>
  PROVE  /\ Tail(w) \in Seq(S) /\ Head(w) = w[1] /\ 1 \in 1 .. Len(w)
         /\ \A i \in 1 .. Len(Tail(w)) : i + 1 \in 1 .. Len(w) /\ Tail(w)[i] = w[i + 1]
         /\ \A i \in 1 .. Len(w) :
              i = 1 \/ (i - 1 \in 1 .. Len(Tail(w)) /\ Tail(w)[i - 1] = w[i])
<1>1. Tail(w) \in Seq(S) /\ Head(w) = w[1] /\ 1 \in 1 .. Len(w)
  OBVIOUS
<1>2. Len(Tail(w)) = Len(w) - 1 /\ Len(w) \in Nat
  OBVIOUS
<1>3. ASSUME NEW i \in 1 .. Len(Tail(w)) PROVE i + 1 \in 1 .. Len(w) /\ Tail(w)[i] = w[i + 1]
  BY <1>2
<1>4. ASSUME NEW i \in 1 .. Len(w), i # 1
      PROVE  i - 1 \in 1 .. Len(Tail(w)) /\ Tail(w)[i - 1] = w[i]
  <2>1. i - 1 \in 1 .. Len(Tail(w)) /\ (i - 1) + 1 = i
    BY <1>2, <1>4
  <2>2. QED BY <1>3, <2>1
<1>5. QED BY <1>1, <1>3, <1>4

\* The connection is closed: frames in a row are still there, or none.
LEMMA Closing ==
  ASSUME PipeInv, PipeTypes', open' = FALSE, sent' = sent, delivered' = delivered,
         NEW s \in Nat,
         \A i \in 1 .. Len(frames') : i + s \in 1 .. Len(frames) /\ frames'[i] = frames[i + s]
  PROVE  PipeInv'
<1>1. Framed'
  BY DEF PipeInv, Framed, Starts
<1>2. InOrder'
  <2>1. ASSUME NEW i \in 1 .. Len(frames'), NEW j \in 1 .. Len(frames'), i < j,
               Starts(frames'[i]), Starts(frames'[j])
        PROVE  frames'[i].n < frames'[j].n
    <3>1. i + s < j + s
      BY <2>1
    <3>2. QED BY <2>1, <3>1 DEF PipeInv, InOrder
  <2>2. ASSUME NEW d \in 1 .. Len(delivered), NEW i \in 1 .. Len(frames'), Starts(frames'[i])
        PROVE  delivered[d].n < frames'[i].n
    BY <2>2 DEF PipeInv, InOrder
  <2>3. QED BY <2>1, <2>2 DEF PipeInv, InOrder, Starts
<1>3. Cuts' /\ OwnOnly'
  BY DEF PipeInv, Cuts, OwnOnly, SizeOf, Fragmented, Meant, Partial
<1>4. Underway'
  BY DEF Underway
<1>5. QED BY <1>1, <1>2, <1>3, <1>4 DEF PipeInv

LEMMA CloseStep ==
  ASSUME PipeInv, Close
  PROVE  PipeInv'
<1>1. /\ frames' = <<>> /\ open' = FALSE /\ sent' = sent /\ delivered' = delivered
      /\ 1 .. Len(frames') = {}
  BY DEF Close
<1>2. PipeTypes'
  BY <1>1 DEF PipeInv, PipeTypes
<1>3. \A i \in 1 .. Len(frames') : i + 0 \in 1 .. Len(frames) /\ frames'[i] = frames[i + 0]
  BY <1>1
<1>4. QED BY <1>1, <1>2, <1>3, Closing

LEMMA RejectStep ==
  ASSUME PipeInv, frames # <<>>, Reject
  PROVE  PipeInv'
<1>1. PICK k \in 0 .. Len(frames) - 1 : frames' = SubSeq(Tail(frames), 1, k)
  BY DEF Reject
<1>2. frames \in Seq(Frame) /\ Len(frames) \in Nat
  BY DEF PipeInv, PipeTypes
<1> DEFINE t == Tail(frames)
<1>3. /\ t \in Seq(Frame) /\ Len(t) = Len(frames) - 1
      /\ \A i \in 1 .. Len(t) : i + 1 \in 1 .. Len(frames) /\ t[i] = frames[i + 1]
  <2>1. Len(t) = Len(frames) - 1
    BY <1>2
  <2>2. QED BY <1>2, <2>1, Taken
<1> HIDE DEF t
<1>4. /\ frames' \in Seq(Frame) /\ Len(frames') = k
      /\ \A i \in 1 .. k : frames'[i] = t[i]
  BY <1>1, <1>2, <1>3 DEF t
<1>5. \A i \in 1 .. Len(frames') : i + 1 \in 1 .. Len(frames) /\ frames'[i] = frames[i + 1]
  <2>1. 1 .. k \subseteq 1 .. Len(t)
    BY <1>2, <1>3
  <2>2. QED BY <1>3, <1>4, <2>1
<1>6. open' = FALSE /\ sent' = sent /\ delivered' = delivered
  BY DEF Reject
<1>7. PipeTypes'
  BY <1>4, <1>6 DEF PipeInv, PipeTypes
<1>8. QED BY <1>5, <1>6, <1>7, Closing

\* Reading a frame: what is left of the frames, whatever is handled.
LEMMA LeftToRead ==
  ASSUME PipeInv, frames # <<>>, frames' = Tail(frames), sent' = sent
  PROVE  /\ Framed' /\ Cuts'
         /\ \A i, j \in 1 .. Len(frames') :
              i < j /\ Starts(frames'[i]) /\ Starts(frames'[j]) => frames'[i].n < frames'[j].n
         /\ \A i \in 1 .. Len(frames') :
              Starts(frames'[i]) => /\ Starts(frames[1]) => frames[1].n < frames'[i].n
                                    /\ \A d \in 1 .. Len(delivered) :
                                         delivered[d].n < frames'[i].n
<1>1. /\ 1 \in 1 .. Len(frames)
      /\ \A i \in 1 .. Len(frames') : i + 1 \in 1 .. Len(frames) /\ frames'[i] = frames[i + 1]
  BY Taken DEF PipeInv, PipeTypes
<1>2. Framed'
  BY <1>1 DEF PipeInv, Framed, Starts
<1>3. Cuts'
  BY DEF PipeInv, Cuts, SizeOf
<1>4. ASSUME NEW i \in 1 .. Len(frames'), NEW j \in 1 .. Len(frames'), i < j,
             Starts(frames'[i]), Starts(frames'[j])
      PROVE  frames'[i].n < frames'[j].n
  <2>1. i + 1 < j + 1
    BY <1>4
  <2>2. QED BY <1>1, <1>4, <2>1 DEF PipeInv, InOrder
<1>5. ASSUME NEW i \in 1 .. Len(frames'), Starts(frames'[i]), Starts(frames[1])
      PROVE  frames[1].n < frames'[i].n
  <2>1. 1 < i + 1
    OBVIOUS
  <2>2. QED BY <1>1, <1>5, <2>1 DEF PipeInv, InOrder
<1>6. ASSUME NEW i \in 1 .. Len(frames'), Starts(frames'[i]), NEW d \in 1 .. Len(delivered)
      PROVE  delivered[d].n < frames'[i].n
  BY <1>1, <1>6 DEF PipeInv, InOrder
<1>7. QED BY <1>2, <1>3, <1>4, <1>5, <1>6

\* A frame that is not handled is none that begins a whole message.
LEMMA Ignoring ==
  ASSUME PipeInv, PipeTypes', frames # <<>>, frames' = Tail(frames), sent' = sent, open' = open,
         delivered' = delivered,
         ~Starts(frames[1]) \/ Fragmented(frames[1].n) \/ sent[frames[1].n].obj = Null
  PROVE  PipeInv'
<1>1. Framed' /\ Cuts'
  BY LeftToRead
<1>2. InOrder'
  BY LeftToRead DEF PipeInv, InOrder, Starts
<1>3. OwnOnly'
  BY DEF PipeInv, OwnOnly, Fragmented, SizeOf, Meant, Partial
<1>4. Underway'
  <2> SUFFICES ASSUME open, NEW n \in 1 .. Len(sent), ~Fragmented(n), sent[n].obj # Null,
                      \A d \in 1 .. Len(delivered) : delivered[d].n # n
               PROVE  \E i \in 1 .. Len(frames') : Starts(frames'[i]) /\ frames'[i].n = n
    BY DEF Underway, Starts, Fragmented, SizeOf
  <2>1. PICK i \in 1 .. Len(frames) : Starts(frames[i]) /\ frames[i].n = n
    BY DEF PipeInv, Underway
  <2>2. i # 1
    BY <2>1
  <2>3. i - 1 \in 1 .. Len(frames') /\ frames'[i - 1] = frames[i]
    BY <2>2, Taken DEF PipeInv, PipeTypes
  <2>4. QED BY <2>1, <2>3
<1>5. QED BY <1>1, <1>2, <1>3, <1>4 DEF PipeInv

\* What is handled of the message that a frame begins.
LEMMA Handling ==
  ASSUME PipeInv, PipeTypes', frames # <<>>, frames' = Tail(frames), sent' = sent, open' = open,
         NEW o, delivered' = Append(delivered, [n |-> frames[1].n, obj |-> o]),
         Starts(frames[1]),
         IF Fragmented(frames[1].n) THEN Partial(o, Meant(frames[1].n))
                                    ELSE o = Meant(frames[1].n)
  PROVE  PipeInv'
<1> DEFINE f == frames[1]
           k == Len(delivered) + 1
           h == [n |-> f.n, obj |-> o]
<1>1. Framed' /\ Cuts'
  BY LeftToRead
<1>2. /\ Len(delivered) \in Nat /\ Len(delivered') = k /\ k \in 1 .. Len(delivered')
      /\ delivered'[k] = h
      /\ \A d \in 1 .. Len(delivered) : d \in 1 .. Len(delivered') /\ delivered'[d] = delivered[d]
      /\ \A d \in 1 .. Len(delivered') : d \in 1 .. Len(delivered) \/ d = k
  <2>1. delivered \in Seq(Handled) /\ Len(delivered) \in Nat
    BY DEF PipeInv, PipeTypes
  <2> HIDE DEF h
  <2>2. /\ Len(delivered') = Len(delivered) + 1 /\ delivered'[Len(delivered) + 1] = h
        /\ \A d \in 1 .. Len(delivered) : delivered'[d] = delivered[d]
    BY <2>1 DEF h
  <2>3. \A m \in Nat : /\ \A i \in 1 .. m + 1 : i \in 1 .. m \/ i = m + 1
                       /\ 1 .. m \subseteq 1 .. m + 1 /\ m + 1 \in 1 .. m + 1
    OBVIOUS
  <2>4. QED BY <2>1, <2>2, <2>3
<1>3. h.n = f.n /\ h.obj = o /\ 1 \in 1 .. Len(frames) /\ f.n \in 1 .. Len(sent)
  BY Taken DEF PipeInv, PipeTypes, Framed
<1> HIDE DEF k, h
<1>4. InOrder'
  <2>1. ASSUME NEW d \in 1 .. Len(delivered'), NEW i \in 1 .. Len(frames'), Starts(frames'[i])
        PROVE  delivered'[d].n < frames'[i].n
    BY <1>2, <1>3, <2>1, LeftToRead
  <2>2. ASSUME NEW d \in 1 .. Len(delivered'), NEW e \in 1 .. Len(delivered'), d < e
        PROVE  delivered'[d].n < delivered'[e].n
    <3>1. d \in 1 .. Len(delivered)
      BY <1>2, <2>2 DEF k
    <3>2. CASE e \in 1 .. Len(delivered)
      BY <1>2, <2>2, <3>1, <3>2 DEF PipeInv, InOrder
    <3>3. CASE e = k
      <4>1. delivered[d].n < f.n
        BY <1>3, <3>1 DEF PipeInv, InOrder
      <4>2. QED BY <1>2, <1>3, <3>1, <3>3, <4>1
    <3>4. QED BY <1>2, <3>2, <3>3
  <2>3. ASSUME NEW d \in 1 .. Len(delivered') PROVE delivered'[d].n \in 1 .. Len(sent')
    BY <1>2, <1>3 DEF PipeInv, InOrder
  <2>4. QED BY <2>1, <2>2, <2>3, LeftToRead DEF InOrder, Starts
<1>5. OwnOnly'
  <2> SUFFICES ASSUME NEW d \in 1 .. Len(delivered')
               PROVE  IF Fragmented(delivered'[d].n)
                      THEN Partial(delivered'[d].obj, Meant(delivered'[d].n))
                      ELSE delivered'[d].obj = Meant(delivered'[d].n)
    <3>1. ASSUME NEW d \in 1 .. Len(delivered')
          PROVE  /\ Fragmented(delivered[d].n)' <=> Fragmented(delivered'[d].n)
                 /\ Meant(delivered[d].n)' = Meant(delivered'[d].n)
      BY DEF Fragmented, SizeOf, Meant
    <3>2. QED BY <3>1 DEF OwnOnly, Partial
  <2>1. CASE d \in 1 .. Len(delivered)
    BY <1>2, <2>1 DEF PipeInv, OwnOnly
  <2>2. CASE d = k
    BY <1>2, <1>3, <2>2
  <2>3. QED BY <1>2, <2>1, <2>2
<1>6. Underway'
  <2> SUFFICES ASSUME open, NEW n \in 1 .. Len(sent), ~Fragmented(n), sent[n].obj # Null
               PROVE  \/ \E d \in 1 .. Len(delivered') : delivered'[d].n = n
                      \/ \E i \in 1 .. Len(frames') : Starts(frames'[i]) /\ frames'[i].n = n
    BY DEF Underway, Starts, Fragmented, SizeOf
  <2>1. CASE \E d \in 1 .. Len(delivered) : delivered[d].n = n
    BY <1>2, <2>1
  <2>2. ASSUME NEW i \in 1 .. Len(frames), Starts(frames[i]), frames[i].n = n
        PROVE  \/ \E d \in 1 .. Len(delivered') : delivered'[d].n = n
               \/ \E j \in 1 .. Len(frames') : Starts(frames'[j]) /\ frames'[j].n = n
    <3>1. CASE i = 1
      BY <1>2, <1>3, <2>2, <3>1
    <3>2. CASE i # 1
      <4>1. i - 1 \in 1 .. Len(frames') /\ frames'[i - 1] = frames[i]
        BY <3>2, Taken DEF PipeInv, PipeTypes
      <4>2. QED BY <2>2, <4>1
    <3>3. QED BY <3>1, <3>2
  <2>3. QED BY <2>1, <2>2 DEF PipeInv, Underway
<1>7. QED BY <1>1, <1>4, <1>5, <1>6 DEF PipeInv

LEMMA ReadFrameStep ==
  ASSUME PipeInv, ReadFrame
  PROVE  PipeInv'
<1> DEFINE f == frames[1]
           m == sent[f.n].obj
           obj == CASE Tag(f) = 1 -> FromJson(f) [] Tag(f) = 2 -> FromBinary(f) [] OTHER -> Null
<1>1. /\ frames # <<>> /\ Head(frames) = f
      /\ \/ Tag(f) = 0 /\ Ignore
         \/ Tag(f) # 0 /\ obj = Null /\ Malformed(f)
         \/ Tag(f) # 0 /\ obj # Null /\ Deliver(f.n, obj)
  BY Taken DEF ReadFrame, PipeInv, PipeTypes
<1>2. 1 \in 1 .. Len(frames) /\ Tail(frames) \in Seq(Frame)
  BY <1>1, Taken DEF PipeInv, PipeTypes
<1>3. Tag(f) # 0 => /\ Starts(f) /\ f.n \in 1 .. Len(sent) /\ f.type = sent[f.n].type
                    /\ f.from = 0 /\ f.to = sent[f.n].cut
                    /\ sent[f.n].cut \in Nat /\ sent[f.n].cut <= SizeOf(f.n)
                    /\ m \in Objects
  <2> SUFFICES ASSUME Tag(f) # 0
               PROVE  /\ Starts(f) /\ f.n \in 1 .. Len(sent) /\ f.type = sent[f.n].type
                      /\ f.from = 0 /\ f.to = sent[f.n].cut
                      /\ sent[f.n].cut \in Nat /\ sent[f.n].cut <= SizeOf(f.n)
                      /\ m \in Objects
    OBVIOUS
  <2>1. Starts(f)
    BY Tags, Zenon
  <2>2. /\ f.n \in 1 .. Len(sent) /\ f.type = sent[f.n].type
        /\ f.from = 0 /\ f.to = sent[f.n].cut
    BY <1>2, <2>1 DEF PipeInv, Framed
  <2>3. sent[f.n] \in Begun
    <3>1. sent \in Seq(Begun)
      BY DEF PipeInv, PipeTypes
    <3>2. QED BY <2>2, <3>1
  <2>4. sent[f.n].cut <= SizeOf(f.n)
    BY <2>2 DEF PipeInv, Cuts
  <2>5. sent[f.n].cut \in Nat /\ m \in Objects
    BY <2>3 DEF Begun
  <2>6. QED BY <2>1, <2>2, <2>4, <2>5
<1>4. ASSUME Ignore, ~Starts(f) \/ Fragmented(f.n) \/ m = Null PROVE PipeInv'
  <2>1. PipeTypes'
    BY <1>2, <1>4 DEF Ignore, PipeInv, PipeTypes
  <2>2. QED BY <1>1, <1>4, <2>1, Ignoring DEF Ignore
<1>5. CASE Tag(f) = 0 /\ Ignore
  BY <1>4, <1>5, Tags
<1>6. CASE Tag(f) = 1 /\ obj = Null /\ Malformed(f)
  <2>1. FromJson(f) = Null /\ Ignore
    BY <1>6 DEF Malformed
  <2>2. f.to - f.from # SizeOf(f.n) \/ m = Null
    <3>1. m # Null => deserializeBinary(FieldsOfJson[m]) # Null
      <4>1. m # Null => deserializeBinary(FieldsOfJson[m]) \in Msg
        BY <1>3, <1>6, Parsed
      <4>2. Null \notin Msg
        BY WsMsgAssumption, Zenon
      <4>3. QED BY <4>1, <4>2
    <3>2. QED BY <2>1, <3>1, Zenon DEF FromJson
  <2>3. f.to - f.from = sent[f.n].cut
    BY <1>3, <1>6
  <2>4. SizeOf(f.n) \in Nat
    BY <1>3, <1>6, Sized DEF SizeOf
  <2>5. Fragmented(f.n) \/ m = Null
    BY <1>3, <1>6, <2>2, <2>3, <2>4 DEF Fragmented
  <2>6. QED BY <1>4, <2>1, <2>5
<1>7. CASE Tag(f) = 2 /\ obj = Null /\ Malformed(f)
  <2>1. Reject
    BY <1>7 DEF Malformed
  <2>2. QED BY <1>1, <2>1, RejectStep
<1>8. CASE Tag(f) # 0 /\ obj # Null /\ Deliver(f.n, obj)
  <2> DEFINE o == toObject(obj)
  <2>1. /\ o \in Objs
        /\ IF Fragmented(f.n) THEN Partial(o, Meant(f.n)) ELSE o = Meant(f.n)
    <3>1. CASE Tag(f) = 1
      <4>1. obj = FromJson(f)
        BY <3>1
      <4>2. /\ f.to - f.from = SizeOf(f.n) /\ m # Null
            /\ obj = deserializeBinary(FieldsOfJson[m])
        BY <1>8, <4>1, Zenon DEF FromJson
      <4>3. sent[f.n].cut = SizeOf(f.n)
        BY <1>3, <1>8, <4>2
      <4>4. ~Fragmented(f.n)
        <5>1. SizeOf(f.n) \in Nat
          BY <1>3, <1>8, Sized DEF SizeOf
        <5>2. QED BY <4>3, <5>1 DEF Fragmented
      <4>5. o \in Objs /\ o = Heard(toObject(m))
        BY <1>3, <1>8, <4>2, Parsed
      <4>6. Meant(f.n) = Heard(toObject(m))
        <5>1. f.type = "text" /\ f.type # "binary"
          BY <3>1, Tags, Zenon
        <5>2. QED BY <1>3, <1>8, <4>2, <5>1, Zenon DEF Meant, Heard
      <4>7. QED BY <4>4, <4>5, <4>6
    <3>2. CASE Tag(f) = 2 /\ m # Null
      <4> DEFINE w == serializeBinary(m)
                 c == sent[f.n].cut
                 k == c \div 2
      <4>1. obj = FromBinary(f)
        BY <3>2
      <4>2. f.to % 2 # 1 /\ obj = deserializeBinary(Payload(f))
        BY <1>8, <3>2, <4>1, Zenon DEF FromBinary, Cut
      <4>3. /\ f.type = "binary" /\ m \in Msg /\ Writable(m) /\ w \in Seq(Field)
            /\ Fields[m] = w /\ Len(w) \in Nat
        <5>1. f.type = "binary"
          BY <3>2, Tags, Zenon
        <5>2. m \in Msg /\ Writable(m) /\ w \in Seq(Field) /\ Fields[m] = w
          BY <1>3, <1>8, <3>2, Sized, Zenon
        <5>3. Len(w) \in Nat
          BY <5>2
        <5>4. QED BY <5>1, <5>2, <5>3
      <4>4. c \in Nat /\ c <= SizeOf(f.n) /\ SizeOf(f.n) = 2 * Len(w) /\ f.to = c /\ f.from = 0
        <5>1. SizeOf(f.n) = Size(f.type, m)
          BY <1>3, <1>8 DEF SizeOf
        <5> HIDE DEF m
        <5>2. Size(f.type, m) = 2 * Len(w)
          BY <3>2, <4>3 DEF Size
        <5>3. QED BY <1>3, <1>8, <5>1, <5>2
      <4>5. Payload(f) = SubSeq(w, 1, k)
        <5>1. 0 \div 2 + 1 = 1
          OBVIOUS
        <5>2. QED BY <4>3, <4>4, <5>1, Zenon DEF Payload
      <4> HIDE DEF w, c
      <4>6. c = 2 * k /\ k \in Nat
        BY <4>2, <4>4
      <4>7. k <= Len(w) /\ (~(c < SizeOf(f.n)) => k = Len(w))
        BY <4>3, <4>4, <4>6
      <4>8. /\ o \in Objs /\ Partial(o, toObject(m))
            /\ k = Len(w) => o = toObject(m)
        <5> DEFINE v == deserializeBinary(SubSeq(w, 1, k))
        <5>1. obj = v
          BY <4>2, <4>5, Zenon
        <5>2. k <= Len(w) => /\ toObject(v) \in Objs /\ Partial(toObject(v), toObject(m))
                             /\ k = Len(w) => toObject(v) = toObject(m)
          BY <4>3, <4>6, Decoded, Zenon DEF w
        <5>3. QED BY <4>7, <5>1, <5>2, Zenon
      <4>9. Fragmented(f.n) <=> c < SizeOf(f.n)
        BY DEF Fragmented, c
      <4>10. Meant(f.n) = toObject(m)
        BY <1>3, <1>8, <3>2, <4>3, Zenon DEF Meant
      <4>11. QED BY <4>7, <4>8, <4>9, <4>10
    <3>3. CASE Tag(f) = 2 /\ m = Null
      <4>1. obj = FromBinary(f) /\ f.type = "binary"
        BY <3>3, Tags, Zenon
      <4>2. ~(f.from < f.to) /\ obj = deserializeBinary(Payload(f))
        BY <1>8, <3>3, <4>1, Zenon DEF FromBinary, Cut
      <4>3. f.from = 0 /\ f.to = 0 /\ sent[f.n].cut = 0
        BY <1>3, <1>8, <4>2
      <4>4. Payload(f) = <<>>
        <5>1. Fields[m] = <<>>
          BY <1>3, <1>8, <3>3, Sized, Zenon
        <5>2. 0 \div 2 + 1 = 1 /\ 0 \div 2 = 0 /\ SubSeq(<<>>, 1, 0) = <<>>
          OBVIOUS
        <5>3. QED BY <4>3, <5>1, <5>2, Zenon DEF Payload
      <4>5. o \in Objs /\ o = Default
        BY <4>2, <4>4, Nothing
      <4>6. Meant(f.n) = Default
        BY <1>3, <1>8, <3>3, <4>1, Zenon DEF Meant
      <4>7. Fragmented(f.n)
        BY <3>3, <4>3 DEF Fragmented, SizeOf, Size
      <4>8. QED BY <4>5, <4>6, <4>7 DEF Partial
    <3>4. QED BY <1>8, <3>1, <3>2, <3>3, Tags
  <2> HIDE DEF o, m, obj
  <2>2. delivered' = Append(delivered, [n |-> f.n, obj |-> o]) /\ frames' = Tail(frames)
    BY <1>1, <1>8 DEF Deliver, o
  <2>3. [n |-> f.n, obj |-> o] \in Handled
    <3>1. f.n \in Nat
      <4>1. Len(sent) \in Nat
        BY DEF PipeInv, PipeTypes
      <4>2. QED BY <1>3, <1>8, <4>1
    <3>2. QED BY <2>1, <3>1 DEF Handled
  <2>4. PipeTypes'
    <3>1. \A h \in Handled : Append(delivered, h) \in Seq(Handled)
      BY DEF PipeInv, PipeTypes
    <3>2. delivered' \in Seq(Handled)
      BY <2>2, <2>3, <3>1
    <3>3. QED BY <1>2, <1>8, <2>2, <3>2 DEF PipeInv, PipeTypes, Deliver
  <2>5. sent' = sent /\ open' = open
    BY <1>8 DEF Deliver
  <2>6. QED BY <1>1, <1>3, <1>8, <2>1, <2>2, <2>4, <2>5, Handling DEF m
<1>9. QED BY <1>1, <1>5, <1>6, <1>7, <1>8, Tags

LEMMA BeginStep ==
  ASSUME PipeInv, NEW type \in {"text", "binary"}, NEW obj \in Objects,
         NEW to \in 0 .. Size(type, obj), Begin(type, obj, to)
  PROVE  PipeInv'
<1>1. PICK k \in Nat : k = Len(sent) + 1
  BY DEF PipeInv, PipeTypes
<1> DEFINE r == [type |-> type, obj |-> obj, cut |-> to, at |-> to]
           f == [type |-> type, n |-> k, from |-> 0, to |-> to]
<1>2. /\ sent' = Append(sent, r) /\ frames' = Append(frames, f)
      /\ UNCHANGED <<open, delivered>>
  BY <1>1 DEF Begin
<1>3. to \in Nat /\ to <= Size(type, obj) /\ Len(sent) \in Nat
  BY Sized DEF PipeInv, PipeTypes
<1>4. PipeTypes'
  <2>1. r \in Begun /\ f \in Frame
    BY <1>3 DEF Begun, Frame
  <2> HIDE DEF r, f
  <2>2. QED BY <1>2, <2>1 DEF PipeInv, PipeTypes
<1>5. /\ Len(sent') = k /\ sent'[k] = r
      /\ \A n \in 1 .. Len(sent) : sent'[n] = sent[n]
  <2>1. sent \in Seq(Begun)
    BY DEF PipeInv, PipeTypes
  <2> HIDE DEF r
  <2>2. QED BY <1>1, <1>2, <2>1
<1>6. sent'[k].cut <= SizeOf(k)'
  <2>1. sent'[k].type = type /\ sent'[k].obj = obj /\ sent'[k].cut = to
    BY <1>5
  <2>2. SizeOf(k)' = Size(type, obj)
    BY <2>1 DEF SizeOf, Size
  <2>3. QED BY <1>3, <2>1, <2>2
<1>7. /\ Starts(f) /\ f.n = k /\ f.from = 0 /\ f.type = sent'[k].type /\ f.to = sent'[k].cut
  BY <1>5 DEF Starts
<1> HIDE DEF f, r
<1>8. /\ Starts(f) /\ Len(sent') = Len(sent) + 1 /\ f.n = Len(sent) + 1 /\ f.from = 0
      /\ f.type = sent'[f.n].type /\ f.to = sent'[f.n].cut
      /\ sent'[f.n].cut <= SizeOf(f.n)'
  <2>1. f.n = k
    BY <1>7
  <2>2. /\ f.from = 0 /\ f.type = sent'[f.n].type /\ f.to = sent'[f.n].cut
        /\ sent'[f.n].cut <= SizeOf(f.n)'
    BY <1>6, <1>7, <2>1
  <2>3. QED BY <1>1, <1>5, <1>7, <2>1, <2>2
<1>9. \A n \in 1 .. Len(sent) : /\ sent'[n].type = sent[n].type
                                /\ sent'[n].obj = sent[n].obj
                                /\ sent'[n].cut = sent[n].cut
  BY <1>5
<1>10. QED BY <1>2, <1>4, <1>8, <1>9, Sending

LEMMA ContinueStep ==
  ASSUME PipeInv, NEW to, Continue(to)
  PROVE  PipeInv'
<1> DEFINE k == Len(sent)
           r == [sent[k] EXCEPT !.at = to]
           f == [type |-> "continuation", n |-> k, from |-> sent[k].at, to |-> to]
<1>1. /\ k \in Nat /\ k > 0 /\ to \in sent[k].at + 1 .. SizeOf(k)
      /\ sent' = [sent EXCEPT ![k] = r] /\ frames' = Append(frames, f)
      /\ UNCHANGED <<open, delivered>>
  <2>1. k \in Nat
    BY DEF PipeInv, PipeTypes
  <2>2. QED BY <2>1 DEF Continue
<1>2. k \in 1 .. Len(sent) /\ sent[k] \in Begun /\ sent[k].at \in Nat /\ sent[k].obj \in Objects
  <2>1. sent \in Seq(Begun) /\ k \in 1 .. Len(sent)
    BY <1>1 DEF PipeInv, PipeTypes
  <2>2. sent[k] \in Begun
    BY <2>1
  <2>3. QED BY <2>1, <2>2 DEF Begun
<1>3. to \in Nat
  <2>1. SizeOf(k) \in Nat
    BY <1>2, Sized DEF SizeOf
  <2>2. QED BY <1>1, <1>2, <2>1
<1>4. /\ r \in Begun
      /\ r.type = sent[k].type /\ r.obj = sent[k].obj /\ r.cut = sent[k].cut
  BY <1>2, <1>3 DEF Begun
<1>5. f \in Frame /\ f.type = "continuation"
  BY <1>1, <1>2, <1>3 DEF Frame
<1> HIDE DEF r, f
<1>6. PipeTypes' /\ Len(sent') = Len(sent)
  BY <1>1, <1>2, <1>4, <1>5 DEF PipeInv, PipeTypes
<1>7. \A n \in 1 .. Len(sent) : /\ sent'[n].type = sent[n].type
                                /\ sent'[n].obj = sent[n].obj
                                /\ sent'[n].cut = sent[n].cut
  BY <1>1, <1>4 DEF PipeInv, PipeTypes
<1>8. ~Starts(f)
  BY <1>5 DEF Starts
<1>9. QED BY <1>1, <1>6, <1>7, <1>8, Sending

LEMMA PipeStep == PipeInv /\ [Next]_vars => PipeInv'
<1> SUFFICES ASSUME PipeInv, [Next]_vars PROVE PipeInv'
  OBVIOUS
<1>1. ASSUME UNCHANGED <<open, frames, sent, delivered>> PROVE PipeInv'
  BY <1>1 DEF PipeInv, PipeTypes, Framed, Cuts, InOrder, OwnOnly, Underway, Starts, SizeOf,
              Fragmented, Partial, Meant
<1>2. CASE Ping
  <2> DEFINE f == [type |-> "ping", n |-> 0, from |-> 0, to |-> 0]
  <2>1. frames' = Append(frames, f) /\ UNCHANGED <<open, sent, delivered>>
    BY <1>2 DEF Ping
  <2>2. PipeTypes'
    <3>1. f \in Frame
      BY DEF Frame
    <3> HIDE DEF f
    <3>2. QED BY <2>1, <3>1 DEF PipeInv, PipeTypes
  <2>3. ~Starts(f)
    BY DEF Starts
  <2> HIDE DEF f
  <2>4. QED BY <2>1, <2>2, <2>3, Sending
<1>3. CASE Disconnect
  BY <1>3, CloseStep DEF Disconnect
<1>4. CASE Timer
  BY <1>1, <1>4, CloseStep DEF Timer
<1>5. CASE UNCHANGED vars
  BY <1>1, <1>5 DEF vars
<1>6. QED BY <1>2, <1>3, <1>4, <1>5, BeginStep, ContinueStep, ReadFrameStep DEF Next

LEMMA Piped == Spec => []PipeInv
<1>1. Init => PipeInv
  <2> SUFFICES ASSUME Init PROVE PipeInv
    OBVIOUS
  <2>1. 1 .. Len(<<>>) = {}
    OBVIOUS
  <2>2. PipeTypes
    BY DEF Init, PipeTypes
  <2>3. QED BY <2>1, <2>2 DEF Init, PipeInv, Framed, Cuts, InOrder, OwnOnly, Underway
<1>2. QED BY <1>1, PipeStep, PTL DEF Spec

\* Whatever clients send, in whatever frames: a message is handled once at most, and
\* messages in the order of sending.
THEOREM InOrderOnce == Spec => []OnceInOrder
<1>1. PipeInv => OnceInOrder
  <2>1. PipeTypes => DOMAIN delivered = 1 .. Len(delivered)
    BY DEF PipeTypes
  <2>2. QED BY <2>1 DEF PipeInv, InOrder, OnceInOrder
<1>2. QED BY <1>1, Piped, PTL

\* What is handled is the object that was sent, its texts in JSON as the platform's
\* charset decodes them; of one that was cut into fragments, some of its fields, and
\* defaults for the others.
THEOREM NothingElse == Spec => []OwnFields
<1>1. PipeInv => OwnFields
  <2> SUFFICES ASSUME PipeInv, NEW i \in DOMAIN delivered
               PROVE  LET d == delivered[i]
                          o == Meant(d.n)
                      IN  IF Fragmented(d.n)
                          THEN \A f \in DOMAIN o : d.obj[f] \in {o[f], Default[f]}
                          ELSE d.obj = o
    BY DEF OwnFields
  <2>1. i \in 1 .. Len(delivered)
    BY DEF PipeInv, PipeTypes
  <2>2. \A n : DOMAIN Meant(n) = {"msgseq", "msgid", "content"}
    BY DEF Meant, toObject, Default
  <2>3. QED BY <2>1, <2>2 DEF PipeInv, OwnOnly, Partial
<1>2. QED BY <1>1, Piped, PTL

\* While the connection is open, a message that was sent whole is handled or on its way.
THEOREM WholeArrive == Spec => []NoneLost
<1>1. PipeInv => NoneLost
  <2> SUFFICES ASSUME PipeInv, open, frames = <<>>, NEW n \in DOMAIN sent
               PROVE  \/ Fragmented(n) \/ sent[n].obj = Null
                      \/ \E i \in DOMAIN delivered : delivered[i].n = n
    BY DEF NoneLost
  <2>1. DOMAIN delivered = 1 .. Len(delivered) /\ DOMAIN sent = 1 .. Len(sent)
    BY DEF PipeInv, PipeTypes
  <2>2. 1 .. Len(frames) = {}
    OBVIOUS
  <2>3. QED BY <2>1, <2>2 DEF PipeInv, Underway
<1>2. QED BY <1>1, Piped, PTL
=============================================================================
