--------------------------- MODULE NumberingProofs ---------------------------
(***************************************************************************)
(* The numbers that processes draw.  When two msgSeq collide, for any      *)
(* layout in which the fields do not overlap, any processes, clock and     *)
(* restarts: never those of two processes, and those of one exactly if the *)
(* time they were generated at is the same up to the bits that are kept of *)
(* it.  The ids of RedisOps.autoId, for any processes and calls.           *)
(***************************************************************************)
EXTENDS MsgSeq, AutoId, FiniteSetTheorems, FunctionTheorems, WellFoundedInduction, TLAPS

\* A server id that fits its field can be read back from the msgSeq.
LEMMA IdField ==
  ASSUME NEW type, NEW id, NEW ms, NEW i \in 0 .. (TypeShift - IdShift - 1)
  PROVE  i \in Bits(id) <=> i + IdShift \in GenerateMsgSeq(type, id, ms)
<1> DEFINE p == i + IdShift
<1>1. p \in 0 .. IntBits - 1 /\ p < TypeShift /\ p >= TimeBits
  BY LayoutAssumption
<1>2. p \notin TimePart(ms)
  BY <1>1, LayoutAssumption DEF TimePart
<1>3. p \notin TypePart(type)
  BY <1>1, LayoutAssumption DEF TypePart, ShiftLeft
<1>4. p \in IdPart(id) <=> i \in Bits(id)
  BY <1>1, LayoutAssumption DEF IdPart, ShiftLeft
<1>5. QED BY <1>2, <1>3, <1>4 DEF GenerateMsgSeq

\* So can a server type, if the id keeps out of its field.
LEMMA TypeField ==
  ASSUME NEW type, NEW id, NEW ms, NEW i \in 0 .. (IntBits - TypeShift - 1),
         Bits(id) \subseteq 0 .. (TypeShift - IdShift - 1)
  PROVE  i \in Bits(type) <=> i + TypeShift \in GenerateMsgSeq(type, id, ms)
<1> DEFINE p == i + TypeShift
<1>1. p \in 0 .. IntBits - 1 /\ p >= TypeShift /\ p >= TimeBits /\ p - TypeShift = i
  BY LayoutAssumption
<1>2. p \notin TimePart(ms)
  BY <1>1, LayoutAssumption DEF TimePart
<1>3. p \notin IdPart(id)
  <2>1. p - IdShift \notin 0 .. (TypeShift - IdShift - 1)
    BY <1>1, LayoutAssumption
  <2>2. QED BY <2>1 DEF IdPart, ShiftLeft
<1>4. p \in TypePart(type) <=> i \in Bits(type)
  BY <1>1, LayoutAssumption DEF TypePart, ShiftLeft
<1>5. QED BY <1>2, <1>3, <1>4 DEF GenerateMsgSeq

\* Two processes never generate the same number, whatever their clocks say.
LEMMA NumbersTellServersApart ==
  ASSUME ServerAssumption, NEW sv \in Servers, NEW tv \in Servers, NEW m, NEW n,
         GenerateMsgSeq(sv.type, sv.id, m) = GenerateMsgSeq(tv.type, tv.id, n)
  PROVE  sv = tv
<1>1. /\ Bits(sv.id) \subseteq 0 .. (TypeShift - IdShift - 1)
      /\ Bits(tv.id) \subseteq 0 .. (TypeShift - IdShift - 1)
      /\ Bits(sv.type) \subseteq 0 .. (IntBits - TypeShift - 1)
      /\ Bits(tv.type) \subseteq 0 .. (IntBits - TypeShift - 1)
  BY DEF ServerAssumption
<1>2. \A i \in 0 .. (TypeShift - IdShift - 1) : i \in Bits(sv.id) <=> i \in Bits(tv.id)
  BY IdField
<1>3. \A i \in 0 .. (IntBits - TypeShift - 1) : i \in Bits(sv.type) <=> i \in Bits(tv.type)
  BY <1>1, TypeField
<1>4. Bits(sv.id) = Bits(tv.id) /\ Bits(sv.type) = Bits(tv.type)
  BY <1>1, <1>2, <1>3
<1>5. QED BY <1>4 DEF ServerAssumption

-------------------------------------------------------------------------------
(* Arithmetic: the low bits of a number are its remainder. *)

\* Induction: a set that has 0 and every successor has every number.
LEMMA FromZero ==
  ASSUME NEW S, 0 \in S, \A k \in Nat : k \in S => k + 1 \in S
  PROVE  Nat \subseteq S
<1> DEFINE Missing == Nat \ S
<1>1. SUFFICES ASSUME Missing # {} PROVE FALSE
  OBVIOUS
<1>2. PICK k \in Missing : \A j \in Missing : ~(<<j, k>> \in OpToRel(<, Nat))
  BY <1>1, NatLessThanWellFounded, WFMin, Zenon
<1>3. k \in Nat /\ k # 0 /\ k \notin S
  OBVIOUS
<1>4. k - 1 \in Nat /\ k - 1 < k /\ (k - 1) + 1 = k
  BY <1>3
<1>5. <<k - 1, k>> \in OpToRel(<, Nat)
  BY <1>3, <1>4 DEF OpToRel
<1>6. k - 1 \in S
  BY <1>2, <1>4, <1>5
<1> QED BY <1>3, <1>4, <1>6

LEMMA Division ==
  ASSUME NEW m \in Nat, NEW d \in Nat \ {0}
  PROVE  /\ m \div d \in Nat /\ m % d \in 0 .. d - 1 /\ m = d * (m \div d) + (m % d)
         /\ \A q \in Nat, r \in 0 .. d - 1 : m = d * q + r => r = m % d /\ q = m \div d
<1>1. m \div d \in Nat /\ m % d \in 0 .. d - 1 /\ m = d * (m \div d) + (m % d)
  OBVIOUS
<1>2. \A p, q \in Nat, r, s \in 0 .. d - 1 : d * p + r = d * q + s => p = q /\ r = s
  OBVIOUS
<1> QED BY <1>1, <1>2

LEMMA Remainder ==
  ASSUME NEW m \in Nat, NEW d \in Nat \ {0}, NEW q \in Nat, NEW r \in 0 .. d - 1, m = d * q + r
  PROVE  m % d = r
BY Division

\* One bit more of the remainder.
LEMMA NextBit ==
  ASSUME NEW m \in Nat, NEW p \in Nat \ {0}
  PROVE  m % (2 * p) = p * ((m \div p) % 2) + (m % p)
<1> DEFINE q == m \div p
           r == m % p
           h == q \div 2
           b == q % 2
<1>1. q \in Nat /\ r \in 0 .. p - 1 /\ m = p * q + r
  BY Division
<1>2. h \in Nat /\ b \in 0 .. 1 /\ q = 2 * h + b
  BY <1>1, Division
<1> HIDE DEF q, r, h, b
<1>3. p * q = (2 * p) * h + p * b
  BY <1>2
<1>4. m = (2 * p) * h + (p * b + r)
  BY <1>1, <1>2, <1>3
<1>5. p * b \in {0, p}
  BY <1>2
<1>6. p * b + r \in 0 .. (2 * p) - 1
  BY <1>1, <1>5
<1>7. 2 * p \in Nat \ {0}
  OBVIOUS
<1>8. p * b + r = m % (2 * p)
  BY <1>2, <1>4, <1>6, <1>7, Remainder, Zenon
<1> QED BY <1>8 DEF q, r, b

LEMMA PowerOfTwo ==
  ASSUME NEW n \in Nat
  PROVE  2^n \in Nat \ {0} /\ 2^(n + 1) = 2 * 2^n
<1> DEFINE A == 1 .. n
           x == n + 1
           Ax == {B \cup {x} : B \in SUBSET A}
           f == [B \in SUBSET A |-> B \cup {x}]
<1>1. IsFiniteSet(A) /\ Cardinality(A) = n /\ IsFiniteSet(A \cup {x}) /\ Cardinality(A \cup {x}) = n + 1 /\ x \notin A
  <2>1. IsFiniteSet(A) /\ Cardinality(A) = n
    BY FS_Interval
  <2>2. x \notin A
    OBVIOUS
  <2> QED BY <2>1, <2>2, FS_AddElement
<1> HIDE DEF A, x
<1>2. /\ IsFiniteSet(SUBSET A) /\ Cardinality(SUBSET A) = 2^n
      /\ Cardinality(SUBSET (A \cup {x})) = 2^(n + 1)
  BY <1>1, FS_SUBSET
<1>3. SUBSET (A \cup {x}) = (SUBSET A) \cup Ax
  <2>1. ASSUME NEW B \in SUBSET (A \cup {x}), x \in B PROVE B \in Ax
    <3>1. B \ {x} \in SUBSET A /\ B = (B \ {x}) \cup {x}
      BY <2>1
    <3> QED BY <3>1
  <2>2. ASSUME NEW B \in SUBSET (A \cup {x}), x \notin B PROVE B \in SUBSET A
    BY <2>2
  <2>3. Ax \subseteq SUBSET (A \cup {x})
    OBVIOUS
  <2> HIDE DEF Ax
  <2> QED BY <2>1, <2>2, <2>3
<1>4. ExistsBijection(SUBSET A, Ax)
  <2>1. f \in [SUBSET A -> Ax]
    OBVIOUS
  <2>2. ASSUME NEW B \in SUBSET A, NEW C \in SUBSET A, f[B] = f[C] PROVE B = C
    BY <1>1, <2>2
  <2>3. f \in Surjection(SUBSET A, Ax)
    BY <2>1, Zenon DEF Surjection
  <2>4. f \in Injection(SUBSET A, Ax)
    BY <2>1, <2>2, Fun_IsInj, Zenon
  <2> QED BY <2>3, <2>4, Zenon DEF Bijection, ExistsBijection
<1>5. IsFiniteSet(Ax) /\ Cardinality(Ax) = 2^n
  BY <1>2, <1>4, FS_Bijection, Zenon
<1>6. (SUBSET A) \cap Ax = {}
  BY <1>1
<1> HIDE DEF Ax
<1>7. Cardinality((SUBSET A) \cup Ax) = 2^n + 2^n - Cardinality((SUBSET A) \cap Ax)
  BY <1>2, <1>5, FS_Union, Zenon
<1>8. Cardinality((SUBSET A) \cap Ax) = 0
  BY <1>6, FS_EmptySet, Zenon
<1>9. {} \in SUBSET A /\ 2^n \in Nat /\ 2^n # 0
  <2>1. 2^n \in Nat
    BY <1>2, FS_CardinalityType
  <2>2. {} \in SUBSET A
    OBVIOUS
  <2>3. 2^n # 0
    BY <1>2, <2>2, FS_EmptySet, Zenon
  <2> QED BY <2>1, <2>2, <2>3
<1>10. 2^(n + 1) = 2^n + 2^n - 0
  BY <1>2, <1>3, <1>7, <1>8, Zenon
<1>11. \A p \in Nat : p + p - 0 = 2 * p
  OBVIOUS
<1> QED BY <1>9, <1>10, <1>11, Zenon

LEMMA BitsOfRemainder ==
  ASSUME NEW m \in Nat, NEW n \in Nat, NEW p \in Nat \ {0}
  PROVE  m % (2 * p) = n % (2 * p) <=> m % p = n % p /\ (m \div p) % 2 = (n \div p) % 2
<1> DEFINE r == m % p
           s == n % p
           b == (m \div p) % 2
           c == (n \div p) % 2
<1>1. r \in 0 .. p - 1 /\ s \in 0 .. p - 1 /\ b \in 0 .. 1 /\ c \in 0 .. 1
  BY Division
<1>2. m % (2 * p) = p * b + r /\ n % (2 * p) = p * c + s
  BY NextBit
<1> HIDE DEF r, s, b, c
<1>3. p * b + r = p * c + s <=> r = s /\ b = c
  <2>1. b \in {0, 1} /\ c \in {0, 1}
    BY <1>1
  <2> QED BY <1>1, <2>1
<1> QED BY <1>2, <1>3 DEF r, s, b, c

\* The low bits of a number are its remainder.
LEMMA LowBits ==
  ASSUME NEW m \in Nat, NEW n \in Nat, NEW k \in Nat
  PROVE  (\A i \in 0 .. k - 1 : (m \div 2^i) % 2 = (n \div 2^i) % 2) <=> m % 2^k = n % 2^k
<1> DEFINE Same(j) == \A i \in 0 .. j - 1 : (m \div 2^i) % 2 = (n \div 2^i) % 2
           S == {j \in Nat : Same(j) <=> m % 2^j = n % 2^j}
<1>1. 0 \in S
  <2>1. Same(0)
    OBVIOUS
  <2>2. 2^0 = 1
    OBVIOUS
  <2>3. m % 1 = 0 /\ n % 1 = 0
    OBVIOUS
  <2> QED BY <2>1, <2>2, <2>3
<1>2. ASSUME NEW j \in Nat, j \in S PROVE j + 1 \in S
  <2>1. 2^j \in Nat \ {0} /\ 2^(j + 1) = 2 * 2^j
    BY PowerOfTwo
  <2>2. \A i : i \in 0 .. (j + 1) - 1 <=> i \in 0 .. j - 1 \/ i = j
    OBVIOUS
  <2>3. Same(j + 1) <=> Same(j) /\ (m \div 2^j) % 2 = (n \div 2^j) % 2
    BY <2>2, Zenon
  <2>4. m % (2 * 2^j) = n % (2 * 2^j) <=> m % 2^j = n % 2^j /\ (m \div 2^j) % 2 = (n \div 2^j) % 2
    BY <2>1, BitsOfRemainder, Zenon
  <2>5. j + 1 \in Nat
    OBVIOUS
  <2> QED BY <1>2, <2>1, <2>3, <2>4, <2>5, Zenon
<1> HIDE DEF S
<1>3. Nat \subseteq S
  BY <1>1, <1>2, FromZero, Zenon
<1> QED BY <1>3 DEF S
-------------------------------------------------------------------------------
\* Of two numbers of one process the time decides.
LEMMA TimeDecides ==
  ASSUME NEW type, NEW id, NEW m \in Nat, NEW n \in Nat
  PROVE  GenerateMsgSeq(type, id, m) = GenerateMsgSeq(type, id, n)
           <=> m % 2^TimeBits = n % 2^TimeBits
<1> DEFINE Bit(k, i) == (k \div 2^i) % 2
<1>1. TimeBits \in Nat /\ 0 .. TimeBits - 1 \subseteq 0 .. IntBits - 1
  BY LayoutAssumption
<1>2. ASSUME NEW i \in 0 .. TimeBits - 1
      PROVE  /\ i \notin TypePart(type) /\ i \notin IdPart(id)
             /\ Bit(m, i) \in {0, 1} /\ Bit(n, i) \in {0, 1}
  <2>1. i \in Nat /\ ~(i >= IdShift) /\ ~(i >= TypeShift)
    BY LayoutAssumption
  <2>2. 2^i \in Nat \ {0}
    BY <2>1, PowerOfTwo
  <2>3. m \div 2^i \in Nat /\ n \div 2^i \in Nat
    BY <2>2, Division, Zenon
  <2>4. \A k \in Nat : k % 2 \in {0, 1}
    OBVIOUS
  <2>5. i \notin TypePart(type) /\ i \notin IdPart(id)
    BY <2>1, Zenon DEF TypePart, IdPart, ShiftLeft
  <2> QED BY <2>3, <2>4, <2>5, Zenon
<1>3. \A k : \A i \in 0 .. TimeBits - 1 : i \in TimePart(k) <=> Bit(k, i) = 1
  BY <1>1, Zenon DEF TimePart, Bits
<1>4. \A k : TimePart(k) \subseteq 0 .. TimeBits - 1
  BY Zenon DEF TimePart
<1>5. (\A i \in 0 .. TimeBits - 1 : Bit(m, i) = Bit(n, i)) <=> m % 2^TimeBits = n % 2^TimeBits
  BY <1>1, LowBits, Zenon
<1> HIDE DEF Bit
<1>6. \A k : \A i \in 0 .. TimeBits - 1 :
        i \in GenerateMsgSeq(type, id, k) <=> i \in TimePart(k)
  BY <1>2, Zenon DEF GenerateMsgSeq
<1>7. CASE GenerateMsgSeq(type, id, m) = GenerateMsgSeq(type, id, n)
  <2>1. \A i \in 0 .. TimeBits - 1 : Bit(m, i) = 1 <=> Bit(n, i) = 1
    BY <1>3, <1>6, <1>7, Zenon
  <2>2. \A i \in 0 .. TimeBits - 1 : Bit(m, i) = Bit(n, i)
    BY <1>2, <2>1
  <2> QED BY <1>5, <1>7, <2>2
<1>8. CASE m % 2^TimeBits = n % 2^TimeBits
  <2>1. TimePart(m) = TimePart(n)
    <3>1. \A i \in 0 .. TimeBits - 1 : i \in TimePart(m) <=> i \in TimePart(n)
      BY <1>3, <1>5, <1>8, Zenon
    <3> QED BY <1>4, <3>1
  <2> QED BY <1>8, <2>1 DEF GenerateMsgSeq
<1> QED BY <1>7, <1>8
-------------------------------------------------------------------------------
\* No process started after what its clock says, so that its uptime is a number.
Started == now \in Nat /\ startInstant \in [Servers -> Nat]
             /\ \A sv \in Servers : startInstant[sv] <= now

\* Every number that was issued is the one its process generated.
Genuine(req) == /\ req.server \in Servers /\ req.ms \in Nat
                /\ req.seq = GenerateMsgSeq(req.server.type, req.server.id, req.ms)
AllGenuine ==
  \E n \in Nat : /\ DOMAIN issued = 1 .. n /\ Len(issued) = n
                 /\ \A i \in 1 .. n : Genuine(issued[i])

IInv == Started /\ AllGenuine

LEMMA IInvStep == IInv /\ [Next]_vars => IInv'
<1> SUFFICES ASSUME Started, AllGenuine, [Next]_vars PROVE Started' /\ AllGenuine'
  BY DEF IInv
<1>1. Started'
  <2>1. CASE Tick
    BY <2>1 DEF Tick, Started
  <2>2. CASE SetBack
    <3>1. now' \in Nat
      BY <2>2 DEF SetBack, Started
    <3> QED BY <2>2, <3>1 DEF SetBack, Started
  <2>3. ASSUME NEW sv \in Servers, Restart(sv) PROVE Started'
    BY <2>3 DEF Restart, Started
  <2>4. CASE UNCHANGED <<now, startInstant>>
    BY <2>4 DEF Started
  <2> QED BY <2>1, <2>2, <2>3, <2>4 DEF Next, Generate, vars
<1>2. CASE UNCHANGED issued
  BY <1>1, <1>2 DEF AllGenuine, Genuine
<1>3. ASSUME NEW sv \in Servers, Generate(sv) PROVE AllGenuine'
  <2> DEFINE ms == getMilliSecsFrom(startInstant[sv])
             req == [server |-> sv, ms |-> ms, seq |-> GenerateMsgSeq(sv.type, sv.id, ms)]
  <2>1. PICK n \in Nat : /\ DOMAIN issued = 1 .. n /\ Len(issued) = n
                         /\ \A i \in 1 .. n : Genuine(issued[i])
    BY DEF AllGenuine
  <2>2. issued' = Append(issued, req)
    BY <1>3 DEF Generate
  <2>3. issued' = [i \in 1 .. n + 1 |-> IF i = n + 1 THEN req ELSE issued[i]]
    BY <2>1, <2>2
  <2>4. ms \in Nat
    BY DEF Started, getMilliSecsFrom
  <2>5. Genuine(req)
    BY <2>4 DEF Genuine
  <2>6. QED BY <2>1, <2>3, <2>5 DEF AllGenuine
<1>4. QED BY <1>1, <1>2, <1>3 DEF Next, Tick, SetBack, Restart, vars

THEOREM Issued == Spec => []IInv
<1>1. Init => IInv
  <2>1. Init => Started
    BY DEF Init, Started
  <2>2. Init => AllGenuine
    BY DEF Init, AllGenuine
  <2>3. QED BY <2>1, <2>2 DEF IInv
<1>2. QED BY <1>1, IInvStep, PTL DEF Spec

\* Requests of different processes never carry the same msgSeq.
THEOREM NoCollisions == ASSUME ServerAssumption PROVE Spec => []NoCrossServerCollision
<1>1. IInv => NoCrossServerCollision
  <2> SUFFICES ASSUME AllGenuine, NEW i \in DOMAIN issued, NEW j \in DOMAIN issued,
                      issued[i].seq = issued[j].seq
               PROVE  issued[i].server = issued[j].server
    BY DEF NoCrossServerCollision, IInv
  <2>1. Genuine(issued[i]) /\ Genuine(issued[j])
    BY DEF AllGenuine
  <2> DEFINE a == issued[i]
             b == issued[j]
  <2>2. /\ a.server \in Servers /\ b.server \in Servers
        /\ GenerateMsgSeq(a.server.type, a.server.id, a.ms)
             = GenerateMsgSeq(b.server.type, b.server.id, b.ms)
    BY <2>1 DEF Genuine
  <2> HIDE DEF a, b
  <2>3. a.server = b.server
    BY <2>2, NumbersTellServersApart
  <2>4. QED BY <2>3 DEF a, b
<1>2. QED BY <1>1, Issued, PTL

\* Two requests of one process share a msgSeq exactly when they were generated in the
\* same millisecond of its uptime, up to the wrap of the bits kept of it.
THEOREM Collisions == Spec => []CollisionOnlySameTick
<1>1. IInv => CollisionOnlySameTick
  <2> SUFFICES ASSUME AllGenuine, NEW i \in DOMAIN issued, NEW j \in DOMAIN issued,
                      issued[i].server = issued[j].server
               PROVE  issued[i].seq = issued[j].seq
                        <=> issued[i].ms % 2^TimeBits = issued[j].ms % 2^TimeBits
    BY DEF CollisionOnlySameTick, IInv
  <2>1. Genuine(issued[i]) /\ Genuine(issued[j])
    BY DEF AllGenuine
  <2> DEFINE sv == issued[i].server
             m == issued[i].ms
             n == issued[j].ms
  <2>2. /\ m \in Nat /\ n \in Nat
        /\ issued[i].seq = GenerateMsgSeq(sv.type, sv.id, m)
        /\ issued[j].seq = GenerateMsgSeq(sv.type, sv.id, n)
    BY <2>1 DEF Genuine
  <2> HIDE DEF sv, m, n
  <2>3. GenerateMsgSeq(sv.type, sv.id, m) = GenerateMsgSeq(sv.type, sv.id, n)
          <=> m % 2^TimeBits = n % 2^TimeBits
    BY <2>2, TimeDecides
  <2>4. QED BY <2>2, <2>3 DEF m, n
<1>2. QED BY <1>1, Issued, PTL
-------------------------------------------------------------------------------
(* RedisOps.autoId. *)

Places == {"idle", "get", "set", "incr", "setAgain", "incrAgain", "return"}
Values == {Null, Junk} \cup Nat

CallsTyped ==
  /\ value \in Values /\ sid \in [Procs -> Values]
  /\ at \in [Procs -> Places]
  /\ calls \in [Procs -> Nat]
  /\ reset \in [Procs -> BOOLEAN]
  /\ high \in Nat /\ floor \in [Procs -> Nat]

\* The key, once set, is a positive number above every id returned.
ValueAbove ==
  /\ value \in Nat => value > 0
  /\ high > 0 => value \in Nat /\ value > high
  /\ \A p \in Procs : floor[p] <= high

\* What a call that has not been disturbed by a SET has read.
ReadHere ==
  \A p \in Procs :
    ~reset[p] =>
      /\ at[p] = "incr" => \/ sid[p] = Junk /\ value = Junk
                           \/ /\ sid[p] \in Nat /\ sid[p] > floor[p]
                              /\ value \in Nat /\ value >= sid[p]
      /\ at[p] = "return" => /\ sid[p] \in Nat /\ sid[p] > floor[p]
                             /\ value \in Nat /\ value > sid[p]
      /\ at[p] # "incrAgain"

\* Only a SET or a value read moves a call on from "set".
Missing == value = Null => \A p \in Procs : at[p] \in {"idle", "get", "set"}

AInv == CallsTyped /\ ValueAbove /\ ReadHere /\ Missing

LEMMA CallsInit == AutoIdInit => AInv
BY AutoIdAssumption DEF AutoIdInit, AInv, CallsTyped, ValueAbove, ReadHere, Missing, Values, Places

\* A command of a call preserves the invariant.
LEMMA CommandStep ==
  ASSUME AInv, NEW p \in Procs, autoId(p)
  PROVE  AInv'
<1> USE AutoIdAssumption DEF AInv, Step, Values, Places
<1>1. CASE Get(p)
  <2> USE <1>1 DEF Get
  <2>1. CallsTyped' BY DEF CallsTyped
  <2>2. ValueAbove' BY DEF ValueAbove
  <2>3. ReadHere' BY DEF ReadHere, CallsTyped, ValueAbove
  <2>4. Missing' BY DEF Missing, CallsTyped
  <2> QED BY <2>1, <2>2, <2>3, <2>4
<1>2. ASSUME NEW from \in Places, NEW to \in {"incr", "incrAgain"}, SetOne(p, from, to)
      PROVE  AInv'
  <2> USE <1>2 DEF SetOne, Set
  <2>1. CallsTyped' BY DEF CallsTyped
  <2>2. ValueAbove' BY DEF ValueAbove
  <2>3. ReadHere' BY DEF ReadHere
  <2>4. Missing' BY DEF Missing
  <2> QED BY <2>1, <2>2, <2>3, <2>4
<1>3. ASSUME NEW from \in {"incr", "incrAgain"}, Incr(p, from, "return")
      PROVE  AInv'
  <2> USE <1>3 DEF Incr, Refused
  <2>1. value \in Nat BY DEF CallsTyped, Missing
  <2>2. CallsTyped' BY <2>1 DEF CallsTyped
  <2>3. ValueAbove' BY <2>1 DEF ValueAbove, CallsTyped
  <2>4. ReadHere' BY <2>1 DEF ReadHere, CallsTyped
  <2>5. Missing' BY <2>1 DEF Missing, CallsTyped
  <2> QED BY <2>2, <2>3, <2>4, <2>5
<1>4. ASSUME NEW from \in {"incr", "incrAgain"}, NEW to \in {"setAgain", "idle"},
             IncrRefused(p, from, to)
      PROVE  AInv'
  <2> USE <1>4 DEF IncrRefused, Refused
  <2>1. CallsTyped' BY DEF CallsTyped
  <2>2. ValueAbove' BY DEF ValueAbove
  <2>3. ReadHere' BY DEF ReadHere, CallsTyped
  <2>4. Missing' BY DEF Missing, CallsTyped
  <2> QED BY <2>1, <2>2, <2>3, <2>4
<1>5. CASE Return(p)
  <2> USE <1>5 DEF Return
  <2>1. high' \in Nat /\ high' >= high /\ (high' > 0 => value \in Nat /\ value > high')
    BY DEF CallsTyped, ValueAbove, ReadHere
  <2>2. CallsTyped' BY <2>1 DEF CallsTyped
  <2>3. ValueAbove' BY <2>1 DEF ValueAbove, CallsTyped
  <2>4. ReadHere' BY DEF ReadHere, CallsTyped
  <2>5. Missing' BY DEF Missing, CallsTyped
  <2> QED BY <2>2, <2>3, <2>4, <2>5
<1> QED BY <1>1, <1>2, <1>3, <1>4, <1>5 DEF autoId

LEMMA CallsStep == AInv /\ [AutoIdNext]_autoIdVars => AInv'
<1> SUFFICES ASSUME AInv, [AutoIdNext]_autoIdVars PROVE AInv' OBVIOUS
<1> USE DEF AInv, Step, Values, Places
<1>1. ASSUME NEW p \in Procs, Begin(p) PROVE AInv'
  <2> USE <1>1 DEF Begin
  <2>1. CallsTyped' BY DEF CallsTyped
  <2>2. ValueAbove' BY DEF ValueAbove, CallsTyped
  <2>3. ReadHere' BY DEF ReadHere, CallsTyped
  <2>4. Missing' BY DEF Missing, CallsTyped
  <2> QED BY <2>1, <2>2, <2>3, <2>4
<1>2. ASSUME NEW p \in Procs, Crash(p) PROVE AInv'
  <2> USE <1>2 DEF Crash
  <2>1. CallsTyped' BY DEF CallsTyped
  <2>2. ValueAbove' BY DEF ValueAbove
  <2>3. ReadHere' BY DEF ReadHere, CallsTyped
  <2>4. Missing' BY DEF Missing, CallsTyped
  <2> QED BY <2>1, <2>2, <2>3, <2>4
<1>3. CASE UNCHANGED autoIdVars
  BY <1>3 DEF autoIdVars, CallsTyped, ValueAbove, ReadHere, Missing
<1> QED BY <1>1, <1>2, <1>3, CommandStep DEF AutoIdNext

\* For any processes that draw ids from one key, with crashes: an id is greater than all
\* that were returned before its call began, unless the key was SET meanwhile.
THEOREM LaterGreater == AutoIdSpec => []LaterIsGreater
<1>1. AInv => LaterIsGreater BY DEF AInv, ReadHere, LaterIsGreater
<1> QED BY CallsInit, CallsStep, <1>1, PTL DEF AutoIdSpec
==============================================================================
