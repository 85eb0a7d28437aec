------------------------------ MODULE FuncUtil -------------------------------
(***************************************************************************)
(* FuncUtil.GenerateMsgSeq.  A machine integer is the set of the positions *)
(* of its 1 bits, so that |, & and << are union, intersection and a shift  *)
(* of positions.  In the code TimeBits = 24, IdShift = 24, TypeShift = 28, *)
(* IntBits = 32.                                                           *)
(***************************************************************************)
EXTENDS Naturals

CONSTANTS
  TimeBits,   \* bits of 0x00ffffff
  IdShift,    \* serverId << 24
  TypeShift,  \* type.getNumber() << 28
  IntBits     \* width of a Java int

ASSUME LayoutAssumption ==
  /\ {TimeBits, IdShift, TypeShift, IntBits} \subseteq Nat
  /\ TimeBits <= IdShift /\ IdShift < TypeShift /\ TypeShift < IntBits

Bits(n) == {i \in 0 .. IntBits - 1 : (n \div 2^i) % 2 = 1}

\* << on an int: what is shifted past its width is gone.
ShiftLeft(bits, k) == {i \in 0 .. IntBits - 1 : i >= k /\ i - k \in bits}

\* The type keeps its own bits; the mutation places it over the server id.
MisplacedType(type) == ShiftLeft(Bits(type), IdShift)
TypePart(type) == ShiftLeft(Bits(type), TypeShift)
IdPart(id) == ShiftLeft(Bits(id), IdShift)

\* One bit of the clock is lost.
NarrowTime(ms) == Bits(ms) \cap (0 .. TimeBits - 2)
TimePart(ms) == Bits(ms) \cap (0 .. TimeBits - 1)

\* ms is getMilliSecsFrom(startInstant).
GenerateMsgSeq(type, id, ms) == TimePart(ms) \cup TypePart(type) \cup IdPart(id)
==============================================================================
