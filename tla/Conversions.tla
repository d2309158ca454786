----------------------------- MODULE Conversions -----------------------------
(***************************************************************************)
(* The loads and stores of cop_conversions.h, by a client that moves       *)
(* numbers between a buffer and a variable.  A byte has Byte values, 256   *)
(* in the code; fewer let every content of the buffer be tried.            *)
(***************************************************************************)
EXTENDS Integers, SequencesExt

CONSTANTS
  Byte,        \* The number of values of a byte.
  MaxMoves     \* Bound on the loads and stores.

\* What the constants may be.
ConversionsConstants == Byte \in Nat /\ Byte > 0 /\ Byte % 2 = 0 /\ MaxMoves \in Nat

VARIABLES
  clang,       \* The compiler is clang for amd64.
  buf,         \* The client's buffer of four bytes.
  val,         \* The number it holds.
  moves        \* History: the loads and stores done.

vars == <<clang, buf, val, moves>>

Init ==
  /\ clang \in BOOLEAN
  /\ buf \in [1 .. 4 -> 0 .. Byte - 1]
  /\ val = 0 /\ moves = <<>>

-----------------------------------------------------------------------------
\* How many values n bytes have.
Power(n) ==
  CASE n = 2 -> Byte * Byte
    [] n = 3 -> Byte * (Byte * Byte)
    [] n = 4 -> Byte * (Byte * (Byte * Byte))

\* The first n bytes, the least significant first, shifted into place and joined.
Joined(bytes, n) ==
  bytes[1] + Byte * (bytes[2] +
    IF n = 2 THEN 0 ELSE Byte * (bytes[3] +
      IF n = 3 THEN 0 ELSE Byte * bytes[4]))

ld_ule(n) == Joined(buf, n)
ld_ube(n) == Joined([i \in 1 .. n |-> buf[n + 1 - i]], n)

\* 0x800000: the sign bit of three bytes, and the values below it.
Sign == Power(3) \div 2

\* Slip: the complement is not incremented.
SignedFromComplementOff(u) ==
  IF u >= Sign THEN -(Sign - 1 - (u % Sign)) ELSE u

\* Two's complement undone: the complement of the bits below the sign, plus one.
SignedFromComplement(u) ==
  IF u >= Sign THEN -((Sign - 1 - (u % Sign)) + 1) ELSE u

\* The bytes are copied to the upper three of a signed word, which is shifted
\* down with its sign.
SignedByShift(u) ==
  LET word == u * Byte
  IN  (IF word >= Sign * Byte THEN word - 2 * Sign * Byte ELSE word) \div Byte

ld_sle24 == IF clang THEN SignedByShift(ld_ule(3)) ELSE SignedFromComplement(ld_ule(3))

\* The low bytes of a number: a conversion to unsigned, shifts and masks.
Split(v) ==
  LET shifted == v \div Byte
      twice   == shifted \div Byte
  IN  <<v % Byte, shifted % Byte, twice % Byte, (twice \div Byte) % Byte>>

-----------------------------------------------------------------------------
Moved(name, n) == Len(moves) < MaxMoves /\ moves' = Append(moves, [op |-> name, n |-> n])

LoadLittle(n) ==
  /\ Moved("ld_ule", n) /\ val' = ld_ule(n) /\ UNCHANGED <<clang, buf>>

LoadBig(n) ==
  /\ Moved("ld_ube", n) /\ val' = ld_ube(n) /\ UNCHANGED <<clang, buf>>

LoadSigned24 ==
  /\ Moved("ld_sle", 3) /\ val' = ld_sle24 /\ UNCHANGED <<clang, buf>>

\* The buffer with the n low bytes of a number in front.
Stored(v, n) == [i \in 1 .. 4 |-> IF i <= n THEN Split(v)[i] ELSE buf[i]]

StoreLittle(n) ==
  /\ Moved("st_ule", n)
  /\ buf' = Stored(val, n)
  /\ UNCHANGED <<clang, val>>

\* The signed stores mask the number to its width and store that.
StoreSigned(n) ==
  /\ Moved("st_sle", n)
  /\ buf' = Stored(val % Power(n), n)
  /\ UNCHANGED <<clang, val>>

Next ==
  \/ \E n \in 2 .. 4 : LoadLittle(n) \/ LoadBig(n) \/ StoreLittle(n)
  \/ \E n \in 2 .. 3 : StoreSigned(n)
  \/ LoadSigned24

Spec == Init /\ [][Next]_vars

-----------------------------------------------------------------------------
Does(names) == moves' # moves /\ Last(moves').op \in names
Width == Last(moves').n

\* A load that follows a store of the same width.
AfterStore == moves # <<>> /\ Last(moves).op \in {"st_ule", "st_sle"} /\ Last(moves).n = Width
AfterLoad(names) == moves # <<>> /\ Last(moves).op \in names /\ Last(moves).n = Width

\* Loads and stores undo each other in every build: a number comes back modulo
\* its width, and as itself if it is signed and fits, the most negative one
\* included; a buffer comes back as it was, and backwards if it was read the
\* other way round; the first byte is the low one, or the last of a big-endian
\* number; and no store touches what is beyond its width.
RoundTrips ==
  [][/\ Does({"ld_ule", "ld_sle"}) /\ AfterStore => (val' - val) % Power(Width) = 0
     /\ Does({"ld_sle"}) /\ AfterStore /\ val \in -Sign .. Sign - 1 => val' = val
     /\ Does({"ld_sle"}) => val' \in -Sign .. Sign - 1
     /\ Does({"ld_ule", "ld_ube"}) => val' \in 0 .. Power(Width) - 1
     /\ Does({"ld_ule", "ld_sle"}) => val' % Byte = buf[1]
     /\ Does({"ld_ube"}) => val' % Byte = buf[Width]
     /\ Does({"st_ule", "st_sle"}) /\ AfterLoad({"ld_ule", "ld_sle"}) => buf' = buf
     /\ Does({"st_ule", "st_sle"}) /\ AfterLoad({"ld_ube"}) =>
          \A i \in 1 .. Width : buf'[i] = buf[Width + 1 - i]
     /\ Does({"st_ule", "st_sle"}) => \A i \in Width + 1 .. 4 : buf'[i] = buf[i]]_vars
=============================================================================
