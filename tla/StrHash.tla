------------------------------- MODULE StrHash -------------------------------
(***************************************************************************)
(* cop_strh_init_shallow of cop_strtypes.h: two strings in memory are      *)
(* turned into handles, one character at a time, and compared the way the  *)
(* dictionary does.  Characters have Char values and hashes Word, 256 and  *)
(* 2^32 in the code, and the constants of the hash are scaled with them.   *)
(***************************************************************************)
EXTENDS Integers, Sequences, FiniteSetsExt

CONSTANTS
  Char,       \* The number of values of a char.
  Word,       \* The number of values of a hash.
  Basis,      \* The hash of no characters.
  Prime,      \* What it is multiplied by.
  Size        \* Bound: the memory of a string, its terminator included.

\* What the constants may be.
StrHashConstants ==
  /\ Char \in Nat /\ Char > 0 /\ Char % 2 = 0 /\ Word \in Nat /\ Word % Char = 0
  /\ Basis \in 0 .. Word - 1 /\ Prime \in Nat /\ Size \in Nat \ {0}

VARIABLES
  signed_char, \* Whether a plain char is signed in this build.
  text,        \* The memory of the two strings.
  hash,        \* The loop's variables.
  length,
  handle       \* The handles made so far.

vars == <<signed_char, text, hash, length, handle>>

Strings == {s \in [1 .. Size -> 0 .. Char - 1] : s[Size] = 0}

Init ==
  /\ signed_char \in BOOLEAN
  /\ text \in [1 .. 2 -> Strings]
  /\ hash = Basis /\ length = 0
  /\ handle = <<>>

\* The string that is being read.
Current == text[Len(handle) + 1]

\* A char as an unsigned number of the width of a hash.
Widened(ch) == IF signed_char /\ ch >= Char \div 2 THEN Word - Char + ch ELSE ch

\* The exclusive or of two hashes, bit by bit.
Xor(x, y) ==
  MapThenSumSet(LAMBDA i : 2^i * ((x \div 2^i + y \div 2^i) % 2), {i \in 0 .. Word : 2^i < Word})

Busy == Len(handle) < 2

\* One iteration: a character that is not the terminator.
Mix ==
  /\ Busy /\ Current[length + 1] # 0
  /\ length' = length + 1
  /\ hash' = (Xor(hash, Widened(Current[length + 1])) * Prime) % Word
  /\ UNCHANGED <<signed_char, text, handle>>

\* Slip: the next string goes on with the hash of the last.
FinishKeepHash ==
  /\ Busy /\ Current[length + 1] = 0
  /\ handle' = Append(handle, [len |-> length + 1, hash |-> hash])
  /\ length' = 0
  /\ UNCHANGED <<signed_char, text, hash>>

\* The terminator is counted and not hashed; the next call starts afresh.
Finish ==
  /\ Busy /\ Current[length + 1] = 0
  /\ handle' = Append(handle, [len |-> length + 1, hash |-> hash])
  /\ hash' = Basis /\ length' = 0
  /\ UNCHANGED <<signed_char, text>>

Next == Mix \/ Finish

Spec == Init /\ [][Next]_vars

-----------------------------------------------------------------------------
\* The string up to its terminator.
Content(s) == SubSeq(s, 1, (CHOOSE i \in 1 .. Size : s[i] = 0 /\ \A j \in 1 .. i - 1 : s[j] # 0) - 1)

\* memcmp of the memory of the two handles.
SameMemory == SubSeq(text[1], 1, handle[1].len) = SubSeq(text[2], 1, handle[2].len)

\* The dictionary finds a string by its length, its hash and its bytes, the
\* counted terminator included: two handles agree in all of them exactly when the
\* strings are the same, whatever lies in memory after them, also for characters
\* that are negative as plain chars.
HandlesAgree ==
  ~Busy =>
    (handle[1] = handle[2] /\ SameMemory <=> Content(text[1]) = Content(text[2]))
=============================================================================
