----------------------------- MODULE MCHeaders -----------------------------
(* One client of one of the header-only parts, in one of its builds: every    *)
(* vector type in every implementation, both compilers' loads, signed and     *)
(* unsigned chars, and every setting of the log flags.                        *)
EXTENDS Integers, Sequences

CONSTANTS MaxSteps, Byte, MaxMoves, Char, Word, Basis, Prime, Size, Tags, MaxCalls, NULL

Kinds == ({"v4f", "v2d", "v8f", "v4d"} \X {"builtin", "intrinsic"}) \cup {<<"v4f", "neon">>}

VARIABLES
  client,
  type, implementation, regs, mem, last, steps,
  clang, buf, val, moves,
  signed_char, text, hash, length, handle,
  build, iface, calls, events

vec_vars == <<type, implementation, regs, mem, last, steps>>
conversion_vars == <<clang, buf, val, moves>>
hash_vars == <<signed_char, text, hash, length, handle>>
log_vars == <<build, iface, calls, events>>

V == INSTANCE VecLanes
C == INSTANCE Conversions
H == INSTANCE StrHash
G == INSTANCE Log

ASSUME HeadersConstants ==
  V!KindsOK /\ C!ConversionsConstants /\ H!StrHashConstants /\ G!LogConstants

NoVec == /\ type = NULL /\ implementation = NULL /\ regs = NULL
         /\ mem = NULL /\ last = NULL /\ steps = NULL
NoConversion == clang = NULL /\ buf = NULL /\ val = NULL /\ moves = NULL
NoHash == /\ signed_char = NULL /\ text = NULL /\ hash = NULL
          /\ length = NULL /\ handle = NULL
NoLog == build = NULL /\ iface = NULL /\ calls = NULL /\ events = NULL

Init ==
  \/ client = "vectors" /\ V!Init /\ NoConversion /\ NoHash /\ NoLog
  \/ client = "conversions" /\ NoVec /\ C!Init /\ NoHash /\ NoLog
  \/ client = "hash" /\ NoVec /\ NoConversion /\ H!Init /\ NoLog
  \/ client = "log" /\ NoVec /\ NoConversion /\ NoHash /\ G!Init

Next ==
  /\ UNCHANGED client
  /\ \/ client = "vectors" /\ V!Next /\ UNCHANGED <<conversion_vars, hash_vars, log_vars>>
     \/ client = "conversions" /\ C!Next /\ UNCHANGED <<vec_vars, hash_vars, log_vars>>
     \/ client = "hash" /\ H!Next /\ UNCHANGED <<vec_vars, conversion_vars, log_vars>>
     \/ client = "log" /\ G!Next /\ UNCHANGED <<vec_vars, conversion_vars, hash_vars>>

Spec == Init /\ [][Next]_<<client, vec_vars, conversion_vars, hash_vars, log_vars>>

\* What each part promises, of its own client (see VecLanes, Conversions, StrHash
\* and Log).
LanesRight == V!LanesRight
RoundTrips == C!RoundTrips
HandlesAgree == client = "hash" => H!HandlesAgree
LogsDelivered == client = "log" => G!LogsDelivered
=============================================================================
