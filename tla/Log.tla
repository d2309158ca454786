--------------------------------- MODULE Log ---------------------------------
(***************************************************************************)
(* Which log calls of cop_log.h reach the application's callback, in a     *)
(* build with any setting of the flags, as macros (C99) or as functions.   *)
(***************************************************************************)
EXTENDS Naturals, Sequences

CONSTANTS
  Tags,        \* What a client may pass as tags.
  MaxCalls,    \* Bound on the log calls.
  NULL

\* What the constants may be.
LogConstants == MaxCalls \in Nat /\ NULL \notin Tags

VARIABLES
  build,       \* The flags on the command line of the compiler.
  iface,       \* Whether the client has a log interface.
  calls,       \* History: the log calls made.
  events       \* What the callback was given.

log_vars == <<build, iface, calls, events>>

Types == {"trace", "debug", "warning", "error"}
Flag == {"undefined", "zero", "one"}

Init ==
  /\ build \in [c99 : BOOLEAN, ndebug : BOOLEAN, file_tag : Flag,
                trace : Flag, debug : Flag, warning : Flag, error : Flag]
  /\ iface \in BOOLEAN
  /\ calls = <<>> /\ events = <<>>

-----------------------------------------------------------------------------
\* A flag that is not defined gets its default.
Defaulted(flag, default) == IF flag = "undefined" THEN default ELSE flag = "one"

\* Slip: leaves out that a build with traces has debug messages.
DebugIgnoresTrace(type) ==
  CASE type = "trace" -> Defaulted(build.trace, FALSE)
    [] type = "debug" -> Defaulted(build.debug, ~build.ndebug)
    [] type = "warning" -> Defaulted(build.warning, TRUE)
    [] type = "error" -> Defaulted(build.error, TRUE)

\* COP_LOG_TRACE_ENABLE and its kin, after the defaults.
Enabled(type) ==
  CASE type = "trace" -> Defaulted(build.trace, FALSE)
    [] type = "debug" -> Defaulted(build.debug, ~build.ndebug \/ Defaulted(build.trace, FALSE))
    [] type = "warning" -> Defaulted(build.warning, TRUE)
    [] type = "error" -> Defaulted(build.error, TRUE)

\* COP_LOG_DEFAULT_TAG_ARG and COP_LOG_ADDITIONAL_TAG_STR: a macro knows where
\* it is used.
FileTag == IF Defaulted(build.file_tag, TRUE) THEN <<"file">> ELSE <<>>

\* What the macro passes as tags, with or without the caller's.
MacroTags(tags) ==
  IF tags # NULL THEN Append(FileTag, tags)
  ELSE IF FileTag = <<>> THEN NULL ELSE FileTag

\* And what the function does.
FunctionTags(tags) == IF tags = NULL THEN NULL ELSE <<tags>>

\* The callback, called with the type, the tags and the client's arguments.
Deliver(type, tags, arg) == events' = Append(events, [type |-> type, tags |-> tags, arg |-> arg])

Called(type, tags, arg) ==
  /\ Len(calls) < MaxCalls
  /\ calls' = Append(calls, [type |-> type, tags |-> tags, arg |-> arg])

\* The C99 macros, which come to nothing or to a call of cop_log__c99.
LogMacro(type, tags, arg) ==
  /\ build.c99 /\ Called(type, tags, arg)
  /\ IF Enabled(type) /\ iface THEN Deliver(type, MacroTags(tags), arg) ELSE UNCHANGED events
  /\ UNCHANGED <<build, iface>>

\* LOG_ENABLE_FN and LOG_DISABLE_FN: functions with or without a body.
LogFunction(type, tags, arg) ==
  /\ ~build.c99 /\ Called(type, tags, arg)
  /\ IF Enabled(type) /\ iface THEN Deliver(type, FunctionTags(tags), arg) ELSE UNCHANGED events
  /\ UNCHANGED <<build, iface>>

\* The n-th call's arguments are number n.
Next ==
  \E type \in Types, tags \in Tags \cup {NULL} :
    LogMacro(type, tags, Len(calls) + 1) \/ LogFunction(type, tags, Len(calls) + 1)

Spec == Init /\ [][Next]_log_vars

-----------------------------------------------------------------------------
Delivered(i) == \E j \in DOMAIN events : events[j].arg = i

\* Which messages a build has (cop_log.h:62-71).  Debug messages come with traces
\* unless their own flag decides.  For warnings and errors the comment at :68-71
\* says the opposite of what the code does: that a flag of zero keeps them.
Exists(type) ==
  CASE type = "trace" -> build.trace = "one"
    [] type = "debug" -> \/ build.debug = "one"
                         \/ build.debug = "undefined" /\ (~build.ndebug \/ build.trace = "one")
    [] type \in {"warning", "error"} -> build[type] # "zero"

\* The tags the callback is to see: the file of the call, which only a macro
\* knows and only if its flag is not zero, before those of the caller.
FileTagged == build.c99 /\ build.file_tag # "zero"
TagsOf(tags) ==
  IF FileTagged THEN IF tags = NULL THEN <<"file">> ELSE <<"file", tags>>
  ELSE IF tags = NULL THEN NULL ELSE <<tags>>

\* In every build, as macros or as functions, the callback is given just the
\* calls whose message exists in that build, each once and in the order they
\* were made, with its type, the caller's tags, and before them the file where
\* the build has it; and nothing without a log interface.
LogsDelivered ==
  /\ \A i \in DOMAIN calls : Delivered(i) <=> iface /\ Exists(calls[i].type)
  /\ \A j \in DOMAIN events :
       /\ \A k \in DOMAIN events : j < k => events[j].arg < events[k].arg
       /\ events[j].arg \in DOMAIN calls
       /\ events[j].type = calls[events[j].arg].type
       /\ events[j].tags = TagsOf(calls[events[j].arg].tags)
=============================================================================
