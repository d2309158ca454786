---------------------------- MODULE FileMapProofs ----------------------------
(***************************************************************************)
(* Proofs about FileMap, for any clients and any size of buffer: every     *)
(* call leaves in place what the calls that interleave with it rely on, a  *)
(* mapped file is not changed behind its client's back on Windows, and     *)
(* maps allow what they were opened for.                                   *)
(***************************************************************************)
EXTENDS FileMap, TLAPS

USE SizeAssumption

AllLocations == Locations \cup Dumping
Accesses == SUBSET {"r", "w"}
Holdings == SUBSET {"name", "mapping", "view"}
Answers == {-1, 0, ERR_FILE, ERR_MAPPING}

\* Names and mapping objects are for Windows, what fclose writes is not.
OnPlatform(c) ==
  /\ pc[c] \in {"name", "mapping", "dump_name"} => Windows
  /\ pc[c] = "dump_close" => ~Windows

\* What a map opened with f allows.
Allowed(f) ==
  IF Windows THEN mapaccess(f)
  ELSE prot(f) \cup IF {"W", "SHARED"} \subseteq f THEN {"through"} ELSE {}

\* What one client's state says of another is only in SizeInStep: the rest of
\* the invariant is about each client alone.
Local(c) ==
  /\ At(c, "idle") => file[c] = {} /\ held[c] = {}
  /\ At(c, "mapped") =>
       IF Windows THEN held[c] = {"mapping", "view"} /\ file[c] # {}
                  ELSE held[c] = {"view"} /\ file[c] = {}
  /\ file[c] = CASE pc[c] \in {"size", "mapping", "view"} -> faccess(flags[c])
                 [] At(c, "mapped") /\ Windows -> faccess(flags[c])
                 [] pc[c] \in {"dump_write", "dump_close"} -> {"w"}
                 [] OTHER -> {}
  /\ "name" \in held[c] <=> Windows /\ pc[c] \in {"open", "dump_open", "dump_write"}
  /\ "mapping" \in held[c] => Windows /\ pc[c] \in {"view", "mapped"}
  /\ "view" \in held[c] <=> At(c, "mapped")
  /\ rights[c] # {} <=> At(c, "mapped")
  /\ OnPlatform(c)
  /\ At(c, "mapped") => rights[c] = Allowed(flags[c])

StrongInv == TypeOK /\ (\A c \in Clients : Local(c)) /\ SizeInStep

LEMMA StrongIsStronger == StrongInv => IInv
BY DEF StrongInv, IInv, Local, NothingLeaks, HeldInCall

LEMMA InitInv == Init => StrongInv
<1> SUFFICES ASSUME Init PROVE StrongInv
  OBVIOUS
<1>1. TypeOK
  BY DEF Init, TypeOK, Locations, Dumping, ERR_FILE, ERR_MAPPING
<1>2. \A c \in Clients : Local(c)
  BY DEF Init, Local, OnPlatform, At
<1>3. SizeInStep
  BY DEF Init, SizeInStep
<1> QED
  BY <1>1, <1>2, <1>3 DEF StrongInv

-----------------------------------------------------------------------------
(* What a step of one client leaves as it was. *)

Others(c) ==
  \A b \in Clients \ {c} :
    /\ pc'[b] = pc[b] /\ flags'[b] = flags[b] /\ file'[b] = file[b]
    /\ held'[b] = held[b] /\ rights'[b] = rights[b] /\ amount'[b] = amount[b]

LEMMA GotoFacts ==
  ASSUME TypeOK, NEW c \in Clients, NEW l \in AllLocations, NEW a \in Accesses,
         NEW h \in Holdings, Goto(c, l, a, h)
  PROVE  /\ pc' \in [Clients -> AllLocations] /\ pc'[c] = l
         /\ file' \in [Clients -> Accesses] /\ file'[c] = a
         /\ held' \in [Clients -> Holdings] /\ held'[c] = h
         /\ answer' \in [Clients -> Answers]
         /\ \A b \in Clients \ {c} :
              pc'[b] = pc[b] /\ file'[b] = file[b] /\ held'[b] = held[b]
BY DEF Set, TypeOK, Goto, AllLocations, Accesses, Holdings, Answers

LEMMA ReturnFacts ==
  ASSUME TypeOK, NEW c \in Clients, NEW e \in Answers, NEW a \in Accesses,
         NEW h \in Holdings, Return(c, e, a, h)
  PROVE  /\ pc' \in [Clients -> AllLocations]
         /\ pc'[c] = IF "view" \in h THEN "mapped" ELSE "idle"
         /\ file' \in [Clients -> Accesses] /\ file'[c] = a
         /\ held' \in [Clients -> Holdings] /\ held'[c] = h
         /\ answer' \in [Clients -> Answers]
         /\ \A b \in Clients \ {c} :
              pc'[b] = pc[b] /\ file'[b] = file[b] /\ held'[b] = held[b]
<1>1. (IF "view" \in h THEN "mapped" ELSE "idle") \in AllLocations
  BY DEF AllLocations, Locations
<1> QED
  BY <1>1 DEF Set, TypeOK, Return, AllLocations, Accesses, Holdings, Answers

LEMMA OthersLocal ==
  ASSUME StrongInv, NEW c \in Clients, Others(c), UNCHANGED platform, Local(c)'
  PROVE  \A b \in Clients : Local(b)'
<1> SUFFICES ASSUME NEW b \in Clients \ {c} PROVE Local(b)'
  OBVIOUS
<1>1. Local(b)
  BY DEF StrongInv
<1> QED
  BY <1>1 DEF Others, Local, OnPlatform, Allowed, At, Windows

\* A client with an open file shares it for reading only, and only a client that
\* has it to itself changes its size.
LEMMA SizeStep ==
  ASSUME StrongInv, NEW c \in Clients, Others(c), UNCHANGED platform,
         \A b \in Clients : Local(b)',
         file'[c] \in {{}, file[c]} \/ Grants(c, file'[c]) \/ ~Windows,
         \/ content'.size = content.size \/ ~Windows
         \/ \A b \in Clients \ {c} : file[b] = {},
         Windows /\ pc'[c] \in {"mapping", "view", "mapped"} => amount'[c] = content'.size
  PROVE  SizeInStep'
<1> SUFFICES ASSUME Windows
             PROVE  \A b \in Clients :
                      /\ file'[b] # {} => \A d \in Clients \ {b} : file'[d] # {} =>
                           file'[b] \cup file'[d] \subseteq ShareMode
                      /\ pc'[b] \in {"mapping", "view", "mapped"} => amount'[b] = content'.size
  BY DEF SizeInStep, Windows, Grants
<1>1. \A b, d \in Clients : b # d /\ file[b] # {} /\ file[d] # {} =>
        file[b] \cup file[d] \subseteq ShareMode
  BY DEF StrongInv, SizeInStep, Grants
<1>2. \A d \in Clients \ {c} : file'[c] # {} /\ file[d] # {} =>
        file'[c] \cup file[d] \subseteq ShareMode
  BY <1>1 DEF Grants
<1>3. ASSUME NEW b \in Clients, NEW d \in Clients \ {b}, file'[b] # {}, file'[d] # {}
      PROVE  file'[b] \cup file'[d] \subseteq ShareMode
  <2>1. CASE b = c
    BY <1>2, <1>3, <2>1 DEF Others
  <2>2. CASE d = c
    BY <1>2, <1>3, <2>2 DEF Others
  <2>3. CASE b # c /\ d # c
    BY <1>1, <1>3, <2>3 DEF Others
  <2> QED
    BY <2>1, <2>2, <2>3
<1>4. ASSUME NEW b \in Clients \ {c}, pc'[b] \in {"mapping", "view", "mapped"}
      PROVE  amount'[b] = content'.size
  <2>1. pc[b] = pc'[b] /\ amount'[b] = amount[b]
    BY DEF Others
  <2>2. amount[b] = content.size
    BY <1>4, <2>1 DEF StrongInv, SizeInStep
  <2>3. file[b] # {}
    BY <1>4, <2>1 DEF StrongInv, Local, At, faccess
  <2> QED
    BY <2>1, <2>2, <2>3
<1> QED
  BY <1>3, <1>4

-----------------------------------------------------------------------------
(* The ways a call goes on. *)

Content == [size : 0 .. Size, by : Clients \cup {"nobody"}]

\* A call that has not mapped the file returns and holds nothing.
LEMMA GivesUp ==
  ASSUME StrongInv, NEW c \in Clients, pc[c] # "mapped",
         NEW e \in Answers, Return(c, e, {}, {}), UNCHANGED <<platform, flags, rights>>,
         amount' \in [Clients -> 0 .. Size], \A b \in Clients \ {c} : amount'[b] = amount[b],
         content' \in Content,
         \/ content'.size = content.size \/ ~Windows
         \/ \A b \in Clients \ {c} : file[b] = {}
  PROVE  StrongInv'
<1>1. /\ pc' \in [Clients -> AllLocations] /\ pc'[c] = "idle"
      /\ file' \in [Clients -> Accesses] /\ file'[c] = {}
      /\ held' \in [Clients -> Holdings] /\ held'[c] = {}
      /\ answer' \in [Clients -> Answers]
      /\ \A b \in Clients \ {c} :
           pc'[b] = pc[b] /\ file'[b] = file[b] /\ held'[b] = held[b]
  <2>1. {} \in Accesses /\ {} \in Holdings /\ "view" \notin {}
    BY DEF Accesses, Holdings
  <2> QED
    BY <2>1, ReturnFacts DEF StrongInv
<1>2. TypeOK'
  BY <1>1 DEF StrongInv, TypeOK, AllLocations, Accesses, Holdings, Answers, Content
<1>3. Others(c)
  BY <1>1 DEF Others
<1>4. Local(c)'
  BY <1>1 DEF StrongInv, Local, OnPlatform, At
<1>5. \A b \in Clients : Local(b)'
  BY <1>3, <1>4, OthersLocal
<1>6. SizeInStep'
  BY <1>1, <1>3, <1>5, SizeStep
<1> QED
  BY <1>2, <1>5, <1>6 DEF StrongInv

\* What a call that goes on at l has to hold there.
Holds(c, l, a, h) ==
  /\ a = CASE l \in {"size", "mapping", "view"} -> faccess(flags'[c])
           [] l \in {"dump_write", "dump_close"} -> {"w"}
           [] OTHER -> {}
  /\ "name" \in h <=> Windows /\ l \in {"open", "dump_open", "dump_write"}
  /\ "mapping" \in h => Windows /\ l = "view"
  /\ "view" \notin h
  /\ l \in {"name", "mapping", "dump_name"} => Windows
  /\ l = "dump_close" => ~Windows

LEMMA GoesOn ==
  ASSUME StrongInv, NEW c \in Clients, pc[c] # "mapped",
         NEW l \in AllLocations \ {"idle", "mapped"}, NEW a \in Accesses, NEW h \in Holdings,
         Goto(c, l, a, h), UNCHANGED <<platform, rights>>,
         flags' \in [Clients -> Flags \cup {{}}], \A b \in Clients \ {c} : flags'[b] = flags[b],
         amount' \in [Clients -> 0 .. Size], \A b \in Clients \ {c} : amount'[b] = amount[b],
         content' \in Content, Holds(c, l, a, h),
         a \in {{}, file[c]} \/ Grants(c, a) \/ ~Windows,
         \/ content'.size = content.size \/ ~Windows
         \/ \A b \in Clients \ {c} : file[b] = {},
         Windows /\ l \in {"mapping", "view"} => amount'[c] = content'.size
  PROVE  StrongInv'
<1>1. /\ pc' \in [Clients -> AllLocations] /\ pc'[c] = l
      /\ file' \in [Clients -> Accesses] /\ file'[c] = a
      /\ held' \in [Clients -> Holdings] /\ held'[c] = h
      /\ answer' \in [Clients -> Answers]
      /\ \A b \in Clients \ {c} :
           pc'[b] = pc[b] /\ file'[b] = file[b] /\ held'[b] = held[b]
  BY GotoFacts DEF StrongInv
<1>2. TypeOK'
  BY <1>1 DEF StrongInv, TypeOK, AllLocations, Accesses, Holdings, Answers, Content
<1>3. Others(c)
  BY <1>1 DEF Others
<1>4. Local(c)'
  <2>1. rights'[c] = {}
    BY DEF StrongInv, Local, At
  <2> QED
    BY <1>1, <2>1 DEF Holds, Local, OnPlatform, At, Windows
<1>5. \A b \in Clients : Local(b)'
  BY <1>3, <1>4, OthersLocal
<1>6. SizeInStep'
  BY <1>1, <1>3, <1>5, SizeStep
<1> QED
  BY <1>2, <1>5, <1>6 DEF StrongInv

LEMMA Types ==
  ASSUME StrongInv, NEW c \in Clients
  PROVE  /\ content \in Content /\ content.size \in 0 .. Size
         /\ amount \in [Clients -> 0 .. Size] /\ flags \in [Clients -> Flags \cup {{}}]
         /\ file[c] \in Accesses /\ held[c] \in Holdings
         /\ faccess(flags[c]) \in Accesses
BY DEF StrongInv, TypeOK, Content, Accesses, Holdings, faccess

\* What a client that is alone with the file makes of it.
LEMMA NewContent ==
  ASSUME NEW c \in Clients, NEW n \in 0 .. Size
  PROVE  [size |-> n, by |-> c] \in Content
BY DEF Content

LEMMA Constants ==
  /\ {} \in Accesses /\ {"w"} \in Accesses
  /\ {} \in Holdings /\ {"name"} \in Holdings /\ {"mapping"} \in Holdings
  /\ Locations \cup Dumping = AllLocations
  /\ -1 \in Answers /\ 0 \in Answers /\ ERR_FILE \in Answers /\ ERR_MAPPING \in Answers
BY DEF Accesses, Holdings, AllLocations, Answers

-----------------------------------------------------------------------------
(* cop_filemap_open *)

LEMMA NameStep ==
  ASSUME StrongInv, NEW c \in Clients, Name(c)
  PROVE  StrongInv'
<1>1. pc[c] \in {"name", "dump_name"} /\ Windows
  BY DEF Name, At, StrongInv, Local, OnPlatform
<1>2. CASE Return(c, -1, {}, {})
  BY <1>1, <1>2, Types, Constants, GivesUp DEF Name, Opened
<1>3. CASE Goto(c, IF At(c, "name") THEN "open" ELSE "dump_open", {}, {"name"})
  <2> DEFINE l == IF At(c, "name") THEN "open" ELSE "dump_open"
  <2>1. l \in {"open", "dump_open"} /\ l \in AllLocations \ {"idle", "mapped"}
    BY DEF AllLocations, Locations, Dumping
  <2>2. Holds(c, l, {}, {"name"})
    BY <1>1, <2>1 DEF Holds
  <2> HIDE DEF l
  <2>3. Goto(c, l, {}, {"name"})
    BY <1>3 DEF l
  <2> QED
    BY <1>1, <2>1, <2>2, <2>3, Types, Constants, GoesOn DEF Name, Opened
<1> QED
  BY <1>2, <1>3 DEF Name

LEMMA OpenStep ==
  ASSUME StrongInv, NEW c \in Clients, WinOpen(c) \/ PosixOpen(c)
  PROVE  StrongInv'
<1>1. pc[c] = "open" /\ UNCHANGED <<platform, flags, rights, amount, content>>
  BY DEF WinOpen, PosixOpen, At, Opened
<1>2. CASE \E e \in Answers : Return(c, e, {}, {})
  BY <1>1, <1>2, Types, Constants, GivesUp
<1>3. CASE ~\E e \in Answers : Return(c, e, {}, {})
  <2> DEFINE a == faccess(flags[c])
  <2>1. Goto(c, "size", a, {}) /\ (Grants(c, a) \/ ~Windows)
    BY <1>3, Constants DEF WinOpen, PosixOpen, faccess, oflags
  <2>2. Holds(c, "size", a, {})
    BY <1>1 DEF Holds
  <2>3. "size" \in AllLocations \ {"idle", "mapped"} /\ a \in Accesses
    BY Types DEF AllLocations, Locations
  <2> HIDE DEF a
  <2> QED
    BY <1>1, <2>1, <2>2, <2>3, Types, Constants, GoesOn
<1> QED
  BY <1>2, <1>3

LEMMA SizeMeasuredStep ==
  ASSUME StrongInv, NEW c \in Clients, WinSize(c) \/ PosixStat(c)
  PROVE  StrongInv'
<1>1. pc[c] = "size" /\ UNCHANGED <<platform, flags, rights, content>>
      /\ (UNCHANGED amount \/ amount' = Set(amount, c, content.size))
  BY DEF WinSize, PosixStat, At
<1>2. /\ amount' \in [Clients -> 0 .. Size]
      /\ \A b \in Clients \ {c} : amount'[b] = amount[b]
  BY <1>1, Types DEF Set
<1>3. CASE \E e \in Answers : Return(c, e, {}, {})
  BY <1>1, <1>2, <1>3, Types, GivesUp
<1>4. CASE ~\E e \in Answers : Return(c, e, {}, {})
  <2>1. PICK l \in {"mapping", "view"} :
          Goto(c, l, file[c], {}) /\ amount' = Set(amount, c, content.size)
          /\ (l = "mapping" => Windows)
    BY <1>4, Constants DEF WinSize, PosixStat
  <2>2. amount'[c] = content'.size
    BY <1>1, <2>1, Types DEF Set
  <2>3. file[c] = faccess(flags'[c])
    BY <1>1 DEF StrongInv, Local
  <2>4. Holds(c, l, file[c], {})
    BY <2>1, <2>3 DEF Holds
  <2>5. l \in AllLocations \ {"idle", "mapped"}
    BY DEF AllLocations, Locations
  <2> QED
    BY <1>1, <1>2, <2>1, <2>2, <2>4, <2>5, Types, Constants, GoesOn
<1> QED
  BY <1>3, <1>4

LEMMA MappingStep ==
  ASSUME StrongInv, NEW c \in Clients, WinMapping(c)
  PROVE  StrongInv'
<1>1. PICK h \in {{}, {"mapping"}} : Goto(c, "view", file[c], h)
  BY DEF WinMapping
<1>2. pc[c] = "mapping" /\ UNCHANGED <<platform, flags, rights, amount, content>>
  BY DEF WinMapping, At, Opened
<1>3. Windows /\ file[c] = faccess(flags[c])
  BY <1>2 DEF StrongInv, Local, OnPlatform
<1>4. amount[c] = content.size
  BY <1>2, <1>3 DEF StrongInv, SizeInStep
<1>5. Holds(c, "view", file[c], h)
  BY <1>2, <1>3 DEF Holds
<1>6. "view" \in AllLocations \ {"idle", "mapped"} /\ h \in Holdings
  BY Constants DEF AllLocations, Locations
<1> QED
  BY <1>1, <1>2, <1>4, <1>5, <1>6, Types, GoesOn

\* The file is mapped, on either system.
LEMMA ViewStep ==
  ASSUME StrongInv, NEW c \in Clients, WinView(c) \/ PosixMap(c)
  PROVE  StrongInv'
<1>1. pc[c] = "view" /\ UNCHANGED <<platform, flags, amount, content>>
  BY DEF WinView, PosixMap, At
<1>2. CASE \E e \in Answers : Return(c, e, {}, {}) /\ UNCHANGED rights
  BY <1>1, <1>2, Types, GivesUp
<1>3. CASE ~\E e \in Answers : Return(c, e, {}, {}) /\ UNCHANGED rights
  <2> DEFINE a == IF Windows THEN file[c] ELSE {}
             h == IF Windows THEN {"mapping", "view"} ELSE {"view"}
  <2>1. rights' = Set(rights, c, Allowed(flags[c])) /\ Return(c, 0, a, h)
    BY <1>3, Constants DEF WinView, PosixMap, Allowed
  <2>2. a \in Accesses /\ h \in Holdings /\ "view" \in h
    BY Types, Constants DEF Holdings
  <2>3. file[c] = faccess(flags[c]) /\ faccess(flags[c]) # {}
    BY <1>1 DEF StrongInv, Local, faccess
  <2>4. Allowed(flags[c]) \in SUBSET {"r", "w", "through"} /\ Allowed(flags[c]) # {}
    BY DEF Allowed, mapaccess, prot
  <2>5. /\ pc' \in [Clients -> AllLocations] /\ pc'[c] = "mapped"
        /\ file' \in [Clients -> Accesses] /\ file'[c] = a
        /\ held' \in [Clients -> Holdings] /\ held'[c] = h
        /\ answer' \in [Clients -> Answers]
        /\ \A b \in Clients \ {c} :
             pc'[b] = pc[b] /\ file'[b] = file[b] /\ held'[b] = held[b]
    <3> HIDE DEF a, h
    <3> QED
      BY <2>1, <2>2, Constants, ReturnFacts DEF StrongInv
  <2>6. /\ rights' \in [Clients -> SUBSET {"r", "w", "through"}]
        /\ rights'[c] = Allowed(flags[c])
        /\ \A b \in Clients \ {c} : rights'[b] = rights[b]
    BY <2>1, <2>4 DEF Set, StrongInv, TypeOK
  <2>7. TypeOK'
    BY <1>1, <2>5, <2>6 DEF StrongInv, TypeOK, AllLocations, Accesses, Holdings, Answers
  <2>8. Others(c)
    BY <1>1, <2>5, <2>6 DEF Others
  <2>9. Local(c)'
    BY <1>1, <2>3, <2>4, <2>5, <2>6 DEF Local, OnPlatform, At, Allowed, Windows
  <2>10. \A b \in Clients : Local(b)'
    BY <1>1, <2>8, <2>9, OthersLocal
  <2>11. Windows => amount'[c] = content'.size
    BY <1>1 DEF StrongInv, SizeInStep
  <2>12. SizeInStep'
    BY <1>1, <2>5, <2>8, <2>10, <2>11, SizeStep
  <2> QED
    BY <2>7, <2>10, <2>12 DEF StrongInv
<1> QED
  BY <1>2, <1>3

-----------------------------------------------------------------------------
(* cop_file_dump *)

\* Whoever has the file open to write, on Windows, has it to itself.
LEMMA Alone ==
  ASSUME StrongInv, NEW c \in Clients, Grants(c, {"w"})
  PROVE  \A b \in Clients \ {c} : file[b] = {}
BY DEF Grants, ShareMode

LEMMA DumpOpenStep ==
  ASSUME StrongInv, NEW c \in Clients, WinDumpOpen(c) \/ PosixDumpOpen(c)
  PROVE  StrongInv'
<1>1. pc[c] = "dump_open" /\ UNCHANGED <<platform, flags, rights, amount>>
  BY DEF WinDumpOpen, PosixDumpOpen, At
<1>2. CASE \E e \in Answers : Return(c, e, {}, {}) /\ UNCHANGED content
  BY <1>1, <1>2, Types, GivesUp
<1>3. CASE ~\E e \in Answers : Return(c, e, {}, {}) /\ UNCHANGED content
  <2> DEFINE h == IF Windows THEN {"name"} ELSE {}
  <2>1. /\ Goto(c, "dump_write", {"w"}, h) /\ content' = [size |-> 0, by |-> c]
        /\ Grants(c, {"w"}) \/ ~Windows
    BY <1>3, Constants DEF WinDumpOpen, PosixDumpOpen
  <2>2. Holds(c, "dump_write", {"w"}, h) /\ h \in Holdings
    BY Constants DEF Holds
  <2>3. content' \in Content
    BY <2>1, NewContent
  <2>4. "dump_write" \in AllLocations \ {"idle", "mapped"}
    BY DEF AllLocations, Dumping
  <2>5. ~Windows \/ \A b \in Clients \ {c} : file[b] = {}
    BY <2>1, Alone
  <2> HIDE DEF h
  <2> QED
    BY <1>1, <2>1, <2>2, <2>3, <2>4, <2>5, Types, Constants, GoesOn
<1> QED
  BY <1>2, <1>3

LEMMA WinDumpWriteStep ==
  ASSUME StrongInv, NEW c \in Clients, WinDumpWrite(c)
  PROVE  StrongInv'
<1>1. pc[c] = "dump_write" /\ Windows /\ UNCHANGED <<platform, flags, rights>>
  BY DEF WinDumpWrite, At
<1>2. PICK n \in 0 .. Size : content' = [size |-> n, by |-> c] /\ amount' = Set(amount, c, n)
  BY DEF WinDumpWrite
<1>3. PICK e \in Answers : Return(c, e, {}, {})
  BY Constants DEF WinDumpWrite
<1>4. content' \in Content
  BY <1>2, NewContent
<1>5. amount' \in [Clients -> 0 .. Size] /\ \A b \in Clients \ {c} : amount'[b] = amount[b]
  BY <1>2, Types DEF Set
<1>6. file[c] = {"w"}
  BY <1>1 DEF StrongInv, Local, At
<1>7. Grants(c, {"w"})
  BY <1>1, <1>6 DEF StrongInv, SizeInStep
<1> QED
  BY <1>1, <1>3, <1>4, <1>5, <1>7, Alone, GivesUp

\* What fwrite and fclose put in the file.
LEMMA PutFacts ==
  ASSUME StrongInv, NEW c \in Clients, NEW n \in 0 .. Size, Put(c, n)
  PROVE  /\ content' \in Content
         /\ amount' \in [Clients -> 0 .. Size] /\ \A b \in Clients \ {c} : amount'[b] = amount[b]
<1>1. content' = content \/ \E m \in 0 .. Size : content' = [size |-> m, by |-> c]
  BY Types DEF Put
<1> QED
  BY <1>1, Types, NewContent DEF Put, Set

LEMMA PosixDumpWriteStep ==
  ASSUME StrongInv, NEW c \in Clients, PosixDumpWrite(c)
  PROVE  StrongInv'
<1>1. pc[c] = "dump_write" /\ ~Windows /\ UNCHANGED <<platform, flags, rights>>
  BY DEF PosixDumpWrite, At
<1>2. PICK n \in 0 .. Size : Put(c, n)
  BY DEF PosixDumpWrite
<1>3. CASE Return(c, -1, {}, {})
  BY <1>1, <1>2, <1>3, Constants, PutFacts, GivesUp
<1>4. CASE Goto(c, "dump_close", file[c], {})
  <2>1. file[c] = {"w"}
    BY <1>1 DEF StrongInv, Local, At
  <2>2. Holds(c, "dump_close", file[c], {})
    BY <1>1, <2>1 DEF Holds
  <2>3. "dump_close" \in AllLocations \ {"idle", "mapped"}
    BY DEF AllLocations, Dumping
  <2> QED
    BY <1>1, <1>2, <1>4, <2>2, <2>3, Types, Constants, PutFacts, GoesOn
<1> QED
  BY <1>3, <1>4 DEF PosixDumpWrite

LEMMA PosixDumpCloseStep ==
  ASSUME StrongInv, NEW c \in Clients, PosixDumpClose(c)
  PROVE  StrongInv'
<1>1. pc[c] = "dump_close" /\ ~Windows /\ UNCHANGED <<platform, flags, rights>>
      /\ Return(c, 0, {}, {})
  BY DEF PosixDumpClose, At
<1>2. PICK n \in amount[c] .. Size : Put(c, n)
  BY DEF PosixDumpClose
<1>3. n \in 0 .. Size
  <2>1. amount[c] \in 0 .. Size
    BY Types
  <2> QED
    BY <2>1, SizeAssumption
<1> QED
  BY <1>1, <1>2, <1>3, Constants, PutFacts, GivesUp

-----------------------------------------------------------------------------
(* The clients. *)

LEMMA OpenBeginStep ==
  ASSUME StrongInv, NEW c \in Clients, NEW f \in Flags, OpenBegin(c, f)
  PROVE  StrongInv'
<1> DEFINE l == IF Windows THEN "name" ELSE "open"
<1>1. pc[c] = "idle" /\ UNCHANGED <<platform, rights, amount, content>>
      /\ Goto(c, l, {}, {}) /\ flags' = Set(flags, c, f)
  BY DEF OpenBegin, At
<1>2. /\ flags' \in [Clients -> Flags \cup {{}}]
      /\ \A b \in Clients \ {c} : flags'[b] = flags[b]
  BY <1>1, Types DEF Set
<1>3. Holds(c, l, {}, {}) /\ l \in AllLocations \ {"idle", "mapped"}
  BY DEF Holds, AllLocations, Locations
<1>4. ~(Windows /\ l \in {"mapping", "view"})
  OBVIOUS
<1> HIDE DEF l
<1> QED
  BY <1>1, <1>2, <1>3, <1>4, Types, Constants, GoesOn

LEMMA DumpBeginStep ==
  ASSUME StrongInv, NEW c \in Clients, DumpBegin(c)
  PROVE  StrongInv'
<1> DEFINE l == IF Windows THEN "dump_name" ELSE "dump_open"
<1>1. pc[c] = "idle" /\ UNCHANGED <<platform, flags, rights, content>>
      /\ amount' = Set(amount, c, 0)
  BY DEF DumpBegin, At
<1>2. amount' \in [Clients -> 0 .. Size] /\ \A b \in Clients \ {c} : amount'[b] = amount[b]
  BY <1>1, Types, SizeAssumption DEF Set
<1>3. CASE Return(c, -1, {}, {})
  BY <1>1, <1>2, <1>3, Types, Constants, GivesUp
<1>4. CASE Goto(c, l, {}, {})
  <2>1. Holds(c, l, {}, {}) /\ l \in AllLocations \ {"idle", "mapped"}
    BY DEF Holds, AllLocations, Dumping
  <2>2. ~(Windows /\ l \in {"mapping", "view"})
    OBVIOUS
  <2> HIDE DEF l
  <2> QED
    BY <1>1, <1>2, <1>4, <2>1, <2>2, Types, Constants, GoesOn
<1> QED
  BY <1>3, <1>4 DEF DumpBegin

LEMMA CloseStep ==
  ASSUME StrongInv, NEW c \in Clients, close(c)
  PROVE  StrongInv'
<1>1. /\ pc' \in [Clients -> AllLocations] /\ pc'[c] = "idle"
      /\ file' \in [Clients -> Accesses] /\ file'[c] = {}
      /\ held' \in [Clients -> Holdings] /\ held'[c] = {}
      /\ rights' \in [Clients -> SUBSET {"r", "w", "through"}] /\ rights'[c] = {}
      /\ Others(c)
  BY DEF close, Set, Others, StrongInv, TypeOK, AllLocations, Accesses, Holdings, Locations
<1>2. UNCHANGED <<platform, flags, amount, answer, content>>
  BY DEF close
<1>3. TypeOK'
  BY <1>1, <1>2 DEF StrongInv, TypeOK, AllLocations, Accesses, Holdings
<1>4. Local(c)'
  BY <1>1 DEF Local, OnPlatform, At
<1>5. \A b \in Clients : Local(b)'
  BY <1>1, <1>2, <1>4, OthersLocal
<1>6. SizeInStep'
  BY <1>1, <1>2, <1>5, SizeStep
<1> QED
  BY <1>3, <1>5, <1>6 DEF StrongInv

\* The client's own writes keep the size.
LEMMA StoreStep ==
  ASSUME StrongInv, NEW c \in Clients, Store(c)
  PROVE  StrongInv'
<1>1. UNCHANGED <<platform, pc, flags, resources, amount, answer>>
  BY DEF Store
<1>2. content' \in Content /\ content'.size = content.size
  BY Types DEF Store, Content
<1>3. TypeOK'
  BY <1>1, <1>2 DEF StrongInv, TypeOK, resources, Content
<1>4. \A b \in Clients : Local(b)'
  BY <1>1 DEF StrongInv, Local, OnPlatform, Allowed, At, Windows, resources
<1>5. SizeInStep'
  BY <1>1, <1>2 DEF StrongInv, SizeInStep, Grants, Windows, resources
<1> QED
  BY <1>3, <1>4, <1>5 DEF StrongInv

LEMMA NextInv == StrongInv /\ [Next]_vars => StrongInv'
<1> SUFFICES ASSUME StrongInv, [Next]_vars PROVE StrongInv'
  OBVIOUS
<1>1. ASSUME NEW c \in Clients, Call(c) PROVE StrongInv'
  BY <1>1, NameStep, OpenStep, SizeMeasuredStep, MappingStep, ViewStep, DumpOpenStep,
     WinDumpWriteStep, PosixDumpWriteStep, PosixDumpCloseStep DEF Call
<1>2. CASE UNCHANGED vars
  BY <1>2 DEF vars, resources, StrongInv, TypeOK, Local, OnPlatform, Allowed, SizeInStep,
              Grants, At, Windows
<1> QED
  BY <1>1, <1>2, OpenBeginStep, DumpBeginStep, CloseStep, StoreStep DEF Next

LEMMA Strong == Spec => []StrongInv
<1>1. Init => StrongInv
  BY InitInv
<1>2. StrongInv /\ [Next]_vars => StrongInv'
  BY NextInv
<1> QED
  BY <1>1, <1>2, PTL DEF Spec

\* Whichever calls fail and however the clients interleave, no path out of open,
\* dump or close keeps a file, a mapping or a name; on Windows two handles on the
\* file are both for reading, and the size measured stays that of the file.
THEOREM Inductive == Spec => []IInv
<1>1. StrongInv => IInv
  BY StrongIsStronger
<1> QED
  BY <1>1, Strong, PTL

-----------------------------------------------------------------------------
(* Who changes the file. *)

\* Only a dump that has the file open, and a store through a shared map, do.
LEMMA Changes ==
  ASSUME StrongInv, [Next]_vars, content' # content
  PROVE  \E c \in Clients :
           /\ content'.by = c
           /\ \/ At(c, "dump_open") \/ At(c, "dump_write") \/ At(c, "dump_close")
              \/ Store(c) /\ "through" \in rights[c]
           /\ Windows => Grants(c, {"w"})
<1>1. PICK c \in Clients : Call(c) \/ DumpBegin(c) \/ close(c) \/ Store(c)
                           \/ \E f \in Flags : OpenBegin(c, f)
  BY DEF Next, vars
<1>2. WinDumpOpen(c) \/ PosixDumpOpen(c) \/ WinDumpWrite(c) \/ PosixDumpWrite(c)
      \/ PosixDumpClose(c) \/ Store(c)
  BY <1>1 DEF Call, DumpBegin, close, OpenBegin, Name, WinOpen, WinSize, WinMapping, WinView,
              PosixOpen, PosixStat, PosixMap, Opened
<1>3. CASE WinDumpOpen(c) \/ PosixDumpOpen(c)
  BY <1>3 DEF WinDumpOpen, PosixDumpOpen
<1>4. CASE WinDumpWrite(c)
  <2>1. file[c] = {"w"}
    BY <1>4 DEF WinDumpWrite, StrongInv, Local, At
  <2>2. Grants(c, {"w"})
    BY <1>4, <2>1 DEF WinDumpWrite, StrongInv, SizeInStep
  <2> QED
    BY <1>4, <2>2 DEF WinDumpWrite
<1>5. CASE PosixDumpWrite(c) \/ PosixDumpClose(c)
  <2>1. PICK n \in Int : Put(c, n)
    BY <1>5, Types, SizeAssumption DEF PosixDumpWrite, PosixDumpClose
  <2> QED
    BY <1>5, <2>1 DEF Put, PosixDumpWrite, PosixDumpClose
<1>6. CASE Store(c)
  <2>1. "through" \in rights[c] /\ content' = [content EXCEPT !.by = c] /\ At(c, "mapped")
    BY <1>6 DEF Store
  <2>2. content'.by = c
    BY <2>1, Types DEF Content
  <2>3. Windows => {"W", "SHARED"} \subseteq flags[c]
    BY <2>1 DEF StrongInv, Local, Allowed, mapaccess, At
  <2>4. Windows => file[c] = {"r", "w"}
    BY <2>1, <2>3 DEF StrongInv, Local, faccess, At
  <2>5. Windows => Grants(c, {"w"})
    BY <2>4 DEF StrongInv, SizeInStep, Grants, ShareMode
  <2> QED
    BY <1>6, <2>1, <2>2, <2>5
<1> QED
  BY <1>2, <1>3, <1>4, <1>5, <1>6

LEMMA StableStep ==
  ASSUME StrongInv, [Next]_vars, Windows, content' # content,
         NEW b \in Clients \ {content'.by}
  PROVE  ~(pc[b] \in {"mapping", "view", "mapped"})
<1>1. PICK c \in Clients : content'.by = c /\ Grants(c, {"w"})
  BY Changes
<1>2. file[b] = {}
  BY <1>1, Alone
<1> QED
  BY <1>2 DEF StrongInv, Local, At, faccess

\* On Windows the file a client has measured and mapped is changed by nobody
\* else until the map is closed (cop_filemap.c:92-110).
THEOREM Stable == Spec => StableWhileMapped
<1>1. StrongInv /\ [Next]_vars =>
        (Windows /\ content' # content =>
           \A c \in Clients \ {content'.by} : ~(pc[c] \in {"mapping", "view", "mapped"}))
  BY StableStep
<1> QED
  BY <1>1, Strong, PTL DEF Spec, StableWhileMapped

LEMMA AsAskedStep ==
  ASSUME StrongInv, [Next]_vars, NEW c \in Clients, At(c, "mapped")
  PROVE  /\ "R" \in flags[c] => "r" \in rights[c]
         /\ "W" \in flags[c] <=> "w" \in rights[c]
         /\ content' # content /\ content'.by = c => {"W", "SHARED"} \subseteq flags[c]
         /\ Store(c) /\ {"W", "SHARED"} \subseteq flags[c] => content'.by = c
<1>1. rights[c] = Allowed(flags[c])
  BY DEF StrongInv, Local
<1>2. /\ "R" \in flags[c] => "r" \in rights[c]
      /\ "W" \in flags[c] <=> "w" \in rights[c]
      /\ "through" \in rights[c] <=> {"W", "SHARED"} \subseteq flags[c]
  BY <1>1 DEF Allowed, mapaccess, prot
<1>3. content' # content /\ content'.by = c => "through" \in rights[c]
  BY Changes DEF At
<1>4. Store(c) /\ "through" \in rights[c] => content'.by = c
  BY Types DEF Store, Content
<1> QED
  BY <1>2, <1>3, <1>4

\* A map allows what it was opened for, and what a client writes in it reaches
\* the file if and only if it was opened to share (cop_filemap.h:48-58).
THEOREM AsAsked == Spec => MappedAsAsked
<1>1. StrongInv /\ [Next]_vars =>
        \A c \in Clients : At(c, "mapped") =>
          /\ "R" \in flags[c] => "r" \in rights[c]
          /\ "W" \in flags[c] <=> "w" \in rights[c]
          /\ content' # content /\ content'.by = c => {"W", "SHARED"} \subseteq flags[c]
          /\ Store(c) /\ {"W", "SHARED"} \subseteq flags[c] => content'.by = c
  BY AsAskedStep
<1> QED
  BY <1>1, Strong, PTL DEF Spec, MappedAsAsked
=============================================================================
