------------------------------ MODULE FileMap ------------------------------
(***************************************************************************)
(* cop_filemap_open, cop_filemap_close and cop_file_dump on one file, over *)
(* POSIX or Win32, by clients whose calls to the system interleave and may *)
(* each fail.  Of the file's bytes only their number and who wrote them    *)
(* last are kept.                                                          *)
(***************************************************************************)
EXTENDS Integers

CONSTANTS
  Clients,
  Size        \* Bytes of the buffer a client dumps.

ASSUME SizeAssumption == Size \in Nat \ {0}

VARIABLES
  platform,   \* "posix" or "windows".
  pc,         \* Next call to the system of every client, "idle" or "mapped".
  flags,      \* Those it opens with: COP_FILEMAP_FLAG_R, _W, COP_FILEMAP_SHARED.
  file,       \* How it has the file open: a set of accesses, empty if it has not.
  held,       \* What else it holds: "name" (the wide file name), "mapping", "view".
  rights,     \* What its view allows, and "through" if writes reach the file.
  amount,     \* The size it measured; in a dump, how much it put in the file.
  answer,     \* What its last call returned.
  content     \* The file: its size and who wrote it last.

resources == <<file, held, rights>>
vars == <<platform, pc, flags, resources, amount, answer, content>>

ERR_FILE == 1
ERR_MAPPING == 2
Windows == platform = "windows"
Flags == {f \in SUBSET {"R", "W", "SHARED"} : f \cap {"R", "W"} # {}}

Init ==
  /\ platform \in {"posix", "windows"}
  /\ pc = [c \in Clients |-> "idle"] /\ flags = [c \in Clients |-> {}]
  /\ file = [c \in Clients |-> {}] /\ held = [c \in Clients |-> {}]
  /\ rights = [c \in Clients |-> {}]
  /\ amount = [c \in Clients |-> 0] /\ answer = [c \in Clients |-> 0]
  /\ content \in [size : 0 .. Size, by : {"nobody"}]

Set(f, c, x) == [f EXCEPT ![c] = x]

\* The call of c goes on at l with the file open as a and holding h.
Goto(c, l, a, h) ==
  /\ pc' = Set(pc, c, l) /\ file' = Set(file, c, a) /\ held' = Set(held, c, h)
  /\ UNCHANGED answer

\* It returns e, with the file open as a and holding h.
Return(c, e, a, h) ==
  /\ pc' = Set(pc, c, IF "view" \in h THEN "mapped" ELSE "idle")
  /\ file' = Set(file, c, a) /\ held' = Set(held, c, h)
  /\ answer' = Set(answer, c, e)

At(c, l) == pc[c] = l
Opened == UNCHANGED <<platform, flags, rights, amount, content>>

-----------------------------------------------------------------------------
(* cop_filemap_open and cop_filemap_close on Windows *)

\* utf8_to_w frees what it allocated when it fails.
Name(c) ==
  /\ At(c, "name") \/ At(c, "dump_name")
  /\ \/ Goto(c, IF At(c, "name") THEN "open" ELSE "dump_open", {}, {"name"})
     \/ Return(c, -1, {}, {})
  /\ Opened

faccess(f) == IF {"W", "SHARED"} \subseteq f THEN {"r", "w"} ELSE {"r"}
mapaccess(f) == IF "W" \notin f THEN {"r"}
                ELSE IF "SHARED" \in f THEN {"r", "w", "through"} ELSE {"r", "w"}

\* Slip: other handles may write.
ShareAll == {"r", "w"}
ShareMode == {"r"}      \* FILE_SHARE_READ

\* CreateFileW grants an access if every handle on the file allows the others'.
Grants(c, access) ==
  \A b \in Clients \ {c} : file[b] # {} => access \cup file[b] \subseteq ShareMode

WinOpen(c) ==
  /\ Windows /\ At(c, "open")
  /\ \/ Grants(c, faccess(flags[c])) /\ Goto(c, "size", faccess(flags[c]), {})
     \/ Return(c, -1, {}, {})
  /\ Opened

WinSize(c) ==
  /\ Windows /\ At(c, "size")
  /\ \/ /\ Goto(c, "mapping", file[c], {})
        /\ amount' = Set(amount, c, content.size)
     \/ Return(c, -1, {}, {}) /\ UNCHANGED amount
  /\ UNCHANGED <<platform, flags, rights, content>>

\* CreateFileMapping fails with NULL, and on an empty file: that is not
\* INVALID_HANDLE_VALUE, and the call goes on without a mapping.
WinMapping(c) ==
  /\ At(c, "mapping")
  /\ \/ content.size > 0 /\ Goto(c, "view", file[c], {"mapping"})
     \/ Goto(c, "view", file[c], {})
  /\ Opened

\* Slip: only the file is closed when there is no view.
WinViewKeepMapping(c) ==
  /\ Windows /\ At(c, "view")
  /\ \/ /\ held[c] = {"mapping"}
        /\ rights' = Set(rights, c, mapaccess(flags[c]))
        /\ Return(c, 0, file[c], {"mapping", "view"})
     \/ Return(c, -1, {}, held[c]) /\ UNCHANGED rights
  /\ UNCHANGED <<platform, flags, amount, content>>

WinView(c) ==
  /\ Windows /\ At(c, "view")
  /\ \/ /\ held[c] = {"mapping"}
        /\ rights' = Set(rights, c, mapaccess(flags[c]))
        /\ Return(c, 0, file[c], {"mapping", "view"})
     \/ Return(c, -1, {}, {}) /\ UNCHANGED rights
  /\ UNCHANGED <<platform, flags, amount, content>>

-----------------------------------------------------------------------------
(* cop_filemap_open on POSIX *)

oflags(f) == IF {"W", "SHARED"} \subseteq f THEN {"r", "w"} ELSE {"r"}
prot(f) == IF "W" \notin f THEN {"r"} ELSE {"w"} \cup IF "R" \in f THEN {"r"} ELSE {}

PosixOpen(c) ==
  /\ ~Windows /\ At(c, "open")
  /\ \/ Goto(c, "size", oflags(flags[c]), {})
     \/ Return(c, ERR_FILE, {}, {})
  /\ Opened

PosixStat(c) ==
  /\ ~Windows /\ At(c, "size")
  /\ \/ Goto(c, "view", file[c], {}) /\ amount' = Set(amount, c, content.size)
     \/ Return(c, ERR_FILE, {}, {}) /\ UNCHANGED amount
  /\ UNCHANGED <<platform, flags, rights, content>>

\* Slip: MAP_SHARED always.
PosixMapShared(c) ==
  /\ ~Windows /\ At(c, "view")
  /\ \/ /\ amount[c] > 0
        /\ rights' = Set(rights, c, prot(flags[c]) \cup
                           IF "W" \in flags[c] THEN {"through"} ELSE {})
        /\ Return(c, 0, {}, {"view"})
     \/ Return(c, ERR_MAPPING, {}, {}) /\ UNCHANGED rights
  /\ UNCHANGED <<platform, flags, amount, content>>

\* mmap takes the size measured before, refuses zero, and refuses a shared
\* writable mapping of a file not open for writing.  The file is closed.
PosixMap(c) ==
  LET through == {"W", "SHARED"} \subseteq flags[c]
  IN  /\ ~Windows /\ At(c, "view")
      /\ \/ /\ amount[c] > 0 /\ (through => "w" \in file[c])
            /\ rights' = Set(rights, c, prot(flags[c]) \cup
                               IF through THEN {"through"} ELSE {})
            /\ Return(c, 0, {}, {"view"})
         \/ Return(c, ERR_MAPPING, {}, {}) /\ UNCHANGED rights
      /\ UNCHANGED <<platform, flags, amount, content>>

-----------------------------------------------------------------------------
(* cop_file_dump *)

WinDumpOpen(c) ==
  /\ Windows /\ At(c, "dump_open")
  /\ \/ /\ Grants(c, {"w"}) /\ Goto(c, "dump_write", {"w"}, {"name"})
        /\ content' = [size |-> 0, by |-> c]
     \/ Return(c, -1, {}, {}) /\ UNCHANGED content
  /\ UNCHANGED <<platform, flags, rights, amount>>

\* n bytes reach the file; a short count is an error.
WinDumpWrite(c) ==
  /\ Windows /\ At(c, "dump_write")
  /\ \E n \in 0 .. Size :
       /\ content' = [size |-> n, by |-> c] /\ amount' = Set(amount, c, n)
       /\ \/ n = Size /\ Return(c, 0, {}, {})
          \/ Return(c, -1, {}, {})
  /\ UNCHANGED <<platform, flags, rights>>

PosixDumpOpen(c) ==
  /\ ~Windows /\ At(c, "dump_open")
  /\ \/ /\ Goto(c, "dump_write", {"w"}, {})
        /\ content' = [size |-> 0, by |-> c]
     \/ Return(c, -1, {}, {}) /\ UNCHANGED content
  /\ UNCHANGED <<platform, flags, rights, amount>>

\* n bytes reach the file of those c has put there, another client's or its own.
Put(c, n) ==
  /\ content' = IF n = amount[c] THEN content
                ELSE [size |-> IF n > content.size THEN n ELSE content.size, by |-> c]
  /\ amount' = Set(amount, c, n)

\* fwrite keeps some of the bytes in its buffer.
PosixDumpWrite(c) ==
  /\ ~Windows /\ At(c, "dump_write")
  /\ \E n \in 0 .. Size : Put(c, n)
  /\ \/ Goto(c, "dump_close", file[c], {})
     \/ Return(c, -1, {}, {})
  /\ UNCHANGED <<platform, flags, rights>>

\* fclose writes them, or fails: what it returns is not looked at.
PosixDumpClose(c) ==
  /\ ~Windows /\ At(c, "dump_close")
  /\ \E n \in amount[c] .. Size : Put(c, n)
  /\ Return(c, 0, {}, {})
  /\ UNCHANGED <<platform, flags, rights>>

-----------------------------------------------------------------------------
(* The clients. *)

OpenBegin(c, f) ==
  /\ At(c, "idle")
  /\ flags' = Set(flags, c, f)
  /\ Goto(c, IF Windows THEN "name" ELSE "open", {}, {})
  /\ UNCHANGED <<platform, rights, amount, content>>

\* A buffer beyond MAXDWORD is refused on Windows.
DumpBegin(c) ==
  /\ At(c, "idle")
  /\ amount' = Set(amount, c, 0)
  /\ \/ Goto(c, IF Windows THEN "dump_name" ELSE "dump_open", {}, {})
     \/ Windows /\ Return(c, -1, {}, {})
  /\ UNCHANGED <<platform, flags, rights, content>>

close(c) ==
  /\ At(c, "mapped")
  /\ pc' = Set(pc, c, "idle")
  /\ file' = Set(file, c, {}) /\ held' = Set(held, c, {}) /\ rights' = Set(rights, c, {})
  /\ UNCHANGED <<platform, flags, amount, answer, content>>

\* The client writes in its view, as far as the file still reaches.
Store(c) ==
  /\ At(c, "mapped") /\ "w" \in rights[c] /\ content.size > 0
  /\ content' = IF "through" \in rights[c] THEN [content EXCEPT !.by = c] ELSE content
  /\ UNCHANGED <<platform, pc, flags, resources, amount, answer>>

Call(c) ==
  \/ Name(c) \/ WinOpen(c) \/ WinSize(c) \/ WinMapping(c) \/ WinView(c)
  \/ PosixOpen(c) \/ PosixStat(c) \/ PosixMap(c)
  \/ WinDumpOpen(c) \/ WinDumpWrite(c)
  \/ PosixDumpOpen(c) \/ PosixDumpWrite(c) \/ PosixDumpClose(c)

Next ==
  \E c \in Clients :
    Call(c) \/ DumpBegin(c) \/ close(c) \/ Store(c) \/ \E f \in Flags : OpenBegin(c, f)

Spec == Init /\ [][Next]_vars

-----------------------------------------------------------------------------
(* What files, maps and dumps may be. *)

Locations == {"idle", "name", "open", "size", "mapping", "view", "mapped"}
Dumping == {"dump_name", "dump_open", "dump_write", "dump_close"}

TypeOK ==
  /\ platform \in {"posix", "windows"}
  /\ pc \in [Clients -> Locations \cup Dumping]
  /\ flags \in [Clients -> Flags \cup {{}}]
  /\ file \in [Clients -> SUBSET {"r", "w"}]
  /\ held \in [Clients -> SUBSET {"name", "mapping", "view"}]
  /\ rights \in [Clients -> SUBSET {"r", "w", "through"}]
  /\ amount \in [Clients -> 0 .. Size]
  /\ answer \in [Clients -> {-1, 0, ERR_FILE, ERR_MAPPING}]
  /\ content \in [size : 0 .. Size, by : Clients \cup {"nobody"}]

\* Every path out of open, dump and close gives back the file, the mapping and
\* the name it took, whichever of its calls failed; an open map keeps what
\* close will need and no more.
NothingLeaks ==
  \A c \in Clients :
    /\ At(c, "idle") => file[c] = {} /\ held[c] = {}
    /\ At(c, "mapped") =>
         IF Windows THEN held[c] = {"mapping", "view"} /\ file[c] # {}
                    ELSE held[c] = {"view"} /\ file[c] = {}

\* What a call that is not over holds at each of its calls to the system.
HeldInCall ==
  \A c \in Clients :
    /\ file[c] = CASE pc[c] \in {"size", "mapping", "view"} -> faccess(flags[c])
                   [] At(c, "mapped") /\ Windows -> faccess(flags[c])
                   [] pc[c] \in {"dump_write", "dump_close"} -> {"w"}
                   [] OTHER -> {}
    /\ "name" \in held[c] <=> Windows /\ pc[c] \in {"open", "dump_open", "dump_write"}
    /\ "mapping" \in held[c] => Windows /\ pc[c] \in {"view", "mapped"}
    /\ "view" \in held[c] <=> At(c, "mapped")
    /\ rights[c] # {} <=> At(c, "mapped")

\* On Windows two handles on the file are both for reading (FILE_SHARE_READ),
\* and so the size measured is that of the file until the map is closed,
\* whatever other clients do (cop_filemap.c:92-110).
SizeInStep ==
  Windows => \A c \in Clients :
    /\ file[c] # {} => Grants(c, file[c])
    /\ pc[c] \in {"mapping", "view", "mapped"} => amount[c] = content.size

\* What every call leaves in place for the calls that interleave with it.
IInv == TypeOK /\ NothingLeaks /\ HeldInCall /\ SizeInStep

\* On Windows nobody else changes the file, by dumping or through a view, from
\* the time a client has measured it until it has closed its map
\* (FILE_SHARE_READ, cop_filemap.c:92): size and view stay in step.
StableWhileMapped ==
  [][Windows /\ content' # content =>
       \A c \in Clients \ {content'.by} : ~(pc[c] \in {"mapping", "view", "mapped"})]_vars

\* The file changes only by a dump and through maps opened to write and to
\* share; a map allows writing if and only if that was asked, and reading
\* whenever that was asked (cop_filemap.h:48-58).
MappedAsAsked ==
  [][\A c \in Clients : At(c, "mapped") =>
       /\ "R" \in flags[c] => "r" \in rights[c]
       /\ "W" \in flags[c] <=> "w" \in rights[c]
       /\ content' # content /\ content'.by = c => {"W", "SHARED"} \subseteq flags[c]
       /\ Store(c) /\ {"W", "SHARED"} \subseteq flags[c] => content'.by = c]_vars

\* A dump that reports success has put its whole buffer in the file.
DumpSucceeds ==
  [][\A c \in Clients : pc[c] \in Dumping /\ pc'[c] = "idle" /\ answer'[c] = 0
       => amount'[c] = Size]_vars
=============================================================================
