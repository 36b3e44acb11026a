-------------------------------- MODULE Mmap --------------------------------
(***************************************************************************)
(* MmapHandle: a file mapped into memory from an offset that need not be   *)
(* aligned to pages, read by copying from the mapping.  Handles are moved, *)
(* closed and destroyed; the descriptors and mappings they own are tokens. *)
(* Positions are bytes; additions of the arguments wrap at Word, the range *)
(* of size_t.                                                              *)
(***************************************************************************)
EXTENDS Integers, FiniteSets, FiniteSetsExt

CONSTANTS MmapHandles, Tokens, NoToken,
          PageBytes, Word,
          FileLengths,          \* sizes of the files to map
          MapOffsets, MapSizes, \* arguments of the constructor
          MapReadOffsets, MapReadSizes, MapTaskSizes,
          MapBounceSizes,       \* values of bounce_buffer_size()
          ToTheEnd              \* std::nullopt for a size

ASSUME MmapAssumption ==
    /\ PageBytes \in Nat \ {0} /\ Word \in Nat \ {0}
    /\ FileLengths \cup MapOffsets \cup MapReadOffsets \subseteq 0..(Word - 1)
    /\ MapSizes \cup MapReadSizes \subseteq 0..(Word - 1) \cup {ToTheEnd}
    /\ NoToken \notin Tokens
    /\ MapTaskSizes \cup MapBounceSizes \subseteq Nat \ {0}

VARIABLES
    mmap,     \* the members of each handle
    fds,      \* open file descriptors
    maps,     \* live mappings
    bounceSize, \* defaults::bounce_buffer_size()
    reading,  \* the read under way: its handle, range, destination and task size, and,
              \* as history, the least setting of the bounce buffer since it began
    tasks,    \* chunks of it still to copy: offset and length
    got,      \* <<file byte, destination position>> copied so far
    spilled,  \* positions written past the end of a bounce buffer
    touched   \* addresses perform_prefault() has read, from _map_addr

mmapVars == <<mmap, fds, maps, bounceSize, reading, tasks, got, spilled, touched>>
mmapReadVars == <<reading, tasks, got, spilled, touched>>

Closed == [init |-> FALSE, fd |-> NoToken, addr |-> NoToken, fileSize |-> 0,
           initialOffset |-> 0, initialSize |-> 0, mapOffset |-> 0, mapSize |-> 0]
NoRead == [h |-> NoToken, off |-> 0, n |-> 0, task |-> 0, floor |-> 0,
           device |-> FALSE, ats |-> FALSE]

MmapInit ==
    /\ mmap = [h \in MmapHandles |-> Closed]
    /\ fds = {} /\ maps = {} /\ bounceSize \in MapBounceSizes
    /\ reading = NoRead /\ tasks = {} /\ got = {} /\ spilled = {} /\ touched = {}

\* defaults::set_bounce_buffer_size(), by any thread at any time.
SetMapBounce(n) ==
    /\ bounceSize # n /\ bounceSize' = n
    /\ reading' = IF reading = NoRead THEN NoRead ELSE [reading EXCEPT !.floor = Min({@, n})]
    /\ UNCHANGED <<mmap, fds, maps, tasks, got, spilled, touched>>

Down(n) == n - (n % PageBytes)
Up(n) == Down(n + PageBytes - 1)

\* The constructor's checks, for a file of len > 0 bytes.
MappedSize(len, size, off) == IF size = ToTheEnd THEN len - off ELSE size
MapAllowed(len, size, off) ==
    /\ off < len
    /\ MappedSize(len, size, off) > 0
    /\ (off + MappedSize(len, size, off)) % Word <= len
Mapped(fd, addr, len, size, off) ==
    [init |-> TRUE, fd |-> fd, addr |-> addr, fileSize |-> len,
     initialOffset |-> off, initialSize |-> MappedSize(len, size, off),
     mapOffset |-> Down(off), mapSize |-> (MappedSize(len, size, off) + (off - Down(off))) % Word]

\* MmapHandle::MmapHandle().  An empty file is opened and not mapped; a refused
\* range, or a refused mmap(), throws and closes the file again.
Construct(h, len, size, off) ==
    /\ mmap[h] = Closed
    /\ \E fd \in Tokens \ fds :
          \/ /\ len = 0
             /\ mmap' = [mmap EXCEPT ![h] = [Closed EXCEPT !.init = TRUE, !.fd = fd, !.initialOffset = off]]
             /\ fds' = fds \cup {fd} /\ UNCHANGED maps
          \/ /\ len > 0 /\ MapAllowed(len, size, off) /\ Mapped(fd, NoToken, len, size, off).mapSize > 0
             /\ \E addr \in Tokens \ maps :
                   /\ mmap' = [mmap EXCEPT ![h] = Mapped(fd, addr, len, size, off)]
                   /\ maps' = maps \cup {addr}
             /\ fds' = fds \cup {fd}
    /\ UNCHANGED <<bounceSize, mmapReadVars>>

Idle(h) == reading.h # h

\* close(): nothing happens when the handle is closed or was never mapped.
Releases(m) == m.init /\ m.addr # NoToken
AfterClose(m) == IF Releases(m) THEN Closed ELSE m
CloseMmap(h) ==
    /\ Idle(h) /\ Releases(mmap[h])
    /\ mmap' = [mmap EXCEPT ![h] = AfterClose(@)]
    /\ maps' = maps \ {mmap[h].addr}
    /\ fds' = fds \ {mmap[h].fd}
    /\ UNCHANGED <<bounceSize, mmapReadVars>>

\* ~MmapHandle(): close(), then the members, FileWrapper among them, go.
DestroyMmap(h) ==
    /\ Idle(h) /\ mmap[h] # Closed
    /\ mmap' = [mmap EXCEPT ![h] = Closed]
    /\ maps' = maps \ {mmap[h].addr}
    /\ fds' = fds \ {mmap[h].fd}
    /\ UNCHANGED <<bounceSize, mmapReadVars>>

\* operator=(MmapHandle&&): close(), then every member is taken over; the assignment
\* of _file_wrapper closes a descriptor that close() left open.
AfterCloseKeepsMapping(h) == maps
AfterMove(h) == maps \ {mmap[h].addr}
MoveMmap(h, g) ==
    /\ h # g /\ Idle(h) /\ Idle(g) /\ mmap[g] # Closed
    /\ mmap' = [mmap EXCEPT ![h] = mmap[g], ![g] = Closed]
    /\ maps' = AfterMove(h)
    /\ fds' = fds \ {mmap[h].fd}
    /\ UNCHANGED <<bounceSize, mmapReadVars>>

\* validate_and_adjust_read_args().
ReadLength(m, size, off) == IF size = ToTheEnd THEN m.fileSize - off ELSE size
ReadAllowed(m, size, off) ==
    /\ m.init /\ off <= m.fileSize
    /\ off >= m.initialOffset
    /\ (off + ReadLength(m, size, off)) % Word <= (m.initialOffset + m.initialSize) % Word

\* What read() and pread() share.  A length of 0 returns at once.
StartRead(h, size, off, task, device, ats) ==
    LET n == ReadLength(mmap[h], size, off)
    IN  /\ reading = NoRead /\ ReadAllowed(mmap[h], size, off) /\ n > 0
        /\ reading' = [h |-> h, off |-> off, n |-> n, task |-> task, floor |-> bounceSize,
                       device |-> device, ats |-> ats]
        /\ tasks' = {[at |-> k * task, n |-> Min({task, n - k * task})] : k \in 0..((n - 1) \div task)}
        /\ got' = {} /\ spilled' = {} /\ touched' = {}
        /\ UNCHANGED <<mmap, fds, maps, bounceSize>>

\* read(): one chunk, however large.
MmapRead(h, size, off, device, ats) ==
    StartRead(h, size, off, ReadLength(mmap[h], size, off), device, ats)

\* pread(): chunks of task_size, which the bounce buffer must hold when the call is made.
MmapPread(h, size, off, task, device, ats) ==
    /\ task <= bounceSize
    /\ StartRead(h, size, off, task, device, ats)

\* Where a byte of the file lies in the mapping, counted from _map_addr: _buf is
\* offset_delta beyond it.
SourceFromMapAddr(m, off) == off - m.initialOffset
Source(m, off) == (m.initialOffset - m.mapOffset) + (off - m.initialOffset)

\* perform_prefault(): the addresses it reads in buf..buf+size-1.
Prefault(buf, size) ==
    LET lead == Up(buf) - buf
        rest == IF lead > 0 /\ size >= lead THEN size - lead ELSE size
    IN  (IF lead > 0 THEN {buf} ELSE {}) \cup
        (IF lead >= rest THEN {} ELSE {Up(buf) + k * PageBytes : k \in 0..((rest - 1) \div PageBytes)})

\* The bytes of a chunk that its bounce buffer, as large as the setting is now, can hold;
\* host memory, and a device that shares the page tables, need none.
Staged(c) == IF reading.device /\ ~reading.ats THEN Min({c.n, bounceSize}) ELSE c.n

\* read_impl() of one chunk: the source and the destination advance together; on a
\* device that shares the page tables the mapping is touched first.  Another device gets
\* the bytes by way of one bounce buffer, without a check that it holds them: those that
\* go past its end arrive or are lost.
CopyChunk(c) ==
    LET m == mmap[reading.h]
        src == Source(m, reading.off) + c.at
    IN  /\ c \in tasks
        /\ tasks' = tasks \ {c}
        /\ \E kept \in {Staged(c), c.n} :
              got' = got \cup {<<m.mapOffset + src + i, c.at + i>> : i \in 0..(kept - 1)}
        /\ spilled' = spilled \cup {c.at + i : i \in Staged(c)..(c.n - 1)}
        /\ touched' = touched \cup IF reading.device /\ reading.ats THEN Prefault(src, c.n) ELSE {}
        /\ UNCHANGED <<mmap, fds, maps, bounceSize, reading>>

EndRead ==
    /\ reading # NoRead /\ tasks = {}
    /\ reading' = NoRead /\ got' = {} /\ spilled' = {} /\ touched' = {}
    /\ UNCHANGED <<mmap, fds, maps, bounceSize, tasks>>

MmapNext ==
    \/ \E h \in MmapHandles :
          \/ \E len \in FileLengths, size \in MapSizes, off \in MapOffsets : Construct(h, len, size, off)
          \/ CloseMmap(h) \/ DestroyMmap(h)
          \/ \E g \in MmapHandles : MoveMmap(h, g)
          \/ \E size \in MapReadSizes, off \in MapReadOffsets, device, ats \in BOOLEAN :
                \/ MmapRead(h, size, off, device, ats)
                \/ \E task \in MapTaskSizes : MmapPread(h, size, off, task, device, ats)
    \/ \E n \in MapBounceSizes : SetMapBounce(n)
    \/ \E c \in tasks : CopyChunk(c)
    \/ EndRead

MmapSpec == MmapInit /\ [][MmapNext]_mmapVars

-------------------------------------------------------------------------------
(* Properties.                                                             *)

\* close(), operator=(): through every sequence of moves, closes and refused
\* constructions, each descriptor and each mapping belongs to exactly one handle.
MmapOwnsOnce ==
    /\ \A fd \in Tokens : Cardinality({h \in MmapHandles : mmap[h].fd = fd}) = IF fd \in fds THEN 1 ELSE 0
    /\ \A a \in Tokens : Cardinality({h \in MmapHandles : mmap[h].addr = a}) = IF a \in maps THEN 1 ELSE 0

\* read(), pread(): of a range that does not wrap around size_t every byte copied is the
\* byte of the file that was asked for and lies inside the mapping, whatever the alignment
\* of the mapping's offset; when all chunks are done every byte has arrived or went past
\* the end of a bounce buffer, which takes a setting below the size of a chunk since the
\* read began; prefaulting stays inside the range.
ReadsHitTheirBytes ==
    reading # NoRead /\ reading.off + reading.n < Word =>
    LET m == mmap[reading.h]
    IN  /\ got \subseteq {<<reading.off + i, i>> : i \in 0..(reading.n - 1)}
        /\ tasks = {} => \A i \in 0..(reading.n - 1) : <<reading.off + i, i>> \in got \/ i \in spilled
        /\ spilled # {} => reading.device /\ ~reading.ats /\ reading.floor < reading.task
        /\ \A b \in got : b[1] - m.mapOffset \in 0..(m.mapSize - 1)
        /\ \A a \in touched : a - Source(m, reading.off) \in 0..(reading.n - 1)

===============================================================================
