---------------------------- MODULE FileLifecycle ----------------------------
(***************************************************************************)
(* What a FileHandle owns: two descriptors, a cuFile registration, and a   *)
(* pointer to the thread pool of its block device.  Handles are opened by  *)
(* concurrent threads, moved, closed and destroyed; opening settles the    *)
(* compatibility mode.                                                     *)
(*                                                                         *)
(* Descriptors and thread pools are tokens that the system may hand out    *)
(* again once they are free.  The flags of a closed handle are reset here; *)
(* the code leaves them as they were.                                      *)
(***************************************************************************)
EXTENDS Integers, FiniteSets

CONSTANTS FileHandles, Fds, NoFd,
          Paths, DeviceOf(_),   \* the block device of a path, NoDevice when it has none
          NoDevice, ThreadPools, DefaultPool, NoPool

ASSUME FilesAssumption ==
    /\ NoFd \notin Fds
    /\ NoPool \notin ThreadPools /\ DefaultPool \notin ThreadPools /\ NoPool # DefaultPool

VARIABLES
    machine,     \* is_cufile_available() and whether cuFile has a configuration file
    settings,    \* the process-wide settings an open reads
    file,        \* the members of each handle and the step its thread is at
    openFds,     \* open descriptors
    registered,  \* descriptors registered with cuFile
    pathPool,    \* file_path_to_thread_pool_map
    devPool,     \* dev_id_to_thread_pool_map
    pathInfo     \* the paths in file_path_to_info_map

fileVars == <<machine, settings, file, openFds, registered, pathPool, devPool, pathInfo>>
poolMaps == <<pathPool, devPool, pathInfo>>

CompatModes == {"AUTO", "ON", "OFF"}
ClosedFile(pc) == [pc |-> pc, on |-> NoFd, off |-> NoFd, reg |-> NoFd, compat |-> TRUE,
               async |-> TRUE, path |-> NoFd, pool |-> NoPool]

FilesInit ==
    /\ machine \in [cufile : BOOLEAN, config : BOOLEAN]
    /\ settings \in [directIo : BOOLEAN, perDevice : BOOLEAN]
    /\ file = [h \in FileHandles |-> ClosedFile("closed")]
    /\ openFds = {} /\ registered = {}
    /\ pathPool = [p \in Paths |-> NoPool]
    /\ devPool = [d \in {DeviceOf(p) : p \in Paths} |-> NoPool]
    /\ pathInfo = {}

\* set_auto_direct_io_read(), set_auto_direct_io_write(), set_thread_pool_per_block_device().
SetDefaults ==
    /\ settings' \in [directIo : BOOLEAN, perDevice : BOOLEAN]
    /\ settings' # settings
    /\ UNCHANGED <<machine, file, openFds, registered, poolMaps>>

-------------------------------------------------------------------------------
(* Opening.                                                                *)

\* defaults::is_compat_mode_preferred(), with infer_compat_mode_if_auto().
Preferred(mode) == mode = "ON" \/ (mode = "AUTO" /\ ~machine.cufile)

\* CompatModeManager::CompatModeManager(), once the file is open without O_DIRECT:
\* what it ends with, given whether the O_DIRECT open and the registration succeed.
Settle(mode, directOk, regOk) ==
    LET tried == ~Preferred(mode) \/ settings.directIo
        fallsBack == Preferred(mode) \/ (~directOk /\ mode = "AUTO")
        reg == ~fallsBack /\ directOk /\ regOk
    IN  [direct |-> tried /\ directOk,
         reg |-> reg,
         throws |-> \/ mode = "OFF" /\ ~directOk
                    \/ mode # "AUTO" /\ ~fallsBack /\ ~regOk,
         compat |-> ~reg,
         async |-> ~reg \/ ~machine.config]

\* FileHandle::FileHandle(): a throw closes what was opened; otherwise the thread goes
\* on to the lookup of the thread pool.
Open(h, path, mode) ==
    /\ file[h].pc = "closed"
    /\ \E off \in Fds \ openFds, directOk, regOk \in BOOLEAN :
          LET s == Settle(mode, directOk, regOk)
          IN  /\ ~s.throws
              /\ \E on \in IF s.direct THEN Fds \ (openFds \cup {off}) ELSE {NoFd} :
                    /\ file' = [file EXCEPT ![h] =
                          [ClosedFile("lookup") EXCEPT
                              !.on = on, !.off = off, !.reg = IF s.reg THEN on ELSE NoFd,
                              !.compat = s.compat, !.async = s.async, !.path = path]]
                    /\ openFds' = openFds \cup ({off, on} \ {NoFd})
                    /\ registered' = registered \cup (IF s.reg THEN {on} ELSE {})
    /\ UNCHANGED <<machine, settings, poolMaps>>

Settled(h, pool) == file' = [file EXCEPT ![h].pc = "open", ![h].pool = pool]

\* get_thread_pool_per_block_device(): off, or the path has been seen before.
LookupPath(h) ==
    /\ file[h].pc = "lookup"
    /\ IF ~settings.perDevice THEN Settled(h, DefaultPool)
       ELSE IF pathPool[file[h].path] # NoPool THEN Settled(h, pathPool[file[h].path])
       ELSE file' = [file EXCEPT ![h].pc = "resolve"]
    /\ UNCHANGED <<machine, settings, openFds, registered, poolMaps>>

\* get_block_device_info(): cached by path; it throws on a file without a block device,
\* or when sysfs cannot be read, and the default pool is used.
Resolve(h) ==
    LET path == file[h].path
    IN  /\ file[h].pc = "resolve"
        /\ \/ /\ path \in pathInfo \/ DeviceOf(path) # NoDevice
              /\ file' = [file EXCEPT ![h].pc = "insert"]
              /\ pathInfo' = pathInfo \cup {path}
           \/ /\ path \notin pathInfo
              /\ Settled(h, DefaultPool)
              /\ UNCHANGED pathInfo
        /\ UNCHANGED <<machine, settings, openFds, registered, pathPool, devPool>>

\* The second critical section: reuse the pool of the device or make one.  emplace()
\* keeps an entry that is there; a pool that no map holds is destroyed.
LivePools == {pathPool[p] : p \in Paths} \cup {devPool[d] : d \in DOMAIN devPool}
Kept(entry, pool) == IF entry = NoPool THEN pool ELSE entry
DevicePoolFresh(d) == ThreadPools \ LivePools
DevicePool(d) == IF devPool[d] # NoPool THEN {devPool[d]} ELSE ThreadPools \ LivePools
InsertPool(h) ==
    LET path == file[h].path
        d == DeviceOf(path)
    IN  /\ file[h].pc = "insert"
        /\ \E pool \in DevicePool(d) :
              /\ Settled(h, pool)
              /\ devPool' = [devPool EXCEPT ![d] = Kept(@, pool)]
              /\ pathPool' = [pathPool EXCEPT ![path] = Kept(@, pool)]
        /\ UNCHANGED <<machine, settings, openFds, registered, pathInfo>>

-------------------------------------------------------------------------------
(* Closing and moving.                                                     *)

\* close() takes two steps of its thread: unregister_handle(), then the descriptors.
\* ~FileHandle() is close().
DescriptorsFirst(h) ==
    /\ openFds' = openFds \ {file[h].on, file[h].off}
    /\ file' = [file EXCEPT ![h].pc = "closing", ![h].on = NoFd, ![h].off = NoFd]
    /\ UNCHANGED registered
UnregisterFirst(h) ==
    /\ registered' = registered \ {file[h].reg}
    /\ file' = [file EXCEPT ![h].pc = "closing", ![h].reg = NoFd]
    /\ UNCHANGED openFds
BeginClose(h) ==
    /\ file[h].pc = "open"
    /\ UnregisterFirst(h)
    /\ UNCHANGED <<machine, settings, poolMaps>>

EndClose(h) ==
    /\ file[h].pc = "closing"
    /\ openFds' = openFds \ {file[h].on, file[h].off}
    /\ registered' = registered \ {file[h].reg}
    /\ file' = [file EXCEPT ![h] = ClosedFile("closed")]
    /\ UNCHANGED <<machine, settings, poolMaps>>

\* FileHandle(FileHandle&&), and operator= once close() of the target is over: every
\* member is exchanged for an empty one.
MoveFile(h, g) ==
    /\ h # g /\ file[h].pc = "closed" /\ file[g].pc = "open"
    /\ file' = [file EXCEPT ![h] = file[g], ![g] = ClosedFile("closed")]
    /\ UNCHANGED <<machine, settings, openFds, registered, poolMaps>>

FilesNext ==
    \/ SetDefaults
    \/ \E h \in FileHandles :
          \/ \E path \in Paths, mode \in CompatModes : Open(h, path, mode)
          \/ LookupPath(h) \/ Resolve(h) \/ InsertPool(h)
          \/ BeginClose(h) \/ EndClose(h)
          \/ \E g \in FileHandles : MoveFile(h, g)

FilesSpec == FilesInit /\ [][FilesNext]_fileVars

-------------------------------------------------------------------------------
(* Properties.                                                             *)

Owned(h) == {file[h].on, file[h].off} \ {NoFd}

\* FileHandle: through concurrent opens, refused registrations, moves and closes, an
\* open descriptor belongs to exactly one handle; a registration belongs to a handle
\* and its descriptor is open as long as cuFile may use it (no other open can get its
\* number); a handle is outside compatibility mode exactly when it has a registration.
FilesOwnOnce ==
    /\ \A fd \in Fds : Cardinality({h \in FileHandles : fd \in Owned(h)}) = IF fd \in openFds THEN 1 ELSE 0
    /\ registered \subseteq openFds
    /\ \A h \in FileHandles :
          /\ file[h].reg # NoFd => file[h].reg = file[h].on /\ file[h].reg \in registered
          /\ file[h].pc = "open" => (file[h].compat <=> file[h].reg = NoFd)
          /\ ~file[h].async => ~file[h].compat

\* get_thread_pool_per_block_device(): the pointer a handle keeps stays valid ("for the
\* lifetime of the program"), and whichever threads race to open the first files of a
\* device, handles on one device use one pool and handles on two devices never share one.
PoolsArePerDevice ==
    LET using == {h \in FileHandles : file[h].pool \notin {NoPool, DefaultPool}}
    IN  /\ \A h \in using : file[h].pool \in LivePools
        /\ \A g, h \in using :
              file[g].pool = file[h].pool <=> DeviceOf(file[g].path) = DeviceOf(file[h].path)

===============================================================================
