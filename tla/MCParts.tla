------------------------------- MODULE MCParts -------------------------------
(***************************************************************************)
(* The parts of the library besides the two ways to run a parallel call    *)
(* and the observations.  Local I/O: the lifecycle of file handles, POSIX  *)
(* and memory-mapped I/O, the bounce buffers and CUDA objects they reuse,  *)
(* and the objects of the cuFile API.  Remote I/O: opening a handle,       *)
(* planning a batch, the libcurl handles, one range request with its       *)
(* retries, and the defaults.  They share no state, so each behaviour      *)
(* exercises one of them.                                                  *)
(***************************************************************************)
EXTENDS BounceBuffers, CudaPools, PosixIo, Mmap, FileLifecycle, CuFileObjects,
        TransferPlan, CurlPools, RemoteRead, RemoteOpen, Defaults

\* Interchangeable values: three resources, two actors, two pools.
CONSTANTS x1, x2, x3, y1, y2, z1, z2,
          r1, c1, c2, s1, s2, s3, p1, p2, p3, d1, d2, k1, k2, t1, t2, t3

MCResources == {x1, x2, x3}
MCActors == {y1, y2}
MCPair == {z1, z2}
PartsSymmetry == Permutations(MCResources) \cup Permutations(MCActors)

(* Local I/O.                                                              *)

MCReactors == {r1}
MCSizes == {1, 2}

MCContexts == {c1, c2}
MCStreams == {s1, s2, s3}

MCIoOffsets == 0..5
MCIoSizes == 1..9
MCMisalign == {0, 1}
MCBounceSizes == {1, 4, 6, 8}

MCTokens == {1, 2}
MCFileLengths == {0, 9}
MCMapOffsets == {0, 1, 6}
MCMapSizes == {1, 8, 15, ToTheEnd}
MCMapReadOffsets == {0, 1, 6}
MCMapReadSizes == {0, 1, 5, ToTheEnd}
MCMapTaskSizes == {3, 15}
MCMapBounceSizes == {3, 15}

MCPaths == {p1, p2, p3}
MCDeviceOf(p) == IF p = p3 THEN d2 ELSE d1

MCThresholds == {0, 1, 2}

(* Remote I/O.                                                             *)

MCPlanKeys == {k1, k2}
MCPlanOffsets == {0, 1, 2, 4}
MCPlanSizes == {0, 1, 3}
MCTaskSizes == {2, 4}
MCGaps == {0, 1, NoGap}

MCCurlThreads == {t1, t2, t3}

MCReadSizes == 1..4
MCReadOffsets == 0..2
MCCapacities == 1..3
MCAttemptLimits == 1..3
AnyFault == {"ignores range", "short body"}
NoFault == {}

MCAllowLists == {<<"HTTP", "S3">>, <<"S3", "HTTP">>, <<"S3_PUBLIC">>,
                 <<"S3_PRESIGNED_URL", "S3", "S3_PUBLIC">>}
MCGivenSizes == {2}

MCSettings == PoolSettings \cup {"threads"}
MCLowest(s) == IF s = "requests" THEN 0 ELSE 1
MCDefaultOf(s) == IF s = "requests" THEN 2 ELSE 1
MCEnvValues == {-1, 0, 2, Garbage}
MCSetValues == 0..2

(* The parts a behaviour is not about start in one fixed state.            *)

VARIABLE focus   \* the part this behaviour is about

LocalParts == {"bounce", "cuda", "posix", "mmap", "files", "cufile", "buffers"}
RemoteParts == {"plan", "curl", "read", "open", "defaults"}

NoCall == /\ call = [path |-> "host", write |-> FALSE, direct |-> FALSE, off |-> 0, size |-> 1,
                     misalign |-> 0, bounce |-> 4]
          /\ done = 0 /\ staged = {} /\ moved = {}
          /\ inner = [off |-> 0, left |-> 0, at |-> 0]
          /\ ioPc = "outer"
NoRequests == requests = <<>> /\ options = [task |-> 2, gap |-> NoGap] /\ plan = NoPlan
NoRemoteRead == /\ req = [off |-> 0, size |-> 1, device |-> FALSE, capacity |-> 1, limit |-> 1,
                          server |-> "ranged"]
                /\ attempt = 1 /\ sent = 0 /\ ctx = NoCtx /\ bounce = EmptyBounce
                /\ buf = <<>> /\ code = "none" /\ flushed = TRUE /\ readPc = "idle"
NoOpen == /\ request = None /\ env = None /\ endpoint = None
          /\ nbytes = None /\ probes = <<>> /\ openPc = "idle"
NoDefaults == /\ environ = [s \in Settings |-> {Garbage}] /\ inForce = None /\ loaded = FALSE
              /\ setter = None /\ pool = NoReactorPool

LocalInit ==
    /\ BounceInit /\ (focus # "bounce" => setting = 1)
    /\ CudaInit /\ MmapInit /\ (focus # "mmap" => bounceSize = 3)
    /\ FilesInit /\ (focus # "files" => machine = [cufile |-> TRUE, config |-> TRUE]
                                        /\ settings = [directIo |-> TRUE, perDevice |-> TRUE])
    /\ CuFileInit /\ (focus # "cufile" => driver = [poll |-> FALSE, thresh |-> 0])
    /\ (focus # "buffers" => buffers.preferred)
    /\ IF focus = "posix" THEN PosixInit ELSE NoCall
RemoteInit ==
    /\ IF focus = "plan" THEN PlanInit ELSE NoRequests
    /\ CurlInit
    /\ IF focus = "read" THEN ReadInit ELSE NoRemoteRead
    /\ IF focus = "open" THEN OpenInit ELSE NoOpen
    /\ IF focus = "defaults" THEN DefaultsInit ELSE NoDefaults
Init == focus \in LocalParts \cup RemoteParts /\ LocalInit /\ RemoteInit

localVars == <<bounceVars, cudaVars, posixVars, mmapVars, fileVars, cufileVars>>
remoteVars == <<planVars, curlVars, readVars, openVars, defaultsVars>>

BounceStep == focus = "bounce" /\ BounceNext
              /\ UNCHANGED <<cudaVars, posixVars, mmapVars, fileVars, cufileVars>>
CudaStep == focus = "cuda" /\ CudaNext
            /\ UNCHANGED <<bounceVars, posixVars, mmapVars, fileVars, cufileVars>>
PosixStep == focus = "posix" /\ PosixNext
             /\ UNCHANGED <<bounceVars, cudaVars, mmapVars, fileVars, cufileVars>>
MmapStep == focus = "mmap" /\ MmapNext
            /\ UNCHANGED <<bounceVars, cudaVars, posixVars, fileVars, cufileVars>>
FilesStep == focus = "files" /\ FilesNext
             /\ UNCHANGED <<bounceVars, cudaVars, posixVars, mmapVars, cufileVars>>
CuFileStep == focus = "cufile" /\ CuFileNext
              /\ UNCHANGED <<bounceVars, cudaVars, posixVars, mmapVars, fileVars>>
BufferStep == focus = "buffers" /\ BufferNext
              /\ UNCHANGED <<bounceVars, cudaVars, posixVars, mmapVars, fileVars>>
LocalStep == BounceStep \/ CudaStep \/ PosixStep \/ MmapStep \/ FilesStep \/ CuFileStep \/ BufferStep

PlanStep == focus = "plan" /\ Plan /\ UNCHANGED <<curlVars, readVars, openVars, defaultsVars>>
CurlStep == focus = "curl" /\ CurlNext /\ UNCHANGED <<planVars, readVars, openVars, defaultsVars>>
ReadStep == focus = "read" /\ ReadNext /\ UNCHANGED <<planVars, curlVars, openVars, defaultsVars>>
OpenStep == focus = "open" /\ OpenNext /\ UNCHANGED <<planVars, curlVars, readVars, defaultsVars>>
DefaultsStep == focus = "defaults" /\ DefaultsNext /\ UNCHANGED <<planVars, curlVars, readVars, openVars>>
RemoteStep == PlanStep \/ CurlStep \/ ReadStep \/ OpenStep \/ DefaultsStep

Next == /\ UNCHANGED focus
        /\ \/ LocalStep /\ UNCHANGED remoteVars
           \/ RemoteStep /\ UNCHANGED localVars

vars == <<focus, localVars, remoteVars>>
Spec == Init /\ [][Next]_vars
===============================================================================
