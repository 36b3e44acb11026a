------------------------------ MODULE RemoteOpen ------------------------------
(***************************************************************************)
(* RemoteHandle::open(): from a URL to a handle with an endpoint and a     *)
(* size.  The endpoint type is given or inferred from the URL along an     *)
(* allow list, S3 is probed with the credentials of the environment and    *)
(* may fall back to anonymous access, and the size is asked for unless it  *)
(* is known.                                                               *)
(*                                                                         *)
(* A URL is its scheme, whether it has a path, and which of the special    *)
(* forms it matches.  Each request to the server may fail on its own.      *)
(***************************************************************************)
EXTENDS Integers, Sequences, SequencesExt

CONSTANTS AllowLists,       \* sequences of endpoint types
          RemoteSize,       \* what the server answers when it knows the size
          GivenSizes, None  \* nbytes of the caller, None for std::nullopt

VARIABLES
    request,   \* url, requested type, allow list and nbytes
    env,       \* credentials and certificates the process finds
    endpoint,  \* the type of the endpoint, None before it exists
    nbytes,    \* RemoteHandle::_nbytes
    probes,    \* the endpoint types asked for the size, in order
    openPc

openVars == <<request, env, endpoint, nbytes, probes, openPc>>

EndpointTypes == {"S3", "S3_PUBLIC", "S3_PRESIGNED_URL", "WEBHDFS", "HTTP"}
DefaultAllowList == <<"S3", "S3_PUBLIC", "S3_PRESIGNED_URL", "WEBHDFS", "HTTP">>

ASSUME OpenAssumption == AllowLists \subseteq Seq(EndpointTypes) /\ None \notin EndpointTypes

Urls == {u \in [scheme : {"s3", "http", "other"}, form : {"plain", "s3", "presigned", "webhdfs"},
                path : BOOLEAN] :
            u.form # "plain" => u.scheme = "http" /\ u.path}
\* Where certificates are looked for, in this order.
Certificates == <<"env file", "env directory", "system file", "system directory",
                  "curl file", "curl directory">>

OpenInit ==
    /\ request \in [url : Urls, type : EndpointTypes \cup {"AUTO"},
                    allow : AllowLists \cup {DefaultAllowList}, nbytes : GivenSizes \cup {None}]
    /\ env \in [region : BOOLEAN, key : {"none", "long-lived", "temporary"}, token : BOOLEAN,
                ca : {{}, {"system file"}, {"env directory", "curl file"}}]
    /\ endpoint = None /\ nbytes = None /\ probes = <<>> /\ openPc = "choose"

\* is_url_valid() of each endpoint.
HttpUrl(u) == u.scheme = "http" /\ u.path
HasS3Format(u) == u.form = "s3"
S3Url(u) == (u.scheme = "s3" /\ u.path) \/ HasS3Format(u)
PresignedUrl(u) == u.form = "presigned"
WebHdfsUrl(u) == u.form = "webhdfs"
IsUrlValid(type, u) ==
    CASE type = "HTTP" -> HttpUrl(u)
      [] type \in {"S3", "S3_PUBLIC"} -> S3Url(u)
      [] type = "S3_PRESIGNED_URL" -> PresignedUrl(u)
      [] type = "WEBHDFS" -> WebHdfsUrl(u)

\* The constructors: only S3Endpoint's throws, for want of a region, of keys or of the
\* session token that temporary keys need.
Constructs(type) ==
    type = "S3" => /\ env.region /\ env.key # "none"
                   /\ env.key = "temporary" => env.token

\* get_ca_paths(): the first source that exists; without one no curl handle can be made.
CaSource == SelectSeq(Certificates, LAMBDA s : s \in env.ca)
CurlHandleMade == CaSource # <<>>

\* infer_endpoint_impl(), up to the probe: the first type of the list the URL is valid for.
Suited(u, allow) == {i \in DOMAIN allow : IsUrlValid(allow[i], u)}
FirstSuited(u, allow) == IF Suited(u, allow) = {} THEN None ELSE allow[Min(Suited(u, allow))]
FallsBackAnyway(allow) == TRUE
FallsBack(allow) == "S3_PUBLIC" \in ToSet(allow)

Step(type, pc) ==
    /\ endpoint' = type /\ openPc' = pc
    /\ UNCHANGED <<request, env, nbytes, probes>>

\* open() in AUTO mode: an S3 endpoint that can be built is probed next, one that cannot
\* is replaced; any other type is taken.
Infer ==
    LET type == FirstSuited(request.url, request.allow)
    IN  /\ openPc = "choose" /\ request.type = "AUTO"
        /\ \/ type = None /\ Step(None, "thrown")
           \/ type \notin {None, "S3"} /\ Step(type, "size")
           \/ type = "S3" /\ Constructs("S3") /\ Step("S3", "probe")
           \/ /\ type = "S3" /\ ~Constructs("S3")
              /\ IF FallsBack(request.allow) THEN Step("S3_PUBLIC", "size") ELSE Step(None, "thrown")

\* open() with a type: it must be on the list and suit the URL.
Explicit ==
    /\ openPc = "choose" /\ request.type # "AUTO"
    /\ IF /\ request.type \in ToSet(request.allow)
          /\ IsUrlValid(request.type, request.url) /\ Constructs(request.type)
       THEN Step(request.type, "size") ELSE Step(None, "thrown")

\* Whether the endpoint's own URL is one libcurl can use: S3Endpoint turns an s3 URL
\* into an https one, S3PublicEndpoint keeps it.
Reachable(type) == CurlHandleMade /\ (type = "S3_PUBLIC" => request.url.scheme = "http")

\* get_file_size(): HEAD and Content-Length, GETFILESTATUS and its length, or for a
\* presigned URL a GET of one byte and Content-Range.  An answer without the header
\* makes the first two throw; a presigned URL's size is then 0.
SizeByHead == {RemoteSize, None}
SizeByFileStatus == {RemoteSize, None}
SizeByContentRange == {RemoteSize, None, 0}
SizeAnswers(type) ==
    IF ~Reachable(type) THEN {None}
    ELSE CASE type = "S3_PRESIGNED_URL" -> SizeByContentRange
           [] type = "WEBHDFS" -> SizeByFileStatus
           [] OTHER -> SizeByHead

\* The probe of infer_endpoint_impl(): its size is kept; a failure falls back.
ProbeS3(size) ==
    /\ openPc = "probe" /\ size \in SizeAnswers("S3")
    /\ probes' = Append(probes, "S3")
    /\ \/ /\ size # None
          /\ nbytes' = size /\ openPc' = "size" /\ UNCHANGED endpoint
       \/ /\ size = None /\ FallsBack(request.allow)
          /\ endpoint' = "S3_PUBLIC" /\ openPc' = "size" /\ UNCHANGED nbytes
       \/ /\ size = None /\ ~FallsBack(request.allow)
          /\ endpoint' = None /\ openPc' = "thrown" /\ UNCHANGED nbytes
    /\ UNCHANGED <<request, env>>

\* The end of open(): the caller's size, else the probed one, else another request.
TakeSize(size) ==
    /\ openPc = "size"
    /\ UNCHANGED <<request, env, endpoint>>
    /\ \/ /\ request.nbytes # None /\ size = request.nbytes
          /\ nbytes' = size /\ openPc' = "opened" /\ UNCHANGED probes
       \/ /\ request.nbytes = None /\ nbytes # None /\ size = nbytes
          /\ openPc' = "opened" /\ UNCHANGED <<nbytes, probes>>
       \/ /\ request.nbytes = None /\ nbytes = None /\ size \in SizeAnswers(endpoint)
          /\ probes' = Append(probes, endpoint)
          /\ nbytes' = size /\ openPc' = IF size = None THEN "thrown" ELSE "opened"

OpenNext ==
    \/ Infer \/ Explicit
    \/ \E size \in {RemoteSize, None, 0} : ProbeS3(size)
    \/ \E size \in {RemoteSize, None, 0} \cup GivenSizes : TakeSize(size)

OpenSpec == OpenInit /\ [][OpenNext]_openVars

-------------------------------------------------------------------------------
(* Properties.                                                             *)

\* RemoteHandle::open(): whatever the environment lacks and whichever request fails, the
\* endpoint is of an allowed type that suits the URL; in AUTO mode no earlier type of the
\* list suits it, except S3 after its fallback; the caller's size stands, and no endpoint
\* is asked for its size twice.
OpenIsAllowed ==
    openPc = "opened" =>
    /\ endpoint \in ToSet(request.allow) /\ IsUrlValid(endpoint, request.url)
    /\ request.type = "AUTO" =>
          FirstSuited(request.url, request.allow) = endpoint
          \/ (endpoint = "S3_PUBLIC" /\ FirstSuited(request.url, request.allow) = "S3")
    /\ request.nbytes # None => nbytes = request.nbytes
    /\ IsInjective(probes)

===============================================================================
