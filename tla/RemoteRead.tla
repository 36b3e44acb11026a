------------------------------ MODULE RemoteRead ------------------------------
(***************************************************************************)
(* RemoteHandle::read() and the tasks of an EASY_THREADPOOL pread(): one   *)
(* range request through CurlHandle::perform(), its retries, the write     *)
(* callbacks, and for a device buffer the pinned bounce buffer in between. *)
(*                                                                         *)
(* A byte is its position in the remote object.  libcurl is external: it   *)
(* hands the body to the callback in pieces and ends the attempt with a    *)
(* code.  A server may ignore the range and send the whole object.         *)
(***************************************************************************)
EXTENDS Integers, Sequences

CONSTANTS ObjectSize, ReadSizes, ReadOffsets,
          Capacities,     \* sizes of the bounce buffer
          MaxPieces,      \* longest piece libcurl hands over
          AttemptLimits,  \* values of http_max_attempts
          ServerFaults,   \* what servers may do: "ignores range", "short body"
          NoByte

ASSUME RemoteReadAssumption ==
    /\ ObjectSize \in Nat /\ ReadSizes \subseteq Nat \ {0} /\ ReadOffsets \subseteq Nat
    /\ Capacities \subseteq Nat \ {0} /\ AttemptLimits \subseteq Nat \ {0} /\ MaxPieces \in Nat

VARIABLES
    req,       \* the arguments, the retry policy and the kind of server
    attempt,   \* perform()'s attempt
    sent,      \* bytes of the body handed over in this attempt
    ctx,       \* CallbackContext: offset and overflow_error
    bounce,    \* BounceBufferH2D: _dev_offset and the bytes below _host_offset
    buf,       \* the caller's buffer
    code,      \* how the attempt ended
    flushed,   \* whether every copy to the device succeeded
    readPc

readVars == <<req, attempt, sent, ctx, bounce, buf, code, flushed, readPc>>

NoCtx == [offset |-> 0, overflow |-> FALSE]
EmptyBounce == [dev |-> 0, host |-> <<>>]

\* expect_read_in_bounds().
InBounds(off, size) == off <= ObjectSize /\ size <= ObjectSize - off

ReadInit ==
    /\ req \in [off : ReadOffsets, size : ReadSizes, device : BOOLEAN, capacity : Capacities,
                limit : AttemptLimits, server : {"ranged"} \cup ({"ignores range"} \cap ServerFaults)]
    /\ InBounds(req.off, req.size)
    /\ attempt = 1 /\ sent = 0 /\ ctx = NoCtx /\ bounce = EmptyBounce
    /\ buf = [p \in 0..(req.size - 1) |-> NoByte]
    /\ code = "none" /\ flushed = TRUE /\ readPc = "receiving"

-------------------------------------------------------------------------------
(* The body.                                                               *)

\* setup_range_request(): the body is the range, from a server that honours it.
First == IF req.server = "ranged" THEN req.off ELSE 0
BodyLength == IF req.server = "ranged" THEN req.size ELSE ObjectSize

\* The buffer after bytes are written to position at.
Write(b, at, bytes) == [p \in DOMAIN b |-> IF p - at \in 0..(Len(bytes) - 1) THEN bytes[p - at + 1] ELSE b[p]]

\* BounceBufferH2D::write_to_device(): the buffer and the counters after copying bytes.
ToDevice(state, bytes) ==
    [dev |-> state.dev + Len(bytes), host |-> state.host, buf |-> Write(state.buf, state.dev, bytes)]
Flush(state) == [ToDevice(state, state.host) EXCEPT !.host = <<>>]

\* BounceBufferH2D::write().
BounceWrite(state, bytes) ==
    LET room == IF req.capacity - Len(state.host) < Len(bytes) THEN Flush(state) ELSE state
    IN  IF req.capacity < Len(bytes) THEN ToDevice(room, bytes)
        ELSE [room EXCEPT !.host = @ \o bytes]

\* callback_host_memory(), callback_device_memory() on the next n bytes of the body:
\* more bytes than the range has room for are refused, which ends the attempt.
Receive(n) ==
    LET bytes == [i \in 1..n |-> First + sent + i - 1]
        state == [dev |-> bounce.dev, host |-> bounce.host, buf |-> buf]
        after == IF req.device THEN BounceWrite(state, bytes)
                 ELSE [state EXCEPT !.buf = Write(buf, ctx.offset, bytes)]
    IN  /\ readPc = "receiving" /\ sent + n <= BodyLength
        /\ sent' = sent + n
        /\ IF req.size < ctx.offset + n
           THEN /\ ctx' = [ctx EXCEPT !.overflow = TRUE]
                /\ code' = "write error" /\ readPc' = "decide"
                /\ UNCHANGED <<bounce, buf>>
           ELSE /\ ctx' = [ctx EXCEPT !.offset = @ + n]
                /\ buf' = after.buf /\ bounce' = [dev |-> after.dev, host |-> after.host]
                /\ UNCHANGED <<code, readPc>>
        /\ UNCHANGED <<req, attempt, flushed>>

\* curl_easy_perform() returns: the body is over, or was cut short by a server that
\* announced less, or a transport error, a retryable status (no body is delivered
\* then) or another error ended it.
EndOfAttempt(c) ==
    /\ readPc = "receiving"
    /\ c = "ok" => sent = BodyLength \/ "short body" \in ServerFaults
    /\ c = "status" => sent = 0
    /\ code' = c /\ readPc' = "decide"
    /\ UNCHANGED <<req, attempt, sent, ctx, bounce, buf, flushed>>

-------------------------------------------------------------------------------
(* The retries.                                                            *)

\* HttpRetryPolicy::is_retryable() and evaluate().
IsRetryable(c) == c \in {"transport", "status"}
Decision == IF code = "ok" THEN "success"
            ELSE IF ~IsRetryable(code) THEN "fatal"
            ELSE IF attempt >= req.limit THEN "exhausted" ELSE "retry"

\* CallbackContext::reset_for_retry() and BounceBufferH2D::reset_for_retry().
ResetHostOnly(b) == [b EXCEPT !.host = <<>>]
ResetForRetry(b) == EmptyBounce
Retry ==
    /\ readPc = "decide" /\ Decision = "retry"
    /\ attempt' = attempt + 1
    /\ ctx' = NoCtx /\ bounce' = ResetForRetry(bounce)
    /\ sent' = 0 /\ code' = "none" /\ readPc' = "receiving"
    /\ UNCHANGED <<req, buf, flushed>>

\* read_impl() leaves the scope of the bounce buffer, whose destructor flushes what is
\* left and swallows an error of that; then it returns size, or throws.
Leave(ok) ==
    LET state == Flush([dev |-> bounce.dev, host |-> bounce.host, buf |-> buf])
    IN  /\ readPc = "decide" /\ Decision # "retry"
        /\ ok \/ req.device
        /\ buf' = IF ok THEN state.buf ELSE buf
        /\ bounce' = EmptyBounce
        /\ flushed' = (flushed /\ ok)
        /\ readPc' = IF Decision = "success" THEN "returned" ELSE "thrown"
        /\ UNCHANGED <<req, attempt, sent, ctx, code>>

\* A copy that piece n makes necessary fails: the exception passes through libcurl and
\* leaves perform().
CopyFails(n) ==
    /\ readPc = "receiving" /\ req.device
    /\ sent + n <= BodyLength /\ ctx.offset + n <= req.size
    /\ req.capacity - Len(bounce.host) < n
    /\ code' = "copy failed" /\ readPc' = "decide" /\ flushed' = FALSE
    /\ UNCHANGED <<req, attempt, sent, ctx, bounce, buf>>

Codes == {"ok", "transport", "status", "other"}
ReadNext ==
    \/ \E n \in 1..MaxPieces : Receive(n) \/ CopyFails(n)
    \/ \E c \in Codes : EndOfAttempt(c)
    \/ Retry
    \/ \E ok \in BOOLEAN : Leave(ok)

ReadSpec == ReadInit /\ [][ReadNext]_readVars

-------------------------------------------------------------------------------
(* Properties.                                                             *)

\* The range as the caller expects it.
Delivered == \A p \in DOMAIN buf : buf[p] = req.off + p

\* read_impl(), perform(): whatever the earlier attempts left behind, the pieces the
\* body came in and the size of the bounce buffer, a read that returns after its server
\* sent the whole body and every copy succeeded has put each byte in its place; a server
\* that ignores ranges makes the read fail rather than return other bytes.
BytesLandInPlace ==
    readPc = "returned" /\ flushed /\ sent = BodyLength => Delivered

\* RemoteHandle::read(): "@return Number of bytes read, which is always `size`": a read
\* that returns has read them.
ReturnedIsRead == readPc = "returned" => Delivered

===============================================================================
