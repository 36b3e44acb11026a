------------------------------- MODULE PosixIo -------------------------------
(***************************************************************************)
(* posix_host_io(), posix_device_io() and posix_device_read_aligned(): one *)
(* call that moves a range of a file to or from memory in a loop of        *)
(* preads or pwrites, through O_DIRECT wherever offset, size and address   *)
(* are aligned to pages.                                                   *)
(*                                                                         *)
(* Data is positions: moved holds <<file position, buffer position>> for   *)
(* every byte that has reached its side.  The kernel may answer any pread  *)
(* or pwrite with fewer bytes, in whole sectors when it is direct, and     *)
(* refuses a direct request that is not aligned to sectors.                *)
(***************************************************************************)
EXTENDS Integers, FiniteSets, FiniteSetsExt

CONSTANTS Page, Sector, FileEnd,
          IoOffsets, IoSizes,
          Misalign,     \* distances of the user's host buffer from a page boundary
          BounceSizes   \* sizes a bounce buffer may have

ASSUME PosixAssumption ==
    /\ Page \in Nat \ {0} /\ Sector \in Nat \ {0} /\ Page % Sector = 0
    /\ FileEnd \in Nat
    /\ IoOffsets \subseteq Nat /\ IoSizes \subseteq Nat \ {0}
    /\ BounceSizes \subseteq Nat \ {0}

VARIABLES
    call,    \* the arguments, and the path the settings chose
    done,    \* bytes of the call processed by the outer loop
    inner,   \* posix_host_io()'s cur_offset, bytes_remaining and buffer position
    staged,  \* <<file position, position>> of the bytes in the device path's bounce buffer
    moved,   \* <<file position, buffer position>> of the bytes that have arrived
    ioPc     \* where the call is

posixVars == <<call, done, inner, staged, moved, ioPc>>

AlignDown(n) == n - (n % Page)
AlignUp(n) == AlignDown(n + Page - 1)
Aligned(n) == n % Page = 0

\* posix_device_read() chooses the over-reading path when direct I/O and over-reading
\* are on and the bounce buffer is two pages or more; the buffer is taken later.
IoPaths == {"host", "device", "overread"}
IoCalls == [path : IoPaths, write : BOOLEAN, direct : BOOLEAN, off : IoOffsets, size : IoSizes,
            misalign : Misalign, bounce : BounceSizes]
PosixInit ==
    /\ call \in IoCalls
    /\ call.path # "host" => call.misalign = 0
    /\ call.path = "overread" => call.direct /\ ~call.write
    /\ ~call.write => call.off + call.size <= FileEnd
    /\ done = 0 /\ staged = {} /\ moved = {}
    /\ inner = [off |-> 0, left |-> 0, at |-> 0]
    /\ ioPc = "outer"

Left == call.size - done
Cur == call.off + done

\* One turn of the outer loop: the request handed to posix_host_io().
\* posix_device_io() fills at most one bounce buffer; posix_device_read_aligned()
\* rounds the offset down and the end up, from the current offset each time.  Its
\* bounce_buffer_size - prefix wraps around size_t when the buffer ends before the prefix.
Prefix == Cur - AlignDown(Cur)
Expected == IF call.bounce < Prefix THEN Left ELSE Min({Left, call.bounce - Prefix})
Turn ==
    CASE call.path = "host" -> [off |-> call.off, left |-> call.size, at |-> 0]
      [] call.path = "device" -> [off |-> Cur, left |-> Min({call.bounce, Left}), at |-> 0]
      [] OTHER -> [off |-> Cur - Prefix, left |-> AlignUp(Prefix + Expected), at |-> 0]

BeginTurn ==
    /\ ioPc = "outer" /\ Left > 0
    /\ inner' = Turn
    \* A device write first copies its bytes into the bounce buffer.
    /\ staged' = IF call.path = "device" /\ call.write
                 THEN {<<Cur + i, i>> : i \in 0..(Turn.left - 1)} ELSE {}
    /\ ioPc' = "io"
    /\ UNCHANGED <<call, done, moved>>

\* The descriptor and the size of the next pread or pwrite of posix_host_io().
\* An unaligned buffer goes through a page-aligned bounce buffer.
AddressAligned == Aligned(call.misalign + inner.at)
Request ==
    IF ~call.direct THEN [direct |-> FALSE, size |-> inner.left]
    ELSE IF ~Aligned(inner.off)
    THEN [direct |-> FALSE, size |-> Min({AlignUp(inner.off) - inner.off, inner.left})]
    ELSE IF inner.left < Page THEN [direct |-> FALSE, size |-> inner.left]
    ELSE [direct |-> TRUE, size |-> IF AddressAligned THEN AlignDown(inner.left)
                                    ELSE Min({AlignDown(inner.left), call.bounce})]

\* What the kernel may answer.
Available == IF call.write THEN Request.size ELSE Max({0, Min({Request.size, FileEnd - inner.off})})
Refused == Request.direct /\ Request.size % Sector # 0
Answers == IF Refused THEN {}
           ELSE IF Request.direct
           THEN {k \in 0..Available : k = Available \/ (k > 0 /\ k % Sector = 0)}
           ELSE {k \in 0..Available : k = Available \/ k > 0}

\* Reads of the device paths, and every single call with PartialIO::YES, end at the
\* first answer; the others loop until nothing remains.
Partial == call.path # "host" /\ ~call.write

Bytes(k) == {<<inner.off + i, inner.at + i>> : i \in 0..(k - 1)}

\* Those within a bounce buffer, whose allocation is its size rounded up to pages; what a
\* read puts past it may be lost.
InBuffer(k) == {b \in Bytes(k) : b[2] < AlignUp(call.bounce)}

\* One pread or pwrite of posix_host_io().  An error or an early end of file throws.
Transfer(k) ==
    /\ ioPc = "io" /\ k \in Answers
    /\ k = 0 => ~call.write
    /\ ioPc' = IF k = 0 THEN "failed"
               ELSE IF Partial \/ k = inner.left THEN "copy" ELSE "io"
    /\ inner' = [off |-> inner.off + k, left |-> inner.left - k, at |-> inner.at + k]
    /\ CASE call.path = "host" -> moved' = moved \cup Bytes(k) /\ UNCHANGED staged
         [] call.path # "host" /\ call.write ->
              /\ moved' = moved \cup {<<inner.off + (b[2] - inner.at), b[1] - call.off>> :
                                        b \in {s \in staged : s[2] \in inner.at..(inner.at + k - 1)}}
              /\ UNCHANGED staged
         [] OTHER -> staged' \in {Bytes(k), InBuffer(k)} /\ UNCHANGED moved
    /\ UNCHANGED <<call, done>>

TransferFails ==
    /\ ioPc = "io"
    /\ ioPc' = "failed"
    /\ UNCHANGED <<call, done, inner, staged, moved>>

\* The end of the turn: a device read copies to the device what it asked for, past
\* the prefix, and the offsets advance by what was processed.
ProcessedWhole == IF call.path = "overread" THEN inner.at - Prefix ELSE inner.at
Processed == IF call.path = "overread" THEN Min({Expected, inner.at - Prefix}) ELSE inner.at
Skip == IF call.path = "overread" THEN Prefix ELSE 0
EndTurn ==
    /\ ioPc = "copy"
    /\ IF call.path = "overread" /\ inner.at <= Prefix
       THEN ioPc' = "failed" /\ UNCHANGED <<done, moved>>
       ELSE /\ done' = done + Processed
            /\ ioPc' = IF done' = call.size THEN "returned" ELSE "outer"
            /\ moved' = moved \cup
                 IF Partial THEN {<<s[1], done + s[2] - Skip>> :
                                    s \in {s \in staged : s[2] \in Skip..(Skip + Processed - 1)}}
                 ELSE {}
    /\ staged' = {}
    /\ UNCHANGED <<call, inner>>

PosixNext == BeginTurn \/ (\E k \in 0..Request.size : Transfer(k)) \/ TransferFails \/ EndTurn

PosixSpec == PosixInit /\ [][PosixNext]_posixVars

-------------------------------------------------------------------------------
(* Properties.                                                             *)

WantedBytes == {<<call.off + i, i>> : i \in 0..(call.size - 1)}

\* The setting fell below a page between the check for two pages and the over-read.
Undersized == call.path = "overread" /\ call.bounce < Page

\* posix_host_io(), posix_device_io(), posix_device_read_aligned(): whatever short
\* answers the kernel gives, no byte of the file or of the buffer outside the range
\* is touched, none goes to the wrong place, and a call that returns has moved them
\* all.  A turn never fills a bounce buffer past its allocation, and a request on the
\* O_DIRECT descriptor has an aligned offset and, if the bounce buffer is a whole number
\* of pages, an aligned size.
RangeIsMoved ==
    ~Undersized =>
    /\ moved \subseteq WantedBytes
    /\ ioPc = "returned" => moved = WantedBytes
    /\ call.path # "host" => inner.at + inner.left <= AlignUp(call.bounce)
    /\ ioPc = "io" /\ Request.direct =>
          Aligned(inner.off) /\ (Aligned(call.bounce) => Aligned(Request.size))

===============================================================================
