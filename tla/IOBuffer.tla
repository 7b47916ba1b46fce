----------------------------- MODULE IOBuffer -----------------------------
(***************************************************************************)
(* http_in_c/common/iobuffer.c: a block of memory with one more byte than  *)
(* its capacity, in which buffer_remaining bytes from buffer_ptr on are    *)
(* committed and not consumed.  ptr is the offset of buffer_ptr from the   *)
(* start of the memory.  Bytes are numbers; TERM is the terminating 0 and  *)
(* FILL what a fresh block holds.                                          *)
(***************************************************************************)
EXTENDS Integers, Sequences

CONSTANTS TERM, FILL,
          IOCapacity,   \* capacity of the buffer the user below works on
          MaxBytes      \* bound: bytes that arrive in a run

ASSUME IOBufferAssumption == IOCapacity \in Nat /\ MaxBytes \in Nat

IOBuffer_new(capacity) ==
    [capacity |-> capacity, ptr |-> 0, remaining |-> 0, mem |-> [i \in 0..capacity |-> FILL]]

IOBuffer_data(b) == [i \in 1..b.remaining |-> b.mem[b.ptr + i - 1]]
IOBuffer_space_len(b) == b.capacity - (b.ptr + b.remaining)

\* Faulty form of IOBuffer_commit: the terminator one place further on.
IOBuffer_commitBeyond(b, n) ==
    [b EXCEPT !.remaining = @ + n,
              !.mem = [i \in DOMAIN @ |-> IF i = b.remaining + n + 1 THEN TERM ELSE @[i]]]

\* The terminator goes to mem_p + buffer_remaining, whatever buffer_ptr is.
IOBuffer_commit(b, n) == [b EXCEPT !.remaining = @ + n, !.mem[b.remaining + n] = TERM]

\* The bytes are put at IOBuffer_space, and committed.
IOBuffer_data_add(b, bytes) ==
    LET start == b.ptr + b.remaining
    IN  IOBuffer_commit([b EXCEPT !.mem = [i \in DOMAIN @ |->
                            IF i - start \in 0..(Len(bytes) - 1) THEN bytes[i - start + 1] ELSE @[i]]],
                        Len(bytes))

\* The assertions of IOBuffer_data_add and of the IOBuffer_commit it calls.
DataAddAsserts(b, bytes) == IOBuffer_space_len(b) >= Len(bytes) /\ Len(bytes) > 0

IOBuffer_from_buf(bytes) == IOBuffer_data_add(IOBuffer_new(2 * Len(bytes)), bytes)

\* memcpy copies the whole allocation, and buffer_ptr keeps its offset.
IOBuffer_dup(b) == [IOBuffer_new(b.capacity) EXCEPT !.ptr = b.ptr, !.remaining = b.remaining,
                                                    !.mem = b.mem]

IOBuffer_consolidate_space(b) == IOBuffer_data_add(IOBuffer_new(b.capacity), IOBuffer_data(b))

IOBuffer_consume(b, n) ==
    [b EXCEPT !.ptr = IF b.remaining = n THEN 0 ELSE @ + n, !.remaining = @ - n]

IOBuffer_reset(b) == [b EXCEPT !.ptr = 0, !.remaining = 0]

\* The length test makes strncmp compare exactly the committed bytes, up to a 0.
IOBuffer_equal(a, b) ==
    /\ a.remaining = b.remaining
    /\ \A i \in 1..a.remaining :
        \/ IOBuffer_data(a)[i] = IOBuffer_data(b)[i]
        \/ \E j \in 1..(i - 1) : IOBuffer_data(a)[j] = TERM

-----------------------------------------------------------------------------
(* A user of one buffer, as the connections use theirs: bytes are received *)
(* into the space and committed, and the parser consumes some of them      *)

VARIABLES iob,      \* the buffer
          arrived,  \* bytes that have arrived; they are 1, 2, 3, ...
          unread,   \* history: the bytes that were committed and not consumed
          late      \* history: a commit followed a consume that left bytes behind

iobVars == <<iob, arrived, unread, late>>

IOBufferInit ==
    /\ iob = IOBuffer_new(IOCapacity)
    /\ arrived = 0
    /\ unread = << >>
    /\ late = FALSE

\* IOBuffer_space, recv into it, IOBuffer_commit; or IOBuffer_data_add.
Receive(n) ==
    LET bytes == [i \in 1..n |-> arrived + i]
    IN  /\ arrived + n <= MaxBytes
        /\ DataAddAsserts(iob, bytes)
        /\ iob' = IOBuffer_data_add(iob, bytes)
        /\ arrived' = arrived + n
        /\ unread' = unread \o bytes
        /\ late' = (late \/ iob.ptr > 0)

Consume(n) ==
    /\ n <= iob.remaining
    /\ iob' = IOBuffer_consume(iob, n)
    /\ unread' = SubSeq(unread, n + 1, Len(unread))
    /\ late' = (late /\ n < iob.remaining)
    /\ UNCHANGED arrived

ResetBuffer ==
    /\ iob' = IOBuffer_reset(iob)
    /\ unread' = << >>
    /\ late' = FALSE
    /\ UNCHANGED arrived

\* IOBuffer_dup of the buffer, or IOBuffer_consolidate_space, which moves the
\* bytes to the front (and aborts when there is none).
CopyBuffer ==
    /\ \/ iob' = IOBuffer_dup(iob)
       \/ iob.remaining > 0 /\ iob' = IOBuffer_consolidate_space(iob)
    /\ UNCHANGED <<arrived, unread, late>>

IOBufferNext ==
    \/ \E n \in 1..IOCapacity : Receive(n) \/ Consume(n)
    \/ ResetBuffer
    \/ CopyBuffer

IOBufferSpec == IOBufferInit /\ [][IOBufferNext]_iobVars

-----------------------------------------------------------------------------
(* Properties *)

\* The buffer hands out the bytes it was given, in order and followed by the
\* terminator that IOBuffer_cstr relies on, and stays within its memory, as long
\* as nothing is committed behind a consume that left bytes in it.  (Such a late
\* commit writes the terminator over a committed byte.)
BytesIntact ==
    /\ iob.ptr + iob.remaining <= iob.capacity
    /\ ~late => /\ IOBuffer_data(iob) = unread
                /\ unread # << >> => iob.mem[iob.ptr + iob.remaining] = TERM

\* A buffer that everything was consumed from has all of its space again, so a
\* connection that reads only into an emptied buffer never runs out of it.
EmptyIsRewound == iob.remaining = 0 => IOBuffer_space_len(iob) = IOCapacity

\* A buffer keeps the bytes it was given until they are consumed, and its space.
BufferKeepsBytes == BytesIntact /\ EmptyIsRewound
=============================================================================
