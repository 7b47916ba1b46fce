------------------------------ MODULE Cbuffer ------------------------------
(***************************************************************************)
(* http_in_c/common/cbuffer.c: the growing buffer in which the HTTP parser *)
(* collects a target, a reason, a header name or a value from the pieces   *)
(* that arrive.  m_length is what Cbuffer_size returns, m_size where the   *)
(* last append put the terminator.                                         *)
(***************************************************************************)
EXTENDS Integers, Sequences, FiniteSetsExt

CONSTANTS NUL, RAW,     \* the byte 0, and what allocated memory holds
          MinString,    \* common_strategy.m_min_size (256)
          MaxString     \* common_strategy.m_max_size (1024 * 1024)

\* The bytes appended are 1, 2, 3, ...: a 0 among them would end a C string.
ASSUME CbufferAssumption ==
    /\ MinString \in Nat \ {0} /\ MaxString \in Nat /\ NUL \notin 1..MaxString

VARIABLES cbuf,     \* cbuf[b]: two buffers, so that one can be moved to the other
          string,   \* history: string[b], what was appended since the last clear
          written,  \* history: written[b], the buffer was appended to or cleared
          leap      \* history: leap[b], the last append went to twice the capacity
                    \* there was, or more, or to the maximum

cbufVars == <<cbuf, string, written, leap>>

\* One place beyond m_capacity is modelled: a terminator can go there.
BufferStrategy_allocate(n) == [i \in 0..MaxString |-> RAW]

BufferStrategy_reallocate_size(capacity, requested) ==
    Max({requested, Min({MaxString, 2 * capacity})})

Cbuffer_new == [m_length |-> 0, m_size |-> 0, m_capacity |-> MinString,
                mem |-> BufferStrategy_allocate(MinString)]

Cbuffer_data(b) == [i \in 1..b.m_length |-> b.mem[i - 1]]

\* The assertion of Cbuffer_cstr, and the string it returns.
CstrAsserts(b) == b.mem[b.m_size] = NUL
Cbuffer_cstr(b) == LET end == Min({i \in DOMAIN b.mem : b.mem[i] = NUL})
                   IN  [i \in 1..end |-> b.mem[i - 1]]

\* Faulty form of Cbuffer_clear: the first byte stays.
Cbuffer_clearLengthOnly(b) == [b EXCEPT !.m_length = 0]

\* m_length is set twice, m_size not at all.
Cbuffer_clear(b) == [b EXCEPT !.m_length = 0, !.mem[0] = NUL]

Cbuffer_append(b, bytes) ==
    LET length == b.m_length + Len(bytes)
        filled == [i \in DOMAIN b.mem |->
                    IF i \in b.m_length..(length - 1) THEN bytes[i - b.m_length + 1] ELSE b.mem[i]]
    IN  IF bytes = << >> THEN b
        ELSE [m_length |-> length, m_size |-> length, mem |-> [filled EXCEPT ![length] = NUL],
              m_capacity |-> IF length >= b.m_capacity
                             THEN BufferStrategy_reallocate_size(b.m_capacity, length)
                             ELSE b.m_capacity]

\* Cbuffer_move swaps the two structures, clearing dest before and src after.
Moved(dest, src) == [dest |-> src, src |-> Cbuffer_clear(Cbuffer_clear(dest))]

-----------------------------------------------------------------------------
(* A user of two buffers *)

CbufferInit ==
    /\ cbuf = [b \in {"dest", "src"} |-> Cbuffer_new]
    /\ string = [b \in {"dest", "src"} |-> << >>]
    /\ written = [b \in {"dest", "src"} |-> FALSE]
    /\ leap = [b \in {"dest", "src"} |-> FALSE]

\* BufferStrategy_reallocate_size asserts that the buffer stays below MaxString.
CbufferAppend(b, bytes) ==
    /\ cbuf[b].m_length + Len(bytes) <= MaxString
    /\ cbuf' = [cbuf EXCEPT ![b] = Cbuffer_append(@, bytes)]
    /\ string' = [string EXCEPT ![b] = @ \o bytes]
    /\ written' = [written EXCEPT ![b] = @ \/ bytes # << >>]
    /\ leap' = IF bytes = << >> THEN leap
               ELSE [leap EXCEPT ![b] = cbuf[b].m_length + Len(bytes)
                                            >= Min({MaxString, 2 * cbuf[b].m_capacity})]

CbufferClear(b) ==
    /\ cbuf' = [cbuf EXCEPT ![b] = Cbuffer_clear(@)]
    /\ string' = [string EXCEPT ![b] = << >>]
    /\ written' = [written EXCEPT ![b] = TRUE]
    /\ leap' = [leap EXCEPT ![b] = FALSE]

Cbuffer_move ==
    /\ cbuf' = Moved(cbuf["dest"], cbuf["src"])
    /\ string' = [dest |-> string["src"], src |-> << >>]
    /\ written' = [dest |-> written["src"], src |-> TRUE]
    /\ leap' = [dest |-> leap["src"], src |-> FALSE]

CbufferNext ==
    \/ \E b \in {"dest", "src"}, n \in 0..MaxString :
        CbufferAppend(b, [i \in 1..n |-> Len(string[b]) + i])
    \/ \E b \in {"dest", "src"} : CbufferClear(b)
    \/ Cbuffer_move

CbufferSpec == CbufferInit /\ [][CbufferNext]_cbufVars

-----------------------------------------------------------------------------
(* Properties *)

\* Through any sequence of appends, growths, clears and moves a buffer holds
\* exactly what was appended since it was last cleared, and once it has been
\* written to Cbuffer_cstr returns that string and its assertion on the
\* terminator holds, although clear leaves m_size and the old terminator behind.
CbufferHoldsString ==
    \A b \in {"dest", "src"} :
        /\ Cbuffer_data(cbuf[b]) = string[b]
        /\ written[b] => CstrAsserts(cbuf[b]) /\ Cbuffer_cstr(cbuf[b]) = string[b]

\* The string with its terminator fits in the memory allocated for it, unless
\* one append took the buffer to twice the capacity it had, or to the maximum:
\* it grows to what is asked for then, and the terminator lies one byte beyond.
TerminatorInside ==
    \A b \in {"dest", "src"} : ~leap[b] => cbuf[b].m_length < cbuf[b].m_capacity

\* A growing buffer keeps its string and the terminator Cbuffer_cstr asserts,
\* inside its memory.
CbufferKeepsString == CbufferHoldsString /\ TerminatorInside
=============================================================================
