---------------------------- MODULE BufferChain ----------------------------
(***************************************************************************)
(* http_in_c/common/buffer_chain.c: a list of IOBuffers that together hold *)
(* one byte string (a message body), with its length in m_size.            *)
(***************************************************************************)
EXTENDS IOBuffer, SequencesExt

CONSTANTS BlockSize,    \* capacity of a block made for a short append (256*4*8)
          Slack,        \* room left in a block made for a long one (100)
          MaxText,      \* bound: length of the text of a chain
          MaxBlocks     \* bound: blocks of a chain

Chains == {"this", "other"}

VARIABLES chain,    \* chain[c]: two chains, so that one can be appended to the other
          text,     \* history: text[c], the byte string chain[c] should hold
          recount   \* history: recount[c], BufferChain_add_front or BufferChain_remove_iter
                    \* has left another value than the length in m_size

chainVars == <<chain, text, recount>>

BufferChain_new == [m_chain |-> << >>, m_size |-> 0]

BufferChain_append(c, bytes) ==
    LET required == IF Len(bytes) > BlockSize THEN Len(bytes) + Slack ELSE BlockSize
        fits == c.m_size > 0 /\ IOBuffer_space_len(Last(c.m_chain)) >= Len(bytes)
    IN  [c EXCEPT !.m_size = @ + Len(bytes),
                  !.m_chain = IF fits
                              THEN [@ EXCEPT ![Len(@)] = IOBuffer_data_add(@, bytes)]
                              ELSE Append(@, IOBuffer_data_add(IOBuffer_new(required), bytes))]

BufferChain_append_IOBuffer(c, b) == BufferChain_append(c, IOBuffer_data(b))

BufferChain_add_back(c, b) == [c EXCEPT !.m_chain = Append(@, b), !.m_size = @ + b.remaining]

\* m_size is set, not increased.
BufferChain_add_front(c, b) == [c EXCEPT !.m_chain = <<b>> \o @, !.m_size = b.remaining]

\* m_size is left as it is.
BufferChain_remove_iter(c, i) == [c EXCEPT !.m_chain = RemoveAt(@, i)]

BufferChain_front(c) == Head(c.m_chain)

BufferChain_pop_front(c) ==
    [c EXCEPT !.m_chain = Tail(@), !.m_size = @ - BufferChain_front(c).remaining]

BufferChain_append_bufferchain(c, other) ==
    FoldLeft(LAMBDA d, b : BufferChain_add_back(d, IOBuffer_dup(b)), c, other.m_chain)

\* Faulty form of BufferChain_steal_bufferchain: m_size is not added up.
BufferChain_steal_bufferchainUncounted(c, other) ==
    [c EXCEPT !.m_chain = @ \o other.m_chain]

\* The result for this; other ends up without a block.
BufferChain_steal_bufferchain(c, other) == FoldLeft(BufferChain_add_back, c, other.m_chain)
StolenFrom(other) == FoldLeft(LAMBDA d, b : BufferChain_pop_front(d), other, other.m_chain)

\* The assertions of IOBuffer_data_add hold for every block in turn.
CompactAsserts(c) ==
    /\ \A i \in DOMAIN c.m_chain : c.m_chain[i].remaining > 0
    /\ FoldLeft(LAMBDA n, b : n + b.remaining, 0, c.m_chain) <= c.m_size

BufferChain_compact(c) ==
    FoldLeft(LAMBDA d, b : IOBuffer_data_add(d, IOBuffer_data(b)),
             IOBuffer_new(c.m_size), c.m_chain)

\* The bytes of all blocks are compared with those of cstr one by one, and
\* nothing is compared once the blocks are at their end.
BufferChain_eq_cstr(c, cstr) ==
    LET bytes == FoldLeft(LAMBDA s, b : s \o IOBuffer_data(b), << >>, c.m_chain)
    IN  /\ Len(bytes) <= Len(cstr)
        /\ \A i \in 1..Len(bytes) : bytes[i] = cstr[i]

-----------------------------------------------------------------------------
(* A user of two chains, who calls add_front and remove_iter at most once *)
(* for a chain                                                             *)

BufferChainInit ==
    /\ chain = [c \in Chains |-> BufferChain_new]
    /\ text = [c \in Chains |-> << >>]
    /\ recount = [c \in Chains |-> FALSE]

\* New bytes differ from the one before them.
NewBytes(c, n) == [i \in 1..n |-> ((Len(text[c]) + i) % 2) + 1]

\* BufferChain_append, _append_cstr and _append_IOBuffer.  (After remove_iter of
\* the only block they would follow the NULL that List_last returns.)
AppendBytes(c, n) ==
    LET bytes == NewBytes(c, n)
    IN  /\ Len(text[c]) + n <= MaxText
        /\ chain[c].m_size > 0 => chain[c].m_chain # << >>
        /\ \/ chain' = [chain EXCEPT ![c] = BufferChain_append(@, bytes)]
           \/ chain' = [chain EXCEPT ![c] = BufferChain_append_IOBuffer(@, IOBuffer_from_buf(bytes))]
        /\ text' = [text EXCEPT ![c] = @ \o bytes]
        /\ UNCHANGED recount

AddBlock(c, n) ==
    LET bytes == NewBytes(c, n)
        block == IOBuffer_from_buf(bytes)
    IN  /\ Len(text[c]) + n <= MaxText
        /\ Len(chain[c].m_chain) < MaxBlocks
        /\ \/ /\ chain' = [chain EXCEPT ![c] = BufferChain_add_back(@, block)]
              /\ text' = [text EXCEPT ![c] = @ \o bytes]
              /\ UNCHANGED recount
           \/ /\ ~recount[c]
              /\ chain' = [chain EXCEPT ![c] = BufferChain_add_front(@, block)]
              /\ text' = [text EXCEPT ![c] = bytes \o @]
              /\ recount' = [recount EXCEPT ![c] = TRUE]

PopFront(c) ==
    /\ chain[c].m_chain # << >>
    /\ chain' = [chain EXCEPT ![c] = BufferChain_pop_front(@)]
    /\ text' = [text EXCEPT ![c] = SubSeq(@, BufferChain_front(chain[c]).remaining + 1, Len(@))]
    /\ UNCHANGED recount

RemoveIter(c, i) ==
    LET before == FoldLeft(LAMBDA n, b : n + b.remaining, 0, SubSeq(chain[c].m_chain, 1, i - 1))
    IN  /\ i \in DOMAIN chain[c].m_chain
        /\ ~recount[c]
        /\ chain' = [chain EXCEPT ![c] = BufferChain_remove_iter(@, i)]
        /\ text' = [text EXCEPT ![c] = SubSeq(@, 1, before)
                        \o SubSeq(@, before + chain[c].m_chain[i].remaining + 1, Len(@))]
        /\ recount' = [recount EXCEPT ![c] = TRUE]

AppendChain ==
    /\ Len(text["this"] \o text["other"]) <= MaxText
    /\ Len(chain["this"].m_chain \o chain["other"].m_chain) <= MaxBlocks
    /\ \/ chain' = [chain EXCEPT !["this"] = BufferChain_append_bufferchain(@, chain["other"])]
          /\ text' = [text EXCEPT !["this"] = @ \o text["other"]]
       \/ chain' = [this |-> BufferChain_steal_bufferchain(chain["this"], chain["other"]),
                    other |-> StolenFrom(chain["other"])]
          /\ text' = [this |-> text["this"] \o text["other"], other |-> << >>]
    /\ UNCHANGED recount

BufferChainNext ==
    \/ \E c \in Chains, n \in 1..MaxText : AppendBytes(c, n) \/ AddBlock(c, n)
    \/ \E c \in Chains, i \in 1..MaxBlocks : RemoveIter(c, i)
    \/ \E c \in Chains : PopFront(c)
    \/ AppendChain

-----------------------------------------------------------------------------
(* Properties *)

\* However a chain was put together, block by block, byte by byte or from another
\* chain, BufferChain_eq_cstr tells its text from what is shorter, and compact
\* returns that text or fails an assertion, also after add_front and remove_iter
\* have left a wrong m_size.  Without these two m_size is the length of the text
\* and no assertion fails (buffer_chain.c:53-125, 158-230).  Nothing is claimed
\* for a longer string: eq_cstr takes it for the text when it begins with it,
\* although buffer_chain.h:79 says "the same as a given c-string".
ChainHoldsText ==
    \A c \in Chains :
        /\ \A n \in 0..Len(text[c]) :
            BufferChain_eq_cstr(chain[c], SubSeq(text[c], 1, n)) = (n = Len(text[c]))
        /\ CompactAsserts(chain[c]) =>
              IOBuffer_data(BufferChain_compact(chain[c])) = text[c]
        /\ ~recount[c] => chain[c].m_size = Len(text[c]) /\ CompactAsserts(chain[c])
=============================================================================
