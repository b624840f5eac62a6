------------------------------- MODULE Layout -------------------------------
(***************************************************************************)
(* The arithmetic on which programs in two languages must agree to share   *)
(* one segment: where the fields of Channel are, how large a segment is,   *)
(* and in which slot a position lives.  Where the code has a mask (for the *)
(* ring and for the page) it has one here; the other modules use the       *)
(* modulus and the multiple these stand for.  Everything is a function of  *)
(* its inputs.                                                             *)
(***************************************************************************)
EXTENDS PageSize

CONSTANTS
  BitAnd(_, _), \* the operator & of both languages
  UsizeBits,    \* the bits of a usize and of a size_t: 64
  WORD,         \* bytes of capacity and of magic: 8
  MaxCapacity,  \* bound: capacities
  MaxElement    \* bound: element sizes

UsizeRange  == 2^UsizeBits
PowersOfTwo == {2^k : k \in 0 .. UsizeBits}

\* What the masks of a power of two do: m - 1 keeps the low bits, and its
\* complement ~(m - 1) the others.
ASSUME MaskAssumption ==
  /\ UsizeBits \in Nat
  /\ \A m \in PowersOfTwo :
       /\ m \in Nat \ {0} /\ UsizeRange % m = 0
       /\ \A x \in 0 .. UsizeRange - 1 :
            /\ BitAnd(x, m - 1) = x % m
            /\ BitAnd(x, UsizeRange - m) = x - (x % m)

\* The header of both languages is five lines of ALIGN bytes; pages are powers
\* of two; no size overflows.
ASSUME LayoutAssumption ==
  /\ {WORD, MaxCapacity, MaxElement} \subseteq Nat \ {0}
  /\ ALIGN % WORD = 0 /\ 2 * WORD <= ALIGN /\ HEADER = 5 * ALIGN
  /\ \A page \in {STANDARD, HUGE, GIGANTIC} :
       /\ page \in PowersOfTwo
       /\ HEADER + MaxCapacity * MaxElement + page <= UsizeRange

\* The alignment of a type divides its size, and that of Channel is not less:
\* with a larger one the buffer of Rust would not begin where that of C does.
RingSizes == {n \in PowersOfTwo : n <= MaxCapacity}
Types     == {t \in [size : 1 .. MaxElement, align : PowersOfTwo] :
                t.size % t.align = 0 /\ ALIGN % t.align = 0}

-----------------------------------------------------------------------------
(***************************************************************************)
(* The fields.                                                             *)
(***************************************************************************)

\* repr(C): a field starts at the first multiple of its alignment behind the
\* field before it, which has so many bytes at that offset.
Behind(offset, bytes, align_) == get_upligned_size(align_, offset + bytes)

\* Channel in Rust, with the buffer of n elements of type t: each cursor and
\* each heartbeat a line of its own, then the padding and the two words.
ChannelOffsets(n, t) ==
  LET head_     == Behind(0, ALIGN, ALIGN)
      producer_ == Behind(head_, ALIGN, ALIGN)
      consumer_ == Behind(producer_, ALIGN, ALIGN)
      padding_  == Behind(consumer_, ALIGN, 1)
      capacity_ == Behind(padding_, ALIGN - 2 * WORD, WORD)
      magic_    == Behind(capacity_, WORD, WORD)
      buffer_   == Behind(magic_, WORD, t.align)
  IN  [tail |-> 0, head |-> head_,
       producer_heartbeat |-> producer_, consumer_heartbeat |-> consumer_,
       capacity |-> capacity_, magic |-> magic_, buffer |-> buffer_,
       end |-> Behind(buffer_, n * t.size, ALIGN)]

\* What the C code has written down: "Offset 128", ..., "Offset 624", "Offset
\* 632", and the buffer right behind the struct (the 640 of get_buffer_ptr).
COffsets(n, t) ==
  [tail |-> 0, head |-> ALIGN,
   producer_heartbeat |-> 2 * ALIGN, consumer_heartbeat |-> 3 * ALIGN,
   capacity |-> HEADER - 2 * WORD, magic |-> HEADER - WORD, buffer |-> HEADER,
   end |-> SizeOfChannel(n, t.size)]

-----------------------------------------------------------------------------
(***************************************************************************)
(* Sizes and slots.                                                        *)
(***************************************************************************)

\* buffer_size of the C programs: sizeof(spsc_t) + CHANNEL_N * sizeof(CHANNEL_T).
CBufferSize(n, t) == HEADER + n * t.size

\* Mutant: a whole page too much is added.
AlignToPageSizeOff(bytes, page) ==
  BitAnd(bytes + page, UsizeRange - page)

\* (size + page_size_ - 1) & ~(page_size_ - 1), where ~x is UsizeRange - 1 - x.
AlignToPageSize(bytes, page) ==
  BitAnd(bytes + page - 1, UsizeRange - page)

\* Mutant: the position is incremented before it is masked.
RingSlotAfter(p, n) == BitAnd((p + 1) % UsizeRange, n - 1)

\* p & MODULO_MASK, and & (CHANNEL_N - 1), of a counter that has wrapped around.
RingSlot(p, n) == BitAnd(p % UsizeRange, n - 1)

-----------------------------------------------------------------------------
\* The offsets that C has written down are those of Rust's fields; and a C and
\* a Rust program built for one capacity and one element ask for a segment of
\* the same size, which holds the buffer, though C rounds to the page only and
\* Rust to the alignment first.
SameLayout ==
  \A n \in RingSizes, t \in Types :
    /\ ChannelOffsets(n, t) = COffsets(n, t)
    /\ \A ps \in PageSizes :
         LET bytes == AlignToPageSize(CBufferSize(n, t), PageBytes(ps)) IN
         /\ bytes = mem_size(ps, ChannelOffsets(n, t).end)
         /\ bytes >= ChannelOffsets(n, t).buffer + n * t.size

=============================================================================
