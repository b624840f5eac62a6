------------------------------ MODULE PageSize ------------------------------
(***************************************************************************)
(* How large a segment is: que/src/page_size.rs, and the alignment that    *)
(* Channel has in Rust.                                                    *)
(***************************************************************************)
EXTENDS Integers

CONSTANTS
  STANDARD,   \* the page of the system, sysconf(PAGE_SIZE)
  HUGE,       \* 2 MiB
  GIGANTIC,   \* 1 GiB
  ALIGN,      \* repr(align(128)) of Channel
  HEADER,     \* bytes before the buffer: 640
  ELEMENT     \* size_of::<T>()

ASSUME PageAssumption ==
  /\ {STANDARD, HUGE, GIGANTIC, ALIGN, HEADER, ELEMENT} \subseteq Nat \ {0}
  /\ \A page \in {STANDARD, HUGE, GIGANTIC} : page % ALIGN = 0

PageSizes == {"Standard", "Huge", "Gigantic"}

PageBytes(page_size) ==
  CASE page_size = "Standard" -> STANDARD
    [] page_size = "Huge"     -> HUGE
    [] page_size = "Gigantic" -> GIGANTIC

div_ceil(a, b) == (a + b - 1) \div b

get_upligned_size(page, size) == page * div_ceil(size, page)

mem_size(page_size, size) == get_upligned_size(PageBytes(page_size), size)

\* size_of::<Channel<_, T, n>>() for elements of t bytes: the size of a Rust
\* type is a multiple of its alignment.
SizeOfChannel(n, t) == get_upligned_size(ALIGN, HEADER + n * t)

ChannelSize(n) == SizeOfChannel(n, ELEMENT)

=============================================================================
