---------------------------- MODULE ShmemProofs -----------------------------
(***************************************************************************)
(* Proofs about the segments of shared memory channels, for one producer,  *)
(* every number of consumers, page sizes and capacities, and any number of *)
(* crashes, failing calls and cleanups.                                    *)
(***************************************************************************)
EXTENDS Shmem, TLAPS

\* Rounding up to a page makes no size smaller.
LEMMA RoundedUp ==
  ASSUME NEW page \in Nat \ {0}, NEW bytes \in Nat \ {0}
  PROVE  /\ get_upligned_size(page, bytes) \in Nat \ {0}
         /\ get_upligned_size(page, bytes) >= bytes
<1> DEFINE q == div_ceil(bytes, page)
<1>1. q \in Nat \ {0} /\ page * q >= bytes
  <2> DEFINE a == bytes + page - 1
  <2>1. a \in Nat /\ a >= page
    OBVIOUS
  <2>2. a \div page \in Int /\ a = page * (a \div page) + (a % page) /\ a % page \in 0 .. page - 1
    BY <2>1
  <2>3. a \div page >= 1
    BY <2>1, <2>2
  <2>4. q = a \div page
    BY DEF div_ceil
  <2>5. page * (a \div page) >= bytes
    BY <2>2
  <2> QED BY <2>2, <2>3, <2>4, <2>5
<1> HIDE DEF q
<1>2. page * q \in Nat \ {0}
  BY <1>1
<1> QED BY <1>1, <1>2 DEF get_upligned_size, q

\* What a program asks for has room for the header.
LEMMA NeedPositive ==
  ASSUME TypeOK, NEW p \in Procs
  PROVE  Need(p) \in Nat \ {0} /\ ~(Need(p) < HEADER)
<1>1. PageBytes(page_size) \in Nat \ {0}
  BY PageAssumption DEF TypeOK, PageSizes, PageBytes
<1>2. cap[p] \in Nat \ {0}
  BY ShmemAssumption DEF TypeOK
<1> DEFINE n == cap[p] * ELEMENT
<1>3. n \in Nat
  BY <1>2, PageAssumption
<1> HIDE DEF n
<1>4. HEADER + n \in Nat \ {0} /\ ALIGN \in Nat \ {0}
  BY <1>3, PageAssumption
<1>5. ChannelSize(cap[p]) \in Nat \ {0} /\ ChannelSize(cap[p]) >= HEADER + n
  BY <1>4, RoundedUp DEF ChannelSize, SizeOfChannel, n
<1>6. Need(p) \in Nat \ {0} /\ Need(p) >= ChannelSize(cap[p])
  BY <1>1, <1>5, RoundedUp DEF Need, mem_size
<1> QED BY <1>3, <1>5, <1>6, PageAssumption

\* The programs and the pages they use do not change.
LEMMA SameNeeds ==
  ASSUME UNCHANGED <<cap, page_size>>
  PROVE  (\A p : Need(p)' = Need(p)) /\ (Alike' <=> Alike)
  BY DEF Need, Alike, mem_size, PageBytes

\* Programs that are alike ask for the same.
LEMMA AlikeNeeds ==
  ASSUME Alike, NEW p \in Procs, NEW q \in Procs
  PROVE  Need(p) = Need(q)
  BY DEF Alike, Need

-----------------------------------------------------------------------------
\* The parts of Backed for programs built alike.
Sized ==
  Alike => \A p \in Procs :
    /\ \A s \in Segments : size[s] \in {0, Need(p)}
    /\ pc[p] = "map" /\ page_size = "Standard" => size[seg[p]] = Need(p)
    /\ pc[p] \in {"header", "attached"} =>
         size[seg[p]] = Need(p) /\ mapped[p] = Need(p) /\ Need(p) > 0

IInv == TypeOK /\ OnSegment /\ Sized /\ CapacityAgreed

\* Everybody is down and there is no segment.
LEMMA InitIInv == Init => IInv
<1> SUFFICES ASSUME Init PROVE IInv
  OBVIOUS
<1>1. TypeOK
  BY ShmemAssumption DEF Init, TypeOK, Results, Segments
<1>2. OnSegment /\ CapacityAgreed
  BY DEF Init, OnSegment, CapacityAgreed, Attached, Calls
<1>3. Sized
  BY DEF Init, Sized
<1> QED BY <1>1, <1>2, <1>3 DEF IInv

\* A step of p that leaves the segments alone and does not bring p to a header.
LEMMA QuietStep ==
  ASSUME IInv, NEW p \in Procs, TypeOK',
         UNCHANGED <<page_size, size, channel, cap>>,
         \A q \in Procs \ {p} : /\ pc'[q] = pc[q] /\ seg'[q] = seg[q]
                                /\ mapped'[q] = mapped[q] /\ result'[q] = result[q],
         \/ pc'[p] \in {"down", "open", "closed"}
         \/ pc'[p] = "refused" /\ result'[p] # "IncorrectCapacity"
         \/ /\ pc'[p] \in {"fstat", "truncate", "map", "unmap", "unlink"}
            /\ seg'[p] \in Segments
            /\ pc'[p] = "map" /\ page_size = "Standard" => size[seg'[p]] = Need(p)
  PROVE  IInv'
<1>1. OnSegment'
  BY DEF IInv, OnSegment, Calls
<1>2. CapacityAgreed'
  BY DEF IInv, CapacityAgreed, Attached
<1>3. Sized'
  <2> SUFFICES ASSUME Alike, NEW q \in Procs
               PROVE  /\ \A s \in Segments : size[s] \in {0, Need(q)}
                      /\ pc'[q] = "map" /\ page_size = "Standard" => size[seg'[q]] = Need(q)
                      /\ pc'[q] \in {"header", "attached"} =>
                           /\ size[seg'[q]] = Need(q) /\ mapped'[q] = Need(q)
                           /\ Need(q) > 0
    BY SameNeeds DEF Sized
  <2>1. CASE q = p
    BY <2>1 DEF IInv, Sized
  <2>2. CASE q # p
    BY <2>2 DEF IInv, Sized
  <2> QED BY <2>1, <2>2
<1> QED BY <1>1, <1>2, <1>3 DEF IInv

\* The steps of QuietStep keep the types.
LEMMA StartStep ==
  ASSUME IInv, NEW p \in Procs,
         \/ StartCleanup(p) \/ Crash(p) \/ CloseShmemC(p) \/ SystemCallFails(p)
         \/ \E how \in {"rust", "c"} : StartJoin(p, how)
  PROVE  IInv'
<1>1. TypeOK'
  <2>1. CASE StartCleanup(p)
    BY <2>1, ShmemAssumption DEF IInv, TypeOK, StartCleanup, os, Calls, Results
  <2>2. CASE Crash(p) \/ CloseShmemC(p) \/ SystemCallFails(p)
    BY <2>2, ShmemAssumption
       DEF IInv, TypeOK, Crash, CloseShmemC, SystemCallFails, os, Calls, Results
  <2>3. ASSUME NEW how \in {"rust", "c"}, StartJoin(p, how) PROVE TypeOK'
    BY <2>3 DEF IInv, TypeOK, StartJoin, os, budget, Calls, Results
  <2> QED BY <2>1, <2>2, <2>3
<1>2. /\ UNCHANGED <<page_size, size, channel, cap>>
      /\ \A q \in Procs \ {p} : /\ pc'[q] = pc[q] /\ seg'[q] = seg[q]
                                /\ mapped'[q] = mapped[q] /\ result'[q] = result[q]
      /\ \/ pc'[p] \in {"down", "open", "closed"}
         \/ pc'[p] = "refused" /\ result'[p] # "IncorrectCapacity"
  BY DEF IInv, TypeOK, StartCleanup, Crash, CloseShmemC, SystemCallFails, StartJoin, os
<1> QED BY <1>1, <1>2, QuietStep

\* Opening the id finds its segment or makes one; then its size is looked at.
LEMMA OpenStep ==
  ASSUME IInv, NEW p \in Procs, Open(p) \/ Fstat(p)
  PROVE  IInv'
<1>1. seg'[p] \in Segments
  BY ShmemAssumption DEF IInv, TypeOK, OnSegment, Open, Fstat, Goto, Calls, Segments
<1>2. TypeOK'
  <2>1. CASE Open(p)
    <3>1. pc' \in [Procs -> Calls \cup {"down", "attached", "refused", "closed"}]
      BY <2>1 DEF IInv, TypeOK, Open, Goto, AfterOpen, Calls
    <3>2. name' \in Segments \cup {0} /\ created' \in 0 .. MaxCleanups + 1
      BY <2>1, ShmemAssumption DEF IInv, TypeOK, Open, Segments
    <3>3. seg' = [seg EXCEPT ![p] = seg'[p]]
      BY <2>1 DEF IInv, TypeOK, Open
    <3>4. seg' \in [Procs -> Segments \cup {0}]
      BY <1>1, <3>3 DEF IInv, TypeOK
    <3> QED BY <2>1, <3>1, <3>2, <3>4 DEF IInv, TypeOK, Open, budget
  <2>2. CASE Fstat(p)
    BY <2>2 DEF IInv, TypeOK, Fstat, Goto, Calls, os, budget
  <2> QED BY <2>1, <2>2
<1>3. /\ pc'[p] \in {"fstat", "truncate", "map"}
      /\ pc'[p] = "map" /\ page_size = "Standard" => size[seg'[p]] = Need(p)
  BY DEF IInv, TypeOK, Open, Fstat, Goto, AfterOpen
<1>4. /\ UNCHANGED <<page_size, size, channel, cap>>
      /\ \A q \in Procs \ {p} : /\ pc'[q] = pc[q] /\ seg'[q] = seg[q]
                                /\ mapped'[q] = mapped[q] /\ result'[q] = result[q]
  BY DEF IInv, TypeOK, Open, Fstat, Goto, os
<1> QED BY <1>1, <1>2, <1>3, <1>4, QuietStep

\* close takes the name away, not the segment.
LEMMA CloseStep ==
  ASSUME IInv, NEW p \in Procs, Unmap(p) \/ UnlinkHuge(p) \/ UnlinkShm(p)
  PROVE  IInv'
<1>1. TypeOK'
  BY DEF IInv, TypeOK, Unmap, UnlinkHuge, UnlinkShm, Goto, os, budget, Calls, Results
<1>2. /\ UNCHANGED <<page_size, size, channel, cap>>
      /\ \A q \in Procs \ {p} : /\ pc'[q] = pc[q] /\ seg'[q] = seg[q]
                                /\ mapped'[q] = mapped[q] /\ result'[q] = result[q]
      /\ pc'[p] = "down" \/ (pc'[p] = "unlink" /\ seg'[p] \in Segments)
  BY DEF IInv, TypeOK, OnSegment, Unmap, UnlinkHuge, UnlinkShm, Goto, os, Calls
<1> QED BY <1>1, <1>2, QuietStep

\* ftruncate and mmap: programs built alike give a segment the one size all
\* of them need.
LEMMA SizeStep ==
  ASSUME IInv, NEW p \in Procs, Truncate(p) \/ Map(p)
  PROVE  IInv'
<1> USE DEF IInv
<1>0. seg[p] \in Segments /\ Need(p) \in Nat \ {0} /\ ~(Need(p) < HEADER)
  BY NeedPositive DEF OnSegment, Truncate, Map, Goto, Calls
<1>1. /\ UNCHANGED <<page_size, channel, cap, seg, result>>
      /\ pc'[p] \in {"map", "header", "unmap"}
      /\ \A q \in Procs \ {p} : pc'[q] = pc[q] /\ mapped'[q] = mapped[q]
      /\ pc'[p] = "header" => mapped'[p] = Need(p)
  BY <1>0 DEF TypeOK, Truncate, Map, Goto
<1>2. TypeOK'
  BY <1>0 DEF TypeOK, Truncate, Map, Goto, Calls, budget
<1>3. OnSegment' /\ CapacityAgreed'
  BY <1>0, <1>1 DEF OnSegment, CapacityAgreed, Attached
<1>4. /\ \A s \in Segments : size'[s] = size[s] \/ size'[s] = Need(p)
      /\ pc'[p] = "map" => size'[seg[p]] = Need(p)
  BY <1>0 DEF TypeOK, Truncate, Map, Goto
<1>5. ASSUME Alike, pc'[p] = "header" PROVE size'[seg[p]] = Need(p)
  <2>1. Map(p) /\ size[seg[p]] \in {0, Need(p)}
    BY <1>0, <1>1, <1>5 DEF Truncate, Goto, TypeOK, Sized
  <2>2. CASE page_size = "Standard"
    BY <1>5, <2>1, <2>2 DEF Map, Goto, Sized
  <2>3. CASE page_size # "Standard"
    BY <1>0, <2>1, <2>3 DEF Map, TypeOK
  <2> QED BY <2>2, <2>3
<1>6. Sized'
  <2> SUFFICES ASSUME Alike, NEW q \in Procs
               PROVE  /\ \A s \in Segments : size'[s] \in {0, Need(q)}
                      /\ pc'[q] = "map" /\ page_size = "Standard"
                           => size'[seg[q]] = Need(q)
                      /\ pc'[q] \in {"header", "attached"} =>
                           /\ size'[seg[q]] = Need(q) /\ mapped'[q] = Need(q)
                           /\ Need(q) > 0
    BY <1>1, SameNeeds DEF Sized
  <2>1. Need(q) = Need(p)
    BY AlikeNeeds
  <2>2. \A s \in Segments : size'[s] \in {0, Need(q)}
    BY <1>4, <2>1 DEF Sized
  <2>3. CASE q = p
    BY <1>0, <1>1, <1>4, <1>5, <2>2, <2>3
  <2>4. CASE q # p
    BY <1>1, <1>4, <2>1, <2>2, <2>4 DEF Sized, OnSegment, Calls
  <2> QED BY <2>3, <2>4
<1> QED BY <1>2, <1>3, <1>6

\* The join initialises only what has no header, and attaches or refuses by the
\* capacity it finds.
LEMMA JoinHeaderStep ==
  ASSUME IInv, NEW p \in Procs, JoinHeader(p)
  PROVE  IInv'
<1> USE DEF IInv
<1>0. /\ seg[p] \in Segments /\ pc[p] = "header" /\ cap[p] \in Capacities
      /\ cap[p] # 0 /\ cap[p] \in Nat
  BY ShmemAssumption DEF TypeOK, OnSegment, JoinHeader, Goto, Calls
<1>1. /\ UNCHANGED <<page_size, name, created, size, goal, port, cap, seg, mapped, budget>>
      /\ \A q \in Procs \ {p} : pc'[q] = pc[q] /\ result'[q] = result[q]
      /\ result'[p] = JoinResult(p)
      /\ pc'[p] = IF JoinResult(p) = "Ok" THEN "attached" ELSE "refused"
  BY DEF TypeOK, JoinHeader, Goto
<1>2. /\ channel' \in [Segments -> Capacities \cup {0}]
      /\ \A s \in Segments : channel[s] # 0 => channel'[s] = channel[s]
      /\ channel'[seg[p]] = IF channel[seg[p]] = 0 /\ p \in Producers
                            THEN cap[p] ELSE channel[seg[p]]
  BY <1>0 DEF TypeOK, JoinHeader
<1>3. JoinResult(p) \in Results
  BY DEF JoinResult, Results
<1>4. TypeOK'
  BY <1>1, <1>2, <1>3 DEF TypeOK, JoinHeader, Goto, budget, Calls
<1>5. OnSegment'
  BY <1>0, <1>1 DEF OnSegment
<1>6. CapacityAgreed'
  <2> SUFFICES ASSUME NEW q \in Procs
               PROVE  /\ pc'[q] = "attached" => channel'[seg[q]] = cap[q]
                      /\ pc'[q] = "refused" /\ result'[q] = "IncorrectCapacity"
                           => channel'[seg[q]] \notin {0, cap[q]}
    BY <1>1 DEF CapacityAgreed, Attached
  <2>1. CASE q = p
    BY <1>0, <1>1, <1>2, <2>1 DEF JoinResult
  <2>2. CASE q # p
    <3>1. cap[q] # 0
      BY ShmemAssumption DEF TypeOK
    <3> QED BY <1>1, <1>2, <2>2, <3>1
            DEF CapacityAgreed, Attached, OnSegment, Calls
  <2> QED BY <2>1, <2>2
<1>7. Sized'
  <2> SUFFICES ASSUME Alike, NEW q \in Procs
               PROVE  /\ \A s \in Segments : size[s] \in {0, Need(q)}
                      /\ pc'[q] = "map" /\ page_size = "Standard"
                           => size[seg[q]] = Need(q)
                      /\ pc'[q] \in {"header", "attached"} =>
                           /\ size[seg[q]] = Need(q) /\ mapped[q] = Need(q)
                           /\ Need(q) > 0
    BY <1>1, SameNeeds DEF Sized
  <2>1. CASE q = p
    BY <1>0, <1>1, <2>1 DEF Sized
  <2>2. CASE q # p
    BY <1>1, <2>2 DEF Sized
  <2> QED BY <2>1, <2>2
<1> QED BY <1>4, <1>5, <1>6, <1>7

-----------------------------------------------------------------------------
\* Every system call, join, crash and failure preserves the invariant.
LEMMA NextIInv == IInv /\ [Next]_vars => IInv'
<1> SUFFICES ASSUME IInv, [Next]_vars PROVE IInv'
  OBVIOUS
<1>1. CASE UNCHANGED vars
  <2>1. UNCHANGED <<page_size, name, created, size, channel, pc, goal, port, cap, seg,
                    mapped, result, faults, cleanups>>
    BY <1>1 DEF vars, os, call, budget
  <2>2. TypeOK' /\ OnSegment' /\ CapacityAgreed'
    BY <2>1 DEF IInv, TypeOK, OnSegment, CapacityAgreed, Attached
  <2>3. Sized'
    BY <2>1, SameNeeds DEF IInv, Sized
  <2> QED BY <2>2, <2>3 DEF IInv
<1>2. ASSUME NEW p \in Procs,
             \/ StartCleanup(p) \/ Progress(p) \/ Crash(p) \/ CloseShmemC(p)
             \/ SystemCallFails(p)
             \/ \E how \in {"rust", "c"} : StartJoin(p, how)
      PROVE  IInv'
  BY <1>2, StartStep, OpenStep, SizeStep, CloseStep, JoinHeaderStep DEF Progress
<1> QED BY <1>1, <1>2 DEF Next

\* The invariant of the segments, for any processes and capacities.
THEOREM Invariance == Spec => []IInv
<1> QED BY InitIInv, NextIInv, PTL DEF Spec

\* Among programs built alike, every process at its header or attached has all
\* of its mapping behind it, on pages of any size and alignment.
THEOREM BackedCorrect == Spec => []Backed
<1>1. IInv => Backed
  BY DEF IInv, Sized, Backed
<1> QED BY <1>1, Invariance, PTL

\* Attached processes agree on the capacity with their segment, and a refusal
\* for the capacity stays true.
THEOREM CapacityAgreedCorrect == Spec => []CapacityAgreed
<1>1. IInv => CapacityAgreed
  BY DEF IInv
<1> QED BY <1>1, Invariance, PTL

=============================================================================
