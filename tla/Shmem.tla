------------------------------- MODULE Shmem --------------------------------
(***************************************************************************)
(* The segment behind a shared memory channel: que/src/shmem.rs under      *)
(* join_or_create_shmem, join_shmem and cleanup_shmem, and c/shmem.c.      *)
(*                                                                         *)
(* One id.  Every system call of open_or_create and close is a step, so    *)
(* processes interleave between them, die between them, or have a call     *)
(* fail.  The operating system (names, sizes, mappings) is external: a     *)
(* name goes to a segment, which lives on while anybody maps it.           *)
(***************************************************************************)
EXTENDS PageSize, FiniteSets

CONSTANTS
  Producers,     \* processes that call join_or_create_shmem
  Consumers,     \* processes that call join_shmem
  Capacities,    \* the N the programs may be built with
  MaxFaults,     \* bound: crashes, failing system calls and closes
  MaxCleanups    \* bound: calls of cleanup_shmem

\* A channel has one producer.  Two at a time could initialise one header
\* between each other's loads and stores.
ASSUME ShmemAssumption ==
  /\ Producers \cap Consumers = {}
  /\ \A p, q \in Producers : p = q
  /\ Capacities \subseteq Nat \ {0} /\ Capacities # {}
  /\ MaxFaults \in Nat /\ MaxCleanups \in Nat

Procs    == Producers \cup Consumers
Segments == 1 .. MaxCleanups + 1

VARIABLES
  \* The operating system
  page_size,   \* what all the programs were started with
  name,        \* the segment the id names, 0 if there is none
  created,     \* segments created so far
  size,        \* the size of each
  channel,     \* the capacity its header was initialised for, 0 before MAGIC
  \* Each process
  pc,          \* the system call it makes next, "down", "attached",
               \* "refused", or "closed" after the C port's close_shmem
  goal,        \* "join" or "cleanup"
  port,        \* "rust" or "c": whose open_or_create it runs
  cap,         \* the N it was built with
  seg,         \* the segment its descriptor refers to
  mapped,      \* how many bytes of it the process has mapped, 0 if none
  result,      \* what the last call returned
  \* Bounds
  faults, cleanups

os     == <<page_size, name, created, size, channel>>
call   == <<pc, goal, port, cap, seg, mapped, result>>
budget == <<faults, cleanups>>
vars   == <<os, call, budget>>

Calls   == {"open", "fstat", "truncate", "map", "header", "unmap", "unlink"}
Results == {"none", "Ok", "Uninitialized", "IncorrectCapacity", "ShmemError"}

\* Names, sizes and the places of the processes keep their types.
TypeOK ==
  /\ page_size \in PageSizes /\ name \in Segments \cup {0}
  /\ created \in 0 .. MaxCleanups + 1
  /\ size \in [Segments -> Nat] /\ channel \in [Segments -> Capacities \cup {0}]
  /\ pc \in [Procs -> Calls \cup {"down", "attached", "refused", "closed"}]
  /\ goal \in [Procs -> {"join", "cleanup"}] /\ port \in [Procs -> {"rust", "c"}]
  /\ cap \in [Procs -> Capacities] /\ seg \in [Procs -> Segments \cup {0}]
  /\ mapped \in [Procs -> Nat] /\ result \in [Procs -> Results]
  /\ faults \in 0 .. MaxFaults /\ cleanups \in 0 .. MaxCleanups

Init ==
  /\ page_size \in PageSizes
  /\ name = 0 /\ created = 0
  /\ size = [s \in Segments |-> 0] /\ channel = [s \in Segments |-> 0]
  /\ pc = [p \in Procs |-> "down"] /\ goal = [p \in Procs |-> "join"]
  /\ port = [p \in Procs |-> "rust"]
  /\ cap \in [Procs -> Capacities] /\ seg = [p \in Procs |-> 0]
  /\ mapped = [p \in Procs |-> 0] /\ result = [p \in Procs |-> "none"]
  /\ faults = 0 /\ cleanups = 0

\* buffer_size: the page-aligned size of the channel the program was built for.
Need(p) == mem_size(page_size, ChannelSize(cap[p]))

Goto(p, from, to) == pc[p] = from /\ pc' = [pc EXCEPT ![p] = to]

\* The join of p succeeded and its endpoint is in use.
Attached(p) == pc[p] = "attached"

-----------------------------------------------------------------------------
(***************************************************************************)
(* open_or_create.                                                         *)
(***************************************************************************)

\* A process starts, or starts again after it was refused or has closed, and
\* joins.
StartJoin(p, how) ==
  /\ pc[p] \in {"down", "refused", "closed"}
  /\ pc' = [pc EXCEPT ![p] = "open"] /\ goal' = [goal EXCEPT ![p] = "join"]
  /\ port' = [port EXCEPT ![p] = how]
  /\ seg' = [seg EXCEPT ![p] = 0] /\ mapped' = [mapped EXCEPT ![p] = 0]
  /\ result' = [result EXCEPT ![p] = "none"]
  /\ UNCHANGED <<os, cap, budget>>

\* cleanup_shmem: open_or_create, then close, in a program of its own or, as in
\* examples/interprocess, as the last act of an endpoint that is still attached.
\* The C port has no such call.
StartCleanup(p) ==
  /\ pc[p] = "down" \/ (Attached(p) /\ port[p] = "rust")
  /\ cleanups < MaxCleanups
  /\ cleanups' = cleanups + 1
  /\ pc' = [pc EXCEPT ![p] = "open"] /\ goal' = [goal EXCEPT ![p] = "cleanup"]
  /\ port' = [port EXCEPT ![p] = "rust"]
  /\ result' = [result EXCEPT ![p] = "none"]
  /\ UNCHANGED <<os, cap, seg, mapped, faults>>

\* Mutant: a segment that exists is taken to have its size.
AfterOpenNewOnly(p) ==
  IF (page_size = "Standard" \/ port[p] = "c") /\ name = 0 THEN "fstat" ELSE "map"

\* After the open: standard pages are sized with ftruncate, and in C all are.
AfterOpen(p) ==
  IF page_size = "Standard" \/ port[p] = "c" THEN "fstat" ELSE "map"

\* Mutant: the segment must be new (O_EXCL).
OpenExclusive(p) ==
  /\ name = 0
  /\ Goto(p, "open", AfterOpen(p))
  /\ seg' = [seg EXCEPT ![p] = created + 1]
  /\ name' = created + 1 /\ created' = created + 1
  /\ UNCHANGED <<page_size, size, channel, goal, port, cap, mapped, result,
                 budget>>

\* shm_open or open with O_CREAT: the segment the id names, or a new one, empty.
Open(p) ==
  /\ Goto(p, "open", AfterOpen(p))
  /\ IF name # 0
     THEN seg' = [seg EXCEPT ![p] = name] /\ UNCHANGED <<name, created>>
     ELSE /\ created <= MaxCleanups
          /\ seg' = [seg EXCEPT ![p] = created + 1]
          /\ name' = created + 1 /\ created' = created + 1
  /\ UNCHANGED <<page_size, size, channel, goal, port, cap, mapped, result,
                 budget>>

\* fstat: is the size the one this program needs?
Fstat(p) ==
  /\ Goto(p, "fstat", IF size[seg[p]] # Need(p) THEN "truncate" ELSE "map")
  /\ UNCHANGED <<os, goal, port, cap, seg, mapped, result, budget>>

\* ftruncate: larger or smaller, whoever else has it mapped.  What was beyond
\* the new end is gone: slots of the ring, and the header too if it were that
\* short.
Truncate(p) ==
  /\ Goto(p, "truncate", "map")
  /\ size' = [size EXCEPT ![seg[p]] = Need(p)]
  /\ channel' = IF Need(p) < HEADER THEN [channel EXCEPT ![seg[p]] = 0] ELSE channel
  /\ UNCHANGED <<page_size, name, created, goal, port, cap, seg, mapped, result,
                 budget>>

\* mmap.  The file system of the huge pages extends a file that is too short.
\* The descriptor is closed on return, the mapping stays.
Map(p) ==
  /\ Goto(p, "map", IF goal[p] = "join" THEN "header" ELSE "unmap")
  /\ mapped' = [mapped EXCEPT ![p] = Need(p)]
  /\ size' = IF page_size # "Standard" /\ size[seg[p]] < Need(p)
             THEN [size EXCEPT ![seg[p]] = Need(p)] ELSE size
  /\ UNCHANGED <<page_size, name, created, channel, goal, port, cap, seg,
                 result, budget>>

-----------------------------------------------------------------------------
(***************************************************************************)
(* The join on the mapped segment (its accesses one by one: Handshake).    *)
(***************************************************************************)

\* Mutant: the capacity of the header is not checked.
JoinResultUnchecked(p) ==
  IF channel[seg[p]] = 0 /\ p \notin Producers THEN "Uninitialized" ELSE "Ok"

\* What the join of p returns, given the header it finds.
JoinResult(p) ==
  CASE channel[seg[p]] = cap[p]                    -> "Ok"
    [] channel[seg[p]] = 0 /\ p \in Producers      -> "Ok"
    [] channel[seg[p]] = 0 /\ p \notin Producers   -> "Uninitialized"
    [] OTHER                                       -> "IncorrectCapacity"

\* MAGIC is joined if the capacity is right; a producer initialises what has
\* none.  Nothing is unmapped when the join fails.  With one producer, whose
\* last store is MAGIC, the join takes effect at that store or at the load of
\* MAGIC: the accesses one by one, and dying between them, are in Handshake.
JoinHeader(p) ==
  /\ Goto(p, "header", IF JoinResult(p) = "Ok" THEN "attached" ELSE "refused")
  /\ result' = [result EXCEPT ![p] = JoinResult(p)]
  /\ channel' = IF channel[seg[p]] = 0 /\ p \in Producers
                THEN [channel EXCEPT ![seg[p]] = cap[p]] ELSE channel
  /\ UNCHANGED <<page_size, name, created, size, goal, port, cap, seg, mapped,
                 budget>>

-----------------------------------------------------------------------------
(***************************************************************************)
(* close, and what goes wrong.                                             *)
(***************************************************************************)

\* munmap.
Unmap(p) ==
  /\ Goto(p, "unmap", "unlink")
  /\ mapped' = [mapped EXCEPT ![p] = 0]
  /\ UNCHANGED <<os, goal, port, cap, seg, result, budget>>

\* unlink of the huge page file: an error is returned.
UnlinkHuge(p) ==
  /\ page_size # "Standard"
  /\ Goto(p, "unlink", "down")
  /\ name' = 0
  /\ result' = [result EXCEPT ![p] = IF name # 0 THEN "Ok" ELSE "ShmemError"]
  /\ UNCHANGED <<page_size, created, size, channel, goal, port, cap, seg, mapped,
                 budget>>

\* shm_unlink: the id is handed over without its terminating zero, so what is
\* looked up is the id or something longer.  A failure is only printed.
UnlinkShm(p) ==
  /\ page_size = "Standard"
  /\ Goto(p, "unlink", "down")
  /\ name' \in {0, name}
  /\ result' = [result EXCEPT ![p] = "Ok"]
  /\ UNCHANGED <<page_size, created, size, channel, goal, port, cap, seg, mapped,
                 budget>>

\* close_shmem of the C port: it closes the descriptor, and unmaps only what is
\* NULL.
CloseShmemC(p) ==
  /\ port[p] = "c" /\ pc[p] \in {"attached", "refused"} /\ mapped[p] > 0
  /\ faults < MaxFaults
  /\ faults' = faults + 1
  /\ pc' = [pc EXCEPT ![p] = "closed"]
  /\ UNCHANGED <<os, goal, port, cap, seg, mapped, result, cleanups>>

\* A process dies, or ends, wherever it is: its mappings go with it.
Crash(p) ==
  /\ pc[p] # "down" /\ faults < MaxFaults
  /\ faults' = faults + 1
  /\ pc' = [pc EXCEPT ![p] = "down"] /\ mapped' = [mapped EXCEPT ![p] = 0]
  /\ UNCHANGED <<os, goal, port, cap, seg, result, cleanups>>

\* A system call of open_or_create fails and a ShmemError is returned; what the
\* calls before it have made stays.
SystemCallFails(p) ==
  /\ pc[p] \in {"open", "fstat", "truncate", "map"} /\ faults < MaxFaults
  /\ faults' = faults + 1
  /\ pc' = [pc EXCEPT ![p] = "refused"]
  /\ result' = [result EXCEPT ![p] = "ShmemError"]
  /\ UNCHANGED <<os, goal, port, cap, seg, mapped, cleanups>>

-----------------------------------------------------------------------------
Progress(p) ==
  \/ Open(p) \/ Fstat(p) \/ Truncate(p) \/ Map(p) \/ JoinHeader(p)
  \/ Unmap(p) \/ UnlinkHuge(p) \/ UnlinkShm(p)

Next ==
  \E p \in Procs :
    \/ StartCleanup(p) \/ Progress(p) \/ Crash(p) \/ CloseShmemC(p)
    \/ SystemCallFails(p)
    \/ \E how \in {"rust", "c"} : StartJoin(p, how)

Spec == Init /\ [][Next]_vars

\* Every process keeps trying: a call that has begun goes on, and one that was
\* refused or has died is started again.
FairSpec ==
  Spec /\ \A p \in Procs :
            WF_vars(Progress(p)) /\ WF_vars(\E how \in {"rust", "c"} : StartJoin(p, how))

-----------------------------------------------------------------------------
\* The programs were built for one capacity.
Alike == \A p, q \in Procs : cap[p] = cap[q]

\* Who has opened the id is on a segment.
OnSegment ==
  \A p \in Procs :
    \/ pc[p] \in (Calls \ {"open"}) \cup {"attached"}
    \/ pc[p] = "refused" /\ result[p] = "IncorrectCapacity"
    => seg[p] \in Segments

\* Types are kept, and among programs built alike what a process has mapped and
\* goes on to use is there: the segment of a process at its header or attached
\* is as large as the mapping (beyond the end of the segment an access kills the
\* process), whoever created it, sized it, or died before sizing it.  A program
\* built for less cuts the segment down before it is refused.
Backed ==
  /\ TypeOK /\ OnSegment
  /\ Alike => \A p \in Procs :
       /\ \A s \in Segments : size[s] \in {0, Need(p)}
       /\ pc[p] = "map" /\ page_size = "Standard" => size[seg[p]] = Need(p)
       /\ pc[p] \in {"header", "attached"} =>
            size[seg[p]] = Need(p) /\ mapped[p] = Need(p) /\ Need(p) > 0

\* Attached processes agree with their segment, hence with each other, on the
\* capacity, whatever sizes it was given; and whoever was refused for its
\* capacity is on a segment of another one still.
CapacityAgreed ==
  \A p \in Procs :
    /\ Attached(p) => channel[seg[p]] = cap[p]
    /\ pc[p] = "refused" /\ result[p] = "IncorrectCapacity"
         => channel[seg[p]] \notin {0, cap[p]}

\* A producer and a consumer built alike that keep trying, each started first or
\* second, meet on one segment once the faults are over, unless somebody cleans
\* up: an empty or unsized segment that a dead process left behind keeps
\* neither out.
Meet ==
  Alike /\ [](cleanups = 0) =>
    \A p \in Producers, c \in Consumers :
      <>[](Attached(p) /\ Attached(c) /\ seg[p] = seg[c])

=============================================================================
