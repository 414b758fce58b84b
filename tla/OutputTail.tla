----------------------------- MODULE OutputTail -----------------------------
(***************************************************************************)
(* The bounded tail of terminal output a runner keeps (output_tail.rs).    *)
(*                                                                         *)
(* The runner feeds every chunk it reads from the PTY to extend(); what is *)
(* retained is replayed to a new attachment and written to the output file *)
(* when the session completes.  The history variable fed is everything the *)
(* tail was ever given; the code keeps no such thing.                      *)
(***************************************************************************)
EXTENDS Integers, Sequences

CONSTANTS Byte,      \* the values of an output byte
          Capacities, \* what OutputTail::new may be given (OUTPUT_TAIL_BYTES)
          Chunks,    \* the chunks a PTY read may return
          MaxFed     \* bound: bytes ever fed

ASSUME CapacityAssumption == Capacities \subseteq Nat
ASSUME ChunksAssumption == Chunks \subseteq Seq(Byte)
ASSUME MaxFedAssumption == MaxFed \in Nat

VARIABLES bytes,     \* OutputTail::bytes, oldest first
          capacity,  \* OutputTail::capacity, fixed by new()
          truncated, \* OutputTail::truncated
          fed        \* history: every byte given to extend(), in order
vars == <<bytes, capacity, truncated, fed>>

-----------------------------------------------------------------------------
\* s without its first n elements: VecDeque::drain(..n), and incoming[n..].
Drop(s, n) == SubSeq(s, n + 1, Len(s))

\* OutputTail::new
Init ==
    /\ bytes = <<>>
    /\ capacity \in Capacities
    /\ truncated = FALSE
    /\ fed = <<>>

\* `if incoming.is_empty() { return }`
ExtendNothing(incoming) ==
    /\ incoming = <<>>
    /\ UNCHANGED <<bytes, truncated>>

\* `if self.capacity == 0`: nothing can be kept.
ExtendNoRoom(incoming) ==
    /\ incoming # <<>>
    /\ capacity = 0
    /\ truncated' = TRUE
    /\ UNCHANGED bytes

\* Mutant of ExtendReplace: what the tail held before is forgotten by the flag.
ExtendReplaceForgetsOld(incoming) ==
    /\ incoming # <<>>
    /\ capacity # 0
    /\ Len(incoming) >= capacity
    /\ truncated' = (truncated \/ Len(incoming) > capacity)
    /\ bytes' = Drop(incoming, Len(incoming) - capacity)

\* `if incoming.len() >= self.capacity`: the chunk alone fills the tail.
ExtendReplace(incoming) ==
    /\ incoming # <<>>
    /\ capacity # 0
    /\ Len(incoming) >= capacity
    /\ truncated' = (truncated \/ bytes # <<>> \/ Len(incoming) > capacity)
    /\ bytes' = Drop(incoming, Len(incoming) - capacity)

\* Mutant of Overflow: one byte too few makes room.
OverflowOffByOne(incoming) ==
    IF Len(bytes) + Len(incoming) > capacity + 1
      THEN Len(bytes) + Len(incoming) - capacity - 1
      ELSE 0

\* Bytes that no longer fit: len + incoming.len() saturating_sub capacity.
Overflow(incoming) ==
    IF Len(bytes) + Len(incoming) > capacity
      THEN Len(bytes) + Len(incoming) - capacity
      ELSE 0

\* The remaining case: the oldest bytes make room for the chunk.
ExtendShift(incoming) ==
    /\ incoming # <<>>
    /\ capacity # 0
    /\ Len(incoming) < capacity
    /\ bytes' = Drop(bytes, Overflow(incoming)) \o incoming
    /\ truncated' = (truncated \/ Overflow(incoming) # 0)

\* OutputTail::extend
Extend(incoming) ==
    /\ Len(fed) + Len(incoming) <= MaxFed
    /\ fed' = fed \o incoming
    /\ UNCHANGED capacity
    /\ \/ ExtendNothing(incoming)
       \/ ExtendNoRoom(incoming)
       \/ ExtendReplace(incoming)
       \/ ExtendShift(incoming)

Next == \E incoming \in Chunks : Extend(incoming)

Spec == Init /\ [][Next]_vars

-----------------------------------------------------------------------------
\* Types, and the tail never outgrows its capacity.
TypeOK ==
    /\ capacity \in Capacities
    /\ bytes \in Seq(Byte)
    /\ Len(bytes) <= capacity
    /\ truncated \in BOOLEAN
    /\ fed \in Seq(Byte)

\* How many of n bytes a tail of this capacity cannot keep.
Lost(n) == IF n <= capacity THEN 0 ELSE n - capacity

\* The tail is exactly the end of everything the program printed, as much of
\* it as the capacity allows, whatever the chunks were (output_tail.rs extend:
\* the three branches agree on one meaning).
TailIsSuffix == bytes = Drop(fed, Lost(Len(fed)))

\* The truncation flag, which decides whether a reader is shown the marker
\* and what metadata records, is set exactly when some byte was lost.
TruncatedIffLost == truncated <=> Lost(Len(fed)) > 0

=============================================================================
