------------------------- MODULE AcknowledgedRanges -------------------------
(***************************************************************************)
(* The sorted list of half-open ranges in which the open-request lifecycle *)
(* remembers every acknowledged sequence                                   *)
(* (src-tauri/src/services/open_request_lifecycle.rs).                     *)
(***************************************************************************)
EXTENDS Integers, SequencesExt

AckRange == [start : Nat, end : Nat]

\* partition_point over the sorted list: how many leading ranges start before n, or end by n.
StartingBefore(ranges, n) ==
  CHOOSE k \in 0 .. Len(ranges) : \A i \in 1 .. Len(ranges) : i <= k <=> ranges[i].start < n
EndingBy(ranges, n) ==
  CHOOSE k \in 0 .. Len(ranges) : \A i \in 1 .. Len(ranges) : i <= k <=> ranges[i].end <= n

\* is_acknowledged_sequence, sequence_is_acknowledged
IsAcknowledged(ranges, n) ==
  LET i == EndingBy(ranges, n) + 1
  IN i <= Len(ranges) /\ ranges[i].start <= n /\ n < ranges[i].end

MergesLeft(ranges, n, k)  == k > 0 /\ ranges[k].end = n
MergesRight(ranges, n, k) == k < Len(ranges) /\ ranges[k + 1].start = n + 1

\* MUTANT of Acknowledge: a sequence between two ranges extends the left one only.
AcknowledgeLeftOnly(ranges, n) ==
  LET k == StartingBefore(ranges, n)
  IN IF MergesLeft(ranges, n, k) THEN [ranges EXCEPT ![k].end = n + 1]
     ELSE InsertAt(ranges, k + 1, [start |-> n, end |-> n + 1])

\* insert_acknowledged_sequence
Acknowledge(ranges, n) ==
  LET k == StartingBefore(ranges, n)
      left  == MergesLeft(ranges, n, k)
      right == MergesRight(ranges, n, k)
  IN CASE left /\ right   -> RemoveAt([ranges EXCEPT ![k].end = ranges[k + 1].end], k + 1)
       [] left /\ ~right  -> [ranges EXCEPT ![k].end = n + 1]
       [] ~left /\ right  -> [ranges EXCEPT ![k + 1].start = n]
       [] ~left /\ ~right -> InsertAt(ranges, k + 1, [start |-> n, end |-> n + 1])

\* The first loop of validate_snapshot: no range is empty, each ends before the next begins.
WellFormed(ranges) ==
  /\ \A i \in 1 .. Len(ranges) : ranges[i].start < ranges[i].end
  /\ \A i, j \in 1 .. Len(ranges) : i < j => ranges[i].end < ranges[j].start

\* What a list of ranges stands for.
Covers(ranges, n) == \E i \in 1 .. Len(ranges) : ranges[i].start <= n /\ n < ranges[i].end
=============================================================================
