------------------------------ MODULE RecordFile ------------------------------
(***************************************************************************)
(* lab2_file_system/system_vs_lib_io: one run of the program that          *)
(* generates, sorts in place or copies a file of records, by system calls  *)
(* or by the C library.  A step is one call on a file; any call may fail,  *)
(* and a write may be cut short: then the first byte of the record, its    *)
(* sort key, is written and the rest is not.                               *)
(*                                                                         *)
(* The library keeps what is written, one after another from one place on, *)
(* in a buffer until the next fseek, the buffer is full or the stream is   *)
(* closed.  Files hold whole records; no other process uses them.          *)
(***************************************************************************)
EXTENDS Integers, Sequences, FiniteSets

CONSTANTS
  Keys,         \* values of a record's first byte
  num_of_records,
  MaxLength,    \* bound: records in the given file
  Faults        \* bound: calls that fail in one run

ASSUME ConstantsAssumption ==
  /\ Keys \subseteq Nat \ {0}
  /\ num_of_records \in Nat \ {0}
  /\ MaxLength \in Nat /\ Faults \in Nat

VARIABLES
  args,         \* argv, and what is wrong with it
  original,     \* the file to be sorted or copied, as it was given
  file,         \* the file that is written
  unflushed,    \* the stream's buffer: its records, and where they go
  record,       \* the buffers first_record and second_record
  i, j,         \* the loops' counters; j also is copy's position in its source
  pc, result,   \* where the function is, and what it returns
  faults,       \* history: calls that failed
  code          \* exit status, -1 before

loops == <<i, j, record>>
vars == <<args, original, file, unflushed, loops, pc, result, faults, code>>

sys == args.variant = "sys"
lib == args.variant = "lib"
Outcomes == {"full", "short", "error"}

(* mutant: only a negative result of write is taken for a failure *)
copy_failed_negative(outcome) == outcome = "error"

(* What the functions take for a failed write.  generate compares write's  *)
(* -1 with a size_t.                                                       *)
copy_failed(outcome) == outcome # "full"
generate_failed(outcome) == outcome = "short"
sort_failed(outcome) == outcome = "error"

Count(outcome) ==
  /\ faults' = faults + (IF outcome = "full" THEN 0 ELSE 1)
  /\ faults' <= Faults

(* File f after records recs were written from place pos on; a gap before  *)
(* them reads as zeros.                                                    *)
Hole == [key |-> 0, body |-> 0]
Overwritten(f, pos, recs) ==
  LET end == pos + Len(recs) IN
  [n \in 1..(IF recs = <<>> \/ end < Len(f) THEN Len(f) ELSE end) |->
     IF n \in pos+1..end THEN recs[n - pos]
     ELSE IF n <= Len(f) THEN f[n] ELSE Hole]

(* The record as it is in the file when only its first byte was written. *)
Cut(f, w) == [w.rec EXCEPT !.body = IF w.pos < Len(f) THEN f[w.pos + 1].body ELSE 0]

Written(f, w, outcome) ==
  CASE outcome = "full"  -> Overwritten(f, w.pos, <<w.rec>>)
    [] outcome = "short" -> Overwritten(f, w.pos, <<Cut(f, w)>>)
    [] outcome = "error" -> f

Empty == [pos |-> 0, recs |-> <<>>]
Flushed == Overwritten(file, unflushed.pos, unflushed.recs)

(* The file after n records of the buffer got through, and part of the next. *)
FlushedTo(n, outcome) ==
  Written(Overwritten(file, unflushed.pos, SubSeq(unflushed.recs, 1, n)),
          [pos |-> unflushed.pos + n, rec |-> unflushed.recs[n + 1]], outcome)

FlushFails ==
  /\ Count("error")
  /\ \E n \in 0..Len(unflushed.recs)-1, outcome \in {"short", "error"} :
       file' = FlushedTo(n, outcome)
  /\ unflushed' \in {Empty, unflushed}    \* dropped, or kept for the next flush

Fail == pc' = "close" /\ result' = -1

-------------------------------------------------------------------------------
(* main: the arguments, and the exit status of a function that failed. *)

Given == [command: {"generate", "sort", "copy", "other"}, variant: {"sys", "lib"},
          wrong: {"nothing", "argc", "numbers", "variant"}]

usage_code ==
  [generate |-> [argc |-> 2, numbers |-> 3, variant |-> 0, nothing |-> 0],
   sort     |-> [argc |-> 4, numbers |-> 5, variant |-> 6, nothing |-> 0],
   copy     |-> [argc |-> 7, numbers |-> 8, variant |-> 9, nothing |-> 0],
   other    |-> [argc |-> 1, numbers |-> 10, variant |-> 10, nothing |-> 10]]
failure_code == [generate |-> 4, sort |-> 5, copy |-> 8]

Main ==
  /\ pc = "main"
  /\ LET usage == usage_code[args.command][args.wrong] IN
     IF usage = 0 THEN pc' = "open" /\ UNCHANGED code
                  ELSE pc' = "ended" /\ code' = usage
  /\ UNCHANGED <<args, original, file, unflushed, loops, result, faults>>

(* Files are closed, which flushes a stream; nobody looks at the result. *)
Close ==
  /\ pc = "close"
  /\ \/ file' = Flushed /\ unflushed' = Empty /\ UNCHANGED faults
     \/ FlushFails
  /\ pc' = "ended"
  /\ code' = IF result = 0 THEN 0 ELSE failure_code[args.command]
  /\ UNCHANGED <<args, original, loops, result>>

(* An open that fails, after the file to be written may have been          *)
(* truncated; sort_lib goes on with a null stream and crashes.             *)
OpenFails ==
  /\ pc = "open"
  /\ Count("error")
  /\ IF args.command = "sort" /\ lib
     THEN pc' = "ended" /\ code' = 139 /\ UNCHANGED result
     ELSE Fail /\ UNCHANGED code
  /\ file' \in IF args.command = "generate" THEN {file, <<>>} ELSE {file}
  /\ UNCHANGED <<args, original, unflushed, loops>>

-------------------------------------------------------------------------------
(* generate *)

OpenNew ==
  /\ pc = "open" /\ args.command = "generate"
  /\ file' = <<>> /\ i' = 0
  /\ pc' = "generate"
  /\ UNCHANGED <<args, original, unflushed, record, j, result, faults, code>>

generate ==
  /\ pc = "generate" /\ i < num_of_records
  /\ i' = i + 1
  /\ \/ \E outcome \in Outcomes, key \in Keys :
          /\ Count(outcome)
          /\ file' = Written(file, [pos |-> Len(file),
                                    rec |-> [key |-> key, body |-> i + 1]], outcome)
          /\ IF generate_failed(outcome) THEN Fail ELSE UNCHANGED <<pc, result>>
     \/ Count("error") /\ Fail /\ UNCHANGED file      \* reading random bytes
  /\ UNCHANGED <<args, original, unflushed, record, j, code>>

-------------------------------------------------------------------------------
(* sort_sys and sort_lib *)

(* The buffers hold whatever was on the stack. *)
OpenSort ==
  /\ pc = "open" /\ args.command = "sort"
  /\ i' = 1 /\ j' = 1
  /\ \E key1, key2 \in Keys : record' = [first |-> [key |-> key1, body |-> 0],
                                         second |-> [key |-> key2, body |-> 0]]
  /\ pc' = IF num_of_records > 1 THEN "first" ELSE "close"
  /\ UNCHANGED <<args, original, file, unflushed, result, faults, code>>

(* read_starting_from and fread_starting_from: at the end of the file the   *)
(* first one succeeds and leaves the buffer as it is.                      *)
ReadRecord ==
  LET pos == IF pc = "first" THEN j - 1 ELSE j
      beyond == pos >= Len(Flushed) IN
  /\ pc \in {"first", "second"}
  /\ \/ /\ file' = Flushed /\ unflushed' = Empty /\ UNCHANGED faults
        /\ \/ ~beyond /\ record' = [record EXCEPT ![pc] = Flushed[pos + 1]]
           \/ beyond /\ UNCHANGED record
        /\ IF beyond /\ lib THEN Fail
           ELSE pc' = (IF pc = "first" THEN "second" ELSE "compare") /\ UNCHANGED result
     \/ FlushFails /\ Fail /\ UNCHANGED record
     \/ Count("error") /\ Fail /\ UNCHANGED <<file, unflushed, record>>
  /\ UNCHANGED <<args, original, i, j, code>>

(* mutant: equal records are swapped too *)
out_of_order_equal == record.first.key >= record.second.key

out_of_order == record.first.key > record.second.key

NextPair ==
  \/ /\ j > 1
     /\ j' = j - 1 /\ pc' = "first"
     /\ UNCHANGED i
  \/ /\ j = 1
     /\ i' = i + 1 /\ j' = i + 1
     /\ pc' = (IF i + 1 < num_of_records THEN "first" ELSE "close")

Compare ==
  /\ pc = "compare"
  /\ \/ out_of_order /\ pc' = "write_first" /\ UNCHANGED <<i, j>>
     \/ ~out_of_order /\ NextPair
  /\ UNCHANGED <<args, original, file, unflushed, record, result, faults, code>>

(* mutant: the second write repeats the first *)
swap_write_same == [pos |-> j - 1, rec |-> record.second]

swap_write ==
  IF pc = "write_first" THEN [pos |-> j - 1, rec |-> record.second]
                        ELSE [pos |-> j, rec |-> record.first]

Proceed ==
  \/ pc = "write_first" /\ pc' = "write_second" /\ UNCHANGED <<i, j>>
  \/ pc = "write_second" /\ NextPair

(* write_starting_from and fwrite_starting_from. *)
WriteRecord ==
  /\ pc \in {"write_first", "write_second"}
  /\ \/ /\ sys
        /\ \E outcome \in Outcomes :
             /\ Count(outcome)
             /\ file' = Written(file, swap_write, outcome)
             /\ IF sort_failed(outcome) THEN Fail /\ UNCHANGED <<i, j>>
                                        ELSE Proceed /\ UNCHANGED result
        /\ UNCHANGED unflushed
     \/ /\ lib
        /\ file' = Flushed
        /\ unflushed' = [pos |-> swap_write.pos, recs |-> <<swap_write.rec>>]
        /\ Proceed
        /\ UNCHANGED <<faults, result>>
     \/ /\ lib
        /\ FlushFails /\ Fail
        /\ UNCHANGED <<i, j>>
  /\ UNCHANGED <<args, original, record, code>>

-------------------------------------------------------------------------------
(* copy_sys and copy_lib *)

OpenCopy ==
  /\ pc = "open" /\ args.command = "copy"
  /\ file' = <<>> /\ i' = 0 /\ j' = 0
  /\ pc' = "copy"
  /\ UNCHANGED <<args, original, unflushed, record, result, faults, code>>

(* A read that fails is taken for the end of the file. *)
ReadNothing ==
  /\ pc = "copy" /\ i < num_of_records
  /\ i' = i + 1
  /\ \/ j = Len(original) /\ UNCHANGED faults
     \/ Count("error")
  /\ UNCHANGED <<args, original, file, unflushed, record, j, pc, result, code>>

CopyRecord ==
  LET w == [pos |-> Len(file) + Len(unflushed.recs), rec |-> original[j + 1]] IN
  /\ pc = "copy" /\ i < num_of_records /\ j < Len(original)
  /\ i' = i + 1 /\ j' = j + 1
  /\ \/ /\ sys
        /\ \E outcome \in Outcomes :
             /\ Count(outcome)
             /\ file' = Written(file, w, outcome)
             /\ IF copy_failed(outcome) THEN Fail ELSE UNCHANGED <<pc, result>>
        /\ UNCHANGED unflushed
     \/ /\ lib
        /\ \/ /\ unflushed' = [pos |-> Len(file), recs |-> Append(unflushed.recs, w.rec)]
              /\ UNCHANGED file
           \/ file' = Flushed /\ unflushed' = [pos |-> w.pos, recs |-> <<w.rec>>]
        /\ UNCHANGED <<pc, result, faults>>
     \/ lib /\ FlushFails /\ Fail
  /\ UNCHANGED <<args, original, record, code>>

Finish ==
  /\ pc \in {"generate", "copy"} /\ i = num_of_records
  /\ pc' = "close"
  /\ UNCHANGED <<args, original, file, unflushed, loops, result, faults, code>>

-------------------------------------------------------------------------------
Init ==
  /\ args \in Given
  /\ args.command = "generate" => args.wrong # "variant" /\ args.variant = "sys"
  /\ \E n \in 0..MaxLength : \E keys \in [1..n -> Keys] :
       original = [k \in 1..n |-> [key |-> keys[k], body |-> k]]
  /\ file = original /\ unflushed = Empty
  /\ record = [first |-> Hole, second |-> Hole]
  /\ i = 0 /\ j = 0
  /\ pc = "main" /\ result = 0
  /\ faults = 0 /\ code = -1

Next ==
  \/ Main \/ Close \/ OpenFails
  \/ OpenNew \/ generate
  \/ OpenSort \/ ReadRecord \/ Compare \/ WriteRecord
  \/ OpenCopy \/ ReadNothing \/ CopyRecord
  \/ Finish

Spec == Init /\ [][Next]_vars

-------------------------------------------------------------------------------
(* Correctness *)

Lost == {original[n] : n \in 1..Len(original)} \ {file[n] : n \in 1..Len(file)}

(* Sorting in place: while the two writes of a swap are under way one      *)
(* record is in memory only; apart from that, every call that fails costs  *)
(* the file at most one record, whether the failure is noticed or not and  *)
(* however many records the caller says there are.                         *)
LostPerFault ==
  args.command = "sort" =>
    Cardinality(Lost) <= faults + (IF pc = "write_second" \/ unflushed # Empty
                                   THEN 1 ELSE 0)

(* A sort in which no call fails and that has the records it was told of   *)
(* orders them by key, keeps those of equal keys in the order they had and *)
(* leaves the rest of the file alone.                                      *)
SortedStably ==
  args.command = "sort" /\ code = 0 /\ faults = 0 /\ num_of_records <= Len(original) =>
    /\ Lost = {} /\ Len(file) = Len(original)
    /\ \A m, n \in 1..num_of_records :
         m < n => \/ file[m].key < file[n].key
                  \/ file[m].key = file[n].key /\ file[m].body < file[n].body
    /\ \A n \in num_of_records+1..Len(file) : file[n] = original[n]

(* Whatever fails, the copy holds the first records of its source, the     *)
(* last of them cut short at most.  Exit status 0 means that none is cut   *)
(* short, unless the library failed to flush it at the very end, and that  *)
(* none is missing, unless a call failed.                                  *)
CopyIsPrefix ==
  args.command = "copy" /\ pc \in {"copy", "close", "ended"} /\ file # original =>
    /\ \A n \in 1..Len(file) :
         \/ file[n] = original[n]
         \/ /\ n = Len(file) /\ file[n] = [key |-> original[n].key, body |-> 0]
            /\ faults > 0 /\ (code # 0 \/ lib)
    /\ code = 0 /\ Len(file) < Len(original) =>
         Len(file) = num_of_records \/ faults > 0
===============================================================================
