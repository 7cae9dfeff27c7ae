--------------------------- MODULE RecordFile_proof ---------------------------
(***************************************************************************)
(* What the record file of lab2_file_system/system_vs_lib_io keeps, proved *)
(* for any keys, any number of records and any number of failing calls:    *)
(* a sort loses at most one record per call that fails, a sort without a   *)
(* failure sorts stably, and a copy is a prefix of its source.             *)
(***************************************************************************)
EXTENDS RecordFile, FiniteSetTheorems, SequenceTheorems, TLAPS

-------------------------------------------------------------------------------
(* The inductive invariant. *)

Records == [key : Nat, body : Nat]
Places == {"main", "open", "generate", "first", "second", "compare",
           "write_first", "write_second", "copy", "close", "ended"}
Sorting == pc \in {"first", "second", "compare", "write_first", "write_second"}

Typed ==
  /\ args \in Given
  /\ original \in Seq(Records) /\ file \in Seq(Records)
  /\ unflushed \in [pos : Nat, recs : Seq(Records)]
  /\ record \in [first : Records, second : Records]
  /\ i \in Nat /\ j \in Nat
  /\ pc \in Places /\ result \in {0, -1}
  /\ faults \in Nat /\ code \in Int

(* Which function runs where, and what it has returned so far. *)
CallInv ==
  /\ \A n \in 1..Len(original) : original[n].body = n
  /\ pc \in {"main", "open"} =>
       file = original /\ unflushed = Empty /\ faults = 0 /\ result = 0
  /\ pc # "ended" => code = -1
  /\ Sorting => /\ args.command = "sort" /\ result = 0
                /\ i \in 1..num_of_records-1 /\ j \in 1..i
  /\ pc = "copy" => args.command = "copy" /\ result = 0
  /\ pc = "generate" => args.command = "generate"
  /\ code = 0 /\ faults = 0 => unflushed = Empty
  /\ sys => unflushed = Empty

(* A stream that is sorted has one record of the file in its buffer at     *)
(* most, and the two records that are compared are those of the file.      *)
SwapInv ==
  args.command = "sort" =>
    /\ unflushed = Empty \/ (Len(unflushed.recs) = 1 /\ unflushed.pos < Len(file))
    /\ pc \in {"second", "compare", "write_first"} =>
         /\ unflushed = Empty
         /\ j <= Len(file) => file[j] = record.first
    /\ pc \in {"compare", "write_first"} =>
         /\ j + 1 <= Len(file) => file[j + 1] = record.second
         /\ lib => j + 1 <= Len(file)
    /\ pc = "write_first" => out_of_order
    /\ pc = "write_second" /\ lib =>
         /\ unflushed = [pos |-> j - 1, recs |-> <<record.second>>]
         /\ j + 1 <= Len(file)
         /\ file[j] = record.first /\ file[j + 1] = record.second

(* What is in the file once the buffer is written, and between the writes  *)
(* of a swap the record that is about to be written, not the one it is     *)
(* about to replace.                                                       *)
InFile(f) == {f[n] : n \in 1..Len(f)}
Kept == IF pc = "write_second"
        THEN {Flushed[n] : n \in 1..Len(Flushed) \ {j + 1}} \cup {record.first}
        ELSE InFile(Flushed)
Missing == InFile(original) \ Kept
KeptInv == args.command = "sort" => Cardinality(Missing) <= faults

(* Without failures: the file as it will be after the swap, of which the   *)
(* first i+1 records are in order, except that the one that is moved down  *)
(* may have to go further; the rest of the file is untouched.              *)
Precedes(a, b) == a.key < b.key \/ (a.key = b.key /\ a.body < b.body)
View == IF pc = "write_second" THEN [Flushed EXCEPT ![j + 1] = record.first] ELSE Flushed
moved == IF pc = "write_second" THEN j ELSE j + 1

Distinct(f) == \A n \in 1..Len(f) : \A m \in 1..n-1 : f[m].body # f[n].body
RestFrom(f, k) == \A n \in k..Len(original) : f[n] = original[n]
Ordered(f, k) == \A n \in 1..k : \A m \in 1..n-1 : Precedes(f[m], f[n])
OrderedBut(f, k, x) == \A n \in 1..k : \A m \in 1..n-1 : n # x => Precedes(f[m], f[n])
Preceded(f, x) == \A m \in 1..x-1 : Precedes(f[m], f[x])
AreFirst(f, k) == \A n \in 1..k : f[n].body \in 1..k

Moving(f, k, x) ==
  /\ Distinct(f) /\ RestFrom(f, k + 1) /\ AreFirst(f, k)
  /\ OrderedBut(f, k, x)
  /\ f[x] = original[k] \/ Preceded(f, x)

NothingFailed ==
  args.command = "sort" /\ faults = 0 /\ num_of_records <= Len(original)
InsertInv ==
  NothingFailed =>
    /\ Len(file) = Len(original)
    /\ Sorting => Moving(View, i + 1, moved)
    /\ pc = "write_second" => View[j] = original[i + 1]
    /\ pc = "close" => result = 0
    /\ pc = "close" \/ code = 0 =>
         Ordered(Flushed, num_of_records) /\ RestFrom(Flushed, num_of_records + 1)

(* A copy: the file and the buffer behind it are the first records of the  *)
(* source; after a failure they may overlap and the file may end in a      *)
(* record that is cut short.                                               *)
Whole(f) == \A n \in 1..Len(f) : f[n] = original[n]
Prefix(f, pos) ==
  \A n \in 1..Len(f) :
    f[n] = original[n] \/ (/\ n = Len(f) /\ n > pos
                           /\ f[n] = [key |-> original[n].key, body |-> 0])

Copied ==
  LET pos == unflushed.pos  recs == unflushed.recs IN
  /\ Len(file) <= Len(original) /\ pos <= Len(file)
  /\ Prefix(file, pos)
  /\ Whole(file) \/ (faults > 0 /\ pc # "copy" /\ (lib \/ (result # 0 /\ code # 0)))
  /\ \A k \in 1..Len(recs) : recs[k] = original[pos + k]
  /\ IF Len(recs) = 0
     THEN pos = 0
     ELSE /\ Len(file) <= pos + Len(recs) /\ pos + Len(recs) <= Len(original)
          /\ pc = "copy" \/ faults = 0 => pos = Len(file)
  /\ pc = "copy" => /\ j = Len(file) + Len(recs)
                    /\ i <= num_of_records
                    /\ faults = 0 => i = j \/ j = Len(original)
  /\ pc # "copy" /\ faults = 0 =>
       Len(file) + Len(recs) \in {Len(original), num_of_records}

NotOpened ==
  /\ file = original /\ unflushed = Empty
  /\ pc = "close" => result # 0
  /\ code # 0

PrefixInv ==
  args.command = "copy" =>
    /\ pc = "copy" => Copied
    /\ pc \in {"close", "ended"} => Copied \/ NotOpened

IInv == Typed /\ CallInv /\ SwapInv /\ KeptInv /\ InsertInv /\ PrefixInv

-------------------------------------------------------------------------------
(* Writing to a file. *)

LEMMA Constants ==
  Keys \subseteq Nat \ {0} /\ num_of_records \in Nat \ {0} /\ Faults \in Nat
BY ConstantsAssumption

LEMMA HoleTyped == Hole \in Records
BY DEF Hole, Records

LEMMA OneRecord ==
  ASSUME NEW r \in Records
  PROVE  <<r>> \in Seq(Records) /\ Len(<<r>>) = 1 /\ <<r>>[1] = r /\ <<r>> # <<>>
OBVIOUS

LEMMA EmptyOrLonger ==
  ASSUME NEW s \in Seq(Records)
  PROVE  Len(s) \in Nat /\ (s = <<>> <=> Len(s) = 0) /\ (s # <<>> => Len(s) >= 1)
BY EmptySeq

(* A sequence given by its elements. *)
LEMMA GivenByElements ==
  ASSUME NEW m \in Nat, NEW g, g = [n \in 1..m |-> g[n]],
         \A n \in 1..m : g[n] \in Records
  PROVE  g \in Seq(Records) /\ Len(g) = m
<1>1. g \in [1..m -> Records]
  OBVIOUS
<1> QED BY <1>1, SeqDef

(* g is f after recs were written from pos on. *)
Block(g, f, pos, recs) ==
  /\ g \in Seq(Records)
  /\ Len(recs) = 0 \/ pos + Len(recs) < Len(f) => Len(g) = Len(f)
  /\ Len(recs) # 0 /\ pos + Len(recs) >= Len(f) => Len(g) = pos + Len(recs)
  /\ \A n \in 1..Len(recs) : g[pos + n] = recs[n]
  /\ \A n \in 1..Len(f) : n <= pos \/ n > pos + Len(recs) => g[n] = f[n]

LEMMA OverwrittenBlock ==
  ASSUME NEW f \in Seq(Records), NEW pos \in Nat, NEW recs \in Seq(Records)
  PROVE  Block(Overwritten(f, pos, recs), f, pos, recs)
<1> DEFINE g == Overwritten(f, pos, recs)
           end == pos + Len(recs)
           m == IF recs = <<>> \/ end < Len(f) THEN Len(f) ELSE end
           e(n) == IF n \in pos+1..end THEN recs[n - pos]
                   ELSE IF n <= Len(f) THEN f[n] ELSE Hole
<1>1. /\ m \in Nat /\ end \in Nat /\ Len(f) \in Nat /\ Len(recs) \in Nat
      /\ recs = <<>> <=> Len(recs) = 0
  BY EmptyOrLonger
<1>2. g = [n \in 1..m |-> e(n)]
  BY DEF Overwritten
<1>3. ASSUME NEW n \in 1..m PROVE e(n) \in Records
  <2>1. CASE n \in pos+1..end
    BY <2>1
  <2>2. CASE n \notin pos+1..end
    BY <2>2, HoleTyped
  <2> QED BY <2>1, <2>2
<1>4. \A n \in 1..m : g[n] = e(n)
  BY <1>2
<1>5. ASSUME NEW n \in 1..Len(recs) PROVE pos + n \in 1..m /\ e(pos + n) = recs[n]
  <2>1. pos + n \in pos+1..end /\ (pos + n) - pos = n
    BY <1>1
  <2> QED BY <1>1, <2>1
<1>6. ASSUME NEW n \in 1..Len(f), n <= pos \/ n > pos + Len(recs)
      PROVE  n \in 1..m /\ e(n) = f[n]
  BY <1>1, <1>6
<1>7. /\ Len(recs) = 0 \/ end < Len(f) => m = Len(f)
      /\ Len(recs) # 0 /\ end >= Len(f) => m = end
  BY <1>1
<1> HIDE DEF e, m, g
<1>8. g \in Seq(Records) /\ Len(g) = m
  BY <1>1, <1>2, <1>3, <1>4, GivenByElements
<1>9. ASSUME NEW n \in 1..Len(recs) PROVE g[pos + n] = recs[n]
  BY <1>4, <1>5
<1>10. ASSUME NEW n \in 1..Len(f), n <= pos \/ n > pos + Len(recs) PROVE g[n] = f[n]
  BY <1>4, <1>6, <1>10
<1>11. Block(g, f, pos, recs)
  BY <1>7, <1>8, <1>9, <1>10 DEF Block
<1> QED BY <1>11 DEF g

LEMMA NothingOverwritten ==
  ASSUME NEW f \in Seq(Records), NEW pos \in Nat,
         NEW recs \in Seq(Records), Len(recs) = 0
  PROVE  Overwritten(f, pos, recs) = f
<1> DEFINE g == Overwritten(f, pos, recs)
<1>1. Block(g, f, pos, recs)
  BY OverwrittenBlock
<1> HIDE DEF g
<1>2. g \in Seq(Records) /\ Len(g) = Len(f)
  BY <1>1 DEF Block
<1>3. ASSUME NEW n \in 1..Len(f) PROVE g[n] = f[n]
  <2>1. n <= pos \/ n > pos + Len(recs)
    OBVIOUS
  <2> QED BY <1>1, <2>1 DEF Block
<1> QED BY <1>2, <1>3, SeqEqual DEF g

(* g is f after the record r was written at pos. *)
Single(g, f, pos, r) ==
  /\ g \in Seq(Records)
  /\ pos < Len(f) => Len(g) = Len(f)
  /\ pos >= Len(f) => Len(g) = pos + 1
  /\ g[pos + 1] = r
  /\ \A n \in 1..Len(f) : n # pos + 1 => g[n] = f[n]

LEMMA OverwrittenSingle ==
  ASSUME NEW f \in Seq(Records), NEW pos \in Nat,
         NEW recs \in Seq(Records), Len(recs) = 1
  PROVE  Single(Overwritten(f, pos, recs), f, pos, recs[1])
<1> DEFINE g == Overwritten(f, pos, recs)
<1>1. Block(g, f, pos, recs)
  BY OverwrittenBlock
<1> HIDE DEF g
<1>2. 1 \in 1..Len(recs) /\ Len(f) \in Nat
  OBVIOUS
<1>3. g[pos + 1] = recs[1]
  BY <1>1, <1>2 DEF Block
<1>4. ASSUME NEW n \in 1..Len(f), n # pos + 1 PROVE g[n] = f[n]
  <2>1. n <= pos \/ n > pos + Len(recs)
    BY <1>2, <1>4
  <2> QED BY <1>1, <2>1 DEF Block
<1>5. /\ g \in Seq(Records)
      /\ pos < Len(f) => Len(g) = Len(f)
      /\ pos >= Len(f) => Len(g) = pos + 1
  BY <1>1, <1>2 DEF Block
<1> QED BY <1>3, <1>4, <1>5 DEF Single, g

LEMMA SingleRecord ==
  ASSUME NEW f \in Seq(Records), NEW pos \in Nat, NEW r \in Records
  PROVE  Single(Overwritten(f, pos, <<r>>), f, pos, r)
<1> DEFINE recs == <<r>>
<1>1. recs \in Seq(Records) /\ Len(recs) = 1 /\ recs[1] = r
  BY OneRecord
<1> HIDE DEF recs
<1>2. Single(Overwritten(f, pos, recs), f, pos, recs[1])
  BY <1>1, OverwrittenSingle
<1> QED BY <1>1, <1>2 DEF recs

LEMMA CutTyped ==
  ASSUME NEW f \in Seq(Records), NEW w \in [pos : Nat, rec : Records]
  PROVE  Cut(f, w) \in Records
<1>1. w.pos \in Nat /\ w.rec \in Records /\ Len(f) \in Nat
  OBVIOUS
<1>2. w.pos < Len(f) => f[w.pos + 1] \in Records
  BY <1>1
<1> QED BY <1>1, <1>2 DEF Cut, Records

(* What a write leaves behind, whatever its outcome. *)
LEMMA WrittenCases ==
  ASSUME NEW f \in Seq(Records), NEW w \in [pos : Nat, rec : Records],
         NEW outcome \in Outcomes
  PROVE  /\ outcome = "full" => Single(Written(f, w, outcome), f, w.pos, w.rec)
         /\ outcome = "short" => Single(Written(f, w, outcome), f, w.pos, Cut(f, w))
         /\ outcome = "error" => Written(f, w, outcome) = f
         /\ Written(f, w, outcome) \in Seq(Records)
<1>1. w.pos \in Nat /\ w.rec \in Records /\ Cut(f, w) \in Records
  BY CutTyped
<1>2. outcome = "full" => Single(Written(f, w, outcome), f, w.pos, w.rec)
  BY <1>1, SingleRecord DEF Written
<1>3. outcome = "short" => Single(Written(f, w, outcome), f, w.pos, Cut(f, w))
  BY <1>1, SingleRecord DEF Written
<1>4. outcome = "error" => Written(f, w, outcome) = f
  BY DEF Written
<1> QED BY <1>2, <1>3, <1>4 DEF Outcomes, Single

-------------------------------------------------------------------------------
(* Counting what is missing. *)

LEMMA InFileFinite ==
  ASSUME NEW f \in Seq(Records)
  PROVE  IsFiniteSet(InFile(f))
<1> DEFINE S == 1..Len(f)
           h == [n \in S |-> f[n]]
<1>1. IsFiniteSet(S)
  BY FS_Interval
<1>2. InFile(f) = {h[n] : n \in S}
  BY DEF InFile
<1>3. h \in Surjection(S, InFile(f))
  BY DEF Surjection, InFile
<1> QED BY <1>1, <1>3, FS_Surjection

LEMMA KeepsMore ==
  ASSUME NEW f \in Seq(Records), NEW K, NEW L, K \subseteq L, NEW k \in Nat,
         Cardinality(InFile(f) \ K) <= k
  PROVE  Cardinality(InFile(f) \ L) <= k
<1> DEFINE S == InFile(f) \ K  T == InFile(f) \ L
<1>1. IsFiniteSet(S) /\ T \subseteq S
  BY InFileFinite, FS_Subset
<1>2. Cardinality(T) <= Cardinality(S) /\ Cardinality(T) \in Nat /\ Cardinality(S) \in Nat
  BY <1>1, FS_Subset, FS_CardinalityType
<1> QED BY <1>2

LEMMA KeepsAllButOne ==
  ASSUME NEW f \in Seq(Records), NEW K, NEW L, NEW x, K \subseteq L \cup {x},
         NEW k \in Nat, Cardinality(InFile(f) \ K) <= k
  PROVE  Cardinality(InFile(f) \ L) <= k + 1
<1> DEFINE S == InFile(f) \ K  T == InFile(f) \ L
<1>1. IsFiniteSet(S) /\ T \subseteq S \cup {x}
  BY InFileFinite, FS_Subset
<1>2. /\ IsFiniteSet(S \cup {x}) /\ Cardinality(S) \in Nat
      /\ Cardinality(S \cup {x}) <= Cardinality(S) + 1
  <2>1. Cardinality(S) \in Nat
    BY <1>1, FS_CardinalityType
  <2>2. /\ IsFiniteSet(S \cup {x})
        /\ Cardinality(S \cup {x}) = IF x \in S THEN Cardinality(S) ELSE Cardinality(S) + 1
    BY <1>1, FS_AddElement
  <2> QED BY <2>1, <2>2
<1>3. /\ Cardinality(T) <= Cardinality(S \cup {x})
      /\ Cardinality(T) \in Nat /\ Cardinality(S \cup {x}) \in Nat
  BY <1>1, <1>2, FS_Subset, FS_CardinalityType
<1> QED BY <1>2, <1>3

LEMMA NothingMissing ==
  ASSUME NEW S, NEW T, S \subseteq T
  PROVE  Cardinality(S \ T) = 0
<1>1. S \ T = {}
  OBVIOUS
<1> QED BY <1>1, FS_EmptySet

-------------------------------------------------------------------------------
(* The stream's buffer. *)

LEMMA EmptyBuffer ==
  Empty \in [pos : Nat, recs : Seq(Records)] /\ Len(Empty.recs) = 0 /\ Empty.recs = <<>>
BY DEF Empty

LEMMA FlushedEmpty ==
  ASSUME Typed, unflushed = Empty
  PROVE  Flushed = file
BY EmptyBuffer, NothingOverwritten DEF Typed, Flushed

LEMMA FlushedBlock ==
  ASSUME Typed
  PROVE  /\ Block(Flushed, file, unflushed.pos, unflushed.recs)
         /\ Flushed \in Seq(Records)
<1>1. Block(Flushed, file, unflushed.pos, unflushed.recs)
  BY OverwrittenBlock DEF Typed, Flushed
<1> QED BY <1>1 DEF Block

LEMMA FlushedSingle ==
  ASSUME Typed, Len(unflushed.recs) = 1
  PROVE  Single(Flushed, file, unflushed.pos, unflushed.recs[1])
BY OverwrittenSingle DEF Typed, Flushed

(* A flush that fails after n records. *)
LEMMA FlushedToCases ==
  ASSUME Typed, NEW n \in 0..Len(unflushed.recs)-1, NEW outcome \in {"short", "error"}
  PROVE  \E g \in Seq(Records) :
           /\ Block(g, file, unflushed.pos, SubSeq(unflushed.recs, 1, n))
           /\ unflushed.recs[n + 1] \in Records
           /\ LET w == [pos |-> unflushed.pos + n, rec |-> unflushed.recs[n + 1]]
              IN  \/ FlushedTo(n, outcome) = g
                  \/ Single(FlushedTo(n, outcome), g, w.pos, Cut(g, w))
           /\ FlushedTo(n, outcome) \in Seq(Records)
<1> DEFINE recs == SubSeq(unflushed.recs, 1, n)
           g == Overwritten(file, unflushed.pos, recs)
           w == [pos |-> unflushed.pos + n, rec |-> unflushed.recs[n + 1]]
<1>1. /\ recs \in Seq(Records) /\ unflushed.pos \in Nat /\ file \in Seq(Records)
      /\ unflushed.recs[n + 1] \in Records /\ outcome \in Outcomes
  BY DEF Typed, Outcomes
<1>2. w \in [pos : Nat, rec : Records]
  BY <1>1
<1>3. Block(g, file, unflushed.pos, recs) /\ g \in Seq(Records)
  BY <1>1, OverwrittenBlock DEF Block
<1>4. FlushedTo(n, outcome) = Written(g, w, outcome)
  BY DEF FlushedTo
<1> HIDE DEF g, w, recs
<1>5. /\ outcome = "short" => Single(Written(g, w, outcome), g, w.pos, Cut(g, w))
      /\ outcome = "error" => Written(g, w, outcome) = g
      /\ Written(g, w, outcome) \in Seq(Records)
  BY <1>1, <1>2, <1>3, WrittenCases
<1> QED BY <1>1, <1>3, <1>4, <1>5 DEF g, w, recs

-------------------------------------------------------------------------------
(* Insertion: the pure part.  f is the file, k the records considered so   *)
(* far, x where the record that is moved down is.                          *)

LEMMA PrecedesTransitive ==
  ASSUME NEW a \in Records, NEW b \in Records, NEW c \in Records,
         Precedes(a, b), Precedes(b, c)
  PROVE  Precedes(a, c)
BY DEF Precedes, Records

SortedFile(f) ==
  /\ f \in Seq(Records) /\ original \in Seq(Records) /\ Len(f) = Len(original)
  /\ \A n \in 1..Len(original) : original[n].body = n

(* The two records are in order: so is the moved one, and all of them. *)
LEMMA InOrder ==
  ASSUME NEW f, SortedFile(f), NEW k \in 1..Len(f), NEW x \in 2..k,
         Moving(f, k, x), f[x - 1].key <= f[x].key
  PROVE  Ordered(f, k)
<1>1. /\ Len(f) \in Nat /\ x \in 1..Len(f) /\ x - 1 \in 1..Len(f)
      /\ \A n \in 1..Len(f) : f[n] \in Records
  BY DEF SortedFile
<1>2. ASSUME f[x] = original[k] PROVE Precedes(f[x - 1], f[x])
  <2>1. f[x].body = k /\ f[x - 1].body \in 1..k /\ f[x - 1].body # f[x].body
    <3>1. x - 1 \in 1..x-1 /\ x - 1 \in 1..k
      BY <1>1
    <3> QED BY <1>1, <1>2, <3>1 DEF SortedFile, Moving, AreFirst, Distinct
  <2>2. f[x - 1] \in Records /\ f[x] \in Records
    BY <1>1
  <2> QED BY <2>1, <2>2 DEF Precedes, Records
<1>3. Preceded(f, x)
  <2>1. CASE f[x] = original[k]
    <3> SUFFICES ASSUME NEW m \in 1..x-1 PROVE Precedes(f[m], f[x])
      BY DEF Preceded
    <3>1. CASE m = x - 1
      BY <1>2, <2>1, <3>1
    <3>2. CASE m # x - 1
      <4>1. m \in 1..(x-1)-1 /\ x - 1 \in 1..k /\ x - 1 # x /\ m \in 1..Len(f)
        BY <1>1, <3>2
      <4>2. Precedes(f[m], f[x - 1])
        BY <4>1 DEF Moving, OrderedBut
      <4> QED BY <1>1, <1>2, <2>1, <4>1, <4>2, PrecedesTransitive
    <3> QED BY <3>1, <3>2
  <2> QED BY <2>1 DEF Moving
<1> SUFFICES ASSUME NEW n \in 1..k, NEW m \in 1..n-1 PROVE Precedes(f[m], f[n])
  BY DEF Ordered
<1>4. CASE n = x
  BY <1>3, <1>4 DEF Preceded
<1>5. CASE n # x
  BY <1>5 DEF Moving, OrderedBut
<1> QED BY <1>4, <1>5

(* In an ordered file any place will do for the moved record. *)
LEMMA OrderedMoves ==
  ASSUME NEW f, SortedFile(f), NEW k \in 1..Len(f), NEW x \in 1..k, NEW y \in 1..k,
         Moving(f, k, x), Ordered(f, k)
  PROVE  Moving(f, k, y)
BY DEF Moving, Ordered, OrderedBut, Preceded

(* The next record of the file comes in. *)
LEMMA NextRecord ==
  ASSUME NEW f, SortedFile(f), NEW k \in 1..Len(f), NEW x \in 1..k, k < Len(f),
         Moving(f, k, x), Ordered(f, k)
  PROVE  Moving(f, k + 1, k + 1)
<1>1. Len(f) \in Nat /\ k \in Nat /\ Len(original) = Len(f)
  BY DEF SortedFile
<1>2. RestFrom(f, (k + 1) + 1)
  BY <1>1 DEF Moving, RestFrom
<1>3. f[k + 1] = original[k + 1] /\ original[k + 1].body = k + 1
  BY <1>1 DEF Moving, RestFrom, SortedFile
<1>4. AreFirst(f, k + 1)
  BY <1>1, <1>3 DEF Moving, AreFirst
<1>5. OrderedBut(f, k + 1, k + 1)
  <2> SUFFICES ASSUME NEW n \in 1..k+1, NEW m \in 1..n-1, n # k + 1
               PROVE  Precedes(f[m], f[n])
    BY DEF OrderedBut
  <2>1. n \in 1..k
    BY <1>1
  <2> QED BY <2>1 DEF Ordered
<1> QED BY <1>2, <1>3, <1>4, <1>5 DEF Moving

(* The two records are out of order and change places. *)
LEMMA OutOfOrder ==
  ASSUME NEW f, SortedFile(f), NEW g, SortedFile(g),
         NEW k \in 1..Len(f), NEW x \in 2..k,
         Moving(f, k, x), f[x - 1].key > f[x].key,
         g[x - 1] = f[x], g[x] = f[x - 1],
         \A n \in 1..Len(f) : n # x - 1 /\ n # x => g[n] = f[n]
  PROVE  Moving(g, k, x - 1) /\ g[x - 1] = original[k]
<1>1. /\ Len(f) \in Nat /\ Len(g) = Len(f) /\ Len(original) = Len(f)
      /\ k \in Nat /\ x \in Nat
      /\ x \in 1..Len(f) /\ x - 1 \in 1..Len(f) /\ x - 1 \in 1..x-1
      /\ \A n \in 1..Len(f) : f[n] \in Records
  BY DEF SortedFile
<1>2. g[x - 1] = original[k]
  <2>1. ~Precedes(f[x - 1], f[x])
    <3>1. f[x - 1] \in Records /\ f[x] \in Records
      BY <1>1
    <3> QED BY <3>1 DEF Precedes, Records
  <2> QED BY <1>1, <2>1 DEF Moving, Preceded
<1> DEFINE old(n) == IF n = x THEN x - 1 ELSE IF n = x - 1 THEN x ELSE n
<1>3. \A n \in 1..Len(f) : old(n) \in 1..Len(f) /\ g[n] = f[old(n)]
  BY <1>1
<1>4. Distinct(g)
  <2> SUFFICES ASSUME NEW n \in 1..Len(f), NEW m \in 1..n-1
               PROVE  g[m].body # g[n].body
    BY <1>1 DEF Distinct
  <2>1. m \in 1..Len(f) /\ n # m /\ old(n) # old(m)
    BY <1>1
  <2>2. \A a, b \in 1..Len(f) : a # b => f[a].body # f[b].body
    <3> SUFFICES ASSUME NEW a \in 1..Len(f), NEW b \in 1..Len(f), a # b
                 PROVE  f[a].body # f[b].body
      OBVIOUS
    <3>1. a \in 1..b-1 \/ b \in 1..a-1
      BY <1>1
    <3> QED BY <3>1 DEF Moving, Distinct
  <2>3. /\ old(m) \in 1..Len(f) /\ g[m] = f[old(m)]
        /\ old(n) \in 1..Len(f) /\ g[n] = f[old(n)]
    BY <1>3, <2>1
  <2> HIDE DEF old
  <2>4. f[old(m)].body # f[old(n)].body
    BY <2>1, <2>2, <2>3
  <2> QED BY <2>3, <2>4
<1>5. RestFrom(g, k + 1)
  <2> SUFFICES ASSUME NEW n \in k+1..Len(original) PROVE g[n] = original[n]
    BY DEF RestFrom
  <2>1. n \in 1..Len(f) /\ n # x /\ n # x - 1
    BY <1>1
  <2> QED BY <2>1 DEF Moving, RestFrom
<1>6. AreFirst(g, k)
  <2> SUFFICES ASSUME NEW n \in 1..k PROVE g[n].body \in 1..k
    BY DEF AreFirst
  <2>1. n \in 1..Len(f) /\ old(n) \in 1..k
    BY <1>1
  <2> HIDE DEF old
  <2> QED BY <1>3, <2>1 DEF Moving, AreFirst
<1>7. OrderedBut(g, k, x - 1)
  <2> SUFFICES ASSUME NEW n \in 1..k, NEW m \in 1..n-1, n # x - 1
               PROVE  Precedes(g[m], g[n])
    BY DEF OrderedBut
  <2>1. n \in 1..Len(f) /\ m \in 1..Len(f)
    BY <1>1
  <2>2. CASE n = x
    <3>1. CASE m = x - 1
      <4>1. f[x - 1] \in Records /\ f[x] \in Records
        BY <1>1
      <4> QED BY <2>2, <3>1, <4>1 DEF Precedes, Records
    <3>2. CASE m # x - 1
      <4>1. m \in 1..(x-1)-1 /\ x - 1 \in 1..k /\ x - 1 # x /\ m # x
        BY <1>1, <2>2, <3>2
      <4>2. Precedes(f[m], f[x - 1])
        BY <4>1 DEF Moving, OrderedBut
      <4> QED BY <2>1, <2>2, <3>2, <4>1, <4>2
    <3> QED BY <3>1, <3>2
  <2>3. CASE n # x
    <3>1. g[n] = f[n]
      BY <2>1, <2>3
    <3>2. old(m) \in 1..n-1
      BY <1>1, <2>3
    <3>3. Precedes(f[old(m)], f[n])
      <4> HIDE DEF old
      <4> QED BY <2>3, <3>2 DEF Moving, OrderedBut
    <3> HIDE DEF old
    <3> QED BY <1>3, <2>1, <3>1, <3>3
  <2> QED BY <2>2, <2>3
<1> QED BY <1>2, <1>4, <1>5, <1>6, <1>7 DEF Moving

-------------------------------------------------------------------------------
(* Types, and which function runs. *)

LEMMA CountIs ==
  ASSUME Typed, NEW outcome, Count(outcome)
  PROVE  /\ faults' \in Nat /\ faults' >= faults
         /\ outcome = "full" => faults' = faults
         /\ outcome # "full" => faults' = faults + 1
BY DEF Count, Typed

LEMMA CallFails ==
  ASSUME Typed, Count("error")
  PROVE  faults' = faults + 1 /\ faults' \in Nat /\ faults' > 0 /\ faults' >= faults
BY DEF Count, Typed

LEMMA FlushFailsTyped ==
  ASSUME Typed, FlushFails
  PROVE  /\ file' \in Seq(Records)
         /\ unflushed' \in [pos : Nat, recs : Seq(Records)]
         /\ unflushed' \in {Empty, unflushed} /\ unflushed # Empty
         /\ Len(unflushed.recs) \in Nat \ {0}
         /\ faults' = faults + 1 /\ faults' \in Nat
<1>1. PICK n \in 0..Len(unflushed.recs)-1, outcome \in {"short", "error"} :
        file' = FlushedTo(n, outcome)
  BY DEF FlushFails
<1>2. FlushedTo(n, outcome) \in Seq(Records)
  BY FlushedToCases
<1>3. /\ unflushed' \in {Empty, unflushed}
      /\ unflushed' \in [pos : Nat, recs : Seq(Records)]
  BY EmptyBuffer DEF FlushFails, Typed
<1>4. Len(unflushed.recs) \in Nat /\ Len(unflushed.recs) # 0
  <2>1. Len(unflushed.recs) \in Nat
    BY DEF Typed
  <2> QED BY <1>1, <2>1
<1>5. unflushed # Empty
  BY <1>4, EmptyBuffer
<1>6. faults' = faults + 1 /\ faults' \in Nat
  BY CallFails DEF FlushFails
<1> QED BY <1>1, <1>2, <1>3, <1>4, <1>5, <1>6

LEMMA MainTyped ==
  ASSUME Typed, CallInv, Main
  PROVE  Typed' /\ CallInv'
<1>1. usage_code[args.command][args.wrong] \in Nat
  BY DEF Typed, Given, usage_code
<1>2. Typed'
  BY <1>1 DEF Main, Typed, Places, loops
<1>3. CallInv'
  BY <1>1 DEF Main, Typed, CallInv, Sorting, sys, loops
<1> QED BY <1>2, <1>3

LEMMA CloseTyped ==
  ASSUME Typed, CallInv, Close
  PROVE  Typed' /\ CallInv'
<1>1. /\ file' \in Seq(Records)
      /\ unflushed' \in [pos : Nat, recs : Seq(Records)]
      /\ faults' \in Nat
      /\ unflushed' = Empty \/ faults' > 0
      /\ sys => unflushed' = Empty
  <2>1. CASE FlushFails
    BY <2>1, FlushFailsTyped DEF CallInv, Typed
  <2>2. CASE file' = Flushed /\ unflushed' = Empty /\ UNCHANGED faults
    BY <2>2, EmptyBuffer, FlushedBlock DEF Typed
  <2> QED BY <2>1, <2>2 DEF Close
<1>2. code' \in Int
  BY DEF Close, Typed, Given, failure_code
<1>3. Typed'
  BY <1>1, <1>2 DEF Close, Typed, Places, loops
<1>4. CallInv'
  BY <1>1 DEF Close, Typed, CallInv, Sorting, sys, loops
<1> QED BY <1>3, <1>4

LEMMA OpenFailsTyped ==
  ASSUME Typed, CallInv, OpenFails
  PROVE  Typed' /\ CallInv'
<1>1. faults' \in Nat /\ faults' > 0
  BY CallFails DEF OpenFails
<1>2. file' \in Seq(Records) /\ (args.command # "generate" => file' = file)
  <2>1. file' = file \/ (args.command = "generate" /\ file' = <<>>)
    BY Zenon DEF OpenFails
  <2>2. file \in Seq(Records) /\ <<>> \in Seq(Records)
    BY DEF Typed
  <2> QED BY <2>1, <2>2, Zenon
<1>3. Typed'
  BY <1>1, <1>2 DEF OpenFails, Typed, Places, loops, Fail
<1>4. CallInv'
  BY <1>1 DEF OpenFails, Typed, CallInv, Sorting, sys, loops, Fail
<1> QED BY <1>3, <1>4

LEMMA GenerateTyped ==
  ASSUME Typed, CallInv, OpenNew \/ generate
  PROVE  Typed' /\ CallInv'
<1>1. CASE OpenNew
  <2>1. Typed'
    BY <1>1 DEF OpenNew, Typed, Places
  <2>2. CallInv'
    BY <1>1 DEF OpenNew, Typed, CallInv, Sorting, sys
  <2> QED BY <2>1, <2>2
<1>2. CASE generate
  <2>1. file' \in Seq(Records) /\ faults' \in Nat
    <3>1. CASE Count("error") /\ Fail /\ UNCHANGED file
      BY <3>1, CountIs DEF Typed
    <3>2. ASSUME NEW outcome \in Outcomes, NEW key \in Keys, Count(outcome),
                 file' = Written(file, [pos |-> Len(file),
                                        rec |-> [key |-> key, body |-> i + 1]], outcome)
          PROVE  file' \in Seq(Records) /\ faults' \in Nat
      <4> DEFINE w == [pos |-> Len(file), rec |-> [key |-> key, body |-> i + 1]]
      <4>1. w \in [pos : Nat, rec : Records] /\ file \in Seq(Records)
        BY ConstantsAssumption DEF Typed, Records
      <4> HIDE DEF w
      <4>2. Written(file, w, outcome) \in Seq(Records)
        BY <4>1, WrittenCases
      <4> QED BY <3>2, <4>2, CountIs DEF w
    <3> QED BY <1>2, <3>1, <3>2 DEF generate
  <2>2. /\ (pc' = pc /\ result' = result) \/ Fail
        /\ pc = "generate" /\ i' = i + 1
        /\ UNCHANGED <<args, original, unflushed, record, j, code>>
    BY <1>2 DEF generate
  <2>3. Typed'
    BY <2>1, <2>2 DEF Typed, Places, Fail
  <2>4. CallInv'
    BY <2>2 DEF Typed, CallInv, Sorting, sys, Fail
  <2> QED BY <2>3, <2>4
<1> QED BY <1>1, <1>2

LEMMA NextPairTyped ==
  ASSUME Typed, NextPair, i \in 1..num_of_records-1, j \in 1..i
  PROVE  /\ i' \in Nat /\ j' \in Nat /\ pc' \in {"first", "close"}
         /\ pc' = "first" => i' \in 1..num_of_records-1 /\ j' \in 1..i'
BY Constants DEF NextPair

LEMMA OpenSortTyped ==
  ASSUME Typed, CallInv, OpenSort
  PROVE  Typed' /\ CallInv'
<1>1. record' \in [first : Records, second : Records]
  BY Constants DEF OpenSort, Records
<1>2. Typed'
  BY <1>1 DEF OpenSort, Typed, Places
<1>3. CallInv'
  BY Constants DEF OpenSort, Typed, CallInv, Sorting, sys
<1> QED BY <1>2, <1>3

LEMMA CompareTyped ==
  ASSUME Typed, CallInv, Compare
  PROVE  Typed' /\ CallInv'
<1>1. i \in 1..num_of_records-1 /\ j \in 1..i
  BY DEF Compare, CallInv, Sorting
<1>2. /\ i' \in Nat /\ j' \in Nat /\ pc' \in {"first", "close", "write_first"}
      /\ pc' # "close" => i' \in 1..num_of_records-1 /\ j' \in 1..i'
  BY <1>1, NextPairTyped DEF Compare, Typed
<1>3. Typed'
  BY <1>2 DEF Compare, Typed, Places
<1>4. CallInv'
  BY <1>2 DEF Compare, Typed, CallInv, Sorting, sys
<1> QED BY <1>3, <1>4

LEMMA ReadRecordTyped ==
  ASSUME Typed, CallInv, ReadRecord
  PROVE  Typed' /\ CallInv'
<1> DEFINE pos == IF pc = "first" THEN j - 1 ELSE j
<1>1. /\ Sorting /\ i \in 1..num_of_records-1 /\ j \in 1..i
      /\ pos \in Nat /\ Flushed \in Seq(Records)
  BY FlushedBlock DEF ReadRecord, CallInv, Sorting
<1>2. /\ pc \in {"first", "second"}
      /\ UNCHANGED <<args, original, i, j, code>>
      /\ Fail \/ (pc' \in {"second", "compare"} /\ UNCHANGED result)
  BY DEF ReadRecord
<1>3. /\ file' \in Seq(Records)
      /\ unflushed' \in [pos : Nat, recs : Seq(Records)]
      /\ record' \in [first : Records, second : Records]
      /\ faults' \in Nat
      /\ sys => unflushed' = Empty
  <2>1. CASE FlushFails /\ Fail /\ UNCHANGED record
    BY <2>1, FlushFailsTyped DEF CallInv, Typed
  <2>2. CASE Count("error") /\ Fail /\ UNCHANGED <<file, unflushed, record>>
    BY <2>2, CountIs DEF CallInv, Typed
  <2>3. CASE /\ file' = Flushed /\ unflushed' = Empty /\ UNCHANGED faults
             /\ \/ ~(pos >= Len(Flushed)) /\ record' = [record EXCEPT ![pc] = Flushed[pos + 1]]
                \/ UNCHANGED record
    <3>1. ~(pos >= Len(Flushed)) => Flushed[pos + 1] \in Records
      BY <1>1
    <3>2. record' \in [first : Records, second : Records]
      <4>1. CASE UNCHANGED record
        BY <4>1 DEF Typed
      <4>2. ASSUME NEW r \in Records, record' = [record EXCEPT ![pc] = r]
            PROVE  record' \in [first : Records, second : Records]
        BY <1>2, <4>2 DEF Typed
      <4> QED BY <2>3, <3>1, <4>1, <4>2
    <3> QED BY <1>1, <2>3, <3>2, EmptyBuffer DEF Typed
  <2> QED BY <2>1, <2>2, <2>3 DEF ReadRecord
<1>4. Typed'
  BY <1>2, <1>3 DEF Typed, Places, Fail
<1>5. CallInv'
  BY <1>1, <1>2, <1>3 DEF Typed, CallInv, Sorting, sys, Fail
<1> QED BY <1>4, <1>5

LEMMA SwapWriteTyped ==
  ASSUME Typed, CallInv, pc \in {"write_first", "write_second"}
  PROVE  /\ swap_write \in [pos : Nat, rec : Records]
         /\ i \in 1..num_of_records-1 /\ j \in 1..i
         /\ pc = "write_first" => swap_write = [pos |-> j - 1, rec |-> record.second]
         /\ pc = "write_second" => swap_write = [pos |-> j, rec |-> record.first]
BY DEF swap_write, Typed, CallInv, Sorting

LEMMA WriteRecordTyped ==
  ASSUME Typed, CallInv, WriteRecord
  PROVE  Typed' /\ CallInv'
<1> DEFINE w == swap_write
<1>1. /\ w \in [pos : Nat, rec : Records]
      /\ i \in 1..num_of_records-1 /\ j \in 1..i
      /\ pc \in {"write_first", "write_second"}
  BY SwapWriteTyped DEF WriteRecord
<1> HIDE DEF w
<1>2. /\ Proceed => /\ i' \in Nat /\ j' \in Nat
                    /\ pc' \in {"write_second", "first", "close"}
                    /\ pc' # "close" => i' \in 1..num_of_records-1 /\ j' \in 1..i'
  <2>1. CASE pc = "write_first"
    BY <1>1, <2>1 DEF Proceed, Typed
  <2>2. CASE pc = "write_second"
    BY <1>1, <2>2, NextPairTyped DEF Proceed
  <2> QED BY <1>1, <2>1, <2>2
<1>3. /\ UNCHANGED <<args, original, record, code>>
      /\ (Fail /\ UNCHANGED <<i, j>>) \/ (Proceed /\ UNCHANGED result)
  BY DEF WriteRecord
<1>4. /\ file' \in Seq(Records)
      /\ unflushed' \in [pos : Nat, recs : Seq(Records)]
      /\ faults' \in Nat
      /\ sys => unflushed' = Empty
  <2>1. CASE FlushFails
    BY <2>1, FlushFailsTyped DEF CallInv, Typed
  <2>2. ASSUME NEW outcome \in Outcomes, Count(outcome),
               file' = Written(file, w, outcome), UNCHANGED unflushed
        PROVE  /\ file' \in Seq(Records) /\ faults' \in Nat
               /\ unflushed' \in [pos : Nat, recs : Seq(Records)]
               /\ sys => unflushed' = Empty
    <3>1. file \in Seq(Records)
      BY DEF Typed
    <3>2. Written(file, w, outcome) \in Seq(Records)
      BY <1>1, <3>1, WrittenCases
    <3>3. faults' \in Nat
      BY <2>2, CountIs
    <3> QED BY <2>2, <3>2, <3>3 DEF Typed, CallInv
  <2>3. CASE /\ lib /\ file' = Flushed
             /\ unflushed' = [pos |-> w.pos, recs |-> <<w.rec>>]
             /\ UNCHANGED <<faults, result>>
    <3>1. <<w.rec>> \in Seq(Records) /\ w.pos \in Nat
      BY <1>1, OneRecord
    <3>2. unflushed' \in [pos : Nat, recs : Seq(Records)]
      BY <2>3, <3>1
    <3> QED BY <2>3, <3>2, FlushedBlock DEF Typed, lib, sys
  <2> QED BY <2>1, <2>2, <2>3 DEF WriteRecord, w
<1>5. Typed'
  BY <1>1, <1>2, <1>3, <1>4 DEF Typed, Places, Fail
<1>6. CallInv'
  BY <1>1, <1>2, <1>3, <1>4 DEF Typed, CallInv, Sorting, sys, Fail
<1> QED BY <1>5, <1>6

LEMMA CopyTyped ==
  ASSUME Typed, CallInv, OpenCopy \/ ReadNothing \/ Finish
  PROVE  Typed' /\ CallInv'
<1>1. CASE OpenCopy
  <2>1. Typed'
    BY <1>1 DEF OpenCopy, Typed, Places
  <2>2. CallInv'
    BY <1>1 DEF OpenCopy, Typed, CallInv, Sorting, sys
  <2> QED BY <2>1, <2>2
<1>2. CASE ReadNothing
  <2>1. faults' \in Nat
    BY <1>2, CountIs DEF ReadNothing, Typed
  <2>2. Typed'
    BY <1>2, <2>1 DEF ReadNothing, Typed, Places
  <2>3. CallInv'
    BY <1>2 DEF ReadNothing, Typed, CallInv, Sorting, sys
  <2> QED BY <2>2, <2>3
<1>3. CASE Finish
  <2>1. Typed'
    BY <1>3 DEF Finish, Typed, Places, loops
  <2>2. CallInv'
    BY <1>3 DEF Finish, Typed, CallInv, Sorting, sys, loops
  <2> QED BY <2>1, <2>2
<1> QED BY <1>1, <1>2, <1>3

LEMMA CopyRecordTyped ==
  ASSUME Typed, CallInv, CopyRecord
  PROVE  Typed' /\ CallInv'
<1> DEFINE w == [pos |-> Len(file) + Len(unflushed.recs), rec |-> original[j + 1]]
<1>1. /\ w \in [pos : Nat, rec : Records] /\ file \in Seq(Records)
      /\ j < Len(original) /\ pc = "copy" /\ i' = i + 1 /\ j' = j + 1
  <2>1. original[j + 1] \in Records
    BY DEF Typed, CopyRecord
  <2>2. Len(file) \in Nat /\ Len(unflushed.recs) \in Nat
    BY DEF Typed
  <2> QED BY <2>1, <2>2 DEF CopyRecord, Typed
<1>2. /\ UNCHANGED <<args, original, record, code>>
      /\ Fail \/ UNCHANGED <<pc, result>>
  BY DEF CopyRecord
<1>3. /\ file' \in Seq(Records)
      /\ unflushed' \in [pos : Nat, recs : Seq(Records)]
      /\ faults' \in Nat
      /\ sys => unflushed' = Empty
  <2>1. CASE FlushFails
    BY <2>1, FlushFailsTyped DEF CallInv, Typed
  <2>2. ASSUME NEW outcome \in Outcomes, Count(outcome),
               file' = Written(file, w, outcome), UNCHANGED unflushed
        PROVE  /\ file' \in Seq(Records) /\ faults' \in Nat
               /\ unflushed' \in [pos : Nat, recs : Seq(Records)]
               /\ sys => unflushed' = Empty
    <3> HIDE DEF w
    <3>1. Written(file, w, outcome) \in Seq(Records)
      BY <1>1, WrittenCases
    <3>2. faults' \in Nat
      BY <2>2, CountIs
    <3> QED BY <2>2, <3>1, <3>2 DEF Typed, CallInv
  <2>3. CASE /\ lib /\ UNCHANGED <<file, faults>>
             /\ unflushed' = [pos |-> Len(file), recs |-> Append(unflushed.recs, w.rec)]
    <3>1. Append(unflushed.recs, w.rec) \in Seq(Records) /\ Len(file) \in Nat
      BY <1>1 DEF Typed
    <3> QED BY <2>3, <3>1 DEF Typed, lib, sys
  <2>4. CASE /\ lib /\ file' = Flushed /\ UNCHANGED faults
             /\ unflushed' = [pos |-> w.pos, recs |-> <<w.rec>>]
    <3>1. <<w.rec>> \in Seq(Records) /\ w.pos \in Nat
      <4> HIDE DEF w
      <4> QED BY <1>1, OneRecord
    <3> QED BY <2>4, <3>1, FlushedBlock DEF Typed, lib, sys
  <2> QED BY <2>1, <2>2, <2>3, <2>4 DEF CopyRecord
<1>4. Typed'
  BY <1>1, <1>2, <1>3 DEF Typed, Places, Fail
<1>5. CallInv'
  BY <1>1, <1>2, <1>3 DEF Typed, CallInv, Sorting, sys, Fail
<1> QED BY <1>4, <1>5

LEMMA StepTyped ==
  ASSUME Typed, CallInv, [Next]_vars
  PROVE  Typed' /\ CallInv'
<1>1. CASE UNCHANGED vars
  BY <1>1 DEF vars, loops, Typed, CallInv, Sorting, sys
<1>2. CASE Next
  BY <1>2, MainTyped, CloseTyped, OpenFailsTyped, GenerateTyped, OpenSortTyped,
     CompareTyped, ReadRecordTyped, WriteRecordTyped, CopyTyped, CopyRecordTyped
     DEF Next
<1> QED BY <1>1, <1>2

-------------------------------------------------------------------------------
(* Sorting: what a step may lose. *)

SortInv == SwapInv /\ KeptInv /\ InsertInv

LEMMA NotSorting ==
  ASSUME args.command # "sort"
  PROVE  SortInv
BY DEF SortInv, SwapInv, KeptInv, InsertInv, NothingFailed

LEMMA KeptSame ==
  ASSUME Typed, Typed', KeptInv, args.command = "sort",
         UNCHANGED <<args, original>>, faults' >= faults, Kept \subseteq Kept'
  PROVE  KeptInv'
<1>1. Cardinality(InFile(original) \ Kept') <= faults
  BY KeepsMore DEF KeptInv, Missing, Typed
<1>2. Missing' = InFile(original) \ Kept'
  BY DEF Missing, InFile
<1>3. Cardinality(Missing') <= faults
  BY <1>1, <1>2
<1>4. Cardinality(Missing') \in Nat
  <2>1. IsFiniteSet(InFile(original)) /\ Missing' \subseteq InFile(original)
    BY <1>2, InFileFinite DEF Typed
  <2> QED BY <2>1, FS_Subset, FS_CardinalityType
<1> QED BY <1>3, <1>4 DEF KeptInv, Typed

LEMMA KeptButOne ==
  ASSUME Typed, Typed', KeptInv, args.command = "sort",
         UNCHANGED <<args, original>>, faults' = faults + 1,
         NEW x, Kept \subseteq Kept' \cup {x}
  PROVE  KeptInv'
<1>1. Cardinality(InFile(original) \ Kept') <= faults + 1
  BY KeepsAllButOne DEF KeptInv, Missing, Typed
<1>2. Missing' = InFile(original) \ Kept'
  BY DEF Missing, InFile
<1> QED BY <1>1, <1>2 DEF KeptInv

(* A write that replaces one record loses at most that one. *)
LEMMA SingleKeeps ==
  ASSUME NEW f \in Seq(Records), NEW g, NEW pos \in Nat, NEW r,
         Single(g, f, pos, r)
  PROVE  /\ \A n \in 1..Len(f) : n # pos + 1 => n \in 1..Len(g) /\ g[n] = f[n]
         /\ pos + 1 \in 1..Len(g) /\ g[pos + 1] = r
         /\ r \in InFile(g)
<1>1. Len(f) \in Nat /\ Len(g) \in Nat /\ Len(g) >= Len(f) /\ Len(g) >= pos + 1
  BY DEF Single
<1>2. \A n \in 1..Len(f) : n # pos + 1 => n \in 1..Len(g) /\ g[n] = f[n]
  BY <1>1 DEF Single
<1>3. pos + 1 \in 1..Len(g) /\ g[pos + 1] = r
  BY <1>1 DEF Single
<1> QED BY <1>2, <1>3 DEF InFile

LEMMA SortBuffer ==
  ASSUME Typed, SwapInv, args.command = "sort", unflushed # Empty
  PROVE  /\ Len(unflushed.recs) = 1 /\ unflushed.pos \in Nat
         /\ unflushed.pos < Len(file)
         /\ unflushed.recs[1] \in Records
         /\ Single(Flushed, file, unflushed.pos, unflushed.recs[1])
         /\ Len(Flushed) = Len(file)
<1>1. Len(unflushed.recs) = 1 /\ unflushed.pos < Len(file) /\ unflushed.pos \in Nat
  BY DEF SwapInv, Typed
<1>2. unflushed.recs[1] \in Records
  BY <1>1 DEF Typed
<1>3. Single(Flushed, file, unflushed.pos, unflushed.recs[1])
  BY <1>1, FlushedSingle
<1> QED BY <1>1, <1>2, <1>3 DEF Single

LEMMA FlushFailsOnce ==
  ASSUME Typed, SwapInv, args.command = "sort", FlushFails
  PROVE  /\ Len(file') = Len(file)
         /\ \A n \in 1..Len(file) : n # unflushed.pos + 1 => file'[n] = file[n]
<1> DEFINE pos == unflushed.pos
<1>1. unflushed # Empty /\ Len(unflushed.recs) = 1 /\ pos \in Nat /\ pos < Len(file)
  BY FlushFailsTyped, SortBuffer
<1>2. PICK n \in 0..Len(unflushed.recs)-1, outcome \in {"short", "error"} :
        file' = FlushedTo(n, outcome)
  BY DEF FlushFails
<1>3. n = 0
  BY <1>1, <1>2
<1>4. PICK g \in Seq(Records) :
        /\ Block(g, file, pos, SubSeq(unflushed.recs, 1, n))
        /\ \/ FlushedTo(n, outcome) = g
           \/ \E r : Single(FlushedTo(n, outcome), g, pos + n, r)
  <2> DEFINE w == [pos |-> pos + n, rec |-> unflushed.recs[n + 1]]
  <2>1. \E g \in Seq(Records) :
          /\ Block(g, file, unflushed.pos, SubSeq(unflushed.recs, 1, n))
          /\ \/ FlushedTo(n, outcome) = g
             \/ Single(FlushedTo(n, outcome), g, w.pos, Cut(g, w))
    BY FlushedToCases
  <2>2. w.pos = pos + n
    OBVIOUS
  <2> HIDE DEF w
  <2> QED BY <2>1, <2>2
<1>5. Len(SubSeq(unflushed.recs, 1, n)) = 0
  BY <1>3 DEF Typed
<1>6. Len(g) = Len(file) /\ \A m \in 1..Len(file) : g[m] = file[m]
  <2>1. Len(g) = Len(file) /\ Len(file) \in Nat
    BY <1>4, <1>5 DEF Block, Typed
  <2>2. ASSUME NEW m \in 1..Len(file) PROVE g[m] = file[m]
    <3>1. m <= pos \/ m > pos + Len(SubSeq(unflushed.recs, 1, n))
      BY <1>1, <1>5, <2>1
    <3> QED BY <1>4, <3>1 DEF Block
  <2> QED BY <2>1, <2>2
<1>7. CASE FlushedTo(n, outcome) = g
  BY <1>2, <1>6, <1>7
<1>8. ASSUME NEW r, Single(FlushedTo(n, outcome), g, pos + n, r)
      PROVE  /\ Len(file') = Len(file)
             /\ \A m \in 1..Len(file) : m # pos + 1 => file'[m] = file[m]
  BY <1>1, <1>2, <1>3, <1>6, <1>8 DEF Single
<1> QED BY <1>4, <1>7, <1>8

(* A flush that fails ends the sort, and loses at most one record. *)
LEMMA FlushFailsSort ==
  ASSUME Typed, CallInv, SortInv, Typed', args.command = "sort", FlushFails,
         UNCHANGED <<args, original>>, pc' \in {"close", "ended"}
  PROVE  SortInv'
<1> DEFINE pos == unflushed.pos  r == unflushed.recs[1]
<1>1. /\ unflushed # Empty /\ unflushed' \in {Empty, unflushed}
      /\ faults' = faults + 1 /\ faults' > 0
      /\ Len(unflushed.recs) = 1 /\ pos \in Nat /\ pos < Len(file)
      /\ r \in Records
      /\ Single(Flushed, file, pos, r) /\ Len(Flushed) = Len(file)
  BY FlushFailsTyped, SortBuffer DEF SortInv, Typed
<1>2. /\ Len(file') = Len(file)
      /\ \A n \in 1..Len(file) : n # pos + 1 => file'[n] = file[n]
  BY FlushFailsOnce DEF SortInv
<1>3. Len(file) \in Nat /\ file' \in Seq(Records) /\ file \in Seq(Records)
  BY DEF Typed
<1>4. SwapInv'
  BY <1>1, <1>2 DEF SwapInv
<1>5. InsertInv'
  BY <1>1 DEF InsertInv, NothingFailed
<1>6. /\ Len(Flushed') = Len(file)
      /\ \A n \in 1..Len(file) : n # pos + 1 => Flushed'[n] = file[n]
      /\ Flushed' = file' \/ Flushed'[pos + 1] = r
  <2>1. CASE unflushed' = Empty
    <3>1. Flushed' = file'
      BY <2>1, EmptyBuffer, NothingOverwritten DEF Typed, Flushed
    <3> QED BY <1>2, <3>1
  <2>2. CASE unflushed' = unflushed
    <3>1. Single(Flushed', file', pos, r)
      BY <1>1, <1>3, <2>2, OverwrittenSingle DEF Flushed, Typed
    <3> QED BY <1>1, <1>2, <1>3, <3>1 DEF Single
  <2> QED BY <1>1, <2>1, <2>2
<1>7. Kept' = InFile(Flushed')
  BY DEF Kept, InFile
<1>8. \E x : Kept \subseteq Kept' \cup {x}
  <2>1. CASE pc # "write_second"
    <3> SUFFICES ASSUME NEW n \in 1..Len(Flushed)
                 PROVE  Flushed[n] \in InFile(Flushed') \cup {r}
      BY <1>7, <2>1 DEF Kept, InFile
    <3>1. CASE n = pos + 1
      BY <1>1, <3>1 DEF Single
    <3>2. CASE n # pos + 1
      BY <1>1, <1>6, <3>2 DEF Single, InFile
    <3> QED BY <3>1, <3>2
  <2>2. CASE pc = "write_second"
    <3>1. /\ pos = j - 1 /\ r = record.second
          /\ j + 1 <= Len(file) /\ file[j + 1] = record.second /\ j \in Nat \ {0}
      <4>1. lib
        BY <1>1 DEF CallInv, Typed, Given, lib, sys
      <4>2. /\ unflushed = [pos |-> j - 1, recs |-> <<record.second>>]
            /\ j + 1 <= Len(file) /\ file[j + 1] = record.second
        BY <2>2, <4>1 DEF SortInv, SwapInv
      <4>3. j \in Nat \ {0}
        BY <2>2 DEF CallInv, Sorting
      <4>4. pos = j - 1 /\ r = record.second
        BY <4>2
      <4> QED BY <4>2, <4>3, <4>4
    <3> DEFINE S == {Flushed[n] : n \in 1..Len(Flushed) \ {j + 1}}
    <3>2. Kept = S \cup {record.first}
      BY <2>2 DEF Kept
    <3>3. S \subseteq Kept' \cup {record.first} => Kept \subseteq Kept' \cup {record.first}
      BY <3>2, Zenon
    <3> SUFFICES ASSUME NEW n \in 1..Len(Flushed) \ {j + 1}
                 PROVE  Flushed[n] \in InFile(Flushed') \cup {record.first}
      BY <1>7, <3>3
    <3>4. CASE n = j
      <4>1. j + 1 \in 1..Len(file) /\ j + 1 # pos + 1 /\ n = pos + 1
        <5>1. Len(file) \in Nat
          BY <1>3
        <5>2. j + 1 <= Len(file) /\ j \in Nat \ {0} /\ pos = j - 1
          BY <3>1
        <5> HIDE DEF pos, r
        <5> QED BY <3>4, <5>1, <5>2
      <4>2. Flushed[n] = file[j + 1]
        BY <1>1, <3>1, <4>1 DEF Single
      <4>3. Flushed'[j + 1] = file[j + 1] /\ j + 1 \in 1..Len(Flushed')
        BY <1>6, <4>1
      <4> QED BY <4>2, <4>3 DEF InFile
    <3>5. CASE n # j
      <4>1. n # pos + 1 /\ n \in 1..Len(file)
        BY <1>1, <3>1, <3>5
      <4>2. Flushed[n] = file[n] /\ Flushed'[n] = file[n] /\ n \in 1..Len(Flushed')
        BY <1>1, <1>6, <4>1 DEF Single
      <4> QED BY <4>2 DEF InFile
    <3> QED BY <3>4, <3>5
  <2> QED BY <2>1, <2>2
<1>9. KeptInv'
  BY <1>1, <1>8, KeptButOne DEF SortInv
<1> QED BY <1>4, <1>5, <1>9 DEF SortInv

LEMMA SameBuffer ==
  ASSUME UNCHANGED <<file, unflushed>>
  PROVE  Flushed' = Flushed
BY DEF Flushed

(* Before the file is opened, and when opening it fails. *)
LEMMA OpenedSort ==
  ASSUME Typed, CallInv, Typed', args.command = "sort",
         Main \/ OpenFails
  PROVE  SortInv'
<1>1. /\ UNCHANGED <<args, original, file, unflushed>>
      /\ file = original /\ unflushed = Empty
      /\ pc' \in {"open", "ended", "close"}
  BY DEF Main, OpenFails, CallInv, Fail
<1>2. Flushed' = original
  BY <1>1, FlushedEmpty, SameBuffer
<1>3. SwapInv'
  BY <1>1 DEF SwapInv
<1>4. KeptInv'
  <2>1. Kept' = InFile(original)
    BY <1>1, <1>2 DEF Kept, InFile
  <2>2. Missing' = InFile(original) \ InFile(original)
    BY <1>1, <2>1 DEF Missing, InFile
  <2>3. Cardinality(Missing') = 0
    BY <2>2, NothingMissing, Zenon
  <2> QED BY <2>3 DEF KeptInv, Typed
<1>5. InsertInv'
  <2>1. CASE Main
    <3>1. /\ pc' \in {"open", "ended"} /\ (code' = code \/ code' # 0)
          /\ code = -1
      BY <2>1 DEF Main, CallInv
    <3> QED BY <1>1, <3>1 DEF InsertInv, Sorting
  <2>2. CASE OpenFails
    <3>1. faults' > 0
      BY <2>2, CallFails DEF OpenFails
    <3> QED BY <3>1 DEF InsertInv, NothingFailed
  <2> QED BY <2>1, <2>2
<1> QED BY <1>3, <1>4, <1>5 DEF SortInv

LEMMA GivenFile ==
  ASSUME Typed, CallInv
  PROVE  SortedFile(original)
BY DEF Typed, CallInv, SortedFile

LEMMA OpenSortPreserves ==
  ASSUME Typed, CallInv, Typed', OpenSort
  PROVE  SortInv'
<1>1. /\ UNCHANGED <<args, original, file, unflushed, faults, code>>
      /\ file = original /\ unflushed = Empty /\ code = -1
      /\ pc' \in {"first", "close"} /\ i' = 1 /\ j' = 1 /\ result' = 0
      /\ pc' = "first" <=> num_of_records > 1
  BY DEF OpenSort, CallInv
<1>2. Flushed' = original
  BY <1>1, FlushedEmpty, SameBuffer
<1>3. SwapInv'
  BY <1>1 DEF SwapInv
<1>4. KeptInv'
  <2>1. Kept' = InFile(original)
    BY <1>1, <1>2 DEF Kept, InFile
  <2>2. Missing' = InFile(original) \ InFile(original)
    BY <1>1, <2>1 DEF Missing, InFile
  <2>3. Cardinality(Missing') = 0
    BY <2>2, NothingMissing, Zenon
  <2> QED BY <2>3 DEF KeptInv, Typed
<1>5. ASSUME NothingFailed' PROVE InsertInv'
  <2>1. /\ Len(original) \in Nat /\ num_of_records \in Nat \ {0}
        /\ num_of_records <= Len(original)
        /\ \A n \in 1..Len(original) : original[n].body = n
    BY <1>1, <1>5, Constants DEF NothingFailed, CallInv, Typed
  <2>2. CASE num_of_records > 1
    <3>1. 2 \in 1..Len(original) /\ Len(original) >= 2
      BY <2>1, <2>2
    <3>2. Distinct(original)
      BY <2>1 DEF Distinct
    <3>3. AreFirst(original, 2)
      BY <2>1, <3>1 DEF AreFirst
    <3>4. OrderedBut(original, 2, 2)
      BY DEF OrderedBut
    <3>5. Moving(original, 2, 2)
      BY <3>2, <3>3, <3>4 DEF Moving, RestFrom
    <3>6. Moving(View, i + 1, moved)'
      BY <1>1, <1>2, <2>2, <3>5 DEF View, moved, Moving, Distinct, RestFrom, AreFirst,
         OrderedBut, Preceded
    <3> QED BY <1>1, <2>2, <3>6 DEF InsertInv
  <2>3. CASE num_of_records = 1
    <3>1. Ordered(original, num_of_records) /\ RestFrom(original, num_of_records + 1)
      BY <2>3 DEF Ordered, RestFrom
    <3>2. Ordered(Flushed, num_of_records)' /\ RestFrom(Flushed, num_of_records + 1)'
      BY <1>1, <1>2, <3>1 DEF Ordered, RestFrom
    <3> QED BY <1>1, <2>3, <3>2 DEF InsertInv, Sorting
  <2> QED BY <2>1, <2>2, <2>3
<1>6. InsertInv'
  BY <1>5 DEF InsertInv
<1> QED BY <1>3, <1>4, <1>6 DEF SortInv

LEMMA CloseSort ==
  ASSUME Typed, CallInv, SortInv, Typed', args.command = "sort", Close
  PROVE  SortInv'
<1>1. CASE FlushFails
  BY <1>1, FlushFailsSort DEF Close
<1>2. CASE file' = Flushed /\ unflushed' = Empty /\ UNCHANGED faults
  <2>1. /\ pc = "close" /\ pc' = "ended" /\ UNCHANGED <<args, original>>
        /\ code' = 0 => result = 0
    BY DEF Close, failure_code
  <2>2. Flushed' = Flushed
    BY <1>2, EmptyBuffer, NothingOverwritten, FlushedBlock DEF Flushed, Typed
  <2>3. SwapInv'
    BY <1>2, <2>1 DEF SwapInv
  <2>4. Kept' = Kept
    BY <2>1, <2>2 DEF Kept, InFile
  <2>5. KeptInv'
    BY <1>2, <2>1, <2>4, KeptSame DEF SortInv, Typed
  <2>6. ASSUME NothingFailed' PROVE InsertInv'
    <3>1. NothingFailed
      BY <1>2, <2>1, <2>6 DEF NothingFailed
    <3>2. /\ Len(file) = Len(original)
          /\ Ordered(Flushed, num_of_records) /\ RestFrom(Flushed, num_of_records + 1)
      BY <2>1, <3>1 DEF SortInv, InsertInv
    <3>3. Len(file') = Len(file)
      <4>1. CASE unflushed = Empty
        BY <1>2, <4>1, FlushedEmpty
      <4>2. CASE unflushed # Empty
        BY <1>2, <4>2, SortBuffer DEF SortInv
      <4> QED BY <4>1, <4>2
    <3>4. Ordered(Flushed, num_of_records)' /\ RestFrom(Flushed, num_of_records + 1)'
      BY <2>1, <2>2, <3>2 DEF Ordered, RestFrom
    <3> QED BY <2>1, <3>2, <3>3, <3>4 DEF InsertInv, Sorting
  <2>7. InsertInv'
    BY <2>6 DEF InsertInv
  <2> QED BY <2>3, <2>5, <2>7 DEF SortInv
<1> QED BY <1>1, <1>2 DEF Close

-------------------------------------------------------------------------------
(* The steps of the loop. *)

LEMMA FlushedLength ==
  ASSUME Typed, SwapInv, args.command = "sort"
  PROVE  Len(Flushed) = Len(file)
<1>1. CASE unflushed = Empty
  BY <1>1, FlushedEmpty
<1>2. CASE unflushed # Empty
  BY <1>2, SortBuffer
<1> QED BY <1>1, <1>2

LEMMA ReadRecordPreserves ==
  ASSUME Typed, CallInv, SortInv, Typed', ReadRecord
  PROVE  SortInv'
<1> DEFINE pos == IF pc = "first" THEN j - 1 ELSE j
           beyond == pos >= Len(Flushed)
<1>1. /\ pc \in {"first", "second"} /\ UNCHANGED <<args, original, i, j, code>>
      /\ args.command = "sort" /\ i \in 1..num_of_records-1 /\ j \in 1..i
      /\ i \in Nat /\ j \in Nat \ {0} /\ pos \in Nat
  BY DEF ReadRecord, CallInv, Sorting, Typed
<1>2. CASE FlushFails /\ Fail /\ UNCHANGED record
  BY <1>1, <1>2, FlushFailsSort DEF Fail
<1>3. CASE Count("error") /\ Fail /\ UNCHANGED <<file, unflushed, record>>
  <2>1. Flushed' = Flushed /\ pc' = "close"
    BY <1>3, SameBuffer DEF Fail
  <2>2. faults' = faults + 1 /\ faults' > 0
    BY <1>3, CallFails
  <2>3. SwapInv'
    BY <1>1, <1>3, <2>1 DEF SortInv, SwapInv
  <2>4. Kept' = Kept
    BY <1>1, <2>1 DEF Kept, InFile
  <2>5. KeptInv'
    BY <1>1, <2>2, <2>4, KeptSame DEF SortInv, Typed
  <2>6. InsertInv'
    BY <2>2 DEF InsertInv, NothingFailed
  <2> QED BY <2>3, <2>5, <2>6 DEF SortInv
<1>4. CASE /\ file' = Flushed /\ unflushed' = Empty /\ UNCHANGED faults
           /\ \/ ~beyond /\ record' = [record EXCEPT ![pc] = Flushed[pos + 1]]
              \/ beyond /\ UNCHANGED record
           /\ IF beyond /\ lib THEN Fail
              ELSE pc' = (IF pc = "first" THEN "second" ELSE "compare") /\ UNCHANGED result
  <2>1. Flushed' = Flushed /\ Flushed \in Seq(Records) /\ Len(Flushed) = Len(file)
        /\ file \in Seq(Records) /\ Len(file) \in Nat
    BY <1>1, <1>4, EmptyBuffer, NothingOverwritten, FlushedBlock, FlushedLength
       DEF Flushed, Typed, SortInv
  <2>2. /\ pc' \in {"second", "compare", "close"}
        /\ pc' = "second" => pc = "first"
        /\ pc' = "compare" => pc = "second" /\ ~(beyond /\ lib)
        /\ pc' = "close" => beyond
    BY <1>1, <1>4 DEF Fail
  <2>3. SwapInv'
    <3>1. CASE pc' = "second"
      <4>1. pc = "first" /\ pos = j - 1
        BY <2>2, <3>1
      <4>2. ~beyond => record'.first = Flushed[j]
        BY <1>1, <1>4, <4>1 DEF Typed
      <4>3. j <= Len(file') => file'[j] = record'.first
        BY <1>1, <1>4, <2>1, <4>1, <4>2
      <4> QED BY <1>1, <1>4, <3>1, <4>3 DEF SwapInv
    <3>2. CASE pc' = "compare"
      <4>1. pc = "second" /\ pos = j /\ ~(beyond /\ lib)
        BY <2>2, <3>2
      <4>2. unflushed = Empty /\ (j <= Len(file) => file[j] = record.first)
        BY <1>1, <4>1 DEF SortInv, SwapInv
      <4>3. file' = file
        BY <1>4, <4>2, FlushedEmpty
      <4>4. /\ record'.first = record.first
            /\ ~beyond => record'.second = Flushed[j + 1]
        BY <1>4, <4>1 DEF Typed
      <4>5. j + 1 <= Len(file') => file'[j + 1] = record'.second
        BY <1>1, <1>4, <2>1, <4>1, <4>3, <4>4
      <4>6. lib => j + 1 <= Len(file')
        BY <1>1, <2>1, <4>1, <4>3
      <4> QED BY <1>1, <1>4, <3>2, <4>2, <4>3, <4>4, <4>5, <4>6 DEF SwapInv, lib
    <3>3. CASE pc' = "close"
      BY <1>4, <3>3 DEF SwapInv
    <3> QED BY <2>2, <3>1, <3>2, <3>3
  <2>4. Kept' = Kept
    BY <1>1, <2>1, <2>2 DEF Kept, InFile
  <2>5. KeptInv'
    BY <1>1, <1>4, <2>4, KeptSame DEF SortInv, Typed
  <2>6. ASSUME NothingFailed' PROVE InsertInv'
    <3>1. NothingFailed
      BY <1>1, <1>4, <2>6 DEF NothingFailed
    <3>2. /\ Len(file) = Len(original) /\ Moving(View, i + 1, moved)
      BY <1>1, <3>1 DEF SortInv, InsertInv, Sorting
    <3>3. ~beyond
      BY <1>1, <2>1, <3>1, <3>2, Constants DEF NothingFailed
    <3>4. View' = View /\ moved' = moved /\ i' = i
      BY <1>1, <2>1, <2>2 DEF View, moved
    <3>5. Moving(View, i + 1, moved)'
      BY <1>1, <3>2, <3>4
         DEF Moving, Distinct, RestFrom, AreFirst, OrderedBut, Preceded
    <3>6. pc' \in {"second", "compare"} /\ code' # 0 /\ Len(file') = Len(original')
      BY <1>1, <1>4, <2>1, <2>2, <3>2, <3>3 DEF CallInv, Sorting
    <3> QED BY <3>5, <3>6 DEF InsertInv
  <2>7. InsertInv'
    BY <2>6 DEF InsertInv
  <2> QED BY <2>3, <2>5, <2>7 DEF SortInv
<1> QED BY <1>2, <1>3, <1>4 DEF ReadRecord

(* The record has been compared with the one before it and is at j: the    *)
(* loops go on with the next pair.                                         *)
LEMMA NextPairMoves ==
  ASSUME NEW f, SortedFile(f), i \in 1..num_of_records-1, j \in 1..i,
         num_of_records <= Len(f), Moving(f, i + 1, j), NextPair
  PROVE  \/ pc' = "first" /\ Moving(f, i' + 1, j' + 1)
         \/ pc' = "close" /\ Ordered(f, num_of_records) /\ RestFrom(f, num_of_records + 1)
<1>1. Len(f) \in Nat /\ num_of_records \in Nat /\ i \in Nat /\ j \in Nat
      /\ i + 1 \in 1..Len(f) /\ j \in 1..i+1
  BY Constants DEF SortedFile
<1>2. CASE j > 1 /\ j' = j - 1 /\ pc' = "first" /\ UNCHANGED i
  <2>1. (j - 1) + 1 = j
    BY <1>1
  <2> QED BY <1>2, <2>1
<1>3. CASE /\ j = 1 /\ i' = i + 1 /\ j' = i + 1
           /\ pc' = (IF i + 1 < num_of_records THEN "first" ELSE "close")
  <2>1. Ordered(f, i + 1)
    <3> SUFFICES ASSUME NEW n \in 1..i+1, NEW m \in 1..n-1 PROVE Precedes(f[m], f[n])
      BY DEF Ordered
    <3>1. n # j
      BY <1>1, <1>3
    <3> QED BY <3>1 DEF Moving, OrderedBut
  <2>2. CASE i + 1 < num_of_records
    <3>1. i + 1 < Len(f)
      BY <1>1, <2>2
    <3>2. Moving(f, (i + 1) + 1, (i + 1) + 1)
      BY <1>1, <2>1, <3>1, NextRecord
    <3> QED BY <1>3, <2>2, <3>2
  <2>3. CASE i + 1 = num_of_records
    <3>1. RestFrom(f, num_of_records + 1)
      BY <2>3 DEF Moving
    <3> QED BY <1>1, <1>3, <2>1, <2>3, <3>1
  <2> QED BY <1>1, <2>2, <2>3
<1> QED BY <1>2, <1>3 DEF NextPair

LEMMA NextPairPlaces ==
  ASSUME Typed, SwapInv, UNCHANGED args, pc' \in {"first", "close"},
         args.command = "sort" =>
           unflushed' = Empty \/ (Len(unflushed'.recs) = 1 /\ unflushed'.pos < Len(file'))
  PROVE  SwapInv'
BY DEF SwapInv

(* After such a step, with nothing failed so far. *)
LEMMA NextPairInserts ==
  ASSUME Typed, CallInv, Typed', Sorting, NothingFailed, Len(file') = Len(original),
         UNCHANGED <<args, original, result, code>>,
         SortedFile(Flushed'), Moving(Flushed', i + 1, j), NextPair
  PROVE  InsertInv'
<1>1. /\ i \in 1..num_of_records-1 /\ j \in 1..i /\ result' = 0 /\ code' = -1
      /\ pc # "ended"
  BY DEF CallInv, Sorting
<1>2. PICK f : f = Flushed'
  OBVIOUS
<1>3. SortedFile(f) /\ Moving(f, i + 1, j) /\ num_of_records <= Len(f)
  BY <1>2 DEF SortedFile, NothingFailed
<1>4. \/ pc' = "first" /\ Moving(f, i' + 1, j' + 1)
      \/ pc' = "close" /\ Ordered(f, num_of_records) /\ RestFrom(f, num_of_records + 1)
  BY <1>1, <1>3, NextPairMoves
<1>5. CASE pc' = "first" /\ Moving(f, i' + 1, j' + 1)
  <2>1. View' = f /\ moved' = j' + 1
    BY <1>2, <1>5 DEF View, moved
  <2>2. Moving(View, i + 1, moved)'
    BY <1>5, <2>1 DEF Moving, Distinct, RestFrom, AreFirst, OrderedBut, Preceded
  <2> QED BY <1>1, <1>5, <2>2 DEF InsertInv
<1>6. CASE /\ pc' = "close" /\ Ordered(f, num_of_records)
           /\ RestFrom(f, num_of_records + 1)
  <2>1. Ordered(Flushed, num_of_records)' /\ RestFrom(Flushed, num_of_records + 1)'
    BY <1>2, <1>6 DEF Ordered, RestFrom
  <2> QED BY <1>1, <1>6, <2>1 DEF InsertInv, Sorting
<1> QED BY <1>4, <1>5, <1>6

LEMMA ComparePreserves ==
  ASSUME Typed, CallInv, SortInv, Typed', Compare
  PROVE  SortInv'
<1>1. /\ pc = "compare" /\ Sorting /\ args.command = "sort"
      /\ i \in 1..num_of_records-1 /\ j \in 1..i
      /\ UNCHANGED <<args, original, file, unflushed, record, result, faults, code>>
      /\ \/ out_of_order /\ pc' = "write_first" /\ UNCHANGED <<i, j>>
         \/ ~out_of_order /\ NextPair
      /\ pc' \in {"write_first", "first", "close"}
  BY DEF Compare, CallInv, Sorting, NextPair
<1>2. Flushed' = Flushed
  BY <1>1, SameBuffer
<1>3. unflushed = Empty /\ Flushed = file
  BY <1>1, FlushedEmpty DEF SortInv, SwapInv
<1>4. SwapInv'
  <2>1. CASE pc' = "write_first"
    <3>1. UNCHANGED <<i, j>>
      BY <1>1, <2>1 DEF NextPair
    <3>2. out_of_order /\ out_of_order' = out_of_order
      BY <1>1, <2>1 DEF NextPair, out_of_order
    <3> QED BY <1>1, <2>1, <3>1, <3>2 DEF SortInv, SwapInv, lib
  <2>2. CASE pc' \in {"first", "close"}
    BY <1>1, <1>3, <2>2, NextPairPlaces DEF SortInv
  <2> QED BY <1>1, <2>1, <2>2
<1>5. Kept' = Kept
  BY <1>1, <1>2 DEF Kept, InFile
<1>6. KeptInv'
  BY <1>1, <1>5, KeptSame DEF SortInv, Typed
<1>7. ASSUME NothingFailed' PROVE InsertInv'
  <2>1. NothingFailed
    BY <1>1, <1>7 DEF NothingFailed
  <2>2. Len(file) = Len(original) /\ Moving(file, i + 1, j + 1)
    BY <1>1, <1>3, <2>1 DEF SortInv, InsertInv, View, moved
  <2>3. SortedFile(file)
    BY <2>2 DEF SortedFile, Typed, CallInv
  <2>4. CASE out_of_order /\ pc' = "write_first" /\ UNCHANGED <<i, j>>
    <3>1. View' = file /\ moved' = j + 1 /\ i' = i
      BY <1>2, <1>3, <2>4 DEF View, moved
    <3>2. Moving(View, i + 1, moved)'
      BY <1>1, <2>2, <3>1 DEF Moving, Distinct, RestFrom, AreFirst, OrderedBut, Preceded
    <3> QED BY <1>1, <2>2, <2>4, <3>2 DEF InsertInv, CallInv
  <2>5. CASE ~out_of_order /\ NextPair
    <3>1. /\ i + 1 \in 1..Len(file) /\ j + 1 \in 2..i+1 /\ j \in 1..i+1
          /\ (j + 1) - 1 = j /\ j <= Len(file) /\ j + 1 <= Len(file)
          /\ j + 1 \in 1..i+1
      BY <1>1, <2>1, <2>2, Constants DEF NothingFailed, Typed
    <3>2. file[j] = record.first /\ file[j + 1] = record.second
      BY <1>1, <3>1 DEF SortInv, SwapInv
    <3>3. file[(j + 1) - 1].key <= file[j + 1].key
      <4>1. record.first \in Records /\ record.second \in Records
        BY DEF Typed
      <4> QED BY <2>5, <3>1, <3>2, <4>1 DEF out_of_order, Records
    <3>4. Ordered(file, i + 1)
      BY <2>2, <2>3, <3>1, <3>3, InOrder
    <3>5. Moving(file, i + 1, j)
      BY <2>2, <2>3, <3>1, <3>4, OrderedMoves
    <3> QED BY <1>1, <1>2, <1>3, <2>1, <2>2, <2>3, <2>5, <3>5, NextPairInserts
  <2> QED BY <1>1, <2>4, <2>5
<1>8. InsertInv'
  BY <1>7 DEF InsertInv
<1> QED BY <1>4, <1>6, <1>8 DEF SortInv

-------------------------------------------------------------------------------
(* The two writes of a swap. *)

Unfailed == faults' = faults /\ UNCHANGED <<args, original, record, result, code>>

(* What the compared records are in a sort in which nothing has failed. *)
LEMMA FirstWriteInserts ==
  ASSUME Typed, CallInv, SortInv, Typed', NothingFailed, pc = "write_first",
         Single(Flushed', file, j - 1, record.second), Len(file') = Len(file),
         pc' = "write_second", UNCHANGED <<i, j>>, Unfailed
  PROVE  InsertInv'
<1>1. /\ i \in 1..num_of_records-1 /\ j \in 1..i /\ code = -1
      /\ unflushed = Empty /\ Flushed = file
      /\ args.command = "sort"
  BY FlushedEmpty DEF CallInv, Sorting, SortInv, SwapInv, NothingFailed
<1>2. Len(file) = Len(original) /\ Moving(file, i + 1, j + 1)
  BY <1>1 DEF SortInv, InsertInv, Sorting, View, moved
<1>3. /\ Len(file) \in Nat /\ i \in Nat /\ j \in Nat
      /\ i + 1 \in 1..Len(file) /\ j + 1 \in 2..i+1 /\ (j + 1) - 1 = j
      /\ j \in 1..Len(file) /\ j + 1 \in 1..Len(file) /\ (j - 1) + 1 = j /\ j - 1 \in Nat
      /\ j - 1 < Len(file)
  BY <1>1, <1>2, Constants DEF NothingFailed, Typed
<1>4. file[j] = record.first /\ file[j + 1] = record.second
  BY <1>1, <1>3 DEF SortInv, SwapInv
<1>5. /\ record.first \in Records /\ record.second \in Records
      /\ record.first.key > record.second.key
  <2>1. out_of_order
    BY <1>1 DEF SortInv, SwapInv
  <2> QED BY <2>1 DEF out_of_order, Typed
<1>6. /\ Flushed' \in Seq(Records) /\ Len(Flushed') = Len(file)
      /\ Flushed'[j] = record.second
      /\ \A n \in 1..Len(file) : n # j => Flushed'[n] = file[n]
  BY <1>3 DEF Single
<1> DEFINE g == View'
<1>7. g = [Flushed' EXCEPT ![j + 1] = record.first]
  BY DEF View, Unfailed
<1>8. /\ g \in Seq(Records) /\ Len(g) = Len(file)
      /\ g[j] = record.second /\ g[j + 1] = record.first
      /\ \A n \in 1..Len(file) : n # j /\ n # j + 1 => g[n] = file[n]
  BY <1>3, <1>5, <1>6, <1>7
<1> HIDE DEF g
<1>9. SortedFile(file) /\ SortedFile(g)
  BY <1>2, <1>8 DEF SortedFile, Typed, CallInv
<1>10. Moving(g, i + 1, j) /\ g[j] = original[i + 1]
  <2>1. /\ file[(j + 1) - 1].key > file[j + 1].key
        /\ g[(j + 1) - 1] = file[j + 1] /\ g[j + 1] = file[(j + 1) - 1]
        /\ \A n \in 1..Len(file) : n # (j + 1) - 1 /\ n # j + 1 => g[n] = file[n]
    BY <1>3, <1>4, <1>5, <1>8
  <2>2. Moving(g, i + 1, (j + 1) - 1) /\ g[(j + 1) - 1] = original[i + 1]
    BY <1>2, <1>3, <1>9, <2>1, OutOfOrder
  <2> QED BY <1>3, <2>2
<1>11. moved' = j /\ original' = original /\ i' = i
  BY DEF moved, Unfailed
<1>12. Moving(View, i + 1, moved)' /\ View'[j] = original[i + 1]
  BY <1>10, <1>11 DEF g, Moving, Distinct, RestFrom, AreFirst, OrderedBut, Preceded
<1> QED BY <1>1, <1>2, <1>11, <1>12 DEF InsertInv, Unfailed

LEMMA SecondWriteInserts ==
  ASSUME Typed, CallInv, SortInv, Typed', NothingFailed, pc = "write_second",
         Single(Flushed', Flushed, j, record.first), Len(file') = Len(file),
         NextPair, Unfailed
  PROVE  InsertInv'
<1>1. /\ i \in 1..num_of_records-1 /\ j \in 1..i /\ Sorting /\ args.command = "sort"
  BY DEF CallInv, Sorting, NothingFailed
<1>2. /\ Len(file) = Len(original) /\ Len(Flushed) = Len(file) /\ Moving(View, i + 1, j)
      /\ Flushed \in Seq(Records)
  BY <1>1, FlushedLength, FlushedBlock DEF SortInv, InsertInv, moved
<1>3. j \in Nat /\ j < Len(Flushed) /\ j + 1 \in 1..Len(Flushed) /\ Len(Flushed) \in Nat
  BY <1>1, <1>2, Constants DEF NothingFailed, Typed
<1>4. /\ Flushed' \in Seq(Records) /\ Len(Flushed') = Len(Flushed)
      /\ Flushed'[j + 1] = record.first
      /\ \A n \in 1..Len(Flushed) : n # j + 1 => Flushed'[n] = Flushed[n]
  BY <1>3 DEF Single
<1>5. Flushed' = View
  <2>1. View = [Flushed EXCEPT ![j + 1] = record.first] /\ record.first \in Records
    BY DEF View, Typed
  <2>2. /\ View \in Seq(Records) /\ Len(View) = Len(Flushed)
        /\ \A n \in 1..Len(Flushed) : View[n] = IF n = j + 1 THEN record.first ELSE Flushed[n]
    BY <1>2, <1>3, <2>1
  <2>3. \A n \in 1..Len(Flushed') : Flushed'[n] = View[n]
    BY <1>3, <1>4, <2>2
  <2> QED BY <1>4, <2>2, <2>3, SeqEqual
<1>6. SortedFile(Flushed') /\ Moving(Flushed', i + 1, j)
  <2>1. SortedFile(View)
    BY <1>2, <1>4, <1>5 DEF SortedFile, Typed, CallInv
  <2> QED BY <1>2, <1>5, <2>1
<1> QED BY <1>1, <1>2, <1>6, NextPairInserts DEF Unfailed

(* A write by system call. *)
LEMMA SysWritePreserves ==
  ASSUME Typed, CallInv, SortInv, Typed', WriteRecord, sys,
         NEW outcome \in Outcomes, Count(outcome),
         file' = Written(file, swap_write, outcome), UNCHANGED unflushed,
         IF sort_failed(outcome) THEN Fail /\ UNCHANGED <<i, j>>
                                 ELSE Proceed /\ UNCHANGED result
  PROVE  SortInv'
<1> DEFINE w == swap_write
<1>1. /\ pc \in {"write_first", "write_second"} /\ args.command = "sort"
      /\ UNCHANGED <<args, original, record, code>>
      /\ i \in 1..num_of_records-1 /\ j \in 1..i /\ j \in Nat \ {0}
      /\ w \in [pos : Nat, rec : Records]
      /\ pc = "write_first" => w = [pos |-> j - 1, rec |-> record.second]
      /\ pc = "write_second" => w = [pos |-> j, rec |-> record.first]
      /\ unflushed = Empty /\ unflushed' = Empty /\ code' = -1
      /\ file \in Seq(Records) /\ file' \in Seq(Records)
  BY SwapWriteTyped DEF WriteRecord, CallInv, Sorting, Typed
<1> HIDE DEF w
<1>2. Flushed = file /\ Flushed' = file'
  BY <1>1, FlushedEmpty, EmptyBuffer, NothingOverwritten DEF Flushed
<1>3. /\ outcome = "full" => Single(file', file, w.pos, w.rec)
      /\ outcome = "short" => Single(file', file, w.pos, Cut(file, w))
      /\ outcome = "error" => file' = file
  BY <1>1, WrittenCases DEF w
<1>4. /\ outcome = "error" => pc' = "close"
      /\ outcome # "error" => Proceed /\ UNCHANGED result
      /\ Proceed => /\ pc = "write_first" => pc' = "write_second" /\ UNCHANGED <<i, j>>
                    /\ pc = "write_second" => NextPair /\ pc' \in {"first", "close"}
  BY DEF sort_failed, Fail, Proceed, NextPair
<1>5. SwapInv'
  BY <1>1, <1>4 DEF SwapInv, lib, sys, Outcomes
<1>6. /\ outcome = "full" => faults' = faults
      /\ outcome # "full" => faults' = faults + 1 /\ faults' > 0
  BY CountIs DEF Typed
<1>7. KeptInv'
  <2>1. CASE outcome = "error"
    <3>1. Kept' = InFile(file)
      BY <1>2, <1>3, <1>4, <2>1 DEF Kept, InFile
    <3>2. Kept \subseteq Kept' \cup {record.first}
      BY <1>2, <3>1 DEF Kept, InFile
    <3> QED BY <1>1, <1>6, <2>1, <3>2, KeptButOne DEF SortInv
  <2>2. CASE outcome # "error"
    <3>1. PICK r : Single(file', file, w.pos, r) /\ (outcome = "full" => r = w.rec)
      BY <1>3, <2>2 DEF Outcomes
    <3>2. /\ \A n \in 1..Len(file) : n # w.pos + 1 => n \in 1..Len(file') /\ file'[n] = file[n]
          /\ w.pos + 1 \in 1..Len(file') /\ file'[w.pos + 1] = r
      BY <1>1, <3>1, SingleKeeps
    <3>3. CASE pc = "write_first"
      <4>1. /\ w.pos + 1 = j /\ w.rec = record.second /\ pc' = "write_second"
            /\ j' = j /\ record' = record /\ j # j + 1
        BY <1>1, <1>4, <2>2, <3>3
      <4>2. Kept = InFile(file)
        BY <1>2, <3>3 DEF Kept
      <4>3. Kept' = {file'[n] : n \in 1..Len(file') \ {j + 1}} \cup {record.first}
        BY <1>2, <4>1 DEF Kept
      <4>4. /\ j <= Len(file) => file[j] = record.first
            /\ j + 1 <= Len(file) => file[j + 1] = record.second
        BY <1>1, <3>3 DEF SortInv, SwapInv
      <4>5. ASSUME NEW n \in 1..Len(file)
            PROVE  /\ file[n] \in Kept' \cup {record.second}
                   /\ outcome = "full" => file[n] \in Kept'
        <5>1. CASE n = j
          BY <4>3, <4>4, <5>1
        <5>2. CASE n = j + 1
          <6>1. file[n] = record.second
            BY <4>4, <5>2
          <6>2. outcome = "full" => record.second \in Kept'
            <7>1. j \in 1..Len(file') \ {j + 1} /\ file'[j] = r
              BY <3>2, <4>1
            <7>2. outcome = "full" => r = record.second
              BY <3>1, <4>1
            <7> QED BY <4>3, <7>1, <7>2
          <6> QED BY <6>1, <6>2
        <5>3. CASE n # j /\ n # j + 1
          <6>1. n \in 1..Len(file') \ {j + 1} /\ file'[n] = file[n]
            BY <3>2, <4>1, <5>3
          <6> QED BY <4>3, <6>1
        <5> QED BY <5>1, <5>2, <5>3
      <4>6. /\ Kept \subseteq Kept' \cup {record.second}
            /\ outcome = "full" => Kept \subseteq Kept'
        BY <4>2, <4>5 DEF InFile
      <4>7. CASE outcome = "full"
        BY <1>1, <1>6, <4>6, <4>7, KeptSame DEF SortInv, Typed
      <4>8. CASE outcome # "full"
        BY <1>1, <1>6, <4>6, <4>8, KeptButOne DEF SortInv
      <4> QED BY <4>7, <4>8
    <3>4. CASE pc = "write_second"
      <4>1. /\ w.pos + 1 = j + 1 /\ w.rec = record.first /\ pc' # "write_second"
        BY <1>1, <1>4, <2>2, <3>4
      <4>2. Kept = {file[n] : n \in 1..Len(file) \ {j + 1}} \cup {record.first}
        BY <1>2, <3>4 DEF Kept
      <4>3. Kept' = InFile(file')
        BY <1>2, <4>1 DEF Kept, InFile
      <4>4. \A n \in 1..Len(file) \ {j + 1} : file[n] \in Kept'
        BY <3>2, <4>1, <4>3 DEF InFile
      <4>5. outcome = "full" => record.first \in Kept'
        BY <3>1, <3>2, <4>1, <4>3 DEF InFile
      <4>6. /\ Kept \subseteq Kept' \cup {record.first}
            /\ outcome = "full" => Kept \subseteq Kept'
        BY <4>2, <4>4, <4>5
      <4>7. CASE outcome = "full"
        BY <1>1, <1>6, <4>6, <4>7, KeptSame DEF SortInv, Typed
      <4>8. CASE outcome # "full"
        BY <1>1, <1>6, <4>6, <4>8, KeptButOne DEF SortInv
      <4> QED BY <4>7, <4>8
    <3> QED BY <1>1, <3>3, <3>4
  <2> QED BY <2>1, <2>2
<1>8. ASSUME NothingFailed' PROVE InsertInv'
  <2>1. outcome = "full" /\ NothingFailed
    BY <1>1, <1>6, <1>8 DEF NothingFailed
  <2>2. Unfailed /\ Single(file', file, w.pos, w.rec)
    BY <1>1, <1>3, <1>4, <1>6, <2>1 DEF Unfailed
  <2>3. Len(file') = Len(file)
    <3>1. Len(file) = Len(original) /\ num_of_records <= Len(file)
      BY <2>1 DEF SortInv, InsertInv, NothingFailed
    <3>2. w.pos < Len(file)
      BY <1>1, <3>1, Constants
    <3> QED BY <2>2, <3>2 DEF Single
  <2>4. CASE pc = "write_first"
    <3>1. w.pos = j - 1 /\ w.rec = record.second /\ pc' = "write_second" /\ UNCHANGED <<i, j>>
      BY <1>1, <1>4, <2>1, <2>4
    <3> QED BY <1>2, <2>1, <2>2, <2>3, <2>4, <3>1, FirstWriteInserts
  <2>5. CASE pc = "write_second"
    <3>1. w.pos = j /\ w.rec = record.first /\ NextPair
      BY <1>1, <1>4, <2>1, <2>5
    <3> QED BY <1>2, <2>1, <2>2, <2>3, <2>5, <3>1, SecondWriteInserts
  <2> QED BY <1>1, <2>4, <2>5
<1>9. InsertInv'
  BY <1>8 DEF InsertInv
<1> QED BY <1>5, <1>7, <1>9 DEF SortInv

(* A write to the stream, which flushes what was written before. *)
LEMMA LibWritePreserves ==
  ASSUME Typed, CallInv, SortInv, Typed', WriteRecord, lib,
         file' = Flushed,
         unflushed' = [pos |-> swap_write.pos, recs |-> <<swap_write.rec>>],
         Proceed, UNCHANGED <<faults, result>>
  PROVE  SortInv'
<1> DEFINE w == swap_write
<1>1. /\ pc \in {"write_first", "write_second"} /\ args.command = "sort"
      /\ UNCHANGED <<args, original, record, code>>
      /\ i \in 1..num_of_records-1 /\ j \in 1..i /\ j \in Nat \ {0}
      /\ w \in [pos : Nat, rec : Records]
      /\ pc = "write_first" => w = [pos |-> j - 1, rec |-> record.second]
      /\ pc = "write_second" => w = [pos |-> j, rec |-> record.first]
      /\ unflushed'.pos = w.pos /\ unflushed'.recs = <<w.rec>> /\ code' = -1
      /\ file \in Seq(Records) /\ Len(file) \in Nat
  BY SwapWriteTyped DEF WriteRecord, CallInv, Sorting, Typed
<1>2. /\ Flushed \in Seq(Records) /\ Len(Flushed) = Len(file) /\ Len(file') = Len(file)
      /\ Single(Flushed', Flushed, w.pos, w.rec)
  <2>1. Flushed \in Seq(Records) /\ Len(Flushed) = Len(file)
    BY <1>1, FlushedBlock, FlushedLength DEF SortInv
  <2>2. Flushed' = Overwritten(Flushed, w.pos, <<w.rec>>)
    BY <1>1 DEF Flushed
  <2> HIDE DEF w
  <2>3. Single(Overwritten(Flushed, w.pos, <<w.rec>>), Flushed, w.pos, w.rec)
    BY <1>1, <2>1, SingleRecord
  <2> QED BY <2>1, <2>2, <2>3
<1>3. /\ pc = "write_first" => /\ pc' = "write_second" /\ UNCHANGED <<i, j>>
                               /\ unflushed = Empty /\ Flushed = file
                               /\ file[j] = record.first /\ file[j + 1] = record.second
      /\ pc = "write_second" => NextPair /\ pc' \in {"first", "close"}
      /\ j + 1 <= Len(file)
  BY <1>1, FlushedEmpty DEF Proceed, NextPair, SortInv, SwapInv
<1>4. w.pos < Len(file') /\ Len(unflushed'.recs) = 1
  BY <1>1, <1>2, <1>3
<1>5. SwapInv'
  <2>1. CASE pc = "write_first"
    BY <1>1, <1>2, <1>3, <1>4, <2>1 DEF SwapInv
  <2>2. CASE pc = "write_second"
    <3>1. unflushed'.pos < Len(file')
      BY <1>1, <1>4
    <3> QED BY <1>1, <1>3, <1>4, <2>2, <3>1, NextPairPlaces DEF SortInv
  <2> QED BY <1>1, <2>1, <2>2
<1> HIDE DEF w
<1>6. /\ \A n \in 1..Len(Flushed) : n # w.pos + 1 =>
           n \in 1..Len(Flushed') /\ Flushed'[n] = Flushed[n]
      /\ w.pos + 1 \in 1..Len(Flushed') /\ Flushed'[w.pos + 1] = w.rec
  BY <1>1, <1>2, SingleKeeps
<1>7. Kept \subseteq Kept'
  <2>1. CASE pc = "write_first"
    <3>1. /\ Kept = InFile(file) /\ w.pos + 1 = j /\ w.rec = record.second
          /\ Kept' = {Flushed'[n] : n \in 1..Len(Flushed') \ {j + 1}} \cup {record.first}
      BY <1>1, <1>3, <2>1 DEF Kept
    <3>2. ASSUME NEW n \in 1..Len(file) PROVE file[n] \in Kept'
      <4>1. CASE n = j
        BY <1>3, <2>1, <3>1, <4>1
      <4>2. CASE n = j + 1
        <5>1. j \in 1..Len(Flushed') \ {j + 1} /\ Flushed'[j] = file[n]
          BY <1>1, <1>3, <1>6, <2>1, <3>1, <4>2
        <5> QED BY <3>1, <5>1
      <4>3. CASE n # j /\ n # j + 1
        <5>1. n \in 1..Len(Flushed') \ {j + 1} /\ Flushed'[n] = file[n]
          BY <1>3, <1>6, <2>1, <3>1, <4>3
        <5> QED BY <3>1, <5>1
      <4> QED BY <4>1, <4>2, <4>3
    <3> QED BY <3>1, <3>2 DEF InFile
  <2>2. CASE pc = "write_second"
    <3>1. /\ Kept = {Flushed[n] : n \in 1..Len(Flushed) \ {j + 1}} \cup {record.first}
          /\ Kept' = InFile(Flushed') /\ w.pos + 1 = j + 1 /\ w.rec = record.first
      BY <1>1, <1>3, <2>2 DEF Kept, InFile
    <3>2. \A n \in 1..Len(Flushed) \ {j + 1} : Flushed[n] \in Kept'
      BY <1>6, <3>1 DEF InFile
    <3>3. record.first \in Kept'
      BY <1>6, <3>1 DEF InFile
    <3> QED BY <3>1, <3>2, <3>3
  <2> QED BY <1>1, <2>1, <2>2
<1>8. KeptInv'
  BY <1>1, <1>7, KeptSame DEF SortInv, Typed
<1>9. ASSUME NothingFailed' PROVE InsertInv'
  <2>1. NothingFailed /\ Unfailed
    BY <1>1, <1>9 DEF NothingFailed, Unfailed
  <2>2. CASE pc = "write_first"
    <3>1. w.pos = j - 1 /\ w.rec = record.second
      BY <1>1, <2>2
    <3> QED BY <1>2, <1>3, <2>1, <2>2, <3>1, FirstWriteInserts
  <2>3. CASE pc = "write_second"
    <3>1. w.pos = j /\ w.rec = record.first
      BY <1>1, <2>3
    <3> QED BY <1>2, <1>3, <2>1, <2>3, <3>1, SecondWriteInserts
  <2> QED BY <1>1, <2>2, <2>3
<1>10. InsertInv'
  BY <1>9 DEF InsertInv
<1> QED BY <1>5, <1>8, <1>10 DEF SortInv

LEMMA WriteRecordPreserves ==
  ASSUME Typed, CallInv, SortInv, Typed', WriteRecord
  PROVE  SortInv'
<1>1. args.command = "sort" /\ UNCHANGED <<args, original, record, code>>
  BY DEF WriteRecord, CallInv, Sorting
<1>2. CASE lib /\ FlushFails /\ Fail /\ UNCHANGED <<i, j>>
  BY <1>1, <1>2, FlushFailsSort DEF Fail
<1>3. CASE /\ lib /\ file' = Flushed
           /\ unflushed' = [pos |-> swap_write.pos, recs |-> <<swap_write.rec>>]
           /\ Proceed /\ UNCHANGED <<faults, result>>
  BY <1>3, LibWritePreserves
<1>4. ASSUME sys, NEW outcome \in Outcomes, Count(outcome),
             file' = Written(file, swap_write, outcome), UNCHANGED unflushed,
             IF sort_failed(outcome) THEN Fail /\ UNCHANGED <<i, j>>
                                     ELSE Proceed /\ UNCHANGED result
      PROVE  SortInv'
  BY <1>4, SysWritePreserves
<1> QED BY <1>2, <1>3, <1>4 DEF WriteRecord

LEMMA SortPreserved ==
  ASSUME Typed, CallInv, SortInv, Typed', [Next]_vars
  PROVE  SortInv'
<1>1. args' = args
  BY DEF Next, vars, loops, Main, Close, OpenFails, OpenNew, generate, OpenSort, ReadRecord,
     Compare, WriteRecord, OpenCopy, ReadNothing, CopyRecord, Finish
<1>2. CASE args.command # "sort"
  BY <1>1, <1>2 DEF SortInv, SwapInv, KeptInv, InsertInv, NothingFailed
<1>3. CASE args.command = "sort" /\ UNCHANGED vars
  <2>1. /\ Flushed' = Flushed
        /\ UNCHANGED <<args, original, file, unflushed, i, j, record, pc, result, faults, code>>
    BY <1>3, SameBuffer DEF vars, loops
  <2>2. SwapInv'
    BY <2>1 DEF SortInv, SwapInv, lib, out_of_order
  <2>3. KeptInv'
    <3>1. Kept' = Kept
      BY <2>1 DEF Kept, InFile
    <3> QED BY <1>3, <2>1, <3>1, KeptSame DEF SortInv, Typed
  <2>4. InsertInv'
    <3>1. View' = View /\ moved' = moved
      BY <2>1 DEF View, moved
    <3> QED BY <2>1, <3>1 DEF SortInv, InsertInv, NothingFailed, Sorting, Moving, Distinct,
            RestFrom, AreFirst, OrderedBut, Ordered, Preceded
  <2> QED BY <2>2, <2>3, <2>4 DEF SortInv
<1>4. CASE args.command = "sort" /\ Next
  <2>1. ~OpenNew /\ ~generate /\ ~OpenCopy /\ ~ReadNothing /\ ~CopyRecord /\ ~Finish
    BY <1>4 DEF OpenNew, generate, OpenCopy, ReadNothing, CopyRecord, Finish, CallInv
  <2> QED BY <1>4, <2>1, OpenedSort, CloseSort, OpenSortPreserves, ReadRecordPreserves,
          ComparePreserves, WriteRecordPreserves DEF Next
<1> QED BY <1>2, <1>3, <1>4

-------------------------------------------------------------------------------
(* Copying. *)

(* Writing what follows at pos leaves a prefix that is whole up to there. *)
LEMMA BlockPrefix ==
  ASSUME Typed, NEW pos \in Nat, NEW s \in Seq(Records), NEW g,
         Prefix(file, pos), pos <= Len(file), Len(file) <= Len(original),
         pos + Len(s) <= Len(original),
         \A k \in 1..Len(s) : s[k] = original[pos + k],
         Block(g, file, pos, s)
  PROVE  /\ g \in Seq(Records) /\ Prefix(g, pos)
         /\ Len(g) \in {Len(file), pos + Len(s)} /\ Len(g) >= pos + Len(s)
         /\ Len(g) >= Len(file) /\ Len(g) <= Len(original)
         /\ \A n \in 1..pos+Len(s) : g[n] = original[n]
<1>1. /\ Len(file) \in Nat /\ Len(s) \in Nat /\ Len(original) \in Nat
      /\ g \in Seq(Records)
      /\ Len(s) = 0 \/ pos + Len(s) < Len(file) => Len(g) = Len(file)
      /\ Len(s) # 0 /\ pos + Len(s) >= Len(file) => Len(g) = pos + Len(s)
  BY DEF Block, Typed
<1>2. /\ Len(g) \in {Len(file), pos + Len(s)} /\ Len(g) >= pos + Len(s)
      /\ Len(g) >= Len(file) /\ Len(g) <= Len(original)
  BY <1>1
<1>3. ASSUME NEW n \in 1..pos+Len(s) PROVE g[n] = original[n]
  <2>1. CASE n <= pos
    <3>1. n \in 1..Len(file) /\ ~(n > pos)
      BY <1>1, <2>1
    <3>2. g[n] = file[n]
      BY <2>1, <3>1 DEF Block
    <3>3. file[n] = original[n]
      BY <3>1 DEF Prefix
    <3> QED BY <3>2, <3>3
  <2>2. CASE n > pos
    <3>1. n - pos \in 1..Len(s) /\ pos + (n - pos) = n
      BY <1>1, <2>2
    <3>2. g[pos + (n - pos)] = s[n - pos] /\ s[n - pos] = original[pos + (n - pos)]
      BY <3>1 DEF Block
    <3> QED BY <3>1, <3>2
  <2> QED BY <1>1, <2>1, <2>2
<1>4. Prefix(g, pos)
  <2> SUFFICES ASSUME NEW n \in 1..Len(g), n > pos + Len(s)
               PROVE  g[n] = original[n] \/ (/\ n = Len(g) /\ n > pos
                                             /\ g[n] = [key |-> original[n].key, body |-> 0])
    BY <1>1, <1>2, <1>3 DEF Prefix
  <2>1. n \in 1..Len(file) /\ Len(g) = Len(file)
    BY <1>1, <1>2
  <2>2. g[n] = file[n]
    BY <2>1 DEF Block
  <2> QED BY <2>1, <2>2 DEF Prefix
<1> QED BY <1>1, <1>2, <1>3, <1>4

(* The flush of a copy. *)
LEMMA FlushedCopy ==
  ASSUME Typed, Copied
  PROVE  /\ Prefix(Flushed, unflushed.pos) /\ Len(Flushed) <= Len(original)
         /\ Len(unflushed.recs) = 0 => Flushed = file
         /\ Len(unflushed.recs) # 0 =>
              /\ Whole(Flushed) /\ Len(Flushed) = unflushed.pos + Len(unflushed.recs)
<1> DEFINE pos == unflushed.pos  recs == unflushed.recs
<1>1. /\ pos \in Nat /\ recs \in Seq(Records) /\ pos <= Len(file) /\ Prefix(file, pos)
      /\ Len(file) <= Len(original) /\ Len(file) \in Nat /\ Len(recs) \in Nat
      /\ \A k \in 1..Len(recs) : recs[k] = original[pos + k]
      /\ Len(recs) = 0 => pos = 0
      /\ Len(recs) # 0 => Len(file) <= pos + Len(recs) /\ pos + Len(recs) <= Len(original)
      /\ Len(original) \in Nat
  BY DEF Copied, Typed
<1>2. pos + Len(recs) <= Len(original)
  BY <1>1
<1>3. Block(Flushed, file, pos, recs)
  BY FlushedBlock
<1> HIDE DEF pos, recs
<1>4. /\ Prefix(Flushed, pos) /\ Len(Flushed) <= Len(original)
      /\ \A n \in 1..pos+Len(recs) : Flushed[n] = original[n]
  BY <1>1, <1>2, <1>3, BlockPrefix
<1>5. Len(recs) # 0 => Len(Flushed) = pos + Len(recs)
  BY <1>1, <1>3 DEF Block
<1>6. Len(recs) = 0 => Flushed = file
  BY NothingOverwritten, <1>1 DEF Flushed, Typed, pos, recs
<1>7. Len(recs) # 0 => Whole(Flushed)
  BY <1>4, <1>5 DEF Whole
<1> QED BY <1>4, <1>5, <1>6, <1>7 DEF pos, recs

(* A prefix into which a record that is cut short is written. *)
LEMMA CutPrefix ==
  ASSUME Typed, NEW g \in Seq(Records), NEW pos \in Nat, NEW p \in Nat,
         pos <= p, p <= Len(g), p < Len(original), Len(g) <= Len(original),
         Prefix(g, pos), \A m \in 1..p : g[m] = original[m],
         NEW w, w.pos = p, w.rec = original[p + 1],
         NEW h, Single(h, g, p, Cut(g, w))
  PROVE  /\ Prefix(h, pos) /\ Len(h) \in {Len(g), p + 1}
         /\ Len(h) >= Len(g) /\ Len(h) >= p + 1
<1> DEFINE k == p + 1
           r == original[k]
           c == [key |-> r.key, body |-> 0]
<1>1. /\ k \in Nat /\ Len(g) \in Nat /\ Len(original) \in Nat /\ k \in 1..Len(original)
      /\ r \in Records
  BY DEF Typed
<1>2. Cut(g, w) = [r EXCEPT !.body = IF p < Len(g) THEN g[k].body ELSE 0]
  BY DEF Cut
<1>3. /\ \A b : [r EXCEPT !.body = b] = [key |-> r.key, body |-> b]
      /\ [key |-> r.key, body |-> r.body] = r
  BY <1>1 DEF Records
<1> HIDE DEF r
<1>4. /\ p < Len(g) => Len(h) = Len(g)
      /\ p >= Len(g) => Len(h) = k
      /\ \A m \in 1..Len(g) : m # k => h[m] = g[m]
      /\ h[k] = Cut(g, w)
  BY DEF Single
<1>5. CASE p = Len(g)
  <2>1. h[k] = c /\ Len(h) = k
    BY <1>1, <1>2, <1>3, <1>4, <1>5
  <2>2. ASSUME NEW m \in 1..Len(h), m # k PROVE h[m] = original[m]
    <3>1. m \in 1..Len(g) /\ m \in 1..p
      BY <1>1, <1>5, <2>1, <2>2
    <3> QED BY <1>4, <2>2, <3>1
  <2>3. Prefix(h, pos)
    BY <1>1, <2>1, <2>2 DEF Prefix, r
  <2> QED BY <1>1, <1>5, <2>1, <2>3
<1>6. CASE p < Len(g)
  <2>1. Len(h) = Len(g) /\ k \in 1..Len(g) /\ k > pos
    BY <1>1, <1>4, <1>6
  <2>2. h[k] = [key |-> r.key, body |-> g[k].body]
    BY <1>2, <1>3, <1>4, <1>6
  <2>3. g[k] = r \/ (k = Len(g) /\ g[k] = c)
    BY <2>1 DEF Prefix, r
  <2>4. h[k] = r \/ (k = Len(h) /\ h[k] = c)
    BY <1>3, <2>1, <2>2, <2>3
  <2>5. ASSUME NEW m \in 1..Len(h), m # k
        PROVE  h[m] = original[m] \/ (/\ m = Len(h) /\ m > pos
                                      /\ h[m] = [key |-> original[m].key, body |-> 0])
    <3>1. m \in 1..Len(g) /\ h[m] = g[m]
      BY <1>4, <2>1, <2>5
    <3> QED BY <2>1, <3>1 DEF Prefix
  <2>6. Prefix(h, pos)
    BY <2>1, <2>4, <2>5 DEF Prefix, r
  <2> QED BY <1>1, <1>6, <2>1, <2>6
<1> QED BY <1>1, <1>5, <1>6

(* A flush that fails in the middle. *)
LEMMA FlushFailsPrefix ==
  ASSUME Typed, Copied, FlushFails
  PROVE  /\ Prefix(file', unflushed.pos) /\ unflushed.pos <= Len(file')
         /\ Len(file') <= unflushed.pos + Len(unflushed.recs)
         /\ unflushed.pos + Len(unflushed.recs) <= Len(original)
<1> DEFINE pos == unflushed.pos  recs == unflushed.recs
<1>1. /\ pos \in Nat /\ recs \in Seq(Records) /\ pos <= Len(file) /\ Prefix(file, pos)
      /\ Len(file) <= Len(original) /\ Len(file) \in Nat /\ Len(recs) \in Nat \ {0}
      /\ \A m \in 1..Len(recs) : recs[m] = original[pos + m]
      /\ Len(file) <= pos + Len(recs) /\ pos + Len(recs) <= Len(original)
      /\ Len(original) \in Nat
  BY FlushFailsTyped DEF Copied, Typed
<1>2. PICK n \in 0..Len(recs)-1, outcome \in {"short", "error"} :
        file' = FlushedTo(n, outcome)
  BY DEF FlushFails
<1> DEFINE s == SubSeq(recs, 1, n)  w == [pos |-> pos + n, rec |-> recs[n + 1]]
<1>3. PICK g \in Seq(Records) :
        /\ Block(g, file, pos, s)
        /\ FlushedTo(n, outcome) = g \/ Single(FlushedTo(n, outcome), g, w.pos, Cut(g, w))
  <2>1. \E g \in Seq(Records) :
          /\ Block(g, file, unflushed.pos, SubSeq(unflushed.recs, 1, n))
          /\ \/ FlushedTo(n, outcome) = g
             \/ Single(FlushedTo(n, outcome), g, w.pos, Cut(g, w))
    BY FlushedToCases
  <2> QED BY <2>1
<1>4. n \in Nat /\ n < Len(recs) /\ pos + (n + 1) = (pos + n) + 1 /\ n + 1 \in 1..Len(recs)
  <2>1. pos \in Nat /\ Len(recs) \in Nat
    BY <1>1
  <2> HIDE DEF pos, recs
  <2> QED BY <1>2, <2>1
<1>5. /\ s \in Seq(Records) /\ Len(s) = n
      /\ \A m \in 1..n : s[m] = recs[m]
  BY <1>1, <1>4
<1>6. w.pos = pos + n /\ w.rec = recs[n + 1]
  OBVIOUS
<1> HIDE DEF pos, recs, s, w
<1>7. \A m \in 1..Len(s) : s[m] = original[pos + m]
  BY <1>1, <1>4, <1>5
<1>8. recs[n + 1] = original[pos + (n + 1)]
  BY <1>1, <1>4
<1>9. /\ Prefix(g, pos) /\ Len(g) \in {Len(file), pos + n} /\ Len(g) >= pos + n
      /\ Len(g) <= Len(original)
      /\ \A m \in 1..pos+n : g[m] = original[m]
  <2>1. pos + Len(s) <= Len(original)
    BY <1>1, <1>4, <1>5
  <2>2. /\ Prefix(g, pos) /\ Len(g) \in {Len(file), pos + Len(s)}
        /\ Len(g) >= pos + Len(s) /\ Len(g) <= Len(original)
        /\ \A m \in 1..pos+Len(s) : g[m] = original[m]
    <3>1. /\ Block(g, file, pos, s) /\ pos \in Nat /\ s \in Seq(Records)
          /\ Prefix(file, pos) /\ pos <= Len(file) /\ Len(file) <= Len(original)
      BY <1>1, <1>3, <1>5
    <3> QED BY <1>7, <2>1, <3>1, BlockPrefix
  <2> QED BY <1>5, <2>2
<1>10. /\ Len(g) \in Nat /\ Len(g) <= pos + Len(recs) /\ pos <= Len(g)
       /\ pos <= pos + n /\ pos + n < Len(original) /\ pos + n \in Nat
  BY <1>1, <1>4, <1>9
<1>11. CASE FlushedTo(n, outcome) = g
  BY <1>1, <1>2, <1>9, <1>10, <1>11 DEF pos, recs
<1>12. CASE Single(FlushedTo(n, outcome), g, w.pos, Cut(g, w))
  <2>1. w.rec = original[(pos + n) + 1] /\ Single(file', g, pos + n, Cut(g, w))
    BY <1>2, <1>4, <1>6, <1>8, <1>12
  <2>2. /\ Prefix(file', pos) /\ Len(file') \in {Len(g), pos + n + 1}
        /\ Len(file') >= Len(g)
    BY <1>1, <1>6, <1>9, <1>10, <2>1, CutPrefix
  <2>3. pos <= Len(file') /\ Len(file') <= pos + Len(recs)
    BY <1>1, <1>4, <1>10, <2>2
  <2> QED BY <1>1, <2>2, <2>3 DEF pos, recs
<1> QED BY <1>3, <1>11, <1>12

LEMMA FlushFailsCopied ==
  ASSUME Typed, CallInv, Copied, FlushFails, Typed', UNCHANGED <<args, original>>,
         pc' \in {"close", "ended"}
  PROVE  Copied'
<1>1. /\ Prefix(file', unflushed.pos) /\ unflushed.pos <= Len(file')
      /\ Len(file') <= unflushed.pos + Len(unflushed.recs)
      /\ unflushed.pos + Len(unflushed.recs) <= Len(original)
  BY FlushFailsPrefix
<1>2. /\ unflushed' = Empty \/ unflushed' = unflushed
      /\ Len(unflushed.recs) \in Nat \ {0} /\ faults' > 0 /\ lib'
      /\ unflushed.pos \in Nat /\ Len(file') \in Nat /\ Len(original) \in Nat
      /\ \A k \in 1..Len(unflushed.recs) :
           unflushed.recs[k] = original[unflushed.pos + k]
  <2>1. unflushed' \in {Empty, unflushed} /\ unflushed # Empty
    BY FlushFailsTyped
  <2>2. Len(unflushed.recs) \in Nat \ {0} /\ faults' = faults + 1
    BY FlushFailsTyped
  <2>3. lib'
    BY <2>1 DEF CallInv, Typed, Given, lib, sys
  <2> QED BY <2>1, <2>2, <2>3 DEF Typed, Copied
<1>3. Len(file') <= Len(original)
  BY <1>1, <1>2
<1>4. CASE unflushed' = unflushed
  <2>1. Prefix(file, unflushed.pos)'
    BY <1>1, <1>4 DEF Prefix
  <2> QED BY <1>1, <1>2, <1>3, <1>4, <2>1 DEF Copied
<1>5. CASE unflushed' = Empty
  <2>1. unflushed'.pos = 0 /\ Len(unflushed'.recs) = 0
    BY <1>5 DEF Empty
  <2>2. Prefix(file, unflushed.pos)'
    BY <1>1, <1>2, <2>1 DEF Prefix
  <2> QED BY <1>1, <1>2, <1>3, <2>1, <2>2 DEF Copied
<1> QED BY <1>2, <1>4, <1>5

(* What the invariant says while the copy goes on. *)
LEMMA CopyGoesOn ==
  ASSUME Typed, CallInv, Copied, pc = "copy"
  PROVE  /\ Whole(file) /\ j = Len(file) + Len(unflushed.recs)
         /\ code = -1
         /\ Len(file) \in Nat /\ Len(unflushed.recs) \in Nat /\ Len(original) \in Nat
         /\ \A k \in 1..Len(unflushed.recs) : unflushed.recs[k] = original[Len(file) + k]
         /\ i <= num_of_records /\ (faults = 0 => i = j \/ j = Len(original))
         /\ Len(file) <= Len(original) /\ j <= Len(original)
         /\ Len(unflushed.recs) # 0 => unflushed.pos = Len(file)
         /\ Flushed \in Seq(Records) /\ Whole(Flushed)
         /\ Len(Flushed) = Len(file) + Len(unflushed.recs)
<1>1. /\ Whole(file) /\ j = Len(file) + Len(unflushed.recs)
      /\ code = -1
      /\ Len(file) \in Nat /\ Len(unflushed.recs) \in Nat /\ Len(original) \in Nat
      /\ i <= num_of_records /\ (faults = 0 => i = j \/ j = Len(original))
      /\ Len(file) <= Len(original)
      /\ Len(unflushed.recs) # 0 =>
           unflushed.pos = Len(file) /\ unflushed.pos + Len(unflushed.recs) <= Len(original)
  BY DEF Copied, Typed, CallInv
<1>2. ASSUME NEW k \in 1..Len(unflushed.recs)
      PROVE  unflushed.recs[k] = original[Len(file) + k]
  <2>1. unflushed.recs[k] = original[unflushed.pos + k]
    BY DEF Copied
  <2>2. unflushed.pos = Len(file)
    BY <1>1
  <2> QED BY <2>1, <2>2
<1>3. j <= Len(original)
  BY <1>1
<1>4. Flushed \in Seq(Records)
  BY FlushedBlock
<1>5. Whole(Flushed) /\ Len(Flushed) = Len(file) + Len(unflushed.recs)
  BY <1>1, FlushedCopy
<1> QED BY <1>1, <1>2, <1>3, <1>4, <1>5

LEMMA SysCopyPreserves ==
  ASSUME Typed, CallInv, Copied, Typed', pc = "copy", sys, i < num_of_records,
         j < Len(original), i' = i + 1, j' = j + 1, UNCHANGED <<args, original, code, unflushed>>,
         NEW w, w = [pos |-> Len(file) + Len(unflushed.recs), rec |-> original[j + 1]],
         NEW outcome \in Outcomes, Count(outcome), file' = Written(file, w, outcome),
         IF copy_failed(outcome) THEN Fail ELSE UNCHANGED <<pc, result>>
  PROVE  Copied'
<1>1. unflushed = Empty /\ Len(unflushed.recs) = 0 /\ unflushed.pos = 0
  <2>1. unflushed = Empty
    BY DEF CallInv
  <2> QED BY <2>1 DEF Empty
<1>2. /\ Whole(file) /\ j = Len(file) /\ code = -1 /\ file \in Seq(Records)
      /\ Len(file) \in Nat /\ Len(original) \in Nat /\ num_of_records \in Nat
      /\ i \in Nat /\ faults \in Nat
      /\ faults = 0 => i = j
  BY <1>1, CopyGoesOn, Constants DEF Typed
<1>3. w.pos = Len(file) /\ w.rec = original[Len(file) + 1] /\ w \in [pos : Nat, rec : Records]
  BY <1>1, <1>2 DEF Typed
<1>4. /\ outcome = "full" => Single(file', file, w.pos, w.rec)
      /\ outcome = "short" => Single(file', file, w.pos, Cut(file, w))
      /\ outcome = "error" => file' = file
  BY <1>2, <1>3, WrittenCases
<1>5. /\ unflushed'.pos = 0 /\ Len(unflushed'.recs) = 0
      /\ faults' \in Nat
      /\ outcome = "full" => faults' = faults /\ pc' = "copy" /\ result' = result
      /\ outcome # "full" => faults' = faults + 1 /\ pc' = "close" /\ result' = -1
  BY <1>1, CountIs DEF copy_failed, Fail
<1>6. CASE outcome = "full"
  <2>0. Single(file', file, Len(file), original[Len(file) + 1])
    BY <1>3, <1>4, <1>6
  <2>1. /\ Len(file') = Len(file) + 1 /\ file'[Len(file) + 1] = original[Len(file) + 1]
        /\ \A n \in 1..Len(file) : file'[n] = file[n]
    BY <1>2, <2>0 DEF Single
  <2>2. ASSUME NEW n \in 1..Len(file') PROVE file'[n] = original[n]
    BY <1>2, <2>1, <2>2 DEF Whole
  <2>3. Whole(file)' /\ Prefix(file, unflushed.pos)'
    BY <2>2 DEF Whole, Prefix
  <2> QED BY <1>2, <1>5, <1>6, <2>1, <2>3 DEF Copied
<1>7. CASE outcome = "short"
  <2>1. /\ Prefix(file, 0) /\ \A m \in 1..Len(file) : file[m] = original[m]
    BY <1>2 DEF Whole, Prefix
  <2>2. Single(file', file, Len(file), Cut(file, w))
    BY <1>3, <1>4, <1>7
  <2>3. Prefix(file', 0) /\ Len(file') \in {Len(file), Len(file) + 1} /\ Len(file') >= Len(file) + 1
    BY <1>2, <1>3, <2>1, <2>2, CutPrefix
  <2>4. Prefix(file, unflushed.pos)'
    BY <1>5, <2>3 DEF Prefix
  <2>5. Len(file') <= Len(original)
    BY <1>2, <2>3
  <2> QED BY <1>2, <1>5, <1>7, <2>3, <2>4, <2>5 DEF Copied
<1>8. CASE outcome = "error"
  <2>1. Whole(file)' /\ Prefix(file, unflushed.pos)'
    BY <1>2, <1>4, <1>8 DEF Whole, Prefix
  <2> QED BY <1>2, <1>4, <1>5, <1>8, <2>1 DEF Copied
<1> QED BY <1>6, <1>7, <1>8 DEF Outcomes

LEMMA LibCopyPreserves ==
  ASSUME Typed, CallInv, Copied, Typed', pc = "copy", lib, i < num_of_records,
         j < Len(original), i' = i + 1, j' = j + 1,
         UNCHANGED <<args, original, code, pc, result, faults>>,
         \/ /\ unflushed' = [pos |-> Len(file), recs |-> Append(unflushed.recs, original[j + 1])]
            /\ UNCHANGED file
         \/ /\ unflushed' = [pos |-> Len(file) + Len(unflushed.recs),
                             recs |-> <<original[j + 1]>>]
            /\ file' = Flushed
  PROVE  Copied'
<1> DEFINE recs == unflushed.recs  r == original[j + 1]
<1>1. /\ Whole(file) /\ j = Len(file) + Len(recs)
      /\ Len(file) \in Nat /\ Len(recs) \in Nat /\ Len(original) \in Nat
      /\ \A k \in 1..Len(recs) : recs[k] = original[Len(file) + k]
      /\ faults = 0 => i = j
      /\ Len(file) <= Len(original)
      /\ Flushed \in Seq(Records) /\ Whole(Flushed) /\ Len(Flushed) = Len(file) + Len(recs)
      /\ recs \in Seq(Records) /\ r \in Records /\ i \in Nat /\ num_of_records \in Nat
  BY CopyGoesOn, Constants DEF Typed
<1> HIDE DEF recs
<1>2. CASE unflushed' = [pos |-> Len(file), recs |-> Append(recs, r)] /\ UNCHANGED file
  <2>1. unflushed'.pos = Len(file) /\ unflushed'.recs = Append(recs, r)
    BY <1>2
  <2>2. /\ Len(unflushed'.recs) = Len(recs) + 1 /\ unflushed'.recs[Len(recs) + 1] = r
        /\ \A k \in 1..Len(recs) : unflushed'.recs[k] = recs[k]
    <3> HIDE DEF r
    <3> QED BY <1>1, <2>1
  <2>3. ASSUME NEW k \in 1..Len(unflushed'.recs)
        PROVE  unflushed'.recs[k] = original[Len(file) + k]
    <3>1. CASE k = Len(recs) + 1
      BY <1>1, <2>2, <3>1
    <3>2. CASE k # Len(recs) + 1
      BY <1>1, <2>2, <3>2
    <3> QED BY <3>1, <3>2
  <2>4. Whole(file)' /\ Prefix(file, unflushed.pos)'
    BY <1>1, <1>2 DEF Whole, Prefix
  <2>5. /\ Len(file') <= Len(original) /\ unflushed'.pos = Len(file')
        /\ Len(unflushed'.recs) # 0
        /\ Len(file') <= unflushed'.pos + Len(unflushed'.recs)
        /\ unflushed'.pos + Len(unflushed'.recs) <= Len(original)
        /\ j' = Len(file') + Len(unflushed'.recs)
        /\ i' <= num_of_records /\ (faults' = 0 => i' = j')
        /\ pc' = "copy" /\ original' = original
    <3>1. file' = file /\ original' = original
      BY <1>2
    <3> HIDE DEF r
    <3> QED BY <1>1, <2>1, <2>2, <3>1
  <2>6. \A k \in 1..Len(unflushed'.recs) :
          unflushed'.recs[k] = original[unflushed'.pos + k]
    BY <2>1, <2>3
  <2> QED BY <2>4, <2>5, <2>6 DEF Copied
<1>3. CASE /\ unflushed' = [pos |-> Len(file) + Len(recs), recs |-> <<r>>]
           /\ file' = Flushed
  <2>1. unflushed'.pos = Len(file) + Len(recs) /\ Len(unflushed'.recs) = 1
        /\ unflushed'.recs[1] = r
    BY <1>3
  <2>2. Len(file') = Len(file) + Len(recs)
    BY <1>1, <1>3
  <2>3. ASSUME NEW k \in 1..Len(unflushed'.recs)
        PROVE  unflushed'.recs[k] = original[unflushed'.pos + k]
    BY <1>1, <2>1
  <2>4. Whole(file)' /\ Prefix(file, unflushed.pos)'
    BY <1>1, <1>3 DEF Whole, Prefix
  <2> QED BY <1>1, <2>1, <2>2, <2>3, <2>4 DEF Copied
<1> QED BY <1>2, <1>3 DEF recs

LEMMA CopyRecordPreserves ==
  ASSUME Typed, CallInv, Copied, Typed', CopyRecord
  PROVE  pc' \in {"copy", "close"} /\ Copied'
<1> DEFINE w == [pos |-> Len(file) + Len(unflushed.recs), rec |-> original[j + 1]]
<1>1. /\ pc = "copy" /\ i < num_of_records /\ j < Len(original)
      /\ i' = i + 1 /\ j' = j + 1 /\ UNCHANGED <<args, original, record, code>>
      /\ pc' \in {"copy", "close"}
  BY DEF CopyRecord, Fail
<1>2. CASE lib /\ FlushFails /\ Fail
  BY <1>1, <1>2, FlushFailsCopied DEF Fail
<1>3. ASSUME sys, UNCHANGED unflushed, NEW outcome \in Outcomes, Count(outcome),
             file' = Written(file, w, outcome),
             IF copy_failed(outcome) THEN Fail ELSE UNCHANGED <<pc, result>>
      PROVE  Copied'
  BY <1>1, <1>3, SysCopyPreserves
<1>4. CASE /\ lib /\ UNCHANGED <<pc, result, faults>>
           /\ \/ /\ unflushed' = [pos |-> Len(file), recs |-> Append(unflushed.recs, w.rec)]
                 /\ UNCHANGED file
              \/ file' = Flushed /\ unflushed' = [pos |-> w.pos, recs |-> <<w.rec>>]
  <2>1. w.pos = Len(file) + Len(unflushed.recs) /\ w.rec = original[j + 1]
    OBVIOUS
  <2> HIDE DEF w
  <2> QED BY <1>1, <1>4, <2>1, LibCopyPreserves
<1> QED BY <1>1, <1>2, <1>3, <1>4 DEF CopyRecord


LEMMA OpenCopyPreserves ==
  ASSUME Typed, CallInv, Typed', args.command = "copy", Main \/ OpenFails
  PROVE  PrefixInv'
<1>1. /\ file' = original /\ unflushed' = Empty /\ original' = original
      /\ pc' \in {"open", "ended", "close"}
      /\ pc' = "close" => result' # 0
      /\ pc' # "open" => code' # 0
  <2>1. CASE Main
    <3>1. usage_code[args.command][args.wrong] \in Nat
      BY DEF Typed, Given, usage_code
    <3> QED BY <2>1, <3>1 DEF Main, CallInv
  <2>2. CASE OpenFails
    BY <2>2 DEF OpenFails, CallInv, Fail
  <2> QED BY <2>1, <2>2
<1> QED BY <1>1 DEF PrefixInv, NotOpened

LEMMA CopyStartsAndEnds ==
  ASSUME Typed, CallInv, PrefixInv, Typed', args.command = "copy",
         OpenCopy \/ ReadNothing \/ Finish
  PROVE  PrefixInv'
<1>1. CASE OpenCopy
  <2>1. /\ file' = <<>> /\ i' = 0 /\ j' = 0 /\ pc' = "copy"
        /\ unflushed = Empty /\ UNCHANGED <<args, original, unflushed>>
    BY <1>1 DEF OpenCopy, CallInv
  <2>2. unflushed'.pos = 0 /\ Len(unflushed'.recs) = 0 /\ Len(file') = 0
    BY <2>1 DEF Empty
  <2>3. Whole(file)' /\ Prefix(file, unflushed.pos)'
    BY <2>2 DEF Whole, Prefix
  <2>4. Len(original) \in Nat /\ num_of_records \in Nat
    BY Constants DEF Typed
  <2>5. Copied'
    BY <2>1, <2>2, <2>3, <2>4 DEF Copied
  <2> QED BY <2>1, <2>5 DEF PrefixInv
<1>2. CASE ReadNothing
  <2>1. /\ pc = "copy" /\ i < num_of_records /\ i' = i + 1 /\ Copied
        /\ UNCHANGED <<args, original, file, unflushed, j, pc, result, code>>
        /\ faults' = 0 => faults = 0 /\ j = Len(original)
    BY <1>2, CallFails DEF ReadNothing, PrefixInv
  <2>2. i' <= num_of_records
    BY <2>1, Constants DEF Typed
  <2>3. Whole(file)' = Whole(file) /\ Prefix(file, unflushed.pos)' = Prefix(file, unflushed.pos)
    BY <2>1 DEF Whole, Prefix
  <2>4. Copied'
    BY <2>1, <2>2, <2>3 DEF Copied, lib
  <2> QED BY <2>1, <2>4 DEF PrefixInv
<1>3. CASE Finish
  <2>1. /\ pc = "copy" /\ i = num_of_records /\ Copied /\ pc' = "close"
        /\ UNCHANGED <<args, original, file, unflushed, j, result, code, faults>>
    BY <1>3 DEF Finish, PrefixInv, CallInv, loops
  <2>2. Whole(file)' = Whole(file) /\ Prefix(file, unflushed.pos)' = Prefix(file, unflushed.pos)
    BY <2>1 DEF Whole, Prefix
  <2>3. faults = 0 => Len(file) + Len(unflushed.recs) \in {Len(original), num_of_records}
    BY <2>1 DEF Copied
  <2>4. Copied'
    BY <2>1, <2>2, <2>3 DEF Copied, lib
  <2> QED BY <2>1, <2>4 DEF PrefixInv
<1> QED BY <1>1, <1>2, <1>3

LEMMA CloseCopy ==
  ASSUME Typed, CallInv, PrefixInv, Typed', args.command = "copy", Close
  PROVE  PrefixInv'
<1>1. /\ pc = "close" /\ pc' = "ended" /\ UNCHANGED <<args, original, result>>
      /\ result # 0 => code' = 8
      /\ Copied \/ NotOpened
  BY DEF Close, failure_code, PrefixInv
<1>2. CASE NotOpened
  <2>1. unflushed = Empty /\ Flushed = original
    BY <1>2, FlushedEmpty DEF NotOpened
  <2>2. file' = Flushed /\ unflushed' = Empty
    BY <2>1, FlushFailsTyped DEF Close
  <2>3. NotOpened'
    BY <1>1, <1>2, <2>1, <2>2 DEF NotOpened
  <2> QED BY <1>1, <2>3 DEF PrefixInv
<1>3. CASE Copied /\ FlushFails
  <2>1. Copied'
    BY <1>1, <1>3, FlushFailsCopied
  <2> QED BY <1>1, <2>1 DEF PrefixInv
<1>4. CASE Copied /\ file' = Flushed /\ unflushed' = Empty /\ UNCHANGED faults
  <2> DEFINE recs == unflushed.recs
  <2>1. unflushed'.pos = 0 /\ Len(unflushed'.recs) = 0
    BY <1>4 DEF Empty
  <2>2. /\ Prefix(file', unflushed.pos) /\ Len(file') <= Len(original)
        /\ Len(recs) = 0 => file' = file
        /\ Len(recs) # 0 => Whole(file') /\ Len(file') = unflushed.pos + Len(recs)
    BY <1>4, FlushedCopy
  <2>3. Prefix(file, unflushed.pos)'
    <3>1. unflushed.pos \in Nat
      BY DEF Typed
    <3> QED BY <1>1, <2>1, <2>2, <3>1 DEF Prefix
  <2>4. Whole(file)' \/ (faults' > 0 /\ pc' # "copy" /\ (lib' \/ (result' # 0 /\ code' # 0)))
    <3>1. CASE Len(recs) = 0
      <4>1. Whole(file) \/ (faults > 0 /\ (lib \/ result # 0))
        BY <1>4 DEF Copied
      <4>2. Whole(file) => Whole(file)'
        BY <1>1, <2>2, <3>1 DEF Whole
      <4> QED BY <1>1, <1>4, <4>1, <4>2 DEF lib
    <3>2. CASE Len(recs) # 0
      BY <1>1, <2>2, <3>2 DEF Whole
    <3> QED BY <3>1, <3>2
  <2>5. faults' = 0 => Len(file') \in {Len(original), num_of_records}
    <3>1. /\ faults = 0 => Len(file) + Len(recs) \in {Len(original), num_of_records}
          /\ faults = 0 /\ Len(recs) # 0 => unflushed.pos = Len(file)
      BY <1>1, <1>4 DEF Copied
    <3>2. Len(file) \in Nat /\ Len(recs) \in Nat
      BY DEF Typed
    <3> QED BY <1>4, <2>2, <3>1, <3>2
  <2>6. Len(file') \in Nat
    BY DEF Typed
  <2>7. Copied'
    BY <1>1, <2>1, <2>2, <2>3, <2>4, <2>5, <2>6 DEF Copied
  <2> QED BY <1>1, <2>7 DEF PrefixInv
<1> QED BY <1>1, <1>2, <1>3, <1>4 DEF Close

LEMMA CopyPreserved ==
  ASSUME Typed, CallInv, PrefixInv, Typed', [Next]_vars
  PROVE  PrefixInv'
<1>1. args' = args
  BY DEF Next, vars, loops, Main, Close, OpenFails, OpenNew, generate, OpenSort, ReadRecord,
     Compare, WriteRecord, OpenCopy, ReadNothing, CopyRecord, Finish
<1>2. CASE args.command # "copy"
  BY <1>1, <1>2 DEF PrefixInv
<1>3. CASE UNCHANGED vars
  BY <1>3 DEF vars, loops, PrefixInv, Copied, NotOpened, Prefix, Whole, lib
<1>4. CASE args.command = "copy" /\ Next
  <2>1. /\ ~OpenNew /\ ~generate /\ ~OpenSort
        /\ ~ReadRecord /\ ~Compare /\ ~WriteRecord
    BY <1>4 DEF OpenNew, generate, OpenSort, ReadRecord, Compare, WriteRecord,
       CallInv, Sorting
  <2>2. CASE CopyRecord
    <3>1. Copied
      BY <1>4, <2>2 DEF CopyRecord, PrefixInv
    <3> QED BY <1>1, <2>2, <3>1, CopyRecordPreserves DEF PrefixInv
  <2> QED BY <1>4, <2>1, <2>2, OpenCopyPreserves, CopyStartsAndEnds, CloseCopy DEF Next
<1> QED BY <1>2, <1>3, <1>4


-------------------------------------------------------------------------------
(* The theorems. *)

LEMMA Starts ==
  ASSUME Init
  PROVE  IInv
<1>1. PICK n \in 0..MaxLength : \E keys \in [1..n -> Keys] :
        original = [k \in 1..n |-> [key |-> keys[k], body |-> k]]
  BY DEF Init
<1>2. PICK keys \in [1..n -> Keys] :
        original = [k \in 1..n |-> [key |-> keys[k], body |-> k]]
  BY <1>1
<1>3. /\ args \in Given /\ file = original /\ unflushed = Empty
      /\ record = [first |-> Hole, second |-> Hole]
      /\ i = 0 /\ j = 0 /\ pc = "main" /\ result = 0 /\ faults = 0 /\ code = -1
  BY DEF Init
<1>4. /\ original \in Seq(Records) /\ Len(original) = n
      /\ \A k \in 1..n : original[k].body = k
  <2>1. original = [k \in 1..n |-> original[k]]
    BY <1>2
  <2>2. ASSUME NEW k \in 1..n PROVE original[k] \in Records /\ original[k].body = k
    <3>1. original[k] = [key |-> keys[k], body |-> k]
      <4> DEFINE r(q) == [key |-> keys[q], body |-> q]
      <4>1. original = [q \in 1..n |-> r(q)]
        BY <1>2
      <4> HIDE DEF r
      <4>2. original[k] = r(k)
        BY <4>1
      <4> QED BY <4>2 DEF r
    <3>2. keys[k] \in Keys
      OBVIOUS
    <3>3. keys[k] \in Nat
      BY <3>2, Constants, Zenon
    <3>4. k \in Nat
      OBVIOUS
    <3> QED BY <3>1, <3>3, <3>4 DEF Records
  <2>3. n \in Nat
    OBVIOUS
  <2> QED BY <2>1, <2>2, <2>3, GivenByElements
<1>5. Typed
  BY <1>3, <1>4, EmptyBuffer, HoleTyped DEF Typed, Places
<1>6. CallInv
  BY <1>3, <1>4 DEF CallInv, Sorting
<1>7. SwapInv /\ InsertInv /\ PrefixInv
  BY <1>3 DEF SwapInv, InsertInv, PrefixInv, Sorting
<1>8. KeptInv
  <2>1. Kept = InFile(original)
    BY <1>3, <1>5, FlushedEmpty DEF Kept
  <2>2. Cardinality(Missing) = 0
    BY <2>1, NothingMissing DEF Missing
  <2> QED BY <1>3, <2>2 DEF KeptInv
<1> QED BY <1>5, <1>6, <1>7, <1>8 DEF IInv

(* Whatever the constants, the invariant holds in every reachable state of *)
(* the program: what the file, the buffer and the records in memory hold   *)
(* together.                                                               *)
THEOREM Invariance == Spec => []IInv
<1>1. Init => IInv
  BY Starts
<1>2. IInv /\ [Next]_vars => IInv'
  <2> SUFFICES ASSUME IInv, [Next]_vars PROVE IInv'
    OBVIOUS
  <2>1. Typed' /\ CallInv'
    BY StepTyped DEF IInv
  <2>2. SortInv'
    BY <2>1, SortPreserved DEF IInv, SortInv
  <2>3. PrefixInv'
    BY <2>1, CopyPreserved DEF IInv
  <2> QED BY <2>1, <2>2, <2>3 DEF IInv, SortInv
<1> QED BY <1>1, <1>2, PTL DEF Spec

(* A sort loses at most one record of the file per call that failed, and   *)
(* one more while the other half of a swap is in memory only.              *)
THEOREM LossBounded == Spec => []LostPerFault
<1>1. IInv => LostPerFault
  <2> SUFFICES ASSUME IInv, args.command = "sort"
               PROVE  Cardinality(Lost) <=
                        faults + (IF pc = "write_second" \/ unflushed # Empty THEN 1 ELSE 0)
    BY DEF LostPerFault
  <2>1. /\ Typed /\ CallInv /\ SwapInv /\ original \in Seq(Records) /\ faults \in Nat
        /\ Cardinality(InFile(original) \ Kept) <= faults
        /\ Lost = InFile(original) \ InFile(file)
    BY DEF IInv, KeptInv, Missing, Typed, Lost, InFile
  <2>2. CASE pc # "write_second" /\ unflushed = Empty
    BY <2>1, <2>2, FlushedEmpty DEF Kept
  <2>3. CASE pc = "write_second" \/ unflushed # Empty
    <3>1. \E x : Kept \subseteq InFile(file) \cup {x}
      <4>1. CASE pc # "write_second" /\ unflushed # Empty
        <5>1. Single(Flushed, file, unflushed.pos, unflushed.recs[1])
              /\ Len(Flushed) = Len(file)
          BY <2>1, <4>1, SortBuffer
        <5>2. ASSUME NEW n \in 1..Len(Flushed)
              PROVE  Flushed[n] \in InFile(file) \cup {unflushed.recs[1]}
          BY <5>1 DEF Single, InFile
        <5> QED BY <4>1, <5>2 DEF Kept, InFile
      <4>2. CASE pc = "write_second" /\ unflushed = Empty
        <5>1. Kept \subseteq InFile(file) \cup {record.first}
          BY <2>1, <4>2, FlushedEmpty DEF Kept, InFile
        <5> QED BY <5>1
      <4>3. CASE pc = "write_second" /\ unflushed # Empty
        <5>1. /\ Single(Flushed, file, unflushed.pos, unflushed.recs[1])
              /\ Len(Flushed) = Len(file) /\ Len(file) \in Nat
          BY <2>1, <4>3, SortBuffer DEF Typed
        <5>2. lib /\ j \in Nat \ {0}
          BY <2>1, <4>3 DEF CallInv, Typed, Given, lib, sys, Sorting
        <5>3. /\ unflushed.pos = j - 1 /\ unflushed.recs[1] = record.second
              /\ j + 1 <= Len(file)
              /\ file[j] = record.first /\ file[j + 1] = record.second
          BY <2>1, <4>3, <5>2 DEF SwapInv
        <5>4. record.first \in InFile(file) /\ record.second \in InFile(file)
          <6>1. j \in 1..Len(file) /\ j + 1 \in 1..Len(file)
            BY <5>1, <5>2, <5>3
          <6> QED BY <5>3, <6>1 DEF InFile
        <5>5. ASSUME NEW n \in 1..Len(Flushed) PROVE Flushed[n] \in InFile(file)
          <6>1. CASE n = j
            BY <5>1, <5>2, <5>3, <5>4, <6>1 DEF Single
          <6>2. CASE n # j
            BY <5>1, <5>2, <5>3, <6>2 DEF Single, InFile
          <6> QED BY <6>1, <6>2
        <5>6. Kept \subseteq InFile(file)
          BY <4>3, <5>4, <5>5 DEF Kept
        <5> QED BY <5>6
      <4> QED BY <2>3, <4>1, <4>2, <4>3
    <3>2. PICK x : Kept \subseteq InFile(file) \cup {x}
      BY <3>1
    <3>3. Cardinality(InFile(original) \ InFile(file)) <= faults + 1
      BY <2>1, <3>2, KeepsAllButOne
    <3> QED BY <2>1, <2>3, <3>3
  <2> QED BY <2>2, <2>3
<1> QED BY <1>1, Invariance, PTL

(* A sort in which no call failed leaves the records it was told of in     *)
(* order, those of equal keys as they were, and the others alone.          *)
THEOREM Sorted == Spec => []SortedStably
<1>1. IInv => SortedStably
  <2> SUFFICES ASSUME IInv, args.command = "sort", code = 0, faults = 0,
                      num_of_records <= Len(original)
               PROVE  /\ Lost = {} /\ Len(file) = Len(original)
                      /\ \A m, n \in 1..num_of_records :
                           m < n => \/ file[m].key < file[n].key
                                    \/ file[m].key = file[n].key /\ file[m].body < file[n].body
                      /\ \A n \in num_of_records+1..Len(file) : file[n] = original[n]
    BY DEF SortedStably
  <2>1. /\ Typed /\ original \in Seq(Records) /\ file \in Seq(Records)
        /\ num_of_records \in Nat
        /\ pc = "ended" /\ unflushed = Empty /\ Flushed = file
    BY FlushedEmpty, Constants DEF IInv, CallInv, Typed
  <2>2. /\ Len(file) = Len(original)
        /\ Ordered(file, num_of_records) /\ RestFrom(file, num_of_records + 1)
    BY <2>1 DEF IInv, InsertInv, NothingFailed
  <2>3. Lost = {}
    <3>1. Lost = InFile(original) \ InFile(file) /\ Missing = Lost
      BY <2>1 DEF Lost, InFile, Missing, Kept
    <3>2. IsFiniteSet(Lost)
      BY <2>1, <3>1, InFileFinite, FS_Subset
    <3>3. Cardinality(Lost) <= 0 /\ Cardinality(Lost) \in Nat
      BY <3>1, <3>2, FS_CardinalityType DEF IInv, KeptInv
    <3>4. Cardinality(Lost) = 0
      BY <3>3
    <3> QED BY <3>2, <3>4, FS_EmptySet
  <2>4. ASSUME NEW m \in 1..num_of_records, NEW n \in 1..num_of_records, m < n
        PROVE  Precedes(file[m], file[n])
    <3>1. m \in 1..n-1
      BY <2>1, <2>4
    <3> QED BY <2>2, <3>1 DEF Ordered
  <2>5. \A n \in num_of_records+1..Len(file) : file[n] = original[n]
    BY <2>2 DEF RestFrom
  <2> QED BY <2>2, <2>3, <2>4, <2>5 DEF Precedes
<1> QED BY <1>1, Invariance, PTL

(* Whatever fails, a copy is the first records of its source, the last one *)
(* cut short at most; exit status 0 hides little.                          *)
THEOREM CopiedInOrder == Spec => []CopyIsPrefix
<1>1. IInv => CopyIsPrefix
  <2> SUFFICES ASSUME IInv, args.command = "copy", pc \in {"copy", "close", "ended"},
                      file # original
               PROVE  /\ \A n \in 1..Len(file) :
                           \/ file[n] = original[n]
                           \/ /\ n = Len(file)
                              /\ file[n] = [key |-> original[n].key, body |-> 0]
                              /\ faults > 0 /\ (code # 0 \/ lib)
                      /\ code = 0 /\ Len(file) < Len(original) =>
                           Len(file) = num_of_records \/ faults > 0
    BY DEF CopyIsPrefix
  <2>1. Typed /\ Copied
    BY DEF IInv, PrefixInv, NotOpened
  <2>2. /\ Prefix(file, unflushed.pos)
        /\ Whole(file) \/ (faults > 0 /\ (lib \/ code # 0))
    BY <2>1 DEF Copied
  <2>3. ASSUME NEW n \in 1..Len(file)
        PROVE  \/ file[n] = original[n]
               \/ /\ n = Len(file) /\ file[n] = [key |-> original[n].key, body |-> 0]
                  /\ faults > 0 /\ (code # 0 \/ lib)
    BY <2>2 DEF Prefix, Whole
  <2>4. ASSUME code = 0, Len(file) < Len(original), faults = 0
        PROVE  Len(file) = num_of_records
    <3>1. pc # "copy" /\ unflushed = Empty
      BY <2>4 DEF IInv, CallInv
    <3>2. Len(file) + Len(unflushed.recs) \in {Len(original), num_of_records}
      BY <2>1, <2>4, <3>1 DEF Copied
    <3>3. Len(unflushed.recs) = 0 /\ Len(file) \in Nat /\ Len(original) \in Nat
      BY <2>1, <3>1, EmptyBuffer DEF Typed
    <3> QED BY <2>4, <3>2, <3>3
  <2>5. faults \in Nat
    BY <2>1 DEF Typed
  <2> QED BY <2>3, <2>4, <2>5
<1> QED BY <1>1, Invariance, PTL


===============================================================================
