-------------------------- MODULE LogAnalysisProofs --------------------------
(***************************************************************************)
(* Proofs about LogAnalysis, for any log files and scripts: true means     *)
(* that every script was run on every log file, no output file is written  *)
(* into twice, and what is written is what the script says.                *)
(***************************************************************************)
EXTENDS LogAnalysis, FiniteSetTheorems, SequenceTheorems, TLAPS

\* The lines of all log files, and those that may be in output files.
Lines == UNION {ToSet(f.lines) : f \in {g \in LogFiles : g.lines # "directory"}}

Entries == Lines \union UNION {ToSet(OldOutputs[n]) : n \in DOMAIN OldOutputs}

\* The operations of all scripts, and these as doSearch leaves them.
Words ==
    LET all == UNION {ToSet(f.ops) : f \in {g \in ScriptFiles : g.ops # "invalid"}}
    IN  all \union {[o EXCEPT !.kind = "search"] : o \in all}

Types ==
    /\ pc \in {"menu", "parse", "logs", "header", "events", "scripts", "alert", "write",
               "true", "false", "thrown"}
    /\ logfilefiles \in Seq(LogFiles) /\ scriptfiles \in Seq(ScriptFiles)
    /\ configfile \in {"none", "valid", "invalid"}
    /\ scripts \in Seq(Seq([keyword : BOOLEAN, words : Words]))
    /\ Len(scripts) <= Len(scriptfiles)
    /\ logs \in 0..Len(logfilefiles)
    /\ reader \in [open : BOOLEAN, rest : Seq(Lines)]
    /\ ~reader.open => reader.rest = <<>>
    /\ events \in Seq(Lines)
    /\ script \in 1..(Len(scripts) + 1)
    /\ op \in Nat \ {0}
    /\ output \in [null : BOOLEAN, events : Seq(Lines)]
    /\ files \in [DOMAIN files -> Seq(Entries)] /\ IsFiniteSet(DOMAIN files)
    /\ made \in Seq(DOMAIN files)

(***************************************************************************)
(* How far the analysis is.                                                *)
(***************************************************************************)

AtWork == {"header", "events", "scripts", "alert", "write"}

\* Which output files there are.
Counted ==
    LET n == Len(scripts) IN
    /\ pc \in {"menu", "parse"} => logs = 0 /\ script = 1
    /\ logs = 0 => made = <<>> /\ ~reader.open
    /\ pc \in AtWork \union {"logs", "true"} => n = Len(scriptfiles)
    /\ pc \in AtWork => logs > 0
    /\ pc \in {"header", "events"} => Len(made) = (logs - 1) * n
    /\ pc \in {"logs", "true"} => Len(made) = logs * n
    /\ pc = "true" => logs = Len(logfilefiles)
    /\ pc = "scripts" => Len(made) = (logs - 1) * n + (script - 1)
    /\ pc \in {"alert", "write"} => script <= n /\ Len(made) = (logs - 1) * n + script
    /\ logs > 0 => Len(made) <= logs * n
    /\ pc = "alert" => op <= Len(scripts[script]) + 1

\* A file is created once.
Distinct == \A i, j \in 1..Len(made) : made[i] = made[j] => i = j

(***************************************************************************)
(* The operations and their keywords.                                      *)
(***************************************************************************)

Ops(i) == scriptfiles[i].ops

\* An operation that has its keyword is as it was parsed.
Parsed ==
    \A i \in 1..Len(scripts) :
       /\ Ops(i) # "invalid"
       /\ Len(scripts[i]) = Len(Ops(i))
       /\ \A j \in 1..Len(scripts[i]) : scripts[i][j].keyword => scripts[i][j].words = Ops(i)[j]

\* Scripts before this one were run on the log file in hand.
Turn == CASE pc \in {"scripts", "alert"} -> script
          [] pc = "write" -> script + 1
          [] OTHER -> 1

\* The n-th log file has been through all of its scripts, or through those before Turn.
RunOn(n, i) == logs > n \/ (logs = n /\ (pc \in {"logs", "true"} \/ i < Turn))

\* No operation keeps its keyword in the first run, so only scripts without any get
\* through a second one.
Spent ==
    pc \in AtWork \union {"logs", "true"} =>
       /\ \A i \in 1..Len(scripts) :
             /\ RunOn(1, i) => \A j \in 1..Len(scripts[i]) : ~scripts[i][j].keyword
             /\ logs > 1 /\ RunOn(2, i) => Len(scripts[i]) = 0
       /\ pc = "alert" /\ ~output.null =>
             /\ \A j \in 1..(op - 1) : ~scripts[script][j].keyword
             /\ logs > 1 => op = 1

(***************************************************************************)
(* The lines.                                                              *)
(***************************************************************************)

LinesOf(l) == logfilefiles[l].lines

\* What is left of lines from the m-th on.
RestOf(s, lines, m) ==
    /\ lines \in Seq(Lines)
    /\ Len(s) = Len(lines) - m + 1
    /\ \A i \in 1..Len(s) : s[i] = lines[m + i - 1]

\* The events between the first and the m-th of the lines, none of which ends the reading.
EventsUpTo(es, lines, m) ==
    /\ Len(es) = m - 2
    /\ \A i \in 1..(m - 2) : es[i] = lines[i + 1] /\ Usable(es[i])

\* The stream is that of an earlier file that ended early or, while lines are read,
\* of the file in hand.
Streamed ==
    /\ pc \in AtWork => LinesOf(logs) \in Seq(Lines)
    /\ pc = "header" => events = <<>>
    /\ pc \in AtWork \union {"logs"} /\ pc # "events" /\ reader.open =>
          \E l \in 1..logs : \E m \in 2..(Len(LinesOf(l)) + 1) :
             /\ RestOf(reader.rest, LinesOf(l), m)
             /\ EndsEarly(logfilefiles[l])
             /\ pc = "header" => l < logs
    /\ pc = "events" =>
          /\ reader.open
          /\ \E l \in 1..logs : \E m \in 2..(Len(LinesOf(l)) + 1) :
                /\ RestOf(reader.rest, LinesOf(l), m)
                /\ IF l = logs
                   THEN EventsUpTo(events, LinesOf(l), m)
                   ELSE /\ EndsEarly(logfilefiles[l])
                        /\ \A i \in 1..Len(events) : events[i] \in ToSet(LinesOf(l))

WellFormedBefore(fs, n) == \A l \in 1..(n - 1) : ~EndsEarly(fs[l])

\* The line is of the n-th log file, or of an earlier one that ended early.
Sourced(e, fs, n) ==
    \E l \in 1..n : e \in ToSet(fs[l].lines) /\ (l = n \/ EndsEarly(fs[l]))

\* The n-th selection of a script.
LeftOf(ops, es) ==
    CHOOSE left : left = [n \in 0..Len(ops) |->
                            IF n = 0 THEN es ELSE Chosen(ops[n], left[n - 1])]

\* What the events, the output in hand and the output files have.
Selected ==
    /\ pc \in {"scripts", "alert", "write"} =>
          /\ \A i \in 1..Len(events) : Sourced(events[i], logfilefiles, logs)
          /\ WellFormedBefore(logfilefiles, logs) => events = EventsOf(logfilefiles[logs])
    /\ pc \in {"alert", "write"} =>
          \A i \in 1..Len(output.events) : Sourced(output.events[i], logfilefiles, logs)
    /\ pc = "alert" =>
          /\ files[Last(made)] = <<>>
          /\ ~output.null => output.events = LeftOf(Ops(script), events)[op - 1]
    /\ pc = "write" =>
          files[Last(made)] \o output.events = Meaning(Ops(script), events)

Inv == /\ Types /\ Counted /\ Distinct /\ Parsed /\ Spent /\ Streamed /\ Selected
       /\ ResultsAreMeant /\ LinesHaveASource

(***************************************************************************)
(* Numbers.                                                                *)
(***************************************************************************)

\* Some natural number in a set of them is the least.
LEMMA LeastNumber ==
    ASSUME NEW T \in SUBSET Nat, T # {}
    PROVE  \E m \in T : \A k \in T : m <= k
<1>1. PICK m \in T : \A k \in T : ~(<<k, m>> \in OpToRel(<, Nat))
  BY NatLessThanWellFounded, WFMin
<1>2. OpToRel(<, Nat) = {ss \in Nat \X Nat : ss[1] < ss[2]}
  BY Zenon DEF OpToRel
<1>3. ASSUME NEW k \in T PROVE m <= k
  <2>1. <<k, m>> \notin {ss \in Nat \X Nat : ss[1] < ss[2]}
    BY <1>1, <1>2, Zenon
  <2> QED
    BY <2>1
<1> QED
  BY <1>3

\* Induction, on a set of natural numbers.
LEMMA InductiveSet ==
    ASSUME NEW S \in SUBSET Nat, 0 \in S, \A n \in S : n + 1 \in S
    PROVE  S = Nat
<1> SUFFICES ASSUME Nat \ S # {} PROVE FALSE
  OBVIOUS
<1>1. PICK m \in Nat \ S : \A k \in Nat \ S : m <= k
  BY LeastNumber
<1>2. m - 1 \in S
  BY <1>1
<1> QED
  BY <1>1, <1>2

(***************************************************************************)
(* A set of positions, and what a sequence has there.                      *)
(***************************************************************************)

Rank(M, i) == Cardinality({j \in M : j <= i})

Spot(M, k) == CHOOSE i \in M : Rank(M, i) = k

Picked(es, M) == [k \in 1..Cardinality(M) |-> es[Spot(M, k)]]

\* Every number up to that of the positions is the rank of one of them.
LEMMA Ranks ==
    ASSUME NEW n \in Nat, NEW M \in SUBSET (1..n)
    PROVE  /\ Cardinality(M) \in Nat
           /\ \A i \in M : Rank(M, i) \in 1..Cardinality(M)
           /\ \A i, k \in M : Rank(M, i) = Rank(M, k) => i = k
           /\ \A k \in 1..Cardinality(M) : Spot(M, k) \in M /\ Rank(M, Spot(M, k)) = k
<1>0. \A i \in M : i \in Int
  OBVIOUS
<1>1. IsFiniteSet(1..n) /\ IsFiniteSet(M) /\ Cardinality(M) \in Nat
  <2>1. IsFiniteSet(1..n)
    BY FS_Interval
  <2>2. IsFiniteSet(M)
    BY <2>1, FS_Subset
  <2> QED
    BY <2>1, <2>2, FS_CardinalityType
<1> DEFINE Upto(i) == {j \in M : j <= i}
<1>2. ASSUME NEW i \in M
      PROVE  /\ IsFiniteSet(Upto(i)) /\ Cardinality(Upto(i)) \in Nat
             /\ Cardinality(Upto(i)) \in 1..Cardinality(M)
  <2>1. Upto(i) \subseteq M /\ i \in Upto(i)
    OBVIOUS
  <2>2. IsFiniteSet(Upto(i)) /\ Cardinality(Upto(i)) <= Cardinality(M)
    BY <1>1, <2>1, FS_Subset
  <2>3. Cardinality(Upto(i)) \in Nat /\ Cardinality(Upto(i)) # 0
    BY <2>1, <2>2, FS_CardinalityType, FS_EmptySet
  <2> QED
    BY <1>1, <2>2, <2>3
<1>3. ASSUME NEW i \in M, NEW k \in M, i < k
      PROVE  Cardinality(Upto(i)) < Cardinality(Upto(k))
  <2>1. k \in Upto(k) /\ k \notin Upto(i)
    BY <1>0, <1>3
  <2>2. ASSUME NEW j \in Upto(i) PROVE j \in Upto(k)
    BY <1>0, <1>3
  <2> HIDE DEF Upto
  <2>3. IsFiniteSet(Upto(k)) /\ Upto(i) # Upto(k) /\ Upto(i) \in SUBSET Upto(k)
    BY <1>2, <2>1, <2>2
  <2>4. /\ Cardinality(Upto(i)) <= Cardinality(Upto(k))
        /\ Cardinality(Upto(i)) # Cardinality(Upto(k))
    BY <2>3, FS_Subset
  <2>5. Cardinality(Upto(i)) \in Nat /\ Cardinality(Upto(k)) \in Nat
    BY <1>2
  <2> QED
    BY <2>4, <2>5
<1>4. \A i \in M : Rank(M, i) = Cardinality(Upto(i))
  BY DEF Rank
<1>5. \A i \in M : Rank(M, i) \in 1..Cardinality(M)
  BY <1>2, <1>4
<1>6. \A i, k \in M : Rank(M, i) = Rank(M, k) => i = k
  <2> HIDE DEF Upto
  <2> SUFFICES ASSUME NEW i \in M, NEW k \in M, i # k PROVE Rank(M, i) # Rank(M, k)
    OBVIOUS
  <2>1. i < k \/ k < i
    BY <1>0
  <2> QED
    BY <1>2, <1>3, <1>4, <2>1
<1>7. ASSUME NEW k \in 1..Cardinality(M) PROVE \E i \in M : Rank(M, i) = k
  <2> DEFINE r == [i \in M |-> Rank(M, i)]
  <2>1. r \in [M -> 1..Cardinality(M)]
    BY <1>5
  <2>2. IsInjective(r)
    BY <1>6 DEF IsInjective
  <2>3. IsFiniteSet(1..Cardinality(M)) /\ Cardinality(1..Cardinality(M)) = Cardinality(M)
    BY <1>1, FS_Interval
  <2>4. r \in Injection(M, 1..Cardinality(M))
    BY <2>1, <2>2 DEF Injection
  <2>5. r \in Surjection(M, 1..Cardinality(M))
    <3> HIDE DEF r
    <3> QED
      BY <2>3, <2>4, FS_Injection
  <2>6. \E i \in M : r[i] = k
    BY <2>5 DEF Surjection
  <2> QED
    BY <2>6
<1>8. \A k \in 1..Cardinality(M) : Spot(M, k) \in M /\ Rank(M, Spot(M, k)) = k
  BY <1>7 DEF Spot
<1> QED
  BY <1>1, <1>5, <1>6, <1>8

\* A position behind the others comes last.
LEMMA PickedGrows ==
    ASSUME NEW S, NEW es \in Seq(S), NEW n \in Nat, n < Len(es), NEW M \in SUBSET (1..n)
    PROVE  /\ Picked(es, M) \in Seq(S)
           /\ Picked(es, M \union {n + 1}) = Append(Picked(es, M), es[n + 1])
<1> DEFINE N == M \union {n + 1}
           c == Cardinality(M)
<1>1. N \in SUBSET (1..(n + 1)) /\ n + 1 \in Nat /\ n + 1 \notin M /\ n + 1 \in 1..Len(es)
  OBVIOUS
<1>0. \A i \in M : i \in Int /\ i <= n /\ i # n + 1
  OBVIOUS
<1>2. /\ c \in Nat
      /\ \A i \in M : Rank(M, i) \in 1..c
      /\ \A k \in 1..c : Spot(M, k) \in M /\ Rank(M, Spot(M, k)) = k
  BY Ranks
<1>3. /\ \A i, k \in N : Rank(N, i) = Rank(N, k) => i = k
      /\ \A k \in 1..Cardinality(N) : Spot(N, k) \in N /\ Rank(N, Spot(N, k)) = k
  <2> HIDE DEF N
  <2> QED
    BY <1>1, Ranks
<1>4. Cardinality(N) = c + 1
  <2>1. IsFiniteSet(1..n)
    BY FS_Interval
  <2>2. IsFiniteSet(M)
    BY <2>1, FS_Subset
  <2> QED
    BY <1>1, <2>2, FS_AddElement
<1>5. \A i \in M : Rank(N, i) = Rank(M, i)
  <2>1. ASSUME NEW i \in M PROVE {j \in N : j <= i} = {j \in M : j <= i}
    <3>1. ASSUME NEW j \in N, j <= i PROVE j \in M
      BY <1>0, <3>1
    <3> HIDE DEF N
    <3>2. M \subseteq N
      BY DEF N
    <3> QED
      BY <3>1, <3>2
  <2> QED
    BY <2>1 DEF Rank
<1>6. Rank(N, n + 1) = c + 1
  <2>1. ASSUME NEW j \in N PROVE j <= n + 1
    BY <1>0
  <2>2. {j \in N : j <= n + 1} = N
    <3> HIDE DEF N
    <3> QED
      BY <2>1
  <2> QED
    BY <1>4, <2>2 DEF Rank
<1> HIDE DEF N, c
<1>7. ASSUME NEW k \in 1..c PROVE Spot(N, k) = Spot(M, k)
  <2>1. Spot(M, k) \in N /\ Rank(N, Spot(M, k)) = k
    BY <1>2, <1>5 DEF N
  <2>2. k \in 1..Cardinality(N)
    BY <1>2, <1>4
  <2> QED
    BY <1>3, <2>1, <2>2
<1>8. Spot(N, c + 1) = n + 1
  <2>1. n + 1 \in N
    BY DEF N
  <2>2. c + 1 \in 1..Cardinality(N)
    BY <1>2, <1>4
  <2> QED
    BY <1>3, <1>6, <2>1, <2>2
<1>9. ASSUME NEW k \in 1..c PROVE es[Spot(M, k)] \in S
  <2>1. \A i \in M : i \in 1..Len(es)
    BY <1>0
  <2>2. Spot(M, k) \in 1..Len(es)
    BY <1>2, <2>1
  <2> QED
    BY <2>2, ElementOfSeq
<1>10. Picked(es, M) \in Seq(S) /\ Len(Picked(es, M)) = c
       /\ \A k \in 1..c : Picked(es, M)[k] = es[Spot(M, k)]
  BY <1>2, <1>9 DEF Picked, c
<1>11. es[n + 1] \in S
  BY <1>1, ElementOfSeq
<1>12. \A k \in 1..(c + 1) : k \in 1..c \/ k = c + 1
  BY <1>2
<1>13. \A k \in 1..(c + 1) : es[Spot(N, k)] = IF k = c + 1 THEN es[n + 1] ELSE Picked(es, M)[k]
  BY <1>7, <1>8, <1>10, <1>12
<1>14. \A k \in 1..(c + 1) : es[Spot(N, k)] \in S
  BY <1>9, <1>10, <1>11, <1>12, <1>13
<1>15. Picked(es, N) \in Seq(S) /\ Len(Picked(es, N)) = c + 1
       /\ \A k \in 1..(c + 1) : Picked(es, N)[k] = es[Spot(N, k)]
  BY <1>2, <1>4, <1>14 DEF Picked
<1> DEFINE p == Picked(es, M)
           a == Append(p, es[n + 1])
<1>16. a \in Seq(S) /\ Len(a) = c + 1 /\ a[c + 1] = es[n + 1] /\ \A k \in 1..c : a[k] = p[k]
  <2>1. p \in Seq(S) /\ Len(p) = c
    BY <1>10
  <2> HIDE DEF p
  <2> QED
    BY <1>11, <2>1, AppendProperties
<1>17. \A k \in 1..(c + 1) : Picked(es, N)[k] = a[k]
  <2> HIDE DEF a
  <2> QED
    BY <1>10, <1>12, <1>13, <1>15, <1>16
<1>18. Picked(es, N) = a
  <2> HIDE DEF a
  <2> QED
    BY <1>15, <1>16, <1>17, SeqEqual
<1> QED
  BY <1>10, <1>18 DEF N

\* What is picked was there.
LEMMA PickedType ==
    ASSUME NEW S, NEW es \in Seq(S), NEW M \in SUBSET (1..Len(es))
    PROVE  /\ Picked(es, M) \in Seq(S)
           /\ \A k \in 1..Len(Picked(es, M)) : \E i \in 1..Len(es) : Picked(es, M)[k] = es[i]
<1>1. Len(es) \in Nat
  OBVIOUS
<1>2. /\ Cardinality(M) \in Nat
      /\ \A k \in 1..Cardinality(M) : Spot(M, k) \in M
  BY <1>1, Ranks
<1>3. ASSUME NEW k \in 1..Cardinality(M) PROVE Spot(M, k) \in 1..Len(es) /\ es[Spot(M, k)] \in S
  <2>1. Spot(M, k) \in 1..Len(es)
    BY <1>2
  <2> QED
    BY <2>1, ElementOfSeq
<1>4. /\ Picked(es, M) \in Seq(S) /\ Len(Picked(es, M)) = Cardinality(M)
      /\ \A k \in 1..Cardinality(M) : Picked(es, M)[k] = es[Spot(M, k)]
  BY <1>2, <1>3 DEF Picked
<1> QED
  BY <1>3, <1>4

LEMMA PickedNone == \A es : Picked(es, {}) = <<>>
<1>1. Cardinality({}) = 0
  BY FS_EmptySet
<1> QED
  BY <1>1 DEF Picked

(***************************************************************************)
(* The loop of an operation selects what the operation is about.           *)
(***************************************************************************)

Workable == Kinds \ {"unusable"}

Starts(w, e) == w.kind \in {"after", "between"} /\ e.name = w.from

Ends(w, e) == \/ w.kind = "before" /\ e.name = w.from
              \/ w.kind = "between" /\ e.name = w.to

Over(w, es, n) == \E k \in 1..n : Ends(w, es[k])

Reached(w, es, n) == \E k \in 1..n : Starts(w, es[k]) /\ ~Over(w, es, k)

MeantTo(w, es, n) == {i \in 1..n : Meant(w, es, i)}

\* What the loop has after n rounds.
FoundIn(w, es, n) ==
    [over |-> Over(w, es, n), reached |-> Reached(w, es, n),
     events |-> Picked(es, MeantTo(w, es, n))]

\* An operation is about the events its loop takes before it is over.
LEMMA MeantIsTaken ==
    ASSUME NEW w, w.kind \in Workable, NEW es, NEW n \in Nat
    PROVE  Meant(w, es, n) <=> ~Over(w, es, n) /\ Takes(w, es[n], Reached(w, es, n))
<1> DEFINE B(name) == \E j \in 1..n : es[j].name = name
<1>1. CASE w.kind \in {"search", "not", "filter"}
  <2>1. ~Over(w, es, n)
    BY <1>1 DEF Over, Ends
  <2> QED
    BY <1>1, <2>1 DEF Meant, Takes
<1>2. CASE w.kind = "before"
  <2>1. Over(w, es, n) <=> B(w.from)
    BY <1>2 DEF Over, Ends
  <2> QED
    BY <1>2, <2>1 DEF Meant, Takes
<1>3. CASE w.kind = "after"
  <2>1. \A k : ~Over(w, es, k)
    BY <1>3 DEF Over, Ends
  <2>2. Reached(w, es, n) <=> B(w.from)
    BY <1>3, <2>1 DEF Reached, Starts
  <2> QED
    BY <1>3, <2>1, <2>2 DEF Meant, Takes
<1>4. CASE w.kind = "between"
  <2>1. Over(w, es, n) <=> B(w.to)
    BY <1>4 DEF Over, Ends
  <2>2. ASSUME ~Over(w, es, n) PROVE Reached(w, es, n) <=> B(w.from)
    <3>1. \A k \in 1..n : ~Over(w, es, k)
      BY <2>2 DEF Over
    <3> QED
      BY <1>4, <3>1 DEF Reached, Starts
  <2> QED
    BY <1>4, <2>1, <2>2 DEF Meant, Takes
<1> QED
  BY <1>1, <1>2, <1>3, <1>4 DEF Workable, Kinds

\* One more round.
LEMMA RoundFinds ==
    ASSUME NEW w, w.kind \in Workable, NEW S, NEW es \in Seq(S), NEW n \in Nat, n < Len(es)
    PROVE  Round(w, FoundIn(w, es, n), es[n + 1]) = FoundIn(w, es, n + 1)
<1> DEFINE e == es[n + 1]
           o == Over(w, es, n)
           r == Reached(w, es, n)
           p == Picked(es, MeantTo(w, es, n))
           o1 == Over(w, es, n + 1)
           r1 == Reached(w, es, n + 1)
           p1 == Picked(es, MeantTo(w, es, n + 1))
<1>0. \A k \in 1..(n + 1) : k \in 1..n \/ k = n + 1
  OBVIOUS
<1>1. n + 1 \in 1..(n + 1) /\ 1..n \subseteq 1..(n + 1) /\ n + 1 \in Nat
  OBVIOUS
<1>2. o1 <=> o \/ Ends(w, e)
  BY <1>0, <1>1 DEF Over
<1>3. r1 <=> r \/ (Starts(w, e) /\ ~o1)
  BY <1>0, <1>1 DEF Reached
<1>4. Meant(w, es, n + 1) <=> ~o1 /\ Takes(w, e, r1)
  BY <1>1, MeantIsTaken
<1>5. p1 = IF Meant(w, es, n + 1) THEN Append(p, e) ELSE p
  <2>1. CASE Meant(w, es, n + 1)
    <3>1. MeantTo(w, es, n + 1) = MeantTo(w, es, n) \union {n + 1}
      BY <1>0, <1>1, <2>1 DEF MeantTo
    <3>2. MeantTo(w, es, n) \in SUBSET (1..n)
      BY DEF MeantTo
    <3> QED
      BY <2>1, <3>1, <3>2, PickedGrows
  <2>2. CASE ~Meant(w, es, n + 1)
    <3>1. MeantTo(w, es, n + 1) = MeantTo(w, es, n)
      BY <1>0, <1>1, <2>2 DEF MeantTo
    <3> QED
      BY <2>2, <3>1
  <2> QED
    BY <2>1, <2>2
<1>6. o \in BOOLEAN /\ r \in BOOLEAN /\ o1 \in BOOLEAN /\ r1 \in BOOLEAN
  BY DEF Over, Reached
<1>7. FoundIn(w, es, n) = [over |-> o, reached |-> r, events |-> p]
  BY DEF FoundIn
<1>8. FoundIn(w, es, n + 1) = [over |-> o1, reached |-> r1, events |-> p1]
  BY DEF FoundIn
<1> DEFINE f == FoundIn(w, es, n)
           reached == r \/ Starts(w, e)
<1>9. /\ f.over = o /\ f.reached = r /\ f.events = p
      /\ [f EXCEPT !.over = TRUE] = [over |-> TRUE, reached |-> r, events |-> p]
  <2> HIDE DEF o, r, p
  <2>1. f = [over |-> o, reached |-> r, events |-> p]
    BY <1>7
  <2> HIDE DEF f
  <2>2. f.over = o /\ f.reached = r /\ f.events = p
    BY <2>1
  <2>3. [f EXCEPT !.over = TRUE] = [over |-> TRUE, reached |-> r, events |-> p]
    <3>1. \A t : [f EXCEPT !.over = t] = [over |-> t, reached |-> r, events |-> p]
      BY <2>1
    <3> QED
      BY <3>1, Zenon
  <2> QED
    BY <2>2, <2>3
<1>10. Round(w, f, e) =
         IF o \/ Ends(w, e)
         THEN [over |-> TRUE, reached |-> r, events |-> p]
         ELSE [over |-> FALSE, reached |-> reached,
               events |-> IF Takes(w, e, reached) THEN Append(p, e) ELSE p]
  <2> HIDE DEF f, o, r, p, e
  <2> QED
    BY <1>9 DEF Round, Ends, Starts
<1> HIDE DEF o, r, p, e, o1, r1, p1, f
<1>11. CASE o1
  <2>1. r1 = r /\ p1 = p /\ o1 = TRUE
    BY <1>3, <1>4, <1>5, <1>6, <1>11
  <2> QED
    BY <1>2, <1>8, <1>10, <1>11, <2>1 DEF f, e
<1>12. CASE ~o1
  <2>1. r1 = reached /\ o1 = FALSE
    BY <1>3, <1>6, <1>12
  <2>2. p1 = IF Takes(w, e, reached) THEN Append(p, e) ELSE p
    BY <1>4, <1>5, <1>12, <2>1
  <2> HIDE DEF reached
  <2> QED
    BY <1>2, <1>8, <1>10, <1>12, <2>1, <2>2 DEF f, e
<1> QED
  BY <1>11, <1>12

LEMMA ChosenIsPicked ==
    ASSUME NEW w, NEW S, NEW es \in Seq(S)
    PROVE  Chosen(w, es) = Picked(es, MeantTo(w, es, Len(es)))
<1>1. DOMAIN es = 1..Len(es)
  OBVIOUS
<1>2. {i \in DOMAIN es : Meant(w, es, i)} = MeantTo(w, es, Len(es))
  BY <1>1 DEF MeantTo
<1>3. Chosen(w, es) = Picked(es, {i \in DOMAIN es : Meant(w, es, i)})
  BY Zenon DEF Chosen, Picked, Spot, Rank
<1> QED
  BY <1>2, <1>3, Zenon

\* What an operation chooses was there.
LEMMA ChosenType ==
    ASSUME NEW w, NEW S, NEW es \in Seq(S)
    PROVE  /\ Chosen(w, es) \in Seq(S)
           /\ \A k \in 1..Len(Chosen(w, es)) : \E i \in 1..Len(es) : Chosen(w, es)[k] = es[i]
<1>1. MeantTo(w, es, Len(es)) \in SUBSET (1..Len(es))
  BY DEF MeantTo
<1> QED
  BY <1>1, ChosenIsPicked, PickedType

\* The loop selects what the operation is about, in order.
LEMMA SelectIsChosen ==
    ASSUME NEW w, w.kind \in Workable, NEW S, NEW es \in Seq(S)
    PROVE  Select(w, es) = Chosen(w, es)
<1> DEFINE len == Len(es)
           first == [over |-> FALSE, reached |-> FALSE, events |-> <<>>]
           g == [i \in 0..len |-> FoundIn(w, es, i)]
           IsFound(f) == f = [i \in 0..len |-> IF i = 0 THEN first ELSE Round(w, f[i - 1], es[i])]
           found == CHOOSE f : IsFound(f)
<1>1. len \in Nat
  OBVIOUS
<1>2. FoundIn(w, es, 0) = first
  <2>1. Over(w, es, 0) = FALSE /\ Reached(w, es, 0) = FALSE
    BY DEF Over, Reached
  <2>2. MeantTo(w, es, 0) = {}
    BY DEF MeantTo
  <2> QED
    BY <2>1, <2>2, PickedNone, Zenon DEF FoundIn
<1> HIDE DEF first
<1>3. ASSUME NEW n \in Nat, n < len
      PROVE  Round(w, FoundIn(w, es, n), es[n + 1]) = FoundIn(w, es, n + 1)
  BY <1>3, RoundFinds
<1> HIDE DEF len
<1>4. IsFound(g)
  <2>1. ASSUME NEW i \in 0..len
        PROVE  FoundIn(w, es, i) = IF i = 0 THEN first ELSE Round(w, g[i - 1], es[i])
    <3>1. CASE i = 0
      BY <1>2, <3>1
    <3>2. CASE i # 0
      <4> DEFINE n == i - 1
      <4>1. n \in Nat /\ n < len /\ n \in 0..len /\ n + 1 = i
        BY <1>1, <3>2
      <4>2. g[n] = FoundIn(w, es, n)
        BY <4>1
      <4>3. Round(w, FoundIn(w, es, n), es[n + 1]) = FoundIn(w, es, n + 1)
        BY <4>1, <1>3
      <4> HIDE DEF g
      <4> QED
        BY <3>2, <4>1, <4>2, <4>3
    <3> QED
      BY <3>1, <3>2
  <2> QED
    BY <2>1
<1>5. IsFound(found)
  BY <1>4, Zenon
<1> HIDE DEF found, g
<1> DEFINE T == {n \in Nat : n <= len => found[n] = FoundIn(w, es, n)}
<1>6. T = Nat
  <2>1. 0 \in T
    BY <1>1, <1>2, <1>5
  <2>2. ASSUME NEW n \in T PROVE n + 1 \in T
    <3>1. n \in Nat /\ n + 1 \in Nat /\ (n <= len => found[n] = FoundIn(w, es, n))
      <4>1. n \in Nat
        OBVIOUS
      <4>2. n + 1 \in Nat
        BY <4>1
      <4> QED
        BY <4>1, <4>2, Zenon
    <3>2. ASSUME n + 1 <= len PROVE found[n + 1] = FoundIn(w, es, n + 1)
      <4>1. n + 1 \in 0..len /\ n + 1 # 0 /\ n <= len /\ n < len /\ (n + 1) - 1 = n
        BY <1>1, <3>1, <3>2
      <4>2. found[n + 1] = Round(w, found[n], es[n + 1])
        BY <1>5, <4>1
      <4> QED
        BY <1>3, <3>1, <4>1, <4>2
    <3> QED
      BY <3>1, <3>2, Zenon
  <2>3. T \in SUBSET Nat
    OBVIOUS
  <2> HIDE DEF T
  <2> QED
    BY <2>1, <2>2, <2>3, InductiveSet
<1>7. found[len] = FoundIn(w, es, len)
  <2>1. len \in T /\ len <= len
    BY <1>1, <1>6
  <2> QED
    BY <2>1
<1>8. Select(w, es) = found[len].events
  BY Zenon DEF Select, found, first, len
<1> QED
  BY <1>7, <1>8, ChosenIsPicked DEF FoundIn, len

(***************************************************************************)
(* What the operations of a script leave, one after the other.             *)
(***************************************************************************)

Leaves(left, ops, es, n) ==
    left = [i \in 0..n |-> IF i = 0 THEN es ELSE Chosen(ops[i], left[i - 1])]

LEMMA LeavesExists ==
    ASSUME NEW ops, NEW es
    PROVE  \A n \in Nat : \E left : Leaves(left, ops, es, n)
<1> DEFINE T == {n \in Nat : \E left : Leaves(left, ops, es, n)}
<1>1. 0 \in T
  <2>1. Leaves([i \in 0..0 |-> es], ops, es, 0)
    BY DEF Leaves
  <2> QED
    BY <2>1
<1>2. ASSUME NEW n \in T PROVE n + 1 \in T
  <2>1. n \in Nat /\ n + 1 \in Nat
    OBVIOUS
  <2>2. PICK left : Leaves(left, ops, es, n)
    OBVIOUS
  <2> DEFINE more == [i \in 0..(n + 1) |->
                         IF i = n + 1 THEN Chosen(ops[n + 1], left[n]) ELSE left[i]]
  <2>3. ASSUME NEW i \in 0..(n + 1)
        PROVE  more[i] = IF i = 0 THEN es ELSE Chosen(ops[i], more[i - 1])
    <3>1. CASE i = n + 1
      BY <2>1, <3>1
    <3>2. CASE i # n + 1
      <4>1. i \in 0..n /\ (i = 0 \/ i - 1 \in 0..n) /\ more[i] = left[i]
        BY <2>1, <3>2
      <4>2. i # 0 => more[i - 1] = left[i - 1]
        BY <2>1, <3>2, <4>1
      <4> HIDE DEF more
      <4> QED
        BY <2>2, <4>1, <4>2 DEF Leaves
    <3> QED
      BY <3>1, <3>2
  <2>4. Leaves(more, ops, es, n + 1)
    BY <2>3 DEF Leaves
  <2> QED
    BY <2>1, <2>4, Zenon
<1>3. T = Nat
  <2> HIDE DEF T
  <2>1. T \in SUBSET Nat
    BY DEF T
  <2> QED
    BY <1>1, <1>2, <2>1, InductiveSet
<1> QED
  BY <1>3

\* An operation goes on from what the last one left.
LEMMA LeftSteps ==
    ASSUME NEW ops, Len(ops) \in Nat, NEW es
    PROVE  /\ LeftOf(ops, es)[0] = es
           /\ \A n \in 1..Len(ops) : LeftOf(ops, es)[n] = Chosen(ops[n], LeftOf(ops, es)[n - 1])
           /\ Meaning(ops, es) = LeftOf(ops, es)[Len(ops)]
<1> DEFINE left == LeftOf(ops, es)
<1>1. \E l : Leaves(l, ops, es, Len(ops))
  BY LeavesExists
<1>2. left = CHOOSE l : Leaves(l, ops, es, Len(ops))
  BY Zenon DEF LeftOf, Leaves
<1>3. Leaves(left, ops, es, Len(ops))
  BY <1>1, <1>2, Zenon
<1>4. Meaning(ops, es) = left[Len(ops)]
  BY Zenon DEF Meaning, LeftOf
<1> HIDE DEF left
<1>5. left[0] = es /\ \A n \in 1..Len(ops) : left[n] = Chosen(ops[n], left[n - 1])
  BY <1>3 DEF Leaves
<1> QED
  BY <1>4, <1>5 DEF left

(***************************************************************************)
(* The names of output files, and their numbers.                           *)
(***************************************************************************)

\* There is a number for the name of a new file: with one more number than there are
\* files, not all can be taken.
LEMMA FreshName ==
    ASSUME IsFiniteSet(DOMAIN files)
    PROVE  OutputName \notin DOMAIN files
<1> DEFINE c == Cardinality(DOMAIN files)
           name(i) == <<logfilefiles[logs].name, scriptfiles[1].name, i>>
           taken == {i \in 0..c : name(i) \in DOMAIN files}
           free == {i \in 0..c : i \notin taken}
           IsNew(i) == i \notin taken /\ \A j \in 0..(i - 1) : j \in taken
           new == CHOOSE i \in 0..c : IsNew(i)
<1>1. c \in Nat
  BY FS_CardinalityType
<1>2. free # {}
  <2> SUFFICES ASSUME free = {} PROVE FALSE
    OBVIOUS
  <2> DEFINE names == [i \in 0..c |-> name(i)]
  <2>1. \A i \in 0..c : name(i) \in DOMAIN files
    OBVIOUS
  <2>2. names \in [0..c -> DOMAIN files]
    <3> HIDE DEF name
    <3> QED
      BY <2>1
  <2>3. \A i, j \in 0..c : names[i] = names[j] => i = j
    <3>1. \A i, j : name(i) = name(j) => i = j
      OBVIOUS
    <3>2. \A i \in 0..c : names[i] = name(i)
      OBVIOUS
    <3> HIDE DEF names, name
    <3> QED
      BY <3>1, <3>2
  <2> HIDE DEF names
  <2>4. names \in Injection(0..c, DOMAIN files)
    BY <2>2, <2>3 DEF Injection, IsInjective
  <2>5. Cardinality(0..c) <= c
    BY <2>4, FS_Injection
  <2>6. Cardinality(0..c) = c + 1
    BY <1>1, FS_Interval
  <2> QED
    BY <1>1, <2>5, <2>6
<1>3. PICK m \in free : \A k \in free : m <= k
  <2>1. free \in SUBSET Nat
    BY <1>1
  <2> HIDE DEF free
  <2> QED
    BY <1>2, <2>1, LeastNumber
<1>4. m \in 0..c /\ IsNew(m)
  <2>1. ASSUME NEW j \in 0..(m - 1) PROVE j \in taken
    <3>1. j \in 0..c /\ j < m
      BY <1>1, <1>3
    <3> HIDE DEF taken
    <3> QED
      BY <1>1, <1>3, <3>1
  <2> QED
    BY <1>3, <2>1
<1> HIDE DEF IsNew
<1>5. new \in 0..c /\ IsNew(new)
  BY <1>4, Zenon
<1>6. OutputName = name(new)
  BY Zenon DEF OutputName, IsNew
<1> HIDE DEF new
<1>7. new \notin taken
  BY <1>5 DEF IsNew
<1> QED
  BY <1>5, <1>6, <1>7

LEMMA Product ==
    ASSUME NEW n \in Nat, NEW q \in Nat, NEW p \in Nat, q < p
    PROVE  q * n \in Nat /\ p * n \in Nat /\ q * n + n <= p * n
<1> DEFINE d == p - q - 1
<1>1. d \in Nat /\ p = q + 1 + d
  OBVIOUS
<1> HIDE DEF d
<1>2. p * n = q * n + n + d * n
  BY <1>1
<1>3. q * n \in Nat /\ d * n \in Nat
  BY <1>1
<1> DEFINE a == q * n
           b == d * n
           c == p * n
<1>4. a \in Nat /\ b \in Nat /\ c = a + n + b
  BY <1>2, <1>3
<1> HIDE DEF a, b, c
<1>5. c \in Nat /\ a + n <= c
  BY <1>4
<1> QED
  BY <1>4, <1>5 DEF a, c

LEMMA Quotient ==
    ASSUME NEW a \in Nat, NEW n \in Nat, n > 0
    PROVE  a = (a \div n) * n + (a % n)
BY SMT

\* The quotient and the remainder are the only ones.
LEMMA Division ==
    ASSUME NEW n \in Nat, n > 0, NEW q \in Nat, NEW r \in 0..(n - 1)
    PROVE  (q * n + r) \div n = q /\ (q * n + r) % n = r
<1> DEFINE a == q * n
           d == (a + r) \div n
           m == (a + r) % n
           b == d * n
<1>1. a \in Nat
  OBVIOUS
<1> HIDE DEF a
<1>2. d \in Nat /\ m \in 0..(n - 1)
  BY <1>1, SMTT(30)
<1>3. a + r = b + m
  <2> DEFINE x == a + r
  <2>1. x \in Nat
    BY <1>1
  <2> HIDE DEF x
  <2>2. x = (x \div n) * n + (x % n)
    BY <2>1, Quotient
  <2> QED
    BY <2>2 DEF x
<1> HIDE DEF d, m
<1>4. b \in Nat /\ a + r = b + m
  BY <1>2, <1>3
<1>5. ~(q < d)
  <2> SUFFICES ASSUME q < d PROVE FALSE
    OBVIOUS
  <2>1. a + n <= b
    BY <1>2, Product DEF a
  <2> HIDE DEF b
  <2> QED
    BY <1>1, <1>2, <1>4, <2>1
<1>6. ~(d < q)
  <2> SUFFICES ASSUME d < q PROVE FALSE
    OBVIOUS
  <2>1. b + n <= a
    BY <1>2, Product DEF a
  <2> HIDE DEF b
  <2> QED
    BY <1>1, <1>2, <1>4, <2>1
<1>7. q = d
  BY <1>2, <1>5, <1>6
<1>8. a = b
  BY <1>7 DEF a
<1>9. r = m
  <2> HIDE DEF b
  <2> QED
    BY <1>1, <1>2, <1>4, <1>8
<1> QED
  BY <1>7, <1>9 DEF a, d, m

(***************************************************************************)
(* What the steps leave as it was.                                         *)
(***************************************************************************)

\* The s-th output file of the l-th log file.
LEMMA PositionOf ==
    ASSUME Len(scripts) \in Nat, NEW l \in Nat \ {0}, NEW s \in 1..Len(scripts)
    PROVE  /\ LogOf((l - 1) * Len(scripts) + s) = l
           /\ ScriptOf((l - 1) * Len(scripts) + s) = s
<1> DEFINE n == Len(scripts)
           q == l - 1
           a == q * n
<1>1. n \in Nat /\ n > 0 /\ q \in Nat /\ s - 1 \in 0..(n - 1)
  OBVIOUS
<1> HIDE DEF n, q
<1>2. a \in Nat
  BY <1>1
<1>3. (a + (s - 1)) \div n = q /\ (a + (s - 1)) % n = s - 1
  BY <1>1, Division
<1> HIDE DEF a
<1>4. (a + s) - 1 = a + (s - 1)
  BY <1>1, <1>2
<1>5. LogOf(a + s) = q + 1 /\ ScriptOf(a + s) = (s - 1) + 1
  BY <1>3, <1>4 DEF LogOf, ScriptOf, n
<1> QED
  BY <1>5 DEF a, q, n

\* What a sequence begins with is a prefix of it.
LEMMA PrefixOf ==
    ASSUME NEW S, NEW s \in Seq(S), NEW a \in Seq(S), Len(s) <= Len(a),
           \A i \in 1..Len(s) : a[i] = s[i]
    PROVE  IsPrefix(s, a)
<1> DEFINE n == Len(s)
           p == SubSeq(s, 1, n)
           q == SubSeq(a, 1, n)
<1>1. n \in Nat /\ n \in Int /\ 1 \in Int /\ Len(a) \in Nat /\ n <= Len(a)
  OBVIOUS
<1>2. \A i \in 1..n : s[i] \in S /\ a[i] \in S /\ a[i] = s[i]
  BY ElementOfSeq
<1> HIDE DEF n
<1>3. /\ p \in Seq(S) /\ Len(p) = (IF 1 <= n THEN n - 1 + 1 ELSE 0)
      /\ \A i \in 1..(n - 1 + 1) : p[i] = s[1 + i - 1]
  BY <1>1, <1>2, SubSeqProperties
<1>4. /\ q \in Seq(S) /\ Len(q) = (IF 1 <= n THEN n - 1 + 1 ELSE 0)
      /\ \A i \in 1..(n - 1 + 1) : q[i] = a[1 + i - 1]
  BY <1>1, <1>2, SubSeqProperties
<1> HIDE DEF p, q
<1>5. Len(p) = n /\ Len(q) = n
  BY <1>1, <1>3, <1>4
<1>6. ASSUME NEW i \in 1..n PROVE p[i] = q[i]
  <2>1. i \in 1..(n - 1 + 1) /\ 1 + i - 1 = i
    BY <1>1
  <2> QED
    BY <1>2, <1>3, <1>4, <2>1
<1>7. p = q
  BY <1>3, <1>4, <1>5, <1>6, SeqEqual
<1> QED
  BY <1>1, <1>7 DEF IsPrefix, p, q, n

\* So is the first part of a sequence in two.
LEMMA FirstPart ==
    ASSUME NEW S, NEW s \in Seq(S), NEW t \in Seq(S)
    PROVE  IsPrefix(s, s \o t)
<1> DEFINE a == s \o t
<1>1. /\ a \in Seq(S) /\ Len(a) = Len(s) + Len(t) /\ Len(s) \in Nat /\ Len(t) \in Nat
      /\ \A i \in 1..(Len(s) + Len(t)) : a[i] = IF i <= Len(s) THEN s[i] ELSE t[i - Len(s)]
  BY ConcatProperties
<1> HIDE DEF a
<1>2. \A i \in 1..Len(s) : a[i] = s[i]
  BY <1>1
<1>3. Len(s) <= Len(a)
  BY <1>1
<1> QED
  BY <1>1, <1>2, <1>3, PrefixOf DEF a

\* The output files that were made are sequences of entries.
LEMMA FilesType ==
    ASSUME Types, NEW k \in DOMAIN made
    PROVE  files[made[k]] \in Seq(Entries)
<1>1. files \in [DOMAIN files -> Seq(Entries)] /\ made \in Seq(DOMAIN files)
  BY DEF Types
<1>2. made[k] \in DOMAIN files
  BY <1>1
<1> QED
  BY <1>1, <1>2

\* A step that neither touches the output files nor goes on after one.
LEMMA FilesStay ==
    ASSUME Types, ResultsAreMeant, LinesHaveASource,
           made' = made, files' = files, logfilefiles' = logfilefiles,
           scriptfiles' = scriptfiles, Len(scripts') = Len(scripts),
           \/ /\ pc # "false"
              /\ pc \in {"alert", "write", "thrown"} => pc' \in {"alert", "write", "thrown"}
           \/ pc' = "false" /\ output'.events # <<>>
           \/ UNCHANGED <<pc, output>>
    PROVE  ResultsAreMeant' /\ LinesHaveASource'
<1>1. \A k : LogOf(k)' = LogOf(k) /\ ScriptOf(k)' = ScriptOf(k) /\ (Written(k)' => Written(k))
  BY DEF LogOf, ScriptOf, Written
<1>2. ResultsAreMeant'
  <2> SUFFICES ASSUME NEW k \in DOMAIN made,
                      \A l \in 1..(LogOf(k) - 1) : ~EndsEarly(logfilefiles[l])
               PROVE  IsOutput(files[made[k]], Written(k)',
                               Meaning(scriptfiles[ScriptOf(k)].ops,
                                       EventsOf(logfilefiles[LogOf(k)])))
    BY <1>1 DEF ResultsAreMeant
  <2> DEFINE got == files[made[k]]
             meant == Meaning(scriptfiles[ScriptOf(k)].ops, EventsOf(logfilefiles[LogOf(k)]))
  <2>1. got \in Seq(Entries)
    BY FilesType
  <2>2. IsOutput(got, Written(k), meant)
    BY DEF ResultsAreMeant
  <2> HIDE DEF got, meant
  <2>3. got = meant => IsPrefix(got, meant)
    <3>1. IsPrefix(got, got)
      BY <2>1, PrefixOf
    <3> QED
      BY <3>1
  <2>4. IsOutput(got, Written(k)', meant)
    BY <1>1, <2>2, <2>3 DEF IsOutput
  <2> QED
    BY <2>4 DEF got, meant
<1>3. LinesHaveASource'
  BY <1>1 DEF LinesHaveASource
<1> QED
  BY <1>2, <1>3

LEMMA NoFiles ==
    /\ made = <<>> => Distinct /\ ResultsAreMeant /\ LinesHaveASource
    /\ made' = <<>> => Distinct' /\ ResultsAreMeant' /\ LinesHaveASource'
<1>1. \A m : m = <<>> => Len(m) = 0 /\ DOMAIN m = {}
  OBVIOUS
<1>2. made = <<>> => Distinct /\ ResultsAreMeant /\ LinesHaveASource
  BY <1>1 DEF Distinct, ResultsAreMeant, LinesHaveASource
<1>3. made' = <<>> => Distinct' /\ ResultsAreMeant' /\ LinesHaveASource'
  BY <1>1 DEF Distinct, ResultsAreMeant, LinesHaveASource
<1> QED
  BY <1>2, <1>3

\* The lines of a file, and the operations of a script.
LEMMA LinesType ==
    ASSUME Types, NEW l \in 1..Len(logfilefiles), LinesOf(l) # "directory"
    PROVE  LinesOf(l) \in Seq(Lines)
<1>1. logfilefiles[l] \in LogFiles
  BY DEF Types
<1> DEFINE f == logfilefiles[l]
<1>2. f.lines \in Seq(ToSet(f.lines))
  BY <1>1, FilesAssumption DEF LinesOf
<1>3. ToSet(f.lines) \subseteq Lines
  BY <1>1 DEF Lines, LinesOf
<1> HIDE DEF f
<1>4. f.lines \in Seq(Lines)
  BY <1>2, <1>3
<1> QED
  BY <1>4 DEF f, LinesOf

LEMMA OpsType ==
    ASSUME Types, NEW i \in 1..Len(scriptfiles), Ops(i) # "invalid"
    PROVE  /\ Ops(i) \in Seq(Words)
           /\ \A j \in 1..Len(Ops(i)) : Ops(i)[j].kind \in Kinds
<1>1. scriptfiles[i] \in ScriptFiles
  BY DEF Types
<1> DEFINE f == scriptfiles[i]
<1>2. f.ops \in Seq(ToSet(f.ops)) /\ \A o \in ToSet(f.ops) : o.kind \in Kinds
  BY <1>1, FilesAssumption DEF Ops
<1>3. ToSet(f.ops) \subseteq Words
  BY <1>1 DEF Words, Ops
<1>4. f.ops = Ops(i)
  BY DEF Ops
<1> HIDE DEF f
<1>5. f.ops \in Seq(Words)
  BY <1>2, <1>3
<1>6. \A j \in 1..Len(f.ops) : f.ops[j] \in ToSet(f.ops)
  BY <1>2
<1> QED
  BY <1>2, <1>4, <1>5, <1>6

(***************************************************************************)
(* The steps.                                                              *)
(***************************************************************************)

LEMMA Initially == Init => Inv
<1> SUFFICES ASSUME Init PROVE Inv
  OBVIOUS
<1>1. files \in [DOMAIN files -> Seq(Entries)]
  <2> DEFINE all == UNION {ToSet(OldOutputs[n]) : n \in DOMAIN OldOutputs}
  <2>1. OldOutputs \in [DOMAIN OldOutputs -> Seq(all)]
    BY OutputsAssumption
  <2>2. all \subseteq Entries
    BY DEF Entries
  <2> HIDE DEF all
  <2>3. Seq(all) \subseteq Seq(Entries)
    BY <2>2
  <2> HIDE DEF Entries
  <2> QED
    BY <2>1, <2>3 DEF Init
<1>2. Types
  BY <1>1, OutputsAssumption DEF Init, Types, Closed
<1>3. Counted
  BY DEF Init, Counted, Closed, AtWork
<1>4. made = <<>> /\ scripts = <<>> /\ pc = "menu"
  BY DEF Init
<1>5. Parsed
  BY <1>4 DEF Parsed
<1>6. Spent /\ Streamed /\ Selected
  BY <1>4 DEF Spent, Streamed, Selected, AtWork
<1> QED
  BY <1>2, <1>3, <1>4, <1>5, <1>6, NoFiles DEF Inv

\* Before the analysis there are no output files, and no log file was begun.
LEMMA MenuStep ==
    ASSUME Inv, pc = "menu", pc' \in {"menu", "parse"},
           logfilefiles' \in Seq(LogFiles), Len(logfilefiles') >= Len(logfilefiles),
           scriptfiles' \in Seq(ScriptFiles), Len(scriptfiles') >= Len(scriptfiles),
           \A i \in 1..Len(scriptfiles) : scriptfiles'[i] = scriptfiles[i],
           configfile' \in {"none", "valid", "invalid"},
           UNCHANGED <<scripts, logs, reader, events, script, op, output, made, files>>
    PROVE  Inv'
<1>1. Types /\ Counted /\ Parsed
  BY DEF Inv
<1>2. logs = 0 /\ made = <<>>
  BY <1>1 DEF Counted
<1>3. Types'
  BY <1>1, <1>2 DEF Types
<1>4. Counted'
  BY <1>1, <1>2 DEF Counted, AtWork
<1>5. Parsed'
  <2>1. ASSUME NEW i \in 1..Len(scripts) PROVE Ops(i)' = Ops(i)
    <3>1. i \in 1..Len(scriptfiles)
      BY <1>1 DEF Types
    <3> QED
      BY <3>1 DEF Ops
  <2> QED
    BY <1>1, <2>1 DEF Parsed
<1>6. Spent' /\ Streamed' /\ Selected'
  BY DEF Spent, Streamed, Selected, AtWork
<1>7. Distinct' /\ ResultsAreMeant' /\ LinesHaveASource'
  BY <1>2, NoFiles
<1> QED
  BY <1>3, <1>4, <1>5, <1>6, <1>7 DEF Inv

LEMMA MenuSteps ==
    ASSUME Inv,
           \/ \E f \in LogFiles : AddLogFile(f)
           \/ \E f \in ScriptFiles : AddScriptFile(f)
           \/ \E c \in {"valid", "invalid"} : AddConfigFile(c)
           \/ StartAnalysis
    PROVE  Inv'
<1>1. Types
  BY DEF Inv
<1>2. logfilefiles \in Seq(LogFiles) /\ scriptfiles \in Seq(ScriptFiles)
      /\ configfile \in {"none", "valid", "invalid"}
  BY <1>1 DEF Types
<1>3. CASE \E f \in LogFiles : AddLogFile(f)
  <2>1. PICK f \in LogFiles : AddLogFile(f)
    BY <1>3
  <2>2. logfilefiles' \in Seq(LogFiles) /\ Len(logfilefiles') >= Len(logfilefiles)
    BY <1>2, <2>1 DEF AddLogFile
  <2> QED
    BY <1>2, <2>1, <2>2, MenuStep DEF AddLogFile
<1>4. CASE \E f \in ScriptFiles : AddScriptFile(f)
  <2>1. PICK f \in ScriptFiles : AddScriptFile(f)
    BY <1>4
  <2>2. /\ scriptfiles' \in Seq(ScriptFiles) /\ Len(scriptfiles') >= Len(scriptfiles)
        /\ \A i \in 1..Len(scriptfiles) : scriptfiles'[i] = scriptfiles[i]
    BY <1>2, <2>1 DEF AddScriptFile
  <2> QED
    BY <1>2, <2>1, <2>2, MenuStep DEF AddScriptFile
<1>5. CASE \E c \in {"valid", "invalid"} : AddConfigFile(c)
  BY <1>2, <1>5, MenuStep DEF AddConfigFile
<1>6. CASE StartAnalysis
  BY <1>2, <1>6, MenuStep DEF StartAnalysis
<1> QED
  BY <1>3, <1>4, <1>5, <1>6

LEMMA ParseScriptStep ==
    ASSUME Inv, ParseScript
    PROVE  Inv'
<1>1. Types /\ Counted /\ Parsed /\ pc = "parse"
  BY DEF Inv, ParseScript
<1>2. logs = 0 /\ made = <<>> /\ script = 1 /\ ~reader.open
  BY <1>1 DEF Counted
<1>3. UNCHANGED <<logfilefiles, scriptfiles, configfile, logs, reader, events, script, op,
                  output, made, files>>
  BY DEF ParseScript
<1>4. Distinct' /\ ResultsAreMeant' /\ LinesHaveASource'
  BY <1>2, <1>3, NoFiles
<1> DEFINE i == Len(scripts) + 1
           n == Len(scripts')
<1>5. \/ scripts' = scripts /\ pc' = "false"
      \/ scripts' = scripts /\ pc' = "logs" /\ Len(scripts) = Len(scriptfiles)
      \/ /\ pc' = "parse" /\ Len(scripts) < Len(scriptfiles) /\ Ops(i) # "invalid"
         /\ scripts' = Append(scripts, [j \in DOMAIN Ops(i) |-> [keyword |-> TRUE, words |-> Ops(i)[j]]])
  BY <1>1 DEF ParseScript, Ops
<1>6. CASE scripts' = scripts /\ pc' \in {"false", "logs"}
  <2>1. Types'
    BY <1>1, <1>3, <1>6 DEF Types
  <2>2. Counted'
    <3>1. 0 * Len(scripts) = 0
      BY <1>1 DEF Types
    <3> QED
      BY <1>1, <1>2, <1>3, <1>5, <1>6, <3>1 DEF Counted, AtWork
  <2>3. Parsed'
    BY <1>1, <1>3, <1>6 DEF Parsed, Ops
  <2>4. Spent'
    <3>1. logs' = 0 /\ ~(pc' = "alert")
      BY <1>2, <1>3, <1>6
    <3>2. \A s : ~RunOn(1, s)' /\ ~(logs' > 1)
      BY <3>1 DEF RunOn
    <3> QED
      BY <3>1, <3>2 DEF Spent
  <2>5. Streamed'
    <3>1. ~reader'.open
      BY <1>2, <1>3
    <3> QED
      BY <1>6, <3>1 DEF Streamed, AtWork
  <2>6. Selected'
    BY <1>6 DEF Selected
  <2> QED
    BY <1>4, <2>1, <2>2, <2>3, <2>4, <2>5, <2>6 DEF Inv
<1>7. CASE /\ pc' = "parse" /\ Len(scripts) < Len(scriptfiles) /\ Ops(i) # "invalid"
           /\ scripts' = Append(scripts, [j \in DOMAIN Ops(i) |-> [keyword |-> TRUE, words |-> Ops(i)[j]]])
  <2> DEFINE s == [j \in DOMAIN Ops(i) |-> [keyword |-> TRUE, words |-> Ops(i)[j]]]
             T == [keyword : BOOLEAN, words : Words]
  <2>1. Ops(i) \in Seq(Words)
    <3>1. i \in 1..Len(scriptfiles)
      BY <1>1, <1>7 DEF Types
    <3> QED
      BY <1>1, <1>7, <3>1, OpsType
  <2>2. s \in Seq(T) /\ Len(s) = Len(Ops(i))
        /\ \A j \in 1..Len(s) : s[j].words = Ops(i)[j]
    <3>1. \A w \in Words : [keyword |-> TRUE, words |-> w] \in T
      OBVIOUS
    <3>2. DOMAIN Ops(i) = 1..Len(Ops(i)) /\ Len(Ops(i)) \in Nat
          /\ \A j \in 1..Len(Ops(i)) : Ops(i)[j] \in Words
      BY <2>1
    <3>3. \A j \in 1..Len(Ops(i)) : [keyword |-> TRUE, words |-> Ops(i)[j]] \in T
      BY <3>1, <3>2
    <3> HIDE DEF T
    <3>4. s \in Seq(T) /\ Len(s) = Len(Ops(i))
      BY <3>2, <3>3
    <3> QED
      BY <3>2, <3>4
  <2>3. scripts \in Seq(Seq(T)) /\ scripts' = Append(scripts, s)
    BY <1>1, <1>7 DEF Types
  <2> HIDE DEF s, T
  <2>4. /\ scripts' \in Seq(Seq(T)) /\ Len(scripts') = Len(scripts) + 1 /\ scripts'[i] = s
        /\ \A j \in 1..Len(scripts) : scripts'[j] = scripts[j]
    BY <2>2, <2>3
  <2>5. Types'
    BY <1>1, <1>2, <1>3, <1>7, <2>4 DEF Types, T
  <2>6. Counted'
    BY <1>2, <1>3, <1>7 DEF Counted, AtWork
  <2>7. Parsed'
    <3> SUFFICES ASSUME NEW k \in 1..Len(scripts')
                 PROVE  /\ Ops(k) # "invalid" /\ Len(scripts'[k]) = Len(Ops(k))
                        /\ \A j \in 1..Len(scripts'[k]) : scripts'[k][j].words = Ops(k)[j]
                           \/ (~scripts'[k][j].keyword)
      BY <1>3 DEF Parsed, Ops
    <3>1. CASE k = i
      BY <1>7, <2>2, <2>4, <3>1
    <3>2. CASE k \in 1..Len(scripts)
      BY <1>1, <2>4, <3>2 DEF Parsed
    <3>3. k = i \/ k \in 1..Len(scripts)
      BY <2>3, <2>4
    <3> QED
      BY <3>1, <3>2, <3>3
  <2>8. Spent' /\ Streamed' /\ Selected'
    BY <1>7 DEF Spent, Streamed, Selected, AtWork
  <2> QED
    BY <1>4, <2>5, <2>6, <2>7, <2>8 DEF Inv
<1> QED
  BY <1>5, <1>6, <1>7

LEMMA BeginLogStep ==
    ASSUME Inv, BeginLog
    PROVE  Inv'
<1>1. Types /\ Counted /\ Distinct /\ Parsed /\ Spent /\ Streamed /\ pc = "logs"
  BY DEF Inv, BeginLog
<1>2. UNCHANGED <<logfilefiles, scriptfiles, configfile, scripts, reader, script, op, output,
                  made, files>>
  BY DEF BeginLog
<1>3. ResultsAreMeant /\ LinesHaveASource
  BY DEF Inv
<1> DEFINE n == Len(scripts)
           done == pc' = "true" /\ logs = Len(logfilefiles) /\ UNCHANGED <<logs, events>>
           begun == /\ logs # Len(logfilefiles) /\ logs' = logs + 1 /\ events' = <<>>
                    /\ pc' \in {"false", "thrown", "header"}
                    /\ pc' = "header" => LinesOf(logs + 1) # "directory"
<1>4. done \/ begun
  BY <1>1 DEF BeginLog, LinesOf
<1>5. logs \in Nat /\ n \in Nat /\ Len(logfilefiles) \in Nat /\ Len(made) \in Nat
      /\ logs <= Len(logfilefiles)
  BY <1>1 DEF Types
<1>6. Len(made) = logs * n /\ n = Len(scriptfiles)
  BY <1>1 DEF Counted
<1>7. Types'
  <2>1. CASE done
    BY <1>1, <1>2, <2>1 DEF Types
  <2>2. CASE begun
    <3>1. logs' \in 0..Len(logfilefiles) /\ events' \in Seq(Lines)
      BY <1>5, <2>2
    <3> QED
      BY <1>1, <1>2, <2>2, <3>1 DEF Types
  <2> QED
    BY <1>4, <2>1, <2>2
<1>8. Counted'
  <2>1. CASE done
    BY <1>1, <1>2, <2>1 DEF Counted, AtWork
  <2>2. CASE begun
    <3> DEFINE a == logs * n
               b == (logs + 1) * n
               c == ((logs + 1) - 1) * n
    <3>1. a \in Nat /\ b = a + n /\ c = a
      BY <1>5
    <3> HIDE DEF a, b, c
    <3>2. /\ logs' > 0 /\ logs' # 0 /\ Len(made) = c /\ Len(made) <= b
          /\ (logs' - 1) * n = c /\ logs' * n = b
      <4>1. logs' > 0 /\ logs' # 0
        BY <1>5, <2>2
      <4>2. Len(made) = c /\ Len(made) <= b
        BY <1>5, <1>6, <3>1 DEF a
      <4> QED
        BY <2>2, <4>1, <4>2 DEF b, c
    <3> HIDE DEF n
    <3>3. Len(scripts') = n /\ n = Len(scriptfiles') /\ made' = made
      BY <1>2, <1>6 DEF n
    <3> QED
      BY <2>2, <3>2, <3>3 DEF Counted, AtWork
  <2> QED
    BY <1>4, <2>1, <2>2
<1>9. Distinct' /\ Parsed'
  BY <1>1, <1>2 DEF Distinct, Parsed, Ops
<1>10. Spent'
  <2>1. pc' # "alert"
    BY <1>4
  <2>2. ASSUME NEW i \in 1..Len(scripts)
        PROVE  /\ RunOn(1, i)' => RunOn(1, i)
               /\ logs' > 1 /\ RunOn(2, i)' => logs > 1 /\ RunOn(2, i)
    <3>1. CASE done
      BY <1>1, <1>5, <3>1 DEF RunOn
    <3>2. CASE begun
      <4>1. Turn' = 1 /\ ~(i < 1) /\ pc' # "logs" /\ pc' # "true"
        BY <3>2 DEF Turn
      <4>2. (RunOn(1, i)' => logs' > 1) /\ (RunOn(2, i)' => logs' > 2)
        BY <4>1 DEF RunOn
      <4> QED
        BY <1>1, <1>5, <3>2, <4>2 DEF RunOn
    <3> QED
      BY <1>4, <3>1, <3>2
  <2> QED
    BY <1>1, <1>2, <2>1, <2>2 DEF Spent
<1>11. Streamed'
  <2>1. CASE pc' = "header"
    <3>1. logs' = logs + 1 /\ events' = <<>> /\ LinesOf(logs + 1) # "directory"
          /\ logs + 1 \in 1..Len(logfilefiles)
      BY <1>4, <1>5, <2>1
    <3>2. logfilefiles'[logs'].lines \in Seq(Lines)
      <4>1. LinesOf(logs + 1) \in Seq(Lines)
        BY <1>1, <3>1, LinesType
      <4> QED
        BY <1>2, <3>1, <4>1 DEF LinesOf
    <3>3. ASSUME reader'.open
          PROVE  \E l \in 1..logs' : \E m \in 2..(Len(logfilefiles'[l].lines) + 1) :
                    /\ RestOf(reader'.rest, logfilefiles'[l].lines, m)
                    /\ EndsEarly(logfilefiles'[l]) /\ l < logs'
      <4>1. PICK l \in 1..logs : \E m \in 2..(Len(LinesOf(l)) + 1) :
                   RestOf(reader.rest, LinesOf(l), m) /\ EndsEarly(logfilefiles[l])
        BY <1>1, <1>2, <3>3 DEF Streamed, AtWork
      <4>2. l \in 1..logs' /\ l < logs' /\ logfilefiles'[l].lines = LinesOf(l)
        BY <1>2, <1>5, <3>1 DEF LinesOf
      <4> QED
        BY <1>2, <4>1, <4>2
    <3> QED
      BY <2>1, <3>1, <3>2, <3>3 DEF Streamed, LinesOf
  <2>2. CASE pc' # "header"
    BY <1>4, <2>2 DEF Streamed, AtWork
  <2> QED
    BY <2>1, <2>2
<1>12. Selected'
  BY <1>4 DEF Selected
<1>13. ResultsAreMeant' /\ LinesHaveASource'
  BY <1>1, <1>2, <1>3, FilesStay
<1> QED
  BY <1>7, <1>8, <1>9, <1>10, <1>11, <1>12, <1>13 DEF Inv

\* The next line leaves the rest from the one after it.
LEMMA NextLine ==
    ASSUME NEW s, NEW lines, NEW m \in Nat \ {0}, RestOf(s, lines, m), s \in Seq(Lines), s # <<>>
    PROVE  /\ RestOf(Tail(s), lines, m + 1) /\ Tail(s) \in Seq(Lines)
           /\ m \in 1..Len(lines) /\ Head(s) = lines[m] /\ Head(s) \in Lines
<1>1. Len(s) \in Nat /\ Len(s) > 0 /\ s[1] \in Lines
  OBVIOUS
<1>2. /\ lines \in Seq(Lines) /\ Len(lines) \in Nat /\ Len(s) = Len(lines) - m + 1
      /\ \A i \in 1..Len(s) : s[i] = lines[m + i - 1]
  BY DEF RestOf
<1>3. Head(s) = s[1] /\ s[1] = lines[m]
  BY <1>1, <1>2
<1> DEFINE t == Tail(s)
<1>4. t \in Seq(Lines) /\ Len(t) = Len(s) - 1 /\ \A i \in 1..Len(t) : t[i] = s[i + 1]
  BY HeadTailProperties
<1> HIDE DEF t
<1>5. m \in 1..Len(lines) /\ Len(t) = Len(lines) - (m + 1) + 1
  BY <1>1, <1>2, <1>4
<1>6. ASSUME NEW i \in 1..Len(t) PROVE t[i] = lines[(m + 1) + i - 1]
  <2>1. i + 1 \in 1..Len(s) /\ m + (i + 1) - 1 = (m + 1) + i - 1
    BY <1>1, <1>4
  <2> QED
    BY <1>2, <1>4, <2>1
<1>7. RestOf(t, lines, m + 1)
  BY <1>2, <1>5, <1>6 DEF RestOf
<1> QED
  BY <1>1, <1>3, <1>4, <1>5, <1>7 DEF t

\* Up to a line that is not usable or the end, all events of the file were read.
LEMMA EventsAreRead ==
    ASSUME NEW f, f.lines \in Seq(Lines), NEW m \in 2..(Len(f.lines) + 1), NEW es \in Seq(Lines),
           EventsUpTo(es, f.lines, m), m = Len(f.lines) + 1 \/ ~Usable(f.lines[m])
    PROVE  es = EventsOf(f)
<1> DEFINE lines == f.lines
           IsEnd(i) == /\ \A j \in 2..i : Usable(lines[j])
                       /\ i = Len(lines) \/ ~Usable(lines[i + 1])
           n == CHOOSE i \in 1..Len(lines) : IsEnd(i)
           t == SubSeq(lines, 2, m - 1)
<1>1. Len(lines) \in Nat /\ m \in Nat /\ m - 1 \in 1..Len(lines) /\ m <= Len(lines) + 1
  OBVIOUS
<1>2. /\ Len(es) = m - 2
      /\ \A i \in 1..(m - 2) : es[i] = lines[i + 1] /\ Usable(es[i])
  BY DEF EventsUpTo
<1>3. \A j \in 1..Len(lines) : lines[j] \in Lines
  OBVIOUS
<1>4. m = Len(lines) + 1 \/ ~Usable(lines[m])
  OBVIOUS
<1>5. EventsOf(f) = SubSeq(lines, 2, n)
  BY Zenon DEF EventsOf
<1> HIDE DEF lines
<1>6. ASSUME NEW j \in 2..(m - 1) PROVE Usable(lines[j])
  <2>1. j - 1 \in 1..(m - 2) /\ (j - 1) + 1 = j
    BY <1>1
  <2> QED
    BY <1>2, <2>1
<1>7. IsEnd(m - 1)
  <2>1. m - 1 = Len(lines) \/ ~Usable(lines[(m - 1) + 1])
    BY <1>1, <1>4
  <2> QED
    BY <1>6, <2>1
<1>8. ASSUME NEW i \in 1..Len(lines), IsEnd(i), NEW k \in 1..Len(lines), IsEnd(k), i < k
      PROVE  FALSE
  <2>1. i # Len(lines) /\ i + 1 \in 2..k
    BY <1>1, <1>8
  <2> QED
    BY <1>8, <2>1
<1> HIDE DEF IsEnd
<1>9. n \in 1..Len(lines) /\ IsEnd(n)
  BY <1>1, <1>7, Zenon
<1> HIDE DEF n
<1>10. n = m - 1
  <2>1. ~(n < m - 1) /\ ~(m - 1 < n)
    BY <1>1, <1>7, <1>8, <1>9
  <2> QED
    BY <1>1, <1>9, <2>1
<1>11. /\ t \in Seq(Lines)
       /\ Len(t) = m - 2
       /\ \A i \in 1..(m - 2) : t[i] = lines[i + 1]
  <2> DEFINE b == m - 1
  <2>1. b \in Int /\ b >= 1 /\ b - 2 + 1 = m - 2 /\ \A j \in 2..b : lines[j] \in Lines
    BY <1>1, <1>3
  <2> HIDE DEF b
  <2>2. /\ SubSeq(lines, 2, b) \in Seq(Lines)
        /\ Len(SubSeq(lines, 2, b)) = IF 2 <= b THEN b - 2 + 1 ELSE 0
        /\ \A i \in 1..(b - 2 + 1) : SubSeq(lines, 2, b)[i] = lines[2 + i - 1]
    BY <2>1, SubSeqProperties
  <2>3. t = SubSeq(lines, 2, b)
    BY DEF b
  <2> HIDE DEF t
  <2>4. Len(t) = m - 2
    BY <1>1, <2>1, <2>2, <2>3 DEF b
  <2>5. ASSUME NEW i \in 1..(m - 2) PROVE t[i] = lines[i + 1]
    <3>1. i \in 1..(b - 2 + 1) /\ 2 + i - 1 = i + 1
      BY <1>1, <2>1
    <3> QED
      BY <2>2, <2>3, <3>1
  <2> QED
    BY <2>2, <2>3, <2>4, <2>5
<1> HIDE DEF t
<1>12. es = t
  <2>1. Len(es) = Len(t)
    BY <1>2, <1>11
  <2>2. \A i \in 1..Len(es) : es[i] = t[i]
    BY <1>2, <1>11
  <2> QED
    BY <1>11, <2>1, <2>2, SeqEqual
<1> QED
  BY <1>5, <1>10, <1>12 DEF t

LEMMA ReadHeaderStep ==
    ASSUME Inv, ReadHeader
    PROVE  Inv'
<1>1. Types /\ Counted /\ Distinct /\ Parsed /\ Spent /\ Streamed /\ pc = "header"
      /\ ResultsAreMeant /\ LinesHaveASource
  BY DEF Inv, ReadHeader
<1>2. UNCHANGED <<logfilefiles, scriptfiles, configfile, scripts, logs, events, script, op, output,
                  made, files>>
  BY DEF ReadHeader
<1> DEFINE s == Remaining
<1>3. \/ s = <<>> /\ reader' = Closed /\ pc' = "false"
      \/ s # <<>> /\ reader' = [open |-> TRUE, rest |-> Tail(s)] /\ pc' \in {"false", "events"}
  BY DEF ReadHeader, AfterRead
<1>4. logs \in 1..Len(logfilefiles) /\ events = <<>> /\ LinesOf(logs) \in Seq(Lines)
  BY <1>1 DEF Types, Counted, Streamed, AtWork
<1>5. \/ s = LinesOf(logs)
      \/ \E l \in 1..(logs - 1) : \E m \in 2..(Len(LinesOf(l)) + 1) :
            RestOf(s, LinesOf(l), m) /\ EndsEarly(logfilefiles[l])
  <2>1. CASE ~reader.open
    BY <2>1 DEF Remaining, LinesOf
  <2>2. CASE reader.open
    <3>1. s = reader.rest
      BY <2>2 DEF Remaining
    <3>2. PICK l \in 1..logs : \E m \in 2..(Len(LinesOf(l)) + 1) :
                 RestOf(reader.rest, LinesOf(l), m) /\ EndsEarly(logfilefiles[l]) /\ l < logs
      BY <1>1, <2>2 DEF Streamed, AtWork
    <3>3. l \in 1..(logs - 1)
      BY <1>4, <3>2
    <3> QED
      BY <3>1, <3>2, <3>3
  <2> QED
    BY <2>1, <2>2
<1>6. s \in Seq(Lines)
  <2>1. reader.rest \in Seq(Lines)
    BY <1>1 DEF Types
  <2> QED
    BY <1>4, <2>1 DEF Remaining, LinesOf
<1> HIDE DEF s
<1>7. Types'
  <2>1. reader' \in [open : BOOLEAN, rest : Seq(Lines)] /\ (~reader'.open => reader'.rest = <<>>)
    <3>1. CASE s = <<>>
      <4>1. reader' = [open |-> FALSE, rest |-> <<>>]
        BY <1>3, <3>1 DEF Closed
      <4>2. <<>> \in Seq(Lines)
        OBVIOUS
      <4> QED
        BY <4>1, <4>2
    <3>2. CASE s # <<>>
      <4> DEFINE t == Tail(s)
      <4>1. t \in Seq(Lines)
        BY <1>6, <3>2
      <4>2. reader' = [open |-> TRUE, rest |-> t]
        BY <1>3, <3>2
      <4> HIDE DEF t
      <4> QED
        BY <4>1, <4>2
    <3> QED
      BY <3>1, <3>2
  <2> QED
    BY <1>1, <1>2, <1>3, <2>1 DEF Types
<1>8. Counted'
  BY <1>1, <1>2, <1>3, <1>4 DEF Counted, AtWork
<1>9. Distinct' /\ Parsed'
  BY <1>1, <1>2 DEF Distinct, Parsed, Ops
<1>10. Spent'
  <2>1. \A n, i : RunOn(n, i)' => RunOn(n, i)
    BY <1>1, <1>2, <1>3 DEF RunOn, Turn
  <2> QED
    BY <1>1, <1>2, <1>3, <2>1 DEF Spent, AtWork
<1>11. Streamed'
  <2>1. CASE pc' = "false"
    BY <2>1 DEF Streamed, AtWork
  <2>2. CASE s # <<>> /\ pc' = "events"
    <3> DEFINE t == Tail(s)
    <3>1. reader'.open /\ reader'.rest = t /\ pc' = "events"
      BY <1>3, <2>2
    <3>2. \E l \in 1..logs : \E m \in 2..(Len(LinesOf(l)) + 1) :
             /\ RestOf(t, LinesOf(l), m)
             /\ IF l = logs
                THEN EventsUpTo(events, LinesOf(l), m)
                ELSE /\ EndsEarly(logfilefiles[l])
                     /\ \A i \in 1..Len(events) : events[i] \in ToSet(LinesOf(l))
      <4>1. Len(events) = 0
        BY <1>4
      <4>2. CASE s = LinesOf(logs)
        <5>1. RestOf(s, LinesOf(logs), 1)
          BY <1>6, <4>2 DEF RestOf
        <5>2. RestOf(t, LinesOf(logs), 2) /\ 2 \in 2..(Len(LinesOf(logs)) + 1)
          BY <1>6, <2>2, <5>1, NextLine
        <5>3. EventsUpTo(events, LinesOf(logs), 2)
          BY <4>1 DEF EventsUpTo
        <5> HIDE DEF t
        <5> QED
          BY <1>4, <5>2, <5>3
      <4>3. ASSUME NEW l \in 1..(logs - 1), NEW m \in 2..(Len(LinesOf(l)) + 1),
                   RestOf(s, LinesOf(l), m), EndsEarly(logfilefiles[l])
            PROVE  \E k \in 2..(Len(LinesOf(l)) + 1) : RestOf(t, LinesOf(l), k)
        <5>1. m \in Nat \ {0} /\ m + 1 \in Nat /\ Len(LinesOf(l)) \in Nat
          BY <4>3 DEF RestOf
        <5>2. RestOf(t, LinesOf(l), m + 1) /\ m \in 1..Len(LinesOf(l))
          BY <1>6, <2>2, <4>3, <5>1, NextLine
        <5> HIDE DEF t
        <5>3. m + 1 \in 2..(Len(LinesOf(l)) + 1)
          BY <5>1, <5>2
        <5> QED
          BY <5>2, <5>3
      <4> HIDE DEF t
      <4>4. \A l \in 1..(logs - 1) : l \in 1..logs /\ l # logs
        BY <1>4
      <4> QED
        BY <1>5, <4>1, <4>2, <4>3, <4>4
    <3> HIDE DEF t
    <3> QED
      BY <1>1, <1>2, <1>4, <3>1, <3>2 DEF Streamed, LinesOf
  <2> QED
    BY <1>3, <2>1, <2>2
<1>12. Selected'
  BY <1>3 DEF Selected
<1>13. ResultsAreMeant' /\ LinesHaveASource'
  BY <1>1, <1>2, FilesStay
<1> QED
  BY <1>7, <1>8, <1>9, <1>10, <1>11, <1>12, <1>13 DEF Inv

LEMMA OpenLogFailsStep ==
    ASSUME Inv, OpenLogFails
    PROVE  Inv'
<1>1. Types /\ Counted /\ Distinct /\ Parsed /\ ResultsAreMeant /\ LinesHaveASource
      /\ pc = "header" /\ pc' = "false"
  BY DEF Inv, OpenLogFails
<1>2. UNCHANGED <<logfilefiles, scriptfiles, configfile, scripts, logs, reader, events, script, op,
                  output, made, files>>
  BY DEF OpenLogFails
<1>3. Types' /\ Counted'
  BY <1>1, <1>2 DEF Types, Counted, AtWork
<1>4. Distinct' /\ Parsed'
  BY <1>1, <1>2 DEF Distinct, Parsed, Ops
<1>5. Spent' /\ Streamed' /\ Selected'
  BY <1>1 DEF Spent, Streamed, Selected, AtWork
<1>6. ResultsAreMeant' /\ LinesHaveASource'
  BY <1>1, <1>2, FilesStay
<1> QED
  BY <1>3, <1>4, <1>5, <1>6 DEF Inv

LEMMA ReadEventStep ==
    ASSUME Inv, ReadEvent
    PROVE  Inv'
<1>1. Types /\ Counted /\ Distinct /\ Parsed /\ Spent /\ Streamed /\ pc = "events"
      /\ ResultsAreMeant /\ LinesHaveASource
  BY DEF Inv, ReadEvent
<1>2. UNCHANGED <<logfilefiles, scriptfiles, configfile, scripts, logs, op, output, made, files>>
  BY DEF ReadEvent
<1> DEFINE s == reader.rest
           t == Tail(s)
           e == Head(s)
           n == Len(scripts)
<1>3. s \in Seq(Lines) /\ events \in Seq(Lines)
  BY <1>1 DEF Types
<1>4. logs \in 1..Len(logfilefiles) /\ reader.open /\ Remaining = s
  BY <1>1 DEF Types, Counted, Streamed, AtWork, Remaining
<1>5. reader' = IF s = <<>> THEN Closed ELSE [open |-> TRUE, rest |-> t]
  BY <1>4 DEF ReadEvent, AfterRead
<1> DEFINE more == /\ s # <<>> /\ Usable(e)
                   /\ events' = Append(events, e) /\ pc' = "events" /\ script' = script
           end == /\ s = <<>> \/ ~Usable(e)
                  /\ events' = events /\ pc' \in {"scripts", "thrown"} /\ script' = 1
<1>6. more \/ end
  BY <1>1, <1>4 DEF ReadEvent
<1>7. PICK l \in 1..logs : \E m \in 2..(Len(LinesOf(l)) + 1) :
             /\ RestOf(s, LinesOf(l), m)
             /\ IF l = logs
                THEN EventsUpTo(events, LinesOf(l), m)
                ELSE /\ EndsEarly(logfilefiles[l])
                     /\ \A i \in 1..Len(events) : events[i] \in ToSet(LinesOf(l))
  BY <1>1 DEF Streamed
<1> DEFINE lines == LinesOf(l)
<1>8. PICK m \in 2..(Len(lines) + 1) :
             /\ RestOf(s, lines, m)
             /\ l = logs => EventsUpTo(events, lines, m)
             /\ l # logs => /\ EndsEarly(logfilefiles[l])
                            /\ \A i \in 1..Len(events) : events[i] \in ToSet(lines)
  BY <1>7
<1>9. lines = logfilefiles[l].lines /\ lines \in Seq(Lines) /\ Len(lines) \in Nat
      /\ m \in Nat \ {0} /\ m + 1 \in 2..(Len(lines) + 2)
  BY <1>8 DEF RestOf, LinesOf
<1> HIDE DEF lines
<1>10. ASSUME s # <<>>
       PROVE  /\ RestOf(t, lines, m + 1) /\ t \in Seq(Lines)
              /\ m \in 1..Len(lines) /\ e = lines[m] /\ e \in Lines /\ m + 1 \in 2..(Len(lines) + 1)
  <2>1. /\ RestOf(t, lines, m + 1) /\ t \in Seq(Lines)
        /\ m \in 1..Len(lines) /\ e = lines[m] /\ e \in Lines
    BY <1>3, <1>8, <1>9, <1>10, NextLine
  <2> HIDE DEF t, e
  <2> QED
    BY <1>9, <2>1
<1>11. ASSUME s = <<>> PROVE m = Len(lines) + 1
  BY <1>8, <1>9, <1>11 DEF RestOf
<1>12. reader' \in [open : BOOLEAN, rest : Seq(Lines)] /\ (~reader'.open => reader'.rest = <<>>)
       /\ (s = <<>> => ~reader'.open) /\ (s # <<>> => reader'.open /\ reader'.rest = t)
  <2>1. CASE s = <<>>
    <3>1. reader' = [open |-> FALSE, rest |-> <<>>] /\ <<>> \in Seq(Lines)
      BY <1>5, <2>1 DEF Closed
    <3> QED
      BY <2>1, <3>1
  <2>2. CASE s # <<>>
    <3>1. reader' = [open |-> TRUE, rest |-> t] /\ t \in Seq(Lines)
      BY <1>5, <1>10, <2>2
    <3> HIDE DEF t
    <3> QED
      BY <2>2, <3>1
  <2> QED
    BY <2>1, <2>2
<1> HIDE DEF s, t, e
<1>13. Distinct' /\ Parsed'
  BY <1>1, <1>2 DEF Distinct, Parsed, Ops
<1>14. ResultsAreMeant' /\ LinesHaveASource'
  BY <1>1, <1>2, FilesStay
<1>15. CASE more
  <2>1. /\ events' \in Seq(Lines) /\ Len(events') = Len(events) + 1 /\ events'[Len(events) + 1] = e
        /\ \A i \in 1..Len(events) : events'[i] = events[i]
    BY <1>3, <1>10, <1>15, AppendProperties
  <2>2. Types'
    BY <1>1, <1>2, <1>12, <1>15, <2>1 DEF Types
  <2>3. Counted'
    BY <1>1, <1>2, <1>4, <1>15 DEF Counted, AtWork
  <2>4. Spent'
    <3>1. \A k, i : RunOn(k, i)' => RunOn(k, i)
      BY <1>1, <1>2, <1>15 DEF RunOn, Turn
    <3> QED
      BY <1>1, <1>2, <1>15, <3>1 DEF Spent, AtWork
  <2>5. Streamed'
    <3> DEFINE k == m + 1
    <3>1. k \in 2..(Len(lines) + 1) /\ RestOf(t, lines, k) /\ e = lines[m]
      BY <1>10, <1>15
    <3>2. ASSUME l = logs PROVE EventsUpTo(events', lines, k)
      <4>1. /\ Len(events) = m - 2
            /\ \A i \in 1..(m - 2) : events[i] = lines[i + 1] /\ Usable(events[i])
        BY <1>8, <3>2 DEF EventsUpTo
      <4>2. Len(events') = k - 2
        BY <1>9, <2>1, <4>1
      <4>3. ASSUME NEW i \in 1..(k - 2)
            PROVE  events'[i] = lines[i + 1] /\ Usable(events'[i])
        <5>1. CASE i \in 1..(m - 2)
          BY <2>1, <4>1, <5>1
        <5>2. CASE i = m - 1
          <6>1. i = Len(events) + 1 /\ i + 1 = m
            BY <1>9, <4>1, <5>2
          <6> QED
            BY <1>15, <2>1, <3>1, <6>1
        <5>3. i \in 1..(m - 2) \/ i = m - 1
          BY <1>9
        <5> QED
          BY <5>1, <5>2, <5>3
      <4> QED
        BY <4>2, <4>3 DEF EventsUpTo
    <3>3. ASSUME l # logs
          PROVE  EndsEarly(logfilefiles[l]) /\ \A i \in 1..Len(events') : events'[i] \in ToSet(lines)
      <4>1. e \in ToSet(lines)
        BY <1>9, <1>10, <1>15 DEF ToSet
      <4>2. \A i \in 1..Len(events') : i \in 1..Len(events) \/ i = Len(events) + 1
        BY <1>3, <2>1
      <4> QED
        BY <1>8, <2>1, <3>3, <4>1, <4>2
    <3> HIDE DEF k
    <3>4. reader'.open /\ reader'.rest = t
      BY <1>12, <1>15
    <3>5. \E i \in 1..logs' : \E j \in 2..(Len(logfilefiles'[i].lines) + 1) :
             /\ RestOf(reader'.rest, logfilefiles'[i].lines, j)
             /\ IF i = logs'
                THEN EventsUpTo(events', logfilefiles'[i].lines, j)
                ELSE /\ EndsEarly(logfilefiles'[i])
                     /\ \A h \in 1..Len(events') : events'[h] \in ToSet(logfilefiles'[i].lines)
      <4>1. logfilefiles'[l].lines = lines /\ logs' = logs /\ logfilefiles'[l] = logfilefiles[l]
        BY <1>2, <1>9
      <4> QED
        BY <3>1, <3>2, <3>3, <3>4, <4>1
    <3>6. logfilefiles'[logs'].lines \in Seq(Lines)
      BY <1>1, <1>2 DEF Streamed, AtWork, LinesOf
    <3> QED
      BY <1>15, <3>4, <3>5, <3>6 DEF Streamed, LinesOf
  <2>6. Selected'
    BY <1>15 DEF Selected
  <2> QED
    BY <1>13, <1>14, <2>2, <2>3, <2>4, <2>5, <2>6 DEF Inv
<1>16. CASE end
  <2>1. Types'
    <3>1. script' \in 1..(Len(scripts') + 1)
      BY <1>1, <1>2, <1>16 DEF Types
    <3> QED
      BY <1>1, <1>2, <1>12, <1>16, <3>1 DEF Types
  <2>2. Counted'
    <3> DEFINE a == (logs - 1) * n
    <3>1. a \in Nat /\ Len(made) = a /\ n \in Nat
      BY <1>1, <1>4 DEF Counted, Types
    <3>2. Len(made') = a + (script' - 1)
      <4> HIDE DEF a
      <4> QED
        BY <1>2, <1>16, <3>1
    <3> QED
      BY <1>1, <1>2, <1>4, <1>16, <3>2 DEF Counted, AtWork
  <2>3. Spent'
    <3>1. CASE pc' = "scripts"
      <4>1. \A k, i : RunOn(k, i)' => RunOn(k, i)
        BY <1>1, <1>2, <1>16, <3>1 DEF RunOn, Turn
      <4> QED
        BY <1>1, <1>2, <3>1, <4>1 DEF Spent, AtWork
    <3>2. CASE pc' = "thrown"
      BY <3>2 DEF Spent, AtWork
    <3> QED
      BY <1>16, <3>1, <3>2
  <2>4. ASSUME s # <<>> PROVE EndsEarly(logfilefiles[l])
    <3>1. m \in 2..Len(lines) /\ ~Usable(lines[m])
      BY <1>8, <1>10, <1>16, <2>4
    <3> QED
      BY <1>9, <3>1 DEF EndsEarly
  <2>5. Streamed'
    <3>1. ASSUME reader'.open
          PROVE  \E i \in 1..logs' : \E j \in 2..(Len(logfilefiles'[i].lines) + 1) :
                    RestOf(reader'.rest, logfilefiles'[i].lines, j) /\ EndsEarly(logfilefiles'[i])
      <4>1. s # <<>> /\ reader'.rest = t
        BY <1>12, <3>1
      <4>2. m + 1 \in 2..(Len(lines) + 1) /\ RestOf(t, lines, m + 1)
        BY <1>10, <4>1
      <4>3. logfilefiles'[l].lines = lines /\ logs' = logs /\ logfilefiles'[l] = logfilefiles[l]
        BY <1>2, <1>9
      <4> QED
        BY <2>4, <4>1, <4>2, <4>3
    <3>2. logfilefiles'[logs'].lines \in Seq(Lines)
      BY <1>1, <1>2 DEF Streamed, AtWork, LinesOf
    <3> QED
      BY <1>16, <3>1, <3>2 DEF Streamed, LinesOf
  <2>6. Selected'
    <3>1. ASSUME NEW i \in 1..Len(events) PROVE Sourced(events[i], logfilefiles, logs)
      <4>1. CASE l = logs
        <5>1. /\ Len(events) = m - 2
              /\ \A j \in 1..(m - 2) : events[j] = lines[j + 1]
          BY <1>8, <4>1 DEF EventsUpTo
        <5>2. i + 1 \in 1..Len(lines) /\ events[i] = lines[i + 1]
          BY <1>8, <1>9, <5>1
        <5>3. events[i] \in ToSet(lines)
          BY <1>9, <5>2 DEF ToSet
        <5> QED
          BY <1>9, <4>1, <5>3 DEF Sourced
      <4>2. CASE l # logs
        BY <1>8, <1>9, <4>2 DEF Sourced
      <4> QED
        BY <4>1, <4>2
    <3>2. ASSUME WellFormedBefore(logfilefiles, logs) PROVE events = EventsOf(logfilefiles[logs])
      <4>1. l = logs
        <5> SUFFICES ASSUME l # logs PROVE FALSE
          OBVIOUS
        <5>1. l \in 1..logs /\ logs \in Nat
          BY <1>4
        <5>2. l \in 1..(logs - 1)
          BY <5>1
        <5>3. EndsEarly(logfilefiles[l])
          BY <1>8
        <5> QED
          BY <3>2, <5>2, <5>3 DEF WellFormedBefore
      <4>2. m = Len(lines) + 1 \/ ~Usable(lines[m])
        BY <1>10, <1>11, <1>16
      <4>3. EventsUpTo(events, lines, m)
        BY <1>8, <4>1
      <4> DEFINE f == logfilefiles[l]
      <4>4. f.lines = lines
        BY <1>9
      <4> HIDE DEF f
      <4>5. events = EventsOf(f)
        BY <1>3, <1>8, <1>9, <4>2, <4>3, <4>4, EventsAreRead
      <4> QED
        BY <4>1, <4>5 DEF f
    <3>3. logs' = logs /\ logfilefiles' = logfilefiles /\ events' = events
      BY <1>2, <1>16
    <3> QED
      BY <1>16, <3>1, <3>2, <3>3 DEF Selected
  <2> QED
    BY <1>13, <1>14, <2>1, <2>2, <2>3, <2>5, <2>6 DEF Inv
<1> QED
  BY <1>6, <1>15, <1>16

\* The output in hand is the last of those that were made.
LEMMA InHand ==
    ASSUME Types, NEW l \in Nat \ {0}, NEW s \in 1..Len(scripts),
           Len(made) = (l - 1) * Len(scripts) + s
    PROVE  /\ Len(made) \in 1..Len(made) /\ Last(made) = made[Len(made)]
           /\ Last(made) \in DOMAIN files
           /\ LogOf(Len(made)) = l /\ ScriptOf(Len(made)) = s
<1>1. Len(scripts) \in Nat /\ made \in Seq(DOMAIN files) /\ Len(made) \in Nat
  BY DEF Types
<1>2. LogOf(Len(made)) = l /\ ScriptOf(Len(made)) = s
  BY <1>1, PositionOf
<1>3. Len(made) > 0
  <2> DEFINE a == (l - 1) * Len(scripts)
  <2>1. a \in Nat /\ Len(made) = a + s
    BY <1>1
  <2> HIDE DEF a
  <2> QED
    BY <2>1
<1>4. Last(made) = made[Len(made)]
  BY DEF Last
<1> QED
  BY <1>1, <1>2, <1>3, <1>4

LEMMA OpenOutputStep ==
    ASSUME Inv, OpenOutput
    PROVE  Inv'
<1>1. Types /\ Counted /\ Distinct /\ Parsed /\ Spent /\ Streamed /\ Selected
      /\ ResultsAreMeant /\ LinesHaveASource
  BY DEF Inv
<1>2. UNCHANGED <<logfilefiles, scriptfiles, configfile, scripts, logs, reader, events, script>>
  BY DEF OpenOutput
<1> DEFINE n == Len(scripts)
           o == OutputName
           opened == [f \in DOMAIN files \union {o} |-> IF f = o THEN <<>> ELSE files[f]]
<1>3. /\ pc = "scripts" /\ script <= n
      /\ \/ /\ made' = Append(made, o) /\ files' = opened /\ pc' = "alert" /\ op' = 1
            /\ output' = [null |-> FALSE, events |-> events]
         \/ made' = made /\ files' = files /\ pc' = "false" /\ UNCHANGED <<op, output>>
  BY DEF OpenOutput
<1>4. /\ n \in Nat /\ script \in 1..n /\ logs \in Nat /\ logs > 0 /\ Len(made) \in Nat
      /\ made \in Seq(DOMAIN files) /\ events \in Seq(Lines) /\ IsFiniteSet(DOMAIN files)
      /\ files \in [DOMAIN files -> Seq(Entries)]
  BY <1>1, <1>3 DEF Types, Counted, AtWork
<1>6. Parsed'
  BY <1>1, <1>2 DEF Parsed, Ops
<1>7. CASE made' = made /\ files' = files /\ pc' = "false" /\ UNCHANGED <<op, output>>
  <2>1. Types'
    BY <1>1, <1>2, <1>3, <1>7 DEF Types
  <2>2. Counted'
    BY <1>1, <1>2, <1>7 DEF Counted, AtWork
  <2>3. Distinct' /\ Spent' /\ Streamed' /\ Selected'
    BY <1>1, <1>7 DEF Distinct, Spent, Streamed, Selected, AtWork
  <2>4. ResultsAreMeant' /\ LinesHaveASource'
    BY <1>1, <1>2, <1>3, <1>7, FilesStay
  <2> QED
    BY <1>6, <2>1, <2>2, <2>3, <2>4 DEF Inv
<1>8. CASE /\ made' = Append(made, o) /\ files' = opened /\ pc' = "alert" /\ op' = 1
           /\ output' = [null |-> FALSE, events |-> events]
  <2>0. output' \in [null : BOOLEAN, events : Seq(Lines)] /\ ~output'.null /\ output'.events = events
    BY <1>4, <1>8
  <2>1. o \notin DOMAIN files
    BY <1>4, FreshName
  <2> DEFINE c == Len(made)
  <2> HIDE DEF o
  <2>2. /\ DOMAIN files' = DOMAIN files \union {o} /\ files'[o] = <<>>
        /\ \A f \in DOMAIN files : files'[f] = files[f]
    BY <1>8, <2>1
  <2>3. /\ made' \in Seq(DOMAIN files') /\ Len(made') = c + 1 /\ made'[c + 1] = o
        /\ \A k \in 1..c : made'[k] = made[k] /\ made[k] \in DOMAIN files
    <3> DEFINE S == DOMAIN files'
    <3>1. o \in S /\ made \in Seq(S)
      BY <1>4, <2>2
    <3> HIDE DEF S
    <3>2. made' \in Seq(S) /\ Len(made') = c + 1 /\ made'[c + 1] = o /\ \A k \in 1..c : made'[k] = made[k]
      BY <1>8, <3>1, AppendProperties
    <3>3. \A k \in 1..c : made[k] \in DOMAIN files
      BY <1>4, ElementOfSeq
    <3> QED
      BY <3>2, <3>3 DEF S
  <2>4. \A k \in 1..(c + 1) : k \in 1..c \/ k = c + 1
    BY <1>4
  <2>5. DOMAIN made = 1..c /\ DOMAIN made' = 1..(c + 1)
    BY <1>4, <2>3
  <2>6. Last(made') = o
    BY <2>3 DEF Last
  <2>7. Types'
    <3>1. IsFiniteSet(DOMAIN files')
      BY <1>4, <2>2, FS_AddElement
    <3>2. files' \in [DOMAIN files' -> Seq(Entries)]
      <4>1. opened \in [DOMAIN files \union {o} -> Seq(Entries)]
        BY <1>4
      <4> QED
        BY <1>8, <2>2, <4>1
    <3> QED
      BY <1>1, <1>2, <1>8, <2>0, <2>3, <3>1, <3>2 DEF Types
  <2>8. Counted'
    <3> DEFINE a == (logs - 1) * n
               b == logs * n
    <3>1. c = a + (script - 1)
      BY <1>1, <1>3 DEF Counted
    <3>2. a \in Nat /\ b \in Nat /\ a + n <= b
      <4>1. logs - 1 \in Nat /\ logs - 1 < logs
        BY <1>4
      <4> QED
        BY <1>4, <4>1, Product
    <3>3. n = Len(scriptfiles)
      BY <1>1, <1>3 DEF Counted, AtWork
    <3>4. op' <= Len(scripts[script]) + 1
      <4>1. Len(scripts[script]) \in Nat
        BY <1>1, <1>4 DEF Types
      <4> QED
        BY <1>8, <4>1
    <3> HIDE DEF a, b
    <3>5. Len(made') = a + script /\ Len(made') <= b
      BY <1>4, <2>3, <3>1, <3>2
    <3>6. Len(made') = (logs - 1) * n + script /\ Len(made') <= logs * n
      BY <3>5 DEF a, b
    <3> HIDE DEF n
    <3>7. n = Len(scripts') /\ scripts' = scripts
      BY <1>2 DEF n
    <3> QED
      BY <1>2, <1>4, <1>8, <3>3, <3>4, <3>6, <3>7 DEF Counted, AtWork
  <2>9. Distinct'
    <3> SUFFICES ASSUME NEW i \in 1..(c + 1), NEW j \in 1..(c + 1), made'[i] = made'[j] PROVE i = j
      BY <2>3 DEF Distinct
    <3>1. CASE i \in 1..c /\ j \in 1..c
      BY <1>1, <2>3, <3>1 DEF Distinct
    <3>2. CASE i = c + 1 \/ j = c + 1
      BY <2>1, <2>3, <2>4, <3>2
    <3> QED
      BY <2>4, <3>1, <3>2
  <2>10. Spent'
    <3>1. \A k, i : RunOn(k, i)' => RunOn(k, i)
      BY <1>2, <1>3, <1>8 DEF RunOn, Turn
    <3> QED
      BY <1>1, <1>2, <1>3, <1>8, <3>1 DEF Spent, AtWork
  <2>11. Streamed'
    BY <1>1, <1>2, <1>3, <1>8 DEF Streamed, AtWork, LinesOf
  <2>12. Selected'
    <3>1. \A i \in 1..Len(events) : Sourced(events[i], logfilefiles, logs)
      BY <1>1, <1>3 DEF Selected
    <3>2. WellFormedBefore(logfilefiles, logs) => events = EventsOf(logfilefiles[logs])
      BY <1>1, <1>3 DEF Selected
    <3>3. LeftOf(scriptfiles[script].ops, events)[0] = events
      <4>1. script \in 1..Len(scriptfiles) /\ Ops(script) # "invalid"
        BY <1>1, <1>3, <1>4 DEF Parsed, Counted, AtWork
      <4>2. Len(Ops(script)) \in Nat
        BY <1>1, <4>1, OpsType
      <4> QED
        BY <4>2, LeftSteps DEF Ops
    <3>4. op' - 1 = 0
      BY <1>8
    <3> QED
      BY <1>2, <1>8, <2>0, <2>2, <2>6, <3>1, <3>2, <3>3, <3>4 DEF Selected, Ops
  <2>13. ASSUME NEW k \in 1..c
         PROVE  /\ LogOf(k)' = LogOf(k) /\ ScriptOf(k)' = ScriptOf(k) /\ Written(k)
                /\ files'[made'[k]] = files[made[k]]
    <3>1. Written(k)
      BY <1>3 DEF Written
    <3> QED
      BY <1>2, <2>2, <2>3, <3>1 DEF LogOf, ScriptOf
  <2>14. ResultsAreMeant'
    <3> SUFFICES ASSUME NEW k \in 1..(c + 1),
                        \A l \in 1..(LogOf(k)' - 1) : ~EndsEarly(logfilefiles[l])
                 PROVE  IsOutput(files'[made'[k]], Written(k)',
                                 Meaning(scriptfiles[ScriptOf(k)'].ops,
                                         EventsOf(logfilefiles[LogOf(k)'])))
      BY <1>2, <2>5 DEF ResultsAreMeant
    <3>1. CASE k = c + 1
      <4>1. ~Written(k)' /\ files'[made'[k]] = <<>>
        BY <1>4, <1>8, <2>2, <2>3, <3>1 DEF Written
      <4> QED
        BY <4>1 DEF IsOutput
    <3>2. CASE k \in 1..c
      <4>1. Written(k)'
        BY <1>4, <2>3, <3>2 DEF Written
      <4>2. IsOutput(files[made[k]], Written(k),
                     Meaning(scriptfiles[ScriptOf(k)].ops, EventsOf(logfilefiles[LogOf(k)])))
        BY <1>1, <2>5, <2>13, <3>2 DEF ResultsAreMeant
      <4> QED
        BY <2>13, <3>2, <4>1, <4>2 DEF IsOutput
    <3> QED
      BY <2>4, <3>1, <3>2
  <2>15. LinesHaveASource'
    <3> SUFFICES ASSUME NEW k \in 1..(c + 1), NEW e \in ToSet(files'[made'[k]])
                 PROVE  \E l \in 1..LogOf(k)' :
                           /\ e \in ToSet(logfilefiles[l].lines)
                           /\ l = LogOf(k)' \/ EndsEarly(logfilefiles[l])
      BY <1>2, <2>5 DEF LinesHaveASource
    <3>1. k # c + 1
      BY <2>2, <2>3 DEF ToSet
    <3>2. k \in 1..c
      BY <2>4, <3>1
    <3> QED
      BY <1>1, <2>5, <2>13, <3>2 DEF LinesHaveASource
  <2> QED
    BY <1>6, <2>7, <2>8, <2>9, <2>10, <2>11, <2>12, <2>14, <2>15 DEF Inv
<1> QED
  BY <1>3, <1>7, <1>8

LEMMA NextLogStep ==
    ASSUME Inv, NextLog
    PROVE  Inv'
<1>1. Types /\ Counted /\ Distinct /\ Parsed /\ Spent /\ Streamed
      /\ ResultsAreMeant /\ LinesHaveASource
  BY DEF Inv
<1>2. UNCHANGED <<logfilefiles, scriptfiles, configfile, scripts, logs, reader, events, script,
                  op, output, made, files>>
  BY DEF NextLog
<1> DEFINE n == Len(scripts)
<1>3. pc = "scripts" /\ script > n /\ pc' = "logs"
  BY DEF NextLog
<1>4. n \in Nat /\ script = n + 1 /\ logs \in Nat /\ logs > 0
  BY <1>1, <1>3 DEF Types, Counted, AtWork
<1>5. Types'
  BY <1>1, <1>2, <1>3 DEF Types
<1>6. Counted'
  <2> DEFINE a == (logs - 1) * n
             b == logs * n
  <2>1. a \in Nat /\ b = a + n
    BY <1>4
  <2>2. Len(made) = a + (script - 1)
    BY <1>1, <1>3 DEF Counted
  <2> HIDE DEF a, b
  <2>3. Len(made) = b
    BY <1>4, <2>1, <2>2
  <2>4. Len(made) = logs * n /\ n = Len(scriptfiles)
    BY <1>1, <1>3, <2>3 DEF b, Counted, AtWork
  <2> QED
    BY <1>1, <1>2, <1>3, <1>4, <2>4 DEF Counted, AtWork
<1>7. Distinct' /\ Parsed'
  BY <1>1, <1>2 DEF Distinct, Parsed, Ops
<1>8. Spent'
  <2>1. ASSUME NEW i \in 1..n, NEW k PROVE RunOn(k, i)' => RunOn(k, i)
    <3>1. Turn = script /\ i < script
      BY <1>3, <1>4 DEF Turn
    <3> QED
      BY <1>2, <3>1 DEF RunOn
  <2> QED
    BY <1>1, <1>2, <1>3, <2>1 DEF Spent, AtWork
<1>9. Streamed'
  BY <1>1, <1>2, <1>3 DEF Streamed, AtWork, LinesOf
<1>10. Selected'
  BY <1>3 DEF Selected
<1>11. ResultsAreMeant' /\ LinesHaveASource'
  BY <1>1, <1>2, <1>3, FilesStay
<1> QED
  BY <1>5, <1>6, <1>7, <1>8, <1>9, <1>10, <1>11 DEF Inv

\* The operation that runs loses its keyword, and nothing else of the scripts changes.
LEMMA ScriptsStripped ==
    ASSUME NEW T, scripts \in Seq(Seq(T)), NEW s \in 1..Len(scripts), NEW p \in 1..Len(scripts[s]),
           NEW x \in T
    PROVE  LET new == [scripts EXCEPT ![s][p] = x]
           IN  /\ new \in Seq(Seq(T)) /\ Len(new) = Len(scripts)
               /\ \A i \in 1..Len(scripts) :
                     /\ Len(new[i]) = Len(scripts[i])
                     /\ \A j \in 1..Len(scripts[i]) :
                           new[i][j] = IF i = s /\ j = p THEN x ELSE scripts[i][j]
<1> DEFINE row == [scripts[s] EXCEPT ![p] = x]
           new == [scripts EXCEPT ![s][p] = x]
<1>1. scripts[s] \in Seq(T)
  BY ElementOfSeq
<1>2. /\ row \in Seq(T) /\ Len(row) = Len(scripts[s])
      /\ \A j \in 1..Len(scripts[s]) : row[j] = IF j = p THEN x ELSE scripts[s][j]
  BY <1>1, ExceptSeq
<1>3. new = [scripts EXCEPT ![s] = row]
  OBVIOUS
<1> HIDE DEF row
<1>4. /\ new \in Seq(Seq(T)) /\ Len(new) = Len(scripts)
      /\ \A i \in 1..Len(scripts) : new[i] = IF i = s THEN row ELSE scripts[i]
  <2> DEFINE U == Seq(T)
  <2>1. scripts \in Seq(U) /\ row \in U
    BY <1>2
  <2> HIDE DEF U, new
  <2>2. /\ new \in Seq(U) /\ Len(new) = Len(scripts)
        /\ \A i \in 1..Len(scripts) : new[i] = IF i = s THEN row ELSE scripts[i]
    BY <1>3, <2>1, ExceptSeq
  <2> QED
    BY <2>2 DEF U
<1> HIDE DEF new
<1>5. ASSUME NEW i \in 1..Len(scripts)
      PROVE  /\ Len(new[i]) = Len(scripts[i])
             /\ \A j \in 1..Len(scripts[i]) :
                   new[i][j] = IF i = s /\ j = p THEN x ELSE scripts[i][j]
  BY <1>2, <1>4
<1> QED
  BY <1>4, <1>5 DEF new

LEMMA ApplyOpStep ==
    ASSUME Inv, ApplyOp
    PROVE  Inv'
<1>1. Types /\ Counted /\ Distinct /\ Parsed /\ Spent /\ Streamed /\ Selected
      /\ ResultsAreMeant /\ LinesHaveASource
  BY DEF Inv
<1>2. UNCHANGED <<logfilefiles, scriptfiles, configfile, logs, reader, events, script, made, files>>
  BY DEF ApplyOp
<1> DEFINE n == Len(scripts)
           o == scripts[script][op]
           w == o.words
           T == [keyword : BOOLEAN, words : Words]
           null == [null |-> TRUE, events |-> <<>>]
           chosen == [null |-> FALSE, events |-> Select(w, output.events)]
<1>3. pc = "alert" /\ op <= Len(scripts[script]) /\ op' = op + 1
  BY DEF ApplyOp
<1>4. \/ Refused(o) /\ output' = null /\ pc' = pc /\ scripts' = scripts
      \/ /\ ~Refused(o) /\ scripts' = [scripts EXCEPT ![script][op] = Stripped(o)]
         /\ \/ output' = null /\ pc' = pc
            \/ output' = output /\ pc' = "thrown"
            \/ output' = chosen /\ pc' = pc /\ w.kind # "unusable"
  BY DEF ApplyOp
<1>5. /\ n \in Nat /\ script \in 1..n /\ logs \in Nat /\ logs > 0 /\ n = Len(scriptfiles)
      /\ scripts \in Seq(Seq(T)) /\ op \in Nat \ {0} /\ Len(made) = (logs - 1) * n + script
  BY <1>1, <1>3 DEF Types, Counted, AtWork
<1>6. scripts[script] \in Seq(T) /\ op \in 1..Len(scripts[script]) /\ o \in T
  <2>1. scripts[script] \in Seq(T)
    BY <1>5, ElementOfSeq
  <2> HIDE DEF T
  <2>2. op \in 1..Len(scripts[script])
    BY <1>3, <1>5, <2>1
  <2> QED
    BY <2>1, <2>2, ElementOfSeq
<1>7. /\ Ops(script) # "invalid" /\ Ops(script) \in Seq(Words)
      /\ Len(scripts[script]) = Len(Ops(script))
      /\ \A j \in 1..Len(Ops(script)) : Ops(script)[j].kind \in Kinds
      /\ o.keyword => w = Ops(script)[op]
  <2>1. /\ Ops(script) # "invalid" /\ Len(scripts[script]) = Len(Ops(script))
        /\ o.keyword => w = Ops(script)[op]
    BY <1>1, <1>5, <1>6 DEF Parsed
  <2>2. script \in 1..Len(scriptfiles)
    BY <1>5
  <2> QED
    BY <1>1, <2>1, <2>2, OpsType
<1>8. output \in [null : BOOLEAN, events : Seq(Lines)] /\ output.events \in Seq(Lines)
      /\ (output.null => Refused(o)) /\ (~Refused(o) => o.keyword /\ ~output.null)
  BY <1>1 DEF Types, Refused
<1>9. ASSUME ~Refused(o), w.kind # "unusable"
      PROVE  Select(w, output.events) = Chosen(w, output.events)
  <2>1. w.kind \in Workable
    BY <1>6, <1>7, <1>8, <1>9 DEF Workable
  <2> QED
    BY <1>8, <2>1, SelectIsChosen
<1>10. null \in [null : BOOLEAN, events : Seq(Lines)] /\ null.null /\ null.events = <<>>
  OBVIOUS
<1>11. ASSUME ~Refused(o), w.kind # "unusable"
       PROVE  /\ chosen \in [null : BOOLEAN, events : Seq(Lines)] /\ ~chosen.null
              /\ chosen.events = Chosen(w, output.events)
  <2> DEFINE c == Select(w, output.events)
  <2>1. c = Chosen(w, output.events) /\ c \in Seq(Lines)
    BY <1>8, <1>9, <1>11, ChosenType
  <2> HIDE DEF c
  <2>2. chosen = [null |-> FALSE, events |-> c]
    BY DEF c
  <2> HIDE DEF chosen
  <2> QED
    BY <2>1, <2>2
<1> HIDE DEF null, chosen
<1>12. output' \in [null : BOOLEAN, events : Seq(Lines)]
       /\ (~output'.null => ~Refused(o))
  BY <1>4, <1>8, <1>10, <1>11
<1>13. ASSUME ~Refused(o)
       PROVE  Stripped(o) \in T /\ ~Stripped(o).keyword
  <2>1. o.keyword /\ w = Ops(script)[op]
    BY <1>7, <1>8, <1>13
  <2> DEFINE all == UNION {ToSet(f.ops) : f \in {g \in ScriptFiles : g.ops # "invalid"}}
             v == IF w.kind = "not" THEN [w EXCEPT !.kind = "search"] ELSE w
  <2>2. w \in all
    <3>1. scriptfiles[script] \in ScriptFiles /\ scriptfiles[script].ops # "invalid"
      BY <1>1, <1>5, <1>7 DEF Types, Ops
    <3>2. w \in ToSet(scriptfiles[script].ops)
      BY <1>6, <1>7, <2>1 DEF Ops, ToSet
    <3> QED
      BY <3>1, <3>2
  <2>3. v \in Words
    <3>1. Words = all \union {[x EXCEPT !.kind = "search"] : x \in all}
      BY DEF Words
    <3> HIDE DEF all
    <3> QED
      BY <2>2, <3>1
  <2>4. Stripped(o) = [keyword |-> FALSE, words |-> v]
    BY DEF Stripped
  <2> HIDE DEF v
  <2> QED
    BY <2>3, <2>4
<1>14. /\ scripts' \in Seq(Seq(T)) /\ Len(scripts') = n
       /\ \A i \in 1..n :
             /\ Len(scripts'[i]) = Len(scripts[i])
             /\ \A j \in 1..Len(scripts[i]) :
                   \/ scripts'[i][j] = scripts[i][j]
                   \/ ~scripts'[i][j].keyword
       /\ ~Refused(o) => ~scripts'[script][op].keyword
  <2>1. CASE Refused(o)
    BY <1>4, <1>5, <2>1
  <2>2. CASE ~Refused(o)
    <3> DEFINE x == Stripped(o)
    <3>1. x \in T /\ ~x.keyword /\ scripts' = [scripts EXCEPT ![script][op] = x]
      BY <1>4, <1>13, <2>2
    <3> HIDE DEF x, T
    <3>2. /\ scripts' \in Seq(Seq(T)) /\ Len(scripts') = Len(scripts)
          /\ \A i \in 1..Len(scripts) :
                /\ Len(scripts'[i]) = Len(scripts[i])
                /\ \A j \in 1..Len(scripts[i]) :
                      scripts'[i][j] = IF i = script /\ j = op THEN x ELSE scripts[i][j]
      BY <1>5, <1>6, <3>1, ScriptsStripped
    <3> QED
      BY <1>5, <1>6, <3>1, <3>2
  <2> QED
    BY <2>1, <2>2
<1> HIDE DEF o
<1>15. pc' \in {"alert", "thrown"}
  BY <1>3, <1>4
<1>16. Types'
  <2>1. op' \in Nat \ {0} /\ script' \in 1..(Len(scripts') + 1) /\ Len(scripts') <= Len(scriptfiles')
    BY <1>2, <1>3, <1>5, <1>14
  <2>2. scripts' \in Seq(Seq([keyword : BOOLEAN, words : Words]))
    BY <1>14
  <2> QED
    BY <1>1, <1>2, <1>12, <1>15, <2>1, <2>2 DEF Types
<1>17. Counted'
  <2>1. op' <= Len(scripts'[script]) + 1
    BY <1>3, <1>5, <1>6, <1>14
  <2> DEFINE a == (logs - 1) * n
             b == logs * n
  <2>2. Len(made) = a + script /\ Len(made) <= b
    BY <1>1, <1>5 DEF Counted
  <2>3. a = (logs' - 1) * Len(scripts') /\ b = logs' * Len(scripts') /\ Len(scripts') = Len(scriptfiles')
    BY <1>2, <1>5, <1>14
  <2> HIDE DEF a, b
  <2> QED
    BY <1>2, <1>5, <1>14, <1>15, <2>1, <2>2, <2>3 DEF Counted, AtWork
<1>18. Distinct'
  BY <1>1, <1>2 DEF Distinct
<1>19. Parsed'
  BY <1>1, <1>2, <1>14 DEF Parsed, Ops
<1>20. Spent'
  <2>1. CASE pc' = "alert"
    <3>1. \A k, i : RunOn(k, i)' => RunOn(k, i)
      BY <1>2, <1>3, <2>1 DEF RunOn, Turn
    <3>2. ASSUME NEW i \in 1..n
          PROVE  /\ RunOn(1, i) => \A j \in 1..Len(scripts'[i]) : ~scripts'[i][j].keyword
                 /\ logs > 1 /\ RunOn(2, i) => Len(scripts'[i]) = 0
      BY <1>1, <1>3, <1>14 DEF Spent, AtWork
    <3>3. ASSUME ~output'.null
          PROVE  (\A j \in 1..op : ~scripts'[script][j].keyword) /\ ~(logs > 1)
      <4>1. ~Refused(o) /\ ~output.null /\ o.keyword
        BY <1>8, <1>12, <3>3, Zenon
      <4>2. \A j \in 1..(op - 1) : ~scripts[script][j].keyword
        BY <1>1, <1>3, <4>1 DEF Spent, AtWork
      <4>3. ASSUME NEW j \in 1..op PROVE ~scripts'[script][j].keyword
        <5>1. CASE j = op
          BY <1>14, <4>1, <5>1
        <5>2. CASE j # op
          <6>1. j \in 1..(op - 1) /\ j \in 1..Len(scripts[script])
            BY <1>5, <1>6, <5>2
          <6> QED
            BY <1>5, <1>14, <4>2, <6>1
        <5> QED
          BY <5>1, <5>2
      <4>4. ~(logs > 1)
        <5> SUFFICES ASSUME logs > 1 PROVE FALSE
          OBVIOUS
        <5>1. RunOn(1, script)
          BY DEF RunOn
        <5>2. ~scripts[script][op].keyword
          BY <1>1, <1>3, <1>5, <1>6, <5>1 DEF Spent, AtWork
        <5> QED
          BY <4>1, <5>2 DEF o
      <4> QED
        BY <4>3, <4>4
    <3>4. 1..(op' - 1) = 1..op
      BY <1>3, <1>5
    <3>5. Len(scripts') = n /\ script' = script /\ logs' = logs
      BY <1>2, <1>14
    <3> HIDE DEF n
    <3> QED
      BY <3>1, <3>2, <3>3, <3>4, <3>5 DEF Spent
  <2>2. CASE pc' = "thrown"
    BY <2>2 DEF Spent, AtWork
  <2> QED
    BY <1>15, <2>1, <2>2
<1>21. Streamed'
  BY <1>1, <1>2, <1>3, <1>15 DEF Streamed, AtWork, LinesOf
<1>22. Selected'
  <2>1. CASE pc' = "alert"
    <3>1. /\ \A i \in 1..Len(events) : Sourced(events[i], logfilefiles, logs)
          /\ WellFormedBefore(logfilefiles, logs) => events = EventsOf(logfilefiles[logs])
          /\ \A i \in 1..Len(output.events) : Sourced(output.events[i], logfilefiles, logs)
          /\ files[Last(made)] = <<>>
          /\ ~output.null => output.events = LeftOf(Ops(script), events)[op - 1]
      BY <1>1, <1>3 DEF Selected
    <3>2. output' = null \/ (output' = chosen /\ ~Refused(o) /\ w.kind # "unusable")
      BY <1>3, <1>4, <2>1
    <3>3. CASE output' = null
      <4>1. output'.null /\ Len(output'.events) = 0
        BY <1>10, <3>3
      <4> QED
        BY <1>2, <2>1, <3>1, <4>1 DEF Selected
    <3>4. CASE output' = chosen /\ ~Refused(o) /\ w.kind # "unusable"
      <4> DEFINE c == Chosen(w, output.events)
      <4>1. output'.events = c
        BY <1>11, <3>4
      <4>2. ASSUME NEW k \in 1..Len(c) PROVE Sourced(c[k], logfilefiles, logs)
        <5>1. \E i \in 1..Len(output.events) : c[k] = output.events[i]
          BY <1>8, <4>2, ChosenType
        <5> HIDE DEF c
        <5> QED
          BY <3>1, <5>1
      <4>3. c = LeftOf(Ops(script), events)[op]
        <5>1. w = Ops(script)[op] /\ ~output.null
          BY <1>7, <1>8, <3>4
        <5>2. op \in 1..Len(Ops(script)) /\ Len(Ops(script)) \in Nat
          BY <1>6, <1>7
        <5>3. LeftOf(Ops(script), events)[op] =
                 Chosen(Ops(script)[op], LeftOf(Ops(script), events)[op - 1])
          BY <5>2, LeftSteps
        <5> QED
          BY <3>1, <5>1, <5>3
      <4>4. op' - 1 = op /\ Ops(script)' = Ops(script)
        BY <1>2, <1>3, <1>5 DEF Ops
      <4> HIDE DEF c
      <4> QED
        BY <1>2, <2>1, <3>1, <4>1, <4>2, <4>3, <4>4 DEF Selected, Ops
    <3> QED
      BY <3>2, <3>3, <3>4
  <2>2. CASE pc' = "thrown"
    BY <2>2 DEF Selected
  <2> QED
    BY <1>15, <2>1, <2>2
<1>23. ResultsAreMeant' /\ LinesHaveASource'
  BY <1>1, <1>2, <1>3, <1>14, <1>15, FilesStay
<1> QED
  BY <1>16, <1>17, <1>18, <1>19, <1>20, <1>21, <1>22, <1>23 DEF Inv

LEMMA AlertReturnsStep ==
    ASSUME Inv, AlertReturns
    PROVE  Inv'
<1>1. Types /\ Counted /\ Distinct /\ Parsed /\ Spent /\ Streamed /\ Selected
      /\ ResultsAreMeant /\ LinesHaveASource
  BY DEF Inv
<1>2. UNCHANGED <<logfilefiles, scriptfiles, configfile, scripts, logs, reader, events, script, op,
                  output, made, files>>
  BY DEF AlertReturns
<1> DEFINE n == Len(scripts)
           ops == Ops(script)
<1>3. pc = "alert" /\ op > Len(scripts[script])
      /\ ((output.null /\ pc' = "thrown") \/ (~output.null /\ pc' = "write"))
  BY DEF AlertReturns
<1>4. /\ n \in Nat /\ script \in 1..n /\ n = Len(scriptfiles)
      /\ op \in Nat \ {0} /\ op <= Len(scripts[script]) + 1
  BY <1>1, <1>3 DEF Types, Counted, AtWork
<1>5. /\ ops # "invalid" /\ ops \in Seq(Words) /\ Len(scripts[script]) = Len(ops)
      /\ Len(ops) \in Nat /\ op - 1 = Len(ops) /\ output.events \in Seq(Lines)
  <2>1. ops # "invalid" /\ Len(scripts[script]) = Len(ops)
    BY <1>1, <1>4 DEF Parsed
  <2>2. script \in 1..Len(scriptfiles)
    BY <1>4
  <2>3. ops \in Seq(Words) /\ output.events \in Seq(Lines)
    BY <1>1, <2>1, <2>2, OpsType DEF Types
  <2>4. Len(ops) \in Nat
    BY <2>3
  <2> HIDE DEF ops
  <2>5. op - 1 = Len(ops)
    BY <1>3, <1>4, <2>1, <2>4
  <2> QED
    BY <2>1, <2>3, <2>4, <2>5
<1>6. Types'
  BY <1>1, <1>2, <1>3 DEF Types
<1>7. Counted'
  BY <1>1, <1>2, <1>3 DEF Counted, AtWork
<1>8. Distinct' /\ Parsed'
  BY <1>1, <1>2 DEF Distinct, Parsed, Ops
<1>9. Spent'
  <2>1. CASE pc' = "write"
    <3>1. ASSUME NEW i \in 1..n, NEW k, RunOn(k, i)' PROVE RunOn(k, i) \/ (k = logs /\ i = script)
      <4>1. Turn = script /\ Turn' = script + 1
        BY <1>2, <1>3, <2>1 DEF Turn
      <4>2. i < script + 1 => i < script \/ i = script
        BY <1>4
      <4>3. logs > k \/ (logs = k /\ i < script + 1)
        BY <1>2, <2>1, <3>1, <4>1 DEF RunOn
      <4> QED
        BY <4>1, <4>2, <4>3 DEF RunOn
    <3>2. \A j \in 1..Len(scripts[script]) : ~scripts[script][j].keyword
      BY <1>1, <1>3, <1>5, <2>1 DEF Spent, AtWork
    <3>3. logs > 1 => Len(scripts[script]) = 0
      <4>1. logs > 1 => op = 1
        BY <1>1, <1>3, <2>1 DEF Spent, AtWork
      <4> QED
        BY <1>5, <4>1
    <3>4. ASSUME NEW i \in 1..n
          PROVE  /\ RunOn(1, i)' => \A j \in 1..Len(scripts[i]) : ~scripts[i][j].keyword
                 /\ logs > 1 /\ RunOn(2, i)' => Len(scripts[i]) = 0
      BY <1>1, <1>3, <3>1, <3>2, <3>3 DEF Spent, AtWork
    <3> QED
      BY <1>2, <2>1, <3>4 DEF Spent
  <2>2. CASE pc' = "thrown"
    BY <2>2 DEF Spent, AtWork
  <2> QED
    BY <1>3, <2>1, <2>2
<1>10. Streamed'
  BY <1>1, <1>2, <1>3 DEF Streamed, AtWork, LinesOf
<1>11. Selected'
  <2>1. CASE pc' = "write"
    <3> DEFINE out == output.events
    <3>1. /\ \A i \in 1..Len(events) : Sourced(events[i], logfilefiles, logs)
          /\ WellFormedBefore(logfilefiles, logs) => events = EventsOf(logfilefiles[logs])
          /\ \A i \in 1..Len(output.events) : Sourced(output.events[i], logfilefiles, logs)
          /\ files[Last(made)] = <<>>
          /\ output.events = LeftOf(ops, events)[op - 1]
      BY <1>1, <1>3, <2>1 DEF Selected
    <3>2. out = Meaning(ops, events)
      BY <1>5, <3>1, LeftSteps
    <3>3. <<>> \o out = out
      <4>1. out \in Seq(Lines)
        BY <1>5
      <4> HIDE DEF out
      <4> QED
        BY <4>1
    <3>4. files[Last(made)] \o out = Meaning(scriptfiles[script].ops, events)
      <4> HIDE DEF out
      <4> QED
        BY <3>1, <3>2, <3>3 DEF Ops
    <3> QED
      BY <1>2, <2>1, <3>1, <3>4 DEF Selected, Ops
  <2>2. CASE pc' = "thrown"
    BY <2>2 DEF Selected
  <2> QED
    BY <1>3, <2>1, <2>2
<1>12. ResultsAreMeant' /\ LinesHaveASource'
  BY <1>1, <1>2, <1>3, FilesStay
<1> QED
  BY <1>6, <1>7, <1>8, <1>9, <1>10, <1>11, <1>12 DEF Inv

\* An entry moves from the output in hand to the end of the file.
LEMMA EntryMoves ==
    ASSUME NEW S, NEW s \in Seq(S), NEW t \in Seq(S), t # <<>>
    PROVE  Append(s, Head(t)) \o Tail(t) = s \o t
<1> DEFINE e == Head(t)
           r == Tail(t)
           a == Append(s, e)
           x == a \o r
           y == s \o t
<1>1. Len(s) \in Nat /\ Len(t) \in Nat /\ Len(t) > 0 /\ e = t[1] /\ e \in S
  OBVIOUS
<1>2. r \in Seq(S) /\ Len(r) = Len(t) - 1 /\ \A i \in 1..Len(r) : r[i] = t[i + 1]
  BY HeadTailProperties
<1>3. a \in Seq(S) /\ Len(a) = Len(s) + 1 /\ a[Len(s) + 1] = e /\ \A i \in 1..Len(s) : a[i] = s[i]
  <2> HIDE DEF e
  <2> QED
    BY <1>1, AppendProperties
<1> HIDE DEF e, r, a
<1>4. /\ x \in Seq(S) /\ Len(x) = Len(a) + Len(r)
      /\ \A i \in 1..(Len(a) + Len(r)) : x[i] = IF i <= Len(a) THEN a[i] ELSE r[i - Len(a)]
  BY <1>2, <1>3, ConcatProperties
<1>5. /\ y \in Seq(S) /\ Len(y) = Len(s) + Len(t)
      /\ \A i \in 1..(Len(s) + Len(t)) : y[i] = IF i <= Len(s) THEN s[i] ELSE t[i - Len(s)]
  BY ConcatProperties
<1> HIDE DEF x, y
<1>6. Len(a) + Len(r) = Len(s) + Len(t)
  BY <1>1, <1>2, <1>3
<1>7. ASSUME NEW i \in 1..(Len(s) + Len(t)) PROVE x[i] = y[i]
  <2>1. CASE i <= Len(s)
    <3>1. i \in 1..Len(s) /\ i <= Len(a)
      BY <1>1, <1>3, <2>1
    <3>2. x[i] = a[i]
      BY <1>4, <1>6, <3>1
    <3>3. y[i] = s[i]
      BY <1>5, <2>1
    <3> QED
      BY <1>3, <3>1, <3>2, <3>3
  <2>2. CASE i = Len(s) + 1
    <3>1. ~(i <= Len(s)) /\ i <= Len(a) /\ i - Len(s) = 1
      BY <1>1, <1>3, <2>2
    <3> QED
      BY <1>1, <1>3, <1>4, <1>5, <1>6, <2>2, <3>1
  <2>3. CASE i > Len(s) + 1
    <3> DEFINE j == i - Len(a)
    <3>1. j \in 1..Len(r) /\ j + 1 = i - Len(s) /\ ~(i <= Len(s)) /\ ~(i <= Len(a))
      BY <1>1, <1>2, <1>3, <2>3
    <3>2. x[i] = r[j] /\ y[i] = t[i - Len(s)]
      BY <1>4, <1>5, <1>6, <3>1
    <3> HIDE DEF j
    <3> QED
      BY <1>2, <3>1, <3>2
  <2> QED
    BY <1>1, <2>1, <2>2, <2>3
<1>8. Len(x) = Len(y) /\ \A i \in 1..Len(x) : x[i] = y[i]
  BY <1>4, <1>5, <1>6, <1>7
<1>9. x = y
  BY <1>4, <1>5, <1>8, SeqEqual
<1> QED
  BY <1>9 DEF x, y, a, e, r

\* What writeEntry writes goes to the output in hand, after what is there.
LEMMA EntryWritten ==
    ASSUME Inv, pc = "write", output.events # <<>>, EntryIsAppended
    PROVE  LET h == Last(made)
               e == Head(output.events)
           IN  /\ h \in DOMAIN files /\ DOMAIN files' = DOMAIN files
               /\ files[h] \in Seq(Entries) /\ output.events \in Seq(Lines) /\ output.events # <<>>
               /\ e \in Lines /\ Lines \subseteq Entries
               /\ files'[h] = Append(files[h], e) /\ files'[h] \in Seq(Entries)
               /\ \A f \in DOMAIN files : f # h => files'[f] = files[f]
<1> DEFINE h == Last(made)
           e == Head(output.events)
           new == Append(files[h], e)
<1>1. Types /\ Counted /\ pc = "write"
  BY DEF Inv
<1>2. h \in DOMAIN files
  <2>1. logs \in Nat \ {0} /\ script \in 1..Len(scripts) /\ Len(made) = (logs - 1) * Len(scripts) + script
    BY <1>1 DEF Types, Counted, AtWork
  <2> QED
    BY <1>1, <2>1, InHand
<1>3. files \in [DOMAIN files -> Seq(Entries)] /\ files[h] \in Seq(Entries)
  <2>1. files \in [DOMAIN files -> Seq(Entries)]
    BY <1>1 DEF Types
  <2> HIDE DEF h
  <2> QED
    BY <1>2, <2>1
<1>4. output.events \in Seq(Lines) /\ output.events # <<>> /\ e \in Lines
  <2>1. output.events \in Seq(Lines) /\ output.events # <<>>
    BY <1>1 DEF Types
  <2> QED
    BY <2>1, HeadTailProperties
<1>5. Lines \subseteq Entries
  BY DEF Entries
<1>6. new \in Seq(Entries)
  <2>1. e \in Entries
    BY <1>4, <1>5
  <2> HIDE DEF e, h
  <2> QED
    BY <1>3, <2>1, AppendProperties
<1>7. files' = [files EXCEPT ![h] = new]
  BY DEF EntryIsAppended
<1> HIDE DEF new, h, e
<1>9. /\ DOMAIN files' = DOMAIN files /\ files'[h] = new
      /\ \A f \in DOMAIN files : f # h => files'[f] = files[f]
  BY <1>2, <1>3, <1>7
<1> QED
  BY <1>2, <1>3, <1>4, <1>5, <1>6, <1>9 DEF new, h, e

\* With one more entry the output files still have what they should, whether or not
\* that is the last one.
LEMMA EntryAdded ==
    ASSUME Inv, pc = "write", output.events # <<>>, EntryIsAppended,
           UNCHANGED <<logfilefiles, scriptfiles, configfile, scripts, logs, reader, events, script,
                       op, made>>,
           pc' = "write" \/ (pc' = "false" /\ output'.events # <<>>)
    PROVE  /\ files' \in [DOMAIN files -> Seq(Entries)] /\ DOMAIN files' = DOMAIN files
           /\ files'[Last(made)] \o Tail(output.events) = Meaning(Ops(script), events)
           /\ ResultsAreMeant' /\ LinesHaveASource'
<1>1. Types /\ Counted /\ Distinct /\ Selected /\ ResultsAreMeant /\ LinesHaveASource
  BY DEF Inv
<1> DEFINE h == Last(made)
           out == output.events
           e == Head(out)
           t == Tail(out)
           c == Len(made)
           meant == Meaning(Ops(script), events)
<1>2. /\ h \in DOMAIN files /\ DOMAIN files' = DOMAIN files
      /\ files[h] \in Seq(Entries) /\ out \in Seq(Lines) /\ out # <<>>
      /\ e \in Lines /\ Lines \subseteq Entries
      /\ files'[h] = Append(files[h], e) /\ files'[h] \in Seq(Entries)
      /\ \A f \in DOMAIN files : f # h => files'[f] = files[f]
  BY EntryWritten
<1>3. t \in Seq(Lines) /\ Len(out) \in Nat /\ Len(out) > 0 /\ e = out[1]
  <2> DEFINE o == out
  <2>1. o \in Seq(Lines) /\ o # <<>>
    BY <1>2
  <2> HIDE DEF o
  <2>2. Tail(o) \in Seq(Lines) /\ Len(o) \in Nat /\ Len(o) > 0 /\ Head(o) = o[1]
    BY <2>1, HeadTailProperties
  <2> QED
    BY <2>2 DEF o
<1>4. Append(files[h], e) \o t = files[h] \o out
  <2> DEFINE s == files[h]
             o == out
  <2>1. s \in Seq(Entries) /\ o \in Seq(Entries) /\ o # <<>>
    <3>1. Seq(Lines) \subseteq Seq(Entries)
      BY <1>2
    <3> HIDE DEF h, out
    <3> QED
      BY <1>2, <3>1
  <2> HIDE DEF s, o
  <2>2. Append(s, Head(o)) \o Tail(o) = s \o o
    BY <2>1, EntryMoves
  <2> QED
    BY <2>2 DEF s, o
<1> HIDE DEF t, e, meant
<1>5. files'[h] \o t = meant /\ IsPrefix(files'[h], meant)
  <2>1. files[h] \o out = meant
    BY <1>1 DEF Selected, meant
  <2>2. files'[h] \o t = meant
    <3>1. files'[h] \o t = Append(files[h], e) \o t
      BY <1>2
    <3> QED
      BY <1>4, <2>1, <3>1
  <2>3. IsPrefix(files'[h], meant)
    <3> DEFINE s == files'[h]
    <3>1. s \in Seq(Entries) /\ t \in Seq(Entries)
      <4>1. Seq(Lines) \subseteq Seq(Entries)
        BY <1>2
      <4> HIDE DEF h, out
      <4> QED
        BY <1>2, <1>3, <4>1
    <3> HIDE DEF s
    <3>2. IsPrefix(s, s \o t)
      BY <3>1, FirstPart
    <3> QED
      BY <2>2, <3>2 DEF s
  <2> QED
    BY <2>2, <2>3
<1>6. files' \in [DOMAIN files -> Seq(Entries)]
  <2>1. files \in [DOMAIN files -> Seq(Entries)] /\ files' = [f \in DOMAIN files' |-> files'[f]]
    BY <1>1 DEF Types, EntryIsAppended
  <2>2. \A f \in DOMAIN files : files'[f] \in Seq(Entries)
    BY <1>2, <2>1
  <2> QED
    BY <1>2, <2>1, <2>2
<1>7. /\ logs \in Nat \ {0} /\ script \in 1..Len(scripts) /\ Len(scripts) \in Nat
      /\ c = (logs - 1) * Len(scripts) + script /\ made \in Seq(DOMAIN files) /\ c \in Nat
  BY <1>1 DEF Types, Counted, AtWork
<1>8. c \in 1..c /\ h = made[c] /\ LogOf(c) = logs /\ ScriptOf(c) = script /\ DOMAIN made = 1..c
  <2>1. c \in 1..c /\ h = made[c] /\ LogOf(c) = logs /\ ScriptOf(c) = script
    BY <1>1, <1>7, InHand
  <2> QED
    BY <1>7, <2>1
<1>9. ASSUME NEW k \in 1..c, k # c PROVE files'[made[k]] = files[made[k]]
  <2>1. made[k] # h /\ made[k] \in DOMAIN files
    BY <1>1, <1>7, <1>8, <1>9, ElementOfSeq DEF Distinct
  <2> QED
    BY <1>2, <2>1
<1>10. /\ \A k : LogOf(k)' = LogOf(k) /\ ScriptOf(k)' = ScriptOf(k)
       /\ \A k : (Written(k)' <=> k < c) /\ (Written(k) <=> k < c)
  BY DEF LogOf, ScriptOf, Written
<1>11. ResultsAreMeant'
  <2> SUFFICES ASSUME NEW k \in 1..c,
                      \A l \in 1..(LogOf(k) - 1) : ~EndsEarly(logfilefiles[l])
               PROVE  IsOutput(files'[made[k]], k < c,
                               Meaning(scriptfiles[ScriptOf(k)].ops,
                                       EventsOf(logfilefiles[LogOf(k)])))
    BY <1>8, <1>10 DEF ResultsAreMeant, IsOutput
  <2>1. CASE k # c
    <3>1. IsOutput(files[made[k]], k < c,
                   Meaning(scriptfiles[ScriptOf(k)].ops, EventsOf(logfilefiles[LogOf(k)])))
      BY <1>1, <1>8, <1>10 DEF ResultsAreMeant, IsOutput
    <3> QED
      BY <1>9, <2>1, <3>1
  <2>2. CASE k = c
    <3>1. WellFormedBefore(logfilefiles, logs)
      BY <1>8, <2>2 DEF WellFormedBefore
    <3>2. events = EventsOf(logfilefiles[logs])
      BY <1>1, <3>1 DEF Selected
    <3>3. IsPrefix(files'[made[k]], Meaning(scriptfiles[ScriptOf(k)].ops,
                                            EventsOf(logfilefiles[LogOf(k)])))
      BY <1>5, <1>8, <2>2, <3>2 DEF meant, Ops
    <3>4. ~(k < c)
      BY <1>7, <2>2
    <3> QED
      BY <3>3, <3>4 DEF IsOutput
  <2> QED
    BY <2>1, <2>2
<1>12. LinesHaveASource'
  <2> SUFFICES ASSUME NEW k \in 1..c, NEW x \in ToSet(files'[made[k]])
               PROVE  \E l \in 1..LogOf(k) :
                         x \in ToSet(logfilefiles[l].lines) /\ (l = LogOf(k) \/ EndsEarly(logfilefiles[l]))
    BY <1>8, <1>10 DEF LinesHaveASource
  <2>1. CASE x \in ToSet(files[made[k]])
    BY <1>1, <1>8, <2>1 DEF LinesHaveASource
  <2>2. CASE k = c /\ x = e
    <3>1. Sourced(e, logfilefiles, logs)
      BY <1>1, <1>3 DEF Selected
    <3> QED
      BY <1>8, <2>2, <3>1 DEF Sourced
  <2>3. x \in ToSet(files[made[k]]) \/ (k = c /\ x = e)
    <3>1. CASE k # c
      BY <1>9, <3>1
    <3>2. CASE k = c
      <4> DEFINE s == files[h]
                 a == files'[h]
      <4>1. s \in Seq(Entries) /\ a = Append(s, e) /\ e \in Entries
        BY <1>2
      <4> HIDE DEF s, a
      <4>2. /\ a \in Seq(Entries) /\ Len(a) = Len(s) + 1 /\ Len(s) \in Nat /\ a[Len(s) + 1] = e
            /\ \A i \in 1..Len(s) : a[i] = s[i]
        BY <4>1, AppendProperties
      <4>3. x \in ToSet(a)
        BY <1>8, <3>2 DEF a
      <4>4. x \in ToSet(s) \/ x = e
        BY <4>1, <4>2, <4>3 DEF ToSet
      <4> QED
        BY <1>8, <3>2, <4>4 DEF s
    <3> QED
      BY <3>1, <3>2
  <2> QED
    BY <2>1, <2>2, <2>3
<1> QED
  BY <1>2, <1>5, <1>6, <1>11, <1>12 DEF t, meant

LEMMA WriteEntryStep ==
    ASSUME Inv, WriteEntry
    PROVE  Inv'
<1>1. Types /\ Counted /\ Distinct /\ Parsed /\ Spent /\ Streamed /\ Selected
      /\ ResultsAreMeant /\ LinesHaveASource
  BY DEF Inv
<1>2. UNCHANGED <<logfilefiles, scriptfiles, configfile, scripts, logs, reader, events, script, op, made>>
  BY DEF WriteEntry
<1>3. /\ pc = "write" /\ output.events # <<>>
      /\ \/ pc' = "thrown" /\ UNCHANGED <<output, files>>
         \/ pc' = "write" /\ EntryIsAppended /\ output' = [output EXCEPT !.events = Tail(@)]
  BY DEF WriteEntry
<1>4. Counted'
  BY <1>1, <1>2, <1>3 DEF Counted, AtWork
<1>5. Distinct' /\ Parsed'
  BY <1>1, <1>2 DEF Distinct, Parsed, Ops
<1>6. Spent'
  <2>1. CASE pc' = "write"
    <3>1. \A k, i : RunOn(k, i)' => RunOn(k, i)
      BY <1>2, <1>3, <2>1 DEF RunOn, Turn
    <3> QED
      BY <1>1, <1>2, <1>3, <2>1, <3>1 DEF Spent, AtWork
  <2>2. CASE pc' = "thrown"
    BY <2>2 DEF Spent, AtWork
  <2> QED
    BY <1>3, <2>1, <2>2
<1>7. Streamed'
  BY <1>1, <1>2, <1>3 DEF Streamed, AtWork, LinesOf
<1>8. CASE pc' = "thrown" /\ UNCHANGED <<output, files>>
  <2>1. Types'
    BY <1>1, <1>2, <1>8 DEF Types
  <2>2. Selected'
    BY <1>8 DEF Selected
  <2>3. ResultsAreMeant' /\ LinesHaveASource'
    BY <1>1, <1>2, <1>3, <1>8, FilesStay
  <2> QED
    BY <1>4, <1>5, <1>6, <1>7, <2>1, <2>2, <2>3 DEF Inv
<1>9. CASE pc' = "write" /\ EntryIsAppended /\ output' = [output EXCEPT !.events = Tail(@)]
  <2> DEFINE out == output.events
             t == Tail(out)
  <2>1. /\ files' \in [DOMAIN files -> Seq(Entries)] /\ DOMAIN files' = DOMAIN files
        /\ files'[Last(made)] \o t = Meaning(Ops(script), events)
        /\ ResultsAreMeant' /\ LinesHaveASource'
    BY <1>2, <1>3, <1>9, EntryAdded
  <2>2. /\ out \in Seq(Lines) /\ t \in Seq(Lines) /\ Len(t) = Len(out) - 1 /\ Len(out) \in Nat
        /\ \A i \in 1..Len(t) : t[i] = out[i + 1]
    <3> DEFINE o == out
    <3>1. o \in Seq(Lines) /\ o # <<>>
      BY <1>1, <1>3 DEF Types
    <3> HIDE DEF o
    <3>2. /\ Tail(o) \in Seq(Lines) /\ Len(Tail(o)) = Len(o) - 1 /\ Len(o) \in Nat
          /\ \A i \in 1..Len(Tail(o)) : Tail(o)[i] = o[i + 1]
      BY <3>1, HeadTailProperties
    <3> QED
      BY <3>1, <3>2 DEF o
  <2> HIDE DEF t
  <2>3. output'.events = t /\ output' \in [null : BOOLEAN, events : Seq(Lines)]
    <3>1. output \in [null : BOOLEAN, events : Seq(Lines)] /\ output' = [output EXCEPT !.events = t]
      BY <1>1, <1>9 DEF Types, t
    <3> QED
      BY <2>2, <3>1
  <2>4. Types'
    BY <1>1, <1>2, <1>9, <2>1, <2>3 DEF Types
  <2>5. Selected'
    <3>1. /\ \A i \in 1..Len(events) : Sourced(events[i], logfilefiles, logs)
          /\ WellFormedBefore(logfilefiles, logs) => events = EventsOf(logfilefiles[logs])
          /\ \A i \in 1..Len(out) : Sourced(out[i], logfilefiles, logs)
      BY <1>1, <1>3 DEF Selected
    <3>2. \A i \in 1..Len(t) : Sourced(t[i], logfilefiles, logs)
      <4>1. \A i \in 1..Len(t) : i + 1 \in 1..Len(out)
        BY <2>2
      <4> QED
        BY <2>2, <3>1, <4>1
    <3>3. files'[Last(made')] \o output'.events = Meaning(scriptfiles'[script'].ops, events')
      <4>1. Last(made') = Last(made)
        BY <1>2
      <4> QED
        BY <1>2, <2>1, <2>3, <4>1 DEF Ops
    <3> QED
      BY <1>2, <1>9, <2>3, <3>1, <3>2, <3>3 DEF Selected, Ops
  <2> QED
    BY <1>4, <1>5, <1>6, <1>7, <2>1, <2>4, <2>5 DEF Inv
<1> QED
  BY <1>3, <1>8, <1>9

LEMMA WriteEntryFailsStep ==
    ASSUME Inv, WriteEntryFails
    PROVE  Inv'
<1>1. Types /\ Counted /\ Distinct /\ Parsed /\ ResultsAreMeant /\ LinesHaveASource
  BY DEF Inv
<1>2. UNCHANGED <<logfilefiles, scriptfiles, configfile, scripts, logs, reader, events, script, op,
                  output, made>>
  BY DEF WriteEntryFails
<1>3. /\ pc = "write" /\ output.events # <<>> /\ pc' = "false"
      /\ EntryIsAppended \/ UNCHANGED files
  BY DEF WriteEntryFails
<1>4. Counted'
  BY <1>1, <1>2, <1>3 DEF Counted, AtWork
<1>5. Distinct' /\ Parsed'
  BY <1>1, <1>2 DEF Distinct, Parsed, Ops
<1>6. Spent' /\ Streamed' /\ Selected'
  BY <1>3 DEF Spent, Streamed, Selected, AtWork
<1>7. CASE EntryIsAppended
  <2>1. /\ files' \in [DOMAIN files -> Seq(Entries)] /\ DOMAIN files' = DOMAIN files
        /\ ResultsAreMeant' /\ LinesHaveASource'
    BY <1>2, <1>3, <1>7, EntryAdded
  <2>2. Types'
    BY <1>1, <1>2, <1>3, <2>1 DEF Types
  <2> QED
    BY <1>4, <1>5, <1>6, <2>1, <2>2 DEF Inv
<1>8. CASE UNCHANGED files
  <2>1. ResultsAreMeant' /\ LinesHaveASource'
    BY <1>1, <1>2, <1>3, <1>8, FilesStay
  <2>2. Types'
    BY <1>1, <1>2, <1>3, <1>8 DEF Types
  <2> QED
    BY <1>4, <1>5, <1>6, <2>1, <2>2 DEF Inv
<1> QED
  BY <1>3, <1>7, <1>8

LEMMA OutputWrittenStep ==
    ASSUME Inv, OutputWritten
    PROVE  Inv'
<1>1. Types /\ Counted /\ Distinct /\ Parsed /\ Spent /\ Streamed /\ Selected
      /\ ResultsAreMeant /\ LinesHaveASource
  BY DEF Inv
<1>2. UNCHANGED <<logfilefiles, scriptfiles, configfile, scripts, logs, reader, events, op, output,
                  made, files>>
  BY DEF OutputWritten
<1> DEFINE n == Len(scripts)
           c == Len(made)
           h == Last(made)
<1>3. pc = "write" /\ pc' = "scripts" /\ output.events = <<>> /\ script' = script + 1
  BY DEF OutputWritten
<1>4. /\ n \in Nat /\ script \in 1..n /\ logs \in Nat \ {0} /\ c = (logs - 1) * n + script /\ c \in Nat
      /\ made \in Seq(DOMAIN files) /\ n = Len(scriptfiles) /\ script' \in 1..(n + 1)
  <2>1. /\ n \in Nat /\ script \in 1..n /\ logs \in Nat \ {0} /\ c = (logs - 1) * n + script
        /\ c \in Nat /\ made \in Seq(DOMAIN files) /\ n = Len(scriptfiles)
    BY <1>1, <1>3 DEF Types, Counted, AtWork
  <2>2. script' \in 1..(n + 1)
    BY <1>3, <2>1
  <2> QED
    BY <2>1, <2>2
<1>5. c \in 1..c /\ h = made[c] /\ h \in DOMAIN files /\ LogOf(c) = logs /\ ScriptOf(c) = script
      /\ DOMAIN made = 1..c
  <2>1. c \in 1..c /\ h = made[c] /\ h \in DOMAIN files /\ LogOf(c) = logs /\ ScriptOf(c) = script
    BY <1>1, <1>4, InHand
  <2> QED
    BY <1>4, <2>1
<1>6. Types'
  BY <1>1, <1>2, <1>3, <1>4 DEF Types
<1>7. Counted'
  <2> DEFINE a == (logs - 1) * n
             b == logs * n
  <2>1. a \in Nat /\ b \in Nat /\ c = a + script /\ c <= b
    BY <1>1, <1>4 DEF Counted
  <2>2. a = (logs' - 1) * Len(scripts') /\ b = logs' * Len(scripts')
    BY <1>2
  <2> HIDE DEF a, b
  <2>3. Len(made') = a + (script' - 1) /\ Len(made') <= b
    BY <1>2, <1>3, <1>4, <2>1
  <2> HIDE DEF n
  <2>4. Len(scripts') = n /\ n = Len(scriptfiles')
    BY <1>2, <1>4 DEF n
  <2> QED
    BY <1>2, <1>3, <1>4, <2>2, <2>3, <2>4 DEF Counted, AtWork
<1>8. Distinct' /\ Parsed'
  BY <1>1, <1>2 DEF Distinct, Parsed, Ops
<1>9. Spent'
  <2>1. \A k, i : RunOn(k, i)' => RunOn(k, i)
    BY <1>2, <1>3 DEF RunOn, Turn
  <2> QED
    BY <1>1, <1>2, <1>3, <2>1 DEF Spent, AtWork
<1>10. Streamed'
  BY <1>1, <1>2, <1>3 DEF Streamed, AtWork, LinesOf
<1>11. Selected'
  BY <1>1, <1>2, <1>3 DEF Selected
<1>12. \A k : LogOf(k)' = LogOf(k) /\ ScriptOf(k)' = ScriptOf(k)
  BY <1>2 DEF LogOf, ScriptOf
<1>13. LinesHaveASource'
  BY <1>1, <1>2, <1>12 DEF LinesHaveASource
<1>14. ResultsAreMeant'
  <2> SUFFICES ASSUME NEW k \in 1..c, \A l \in 1..(LogOf(k) - 1) : ~EndsEarly(logfilefiles[l])
               PROVE  files[made[k]] = Meaning(scriptfiles[ScriptOf(k)].ops,
                                               EventsOf(logfilefiles[LogOf(k)]))
    <3>1. \A k \in 1..c : Written(k)'
      BY <1>3 DEF Written
    <3> QED
      BY <1>2, <1>5, <1>12, <3>1 DEF ResultsAreMeant, IsOutput
  <2>1. CASE k # c
    <3>1. Written(k)
      BY <1>4, <2>1 DEF Written
    <3> QED
      BY <1>1, <1>5, <3>1 DEF ResultsAreMeant, IsOutput
  <2>2. CASE k = c
    <3>1. WellFormedBefore(logfilefiles, logs)
      BY <1>5, <2>2 DEF WellFormedBefore
    <3>2. events = EventsOf(logfilefiles[logs])
      BY <1>1, <1>3, <3>1 DEF Selected
    <3>3. files[h] \o output.events = Meaning(Ops(script), events)
      BY <1>1, <1>3 DEF Selected
    <3>4. files[h] \o <<>> = files[h]
      <4> DEFINE s == files[h]
      <4>1. s \in Seq(Entries)
        <5>1. files \in [DOMAIN files -> Seq(Entries)]
          BY <1>1 DEF Types
        <5> HIDE DEF h
        <5> QED
          BY <1>5, <5>1
      <4> HIDE DEF s
      <4>2. s \o <<>> = s
        BY <4>1
      <4> QED
        BY <4>2 DEF s
    <3>5. files[h] = Meaning(scriptfiles[script].ops, events)
      BY <1>3, <3>3, <3>4 DEF Ops
    <3> QED
      BY <1>5, <2>2, <3>2, <3>5
  <2> QED
    BY <2>1, <2>2
<1> QED
  BY <1>6, <1>7, <1>8, <1>9, <1>10, <1>11, <1>13, <1>14 DEF Inv

LEMMA Stutters ==
    ASSUME Inv, UNCHANGED vars
    PROVE  Inv'
<1>1. Types /\ Counted /\ Distinct /\ Parsed /\ Spent /\ Streamed /\ Selected
      /\ ResultsAreMeant /\ LinesHaveASource
  BY DEF Inv
<1>2. UNCHANGED <<pc, logfilefiles, scriptfiles, configfile, scripts, logs, reader, events,
                  script, op, output, made, files>>
  BY DEF vars
<1>3. Types' /\ Counted'
  BY <1>1, <1>2 DEF Types, Counted
<1>4. Distinct' /\ Parsed'
  BY <1>1, <1>2 DEF Distinct, Parsed, Ops
<1>5. Spent'
  BY <1>1, <1>2 DEF Spent, RunOn, Turn
<1>6. Streamed' /\ Selected'
  BY <1>1, <1>2 DEF Streamed, Selected, LinesOf, Ops
<1>7. ResultsAreMeant' /\ LinesHaveASource'
  BY <1>1, <1>2, FilesStay
<1> QED
  BY <1>3, <1>4, <1>5, <1>6, <1>7 DEF Inv

\* The state of startAnalysis and of what it calls, after any number of steps.
THEOREM Invariance == Spec => []Inv
<1>1. Inv /\ [Next]_vars => Inv'
  <2> SUFFICES ASSUME Inv, [Next]_vars PROVE Inv'
    OBVIOUS
  <2>1. CASE \/ \E f \in LogFiles : AddLogFile(f)
             \/ \E f \in ScriptFiles : AddScriptFile(f)
             \/ \E c \in {"valid", "invalid"} : AddConfigFile(c)
             \/ StartAnalysis
    BY <2>1, MenuSteps
  <2>2. CASE ParseScript
    BY <2>2, ParseScriptStep
  <2>3. CASE BeginLog
    BY <2>3, BeginLogStep
  <2>13. CASE OpenLogFails
    BY <2>13, OpenLogFailsStep
  <2>14. CASE WriteEntryFails
    BY <2>14, WriteEntryFailsStep
  <2>4. CASE ReadHeader
    BY <2>4, ReadHeaderStep
  <2>5. CASE ReadEvent
    BY <2>5, ReadEventStep
  <2>6. CASE OpenOutput
    BY <2>6, OpenOutputStep
  <2>7. CASE NextLog
    BY <2>7, NextLogStep
  <2>8. CASE ApplyOp
    BY <2>8, ApplyOpStep
  <2>9. CASE AlertReturns
    BY <2>9, AlertReturnsStep
  <2>10. CASE WriteEntry
    BY <2>10, WriteEntryStep
  <2>11. CASE OutputWritten
    BY <2>11, OutputWrittenStep
  <2>12. CASE UNCHANGED vars
    BY <2>12, Stutters
  <2> QED
    BY <2>1, <2>2, <2>3, <2>4, <2>5, <2>6, <2>7, <2>8, <2>9, <2>10, <2>11, <2>12,
       <2>13, <2>14 DEF Next
<1> QED
  BY <1>1, Initially, PTL DEF Spec

LEMMA TypesAreOK == Inv => TypeOK
<1> SUFFICES ASSUME Inv PROVE TypeOK
  OBVIOUS
<1>1. Types /\ Counted
  BY DEF Inv
<1>2. ASSUME NEW i \in DOMAIN scripts, NEW j \in DOMAIN scripts[i]
      PROVE  scripts[i][j].keyword \in BOOLEAN
  <2> DEFINE T == [keyword : BOOLEAN, words : Words]
  <2>1. scripts \in Seq(Seq(T))
    BY <1>1 DEF Types
  <2> HIDE DEF T
  <2>2. scripts[i] \in Seq(T)
    BY <2>1
  <2>3. scripts[i][j] \in T
    BY <2>2
  <2> QED
    BY <2>3 DEF T
<1>3. ASSUME pc = "alert" PROVE op \in 1..(Len(scripts[script]) + 1)
  <2>1. scripts[script] \in Seq([keyword : BOOLEAN, words : Words])
    BY <1>1, <1>3 DEF Types, Counted
  <2>2. Len(scripts[script]) \in Nat
    BY <2>1
  <2> QED
    BY <1>1, <1>3, <2>2 DEF Types, Counted
<1> QED
  BY <1>1, <1>2, <1>3 DEF Types, TypeOK

\* What startAnalysis writes is what the script says of the log file, and comes from it, but
\* for the stream that stays open after a line that ends the reading; an output file that an
\* exception or a failed write cuts short has the first entries of that.  For any files and
\* any scripts.
THEOREM SoundAnalysis == Spec => []AnalysisIsSound
<1>1. Inv => AnalysisIsSound
  BY TypesAreOK DEF Inv, AnalysisIsSound
<1> QED
  BY <1>1, Invariance, PTL

\* startAnalysis returns true only when every script was run on every log file, each with an
\* output file of its own, and with a second log file no script can have had an operation.
THEOREM TrueIsComplete == Spec => []TrueMeansComplete
<1>1. Inv => TrueMeansComplete
  <2> SUFFICES ASSUME Inv, pc = "true"
               PROVE  /\ Len(made) = Len(logfilefiles) * Len(scriptfiles)
                      /\ IsInjective(made)
                      /\ Len(logfilefiles) > 1 =>
                            \A i \in DOMAIN scriptfiles : scriptfiles[i].ops = <<>>
    BY DEF TrueMeansComplete
  <2>1. Types /\ Counted /\ Distinct /\ Parsed /\ Spent
    BY DEF Inv
  <2>2. Len(made) = logs * Len(scripts) /\ logs = Len(logfilefiles) /\ Len(scripts) = Len(scriptfiles)
    BY <2>1 DEF Counted
  <2>3. DOMAIN made = 1..Len(made) /\ DOMAIN scriptfiles = 1..Len(scriptfiles) /\ logs \in Nat
    BY <2>1 DEF Types
  <2>4. IsInjective(made)
    BY <2>1, <2>3 DEF Distinct, IsInjective
  <2>5. ASSUME logs > 1, NEW i \in 1..Len(scriptfiles) PROVE scriptfiles[i].ops = <<>>
    <3>1. RunOn(2, i)
      BY <2>3, <2>5 DEF RunOn
    <3>2. Len(scripts[i]) = 0 /\ Ops(i) # "invalid" /\ Len(scripts[i]) = Len(Ops(i))
      BY <2>1, <2>2, <2>5, <3>1 DEF Spent, Parsed, AtWork
    <3>3. Ops(i) \in Seq(Words)
      BY <2>1, <3>2, OpsType
    <3>4. Ops(i) = <<>>
      BY <3>2, <3>3
    <3> QED
      BY <3>4 DEF Ops
  <2> QED
    BY <2>2, <2>3, <2>4, <2>5
<1> QED
  BY <1>1, Invariance, PTL

\* A step never removes an output file, and changes none but the one in hand, by adding to it.
THEOREM KeptOutputs == Spec => OutputsAreKept
<1>1. Inv /\ [Next]_vars =>
         [\A f \in DOMAIN files :
             /\ f \in DOMAIN files'
             /\ \/ files'[f] = files[f]
                \/ made # <<>> /\ f = Last(made) /\ IsPrefix(files[f], files'[f])]_vars
  <2> SUFFICES ASSUME Inv, Next, NEW f \in DOMAIN files
               PROVE  /\ f \in DOMAIN files'
                      /\ \/ files'[f] = files[f]
                         \/ made # <<>> /\ f = Last(made) /\ IsPrefix(files[f], files'[f])
    OBVIOUS
  <2>1. CASE OpenOutput
    <3>1. OutputName \notin DOMAIN files
      BY FreshName DEF Inv, Types
    <3>2. \/ files' = files
          \/ files' = [g \in DOMAIN files \union {OutputName} |->
                         IF g = OutputName THEN <<>> ELSE files[g]]
      BY <2>1 DEF OpenOutput
    <3> QED
      BY <3>1, <3>2
  <2>2. CASE pc = "write" /\ output.events # <<>> /\ EntryIsAppended
    <3> DEFINE h == Last(made)
               e == Head(output.events)
    <3>1. /\ DOMAIN files' = DOMAIN files /\ h \in DOMAIN files /\ files[h] \in Seq(Entries)
          /\ e \in Entries /\ files'[h] = Append(files[h], e)
          /\ \A g \in DOMAIN files : g # h => files'[g] = files[g]
      BY <2>2, EntryWritten
    <3>2. made # <<>>
      <4>1. Types /\ Counted
        BY DEF Inv
      <4>2. logs \in Nat \ {0} /\ script \in 1..Len(scripts)
            /\ Len(made) = (logs - 1) * Len(scripts) + script
        BY <2>2, <4>1 DEF Types, Counted, AtWork
      <4>3. Len(made) \in 1..Len(made)
        BY <4>1, <4>2, InHand
      <4> QED
        BY <4>3
    <3>3. IsPrefix(files[h], files'[h])
      <4> DEFINE s == files[h]
                 a == files'[h]
      <4>1. s \in Seq(Entries) /\ a = Append(s, e) /\ e \in Entries
        BY <3>1
      <4> HIDE DEF s, a, e
      <4>2. /\ a \in Seq(Entries) /\ Len(s) <= Len(a)
            /\ \A i \in 1..Len(s) : a[i] = s[i]
        BY <4>1, AppendProperties
      <4>3. IsPrefix(s, a)
        BY <4>1, <4>2, PrefixOf
      <4> QED
        BY <4>3 DEF s, a
    <3> HIDE DEF h, e
    <3> QED
      BY <3>1, <3>2, <3>3 DEF h
  <2>3. CASE (WriteEntry \/ WriteEntryFails) /\ ~EntryIsAppended
    BY <2>3 DEF WriteEntry, WriteEntryFails
  <2>4. ASSUME ~OpenOutput, ~WriteEntry, ~WriteEntryFails PROVE files' = files
    BY <2>4 DEF Next, AddLogFile, AddScriptFile, AddConfigFile, StartAnalysis, ParseScript,
                BeginLog, OpenLogFails, ReadHeader, ReadEvent, NextLog, ApplyOp, AlertReturns,
                OutputWritten
  <2> QED
    BY <2>1, <2>2, <2>3, <2>4 DEF WriteEntry, WriteEntryFails
<1> QED
  BY <1>1, Invariance, PTL DEF Spec, OutputsAreKept
=============================================================================
