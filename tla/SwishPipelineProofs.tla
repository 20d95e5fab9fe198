------------------------ MODULE SwishPipelineProofs ------------------------
(***************************************************************************)
(* Theorems about SwishPipeline, for lines of any length and number of     *)
(* commands, and whatever fails: who holds the ends of the pipes, which    *)
(* command each child runs and with whom it is connected, and that all     *)
(* children are waited for.                                                *)
(***************************************************************************)
EXTENDS SwishPipeline, FiniteSetTheorems, SequenceTheorems, WellFoundedInduction, TLAPS

LoopTypes ==
    /\ num_pipes \in 0..MaxPipes
    /\ i \in Nat
    /\ pc \in {"pipe", "fork", "close", "wait", "done", "aborted"}
    /\ pc \in {"pipe", "fork", "close"} => i <= num_pipes
    /\ open \in [Processes -> SUBSET Int]
    /\ state \in [Children -> {"none", "forked", "running", "zombie", "reaped"}]

\* At the top of the loop the shell holds the write end of the previous pipe, in
\* the middle both ends of the new pipe as well, after the last iteration nothing.
ShellHolds ==
    /\ pc = "pipe" => open[Shell] \subseteq {WriteEnd(i - 1)}
    /\ pc \in {"fork", "close"} =>
          open[Shell] \subseteq {WriteEnd(i - 1)} \union
                            (IF LastIteration THEN {} ELSE {ReadEnd(i), WriteEnd(i)})
    /\ pc \in {"wait", "done"} /\ i > num_pipes => open[Shell] = {}

\* A child holds what the shell held at the fork, and loses the write end of its
\* own pipe when it becomes its program.
ChildrenHold ==
    \A n \in Children :
        open[n] \subseteq {WriteEnd(n - 1), ReadEnd(n)} \union
                              (IF state[n] = "forked" THEN {WriteEnd(n)} ELSE {})

IInv == LoopTypes /\ ShellHolds /\ ChildrenHold

LEMMA InitHolds == ASSUME Init PROVE IInv
BY PipesAssumption DEF Init, IInv, LoopTypes, ShellHolds, ChildrenHold, Processes, Children, Shell

\* The error paths: some descriptors are closed and the loop is left early.
LEMMA GiveUpKeeps ==
    ASSUME IInv, NEW call, NEW closed, GiveUp(call, closed),
           pc \in {"pipe", "fork", "close"}
    PROVE  IInv'
<1> USE DEF IInv, LoopTypes, Processes, Children, Shell
<1>1. LoopTypes'
  BY DEF GiveUp, loopvars, childvars
<1>2. ShellHolds'
  BY DEF GiveUp, loopvars, childvars, ShellHolds
<1>3. ChildrenHold'
  BY DEF GiveUp, loopvars, childvars, ChildrenHold, ReadEnd, WriteEnd
<1>q. QED BY <1>1, <1>2, <1>3

\* A step of a child that leaves the descriptors alone, closes all of its own,
\* or the write end it does not need.
LEMMA ChildKeeps ==
    ASSUME IInv, NEW n \in Children, ChildStep(n) \/ QuitEarly(n)
    PROVE  IInv'
<1> USE DEF IInv, LoopTypes, Processes, Children, Shell
<1>1. UNCHANGED <<i, num_pipes, pc>>
  BY DEF ChildStep, QuitEarly, Exec, ExecFails, Read, Write, SigPipe, EndOfInput, Ends,
     shellvars, loopvars
<1>2. \/ UNCHANGED <<open, state>>
      \/ /\ open' = [open EXCEPT ![n] = {}]
         /\ state' = [state EXCEPT ![n] = "zombie"]
      \/ /\ open' = [open EXCEPT ![n] = @ \ {WriteEnd(n)}]
         /\ state' = [state EXCEPT ![n] = "running"]
         /\ state[n] = "forked"
  BY DEF ChildStep, QuitEarly, Exec, ExecFails, Read, Write, SigPipe, EndOfInput, Ends
<1>3. LoopTypes'
  BY <1>1, <1>2
<1>4. ShellHolds'
  BY <1>1, <1>2 DEF ShellHolds, LastIteration
<1>5. ChildrenHold'
  <2>1. ASSUME NEW m \in Children
        PROVE  /\ open'[m] \subseteq open[m]
               /\ \/ state'[m] = state[m]
                  \/ open'[m] = {}
                  \/ open'[m] = open[m] \ {WriteEnd(m)}
    BY <1>2
  <2>q. QED BY <2>1 DEF ChildrenHold
<1>q. QED BY <1>3, <1>4, <1>5

LEMMA StepKeeps == ASSUME IInv, [Next]_vars PROVE IInv'
<1> USE PipesAssumption DEF IInv, LoopTypes, Processes, Children, Shell
<1>1. CASE MakePipe
  <2>1. LoopTypes'
    BY <1>1 DEF MakePipe, loopvars, childvars, ReadEnd, WriteEnd
  <2>2. ShellHolds'
    BY <1>1 DEF MakePipe, loopvars, childvars, ShellHolds, LastIteration
  <2>3. ChildrenHold'
    BY <1>1 DEF MakePipe, loopvars, childvars, ChildrenHold, LastIteration
  <2>q. QED BY <2>1, <2>2, <2>3
<1>2. CASE PipeFails \/ ForkFails \/ CloseFails
  BY <1>2, GiveUpKeeps DEF PipeFails, ForkFails, CloseFails
<1>3. CASE Fork
  <2>1. LoopTypes'
    BY <1>3 DEF Fork, loopvars
  <2>2. ShellHolds'
    BY <1>3 DEF Fork, loopvars, ShellHolds, LastIteration
  <2>3. ChildrenHold'
    BY <1>3 DEF Fork, loopvars, ChildrenHold, ShellHolds, LastIteration
  <2>q. QED BY <2>1, <2>2, <2>3
<1>4. CASE CloseAndContinue
  <2>1. LoopTypes'
    BY <1>4 DEF CloseAndContinue, NextIteration, LastIteration, childvars
  <2>2. ShellHolds'
    BY <1>4 DEF CloseAndContinue, childvars, ShellHolds, LastIteration, ClosedByShell,
       ReadEnd, WriteEnd
  <2>3. ChildrenHold'
    BY <1>4 DEF CloseAndContinue, childvars, ChildrenHold
  <2>q. QED BY <2>1, <2>2, <2>3
<1>5. CASE WaitFails \/ Return \/ \E n \in Children : Reap(n)
  <2>1. /\ UNCHANGED <<i, num_pipes, open>>
        /\ pc = "wait" /\ pc' \in {"wait", "done"}
        /\ \A n \in Children : state'[n] = "forked" <=> state[n] = "forked"
        /\ state' \in [Children -> {"none", "forked", "running", "zombie", "reaped"}]
    BY <1>5 DEF WaitFails, Return, Reap, loopvars, childvars
  <2>q. QED BY <2>1 DEF ShellHolds, ChildrenHold
<1>8. CASE Abort
  BY <1>8 DEF Abort, loopvars, childvars, ShellHolds, ChildrenHold
<1>6. ASSUME NEW n \in Children, ChildStep(n) \/ QuitEarly(n) PROVE IInv'
  BY <1>6, ChildKeeps
<1>7. CASE UNCHANGED vars
  BY <1>7 DEF vars, shellvars, loopvars, childvars, ShellHolds, ChildrenHold, LastIteration
<1>q. QED BY <1>1, <1>2, <1>3, <1>4, <1>5, <1>6, <1>7, <1>8 DEF Next, ShellStep

\* Only the two commands a pipe connects, and for a while the shell, ever hold
\* its ends, so the end of input arrives and nobody writes into the void.
THEOREM NoStrayEndsAlways == Spec => []NoStrayEnds
<1>1. IInv => NoStrayEnds
  <2> SUFFICES ASSUME IInv PROVE NoStrayEnds
    OBVIOUS
  <2> USE DEF IInv, LoopTypes, Processes, Children, Pipes, Shell
  <2>1. ASSUME NEW k \in Pipes, NEW p \in Children
        PROVE  /\ WriteEnd(k) \in open[p] => p = k + 1 \/ (p = k /\ state[k] = "forked")
               /\ ReadEnd(k) \in open[p] => p = k
    BY PipesAssumption DEF ChildrenHold, ReadEnd, WriteEnd
  <2>q. QED BY <2>1 DEF NoStrayEnds, ShellHolds, Writers, Readers
<1>q. QED BY <1>1, InitHolds, StepKeeps, PTL DEF Spec

-----------------------------------------------------------------------------
\* The bars of a line from position k on, and how many they are.
Bars(s, k) == {b \in k..Len(s) : s[b] = "|"}
BarsFrom(s, k) == Cardinality(Bars(s, k))

LEMMA BarsAreFinite ==
    ASSUME NEW s \in Seq(STRING), NEW k \in Int
    PROVE  IsFiniteSet(Bars(s, k)) /\ BarsFrom(s, k) \in Nat
<1>1. IsFiniteSet(k..Len(s))
  BY FS_Interval
<1>2. IsFiniteSet(Bars(s, k))
  BY <1>1, FS_Subset DEF Bars
<1>q. QED BY <1>2, FS_CardinalityType DEF BarsFrom

LEMMA BarsStep ==
    ASSUME NEW s \in Seq(STRING), NEW k \in 1..Len(s)
    PROVE  BarsFrom(s, k) = BarsFrom(s, k + 1) + (IF s[k] = "|" THEN 1 ELSE 0)
<1>1. CASE s[k] = "|"
  <2>1. Bars(s, k) = Bars(s, k + 1) \union {k} /\ k \notin Bars(s, k + 1)
    BY <1>1 DEF Bars
  <2>2. IsFiniteSet(Bars(s, k + 1))
    BY BarsAreFinite
  <2>q. QED BY <1>1, <2>1, <2>2, FS_AddElement DEF BarsFrom
<1>2. CASE s[k] # "|"
  <2>1. Bars(s, k) = Bars(s, k + 1)
    BY <1>2 DEF Bars
  <2>q. QED BY <1>2, <2>1, BarsAreFinite DEF BarsFrom
<1>q. QED BY <1>1, <1>2

\* Further to the right there are not more of them, and as many only if there is
\* none in between.
LEMMA BarsShrink ==
    ASSUME NEW s \in Seq(STRING), NEW j \in 1..Len(s) + 1, NEW k \in j..Len(s) + 1
    PROVE  /\ BarsFrom(s, k) <= BarsFrom(s, j)
           /\ BarsFrom(s, k) = BarsFrom(s, j) <=> \A b \in j..k-1 : s[b] # "|"
<1>1. Bars(s, k) \subseteq Bars(s, j)
  BY DEF Bars
<1>2. /\ BarsFrom(s, k) <= BarsFrom(s, j)
      /\ BarsFrom(s, k) = BarsFrom(s, j) => Bars(s, k) = Bars(s, j)
  <2>1. IsFiniteSet(Bars(s, j))
    BY BarsAreFinite
  <2>q. QED BY <1>1, <2>1, FS_Subset DEF BarsFrom
<1>3. Bars(s, k) = Bars(s, j) <=> \A b \in j..k-1 : s[b] # "|"
  BY DEF Bars
<1>q. QED BY <1>2, <1>3 DEF BarsFrom

LEMMA NoBarsAtEnd ==
    ASSUME NEW s \in Seq(STRING)
    PROVE  BarsFrom(s, Len(s) + 1) = 0
<1>1. Bars(s, Len(s) + 1) = {}
  BY DEF Bars
<1>q. QED BY <1>1, FS_EmptySet DEF BarsFrom

LEMMA AllBars ==
    ASSUME NEW s \in Seq(STRING)
    PROVE  strvec_num_occurrences(s, "|") = BarsFrom(s, 1)
BY DEF strvec_num_occurrences, BarsFrom, Bars

\* What strvec_find_last promises.
LEMMA FindLast ==
    ASSUME NEW s \in Seq(STRING), NEW r, r = strvec_find_last(s, "|")
    PROVE  \/ r = -1 /\ \A k \in 1..Len(s) : s[k] # "|"
           \/ /\ r \in 0..Len(s)-1
              /\ s[r + 1] = "|"
              /\ \A k \in r+2..Len(s) : s[k] # "|"
<1>1. CASE \A k \in 1..Len(s) : s[k] # "|"
  BY <1>1 DEF strvec_find_last
<1>2. CASE \E k \in 1..Len(s) : s[k] = "|"
  <2> DEFINE Distances == {Len(s) - k : k \in {b \in 1..Len(s) : s[b] = "|"}}
  <2>1. Distances \subseteq Nat /\ Distances # {}
    BY <1>2
  <2> HIDE DEF Distances
  <2>2. PICK d \in Distances : \A e \in Distances : ~(<<e, d>> \in OpToRel(<, Nat))
    BY <2>1, NatLessThanWellFounded, WFMin
  <2>3. OpToRel(<, Nat) = {ss \in Nat \X Nat : ss[1] < ss[2]}
    BY Zenon DEF OpToRel
  <2>4. ASSUME NEW e \in Distances PROVE d <= e
    <3>1. <<e, d>> \notin {ss \in Nat \X Nat : ss[1] < ss[2]}
      BY <2>2, <2>3, Zenon
    <3>2. <<e, d>> \in Nat \X Nat
      BY <2>1
    <3>q. QED BY <3>1, <3>2, <2>1
  <2>5. \E i_ \in 0..Len(s)-1 : s[i_ + 1] = "|" /\ \A k \in i_+2..Len(s) : s[k] # "|"
    <3>1. PICK b \in 1..Len(s) : s[b] = "|" /\ d = Len(s) - b
      BY DEF Distances
    <3>2. ASSUME NEW k \in b+1..Len(s) PROVE s[k] # "|"
      <4>1. s[k] = "|" => Len(s) - k \in Distances
        BY <3>1 DEF Distances
      <4>q. QED BY <4>1, <2>4, <3>1
    <3>3. b - 1 \in 0..Len(s)-1 /\ (b - 1) + 1 = b /\ (b - 1) + 2 = b + 1
      BY <3>1
    <3>q. QED BY <3>1, <3>2, <3>3
  <2>q. QED BY <1>2, <2>5 DEF strvec_find_last
<1>q. QED BY <1>1, <1>2

-----------------------------------------------------------------------------
\* Where the loop stands in the line: last_pipe_idx and curr_pipe_idx are the bars
\* on the right and on the left of command i, and tokens is what is left of the first.
InLoop == pc \in {"pipe", "fork", "close"}

LineTypes ==
    /\ line \in Seq(STRING)
    /\ line \in Lines
    /\ num_pipes = BarsFrom(line, 1)
    /\ tokens \in Seq(STRING)
    /\ Len(tokens) <= Len(line)
    /\ last_pipe_idx \in 0..Len(line)
    /\ curr_pipe_idx \in -1..Len(line)-1
    /\ write_to_pipe \in Descriptors

RightBar ==
    /\ BarsFrom(line, last_pipe_idx + 1) = i
    /\ IF i = 0 THEN last_pipe_idx = Len(line)
       ELSE last_pipe_idx < Len(line) /\ line[last_pipe_idx + 1] = "|"

LeftBar ==
    /\ curr_pipe_idx < last_pipe_idx \/ curr_pipe_idx = -1
    /\ curr_pipe_idx = -1 <=> i = num_pipes
    /\ curr_pipe_idx # -1 => line[curr_pipe_idx + 1] = "|"
    /\ \A k \in curr_pipe_idx+2..last_pipe_idx : line[k] # "|"

AtCommand ==
    InLoop => /\ tokens = SubSeq(line, 1, last_pipe_idx)
              /\ write_to_pipe = IF i = 0 THEN -1 ELSE WriteEnd(i - 1)
              /\ RightBar
              /\ LeftBar

\* The children are those of the iterations that have forked, each with its
\* command and the two pipes beside it.
Created ==
    /\ children_created \in 0..num_pipes+1
    /\ \A n \in Children : state[n] # "none" <=> n < children_created
    /\ pc \in {"pipe", "fork"} => children_created = i
    /\ pc = "close" => children_created = i + 1

Connected ==
    /\ input \in [Children -> Descriptors]
    /\ output \in [Children -> Descriptors]
    /\ argv = [n \in Children |-> argv[n]]
    /\ \A n \in Children : state[n] # "none" =>
          /\ argv[n] = Command(n)
          /\ output[n] = IF n = 0 THEN -1 ELSE WriteEnd(n - 1)
          /\ input[n] = IF n = num_pipes THEN -1 ELSE ReadEnd(n)

CInv == IInv /\ LineTypes /\ AtCommand /\ Created /\ Connected

\* Where the search from the left end of a cut line stops.
LEMMA LeftBarFound ==
    ASSUME NEW s \in Seq(STRING), NEW last \in 0..Len(s), NEW r,
           r = strvec_find_last(SubSeq(s, 1, last), "|")
    PROVE  /\ r \in -1..Len(s)-1
           /\ r < last \/ r = -1
           /\ r = -1 <=> BarsFrom(s, last + 1) = BarsFrom(s, 1)
           /\ r # -1 => s[r + 1] = "|"
           /\ \A k \in r+2..last : s[k] # "|"
<1> DEFINE t == SubSeq(s, 1, last)
<1>1. t \in Seq(STRING) /\ Len(t) = last /\ \A k \in 1..last : t[k] = s[k]
  BY SubSeqProperties
<1>2. BarsFrom(s, last + 1) = BarsFrom(s, 1) <=> \A k \in 1..last : s[k] # "|"
  BY BarsShrink
<1> HIDE DEF t
<1>3. \/ r = -1 /\ \A k \in 1..last : s[k] # "|"
      \/ /\ r \in 0..last-1
         /\ s[r + 1] = "|"
         /\ \A k \in r+2..last : s[k] # "|"
  <2>1. \/ r = -1 /\ \A k \in 1..Len(t) : t[k] # "|"
        \/ /\ r \in 0..Len(t)-1
           /\ t[r + 1] = "|"
           /\ \A k \in r+2..Len(t) : t[k] # "|"
    BY <1>1, FindLast DEF t
  <2>q. QED BY <1>1, <2>1
<1>q. QED BY <1>2, <1>3

\* Command i is what the shell slices from tokens in iteration i.
LEMMA SlicedIsCommand ==
    ASSUME CInv, InLoop
    PROVE  Sliced = Command(i)
<1> USE DEF CInv, IInv, LoopTypes, LineTypes, AtCommand, InLoop
<1> DEFINE last == last_pipe_idx
           curr == curr_pipe_idx
           words == {k \in 1..Len(line) : line[k] # "|" /\ BarsFrom(line, k + 1) = i}
           before == {k \in 1..Len(line) : BarsFrom(line, k) > i}
<1>1. /\ last \in 0..Len(line) /\ curr \in -1..Len(line)-1
      /\ curr < last \/ curr = -1
      /\ BarsFrom(line, last + 1) = i
      /\ \A k \in curr+2..last : line[k] # "|"
      /\ curr # -1 => line[curr + 1] = "|"
  BY DEF RightBar, LeftBar
<1>0. ASSUME NEW k \in Int PROVE BarsFrom(line, k) \in Nat
  BY BarsAreFinite
<1>2. \A k \in curr+2..last+1 : BarsFrom(line, k) = i
  <2>1. SUFFICES ASSUME NEW k \in curr+2..last+1 PROVE BarsFrom(line, k) = BarsFrom(line, last + 1)
    BY <1>1
  <2>2. k \in 1..Len(line) + 1 /\ last + 1 \in k..Len(line) + 1
    BY <1>1
  <2>3. \A b \in k..(last + 1)-1 : line[b] # "|"
    BY <1>1
  <2>q. QED BY <2>2, <2>3, BarsShrink
<1>3. ASSUME NEW k \in 1..curr+1 PROVE BarsFrom(line, k) > i
  <2>1. curr + 1 \in 1..Len(line) /\ line[curr + 1] = "|" /\ curr + 2 \in curr+2..last+1
    BY <1>1
  <2>2. BarsFrom(line, curr + 1) = i + 1
    <3>1. BarsFrom(line, curr + 1) = BarsFrom(line, (curr + 1) + 1) + 1
      BY <2>1, BarsStep
    <3>q. QED BY <3>1, <2>1, <1>2, <1>1
  <2>3. BarsFrom(line, curr + 1) <= BarsFrom(line, k)
    BY <2>1, BarsShrink, SMTT(30)
  <2>4. BarsFrom(line, k) \in Nat
    <3>1. k \in Int
      BY <1>1
    <3>q. QED BY <3>1, <1>0, Zenon
  <2>q. QED BY <2>2, <2>3, <2>4, <1>1
<1>4. ASSUME NEW k \in last+1..Len(line), line[k] # "|" PROVE BarsFrom(line, k + 1) < i
  <2>1. last + 1 \in 1..Len(line) /\ line[last + 1] = "|" /\ k # last + 1
    BY <1>1, <1>4 DEF RightBar
  <2>2. BarsFrom(line, last + 1) = BarsFrom(line, (last + 1) + 1) + 1
    BY <2>1, BarsStep
  <2>3. BarsFrom(line, k + 1) <= BarsFrom(line, (last + 1) + 1)
    <3>1. (last + 1) + 1 \in 1..Len(line) + 1 /\ k + 1 \in (last + 1) + 1..Len(line) + 1
      BY <1>1, <2>1
    <3>q. QED BY <3>1, BarsShrink
  <2>4. BarsFrom(line, (last + 1) + 1) \in Nat /\ BarsFrom(line, k + 1) \in Nat
    <3>1. (last + 1) + 1 \in Int /\ k + 1 \in Int
      BY <1>1
    <3>q. QED BY <3>1, <1>0, Zenon
  <2>q. QED BY <1>1, <2>2, <2>3, <2>4
<1>5. ASSUME NEW k \in last+1..Len(line) PROVE ~(BarsFrom(line, k) > i)
  <2>1. BarsFrom(line, k) <= BarsFrom(line, last + 1)
    BY <1>1, BarsShrink
  <2>2. BarsFrom(line, k) \in Nat
    BY <1>0, <1>1
  <2>q. QED BY <1>1, <2>1, <2>2
<1>6. words = curr+2..last
  <2>1. ASSUME NEW k \in curr+2..last PROVE k \in words
    BY <1>1, <1>2
  <2>2. ASSUME NEW k \in words PROVE k \in curr+2..last
    <3>1. k <= last
      BY <1>1, <1>4
    <3>2. k > curr + 1
      <4>1. SUFFICES ASSUME k <= curr + 1 PROVE FALSE
        BY <1>1
      <4>2. k # curr + 1
        BY <1>1
      <4>3. k + 1 \in 1..curr+1
        BY <1>1, <4>1, <4>2
      <4>q. QED BY <1>3, <4>3
    <3>q. QED BY <1>1, <3>1, <3>2
  <2>q. QED BY <2>1, <2>2
<1>7. before = 1..curr+1
  <2>1. ASSUME NEW k \in 1..Len(line), k > curr + 1 PROVE ~(BarsFrom(line, k) > i)
    BY <1>1, <1>2, <1>5, <2>1
  <2>q. QED BY <1>1, <1>3, <2>1
<1>8. Command(i) = [k \in 1..Cardinality(words) |-> line[Cardinality(before) + k]]
  BY DEF Command, BarsFrom, Bars
<1>9. Cardinality(words) = (IF last > curr + 1 THEN last - (curr + 1) ELSE 0) /\ Cardinality(before) = curr + 1
  <2>1. /\ Cardinality(curr+2..last) = IF curr + 2 > last THEN 0 ELSE last - (curr + 2) + 1
        /\ Cardinality(1..curr+1) = IF 1 > curr + 1 THEN 0 ELSE (curr + 1) - 1 + 1
    BY <1>1, FS_Interval
  <2> HIDE DEF words, before
  <2>q. QED BY <1>1, <1>6, <1>7, <2>1
<1> HIDE DEF words, before
<1>10. Command(i) = [k \in 1..last - (curr + 1) |-> line[(curr + 1) + k]]
  BY <1>1, <1>8, <1>9
<1>11. Sliced = SubSeq(tokens, (curr + 1) + 1, last)
  <2>1. Len(tokens) = last
    BY <1>1, SubSeqProperties
  <2>2. ~(curr + 1 < 0) /\ ~(last > Len(tokens))
    BY <1>1, <2>1
  <2>q. QED BY <2>1, <2>2 DEF Sliced, strvec_slice
<1>12. Sliced = [k \in 1..last - (curr + 1) |-> tokens[(curr + 1) + k]]
  BY <1>1, <1>11
<1>13. \A k \in 1..last - (curr + 1) : tokens[(curr + 1) + k] = line[(curr + 1) + k]
  BY <1>1, SubSeqProperties
<1>q. QED BY <1>10, <1>12, <1>13

LEMMA ConnectionsInit == ASSUME Init PROVE CInv
<1> USE DEF Init
<1>1. line \in Lines /\ line \in Seq(STRING) /\ Len(line) \in Nat
  BY PipesAssumption
<1>2. SubSeq(line, 1, Len(line)) = line
  BY <1>1, SubSeqProperties
<1>3. BarsFrom(line, Len(line) + 1) = 0 /\ num_pipes = BarsFrom(line, 1)
  BY <1>1, NoBarsAtEnd, AllBars
<1>4. /\ curr_pipe_idx \in -1..Len(line)-1
      /\ curr_pipe_idx = -1 <=> 0 = num_pipes
      /\ curr_pipe_idx # -1 => line[curr_pipe_idx + 1] = "|"
      /\ \A k \in curr_pipe_idx+2..Len(line) : line[k] # "|"
  <2>1. curr_pipe_idx = strvec_find_last(SubSeq(line, 1, Len(line)), "|")
    BY <1>2, Zenon
  <2>2. Len(line) \in 0..Len(line)
    BY <1>1
  <2>3. /\ curr_pipe_idx \in -1..Len(line)-1
        /\ curr_pipe_idx = -1 <=> BarsFrom(line, Len(line) + 1) = BarsFrom(line, 1)
        /\ curr_pipe_idx # -1 => line[curr_pipe_idx + 1] = "|"
        /\ \A k \in curr_pipe_idx+2..Len(line) : line[k] # "|"
    BY <1>1, <2>1, <2>2, LeftBarFound
  <2>q. QED BY <1>3, <2>3
<1>5. LineTypes
  BY <1>1, <1>3, <1>4 DEF LineTypes, Descriptors
<1>6. AtCommand
  BY <1>1, <1>2, <1>3, <1>4 DEF AtCommand, RightBar, LeftBar
<1>7. Created
  BY <1>1, PipesAssumption DEF Created, Children
<1>8. Connected
  BY DEF Connected, Descriptors
<1>q. QED BY <1>5, <1>6, <1>7, <1>8, InitHolds DEF CInv

\* A step that leaves the loop and the commands alone, be it the last of the loop.
LEMMA ConnectionsStay ==
    ASSUME CInv, IInv', UNCHANGED <<line, loopvars, children_created, cmdvars>>,
           InLoop' => pc' = pc,
           \A n \in Children : state'[n] = "none" <=> state[n] = "none"
    PROVE  CInv'
<1>1. LineTypes'
  BY DEF CInv, LineTypes, loopvars
<1>2. AtCommand'
  BY DEF CInv, AtCommand, RightBar, LeftBar, InLoop, loopvars
<1>3. Created'
  BY DEF CInv, Created, InLoop, loopvars
<1>4. \A n : Command(n)' = Command(n)
  BY DEF Command
<1>5. Connected'
  <2>1. UNCHANGED <<num_pipes, argv, input, output>>
    BY DEF cmdvars, loopvars
  <2>q. QED BY <1>4, <2>1 DEF CInv, Connected
<1>q. QED BY <1>1, <1>2, <1>3, <1>5 DEF CInv

LEMMA ForkConnects == ASSUME CInv, IInv', Fork PROVE CInv'
<1>1. LineTypes'
  BY DEF CInv, LineTypes, Fork, loopvars
<1>2. AtCommand'
  BY DEF CInv, AtCommand, RightBar, LeftBar, InLoop, Fork, loopvars
<1>3. i \in Children /\ i <= num_pipes /\ num_pipes \in Nat /\ children_created = i /\ InLoop
  BY PipesAssumption DEF CInv, IInv, LoopTypes, Created, Fork, InLoop, Children
<1>4. Created'
  BY <1>3 DEF CInv, IInv, LoopTypes, Created, Fork, loopvars, Children
<1>5. Connected'
  <2>1. Sliced = Command(i)
    BY <1>3, SlicedIsCommand
  <2>2. UNCHANGED <<line, num_pipes>> /\ \A n : Command(n)' = Command(n)
    BY DEF Fork, loopvars, Command
  <2>3. write_to_pipe = (IF i = 0 THEN -1 ELSE WriteEnd(i - 1)) /\ write_to_pipe \in Descriptors
    BY <1>3 DEF CInv, AtCommand, LineTypes
  <2>4. (IF LastIteration THEN -1 ELSE ReadEnd(i)) \in Descriptors
    BY <1>3, PipesAssumption DEF CInv, IInv, LoopTypes, LastIteration, Descriptors, ReadEnd
  <2>5. input' \in [Children -> Descriptors] /\ output' \in [Children -> Descriptors]
    BY <2>3, <2>4 DEF CInv, Connected, Fork
  <2>6. argv' = [n \in Children |-> argv'[n]]
    BY DEF CInv, Connected, Fork
  <2>7. ASSUME NEW n \in Children, state'[n] # "none"
        PROVE  /\ argv'[n] = Command(n)
               /\ output'[n] = IF n = 0 THEN -1 ELSE WriteEnd(n - 1)
               /\ input'[n] = IF n = num_pipes THEN -1 ELSE ReadEnd(n)
    <3>1. CASE n = i
      BY <1>3, <2>1, <2>3, <3>1 DEF CInv, Connected, Fork, LastIteration
    <3>2. CASE n # i
      BY <2>7, <3>2 DEF CInv, IInv, LoopTypes, Connected, Fork
    <3>q. QED BY <3>1, <3>2
  <2>q. QED BY <2>2, <2>5, <2>6, <2>7 DEF Connected, WriteEnd, ReadEnd
<1>q. QED BY <1>1, <1>2, <1>4, <1>5 DEF CInv

LEMMA IterationConnects ==
    ASSUME CInv, IInv', CloseAndContinue
    PROVE  CInv'
<1> USE DEF CloseAndContinue
<1>1. /\ UNCHANGED <<line, num_pipes, children_created, state, argv, input, output>>
      /\ i' = i + 1
      /\ pc = "close" /\ InLoop
      /\ i \in Nat /\ i <= num_pipes /\ num_pipes \in 0..MaxPipes
  BY DEF childvars, cmdvars, CInv, IInv, LoopTypes, InLoop
<1>2. Connected'
  <2>1. \A n : Command(n)' = Command(n)
    BY <1>1 DEF Command
  <2>q. QED BY <1>1, <2>1 DEF CInv, Connected
<1>3. Created'
  BY <1>1 DEF CInv, Created
<1>4. CASE LastIteration
  <2>1. LineTypes'
    BY <1>1, <1>4 DEF CInv, LineTypes
  <2>2. AtCommand'
    BY <1>1, <1>4 DEF CInv, AtCommand, InLoop
  <2>q. QED BY <1>2, <1>3, <2>1, <2>2 DEF CInv
<1>5. CASE ~LastIteration
  <2> DEFINE curr == curr_pipe_idx
  <2>1. /\ line \in Seq(STRING) /\ line \in Lines /\ Len(line) \in Nat
        /\ num_pipes = BarsFrom(line, 1)
        /\ last_pipe_idx \in 0..Len(line)
        /\ tokens = SubSeq(line, 1, last_pipe_idx)
        /\ curr \in 0..Len(line)-1
        /\ curr < last_pipe_idx
        /\ line[curr + 1] = "|"
        /\ \A k \in curr+2..last_pipe_idx : line[k] # "|"
        /\ BarsFrom(line, last_pipe_idx + 1) = i
    BY <1>1, <1>5 DEF CInv, LineTypes, AtCommand, RightBar, LeftBar, LastIteration
  <2>2. BarsFrom(line, curr + 1) = i + 1
    <3>1. BarsFrom(line, curr + 1) = BarsFrom(line, (curr + 1) + 1) + 1
      BY <2>1, BarsStep
    <3>2. BarsFrom(line, last_pipe_idx + 1) = BarsFrom(line, (curr + 1) + 1)
      <4>1. /\ (curr + 1) + 1 \in 1..Len(line) + 1
            /\ last_pipe_idx + 1 \in (curr + 1) + 1..Len(line) + 1
            /\ \A b \in (curr + 1) + 1..(last_pipe_idx + 1)-1 : line[b] # "|"
        BY <2>1
      <4>q. QED BY <2>1, <4>1, BarsShrink
    <3>q. QED BY <2>1, <3>1, <3>2
  <2>3. tokens' = SubSeq(line, 1, curr)
    <3>1. Len(tokens) = last_pipe_idx /\ \A k \in 1..last_pipe_idx : tokens[k] = line[k]
      BY <2>1, SubSeqProperties
    <3>2. tokens' = SubSeq(tokens, 1, curr)
      BY <1>5, <2>1, <3>1 DEF NextIteration, strvec_take
    <3>3. SubSeq(tokens, 1, curr) = [k \in 1..curr |-> tokens[k]]
      BY <2>1, <3>1
    <3>4. SubSeq(line, 1, curr) = [k \in 1..curr |-> line[k]]
      BY <2>1
    <3>q. QED BY <2>1, <3>1, <3>2, <3>3, <3>4
  <2>4. /\ last_pipe_idx' = curr
        /\ write_to_pipe' = WriteEnd(i)
        /\ pc' = "pipe"
    BY <1>5 DEF NextIteration
  <2>5. PICK r : r = strvec_find_last(tokens', "|")
    OBVIOUS
  <2>6. /\ r \in -1..Len(line)-1
        /\ r < curr \/ r = -1
        /\ r = -1 <=> i + 1 = num_pipes
        /\ r # -1 => line[r + 1] = "|"
        /\ \A k \in r+2..curr : line[k] # "|"
    <3>1. r = strvec_find_last(SubSeq(line, 1, curr), "|") /\ curr \in 0..Len(line)
      BY <2>1, <2>3, <2>5
    <3>2. /\ r \in -1..Len(line)-1
          /\ r < curr \/ r = -1
          /\ r = -1 <=> BarsFrom(line, curr + 1) = BarsFrom(line, 1)
          /\ r # -1 => line[r + 1] = "|"
          /\ \A k \in r+2..curr : line[k] # "|"
      <4> HIDE DEF CloseAndContinue, curr
      <4>q. QED BY <2>1, <3>1, LeftBarFound
    <3>q. QED BY <2>1, <2>2, <3>2
  <2>7. curr_pipe_idx' = r
    BY <1>5, <2>5, <2>6 DEF NextIteration
  <2>8. LineTypes'
    <3>1. tokens' \in Seq(STRING) /\ Len(tokens') = curr
      BY <2>1, <2>3, SubSeqProperties
    <3>2. write_to_pipe' \in Descriptors
      BY <1>1, <1>5, <2>4, PipesAssumption DEF LastIteration, WriteEnd, Descriptors
    <3>q. QED BY <1>1, <2>1, <2>4, <2>6, <2>7, <3>1, <3>2 DEF LineTypes
  <2>9. AtCommand'
    <3>1. RightBar'
      BY <1>1, <2>1, <2>2, <2>4 DEF RightBar
    <3>2. LeftBar'
      BY <1>1, <2>1, <2>4, <2>6, <2>7 DEF LeftBar
    <3>q. QED BY <1>1, <2>3, <2>4, <3>1, <3>2 DEF AtCommand, WriteEnd
  <2>q. QED BY <1>2, <1>3, <2>8, <2>9 DEF CInv
<1>q. QED BY <1>4, <1>5

LEMMA StepConnects == ASSUME CInv, [Next]_vars PROVE CInv'
<1>0. IInv'
  BY StepKeeps DEF CInv
<1>1. CASE MakePipe
  <2>1. LineTypes'
    BY <1>1 DEF CInv, LineTypes, MakePipe, loopvars
  <2>2. AtCommand'
    BY <1>1 DEF CInv, AtCommand, RightBar, LeftBar, InLoop, MakePipe, loopvars
  <2>3. Created'
    BY <1>1 DEF CInv, Created, MakePipe, loopvars, childvars
  <2>4. \A n : Command(n)' = Command(n)
    BY <1>1 DEF Command, MakePipe
  <2>5. Connected'
    BY <1>1, <2>4 DEF CInv, Connected, MakePipe, loopvars, childvars, cmdvars
  <2>q. QED BY <1>0, <2>1, <2>2, <2>3, <2>5 DEF CInv
<1>2. CASE Fork
  BY <1>0, <1>2, ForkConnects
<1>3. CASE CloseAndContinue
  BY <1>0, <1>3, IterationConnects
<1>4. CASE PipeFails \/ ForkFails \/ CloseFails
  BY <1>0, <1>4, ConnectionsStay DEF PipeFails, ForkFails, CloseFails, GiveUp, childvars, InLoop
<1>5. CASE WaitFails \/ Return \/ Abort
  BY <1>0, <1>5, ConnectionsStay DEF WaitFails, Return, Abort, childvars, InLoop
<1>6. ASSUME NEW n \in Children, Reap(n) PROVE CInv'
  <2>1. \A m \in Children : state'[m] = "none" <=> state[m] = "none"
    BY <1>6 DEF Reap, CInv, IInv, LoopTypes
  <2>q. QED BY <1>0, <1>6, <2>1, ConnectionsStay DEF Reap, InLoop
<1>7. ASSUME NEW n \in Children, ChildStep(n) \/ QuitEarly(n) PROVE CInv'
  <2>1. UNCHANGED <<shellvars, cmdvars>>
    BY <1>7 DEF ChildStep, QuitEarly, Exec, ExecFails, Read, Write, SigPipe, EndOfInput, Ends
  <2>2. \A m \in Children : state'[m] = "none" <=> state[m] = "none"
    BY <1>7 DEF ChildStep, QuitEarly, Exec, ExecFails, Read, Write, SigPipe, EndOfInput, Ends,
       Running, CInv, IInv, LoopTypes
  <2>q. QED BY <1>0, <2>1, <2>2, ConnectionsStay DEF shellvars
<1>8. CASE UNCHANGED vars
  BY <1>0, <1>8, ConnectionsStay DEF vars, shellvars, childvars
<1>q. QED BY <1>1, <1>2, <1>3, <1>4, <1>5, <1>6, <1>7, <1>8 DEF Next, ShellStep

\* Every child runs its command of the line and is connected to its neighbours,
\* although tokens and all indices change from one fork to the next.
THEOREM CommandsAlwaysConnected == Spec => []CommandsAreConnected
<1>1. CInv => CommandsAreConnected
  <2> SUFFICES ASSUME CInv PROVE CommandsAreConnected
    OBVIOUS
  <2>1. MaxPipes \in Nat /\ num_pipes \in 0..MaxPipes /\ children_created \in 0..num_pipes+1
    BY PipesAssumption DEF CInv, IInv, LoopTypes, Created
  <2>2. ASSUME NEW n \in Children, state[n] # "none", n # 0
        PROVE  \E k \in Pipes : output[n] = WriteEnd(k) /\ input[n - 1] = ReadEnd(k)
    <3>1. n \in 1..num_pipes /\ n - 1 \in Children /\ n - 1 \in Pipes /\ n - 1 # num_pipes
      BY <2>1, <2>2 DEF CInv, Created, Children, Pipes
    <3>2. state[n - 1] # "none"
      BY <2>1, <2>2, <3>1 DEF CInv, Created, Children
    <3>q. QED BY <2>2, <3>1, <3>2 DEF CInv, Connected
  <2>q. QED BY <2>1, <2>2 DEF CommandsAreConnected, CInv, Connected
<1>q. QED BY <1>1, ConnectionsInit, StepConnects, PTL DEF Spec

-----------------------------------------------------------------------------
\* How far the waiting loop is: each wait has reaped a child, until one finds none.
Reaped == {n \in Children : state[n] = "reaped"}

Waited ==
    /\ i <= num_pipes + 1
    /\ ret_val \in {0, -1}
    /\ waits \in 0..children_created+1
    /\ InLoop => waits = 0 /\ frees = 0 /\ Reaped = {}
    /\ pc = "wait" => frees = IF i > num_pipes THEN 0 ELSE 1
    /\ ~InLoop /\ i > num_pipes => children_created = num_pipes + 1
    /\ pc \in {"done", "aborted"} => waits = children_created + 1
    /\ pc = "done" => i > num_pipes
    /\ pc = "aborted" => i <= num_pipes
    /\ frees \in 0..1
    /\ waits = Cardinality(Reaped) \/ (Unreaped = {} /\ ret_val = -1)

WInv == CInv /\ Waited

LEMMA ReapedAreCreated ==
    ASSUME CInv
    PROVE  IsFiniteSet(Reaped) /\ Cardinality(Reaped) \in 0..children_created
<1>1. children_created \in Nat /\ Reaped \subseteq 0..children_created-1
  BY PipesAssumption DEF CInv, IInv, LoopTypes, Created, Reaped, Children
<1>2. IsFiniteSet(0..children_created-1) /\ Cardinality(0..children_created-1) = children_created
  BY <1>1, FS_Interval
<1>3. IsFiniteSet(Reaped) /\ Cardinality(Reaped) <= children_created
  BY <1>1, <1>2, FS_Subset
<1>4. Cardinality(Reaped) \in Nat
  BY <1>3, FS_CardinalityType
<1>q. QED BY <1>1, <1>3, <1>4

LEMMA WaitedInit == ASSUME Init PROVE WInv
<1>1. Reaped = {}
  BY DEF Init, Reaped
<1>2. Cardinality(Reaped) = 0
  BY <1>1, FS_EmptySet
<1>3. CInv
  BY ConnectionsInit
<1>q. QED BY <1>1, <1>2, <1>3 DEF WInv, Waited, Init, InLoop, CInv, IInv, LoopTypes

LEMMA WaitedStep == ASSUME WInv, [Next]_vars PROVE WInv'
<1>0. CInv /\ CInv'
  BY StepConnects DEF WInv
<1>1. /\ num_pipes \in Nat /\ i \in Nat /\ children_created \in Nat
      /\ InLoop => i <= num_pipes /\ (pc # "close" => children_created = i)
      /\ pc = "close" => children_created = i + 1
      /\ state \in [Children -> {"none", "forked", "running", "zombie", "reaped"}]
  BY <1>0, PipesAssumption DEF CInv, IInv, LoopTypes, Created, InLoop
<1> USE DEF WInv, Waited
<1>2. CASE MakePipe
  BY <1>0, <1>1, <1>2 DEF MakePipe, loopvars, childvars, InLoop, Reaped, Unreaped
<1>3. CASE PipeFails \/ ForkFails \/ CloseFails
  <2>1. InLoop /\ frees' = frees + 1 /\ ret_val' = -1 /\ pc' = "wait"
        /\ UNCHANGED <<i, num_pipes, children_created, waits, state>>
    BY <1>3 DEF PipeFails, ForkFails, CloseFails, GiveUp, loopvars, childvars, InLoop
  <2>2. Reaped' = Reaped /\ Unreaped' = Unreaped
    BY <2>1 DEF Reaped, Unreaped
  <2>q. QED BY <1>0, <1>1, <2>1, <2>2 DEF InLoop
<1>4. CASE Fork
  <2>1. InLoop /\ InLoop' /\ UNCHANGED <<i, num_pipes, ret_val, waits, frees>>
        /\ children_created' = children_created + 1
    BY <1>4 DEF Fork, loopvars, InLoop
  <2>2. Reaped = {} /\ Reaped' = {} /\ waits = 0
    BY <1>1, <1>4, <2>1 DEF Fork, Reaped
  <2>3. Cardinality(Reaped') = 0
    BY <2>2, FS_EmptySet
  <2>q. QED BY <1>0, <1>1, <2>1, <2>2, <2>3 DEF InLoop
<1>5. CASE CloseAndContinue
  <2>1. /\ InLoop /\ i' = i + 1
        /\ UNCHANGED <<num_pipes, children_created, ret_val, waits, frees, state>>
        /\ IF i = num_pipes THEN pc' = "wait" ELSE pc' = "pipe"
    BY <1>5 DEF CloseAndContinue, LastIteration, childvars, InLoop
  <2>2. Reaped' = Reaped /\ Unreaped' = Unreaped
    BY <2>1 DEF Reaped, Unreaped
  <2>3. pc = "close"
    BY <1>5 DEF CloseAndContinue
  <2>q. QED BY <1>0, <1>1, <2>1, <2>2, <2>3 DEF InLoop
<1>6. ASSUME NEW n \in Children, Reap(n) PROVE WInv'
  <2>1. /\ pc = "wait" /\ pc' = "wait"
        /\ waits <= children_created /\ waits' = waits + 1
        /\ ret_val' \in {-1, ret_val}
        /\ UNCHANGED <<i, num_pipes, children_created, frees>>
        /\ n \in Unreaped
    BY <1>6 DEF Reap, MoreWaits, loopvars, Unreaped
  <2>2. Reaped' = Reaped \union {n} /\ n \notin Reaped
    BY <1>1, <1>6 DEF Reap, Reaped
  <2>3. Cardinality(Reaped') = Cardinality(Reaped) + 1
    BY <1>0, <2>2, ReapedAreCreated, FS_AddElement
  <2>q. QED BY <1>0, <1>1, <2>1, <2>3 DEF InLoop
<1>7. CASE WaitFails
  <2>1. UNCHANGED Unreaped
    BY <1>7 DEF WaitFails, childvars, Unreaped
  <2>q. QED BY <1>0, <1>1, <1>7, <2>1 DEF WaitFails, MoreWaits, loopvars, InLoop
<1>8. CASE Return
  <2>1. UNCHANGED Unreaped /\ UNCHANGED Reaped
    BY <1>8 DEF Return, childvars, Unreaped, Reaped
  <2>q. QED BY <1>0, <1>1, <1>8, <2>1 DEF Return, MoreWaits, loopvars, InLoop
<1>11. CASE Abort
  <2>1. UNCHANGED Unreaped /\ UNCHANGED Reaped
    BY <1>11 DEF Abort, childvars, Unreaped, Reaped
  <2>q. QED BY <1>0, <1>1, <1>11, <2>1 DEF Abort, MoreWaits, loopvars, InLoop
<1>9. ASSUME NEW n \in Children, ChildStep(n) \/ QuitEarly(n) PROVE WInv'
  <2>1. UNCHANGED shellvars
    BY <1>9 DEF ChildStep, QuitEarly, Exec, ExecFails, Read, Write, SigPipe, EndOfInput, Ends
  <2>2. \A m \in Children : state'[m] # state[m] =>
            state[m] \in {"forked", "running"} /\ state'[m] \in {"running", "zombie"}
    BY <1>1, <1>9 DEF ChildStep, QuitEarly, Exec, ExecFails, Read, Write, SigPipe, EndOfInput,
       Ends, Running
  <2>3. UNCHANGED Reaped /\ UNCHANGED Unreaped
    BY <2>2 DEF Reaped, Unreaped
  <2>q. QED BY <1>0, <2>1, <2>3 DEF shellvars, loopvars, InLoop
<1>10. CASE UNCHANGED vars
  BY <1>0, <1>10 DEF vars, shellvars, loopvars, childvars, InLoop, Reaped, Unreaped
<1>q. QED BY <1>2, <1>3, <1>4, <1>5, <1>6, <1>7, <1>8, <1>9, <1>10, <1>11 DEF Next, ShellStep

\* At its end the function has waited once in vain, and so for every child.
LEMMA WaitedForAll ==
    ASSUME WInv, pc \in {"done", "aborted"}
    PROVE  Unreaped = {}
<1>1. Cardinality(Reaped) \in 0..children_created /\ children_created \in Nat
  BY ReapedAreCreated, PipesAssumption DEF WInv, CInv, IInv, LoopTypes, Created
<1>q. QED BY <1>1 DEF WInv, Waited

-----------------------------------------------------------------------------
\* What the programs still have to write and what is in the pipes is never more
\* than the first program of the line had.  owed[k] sums it up over the children
\* before k and their input pipes; the last element is the whole sum.
Sums == 0..MaxPipes+1
InPipe(k) == IF k \in Pipes THEN fill[k] ELSE 0
Started(n) == state[n] \in {"running", "zombie", "reaped"}

Owed(owed) ==
    /\ owed \in [Sums -> 0..MaxOutput]
    /\ owed[0] = 0
    /\ \A k \in Children : owed[k + 1] = owed[k] + todo[k] + InPipe(k)
    /\ \A j, k \in Sums : j <= k => owed[j] <= owed[k]
    /\ ~Started(num_pipes) => owed[MaxPipes + 1] = 0

Conserved ==
    /\ todo \in [Children -> Nat]
    /\ fill \in [Pipes -> 0..PipeSize]
    /\ \A n \in Children : ~Started(n) => todo[n] = 0
    /\ \E owed \in [Sums -> 0..MaxOutput] : Owed(owed)

LEMMA ConservedInit == ASSUME Init PROVE Conserved
<1> DEFINE owed == [k \in Sums |-> 0]
<1>1. /\ MaxPipes \in Nat /\ MaxOutput \in Nat /\ PipeSize \in Nat
      /\ num_pipes \in Children
  BY PipesAssumption DEF Init, Children
<1>2. Owed(owed)
  BY <1>1 DEF Init, Owed, Sums, Children, InPipe, Started
<1>3. owed \in [Sums -> 0..MaxOutput]
  BY <1>1
<1>q. QED BY <1>1, <1>2, <1>3 DEF Conserved, Init, Started

\* A child that reads moves data from its pipe to itself, one that writes moves
\* it to the next, or out of the line.
LEMMA ChildConserves ==
    ASSUME CInv, Conserved, NEW n \in Children,
           Exec(n) \/ Read(n) \/ Write(n)
    PROVE  Conserved'
<1>1. /\ MaxPipes \in Nat /\ MaxOutput \in Nat /\ PipeSize \in Nat
      /\ num_pipes \in 0..MaxPipes /\ n \in 0..num_pipes
      /\ num_pipes' = num_pipes
      /\ state \in [Children -> {"none", "forked", "running", "zombie", "reaped"}]
      /\ output[n] = IF n = 0 THEN -1 ELSE 2 * (n - 1) + 1
      /\ input[n] = IF n = num_pipes THEN -1 ELSE 2 * n
      /\ Children = 0..MaxPipes /\ Pipes = 0..MaxPipes-1
  BY PipesAssumption DEF CInv, IInv, LoopTypes, Created, Connected, Exec, Read, Write, Running,
     Children, Pipes, shellvars, loopvars, ReadEnd, WriteEnd
<1>2. PICK owed \in [Sums -> 0..MaxOutput] : Owed(owed)
  BY DEF Conserved
<1>3. /\ todo \in [Children -> Nat]
      /\ fill \in [Pipes -> 0..PipeSize]
      /\ \A m \in Children : ~Started(m) => todo[m] = 0
  BY DEF Conserved
<1>4. \A j, k \in Sums : j <= k => owed[j] <= owed[k]
  BY <1>2 DEF Owed
<1>sum. ASSUME NEW k \in Children
       PROVE  /\ owed[k + 1] = owed[k] + todo[k] + InPipe(k)
              /\ owed[k] \in 0..MaxOutput /\ owed[k + 1] \in 0..MaxOutput
              /\ todo[k] \in Nat /\ InPipe(k) \in Nat
              /\ k \in Int /\ k \in Sums /\ k + 1 \in Sums
  <2>1. k \in Int /\ k \in Sums /\ k + 1 \in Sums
    BY <1>1 DEF Sums
  <2>2. k \in Pipes => fill[k] \in Nat
    BY <1>1, <1>3
  <2>q. QED BY <1>2, <1>3, <2>1, <2>2 DEF Owed, InPipe
<1>5. CASE Exec(n) /\ n # num_pipes
  <2>1. UNCHANGED <<todo, fill>> /\ \A m \in Children : Started(m) => Started(m)'
    <3>1. input[n] # -1 /\ ~Started(n)
      BY <1>1, <1>5 DEF Exec, Started
    <3>2. todo' = [todo EXCEPT ![n] = 0] /\ todo[n] = 0
      BY <1>3, <1>5, <3>1 DEF Exec
    <3>3. todo' = todo
      BY <1>3, <3>2
    <3>q. QED BY <1>1, <1>5, <3>3 DEF Exec, Started
  <2>2. Owed(owed)'
    BY <1>1, <1>2, <2>1 DEF Owed, InPipe
  <2>q. QED BY <1>1, <1>3, <2>1, <2>2 DEF Conserved
<1>6. CASE Exec(n) /\ n = num_pipes
  <2> DEFINE new == [k \in Sums |-> IF k <= n THEN 0 ELSE MaxOutput]
  <2>1. ~Started(num_pipes) /\ todo' = [todo EXCEPT ![n] = MaxOutput] /\ fill' = fill
        /\ state' = [state EXCEPT ![n] = "running"]
    BY <1>1, <1>6 DEF Exec, Started
  <2>2. \A k \in Sums : owed[k] = 0
    <3>1. owed[MaxPipes + 1] = 0 /\ \A k \in Sums : owed[k] <= owed[MaxPipes + 1]
      BY <1>1, <1>2, <1>4, <2>1 DEF Owed, Sums
    <3>q. QED BY <1>1, <1>2, <3>1
  <2>3. ASSUME NEW k \in Children PROVE todo[k] = 0 /\ InPipe(k) = 0
    <3>1. k \in Sums /\ k + 1 \in Sums
      BY <1>1 DEF Sums
    <3>2. owed[k + 1] = owed[k] + todo[k] + InPipe(k) /\ todo[k] \in Nat /\ InPipe(k) \in Nat
      BY <1>1, <1>2, <1>3, SMTT(30) DEF Owed, InPipe
    <3>q. QED BY <2>2, <3>1, <3>2
  <2>4. new \in [Sums -> 0..MaxOutput]
    BY <1>1
  <2>5. ASSUME NEW k \in Children
        PROVE  new[k + 1] = new[k] + todo'[k] + InPipe(k)'
    <3>1. k \in Sums /\ k + 1 \in Sums
      BY <1>1 DEF Sums
    <3>2. InPipe(k)' = 0 /\ todo'[k] = IF k = n THEN MaxOutput ELSE 0
      BY <1>3, <2>1, <2>3 DEF InPipe
    <3>q. QED BY <1>1, <3>1, <3>2
  <2>6. /\ new[0] = 0
        /\ \A j, k \in Sums : j <= k => new[j] <= new[k]
        /\ Started(num_pipes)'
    BY <1>1, <1>6, <2>1 DEF Sums, Started
  <2> HIDE DEF new
  <2>7. Owed(new)'
    BY <2>4, <2>5, <2>6 DEF Owed
  <2>8. \A m \in Children : ~Started(m)' => todo'[m] = 0
    BY <1>1, <2>1, <2>3 DEF Started
  <2>q. QED BY <1>1, <1>3, <2>1, <2>4, <2>7, <2>8 DEF Conserved
<1>7. CASE Read(n)
  <2>1. /\ n \in Pipes /\ fill[n] > 0
        /\ fill' = [fill EXCEPT ![n] = @ - 1]
        /\ todo' = [todo EXCEPT ![n] = @ + 1]
        /\ state' = state /\ Started(n)
    <3>1. n # num_pipes /\ InputPipe(n) = n
      BY <1>1, <1>7 DEF Read, InputPipe
    <3>q. QED BY <1>1, <1>7, <3>1 DEF Read, Running, Started
  <2>2. /\ \A k \in Children : todo'[k] = IF k = n THEN todo[k] + 1 ELSE todo[k]
        /\ \A k \in Pipes : fill'[k] = IF k = n THEN fill[k] - 1 ELSE fill[k]
        /\ todo' \in [Children -> Int] /\ fill' \in [Pipes -> Int]
    BY <1>3, <2>1
  <2>3. fill[n] \in 0..PipeSize /\ todo[n] \in Nat
    BY <1>3, <2>1
  <2>4. ASSUME NEW k \in Children
        PROVE  owed[k + 1] = owed[k] + todo'[k] + InPipe(k)'
    <3>1. InPipe(k)' = IF k = n THEN InPipe(k) - 1 ELSE InPipe(k)
      BY <2>1, <2>2 DEF InPipe
    <3>q. QED BY <1>sum, <2>2, <3>1
  <2>5. Owed(owed)'
    BY <1>1, <1>2, <2>1, <2>4 DEF Owed, Started
  <2>6. fill' \in [Pipes -> 0..PipeSize] /\ todo' \in [Children -> Nat]
    BY <1>1, <1>3, <2>1, <2>2, <2>3, SMTT(30)
  <2>q. QED BY <1>3, <2>1, <2>5, <2>6 DEF Conserved, Started
<1>8. CASE Write(n) /\ n = 0
  <2> DEFINE new == [k \in Sums |-> IF k = 0 THEN 0 ELSE owed[k] - 1]
  <2>1. /\ todo[n] > 0 /\ fill' = fill
        /\ todo' = [todo EXCEPT ![n] = @ - 1]
        /\ state' = state
    BY <1>1, <1>8 DEF Write
  <2>2. owed[0] = 0 /\ \A k \in Sums : k # 0 => owed[k] > 0
    <3>1. owed[0] = 0 /\ owed[0 + 1] = owed[0] + todo[0] + InPipe(0) /\ InPipe(0) \in Nat
      BY <1>1, <1>2, <1>3 DEF Owed, InPipe
    <3>2. 1 \in Sums /\ owed[1] > 0
      BY <1>1, <1>3, <1>8, <2>1, <3>1 DEF Sums
    <3>q. QED BY <1>1, <1>2, <1>4, <3>1, <3>2 DEF Sums
  <2>3. new \in [Sums -> 0..MaxOutput]
    BY <1>1, <1>2, <2>2
  <2>4. ASSUME NEW k \in Children PROVE new[k + 1] = new[k] + todo'[k] + InPipe(k)'
    <3>1. k + 1 # 0
      BY <1>1
    <3>2. InPipe(k)' = InPipe(k)
      BY <2>1 DEF InPipe
    <3>3. todo'[k] = IF k = 0 THEN todo[k] - 1 ELSE todo[k]
      BY <1>1, <1>3, <1>8, <2>1
    <3>q. QED BY <1>sum, <2>2, <3>1, <3>2, <3>3
  <2>5. \A j, k \in Sums : j <= k => new[j] <= new[k]
    BY <1>1, <1>2, <1>4, <2>2, SMTT(30) DEF Sums
  <2>6. new[0] = 0 /\ Started(num_pipes)'
    <3>1. MaxPipes + 1 \in Sums /\ 0 \in Sums /\ MaxPipes + 1 # 0
      BY <1>1 DEF Sums
    <3>2. Started(num_pipes)
      BY <1>2, <2>2, <3>1 DEF Owed
    <3>q. QED BY <1>1, <2>1, <3>1, <3>2 DEF Started
  <2> HIDE DEF new
  <2>7. Owed(new)'
    BY <2>3, <2>4, <2>5, <2>6 DEF Owed
  <2>8. todo' \in [Children -> Nat] /\ \A m \in Children : ~Started(m)' => todo'[m] = 0
    BY <1>1, <1>3, <2>1, SMTT(30) DEF Started
  <2>q. QED BY <1>3, <2>1, <2>3, <2>7, <2>8 DEF Conserved
<1>9. CASE Write(n) /\ n # 0
  <2> DEFINE new == [owed EXCEPT ![n] = @ + 1]
  <2>1. /\ todo[n] > 0
        /\ n - 1 \in Pipes /\ fill[n - 1] < PipeSize
        /\ fill' = [fill EXCEPT ![n - 1] = @ + 1]
        /\ todo' = [todo EXCEPT ![n] = @ - 1]
        /\ state' = state
    <3>1. OutputPipe(n) = n - 1 /\ output[n] # -1
      BY <1>1, <1>9 DEF OutputPipe
    <3>q. QED BY <1>1, <1>9, <3>1 DEF Write
  <2>2. /\ \A k \in Children : todo'[k] = IF k = n THEN todo[k] - 1 ELSE todo[k]
        /\ \A k \in Pipes : fill'[k] = IF k = n - 1 THEN fill[k] + 1 ELSE fill[k]
        /\ todo' \in [Children -> Int] /\ fill' \in [Pipes -> Int]
    BY <1>3, <2>1
  <2>3. owed[n + 1] > owed[n]
    BY <1>sum, <2>1
  <2>4. new \in [Sums -> 0..MaxOutput]
    <3>1. owed[n] + 1 \in 0..MaxOutput
      <4>1. owed[n] \in 0..MaxOutput /\ owed[n + 1] \in 0..MaxOutput
        BY <1>sum
      <4>q. QED BY <1>1, <2>3, <4>1
    <3>q. QED BY <3>1
  <2>5. ASSUME NEW k \in Children PROVE new[k + 1] = new[k] + todo'[k] + InPipe(k)'
    <3>1. InPipe(k)' = IF k = n - 1 THEN InPipe(k) + 1 ELSE InPipe(k)
      BY <2>1, <2>2 DEF InPipe
    <3>2. new[k] = (IF k = n THEN owed[k] + 1 ELSE owed[k])
          /\ new[k + 1] = (IF k + 1 = n THEN owed[k + 1] + 1 ELSE owed[k + 1])
      BY <1>sum
    <3> HIDE DEF new
    <3>3. k + 1 = n <=> k = n - 1
      BY <1>1
    <3>q. QED BY <1>sum, <2>2, <3>1, <3>2, <3>3
  <2>6. \A j, k \in Sums : j <= k => new[j] <= new[k]
    <3>1. SUFFICES ASSUME NEW j \in Sums, NEW k \in Sums, j <= k PROVE new[j] <= new[k]
      OBVIOUS
    <3>2. owed[j] \in Nat /\ owed[k] \in Nat /\ owed[j] <= owed[k]
      BY <1>2, <1>4, <3>1
    <3>3. CASE j = n /\ k # n
      <4>1. n + 1 \in Sums /\ n + 1 <= k
        BY <1>1, <1>sum, <3>1, <3>3 DEF Sums
      <4>2. owed[n + 1] <= owed[k]
        BY <1>4, <4>1
      <4>q. QED BY <1>sum, <2>3, <3>2, <3>3, <4>2
    <3>q. QED BY <3>2, <3>3
  <2>7. new[0] = 0 /\ Started(num_pipes)'
    <3>1. MaxPipes + 1 \in Sums /\ 0 \in Sums /\ n + 1 \in Sums /\ n + 1 <= MaxPipes + 1
      BY <1>1 DEF Sums
    <3>2. owed[MaxPipes + 1] # 0
      <4>1. owed[n + 1] <= owed[MaxPipes + 1]
        BY <1>4, <3>1
      <4>q. QED BY <1>sum, <2>3, <4>1
    <3>3. Started(num_pipes)
      BY <1>2, <3>2 DEF Owed
    <3>4. owed[0] = 0
      BY <1>2 DEF Owed
    <3>q. QED BY <1>1, <1>9, <2>1, <3>1, <3>3, <3>4 DEF Started
  <2> HIDE DEF new
  <2>8. Owed(new)'
    BY <2>4, <2>5, <2>6, <2>7 DEF Owed
  <2>9. /\ todo' \in [Children -> Nat] /\ fill' \in [Pipes -> 0..PipeSize]
        /\ \A m \in Children : ~Started(m)' => todo'[m] = 0
    <3>1. fill[n - 1] \in 0..PipeSize /\ todo[n] \in Nat
      BY <1>3, <2>1
    <3>2. fill[n - 1] + 1 \in 0..PipeSize /\ todo[n] - 1 \in Nat
      BY <1>1, <2>1, <3>1
    <3>3. todo' \in [Children -> Nat] /\ fill' \in [Pipes -> 0..PipeSize]
      BY <1>3, <2>1, <3>2
    <3>4. Started(n) /\ \A m \in Children : Started(m)' <=> Started(m)
      BY <1>9, <2>1 DEF Write, Running, Started
    <3>q. QED BY <1>3, <2>2, <3>3, <3>4
  <2>q. QED BY <2>4, <2>8, <2>9 DEF Conserved
<1>q. QED BY <1>5, <1>6, <1>7, <1>8, <1>9

\* A step that leaves the data alone.
LEMMA ConservedStays ==
    ASSUME CInv, Conserved, UNCHANGED <<num_pipes, todo, fill>>,
           \A n \in Children : Started(n) => Started(n)',
           num_pipes \in Children
    PROVE  Conserved'
<1>1. PICK owed \in [Sums -> 0..MaxOutput] : Owed(owed)
  BY DEF Conserved
<1>2. Owed(owed)'
  BY <1>1 DEF Owed, InPipe
<1>q. QED BY <1>2 DEF Conserved

LEMMA ConservedStep == ASSUME CInv, Conserved, [Next]_vars PROVE Conserved'
<1>0. /\ num_pipes \in Children
      /\ state \in [Children -> {"none", "forked", "running", "zombie", "reaped"}]
  BY PipesAssumption DEF CInv, IInv, LoopTypes, Children
<1>1. ASSUME NEW n \in Children, Exec(n) \/ Read(n) \/ Write(n) PROVE Conserved'
  BY <1>1, ChildConserves
<1>2. ASSUME NEW n \in Children, NEW how, Ends(n, how) PROVE Conserved'
  <2>1. UNCHANGED <<num_pipes, todo, fill>> /\ state' = [state EXCEPT ![n] = "zombie"]
    BY <1>2 DEF Ends, shellvars, loopvars
  <2>q. QED BY <1>0, <2>1, ConservedStays DEF Started
<1>3. ASSUME NEW n \in Children, ChildStep(n) \/ QuitEarly(n) PROVE Conserved'
  BY <1>1, <1>2, <1>3 DEF ChildStep, QuitEarly, ExecFails, SigPipe, EndOfInput
<1>4. CASE Fork
  <2>1. state[i] = "none"
    BY <1>4, PipesAssumption DEF CInv, IInv, LoopTypes, Created, Fork, Children
  <2>2. UNCHANGED <<num_pipes, todo, fill>> /\ state' = [state EXCEPT ![i] = "forked"]
    BY <1>4 DEF Fork, loopvars
  <2>q. QED BY <1>0, <2>1, <2>2, ConservedStays DEF Started
<1>5. ASSUME NEW n \in Children, Reap(n) PROVE Conserved'
  <2>1. UNCHANGED <<num_pipes, todo, fill>> /\ state' = [state EXCEPT ![n] = "reaped"]
    BY <1>5 DEF Reap, loopvars
  <2>q. QED BY <1>0, <2>1, ConservedStays DEF Started
<1>6. CASE MakePipe \/ PipeFails \/ ForkFails \/ CloseAndContinue \/ CloseFails \/ WaitFails \/ Return \/ Abort
  <2>1. UNCHANGED <<num_pipes, todo, fill, state>>
    BY <1>6 DEF MakePipe, PipeFails, ForkFails, CloseAndContinue, CloseFails, GiveUp, WaitFails,
       Return, Abort, loopvars, childvars
  <2>q. QED BY <1>0, <2>1, ConservedStays DEF Started
<1>7. CASE UNCHANGED vars
  <2>1. UNCHANGED <<num_pipes, todo, fill, state>>
    BY <1>7 DEF vars, shellvars, loopvars, childvars
  <2>q. QED BY <1>0, <2>1, ConservedStays DEF Started
<1>q. QED BY <1>3, <1>4, <1>5, <1>6, <1>7 DEF Next, ShellStep

-----------------------------------------------------------------------------
\* The descriptors that there are, and how a child ended.
Ranges ==
    /\ open \in [Processes -> SUBSET Descriptors]
    /\ status \in [Children -> {"none", "success", "failure", "signal"}]

LEMMA RangesStep == ASSUME CInv, Ranges, [Next]_vars PROVE Ranges'
<1>0. /\ MaxPipes \in Nat /\ num_pipes \in 0..MaxPipes /\ i \in Nat
      /\ InLoop => i <= num_pipes
      /\ Processes = Children \union {Shell}
  BY PipesAssumption DEF CInv, IInv, LoopTypes, InLoop, Processes
<1> USE DEF Ranges
<1>1. CASE MakePipe
  <2>1. ~LastIteration => {ReadEnd(i), WriteEnd(i)} \subseteq Descriptors
    BY <1>0, <1>1 DEF MakePipe, LastIteration, InLoop, ReadEnd, WriteEnd, Descriptors
  <2>q. QED BY <1>0, <1>1, <2>1 DEF MakePipe, childvars
<1>2. CASE PipeFails \/ ForkFails \/ CloseFails
  BY <1>0, <1>2 DEF PipeFails, ForkFails, CloseFails, GiveUp, childvars
<1>3. CASE Fork
  BY <1>0, <1>3 DEF Fork, loopvars
<1>4. CASE CloseAndContinue
  BY <1>0, <1>4 DEF CloseAndContinue, childvars
<1>5. CASE WaitFails \/ Return \/ Abort \/ \E n \in Children : Reap(n)
  BY <1>0, <1>5 DEF WaitFails, Return, Abort, Reap, childvars
<1>6. ASSUME NEW n \in Children, NEW how \in {"success", "failure", "signal"}, Ends(n, how)
      PROVE  Ranges'
  BY <1>0, <1>6 DEF Ends
<1>7. ASSUME NEW n \in Children, Exec(n) \/ Read(n) \/ Write(n) PROVE Ranges'
  BY <1>0, <1>7 DEF Exec, Read, Write
<1>8. ASSUME NEW n \in Children, ChildStep(n) \/ QuitEarly(n) PROVE Ranges'
  BY <1>6, <1>7, <1>8 DEF ChildStep, QuitEarly, ExecFails, SigPipe, EndOfInput
<1>9. CASE UNCHANGED vars
  BY <1>9 DEF vars, childvars
<1>q. QED BY <1>1, <1>2, <1>3, <1>4, <1>5, <1>8, <1>9 DEF Next, ShellStep

\* The function has waited for all its children when it returns, which it does only
\* if every command of the line was started, and also when, after a failure of its
\* own, it aborts the shell.  No program writes more than the first one of the line had.
THEOREM ChildrenAlwaysWaitedFor == Spec => []ChildrenAreWaitedFor
<1> DEFINE Inv == WInv /\ Conserved /\ Ranges
<1>1. Init => Inv
  <2>1. Init => Ranges
    BY DEF Init, Ranges
  <2>q. QED BY <2>1, WaitedInit, ConservedInit
<1>2. Inv /\ [Next]_vars => Inv'
  BY WaitedStep, ConservedStep, RangesStep DEF WInv
<1>3. Inv => ChildrenAreWaitedFor
  <2> SUFFICES ASSUME Inv PROVE ChildrenAreWaitedFor
    OBVIOUS
  <2>1. AllReaped
    BY WaitedForAll DEF AllReaped
  <2>2. /\ num_pipes \in 0..MaxPipes /\ MaxPipes \in Nat /\ i \in Nat
        /\ children_created \in 0..num_pipes+1
    BY PipesAssumption DEF WInv, CInv, IInv, LoopTypes, Created
  <2>3. todo \in [Children -> 0..MaxOutput]
    <3>1. PICK owed \in [Sums -> 0..MaxOutput] : Owed(owed)
      BY DEF Conserved
    <3>2. ASSUME NEW k \in Children PROVE todo[k] \in 0..MaxOutput
      <4>1. k \in Sums /\ k + 1 \in Sums
        BY <2>2 DEF Children, Sums
      <4>2. todo[k] \in Nat /\ InPipe(k) \in Nat
        <5>1. k \in Pipes => fill[k] \in 0..PipeSize
          BY DEF Conserved
        <5>q. QED BY <5>1, PipesAssumption DEF Conserved, InPipe
      <4>3. /\ owed[k] \in 0..MaxOutput /\ owed[k + 1] \in 0..MaxOutput
            /\ owed[k + 1] = owed[k] + todo[k] + InPipe(k)
        BY <3>1, <4>1 DEF Owed
      <4>q. QED BY <4>2, <4>3, PipesAssumption
    <3>q. QED BY <3>2 DEF Conserved
  <2>4. frees \in 0..1 /\ waits \in 0..num_pipes+2 /\ i \in 0..num_pipes+1
    BY <2>2 DEF WInv, CInv, IInv, LoopTypes, Waited, InLoop
  <2>5. TypeOK
    BY <2>2, <2>3, <2>4 DEF TypeOK, WInv, CInv, IInv, LoopTypes, LineTypes, Connected, Waited,
       Conserved, Ranges
  <2>6. /\ pc = "done" => children_created = num_pipes + 1 /\ i > num_pipes
        /\ pc = "aborted" => i <= num_pipes
    BY DEF WInv, Waited, InLoop
  <2>q. QED BY <2>1, <2>5, <2>6 DEF ChildrenAreWaitedFor
<1> HIDE DEF Inv
<1>4. Spec => []Inv
  BY <1>1, <1>2, PTL DEF Spec
<1>q. QED BY <1>3, <1>4, PTL
=============================================================================
