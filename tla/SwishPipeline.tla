--------------------------- MODULE SwishPipeline ---------------------------
(***************************************************************************)
(* swish_funcs.c: run_pipelined_commands(tokens), from the last command of *)
(* the line to the first.  Iteration i creates pipe i (descriptors         *)
(* pipe_fds[2i] to read, pipe_fds[2i+1] to write) and forks child i, which *)
(* reads pipe i and writes pipe i-1; then all children are waited for.     *)
(*                                                                         *)
(* A descriptor is its index in pipe_fds, and each process has the set of  *)
(* those that it holds, be it as pipe_fds[k] or, after dup2, as its stdin  *)
(* or stdout.  The programs that are run read, write, see the end of their *)
(* input when nobody holds the write end any more, are killed by SIGPIPE   *)
(* when nobody holds the read end, and may quit whenever they like.        *)
(***************************************************************************)
EXTENDS StringVector

CONSTANTS Lines,        \* the command lines, sequences of words and "|"
          MaxPipes,     \* bound on the bars in a line
          Failures,     \* calls that may fail: subset of
                        \* {"pipe", "fork", "close", "slice", "dup2", "exec"}
          PipeSize,     \* how much a pipe can hold
          MaxOutput     \* how much the first program of a line writes

ASSUME PipesAssumption ==
    /\ MaxPipes \in Nat
    /\ PipeSize \in Nat
    /\ MaxOutput \in Nat
    /\ Lines \subseteq Seq(STRING)
    /\ \A l \in Lines : strvec_num_occurrences(l, "|") \in 0..MaxPipes

Shell == -1             \* the process that is not a child

VARIABLES line,             \* history: tokens when the function was called
          tokens,
          pc,               \* of the shell
          num_pipes,
          i,
          curr_pipe_idx,
          last_pipe_idx,
          write_to_pipe,
          children_created,
          ret_val,
          waits,            \* i of the waiting loop
          frees,            \* how often pipe_fds has been freed
          open,             \* the descriptors each process holds
          state,            \* of each child
          argv,             \* the command it runs
          input,            \* where it reads and writes, -1 for the terminal
          output,
          todo,             \* how much it has to write
          status,           \* how it ended
          fill              \* how much is in each pipe

loopvars == <<tokens, num_pipes, i, curr_pipe_idx, last_pipe_idx, write_to_pipe>>
shellvars == <<line, loopvars, pc, children_created, ret_val, waits, frees>>
cmdvars == <<argv, input, output>>
childvars == <<state, cmdvars, todo, status>>
vars == <<shellvars, open, childvars, fill>>

ReadEnd(n) == 2 * n
WriteEnd(n) == 2 * n + 1
Pipes == 0..MaxPipes-1
Children == 0..MaxPipes
Processes == Children \union {Shell}

Init ==
    /\ line \in Lines
    /\ tokens = line
    /\ pc = "pipe"
    /\ num_pipes = strvec_num_occurrences(line, "|")
    /\ i = 0
    /\ curr_pipe_idx = strvec_find_last(line, "|")
    /\ last_pipe_idx = Len(line)
    /\ write_to_pipe = -1
    /\ children_created = 0
    /\ ret_val = 0
    /\ waits = 0
    /\ frees = 0
    /\ open = [p \in Processes |-> {}]
    /\ state = [n \in Children |-> "none"]
    /\ argv = [n \in Children |-> <<>>]
    /\ input = [n \in Children |-> -1]
    /\ output = [n \in Children |-> -1]
    /\ todo = [n \in Children |-> 0]
    /\ status = [n \in Children |-> "none"]
    /\ fill = [n \in Pipes |-> 0]

-----------------------------------------------------------------------------
LastIteration == i = num_pipes

\* pipe(), except in the last iteration.
MakePipe ==
    /\ pc = "pipe"
    /\ open' = IF LastIteration THEN open
               ELSE [open EXCEPT ![Shell] = @ \union {ReadEnd(i), WriteEnd(i)}]
    /\ pc' = "fork"
    /\ UNCHANGED <<line, loopvars, children_created, ret_val, waits, frees, childvars, fill>>

\* An error: close some descriptors, free pipe_fds, leave the loop and wait for
\* the children that there are.
GiveUp(call, closed) ==
    /\ call \in Failures
    /\ open' = [open EXCEPT ![Shell] = @ \ closed]
    /\ frees' = frees + 1
    /\ ret_val' = -1
    /\ pc' = "wait"
    /\ UNCHANGED <<line, loopvars, children_created, waits, childvars, fill>>

PipeFails == pc = "pipe" /\ ~LastIteration /\ GiveUp("pipe", {WriteEnd(i - 1)})

\* Mutant: the write end for the next command to the left is forgotten.
ForkFails_KeepsWriteEnd == pc = "fork" /\ GiveUp("fork", {ReadEnd(i), WriteEnd(i)})
ForkFails == pc = "fork" /\ GiveUp("fork", {ReadEnd(i), WriteEnd(i), WriteEnd(i - 1)})

\* Mutant: the bar is counted to the command on its right.
Sliced_WithBar == strvec_slice(tokens, curr_pipe_idx, last_pipe_idx)
Sliced == strvec_slice(tokens, curr_pipe_idx + 1, last_pipe_idx)

\* fork(): the child has a copy of all descriptors, and of the indices with
\* which it slices its command and finds its pipes.
Fork ==
    /\ pc = "fork"
    /\ open' = [open EXCEPT ![i] = open[Shell]]
    /\ state' = [state EXCEPT ![i] = "forked"]
    /\ argv' = [argv EXCEPT ![i] = Sliced]
    /\ input' = [input EXCEPT ![i] = IF LastIteration THEN -1 ELSE ReadEnd(i)]
    /\ output' = [output EXCEPT ![i] = write_to_pipe]
    /\ children_created' = children_created + 1
    /\ pc' = "close"
    /\ UNCHANGED <<line, loopvars, ret_val, waits, frees, todo, status, fill>>

\* The shell closes the write end of the previous pipe and the read end of this
\* one, and sets up the next iteration.
NextIteration ==
    /\ last_pipe_idx' = curr_pipe_idx
    /\ tokens' = strvec_take(tokens, curr_pipe_idx)
    /\ write_to_pipe' = WriteEnd(i)
    /\ curr_pipe_idx' = IF i + 1 = num_pipes THEN -1 ELSE strvec_find_last(tokens', "|")

\* Mutant: only the write end of the previous pipe.
ClosedByShell_Write == {WriteEnd(i - 1)}
ClosedByShell == {WriteEnd(i - 1)} \union (IF LastIteration THEN {} ELSE {ReadEnd(i)})

CloseAndContinue ==
    /\ pc = "close"
    /\ open' = [open EXCEPT ![Shell] = @ \ ClosedByShell]
    /\ IF LastIteration
       THEN pc' = "wait" /\ UNCHANGED <<tokens, curr_pipe_idx, last_pipe_idx, write_to_pipe>>
       ELSE pc' = "pipe" /\ NextIteration
    /\ i' = i + 1
    /\ UNCHANGED <<line, num_pipes, children_created, ret_val, waits, frees, childvars, fill>>

\* One of the two close() fails, which still releases the descriptor.
CloseFails ==
    /\ pc = "close"
    /\ \/ i > 0 /\ GiveUp("close", {WriteEnd(i - 1)})
       \/ ~LastIteration /\ GiveUp("close", ClosedByShell)

-----------------------------------------------------------------------------
Unreaped == {n \in Children : state[n] \notin {"none", "reaped"}}

\* The waiting loop runs while i <= children_created.
MoreWaits_TooFew == waits + 1 < children_created        \* mutants: off by one or two
MoreWaits == waits <= children_created

\* wait(): reap one of the children that ended.  WEXITSTATUS of a child that
\* was killed by a signal is 0.
Reap(n) ==
    /\ pc = "wait"
    /\ MoreWaits
    /\ state[n] = "zombie"
    /\ waits' = waits + 1
    /\ state' = [state EXCEPT ![n] = "reaped"]
    /\ ret_val' = IF status[n] = "failure" THEN -1 ELSE ret_val
    /\ UNCHANGED <<line, loopvars, pc, children_created, frees, open, cmdvars, todo, status, fill>>

\* There is no child to wait for.
WaitFails ==
    /\ pc = "wait"
    /\ MoreWaits
    /\ Unreaped = {}
    /\ waits' = waits + 1
    /\ ret_val' = -1
    /\ UNCHANGED <<line, loopvars, pc, children_created, frees, open, childvars, fill>>

\* Free pipe_fds and return ret_val.
Return ==
    /\ pc = "wait"
    /\ ~MoreWaits
    /\ frees = 0
    /\ frees' = 1
    /\ pc' = "done"
    /\ UNCHANGED <<line, loopvars, children_created, ret_val, waits, open, childvars, fill>>

\* An error path has freed pipe_fds before: the second free aborts the shell.
Abort ==
    /\ pc = "wait"
    /\ ~MoreWaits
    /\ frees > 0
    /\ pc' = "aborted"
    /\ open' = [open EXCEPT ![Shell] = {}]
    /\ UNCHANGED <<line, loopvars, children_created, ret_val, waits, frees, childvars, fill>>

-----------------------------------------------------------------------------
Ends(n, how) ==
    /\ open' = [open EXCEPT ![n] = {}]
    /\ state' = [state EXCEPT ![n] = "zombie"]
    /\ status' = [status EXCEPT ![n] = how]
    /\ UNCHANGED <<shellvars, cmdvars, todo, fill>>

\* The child closes the write end of its input pipe and becomes its program.
\* The first program of the line has something to write, the others write what
\* they read.
Exec(n) ==
    /\ state[n] = "forked"
    /\ argv[n] # <<>>
    /\ open' = [open EXCEPT ![n] = @ \ {WriteEnd(n)}]
    /\ state' = [state EXCEPT ![n] = "running"]
    /\ todo' = [todo EXCEPT ![n] = IF input[n] = -1 THEN MaxOutput ELSE 0]
    /\ UNCHANGED <<shellvars, cmdvars, status, fill>>

\* close, strvec_slice, dup2 or exec fails, or there is no word to exec: exit(1).
ExecFails(n) ==
    /\ state[n] = "forked"
    /\ Failures \intersect {"close", "slice", "dup2", "exec"} # {} \/ argv[n] = <<>>
    /\ Ends(n, "failure")

Running(n) == state[n] = "running"
Writers(k) == {p \in Processes : WriteEnd(k) \in open[p]}
Readers(k) == {p \in Processes : ReadEnd(k) \in open[p]}
InputPipe(n) == input[n] \div 2
OutputPipe(n) == output[n] \div 2

Read(n) ==
    /\ Running(n)
    /\ input[n] # -1
    /\ fill[InputPipe(n)] > 0
    /\ fill' = [fill EXCEPT ![InputPipe(n)] = @ - 1]
    /\ todo' = [todo EXCEPT ![n] = @ + 1]
    /\ UNCHANGED <<shellvars, open, state, cmdvars, status>>

Write(n) ==
    /\ Running(n)
    /\ todo[n] > 0
    /\ todo' = [todo EXCEPT ![n] = @ - 1]
    /\ IF output[n] = -1 THEN UNCHANGED fill
       ELSE /\ Readers(OutputPipe(n)) # {}
            /\ fill[OutputPipe(n)] < PipeSize
            /\ fill' = [fill EXCEPT ![OutputPipe(n)] = @ + 1]
    /\ UNCHANGED <<shellvars, open, state, cmdvars, status>>

SigPipe(n) ==
    /\ Running(n)
    /\ todo[n] > 0
    /\ output[n] # -1
    /\ Readers(OutputPipe(n)) = {}
    /\ Ends(n, "signal")

\* A program that has written all it had to, and finds no more to read, ends.
EndOfInput(n) ==
    /\ Running(n)
    /\ todo[n] = 0
    /\ input[n] # -1 => fill[InputPipe(n)] = 0 /\ Writers(InputPipe(n)) = {}
    /\ \E how \in {"success", "failure"} : Ends(n, how)

\* Like head(1), it may also end before.
QuitEarly(n) ==
    /\ Running(n)
    /\ \E how \in {"success", "failure"} : Ends(n, how)

-----------------------------------------------------------------------------
ShellStep ==
    \/ MakePipe \/ PipeFails
    \/ Fork \/ ForkFails
    \/ CloseAndContinue \/ CloseFails
    \/ \E n \in Children : Reap(n)
    \/ WaitFails
    \/ Return \/ Abort

ChildStep(n) ==
    \/ Exec(n) \/ ExecFails(n)
    \/ Read(n) \/ Write(n) \/ SigPipe(n) \/ EndOfInput(n)

Next == ShellStep \/ \E n \in Children : ChildStep(n) \/ QuitEarly(n)

Spec == Init /\ [][Next]_vars

\* The shell and the children keep running; a program need not quit early.
FairSpec == Spec /\ WF_vars(ShellStep) /\ \A n \in Children : WF_vars(ChildStep(n))

-----------------------------------------------------------------------------
Descriptors == {-1} \union 0..2*MaxPipes-1

\* Types of the state; the waiting loop makes one wait more than there can be
\* children.
TypeOK ==
    /\ line \in Lines
    /\ Len(tokens) <= Len(line)
    /\ pc \in {"pipe", "fork", "close", "wait", "done", "aborted"}
    /\ num_pipes \in 0..MaxPipes
    /\ i \in 0..num_pipes+1
    /\ curr_pipe_idx \in -1..Len(line)-1
    /\ last_pipe_idx \in 0..Len(line)
    /\ write_to_pipe \in Descriptors
    /\ children_created \in 0..num_pipes+1
    /\ ret_val \in {0, -1}
    /\ waits \in 0..num_pipes+2
    /\ frees \in 0..1
    /\ open \in [Processes -> SUBSET Descriptors]
    /\ state \in [Children -> {"none", "forked", "running", "zombie", "reaped"}]
    /\ input \in [Children -> Descriptors]
    /\ output \in [Children -> Descriptors]
    /\ todo \in [Children -> 0..MaxOutput]
    /\ status \in [Children -> {"none", "success", "failure", "signal"}]
    /\ fill \in [Pipes -> 0..PipeSize]

\* The n-th command of the line, counted from its end: the words with n bars to
\* their right.
Command(n) ==
    LET words == {k \in 1..Len(line) :
                     /\ line[k] # "|"
                     /\ Cardinality({b \in k+1..Len(line) : line[b] = "|"}) = n}
        before == {k \in 1..Len(line) :
                     Cardinality({b \in k..Len(line) : line[b] = "|"}) > n}
    IN  [k \in 1..Cardinality(words) |-> line[Cardinality(before) + k]]

\* Every child runs its command of the line, reads what the command to its left
\* writes and writes what the command to its right reads, although tokens and
\* all indices change from one fork to the next.
CommandsAreConnected ==
    \A n \in Children : state[n] # "none" =>
        /\ argv[n] = Command(n)
        /\ IF n = 0 THEN output[n] = -1
           ELSE \E k \in Pipes : output[n] = WriteEnd(k) /\ input[n - 1] = ReadEnd(k)
        /\ n = num_pipes => input[n] = -1

\* Besides the two commands it connects, nobody keeps an end of a pipe: neither
\* the children forked later, who inherit what the shell has open, nor, once all
\* are forked, the shell.  Otherwise a reader waits for an end of input that
\* never comes, or a writer for a reader that is gone.
NoStrayEnds ==
    /\ \A k \in Pipes :
          /\ Writers(k) \subseteq
                {Shell, k + 1} \union (IF state[k] = "forked" THEN {k} ELSE {})
          /\ Readers(k) \subseteq {Shell, k}
    /\ pc \in {"wait", "done"} /\ i > num_pipes => open[Shell] = {}

\* No child outlives the function, running or as a zombie, whichever call failed:
\* not when it returns, and not when it aborts the shell.
AllReaped == pc \in {"done", "aborted"} => Unreaped = {}

\* run_pipelined_commands returns to the shell only if every command of the line got its
\* child and every child was waited for.  If a pipe, a fork or a close of its own failed,
\* it waits for the children that there are, and then frees pipe_fds once more and
\* aborts the shell.
ChildrenAreWaitedFor ==
    /\ TypeOK
    /\ AllReaped
    /\ pc = "done" => children_created = num_pipes + 1 /\ i > num_pipes
    /\ pc = "aborted" => i <= num_pipes

\* The loop was left because the shell could not close an end after a fork.
LeftByClose == pc = "wait" /\ i <= num_pipes /\ state[i] # "none"

\* Whatever its programs do, the waiting comes to an end: the function returns, or, after
\* a failed pipe or fork, aborts the shell.  Unless the shell failed to close an end
\* of a pipe: then it waits with ends still open, which may be for ever.
PipelineEnds == pc = "pipe" ~> pc \in {"done", "aborted"} \/ LeftByClose

=============================================================================
