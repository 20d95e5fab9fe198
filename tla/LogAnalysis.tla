----------------------------- MODULE LogAnalysis -----------------------------
(***************************************************************************)
(* Loafr: Controller.startAnalysis and what it calls.  Log files are read  *)
(* line by line, and every script selects events of each of them for an    *)
(* output file of its own.                                                 *)
(*                                                                         *)
(* A line is [kind, time, name, items]: an "event"; a "blank" one, of a    *)
(* single field, which becomes an event without data items and without a   *)
(* number for its time; a "malformed" one; or an "unreadable" one, at      *)
(* which reading the file fails.  Values are numbers.  An operation is     *)
(* [kind, key, from, to], the words after its keyword; a filter's are its  *)
(* key, operator and value.                                                *)
(***************************************************************************)
EXTENDS Integers, Sequences, FiniteSets, SequencesExt

CONSTANTS LogFiles,     \* [name, lines]; lines = "directory" if it is none
          ScriptFiles,  \* [name, ops]; ops = "invalid" for an unknown command
          OldOutputs,   \* the directory output/ as earlier runs of the program left it
          MaxLogs, MaxScripts   \* bounds of the files entered in the menu

ASSUME BoundsAssumption == MaxLogs \in Nat /\ MaxScripts \in Nat

\* "unusable" is an operation whose words do not fit its keyword.
Kinds == {"search", "not", "before", "after", "between", "filter", "unusable"}

\* Files have their lines, and scripts their operations, one after the other.
ASSUME FilesAssumption ==
    /\ \A f \in LogFiles : f.lines = "directory" \/ f.lines \in Seq(ToSet(f.lines))
    /\ \A f \in ScriptFiles :
          f.ops = "invalid" \/ (f.ops \in Seq(ToSet(f.ops)) /\ \A o \in ToSet(f.ops) : o.kind \in Kinds)

\* So do the output files that are there, finite in number.
ASSUME OutputsAssumption ==
    /\ IsFiniteSet(DOMAIN OldOutputs)
    /\ OldOutputs \in [DOMAIN OldOutputs -> Seq(UNION {ToSet(OldOutputs[n]) : n \in DOMAIN OldOutputs})]

VARIABLES pc,
          logfilefiles, scriptfiles,
          configfile,   \* "none", "valid" or "invalid"
          scripts,      \* parsed: each operation with whether it still has its keyword
          logs,         \* log files begun
          reader,       \* LogfileReader: [open, rest], what is left in the stream
          events,       \* of the current log file
          script, op,   \* the script and the operation that are next
          output,       \* [null, events] of Script.alert
          made,         \* the output files this run of the program created
          files         \* the directory output/

vars == <<pc, logfilefiles, scriptfiles, configfile, scripts, logs, reader, events,
          script, op, output, made, files>>

Closed == [open |-> FALSE, rest |-> <<>>]

Init ==
    /\ pc = "menu"
    /\ logfilefiles = <<>>
    /\ scriptfiles = <<>>
    /\ configfile = "none"
    /\ scripts = <<>>
    /\ logs = 0
    /\ reader = Closed
    /\ events = <<>>
    /\ script = 1
    /\ op = 1
    /\ output = [null |-> FALSE, events |-> <<>>]
    /\ made = <<>>
    /\ files = OldOutputs

-----------------------------------------------------------------------------
(* The menu.                                                               *)

AddLogFile(f) ==
    /\ pc = "menu"
    /\ Len(logfilefiles) < MaxLogs
    /\ logfilefiles' = Append(logfilefiles, f)
    /\ UNCHANGED <<pc, scriptfiles, configfile, scripts, logs, reader, events, script, op,
                   output, made, files>>

AddScriptFile(f) ==
    /\ pc = "menu"
    /\ Len(scriptfiles) < MaxScripts
    /\ scriptfiles' = Append(scriptfiles, f)
    /\ UNCHANGED <<pc, logfilefiles, configfile, scripts, logs, reader, events, script, op,
                   output, made, files>>

AddConfigFile(c) ==
    /\ pc = "menu"
    /\ configfile' = c
    /\ UNCHANGED <<pc, logfilefiles, scriptfiles, scripts, logs, reader, events, script, op,
                   output, made, files>>

StartAnalysis ==
    /\ pc = "menu"
    /\ pc' = "parse"
    /\ UNCHANGED <<logfilefiles, scriptfiles, configfile, scripts, logs, reader, events,
                   script, op, output, made, files>>

-----------------------------------------------------------------------------
(* Scripts and log files are read.                                         *)

ParseScript ==
    /\ pc = "parse"
    /\ \/ /\ Len(scripts) = Len(scriptfiles)
          /\ pc' = "logs"
          /\ UNCHANGED scripts
       \/ /\ Len(scripts) < Len(scriptfiles)
          /\ LET ops == scriptfiles[Len(scripts) + 1].ops
             IN  IF ops = "invalid"
                 THEN pc' = "false" /\ UNCHANGED scripts
                 ELSE /\ scripts' = Append(scripts,
                              [i \in DOMAIN ops |-> [keyword |-> TRUE, words |-> ops[i]]])
                      /\ UNCHANGED pc
    /\ UNCHANGED <<logfilefiles, scriptfiles, configfile, logs, reader, events, script, op,
                   output, made, files>>

\* setCurrentFile does not touch the stream, readConfigFile throws without a file.
BeginLog ==
    /\ pc = "logs"
    /\ IF logs = Len(logfilefiles)
       THEN pc' = "true" /\ UNCHANGED <<logs, events>>
       ELSE /\ logs' = logs + 1
            /\ events' = <<>>
            /\ pc' = CASE logfilefiles[logs + 1].lines = "directory" -> "false"
                       [] configfile = "none" -> "thrown"
                       [] configfile = "invalid" -> "false"
                       [] OTHER -> "header"
    /\ UNCHANGED <<logfilefiles, scriptfiles, configfile, scripts, reader, script, op,
                   output, made, files>>

\* readLine opens a stream only if none is open.
Remaining == IF reader.open THEN reader.rest ELSE logfilefiles[logs].lines

\* At the end of the file the stream is closed.
AfterRead(rest) == IF rest = <<>> THEN Closed ELSE [open |-> TRUE, rest |-> Tail(rest)]

\* The log file cannot be opened: readLine returns null as at its end.
OpenLogFails ==
    /\ pc = "header"
    /\ ~reader.open
    /\ pc' = "false"
    /\ UNCHANGED <<logfilefiles, scriptfiles, configfile, scripts, logs, reader, events, script,
                   op, output, made, files>>

ReadHeader ==
    /\ pc = "header"
    /\ reader' = AfterRead(Remaining)
    /\ pc' = IF Remaining = <<>> \/ Head(Remaining).kind = "unreadable"
             THEN "false" ELSE "events"
    /\ UNCHANGED <<logfilefiles, scriptfiles, configfile, scripts, logs, events, script, op,
                   output, made, files>>

Usable(line) == line.kind \notin {"malformed", "unreadable"}

\* readAll: a malformed line, and one that cannot be read, end it like the end of
\* the file, but leave the stream open; scriptfiles.get(0) throws if there is none.
ReadEvent ==
    /\ pc = "events"
    /\ reader' = AfterRead(Remaining)
    /\ IF Remaining # <<>> /\ Usable(Head(Remaining))
       THEN events' = Append(events, Head(Remaining)) /\ UNCHANGED <<pc, script>>
       ELSE /\ pc' = IF scriptfiles = <<>> THEN "thrown" ELSE "scripts"
            /\ script' = 1
            /\ UNCHANGED events
    /\ UNCHANGED <<logfilefiles, scriptfiles, configfile, scripts, logs, op, output, made, files>>

-----------------------------------------------------------------------------
(* The operations: what the loops of Search and Filter select.             *)

Compare(a, operator, b) ==
    CASE operator = "=" -> a = b
      [] operator = "<" -> a < b
      [] operator = ">" -> a > b
      [] operator = "<>" -> a # b
      [] OTHER -> FALSE

\* matchesFilterCriteria: a data item of that name goes before the time.
Matches(w, e) ==
    IF w.key \in DOMAIN e.items
    THEN Compare(e.items[w.key], w.from, w.to)
    ELSE w.key = "time" /\ Compare(e.time, w.from, w.to)

\* The time of a blank line is not a number.
FilterThrows(w, es) ==
    w.kind = "filter" /\ w.key = "time" /\ \E i \in DOMAIN es : es[i].kind = "blank"

Takes(w, e, reached) ==
    CASE w.kind = "search" -> e.name = w.key
      [] w.kind = "not" -> e.name # w.key
      [] w.kind = "before" -> e.name = w.key
      [] w.kind \in {"after", "between"} -> reached /\ e.name = w.key
      [] w.kind = "filter" -> Matches(w, e)

\* Mutant: the event that ends the search is looked at too.
Round_LookFirst(w, found, e) ==
    LET reached == found.reached \/ (w.kind \in {"after", "between"} /\ e.name = w.from)
        ends == \/ w.kind = "before" /\ e.name = w.from
                \/ w.kind = "between" /\ e.name = w.to
    IN  IF found.over
        THEN found
        ELSE [over |-> ends, reached |-> reached,
              events |-> IF Takes(w, e, reached) THEN Append(found.events, e) ELSE found.events]

\* One round of a loop over the events.
Round(w, found, e) ==
    LET reached == found.reached \/ (w.kind \in {"after", "between"} /\ e.name = w.from)
        ends == \/ w.kind = "before" /\ e.name = w.from
                \/ w.kind = "between" /\ e.name = w.to
    IN  IF found.over \/ ends
        THEN [found EXCEPT !.over = TRUE]
        ELSE [over |-> FALSE, reached |-> reached,
              events |-> IF Takes(w, e, reached) THEN Append(found.events, e) ELSE found.events]

Select(w, es) ==
    LET found[i \in 0..Len(es)] ==
            IF i = 0
            THEN [over |-> FALSE, reached |-> FALSE, events |-> <<>>]
            ELSE Round(w, found[i - 1], es[i])
    IN  found[Len(es)].events

-----------------------------------------------------------------------------
(* Every script makes an output file.                                      *)

\* Mutant: the file is named without looking at the directory.
OutputName_Plain == <<logfilefiles[logs].name, scriptfiles[1].name, 0>>

\* The name of the log file and of the FIRST script, and a number if that is taken.
OutputName ==
    LET name(i) == <<logfilefiles[logs].name, scriptfiles[1].name, i>>
        taken == {i \in 0..Cardinality(DOMAIN files) : name(i) \in DOMAIN files}
    IN  name(CHOOSE i \in 0..Cardinality(DOMAIN files) :
                i \notin taken /\ \A j \in 0..(i - 1) : j \in taken)

\* The directory or the file may not be created; both return false.
OpenOutput ==
    /\ pc = "scripts"
    /\ script <= Len(scripts)
    /\ \/ /\ made' = Append(made, OutputName)
          /\ files' = [f \in DOMAIN files \union {OutputName} |->
                         IF f = OutputName THEN <<>> ELSE files[f]]
          /\ op' = 1
          /\ output' = [null |-> FALSE, events |-> events]
          /\ pc' = "alert"
       \/ /\ pc' = "false"
          /\ UNCHANGED <<op, output, made, files>>
    /\ UNCHANGED <<logfilefiles, scriptfiles, configfile, scripts, logs, reader, events, script>>

NextLog ==
    /\ pc = "scripts"
    /\ script > Len(scripts)
    /\ pc' = "logs"
    /\ UNCHANGED <<logfilefiles, scriptfiles, configfile, scripts, logs, reader, events,
                   script, op, output, made, files>>

\* Mutant: an operation without its keyword is applied as well.
Refused_Never(o) == output.null

\* What applyOp does not work on: it needs its keyword and events.
Refused(o) == ~o.keyword \/ output.null

\* A search for a name that is not the first word loses "<>" with its keyword.
Stripped(o) ==
    [keyword |-> FALSE,
     words |-> IF o.words.kind = "not" THEN [o.words EXCEPT !.kind = "search"] ELSE o.words]

\* One operation of Script.alert.
ApplyOp ==
    /\ pc = "alert"
    /\ op <= Len(scripts[script])
    /\ LET o == scripts[script][op]
       IN  IF Refused(o)
           THEN output' = [null |-> TRUE, events |-> <<>>] /\ UNCHANGED <<pc, scripts>>
           ELSE /\ scripts' = [scripts EXCEPT ![script][op] = Stripped(o)]
                /\ CASE o.words.kind = "unusable" ->
                          output' = [null |-> TRUE, events |-> <<>>] /\ UNCHANGED pc
                     [] FilterThrows(o.words, output.events) ->
                          pc' = "thrown" /\ UNCHANGED output
                     [] OTHER ->
                          /\ output' = [null |-> FALSE, events |-> Select(o.words, output.events)]
                          /\ UNCHANGED pc
    /\ op' = op + 1
    /\ UNCHANGED <<logfilefiles, scriptfiles, configfile, logs, reader, events, script, made, files>>

\* The loop over null throws.
AlertReturns ==
    /\ pc = "alert"
    /\ op > Len(scripts[script])
    /\ pc' = IF output.null THEN "thrown" ELSE "write"
    /\ UNCHANGED <<logfilefiles, scriptfiles, configfile, scripts, logs, reader, events,
                   script, op, output, made, files>>

EntryIsAppended == files' = [files EXCEPT ![Last(made)] = Append(@, Head(output.events))]

\* writeEntry throws for an event without a list of data items.
WriteEntry ==
    /\ pc = "write"
    /\ output.events # <<>>
    /\ IF Head(output.events).kind = "blank"
       THEN pc' = "thrown" /\ UNCHANGED <<output, files>>
       ELSE /\ EntryIsAppended
            /\ output' = [output EXCEPT !.events = Tail(@)]
            /\ UNCHANGED pc
    /\ UNCHANGED <<logfilefiles, scriptfiles, configfile, scripts, logs, reader, events,
                   script, op, made>>

\* The file cannot be opened, written or closed: startAnalysis returns false, and the
\* output file stays, with or without the entry; one cut short counts as none.
WriteEntryFails ==
    /\ pc = "write"
    /\ output.events # <<>>
    /\ \/ Head(output.events).kind # "blank" /\ EntryIsAppended
       \/ UNCHANGED files
    /\ pc' = "false"
    /\ UNCHANGED <<logfilefiles, scriptfiles, configfile, scripts, logs, reader, events,
                   script, op, output, made>>

OutputWritten ==
    /\ pc = "write"
    /\ output.events = <<>>
    /\ pc' = "scripts"
    /\ script' = script + 1
    /\ UNCHANGED <<logfilefiles, scriptfiles, configfile, scripts, logs, reader, events, op,
                   output, made, files>>

-----------------------------------------------------------------------------
Next ==
    \/ \E f \in LogFiles : AddLogFile(f)
    \/ \E f \in ScriptFiles : AddScriptFile(f)
    \/ \E c \in {"valid", "invalid"} : AddConfigFile(c)
    \/ StartAnalysis \/ ParseScript
    \/ BeginLog \/ OpenLogFails \/ ReadHeader \/ ReadEvent
    \/ OpenOutput \/ NextLog \/ ApplyOp \/ AlertReturns
    \/ WriteEntry \/ WriteEntryFails \/ OutputWritten

Spec == Init /\ [][Next]_vars

-----------------------------------------------------------------------------
(* What the outputs should be.                                             *)

\* The types of the variables.
TypeOK ==
    /\ pc \in {"menu", "parse", "logs", "header", "events", "scripts", "alert", "write",
               "true", "false", "thrown"}
    /\ logfilefiles \in Seq(LogFiles) /\ scriptfiles \in Seq(ScriptFiles)
    /\ configfile \in {"none", "valid", "invalid"}
    /\ Len(scripts) <= Len(scriptfiles)
    /\ \A i \in DOMAIN scripts : \A j \in DOMAIN scripts[i] : scripts[i][j].keyword \in BOOLEAN
    /\ logs \in 0..Len(logfilefiles)
    /\ ~reader.open => reader.rest = <<>>
    /\ script \in 1..(Len(scripts) + 1)
    /\ pc = "alert" => op \in 1..(Len(scripts[script]) + 1)
    /\ made \in Seq(DOMAIN files)

LogOf(k) == ((k - 1) \div Len(scripts)) + 1
ScriptOf(k) == ((k - 1) % Len(scripts)) + 1

\* The last file is not complete before its script ended, nor when an exception or a
\* failed write ended the analysis in the middle of it.
Written(k) ==
    \/ k < Len(made)
    \/ /\ pc \notin {"alert", "write", "thrown"}
       /\ pc = "false" => output.events = <<>>

\* The events of a file, up to the first line that is not one.
EventsOf(f) ==
    LET n == CHOOSE i \in 1..Len(f.lines) :
                 /\ \A j \in 2..i : Usable(f.lines[j])
                 /\ i = Len(f.lines) \/ ~Usable(f.lines[i + 1])
    IN  SubSeq(f.lines, 2, n)

EndsEarly(f) == \E i \in 2..Len(f.lines) : ~Usable(f.lines[i])

\* Whether an operation is about the i-th event.
Meant(w, es, i) ==
    LET Before(name) == \E j \in 1..i : es[j].name = name
    IN  CASE w.kind = "search" -> es[i].name = w.key
          [] w.kind = "not" -> es[i].name # w.key
          [] w.kind = "before" -> es[i].name = w.key /\ ~Before(w.from)
          [] w.kind = "after" -> es[i].name = w.key /\ Before(w.from)
          [] w.kind = "between" -> es[i].name = w.key /\ Before(w.from) /\ ~Before(w.to)
          [] w.kind = "filter" -> Matches(w, es[i])

\* All of these, in their order.
Chosen(w, es) ==
    LET meant == {i \in DOMAIN es : Meant(w, es, i)}
        position(k) == CHOOSE i \in meant : Cardinality({j \in meant : j <= i}) = k
    IN  [k \in 1..Cardinality(meant) |-> es[position(k)]]

\* What a script is for: each operation goes on from what the last one chose.
Meaning(ops, es) ==
    LET left[n \in 0..Len(ops)] == IF n = 0 THEN es ELSE Chosen(ops[n], left[n - 1])
    IN  left[Len(ops)]

\* What is got of an output, as far as it is written.
IsOutput(got, whole, meant) == IF whole THEN got = meant ELSE got = <<>> \/ IsPrefix(got, meant)

\* An output file has what its script says of its log file; one that an exception or
\* a failed write cut short has the first lines of that.  Unless an earlier log file
\* ended early: then its stream was still open and is what was read, although
\* LogfileReader.java:32 says "from the current log file".
ResultsAreMeant ==
    \A k \in DOMAIN made :
       (\A l \in 1..(LogOf(k) - 1) : ~EndsEarly(logfilefiles[l])) =>
          IsOutput(files[made[k]], Written(k),
                   Meaning(scriptfiles[ScriptOf(k)].ops, EventsOf(logfilefiles[LogOf(k)])))

\* Even then every line of an output file comes from its log file or from an earlier
\* one that ended early.
LinesHaveASource ==
    \A k \in DOMAIN made : \A e \in ToSet(files[made[k]]) :
       \E l \in 1..LogOf(k) :
          /\ e \in ToSet(logfilefiles[l].lines)
          /\ l = LogOf(k) \/ EndsEarly(logfilefiles[l])

\* What the analysis writes comes from the log file at hand, and is what the script says,
\* from its beginning, but for the stream that stays open when a log file ends early.
AnalysisIsSound == TypeOK /\ ResultsAreMeant /\ LinesHaveASource

\* startAnalysis returns true only if every script was run on every log file, each with
\* an output file of its own.  With two log files that means that no script has an
\* operation: one that has run returns null from then on.
TrueMeansComplete ==
    pc = "true" =>
       /\ Len(made) = Len(logfilefiles) * Len(scriptfiles)
       /\ IsInjective(made)
       /\ Len(logfilefiles) > 1 => \A i \in DOMAIN scriptfiles : scriptfiles[i].ops = <<>>

\* What was written stays: only the output file in hand changes, and it only grows.
OutputsAreKept ==
    [][\A f \in DOMAIN files :
          /\ f \in DOMAIN files'
          /\ \/ files'[f] = files[f]
             \/ made # <<>> /\ f = Last(made) /\ IsPrefix(files[f], files'[f])]_vars
=============================================================================
