---------------------------- MODULE MCLogAnalysis ----------------------------
(***************************************************************************)
(* Log files that end early, in the middle or not at all, and scripts with *)
(* every kind of operation.                                                *)
(***************************************************************************)
EXTENDS LogAnalysis

Line(kind, time, name, items) == [kind |-> kind, time |-> time, name |-> name, items |-> items]

Header == Line("event", 0, "Event Name", <<>>)
Blank == Line("blank", 0, "", <<>>)
Bad == Line("malformed", 0, "", <<>>)
Unreadable == Line("unreadable", 0, "", <<>>)
Ev(time, name) == Line("event", time, name, [height |-> 2 * time])

MCLogFiles ==
    {[name |-> "p", lines |-> <<Header, Ev(1, "A"), Ev(2, "B"), Ev(3, "A"), Ev(4, "C"), Ev(5, "A")>>],
     [name |-> "q", lines |-> <<Header, Ev(6, "B"), Line("event", 7, "A", <<>>)>>],
     [name |-> "q", lines |-> <<Header, Ev(8, "A"), Bad, Ev(9, "B"), Ev(10, "A")>>],
     [name |-> "r", lines |-> <<Header, Ev(11, "A"), Blank>>],
     [name |-> "q", lines |-> <<Header, Ev(13, "A"), Unreadable, Unreadable>>],
     [name |-> "r", lines |-> <<>>],
     [name |-> "d", lines |-> "directory"]}

Op(kind, key, from, to) == [kind |-> kind, key |-> key, from |-> from, to |-> to]

MCScriptFiles ==
    {[name |-> "s", ops |-> <<>>],
     [name |-> "s", ops |-> <<Op("search", "A", "", "")>>],
     [name |-> "t", ops |-> <<Op("not", "A", "", ""), Op("filter", "height", ">", 4)>>],
     [name |-> "t", ops |-> <<Op("filter", "time", "<>", 3), Op("before", "A", "C", "")>>],
     [name |-> "u", ops |-> <<Op("after", "A", "B", "")>>],
     [name |-> "u", ops |-> <<Op("between", "A", "B", "C")>>],
     [name |-> "u", ops |-> <<Op("between", "A", "A", "A")>>],
     [name |-> "u", ops |-> <<Op("unusable", "", "", ""), Op("search", "A", "", "")>>],
     [name |-> "v", ops |-> "invalid"]}

MCOldOutputs == <<"p", "s", 0>> :> <<Ev(12, "A")>>
=============================================================================
