---------------------------- MODULE Journal ----------------------------
(***************************************************************************)
(* What a rider may rely on about the data log, without buffers, signal    *)
(* flags, options or the order of the main loop: named files that only     *)
(* grow, each with its header before its first row unless a write to it    *)
(* failed while it was empty; rows go to the file opened last; and once a  *)
(* SIGHUP has asked for another file, the pass under way may still write   *)
(* its one row, and the next must not write before the log has been opened *)
(* again.  A process that dies leaves the files as they are; what it was   *)
(* asked for is forgotten.                                                 *)
(***************************************************************************)
EXTENDS Naturals, Sequences

CONSTANT First   \* the name a new process begins with

VARIABLES
    journal,     \* file name -> its entries, for the files that exist
    current,     \* the file opened last
    headless,    \* files that a write failed to while they were empty
    asked,       \* a SIGHUP waits
    spare        \* rows the pass under way may write although one waits

vars == <<journal, current, headless, asked, spare>>

Entries(name) == IF name \in DOMAIN journal THEN journal[name] ELSE <<>>
With(name, entries) ==
    [n \in DOMAIN journal \cup {name} |-> IF n = name THEN entries ELSE journal[n]]

Init ==
    /\ journal = [n \in {} |-> <<>>]
    /\ current = First /\ headless = {}
    /\ asked = FALSE /\ spare = 0

\* What is left of entries when their writing fails: the first of them, and perhaps
\* a part of the next.
Parts(entries) ==
    LET whole == {SubSeq(entries, 1, k) : k \in 0..(Len(entries) - 1)}
    IN  whole \cup {Append(w, "cut") : w \in whole}

\* Entries go to the end of the current file, or part of them does.
Write(entries) ==
    \E part \in {entries} \cup Parts(entries) :
        /\ journal' = With(current, Entries(current) \o part)
        /\ headless' = IF part # entries /\ Entries(current) = <<>>
                       THEN headless \cup {current}
                       ELSE headless

\* A file of whatever name is created, or continued where it ends.  Whoever asked
\* is served, unless the request came while it was being opened.
Open ==
    /\ journal' = With(current', Entries(current'))
    /\ asked' \in {FALSE, asked}
    /\ spare' \in {0, IF asked' THEN 1 ELSE 0}
    /\ UNCHANGED headless

\* A row, behind the header if the file has none yet and none was lost.
Row ==
    /\ current \in DOMAIN journal
    /\ asked => spare = 1
    /\ \E head \in {<<>>, <<"H">>} :
          /\ Entries(current) = <<>> /\ current \notin headless => head = <<"H">>
          /\ Write(head \o <<"R">>)
    /\ spare' = 0
    /\ UNCHANGED <<current, asked>>

\* A header that no row has followed.
Flush ==
    /\ current \in DOMAIN journal
    /\ \E head \in {<<>>, <<"H">>} : Write(head)
    /\ UNCHANGED <<current, asked, spare>>

Ask ==
    /\ asked' = TRUE
    /\ IF asked THEN UNCHANGED spare ELSE spare' \in {0, 1}
    /\ UNCHANGED <<journal, current, headless>>

\* The pass ends without a row.
Skip ==
    /\ spare' = 0
    /\ UNCHANGED <<journal, current, headless, asked>>

NewProcess ==
    /\ current' = First
    /\ asked' = FALSE /\ spare' = 0
    /\ UNCHANGED <<journal, headless>>

Next == Open \/ Row \/ Flush \/ Ask \/ Skip \/ NewProcess

Spec == Init /\ [][Next]_vars
=============================================================================
