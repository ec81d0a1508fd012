---------------------------- MODULE RequestLine ----------------------------
(***************************************************************************)
(* What a scan tool may rely on: its requests wait in a line, are taken in *)
(* the order they were sent, and each is answered once or not at all.      *)
(***************************************************************************)
EXTENDS Sequences

CONSTANTS
    Requests,
    NoRequest    \* none is being answered

VARIABLES
    line,        \* requests that wait
    answered     \* the one that is being answered

lineVars == <<line, answered>>

LineInit == line = <<>> /\ answered = NoRequest

Ask == \E r \in Requests : line' = Append(line, r) /\ UNCHANGED answered

Take ==
    /\ line # <<>>
    /\ line' = Tail(line)
    /\ answered' \in {NoRequest, Head(line)}

Done == answered' = NoRequest /\ UNCHANGED line

LineSpec == LineInit /\ [][Take \/ Done \/ Ask]_lineVars /\ WF_lineVars(Take)
=============================================================================
