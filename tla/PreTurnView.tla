---------------------------- MODULE PreTurnView ----------------------------
(* One pre-turn command's output (src/src/preturn.rs): the program prints   *)
(* into two pipes, a thread drains each to its end keeping the head of it,  *)
(* the turn's thread waits out the program's bound, and what was kept       *)
(* becomes a view in the instruction the turn opens with. HarnessMember has *)
(* the order of the views and their processes; this is what they say.       *)
(*                                                                          *)
(* A byte stands for itself: "<", "v" and "V" spell the block's own         *)
(* elements, "h" and "t" are the halves of one character, "x" is no part of *)
(* any, and "_" is blank.                                                   *)
EXTENDS Naturals, Sequences, FiniteSetsExt, SequencesExt

CONSTANTS
    Bytes,     \* bound: the bytes it may print
    Scripts,   \* bound: what the program may print, in order and to which pipe
    Pipe,      \* the bytes a pipe holds
    Keep,      \* MAX_PRE_TURN_OUTPUT_BYTES
    Buffer     \* the bytes one read takes

Pipes == {"out", "err"}
Blank == {"_"}

ASSUME PreTurnViewAssumption ==
    {Pipe, Keep, Buffer} \subseteq Nat \ {0} /\ Scripts \subseteq Seq(Pipes \X Bytes)

VARIABLES
    script,     \* what this program prints
    printed,    \* how much of it is printed
    said,       \* what has come through each pipe
    program,    \* the program: running, or how it ended
    holder,     \* a process it left behind holds its pipes open
    taken,      \* how many bytes each drain has read
    drained,    \* the drains that came to the end of their pipe
    truncated,  \* the drains that let bytes go
    capture,    \* how far the turn's thread has come
    captured    \* the view, as it is published and rendered

viewVars == <<script, printed, said, program, holder, taken, drained, truncated, capture, captured>>

InPipe(p) == Len(said[p]) - taken[p]

\* What is published of a view; its bytes are those of the text
PreTurnContext(outcome, text, cut) == [outcome |-> outcome, text |-> text, truncated |-> cut]

NoView == PreTurnContext("none", <<>>, FALSE)

ViewAt(stage, scripts) ==
    /\ script \in scripts
    /\ printed = 0
    /\ said = [p \in Pipes |-> <<>>]
    /\ program = "none"
    /\ holder = FALSE
    /\ taken = [p \in Pipes |-> 0]
    /\ drained = {}
    /\ truncated = {}
    /\ capture = stage
    /\ captured = NoView

ViewInit == ViewAt("spawn", Scripts)

Captures(outcome, text, cut) ==
    /\ capture' = "done"
    /\ captured' = PreTurnContext(outcome, text, cut)

-----------------------------------------------------------------------------
(* The program, and what it leaves behind.                                  *)

\* A pipe that is full holds the program where it is
Blocked ==
    /\ program = "running"
    /\ printed < Len(script)
    /\ InPipe(script[printed + 1][1]) = Pipe

Prints ==
    /\ program = "running"
    /\ printed < Len(script)
    /\ ~Blocked
    /\ printed' = printed + 1
    /\ said' = [said EXCEPT ![script[printed'][1]] = Append(@, script[printed'][2])]
    /\ UNCHANGED <<script, program, holder, taken, drained, truncated, capture, captured>>

Exits ==
    /\ program = "running"
    /\ printed = Len(script)
    /\ program' \in {"exited 0", "exited 1"}
    /\ holder' \in BOOLEAN
    /\ UNCHANGED <<script, printed, said, taken, drained, truncated, capture, captured>>

LetsGo ==
    /\ holder
    /\ holder' = FALSE
    /\ UNCHANGED <<script, printed, said, program, taken, drained, truncated, capture, captured>>

-----------------------------------------------------------------------------
(* The drains, each on a thread of its own.                                 *)

Open == program = "running" \/ holder
Room(p) == IF taken[p] < Keep THEN Keep - taken[p] ELSE 0

\* mutant: a drain that has what it keeps reads no more
DrainsUntilFull(p) ==
    /\ program # "none" /\ p \notin drained
    /\ \E read \in 1 .. Buffer :
        /\ read <= InPipe(p) /\ Room(p) > 0
        /\ taken' = [taken EXCEPT ![p] = @ + read]
        /\ truncated' = IF read > Room(p) THEN truncated \cup {p} ELSE truncated
    /\ UNCHANGED <<script, printed, said, program, holder, drained, capture, captured>>

\* The rest is still consumed rather than left in the pipe
Drains(p) ==
    /\ program # "none" /\ p \notin drained
    /\ \E read \in 1 .. Buffer :
        /\ read <= InPipe(p)
        /\ taken' = [taken EXCEPT ![p] = @ + read]
        /\ truncated' = IF read > Room(p) THEN truncated \cup {p} ELSE truncated
    /\ UNCHANGED <<script, printed, said, program, holder, drained, capture, captured>>

DrainEnds(p) ==
    /\ program # "none" /\ p \notin drained
    /\ InPipe(p) = 0 /\ ~Open
    /\ drained' = drained \cup {p}
    /\ UNCHANGED <<script, printed, said, program, holder, taken, truncated, capture, captured>>

Decodes(bytes) ==
    \A i \in 1 .. Len(bytes) :
        /\ bytes[i] # "x"
        /\ bytes[i] = "h" => i < Len(bytes) /\ bytes[i + 1] = "t"
        /\ bytes[i] = "t" => i > 1 /\ bytes[i - 1] = "h"

\* What a drain answers: the head, back to where it decodes
Head16K(bytes) == SubSeq(bytes, 1, IF Len(bytes) < Keep THEN Len(bytes) ELSE Keep)

\* mutant: the head as it was cut
DecodedCut(bytes) == bytes

Decoded(bytes) ==
    SubSeq(bytes, 1, Max({n \in 0 .. Len(bytes) : Decodes(SubSeq(bytes, 1, n))}))

Drained(p) == Decoded(Head16K(said[p]))

-----------------------------------------------------------------------------
(* The turn's thread: capture.                                              *)

Capture ==
    /\ capture = "spawn"
    /\ \/ program' = "running" /\ capture' = "waiting" /\ UNCHANGED captured
       \/ Captures("unspawnable", <<>>, FALSE) /\ UNCHANGED program
    /\ UNCHANGED <<script, printed, said, holder, taken, drained, truncated>>

Reaped ==
    /\ capture = "waiting"
    /\ program \in {"exited 0", "exited 1"}
    /\ capture' = "joining"
    /\ UNCHANGED <<script, printed, said, program, holder, taken, drained, truncated, captured>>

\* Killed and waited for, and its tree reaped; nothing it printed is kept
Expires ==
    /\ capture = "waiting"
    /\ program = "running"
    /\ program' = "killed"
    /\ Captures("timed_out", <<>>, FALSE)
    /\ UNCHANGED <<script, printed, said, holder, taken, drained, truncated>>

Join ==
    /\ capture = "joining"
    /\ drained = Pipes
    /\ \/ program # "exited 0" /\ Captures("failed", <<>>, FALSE)
       \/ /\ program = "exited 0"
          /\ \A i \in 1 .. Len(Drained("out")) : Drained("out")[i] \in Blank
          /\ Captures("empty", <<>>, FALSE)
       \/ /\ program = "exited 0"
          /\ \E i \in 1 .. Len(Drained("out")) : Drained("out")[i] \notin Blank
          /\ Captures("captured", Drained("out"), "out" \in truncated)
    /\ UNCHANGED <<script, printed, said, program, holder, taken, drained, truncated>>

-----------------------------------------------------------------------------
(* rendered: the block a turn opens with. Every view is an element in it,   *)
(* with the text of one that has any, or why it has none.                   *)

Framing == {<<"<", "v">>, <<"<", "V">>}
Frames(text, i) == i < Len(text) /\ SubSeq(text, i, i + 1) \in Framing

\* Only what would open or close an element is spelled as an entity
Contained(text) ==
    [i \in 1 .. Len(text) |-> IF Frames(text, i) THEN "&lt;" ELSE text[i]]

Element(view) ==
    <<"<", "v">>
        \o (IF view.truncated THEN <<"truncated">> ELSE <<>>)
        \o (IF view.outcome = "captured" THEN Contained(view.text) \o <<"<", "v">>
                                         ELSE <<"unavailable">>)

TurnThread == Capture \/ Reaped \/ Expires \/ Join
DrainThread(p) == Drains(p) \/ DrainEnds(p)

ViewNext ==
    \/ Prints \/ Exits \/ LetsGo
    \/ TurnThread
    \/ \E p \in Pipes : DrainThread(p)

\* The threads of this process run; the program need not print, nor end
ViewFairness == WF_viewVars(TurnThread) /\ \A p \in Pipes : WF_viewVars(DrainThread(p))

ViewSafeSpec == ViewInit /\ [][ViewNext]_viewVars
ViewSpec == ViewSafeSpec /\ ViewFairness

-----------------------------------------------------------------------------
(* A view says what its program printed, however its bytes and the reads of *)
(* them fall: the head of it, back to where it decodes, marked as cut       *)
(* exactly when it printed more than is kept, and all of it when it printed *)
(* no more and that decodes; a program that failed, ran out its bound or    *)
(* printed nothing that decodes is never a view that reads as an answer.    *)
(* And the element it is put in is the only one in it.                      *)
ViewIsWhatItPrinted ==
    LET text == captured.text IN
    /\ captured.outcome \in {"captured", "empty"} =>
         /\ program = "exited 0"
         /\ captured.outcome = "empty" <=> ToSet(Drained("out")) \subseteq Blank
    /\ captured.outcome = "captured" =>
         /\ IsPrefix(text, said["out"]) /\ Len(text) <= Keep /\ Decodes(text)
         /\ captured.truncated <=> Len(said["out"]) > Keep
         /\ ~captured.truncated /\ Decodes(said["out"]) => text = said["out"]
    /\ LET element == Element(captured)
           frames == {i \in 1 .. Len(element) : Frames(element, i)}
       IN  Cardinality(frames) = IF captured.outcome = "captured" THEN 2 ELSE 1

\* "The cut is marked in the context itself: a view that reads as complete and is not
\* is the same defect as a supervisor reporting on state it never saw" (preturn.rs:42):
\* a view without the mark is all of what its program printed. Where that has a byte
\* that does not decode, it is cut there and not marked (preturn.rs:500-507).
CutIsMarked ==
    captured.outcome = "captured" /\ captured.text # said["out"] => captured.truncated

\* "Keeps a chatty view from blocking on a reader that stopped listening":
\* a program held by a full pipe is let go on, and a view ends, unless a process
\* its program left behind holds its pipes.
ViewEnds ==
    /\ Blocked ~> ~Blocked
    /\ capture \in {"waiting", "joining"} /\ ~holder ~> capture = "done" \/ holder

=============================================================================
