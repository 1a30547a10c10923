----------------------------- MODULE NotePromise -----------------------------
(***************************************************************************)
(* What the note seam promises of every offer (docs/contract.md, Notes),   *)
(* with no inbox, ledger, count or thread: a note that is in meets one     *)
(* end, for good; one word is given of it, which is true; the stream tells *)
(* that word once; and who asks is told the same. Only a member that is    *)
(* over answers of a note it has no word of, and then nothing is known of  *)
(* that note.                                                              *)
(***************************************************************************)
EXTENDS Sequences

CONSTANTS Offers, Callers

VARIABLES
    fate,    \* each note: not in, open to the turns, or how it ended
    word,    \* what was decided to say of each
    stream,  \* what the run's stream says of each, in order
    heard,   \* what each caller was answered, and of which offer
    over     \* the member is over: it takes no more notes

vars == <<fate, word, stream, heard, over>>

\* A turn took it, now or later; the conversation had no turn for it; taken back
Ends == {"later", "now", "undelivered", "withdrawn"}

Init ==
    /\ fate = [o \in Offers |-> "none"]
    /\ word = [o \in Offers |-> "none"]
    /\ stream = [o \in Offers |-> <<>>]
    /\ heard = [c \in Callers |-> <<>>]
    /\ over = FALSE

Publishes(o, event) == stream' = [stream EXCEPT ![o] = Append(@, event)]
Untold(o) == \A i \in DOMAIN stream[o] : stream[o][i] = "admitted"

\* A request has one answer
Hears(c, o, answer) ==
    /\ heard[c] = <<>>
    /\ heard' = [heard EXCEPT ![c] = <<o, answer>>]

Enters(o) ==
    /\ ~over
    /\ fate[o] = "none" /\ word[o] = "none"
    /\ fate' = [fate EXCEPT ![o] = "open"]
    /\ UNCHANGED <<word, stream, heard, over>>

\* Who offered it hears that it is in, once, and so does the stream
Admits(c, o) ==
    /\ fate[o] # "none"
    /\ \A d \in Callers : heard[d] # <<o, "admitted">>
    /\ Publishes(o, "admitted")
    /\ Hears(c, o, "admitted")
    /\ UNCHANGED <<fate, word, over>>

\* ... or that it is not, and never will be
Refuses(c, o) ==
    /\ fate[o] = "none" /\ word[o] = "none"
    /\ Untold(o)
    /\ word' = [word EXCEPT ![o] = "undelivered"]
    /\ Publishes(o, "undelivered")
    /\ Hears(c, o, "undelivered")
    /\ UNCHANGED <<fate, over>>

\* Open notes meet their end
MeetEnd(S, end) ==
    /\ \A o \in S : fate[o] = "open"
    /\ fate' = [o \in Offers |-> IF o \in S THEN end ELSE fate[o]]
    /\ UNCHANGED <<word, stream, heard, over>>

\* The end a turn, or the conversation, gave a note is the word given of it
Settles(S) ==
    /\ \A o \in S : word[o] = "none" /\ fate[o] \in Ends \ {"withdrawn"}
    /\ word' = [o \in Offers |-> IF o \in S THEN fate[o] ELSE word[o]]
    /\ UNCHANGED <<fate, stream, heard, over>>

\* A note taken back is so for its caller, for a deadline, or for the member's end
TakesBack(o, why) ==
    /\ fate[o] \in {"open", "withdrawn"} /\ word[o] = "none"
    /\ fate' = [fate EXCEPT ![o] = "withdrawn"]
    /\ word' = [word EXCEPT ![o] = why]
    /\ UNCHANGED <<stream, heard, over>>

Tells(o) ==
    /\ word[o] # "none"
    /\ Untold(o)
    /\ Publishes(o, word[o])
    /\ UNCHANGED <<fate, word, heard, over>>

Answers(c, o) ==
    /\ \/ word[o] # "none" /\ Hears(c, o, word[o])
       \/ over /\ word[o] = "none" /\ Hears(c, o, "undelivered")
    /\ UNCHANGED <<fate, word, stream, over>>

\* It is not over while a note has met its end and no word was given of it
Closes ==
    /\ ~over
    /\ \A o \in Offers : fate[o] \in Ends => word[o] # "none"
    /\ over' = TRUE
    /\ UNCHANGED <<fate, word, stream, heard>>

Next ==
    \/ \E o \in Offers : Enters(o) \/ Tells(o)
    \/ \E o \in Offers, why \in {"withdrawn", "expired", "undelivered"} : TakesBack(o, why)
    \/ \E c \in Callers, o \in Offers : Admits(c, o) \/ Refuses(c, o) \/ Answers(c, o)
    \/ \E S \in SUBSET Offers, end \in Ends : MeetEnd(S, end)
    \/ \E S \in SUBSET Offers : Settles(S)
    \/ Closes

Spec == Init /\ [][Next]_vars

=============================================================================
