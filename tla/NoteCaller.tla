----------------------------- MODULE NoteCaller -----------------------------
(* The caller's side of a note (control.rs offer_note and interrupt, note.rs *)
(* offer, NoteOffer, NoteWithdrawer), in another process than the member it  *)
(* is for: what it reads of the run and of the member's control record, the  *)
(* lever it picks, the requests it makes of the member's spool, and what it  *)
(* is told. The member's side of the spool is NoteRelay; here it is what an  *)
(* answer depends on: where the note is, what is booked and written down,    *)
(* and whether anybody serves.                                               *)
(*                                                                           *)
(* The spool (onemessagebus) and `oneharness interrupt` are external. A      *)
(* request nobody has taken is taken back when its wait runs out; a spool    *)
(* that is served is served within that wait.                                *)
EXTENDS Naturals

VARIABLES
    kind,        \* the member: a conversation, one of an older build, or one party
    mode,        \* how the note asks to be delivered, or what `interrupt` is asked
    writable,    \* the member's answer store can be written
    life,        \* the member, up to its entry in the run's record
    open,        \* its conversation has an inbox
    turn,        \* a turn of its harness can be interrupted
    control,     \* what control.json reads as
    spool,       \* the notes directory: absent, served, closed, or left with the note
    fate,        \* what became of the note in the conversation
    kept,        \* what OFFERS_DIR has of it
    booked,      \* Ledger::answered
    redirected,  \* a turn was redirected with it
    at,          \* how far the caller has come
    heard,       \* what it was told became of the note
    back         \* its NoteWithdrawer, on another thread

given == <<kind, mode, writable>>
standing == <<life, open, turn, control, spool>>
answer == <<fate, kept, booked>>
memberVars == <<given, standing, answer, redirected>>
calling == <<at, heard, back>>
noteVars == <<memberVars, calling>>

Disposed == {"accepted", "undelivered", "expired", "withdrawn"}

CallerInit ==
    /\ kind \in {"conversation", "older", "single"}
    /\ mode \in {"interrupt", "turn end", "redirect", "stop"}
    /\ writable \in BOOLEAN
    /\ life = "starting" /\ open = FALSE /\ turn = FALSE
    /\ control = "none" /\ spool = "absent"
    /\ fate = "none" /\ kept = "none" /\ booked = "none" /\ redirected = FALSE
    /\ at = (IF mode \in {"interrupt", "turn end"} THEN "history" ELSE "verb")
    /\ heard = "none" /\ back = "none"

-----------------------------------------------------------------------------
(* The member. What it holds of the note it answers once, books and gives.  *)

\* Endpoint::bind: a spool that cannot be bound is a member without one
BindEndpoint ==
    /\ kind # "single"
    /\ life = "starting" /\ spool = "absent" /\ control = "none"
    /\ spool' = "served"
    /\ UNCHANGED <<given, life, open, turn, control, answer, redirected, calling>>

\* write_parties empties what it replaces: before the first turn, over every
\* firing of one party, and once more with the report of a conversation
EmptyControl ==
    /\ \/ life = "starting" /\ control = "none"
       \/ life = "running" /\ kind = "single" /\ ~turn
       \/ life = "over" /\ spool # "served"
    /\ control' = "torn"
    /\ UNCHANGED <<given, life, open, turn, spool, answer, redirected, calling>>

\* control_turn: an address or why there is none, and the endpoint's beside it
\* where one is bound
ControlTurn ==
    IF spool = "absent" THEN {"turn", "no turn"} ELSE {"turn, notes", "no turn, notes"}

FillControl ==
    /\ control = "torn"
    /\ control' \in ControlTurn
    /\ life' = IF life = "starting" THEN "running" ELSE life
    /\ open' = (open \/ life = "starting")
    /\ UNCHANGED <<given, turn, spool, answer, redirected, calling>>

HarnessTurn ==
    /\ turn \/ (life = "running" /\ control # "torn")
    /\ turn' = ~turn
    /\ UNCHANGED <<given, life, open, control, spool, answer, redirected, calling>>

\* The conversation takes the note into a turn, which answers it or hands it back
Present ==
    /\ open /\ fate = "queued"
    /\ fate' = "presented"
    /\ UNCHANGED <<given, standing, kept, booked, redirected, calling>>

Dispose ==
    /\ open /\ fate = "presented"
    /\ fate' \in {"accepted", "queued"}
    /\ UNCHANGED <<given, standing, kept, booked, redirected, calling>>

\* The engine is over, and its inbox answers what is in it
ConversationEnds ==
    /\ open
    /\ open' = FALSE /\ turn' = FALSE
    /\ life' = IF life = "running" THEN "over" ELSE life
    /\ fate' = IF fate \in {"queued", "presented"} THEN "undelivered" ELSE fate
    /\ UNCHANGED <<given, control, spool, kept, booked, redirected, calling>>

\* A signal or a watchdog: the engine may go on
Condemned ==
    /\ life = "running"
    /\ life' = "condemned"
    /\ UNCHANGED <<given, open, turn, control, spool, answer, redirected, calling>>

Unbooked == kind = "conversation" /\ fate \in Disposed /\ booked = "none"

\* write_settled: half of it beside its name, and then renamed onto it
WritePartial ==
    /\ Unbooked /\ writable /\ kept = "none"
    /\ kept' = "partial"
    /\ UNCHANGED <<given, standing, fate, booked, redirected, calling>>

RenamePartial ==
    /\ kept = "partial"
    /\ kept' = fate
    /\ UNCHANGED <<given, standing, fate, booked, redirected, calling>>

\* mutant: remembered before it is written down
BookUnwritten ==
    /\ Unbooked
    /\ booked' = fate
    /\ UNCHANGED <<given, standing, fate, kept, redirected, calling>>

\* Book::record, under the lock of the ledger
Book ==
    /\ Unbooked
    /\ writable => kept = fate
    /\ booked' = fate
    /\ UNCHANGED <<given, standing, fate, kept, redirected, calling>>

Gone == spool \in {"closed", "left"}
Waiting == at \in {"waiting", "waiting until"}

\* Ending::end answers what no wait is on and no turn has ...
EndAnswers ==
    /\ life = "condemned" /\ spool = "served"
    /\ fate = "queued" /\ ~Waiting
    /\ fate' = "undelivered"
    /\ UNCHANGED <<given, standing, kept, booked, redirected, calling>>

\* ... and leaves the rest behind when SETTLE_BOUND is over
CloseSpool ==
    /\ life \in {"over", "condemned"} /\ spool = "served"
    /\ ~Unbooked /\ (fate = "queued" => Waiting)
    /\ spool' = IF fate \in {"queued", "presented"} THEN "left" ELSE "closed"
    /\ UNCHANGED <<given, life, open, turn, control, answer, redirected, calling>>

\* The run's record names the member
RecordOutcome ==
    /\ life \in {"over", "condemned"}
    /\ spool # "served" /\ control # "torn"
    /\ life' = "recorded"
    /\ UNCHANGED <<given, open, turn, control, spool, answer, redirected, calling>>

MemberSide ==
    \/ BindEndpoint \/ EmptyControl \/ FillControl \/ HarnessTurn
    \/ Present \/ Dispose \/ ConversationEnds \/ Condemned
    \/ WritePartial \/ RenamePartial \/ Book
    \/ EndAnswers \/ CloseSpool \/ RecordOutcome

-----------------------------------------------------------------------------
(* offer_note.                                                              *)

Hears(what) == at' = "done" /\ heard' = what
Moves(place) == at' = place /\ UNCHANGED heard

\* The run's own evidence first: nobody serves a settled member
ReadHistory ==
    /\ at = "history"
    /\ IF life = "recorded" THEN Hears("undelivered") ELSE Moves("control")
    /\ UNCHANGED <<memberVars, back>>

\* Whether the member bound an endpoint, as far as the record says one
ReadControl ==
    /\ at = "control"
    /\ \/ control \in {"turn, notes", "no turn, notes"} /\ Moves("offer")
       \/ /\ control \in {"none", "torn", "turn", "no turn"}
          /\ IF mode = "turn end" THEN Hears("undelivered") ELSE Moves("interrupt")
    /\ UNCHANGED <<memberVars, back>>

\* The `interrupt` verb: a redirection that is blank, unreadable or given twice
\* is a bad ask; none at all only stops the turn
Redirection ==
    /\ at = "verb"
    /\ \/ Moves("interrupt")
       \/ mode = "redirect" /\ Hears("bad ask")
    /\ UNCHANGED <<memberVars, back>>

\* interrupt reads the run's record and then the member's once more
ReadHistoryAgain ==
    /\ at = "interrupt"
    /\ IF life = "recorded" THEN Hears("undelivered") ELSE Moves("address")
    /\ UNCHANGED <<memberVars, back>>

ReadAddress ==
    /\ at = "address"
    /\ IF control \in {"turn", "turn, notes"} THEN Moves("deliver") ELSE Hears("undelivered")
    /\ UNCHANGED <<memberVars, back>>

\* mutant: a turn that was stopped was delivered to
DeliverServed ==
    /\ at = "deliver"
    /\ \/ turn /\ redirected' \in BOOLEAN /\ Hears("interrupted")
       \/ redirected' \in {FALSE, turn /\ mode # "stop"} /\ Hears("unread")
    /\ UNCHANGED <<given, standing, answer, back>>

\* deliver: the answer of `oneharness interrupt` is served and redirected; served
\* without the redirection, refused, or a wrong argument; or it is not one this
\* build can read, and the caller hears no more than that
Deliver ==
    /\ at = "deliver"
    /\ \/ turn /\ redirected' = (mode # "stop") /\ Hears("interrupted")
       \/ UNCHANGED redirected /\ Hears("undelivered")
       \/ redirected' \in {FALSE, turn /\ mode # "stop"} /\ Hears("unread")
    /\ UNCHANGED <<given, standing, answer, back>>

-----------------------------------------------------------------------------
(* offer, by the protocol the spool declares.                               *)

\* A bare note of an older build goes into the inbox itself, and is taken back
\* when its wait runs out with no turn having it
OfferBare ==
    /\ at = "offer" /\ kind = "older"
    /\ IF spool = "served" /\ open THEN fate' = "queued" /\ Moves("bare")
                                   ELSE Hears("undelivered") /\ UNCHANGED fate
    /\ UNCHANGED <<given, standing, kept, booked, redirected, back>>

BareAnswered ==
    /\ at = "bare"
    /\ \/ fate \in {"accepted", "undelivered"} /\ Hears(fate) /\ UNCHANGED fate
       \/ fate = "queued" /\ fate' = "withdrawn" /\ Hears("undelivered")
    /\ UNCHANGED <<given, standing, kept, booked, redirected, back>>

\* Relay::admit, or the refusal of an inbox or of a spool that is over
Offer ==
    /\ at = "offer" /\ kind = "conversation"
    /\ \/ /\ spool = "served" /\ open /\ life = "running"
          /\ fate' = "queued" /\ Moves("admitted")
       \/ spool = "served" /\ ~open /\ fate' = "undelivered" /\ Hears("undelivered")
       \/ life # "running" /\ UNCHANGED fate /\ Hears("undelivered")
    /\ UNCHANGED <<given, standing, kept, booked, redirected, back>>

\* NoteOffer::wait and wait_until
AskWait ==
    /\ at = "admitted"
    /\ \E how \in {"waiting", "waiting until"} : Moves(how)
    /\ UNCHANGED <<memberVars, back>>

Expire ==
    /\ at = "waiting until" /\ spool = "served"
    /\ fate = "queued"
    /\ fate' = "expired"
    /\ UNCHANGED <<given, standing, kept, booked, redirected, calling>>

WaitIsAnswered ==
    /\ Waiting /\ spool = "served"
    /\ booked # "none"
    /\ Hears(booked)
    /\ UNCHANGED <<memberVars, back>>

\* mutant: a member that is gone answers with its close
ResolveByClose ==
    /\ Waiting /\ Gone
    /\ Hears("undelivered")
    /\ UNCHANGED <<memberVars, back>>

\* resolve: what the member wrote down, or else the close of its spool
Resolve ==
    /\ Waiting /\ Gone
    /\ Hears(IF kept \in Disposed THEN kept ELSE "undelivered")
    /\ UNCHANGED <<memberVars, back>>

-----------------------------------------------------------------------------
(* NoteWithdrawer::withdraw.                                                *)

Withdrawable == kind = "conversation" /\ (at = "admitted" \/ Waiting \/ fate \in Disposed)

\* Ledger's lock, and a handle that no turn's end is settling
TakeBack ==
    /\ back = "none" /\ Withdrawable
    /\ spool = "served" /\ fate = "queued"
    /\ fate' = "withdrawn" /\ back' = "asked"
    /\ UNCHANGED <<given, standing, kept, booked, redirected, at, heard>>

TakenBack ==
    /\ back = "asked" /\ booked = "withdrawn"
    /\ back' = "withdrawn"
    /\ UNCHANGED <<memberVars, at, heard>>

NotWithdrawn ==
    /\ back = "none" /\ Withdrawable
    /\ Gone \/ fate # "queued"
    /\ back' = "not withdrawn"
    /\ UNCHANGED <<memberVars, at, heard>>

CallerNext ==
    \/ MemberSide
    \/ ReadHistory \/ ReadControl \/ Redirection \/ ReadHistoryAgain \/ ReadAddress \/ Deliver
    \/ OfferBare \/ BareAnswered \/ Offer \/ AskWait \/ Expire
    \/ WaitIsAnswered \/ Resolve
    \/ TakeBack \/ TakenBack \/ NotWithdrawn

-----------------------------------------------------------------------------
(* What a caller is told became of its note is what became of it, whichever *)
(* lever carried it, and whenever the member ended: accepted and interrupted *)
(* only by a turn that has it; expired, withdrawn and a withdrawal that      *)
(* succeeded only of a note no turn will ever take, the wait and the         *)
(* withdrawer agreeing; undelivered only of a note nobody reads, unless its  *)
(* member was condemned with the note in its hands, or could write nothing   *)
(* down.                                                                     *)
CallerHearsTheTruth ==
    /\ heard = "accepted" => fate = "accepted"
    /\ heard = "interrupted" => redirected \/ mode = "stop"
    /\ heard \in {"expired", "withdrawn"} => fate = heard
    /\ back = "withdrawn" =>
         /\ fate = "withdrawn"
         /\ heard \in {"none", "withdrawn"} \cup (IF writable THEN {} ELSE {"undelivered"})
    /\ heard = "undelivered" =>
         /\ ~redirected
         /\ fate \notin {"queued", "presented", "accepted"} \/ spool = "left" \/ ~writable

=============================================================================
