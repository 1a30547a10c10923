----------------------------- MODULE NoteRelay -----------------------------
(***************************************************************************)
(* The note seam of one two-party member (src/src/note.rs): callers in     *)
(* other processes offer notes, wait on them and take them back; a relay   *)
(* thread serves their requests; each wait has a thread of its own; the    *)
(* engine's thread settles what it answered as it announces a worker turn; *)
(* and the supervising thread ends it all.                                 *)
(*                                                                         *)
(* The conversation's inbox (onemessagebus, onejudge) is external: a note  *)
(* in it is queued until it is taken back or a turn takes it, and a turn   *)
(* that took it answers it or hands it back. Offer ids are minted afresh,  *)
(* so no offer is made twice. The answer store never fails to write.       *)
(***************************************************************************)
EXTENDS Naturals, FiniteSets, Sequences

CONSTANTS
    Offers,      \* the offer ids callers mint, numbered in the order they ask
    Callers      \* bound: the requests made, one by each, numbered likewise

ASSUME NoteRelayAssumption == Offers \subseteq Nat \ {0} /\ Callers \subseteq Nat \ {0}

VARIABLES
    note,        \* what became of each note in the conversation's inbox
    engine,      \* the engine's thread: in a turn, or in the sink announcing one
    custody,     \* Ledger::held: the custody of each offer, or that it is not held
    answered,    \* Ledger::answered, and what is written down beside it
    unsaid,      \* offers recorded and not yet announced
    stream,      \* the events published of each offer
    inflight,    \* Handed::in_flight
    taken,       \* Handed::taken
    attributed,  \* Deliveries::attributed
    relay,       \* what the relay's thread is doing, and for whom
    caller,      \* each caller's request, and the reply it got
    end          \* how far Ending::end is

book == <<custody, answered, unsaid>>
counts == <<inflight, taken>>
vars == <<note, engine, book, stream, counts, attributed, relay, caller, end>>

Dispositions == {"later", "now", "undelivered", "expired", "withdrawn"}
Kinds == {"offer", "wait", "until", "withdraw"}
AtRest == [at |-> "idle", for |-> 0]

Init ==
    /\ note = [o \in Offers |-> "none"]
    /\ engine = "running"
    /\ custody = [o \in Offers |-> "absent"]
    /\ answered = [o \in Offers |-> "none"]
    /\ unsaid = {}
    /\ stream = [o \in Offers |-> <<>>]
    /\ inflight = 0
    /\ taken = 0
    /\ attributed = 0
    /\ relay = AtRest
    /\ caller = [c \in Callers |-> [at |-> "new", kind |-> "none", offer |-> 0, got |-> "none"]]
    /\ end = "no"

\* What the stream can say of an offer: note-admitted, turn-interrupted with how a
\* turn accepted it or that none did, note-withdrawn with why
Said == Dispositions \cup {"admitted"}

Held == {o \in Offers : custody[o] # "absent"}
Handled(o) == custody[o] \in {"idle", "waited"}
Answered(o) == note[o] \in {"later", "now", "undelivered"}

\* Custody::withdraw: it is here to ask, and no turn has taken the note
Untaken(o) == Handled(o) /\ note[o] = "queued"

\* Book::idle
Idle == {o \in Offers : custody[o] = "idle"}

\* terminal_refusal: why it ended is for the caller to read
Refusal == "undelivered"

\* reply_of, awaited: the conversation's answer, and failing one that it ended
Outcome(o) == IF Answered(o) THEN note[o] ELSE Refusal

Reply(c, reply) == caller' = [caller EXCEPT ![c].at = "got", ![c].got = reply]
Goes(c, place) == caller' = [caller EXCEPT ![c].at = place]

\* Book::record: written down, remembered, let go of
Record(o, disposition) ==
    /\ custody' = [custody EXCEPT ![o] = "absent"]
    /\ answered' = [answered EXCEPT ![o] = disposition]
    /\ unsaid' = unsaid \cup {o}

Published(o, event) == stream' = [stream EXCEPT ![o] = Append(@, event)]

\* Relayed::answered
CountedAnswer(accepted) ==
    /\ inflight' = IF inflight = 0 THEN 0 ELSE inflight - 1
    /\ taken' = IF accepted THEN taken + 1 ELSE taken

-----------------------------------------------------------------------------
(* The callers.                                                             *)

\* Callers and offers are numbered in the order they come
Comes(c) == caller[c].at = "new" /\ \A d \in Callers : d < c => caller[d].at # "new"
Minted == {caller[c].offer : c \in Callers}
Mints(o) == o \notin Minted /\ \A p \in Offers : p < o => p \in Minted

Admitted == {caller[c].offer : c \in {c \in Callers : caller[c].got = "admitted"}}

\* One request, made once; what is asked of an offer is asked once it is in
Send(c) ==
    /\ Comes(c)
    /\ end # "closed"
    /\ \E kind \in Kinds, o \in Offers :
        /\ IF kind = "offer" THEN Mints(o) ELSE o \in Admitted
        /\ caller' = [caller EXCEPT ![c] = [at |-> "sent", kind |-> kind, offer |-> o, got |-> "none"]]
    /\ UNCHANGED <<note, engine, book, stream, counts, attributed, relay, end>>

\* mutant: the close answers, whatever was written down
SendTooLateClosed(c) ==
    /\ Comes(c)
    /\ end = "closed"
    /\ \E o \in Admitted :
        caller' = [caller EXCEPT ![c] = [at |-> "got", kind |-> "wait", offer |-> o, got |-> "undelivered"]]
    /\ UNCHANGED <<note, engine, book, stream, counts, attributed, relay, end>>

\* The spool takes no more: a wait reads what was written down, or the close
SendTooLate(c) ==
    /\ Comes(c)
    /\ end = "closed"
    /\ \E o \in Admitted :
        caller' = [caller EXCEPT ![c] =
            [at |-> "got", kind |-> "wait", offer |-> o,
             got |-> IF answered[o] = "none" THEN "undelivered" ELSE answered[o]]]
    /\ UNCHANGED <<note, engine, book, stream, counts, attributed, relay, end>>

-----------------------------------------------------------------------------
(* The relay. A definition marked "mutant" is a bug this code could have    *)
(* had in the definition after it.                                          *)

Serving(c, kinds) ==
    /\ relay.at = "idle"
    /\ end = "no"
    /\ caller[c].at = "sent"
    /\ caller[c].kind \in kinds

\* Relay::admit, up to notes.offer
OfferNote(c) ==
    /\ Serving(c, {"offer"})
    /\ engine # "over"
    /\ note' = [note EXCEPT ![caller[c].offer] = "queued"]
    /\ relay' = [at |-> "offered", for |-> c]
    /\ UNCHANGED <<engine, book, stream, counts, attributed, caller, end>>

\* The conversation can take no more
RefuseNote(c) ==
    /\ Serving(c, {"offer"})
    /\ engine = "over"
    /\ answered' = [answered EXCEPT ![caller[c].offer] = "undelivered"]
    /\ Published(caller[c].offer, "undelivered")
    /\ Reply(c, "undelivered")
    /\ UNCHANGED <<note, engine, custody, unsaid, counts, attributed, relay, end>>

HandNote ==
    /\ relay.at = "offered"
    /\ inflight' = inflight + 1
    /\ relay' = [relay EXCEPT !.at = "handed"]
    /\ UNCHANGED <<note, engine, book, stream, taken, attributed, caller, end>>

HoldNote ==
    /\ relay.at = "handed"
    /\ custody' = [custody EXCEPT ![caller[relay.for].offer] = "idle"]
    /\ relay' = [relay EXCEPT !.at = "held"]
    /\ UNCHANGED <<note, engine, answered, unsaid, stream, counts, attributed, caller, end>>

\* note-admitted, and the caller hears it is in
AdmitNote ==
    /\ relay.at = "held"
    /\ Published(caller[relay.for].offer, "admitted")
    /\ Reply(relay.for, "admitted")
    /\ relay' = AtRest
    /\ UNCHANGED <<note, engine, book, counts, attributed, end>>

\* Relay::answer_once_answered, on an offer that is held: at most one wait on it
Wait(c) ==
    LET o == caller[c].offer IN
    /\ Serving(c, {"wait", "until"})
    /\ custody[o] # "absent"
    /\ IF custody[o] = "waited" THEN Reply(c, "refused") ELSE Goes(c, "waiting")
    /\ custody' = [custody EXCEPT ![o] = IF @ = "idle" THEN "waited" ELSE @]
    /\ UNCHANGED <<note, engine, answered, unsaid, stream, counts, attributed, relay, end>>

\* ... and on one that is not
WaitTooLate(c) ==
    LET o == caller[c].offer IN
    /\ Serving(c, {"wait", "until"})
    /\ custody[o] = "absent"
    /\ Reply(c, IF answered[o] = "none" THEN "refused" ELSE answered[o])
    /\ UNCHANGED <<note, engine, book, stream, counts, attributed, relay, end>>

\* Book::withdraw, of a note no turn has taken
Withdraw(c) ==
    LET o == caller[c].offer IN
    /\ Serving(c, {"withdraw"})
    /\ Untaken(o)
    /\ note' = [note EXCEPT ![o] = "withdrawn"]
    /\ Record(o, "withdrawn")
    /\ relay' = [at |-> "withdrawing", for |-> c]
    /\ UNCHANGED <<engine, stream, counts, attributed, caller, end>>

Withdrawn ==
    /\ relay.at = "withdrawing"
    /\ caller[relay.for].offer \notin unsaid
    /\ Reply(relay.for, "withdrawn")
    /\ relay' = AtRest
    /\ UNCHANGED <<note, engine, book, stream, counts, attributed, end>>

WithdrawTooLate(c) ==
    LET o == caller[c].offer IN
    /\ Serving(c, {"withdraw"})
    /\ ~Untaken(o)
    /\ Reply(c, "taken")
    /\ UNCHANGED <<note, engine, book, stream, counts, attributed, relay, end>>

-----------------------------------------------------------------------------
(* Book::awaited, one look at a time, on the thread of a wait.              *)

Looking(c) == caller[c].at = "waiting"

WaitAnswered(c) ==
    LET o == caller[c].offer IN
    /\ Looking(c)
    /\ Handled(o) /\ Answered(o)
    /\ Record(o, note[o])
    /\ Goes(c, "announcing")
    /\ UNCHANGED <<note, engine, stream, counts, attributed, relay, end>>

\* mutant: the deadline answers whatever a turn is doing with the note
WaitExpiresTaken(c) ==
    LET o == caller[c].offer IN
    /\ Looking(c)
    /\ caller[c].kind = "until"
    /\ Handled(o) /\ note[o] \in {"queued", "taken"}
    /\ Record(o, "expired")
    /\ Goes(c, "announcing")
    /\ UNCHANGED <<note, engine, stream, counts, attributed, relay, end>>

\* At some look the deadline has passed, and the note is still untaken
WaitExpires(c) ==
    LET o == caller[c].offer IN
    /\ Looking(c)
    /\ caller[c].kind = "until"
    /\ Untaken(o)
    /\ note' = [note EXCEPT ![o] = "withdrawn"]
    /\ Record(o, "expired")
    /\ Goes(c, "announcing")
    /\ UNCHANGED <<engine, stream, counts, attributed, relay, end>>

\* Answered elsewhere: a withdrawal, a turn being announced, the member's end
WaitOvertaken(c) ==
    /\ Looking(c)
    /\ custody[caller[c].offer] = "absent"
    /\ Reply(c, answered[caller[c].offer])
    /\ UNCHANGED <<note, engine, book, stream, counts, attributed, relay, end>>

WaitReplies(c) ==
    /\ caller[c].at = "announcing"
    /\ caller[c].offer \notin unsaid
    /\ Reply(c, answered[caller[c].offer])
    /\ UNCHANGED <<note, engine, book, stream, counts, attributed, relay, end>>

\* opens_a_later_turn
OpensALaterTurn(disposition) == disposition = "later"

\* Book::announce, by whoever recorded it and outside the lock
Announce(o) ==
    /\ o \in unsaid
    /\ unsaid' = unsaid \ {o}
    /\ Published(o, answered[o])
    /\ CountedAnswer(OpensALaterTurn(answered[o]))
    /\ UNCHANGED <<note, engine, custody, answered, attributed, relay, caller, end>>

-----------------------------------------------------------------------------
(* The engine's thread: what onejudge does with its inbox, and the sink     *)
(* asking what the worker turn it announces carries.                        *)

TakeNote(o) ==
    /\ engine = "running"
    /\ note[o] = "queued"
    /\ note' = [note EXCEPT ![o] = "taken"]
    /\ UNCHANGED <<engine, book, stream, counts, attributed, relay, caller, end>>

\* The turn answers it, or hands it back; past its deadline it expires there
DisposeOfNote(o) ==
    /\ engine = "running"
    /\ note[o] = "taken"
    /\ \E what \in {"later", "now", IF custody[o] = "settling" THEN "withdrawn" ELSE "queued"} :
        note' = [note EXCEPT ![o] = what]
    /\ UNCHANGED <<engine, book, stream, counts, attributed, relay, caller, end>>

\* The conversation is over: its inbox answers every note in it
EngineEnds ==
    /\ engine = "running"
    /\ engine' = "over"
    /\ note' = [o \in Offers |-> IF note[o] \in {"queued", "taken"} THEN "undelivered" ELSE note[o]]
    /\ UNCHANGED <<book, stream, counts, attributed, relay, caller, end>>

\* Deliveries::carried_by_this_turn is asked
TurnOpens ==
    /\ engine = "running"
    /\ engine' = "probing"
    /\ UNCHANGED <<note, book, stream, counts, attributed, relay, caller, end>>

\* Book::probe
Probe ==
    LET found == {o \in Offers : Handled(o) /\ Answered(o)} IN
    /\ engine = "probing"
    /\ engine' = "looking"
    /\ custody' = [o \in Offers |-> IF o \in found THEN "absent" ELSE custody[o]]
    /\ answered' = [o \in Offers |-> IF o \in found THEN note[o] ELSE answered[o]]
    /\ unsaid' = unsaid \cup found
    /\ UNCHANGED <<note, stream, counts, attributed, relay, caller, end>>

\* mutant: the turn is announced on the count as it stands
LookAtOnce ==
    /\ engine = "looking"
    /\ attributed' = taken
    /\ engine' = "running"
    /\ UNCHANGED <<note, book, stream, counts, relay, caller, end>>

\* DELIVERY_SETTLE is reached only over a note the conversation has not answered
OnlyUnanswered ==
    /\ unsaid = {}
    /\ \A o \in Held : ~Answered(o)
    /\ relay.at = "handed" => ~Answered(caller[relay.for].offer)

Look ==
    /\ engine = "looking"
    /\ \/ /\ inflight = 0 \/ OnlyUnanswered
          /\ attributed' = taken
          /\ engine' = "running"
       \/ /\ inflight > 0
          /\ engine' = "probing"
          /\ UNCHANGED attributed
    /\ UNCHANGED <<note, book, stream, counts, relay, caller, end>>

-----------------------------------------------------------------------------
(* Ending::end, once the engine answered or a watchdog condemned the member.*)

\* halt: the relay finishes the request in hand and stops
EndBegins ==
    /\ end = "no"
    /\ end' = "halting"
    /\ UNCHANGED <<note, engine, book, stream, counts, attributed, relay, caller>>

\* Every offer no wait is on is settled on a thread of its own
SettleIdle ==
    /\ end = "halting"
    /\ relay.at = "idle"
    /\ custody' = [o \in Offers |-> IF o \in Idle THEN "settling" ELSE custody[o]]
    /\ end' = "draining"
    /\ UNCHANGED <<note, engine, answered, unsaid, stream, counts, attributed, relay, caller>>

\* awaited, with a deadline that has passed: the conversation's answer if it
\* gave one, and the member's end if it took the note in none of its turns
SettleOffer(o) ==
    /\ custody[o] = "settling"
    /\ Answered(o) \/ note[o] \in {"queued", "withdrawn"}
    /\ Record(o, Outcome(o))
    /\ note' = [note EXCEPT ![o] = IF Answered(o) THEN @ ELSE "withdrawn"]
    /\ UNCHANGED <<engine, stream, counts, attributed, relay, caller, end>>

\* mutant: the end is held for as long as an offer is
DrainedOnly ==
    /\ end = "draining"
    /\ Held = {}
    /\ end' = "closing"
    /\ UNCHANGED <<note, engine, book, stream, counts, attributed, relay, caller>>

\* Nothing is held, or SETTLE_BOUND is over: some note is with an engine that
\* has not ended, which a thread's own slowness is not
Drained ==
    /\ end = "draining"
    /\ \A o \in Held : ~Answered(o) /\ (custody[o] = "settling" => note[o] = "taken")
    /\ end' = "closing"
    /\ UNCHANGED <<note, engine, book, stream, counts, attributed, relay, caller>>

\* What the relay had not reached
AnswerQueued(c) ==
    LET o == caller[c].offer IN
    /\ end = "closing"
    /\ caller[c].at = "sent"
    /\ \/ /\ caller[c].kind = "offer"
          /\ answered' = [answered EXCEPT ![o] = Refusal]
          /\ Published(o, Refusal)
          /\ Reply(c, Refusal)
       \/ /\ caller[c].kind \in {"wait", "until"}
          /\ Reply(c, IF answered[o] = "none" THEN Refusal ELSE answered[o])
          /\ UNCHANGED <<answered, stream>>
       \/ /\ caller[c].kind = "withdraw"
          /\ Reply(c, "taken")
          /\ UNCHANGED <<answered, stream>>
    /\ UNCHANGED <<note, engine, custody, unsaid, counts, attributed, relay, end>>

Close ==
    /\ end = "closing"
    /\ \A c \in Callers : caller[c].at # "sent"
    /\ end' = "closed"
    /\ UNCHANGED <<note, engine, book, stream, counts, attributed, relay, caller>>

-----------------------------------------------------------------------------
Request(c) ==
    \/ OfferNote(c)
    \/ RefuseNote(c)
    \/ Wait(c)
    \/ WaitTooLate(c)
    \/ Withdraw(c)
    \/ WithdrawTooLate(c)

Relay ==
    \/ \E c \in Callers : Request(c)
    \/ HandNote
    \/ HoldNote
    \/ AdmitNote
    \/ Withdrawn

WaitStep(c) ==
    \/ WaitAnswered(c)
    \/ WaitExpires(c)
    \/ WaitOvertaken(c)
    \/ WaitReplies(c)

Sink == Probe \/ Look

Ending ==
    \/ SettleIdle
    \/ Drained
    \/ \E c \in Callers : AnswerQueued(c)
    \/ Close

\* The member is over: it may stop here, but for what fairness still asks of it
Quiescent == end = "closed" /\ engine = "over" /\ UNCHANGED vars

Next ==
    \/ \E c \in Callers : Send(c) \/ SendTooLate(c) \/ WaitStep(c)
    \/ \E o \in Offers : TakeNote(o) \/ DisposeOfNote(o) \/ SettleOffer(o) \/ Announce(o)
    \/ Relay
    \/ EngineEnds
    \/ TurnOpens
    \/ Sink
    \/ EndBegins
    \/ Ending
    \/ Quiescent

(* Every thread of the member runs, and a member whose engine answered ends. *)
(* The engine need not answer a note it took, or end.                        *)
Fairness ==
    /\ WF_vars(Relay)
    /\ \A c \in Callers : WF_vars(WaitStep(c))
    /\ \A o \in Offers : WF_vars(SettleOffer(o)) /\ WF_vars(Announce(o))
    /\ WF_vars(Sink)
    /\ WF_vars(engine = "over" /\ EndBegins)
    /\ WF_vars(Ending)

SafeSpec == Init /\ [][Next]_vars
Spec == SafeSpec /\ Fairness

-----------------------------------------------------------------------------
Replies == Dispositions \cup {"none", "admitted", "refused", "taken"}
Requests == [at : {"new", "sent", "waiting", "announcing", "got"},
             kind : Kinds \cup {"none"}, offer : Offers \cup {0}, got : Replies]

TypeOK ==
    /\ note \in [Offers -> {"none", "queued", "taken", "later", "now", "undelivered", "withdrawn"}]
    /\ engine \in {"running", "probing", "looking", "over"}
    /\ custody \in [Offers -> {"absent", "idle", "waited", "settling"}]
    /\ answered \in [Offers -> Dispositions \cup {"none"}]
    /\ unsaid \subseteq Offers
    /\ stream \in [Offers -> Seq(Said)]
    /\ inflight \in Nat
    /\ taken \in Nat
    /\ attributed \in Nat
    /\ relay \in [at : {"idle", "offered", "handed", "held", "withdrawing"}, for : Callers \cup {0}]
    /\ caller \in [Callers -> Requests]
    /\ end \in {"no", "halting", "draining", "closing", "closed"}

\* Where the stream says what became of an offer
Told(o) == {i \in DOMAIN stream[o] : stream[o][i] \in Dispositions}

(* The stream tells of an offer what was written down of it, once, and what  *)
(* is written down is what really became of the note: one a turn took is     *)
(* never answered as expired, withdrawn or undelivered, and one taken back   *)
(* never reaches a turn.                                                     *)
AnswerIsTrue ==
    \A o \in Offers :
        /\ IF answered[o] = "none" \/ o \in unsaid
           THEN Told(o) = {}
           ELSE \E i \in DOMAIN stream[o] : Told(o) = {i} /\ stream[o][i] = answered[o]
        /\ answered[o] \in {"later", "now"} => note[o] = answered[o]
        /\ answered[o] \in {"expired", "withdrawn"} => note[o] = "withdrawn"
        /\ answered[o] = "undelivered" => note[o] \in {"none", "withdrawn", "undelivered"}

(* What the seam promises, seen in the inbox, the ledger, the requests and   *)
(* the member's end.                                                         *)
Fate == [o \in Offers |-> IF note[o] \in {"queued", "taken"} THEN "open" ELSE note[o]]
Heard == [c \in Callers |-> IF caller[c].got \in Said THEN <<caller[c].offer, caller[c].got>> ELSE <<>>]

Over == end \in {"closing", "closed"}

Promise == INSTANCE NotePromise WITH
    fate  <- Fate,
    word  <- answered,
    heard <- Heard,
    over  <- Over

(* Every step of every thread is one NotePromise allows, or none of it: the  *)
(* callers are told what was written down, whoever wrote it down, a note     *)
(* that met its end never meets another, the stream tells it once, and the   *)
(* member is not over while it has nothing to say of a note it knows the end *)
(* of. The answer without a word is of a member ended while its engine was   *)
(* not: a request found in the queue, or a caller that comes after it.       *)
KeepsItsWord == Promise!Spec

InGap == relay.at = "offered"

Later == {o \in Offers : note[o] = "later"}

(* A worker turn being announced is stamped for every note accepted into it  *)
(* and for none it does not carry, but for one the engine took and answered  *)
(* before the relay counted it in.                                           *)
TurnCountsItsNotes ==
    [][engine = "looking" /\ engine' = "running" /\ ~InGap => attributed' = Cardinality(Later)]_vars

(* Nobody hangs: a wait with a deadline is answered by it, unless a turn has *)
(* the note, and a member's end is not held, not by a redirect in flight and *)
(* not by a caller's wait on a note no turn will take.                       *)
NobodyHangs ==
    /\ end = "halting" ~> end = "closed"
    /\ \A c \in Callers :
         caller[c].kind = "until" /\ caller[c].at = "waiting"
            ~> \/ caller[c].at = "got"
               \/ \E o \in Offers : caller[c].offer = o /\ note[o] = "taken"

=============================================================================
