---------------------------- MODULE NotesProofs ----------------------------
(* What becomes of a note is told truly, by the member that relays it, for  *)
(* any number of offers and of callers.                                     *)
EXTENDS NoteRelay, NoteCaller, FiniteSetTheorems, TLAPS

(* The offer the relay has in hand, before its ledger holds it: put in the  *)
(* inbox, and from "handed" on counted in.                                  *)
InHand == {caller[c].offer : c \in {c \in Callers : relay.at \in {"offered", "handed"} /\ relay.for = c}}
Handed == {o \in InHand : relay.at = "handed"}

(* An offer nobody has put in the inbox, and one that is there unheld.      *)
Fresh(o) == note[o] = "none" /\ custody[o] = "absent" /\ answered[o] = "none"
Loose(o) == note[o] # "none" /\ custody[o] = "absent" /\ answered[o] = "none"

Serves(c) == relay.at # "idle" /\ relay.for = c

(* The requests, and the one the relay is serving.                          *)
DeskInOrder ==
    /\ \A c \in Callers : caller[c].at # "new" <=> caller[c].offer \in Offers
    /\ \A c \in Callers : caller[c].got # "none" => caller[c].at # "new"
    /\ \A o \in Offers \ Minted : Fresh(o)
    /\ \A c, d \in Callers :
         caller[c].kind = "offer" /\ caller[d].kind = "offer" /\ caller[c].offer = caller[d].offer
            => c = d
    /\ \A c \in Callers :
         caller[c].at = "sent" /\ caller[c].kind = "offer" /\ ~Serves(c) => Fresh(caller[c].offer)
    /\ relay.at # "idle" => relay.for \in Callers /\ end \in {"no", "halting"}
    /\ \A c \in Callers : Serves(c) =>
         /\ caller[c].at = "sent"
         /\ caller[c].kind = IF relay.at = "withdrawing" THEN "withdraw" ELSE "offer"
         /\ relay.at = "withdrawing" => answered[caller[c].offer] = "withdrawn"
         /\ relay.at \in {"offered", "handed"} => Loose(caller[c].offer)

(* Where each offer is: in hand, held or answered, and told of once it is.  *)
BookInOrder ==
    /\ \A o \in Offers : custody[o] # "absent" => answered[o] = "none" /\ note[o] # "none"
    /\ \A o \in Offers : note[o] # "none" => o \in InHand \/ custody[o] # "absent" \/ answered[o] # "none"
    /\ \A o \in unsaid : answered[o] # "none"
    /\ AnswerIsTrue

(* The two counts are of the offers they say they are of.                   *)
Passing == Handed \cup Held \cup unsaid
TakenIn == {o \in Offers \ unsaid : answered[o] = "later"}

CountsInOrder ==
    /\ IsFiniteSet(Passing) /\ inflight = Cardinality(Passing)
    /\ IsFiniteSet(TakenIn) /\ taken = Cardinality(TakenIn)

RelayInv == TypeOK /\ DeskInOrder /\ BookInOrder /\ CountsInOrder

-----------------------------------------------------------------------------
(* The callers' requests.                                                   *)

(* Requests move on, each at its own place, but for the one being served.   *)
CallersMove ==
    \A d \in Callers :
        \/ caller'[d] = caller[d]
        \/ /\ caller[d].at # "new" /\ ~Serves(d)
           /\ caller'[d].kind = caller[d].kind /\ caller'[d].offer = caller[d].offer
           /\ caller'[d].at \in {"waiting", "announcing", "got"}

(* No offer that waits for its turn to be put in, or to be held, is touched. *)
OffersKept ==
    \A o \in Offers :
        /\ Fresh(o) => Fresh(o)'
        /\ Loose(o) => Loose(o)'
        /\ answered[o] = "withdrawn" => answered'[o] = "withdrawn"

(* What a reply does to the requests.                                       *)
LEMMA ReplyDoes ==
    ASSUME TypeOK, NEW c \in Callers, NEW r \in Replies, Reply(c, r)
    PROVE  /\ caller' \in [Callers -> Requests]
           /\ \A d \in Callers \ {c} : caller'[d] = caller[d]
           /\ caller'[c].at = "got" /\ caller'[c].got = r
           /\ caller'[c].kind = caller[c].kind /\ caller'[c].offer = caller[c].offer
<1>1. caller[c] \in Requests /\ DOMAIN caller = Callers
  BY DEF TypeOK
<1>2. caller' = [caller EXCEPT ![c] = [caller[c] EXCEPT !.at = "got", !.got = r]]
  BY <1>1 DEF Reply, Requests
<1>3. [caller[c] EXCEPT !.at = "got", !.got = r] \in Requests
  BY <1>1 DEF Requests
<1> QED
  BY <1>1, <1>2, <1>3 DEF TypeOK, Requests

(* What a request's going on does to them.                                  *)
LEMMA GoesDoes ==
    ASSUME TypeOK, NEW c \in Callers, NEW p \in {"waiting", "announcing"}, Goes(c, p)
    PROVE  /\ caller' \in [Callers -> Requests]
           /\ \A d \in Callers \ {c} : caller'[d] = caller[d]
           /\ caller'[c].at = p /\ caller'[c].got = caller[c].got
           /\ caller'[c].kind = caller[c].kind /\ caller'[c].offer = caller[c].offer
<1>1. caller[c] \in Requests /\ DOMAIN caller = Callers
  BY DEF TypeOK
<1>2. caller' = [caller EXCEPT ![c] = [caller[c] EXCEPT !.at = p]]
  BY <1>1 DEF Goes, Requests
<1>3. [caller[c] EXCEPT !.at = p] \in Requests
  BY <1>1 DEF Requests
<1> QED
  BY <1>1, <1>2, <1>3 DEF TypeOK, Requests

(* Requests that move on leave the desk in order.                           *)
LEMMA DeskKept ==
    ASSUME TypeOK, DeskInOrder, CallersMove, OffersKept, relay' = relay,
           relay.at # "idle" => end' \in {"no", "halting"}
    PROVE  DeskInOrder' /\ InHand' = InHand /\ Handed' = Handed
<1>1. \A c \in Callers : /\ caller'[c].kind = caller[c].kind /\ caller'[c].offer = caller[c].offer
                         /\ caller'[c].at # "new" <=> caller[c].at # "new"
                         /\ caller'[c].at = "sent" => caller[c].at = "sent"
                         /\ Serves(c)' <=> Serves(c)
                         /\ Serves(c) => caller'[c] = caller[c]
  BY DEF CallersMove, Serves
<1>2. \A c \in Callers : caller[c].at # "new" <=> caller[c].offer \in Offers
  BY DEF DeskInOrder
<1>3. DeskInOrder'
  <2>1. (\A c \in Callers : caller[c].at # "new" <=> caller[c].offer \in Offers)'
    BY <1>1, <1>2
  <2>0. (\A c \in Callers : caller[c].got # "none" => caller[c].at # "new")'
    BY <1>1 DEF DeskInOrder, CallersMove
  <2>6. (\A o \in Offers \ Minted : Fresh(o))'
    <3>1. Minted' = Minted
      BY <1>1 DEF Minted
    <3> QED
      BY <3>1 DEF DeskInOrder, OffersKept
  <2>2. (\A c, d \in Callers :
           caller[c].kind = "offer" /\ caller[d].kind = "offer" /\ caller[c].offer = caller[d].offer
              => c = d)'
    BY <1>1 DEF DeskInOrder
  <2>3. (\A c \in Callers :
           caller[c].at = "sent" /\ caller[c].kind = "offer" /\ ~Serves(c) => Fresh(caller[c].offer))'
    <3> SUFFICES ASSUME NEW c \in Callers, caller'[c].at = "sent", caller'[c].kind = "offer", ~Serves(c)'
                 PROVE  Fresh(caller[c].offer)'
      OBVIOUS
    <3>1. Fresh(caller[c].offer) /\ caller[c].offer \in Offers /\ caller'[c].offer = caller[c].offer
      BY <1>1, <1>2 DEF DeskInOrder
    <3> QED
      BY <3>1 DEF OffersKept, Fresh
  <2>4. (relay.at # "idle" => relay.for \in Callers /\ end \in {"no", "halting"})'
    BY DEF DeskInOrder
  <2>5. (\A c \in Callers : Serves(c) =>
           /\ caller[c].at = "sent"
           /\ caller[c].kind = IF relay.at = "withdrawing" THEN "withdraw" ELSE "offer"
           /\ relay.at = "withdrawing" => answered[caller[c].offer] = "withdrawn"
           /\ relay.at \in {"offered", "handed"} => Loose(caller[c].offer))'
    <3> SUFFICES ASSUME NEW c \in Callers, Serves(c)'
                 PROVE  (/\ caller[c].at = "sent"
                         /\ caller[c].kind = IF relay.at = "withdrawing" THEN "withdraw" ELSE "offer"
                         /\ relay.at = "withdrawing" => answered[caller[c].offer] = "withdrawn"
                         /\ relay.at \in {"offered", "handed"} => Loose(caller[c].offer))'
      OBVIOUS
    <3>1. Serves(c) /\ caller'[c] = caller[c] /\ relay' = relay
      BY <1>1
    <3>2. /\ caller[c].at = "sent"
          /\ caller[c].kind = IF relay.at = "withdrawing" THEN "withdraw" ELSE "offer"
          /\ relay.at = "withdrawing" => answered[caller[c].offer] = "withdrawn"
          /\ relay.at \in {"offered", "handed"} => Loose(caller[c].offer)
      BY <3>1 DEF DeskInOrder
    <3>3. caller[c].offer \in Offers
      BY <1>2, <3>2
    <3> QED
      BY <3>1, <3>2, <3>3 DEF OffersKept, Loose
  <2> QED
    BY <2>0, <2>1, <2>2, <2>3, <2>4, <2>5, <2>6 DEF DeskInOrder
<1>4. InHand' = InHand
  BY <1>1 DEF InHand
<1>5. Handed' = Handed
  BY <1>4 DEF Handed
<1> QED
  BY <1>3, <1>4, <1>5

(* A request arrives: an offer is one nobody has made before.               *)
Arrives(c) ==
    /\ caller[c].at = "new" /\ caller'[c].at # "new"
    /\ \A d \in Callers \ {c} : caller'[d] = caller[d]
    /\ caller'[c].offer \in Offers
    /\ caller'[c].kind = "offer" => caller'[c].offer \notin Minted
    /\ UNCHANGED <<note, book, relay, end>>

LEMMA ArrivalKept ==
    ASSUME TypeOK, DeskInOrder, NEW c \in Callers, Arrives(c)
    PROVE  DeskInOrder' /\ InHand' = InHand /\ Handed' = Handed
<1>1. ~Serves(c) /\ \A d \in Callers : Serves(d)' <=> Serves(d)
  BY DEF DeskInOrder, Arrives, Serves
<1>2. \A o : Fresh(o)' <=> Fresh(o)
  BY DEF Arrives, book, Fresh
<1>3. \A o : Loose(o)' <=> Loose(o)
  BY DEF Arrives, book, Loose
<1>4. \A d \in Callers : caller[d].at # "new" <=> caller[d].offer \in Offers
  BY DEF DeskInOrder
<1>5. DeskInOrder'
  <2>1. (\A d \in Callers : caller[d].at # "new" <=> caller[d].offer \in Offers)'
    BY <1>4 DEF Arrives
  <2>0. (\A d \in Callers : caller[d].got # "none" => caller[d].at # "new")'
    BY DEF DeskInOrder, Arrives
  <2>2. (\A o \in Offers \ Minted : Fresh(o))'
    <3>1. \A o \in Offers : o \in Minted => o \in Minted'
      BY <1>4 DEF Minted, Arrives
    <3> QED
      BY <1>2, <3>1 DEF DeskInOrder
  <2>3. (\A d, e \in Callers :
           caller[d].kind = "offer" /\ caller[e].kind = "offer" /\ caller[d].offer = caller[e].offer
              => d = e)'
    BY DEF DeskInOrder, Arrives, Minted
  <2>4. (\A d \in Callers :
           caller[d].at = "sent" /\ caller[d].kind = "offer" /\ ~Serves(d) => Fresh(caller[d].offer))'
    <3> SUFFICES ASSUME NEW d \in Callers, caller'[d].at = "sent", caller'[d].kind = "offer", ~Serves(d)'
                 PROVE  Fresh(caller'[d].offer)
      BY <1>2 DEF Fresh
    <3> QED
      BY <1>1 DEF DeskInOrder, Arrives
  <2>5. (relay.at # "idle" => relay.for \in Callers /\ end \in {"no", "halting"})'
    BY DEF DeskInOrder, Arrives
  <2>6. (\A d \in Callers : Serves(d) =>
           /\ caller[d].at = "sent"
           /\ caller[d].kind = IF relay.at = "withdrawing" THEN "withdraw" ELSE "offer"
           /\ relay.at = "withdrawing" => answered[caller[d].offer] = "withdrawn"
           /\ relay.at \in {"offered", "handed"} => Loose(caller[d].offer))'
    <3> SUFFICES ASSUME NEW d \in Callers, Serves(d)'
                 PROVE  (/\ caller[d].at = "sent"
                         /\ caller[d].kind = IF relay.at = "withdrawing" THEN "withdraw" ELSE "offer"
                         /\ relay.at = "withdrawing" => answered[caller[d].offer] = "withdrawn"
                         /\ relay.at \in {"offered", "handed"} => Loose(caller[d].offer))'
      OBVIOUS
    <3>1. Serves(d) /\ caller'[d] = caller[d] /\ relay' = relay /\ answered' = answered
      BY <1>1 DEF Arrives, book
    <3> QED
      BY <1>3, <3>1 DEF DeskInOrder
  <2> QED
    BY <2>0, <2>1, <2>2, <2>3, <2>4, <2>5, <2>6 DEF DeskInOrder
<1>6. InHand' = InHand
  BY <1>1 DEF InHand, Arrives, Serves
<1>7. Handed' = Handed
  BY <1>6 DEF Handed, Arrives
<1> QED
  BY <1>5, <1>6, <1>7

(* Every unserved offer but the one that c makes is as it was.              *)
OthersFresh(c) ==
    \A o \in Offers : Fresh(o) /\ ~(caller[c].kind = "offer" /\ caller[c].offer = o) => Fresh(o)'

(* The relay takes up the request of c, or goes on with it.                 *)
LEMMA DeskServing ==
    ASSUME TypeOK, DeskInOrder, NEW c \in Callers,
           relay.at = "idle" \/ relay.for = c, relay'.at # "idle", relay'.for = c,
           caller' = caller, caller[c].at = "sent", end' \in {"no", "halting"},
           caller[c].kind = IF relay'.at = "withdrawing" THEN "withdraw" ELSE "offer",
           relay'.at = "withdrawing" => answered'[caller[c].offer] = "withdrawn",
           relay'.at \in {"offered", "handed"} => Loose(caller[c].offer)',
           OthersFresh(c)
    PROVE  DeskInOrder'
<1>1. \A d \in Callers : /\ Serves(d)' => d = c
                         /\ d # c => ~Serves(d)
  BY DEF Serves
<1>2. Serves(c)'
  BY DEF Serves
<1>3. (\A o \in Offers \ Minted : Fresh(o))'
  <2>1. Minted' = Minted /\ caller[c].offer \in Minted
    BY DEF Minted
  <2> QED
    BY <2>1 DEF DeskInOrder, OthersFresh
<1>4. (\A d \in Callers :
         caller[d].at = "sent" /\ caller[d].kind = "offer" /\ ~Serves(d) => Fresh(caller[d].offer))'
  <2> SUFFICES ASSUME NEW d \in Callers, caller[d].at = "sent", caller[d].kind = "offer", ~Serves(d)'
               PROVE  Fresh(caller[d].offer)'
    OBVIOUS
  <2>1. d # c /\ ~Serves(d)
    BY <1>1, <1>2
  <2>2. Fresh(caller[d].offer) /\ caller[d].offer \in Offers
    BY <2>1 DEF DeskInOrder
  <2>3. ~(caller[c].kind = "offer" /\ caller[c].offer = caller[d].offer)
    BY <2>1 DEF DeskInOrder
  <2>4. \A o \in Offers : o = caller[d].offer => Fresh(o)'
    BY <2>2, <2>3 DEF OthersFresh
  <2> QED
    BY <2>2, <2>4 DEF Fresh
<1>5. (\A d \in Callers : Serves(d) =>
         /\ caller[d].at = "sent"
         /\ caller[d].kind = IF relay.at = "withdrawing" THEN "withdraw" ELSE "offer"
         /\ relay.at = "withdrawing" => answered[caller[d].offer] = "withdrawn"
         /\ relay.at \in {"offered", "handed"} => Loose(caller[d].offer))'
  <2> SUFFICES ASSUME NEW d \in Callers, Serves(d)'
               PROVE  (/\ caller[d].at = "sent"
                       /\ caller[d].kind = IF relay.at = "withdrawing" THEN "withdraw" ELSE "offer"
                       /\ relay.at = "withdrawing" => answered[caller[d].offer] = "withdrawn"
                       /\ relay.at \in {"offered", "handed"} => Loose(caller[d].offer))'
    OBVIOUS
  <2>1. d = c
    BY <1>1
  <2> QED
    BY <2>1
<1>6. (\A d \in Callers : /\ caller[d].at # "new" <=> caller[d].offer \in Offers
                          /\ caller[d].got # "none" => caller[d].at # "new")'
  BY DEF DeskInOrder
<1>7. (\A d, e \in Callers :
         caller[d].kind = "offer" /\ caller[e].kind = "offer" /\ caller[d].offer = caller[e].offer
            => d = e)'
  BY DEF DeskInOrder
<1> QED
  BY <1>3, <1>4, <1>5, <1>6, <1>7 DEF DeskInOrder

(* The relay, or the end of the member, is done with the request of c.      *)
LEMMA DeskReplied ==
    ASSUME TypeOK, DeskInOrder, NEW c \in Callers,
           relay.at = "idle" \/ relay.for = c, relay'.at = "idle",
           caller[c].at # "new", caller'[c].at = "got",
           caller'[c].kind = caller[c].kind, caller'[c].offer = caller[c].offer,
           \A d \in Callers \ {c} : caller'[d] = caller[d],
           OthersFresh(c)
    PROVE  DeskInOrder'
<1>1. \A d \in Callers : /\ ~Serves(d)'
                         /\ d # c => ~Serves(d)
                         /\ caller'[d].kind = caller[d].kind /\ caller'[d].offer = caller[d].offer
                         /\ caller'[d].at # "new" <=> caller[d].at # "new"
  BY DEF Serves
<1>2. (\A o \in Offers \ Minted : Fresh(o))'
  <2>1. Minted' = Minted /\ caller[c].offer \in Minted
    BY <1>1 DEF Minted
  <2> QED
    BY <2>1 DEF DeskInOrder, OthersFresh
<1>3. (\A d \in Callers :
         caller[d].at = "sent" /\ caller[d].kind = "offer" /\ ~Serves(d) => Fresh(caller[d].offer))'
  <2> SUFFICES ASSUME NEW d \in Callers, caller'[d].at = "sent", caller'[d].kind = "offer"
               PROVE  Fresh(caller[d].offer)'
    OBVIOUS
  <2>1. d # c /\ ~Serves(d) /\ caller'[d] = caller[d]
    BY <1>1
  <2>2. Fresh(caller[d].offer) /\ caller[d].offer \in Offers
    BY <2>1 DEF DeskInOrder
  <2>3. ~(caller[c].kind = "offer" /\ caller[c].offer = caller[d].offer)
    BY <2>1 DEF DeskInOrder
  <2>4. \A o \in Offers : o = caller[d].offer => Fresh(o)'
    BY <2>2, <2>3 DEF OthersFresh
  <2> QED
    BY <2>1, <2>2, <2>4 DEF Fresh
<1>4. (\A d \in Callers : /\ caller[d].at # "new" <=> caller[d].offer \in Offers
                          /\ caller[d].got # "none" => caller[d].at # "new")'
  BY <1>1 DEF DeskInOrder
<1>5. (\A d, e \in Callers :
         caller[d].kind = "offer" /\ caller[e].kind = "offer" /\ caller[d].offer = caller[e].offer
            => d = e)'
  BY <1>1 DEF DeskInOrder
<1> QED
  BY <1>1, <1>2, <1>3, <1>4, <1>5 DEF DeskInOrder

-----------------------------------------------------------------------------
(* The ledger, the stream and the counts.                                   *)

(* What is written down of an offer is what became of its note.             *)
TrueOf(o) ==
    /\ answered[o] \in {"later", "now"} => note[o] = answered[o]
    /\ answered[o] \in {"expired", "withdrawn"} => note[o] = "withdrawn"
    /\ answered[o] = "undelivered" => note[o] \in {"none", "withdrawn", "undelivered"}

(* The stream says it, once it is announced.                                *)
ToldOf(o) ==
    IF answered[o] = "none" \/ o \in unsaid
    THEN Told(o) = {}
    ELSE \E i \in DOMAIN stream[o] : Told(o) = {i} /\ stream[o][i] = answered[o]

LEMMA AnswerIsTrueIs == AnswerIsTrue <=> \A o \in Offers : ToldOf(o) /\ TrueOf(o)
BY DEF AnswerIsTrue, ToldOf, TrueOf

(* Where nothing is answered, said or done with a note.                     *)
LEMMA SameAnswers ==
    ASSUME AnswerIsTrue, UNCHANGED <<note, answered, unsaid, stream>>
    PROVE  AnswerIsTrue'
BY DEF AnswerIsTrue, Told

(* The conversation stirs: nothing is answered, held or let go of.          *)
Stirred ==
    /\ UNCHANGED <<answered, unsaid, stream, counts>>
    /\ \A o \in Offers : custody'[o] # "absent" <=> custody[o] # "absent"
    /\ \A o \in Offers : \/ note'[o] = note[o]
                         \/ note[o] \in {"queued", "taken"} /\ note'[o] # "none"

LEMMA StirredKeeps ==
    ASSUME Stirred
    PROVE  OffersKept
BY DEF OffersKept, Stirred, Fresh, Loose

LEMMA StirredKept ==
    ASSUME BookInOrder, CountsInOrder, Stirred, InHand' = InHand, Handed' = Handed
    PROVE  BookInOrder' /\ CountsInOrder'
<1>1. AnswerIsTrue'
  <2>1. \A o \in Offers : ToldOf(o)' <=> ToldOf(o)
    BY DEF ToldOf, Told, Stirred
  <2>2. \A o \in Offers : TrueOf(o) => TrueOf(o)'
    BY DEF TrueOf, Stirred
  <2>3. (\A o \in Offers : ToldOf(o) /\ TrueOf(o))'
    BY <2>1, <2>2, AnswerIsTrueIs DEF BookInOrder
  <2>4. (AnswerIsTrue <=> \A o \in Offers : ToldOf(o) /\ TrueOf(o))'
    BY DEF AnswerIsTrue, ToldOf, TrueOf
  <2> QED
    BY <2>3, <2>4
<1>2. BookInOrder'
  BY <1>1 DEF BookInOrder, Stirred
<1>3. Passing' = Passing /\ TakenIn' = TakenIn
  BY DEF Passing, TakenIn, Held, Stirred
<1>4. CountsInOrder'
  BY <1>3 DEF CountsInOrder, Stirred, counts
<1> QED
  BY <1>2, <1>4

(* Offers that are held are answered, and wait to be announced.             *)
Recorded(S) ==
    /\ UNCHANGED <<stream, counts>>
    /\ unsaid' = unsaid \cup S
    /\ \A o \in S : /\ o \in Offers /\ custody[o] # "absent" /\ custody'[o] = "absent"
                    /\ answered'[o] # "none" /\ TrueOf(o)'
    /\ \A o \in Offers \ S : /\ note'[o] = note[o] /\ custody'[o] = custody[o]
                             /\ answered'[o] = answered[o]

LEMMA RecordedKeeps ==
    ASSUME BookInOrder, NEW S, Recorded(S)
    PROVE  OffersKept
<1>1. \A o \in S : answered[o] = "none" /\ custody[o] # "absent"
  BY DEF BookInOrder, Recorded
<1> QED
  BY <1>1 DEF OffersKept, Recorded, Fresh, Loose

LEMMA RecordedKept ==
    ASSUME TypeOK, BookInOrder, CountsInOrder, NEW S, Recorded(S), InHand' = InHand, Handed' = Handed
    PROVE  BookInOrder' /\ CountsInOrder'
<1>0. \A o \in S : answered[o] = "none" /\ o \in Offers /\ custody[o] # "absent" /\ o \notin unsaid
  BY DEF BookInOrder, Recorded
<1>1. AnswerIsTrue'
  <2>1. \A o \in Offers \ S : ToldOf(o)' <=> ToldOf(o)
    BY DEF ToldOf, Told, Recorded
  <2>2. \A o \in Offers \ S : TrueOf(o)' <=> TrueOf(o)
    BY DEF TrueOf, Recorded
  <2>3. \A o \in S : ToldOf(o)'
    <3>1. \A o \in S : ToldOf(o)
      BY <1>0, AnswerIsTrueIs DEF BookInOrder
    <3> QED
      BY <1>0, <3>1 DEF ToldOf, Told, Recorded
  <2>4. (\A o \in Offers : ToldOf(o) /\ TrueOf(o))'
    BY <2>1, <2>2, <2>3, AnswerIsTrueIs DEF BookInOrder, Recorded
  <2>5. (AnswerIsTrue <=> \A o \in Offers : ToldOf(o) /\ TrueOf(o))'
    BY DEF AnswerIsTrue, ToldOf, TrueOf
  <2> QED
    BY <2>4, <2>5
<1>2. BookInOrder'
  BY <1>0, <1>1 DEF BookInOrder, Recorded, TypeOK
<1>3. Passing' = Passing /\ TakenIn' = TakenIn
  BY <1>0 DEF Passing, TakenIn, Held, Recorded
<1>4. CountsInOrder'
  BY <1>3 DEF CountsInOrder, Recorded, counts
<1> QED
  BY <1>2, <1>4

(* One thing more is said of an offer.                                      *)
LEMMA PublishedSays ==
    ASSUME TypeOK, NEW o \in Offers, NEW event \in Said, Published(o, event)
    PROVE  /\ stream' \in [Offers -> Seq(Said)]
           /\ \A p \in Offers \ {o} : stream'[p] = stream[p]
           /\ \A p \in Offers \ {o} : Told(p)' = Told(p)
           /\ event \notin Dispositions => Told(o)' = Told(o)
           /\ event \notin Dispositions => \A i \in Told(o) : stream'[o][i] = stream[o][i]
           /\ event \in Dispositions /\ Told(o) = {} =>
                \E i \in DOMAIN stream'[o] : Told(o)' = {i} /\ stream'[o][i] = event
<1>1. /\ stream' \in [Offers -> Seq(Said)]
      /\ \A p \in Offers \ {o} : stream'[p] = stream[p]
      /\ stream'[o] = Append(stream[o], event) /\ stream[o] \in Seq(Said)
  BY DEF TypeOK, Published
<1>2. /\ DOMAIN stream'[o] = DOMAIN stream[o] \cup {Len(stream[o]) + 1}
      /\ Len(stream[o]) + 1 \notin DOMAIN stream[o]
      /\ \A i \in DOMAIN stream[o] : stream'[o][i] = stream[o][i]
      /\ stream'[o][Len(stream[o]) + 1] = event
  BY <1>1
<1> QED
  BY <1>1, <1>2 DEF Told

-----------------------------------------------------------------------------
(* The steps.                                                               *)

LEMMA StirStep ==
    ASSUME RelayInv, TypeOK', Stirred, relay' = relay,
           relay.at # "idle" => end' \in {"no", "halting"},
           CallersMove \/ \E c \in Callers : Arrives(c)
    PROVE  RelayInv'
<1>1. DeskInOrder' /\ InHand' = InHand /\ Handed' = Handed
  BY DeskKept, ArrivalKept, StirredKeeps DEF RelayInv
<1> QED
  BY <1>1, StirredKept DEF RelayInv

LEMMA RecordStep ==
    ASSUME RelayInv, TypeOK', NEW S, Recorded(S), CallersMove, relay' = relay, end' = end
    PROVE  RelayInv'
<1>1. OffersKept
  BY RecordedKeeps DEF RelayInv
<1>2. relay.at # "idle" => end' \in {"no", "halting"}
  BY DEF RelayInv, DeskInOrder
<1>3. DeskInOrder' /\ InHand' = InHand /\ Handed' = Handed
  BY <1>1, <1>2, DeskKept DEF RelayInv
<1> QED
  BY <1>3, RecordedKept DEF RelayInv

(* An offer is refused: by a conversation that is over, or by the end.      *)
LEMMA RefusedStep ==
    ASSUME RelayInv, NEW c \in Callers, relay.at = "idle",
           caller[c].at = "sent", caller[c].kind = "offer",
           answered' = [answered EXCEPT ![caller[c].offer] = "undelivered"],
           Published(caller[c].offer, "undelivered"), Reply(c, "undelivered"),
           UNCHANGED <<note, engine, custody, unsaid, counts, attributed, relay, end>>
    PROVE  RelayInv'
<1>o. PICK o : o = caller[c].offer
  OBVIOUS
<1>0. /\ TypeOK /\ DeskInOrder /\ BookInOrder /\ CountsInOrder
      /\ o \in Offers /\ Fresh(o) /\ ~Serves(c)
  BY <1>o DEF RelayInv, DeskInOrder, Serves, Fresh
<1>1. "undelivered" \in Said /\ "undelivered" \in Dispositions /\ "undelivered" \in Replies
  BY DEF Said, Dispositions, Replies
<1>2. /\ stream' \in [Offers -> Seq(Said)]
      /\ \A p \in Offers \ {o} : stream'[p] = stream[p] /\ Told(p)' = Told(p)
      /\ Told(o) = {} =>
           \E i \in DOMAIN stream'[o] : Told(o)' = {i} /\ stream'[o][i] = "undelivered"
  <2>1. TypeOK /\ o \in Offers /\ Published(o, "undelivered")
    BY <1>0, <1>o
  <2> QED
    BY <1>1, <2>1, PublishedSays
<1>3. /\ answered' \in [Offers -> Dispositions \cup {"none"}]
      /\ \A p \in Offers : answered'[p] = IF p = o THEN "undelivered" ELSE answered[p]
  BY <1>0, <1>1, <1>o DEF TypeOK
<1>4. /\ caller' \in [Callers -> Requests]
      /\ \A d \in Callers \ {c} : caller'[d] = caller[d]
      /\ caller'[c].at = "got" /\ caller'[c].kind = caller[c].kind /\ caller'[c].offer = o
  BY <1>0, <1>1, <1>o, ReplyDoes
<1>5. TypeOK'
  BY <1>0, <1>2, <1>3, <1>4 DEF TypeOK, counts
<1>6. OthersFresh(c)
  BY <1>3, <1>o DEF OthersFresh, Fresh
<1>7. DeskInOrder'
  BY <1>0, <1>4, <1>6, <1>o, DeskReplied
<1>8. InHand = {} /\ InHand' = {} /\ Handed = {} /\ Handed' = {}
  BY DEF InHand, Handed
<1>9. o \notin unsaid /\ Told(o) = {}
  <2>1. o \notin unsaid
    BY <1>0 DEF BookInOrder, Fresh
  <2>2. ToldOf(o)
    BY <1>0, AnswerIsTrueIs DEF BookInOrder
  <2> QED
    BY <1>0, <2>1, <2>2 DEF ToldOf, Fresh
<1>10. AnswerIsTrue'
  <2>1. \A p \in Offers : ToldOf(p)'
    <3>1. \A p \in Offers : ToldOf(p)
      BY <1>0, AnswerIsTrueIs DEF BookInOrder
    <3>2. unsaid' = unsaid
      OBVIOUS
    <3>3. ToldOf(o)'
      BY <1>0, <1>2, <1>3, <1>9, <3>2 DEF ToldOf
    <3>4. ASSUME NEW p \in Offers \ {o} PROVE ToldOf(p)'
      <4>1. ToldOf(p) /\ stream'[p] = stream[p] /\ Told(p)' = Told(p) /\ answered'[p] = answered[p]
        BY <1>2, <1>3, <3>1
      <4> QED
        BY <3>2, <4>1 DEF ToldOf
    <3> QED
      BY <3>3, <3>4
  <2>2. \A p \in Offers : TrueOf(p)'
    <3>1. \A p \in Offers : TrueOf(p)
      BY <1>0, AnswerIsTrueIs DEF BookInOrder
    <3> QED
      BY <1>0, <1>3, <3>1 DEF TrueOf, Fresh
  <2>3. (AnswerIsTrue <=> \A p \in Offers : ToldOf(p) /\ TrueOf(p))'
    BY DEF AnswerIsTrue, ToldOf, TrueOf
  <2> QED
    BY <2>1, <2>2, <2>3
<1>11. BookInOrder'
  <2>1. note' = note /\ custody' = custody /\ unsaid' = unsaid
    OBVIOUS
  <2>2. note[o] = "none" /\ custody[o] = "absent"
    BY <1>0 DEF Fresh
  <2>3. unsaid \subseteq Offers
    BY <1>0 DEF TypeOK
  <2> QED
    BY <1>0, <1>3, <1>8, <1>10, <2>1, <2>2, <2>3 DEF BookInOrder
<1>12. Passing' = Passing /\ TakenIn' = TakenIn
  BY <1>0, <1>3, <1>8 DEF Passing, Held, TakenIn, Fresh
<1>13. CountsInOrder'
  BY <1>0, <1>12 DEF CountsInOrder, counts
<1> QED
  BY <1>5, <1>7, <1>11, <1>13 DEF RelayInv

(* The request the relay is busy with.                                      *)
LEMMA BusyWith ==
    ASSUME RelayInv, relay.at # "idle"
    PROVE  \E c \in Callers, o \in Offers :
              /\ relay.for = c /\ caller[c].offer = o /\ caller[c].at = "sent"
              /\ caller[c].kind = IF relay.at = "withdrawing" THEN "withdraw" ELSE "offer"
              /\ relay.at = "withdrawing" => answered[o] = "withdrawn"
              /\ relay.at \in {"offered", "handed"} => Loose(o)
              /\ end \in {"no", "halting"}
              /\ InHand = IF relay.at \in {"offered", "handed"} THEN {o} ELSE {}
<1> DEFINE c == relay.for
<1>1. c \in Callers /\ Serves(c) /\ end \in {"no", "halting"}
  BY DEF RelayInv, DeskInOrder, Serves
<1>2. /\ caller[c].at = "sent"
      /\ caller[c].kind = IF relay.at = "withdrawing" THEN "withdraw" ELSE "offer"
      /\ relay.at = "withdrawing" => answered[caller[c].offer] = "withdrawn"
      /\ relay.at \in {"offered", "handed"} => Loose(caller[c].offer)
  BY <1>1 DEF RelayInv, DeskInOrder
<1>3. caller[c].offer \in Offers
  BY <1>1, <1>2 DEF RelayInv, DeskInOrder
<1>4. InHand = IF relay.at \in {"offered", "handed"} THEN {caller[c].offer} ELSE {}
  BY <1>1 DEF InHand
<1> QED
  BY <1>1, <1>2, <1>3, <1>4

LEMMA OfferStep ==
    ASSUME RelayInv, NEW c \in Callers, OfferNote(c)
    PROVE  RelayInv'
<1>o. PICK o : o = caller[c].offer
  OBVIOUS
<1>0. /\ TypeOK /\ DeskInOrder /\ BookInOrder /\ CountsInOrder
      /\ relay.at = "idle" /\ end = "no" /\ caller[c].at = "sent" /\ caller[c].kind = "offer"
      /\ relay' = [at |-> "offered", for |-> c]
      /\ UNCHANGED <<engine, custody, answered, unsaid, stream, inflight, taken, caller, end>>
  BY DEF OfferNote, Serving, RelayInv, book, counts
<1>1. o \in Offers /\ Fresh(o)
  BY <1>0, <1>o DEF DeskInOrder, Serves, Fresh
<1>2. \A p \in Offers : note'[p] = IF p = o THEN "queued" ELSE note[p]
  BY <1>0, <1>o DEF OfferNote, TypeOK
<1>3. TypeOK'
  BY <1>0, <1>1, <1>o DEF OfferNote, TypeOK
<1>4. OthersFresh(c)
  BY <1>0, <1>2, <1>o DEF OthersFresh, Fresh
<1>5. Loose(caller[c].offer)'
  BY <1>0, <1>1, <1>2, <1>o DEF Loose, Fresh
<1>6. DeskInOrder'
  BY <1>0, <1>4, <1>5, DeskServing
<1>7. InHand = {} /\ InHand' = {o} /\ Handed = {} /\ Handed' = {}
  BY <1>0, <1>o DEF InHand, Handed
<1>8. AnswerIsTrue'
  <2>1. \A p \in Offers : ToldOf(p)' <=> ToldOf(p)
    BY <1>0 DEF ToldOf, Told
  <2>2. \A p \in Offers : TrueOf(p) => TrueOf(p)'
    BY <1>0, <1>1, <1>2 DEF TrueOf, Fresh
  <2>3. (\A p \in Offers : ToldOf(p) /\ TrueOf(p))'
    BY <1>0, <2>1, <2>2, AnswerIsTrueIs DEF BookInOrder
  <2>4. (AnswerIsTrue <=> \A p \in Offers : ToldOf(p) /\ TrueOf(p))'
    BY DEF AnswerIsTrue, ToldOf, TrueOf
  <2> QED
    BY <2>3, <2>4
<1>9. BookInOrder'
  BY <1>0, <1>1, <1>2, <1>7, <1>8 DEF BookInOrder, Fresh
<1>10. Passing' = Passing /\ TakenIn' = TakenIn
  BY <1>0, <1>7 DEF Passing, Held, TakenIn
<1>11. CountsInOrder'
  BY <1>0, <1>10 DEF CountsInOrder
<1> QED
  BY <1>3, <1>6, <1>9, <1>11 DEF RelayInv

LEMMA HandStep ==
    ASSUME RelayInv, HandNote
    PROVE  RelayInv'
<1>0. /\ TypeOK /\ DeskInOrder /\ BookInOrder /\ CountsInOrder
      /\ relay.at = "offered" /\ inflight' = inflight + 1
      /\ UNCHANGED <<note, engine, custody, answered, unsaid, stream, taken, attributed, caller, end>>
  BY DEF HandNote, RelayInv, book
<1>1. PICK c \in Callers, o \in Offers :
              /\ relay.for = c /\ caller[c].offer = o /\ caller[c].at = "sent"
              /\ caller[c].kind = "offer" /\ Loose(o) /\ end \in {"no", "halting"}
              /\ InHand = {o}
  BY <1>0, BusyWith
<1>2. relay' = [at |-> "handed", for |-> c]
  BY <1>0, <1>1 DEF HandNote, TypeOK
<1>3. TypeOK'
  BY <1>0, <1>2 DEF TypeOK
<1>4. OthersFresh(c)
  BY <1>0 DEF OthersFresh, Fresh
<1>5. Loose(caller[c].offer)'
  BY <1>0, <1>1 DEF Loose
<1>6. DeskInOrder'
  BY <1>0, <1>1, <1>2, <1>4, <1>5, DeskServing
<1>7. InHand' = InHand /\ Handed = {} /\ Handed' = {o}
  BY <1>0, <1>1, <1>2 DEF InHand, Handed
<1>8. AnswerIsTrue'
  BY <1>0, SameAnswers DEF BookInOrder
<1>9. BookInOrder'
  BY <1>0, <1>7, <1>8 DEF BookInOrder
<1>10. Passing' = Passing \cup {o} /\ o \notin Passing /\ TakenIn' = TakenIn
  BY <1>0, <1>1, <1>7 DEF Passing, Held, TakenIn, Loose, BookInOrder
<1>11. IsFiniteSet(Passing') /\ inflight' = Cardinality(Passing')
  BY <1>0, <1>10, FS_AddElement DEF CountsInOrder
<1>12. CountsInOrder'
  BY <1>0, <1>10, <1>11 DEF CountsInOrder
<1> QED
  BY <1>3, <1>6, <1>9, <1>12 DEF RelayInv

LEMMA HoldStep ==
    ASSUME RelayInv, HoldNote
    PROVE  RelayInv'
<1>0. /\ TypeOK /\ DeskInOrder /\ BookInOrder /\ CountsInOrder
      /\ relay.at = "handed"
      /\ UNCHANGED <<note, engine, answered, unsaid, stream, inflight, taken, caller, end>>
  BY DEF HoldNote, RelayInv, counts
<1>1. PICK c \in Callers, o \in Offers :
              /\ relay.for = c /\ caller[c].offer = o /\ caller[c].at = "sent"
              /\ caller[c].kind = "offer" /\ Loose(o) /\ end \in {"no", "halting"}
              /\ InHand = {o}
  BY <1>0, BusyWith
<1>2. relay' = [at |-> "held", for |-> c]
  BY <1>0, <1>1 DEF HoldNote, TypeOK
<1>3. \A p \in Offers : custody'[p] = IF p = o THEN "idle" ELSE custody[p]
  BY <1>0, <1>1 DEF HoldNote, TypeOK
<1>4. TypeOK'
  BY <1>0, <1>1, <1>2 DEF HoldNote, TypeOK
<1>5. OthersFresh(c)
  BY <1>0, <1>1, <1>3 DEF OthersFresh, Fresh
<1>6. DeskInOrder'
  BY <1>0, <1>1, <1>2, <1>5, DeskServing
<1>7. InHand' = {} /\ Handed = {o} /\ Handed' = {}
  BY <1>0, <1>1, <1>2 DEF InHand, Handed
<1>8. AnswerIsTrue'
  BY <1>0, SameAnswers DEF BookInOrder
<1>9. BookInOrder'
  BY <1>0, <1>1, <1>3, <1>7, <1>8 DEF BookInOrder, Loose
<1>10. Passing' = Passing /\ TakenIn' = TakenIn
  BY <1>0, <1>1, <1>3, <1>7 DEF Passing, Held, TakenIn, Loose
<1>11. CountsInOrder'
  BY <1>0, <1>10 DEF CountsInOrder
<1> QED
  BY <1>4, <1>6, <1>9, <1>11 DEF RelayInv

LEMMA AdmitStep ==
    ASSUME RelayInv, AdmitNote
    PROVE  RelayInv'
<1>0. /\ TypeOK /\ DeskInOrder /\ BookInOrder /\ CountsInOrder
      /\ relay.at = "held" /\ relay' = AtRest
      /\ UNCHANGED <<note, engine, custody, answered, unsaid, inflight, taken, attributed, end>>
  BY DEF AdmitNote, RelayInv, book, counts
<1>1. PICK c \in Callers, o \in Offers :
              /\ relay.for = c /\ caller[c].offer = o /\ caller[c].at = "sent" /\ InHand = {}
  BY <1>0, BusyWith
<1>2. /\ Published(o, "admitted") /\ Reply(c, "admitted")
      /\ "admitted" \in Said /\ "admitted" \notin Dispositions /\ "admitted" \in Replies
  BY <1>1 DEF AdmitNote, Said, Dispositions, Replies
<1>3. /\ stream' \in [Offers -> Seq(Said)]
      /\ \A p \in Offers \ {o} : stream'[p] = stream[p] /\ Told(p)' = Told(p)
      /\ Told(o)' = Told(o) /\ \A i \in Told(o) : stream'[o][i] = stream[o][i]
  BY <1>0, <1>2, PublishedSays
<1>4. /\ caller' \in [Callers -> Requests]
      /\ \A d \in Callers \ {c} : caller'[d] = caller[d]
      /\ caller'[c].at = "got" /\ caller'[c].kind = caller[c].kind
      /\ caller'[c].offer = caller[c].offer
  BY <1>0, <1>2, ReplyDoes
<1>5. TypeOK'
  BY <1>0, <1>3, <1>4 DEF TypeOK, AtRest
<1>6. OthersFresh(c)
  BY <1>0 DEF OthersFresh, Fresh
<1>7. DeskInOrder'
  BY <1>0, <1>1, <1>4, <1>6, DeskReplied DEF AtRest
<1>8. InHand' = {} /\ Handed = {} /\ Handed' = {}
  BY <1>0 DEF InHand, Handed, AtRest
<1>9. AnswerIsTrue'
  <2>1. ASSUME NEW p \in Offers PROVE ToldOf(p)'
    <3>1. ToldOf(p)
      BY <1>0, AnswerIsTrueIs DEF BookInOrder
    <3>2. \A i \in Told(p) : i \in DOMAIN stream'[p] /\ stream'[p][i] = stream[p][i]
      <4>1. Told(p)' = Told(p)
        BY <1>3
      <4>2. \A i \in Told(p)' : i \in DOMAIN stream'[p]
        BY DEF Told
      <4> QED
        BY <1>3, <4>1, <4>2 DEF Told
    <3>3. Told(p)' = Told(p)
      BY <1>3
    <3> QED
      BY <1>0, <3>1, <3>2, <3>3 DEF ToldOf
  <2>2. \A p \in Offers : TrueOf(p) /\ (TrueOf(p) => TrueOf(p)')
    BY <1>0, AnswerIsTrueIs DEF BookInOrder, TrueOf
  <2>3. (AnswerIsTrue <=> \A p \in Offers : ToldOf(p) /\ TrueOf(p))'
    BY DEF AnswerIsTrue, ToldOf, TrueOf
  <2> QED
    BY <2>1, <2>2, <2>3
<1>10. BookInOrder'
  BY <1>0, <1>1, <1>8, <1>9 DEF BookInOrder
<1>11. Passing' = Passing /\ TakenIn' = TakenIn
  BY <1>0, <1>8 DEF Passing, Held, TakenIn
<1>12. CountsInOrder'
  BY <1>0, <1>11 DEF CountsInOrder
<1> QED
  BY <1>5, <1>7, <1>10, <1>12 DEF RelayInv

LEMMA WithdrawStep ==
    ASSUME RelayInv, NEW c \in Callers, Withdraw(c)
    PROVE  RelayInv'
<1>o. PICK o : o = caller[c].offer
  OBVIOUS
<1>0. /\ TypeOK /\ DeskInOrder /\ BookInOrder /\ CountsInOrder
      /\ relay.at = "idle" /\ end = "no" /\ caller[c].at = "sent" /\ caller[c].kind = "withdraw"
      /\ relay' = [at |-> "withdrawing", for |-> c]
      /\ custody[o] \in {"idle", "waited"} /\ note[o] = "queued"
      /\ note' = [note EXCEPT ![o] = "withdrawn"]
      /\ Record(o, "withdrawn")
      /\ UNCHANGED <<engine, stream, inflight, taken, attributed, caller, end>>
  BY <1>o DEF Withdraw, Serving, RelayInv, counts, Untaken, Handled
<1>1. o \in Offers
  BY <1>0, <1>o DEF DeskInOrder
<1>2. Recorded({o})
  BY <1>0, <1>1 DEF Recorded, Record, counts, TrueOf, TypeOK
<1>3. TypeOK'
  BY <1>0, <1>1 DEF Record, TypeOK, Dispositions
<1>4. OffersKept
  BY <1>0, <1>2, RecordedKeeps
<1>5. OthersFresh(c)
  BY <1>4 DEF OthersFresh, OffersKept
<1>6. answered'[caller[c].offer] = "withdrawn"
  BY <1>0, <1>1, <1>o DEF Record, TypeOK
<1>7. DeskInOrder'
  BY <1>0, <1>5, <1>6, DeskServing
<1>8. InHand' = InHand /\ Handed' = Handed
  BY <1>0 DEF InHand, Handed
<1> QED
  BY <1>0, <1>2, <1>3, <1>7, <1>8, RecordedKept DEF RelayInv

LEMMA WithdrawnStep ==
    ASSUME RelayInv, Withdrawn
    PROVE  RelayInv'
<1>0. /\ TypeOK /\ DeskInOrder /\ BookInOrder /\ CountsInOrder
      /\ relay.at = "withdrawing" /\ relay' = AtRest
      /\ UNCHANGED <<note, engine, custody, answered, unsaid, stream, inflight, taken, attributed, end>>
  BY DEF Withdrawn, RelayInv, book, counts
<1>1. PICK c \in Callers : relay.for = c /\ caller[c].at = "sent" /\ InHand = {}
  BY <1>0, BusyWith
<1>2. Reply(c, "withdrawn") /\ "withdrawn" \in Replies
  BY <1>1 DEF Withdrawn, Dispositions, Replies
<1>3. /\ caller' \in [Callers -> Requests]
      /\ \A d \in Callers \ {c} : caller'[d] = caller[d]
      /\ caller'[c].at = "got" /\ caller'[c].kind = caller[c].kind
      /\ caller'[c].offer = caller[c].offer
  BY <1>0, <1>2, ReplyDoes
<1>4. TypeOK'
  BY <1>0, <1>3 DEF TypeOK, AtRest
<1>5. OthersFresh(c)
  BY <1>0 DEF OthersFresh, Fresh
<1>6. DeskInOrder'
  BY <1>0, <1>1, <1>3, <1>5, DeskReplied DEF AtRest
<1>7. InHand' = {} /\ Handed = {} /\ Handed' = {}
  BY <1>0 DEF InHand, Handed, AtRest
<1>8. AnswerIsTrue'
  BY <1>0, SameAnswers DEF BookInOrder
<1>9. BookInOrder'
  BY <1>0, <1>1, <1>7, <1>8 DEF BookInOrder
<1>10. Passing' = Passing /\ TakenIn' = TakenIn
  BY <1>0, <1>7 DEF Passing, Held, TakenIn
<1>11. CountsInOrder'
  BY <1>0, <1>10 DEF CountsInOrder
<1> QED
  BY <1>4, <1>6, <1>9, <1>11 DEF RelayInv

LEMMA AnnounceStep ==
    ASSUME RelayInv, NEW o \in Offers, Announce(o)
    PROVE  RelayInv'
<1>0. /\ TypeOK /\ DeskInOrder /\ BookInOrder /\ CountsInOrder
      /\ o \in unsaid /\ unsaid' = unsaid \ {o} /\ Published(o, answered[o])
      /\ inflight' = (IF inflight = 0 THEN 0 ELSE inflight - 1)
      /\ taken' = (IF answered[o] = "later" THEN taken + 1 ELSE taken)
      /\ UNCHANGED <<note, engine, custody, answered, attributed, relay, caller, end>>
  BY DEF Announce, CountedAnswer, OpensALaterTurn, RelayInv
<1>1. answered[o] # "none" /\ custody[o] = "absent"
  BY <1>0 DEF BookInOrder
<1>2. answered[o] \in Dispositions /\ answered[o] \in Said
  BY <1>0, <1>1 DEF TypeOK, Said
<1>a. PICK a : a = answered[o]
  OBVIOUS
<1>3. /\ stream' \in [Offers -> Seq(Said)]
      /\ \A p \in Offers \ {o} : stream'[p] = stream[p] /\ Told(p)' = Told(p)
      /\ Told(o) = {} => \E i \in DOMAIN stream'[o] : Told(o)' = {i} /\ stream'[o][i] = a
  <2>1. a \in Said /\ a \in Dispositions /\ Published(o, a) /\ TypeOK
    BY <1>0, <1>2, <1>a
  <2> QED
    BY <2>1, PublishedSays
<1>4. TypeOK'
  <2>1. inflight' \in Nat /\ taken' \in Nat
    BY <1>0 DEF TypeOK
  <2> QED
    BY <1>0, <1>3, <2>1 DEF TypeOK
<1>5. CallersMove /\ OffersKept
  BY <1>0 DEF CallersMove, OffersKept, Fresh, Loose
<1>6. relay.at # "idle" => end' \in {"no", "halting"}
  BY <1>0 DEF DeskInOrder
<1>7. DeskInOrder' /\ InHand' = InHand /\ Handed' = Handed
  BY <1>0, <1>5, <1>6, DeskKept
<1>8. AnswerIsTrue'
  <2>1. ToldOf(o)'
    <3>1. ToldOf(o)
      BY <1>0, AnswerIsTrueIs DEF BookInOrder
    <3>2. Told(o) = {}
      BY <1>0, <3>1 DEF ToldOf
    <3> QED
      BY <1>0, <1>1, <1>3, <1>a, <3>2 DEF ToldOf
  <2>2. ASSUME NEW p \in Offers \ {o} PROVE ToldOf(p)'
    <3>1. /\ ToldOf(p) /\ stream'[p] = stream[p] /\ Told(p)' = Told(p)
          /\ p \in unsaid' <=> p \in unsaid
      BY <1>0, <1>3, AnswerIsTrueIs DEF BookInOrder
    <3> QED
      BY <1>0, <3>1 DEF ToldOf
  <2>3. \A p \in Offers : TrueOf(p) /\ (TrueOf(p) => TrueOf(p)')
    BY <1>0, AnswerIsTrueIs DEF BookInOrder, TrueOf
  <2>4. (AnswerIsTrue <=> \A p \in Offers : ToldOf(p) /\ TrueOf(p))'
    BY DEF AnswerIsTrue, ToldOf, TrueOf
  <2> QED
    BY <2>1, <2>2, <2>3, <2>4
<1>9. BookInOrder'
  BY <1>0, <1>7, <1>8 DEF BookInOrder
<1>10. o \in Passing /\ Passing' = Passing \ {o}
  <2>1. o \notin Handed /\ o \notin Held
    <3>1. o \notin InHand
      <4>1. CASE relay.at \in {"offered", "handed"}
        BY <1>0, <1>1, <4>1, BusyWith DEF Loose
      <4>2. CASE relay.at \notin {"offered", "handed"}
        BY <4>2 DEF InHand
      <4> QED
        BY <4>1, <4>2
    <3> QED
      BY <1>1, <3>1 DEF Handed, Held
  <2> QED
    BY <1>0, <1>7, <2>1 DEF Passing, Held
<1>11. IsFiniteSet(Passing') /\ inflight' = Cardinality(Passing')
  <2>1. Cardinality(Passing') = Cardinality(Passing) - 1 /\ IsFiniteSet(Passing')
    BY <1>0, <1>10, FS_RemoveElement DEF CountsInOrder
  <2>2. Cardinality(Passing) # 0
    BY <1>0, <1>10, FS_EmptySet DEF CountsInOrder
  <2> QED
    BY <1>0, <2>1, <2>2 DEF CountsInOrder
<1>12. IsFiniteSet(TakenIn') /\ taken' = Cardinality(TakenIn')
  <2>1. o \notin TakenIn /\ TakenIn' = IF answered[o] = "later" THEN TakenIn \cup {o} ELSE TakenIn
    BY <1>0 DEF TakenIn
  <2> QED
    BY <1>0, <2>1, FS_AddElement DEF CountsInOrder
<1>13. CountsInOrder'
  BY <1>11, <1>12 DEF CountsInOrder
<1> QED
  BY <1>4, <1>7, <1>9, <1>13 DEF RelayInv

(* The requests: they arrive, are answered, and their waits go on.          *)
LEMMA CallerStep ==
    ASSUME RelayInv, NEW c \in Callers,
           \/ Send(c) \/ SendTooLate(c) \/ Wait(c) \/ WaitTooLate(c)
           \/ WithdrawTooLate(c) \/ WaitOvertaken(c) \/ WaitReplies(c)
    PROVE  RelayInv'
<1>0. TypeOK /\ DeskInOrder /\ BookInOrder
  BY DEF RelayInv
<1> USE NoteRelayAssumption
<1>1. CASE Send(c) \/ SendTooLate(c)
  <2>1. /\ UNCHANGED <<note, engine, book, stream, counts, attributed, relay, end>>
        /\ caller[c].at = "new"
    BY <1>1 DEF Send, SendTooLate, Comes
  <2>2. \E o \in Offers, k \in Kinds, where \in {"sent", "got"}, got \in Replies :
           /\ caller' = [caller EXCEPT ![c] = [at |-> where, kind |-> k, offer |-> o, got |-> got]]
           /\ k = "offer" => o \notin Minted
    <3>1. CASE Send(c)
      <4>1. \E k \in Kinds, o \in Offers :
               /\ caller' = [caller EXCEPT ![c] = [at |-> "sent", kind |-> k, offer |-> o, got |-> "none"]]
               /\ k = "offer" => o \notin Minted
        BY <3>1 DEF Send, Mints
      <4>2. "none" \in Replies
        BY DEF Replies
      <4> QED
        BY <4>1, <4>2
    <3>2. CASE SendTooLate(c)
      <4>1. PICK o \in Admitted :
               caller' = [caller EXCEPT ![c] = [at |-> "got", kind |-> "wait", offer |-> o,
                           got |-> IF answered[o] = "none" THEN "undelivered" ELSE answered[o]]]
        BY <3>2 DEF SendTooLate
      <4>2. o \in Offers
        <5>1. PICK d \in Callers : caller[d].got = "admitted" /\ caller[d].offer = o
          BY DEF Admitted
        <5>2. caller[d].offer \in Offers
          BY <1>0, <5>1 DEF DeskInOrder
        <5> QED
          BY <5>1, <5>2
      <4>3. (IF answered[o] = "none" THEN "undelivered" ELSE answered[o]) \in Replies
        BY <1>0, <4>2 DEF TypeOK, Replies, Dispositions
      <4>4. "wait" \in Kinds
        BY DEF Kinds
      <4> QED
        BY <4>1, <4>2, <4>3, <4>4
    <3> QED
      BY <1>1, <3>1, <3>2
  <2>3. caller' \in [Callers -> Requests]
    BY <1>0, <2>2 DEF TypeOK, Requests
  <2>4. TypeOK'
    BY <1>0, <2>1, <2>3 DEF TypeOK, book, counts
  <2>5. Stirred
    BY <2>1 DEF Stirred, book
  <2>6. Arrives(c)
    BY <1>0, <2>1, <2>2 DEF Arrives, TypeOK
  <2>7. relay' = relay /\ (relay.at # "idle" => end' \in {"no", "halting"})
    BY <1>0, <2>1 DEF DeskInOrder
  <2> QED
    BY <2>4, <2>5, <2>6, <2>7, StirStep
<1>2. CASE Wait(c) \/ WaitTooLate(c) \/ WithdrawTooLate(c) \/ WaitOvertaken(c) \/ WaitReplies(c)
  <2>1. /\ UNCHANGED <<note, engine, answered, unsaid, stream, counts, attributed, relay, end>>
        /\ custody' = custody \/ Wait(c)
    BY <1>2 DEF Wait, WaitTooLate, WithdrawTooLate, WaitOvertaken, WaitReplies, book
  <2>2. caller[c].at # "new" /\ ~Serves(c)
    BY <1>0, <1>2 DEF DeskInOrder, Serves, Wait, WaitTooLate, WithdrawTooLate, WaitOvertaken,
                      WaitReplies, Serving, Looking
  <2>3. caller[c].offer \in Offers
    BY <1>0, <2>2 DEF DeskInOrder
  <2>4. Goes(c, "waiting") \/ \E r \in Replies : Reply(c, r)
    <3>1. answered[caller[c].offer] \in Replies
      BY <1>0, <2>3 DEF TypeOK, Replies
    <3>2. "refused" \in Replies /\ "taken" \in Replies
      BY DEF Replies
    <3>3. CASE Wait(c)
      BY <3>2, <3>3 DEF Wait
    <3>4. CASE WaitTooLate(c)
      BY <3>1, <3>2, <3>4 DEF WaitTooLate
    <3>5. CASE WithdrawTooLate(c) \/ WaitOvertaken(c) \/ WaitReplies(c)
      BY <3>1, <3>2, <3>5 DEF WithdrawTooLate, WaitOvertaken, WaitReplies
    <3> QED
      BY <1>2, <3>3, <3>4, <3>5
  <2>5. /\ caller' \in [Callers -> Requests]
        /\ \A d \in Callers \ {c} : caller'[d] = caller[d]
        /\ caller'[c].at \in {"waiting", "got"}
        /\ caller'[c].kind = caller[c].kind /\ caller'[c].offer = caller[c].offer
    BY <1>0, <2>4, ReplyDoes, GoesDoes
  <2>6. CallersMove
    BY <2>2, <2>5 DEF CallersMove
  <2>7. /\ custody' \in [Offers -> {"absent", "idle", "waited", "settling"}]
        /\ \A o \in Offers : custody'[o] # "absent" <=> custody[o] # "absent"
    BY <1>0, <2>1, <2>3 DEF TypeOK, Wait
  <2>8. TypeOK'
    BY <1>0, <2>1, <2>5, <2>7 DEF TypeOK, counts
  <2>9. Stirred
    BY <2>1, <2>7 DEF Stirred
  <2>10. relay' = relay /\ (relay.at # "idle" => end' \in {"no", "halting"})
    BY <1>0, <2>1 DEF DeskInOrder
  <2> QED
    BY <2>6, <2>8, <2>9, <2>10, StirStep
<1> QED
  BY <1>1, <1>2

(* The conversation, the sink's looks and the member's end.                 *)
LEMMA ConversationStep ==
    ASSUME RelayInv,
           \/ \E o \in Offers : TakeNote(o) \/ DisposeOfNote(o)
           \/ EngineEnds \/ TurnOpens \/ Look
           \/ EndBegins \/ SettleIdle \/ Drained \/ Close \/ UNCHANGED vars
    PROVE  RelayInv'
<1>0. TypeOK /\ DeskInOrder
  BY DEF RelayInv
<1>1. UNCHANGED <<answered, unsaid, stream, counts, relay, caller>>
  BY DEF TakeNote, DisposeOfNote, EngineEnds, TurnOpens, Look, EndBegins, SettleIdle, Drained,
         Close, vars, book
<1>2. /\ note' \in [Offers -> {"none", "queued", "taken", "later", "now", "undelivered", "withdrawn"}]
      /\ \A o \in Offers : \/ note'[o] = note[o]
                           \/ note[o] \in {"queued", "taken"} /\ note'[o] # "none"
  <2>1. CASE note' = note
    BY <1>0, <2>1 DEF TypeOK
  <2>2. CASE EngineEnds
    BY <1>0, <2>2 DEF EngineEnds, TypeOK
  <2>3. ASSUME NEW o \in Offers, TakeNote(o) \/ DisposeOfNote(o)
        PROVE  /\ note[o] \in {"queued", "taken"}
               /\ \E what \in {"taken", "later", "now", "withdrawn", "queued"} :
                     note' = [note EXCEPT ![o] = what]
    BY <2>3 DEF TakeNote, DisposeOfNote
  <2>4. CASE \E o \in Offers : TakeNote(o) \/ DisposeOfNote(o)
    <3>1. PICK o \in Offers : TakeNote(o) \/ DisposeOfNote(o)
      BY <2>4
    <3>2. PICK what \in {"taken", "later", "now", "withdrawn", "queued"} :
             note' = [note EXCEPT ![o] = what]
      BY <2>3, <3>1
    <3>3. note[o] \in {"queued", "taken"}
      BY <2>3, <3>1
    <3> QED
      BY <1>0, <3>2, <3>3 DEF TypeOK
  <2> QED
    BY <2>1, <2>2, <2>4 DEF TurnOpens, Look, EndBegins, SettleIdle, Drained, Close, vars
<1>3. /\ custody' \in [Offers -> {"absent", "idle", "waited", "settling"}]
      /\ \A o \in Offers : custody'[o] # "absent" <=> custody[o] # "absent"
  <2>1. CASE custody' = custody
    BY <1>0, <2>1 DEF TypeOK
  <2>2. CASE SettleIdle
    BY <1>0, <2>2 DEF SettleIdle, Idle, TypeOK
  <2> QED
    BY <2>1, <2>2 DEF TakeNote, DisposeOfNote, EngineEnds, TurnOpens, Look, EndBegins, Drained,
                      Close, vars, book
<1>4. engine' \in {"running", "probing", "looking", "over"} /\ attributed' \in Nat
  BY <1>0 DEF TypeOK, TakeNote, DisposeOfNote, EngineEnds, TurnOpens, Look, EndBegins, SettleIdle,
              Drained, Close, vars
<1>5. /\ end' \in {"no", "halting", "draining", "closing", "closed"}
      /\ relay.at # "idle" => end' \in {"no", "halting"}
  BY <1>0 DEF TypeOK, DeskInOrder, TakeNote, DisposeOfNote, EngineEnds, TurnOpens, Look, EndBegins,
              SettleIdle, Drained, Close, vars
<1>6. TypeOK'
  BY <1>0, <1>1, <1>2, <1>3, <1>4, <1>5 DEF TypeOK, counts
<1>7. Stirred
  BY <1>1, <1>2, <1>3 DEF Stirred
<1>8. CallersMove /\ relay' = relay
  BY <1>1 DEF CallersMove
<1> QED
  BY <1>5, <1>6, <1>7, <1>8, StirStep

(* What is written down: by a wait, by its deadline, by a turn that is      *)
(* announced and by the member's end.                                       *)
LEMMA RecordingStep ==
    ASSUME RelayInv,
           \/ \E c \in Callers : WaitAnswered(c) \/ WaitExpires(c)
           \/ \E o \in Offers : SettleOffer(o)
           \/ Probe
    PROVE  RelayInv'
<1>0. TypeOK /\ DeskInOrder /\ BookInOrder
  BY DEF RelayInv
<1>1. ASSUME NEW c \in Callers, WaitAnswered(c) \/ WaitExpires(c) PROVE RelayInv'
  <2>o. PICK o : o = caller[c].offer
    OBVIOUS
  <2>1. /\ UNCHANGED <<engine, stream, counts, attributed, relay, end>>
        /\ caller[c].at = "waiting" /\ custody[o] \in {"idle", "waited"}
        /\ Goes(c, "announcing")
        /\ \/ Record(o, note[o]) /\ note[o] \in {"later", "now", "undelivered"} /\ note' = note
           \/ Record(o, "expired") /\ note' = [note EXCEPT ![o] = "withdrawn"]
    BY <1>1, <2>o DEF WaitAnswered, WaitExpires, Looking, Handled, Answered, Untaken
  <2>2. o \in Offers /\ ~Serves(c)
    BY <1>0, <2>1, <2>o DEF DeskInOrder, Serves
  <2>3. /\ caller' \in [Callers -> Requests]
        /\ \A d \in Callers \ {c} : caller'[d] = caller[d]
        /\ caller'[c].at = "announcing"
        /\ caller'[c].kind = caller[c].kind /\ caller'[c].offer = caller[c].offer
    BY <1>0, <2>1, GoesDoes
  <2>4. CallersMove
    BY <2>1, <2>2, <2>3 DEF CallersMove
  <2>5. Recorded({o})
    BY <1>0, <2>1, <2>2 DEF Recorded, Record, TrueOf, TypeOK
  <2>7. /\ note' \in [Offers -> {"none", "queued", "taken", "later", "now", "undelivered", "withdrawn"}]
        /\ custody' \in [Offers -> {"absent", "idle", "waited", "settling"}]
        /\ answered' \in [Offers -> Dispositions \cup {"none"}]
        /\ unsaid' \subseteq Offers
    <3>1. PICK d \in Dispositions : Record(o, d)
      BY <2>1 DEF Dispositions
    <3>2. note' = note \/ note' = [note EXCEPT ![o] = "withdrawn"]
      BY <2>1
    <3>3. note' \in [Offers -> {"none", "queued", "taken", "later", "now", "undelivered", "withdrawn"}]
      BY <1>0, <2>2, <3>2 DEF TypeOK
    <3> QED
      BY <1>0, <2>2, <3>1, <3>3 DEF Record, TypeOK
  <2>6. TypeOK'
    BY <1>0, <2>1, <2>3, <2>7 DEF TypeOK, counts
  <2> QED
    BY <2>1, <2>4, <2>5, <2>6, RecordStep
<1>2. ASSUME NEW o \in Offers, SettleOffer(o) PROVE RelayInv'
  <2>1. /\ UNCHANGED <<engine, stream, counts, attributed, relay, caller, end>>
        /\ custody[o] = "settling"
        /\ \/ Record(o, note[o]) /\ note[o] \in {"later", "now", "undelivered"}
              /\ note' = [note EXCEPT ![o] = note[o]]
           \/ Record(o, "undelivered") /\ note' = [note EXCEPT ![o] = "withdrawn"]
    BY <1>2 DEF SettleOffer, Outcome, Answered, Refusal
  <2>2. CallersMove
    BY <2>1 DEF CallersMove
  <2>3. Recorded({o})
    BY <1>0, <2>1 DEF Recorded, Record, TrueOf, TypeOK
  <2>5. /\ note' \in [Offers -> {"none", "queued", "taken", "later", "now", "undelivered", "withdrawn"}]
        /\ custody' \in [Offers -> {"absent", "idle", "waited", "settling"}]
        /\ answered' \in [Offers -> Dispositions \cup {"none"}]
        /\ unsaid' \subseteq Offers
    <3>1. CASE Record(o, "undelivered") /\ note' = [note EXCEPT ![o] = "withdrawn"]
      BY <1>0, <3>1 DEF Record, TypeOK, Dispositions
    <3>2. CASE Record(o, note[o]) /\ note[o] \in {"later", "now", "undelivered"}
               /\ note' = [note EXCEPT ![o] = note[o]]
      BY <1>0, <3>2 DEF Record, TypeOK, Dispositions
    <3> QED
      BY <2>1, <3>1, <3>2
  <2>4. TypeOK'
    BY <1>0, <2>1, <2>5 DEF TypeOK, counts
  <2> QED
    BY <2>1, <2>2, <2>3, <2>4, RecordStep
<1>3. CASE Probe
  <2> DEFINE found == {o \in Offers : Handled(o) /\ Answered(o)}
  <2>S. PICK S : S = found
    OBVIOUS
  <2>1. /\ UNCHANGED <<note, stream, counts, attributed, relay, caller, end>> /\ engine' = "looking"
        /\ custody' = [o \in Offers |-> IF o \in S THEN "absent" ELSE custody[o]]
        /\ answered' = [o \in Offers |-> IF o \in S THEN note[o] ELSE answered[o]]
        /\ unsaid' = unsaid \cup S
    BY <1>3, <2>S DEF Probe
  <2>2. \A o \in S : /\ o \in Offers /\ custody[o] # "absent"
                    /\ note[o] \in {"later", "now", "undelivered"}
    BY <2>S DEF Handled, Answered
  <2> HIDE DEF found
  <2>3. CallersMove
    BY <2>1 DEF CallersMove
  <2>4. Recorded(S)
    BY <2>1, <2>2 DEF Recorded, TrueOf
  <2>5. TypeOK'
    BY <1>0, <2>1, <2>2 DEF TypeOK, Dispositions, counts
  <2> QED
    BY <2>1, <2>3, <2>4, <2>5, RecordStep
<1> QED
  BY <1>1, <1>2, <1>3

LEMMA RelayInvStep ==
    ASSUME RelayInv, [Next]_vars
    PROVE  RelayInv'
<1>1. ASSUME NEW c \in Callers, Send(c) \/ SendTooLate(c) \/ WaitStep(c) PROVE RelayInv'
  BY <1>1, CallerStep, RecordingStep DEF WaitStep
<1>2. ASSUME NEW o \in Offers, TakeNote(o) \/ DisposeOfNote(o) \/ SettleOffer(o) \/ Announce(o)
      PROVE  RelayInv'
  BY <1>2, ConversationStep, RecordingStep, AnnounceStep
<1>3. ASSUME NEW c \in Callers, Request(c) PROVE RelayInv'
  <2>1. CASE RefuseNote(c)
    <3>1. /\ relay.at = "idle" /\ caller[c].at = "sent" /\ caller[c].kind = "offer"
          /\ answered' = [answered EXCEPT ![caller[c].offer] = "undelivered"]
          /\ Published(caller[c].offer, "undelivered") /\ Reply(c, "undelivered")
          /\ UNCHANGED <<note, engine, custody, unsaid, counts, attributed, relay, end>>
      BY <2>1 DEF RefuseNote, Serving
    <3> QED
      BY <3>1, RefusedStep
  <2> QED
    BY <1>3, <2>1, OfferStep, WithdrawStep, CallerStep DEF Request
<1>4. CASE HandNote \/ HoldNote \/ AdmitNote \/ Withdrawn
  BY <1>4, HandStep, HoldStep, AdmitStep, WithdrawnStep
<1>5. ASSUME NEW c \in Callers, AnswerQueued(c) PROVE RelayInv'
  <2>1. relay.at = "idle" /\ ~Serves(c) /\ TypeOK /\ DeskInOrder /\ caller[c].at = "sent"
    BY <1>5 DEF AnswerQueued, RelayInv, DeskInOrder, Serves
  <2>2. CASE caller[c].kind = "offer"
    <3>1. /\ answered' = [answered EXCEPT ![caller[c].offer] = "undelivered"]
          /\ Published(caller[c].offer, "undelivered") /\ Reply(c, "undelivered")
          /\ UNCHANGED <<note, engine, custody, unsaid, counts, attributed, relay, end>>
      BY <1>5, <2>2 DEF AnswerQueued, Refusal
    <3> QED
      BY <2>1, <2>2, <3>1, RefusedStep
  <2>3. CASE caller[c].kind # "offer"
    <3>1. /\ UNCHANGED <<note, engine, custody, answered, unsaid, stream, counts, attributed, relay, end>>
          /\ \E r \in Dispositions \cup {"taken"} : Reply(c, r)
      <4>1. answered[caller[c].offer] \in Dispositions \cup {"none"}
        BY <2>1 DEF DeskInOrder, TypeOK
      <4> QED
        BY <1>5, <2>3, <4>1 DEF AnswerQueued, Refusal, Dispositions
    <3>2. /\ caller' \in [Callers -> Requests]
          /\ \A d \in Callers \ {c} : caller'[d] = caller[d]
          /\ caller'[c].at = "got"
          /\ caller'[c].kind = caller[c].kind /\ caller'[c].offer = caller[c].offer
      BY <2>1, <3>1, ReplyDoes DEF Replies
    <3>3. CallersMove
      BY <2>1, <3>2 DEF CallersMove
    <3>4. TypeOK'
      BY <2>1, <3>1, <3>2 DEF TypeOK, counts
    <3>5. Stirred
      BY <3>1 DEF Stirred
    <3> QED
      BY <2>1, <3>1, <3>3, <3>4, <3>5, StirStep
  <2> QED
    BY <2>2, <2>3
<1>6. CASE EngineEnds \/ TurnOpens \/ Look \/ EndBegins \/ SettleIdle \/ Drained \/ Close
  BY <1>6, ConversationStep
<1>7. CASE Probe
  BY <1>7, RecordingStep
<1>8. CASE UNCHANGED vars \/ Quiescent
  BY <1>8, ConversationStep DEF Quiescent
<1> QED
  BY <1>1, <1>2, <1>3, <1>4, <1>5, <1>6, <1>7, <1>8 DEF Next, Relay, Sink, Ending

LEMMA RelayInvInit ==
    ASSUME Init
    PROVE  RelayInv
<1>1. TypeOK
  BY DEF Init, TypeOK, AtRest, Requests, Replies, Dispositions
<1>2. DeskInOrder
  BY NoteRelayAssumption DEF Init, DeskInOrder, AtRest, Fresh, Serves
<1>3. InHand = {} /\ Handed = {} /\ Held = {}
  BY DEF Init, InHand, Handed, Held, AtRest
<1>4. AnswerIsTrue
  BY DEF Init, AnswerIsTrue, Told
<1>5. BookInOrder
  BY <1>4 DEF Init, BookInOrder
<1>6. Passing = {} /\ TakenIn = {}
  BY <1>3 DEF Init, Passing, TakenIn
<1>7. CountsInOrder
  BY <1>6, FS_EmptySet DEF Init, CountsInOrder
<1> QED
  BY <1>1, <1>2, <1>5, <1>7 DEF RelayInv

(* Every offer, request and count is where the ledger says it is, in every  *)
(* state of every member.                                                   *)
THEOREM RelayInvHolds == SafeSpec => []RelayInv
<1>1. Init => RelayInv
  BY RelayInvInit
<1>2. RelayInv /\ [Next]_vars => RelayInv'
  BY RelayInvStep
<1> QED
  BY <1>1, <1>2, PTL DEF SafeSpec

-----------------------------------------------------------------------------
(* The properties.                                                          *)

(* The stream tells of an offer what was written down of it, once, and what *)
(* is written down is what became of the note, for any number of offers and *)
(* of callers.                                                              *)
THEOREM AnswerIsTrueHolds == SafeSpec => []AnswerIsTrue
<1>1. RelayInv => AnswerIsTrue
  BY DEF RelayInv, BookInOrder
<1> QED
  BY <1>1, RelayInvHolds, PTL

(* The count a worker turn is announced with is of the notes accepted into  *)
(* it, unless the relay has one in hand that it has not counted in.         *)
THEOREM TurnCountsItsNotesHolds == SafeSpec => TurnCountsItsNotes
<1>1. RelayInv /\ [Next]_vars
        => [engine = "looking" /\ engine' = "running" /\ ~InGap
              => attributed' = Cardinality(Later)]_vars
  <2> SUFFICES ASSUME RelayInv, Next, engine = "looking", engine' = "running", ~InGap
               PROVE  attributed' = Cardinality(Later)
    OBVIOUS
  <2>0. TypeOK /\ DeskInOrder /\ BookInOrder /\ CountsInOrder /\ AnswerIsTrue
    BY DEF RelayInv, BookInOrder
  <2>1. Look
    BY DEF Next, Send, SendTooLate, WaitStep, WaitAnswered, WaitExpires, WaitOvertaken, WaitReplies,
           TakeNote, DisposeOfNote, SettleOffer, Announce, Relay, Request, OfferNote, RefuseNote,
           Wait, WaitTooLate, Withdraw, WithdrawTooLate, HandNote, HoldNote, AdmitNote, Withdrawn,
           EngineEnds, TurnOpens, Sink, Probe, EndBegins, Ending, SettleIdle, Drained, AnswerQueued,
           Close, Quiescent, vars
  <2>2. attributed' = taken /\ (inflight = 0 \/ OnlyUnanswered)
    BY <2>1 DEF Look
  <2>3. \A o \in unsaid : inflight # 0 /\ ~OnlyUnanswered
    BY <2>0, FS_EmptySet DEF CountsInOrder, Passing, OnlyUnanswered
  <2>4. \A o \in Held : inflight = 0 => FALSE
    BY <2>0, FS_EmptySet DEF CountsInOrder, Passing
  <2>5. \A o \in InHand : note[o] # "later"
    <3>1. SUFFICES ASSUME NEW o \in InHand PROVE note[o] # "later"
      OBVIOUS
    <3>2. relay.at = "handed" /\ o = caller[relay.for].offer /\ o \in Handed
      BY <2>0 DEF InHand, Handed, InGap
    <3>3. inflight # 0
      BY <2>0, <3>2, FS_EmptySet DEF CountsInOrder, Passing
    <3> QED
      BY <2>2, <3>2, <3>3 DEF OnlyUnanswered, Answered
  <2>6. \A o \in Held : note[o] # "later"
    BY <2>2, <2>4 DEF OnlyUnanswered, Answered
  <2>7. ASSUME NEW o \in Offers PROVE note[o] = "later" <=> (o \notin unsaid /\ answered[o] = "later")
    <3>1. note[o] = "later" => answered[o] # "none" /\ o \notin unsaid
      BY <2>0, <2>2, <2>3, <2>5, <2>6 DEF BookInOrder, Held
    <3>2. note[o] = "later" => answered[o] = "later"
      BY <2>0, <3>1 DEF AnswerIsTrue, TypeOK, Dispositions
    <3> QED
      BY <2>0, <3>1, <3>2 DEF AnswerIsTrue
  <2>8. Later = TakenIn
    BY <2>7 DEF Later, TakenIn
  <2> QED
    BY <2>0, <2>2, <2>8 DEF CountsInOrder
<1> QED
  BY <1>1, RelayInvHolds, PTL DEF SafeSpec, TurnCountsItsNotes

-----------------------------------------------------------------------------
(* The promise of the seam, kept step by step.                              *)

(* A request that has an answer has had it, and only who offers is told that *)
(* a note is in.                                                            *)
GotInOrder ==
    \A c \in Callers : /\ caller[c].got # "none" => caller[c].at = "got"
                       /\ caller[c].got = "admitted" => caller[c].kind = "offer"

(* A note is back out of the inbox with the word of it, unless the member's *)
(* end is still to give it.                                                 *)
BackInOrder ==
    \A o \in Offers : note[o] = "withdrawn" => answered[o] # "none" \/ custody[o] = "settling"

(* The note the relay is about to answer as admitted is in.                 *)
HeldIsIn ==
    \A c \in Callers : relay.at = "held" /\ relay.for = c => note[caller[c].offer] # "none"

PromiseInv == RelayInv /\ GotInOrder /\ BackInOrder /\ HeldIsIn

(* Every answer, to whom it is given.                                       *)
LEMMA GotKept ==
    ASSUME RelayInv, GotInOrder, [Next]_vars
    PROVE  GotInOrder'
<1>0. /\ TypeOK /\ DeskInOrder /\ Dispositions \cup {"none"} \subseteq Replies
      /\ {"admitted", "refused", "taken"} \subseteq Replies
      /\ "admitted" \notin Dispositions \cup {"none"}
  BY DEF RelayInv, Replies, Dispositions
<1>1. ASSUME caller' = caller PROVE GotInOrder'
  BY <1>1 DEF GotInOrder
<1>2. ASSUME NEW d \in Callers, NEW r \in Replies, Reply(d, r), r = "admitted" => caller[d].kind = "offer"
      PROVE  GotInOrder'
  <2>1. /\ \A e \in Callers \ {d} : caller'[e] = caller[e]
        /\ caller'[d].at = "got" /\ caller'[d].got = r /\ caller'[d].kind = caller[d].kind
    BY <1>0, <1>2, ReplyDoes
  <2> QED
    BY <1>2, <2>1 DEF GotInOrder
<1>3. ASSUME NEW d \in Callers, NEW p \in {"waiting", "announcing"}, Goes(d, p), caller[d].at # "got"
      PROVE  GotInOrder'
  <2>1. /\ \A e \in Callers \ {d} : caller'[e] = caller[e]
        /\ caller'[d].got = caller[d].got
    BY <1>0, <1>3, GoesDoes
  <2>2. caller[d].got = "none"
    BY <1>3 DEF GotInOrder
  <2> QED
    BY <2>1, <2>2 DEF GotInOrder
<1>4. ASSUME NEW d \in Callers, Send(d) PROVE GotInOrder'
  <2>1. PICK k \in Kinds, o \in Offers :
           caller' = [caller EXCEPT ![d] = [at |-> "sent", kind |-> k, offer |-> o, got |-> "none"]]
    BY <1>4 DEF Send
  <2>2. caller'[d].got = "none" /\ \A e \in Callers \ {d} : caller'[e] = caller[e]
    BY <1>0, <2>1 DEF TypeOK
  <2> QED
    BY <2>2 DEF GotInOrder
<1>5. ASSUME NEW d \in Callers, SendTooLate(d) PROVE GotInOrder'
  <2>1. PICK o \in Admitted :
           caller' = [caller EXCEPT ![d] = [at |-> "got", kind |-> "wait", offer |-> o,
                       got |-> IF answered[o] = "none" THEN "undelivered" ELSE answered[o]]]
    BY <1>5 DEF SendTooLate
  <2>2. o \in Offers
    BY <1>0 DEF Admitted, DeskInOrder
  <2>3. answered[o] \in Dispositions \cup {"none"}
    BY <1>0, <2>2 DEF TypeOK
  <2>4. PICK r \in Dispositions :
           caller' = [caller EXCEPT ![d] = [at |-> "got", kind |-> "wait", offer |-> o, got |-> r]]
    <3>1. (IF answered[o] = "none" THEN "undelivered" ELSE answered[o]) \in Dispositions
      BY <2>3 DEF Dispositions
    <3> QED
      BY <2>1, <3>1
  <2>5. /\ caller'[d].at = "got" /\ caller'[d].got = r
        /\ \A e \in Callers \ {d} : caller'[e] = caller[e]
    BY <1>0, <2>4 DEF TypeOK
  <2> QED
    BY <1>0, <2>5 DEF GotInOrder
<1>6. \A d \in Callers : caller[d].at # "new" =>
         answered[caller[d].offer] \in Replies /\ answered[caller[d].offer] # "admitted"
  BY <1>0 DEF DeskInOrder, TypeOK
<1>7. ASSUME NEW d \in Callers, WaitStep(d) PROVE GotInOrder'
  <2>1. CASE WaitAnswered(d) \/ WaitExpires(d)
    BY <1>3, <2>1 DEF WaitAnswered, WaitExpires, Looking
  <2>2. CASE WaitOvertaken(d) \/ WaitReplies(d)
    <3>1. Reply(d, answered[caller[d].offer]) /\ caller[d].at # "new"
      BY <2>2 DEF WaitOvertaken, WaitReplies, Looking
    <3> QED
      BY <1>2, <1>6, <3>1
  <2> QED
    BY <1>7, <2>1, <2>2 DEF WaitStep
<1>8. ASSUME NEW d \in Callers, Request(d) PROVE GotInOrder'
  <2>0. caller[d].at = "sent"
    BY <1>8 DEF Request, OfferNote, RefuseNote, Wait, WaitTooLate, Withdraw, WithdrawTooLate, Serving
  <2>1. CASE OfferNote(d) \/ Withdraw(d)
    BY <1>1, <2>1 DEF OfferNote, Withdraw
  <2>2. CASE RefuseNote(d)
    <3>1. Reply(d, "undelivered") /\ "undelivered" \in Replies
      BY <2>2 DEF RefuseNote, Replies, Dispositions
    <3> QED
      BY <1>2, <3>1
  <2>3. CASE Wait(d)
    <3>1. Reply(d, "refused") \/ Goes(d, "waiting")
      BY <2>3 DEF Wait
    <3> QED
      BY <1>0, <1>2, <1>3, <2>0, <3>1
  <2>4. CASE WaitTooLate(d)
    <3>1. Reply(d, "refused") \/ Reply(d, answered[caller[d].offer])
      BY <2>4 DEF WaitTooLate
    <3> QED
      BY <1>0, <1>2, <1>6, <2>0, <3>1
  <2>5. CASE WithdrawTooLate(d)
    <3>1. Reply(d, "taken")
      BY <2>5 DEF WithdrawTooLate
    <3> QED
      BY <1>0, <1>2, <3>1
  <2> QED
    BY <1>8, <2>1, <2>2, <2>3, <2>4, <2>5 DEF Request
<1>9. CASE AdmitNote
  <2>1. PICK d \in Callers : relay.for = d /\ caller[d].kind = "offer"
    BY <1>9, BusyWith DEF AdmitNote
  <2>2. Reply(d, "admitted")
    BY <1>9, <2>1 DEF AdmitNote
  <2> QED
    BY <1>0, <1>2, <2>1, <2>2
<1>10. CASE Withdrawn
  <2>1. PICK d \in Callers : relay.for = d
    BY <1>10, BusyWith DEF Withdrawn
  <2>2. Reply(d, "withdrawn") /\ "withdrawn" \in Replies
    BY <1>10, <2>1 DEF Withdrawn, Replies, Dispositions
  <2> QED
    BY <1>2, <2>2
<1>11. ASSUME NEW d \in Callers, AnswerQueued(d) PROVE GotInOrder'
  <2>0. caller[d].at # "new" /\ "undelivered" \in Replies
    BY <1>11 DEF AnswerQueued, Replies, Dispositions
  <2>1. \/ Reply(d, "undelivered") \/ Reply(d, "taken")
        \/ Reply(d, answered[caller[d].offer])
    BY <1>11 DEF AnswerQueued, Refusal
  <2> QED
    BY <1>0, <1>2, <1>6, <2>0, <2>1
<1>12. ASSUME NEW o \in Offers, TakeNote(o) \/ DisposeOfNote(o) \/ SettleOffer(o) \/ Announce(o)
       PROVE  GotInOrder'
  <2>1. caller' = caller
    BY <1>12 DEF TakeNote, DisposeOfNote, SettleOffer, Announce
  <2> QED
    BY <1>1, <2>1
<1>13. CASE \/ HandNote \/ HoldNote \/ EngineEnds \/ TurnOpens \/ Sink \/ EndBegins
            \/ SettleIdle \/ Drained \/ Close \/ Quiescent \/ UNCHANGED vars
  <2>1. caller' = caller
    BY <1>13 DEF HandNote, HoldNote, EngineEnds, TurnOpens, Sink, Probe, Look, EndBegins,
                 SettleIdle, Drained, Close, Quiescent, vars
  <2> QED
    BY <1>1, <2>1
<1> QED
  BY <1>4, <1>5, <1>7, <1>8, <1>9, <1>10, <1>11, <1>12, <1>13 DEF Next, Relay, Ending

(* Every way a note is taken back.                                          *)
LEMMA BackKept ==
    ASSUME RelayInv, BackInOrder, [Next]_vars
    PROVE  BackInOrder'
<1>0. TypeOK /\ DeskInOrder /\ BookInOrder
  BY DEF RelayInv
<1>1. ASSUME \A o \in Offers : /\ note'[o] = "withdrawn" => note[o] = "withdrawn" \/ answered'[o] # "none"
                                                           \/ custody'[o] = "settling"
                               /\ note[o] = "withdrawn" /\ answered[o] # "none" => answered'[o] # "none"
                               /\ note[o] = "withdrawn" /\ custody[o] = "settling"
                                    => custody'[o] = "settling" \/ answered'[o] # "none"
      PROVE  BackInOrder'
  BY <1>1 DEF BackInOrder
<1>2. ASSUME UNCHANGED <<note, custody, answered>> PROVE BackInOrder'
  BY <1>2 DEF BackInOrder
<1>3. ASSUME NEW o \in Offers, NEW r \in Dispositions, Record(o, r),
             \A p \in Offers \ {o} : note'[p] = note[p]
      PROVE  BackInOrder'
  <2>1. /\ answered'[o] # "none" /\ \A p \in Offers \ {o} : answered'[p] = answered[p]
        /\ \A p \in Offers \ {o} : custody'[p] = custody[p]
    BY <1>0, <1>3 DEF Record, TypeOK, Dispositions
  <2> QED
    BY <1>3, <2>1 DEF BackInOrder
<1>4. ASSUME NEW d \in Callers PROVE Send(d) \/ SendTooLate(d) => BackInOrder'
  BY <1>2 DEF Send, SendTooLate, book
<1>5. ASSUME NEW d \in Callers, WaitStep(d) PROVE BackInOrder'
  <2>0. WaitAnswered(d) \/ WaitExpires(d) => caller[d].offer \in Offers
    BY <1>0 DEF WaitAnswered, WaitExpires, Looking, DeskInOrder
  <2>1. CASE WaitAnswered(d)
    <3>1. PICK o \in Offers : o = caller[d].offer
      BY <2>0, <2>1
    <3>2. note[o] \in Dispositions
      BY <2>1, <3>1 DEF WaitAnswered, Answered, Dispositions
    <3> QED
      BY <1>3, <2>1, <3>1, <3>2 DEF WaitAnswered
  <2>2. CASE WaitExpires(d)
    <3>1. PICK o \in Offers : o = caller[d].offer
      BY <2>0, <2>2
    <3>2. "expired" \in Dispositions /\ \A p \in Offers \ {o} : note'[p] = note[p]
      BY <1>0, <2>2, <3>1 DEF WaitExpires, Dispositions, TypeOK
    <3> QED
      BY <1>3, <2>2, <3>1, <3>2 DEF WaitExpires
  <2>3. CASE WaitOvertaken(d) \/ WaitReplies(d)
    BY <1>2, <2>3 DEF WaitOvertaken, WaitReplies, book
  <2> QED
    BY <1>5, <2>1, <2>2, <2>3 DEF WaitStep
<1>6. ASSUME NEW o \in Offers, SettleOffer(o) PROVE BackInOrder'
  <2>1. Outcome(o) \in Dispositions
    BY DEF Outcome, Answered, Refusal, Dispositions
  <2>2. \A p \in Offers \ {o} : note'[p] = note[p]
    BY <1>0, <1>6 DEF SettleOffer, TypeOK
  <2> QED
    BY <1>3, <1>6, <2>1, <2>2 DEF SettleOffer
<1>7. ASSUME NEW o \in Offers, TakeNote(o) \/ DisposeOfNote(o) \/ Announce(o) PROVE BackInOrder'
  BY <1>0, <1>7 DEF TakeNote, DisposeOfNote, Announce, BackInOrder, TypeOK, book
<1>8. ASSUME NEW d \in Callers, Request(d) PROVE BackInOrder'
  <2>0. caller[d].offer \in Offers /\ caller[d].at = "sent"
    BY <1>0, <1>8 DEF Request, OfferNote, RefuseNote, Wait, WaitTooLate, Withdraw, WithdrawTooLate,
                      Serving, DeskInOrder
  <2>1. CASE OfferNote(d)
    BY <1>0, <2>0, <2>1 DEF OfferNote, BackInOrder, TypeOK, book
  <2>2. CASE RefuseNote(d)
    BY <1>0, <2>0, <2>2 DEF RefuseNote, BackInOrder, TypeOK
  <2>3. CASE Wait(d)
    <3>1. /\ note' = note /\ answered' = answered
          /\ custody' = [custody EXCEPT ![caller[d].offer] = IF @ = "idle" THEN "waited" ELSE @]
      BY <2>3 DEF Wait
    <3>2. \A o \in Offers : custody[o] = "settling" => custody'[o] = "settling"
      BY <1>0, <2>0, <3>1 DEF TypeOK
    <3> QED
      BY <3>1, <3>2 DEF BackInOrder
  <2>4. CASE Withdraw(d)
    <3>1. PICK o \in Offers : o = caller[d].offer
      BY <2>0
    <3>2. "withdrawn" \in Dispositions /\ \A p \in Offers \ {o} : note'[p] = note[p]
      BY <1>0, <2>4, <3>1 DEF Withdraw, Dispositions, TypeOK
    <3> QED
      BY <1>3, <2>4, <3>1, <3>2 DEF Withdraw
  <2>5. CASE WaitTooLate(d) \/ WithdrawTooLate(d)
    BY <1>2, <2>5 DEF WaitTooLate, WithdrawTooLate, book
  <2> QED
    BY <1>8, <2>1, <2>2, <2>3, <2>4, <2>5 DEF Request
<1>9. CASE HoldNote
  <2>1. PICK o \in Offers : relay.for \in Callers /\ caller[relay.for].offer = o /\ Loose(o)
    BY <1>9, BusyWith DEF HoldNote
  <2>2. note[o] # "withdrawn"
    BY <2>1 DEF Loose, BackInOrder
  <2>3. note' = note /\ answered' = answered /\ \A p \in Offers \ {o} : custody'[p] = custody[p]
    BY <1>0, <1>9, <2>1 DEF HoldNote, TypeOK
  <2> QED
    BY <2>2, <2>3 DEF BackInOrder
<1>10. CASE EngineEnds
  <2>1. /\ UNCHANGED <<custody, answered>>
        /\ \A o \in Offers : note'[o] = "withdrawn" => note[o] = "withdrawn"
    BY <1>10 DEF EngineEnds, book
  <2> QED
    BY <2>1 DEF BackInOrder
<1>11. CASE Probe
  <2>1. PICK found : found = {o \in Offers : Handled(o) /\ Answered(o)}
    OBVIOUS
  <2>2. \A o \in found : note[o] # "withdrawn"
    BY <2>1 DEF Answered
  <2>3. /\ note' = note
        /\ \A o \in Offers \ found : custody'[o] = custody[o] /\ answered'[o] = answered[o]
    BY <1>11, <2>1 DEF Probe
  <2> QED
    BY <2>2, <2>3 DEF BackInOrder
<1>12. CASE SettleIdle
  <2>1. /\ UNCHANGED <<note, answered>>
        /\ \A o \in Offers : custody[o] = "settling" => custody'[o] = "settling"
    BY <1>12 DEF SettleIdle
  <2> QED
    BY <2>1 DEF BackInOrder
<1>13. ASSUME NEW d \in Callers, AnswerQueued(d) PROVE BackInOrder'
  <2>1. UNCHANGED <<note, custody>>
    BY <1>13 DEF AnswerQueued
  <2>2. \A o \in Offers : answered[o] # "none" => answered'[o] # "none"
    <3>1. \/ answered' = answered
          \/ answered' = [answered EXCEPT ![caller[d].offer] = "undelivered"]
      BY <1>13 DEF AnswerQueued, Refusal
    <3> QED
      BY <1>0, <3>1 DEF TypeOK
  <2> QED
    BY <2>1, <2>2 DEF BackInOrder
<1>14. CASE \/ HandNote \/ AdmitNote \/ Withdrawn \/ TurnOpens \/ Look \/ EndBegins
            \/ Drained \/ Close \/ Quiescent \/ UNCHANGED vars
  <2>1. UNCHANGED <<note, custody, answered>>
    BY <1>14 DEF HandNote, AdmitNote, Withdrawn, TurnOpens, Look, EndBegins, Drained, Close,
                 Quiescent, vars, book
  <2> QED
    BY <1>2, <2>1
<1> QED
  BY <1>4, <1>5, <1>6, <1>7, <1>8, <1>9, <1>10, <1>11, <1>12, <1>13, <1>14
  DEF Next, Relay, Sink, Ending

(* A note that is in stays in the book of what became of it.                *)
LEMMA NotesStay ==
    ASSUME TypeOK, [Next]_vars, NEW o \in Offers, note[o] # "none"
    PROVE  note'[o] # "none"
<1>1. ASSUME note' = note PROVE note'[o] # "none"
  BY <1>1
<1>2. ASSUME NEW p \in Offers, NEW what, what # "none", note' = [note EXCEPT ![p] = what]
      PROVE  note'[o] # "none"
  BY <1>2 DEF TypeOK
<1>3. ASSUME NEW d \in Callers, NEW what, what # "none", note' = [note EXCEPT ![caller[d].offer] = what]
      PROVE  note'[o] # "none"
  BY <1>3 DEF TypeOK
<1>4. ASSUME NEW d \in Callers, Send(d) \/ SendTooLate(d) \/ WaitStep(d) PROVE note'[o] # "none"
  <2>1. CASE WaitExpires(d)
    BY <1>3, <2>1 DEF WaitExpires
  <2>2. CASE Send(d) \/ SendTooLate(d) \/ WaitAnswered(d) \/ WaitOvertaken(d) \/ WaitReplies(d)
    BY <1>1, <2>2 DEF Send, SendTooLate, WaitAnswered, WaitOvertaken, WaitReplies
  <2> QED
    BY <1>4, <2>1, <2>2 DEF WaitStep
<1>5. ASSUME NEW d \in Callers, Request(d) PROVE note'[o] # "none"
  <2>1. CASE OfferNote(d) \/ Withdraw(d)
    BY <1>3, <2>1 DEF OfferNote, Withdraw
  <2>2. CASE RefuseNote(d) \/ Wait(d) \/ WaitTooLate(d) \/ WithdrawTooLate(d)
    BY <1>1, <2>2 DEF RefuseNote, Wait, WaitTooLate, WithdrawTooLate
  <2> QED
    BY <1>5, <2>1, <2>2 DEF Request
<1>6. ASSUME NEW p \in Offers, TakeNote(p) \/ DisposeOfNote(p) \/ SettleOffer(p) \/ Announce(p)
      PROVE  note'[o] # "none"
  <2>1. CASE TakeNote(p)
    BY <1>2, <2>1 DEF TakeNote
  <2>2. CASE DisposeOfNote(p)
    BY <1>2, <2>2 DEF DisposeOfNote
  <2>3. CASE SettleOffer(p)
    BY <2>3 DEF SettleOffer, TypeOK
  <2>4. CASE Announce(p)
    BY <1>1, <2>4 DEF Announce
  <2> QED
    BY <1>6, <2>1, <2>2, <2>3, <2>4
<1>7. CASE EngineEnds
  BY <1>7 DEF EngineEnds
<1>8. CASE \/ HandNote \/ HoldNote \/ AdmitNote \/ Withdrawn \/ TurnOpens \/ Sink \/ EndBegins
           \/ Ending \/ Quiescent \/ UNCHANGED vars
  <2>1. note' = note
    BY <1>8 DEF HandNote, HoldNote, AdmitNote, Withdrawn, TurnOpens, Sink, Probe, Look, EndBegins,
                Ending, SettleIdle, Drained, AnswerQueued, Close, Quiescent, vars
  <2> QED
    BY <1>1, <2>1
<1> QED
  BY <1>4, <1>5, <1>6, <1>7, <1>8 DEF Next, Relay

(* A request stays the one it is, of the offer it is of.                    *)
LEMMA RequestsStay ==
    ASSUME TypeOK, [Next]_vars, NEW c \in Callers, caller[c].at = "sent"
    PROVE  caller'[c].offer = caller[c].offer
<1>0. DOMAIN caller = Callers /\ caller[c] \in Requests
  BY DEF TypeOK
<1>1. ASSUME caller' = caller PROVE caller'[c].offer = caller[c].offer
  BY <1>1
<1>2. ASSUME NEW d \in Callers \cup {0}, NEW r, Reply(d, r) PROVE caller'[c].offer = caller[c].offer
  BY <1>0, <1>2 DEF Reply, Requests
<1>3. ASSUME NEW d \in Callers, NEW p, Goes(d, p) PROVE caller'[c].offer = caller[c].offer
  BY <1>0, <1>3 DEF Goes, Requests
<1>4. ASSUME NEW d \in Callers, Send(d) \/ SendTooLate(d) PROVE caller'[c].offer = caller[c].offer
  <2>1. d # c
    BY <1>4 DEF Send, SendTooLate, Comes
  <2> QED
    BY <1>0, <1>4, <2>1 DEF Send, SendTooLate
<1>5. ASSUME NEW d \in Callers, WaitStep(d) \/ Request(d) \/ AnswerQueued(d)
      PROVE  caller'[c].offer = caller[c].offer
  <2>1. \/ caller' = caller
        \/ Reply(d, "undelivered") \/ Reply(d, "refused") \/ Reply(d, "taken")
        \/ Reply(d, answered[caller[d].offer])
        \/ Goes(d, "waiting") \/ Goes(d, "announcing")
    BY <1>5 DEF WaitStep, WaitAnswered, WaitExpires, WaitOvertaken, WaitReplies, Request, OfferNote,
                RefuseNote, Wait, WaitTooLate, Withdraw, WithdrawTooLate, AnswerQueued, Refusal
  <2> QED
    BY <1>1, <1>2, <1>3, <2>1
<1>6. CASE AdmitNote \/ Withdrawn
  <2>1. relay.for \in Callers \cup {0}
    BY DEF TypeOK
  <2> QED
    BY <1>2, <1>6, <2>1 DEF AdmitNote, Withdrawn
<1>7. ASSUME NEW o \in Offers, TakeNote(o) \/ DisposeOfNote(o) \/ SettleOffer(o) \/ Announce(o)
      PROVE  caller'[c].offer = caller[c].offer
  <2>1. caller' = caller
    BY <1>7 DEF TakeNote, DisposeOfNote, SettleOffer, Announce
  <2> QED
    BY <1>1, <2>1
<1>8. CASE \/ HandNote \/ HoldNote \/ EngineEnds \/ TurnOpens \/ Sink \/ EndBegins
           \/ SettleIdle \/ Drained \/ Close \/ Quiescent \/ UNCHANGED vars
  <2>1. caller' = caller
    BY <1>8 DEF HandNote, HoldNote, EngineEnds, TurnOpens, Sink, Probe, Look, EndBegins,
                SettleIdle, Drained, Close, Quiescent, vars
  <2> QED
    BY <1>1, <2>1
<1> QED
  BY <1>4, <1>5, <1>6, <1>7, <1>8 DEF Next, Relay, Ending

(* The relay's hold of a note is what it holds it with.                     *)
LEMMA HoldsAre ==
    ASSUME TypeOK, [Next]_vars
    PROVE  HoldNote \/ relay' = relay \/ relay'.at # "held"
<1>0. relay \in [at : {"idle", "offered", "handed", "held", "withdrawing"}, for : Callers \cup {0}]
  BY DEF TypeOK
<1>1. ASSUME NEW d \in Callers, Send(d) \/ SendTooLate(d) \/ WaitStep(d) \/ AnswerQueued(d)
      PROVE  relay' = relay
  BY <1>1 DEF Send, SendTooLate, WaitStep, WaitAnswered, WaitExpires, WaitOvertaken, WaitReplies, AnswerQueued
<1>2. ASSUME NEW d \in Callers, Request(d) PROVE relay' = relay \/ relay'.at # "held"
  BY <1>2 DEF Request, OfferNote, RefuseNote, Wait, WaitTooLate, Withdraw, WithdrawTooLate
<1>3. ASSUME NEW o \in Offers, TakeNote(o) \/ DisposeOfNote(o) \/ SettleOffer(o) \/ Announce(o)
      PROVE  relay' = relay
  BY <1>3 DEF TakeNote, DisposeOfNote, SettleOffer, Announce
<1>4. CASE HandNote \/ AdmitNote \/ Withdrawn
  BY <1>0, <1>4 DEF HandNote, AdmitNote, Withdrawn, AtRest
<1>5. CASE \/ EngineEnds \/ TurnOpens \/ Sink \/ EndBegins
           \/ SettleIdle \/ Drained \/ Close \/ Quiescent \/ UNCHANGED vars
  BY <1>5 DEF EngineEnds, TurnOpens, Sink, Probe, Look, EndBegins,
              SettleIdle, Drained, Close, Quiescent, vars
<1> QED
  BY <1>1, <1>2, <1>3, <1>4, <1>5 DEF Next, Relay, Ending

(* The relay holds a note it put in the inbox.                              *)
LEMMA HeldKept ==
    ASSUME RelayInv, HeldIsIn, [Next]_vars
    PROVE  HeldIsIn'
<1>0. TypeOK /\ DeskInOrder
  BY DEF RelayInv
<1> SUFFICES ASSUME NEW c \in Callers, relay'.at = "held", relay'.for = c
             PROVE  note'[caller'[c].offer] # "none"
  BY DEF HeldIsIn
<1>1. ASSUME relay.for = c, relay.at # "idle", note[caller[c].offer] # "none"
      PROVE  note'[caller'[c].offer] # "none"
  <2>1. caller[c].at = "sent" /\ caller[c].offer \in Offers
    BY <1>0, <1>1 DEF DeskInOrder, Serves
  <2> QED
    BY <1>0, <1>1, <2>1, NotesStay, RequestsStay
<1>2. CASE HoldNote
  <2>1. relay.for = c /\ relay.at = "handed"
    BY <1>0, <1>2 DEF HoldNote, TypeOK
  <2>2. note[caller[c].offer] # "none"
    BY <1>0, <2>1 DEF DeskInOrder, Serves, Loose
  <2> QED
    BY <1>1, <2>1, <2>2
<1>3. CASE relay' = relay
  <2>1. relay.for = c /\ relay.at = "held" /\ note[caller[c].offer] # "none"
    BY <1>3 DEF HeldIsIn
  <2> QED
    BY <1>1, <2>1
<1> QED
  BY <1>0, <1>2, <1>3, HoldsAre

(* The conjuncts hold of every run.                                         *)
LEMMA PromiseInvHolds == SafeSpec => []PromiseInv
<1>1. Init => GotInOrder /\ BackInOrder /\ HeldIsIn
  BY DEF Init, GotInOrder, BackInOrder, HeldIsIn, AtRest
<1>2. RelayInv /\ GotInOrder /\ BackInOrder /\ HeldIsIn /\ [Next]_vars
        => GotInOrder' /\ BackInOrder' /\ HeldIsIn'
  BY GotKept, BackKept, HeldKept
<1> QED
  BY <1>1, <1>2, RelayInvHolds, PTL DEF SafeSpec, PromiseInv

(* What a request's reply is to the promise.                                *)
LEMMA HeardReplies ==
    ASSUME RelayInv, GotInOrder, NEW d \in Callers, NEW r \in Replies, Reply(d, r), caller[d].at # "got"
    PROVE  /\ Heard[d] = <<>>
           /\ r \in Said => Heard' = [Heard EXCEPT ![d] = <<caller[d].offer, r>>]
           /\ r \notin Said => Heard' = Heard
<1>1. TypeOK /\ caller[d].got = "none" /\ "none" \notin Said
  BY DEF RelayInv, GotInOrder, Said, Dispositions
<1>2. /\ \A e \in Callers \ {d} : caller'[e] = caller[e]
      /\ caller'[d].got = r /\ caller'[d].offer = caller[d].offer
  BY <1>1, ReplyDoes
<1>3. Heard[d] = <<>>
  BY <1>1 DEF Heard
<1>4. DOMAIN Heard = Callers /\ DOMAIN Heard' = Callers
  BY DEF Heard
<1>5. \A e \in Callers \ {d} : Heard'[e] = Heard[e]
  BY <1>2 DEF Heard
<1>6. Heard'[d] = IF r \in Said THEN <<caller[d].offer, r>> ELSE <<>>
  BY <1>2 DEF Heard
<1>7. /\ Heard = [c \in Callers |-> Heard[c]] /\ Heard' = [c \in Callers |-> Heard'[c]]
  BY DEF Heard
<1>8. r \in Said => Heard' = [Heard EXCEPT ![d] = <<caller[d].offer, r>>]
  BY <1>4, <1>5, <1>6, <1>7, Zenon
<1>9. r \notin Said => Heard' = Heard
  BY <1>3, <1>5, <1>6, <1>7, Zenon
<1> QED
  BY <1>3, <1>8, <1>9

(* ... and its going on, nothing.                                           *)
LEMMA HeardGoes ==
    ASSUME RelayInv, NEW d \in Callers, NEW p \in {"waiting", "announcing"}, Goes(d, p)
    PROVE  Heard' = Heard
<1>1. TypeOK
  BY DEF RelayInv
<1>2. \A e \in Callers : caller'[e].got = caller[e].got /\ caller'[e].offer = caller[e].offer
  BY <1>1, GoesDoes
<1> QED
  BY <1>2 DEF Heard

(* What is left alone is left alone in the promise.                         *)
LEMMA FateSame ==
    ASSUME UNCHANGED note
    PROVE  UNCHANGED Fate
BY DEF Fate

LEMMA HeardSame ==
    ASSUME UNCHANGED caller
    PROVE  UNCHANGED Heard
BY DEF Heard

LEMMA OverSame ==
    ASSUME UNCHANGED end
    PROVE  UNCHANGED Over
BY DEF Over

(* An answer that was written down, or that of an end that has none. *)
LEMMA AnswersAre ==
    ASSUME RelayInv, GotInOrder, NEW d \in Callers, caller[d].offer \in Offers,
           UNCHANGED <<note, answered, stream, end>>, caller[d].at # "got",
           NEW r \in Dispositions, Reply(d, r),
           \/ r = answered[caller[d].offer]
           \/ r = "undelivered" /\ answered[caller[d].offer] = "none" /\ Over
    PROVE  Promise!Next
<1>1. PICK o \in Offers : o = caller[d].offer
  OBVIOUS
<1>2. r \in Said /\ r \in Replies /\ r # "none"
  BY DEF Said, Replies, Dispositions
<1>3. Heard[d] = <<>> /\ Heard' = [Heard EXCEPT ![d] = <<o, r>>]
  BY <1>1, <1>2, HeardReplies
<1>4. Promise!Hears(d, o, r)
  BY <1>3 DEF Promise!Hears
<1>5. Promise!Answers(d, o)
  BY <1>1, <1>2, <1>4, FateSame, OverSame DEF Promise!Answers
<1> QED
  BY <1>1, <1>5 DEF Promise!Next

(* A note that is written down as taken back. *)
LEMMA TakesBackAre ==
    ASSUME RelayInv, NEW o \in Offers, NEW why \in {"withdrawn", "expired", "undelivered"}, Record(o, why),
           custody[o] # "absent", note[o] \in {"queued", "taken", "withdrawn"},
           note' = [note EXCEPT ![o] = "withdrawn"], UNCHANGED <<stream, end>>, Heard' = Heard
    PROVE  Promise!Next
<1>0. TypeOK /\ answered[o] = "none"
  BY DEF RelayInv, BookInOrder
<1>1. Fate' = [Fate EXCEPT ![o] = "withdrawn"]
  <2>1. DOMAIN note = Offers
    BY <1>0 DEF TypeOK
  <2>2. Fate'[o] = "withdrawn"
    BY <2>1 DEF Fate
  <2>3. \A p \in Offers \ {o} : Fate'[p] = Fate[p]
    BY <2>1 DEF Fate
  <2>4. Fate = [p \in Offers |-> Fate[p]] /\ Fate' = [p \in Offers |-> Fate'[p]]
    BY DEF Fate
  <2> QED
    BY <2>2, <2>3, <2>4, Zenon
<1>2. Fate[o] \in {"open", "withdrawn"}
  BY DEF Fate
<1>3. answered' = [answered EXCEPT ![o] = why]
  BY DEF Record
<1>4. Promise!TakesBack(o, why)
  BY <1>0, <1>1, <1>2, <1>3, OverSame DEF Promise!TakesBack
<1> QED
  BY <1>4 DEF Promise!Next

(* Notes that are written down as the end they met. *)
LEMMA SettlesAre ==
    ASSUME RelayInv, NEW S \in SUBSET Offers,
           \A o \in S : custody[o] # "absent" /\ Answered(o),
           answered' = [o \in Offers |-> IF o \in S THEN note[o] ELSE answered[o]],
           UNCHANGED <<note, stream, end>>, Heard' = Heard
    PROVE  Promise!Next
<1>0. \A o \in S : answered[o] = "none"
  BY DEF RelayInv, BookInOrder
<1>1. \A o \in S : Fate[o] = note[o] /\ note[o] \in {"later", "now", "undelivered"}
  BY DEF Fate, Answered
<1>2. answered' = [o \in Offers |-> IF o \in S THEN Fate[o] ELSE answered[o]]
  BY <1>1
<1>3. Promise!Settles(S)
  BY <1>0, <1>1, <1>2, FateSame, OverSame DEF Promise!Settles, Promise!Ends
<1> QED
  BY <1>3 DEF Promise!Next

(* A reply that reads what is written down, if anything is. *)
LEMMA WordOrNone ==
    ASSUME RelayInv, GotInOrder, NEW d \in Callers, caller[d].offer \in Offers, caller[d].at # "got",
           UNCHANGED <<note, answered, stream, end>>, Reply(d, answered[caller[d].offer])
    PROVE  Promise!Next \/ UNCHANGED Promise!vars
<1>1. PICK r : r = answered[caller[d].offer]
  OBVIOUS
<1>2. r \in Dispositions \cup {"none"}
  BY <1>1 DEF RelayInv, TypeOK
<1>3. CASE r \in Dispositions
  BY <1>1, <1>3, AnswersAre
<1>4. CASE r = "none"
  <2>1. r \in Replies /\ r \notin Said
    BY <1>4 DEF Replies, Said, Dispositions
  <2>2. Heard' = Heard
    BY <1>1, <2>1, HeardReplies
  <2> QED
    BY <2>2, FateSame, OverSame DEF Promise!vars
<1> QED
  BY <1>2, <1>3, <1>4

(* Nothing of a note was said that has no word, or one still unsaid. *)
LEMMA UntoldIs ==
    ASSUME TypeOK, AnswerIsTrue, NEW o \in Offers, answered[o] = "none" \/ o \in unsaid
    PROVE  Promise!Untold(o)
<1>1. Told(o) = {}
  BY DEF AnswerIsTrue
<1>2. stream[o] \in Seq(Said)
  BY DEF TypeOK
<1>3. \A i \in DOMAIN stream[o] : stream[o][i] \in Said
  BY <1>2
<1> QED
  BY <1>1, <1>3 DEF Told, Said, Promise!Untold

(* A note refused, with its word and its answer. *)
LEMMA RefusesAre ==
    ASSUME RelayInv, GotInOrder, NEW d \in Callers, caller[d].at = "sent", NEW o \in Offers,
           o = caller[d].offer, Fresh(o),
           answered' = [answered EXCEPT ![o] = "undelivered"], Published(o, "undelivered"),
           Reply(d, "undelivered"), UNCHANGED <<note, end>>
    PROVE  Promise!Next
<1>0. TypeOK /\ AnswerIsTrue /\ "undelivered" \in Said /\ "undelivered" \in Replies
  BY DEF RelayInv, BookInOrder, Said, Replies, Dispositions
<1>1. Fate[o] = "none" /\ answered[o] = "none"
  BY DEF Fresh, Fate
<1>2. Promise!Untold(o)
  BY <1>0, <1>1, UntoldIs
<1>3. Promise!Publishes(o, "undelivered")
  BY DEF Published, Promise!Publishes
<1>4. Promise!Hears(d, o, "undelivered")
  BY <1>0, HeardReplies DEF Promise!Hears
<1>5. Promise!Refuses(d, o)
  BY <1>1, <1>2, <1>3, <1>4, FateSame, OverSame DEF Promise!Refuses
<1> QED
  BY <1>5 DEF Promise!Next

(* Every step is one of the promise, or none of it.                         *)
LEMMA PromiseStep == PromiseInv /\ [Next]_vars => [Promise!Next]_Promise!vars
<1> SUFFICES ASSUME PromiseInv, [Next]_vars
             PROVE  Promise!Next \/ UNCHANGED Promise!vars
  OBVIOUS
<1>0. /\ RelayInv /\ TypeOK /\ DeskInOrder /\ BookInOrder /\ AnswerIsTrue /\ GotInOrder /\ BackInOrder /\ HeldIsIn
  BY DEF PromiseInv, RelayInv, BookInOrder
<1>s. ASSUME UNCHANGED <<Fate, answered, stream, Heard, Over>>
      PROVE  UNCHANGED Promise!vars
  BY <1>s DEF Promise!vars
<1>q. ASSUME UNCHANGED <<note, answered, stream, caller, end>>
      PROVE  UNCHANGED Promise!vars
  BY <1>q, <1>s, FateSame, HeardSame, OverSame
<1>1. ASSUME NEW d \in Callers, Send(d) PROVE UNCHANGED Promise!vars
  <2>1. PICK k \in Kinds, o \in Offers :
           caller' = [caller EXCEPT ![d] = [at |-> "sent", kind |-> k, offer |-> o, got |-> "none"]]
    BY <1>1 DEF Send
  <2>2. caller[d].got = "none"
    BY <1>0, <1>1 DEF Send, Comes, GotInOrder
  <2>3. /\ caller'[d].got = "none" /\ \A e \in Callers \ {d} : caller'[e] = caller[e]
    BY <1>0, <2>1 DEF TypeOK
  <2>4. Heard' = Heard
    <3>1. \A e \in Callers : /\ caller'[e].got = caller[e].got
                             /\ caller[e].got # "none" => caller'[e].offer = caller[e].offer
      BY <2>2, <2>3
    <3>2. "none" \notin Said
      BY DEF Said, Dispositions
    <3> QED
      BY <3>1, <3>2 DEF Heard
  <2> QED
    BY <1>1, <1>s, <2>4, FateSame, OverSame DEF Send, book
<1>2. ASSUME NEW d \in Callers, SendTooLate(d) PROVE Promise!Next
  <2>1. PICK o \in Admitted :
           caller' = [caller EXCEPT ![d] = [at |-> "got", kind |-> "wait", offer |-> o,
                       got |-> IF answered[o] = "none" THEN "undelivered" ELSE answered[o]]]
    BY <1>2 DEF SendTooLate
  <2>2. o \in Offers
    BY <1>0 DEF Admitted, DeskInOrder
  <2>3. answered[o] \in Dispositions \cup {"none"}
    BY <1>0, <2>2 DEF TypeOK
  <2>4. PICK r : r = IF answered[o] = "none" THEN "undelivered" ELSE answered[o]
    OBVIOUS
  <2>5. r \in Said /\ r # "none"
    BY <2>3, <2>4 DEF Said, Dispositions
  <2>6. /\ caller'[d].got = r /\ caller'[d].offer = o
        /\ \A e \in Callers \ {d} : caller'[e] = caller[e]
    BY <1>0, <2>1, <2>4 DEF TypeOK
  <2>7. caller[d].got = "none"
    BY <1>0, <1>2 DEF SendTooLate, Comes, GotInOrder
  <2>8. Heard[d] = <<>> /\ Heard' = [Heard EXCEPT ![d] = <<o, r>>]
    <3>1. Heard[d] = <<>>
      BY <2>7 DEF Heard, Said, Dispositions
    <3>2. Heard'[d] = <<o, r>> /\ \A e \in Callers \ {d} : Heard'[e] = Heard[e]
      BY <2>5, <2>6 DEF Heard
    <3>3. /\ Heard = [c \in Callers |-> Heard[c]] /\ Heard' = [c \in Callers |-> Heard'[c]]
      BY DEF Heard
    <3> QED
      BY <3>1, <3>2, <3>3, Zenon
  <2>9. Promise!Hears(d, o, r)
    BY <2>8 DEF Promise!Hears
  <2>10. Over /\ UNCHANGED <<note, answered, stream, end>>
    BY <1>2 DEF SendTooLate, Over, book
  <2>11. Promise!Answers(d, o)
    BY <2>4, <2>9, <2>10, FateSame, OverSame DEF Promise!Answers
  <2> QED
    BY <2>2, <2>11 DEF Promise!Next
<1>3. ASSUME NEW d \in Callers, WaitStep(d) PROVE Promise!Next \/ UNCHANGED Promise!vars
  <2>0. caller[d].at \in {"waiting", "announcing"} /\ caller[d].offer \in Offers
    BY <1>0, <1>3 DEF WaitStep, WaitAnswered, WaitExpires, WaitOvertaken, WaitReplies, Looking, DeskInOrder
  <2>1. CASE WaitAnswered(d)
    <3>1. PICK o \in Offers : o = caller[d].offer
      BY <2>0
    <3>2. Heard' = Heard
      BY <1>0, <2>1, HeardGoes DEF WaitAnswered
    <3>3. answered' = [answered EXCEPT ![o] = note[o]]
      BY <2>1, <3>1 DEF WaitAnswered, Record
    <3>4. answered' = [p \in Offers |-> IF p \in {o} THEN note[p] ELSE answered[p]]
      BY <1>0, <3>3 DEF TypeOK
    <3>5. custody[o] # "absent" /\ Answered(o) /\ UNCHANGED <<note, stream, end>>
      BY <2>1, <3>1 DEF WaitAnswered, Handled
    <3>6. {o} \in SUBSET Offers /\ \A p \in {o} : custody[p] # "absent" /\ Answered(p)
      BY <3>5
    <3> QED
      BY <1>0, <3>2, <3>4, <3>5, <3>6, SettlesAre
  <2>2. CASE WaitExpires(d)
    <3>1. PICK o \in Offers : o = caller[d].offer
      BY <2>0
    <3>2. Heard' = Heard
      BY <1>0, <2>2, HeardGoes DEF WaitExpires
    <3>3. /\ Record(o, "expired") /\ custody[o] # "absent" /\ note[o] = "queued"
          /\ note' = [note EXCEPT ![o] = "withdrawn"] /\ UNCHANGED <<stream, end>>
      BY <2>2, <3>1 DEF WaitExpires, Untaken, Handled
    <3> QED
      BY <1>0, <3>2, <3>3, TakesBackAre
  <2>3. CASE WaitOvertaken(d) \/ WaitReplies(d)
    <3>1. Reply(d, answered[caller[d].offer]) /\ UNCHANGED <<note, answered, stream, end>>
      BY <2>3 DEF WaitOvertaken, WaitReplies, book
    <3> QED
      BY <1>0, <2>0, <3>1, WordOrNone
  <2> QED
    BY <1>3, <2>1, <2>2, <2>3 DEF WaitStep
<1>4. ASSUME NEW d \in Callers, Request(d) PROVE Promise!Next \/ UNCHANGED Promise!vars
  <2>0. caller[d].at = "sent" /\ caller[d].offer \in Offers /\ relay.at = "idle" /\ end = "no"
    BY <1>0, <1>4 DEF Request, OfferNote, RefuseNote, Wait, WaitTooLate, Withdraw, WithdrawTooLate,
                      Serving, DeskInOrder
  <2>1. PICK o \in Offers : o = caller[d].offer
    BY <2>0
  <2>2. caller[d].kind = "offer" => Fresh(o)
    BY <1>0, <2>0, <2>1 DEF DeskInOrder, Serves
  <2>3. CASE OfferNote(d)
    <3>1. /\ Fresh(o) /\ note' = [note EXCEPT ![o] = "queued"]
          /\ UNCHANGED <<answered, stream, caller, end>>
      BY <2>1, <2>2, <2>3 DEF OfferNote, Serving, book
    <3>2. Fate' = [Fate EXCEPT ![o] = "open"]
      <4>1. \A p \in Offers : note'[p] = IF p = o THEN "queued" ELSE note[p]
        BY <1>0, <3>1 DEF TypeOK
      <4> QED
        BY <4>1 DEF Fate
    <3>3. Fate[o] = "none" /\ answered[o] = "none" /\ ~Over
      BY <2>0, <3>1 DEF Fresh, Fate, Over
    <3>4. Promise!Enters(o)
      BY <3>1, <3>2, <3>3, HeardSame, OverSame DEF Promise!Enters
    <3> QED
      BY <3>4 DEF Promise!Next
  <2>4. CASE RefuseNote(d)
    <3>1. /\ Fresh(o) /\ answered' = [answered EXCEPT ![o] = "undelivered"] /\ Published(o, "undelivered")
          /\ Reply(d, "undelivered") /\ UNCHANGED <<note, end>>
      BY <2>1, <2>2, <2>4 DEF RefuseNote, Serving
    <3> QED
      BY <1>0, <2>0, <2>1, <3>1, RefusesAre
  <2>5. CASE Wait(d)
    <3>1. UNCHANGED <<note, answered, stream, end>>
      BY <2>5 DEF Wait
    <3>2. Reply(d, "refused") \/ Goes(d, "waiting")
      BY <2>5 DEF Wait
    <3>3. "refused" \in Replies /\ "refused" \notin Said
      BY DEF Replies, Said, Dispositions
    <3>4. Heard' = Heard
      BY <1>0, <2>0, <3>2, <3>3, HeardReplies, HeardGoes
    <3> QED
      BY <1>s, <3>1, <3>4, FateSame, OverSame
  <2>6. CASE WaitTooLate(d)
    <3>1. UNCHANGED <<note, answered, stream, end>>
      BY <2>6 DEF WaitTooLate, book
    <3>2. \/ Reply(d, "refused") \/ Reply(d, answered[caller[d].offer])
      BY <2>6 DEF WaitTooLate
    <3>3. "refused" \in Replies /\ "refused" \notin Said
      BY DEF Replies, Said, Dispositions
    <3>4. CASE Reply(d, "refused")
      <4>1. Heard' = Heard
        BY <1>0, <2>0, <3>3, <3>4, HeardReplies
      <4> QED
        BY <1>s, <3>1, <4>1, FateSame, OverSame
    <3> QED
      BY <1>0, <2>0, <3>1, <3>2, <3>4, WordOrNone
  <2>7. CASE Withdraw(d)
    <3>1. /\ Record(o, "withdrawn") /\ custody[o] # "absent" /\ note[o] = "queued"
          /\ note' = [note EXCEPT ![o] = "withdrawn"] /\ UNCHANGED <<stream, caller, end>>
      BY <2>1, <2>7 DEF Withdraw, Untaken, Handled
    <3> QED
      BY <1>0, <3>1, HeardSame, TakesBackAre
  <2>8. CASE WithdrawTooLate(d)
    <3>1. Reply(d, "taken") /\ UNCHANGED <<note, answered, stream, end>>
      BY <2>8 DEF WithdrawTooLate, book
    <3>2. "taken" \in Replies /\ "taken" \notin Said
      BY DEF Replies, Said, Dispositions
    <3>3. Heard' = Heard
      BY <1>0, <2>0, <3>1, <3>2, HeardReplies
    <3> QED
      BY <1>s, <3>1, <3>3, FateSame, OverSame
  <2> QED
    BY <1>4, <2>3, <2>4, <2>5, <2>6, <2>7, <2>8 DEF Request
<1>5. CASE AdmitNote
  <2>1. PICK d \in Callers, o \in Offers :
           relay.for = d /\ caller[d].offer = o /\ caller[d].at = "sent" /\ caller[d].kind = "offer"
    BY <1>0, <1>5, BusyWith DEF AdmitNote
  <2>2. /\ Published(o, "admitted") /\ Reply(d, "admitted") /\ UNCHANGED <<note, answered, end>>
    BY <1>5, <2>1 DEF AdmitNote, book
  <2>3. "admitted" \in Replies /\ "admitted" \in Said
    BY DEF Replies, Said
  <2>4. Promise!Hears(d, o, "admitted")
    BY <1>0, <2>1, <2>2, <2>3, HeardReplies DEF Promise!Hears
  <2>5. Fate[o] # "none"
    <3>1. note[o] # "none"
      BY <1>0, <1>5, <2>1 DEF HeldIsIn, AdmitNote
    <3> QED
      BY <3>1 DEF Fate
  <2>6. \A e \in Callers : Heard[e] # <<o, "admitted">>
    <3> SUFFICES ASSUME NEW e \in Callers, Heard[e] = <<o, "admitted">> PROVE FALSE
      OBVIOUS
    <3>1. caller[e].got = "admitted" /\ caller[e].offer = o
      BY DEF Heard
    <3>2. caller[e].kind = "offer" /\ caller[e].at = "got"
      BY <1>0, <3>1 DEF GotInOrder
    <3>3. e = d
      BY <1>0, <2>1, <3>1, <3>2 DEF DeskInOrder
    <3> QED
      BY <2>1, <3>2, <3>3
  <2>7. Promise!Publishes(o, "admitted")
    BY <2>2 DEF Published, Promise!Publishes
  <2>8. Promise!Admits(d, o)
    BY <2>2, <2>4, <2>5, <2>6, <2>7, FateSame, OverSame DEF Promise!Admits
  <2> QED
    BY <2>8 DEF Promise!Next
<1>6. CASE Withdrawn
  <2>1. PICK d \in Callers, o \in Offers :
           relay.for = d /\ caller[d].offer = o /\ caller[d].at = "sent" /\ answered[o] = "withdrawn"
    BY <1>0, <1>6, BusyWith DEF Withdrawn
  <2>2. Reply(d, "withdrawn") /\ UNCHANGED <<note, answered, stream, end>> /\ "withdrawn" \in Dispositions
    BY <1>6, <2>1 DEF Withdrawn, book, Dispositions
  <2> QED
    BY <1>0, <2>1, <2>2, AnswersAre
<1>7. ASSUME NEW d \in Callers, AnswerQueued(d) PROVE Promise!Next \/ UNCHANGED Promise!vars
  <2>0. caller[d].at = "sent" /\ caller[d].offer \in Offers /\ end = "closing" /\ relay.at = "idle"
    BY <1>0, <1>7 DEF AnswerQueued, DeskInOrder
  <2>1. PICK o \in Offers : o = caller[d].offer
    BY <2>0
  <2>2. UNCHANGED <<note, end>>
    BY <1>7 DEF AnswerQueued
  <2>3. CASE caller[d].kind = "offer"
    <3>1. Fresh(o)
      BY <1>0, <2>0, <2>1, <2>3 DEF DeskInOrder, Serves
    <3>2. /\ answered' = [answered EXCEPT ![o] = "undelivered"] /\ Published(o, "undelivered")
          /\ Reply(d, "undelivered")
      BY <1>7, <2>1, <2>3 DEF AnswerQueued, Refusal
    <3> QED
      BY <1>0, <2>0, <2>1, <2>2, <3>1, <3>2, RefusesAre
  <2>4. CASE caller[d].kind = "withdraw"
    <3>1. Reply(d, "taken") /\ UNCHANGED <<answered, stream>>
      BY <1>7, <2>4 DEF AnswerQueued
    <3>2. "taken" \in Replies /\ "taken" \notin Said
      BY DEF Replies, Said, Dispositions
    <3>3. Heard' = Heard
      BY <1>0, <2>0, <3>1, <3>2, HeardReplies
    <3> QED
      BY <1>s, <2>2, <3>1, <3>3, FateSame, OverSame
  <2>5. CASE caller[d].kind \in {"wait", "until"}
    <3>1. PICK r : r = IF answered[o] = "none" THEN "undelivered" ELSE answered[o]
      OBVIOUS
    <3>2. Reply(d, r) /\ UNCHANGED <<answered, stream>>
      BY <1>7, <2>1, <2>5, <3>1 DEF AnswerQueued, Refusal
    <3>3. answered[o] \in Dispositions \cup {"none"}
      BY <1>0 DEF TypeOK
    <3>4. r \in Dispositions /\ (r = answered[o] \/ (r = "undelivered" /\ answered[o] = "none"))
      BY <3>1, <3>3 DEF Dispositions
    <3>5. Over
      BY <2>0 DEF Over
    <3> QED
      BY <1>0, <2>0, <2>1, <2>2, <3>2, <3>4, <3>5, AnswersAre
  <2> QED
    BY <1>7, <2>3, <2>4, <2>5 DEF AnswerQueued
<1>8. ASSUME NEW o \in Offers, TakeNote(o) \/ DisposeOfNote(o) PROVE Promise!Next \/ UNCHANGED Promise!vars
  <2>1. UNCHANGED <<answered, stream, caller, end>> /\ note[o] \in {"queued", "taken"}
    BY <1>8 DEF TakeNote, DisposeOfNote, book
  <2>2. PICK what : what \in {"taken", "later", "now", "withdrawn", "queued"}
                      /\ note' = [note EXCEPT ![o] = what]
    BY <1>8 DEF TakeNote, DisposeOfNote
  <2>3. \A p \in Offers : note'[p] = IF p = o THEN what ELSE note[p]
    BY <1>0, <2>2 DEF TypeOK
  <2>4. CASE what \in {"taken", "queued"}
    <3>1. Fate' = Fate
      BY <2>1, <2>3, <2>4 DEF Fate
    <3> QED
      BY <1>s, <2>1, <3>1, HeardSame, OverSame
  <2>5. CASE what \in {"later", "now", "withdrawn"}
    <3>1. Fate' = [p \in Offers |-> IF p \in {o} THEN what ELSE Fate[p]]
      BY <2>3, <2>5 DEF Fate
    <3>2. \A p \in {o} : Fate[p] = "open"
      BY <2>1 DEF Fate
    <3>3. Promise!MeetEnd({o}, what)
      BY <2>1, <3>1, <3>2, HeardSame, OverSame DEF Promise!MeetEnd
    <3>4. {o} \in SUBSET Offers /\ what \in Promise!Ends
      BY <2>5 DEF Promise!Ends
    <3> QED
      BY <3>3, <3>4 DEF Promise!Next
  <2> QED
    BY <2>2, <2>4, <2>5
<1>9. ASSUME NEW o \in Offers, SettleOffer(o) PROVE Promise!Next
  <2>0. custody[o] # "absent" /\ UNCHANGED <<stream, caller, end>> /\ Heard' = Heard
    BY <1>9, HeardSame DEF SettleOffer
  <2>1. CASE Answered(o)
    <3>1. answered' = [answered EXCEPT ![o] = note[o]]
      BY <1>9, <2>1 DEF SettleOffer, Record, Outcome
    <3>2. answered' = [p \in Offers |-> IF p \in {o} THEN note[p] ELSE answered[p]]
      BY <1>0, <3>1 DEF TypeOK
    <3>3. note' = note
      BY <1>0, <1>9, <2>1 DEF SettleOffer, TypeOK
    <3>4. {o} \in SUBSET Offers /\ \A p \in {o} : custody[p] # "absent" /\ Answered(p)
      BY <2>0, <2>1
    <3> QED
      BY <1>0, <2>0, <3>2, <3>3, <3>4, SettlesAre
  <2>2. CASE ~Answered(o)
    <3>1. /\ Record(o, "undelivered") /\ note[o] \in {"queued", "withdrawn"}
          /\ note' = [note EXCEPT ![o] = "withdrawn"]
      BY <1>9, <2>2 DEF SettleOffer, Outcome, Refusal
    <3> QED
      BY <1>0, <2>0, <3>1, TakesBackAre
  <2> QED
    BY <2>1, <2>2
<1>10. ASSUME NEW o \in Offers, Announce(o) PROVE Promise!Next
  <2>1. answered[o] # "none"
    BY <1>0, <1>10 DEF Announce, BookInOrder
  <2>2. Promise!Untold(o)
    BY <1>0, <1>10, UntoldIs DEF Announce
  <2>3. Promise!Publishes(o, answered[o])
    BY <1>10 DEF Announce, Published, Promise!Publishes
  <2>4. UNCHANGED <<note, answered, caller, end>>
    BY <1>10 DEF Announce
  <2>5. Promise!Tells(o)
    BY <2>1, <2>2, <2>3, <2>4, FateSame, HeardSame, OverSame DEF Promise!Tells
  <2> QED
    BY <2>5 DEF Promise!Next
<1>11. CASE EngineEnds
  <2>1. PICK S \in SUBSET Offers : S = {o \in Offers : note[o] \in {"queued", "taken"}}
    OBVIOUS
  <2>2. note' = [o \in Offers |-> IF o \in S THEN "undelivered" ELSE note[o]]
    BY <1>11, <2>1 DEF EngineEnds
  <2>3. Fate' = [o \in Offers |-> IF o \in S THEN "undelivered" ELSE Fate[o]]
    BY <2>1, <2>2 DEF Fate
  <2>4. \A o \in S : Fate[o] = "open"
    BY <2>1 DEF Fate
  <2>5. UNCHANGED <<answered, stream, caller, end>>
    BY <1>11 DEF EngineEnds, book
  <2>6. Promise!MeetEnd(S, "undelivered")
    BY <2>3, <2>4, <2>5, HeardSame, OverSame DEF Promise!MeetEnd
  <2>7. "undelivered" \in Promise!Ends
    BY DEF Promise!Ends
  <2> QED
    BY <2>6, <2>7 DEF Promise!Next
<1>12. CASE Probe
  <2>1. PICK S \in SUBSET Offers : S = {o \in Offers : Handled(o) /\ Answered(o)}
    OBVIOUS
  <2>2. /\ answered' = [o \in Offers |-> IF o \in S THEN note[o] ELSE answered[o]]
        /\ UNCHANGED <<note, stream, caller, end>>
    BY <1>12, <2>1 DEF Probe
  <2>3. \A o \in S : custody[o] # "absent" /\ Answered(o)
    BY <2>1 DEF Handled
  <2> QED
    BY <1>0, <2>2, <2>3, HeardSame, SettlesAre
<1>13. CASE Drained
  <2>1. UNCHANGED <<note, answered, stream, caller>> /\ end = "draining" /\ end' = "closing"
    BY <1>13 DEF Drained, book
  <2>2. ~Over /\ Over' = TRUE
    BY <2>1 DEF Over
  <2>3. \A o \in Offers : Fate[o] \in Promise!Ends => answered[o] # "none"
    <3> SUFFICES ASSUME NEW o \in Offers, Fate[o] \in Promise!Ends, answered[o] = "none" PROVE FALSE
      OBVIOUS
    <3>1. note[o] \in {"later", "now", "undelivered", "withdrawn"}
      BY <1>0 DEF Fate, Promise!Ends, TypeOK
    <3>2. relay.at = "idle"
      BY <1>0, <2>1 DEF DeskInOrder
    <3>3. o \notin InHand
      BY <3>2 DEF InHand
    <3>4. custody[o] # "absent"
      BY <1>0, <3>1, <3>3 DEF BookInOrder
    <3>5. ~Answered(o) /\ (custody[o] = "settling" => note[o] = "taken")
      BY <1>13, <3>4 DEF Drained, Held
    <3>6. note[o] = "withdrawn"
      BY <3>1, <3>5 DEF Answered
    <3> QED
      BY <1>0, <3>5, <3>6 DEF BackInOrder
  <2>4. Promise!Closes
    BY <2>1, <2>2, <2>3, FateSame, HeardSame DEF Promise!Closes
  <2> QED
    BY <2>4 DEF Promise!Next
<1>14. CASE Close
  <2>1. UNCHANGED <<note, answered, stream, caller>> /\ end = "closing" /\ end' = "closed"
    BY <1>14 DEF Close, book
  <2>2. Over' = Over
    BY <2>1 DEF Over
  <2> QED
    BY <1>s, <2>1, <2>2, FateSame, HeardSame
<1>15. CASE EndBegins \/ SettleIdle
  <2>1. /\ UNCHANGED <<note, answered, stream, caller>>
        /\ end \in {"no", "halting"} /\ end' \in {"halting", "draining"}
    BY <1>15 DEF EndBegins, SettleIdle, book
  <2>2. Over' = Over
    BY <2>1 DEF Over
  <2> QED
    BY <1>s, <2>1, <2>2, FateSame, HeardSame
<1>16. CASE HandNote \/ HoldNote \/ TurnOpens \/ Look \/ Quiescent \/ UNCHANGED vars
  <2>1. UNCHANGED <<note, answered, stream, caller, end>>
    BY <1>16 DEF HandNote, HoldNote, TurnOpens, Look, Quiescent, vars, book
  <2> QED
    BY <1>q, <2>1
<1> QED
  BY <1>1, <1>2, <1>3, <1>4, <1>5, <1>6, <1>7, <1>8, <1>9, <1>10, <1>11, <1>12, <1>13, <1>14, <1>15, <1>16
  DEF Next, Relay, Sink, Ending

(* The relay, the waits, the sink and the end keep the promise of the seam, *)
(* for any number of offers and of callers.                                 *)
THEOREM KeepsItsWordHolds == SafeSpec => KeepsItsWord
<1>1. Init => Promise!Init
  <2> SUFFICES ASSUME Init PROVE Promise!Init
    OBVIOUS
  <2>1. Fate = [o \in Offers |-> "none"]
    BY DEF Init, Fate
  <2>2. Heard = [c \in Callers |-> <<>>]
    BY DEF Init, Heard, Said, Dispositions
  <2>3. Over = FALSE
    BY DEF Init, Over
  <2> QED
    BY <2>1, <2>2, <2>3 DEF Init, Promise!Init
<1> QED
  BY <1>1, PromiseStep, PromiseInvHolds, PTL DEF SafeSpec, KeepsItsWord, Promise!Spec

-----------------------------------------------------------------------------
(* The caller of one note (NoteCaller), in a process of its own.            *)

(* A caller that has not put its note in has nothing in the member; one that *)
(* waits has a note there, and nothing else of it was delivered.             *)
NotOffered == {"verb", "history", "control", "interrupt", "address", "deliver", "offer"}

CallInOrder ==
    /\ at \in NotOffered => fate = "none"
    /\ at \in {"admitted", "waiting", "waiting until"} => kind = "conversation" /\ fate # "none"
    /\ at = "bare" => kind = "older"
    /\ at # "done" <=> heard = "none"
    /\ redirected => heard \in {"interrupted", "unread"}

(* What is written down and booked of a note is what became of it, and is    *)
(* written down before it is booked.                                         *)
WrittenInOrder ==
    /\ kept # "none" => fate \in Disposed /\ kept \in {"partial", fate}
    /\ booked # "none" => booked = fate /\ fate \in Disposed /\ (writable => kept = fate)

(* A spool is closed on a note that is over and booked, or left with one     *)
(* that only a turn, or the end of the conversation, still answers.          *)
CloseInOrder ==
    /\ spool = "closed" => fate \notin {"queued", "presented"}
    /\ spool = "closed" /\ kind = "conversation" /\ fate \in Disposed => booked # "none"
    /\ spool = "left" /\ kind = "conversation" => fate \notin {"none", "withdrawn", "expired"}

(* A note taken back stays so, and nobody is told otherwise.                 *)
WithdrawnInOrder ==
    /\ back \in {"asked", "withdrawn"} => kind = "conversation" /\ fate = "withdrawn"
    /\ kind = "conversation" /\ fate = "withdrawn" =>
         heard \in {"none", "withdrawn"} \cup (IF writable THEN {} ELSE {"undelivered"})

CallerInv ==
    /\ CallInOrder /\ WrittenInOrder /\ CloseInOrder /\ WithdrawnInOrder
    /\ CallerHearsTheTruth

(* Nothing of it is about anything else the member does.                    *)
CallerFacts == <<kind, mode, writable, spool, fate, kept, booked, redirected, at, heard, back>>

LEMMA SameCall == CallerInv /\ UNCHANGED CallerFacts => CallerInv'
<1> SUFFICES ASSUME CallerInv, UNCHANGED CallerFacts
             PROVE  CallerInv'
  OBVIOUS
<1>1. /\ kind' = kind /\ mode' = mode /\ writable' = writable /\ spool' = spool
      /\ fate' = fate /\ kept' = kept /\ booked' = booked /\ redirected' = redirected
      /\ at' = at /\ heard' = heard /\ back' = back
  BY DEF CallerFacts
<1>2. CallInOrder'
  BY <1>1 DEF CallerInv, CallInOrder, NotOffered
<1>3. WrittenInOrder'
  BY <1>1 DEF CallerInv, WrittenInOrder, Disposed
<1>4. CloseInOrder'
  BY <1>1 DEF CallerInv, CloseInOrder, Disposed
<1>5. WithdrawnInOrder'
  BY <1>1 DEF CallerInv, WithdrawnInOrder
<1>6. CallerHearsTheTruth'
  BY <1>1 DEF CallerInv, CallerHearsTheTruth
<1> QED
  BY <1>2, <1>3, <1>4, <1>5, <1>6 DEF CallerInv

LEMMA CallerInvStep == CallerInv /\ [CallerNext]_noteVars => CallerInv'
<1> SUFFICES ASSUME CallerInv, [CallerNext]_noteVars
             PROVE  CallerInv'
  OBVIOUS
<1> USE DEF CallerInv, CallInOrder, WrittenInOrder, CloseInOrder, WithdrawnInOrder, CallerHearsTheTruth,
    NotOffered, Disposed, memberVars, given, standing, answer, calling
<1>1. CASE BindEndpoint
  <2>1. CallInOrder'
    BY <1>1 DEF BindEndpoint
  <2>2. WrittenInOrder'
    BY <1>1 DEF BindEndpoint
  <2>3. CloseInOrder'
    BY <1>1 DEF BindEndpoint
  <2>4. WithdrawnInOrder'
    BY <1>1 DEF BindEndpoint
  <2>5. CallerHearsTheTruth'
    BY <1>1 DEF BindEndpoint
  <2> QED
    BY <2>1, <2>2, <2>3, <2>4, <2>5
<1>2. CASE EmptyControl
  BY <1>2, SameCall, Zenon DEF EmptyControl, CallerFacts, given, answer, calling
<1>3. CASE FillControl
  BY <1>3, SameCall, Zenon DEF FillControl, CallerFacts, given, answer, calling
<1>4. CASE HarnessTurn
  BY <1>4, SameCall, Zenon DEF HarnessTurn, CallerFacts, given, answer, calling
<1>5. CASE Present
  BY <1>5 DEF Present
<1>6. CASE Dispose
  <2>1. CallInOrder'
    BY <1>6 DEF Dispose
  <2>2. WrittenInOrder'
    BY <1>6 DEF Dispose
  <2>3. CloseInOrder'
    BY <1>6 DEF Dispose
  <2>4. WithdrawnInOrder'
    BY <1>6 DEF Dispose
  <2>5. CallerHearsTheTruth'
    BY <1>6 DEF Dispose
  <2> QED
    BY <2>1, <2>2, <2>3, <2>4, <2>5
<1>7. CASE ConversationEnds
  <2>1. CallInOrder'
    BY <1>7 DEF ConversationEnds
  <2>2. WrittenInOrder'
    BY <1>7 DEF ConversationEnds
  <2>3. CloseInOrder'
    BY <1>7 DEF ConversationEnds
  <2>4. WithdrawnInOrder'
    BY <1>7 DEF ConversationEnds
  <2>5. CallerHearsTheTruth'
    BY <1>7 DEF ConversationEnds
  <2> QED
    BY <2>1, <2>2, <2>3, <2>4, <2>5
<1>8. CASE Condemned
  BY <1>8, SameCall, Zenon DEF Condemned, CallerFacts, given, answer, calling
<1>9. CASE WritePartial
  BY <1>9 DEF WritePartial, Unbooked
<1>10. CASE RenamePartial
  <2>1. CallInOrder'
    BY <1>10 DEF RenamePartial
  <2>2. WrittenInOrder'
    BY <1>10 DEF RenamePartial
  <2>3. CloseInOrder'
    BY <1>10 DEF RenamePartial
  <2>4. WithdrawnInOrder'
    BY <1>10 DEF RenamePartial
  <2>5. CallerHearsTheTruth'
    BY <1>10 DEF RenamePartial
  <2> QED
    BY <2>1, <2>2, <2>3, <2>4, <2>5
<1>11. CASE Book
  <2>1. CallInOrder'
    BY <1>11 DEF Book, Unbooked
  <2>2. WrittenInOrder'
    BY <1>11 DEF Book, Unbooked
  <2>3. CloseInOrder'
    BY <1>11 DEF Book, Unbooked
  <2>4. WithdrawnInOrder'
    BY <1>11 DEF Book, Unbooked
  <2>5. CallerHearsTheTruth'
    BY <1>11 DEF Book, Unbooked
  <2> QED
    BY <2>1, <2>2, <2>3, <2>4, <2>5
<1>12. CASE EndAnswers
  BY <1>12 DEF EndAnswers, Waiting
<1>13. CASE CloseSpool
  <2>1. CallInOrder'
    BY <1>13 DEF CloseSpool, Unbooked, Waiting
  <2>2. WrittenInOrder'
    BY <1>13 DEF CloseSpool, Unbooked, Waiting
  <2>3. CloseInOrder'
    BY <1>13 DEF CloseSpool, Unbooked, Waiting
  <2>4. WithdrawnInOrder'
    BY <1>13 DEF CloseSpool, Unbooked, Waiting
  <2>5. CallerHearsTheTruth'
    BY <1>13 DEF CloseSpool, Unbooked, Waiting
  <2> QED
    BY <2>1, <2>2, <2>3, <2>4, <2>5
<1>14. CASE RecordOutcome
  BY <1>14, SameCall, Zenon DEF RecordOutcome, CallerFacts, given, answer, calling
<1>15. CASE ReadHistory
  BY <1>15 DEF ReadHistory, Hears, Moves
<1>16. CASE ReadControl
  BY <1>16 DEF ReadControl, Hears, Moves
<1>17. CASE Redirection
  BY <1>17 DEF Redirection, Hears, Moves
<1>18. CASE ReadHistoryAgain
  BY <1>18 DEF ReadHistoryAgain, Hears, Moves
<1>19. CASE ReadAddress
  <2>1. /\ at = "address" /\ UNCHANGED <<memberVars, back>>
        /\ \/ at' = "deliver" /\ heard' = heard
           \/ at' = "done" /\ heard' = "undelivered"
    BY <1>19 DEF ReadAddress, Hears, Moves
  <2>2. CallInOrder'
    BY <2>1
  <2>3. WrittenInOrder'
    BY <2>1
  <2>4. CloseInOrder'
    BY <2>1
  <2>5. WithdrawnInOrder'
    BY <2>1
  <2>6. CallerHearsTheTruth'
    BY <2>1
  <2> QED
    BY <2>2, <2>3, <2>4, <2>5, <2>6
<1>20. CASE Deliver
  <2>1. /\ at = "deliver" /\ at' = "done" /\ UNCHANGED <<given, standing, answer, back>>
        /\ \/ (mode = "stop" \/ redirected') /\ heard' = "interrupted"
           \/ redirected' = redirected /\ heard' = "undelivered"
           \/ heard' = "unread"
    BY <1>20 DEF Deliver, Hears
  <2>2. CallInOrder'
    BY <2>1
  <2>3. WrittenInOrder'
    BY <2>1
  <2>4. CloseInOrder'
    BY <2>1
  <2>5. WithdrawnInOrder'
    BY <2>1
  <2>6. /\ fate = "none" /\ ~redirected /\ back # "withdrawn"
        /\ fate' = fate /\ mode' = mode /\ back' = back
    BY <2>1
  <2>7. CallerHearsTheTruth'
    BY <2>1, <2>6 DEF CallerHearsTheTruth
  <2> QED
    BY <2>2, <2>3, <2>4, <2>5, <2>7
<1>21. CASE OfferBare
  BY <1>21 DEF OfferBare, Hears, Moves
<1>22. CASE BareAnswered
  BY <1>22 DEF BareAnswered, Hears
<1>23. CASE Offer
  BY <1>23 DEF Offer, Hears, Moves
<1>24. CASE AskWait
  BY <1>24 DEF AskWait, Moves
<1>25. CASE Expire
  BY <1>25 DEF Expire, Waiting
<1>26. CASE WaitIsAnswered
  BY <1>26 DEF WaitIsAnswered, Waiting, Hears
<1>27. CASE Resolve
  BY <1>27 DEF Resolve, Gone, Waiting, Hears
<1>28. CASE TakeBack
  BY <1>28 DEF TakeBack, Withdrawable, Waiting
<1>29. CASE TakenBack
  BY <1>29 DEF TakenBack
<1>30. CASE NotWithdrawn
  <2>1. CallInOrder'
    BY <1>30 DEF NotWithdrawn, Withdrawable, Gone, Waiting
  <2>2. WrittenInOrder'
    BY <1>30 DEF NotWithdrawn, Withdrawable, Gone, Waiting
  <2>3. CloseInOrder'
    BY <1>30 DEF NotWithdrawn, Withdrawable, Gone, Waiting
  <2>4. WithdrawnInOrder'
    BY <1>30 DEF NotWithdrawn, Withdrawable, Gone, Waiting
  <2>5. CallerHearsTheTruth'
    BY <1>30 DEF NotWithdrawn, Withdrawable, Gone, Waiting
  <2> QED
    BY <2>1, <2>2, <2>3, <2>4, <2>5
<1>31. CASE UNCHANGED noteVars
  BY <1>31, SameCall, Zenon DEF noteVars, memberVars, given, standing, answer, calling, CallerFacts
<1> QED
  BY <1>1, <1>2, <1>3, <1>4, <1>5, <1>6, <1>7, <1>8, <1>9, <1>10, <1>11, <1>12, <1>13, <1>14, <1>15, <1>16, <1>17, <1>18, <1>19, <1>20, <1>21, <1>22, <1>23, <1>24, <1>25, <1>26, <1>27, <1>28, <1>29, <1>30, <1>31 DEF CallerNext, MemberSide

(* A caller is told the truth about its note.                               *)
THEOREM CallerHearsTheTruthHolds ==
    CallerInit /\ [][CallerNext]_noteVars => []CallerHearsTheTruth
<1>1. CallerInit => CallerInv
  BY DEF CallerInit, CallerInv, CallInOrder, WrittenInOrder, CloseInOrder, WithdrawnInOrder,
     CallerHearsTheTruth, NotOffered
<1>2. CallerInv => CallerHearsTheTruth
  BY DEF CallerInv
<1> QED
  BY <1>1, <1>2, CallerInvStep, PTL

=============================================================================
