---------------------------- MODULE ClientProofs ----------------------------
(***************************************************************************)
(* Proofs about Client for every number of browsers, rooms, texts and      *)
(* reservations, whatever connections fail and whatever pages reload.      *)
(***************************************************************************)
EXTENDS Client, SequenceTheorems, FiniteSetTheorems, TLAPS

-----------------------------------------------------------------------------
\* What a step of the service leaves as it was.

Settled == {"PLATITA", "ANULATA"}

\* Rows and owners stay, a settled row stays settled, a cancelled one as it is.
Grows ==
    /\ Service!TypeOK'
    /\ owner' \in [DOMAIN book' -> Clients]
    /\ DOMAIN book \subseteq DOMAIN book'
    /\ \A id \in DOMAIN book :
          /\ owner'[id] = owner[id]
          /\ book[id].status \in Settled => book'[id].status \in Settled
          /\ book[id].status = "ANULATA" => book'[id] = book[id]

\* A row of a well-typed book is a booking, and its id is a number.
LEMMA BookRows ==
    ASSUME TypeOK
    PROVE  /\ book \in Seq(Service!Booking)
           /\ Len(book) \in Nat
           /\ DOMAIN book = 1..Len(book)
           /\ \A id \in DOMAIN book : book[id] \in Service!Booking
           /\ owner \in Seq(Clients) /\ Len(owner) = Len(book)
           /\ overdue \in 0..Len(book)
<1>1. book \in Seq(Service!Booking) /\ overdue \in 0..Len(book) /\ owner \in [DOMAIN book -> Clients]
  BY DEF TypeOK, Service!TypeOK
<1>2. /\ Len(book) \in Nat
      /\ DOMAIN book = 1..Len(book)
      /\ \A id \in DOMAIN book : book[id] \in Service!Booking
  BY <1>1, LenProperties
<1>3. owner \in Seq(Clients)
  BY <1>1, <1>2, SeqDef
<1>4. Len(owner) = Len(book)
  BY <1>1, <1>2, <1>3, LenProperties
<1> QED
  BY <1>1, <1>2, <1>3, <1>4

\* Rewriting rows one by one.
LEMMA BookRewritten ==
    ASSUME TypeOK, UNCHANGED <<overdue, owner>>,
           DOMAIN book' = DOMAIN book, book' = [id \in DOMAIN book |-> book'[id]],
           \A id \in DOMAIN book :
              /\ book'[id] \in Service!Booking
              /\ book[id].status \in Settled => book'[id].status \in Settled
              /\ book[id].status = "ANULATA" => book'[id] = book[id]
    PROVE  Grows
<1>1. book' \in [1..Len(book) -> Service!Booking]
  BY BookRows
<1>2. book' \in Seq(Service!Booking)
  BY <1>1, BookRows, SeqDef
<1>3. Len(book') = Len(book)
  BY <1>1, <1>2, BookRows, LenProperties
<1>4. Service!TypeOK'
  BY <1>2, <1>3, BookRows DEF Service!TypeOK
<1> QED
  BY <1>4 DEF Grows, TypeOK

\* Reserve appends one unpaid row and keeps the others.
LEMMA ReserveGrows ==
    ASSUME TypeOK, NEW c \in Clients, NEW room \in Rooms, NEW ora \in Times,
           Service!Reserve(room, ora), owner' = Append(owner, c)
    PROVE  /\ Grows
           /\ Len(book) + 1 \in DOMAIN book' /\ owner'[Len(book) + 1] = c
<1> DEFINE row == [room |-> room, ora |-> ora, status |-> "REZERVARE", incasat |-> 0, rambursat |-> 0]
<1>1. row \in Service!Booking
  BY DEF Service!Booking, Service!Statuses
<1>2. book' = Append(book, row) /\ UNCHANGED overdue
  BY DEF Service!Reserve
<1> HIDE DEF row
<1>3. /\ book' \in Seq(Service!Booking)
      /\ Len(book') = Len(book) + 1
      /\ DOMAIN book' = 1..(Len(book) + 1)
      /\ \A id \in DOMAIN book : book'[id] = book[id]
  BY <1>1, <1>2, BookRows, AppendProperties, LenProperties
<1>4. /\ owner' \in Seq(Clients)
      /\ Len(owner') = Len(book) + 1
      /\ DOMAIN owner' = 1..(Len(book) + 1)
      /\ \A id \in DOMAIN book : owner'[id] = owner[id]
      /\ owner'[Len(book) + 1] = c
  BY BookRows, AppendProperties, LenProperties
<1>5. owner' \in [DOMAIN book' -> Clients]
  BY <1>3, <1>4, LenProperties
<1>6. Service!TypeOK'
  BY <1>2, <1>3, BookRows DEF Service!TypeOK
<1> QED
  BY <1>3, <1>4, <1>5, <1>6, BookRows DEF Grows

\* Pay moves one unpaid row forward and keeps the others.
LEMMA PayGrows ==
    ASSUME TypeOK, NEW id, Service!Pay(id, Pret), UNCHANGED owner
    PROVE  /\ Grows
           /\ id \in DOMAIN book' /\ book'[id].status = "PLATITA"
<1>1. /\ id \in DOMAIN book /\ book[id].status = "REZERVARE"
      /\ book' = [book EXCEPT ![id].status = "PLATITA", ![id].incasat = Pret]
      /\ UNCHANGED overdue
  BY DEF Service!Pay, Service!Matches
<1>2. /\ DOMAIN book' = DOMAIN book /\ book' = [i \in DOMAIN book |-> book'[i]]
      /\ book'[id] = [book[id] EXCEPT !.status = "PLATITA", !.incasat = Pret]
      /\ \A i \in DOMAIN book \ {id} : book'[i] = book[i]
  BY <1>1, BookRows
<1>3. book'[id] \in Service!Booking /\ book'[id].status = "PLATITA"
  BY <1>1, <1>2, BookRows, ClientAssumption, SchemaAssumption DEF Service!Booking, Service!Statuses
<1> QED
  BY <1>1, <1>2, <1>3, BookRows, BookRewritten DEF Settled

\* Cancel moves one paid row forward and keeps the others.
LEMMA CancelGrows ==
    ASSUME TypeOK, NEW id, Service!Cancel(id), UNCHANGED owner
    PROVE  /\ Grows
           /\ id \in DOMAIN book' /\ book'[id].status = "ANULATA"
           /\ book'[id].incasat = book[id].incasat
           /\ book'[id].rambursat = book[id].incasat
<1>1. /\ id \in DOMAIN book /\ book[id].status = "PLATITA"
      /\ book' = [book EXCEPT ![id].status = "ANULATA", ![id].rambursat = book[id].incasat]
      /\ UNCHANGED overdue
  BY DEF Service!Cancel, Service!Matches
<1>2. /\ DOMAIN book' = DOMAIN book /\ book' = [i \in DOMAIN book |-> book'[i]]
      /\ book'[id] = [book[id] EXCEPT !.status = "ANULATA", !.rambursat = book[id].incasat]
      /\ \A i \in DOMAIN book \ {id} : book'[i] = book[i]
  BY <1>1, BookRows
<1>3. /\ book'[id] \in Service!Booking /\ book'[id].status = "ANULATA"
      /\ book'[id].incasat = book[id].incasat
      /\ book'[id].rambursat = book[id].incasat
  BY <1>1, <1>2, BookRows DEF Service!Booking, Service!Statuses
<1> QED
  BY <1>1, <1>2, <1>3, BookRows, BookRewritten DEF Settled

\* A clean-up moves unpaid rows forward and keeps the others.
LEMMA ExpireGrows ==
    ASSUME TypeOK, Service!Expire, UNCHANGED owner
    PROVE  Grows
<1>1. book' = Service!Expired(book, overdue) /\ UNCHANGED overdue
  BY DEF Service!Expire
<1>2. /\ DOMAIN book' = DOMAIN book /\ book' = [i \in DOMAIN book |-> book'[i]]
      /\ \A i \in DOMAIN book :
            \/ book'[i] = book[i]
            \/ /\ book[i].status = "REZERVARE"
               /\ book'[i] = [book[i] EXCEPT !.status = "EXPIRAT"]
  BY <1>1 DEF Service!Expired, Service!Expirabil
<1>3. \A b \in Service!Booking : [b EXCEPT !.status = "EXPIRAT"] \in Service!Booking
  BY DEF Service!Booking, Service!Statuses
<1>4. \A i \in DOMAIN book : book'[i] \in Service!Booking
  BY <1>2, <1>3, BookRows
<1> QED
  BY <1>1, <1>2, <1>4, BookRewritten DEF Settled

\* A step that leaves the service alone keeps the book.
LEMMA StutterGrows == ASSUME TypeOK, UNCHANGED service PROVE Grows
  BY DEF TypeOK, service, Grows, Service!TypeOK

-----------------------------------------------------------------------------
\* What is true of the calls.

Mine(c, r) == r \in Requests(DOMAIN book) /\ (r.op # "rezervare" => owner[r.id] = c)

\* An answer tells its client what the book says, and goes on being true.
Truthful(c, r, a) ==
    /\ a \in Answers(DOMAIN book)
    /\ a.status = "success" => r.op = "rezervare" /\ owner[a.id] = c
    /\ a.status = "paid" => r.op = "plata" /\ book[r.id].status \in Settled
    /\ a.status = "refunded" =>
          /\ r.op = "anulare"
          /\ book[r.id].status = "ANULATA"
          /\ book[r.id].rambursat = book[r.id].incasat /\ a.amount = book[r.id].incasat

\* A request stays a request when the book has more ids.
LEMMA RequestsGrow ==
    ASSUME Grows, NEW r \in Requests(DOMAIN book) PROVE r \in Requests(DOMAIN book')
  BY DEF Grows, Requests

\* An answer stays an answer when the book has more ids.
LEMMA AnswersGrow ==
    ASSUME Grows, NEW a \in Answers(DOMAIN book) PROVE a \in Answers(DOMAIN book')
  BY DEF Grows, Answers

\* A request that is no reservation names an id of the book.
LEMMA RequestKinds ==
    ASSUME NEW ids, NEW r \in Requests(ids)
    PROVE  \/ r.op = "rezervare" /\ r.room \in Rooms /\ r.ora \in Times
           \/ r.op \in {"plata", "anulare"} /\ r.id \in ids
  BY DEF Requests

\* A request for an own reservation stays one while the book grows.
LEMMA MineStays ==
    ASSUME Grows, NEW c, NEW r, Mine(c, r) PROVE Mine(c, r)'
<1>1. r \in Requests(DOMAIN book') /\ (r.op # "rezervare" => r.id \in DOMAIN book)
  BY RequestsGrow, RequestKinds DEF Mine
<1> QED
  BY <1>1 DEF Mine, Grows

\* What an answer says stays true while the book grows.
LEMMA TruthStays ==
    ASSUME Grows, NEW c, NEW r, NEW a, Mine(c, r), Truthful(c, r, a)
    PROVE  Truthful(c, r, a)'
<1>1. r.op # "rezervare" => r.id \in DOMAIN book
  BY RequestKinds DEF Mine
<1>2. a \in Answers(DOMAIN book') /\ (a.status = "success" => a.id \in DOMAIN book)
  BY AnswersGrow DEF Truthful, Answers, NoAnswer, Fail
<1> QED
  BY <1>1, <1>2 DEF Truthful, Grows

\* Running a request changes the book by one of its three operations.
LEMMA RunGrows ==
    ASSUME TypeOK, NEW c \in Clients, NEW r \in Requests(DOMAIN book), Run(c, r)
    PROVE  Grows
<1>1. CASE ~Granted(r)
  BY <1>1, StutterGrows DEF Run
<1>2. CASE Granted(r) /\ r.op = "rezervare"
  <2>1. Service!Reserve(r.room, r.ora) /\ owner' = Append(owner, c)
    BY <1>2 DEF Run
  <2> QED
    BY <1>2, <2>1, RequestKinds, ReserveGrows
<1>3. CASE Granted(r) /\ r.op = "plata"
  <2>1. Service!Pay(r.id, Pret) /\ UNCHANGED owner
    BY <1>3 DEF Run
  <2> QED
    BY <2>1, PayGrows
<1>4. CASE Granted(r) /\ r.op = "anulare"
  <2>1. Service!Cancel(r.id) /\ UNCHANGED owner
    BY <1>4 DEF Run
  <2> QED
    BY <2>1, CancelGrows
<1> QED
  BY <1>1, <1>2, <1>3, <1>4, RequestKinds

\* The answer to a request is true in the step that runs it.
LEMMA AnswerIsTrue ==
    ASSUME TypeOK, NEW c \in Clients, NEW r, Mine(c, r), Run(c, r), NEW a, a = Answer(r)
    PROVE  Truthful(c, r, a)'
<1>0. /\ r \in Requests(DOMAIN book)
      /\ Grows
  BY RunGrows DEF Mine
<1>1. CASE ~Granted(r)
  <2>1. a = Fail
    BY <1>1 DEF Answer
  <2> QED
    BY <2>1 DEF Truthful, Fail, Answers
<1>2. CASE Granted(r) /\ r.op = "rezervare"
  <2>1. a = [status |-> "success", id |-> Len(book) + 1]
    BY <1>2 DEF Answer
  <2>2. Len(book) + 1 \in DOMAIN book' /\ owner'[Len(book) + 1] = c
    <3>1. Service!Reserve(r.room, r.ora) /\ owner' = Append(owner, c)
      BY <1>2 DEF Run
    <3> QED
      BY <1>0, <1>2, <3>1, RequestKinds, ReserveGrows
  <2>3. a \in Answers(DOMAIN book')
    BY <2>1, <2>2 DEF Answers
  <2> QED
    BY <1>2, <2>1, <2>2, <2>3 DEF Truthful
<1>3. CASE Granted(r) /\ r.op = "plata"
  <2>1. a = [status |-> "paid"]
    BY <1>3 DEF Answer
  <2>2. r.id \in DOMAIN book' /\ book'[r.id].status = "PLATITA"
    <3>1. Service!Pay(r.id, Pret) /\ UNCHANGED owner
      BY <1>3 DEF Run
    <3> QED
      BY <3>1, PayGrows
  <2>3. a \in Answers(DOMAIN book')
    BY <2>1 DEF Answers
  <2> QED
    BY <1>3, <2>1, <2>2, <2>3 DEF Truthful, Settled
<1>4. CASE Granted(r) /\ r.op = "anulare"
  <2>1. a = [status |-> "refunded", amount |-> book[r.id].incasat]
    BY <1>4 DEF Answer
  <2>2. /\ book'[r.id].status = "ANULATA"
        /\ book'[r.id].incasat = book[r.id].incasat
        /\ book'[r.id].rambursat = book[r.id].incasat
    <3>1. Service!Cancel(r.id) /\ UNCHANGED owner
      BY <1>4 DEF Run
    <3> QED
      BY <3>1, CancelGrows
  <2>3. book[r.id].incasat \in Int
    BY <1>0, <1>4, RequestKinds, BookRows DEF Service!Booking
  <2>4. a \in Answers(DOMAIN book')
    BY <2>1, <2>3 DEF Answers
  <2> QED
    BY <1>4, <2>1, <2>2, <2>4 DEF Truthful
<1> QED
  BY <1>0, <1>1, <1>2, <1>3, <1>4, RequestKinds

-----------------------------------------------------------------------------
\* The inductive invariant: every call asks for its own client's reservation
\* and is answered truthfully, a page awaits one call at most, and what the
\* page shows is true of the reservation it shows.

CallsTrue(c) ==
    /\ \A k \in calls[c] : Mine(c, k.request) /\ Truthful(c, k.request, k.answer)
    /\ calls[c] # {} <=> app[c].loading
    /\ \A j, k \in calls[c] : j = k

Refunded(c, id) ==
    /\ owner[id] = c /\ book[id].status = "ANULATA"
    /\ book[id].rambursat = book[id].incasat /\ book[id].incasat = app[c].refundAmount

PageTrue(c) ==
    /\ app[c].rezervareId # Null => owner[app[c].rezervareId] = c
    /\ app[c].step = "PAYMENT" => app[c].rezervareId # Null
    /\ app[c].step = "SUCCESS" /\ app[c].rezervareId # Null =>
          book[app[c].rezervareId].status \in Settled
    /\ app[c].step = "CANCELLED" => \E id \in DOMAIN book : Refunded(c, id)
    /\ \A k \in calls[c] : k.request.op = "plata" => app[c].rezervareId \in {Null, k.request.id}

ClientInv == TypeOK /\ \A c \in Clients : CallsTrue(c) /\ PageTrue(c)

\* A page without a reservation holds no id of the book.
LEMMA NullIsNoId == ASSUME TypeOK PROVE Null \notin DOMAIN book
  BY BookRows, ClientAssumption

\* What the page shows stays true while the book grows.
LEMMA PageStays ==
    ASSUME TypeOK, Grows, NEW c \in Clients, PageTrue(c), app'[c] = app[c],
           \A k \in calls'[c] : \E j \in calls[c] : k.request = j.request
    PROVE  PageTrue(c)'
<1>1. app[c].rezervareId \in DOMAIN book \cup {Null}
  BY DEF TypeOK, Pages
<1>2. app[c].step = "CANCELLED" => \E id \in DOMAIN book' : Refunded(c, id)'
  BY DEF PageTrue, Refunded, Grows
<1>3. app[c].rezervareId # Null => owner'[app[c].rezervareId] = c
  BY <1>1 DEF PageTrue, Grows
<1>4. app[c].step = "SUCCESS" /\ app[c].rezervareId # Null =>
        book'[app[c].rezervareId].status \in Settled
  BY <1>1 DEF PageTrue, Grows
<1>5. \A k \in calls'[c] : k.request.op = "plata" => app[c].rezervareId \in {Null, k.request.id}
  BY DEF PageTrue
<1> QED
  BY <1>2, <1>3, <1>4, <1>5 DEF PageTrue

\* A client a step does not touch keeps its truth.
LEMMA OthersStay ==
    ASSUME TypeOK, Grows, NEW c \in Clients, CallsTrue(c), PageTrue(c),
           app'[c] = app[c], calls'[c] = calls[c]
    PROVE  CallsTrue(c)' /\ PageTrue(c)'
<1>1. \A k \in calls[c] : Mine(c, k.request)' /\ Truthful(c, k.request, k.answer)'
  BY MineStays, TruthStays DEF CallsTrue
<1>2. CallsTrue(c)'
  BY <1>1 DEF CallsTrue
<1> QED
  BY <1>2, PageStays

\* The types grow with the book.
LEMMA TypesStay ==
    ASSUME TypeOK, Grows
    PROVE  /\ app \in [Clients -> Pages(DOMAIN book')]
           /\ calls \in [Clients -> SUBSET [request : Requests(DOMAIN book'),
                                          answer : Answers(DOMAIN book')]]
           /\ abandoned \subseteq [client : Clients, request : Requests(DOMAIN book')]
<1>1. /\ Pages(DOMAIN book) \subseteq Pages(DOMAIN book')
      /\ Requests(DOMAIN book) \subseteq Requests(DOMAIN book')
      /\ Answers(DOMAIN book) \subseteq Answers(DOMAIN book')
  BY RequestsGrow, AnswersGrow DEF Grows, Pages
<1>2. [request : Requests(DOMAIN book), answer : Answers(DOMAIN book)]
        \subseteq [request : Requests(DOMAIN book'), answer : Answers(DOMAIN book')]
  BY <1>1
<1>3. [client : Clients, request : Requests(DOMAIN book)]
        \subseteq [client : Clients, request : Requests(DOMAIN book')]
  BY <1>1
<1> QED
  BY <1>1, <1>2, <1>3 DEF TypeOK

\* Serve, and the requests nobody awaits any more.
LEMMA ServeNext ==
    ASSUME ClientInv, NEW c \in Clients, Serve(c)
    PROVE  ClientInv'
<1>1. PICK k \in calls[c] :
         /\ k.answer = NoAnswer
         /\ Run(c, k.request)
         /\ calls' = [calls EXCEPT ![c] = (@ \ {k}) \cup {[k EXCEPT !.answer = Answer(k.request)]}]
         /\ UNCHANGED <<app, abandoned>>
  BY DEF Serve
<1>2. TypeOK /\ Mine(c, k.request) /\ calls[c] = {k}
  BY DEF ClientInv, CallsTrue
<1>3. k \in [request : Requests(DOMAIN book), answer : Answers(DOMAIN book)]
  BY <1>2 DEF TypeOK
<1>4. Grows
  BY <1>1, <1>2, RunGrows DEF Mine
<1>12. PICK j : j = [k EXCEPT !.answer = Answer(k.request)]
  OBVIOUS
<1>5. j.request = k.request /\ j.answer = Answer(k.request) /\ calls'[c] = {j}
  BY <1>12, <1>1, <1>2, <1>3 DEF TypeOK
<1>6. Truthful(c, j.request, j.answer)' /\ Mine(c, j.request)'
  <2>1. \A a : a = Answer(k.request) => Truthful(c, k.request, a)'
    BY <1>1, <1>2, AnswerIsTrue
  <2>2. Mine(c, k.request)'
    BY <1>2, <1>4, MineStays
  <2> QED
    BY <1>5, <2>1, <2>2
<1>7. j \in [request : Requests(DOMAIN book'), answer : Answers(DOMAIN book')]
  <2>1. j \in [request : {j.request}, answer : {j.answer}]
    BY <1>12, <1>3, <1>5
  <2> QED
    BY <1>6, <2>1 DEF Truthful, Mine
<1>8. TypeOK'
  <2>1. calls' = [calls EXCEPT ![c] = {j}]
    BY <1>12, <1>1, <1>2
  <2> QED
    BY <1>1, <1>2, <1>4, <1>7, <2>1, TypesStay DEF TypeOK, Grows
<1>9. CallsTrue(c)'
  <2>1. app[c].loading
    BY <1>2 DEF ClientInv, CallsTrue
  <2> QED
    BY <1>1, <1>5, <1>6, <2>1 DEF CallsTrue
<1>10. PageTrue(c)'
  BY <1>1, <1>2, <1>4, <1>5, PageStays DEF ClientInv
<1>11. \A d \in Clients \ {c} : CallsTrue(d)' /\ PageTrue(d)'
  BY <1>1, <1>2, <1>4, OthersStay DEF ClientInv, TypeOK
<1> QED
  BY <1>8, <1>9, <1>10, <1>11 DEF ClientInv

\* A step of the service preserves the invariant.
LEMMA ServiceNext ==
    ASSUME ClientInv, ServeAbandoned \/ Expire \/ TimeoutPasses
    PROVE  ClientInv'
<1>1. TypeOK
  BY DEF ClientInv
<1>2. Grows /\ UNCHANGED <<app, calls>> /\ abandoned' \subseteq abandoned
  <2>1. CASE ServeAbandoned
    <3>1. PICK a \in abandoned : Run(a.client, a.request) /\ abandoned' = abandoned \ {a}
                                 /\ UNCHANGED <<app, calls>>
      BY <2>1 DEF ServeAbandoned
    <3>2. a.client \in Clients /\ a.request \in Requests(DOMAIN book)
      BY <1>1 DEF TypeOK
    <3> QED
      BY <1>1, <3>1, <3>2, RunGrows
  <2>2. CASE Expire
    BY <1>1, <2>2, ExpireGrows DEF Expire
  <2>3. CASE TimeoutPasses
    <3>1. UNCHANGED <<book, owner, app, calls, abandoned>> /\ overdue' = overdue + 1 /\ overdue < Len(book)
      BY <2>3 DEF TimeoutPasses, Service!TimeoutPasses
    <3>2. overdue' \in 0..Len(book)
      BY <1>1, <3>1, BookRows
    <3> QED
      BY <1>1, <3>1, <3>2 DEF TypeOK, Grows, Service!TypeOK
  <2> QED
    BY <2>1, <2>2, <2>3
<1>3. TypeOK'
  BY <1>1, <1>2, TypesStay DEF TypeOK, Grows
<1> QED
  BY <1>1, <1>2, <1>3, OthersStay DEF ClientInv

\* A step of one page: the service stands still, and so do the others.
LEMMA PageStep ==
    ASSUME ClientInv, NEW c \in Clients, UNCHANGED service,
           NEW page \in Pages(DOMAIN book), app' = [app EXCEPT ![c] = page],
           NEW ks \in SUBSET [request : Requests(DOMAIN book), answer : Answers(DOMAIN book)],
           calls' = [calls EXCEPT ![c] = ks],
           abandoned' \subseteq [client : Clients, request : Requests(DOMAIN book)],
           CallsTrue(c)', PageTrue(c)'
    PROVE  ClientInv'
<1>1. TypeOK /\ Grows
  BY StutterGrows DEF ClientInv
<1>2. TypeOK'
  BY <1>1 DEF TypeOK, Grows, service
<1>3. \A d \in Clients \ {c} : CallsTrue(d)' /\ PageTrue(d)'
  BY <1>1, OthersStay DEF ClientInv, TypeOK
<1> QED
  BY <1>2, <1>3 DEF ClientInv

\* The calls of a page stand still, or are fewer, and it awaits none or the
\* one it awaited.
LEMMA CallsStay ==
    ASSUME ClientInv, NEW c \in Clients, UNCHANGED service, calls'[c] \subseteq calls[c],
           calls'[c] # {} <=> app'[c].loading
    PROVE  CallsTrue(c)'
<1>1. \A k \in calls'[c] : Mine(c, k.request)' /\ Truthful(c, k.request, k.answer)'
  BY StutterGrows, MineStays, TruthStays DEF ClientInv, CallsTrue
<1> QED
  BY <1>1 DEF ClientInv, CallsTrue

\* Posting an own request preserves the invariant.
LEMMA PostNext ==
    ASSUME ClientInv, NEW c \in Clients, NEW r, Mine(c, r), Post(c, r),
           r.op = "plata" => app[c].rezervareId = r.id
    PROVE  ClientInv'
<1>1. TypeOK /\ Grows
  BY StutterGrows DEF ClientInv, Post
<1>2. PICK k : k = [request |-> r, answer |-> NoAnswer]
  OBVIOUS
<1>3. PICK page : page = [app[c] EXCEPT !.loading = TRUE]
  OBVIOUS
<1>4. /\ k.request = r /\ k.answer = NoAnswer
      /\ k \in [request : Requests(DOMAIN book), answer : Answers(DOMAIN book)]
  BY <1>2 DEF Mine, Answers
<1>5. /\ app[c] \in Pages(DOMAIN book)
      /\ page \in Pages(DOMAIN book) /\ page.loading
      /\ page.step = app[c].step /\ page.rezervareId = app[c].rezervareId
      /\ page.refundAmount = app[c].refundAmount
  BY <1>1, <1>3 DEF TypeOK, Pages
<1>6. /\ app' = [app EXCEPT ![c] = page] /\ app'[c] = page
      /\ calls[c] = {} /\ calls' = [calls EXCEPT ![c] = {k}] /\ calls'[c] = {k}
      /\ UNCHANGED <<service, abandoned>>
  BY <1>1, <1>2, <1>3 DEF Post, TypeOK, ClientInv, CallsTrue
<1>7. CallsTrue(c)'
  <2>1. Truthful(c, r, NoAnswer)
    BY DEF Truthful, NoAnswer, Answers
  <2>2. Mine(c, r)' /\ Truthful(c, r, k.answer)'
    BY <1>1, <1>4, <2>1, MineStays, TruthStays
  <2> QED
    BY <1>4, <1>5, <1>6, <2>2 DEF CallsTrue
<1>8. PageTrue(c)'
  BY <1>4, <1>5, <1>6 DEF PageTrue, ClientInv, Refunded, service
<1> QED
  BY <1>1, <1>4, <1>5, <1>6, <1>7, <1>8, PageStep DEF TypeOK

\* The three buttons post own requests only.
LEMMA SubmitNext ==
    ASSUME ClientInv, NEW c \in Clients, Submit(c)
    PROVE  ClientInv'
<1>1. app[c].rezervareId \in DOMAIN book \cup {Null}
  BY DEF ClientInv, TypeOK, Pages
<1>2. CASE SubmitRezervare(c)
  <2>1. PICK room \in Rooms, ora \in Times : Post(c, [op |-> "rezervare", room |-> room, ora |-> ora])
    BY <1>2 DEF SubmitRezervare
  <2>2. Mine(c, [op |-> "rezervare", room |-> room, ora |-> ora])
    BY DEF Mine, Requests
  <2> QED
    BY <2>1, <2>2, PostNext
<1>3. ASSUME NEW o \in {"plata", "anulare"}, app[c].rezervareId # Null,
             Post(c, [op |-> o, id |-> app[c].rezervareId])
      PROVE  ClientInv'
  <2>1. PICK r : r = [op |-> o, id |-> app[c].rezervareId]
    OBVIOUS
  <2>2. Mine(c, r)
    BY <1>1, <1>3, <2>1 DEF Mine, Requests, ClientInv, PageTrue
  <2> QED
    BY <1>3, <2>1, <2>2, PostNext
<1>4. CASE SubmitPlata(c)
  BY <1>3, <1>4 DEF SubmitPlata, ClientInv, PageTrue
<1>5. CASE SubmitAnulare(c)
  BY <1>3, <1>5 DEF SubmitAnulare
<1> QED
  BY <1>2, <1>4, <1>5 DEF Submit

\* What a page shows when it is loaded.
LEMMA FreshPage == Fresh \in Pages(DOMAIN book) /\ Fresh.step = "FORM" /\ Fresh.rezervareId = Null
  BY ClientAssumption DEF Fresh, Pages, Steps

\* The timer and the button that starts over.
LEMMA TimerNext ==
    ASSUME ClientInv, NEW c \in Clients, Timer(c) \/ ResetFlow(c)
    PROVE  ClientInv'
<1>0. TypeOK /\ app[c] \in Pages(DOMAIN book)
  BY DEF ClientInv, TypeOK
<1>1. /\ UNCHANGED <<service, calls, abandoned>>
      /\ \E page \in Pages(DOMAIN book) :
            /\ app' = [app EXCEPT ![c] = page]
            /\ page.loading = app[c].loading
            /\ \/ page.step = app[c].step /\ page.rezervareId = app[c].rezervareId
                  /\ page.refundAmount = app[c].refundAmount
               \/ page.step = "EXPIRED" /\ page.rezervareId = app[c].rezervareId
               \/ page.step = "FORM" /\ page.rezervareId = Null
  <2>1. CASE Tick(c)
    <3>1. PICK page : page = [app[c] EXCEPT !.timeLeft = @ - 1]
      OBVIOUS
    <3>2. /\ page \in Pages(DOMAIN book)
          /\ page.loading = app[c].loading /\ page.refundAmount = app[c].refundAmount
          /\ page.step = app[c].step /\ page.rezervareId = app[c].rezervareId
      BY <1>0, <2>1, <3>1, ClientAssumption DEF Tick, Pages
    <3> QED
      BY <1>0, <2>1, <3>1, <3>2 DEF Tick, TypeOK
  <2>2. CASE Expires(c)
    <3>1. PICK page : page = [app[c] EXCEPT !.step = "EXPIRED"]
      OBVIOUS
    <3>2. /\ page \in Pages(DOMAIN book)
          /\ page.loading = app[c].loading
          /\ page.step = "EXPIRED" /\ page.rezervareId = app[c].rezervareId
      BY <1>0, <3>1 DEF Pages, Steps
    <3> QED
      BY <1>0, <2>2, <3>1, <3>2 DEF Expires, TypeOK
  <2>3. CASE ResetFlow(c)
    <3>1. PICK page : page = [Fresh EXCEPT !.loading = app[c].loading]
      OBVIOUS
    <3>2. /\ page \in Pages(DOMAIN book)
          /\ page.loading = app[c].loading
          /\ page.step = "FORM" /\ page.rezervareId = Null
      BY <1>0, <3>1, FreshPage DEF Pages
    <3> QED
      BY <1>0, <2>3, <3>1, <3>2 DEF ResetFlow, Reia, TypeOK
  <2> QED
    BY <2>1, <2>2, <2>3 DEF Timer
<1>2. PICK page \in Pages(DOMAIN book) :
            /\ app' = [app EXCEPT ![c] = page]
            /\ page.loading = app[c].loading
            /\ \/ page.step = app[c].step /\ page.rezervareId = app[c].rezervareId
                  /\ page.refundAmount = app[c].refundAmount
               \/ page.step = "EXPIRED" /\ page.rezervareId = app[c].rezervareId
               \/ page.step = "FORM" /\ page.rezervareId = Null
  BY <1>1
<1>3. app'[c] = page /\ calls'[c] = calls[c] /\ calls' = [calls EXCEPT ![c] = calls[c]]
  BY <1>0, <1>1, <1>2 DEF TypeOK
<1>4. CallsTrue(c)'
  <2>1. calls'[c] # {} <=> app'[c].loading
    BY <1>2, <1>3 DEF ClientInv, CallsTrue
  <2> QED
    BY <1>1, <1>3, <2>1, CallsStay
<1>5. PageTrue(c)'
  BY <1>1, <1>2, <1>3 DEF PageTrue, ClientInv, Refunded, service
<1>6. abandoned' \subseteq [client : Clients, request : Requests(DOMAIN book)]
  BY <1>0, <1>1 DEF TypeOK
<1>7. calls[c] \in SUBSET [request : Requests(DOMAIN book), answer : Answers(DOMAIN book)]
  BY <1>0 DEF TypeOK
<1> QED
  BY <1>1, <1>2, <1>3, <1>4, <1>5, <1>6, <1>7, PageStep

\* A failed connection and a reload.
LEMMA LossNext ==
    ASSUME ClientInv, NEW c \in Clients, ConnectionFails(c) \/ Reload(c)
    PROVE  ClientInv'
<1>0. TypeOK /\ app[c] \in Pages(DOMAIN book)
  BY DEF ClientInv, TypeOK
<1>1. /\ UNCHANGED service /\ calls' = [calls EXCEPT ![c] = {}]
      /\ \E ks \in SUBSET calls[c] : Abandon(c, ks)
      /\ \E page \in Pages(DOMAIN book) :
            /\ app' = [app EXCEPT ![c] = page]
            /\ ~page.loading
            /\ \/ page.step = app[c].step /\ page.rezervareId = app[c].rezervareId
                  /\ page.refundAmount = app[c].refundAmount
               \/ page.step = "FORM" /\ page.rezervareId = Null
  <2>1. CASE ConnectionFails(c)
    <3>1. PICK k \in calls[c] :
             /\ app' = [app EXCEPT ![c] = Finally(@)]
             /\ calls' = [calls EXCEPT ![c] = @ \ {k}]
             /\ Abandon(c, {k})
             /\ UNCHANGED service
      BY <2>1 DEF ConnectionFails
    <3>2. calls' = [calls EXCEPT ![c] = {}]
      BY <1>0, <3>1 DEF ClientInv, CallsTrue, TypeOK
    <3>3. PICK page : page = Finally(app[c])
      OBVIOUS
    <3>4. /\ page \in Pages(DOMAIN book) /\ ~page.loading
          /\ page.step = app[c].step /\ page.rezervareId = app[c].rezervareId
          /\ page.refundAmount = app[c].refundAmount
      BY <1>0, <3>3 DEF Finally, Pages
    <3>5. app' = [app EXCEPT ![c] = page]
      BY <1>0, <3>1, <3>3 DEF TypeOK
    <3> QED
      BY <3>1, <3>2, <3>4, <3>5
  <2>2. CASE Reload(c)
    <3>1. ~Fresh.loading
      BY DEF Fresh
    <3> QED
      BY <2>2, <3>1, FreshPage DEF Reload
  <2> QED
    BY <2>1, <2>2
<1>2. PICK page \in Pages(DOMAIN book) :
            /\ app' = [app EXCEPT ![c] = page]
            /\ ~page.loading
            /\ \/ page.step = app[c].step /\ page.rezervareId = app[c].rezervareId
                  /\ page.refundAmount = app[c].refundAmount
               \/ page.step = "FORM" /\ page.rezervareId = Null
  BY <1>1
<1>3. app'[c] = page /\ calls'[c] = {}
  BY <1>0, <1>1, <1>2 DEF TypeOK
<1>4. CallsTrue(c)'
  BY <1>2, <1>3 DEF CallsTrue
<1>5. PageTrue(c)'
  BY <1>1, <1>2, <1>3 DEF PageTrue, ClientInv, Refunded, service
<1>6. abandoned' \subseteq [client : Clients, request : Requests(DOMAIN book)]
  <2>1. PICK ks \in SUBSET calls[c] : Abandon(c, ks)
    BY <1>1
  <2>2. \A k \in ks : k.request \in Requests(DOMAIN book)
    BY <1>0 DEF TypeOK
  <2>3. {[client |-> c, request |-> k.request] : k \in {j \in ks : j.answer = NoAnswer}}
          \subseteq [client : Clients, request : Requests(DOMAIN book)]
    BY <2>2
  <2> QED
    BY <1>0, <2>1, <2>3 DEF Abandon, TypeOK
<1> QED
  BY <1>1, <1>2, <1>4, <1>5, <1>6, PageStep

\* A continuation: what it shows is what the answer says.
LEMMA ContinueNext ==
    ASSUME ClientInv, NEW c \in Clients, Continue(c)
    PROVE  ClientInv'
<1>0. TypeOK /\ app[c] \in Pages(DOMAIN book)
  BY DEF ClientInv, TypeOK
<1>1. PICK k \in calls[c] :
         /\ k.answer # NoAnswer
         /\ app' = [app EXCEPT ![c] = Finally(Shown(@, k.request.op, k.answer))]
         /\ calls' = [calls EXCEPT ![c] = @ \ {k}]
         /\ UNCHANGED <<service, abandoned>>
  BY DEF Continue
<1>2. Mine(c, k.request) /\ Truthful(c, k.request, k.answer) /\ calls[c] = {k}
  BY DEF ClientInv, CallsTrue
<1>3. PICK page : page = Finally(Shown(app[c], k.request.op, k.answer))
  OBVIOUS
<1>4. app' = [app EXCEPT ![c] = page] /\ app'[c] = page
      /\ calls' = [calls EXCEPT ![c] = {}] /\ calls'[c] = {}
  BY <1>0, <1>1, <1>2, <1>3 DEF TypeOK
<1>5. /\ k.answer.status = "success" => k.answer.id \in DOMAIN book
      /\ k.answer.status = "refunded" => k.answer.amount \in Int
  BY <1>2 DEF Truthful, Answers, NoAnswer, Fail
<1>6. /\ page \in Pages(DOMAIN book) /\ ~page.loading
      /\ \/ /\ k.answer.status = "success"
            /\ page.step = "PAYMENT" /\ page.rezervareId = k.answer.id
         \/ /\ k.request.op = "plata" /\ k.answer.status = "paid"
            /\ page.step = "SUCCESS" /\ page.rezervareId = app[c].rezervareId
         \/ /\ k.answer.status = "refunded" /\ page.refundAmount = k.answer.amount
            /\ page.step = "CANCELLED" /\ page.rezervareId = app[c].rezervareId
         \/ page.step = "FAIL" /\ page.rezervareId = app[c].rezervareId
         \/ /\ page.step = app[c].step /\ page.rezervareId = app[c].rezervareId
            /\ page.refundAmount = app[c].refundAmount
  <2> DEFINE a == app[c]
             op == k.request.op
             answer == k.answer
  <2> USE <1>0, <1>3, <1>5, ClientAssumption DEF Pages, Steps, Finally
  <2>1. CASE op = "rezervare" /\ answer.status = "success"
    <3>1. Shown(a, op, answer)
            = [a EXCEPT !.step = "PAYMENT", !.timeLeft = Countdown, !.rezervareId = answer.id]
      BY <2>1 DEF Shown, IdPrimit, Fail
    <3>2. answer.id \in DOMAIN book /\ Countdown \in 0..Countdown
      BY <2>1
    <3> QED
      BY <2>1, <3>1, <3>2
  <2>2. CASE op = "plata" /\ answer.status = "paid"
    <3>1. Shown(a, op, answer) = [a EXCEPT !.step = "SUCCESS"]
      BY <2>2 DEF Shown, Fail
    <3> QED
      BY <2>2, <3>1
  <2>3. CASE op = "anulare" /\ answer.status = "refunded"
    <3>1. Shown(a, op, answer)
            = [a EXCEPT !.step = "CANCELLED", !.refundAmount = answer.amount]
      BY <2>3 DEF Shown, Rambursat
    <3> QED
      BY <2>3, <3>1
  <2>4. CASE op # "anulare" /\ answer = Fail
    <3>1. Shown(a, op, answer) = [a EXCEPT !.step = "FAIL"]
      BY <2>4 DEF Shown, Fail
    <3> QED
      BY <3>1
  <2>5. CASE /\ ~(op = "rezervare" /\ answer.status = "success")
             /\ ~(op = "plata" /\ answer.status = "paid")
             /\ ~(op = "anulare" /\ answer.status = "refunded")
             /\ ~(op # "anulare" /\ answer = Fail)
    <3>1. Shown(a, op, answer) = a
      BY <2>5 DEF Shown, Rambursat
    <3> QED
      BY <3>1
  <2> QED
    BY <2>1, <2>2, <2>3, <2>4, <2>5
<1>7. CallsTrue(c)'
  BY <1>4, <1>6 DEF CallsTrue
<1>8. UNCHANGED <<book, owner>>
  BY <1>1 DEF service
<1>9. PageTrue(c)'
  <2>1. page.rezervareId # Null => owner[page.rezervareId] = c
    BY <1>2, <1>6 DEF ClientInv, PageTrue, Truthful
  <2>2. page.step = "PAYMENT" => page.rezervareId # Null
    BY <1>0, <1>5, <1>6, NullIsNoId DEF ClientInv, PageTrue
  <2>3. page.step = "SUCCESS" /\ page.rezervareId # Null => book[page.rezervareId].status \in Settled
    <3>1. k.request.op = "plata" /\ k.answer.status = "paid" =>
            /\ book[k.request.id].status \in Settled
            /\ app[c].rezervareId \in {Null, k.request.id}
      BY <1>2 DEF ClientInv, PageTrue, Truthful
    <3> QED
      BY <1>6, <3>1 DEF ClientInv, PageTrue
  <2>4. page.step = "CANCELLED" => \E id \in DOMAIN book : Refunded(c, id)'
    <3>1. k.answer.status = "refunded" /\ page.refundAmount = k.answer.amount =>
            k.request.id \in DOMAIN book /\ Refunded(c, k.request.id)'
      BY <1>2, <1>4, <1>8, RequestKinds DEF Mine, Truthful, Refunded
    <3>2. app[c].step = "CANCELLED" /\ page.refundAmount = app[c].refundAmount =>
            \E id \in DOMAIN book : Refunded(c, id)'
      BY <1>4, <1>8 DEF ClientInv, PageTrue, Refunded
    <3> QED
      BY <1>6, <3>1, <3>2
  <2> QED
    BY <1>4, <1>8, <2>1, <2>2, <2>3, <2>4 DEF PageTrue
<1>10. abandoned' \subseteq [client : Clients, request : Requests(DOMAIN book)]
  BY <1>0, <1>1 DEF TypeOK
<1> QED
  BY <1>1, <1>4, <1>6, <1>7, <1>9, <1>10, PageStep

\* The invariant holds when no page has been used.
LEMMA ClientInvInit == Init => ClientInv
<1> SUFFICES ASSUME Init PROVE ClientInv
  OBVIOUS
<1>1. /\ book = <<>> /\ overdue = 0 /\ owner = <<>> /\ abandoned = {}
      /\ app = [c \in Clients |-> Fresh] /\ calls = [c \in Clients |-> {}]
  BY DEF Init, Service!Init
<1>2. Service!TypeOK
  BY <1>1, EmptySeq DEF Service!TypeOK
<1>3. DOMAIN book = {} /\ owner \in [DOMAIN book -> Clients]
  BY <1>1
<1>4. TypeOK
  BY <1>1, <1>2, <1>3, FreshPage DEF TypeOK
<1>5. ~Fresh.loading
  BY DEF Fresh
<1> QED
  BY <1>1, <1>4, <1>5, FreshPage DEF ClientInv, CallsTrue, PageTrue

\* Every step preserves the invariant.
LEMMA ClientInvNext == ClientInv /\ [Next]_vars => ClientInv'
<1> SUFFICES ASSUME ClientInv, [Next]_vars PROVE ClientInv'
  OBVIOUS
<1>1. ASSUME NEW c \in Clients, Submit(c) \/ ResetFlow(c) \/ Runs(c) \/ Timer(c)
      PROVE  ClientInv'
  BY <1>1, SubmitNext, TimerNext, ServeNext, ContinueNext DEF Runs
<1>2. ASSUME NEW c \in Clients, ConnectionFails(c) \/ Reload(c)
      PROVE  ClientInv'
  BY <1>2, LossNext
<1>3. CASE ServeAbandoned \/ Expire \/ TimeoutPasses
  BY <1>3, ServiceNext
<1>4. CASE UNCHANGED vars
  <2>1. TypeOK /\ Grows /\ UNCHANGED <<app, calls, abandoned>>
    BY <1>4, StutterGrows DEF ClientInv, vars, service
  <2>2. TypeOK'
    BY <2>1, TypesStay DEF TypeOK, Grows
  <2> QED
    BY <2>1, <2>2, OthersStay DEF ClientInv
<1> QED
  BY <1>1, <1>2, <1>3, <1>4 DEF Next

\* The invariant holds in every reachable state.
LEMMA ClientInvAlways == Spec => []ClientInv
  BY ClientInvInit, ClientInvNext, PTL DEF Spec

-----------------------------------------------------------------------------
\* TypeOK holds in every reachable state.
THEOREM TypeCorrect == Spec => []TypeOK
<1>1. ClientInv => TypeOK
  BY DEF ClientInv
<1> QED
  BY <1>1, ClientInvAlways, PTL

\* For every number of browsers, a page only shows, pays and cancels what
\* its own client reserved.
THEOREM OnlyOwnReservations == Spec => []OwnReservation
<1>1. ClientInv => OwnReservation
  BY DEF ClientInv, CallsTrue, PageTrue, Mine, OwnReservation
<1> QED
  BY <1>1, ClientInvAlways, PTL

\* No late answer confirms a reservation that was not paid.
THEOREM ConfirmationsAreTrue == Spec => []ConfirmedIsPaid
<1>1. ClientInv => ConfirmedIsPaid
  BY DEF ClientInv, PageTrue, Settled, ConfirmedIsPaid
<1> QED
  BY <1>1, ClientInvAlways, PTL

\* A page that reports a refund reports one the service has made.
THEOREM RefundsAreTrue == Spec => []CancelledIsRefunded
<1>1. ClientInv => CancelledIsRefunded
  BY DEF ClientInv, PageTrue, Refunded, CancelledIsRefunded
<1> QED
  BY <1>1, ClientInvAlways, PTL

-----------------------------------------------------------------------------
\* What a page says of its own money, when no connection fails.

Unpaid(id) == ~Matches(book, id, "PLATITA")

\* The reservation a page refuses is unpaid, or the page is about to learn that
\* it is paid; and a page to reserve on holds no older reservation.
PageUncharged(c) ==
    LET id == app[c].rezervareId IN
    /\ app[c].step = "FORM" => id = Null
    /\ app[c].step \in {"PAYMENT", "FAIL", "EXPIRED"} /\ id # Null =>
          \/ Unpaid(id)
          \/ \E k \in calls[c] :
                k.request.op = "plata" /\ k.request.id = id /\ k.answer.status = "paid"

\* A late answer to a reservation does not meet an older one, a late answer to
\* a payment does not meet a confirmed one, and a seat not shown yet is unpaid.
CallsUncharged(c) ==
    \A k \in calls[c] :
        /\ k.request.op = "rezervare" => app[c].rezervareId = Null
        /\ k.request.op = "plata" =>
              app[c].rezervareId = Null \/ app[c].step \in {"PAYMENT", "EXPIRED"}
        /\ k.answer.status = "success" => Unpaid(k.answer.id)

\* No payment is on its way that no page awaits and that is for a reservation
\* the page shows, or will show.
Apart(c) ==
    \A a \in abandoned : a.request.op = "plata" =>
        /\ app[c].rezervareId # a.request.id
        /\ \A k \in calls[c] : k.answer.status = "success" => k.answer.id # a.request.id

Uncharged(c) == PageUncharged(c) /\ CallsUncharged(c) /\ Apart(c)
UnchargedInv == ClientInv /\ \A c \in Clients : Uncharged(c)

\* Only a payment pays, and only the reservation it names.
LEMMA OnlyPaymentPays ==
    ASSUME TypeOK, NEW c \in Clients, NEW r \in Requests(DOMAIN book), Run(c, r),
           NEW id \in DOMAIN book, Unpaid(id), ~Unpaid(id)'
    PROVE  Granted(r) /\ r.op = "plata" /\ r.id = id
<1> USE DEF Unpaid, Matches, Service!Matches
<1>1. CASE ~Granted(r)
  BY <1>1 DEF Run, service
<1>2. CASE Granted(r) /\ r.op = "rezervare"
  <2>1. PICK row \in Service!Booking : book' = Append(book, row)
    <3>1. Service!Reserve(r.room, r.ora) /\ r.room \in Rooms /\ r.ora \in Times
      BY <1>2, RequestKinds DEF Run
    <3> QED
      BY <3>1 DEF Service!Reserve, Service!Booking, Service!Statuses
  <2>2. book'[id] = book[id]
    BY <2>1, BookRows, AppendProperties
  <2> QED
    BY <2>2
<1>3. CASE Granted(r) /\ r.op = "plata"
  <2>1. Service!Pay(r.id, Pret)
    BY <1>3 DEF Run
  <2> QED
    BY <1>3, <2>1 DEF Service!Pay
<1>4. CASE Granted(r) /\ r.op = "anulare"
  <2>1. Service!Cancel(r.id)
    BY <1>4 DEF Run
  <2>2. /\ book' = [book EXCEPT ![r.id].status = "ANULATA", ![r.id].rambursat = book[r.id].incasat]
        /\ r.id \in DOMAIN book /\ book[r.id] \in Service!Booking
    BY <2>1, BookRows DEF Service!Cancel
  <2>3. book'[id] = IF id = r.id
          THEN [book[id] EXCEPT !.status = "ANULATA", !.rambursat = book[id].incasat] ELSE book[id]
    BY <2>2
  <2> QED
    BY <2>2, <2>3 DEF Service!Booking
<1> QED
  BY <1>1, <1>2, <1>3, <1>4, RequestKinds

\* A new reservation has an id of its own and is unpaid.
LEMMA NewIsUnpaid ==
    ASSUME TypeOK, NEW c \in Clients, NEW r \in Requests(DOMAIN book), Run(c, r),
           NEW a, a = Answer(r), a.status = "success"
    PROVE  a.id \notin DOMAIN book /\ Unpaid(a.id)'
<1>1. Granted(r) /\ r.op = "rezervare" /\ a.id = Len(book) + 1
  BY RequestKinds DEF Answer, Fail
<1>2. r.room \in Rooms /\ r.ora \in Times /\ Service!Reserve(r.room, r.ora)
  BY <1>1, RequestKinds DEF Run
<1>3. PICK row \in Service!Booking : book' = Append(book, row) /\ row.status = "REZERVARE"
  BY <1>2 DEF Service!Reserve, Service!Booking, Service!Statuses
<1>4. book'[a.id] = row
  BY <1>1, <1>3, BookRows, AppendProperties
<1> QED
  BY <1>1, <1>3, <1>4, BookRows DEF Unpaid, Matches

\* A clean-up pays nothing.
LEMMA ExpirePaysNothing ==
    ASSUME Service!Expire, NEW id \in DOMAIN book, TypeOK, Unpaid(id)
    PROVE  Unpaid(id)'
<1>1. book[id] \in Service!Booking
  BY BookRows
<1>2. book'[id] = book[id] \/ book'[id] = [book[id] EXCEPT !.status = "EXPIRAT"]
  BY DEF Service!Expire, Service!Expired, Service!Expirabil
<1> QED
  BY <1>1, <1>2 DEF Unpaid, Matches, Service!Booking

\* A page that stands still stays uncharged as long as none of its
\* reservations is paid.
LEMMA StandsUncharged ==
    ASSUME TypeOK, NEW c \in Clients, PageUncharged(c), CallsUncharged(c),
           app'[c] = app[c], calls'[c] = calls[c],
           \A id \in DOMAIN book :
              /\ Unpaid(id)
              /\ id = app[c].rezervareId
                    \/ \E k \in calls[c] : k.answer.status = "success" /\ k.answer.id = id
              => Unpaid(id)'
    PROVE  PageUncharged(c)' /\ CallsUncharged(c)'
<1>1. app[c].rezervareId \in DOMAIN book \cup {Null}
  BY DEF TypeOK, Pages
<1>2. \A k \in calls[c] : k.answer.status = "success" => k.answer.id \in DOMAIN book
  BY DEF TypeOK, Answers, NoAnswer, Fail
<1>3. PageUncharged(c)'
  BY <1>1 DEF PageUncharged
<1>4. CallsUncharged(c)'
  BY <1>2 DEF CallsUncharged
<1> QED
  BY <1>3, <1>4

\* A step of one page leaves the others uncharged; what it abandons are
\* requests for reservations of its own.
LEMMA OthersUncharged ==
    ASSUME UnchargedInv, ClientInv', NEW c \in Clients, UNCHANGED service, Uncharged(c)',
           \A d \in Clients \ {c} : app'[d] = app[d] /\ calls'[d] = calls[d],
           \A a \in abandoned' \ abandoned : a.request.op = "plata" => owner[a.request.id] = c
    PROVE  UnchargedInv'
<1> SUFFICES ASSUME NEW d \in Clients \ {c} PROVE Uncharged(d)'
  BY DEF UnchargedInv
<1>1. TypeOK /\ TypeOK' /\ Uncharged(d)
  BY DEF UnchargedInv, ClientInv
<1>2. \A id : Unpaid(id)' <=> Unpaid(id)
  BY DEF Unpaid, service
<1>3. PageUncharged(d)' /\ CallsUncharged(d)'
  BY <1>1, <1>2, StandsUncharged DEF Uncharged
<1>4. Apart(d)'
  <2> SUFFICES ASSUME NEW a \in abandoned', a.request.op = "plata"
               PROVE  /\ app[d].rezervareId # a.request.id
                      /\ \A k \in calls[d] : k.answer.status = "success" => k.answer.id # a.request.id
    BY DEF Apart
  <2>1. CASE a \in abandoned
    BY <1>1, <2>1 DEF Uncharged, Apart
  <2>2. CASE a \notin abandoned
    <3>1. owner[a.request.id] = c /\ a.request.id \in DOMAIN book
      BY <1>1, <2>2, RequestKinds DEF TypeOK, service
    <3>2. app[d].rezervareId = Null \/ owner[app[d].rezervareId] = d
      BY DEF UnchargedInv, ClientInv, PageTrue
    <3>3. \A k \in calls[d] : k.answer.status = "success" => owner[k.answer.id] = d
      BY DEF UnchargedInv, ClientInv, CallsTrue, Truthful
    <3> QED
      BY <1>1, <3>1, <3>2, <3>3, NullIsNoId
  <2> QED
    BY <2>1, <2>2
<1> QED
  BY <1>3, <1>4 DEF Uncharged

\* A page only turns to paying from an empty form and to cancelling from a
\* confirmation, so a new call keeps it uncharged.
LEMMA PostUncharged ==
    ASSUME UnchargedInv, ClientInv', NEW c \in Clients, NEW r, Post(c, r),
           r.op = "rezervare" => app[c].rezervareId = Null,
           r.op = "plata" => app[c].step = "PAYMENT"
    PROVE  UnchargedInv'
<1>1. PICK k : k = [request |-> r, answer |-> NoAnswer]
  OBVIOUS
<1>2. /\ calls[c] = {} /\ calls'[c] = {k} /\ k.request = r /\ k.answer.status = "none"
      /\ app'[c].step = app[c].step /\ app'[c].rezervareId = app[c].rezervareId
      /\ UNCHANGED <<service, abandoned>>
      /\ \A d \in Clients \ {c} : app'[d] = app[d] /\ calls'[d] = calls[d]
  BY <1>1 DEF Post, UnchargedInv, ClientInv, CallsTrue, TypeOK, Pages, NoAnswer
<1>3. PageUncharged(c)' /\ CallsUncharged(c)' /\ Apart(c)'
  BY <1>2 DEF UnchargedInv, Uncharged, PageUncharged, CallsUncharged, Apart, Unpaid, service
<1> QED
  BY <1>2, <1>3, OthersUncharged DEF Uncharged

\* The three buttons.
LEMMA SubmitUncharged ==
    ASSUME UnchargedInv, ClientInv', NEW c \in Clients, Submit(c)
    PROVE  UnchargedInv'
<1>1. CASE SubmitRezervare(c)
  <2>1. app[c].rezervareId = Null
    BY <1>1 DEF SubmitRezervare, UnchargedInv, Uncharged, PageUncharged
  <2>2. PICK room \in Rooms, ora \in Times : Post(c, [op |-> "rezervare", room |-> room, ora |-> ora])
    BY <1>1 DEF SubmitRezervare
  <2> QED
    BY <2>1, <2>2, PostUncharged
<1>2. CASE SubmitPlata(c)
  BY <1>2, PostUncharged DEF SubmitPlata
<1>3. CASE SubmitAnulare(c)
  BY <1>3, PostUncharged DEF SubmitAnulare
<1> QED
  BY <1>1, <1>2, <1>3 DEF Submit

\* The timer and the button that starts over.
LEMMA TimerUncharged ==
    ASSUME UnchargedInv, ClientInv', NEW c \in Clients, Timer(c) \/ ResetFlow(c)
    PROVE  UnchargedInv'
<1>1. /\ UNCHANGED <<service, calls, abandoned>>
      /\ \A d \in Clients \ {c} : app'[d] = app[d]
      /\ \/ app'[c].step = app[c].step /\ app'[c].rezervareId = app[c].rezervareId
         \/ /\ app[c].step = "PAYMENT" /\ app'[c].step = "EXPIRED"
            /\ app'[c].rezervareId = app[c].rezervareId
         \/ app'[c].step = "FORM" /\ app'[c].rezervareId = Null
  BY DEF Timer, Tick, Expires, ResetFlow, Reia, Fresh, UnchargedInv, ClientInv, TypeOK, Pages
<1>2. PageUncharged(c)' /\ CallsUncharged(c)' /\ Apart(c)'
  <2>1. app'[c].rezervareId = Null => Apart(c)'
    <3>1. \A a \in abandoned : a.request.op = "plata" => a.request.id # Null
      BY RequestKinds, NullIsNoId DEF UnchargedInv, ClientInv, TypeOK
    <3> QED
      BY <1>1, <3>1 DEF UnchargedInv, Uncharged, Apart
  <2>2. Uncharged(c) /\ \A id : Unpaid(id)' <=> Unpaid(id)
    BY <1>1 DEF UnchargedInv, Unpaid, service
  <2>3. PageUncharged(c)'
    BY <1>1, <2>2 DEF Uncharged, PageUncharged
  <2>4. CallsUncharged(c)'
    BY <1>1, <2>2 DEF Uncharged, CallsUncharged
  <2>5. app'[c].rezervareId = app[c].rezervareId => Apart(c)'
    BY <1>1, <2>2 DEF Uncharged, Apart
  <2> QED
    BY <1>1, <2>1, <2>3, <2>4, <2>5
<1> QED
  BY <1>1, <1>2, OthersUncharged DEF Uncharged

\* A reload leaves a page that says nothing, and requests of its own client.
LEMMA ReloadUncharged ==
    ASSUME UnchargedInv, ClientInv', NEW c \in Clients, Reload(c)
    PROVE  UnchargedInv'
<1>1. /\ app'[c] = Fresh /\ calls'[c] = {} /\ UNCHANGED service
      /\ \A d \in Clients \ {c} : app'[d] = app[d] /\ calls'[d] = calls[d]
  BY DEF Reload, UnchargedInv, ClientInv, TypeOK
<1>2. \A a \in abandoned' : a.request.op = "plata" => a.request.id # Null
  BY <1>1, RequestKinds, NullIsNoId DEF UnchargedInv, ClientInv, TypeOK, service
<1>3. PageUncharged(c)' /\ CallsUncharged(c)' /\ Apart(c)'
  BY <1>1, <1>2, FreshPage DEF PageUncharged, CallsUncharged, Apart
<1>4. \A a \in abandoned' \ abandoned : a.request.op = "plata" => owner[a.request.id] = c
  <2>1. \A a \in abandoned' \ abandoned : \E k \in calls[c] : a.request = k.request
    BY DEF Reload, Abandon
  <2> QED
    BY <2>1 DEF UnchargedInv, ClientInv, CallsTrue, Mine
<1> QED
  BY <1>1, <1>3, <1>4, OthersUncharged DEF Uncharged

\* A continuation: the page refuses only what was refused.
LEMMA ContinueUncharged ==
    ASSUME UnchargedInv, ClientInv', NEW c \in Clients, Continue(c)
    PROVE  UnchargedInv'
<1>0. TypeOK /\ app[c] \in Pages(DOMAIN book) /\ Uncharged(c)
  BY DEF UnchargedInv, ClientInv, TypeOK
<1>1. PICK k \in calls[c] :
         /\ k.answer # NoAnswer
         /\ app' = [app EXCEPT ![c] = Finally(Shown(@, k.request.op, k.answer))]
         /\ calls' = [calls EXCEPT ![c] = @ \ {k}]
         /\ UNCHANGED <<service, abandoned>>
  BY DEF Continue
<1>2. Mine(c, k.request) /\ Truthful(c, k.request, k.answer) /\ calls[c] = {k}
  BY DEF UnchargedInv, ClientInv, CallsTrue
<1>3. /\ app'[c] = Finally(Shown(app[c], k.request.op, k.answer)) /\ calls'[c] = {}
      /\ \A d \in Clients \ {c} : app'[d] = app[d] /\ calls'[d] = calls[d]
  BY <1>0, <1>1, <1>2 DEF TypeOK
<1>4. \/ /\ k.answer.status = "success"
         /\ app'[c].step = "PAYMENT" /\ app'[c].rezervareId = k.answer.id
      \/ /\ app'[c].step \in {"SUCCESS", "CANCELLED"}
         /\ app'[c].rezervareId = app[c].rezervareId
      \/ /\ k.request.op \in {"rezervare", "plata"} /\ k.answer.status = "fail"
         /\ app'[c].step = "FAIL" /\ app'[c].rezervareId = app[c].rezervareId
      \/ /\ ~(k.request.op = "plata" /\ k.answer.status = "paid")
         /\ app'[c].step = app[c].step /\ app'[c].rezervareId = app[c].rezervareId
  <2>1. k.request.op \in {"rezervare", "plata", "anulare"}
    BY <1>2, RequestKinds DEF Mine
  <2>2. app'[c] = [Shown(app[c], k.request.op, k.answer) EXCEPT !.loading = FALSE]
    BY <1>3 DEF Finally
  <2> QED
    BY <1>0, <2>1, <2>2 DEF Shown, IdPrimit, Rambursat, Fail, Pages
<1>5. \A id : Unpaid(id)' <=> Unpaid(id)
  BY <1>1 DEF Unpaid, service
<1>6. PageUncharged(c)'
  <2>1. k.answer.status = "success" => Unpaid(k.answer.id) /\ k.answer.id # Null
    BY <1>0, <1>2, NullIsNoId DEF Uncharged, CallsUncharged, Truthful, Answers, NoAnswer, Fail
  <2>2. /\ k.request.op = "rezervare" => app[c].rezervareId = Null
        /\ k.request.op = "plata" => app[c].rezervareId = Null \/ app[c].step \in {"PAYMENT", "EXPIRED"}
    BY <1>0 DEF Uncharged, CallsUncharged
  <2>3. app[c].step \in {"PAYMENT", "FAIL", "EXPIRED"} /\ app[c].rezervareId # Null =>
           Unpaid(app[c].rezervareId) \/ (k.request.op = "plata" /\ k.answer.status = "paid")
    BY <1>0, <1>2 DEF Uncharged, PageUncharged
  <2>4. app[c].step = "FORM" => app[c].rezervareId = Null
    BY <1>0 DEF Uncharged, PageUncharged
  <2> QED
    BY <1>4, <1>5, <2>1, <2>2, <2>3, <2>4 DEF PageUncharged
<1>7. CallsUncharged(c)'
  BY <1>3 DEF CallsUncharged
<1>8. Apart(c)'
  BY <1>0, <1>1, <1>3, <1>4 DEF Uncharged, Apart
<1> QED
  BY <1>1, <1>3, <1>6, <1>7, <1>8, OthersUncharged DEF Uncharged

\* The service runs an awaited request: if it charges, the page will know.
LEMMA ServeUncharged ==
    ASSUME UnchargedInv, ClientInv', NEW c \in Clients, Serve(c)
    PROVE  UnchargedInv'
<1>0. TypeOK /\ ClientInv /\ \A d \in Clients : Uncharged(d)
  BY DEF UnchargedInv, ClientInv
<1>1. PICK k \in calls[c] :
         /\ k.answer = NoAnswer
         /\ Run(c, k.request)
         /\ calls' = [calls EXCEPT ![c] = (@ \ {k}) \cup {[k EXCEPT !.answer = Answer(k.request)]}]
         /\ UNCHANGED <<app, abandoned>>
  BY DEF Serve
<1>2. /\ Mine(c, k.request) /\ calls[c] = {k}
      /\ k \in [request : Requests(DOMAIN book), answer : Answers(DOMAIN book)]
  BY <1>0 DEF ClientInv, CallsTrue, TypeOK
<1>3. PICK j : j = [k EXCEPT !.answer = Answer(k.request)]
  OBVIOUS
<1>4. /\ j.request = k.request /\ j.answer = Answer(k.request) /\ calls'[c] = {j}
      /\ \A d \in Clients \ {c} : calls'[d] = calls[d]
  BY <1>0, <1>1, <1>2, <1>3 DEF TypeOK
<1>5. k.request \in Requests(DOMAIN book)
  BY <1>2 DEF Mine
<1>6. ASSUME NEW id \in DOMAIN book, Unpaid(id), ~Unpaid(id)'
      PROVE  /\ owner[id] = c
             /\ j.request.op = "plata" /\ j.request.id = id /\ j.answer.status = "paid"
  <2>1. Granted(k.request) /\ k.request.op = "plata" /\ k.request.id = id
    BY <1>0, <1>1, <1>5, <1>6, OnlyPaymentPays
  <2> QED
    BY <1>2, <1>4, <2>1 DEF Answer, Mine
<1>7. j.answer.status = "success" => j.answer.id \notin DOMAIN book /\ Unpaid(j.answer.id)'
  BY <1>0, <1>1, <1>4, <1>5, NewIsUnpaid
<1>8. PageUncharged(c)' /\ CallsUncharged(c)'
  <2>1. app[c].rezervareId \in DOMAIN book \cup {Null} /\ Uncharged(c)
    BY <1>0 DEF TypeOK, Pages
  <2>2. k.answer.status = "none"
    BY <1>1 DEF NoAnswer
  <2>3. PageUncharged(c)'
    BY <1>1, <1>2, <1>4, <1>6, <2>1, <2>2 DEF Uncharged, PageUncharged
  <2>4. CallsUncharged(c)'
    BY <1>1, <1>2, <1>4, <1>7, <2>1 DEF Uncharged, CallsUncharged
  <2> QED
    BY <2>3, <2>4
<1>9. Apart(c)'
  <2>1. \A a \in abandoned : a.request.op = "plata" => a.request.id \in DOMAIN book
    BY <1>0, RequestKinds DEF TypeOK
  <2> QED
    BY <1>0, <1>1, <1>4, <1>7, <2>1 DEF Uncharged, Apart
<1>10. ASSUME NEW d \in Clients \ {c} PROVE Uncharged(d)'
  <2>1. app[d].rezervareId # Null => owner[app[d].rezervareId] = d
    BY <1>0 DEF ClientInv, PageTrue
  <2>2. \A i \in calls[d] : i.answer.status = "success" => owner[i.answer.id] = d
    BY <1>0 DEF ClientInv, CallsTrue, Truthful
  <2>3. PageUncharged(d)' /\ CallsUncharged(d)'
    BY <1>0, <1>1, <1>4, <1>6, <2>1, <2>2, NullIsNoId, StandsUncharged DEF Uncharged
  <2>4. Apart(d)'
    BY <1>0, <1>1, <1>4 DEF Uncharged, Apart
  <2> QED
    BY <2>3, <2>4 DEF Uncharged
<1> QED
  BY <1>8, <1>9, <1>10 DEF UnchargedInv, Uncharged

\* What runs without a page waiting for it charges no page's reservation.
LEMMA ServiceUncharged ==
    ASSUME UnchargedInv, ClientInv', ServeAbandoned \/ Expire \/ TimeoutPasses \/ UNCHANGED vars
    PROVE  UnchargedInv'
<1>0. TypeOK /\ \A c \in Clients : Uncharged(c)
  BY DEF UnchargedInv, ClientInv
<1>1. UNCHANGED <<app, calls>> /\ abandoned' \subseteq abandoned
  BY DEF ServeAbandoned, Expire, TimeoutPasses, vars
<1>2. ASSUME NEW c \in Clients, NEW id \in DOMAIN book, Unpaid(id),
             id = app[c].rezervareId
                \/ \E k \in calls[c] : k.answer.status = "success" /\ k.answer.id = id
      PROVE  Unpaid(id)'
  <2>1. CASE ServeAbandoned
    <3>1. PICK a \in abandoned : Run(a.client, a.request)
      BY <2>1 DEF ServeAbandoned
    <3>2. a.client \in Clients /\ a.request \in Requests(DOMAIN book)
      BY <1>0 DEF TypeOK
    <3>3. ~(a.request.op = "plata" /\ a.request.id = id)
      BY <1>0, <1>2 DEF Uncharged, Apart
    <3> QED
      BY <1>0, <1>2, <3>1, <3>2, <3>3, OnlyPaymentPays
  <2>2. CASE Expire
    BY <1>0, <1>2, <2>2, ExpirePaysNothing DEF Expire
  <2>3. CASE TimeoutPasses \/ UNCHANGED vars
    BY <1>2, <2>3 DEF TimeoutPasses, Service!TimeoutPasses, vars, Unpaid
  <2> QED
    BY <2>1, <2>2, <2>3
<1>3. ASSUME NEW c \in Clients PROVE Uncharged(c)'
  <2>1. PageUncharged(c)' /\ CallsUncharged(c)'
    BY <1>0, <1>1, <1>2, StandsUncharged DEF Uncharged
  <2>2. Apart(c)'
    BY <1>0, <1>1 DEF Uncharged, Apart
  <2> QED
    BY <2>1, <2>2 DEF Uncharged
<1> QED
  BY <1>3 DEF UnchargedInv

\* As long as no connection fails, a page that says that the payment failed or
\* that the time is over, and waits for nothing, tells the truth: its client
\* was not charged, whatever pages are reloaded and whatever answers are late.
THEOREM RefusalsAreTrue ==
    ASSUME "connection" \notin Faults
    PROVE  Spec => []RefusedIsNotCharged
<1>1. Init => UnchargedInv
  <2> SUFFICES ASSUME Init PROVE UnchargedInv
    OBVIOUS
  <2>1. /\ abandoned = {}
        /\ app = [c \in Clients |-> Fresh] /\ calls = [c \in Clients |-> {}]
    BY DEF Init
  <2> QED
    BY <2>1, ClientInvInit, FreshPage
    DEF UnchargedInv, Uncharged, PageUncharged, CallsUncharged, Apart
<1>2. UnchargedInv /\ [Next]_vars => UnchargedInv'
  <2> SUFFICES ASSUME UnchargedInv, [Next]_vars PROVE UnchargedInv'
    OBVIOUS
  <2>1. ClientInv'
    BY ClientInvNext DEF UnchargedInv
  <2>2. \A c \in Clients : ~ConnectionFails(c)
    BY DEF ConnectionFails
  <2> QED
    BY <2>1, <2>2, SubmitUncharged, TimerUncharged, ReloadUncharged, ContinueUncharged,
       ServeUncharged, ServiceUncharged DEF Next, Runs
<1>3. UnchargedInv => RefusedIsNotCharged
  BY DEF UnchargedInv, Uncharged, PageUncharged, Unpaid, RefusedIsNotCharged
<1> QED
  BY <1>1, <1>2, <1>3, PTL DEF Spec

-----------------------------------------------------------------------------
\* The browsers and the promise of the service.

\* Whatever request is run, awaited or not, and however often it was sent, the
\* book takes one step of its own or none.
LEMMA RunPromised ==
    ASSUME TypeOK, NEW c, NEW r \in Requests(DOMAIN book), Run(c, r)
    PROVE  [Service!Next]_(Service!vars)
<1>1. CASE ~Granted(r)
  BY <1>1 DEF Run, service, Service!vars
<1>2. CASE Granted(r) /\ r.op = "rezervare"
  <2>1. r.room \in Rooms /\ r.ora \in Times /\ Service!Reserve(r.room, r.ora)
    BY <1>2, RequestKinds DEF Run
  <2> QED
    BY <2>1 DEF Service!Next
<1>3. CASE Granted(r) /\ r.op = "plata"
  <2>1. r.id \in DOMAIN book /\ Pret \in Sume /\ Service!Pay(r.id, Pret)
    BY <1>3, RequestKinds, ClientAssumption DEF Run
  <2> QED
    BY <2>1 DEF Service!Next
<1>4. CASE Granted(r) /\ r.op = "anulare"
  <2>1. r.id \in DOMAIN book /\ Service!Cancel(r.id)
    BY <1>4, RequestKinds DEF Run
  <2> QED
    BY <2>1 DEF Service!Next
<1> QED
  BY <1>1, <1>2, <1>3, <1>4, RequestKinds

\* Browsers that send requests again, give them up or are reloaded ask nothing
\* of the service that its promise, the specification WorkshopService
\* implements, does not cover.
THEOREM ClientKeepsToPromise == Spec => Service!Spec
<1>1. Init => Service!Init
  BY DEF Init
<1>2. TypeOK /\ [Next]_vars => [Service!Next]_(Service!vars)
  <2> SUFFICES ASSUME TypeOK, [Next]_vars PROVE [Service!Next]_(Service!vars)
    OBVIOUS
  <2>1. ASSUME NEW c \in Clients, Serve(c)
        PROVE  [Service!Next]_(Service!vars)
    <3>1. PICK k \in calls[c] : Run(c, k.request)
      BY <2>1 DEF Serve
    <3>2. k.request \in Requests(DOMAIN book)
      BY DEF TypeOK
    <3> QED
      BY <3>1, <3>2, RunPromised
  <2>2. CASE ServeAbandoned
    <3>1. PICK a \in abandoned : Run(a.client, a.request)
      BY <2>2 DEF ServeAbandoned
    <3>2. a.request \in Requests(DOMAIN book)
      BY DEF TypeOK
    <3> QED
      BY <3>1, <3>2, RunPromised
  <2>3. CASE Expire \/ TimeoutPasses
    BY <2>3 DEF Expire, TimeoutPasses, Service!Next
  <2>4. CASE UNCHANGED service
    BY <2>4 DEF service, Service!vars
  <2> QED
    BY <2>1, <2>2, <2>3, <2>4
    DEF Next, Submit, SubmitRezervare, SubmitPlata, SubmitAnulare, Post, ResetFlow, Runs, Timer,
        Tick, Expires, Continue, ConnectionFails, Reload, vars, service
<1> QED
  BY <1>1, <1>2, TypeCorrect, PTL DEF Spec, Service!Spec

=============================================================================
