------------------------------- MODULE Client -------------------------------
(***************************************************************************)
(* The React client, client/src/App.jsx, in several browsers, against the  *)
(* service as Bookings promises it.  A call of axios is an element of      *)
(* calls until its continuation has run; a connection may fail before or   *)
(* after the server has run the request, and a page may be reloaded.       *)
(* React applies the state a continuation sets in one render, so each      *)
(* continuation, with its finally, is one step.                            *)
(***************************************************************************)
EXTENDS Schema

CONSTANTS
    Clients,     \* the browsers
    Null,        \* rezervareId before a reservation
    Countdown,   \* the seconds a client is given to pay
    Pret,        \* the amount every payment carries
    MaxId,       \* bound: reservations made and asked for
    Faults       \* what may go wrong: "connection", "reload"

ASSUME ClientAssumption ==
    /\ Null \notin Nat
    /\ Countdown \in Nat \ {0}
    /\ Pret \in Sume
    /\ MaxId \in Nat
    /\ Faults \subseteq {"connection", "reload"}

VARIABLES
    book, overdue,  \* the service's book of reservations
    owner,          \* client_name of each reservation
    app,            \* the useState variables of each page
    calls,          \* the calls each page awaits
    abandoned       \* requests still to be run that no page awaits

vars == <<book, overdue, owner, app, calls, abandoned>>
service == <<book, overdue, owner>>

Service == INSTANCE Bookings

NoAnswer == [status |-> "none"]
Fail == [status |-> "fail"]

Fresh == [step |-> "FORM", loading |-> FALSE, timeLeft |-> Countdown,
          rezervareId |-> Null, refundAmount |-> 0]

Init ==
    /\ Service!Init
    /\ owner = <<>>
    /\ app = [c \in Clients |-> Fresh]
    /\ calls = [c \in Clients |-> {}]
    /\ abandoned = {}

-----------------------------------------------------------------------------
\* The service runs a request: it is granted and changes the book, or not.

Granted(r) ==
    CASE r.op = "rezervare" -> Load(book, r.room, OraGrup[r.ora]) < MaxCap(r.room)
      [] r.op = "plata"     -> Matches(book, r.id, "REZERVARE")
      [] r.op = "anulare"   -> Matches(book, r.id, "PLATITA")

Answer(r) ==
    IF ~Granted(r) THEN Fail
    ELSE CASE r.op = "rezervare" -> [status |-> "success", id |-> Len(book) + 1]
           [] r.op = "plata"     -> [status |-> "paid"]
           [] r.op = "anulare"   -> [status |-> "refunded", amount |-> book[r.id].incasat]

Run(c, r) ==
    IF Granted(r)
    THEN /\ CASE r.op = "rezervare" -> Service!Reserve(r.room, r.ora)
              [] r.op = "plata"     -> Service!Pay(r.id, Pret)
              [] r.op = "anulare"   -> Service!Cancel(r.id)
         /\ owner' = IF r.op = "rezervare" THEN Append(owner, c) ELSE owner
    ELSE UNCHANGED service

Serve(c) ==
    \E k \in calls[c] :
        /\ k.answer = NoAnswer
        /\ Run(c, k.request)
        /\ calls' = [calls EXCEPT ![c] = (@ \ {k}) \cup {[k EXCEPT !.answer = Answer(k.request)]}]
        /\ UNCHANGED <<app, abandoned>>

ServeAbandoned ==
    \E a \in abandoned :
        /\ Run(a.client, a.request)
        /\ abandoned' = abandoned \ {a}
        /\ UNCHANGED <<app, calls>>

\* The audit and the clock.
Expire == Service!Expire /\ UNCHANGED <<owner, app, calls, abandoned>>
TimeoutPasses == Service!TimeoutPasses /\ UNCHANGED <<owner, app, calls, abandoned>>

-----------------------------------------------------------------------------
\* The page.  Every handler's button is disabled while a call is awaited.

Post(c, r) ==
    /\ ~app[c].loading
    /\ app' = [app EXCEPT ![c].loading = TRUE]
    /\ calls' = [calls EXCEPT ![c] = @ \cup {[request |-> r, answer |-> NoAnswer]}]
    /\ UNCHANGED <<service, abandoned>>

\* The bound MaxId counts the requests that may still become a reservation.
Pending ==
    Cardinality({a \in abandoned : a.request.op = "rezervare"})
        + Cardinality({c \in Clients : \E k \in calls[c] :
                          k.request.op = "rezervare" /\ k.answer = NoAnswer})

SubmitRezervare(c) ==
    \E room \in Rooms, ora \in Times :
        /\ app[c].step = "FORM"
        /\ Deschis(ora)
        /\ Len(book) + Pending < MaxId
        /\ Post(c, [op |-> "rezervare", room |-> room, ora |-> ora])

SubmitPlata(c) ==
    /\ app[c].step = "PAYMENT"
    /\ Post(c, [op |-> "plata", id |-> app[c].rezervareId])

SubmitAnulare(c) ==
    /\ app[c].step = "SUCCESS"
    /\ app[c].rezervareId # Null
    /\ Post(c, [op |-> "anulare", id |-> app[c].rezervareId])

\* The buttons that start over stay enabled while a call is awaited; the
\* variant also forgets that one is.
Uita(a) == Fresh
Reia(a) == [Fresh EXCEPT !.loading = a.loading]

ResetFlow(c) ==
    /\ app[c].step \in {"SUCCESS", "CANCELLED", "FAIL", "EXPIRED"}
    /\ app' = [app EXCEPT ![c] = Reia(@)]
    /\ UNCHANGED <<service, calls, abandoned>>

Tick(c) ==
    /\ app[c].step = "PAYMENT" /\ app[c].timeLeft > 0
    /\ app' = [app EXCEPT ![c].timeLeft = @ - 1]
    /\ UNCHANGED <<service, calls, abandoned>>

\* The variant counts on below zero.
NuLaZero(a) == a.timeLeft < 0
LaZero(a) == a.timeLeft = 0

Expires(c) ==
    /\ app[c].step = "PAYMENT" /\ LaZero(app[c])
    /\ app' = [app EXCEPT ![c].step = "EXPIRED"]
    /\ UNCHANGED <<service, calls, abandoned>>

-----------------------------------------------------------------------------
\* The continuations of the three calls.

\* The variants show the newest reservation of the book, and take any answer
\* to a cancellation for a refund.
IdNou(answer) == Len(book)
IdPrimit(answer) == answer.id
OriceRaspuns(answer) == TRUE
Rambursat(answer) == answer.status = "refunded"

\* What the page shows once the answer is there, whatever it shows now.
Shown(a, op, answer) ==
    CASE op = "rezervare" /\ answer.status = "success" ->
           [a EXCEPT !.step = "PAYMENT", !.timeLeft = Countdown, !.rezervareId = IdPrimit(answer)]
      [] op = "plata" /\ answer.status = "paid" -> [a EXCEPT !.step = "SUCCESS"]
      [] op = "anulare" /\ Rambursat(answer) ->
           [a EXCEPT !.step = "CANCELLED",
                     !.refundAmount = IF answer.status = "refunded" THEN answer.amount ELSE @]
      [] op # "anulare" /\ answer = Fail -> [a EXCEPT !.step = "FAIL"]
      [] OTHER -> a

\* finally, and a variant without it.
FaraFinally(a) == a
Finally(a) == [a EXCEPT !.loading = FALSE]

Continue(c) ==
    \E k \in calls[c] :
        /\ k.answer # NoAnswer
        /\ app' = [app EXCEPT ![c] = Finally(Shown(@, k.request.op, k.answer))]
        /\ calls' = [calls EXCEPT ![c] = @ \ {k}]
        /\ UNCHANGED <<service, abandoned>>

\* Requests of these calls that were on their way may still be run, or not.
Abandon(c, ks) ==
    \E A \in SUBSET {[client |-> c, request |-> k.request] : k \in {j \in ks : j.answer = NoAnswer}} :
        abandoned' = abandoned \cup A

\* catch: an error is noted, the page stays where it is.
ConnectionFails(c) ==
    \E k \in calls[c] :
        /\ "connection" \in Faults
        /\ app' = [app EXCEPT ![c] = Finally(@)]
        /\ calls' = [calls EXCEPT ![c] = @ \ {k}]
        /\ Abandon(c, {k})
        /\ UNCHANGED service

Reload(c) ==
    /\ "reload" \in Faults
    /\ app' = [app EXCEPT ![c] = Fresh]
    /\ calls' = [calls EXCEPT ![c] = {}]
    /\ Abandon(c, calls[c])
    /\ UNCHANGED service

Submit(c) == SubmitRezervare(c) \/ SubmitPlata(c) \/ SubmitAnulare(c)
Runs(c) == Serve(c) \/ Continue(c)
Timer(c) == Tick(c) \/ Expires(c)

Next ==
    \/ \E c \in Clients : Submit(c) \/ ResetFlow(c) \/ Runs(c) \/ Timer(c)
    \/ \E c \in Clients : ConnectionFails(c) \/ Reload(c)
    \/ ServeAbandoned \/ Expire \/ TimeoutPasses

Spec == Init /\ [][Next]_vars

\* Users need not click; the service answers and the page's timer runs.
FairSpec == Spec /\ \A c \in Clients : WF_vars(Runs(c)) /\ WF_vars(Timer(c))

-----------------------------------------------------------------------------
Steps == {"FORM", "PAYMENT", "SUCCESS", "CANCELLED", "FAIL", "EXPIRED"}

Requests(ids) ==
    [op : {"rezervare"}, room : Rooms, ora : Times] \cup [op : {"plata", "anulare"}, id : ids]
Answers(ids) ==
    {NoAnswer, Fail, [status |-> "paid"]} \cup [status : {"success"}, id : ids]
        \cup [status : {"refunded"}, amount : Int]

Pages(ids) ==
    [step : Steps, loading : BOOLEAN, timeLeft : 0..Countdown,
     rezervareId : ids \cup {Null}, refundAmount : Int]

TypeOK ==
    /\ Service!TypeOK
    /\ owner \in [DOMAIN book -> Clients]
    /\ app \in [Clients -> Pages(DOMAIN book)]
    /\ calls \in [Clients -> SUBSET [request : Requests(DOMAIN book), answer : Answers(DOMAIN book)]]
    /\ abandoned \subseteq [client : Clients, request : Requests(DOMAIN book)]

\* Whatever is lost, late or reloaded, a page only shows, pays and cancels a
\* reservation its own client made.
OwnReservation ==
    \A c \in Clients :
        /\ app[c].rezervareId # Null => owner[app[c].rezervareId] = c
        /\ \A k \in calls[c] : k.request.op # "rezervare" => owner[k.request.id] = c

\* A page that says the reservation is confirmed speaks of one that was paid,
\* and at most cancelled since: a late answer never confirms a reservation made
\* after the request it answers.
ConfirmedIsPaid ==
    \A c \in Clients :
        app[c].step = "SUCCESS" /\ app[c].rezervareId # Null =>
            book[app[c].rezervareId].status \in {"PLATITA", "ANULATA"}

\* A page that says the money was given back says how much, and a cancelled
\* reservation of its client was given back exactly that.
CancelledIsRefunded ==
    \A c \in Clients :
        app[c].step = "CANCELLED" =>
            \E id \in DOMAIN book :
                /\ owner[id] = c /\ book[id].status = "ANULATA"
                /\ book[id].rambursat = book[id].incasat /\ book[id].incasat = app[c].refundAmount

\* A page that says the payment failed or the time is over, and waits for
\* nothing, has not been charged for the reservation it showed.
RefusedIsNotCharged ==
    \A c \in Clients :
        app[c].step \in {"FAIL", "EXPIRED"} /\ app[c].rezervareId # Null /\ calls[c] = {}
            => ~Matches(book, app[c].rezervareId, "PLATITA")

\* What a page says when its countdown is over: the seat was given back.
ExpiredIsFree ==
    \A c \in Clients :
        app[c].step = "EXPIRED" /\ app[c].rezervareId # Null
            => book[app[c].rezervareId].status \notin Active

\* The page of a confirmed reservation can cancel it.
ConfirmedCanCancel ==
    \A c \in Clients : app[c].step = "SUCCESS" => app[c].rezervareId # Null

\* The page to pay on never stays: the countdown ends it when nothing else does.
PaymentPageEnds ==
    \A c \in Clients : app[c].step = "PAYMENT" ~> app[c].step # "PAYMENT"

\* Disabled buttons come back, through an answer, an error or a reload.
ButtonsComeBack == \A c \in Clients : app[c].loading ~> ~app[c].loading
=============================================================================
