----------------------------- MODULE TripAgent -----------------------------
(***************************************************************************)
(* The agent of the consent demo, from the page to the service provider     *)
(* (examples/e2e-consent-demo/agent): the page script (web.ts), sign-in, POST *)
(* /api/plan, /api/call and /api/grants (server.ts), and the call with        *)
(* consent (consentAwareCall.ts), for one user.  TripTalk reads the          *)
(* messages, TripPlanner answers what is no question, and ConsentWindow is   *)
(* the window the user grants in.                                           *)
(*                                                                          *)
(* The page keeps the send button disabled while a turn is in flight, but   *)
(* not its chips and buttons: turns overlap.  The sessions and what was      *)
(* gathered are in the memory of the agent; the wallet is a file.           *)
(***************************************************************************)
EXTENDS TripPlanner, ConsentWindow

CONSTANTS
    Turn,      \* turns of the page that can be in flight at once
    MaxSaid,   \* bound: messages that answer no open question and select no option
    MaxPicks,  \* bound: options selected
    MaxCalls,  \* bound: bookings ever planned
    MaxFaults  \* bound: requests that fail, restarts and reloads

ASSUME TripAssumption ==
    MaxSaid \in Nat /\ MaxPicks \in Nat /\ MaxCalls \in Nat /\ MaxFaults \in Nat

SpOf(i) == IF i \in Hotel THEN "hotel" ELSE "airline"

\* A turn of the page and its requests; a booking has a number, in the order
\* planned.
NoTurn == [pc |-> "idle", msg |-> Nothing, answering |-> FALSE, track |-> Unset,
           offered |-> {}, plan |-> NoPlan, n |-> 0]

NoCall == [item |-> Unset, n |-> 0]

VARIABLES
    visit,     \* "login", "in", or "lost": the agent forgot the session
    profile,   \* tripProfiles: what the agent has gathered
    grants,    \* the grants in the wallet
    turn,      \* the turns of the page
    awaiting,  \* awaitingAnswer
    track,     \* currentTrack
    asked,     \* the question shown last
    chips,     \* suggestions shown so far: they stay in the log
    shown,     \* options shown so far: their buttons stay in the log
    flights,   \* flightOptions and lastFlight
    hotels,    \* hotelOptions and lastHotel
    pending,   \* pending: the booking that waits for consent, or NoCall
    said,      \* unsolicited messages so far
    picked,    \* options selected so far
    called,    \* bookings planned so far: 1 .. called
    faults,    \* faults so far
    booked,    \* history: the bookings made
    declined,  \* history: bookings reported as not made
    twice,     \* history: a booking was made again
    crossed,   \* history: turns overlapped, or an old chip was tapped
    homeward   \* history: unasked, a message named the city the trip starts in

talk == <<awaiting, track, asked, chips>>
options == <<shown, flights, hotels>>
bookings == <<called, booked, declined, twice>>
noted == <<faults, crossed, homeward>>
vars == <<visit, profile, grants, turn, talk, options, pending, said, picked, bookings, noted, windowVars>>

PC == {"idle", "sent", "phrase", "plan", "replied", "call", "grant"}

TypeOK ==
    /\ visit \in {"login", "in", "lost"}
    /\ profile \in [Field -> Value]
    /\ grants \subseteq Grant
    /\ \A t \in Turn :
        /\ turn[t].pc \in PC
        /\ turn[t].msg \in Message
        /\ turn[t].answering \in BOOLEAN
        /\ turn[t].track \in Track \union {Unset}
        /\ turn[t].offered \subseteq Item
        /\ turn[t].n \in 0 .. MaxCalls
    /\ awaiting \in BOOLEAN
    /\ track \in Track
    /\ asked \in Field \union {Unset}
    /\ chips \subseteq Suggestion
    /\ flights \subseteq Flight /\ hotels \subseteq Hotel /\ shown \subseteq Item
    /\ pending \in {NoCall} \union [item : Item, n : 1 .. MaxCalls]
    /\ said \in 0 .. MaxSaid /\ picked \in 0 .. MaxPicks
    /\ called \in 0 .. MaxCalls /\ faults \in 0 .. MaxFaults
    /\ booked \subseteq 1 .. called /\ declined \subseteq 1 .. called
    /\ twice \in BOOLEAN /\ crossed \in BOOLEAN /\ homeward \in BOOLEAN
    /\ WindowTypeOK

NoProfile == [f \in Field |-> Unset]

\* The login page, whatever was said, selected and planned before.
Fresh ==
    /\ visit = "login"
    /\ profile = NoProfile
    /\ grants = {}
    /\ turn = [t \in Turn |-> NoTurn]
    /\ awaiting = FALSE /\ track = "flight" /\ asked = Unset /\ chips = {}
    /\ shown = {} /\ flights = {} /\ hotels = {}
    /\ pending = NoCall
    /\ booked = {} /\ declined = {} /\ twice = FALSE
    /\ crossed = FALSE /\ homeward = FALSE
    /\ WindowInit

Init == Fresh /\ said = 0 /\ picked = 0 /\ called = 0 /\ faults = 0

-----------------------------------------------------------------------------
(* Sign-in, restart and reload.                                             *)

\* POST /api/login: a session, and nothing gathered.
Login ==
    /\ visit = "login"
    /\ visit' = "in"
    /\ profile' = NoProfile
    /\ UNCHANGED <<grants, turn, talk, options, pending, said, picked, bookings, noted, windowVars>>

Fault ==
    /\ faults < MaxFaults
    /\ faults' = faults + 1

\* The page script runs anew; GET /api/session says whether to sign in.
Reload ==
    /\ visit # "login"
    /\ IF visit = "lost"
       THEN visit' = "login" /\ UNCHANGED faults
       ELSE UNCHANGED visit /\ Fault
    /\ turn' = [t \in Turn |-> NoTurn]
    /\ awaiting' = FALSE /\ track' = "flight" /\ asked' = Unset /\ chips' = {}
    /\ shown' = {} /\ flights' = {} /\ hotels' = {}
    /\ pending' = NoCall
    /\ mail' = <<>>
    /\ UNCHANGED <<profile, grants, said, picked, bookings, crossed, homeward, window, browser>>

\* The agent starts again: sessions and profiles are gone, and so are the
\* requests it was serving.
Restart ==
    /\ visit = "in"
    /\ Fault
    /\ visit' = "lost"
    /\ profile' = NoProfile
    /\ turn' = [t \in Turn |-> IF turn[t].pc = "replied" THEN turn[t] ELSE NoTurn]
    /\ UNCHANGED <<grants, talk, options, pending, said, picked, bookings, crossed, homeward, windowVars>>

-----------------------------------------------------------------------------
(* The user at the page: handle(text).                                      *)

Talking == {t \in Turn : turn[t].pc \in {"sent", "phrase", "plan", "replied"}}

\* The request carries what the page knows at this moment.
Send(t, m, answering) ==
    /\ visit # "login"
    /\ turn[t].pc = "idle"
    /\ turn' = [turn EXCEPT ![t] = [NoTurn EXCEPT
                    !.pc = "sent", !.msg = m, !.answering = answering \/ awaiting,
                    !.track = track, !.offered = flights \union hotels]]
    /\ homeward' = (homeward \/ (~answering /\ profile["origin"] \in {m.to, m.city} \ {Unset}))
    /\ UNCHANGED <<visit, profile, grants, talk, options, pending, bookings, faults, windowVars>>

Unsolicited ==
    /\ said < MaxSaid
    /\ said' = said + 1

\* A tap on a suggestion of the question that is open.
Answer(t) ==
    /\ awaiting
    /\ \E m \in Suggested(asked) : Send(t, m, TRUE)
    /\ crossed' = (crossed \/ Talking # {})
    /\ UNCHANGED <<said, picked>>

\* A tap on a suggestion of an earlier question.
TapOld(t) ==
    /\ Unsolicited
    /\ \E m \in chips : Send(t, m, TRUE)
    /\ crossed' = TRUE
    /\ UNCHANGED picked

\* A chip of the page, or something typed.
Open(t) ==
    /\ Unsolicited
    /\ \E m \in Opening : Send(t, m, FALSE)
    /\ crossed' = (crossed \/ Talking # {})
    /\ UNCHANGED picked

\* The Select button of an option, which stays in the log.
Select(t) ==
    /\ picked < MaxPicks
    /\ picked' = picked + 1
    /\ \E i \in shown : Send(t, Confirm(i), FALSE)
    /\ crossed' = (crossed \/ Talking # {})
    /\ UNCHANGED said

-----------------------------------------------------------------------------
(* POST /api/plan                                                           *)

Reply(t, p, n) ==
    turn' = [turn EXCEPT ![t] = [NoTurn EXCEPT !.pc = "replied", !.plan = p, !.n = n]]

\* search_flights with the route, the other way round on the return leg, or
\* search_hotels.
SearchFor(leg, p) ==
    CASE leg = "hotel" -> Search(leg, p["destination"])
      [] leg = "return" -> Search(leg, <<p["destination"], p["origin"]>>)
      [] OTHER -> Search(leg, <<p["origin"], p["destination"]>>)

\* Up to the first await: the message is read into the profile, and unless it
\* confirms an option or is free-form, the engine asks the next question or
\* searches.
Plan(t) ==
    LET m == turn[t].msg
        leg == ResolveTrack(m, turn[t].answering, turn[t].track)
        p == ExtractSlots(m, profile, leg = "return")
        question == NextQuestion(leg, p)
        searching == m.confirm = Unset /\ (m.hotel \/ m.flight \/ leg # "flight" \/ turn[t].answering)
    IN
    /\ turn[t].pc = "sent" /\ visit = "in"
    /\ profile' = p
    /\ \/ /\ searching /\ question # Unset
          /\ turn' = [turn EXCEPT ![t] = [NoTurn EXCEPT !.pc = "phrase", !.plan = Ask(leg, question)]]
       \/ /\ searching /\ question = Unset
          /\ Reply(t, SearchFor(leg, p), 0)
       \/ /\ ~searching
          /\ turn' = [turn EXCEPT ![t].pc = "plan", ![t].track = Unset, ![t].answering = FALSE]
    /\ UNCHANGED <<visit, grants, talk, options, pending, said, picked, bookings, noted, windowVars>>

\* phraseQuestion: reworded, timed out or failed, the question is the same.
Phrase(t) ==
    /\ turn[t].pc = "phrase"
    /\ Reply(t, turn[t].plan, 0)
    /\ UNCHANGED <<visit, profile, grants, talk, options, pending, said, picked, bookings, noted, windowVars>>

\* planner.plan, or the scripted planner in its place: a text or a search ...
PlannerTalks(t) ==
    /\ turn[t].pc = "plan"
    /\ \E p \in Plans(turn[t].offered) : p.kind # "book" /\ Reply(t, p, 0)
    /\ UNCHANGED <<visit, profile, grants, talk, options, pending, said, picked, bookings, noted, windowVars>>

\* ... or a booking.
PlannerBooks(t) ==
    /\ turn[t].pc = "plan"
    /\ called < MaxCalls
    /\ called' = called + 1
    /\ \E p \in Plans(turn[t].offered) : p.kind = "book" /\ Reply(t, p, called')
    /\ UNCHANGED <<visit, profile, grants, talk, options, pending, said, picked, booked, declined, twice, noted,
                   windowVars>>

-----------------------------------------------------------------------------
(* The page again, from await api('/api/plan') on.                          *)

Finish(t) == turn' = [turn EXCEPT ![t] = NoTurn]

Replied(t, kind) == turn[t].pc = "replied" /\ turn[t].plan.kind = kind

ReceiveAsk(t) ==
    /\ Replied(t, "ask")
    /\ track' = turn[t].plan.track
    /\ awaiting' = TRUE
    /\ asked' = turn[t].plan.field
    /\ chips' = chips \union Suggested(turn[t].plan.field)
    /\ Finish(t)
    /\ UNCHANGED <<visit, profile, grants, options, pending, said, picked, bookings, noted, windowVars>>

ReceiveMessage(t) ==
    /\ Replied(t, "message")
    /\ awaiting' = FALSE
    /\ Finish(t)
    /\ UNCHANGED <<visit, profile, grants, track, asked, chips, options, pending, said, picked, bookings, noted,
                   windowVars>>

ReceiveSearch(t) ==
    LET p == turn[t].plan IN
    /\ Replied(t, "search")
    /\ awaiting' = FALSE
    /\ track' = IF p.item \in City THEN "hotel" ELSE IF p.track # Unset THEN p.track ELSE track
    /\ turn' = [turn EXCEPT ![t].pc = "call"]
    /\ UNCHANGED <<visit, profile, grants, asked, chips, options, pending, said, picked, bookings, noted,
                   windowVars>>

\* The options of a booked kind are withdrawn before the call.
ReceiveBooking(t) ==
    LET i == turn[t].plan.item IN
    /\ Replied(t, "book")
    /\ awaiting' = FALSE
    /\ flights' = IF i \in Flight THEN {} ELSE flights
    /\ hotels' = IF i \in Hotel THEN {} ELSE hotels
    /\ turn' = [turn EXCEPT ![t].pc = "call"]
    /\ UNCHANGED <<visit, profile, grants, track, asked, chips, shown, pending, said, picked, bookings, noted,
                   windowVars>>

-----------------------------------------------------------------------------
(* runCall: POST /api/call, callSpTool.                                     *)

Calling(t, kind) == turn[t].pc = "call" /\ turn[t].plan.kind = kind /\ visit = "in"

\* runTool: a route or city without inventory has no options.
Found(i) == {i} \intersect Item

\* Searching needs no consent: renderFlights or renderHotels.
SearchResult(t) ==
    LET i == turn[t].plan.item IN
    /\ Calling(t, "search")
    /\ flights' = IF i \in City THEN flights ELSE Found(i)
    /\ hotels' = IF i \in City THEN Found(i) ELSE hotels
    /\ shown' = shown \union Found(i)
    /\ Finish(t)
    /\ UNCHANGED <<visit, profile, grants, talk, pending, said, picked, bookings, noted, windowVars>>

\* findExistingGrant: which of several grants for a provider is presented is
\* up to the wallet.
Held(sp) == {g \in grants : g.sp = sp}

\* The grant presented lets the agent book: the tool runs.  Whether its answer
\* reaches the page makes no difference to what was done.
Booked(t) ==
    /\ Calling(t, "book")
    /\ \E g \in Held(SpOf(turn[t].plan.item)) : g.books
    /\ booked' = booked \union {turn[t].n}
    /\ twice' = (twice \/ turn[t].n \in booked)
    /\ Finish(t)
    /\ UNCHANGED <<visit, profile, grants, talk, options, pending, said, picked, called, declined, noted,
                   windowVars>>

\* CONSENT_REQUIRED: there is no grant, or the one presented does not cover the
\* tool.  renderConsent keeps the call in the only slot there is.
ConsentRequired(t) ==
    LET held == Held(SpOf(turn[t].plan.item)) IN
    /\ Calling(t, "book")
    /\ held = {} \/ \E g \in held : ~g.books
    /\ pending' = [item |-> turn[t].plan.item, n |-> turn[t].n]
    /\ Finish(t)
    /\ UNCHANGED <<visit, profile, grants, talk, options, said, picked, bookings, noted, windowVars>>

-----------------------------------------------------------------------------
(* The consent window and its messages to the page.                         *)

\* "Sign in & review permissions", on any consent card of the log.
OpenWindow ==
    /\ visit # "login"
    /\ pending # NoCall
    /\ OpenAt(SpOf(pending.item))
    /\ UNCHANGED <<visit, profile, grants, turn, talk, options, pending, said, picked, bookings, noted>>

InWindow ==
    /\ WindowStep
    /\ UNCHANGED <<visit, profile, grants, turn, talk, options, pending, said, picked, bookings, noted>>

Arrived(kind) == mail # <<>> /\ Head(mail).kind = kind /\ mail' = Tail(mail)

\* helixid:consent-accepted while a call is pending: POST /api/grants, which
\* stores the grant if the agent knows the session.
ReadAccepted(t) ==
    /\ Arrived("accepted")
    /\ turn[t].pc = "idle"
    /\ IF visit = "login" \/ pending = NoCall
       THEN UNCHANGED <<turn, grants>>
       ELSE /\ turn' = [turn EXCEPT ![t] = [NoTurn EXCEPT
                            !.pc = "grant", !.plan = Book(pending.item), !.n = pending.n]]
            /\ grants' = IF visit = "in" THEN grants \union Head(mail).grant ELSE grants
    /\ UNCHANGED <<visit, profile, talk, options, pending, said, picked, bookings, noted, window, browser>>

\* Mutant: the call that was pending when the grant came in.
PendingAtAccept(t) == [item |-> turn[t].plan.item, n |-> turn[t].n]

\* The call that is pending by now.
ToResume(t) == pending

\* The grant is stored: the pending call is taken and runs again.  If it was
\* taken or dropped meanwhile, an empty call is refused.
Resume(t) ==
    LET call == ToResume(t) IN
    /\ turn[t].pc = "grant" /\ visit = "in"
    /\ pending' = NoCall
    /\ IF call = NoCall
       THEN Finish(t)
       ELSE turn' = [turn EXCEPT ![t].pc = "call", ![t].plan = Book(call.item), ![t].n = call.n]
    /\ UNCHANGED <<visit, profile, grants, talk, options, said, picked, bookings, noted, windowVars>>

\* helixid:consent-declined: "I did not make the booking".
ReadDeclined ==
    /\ Arrived("declined")
    /\ declined' = IF pending = NoCall THEN declined ELSE declined \union {pending.n}
    /\ pending' = NoCall
    /\ UNCHANGED <<visit, profile, grants, turn, talk, options, said, picked, called, booked, twice, noted,
                   window, browser>>

-----------------------------------------------------------------------------

\* A request fails or its answer is lost: "I could not complete that".
Fail(t) ==
    /\ turn[t].pc \notin {"idle", "phrase", "plan"}
    /\ Fault
    /\ Finish(t)
    /\ UNCHANGED <<visit, profile, grants, talk, options, pending, said, picked, bookings, crossed, homeward,
                   windowVars>>

\* 401: "Please log in to the demo agent".
Unauthorized(t) ==
    /\ visit = "lost"
    /\ turn[t].pc \in {"sent", "call", "grant"}
    /\ Finish(t)
    /\ UNCHANGED <<visit, profile, grants, talk, options, pending, said, picked, bookings, noted, windowVars>>

\* Nobody says anything more.
Quiet ==
    /\ \A t \in Turn : turn[t].pc = "idle"
    /\ ~awaiting
    /\ UNCHANGED vars

TurnStep(t) ==
    \/ Plan(t) \/ Phrase(t) \/ PlannerTalks(t) \/ PlannerBooks(t)
    \/ ReceiveAsk(t) \/ ReceiveMessage(t) \/ ReceiveSearch(t) \/ ReceiveBooking(t)
    \/ SearchResult(t) \/ Booked(t) \/ ConsentRequired(t) \/ Resume(t) \/ Unauthorized(t)

Next ==
    \/ \E t \in Turn :
        \/ Answer(t) \/ TapOld(t) \/ Open(t) \/ Select(t)
        \/ TurnStep(t)
        \/ ReadAccepted(t)
        \/ Fail(t)
    \/ Login \/ Reload \/ Restart
    \/ OpenWindow \/ InWindow
    \/ ReadDeclined
    \/ Quiet

\* Every request ends: the planner's and the provider's calls answer or
\* reject, and phraseQuestion has a timeout of its own.  The user goes on to
\* answer what is asked, and reloads a page that the agent has forgotten.
Fairness ==
    /\ WF_vars(\E t \in Turn : TurnStep(t))
    /\ WF_vars(\E t \in Turn : Answer(t))
    /\ WF_vars(visit = "lost" /\ Reload)

Spec == Init /\ [][Next]_vars /\ Fairness

-----------------------------------------------------------------------------
(* Properties.                                                              *)

\* While turns do not overlap, a date is filed on the leg it was given for: the
\* answer to "when would you like to fly back?" never lands on the way out.
DatesOnTheirLeg ==
    ~crossed => profile["departureDate"] # "back" /\ profile["returnDate"] # "out"

\* "must not resolve both endpoints to the same city": the trip has two ends,
\* unless turns overlapped, a reply was lost (and the answer given again), or
\* the user, unasked, named the city they start in as if to fly there: by its
\* name, or by the id of a hotel in it.
TwoEnds ==
    ~crossed /\ faults = 0 /\ ~homeward /\ profile["origin"] # Unset =>
        profile["origin"] # profile["destination"]

\* Whatever a planner answers, only options that were shown are booked.
OnlyShownBooked ==
    \A t \in Turn : turn[t].plan.kind = "book" => turn[t].plan.item \in shown

\* A booking that was planned once is made at most once, and never after the page
\* said that it was not made, however consent messages and calls overlap.
BookedAsAccepted == ~twice /\ booked \intersect declined = {}

\* The strengthening that makes the last two inductive.  Options come from what
\* was shown to the turn that books them, ...
Shaped ==
    /\ DOMAIN turn = Turn
    /\ \A t \in Turn : DOMAIN turn[t] = DOMAIN NoTurn

ShownOK ==
    /\ flights \union hotels \subseteq shown
    /\ \A t \in Turn : turn[t].offered \subseteq shown
    /\ pending # NoCall => pending.item \in shown
    /\ OnlyShownBooked

\* ... and a booking on its way is with one turn of the page, or pending.
Carries(t) == turn[t].pc \in {"replied", "call"} /\ turn[t].plan.kind = "book"

Undecided == (1 .. called) \ (booked \union declined)

BookingsOK ==
    /\ called \in Nat
    /\ booked \union declined \subseteq 1 .. called
    /\ \A t \in Turn : turn[t].plan.kind = "book" => turn[t].pc \in {"replied", "call", "grant"}
    /\ \A t \in Turn : Carries(t) => turn[t].n \in Undecided
    /\ \A t, u \in Turn : Carries(t) /\ Carries(u) /\ turn[t].n = turn[u].n => t = u
    /\ pending # NoCall =>
        /\ pending.n \in Undecided
        /\ \A t \in Turn : Carries(t) => turn[t].n # pending.n
    /\ BookedAsAccepted

IInv == Shaped /\ ShownOK /\ BookingsOK

\* "a conversation that always terminates": a question that the user goes on
\* to answer leads to a search, unless they fly to the only city that is
\* offered as a start.
QuestionsEnd == awaiting ~> (~awaiting \/ profile["destination"] = Home)

=============================================================================
