----------------------------- MODULE TripProofs -----------------------------
(***************************************************************************)
(* Theorems about the planners of the consent demo's agent, and what the     *)
(* page books by their advice.                                              *)
(***************************************************************************)
EXTENDS TripAgent, TLAPS

-----------------------------------------------------------------------------
(* The planners.                                                            *)

\* A booking that passes the validation is one that was offered.
LEMMA ValidatedWasOffered ==
    ASSUME NEW offered, NEW call, Validated(call, offered).kind = "book"
    PROVE  Validated(call, offered).item \in offered
BY DEF Validated, Bookable, SayText, NoPlan

\* A planner books only what was offered to it.
LEMMA PlansWereOffered ==
    ASSUME NEW offered, NEW p \in Plans(offered), p.kind = "book"
    PROVE  p.item \in offered
BY ValidatedWasOffered DEF Plans, ModelPlans, SayText, NoPlan

\* A search passes the validation as it is.
LEMMA SearchIsPlan ==
    ASSUME NEW offered, NEW i \in Item
    PROVE  Search(Unset, i) \in Plans(offered)
<1>1. Search(Unset, i) \in Called
  BY DEF Called
<1>2. Validated(Search(Unset, i), offered) = Search(Unset, i)
  BY DEF Validated, Search, NoPlan
<1> QED
  BY <1>1, <1>2 DEF Plans, ModelPlans

\* A booking passes it as it is, or becomes a text.
LEMMA BookIsPlan ==
    ASSUME NEW offered, NEW i \in Item
    PROVE  Validated(Book(i), offered) \in Plans(offered)
BY DEF Called, Plans, ModelPlans

\* The word of a city other than Home is one the scripted planner looks for.
LEMMA TowardsACity ==
    ASSUME NEW text \in SUBSET Word
    PROVE  Towards(text) \subseteq City \ {Home}
BY CityAssumption, HubAssumption DEF Towards, Word

\* "drives the identical validated tool-call and consent path" (server.ts): the
\* scripted planner, whatever it heard before, plans nothing that the
\* validation of a model's answer would not let through.
THEOREM FallbackValidated ==
    ASSUME NEW m \in Message, NEW offered \in SUBSET Item, NEW heard \in SUBSET Word
    PROVE  ScriptedPlans(m, offered, heard) \subseteq Plans(offered)
<1> DEFINE text == heard \union Words(m)
<1>1. text \in SUBSET Word
  BY DEF Words
<1>2. Chosen(m, offered) \subseteq Item
  BY DEF Chosen
<1>3. First(offered) \subseteq Item
  BY DEF First
<1>4. Confirmed(m, offered, text) \subseteq Item
  BY <1>2, <1>3 DEF Confirmed
<1>5. \A c \in City \ {Home} : <<c, Home>> \in Item /\ <<Home, c>> \in Item /\ c \in Item
  BY DEF Item, Flight, Hotel
<1>6. Hub \in Item
  BY <1>5, HubAssumption
<1>7. \A c \in Towards(text) : <<Home, c>> \in Item
  BY <1>1, <1>5, TowardsACity
<1>8. SayText \in Plans(offered)
  BY DEF Plans, ModelPlans
<1> HIDE DEF text
<1>9. {Validated(Book(i), offered) : i \in Confirmed(m, offered, text)} \subseteq Plans(offered)
  BY <1>4, BookIsPlan
<1>10. {Search(Unset, <<c, Home>>) : c \in City \ {Home}} \subseteq Plans(offered)
  BY <1>5, SearchIsPlan
<1>11. {Search(Unset, Hub)} \subseteq Plans(offered)
  BY <1>6, SearchIsPlan
<1>12. {Search(Unset, <<Home, c>>) : c \in Towards(text)} \subseteq Plans(offered)
  BY <1>7, SearchIsPlan
<1> QED
  BY <1>8, <1>9, <1>10, <1>11, <1>12 DEF ScriptedPlans, text

-----------------------------------------------------------------------------
(* The page.                                                                *)

\* What the invariant is about.
sees == <<turn, options, pending, bookings>>

LEMMA InitIInv ==
    Init => IInv
<1> SUFFICES ASSUME Init PROVE IInv
  OBVIOUS
<1>1. Shaped
  BY DEF Init, Fresh, Shaped
<1>2. ShownOK
  BY DEF Init, Fresh, ShownOK, OnlyShownBooked, NoTurn, NoPlan
<1>3. BookingsOK
  BY DEF Init, Fresh, BookingsOK, Carries, Undecided, BookedAsAccepted, NoTurn, NoPlan
<1> QED
  BY <1>1, <1>2, <1>3 DEF IInv

\* A step that none of it shows in.
LEMMA Unseen ==
    ASSUME IInv, UNCHANGED sees
    PROVE  IInv'
BY DEF IInv, Shaped, ShownOK, OnlyShownBooked, BookingsOK, Carries, Undecided, BookedAsAccepted,
       sees, options, bookings

\* A turn that carries no booking afterwards, whatever is shown besides.
LEMMA NoBookingLeft ==
    ASSUME IInv, NEW t \in Turn, NEW r,
           DOMAIN r = DOMAIN NoTurn, r.offered \subseteq shown, r.plan.kind # "book",
           turn' = [turn EXCEPT ![t] = r],
           shown \subseteq shown', flights' \union hotels' \subseteq shown',
           UNCHANGED <<pending, bookings>>
    PROVE  IInv'
<1>1. turn'[t] = r /\ \A u \in Turn : u # t => turn'[u] = turn[u]
  BY DEF IInv, Shaped
<1>2. Shaped'
  BY <1>1 DEF IInv, Shaped, NoTurn
<1>3. ShownOK'
  BY <1>1 DEF IInv, ShownOK, OnlyShownBooked
<1>4. Undecided' = Undecided
  BY DEF Undecided, bookings
<1>5. \A u \in Turn : Carries(u)' => u # t /\ Carries(u)
  BY <1>1 DEF Carries
<1>6. BookingsOK'
  <2>1. \A u \in Turn : Carries(u)' => turn'[u].n \in Undecided'
    BY <1>1, <1>4, <1>5 DEF IInv, BookingsOK
  <2>2. \A u, w \in Turn : Carries(u)' /\ Carries(w)' /\ turn'[u].n = turn'[w].n => u = w
    BY <1>1, <1>5 DEF IInv, BookingsOK
  <2>3. pending' # NoCall => pending'.n \in Undecided' /\ \A u \in Turn : Carries(u)' => turn'[u].n # pending'.n
    BY <1>1, <1>4, <1>5 DEF IInv, BookingsOK
  <2> QED
    BY <1>1, <2>1, <2>2, <2>3 DEF IInv, BookingsOK, BookedAsAccepted, bookings
<1> QED
  BY <1>2, <1>3, <1>6 DEF IInv

LEMMA FinishStep ==
    ASSUME IInv, NEW t \in Turn, Finish(t),
           shown \subseteq shown', flights' \union hotels' \subseteq shown',
           UNCHANGED <<pending, bookings>>
    PROVE  IInv'
BY NoBookingLeft DEF Finish, NoTurn, NoPlan

LEMMA SendStep ==
    ASSUME IInv, NEW t \in Turn, NEW m, NEW answering, Send(t, m, answering)
    PROVE  IInv'
<1> DEFINE r == [NoTurn EXCEPT !.pc = "sent", !.msg = m, !.answering = answering \/ awaiting,
                    !.track = track, !.offered = flights \union hotels]
<1>1. DOMAIN r = DOMAIN NoTurn /\ r.offered = flights \union hotels /\ r.plan.kind # "book"
  BY DEF NoTurn, NoPlan
<1>2. turn' = [turn EXCEPT ![t] = r]
  BY DEF Send
<1> HIDE DEF r
<1> QED
  BY <1>1, <1>2, NoBookingLeft DEF Send, IInv, ShownOK, options

LEMMA ReplyStep ==
    ASSUME IInv, NEW t \in Turn, NEW p, p.kind # "book", NEW n, Reply(t, p, n),
           UNCHANGED <<options, pending, bookings>>
    PROVE  IInv'
<1> DEFINE r == [NoTurn EXCEPT !.pc = "replied", !.plan = p, !.n = n]
<1>1. DOMAIN r = DOMAIN NoTurn /\ r.offered = {} /\ r.plan.kind # "book"
  BY DEF NoTurn
<1>2. turn' = [turn EXCEPT ![t] = r]
  BY DEF Reply
<1> HIDE DEF r
<1> QED
  BY <1>1, <1>2, NoBookingLeft DEF IInv, ShownOK, options

LEMMA PlanStep ==
    ASSUME IInv, NEW t \in Turn, Plan(t)
    PROVE  IInv'
<1>0. UNCHANGED <<options, pending, bookings>>
  BY DEF Plan
<1>1. ASSUME NEW leg, NEW q, turn' = [turn EXCEPT ![t] = [NoTurn EXCEPT !.pc = "phrase", !.plan = Ask(leg, q)]]
      PROVE  IInv'
  <2> DEFINE r == [NoTurn EXCEPT !.pc = "phrase", !.plan = Ask(leg, q)]
  <2>1. DOMAIN r = DOMAIN NoTurn /\ r.offered = {} /\ r.plan.kind # "book"
    BY DEF NoTurn, Ask, NoPlan
  <2>2. turn' = [turn EXCEPT ![t] = r]
    BY <1>1
  <2> HIDE DEF r
  <2> QED
    BY <1>0, <2>1, <2>2, NoBookingLeft DEF IInv, ShownOK, options
<1>2. ASSUME NEW leg, NEW p, Reply(t, SearchFor(leg, p), 0)
      PROVE  IInv'
  <2>1. SearchFor(leg, p).kind # "book"
    BY DEF SearchFor, Search, NoPlan
  <2> QED
    BY <1>0, <1>2, <2>1, ReplyStep
<1>3. ASSUME turn' = [turn EXCEPT ![t].pc = "plan", ![t].track = Unset, ![t].answering = FALSE]
      PROVE  IInv'
  <2> DEFINE r == [turn[t] EXCEPT !.pc = "plan", !.track = Unset, !.answering = FALSE]
  <2>1. DOMAIN r = DOMAIN NoTurn /\ r.offered \subseteq shown /\ r.plan.kind # "book"
    BY DEF Plan, IInv, Shaped, ShownOK, BookingsOK, NoTurn
  <2>2. turn' = [turn EXCEPT ![t] = r]
    BY <1>3 DEF IInv, Shaped
  <2> HIDE DEF r
  <2> QED
    BY <1>0, <2>1, <2>2, NoBookingLeft DEF IInv, ShownOK, options
<1> DEFINE leg == ResolveTrack(turn[t].msg, turn[t].answering, turn[t].track)
           p == ExtractSlots(turn[t].msg, profile, leg = "return")
           q == NextQuestion(leg, p)
<1>4. \/ turn' = [turn EXCEPT ![t] = [NoTurn EXCEPT !.pc = "phrase", !.plan = Ask(leg, q)]]
      \/ Reply(t, SearchFor(leg, p), 0)
      \/ turn' = [turn EXCEPT ![t].pc = "plan", ![t].track = Unset, ![t].answering = FALSE]
  BY Zenon DEF Plan
<1> HIDE DEF leg, p, q
<1> QED
  BY <1>1, <1>2, <1>3, <1>4

LEMMA PhraseStep ==
    ASSUME IInv, NEW t \in Turn, Phrase(t)
    PROVE  IInv'
<1>1. turn[t].plan.kind # "book"
  BY DEF Phrase, IInv, BookingsOK
<1> QED
  BY <1>1, ReplyStep DEF Phrase

LEMMA PlannerTalksStep ==
    ASSUME IInv, NEW t \in Turn, PlannerTalks(t)
    PROVE  IInv'
BY ReplyStep DEF PlannerTalks

LEMMA PlannerBooksStep ==
    ASSUME IInv, NEW t \in Turn, PlannerBooks(t)
    PROVE  IInv'
<1>1. PICK p \in Plans(turn[t].offered) : p.kind = "book" /\ Reply(t, p, called')
  BY DEF PlannerBooks
<1>2. p.item \in shown
  BY <1>1, PlansWereOffered DEF IInv, ShownOK
<1>3. /\ turn'[t].pc = "replied" /\ turn'[t].plan = p /\ turn'[t].n = called'
      /\ turn'[t].offered = {} /\ DOMAIN turn'[t] = DOMAIN NoTurn
      /\ DOMAIN turn' = Turn
      /\ \A u \in Turn : u # t => turn'[u] = turn[u]
  BY <1>1 DEF Reply, NoTurn, IInv, Shaped
<1>4. Shaped'
  BY <1>3 DEF IInv, Shaped, NoTurn
<1>5. ShownOK'
  BY <1>2, <1>3 DEF PlannerBooks, options, IInv, ShownOK, OnlyShownBooked
<1>6. called \in Nat /\ called' = called + 1 /\ UNCHANGED <<pending, booked, declined, twice>>
  BY DEF PlannerBooks, IInv, BookingsOK
<1>7. called' \in Undecided' /\ called' \notin 1 .. called /\ Undecided \subseteq Undecided'
  BY <1>6 DEF Undecided, IInv, BookingsOK
<1>8. \A u \in Turn : u # t => (Carries(u)' <=> Carries(u)) /\ (Carries(u) => turn'[u].n \in Undecided)
  BY <1>3 DEF Carries, IInv, BookingsOK
<1>9. BookingsOK'
  <2>1. booked' \union declined' \subseteq 1 .. called'
    BY <1>6 DEF IInv, BookingsOK
  <2>2. \A u \in Turn : Carries(u)' => turn'[u].n \in Undecided'
    BY <1>3, <1>7, <1>8
  <2>3. \A u, w \in Turn : Carries(u)' /\ Carries(w)' /\ turn'[u].n = turn'[w].n => u = w
    BY <1>3, <1>7, <1>8 DEF IInv, BookingsOK, Undecided
  <2>4. pending' # NoCall =>
            pending'.n \in Undecided' /\ \A u \in Turn : Carries(u)' => turn'[u].n # pending'.n
    BY <1>3, <1>6, <1>7, <1>8 DEF IInv, BookingsOK, Undecided
  <2> QED
    BY <1>3, <1>6, <2>1, <2>2, <2>3, <2>4 DEF IInv, BookingsOK, BookedAsAccepted
<1> QED
  BY <1>4, <1>5, <1>9 DEF IInv

\* A turn goes on with what it carries.
LEMMA CarryOn ==
    ASSUME IInv, NEW t \in Turn, turn[t].pc = "replied",
           turn' = [turn EXCEPT ![t].pc = "call"],
           shown' = shown, flights' \subseteq flights, hotels' \subseteq hotels,
           UNCHANGED <<pending, bookings>>
    PROVE  IInv'
<1>1. /\ turn'[t].pc = "call" /\ turn'[t].plan = turn[t].plan /\ turn'[t].n = turn[t].n
      /\ turn'[t].offered = turn[t].offered /\ DOMAIN turn'[t] = DOMAIN NoTurn
      /\ DOMAIN turn' = Turn
      /\ \A u \in Turn : u # t => turn'[u] = turn[u]
  BY DEF IInv, Shaped, NoTurn
<1>2. Shaped'
  BY <1>1 DEF IInv, Shaped, NoTurn
<1>3. ShownOK'
  BY <1>1 DEF IInv, ShownOK, OnlyShownBooked
<1>4. \A u \in Turn : (Carries(u)' <=> Carries(u)) /\ turn'[u].n = turn[u].n
  BY <1>1 DEF Carries
<1>5. BookingsOK'
  BY <1>1, <1>4 DEF IInv, BookingsOK, BookedAsAccepted, Undecided, bookings
<1> QED
  BY <1>2, <1>3, <1>5 DEF IInv

LEMMA ReceiveStep ==
    ASSUME IInv, NEW t \in Turn,
           ReceiveAsk(t) \/ ReceiveMessage(t) \/ ReceiveSearch(t) \/ ReceiveBooking(t)
    PROVE  IInv'
<1>1. CASE ReceiveAsk(t) \/ ReceiveMessage(t)
  BY <1>1, FinishStep DEF ReceiveAsk, ReceiveMessage, options, IInv, ShownOK
<1>2. CASE ReceiveSearch(t)
  BY <1>2, CarryOn DEF ReceiveSearch, Replied, options
<1>3. CASE ReceiveBooking(t)
  BY <1>3, CarryOn DEF ReceiveBooking, Replied
<1> QED
  BY <1>1, <1>2, <1>3

LEMMA SearchResultStep ==
    ASSUME IInv, NEW t \in Turn, SearchResult(t)
    PROVE  IInv'
<1>1. shown \subseteq shown' /\ flights' \union hotels' \subseteq shown'
  BY DEF SearchResult, IInv, ShownOK
<1> QED
  BY <1>1, FinishStep DEF SearchResult

-----------------------------------------------------------------------------
(* Calls, consent and the decisions about a booking.                        *)

LEMMA BookedStep ==
    ASSUME IInv, NEW t \in Turn, Booked(t)
    PROVE  IInv'
<1>1. Carries(t) /\ turn[t].n \in Undecided
  BY DEF Booked, Calling, Carries, IInv, BookingsOK
<1>2. /\ turn'[t] = NoTurn /\ DOMAIN turn' = Turn
      /\ \A u \in Turn : u # t => turn'[u] = turn[u]
  BY DEF Booked, Finish, IInv, Shaped
<1>3. /\ booked' = booked \union {turn[t].n} /\ twice' = FALSE
      /\ UNCHANGED <<flights, hotels, shown, pending, called, declined>>
  BY <1>1 DEF Booked, options, IInv, BookingsOK, BookedAsAccepted, Undecided
<1>4. Shaped'
  BY <1>2 DEF IInv, Shaped
<1>5. ShownOK'
  BY <1>2, <1>3 DEF IInv, ShownOK, OnlyShownBooked, NoTurn, NoPlan
<1>6. \A u \in Turn : Carries(u)' => u # t /\ Carries(u) /\ turn'[u].n # turn[t].n
  BY <1>1, <1>2 DEF Carries, NoTurn, NoPlan, IInv, BookingsOK
<1>7. Undecided' = Undecided \ {turn[t].n}
  BY <1>3 DEF Undecided
<1>8. BookingsOK'
  <2>1. booked' \union declined' \subseteq 1 .. called'
    BY <1>1, <1>3 DEF IInv, BookingsOK, Undecided
  <2>2. booked' \intersect declined' = {}
    BY <1>1, <1>3 DEF IInv, BookingsOK, BookedAsAccepted, Undecided
  <2>3. pending' # NoCall =>
            pending'.n \in Undecided' /\ \A u \in Turn : Carries(u)' => turn'[u].n # pending'.n
    BY <1>1, <1>2, <1>3, <1>6, <1>7 DEF IInv, BookingsOK
  <2>4. \A u \in Turn : turn'[u].plan.kind = "book" => turn'[u].pc \in {"replied", "call", "grant"}
    BY <1>2 DEF IInv, BookingsOK, NoTurn, NoPlan
  <2>5. \A u \in Turn : Carries(u)' => turn'[u].n \in Undecided'
    BY <1>2, <1>6, <1>7 DEF IInv, BookingsOK
  <2>6. \A u, w \in Turn : Carries(u)' /\ Carries(w)' /\ turn'[u].n = turn'[w].n => u = w
    BY <1>2, <1>6 DEF IInv, BookingsOK
  <2> QED
    BY <1>3, <2>1, <2>2, <2>3, <2>4, <2>5, <2>6 DEF IInv, BookingsOK, BookedAsAccepted
<1> QED
  BY <1>4, <1>5, <1>8 DEF IInv

\* The turn hands its booking over to pending.
LEMMA ConsentRequiredStep ==
    ASSUME IInv, NEW t \in Turn, ConsentRequired(t)
    PROVE  IInv'
<1>1. Carries(t) /\ turn[t].n \in Undecided /\ turn[t].plan.item \in shown
  BY DEF ConsentRequired, Calling, Carries, IInv, BookingsOK, ShownOK, OnlyShownBooked
<1>2. /\ turn'[t] = NoTurn /\ DOMAIN turn' = Turn
      /\ \A u \in Turn : u # t => turn'[u] = turn[u]
  BY DEF ConsentRequired, Finish, IInv, Shaped
<1>3. /\ pending'.n = turn[t].n /\ pending'.item = turn[t].plan.item
      /\ UNCHANGED <<flights, hotels, shown, called, booked, declined, twice>>
  BY DEF ConsentRequired, options, bookings
<1>4. Shaped'
  BY <1>2 DEF IInv, Shaped
<1>5. ShownOK'
  BY <1>1, <1>2, <1>3 DEF IInv, ShownOK, OnlyShownBooked, NoTurn, NoPlan
<1>6. \A u \in Turn : Carries(u)' => u # t /\ Carries(u) /\ turn'[u].n # turn[t].n
  BY <1>1, <1>2 DEF Carries, NoTurn, NoPlan, IInv, BookingsOK
<1>7. Undecided' = Undecided
  BY <1>3 DEF Undecided
<1>8. BookingsOK'
  <2>1. \A u \in Turn : turn'[u].plan.kind = "book" => turn'[u].pc \in {"replied", "call", "grant"}
    BY <1>2 DEF IInv, BookingsOK, NoTurn, NoPlan
  <2>2. \A u \in Turn : Carries(u)' => turn'[u].n \in Undecided'
    BY <1>2, <1>6, <1>7 DEF IInv, BookingsOK
  <2>3. \A u, w \in Turn : Carries(u)' /\ Carries(w)' /\ turn'[u].n = turn'[w].n => u = w
    BY <1>2, <1>6 DEF IInv, BookingsOK
  <2> QED
    BY <1>1, <1>3, <1>6, <1>7, <2>1, <2>2, <2>3 DEF IInv, BookingsOK, BookedAsAccepted
<1> QED
  BY <1>4, <1>5, <1>8 DEF IInv

LEMMA ReadAcceptedStep ==
    ASSUME IInv, NEW t \in Turn, ReadAccepted(t)
    PROVE  IInv'
<1>1. CASE UNCHANGED turn
  BY <1>1, Unseen DEF ReadAccepted, sees
<1>2. CASE pending # NoCall /\ turn' = [turn EXCEPT ![t] = [NoTurn EXCEPT
                !.pc = "grant", !.plan = Book(pending.item), !.n = pending.n]]
  <2>1. /\ turn'[t].pc = "grant" /\ turn'[t].plan.kind = "book"
        /\ turn'[t].plan.item = pending.item /\ turn'[t].offered = {}
        /\ DOMAIN turn'[t] = DOMAIN NoTurn /\ DOMAIN turn' = Turn
        /\ \A u \in Turn : u # t => turn'[u] = turn[u]
    BY <1>2 DEF Book, NoPlan, NoTurn, IInv, Shaped
  <2>2. UNCHANGED <<options, pending, bookings>>
    BY DEF ReadAccepted
  <2>3. Shaped'
    BY <2>1 DEF IInv, Shaped, NoTurn
  <2>4. ShownOK'
    BY <1>2, <2>1, <2>2 DEF IInv, ShownOK, OnlyShownBooked, options
  <2>5. \A u \in Turn : Carries(u)' => u # t /\ Carries(u)
    BY <2>1 DEF Carries
  <2>6. BookingsOK'
    BY <2>1, <2>2, <2>5 DEF IInv, BookingsOK, BookedAsAccepted, Undecided, bookings
  <2> QED
    BY <2>3, <2>4, <2>6 DEF IInv
<1> QED
  BY <1>1, <1>2 DEF ReadAccepted

\* Pending hands its booking over to the turn that resumes it.
LEMMA ResumeStep ==
    ASSUME IInv, NEW t \in Turn, Resume(t)
    PROVE  IInv'
<1> USE DEF ToResume
<1>1. pending' = NoCall /\ UNCHANGED <<options, bookings>>
  BY DEF Resume
<1>2. CASE pending = NoCall
  BY <1>1, <1>2, FinishStep DEF Resume, options, IInv, ShownOK
<1>3. CASE pending # NoCall
  <2>0. turn' = [turn EXCEPT ![t].pc = "call", ![t].plan = Book(pending.item), ![t].n = pending.n]
    BY <1>3, Zenon DEF Resume
  <2>1. /\ turn'[t].pc = "call" /\ turn'[t].plan.kind = "book"
        /\ turn'[t].plan.item = pending.item /\ turn'[t].n = pending.n
        /\ turn'[t].offered = turn[t].offered /\ DOMAIN turn'[t] = DOMAIN NoTurn
        /\ DOMAIN turn' = Turn
        /\ \A u \in Turn : u # t => turn'[u] = turn[u]
    BY <2>0 DEF Book, NoPlan, NoTurn, IInv, Shaped
  <2>2. Shaped'
    BY <2>1 DEF IInv, Shaped, NoTurn
  <2>3. ShownOK'
    BY <1>1, <1>3, <2>1 DEF IInv, ShownOK, OnlyShownBooked, options
  <2>4. \A u \in Turn : u # t => (Carries(u)' <=> Carries(u))
    BY <2>1 DEF Carries
  <2>5. Undecided' = Undecided
    BY <1>1 DEF Undecided, bookings
  <2>6. BookingsOK'
    BY <1>1, <1>3, <2>1, <2>4, <2>5 DEF IInv, BookingsOK, BookedAsAccepted, bookings
  <2> QED
    BY <2>2, <2>3, <2>6 DEF IInv
<1> QED
  BY <1>2, <1>3

LEMMA ReadDeclinedStep ==
    ASSUME IInv, ReadDeclined
    PROVE  IInv'
<1>1. pending' = NoCall /\ UNCHANGED <<turn, options, called, booked, twice>>
  BY DEF ReadDeclined
<1>2. CASE pending = NoCall
  BY <1>1, <1>2, Unseen DEF ReadDeclined, sees, bookings
<1>3. CASE pending # NoCall
  <2>1. declined' = declined \union {pending.n}
    BY <1>3 DEF ReadDeclined
  <2>2. Undecided' = Undecided \ {pending.n}
    BY <1>1, <2>1 DEF Undecided
  <2>3. Shaped' /\ ShownOK'
    BY <1>1 DEF IInv, Shaped, ShownOK, OnlyShownBooked, options
  <2>4. \A u \in Turn : Carries(u)' = Carries(u)
    BY <1>1 DEF Carries
  <2>5. BookingsOK'
    BY <1>1, <1>3, <2>1, <2>2, <2>4 DEF IInv, BookingsOK, BookedAsAccepted, Undecided
  <2> QED
    BY <2>3, <2>5 DEF IInv
<1> QED
  BY <1>2, <1>3

\* The page starts anew: what was on its way is gone.
LEMMA ReloadStep ==
    ASSUME IInv, Reload
    PROVE  IInv'
<1>1. /\ turn' = [t \in Turn |-> NoTurn] /\ pending' = NoCall
      /\ shown' = {} /\ flights' = {} /\ hotels' = {}
      /\ UNCHANGED bookings
  BY DEF Reload
<1>2. \A t \in Turn : turn'[t] = NoTurn
  BY <1>1
<1>3. Shaped'
  BY <1>1, <1>2 DEF Shaped
<1>4. ShownOK'
  BY <1>1, <1>2 DEF ShownOK, OnlyShownBooked, NoTurn, NoPlan
<1>5. BookingsOK'
  BY <1>1, <1>2 DEF IInv, BookingsOK, BookedAsAccepted, Carries, bookings, NoTurn, NoPlan
<1> QED
  BY <1>3, <1>4, <1>5 DEF IInv

\* Only replies outlive a restart of the agent.
LEMMA RestartStep ==
    ASSUME IInv, Restart
    PROVE  IInv'
<1>1. /\ DOMAIN turn' = Turn
      /\ \A t \in Turn : turn'[t] = turn[t] \/ turn'[t] = NoTurn
      /\ UNCHANGED <<options, pending, bookings>>
  BY DEF Restart
<1>2. \A t \in Turn : Carries(t)' => turn'[t] = turn[t] /\ Carries(t)
  BY <1>1 DEF Carries, NoTurn, NoPlan
<1>3. Shaped'
  BY <1>1 DEF IInv, Shaped
<1>4. ShownOK'
  BY <1>1 DEF IInv, ShownOK, OnlyShownBooked, options, NoTurn, NoPlan
<1>5. BookingsOK'
  <2>1. Undecided' = Undecided
    BY <1>1 DEF Undecided, bookings
  <2>2. \A t \in Turn : turn'[t].plan.kind = "book" => turn'[t].pc \in {"replied", "call", "grant"}
    BY <1>1 DEF IInv, BookingsOK, NoTurn, NoPlan
  <2> QED
    BY <1>1, <1>2, <2>1, <2>2 DEF IInv, BookingsOK, BookedAsAccepted, bookings
<1> QED
  BY <1>3, <1>4, <1>5 DEF IInv

LEMMA TurnNext ==
    ASSUME IInv, NEW t \in Turn, TurnStep(t)
    PROVE  IInv'
<1>1. CASE Plan(t) \/ Phrase(t) \/ PlannerTalks(t) \/ PlannerBooks(t)
  BY <1>1, PlanStep, PhraseStep, PlannerTalksStep, PlannerBooksStep
<1>2. CASE ReceiveAsk(t) \/ ReceiveMessage(t) \/ ReceiveSearch(t) \/ ReceiveBooking(t)
  BY <1>2, ReceiveStep
<1>3. CASE SearchResult(t) \/ Booked(t) \/ ConsentRequired(t) \/ Resume(t)
  BY <1>3, SearchResultStep, BookedStep, ConsentRequiredStep, ResumeStep
<1>4. CASE Unauthorized(t)
  BY <1>4, FinishStep DEF Unauthorized, options, IInv, ShownOK
<1> QED
  BY <1>1, <1>2, <1>3, <1>4 DEF TurnStep

LEMMA NextIInv ==
    ASSUME IInv, [Next]_vars
    PROVE  IInv'
<1>1. ASSUME NEW t \in Turn, Answer(t) \/ TapOld(t) \/ Open(t) \/ Select(t)
      PROVE  IInv'
  BY <1>1, SendStep DEF Answer, TapOld, Open, Select
<1>2. ASSUME NEW t \in Turn, TurnStep(t) \/ ReadAccepted(t)
      PROVE  IInv'
  BY <1>2, TurnNext, ReadAcceptedStep
<1>3. ASSUME NEW t \in Turn, Fail(t)
      PROVE  IInv'
  BY <1>3, FinishStep DEF Fail, options, IInv, ShownOK
<1>4. CASE Login \/ OpenWindow \/ InWindow \/ Quiet \/ UNCHANGED vars
  BY <1>4, Unseen DEF Login, OpenWindow, InWindow, Quiet, vars, sees
<1>5. CASE Reload \/ Restart \/ ReadDeclined
  BY <1>5, ReloadStep, RestartStep, ReadDeclinedStep
<1> QED
  BY <1>1, <1>2, <1>3, <1>4, <1>5 DEF Next

-----------------------------------------------------------------------------
(* Theorems.                                                                *)

\* However turns, windows, failures, restarts and reloads overlap, every option
\* on its way was shown, and every booking on its way is undecided and in one
\* place.
THEOREM TripInvariant ==
    Spec => []IInv
<1>1. Init => IInv
  BY InitIInv
<1>2. IInv /\ [Next]_vars => IInv'
  BY NextIInv
<1> QED
  BY <1>1, <1>2, PTL DEF Spec

\* Only options that were shown are booked, whatever a planner answers.
THEOREM TripOnlyShownBooked ==
    Spec => []OnlyShownBooked
<1>1. IInv => OnlyShownBooked
  BY DEF IInv, ShownOK
<1> QED
  BY <1>1, TripInvariant, PTL

\* A booking is made at most once, and never after the page said that it was not
\* made.
THEOREM TripBookedAsAccepted ==
    Spec => []BookedAsAccepted
<1>1. IInv => BookedAsAccepted
  BY DEF IInv, BookingsOK
<1> QED
  BY <1>1, TripInvariant, PTL

-----------------------------------------------------------------------------
(* The conversation: which question is open, and what an answer to it fills. *)

\* A question about a date is asked on its own leg.
AskFits(leg, f) ==
    /\ leg \in Track /\ f \in Field
    /\ f = "departureDate" => leg = "flight"
    /\ f = "returnDate" => leg = "return"

TalkOK ==
    /\ track \in Track
    /\ \A t \in Turn :
        /\ turn[t].plan.track \in Track \union {Unset}
        /\ turn[t].pc = "sent" => turn[t].track \in Track
    /\ awaiting => AskFits(track, asked)
    /\ \A t \in Turn : turn[t].plan.kind = "ask" =>
        /\ turn[t].pc \in {"phrase", "replied"}
        /\ AskFits(turn[t].plan.track, turn[t].plan.field)
    /\ visit = "login" => \A t \in Turn : turn[t].pc = "idle"
    /\ visit = "lost" => faults # 0
    /\ faults \in Nat

\* A dated message on its way answers the question about that date.
DateFits(t) ==
    LET m == turn[t].msg IN
    m.date # Unset =>
        /\ ~m.hotel /\ ~m.return /\ turn[t].answering
        /\ \/ m.date = "out" /\ turn[t].track = "flight"
           \/ m.date = "back" /\ turn[t].track = "return"

DatesOK ==
    ~crossed =>
        /\ \A t \in Turn : turn[t].pc = "sent" => DateFits(t)
        /\ \A t, u \in Talking : t = u
        /\ DatesOnTheirLeg

\* What is asked is not known yet, and a trip that has a start has an end.
OpenOK ==
    ~crossed /\ faults = 0 =>
        /\ \A t \in Turn : turn[t].plan.kind = "ask" => profile[turn[t].plan.field] = Unset
        /\ awaiting /\ Talking = {} => profile[asked] = Unset
        /\ profile["destination"] = Unset => profile["origin"] = Unset

EndsOK ==
    ~crossed /\ faults = 0 /\ ~homeward =>
        /\ TwoEnds
        /\ \A t \in Turn : turn[t].pc = "sent" =>
            profile["origin"] \notin {turn[t].msg.to, turn[t].msg.city} \ {Unset}

TalkInv == TalkOK /\ DatesOK /\ OpenOK /\ EndsOK

\* The answer to a question fills the field that was asked for, and a date is
\* the one of its leg.
LEMMA AnswerMessage ==
    ASSUME NEW f \in Field, NEW m \in Suggested(f)
    PROVE  /\ ~m.hotel /\ ~m.return /\ m.to = Unset
           /\ m.date # Unset =>
                \/ m.date = "out" /\ f = "departureDate"
                \/ m.date = "back" /\ f = "returnDate"
           /\ m.city # Unset => f \in {"destination", "origin"}
<1> USE DEF Suggested, Nothing, Lone, OnDate
<1>1. CASE f \in {"destination", "origin"}
  BY <1>1
<1>2. CASE f \in {"departureDate", "returnDate"}
  BY <1>2
<1>3. CASE f \in {"travelers", "airlinePreference", "hotelBudget"}
  BY <1>3
<1> QED
  BY <1>1, <1>2, <1>3 DEF Field

\* What is said unasked names no date.
LEMMA UnaskedMessage ==
    /\ \A m \in Opening : m.date = Unset
    /\ \A i : Confirm(i).date = Unset
<1>1. /\ PlanTrip.date = Unset /\ FindHotel.date = Unset /\ BookReturn.date = Unset /\ FreeForm.date = Unset
      /\ \A c : FlyTo(c).date = Unset
      /\ \A c : MakeIt(c).date = Unset
  BY DEF PlanTrip, FindHotel, BookReturn, FreeForm, FlyTo, MakeIt, Nothing
<1>2. \A m \in Opening : m.date = Unset
  BY <1>1 DEF Opening
<1>3. \A i : Confirm(i).date = Unset
  <2> TAKE i
  <2> QED
    BY DEF Confirm, Nothing
<1> QED
  BY <1>2, <1>3

\* The first missing field is a missing field, and none before it is missing.
LEMMA FirstIsFirst ==
    ASSUME NEW fields \in SUBSET Field, fields # {}
    PROVE  /\ FirstOf(fields) \in fields
           /\ \A g \in fields : Order[FirstOf(fields)] <= Order[g]
<1>1. \E f \in fields : \A g \in fields : Order[f] <= Order[g]
  <2> USE DEF Field, Order
  <2>1. CASE "destination" \in fields
    BY <2>1
  <2>2. CASE "destination" \notin fields /\ "origin" \in fields
    BY <2>2
  <2>3. CASE fields \intersect {"destination", "origin"} = {} /\ "departureDate" \in fields
    BY <2>3
  <2>4. CASE fields \intersect {"destination", "origin", "departureDate"} = {} /\ "travelers" \in fields
    BY <2>4
  <2>5. CASE fields \subseteq {"airlinePreference", "hotelBudget", "returnDate"} /\ "airlinePreference" \in fields
    BY <2>5
  <2>6. CASE fields \subseteq {"hotelBudget", "returnDate"} /\ "hotelBudget" \in fields
    BY <2>6
  <2>7. CASE fields = {"returnDate"}
    BY <2>7
  <2> QED
    BY <2>1, <2>2, <2>3, <2>4, <2>5, <2>6, <2>7
<1> QED
  BY <1>1 DEF FirstOf

\* A question of the engine is about a field that is missing, on its leg: the
\* way back is asked about only after both ends are known.
LEMMA QuestionFits ==
    ASSUME NEW leg \in Track, NEW p, NextQuestion(leg, p) # Unset
    PROVE  AskFits(leg, NextQuestion(leg, p)) /\ p[NextQuestion(leg, p)] = Unset
<1> DEFINE F == Missing(p, {"destination", "origin", "departureDate", "travelers", "airlinePreference"})
           H == Missing(p, {"destination", "hotelBudget"})
           E == Missing(p, {"origin", "destination"})
           R == Missing(p, {"returnDate"})
<1>1. /\ F \in SUBSET Field /\ H \in SUBSET Field /\ R \in SUBSET Field
      /\ E \subseteq F
      /\ \A f \in F \union H \union R : p[f] = Unset
  BY DEF Missing, Field
<1>2. leg = "hotel" => NextQuestion(leg, p) = FirstOf(H)
  BY DEF NextQuestion, NextHotelQuestion
<1>3. leg = "flight" => NextQuestion(leg, p) = FirstOf(F)
  BY DEF NextQuestion, NextFlightQuestion
<1>4. leg = "return" => NextQuestion(leg, p) = IF E # {} THEN FirstOf(F) ELSE FirstOf(R)
  BY DEF NextQuestion, NextReturnQuestion, NextFlightQuestion
<1>5. \A S : FirstOf(S) # Unset => S # {}
  BY DEF FirstOf
<1>6. CASE leg = "hotel"
  <2>1. FirstOf(H) \in H
    BY <1>1, <1>2, <1>5, <1>6, FirstIsFirst
  <2> QED
    BY <1>1, <1>2, <1>6, <2>1 DEF AskFits, Missing, Field
<1>7. CASE leg = "flight"
  <2>1. FirstOf(F) \in F
    BY <1>1, <1>3, <1>5, <1>7, FirstIsFirst
  <2> QED
    BY <1>1, <1>3, <1>7, <2>1 DEF AskFits, Missing, Field
<1>8. CASE leg = "return" /\ E # {}
  <2>1. FirstOf(F) \in F /\ \A g \in F : Order[FirstOf(F)] <= Order[g]
    BY <1>1, <1>8, FirstIsFirst
  <2>2. PICK g \in {"origin", "destination"} : g \in F
    BY <1>1, <1>8 DEF Missing
  <2>3. FirstOf(F) \notin {"departureDate", "returnDate"}
    BY <2>1, <2>2 DEF Order, Missing
  <2> QED
    BY <1>1, <1>4, <1>8, <2>1, <2>3 DEF AskFits
<1>9. CASE leg = "return" /\ E = {}
  <2>1. FirstOf(R) \in R
    BY <1>1, <1>4, <1>5, <1>9, FirstIsFirst
  <2> QED
    BY <1>1, <1>4, <1>9, <2>1 DEF AskFits, Missing, Field
<1> QED
  BY <1>6, <1>7, <1>8, <1>9 DEF Track

\* The dates of the profile after a message was read.
LEMMA ExtractDates ==
    ASSUME NEW m, NEW p, NEW back \in BOOLEAN
    PROVE  /\ ExtractSlots(m, p, back)["departureDate"] =
                IF ~back /\ m.date # Unset THEN m.date ELSE p["departureDate"]
           /\ ExtractSlots(m, p, back)["returnDate"] =
                IF back /\ m.date # Unset THEN m.date ELSE p["returnDate"]
<1>1. CityField(m, p) \in {"destination", "origin"}
  BY DEF CityField
<1>2. "departureDate" \in Field /\ "returnDate" \in Field
  BY DEF Field
<1>3. Named(m, p, back)["departureDate"] = IF ~back THEN m.date ELSE Unset
  BY <1>1, <1>2 DEF Named
<1>4. Named(m, p, back)["returnDate"] = IF back THEN m.date ELSE Unset
  BY <1>1, <1>2 DEF Named
<1> QED
  BY <1>2, <1>3, <1>4 DEF ExtractSlots

\* Its ends: a city is the start only if there is another end, and then it
\* stays the start.
LEMMA ExtractEnds ==
    ASSUME NEW m, NEW p, NEW back,
           p["destination"] = Unset => p["origin"] = Unset
    PROVE  LET q == ExtractSlots(m, p, back) IN
           /\ q["destination"] = Unset => q["origin"] = Unset
           /\ p["origin"] = Unset /\ q["origin"] # Unset => q["origin"] # q["destination"]
           /\ p["origin"] # Unset =>
                /\ q["origin"] = p["origin"]
                /\ q["destination"] \in {p["destination"], m.to, m.city} \ {Unset}
<1> DEFINE q == ExtractSlots(m, p, back)
           n == Named(m, p, back)
           c == CityField(m, p)
<1>1. c \in {"destination", "origin"} /\ "destination" \in Field /\ "origin" \in Field
  BY DEF CityField, Field
<1>2. /\ c = "origin" => p["destination"] # Unset /\ p["origin"] = Unset /\ m.city # p["destination"]
      /\ p["origin"] # Unset => c = "destination"
      /\ p["destination"] = Unset => c = "destination"
  BY DEF CityField
<1>3. n["destination"] =
        IF m.to # Unset THEN m.to
        ELSE IF m.city # Unset /\ c = "destination" THEN m.city ELSE Unset
  BY <1>1 DEF Named
<1>4. n["origin"] = IF m.to = Unset /\ m.city # Unset /\ c = "origin" THEN m.city ELSE Unset
  BY <1>1 DEF Named
<1>5. /\ q["destination"] = (IF n["destination"] # Unset THEN n["destination"] ELSE p["destination"])
      /\ q["origin"] = (IF n["origin"] # Unset THEN n["origin"] ELSE p["origin"])
  BY <1>1 DEF ExtractSlots
<1> HIDE DEF q, n, c
<1>6. q["destination"] = Unset => q["origin"] = Unset
  BY <1>1, <1>2, <1>3, <1>4, <1>5
<1>7. p["origin"] = Unset /\ q["origin"] # Unset => q["origin"] # q["destination"]
  BY <1>1, <1>2, <1>3, <1>4, <1>5
<1>8. p["origin"] # Unset =>
        q["origin"] = p["origin"] /\ q["destination"] \in {p["destination"], m.to, m.city} \ {Unset}
  BY <1>1, <1>2, <1>3, <1>4, <1>5
<1> QED
  BY <1>6, <1>7, <1>8 DEF q

LEMMA InitTalk ==
    Init => TalkInv
<1> SUFFICES ASSUME Init PROVE TalkInv
  OBVIOUS
<1>1. /\ turn = [t \in Turn |-> NoTurn] /\ profile = NoProfile /\ visit = "login"
      /\ awaiting = FALSE /\ track = "flight" /\ faults = 0
  BY DEF Init, Fresh
<1>2. \A t \in Turn : turn[t].pc = "idle" /\ turn[t].plan.kind = "none" /\ turn[t].plan.track = Unset
  BY <1>1 DEF NoTurn, NoPlan
<1>3. \A f \in Field : profile[f] = Unset
  BY <1>1 DEF NoProfile
<1>4. /\ profile["departureDate"] = Unset /\ profile["returnDate"] = Unset
      /\ profile["destination"] = Unset /\ profile["origin"] = Unset
  BY <1>3 DEF Field
<1>5. TalkOK
  BY <1>1, <1>2 DEF TalkOK, Track
<1>6. DatesOK
  BY <1>2, <1>4, CityAssumption DEF DatesOK, DatesOnTheirLeg, Talking
<1>7. OpenOK
  BY <1>1, <1>2, <1>4 DEF OpenOK
<1>8. EndsOK
  BY <1>2, <1>4 DEF EndsOK, TwoEnds
<1> QED
  BY <1>5, <1>6, <1>7, <1>8 DEF TalkInv

\* What a step may do to a turn without anything new being said or asked.
Speaks == {"sent", "phrase", "plan", "replied"}

GoesOn(t) ==
    \/ turn'[t] = turn[t]
    \/ /\ turn'[t].pc # "sent"
       /\ turn'[t].plan.track \in Track \union {Unset}
       /\ turn'[t].plan.kind = "ask" =>
            turn'[t].plan = turn[t].plan /\ turn'[t].pc \in {"phrase", "replied"}
       /\ turn'[t].pc \in Speaks => turn[t].pc \in Speaks
       /\ turn[t].pc \in Speaks => turn'[t].pc \in Speaks \/ ~awaiting' \/ faults' # 0

\* Such a step keeps the invariant, if what was gathered is kept or forgotten,
\* and an open question stays open or is closed.
LEMMA TalkGoesOn ==
    ASSUME TalkInv,
           \A t \in Turn : GoesOn(t),
           visit' = "login" => \A t \in Turn : turn'[t].pc = "idle",
           visit' = "lost" => faults' # 0,
           faults' \in Nat, faults' = 0 => faults = 0,
           crossed' = crossed, homeward' = homeward,
           profile' \in {profile, NoProfile},
           track' \in Track,
           awaiting' => awaiting /\ track' = track /\ asked' = asked
    PROVE  TalkInv'
<1>1. \A f \in Field : profile'[f] \in {profile[f], Unset}
  BY DEF NoProfile
<1>2. TalkOK'
  BY DEF TalkInv, TalkOK, GoesOn
<1>3. \A t \in Turn : turn'[t].pc = "sent" => turn'[t] = turn[t]
  BY DEF GoesOn
<1>4. \A t \in Turn : t \in Talking' => t \in Talking
  BY DEF Talking, GoesOn, Speaks
<1>5. profile' = profile \/ (profile'["destination"] = Unset /\ profile'["origin"] = Unset
                              /\ profile'["departureDate"] = Unset /\ profile'["returnDate"] = Unset)
  BY DEF NoProfile, Field
<1>6. DatesOK'
  <2> SUFFICES ASSUME ~crossed' PROVE /\ \A t \in Turn : turn'[t].pc = "sent" => DateFits(t)'
                                      /\ \A t, u \in Talking' : t = u
                                      /\ DatesOnTheirLeg'
    BY DEF DatesOK
  <2>0. /\ \A t \in Turn : turn[t].pc = "sent" => DateFits(t)
        /\ \A t, u \in Talking : t = u
        /\ DatesOnTheirLeg
    BY DEF TalkInv, DatesOK
  <2>1. \A t \in Turn : turn'[t].pc = "sent" => DateFits(t)'
    BY <1>3, <2>0 DEF DateFits
  <2>2. \A t, u \in Talking' : t = u
    BY <1>4, <2>0 DEF Talking
  <2>3. DatesOnTheirLeg'
    BY <1>5, <2>0, CityAssumption DEF DatesOnTheirLeg
  <2> QED
    BY <2>1, <2>2, <2>3
<1>7. OpenOK'
  <2> SUFFICES ASSUME ~crossed', faults' = 0
               PROVE  /\ \A t \in Turn : turn'[t].plan.kind = "ask" => profile'[turn'[t].plan.field] = Unset
                      /\ awaiting' /\ Talking' = {} => profile'[asked'] = Unset
                      /\ profile'["destination"] = Unset => profile'["origin"] = Unset
    BY DEF OpenOK
  <2>0. /\ \A t \in Turn : turn[t].plan.kind = "ask" => profile[turn[t].plan.field] = Unset
        /\ awaiting /\ Talking = {} => profile[asked] = Unset
        /\ profile["destination"] = Unset => profile["origin"] = Unset
    BY DEF TalkInv, OpenOK
  <2>1. ASSUME NEW t \in Turn, turn'[t].plan.kind = "ask"
        PROVE  profile'[turn'[t].plan.field] = Unset
    <3>1. turn'[t].plan = turn[t].plan
      BY <2>1 DEF GoesOn
    <3>2. turn[t].plan.field \in Field
      BY <2>1, <3>1 DEF TalkInv, TalkOK, AskFits
    <3> QED
      BY <1>1, <2>0, <2>1, <3>1, <3>2
  <2>2. ASSUME awaiting', Talking' = {}
        PROVE  profile'[asked'] = Unset
    <3>1. asked' = asked /\ asked \in Field
      BY <2>2 DEF TalkInv, TalkOK, AskFits
    <3>2. Talking = {}
      BY <2>2 DEF Talking, GoesOn, Speaks
    <3> QED
      BY <1>1, <2>0, <2>2, <3>1, <3>2
  <2>3. profile'["destination"] = Unset => profile'["origin"] = Unset
    BY <1>5, <2>0
  <2> QED
    BY <2>1, <2>2, <2>3
<1>8. EndsOK'
  <2> SUFFICES ASSUME ~crossed', faults' = 0, ~homeward'
               PROVE  /\ TwoEnds'
                      /\ \A t \in Turn : turn'[t].pc = "sent" =>
                            profile'["origin"] \notin {turn'[t].msg.to, turn'[t].msg.city} \ {Unset}
    BY DEF EndsOK
  <2>0. /\ TwoEnds
        /\ \A t \in Turn : turn[t].pc = "sent" =>
                profile["origin"] \notin {turn[t].msg.to, turn[t].msg.city} \ {Unset}
    BY DEF TalkInv, EndsOK
  <2>1. TwoEnds'
    BY <1>5, <2>0 DEF TwoEnds
  <2> QED
    BY <1>3, <1>5, <2>0, <2>1
<1> QED
  BY <1>2, <1>6, <1>7, <1>8 DEF TalkInv

\* The turn that a step is about, and the others.
LEMMA OneTurn ==
    ASSUME Shaped, NEW t \in Turn, NEW r, turn' = [turn EXCEPT ![t] = r]
    PROVE  turn'[t] = r /\ \A u \in Turn : u # t => turn'[u] = turn[u]
BY DEF Shaped

LEMMA FinishGoesOn ==
    ASSUME TalkInv, Shaped, NEW t \in Turn, Finish(t),
           turn[t].pc \notin Speaks \/ ~awaiting' \/ faults' # 0
    PROVE  \A u \in Turn : GoesOn(u)
<1>1. turn'[t] = NoTurn /\ \A u \in Turn : u # t => turn'[u] = turn[u]
  BY OneTurn DEF Finish
<1>2. GoesOn(t)
  BY <1>1 DEF GoesOn, NoTurn, NoPlan, Speaks
<1> QED
  BY <1>1, <1>2 DEF GoesOn

\* Any reply to a turn that was planned, or to a question that was phrased.
LEMMA ReplyGoesOn ==
    ASSUME TalkInv, Shaped, NEW t \in Turn, NEW p, NEW n, Reply(t, p, n),
           turn[t].pc \in Speaks,
           p.track \in Track \union {Unset},
           p.kind = "ask" => p = turn[t].plan
    PROVE  \A u \in Turn : GoesOn(u)
<1>1. /\ turn'[t] = [NoTurn EXCEPT !.pc = "replied", !.plan = p, !.n = n]
      /\ \A u \in Turn : u # t => turn'[u] = turn[u]
  BY OneTurn DEF Reply
<1>2. turn'[t].pc = "replied" /\ turn'[t].plan = p
  BY <1>1 DEF NoTurn
<1>3. GoesOn(t)
  BY <1>2 DEF GoesOn, Speaks
<1> QED
  BY <1>1, <1>3 DEF GoesOn

\* What a planner answers asks nothing.
LEMMA PlansAskNothing ==
    ASSUME NEW offered, NEW p \in Plans(offered)
    PROVE  p.kind # "ask" /\ p.track = Unset
BY DEF Plans, ModelPlans, Called, Validated, Bookable, SayText, Search, Book, NoPlan

\* The steps that change neither what was gathered nor what is open.
LEMMA TalkKept ==
    ASSUME TalkInv, \A u \in Turn : GoesOn(u), visit # "login",
           UNCHANGED <<visit, profile, talk, noted>>
    PROVE  TalkInv'
<1>1. /\ visit' = visit /\ profile' = profile /\ awaiting' = awaiting /\ track' = track /\ asked' = asked
      /\ faults' = faults /\ crossed' = crossed /\ homeward' = homeward
  BY DEF talk, noted
<1>2. /\ visit' = "lost" => faults' # 0
      /\ faults' \in Nat /\ (faults' = 0 => faults = 0) /\ track' \in Track
  BY <1>1 DEF TalkInv, TalkOK
<1> QED
  BY <1>1, <1>2, TalkGoesOn

\* Only a page that is signed in has turns.
LEMMA TurnIsSignedIn ==
    ASSUME TalkInv, NEW t \in Turn, turn[t].pc # "idle"
    PROVE  visit # "login"
BY DEF TalkInv, TalkOK

LEMMA PlannedTalk ==
    ASSUME TalkInv, Shaped, NEW t \in Turn, Phrase(t) \/ PlannerTalks(t) \/ PlannerBooks(t)
    PROVE  TalkInv'
<1>1. turn[t].pc \in {"phrase", "plan"} /\ UNCHANGED <<visit, profile, talk, noted>>
  BY DEF Phrase, PlannerTalks, PlannerBooks
<1>2. CASE Phrase(t)
  <2>1. Reply(t, turn[t].plan, 0)
    BY <1>2 DEF Phrase
  <2> QED
    BY <1>1, <2>1, ReplyGoesOn, TalkKept, TurnIsSignedIn DEF TalkInv, TalkOK, Speaks
<1>3. CASE PlannerTalks(t) \/ PlannerBooks(t)
  <2>1. PICK p \in Plans(turn[t].offered) : \E n : Reply(t, p, n)
    BY <1>3 DEF PlannerTalks, PlannerBooks
  <2>2. PICK n : Reply(t, p, n)
    BY <2>1
  <2>3. p.kind # "ask" /\ p.track = Unset
    BY PlansAskNothing
  <2>4. \A u \in Turn : GoesOn(u)
    BY <1>1, <2>2, <2>3, ReplyGoesOn DEF Speaks
  <2> QED
    BY <1>1, <2>4, TalkKept, TurnIsSignedIn
<1> QED
  BY <1>2, <1>3

\* A text, a search or a booking closes the question.
LEMMA ReceivedTalk ==
    ASSUME TalkInv, Shaped, NEW t \in Turn, ReceiveMessage(t) \/ ReceiveSearch(t) \/ ReceiveBooking(t)
    PROVE  TalkInv'
<1>1. /\ turn[t].pc = "replied" /\ turn[t].plan.kind # "ask" /\ awaiting' = FALSE
      /\ UNCHANGED <<visit, profile, noted>>
  BY DEF ReceiveMessage, ReceiveSearch, ReceiveBooking, Replied
<1>2. track' \in Track
  BY DEF ReceiveMessage, ReceiveSearch, ReceiveBooking, TalkInv, TalkOK, Track
<1>3. \A u \in Turn : GoesOn(u)
  <2>1. CASE ReceiveMessage(t)
    BY <1>1, <2>1, FinishGoesOn DEF ReceiveMessage
  <2>2. CASE turn' = [turn EXCEPT ![t].pc = "call"]
    <3>1. /\ turn'[t].pc = "call" /\ turn'[t].plan = turn[t].plan
          /\ \A u \in Turn : u # t => turn'[u] = turn[u]
      BY <2>2 DEF Shaped, NoTurn
    <3>2. GoesOn(t)
      BY <1>1, <3>1 DEF GoesOn, Speaks, TalkInv, TalkOK
    <3> QED
      BY <3>1, <3>2 DEF GoesOn
  <2> QED
    BY <2>1, <2>2 DEF ReceiveSearch, ReceiveBooking
<1>4. visit # "login"
  BY <1>1, TurnIsSignedIn
<1>5. /\ visit' = visit /\ profile' = profile /\ faults' = faults /\ crossed' = crossed /\ homeward' = homeward
  BY <1>1 DEF noted
<1>6. visit' = "lost" => faults' # 0
  BY <1>5 DEF TalkInv, TalkOK
<1>7. faults' \in Nat /\ (faults' = 0 => faults = 0)
  BY <1>5 DEF TalkInv, TalkOK
<1> QED
  BY <1>1, <1>2, <1>3, <1>4, <1>5, <1>6, <1>7, TalkGoesOn

\* The calls to a provider.
LEMMA CalledTalk ==
    ASSUME TalkInv, Shaped, NEW t \in Turn,
           SearchResult(t) \/ Booked(t) \/ ConsentRequired(t) \/ Resume(t) \/ Unauthorized(t)
    PROVE  TalkInv'
<1>1. UNCHANGED <<visit, profile, talk, noted>>
  BY DEF SearchResult, Booked, ConsentRequired, Resume, Unauthorized
<1>2. turn[t].pc \in {"call", "grant"} \/ (turn[t].pc = "sent" /\ visit = "lost")
  <2>1. SearchResult(t) \/ Booked(t) \/ ConsentRequired(t) => turn[t].pc = "call"
    BY DEF SearchResult, Booked, ConsentRequired, Calling
  <2>2. Resume(t) => turn[t].pc = "grant"
    BY DEF Resume
  <2>3. Unauthorized(t) => turn[t].pc \in {"sent", "call", "grant"} /\ visit = "lost"
    BY DEF Unauthorized
  <2> QED
    BY <2>1, <2>2, <2>3
<1>3. turn[t].pc \notin Speaks \/ faults' # 0
  BY <1>1, <1>2 DEF Speaks, TalkInv, TalkOK, noted
<1>4. \A u \in Turn : GoesOn(u)
  <2>1. CASE Finish(t)
    BY <1>3, <2>1, FinishGoesOn
  <2>2. CASE Resume(t) /\ ~Finish(t)
    <3>1. turn[t].pc = "grant" /\ turn' = [turn EXCEPT ![t].pc = "call", ![t].plan = Book(ToResume(t).item),
                                                     ![t].n = ToResume(t).n]
      BY <2>2, Zenon DEF Resume
    <3>2. /\ turn'[t].pc = "call" /\ turn'[t].plan = Book(ToResume(t).item)
          /\ \A u \in Turn : u # t => turn'[u] = turn[u]
      BY <3>1 DEF Shaped, NoTurn
    <3>3. Book(ToResume(t).item).track = Unset /\ Book(ToResume(t).item).kind = "book"
      BY DEF Book, NoPlan
    <3>4. turn[t].pc = "grant"
      BY <3>1
    <3>5. GoesOn(t)
      BY <3>2, <3>3, <3>4 DEF GoesOn, Speaks
    <3> QED
      BY <3>2, <3>5 DEF GoesOn
  <2> QED
    BY <2>1, <2>2 DEF SearchResult, Booked, ConsentRequired, Unauthorized
<1>5. turn[t].pc # "idle"
  BY <1>2
<1> QED
  BY <1>1, <1>4, <1>5, TalkKept, TurnIsSignedIn

\* A step that none of it shows in.
LEMMA TalkUnmoved ==
    ASSUME TalkInv, UNCHANGED <<turn, visit, profile, talk, noted>>
    PROVE  TalkInv'
<1>1. \A u \in Turn : GoesOn(u)
  BY DEF GoesOn
<1>2. visit' = visit /\ track' = track /\ faults' = faults /\ turn' = turn
  BY DEF talk, noted
<1>3. /\ visit' = "login" => \A t \in Turn : turn'[t].pc = "idle"
      /\ visit' = "lost" => faults' # 0
      /\ faults' \in Nat /\ track' \in Track
  BY <1>2 DEF TalkInv, TalkOK
<1> QED
  BY <1>1, <1>2, <1>3, TalkGoesOn DEF talk, noted

\* The messages of the consent window; only a page that is signed in reads them.
LEMMA ReadTalk ==
    ASSUME TalkInv, Shaped, NEW t \in Turn, ReadAccepted(t)
    PROVE  TalkInv'
<1>1. turn[t].pc = "idle" /\ UNCHANGED <<visit, profile, talk, noted>>
  BY DEF ReadAccepted
<1>2. CASE visit = "login" \/ pending = NoCall
  <2>1. turn' = turn
    BY <1>2, Zenon DEF ReadAccepted
  <2> QED
    BY <1>1, <2>1, TalkUnmoved
<1>3. CASE visit # "login" /\ pending # NoCall
  <2>1. turn' = [turn EXCEPT ![t] = [NoTurn EXCEPT !.pc = "grant", !.plan = Book(pending.item), !.n = pending.n]]
    BY <1>3, Zenon DEF ReadAccepted
  <2>2. /\ turn'[t] = [NoTurn EXCEPT !.pc = "grant", !.plan = Book(pending.item), !.n = pending.n]
        /\ \A u \in Turn : u # t => turn'[u] = turn[u]
    BY <2>1, OneTurn
  <2>3. turn'[t].pc = "grant" /\ turn'[t].plan = Book(pending.item)
    BY <2>2 DEF NoTurn
  <2>4. Book(pending.item).track = Unset /\ Book(pending.item).kind = "book"
    BY DEF Book, NoPlan
  <2>5. GoesOn(t)
    BY <1>1, <2>3, <2>4 DEF GoesOn, Speaks
  <2>6. \A u \in Turn : GoesOn(u)
    BY <2>2, <2>5 DEF GoesOn
  <2> QED
    BY <1>1, <1>3, <2>6, TalkKept
<1> QED
  BY <1>2, <1>3

LEMMA FailTalk ==
    ASSUME TalkInv, Shaped, NEW t \in Turn, Fail(t)
    PROVE  TalkInv'
<1>1. /\ Finish(t) /\ turn[t].pc # "idle" /\ faults' = faults + 1
      /\ UNCHANGED <<visit, profile, talk, crossed, homeward>>
  BY DEF Fail, Fault
<1>2. faults \in Nat /\ track \in Track
  BY DEF TalkInv, TalkOK
<1>3. faults' \in Nat /\ faults' # 0
  BY <1>1, <1>2
<1>4. \A u \in Turn : GoesOn(u)
  BY <1>1, <1>3, FinishGoesOn
<1>5. visit # "login"
  BY <1>1, TurnIsSignedIn
<1> QED
  BY <1>1, <1>2, <1>3, <1>4, <1>5, TalkGoesOn DEF talk

\* A new page: nothing is open, and what was gathered is with the agent.
LEMMA ReloadTalk ==
    ASSUME TalkInv, Shaped, Reload
    PROVE  TalkInv'
<1>1. /\ turn' = [t \in Turn |-> NoTurn] /\ awaiting' = FALSE /\ track' = "flight"
      /\ UNCHANGED <<profile, crossed, homeward>>
  BY DEF Reload
<1>2. \A t \in Turn : turn'[t] = NoTurn
  BY <1>1
<1>3. \A t \in Turn : turn'[t].pc = "idle" /\ GoesOn(t)
  BY <1>1, <1>2 DEF GoesOn, NoTurn, NoPlan, Speaks
<1>4. faults \in Nat /\ (visit = "lost" => faults # 0)
  BY DEF TalkInv, TalkOK
<1>5. CASE visit = "lost"
  <2>1. visit' = "login" /\ faults' = faults
    BY <1>5, Zenon DEF Reload
  <2> QED
    BY <1>1, <1>3, <1>4, <2>1, TalkGoesOn DEF Track
<1>6. CASE visit # "lost"
  <2>1. visit' = visit /\ faults' = faults + 1
    BY <1>6, Zenon DEF Reload, Fault
  <2>2. faults' \in Nat /\ faults' # 0
    BY <1>4, <2>1
  <2> QED
    BY <1>1, <1>3, <1>6, <2>1, <2>2, TalkGoesOn DEF Track
<1> QED
  BY <1>5, <1>6

\* The agent forgets what it gathered.
LEMMA RestartTalk ==
    ASSUME TalkInv, Shaped, Restart
    PROVE  TalkInv'
<1>1. /\ visit' = "lost" /\ faults' = faults + 1 /\ profile' = NoProfile
      /\ turn' = [t \in Turn |-> IF turn[t].pc = "replied" THEN turn[t] ELSE NoTurn]
      /\ UNCHANGED <<talk, crossed, homeward>>
  BY DEF Restart, Fault
<1>2. faults \in Nat /\ track \in Track
  BY DEF TalkInv, TalkOK
<1>3. faults' \in Nat /\ faults' # 0
  BY <1>1, <1>2
<1>4. \A t \in Turn : turn'[t] = turn[t] \/ turn'[t] = NoTurn
  BY <1>1
<1>5. \A t \in Turn : GoesOn(t)
  BY <1>3, <1>4 DEF GoesOn, NoTurn, NoPlan, Speaks
<1> QED
  BY <1>1, <1>2, <1>3, <1>5, TalkGoesOn DEF talk

LEMMA LoginTalk ==
    ASSUME TalkInv, Shaped, Login
    PROVE  TalkInv'
<1>1. /\ visit' = "in" /\ profile' = NoProfile /\ turn' = turn
      /\ UNCHANGED <<talk, noted>>
  BY DEF Login
<1>2. \A t \in Turn : GoesOn(t)
  BY <1>1 DEF GoesOn
<1>3. faults \in Nat /\ track \in Track
  BY DEF TalkInv, TalkOK
<1> QED
  BY <1>1, <1>2, <1>3, TalkGoesOn DEF talk, noted

\* A message that is said in its turn: with a date only in answer to the
\* question about it, and with the city the trip starts in only unasked.
InTurn(m, answering) ==
    /\ ~crossed /\ Talking = {}
    /\ m.date # Unset =>
        /\ ~m.hotel /\ ~m.return /\ answering
        /\ \/ m.date = "out" /\ track = "flight"
           \/ m.date = "back" /\ track = "return"
    /\ faults = 0 /\ answering => profile["origin"] \notin {m.to, m.city} \ {Unset}

LEMMA SendTalk ==
    ASSUME TalkInv, Shaped, NEW t \in Turn, NEW m, NEW answering \in BOOLEAN, Send(t, m, answering),
           ~crossed' => InTurn(m, answering)
    PROVE  TalkInv'
<1>1. /\ visit # "login" /\ turn[t].pc = "idle"
      /\ UNCHANGED <<visit, profile, talk, faults>>
  BY DEF Send
<1>2. turn' = [turn EXCEPT ![t] = [NoTurn EXCEPT
                !.pc = "sent", !.msg = m, !.answering = answering \/ awaiting,
                !.track = track, !.offered = flights \union hotels]]
  BY DEF Send
<1>3. /\ turn'[t] = [NoTurn EXCEPT !.pc = "sent", !.msg = m, !.answering = answering \/ awaiting,
                                   !.track = track, !.offered = flights \union hotels]
      /\ \A u \in Turn : u # t => turn'[u] = turn[u]
  BY <1>2, OneTurn
<1>4. /\ turn'[t].pc = "sent" /\ turn'[t].msg = m /\ turn'[t].track = track
      /\ turn'[t].plan.kind = "none" /\ turn'[t].plan.track = Unset
  BY <1>3 DEF NoTurn, NoPlan
<1>5. answering => turn'[t].answering
  <2>1. turn'[t].answering = (answering \/ awaiting)
    BY <1>3 DEF NoTurn
  <2> QED
    BY <2>1, Zenon
<1>6. /\ visit' = visit /\ profile' = profile /\ faults' = faults
      /\ awaiting' = awaiting /\ track' = track /\ asked' = asked
  BY <1>1 DEF talk
<1>7. TalkOK'
  <2> USE DEF TalkInv, TalkOK
  <2>1. track' \in Track /\ (awaiting' => AskFits(track', asked'))
    BY <1>6
  <2>2. \A u \in Turn : /\ turn'[u].plan.track \in Track \union {Unset}
                        /\ turn'[u].pc = "sent" => turn'[u].track \in Track
    BY <1>3, <1>4
  <2>3. \A u \in Turn : turn'[u].plan.kind = "ask" =>
            /\ turn'[u].pc \in {"phrase", "replied"}
            /\ AskFits(turn'[u].plan.track, turn'[u].plan.field)
    BY <1>3, <1>4
  <2> QED
    BY <1>1, <1>6, <2>1, <2>2, <2>3
<1>8. t \in Talking'
  BY <1>4 DEF Talking
<1>9. DatesOK'
  <2> SUFFICES ASSUME ~crossed' PROVE /\ \A u \in Turn : turn'[u].pc = "sent" => DateFits(u)'
                                      /\ \A u, w \in Talking' : u = w
                                      /\ DatesOnTheirLeg'
    BY DEF DatesOK
  <2>1. InTurn(m, answering) /\ \A u \in Turn : turn[u].pc \notin {"sent", "phrase", "plan", "replied"}
    BY DEF InTurn, Talking
  <2>2. DateFits(t)'
    BY <1>4, <1>5, <2>1 DEF DateFits, InTurn
  <2>3. \A u \in Turn : u # t => turn'[u].pc \notin {"sent", "phrase", "plan", "replied"}
    BY <1>3, <2>1
  <2>4. \A u, w \in Talking' : u = w
    BY <2>3 DEF Talking
  <2>5. DatesOnTheirLeg'
    BY <1>6, <2>1 DEF InTurn, TalkInv, DatesOK, DatesOnTheirLeg
  <2> QED
    BY <2>2, <2>3, <2>4, <2>5
<1>10. OpenOK'
  <2> SUFFICES ASSUME ~crossed', faults' = 0
               PROVE  /\ \A u \in Turn : turn'[u].plan.kind = "ask" => profile'[turn'[u].plan.field] = Unset
                      /\ awaiting' /\ Talking' = {} => profile'[asked'] = Unset
                      /\ profile'["destination"] = Unset => profile'["origin"] = Unset
    BY DEF OpenOK
  <2>1. /\ \A u \in Turn : turn[u].plan.kind = "ask" => profile[turn[u].plan.field] = Unset
        /\ profile["destination"] = Unset => profile["origin"] = Unset
    BY <1>6 DEF InTurn, TalkInv, OpenOK
  <2> QED
    BY <1>3, <1>4, <1>6, <1>8, <2>1
<1>11. EndsOK'
  <2> SUFFICES ASSUME ~crossed', faults' = 0, ~homeward'
               PROVE  /\ TwoEnds'
                      /\ \A u \in Turn : turn'[u].pc = "sent" =>
                            profile'["origin"] \notin {turn'[u].msg.to, turn'[u].msg.city} \ {Unset}
    BY DEF EndsOK
  <2>1. homeward' = (homeward \/ (~answering /\ profile["origin"] \in {m.to, m.city} \ {Unset}))
    BY DEF Send
  <2>2. ~homeward /\ (~answering => profile["origin"] \notin {m.to, m.city} \ {Unset})
    BY <2>1, Zenon
  <2>3. profile["origin"] \notin {m.to, m.city} \ {Unset}
    BY <1>6, <2>2 DEF InTurn
  <2>4. /\ TwoEnds
        /\ \A u \in Turn : turn[u].pc = "sent" =>
                profile["origin"] \notin {turn[u].msg.to, turn[u].msg.city} \ {Unset}
    BY <1>6, <2>2 DEF InTurn, TalkInv, EndsOK
  <2>5. TwoEnds'
    BY <1>6, <2>2, <2>4 DEF InTurn, TwoEnds
  <2> QED
    BY <1>3, <1>4, <1>6, <2>3, <2>4, <2>5
<1> QED
  BY <1>7, <1>9, <1>10, <1>11 DEF TalkInv

\* The answer to the question that is open is said in its turn.
LEMMA AnswerTalk ==
    ASSUME TalkInv, Shaped, NEW t \in Turn, Answer(t)
    PROVE  TalkInv'
<1>1. PICK m \in Suggested(asked) : Send(t, m, TRUE)
  BY DEF Answer
<1>2. awaiting /\ crossed' = (crossed \/ Talking # {})
  BY DEF Answer
<1>3. AskFits(track, asked)
  BY <1>2 DEF TalkInv, TalkOK
<1>4. /\ ~m.hotel /\ ~m.return /\ m.to = Unset
      /\ m.date # Unset => \/ m.date = "out" /\ asked = "departureDate"
                           \/ m.date = "back" /\ asked = "returnDate"
      /\ m.city # Unset => asked \in {"destination", "origin"}
  BY <1>3, AnswerMessage DEF AskFits
<1>5. ASSUME ~crossed'
      PROVE  InTurn(m, TRUE)
  <2>1. ~crossed /\ Talking = {}
    BY <1>2, <1>5, Zenon
  <2>2. m.date # Unset =>
            /\ ~m.hotel /\ ~m.return
            /\ \/ m.date = "out" /\ track = "flight"
               \/ m.date = "back" /\ track = "return"
    BY <1>3, <1>4 DEF AskFits
  <2>3. faults = 0 => profile["origin"] \notin {m.to, m.city} \ {Unset}
    <3> SUFFICES ASSUME faults = 0 PROVE profile["origin"] \notin {m.to, m.city} \ {Unset}
      OBVIOUS
    <3>1. profile[asked] = Unset /\ (profile["destination"] = Unset => profile["origin"] = Unset)
      BY <1>2, <2>1 DEF TalkInv, OpenOK
    <3> QED
      BY <1>4, <3>1
  <2> QED
    BY <2>1, <2>2, <2>3 DEF InTurn
<1> QED
  BY <1>1, <1>5, SendTalk

\* What is said unasked is in its turn when no other turn is in flight.
LEMMA SaidTalk ==
    ASSUME TalkInv, Shaped, NEW t \in Turn, TapOld(t) \/ Open(t) \/ Select(t)
    PROVE  TalkInv'
<1>1. CASE TapOld(t)
  <2>1. PICK m \in chips : Send(t, m, TRUE)
    BY <1>1 DEF TapOld
  <2>2. crossed' = TRUE
    BY <1>1 DEF TapOld
  <2> QED
    BY <2>1, <2>2, SendTalk
<1>2. CASE Open(t) \/ Select(t)
  <2>1. PICK m : m.date = Unset /\ Send(t, m, FALSE)
    <3>1. CASE Open(t)
      BY <3>1, UnaskedMessage DEF Open
    <3>2. CASE Select(t)
      BY <3>2, UnaskedMessage DEF Select
    <3> QED
      BY <1>2, <3>1, <3>2
  <2>2. crossed' = (crossed \/ Talking # {})
    BY <1>2 DEF Open, Select
  <2>3. ~crossed' => InTurn(m, FALSE)
    <3>1. ~crossed' => ~crossed /\ Talking = {}
      BY <2>2, Zenon
    <3> QED
      BY <2>1, <3>1 DEF InTurn
  <2> QED
    BY <2>1, <2>3, SendTalk
<1> QED
  BY <1>1, <1>2

\* The question that is shown is the one that was asked of the engine.
LEMMA AskedTalk ==
    ASSUME TalkInv, Shaped, NEW t \in Turn, ReceiveAsk(t)
    PROVE  TalkInv'
<1>1. /\ turn[t].pc = "replied" /\ turn[t].plan.kind = "ask"
      /\ track' = turn[t].plan.track /\ asked' = turn[t].plan.field
      /\ UNCHANGED <<visit, profile, noted>>
  BY DEF ReceiveAsk, Replied
<1>2. turn'[t] = NoTurn /\ \A u \in Turn : u # t => turn'[u] = turn[u]
  BY OneTurn DEF ReceiveAsk, Finish
<1>3. turn'[t].pc = "idle" /\ turn'[t].plan.kind = "none" /\ turn'[t].plan.track = Unset
  BY <1>2 DEF NoTurn, NoPlan
<1>4. /\ visit' = visit /\ profile' = profile /\ faults' = faults
      /\ crossed' = crossed /\ homeward' = homeward
  BY <1>1 DEF noted
<1>5. TalkOK'
  <2> USE DEF TalkInv, TalkOK
  <2>1. AskFits(track', asked') /\ track' \in Track
    BY <1>1 DEF AskFits
  <2>2. \A u \in Turn : /\ turn'[u].plan.track \in Track \union {Unset}
                        /\ turn'[u].pc = "sent" => turn'[u].track \in Track
    BY <1>2, <1>3
  <2>3. \A u \in Turn : turn'[u].plan.kind = "ask" =>
            /\ turn'[u].pc \in {"phrase", "replied"}
            /\ AskFits(turn'[u].plan.track, turn'[u].plan.field)
    BY <1>2, <1>3
  <2>4. visit # "login"
    BY <1>1
  <2> QED
    BY <1>4, <2>1, <2>2, <2>3, <2>4
<1>6. DatesOK'
  <2> SUFFICES ASSUME ~crossed' PROVE /\ \A u \in Turn : turn'[u].pc = "sent" => DateFits(u)'
                                      /\ \A u, w \in Talking' : u = w
                                      /\ DatesOnTheirLeg'
    BY DEF DatesOK
  <2>0. /\ \A u \in Turn : turn[u].pc = "sent" => DateFits(u)
        /\ \A u, w \in Talking : u = w
        /\ DatesOnTheirLeg
    BY <1>4 DEF TalkInv, DatesOK
  <2>1. \A u \in Turn : turn'[u].pc = "sent" => DateFits(u)'
    BY <1>2, <1>3, <2>0 DEF DateFits
  <2>2. \A u, w \in Talking' : u = w
    BY <1>2, <1>3, <2>0 DEF Talking
  <2> QED
    BY <1>4, <2>0, <2>1, <2>2 DEF DatesOnTheirLeg
<1>7. OpenOK'
  BY <1>1, <1>2, <1>3, <1>4 DEF TalkInv, OpenOK
<1>8. EndsOK'
  BY <1>2, <1>3, <1>4 DEF TalkInv, EndsOK, TwoEnds
<1> QED
  BY <1>5, <1>6, <1>7, <1>8 DEF TalkInv

\* Reading a message: what it names is filed on the leg of the question it
\* answers, and the next question is about something still missing.
LEMMA PlanTalk ==
    ASSUME TalkInv, Shaped, NEW t \in Turn, Plan(t)
    PROVE  TalkInv'
<1> DEFINE m == turn[t].msg
           leg == ResolveTrack(m, turn[t].answering, turn[t].track)
           back == leg = "return"
           p == ExtractSlots(m, profile, back)
           question == NextQuestion(leg, p)
<1>1. /\ turn[t].pc = "sent" /\ visit = "in" /\ profile' = p
      /\ UNCHANGED <<visit, talk, noted>>
  BY DEF Plan
<1>2. /\ visit' = visit /\ awaiting' = awaiting /\ track' = track /\ asked' = asked
      /\ faults' = faults /\ crossed' = crossed /\ homeward' = homeward
  BY <1>1 DEF talk, noted
<1>3. leg \in Track
  <2>1. turn[t].track \in Track
    BY <1>1 DEF TalkInv, TalkOK
  <2> QED
    BY <2>1 DEF ResolveTrack, Track
<1>4. PICK r : turn' = [turn EXCEPT ![t] = r]
  BY DEF Plan, Reply
<1>5. turn'[t] = r /\ \A u \in Turn : u # t => turn'[u] = turn[u]
  BY <1>4, OneTurn
<1>6. /\ turn'[t].pc \in {"phrase", "plan", "replied"}
      /\ turn'[t].plan.track \in Track \union {Unset}
      /\ turn'[t].plan.kind = "ask" =>
            /\ turn'[t].pc = "phrase" /\ question # Unset
            /\ turn'[t].plan.track = leg /\ turn'[t].plan.field = question
  <2>1. CASE /\ question # Unset
             /\ turn' = [turn EXCEPT ![t] = [NoTurn EXCEPT !.pc = "phrase", !.plan = Ask(leg, question)]]
    <3>1. turn'[t] = [NoTurn EXCEPT !.pc = "phrase", !.plan = Ask(leg, question)]
      BY <2>1, OneTurn
    <3>2. turn'[t].pc = "phrase" /\ turn'[t].plan = Ask(leg, question)
      BY <3>1 DEF NoTurn
    <3>3. Ask(leg, question).track = leg /\ Ask(leg, question).field = question
      BY DEF Ask, NoPlan
    <3> QED
      BY <1>3, <2>1, <3>2, <3>3
  <2>2. CASE Reply(t, SearchFor(leg, p), 0)
    <3>1. turn'[t] = [NoTurn EXCEPT !.pc = "replied", !.plan = SearchFor(leg, p), !.n = 0]
      BY <2>2, OneTurn DEF Reply
    <3>2. turn'[t].pc = "replied" /\ turn'[t].plan = SearchFor(leg, p)
      BY <3>1 DEF NoTurn
    <3>3. \A i : Search(leg, i).kind = "search" /\ Search(leg, i).track = leg
      BY DEF Search, NoPlan
    <3>4. SearchFor(leg, p).kind = "search" /\ SearchFor(leg, p).track = leg
      BY <1>3, <3>3 DEF SearchFor, Track
    <3> QED
      BY <1>3, <3>2, <3>4
  <2>3. CASE turn' = [turn EXCEPT ![t].pc = "plan", ![t].track = Unset, ![t].answering = FALSE]
    <3>1. turn'[t].pc = "plan" /\ turn'[t].plan = turn[t].plan
      BY <2>3 DEF Shaped, NoTurn
    <3>2. turn[t].plan.kind # "ask" /\ turn[t].plan.track \in Track \union {Unset}
      BY <1>1 DEF TalkInv, TalkOK
    <3> QED
      BY <3>1, <3>2
  <2> QED
    BY <2>1, <2>2, <2>3 DEF Plan
<1>7. question # Unset => AskFits(leg, question) /\ p[question] = Unset
  BY <1>3, QuestionFits
<1>8. /\ p["departureDate"] = (IF ~back /\ m.date # Unset THEN m.date ELSE profile["departureDate"])
      /\ p["returnDate"] = (IF back /\ m.date # Unset THEN m.date ELSE profile["returnDate"])
  BY ExtractDates
<1>9. (profile["destination"] = Unset => profile["origin"] = Unset) =>
      /\ p["destination"] = Unset => p["origin"] = Unset
      /\ profile["origin"] = Unset /\ p["origin"] # Unset => p["origin"] # p["destination"]
      /\ profile["origin"] # Unset =>
            /\ p["origin"] = profile["origin"]
            /\ p["destination"] \in {profile["destination"], m.to, m.city} \ {Unset}
  BY ExtractEnds
<1>10. DateFits(t) =>
        /\ profile["departureDate"] # "back" => p["departureDate"] # "back"
        /\ profile["returnDate"] # "out" => p["returnDate"] # "out"
  <2> SUFFICES ASSUME DateFits(t), m.date # Unset
               PROVE  (m.date = "out" /\ ~back) \/ (m.date = "back" /\ back)
    BY <1>8
  <2>1. leg = turn[t].track
    BY DEF DateFits, ResolveTrack
  <2> QED
    BY <2>1 DEF DateFits
<1> HIDE DEF p, leg, question, back, m
<1>11. TalkOK'
  <2> USE DEF TalkInv, TalkOK
  <2>1. track' \in Track /\ (awaiting' => AskFits(track', asked')) /\ faults' \in Nat
    BY <1>2
  <2>2. \A u \in Turn : /\ turn'[u].plan.track \in Track \union {Unset}
                        /\ turn'[u].pc = "sent" => turn'[u].track \in Track
    BY <1>5, <1>6
  <2>3. \A u \in Turn : turn'[u].plan.kind = "ask" =>
            /\ turn'[u].pc \in {"phrase", "replied"}
            /\ AskFits(turn'[u].plan.track, turn'[u].plan.field)
    BY <1>5, <1>6, <1>7
  <2> QED
    BY <1>1, <1>2, <2>1, <2>2, <2>3
<1>12. ASSUME ~crossed'
       PROVE  /\ \A u \in Turn : turn'[u].pc # "sent"
              /\ \A u \in Turn : u # t => turn'[u].plan.kind # "ask"
              /\ \A u, w \in Talking' : u = w
  <2>1. t \in Talking /\ \A u, w \in Talking : u = w
    BY <1>1, <1>2, <1>12 DEF TalkInv, DatesOK, Talking
  <2>2. \A u \in Turn : u # t => turn'[u].pc \notin {"sent", "phrase", "plan", "replied"}
    BY <1>5, <2>1 DEF Talking
  <2>3. \A u \in Turn : u # t => turn'[u].plan.kind # "ask"
    BY <1>5, <2>2 DEF TalkInv, TalkOK
  <2> QED
    BY <1>6, <2>2, <2>3 DEF Talking
<1>13. DatesOK'
  <2> SUFFICES ASSUME ~crossed' PROVE /\ \A u \in Turn : turn'[u].pc = "sent" => DateFits(u)'
                                      /\ \A u, w \in Talking' : u = w
                                      /\ DatesOnTheirLeg'
    BY DEF DatesOK
  <2>1. DateFits(t) /\ DatesOnTheirLeg
    BY <1>1, <1>2 DEF TalkInv, DatesOK
  <2>2. DatesOnTheirLeg'
    BY <1>1, <1>2, <1>10, <2>1 DEF DatesOnTheirLeg
  <2> QED
    BY <1>12, <2>2
<1>14. OpenOK'
  <2> SUFFICES ASSUME ~crossed', faults' = 0
               PROVE  /\ \A u \in Turn : turn'[u].plan.kind = "ask" => profile'[turn'[u].plan.field] = Unset
                      /\ awaiting' /\ Talking' = {} => profile'[asked'] = Unset
                      /\ profile'["destination"] = Unset => profile'["origin"] = Unset
    BY DEF OpenOK
  <2>1. \A u \in Turn : turn'[u].plan.kind = "ask" => profile'[turn'[u].plan.field] = Unset
    BY <1>1, <1>6, <1>7, <1>12
  <2>2. t \in Talking'
    BY <1>6 DEF Talking
  <2>3. p["destination"] = Unset => p["origin"] = Unset
    BY <1>2, <1>9 DEF TalkInv, OpenOK
  <2> QED
    BY <1>1, <2>1, <2>2, <2>3
<1>15. EndsOK'
  <2> SUFFICES ASSUME ~crossed', faults' = 0, ~homeward'
               PROVE  /\ TwoEnds'
                      /\ \A u \in Turn : turn'[u].pc = "sent" =>
                            profile'["origin"] \notin {turn'[u].msg.to, turn'[u].msg.city} \ {Unset}
    BY DEF EndsOK
  <2>1. /\ profile["destination"] = Unset => profile["origin"] = Unset
        /\ profile["origin"] # Unset => profile["origin"] # profile["destination"]
        /\ profile["origin"] \notin {m.to, m.city} \ {Unset}
    BY <1>1, <1>2 DEF TalkInv, OpenOK, EndsOK, TwoEnds, m
  <2>2. p["origin"] # Unset => p["origin"] # p["destination"]
    BY <1>9, <2>1
  <2> QED
    BY <1>1, <1>12, <2>2 DEF TwoEnds
<1> QED
  BY <1>11, <1>13, <1>14, <1>15 DEF TalkInv

LEMMA NextTalk ==
    ASSUME TalkInv, Shaped, [Next]_vars
    PROVE  TalkInv'
<1>1. ASSUME NEW t \in Turn, Answer(t) \/ TapOld(t) \/ Open(t) \/ Select(t)
      PROVE  TalkInv'
  BY <1>1, AnswerTalk, SaidTalk
<1>2. ASSUME NEW t \in Turn, TurnStep(t)
      PROVE  TalkInv'
  <2>1. CASE Plan(t) \/ Phrase(t) \/ PlannerTalks(t) \/ PlannerBooks(t)
    BY <2>1, PlanTalk, PlannedTalk
  <2>2. CASE ReceiveAsk(t) \/ ReceiveMessage(t) \/ ReceiveSearch(t) \/ ReceiveBooking(t)
    BY <2>2, AskedTalk, ReceivedTalk
  <2>3. CASE SearchResult(t) \/ Booked(t) \/ ConsentRequired(t) \/ Resume(t) \/ Unauthorized(t)
    BY <2>3, CalledTalk
  <2> QED
    BY <1>2, <2>1, <2>2, <2>3 DEF TurnStep
<1>3. ASSUME NEW t \in Turn, ReadAccepted(t) \/ Fail(t)
      PROVE  TalkInv'
  BY <1>3, ReadTalk, FailTalk
<1>4. CASE Login \/ Reload \/ Restart
  BY <1>4, LoginTalk, ReloadTalk, RestartTalk
<1>5. CASE OpenWindow \/ InWindow \/ ReadDeclined \/ Quiet \/ UNCHANGED vars
  BY <1>5, TalkUnmoved DEF OpenWindow, InWindow, ReadDeclined, Quiet, vars
<1> QED
  BY <1>1, <1>2, <1>3, <1>4, <1>5 DEF Next

\* Whatever the messages and however requests fail, a conversation in which
\* turns do not overlap asks on the leg it is on, about what it does not know.
THEOREM TripTalkInvariant ==
    Spec => []TalkInv
<1>1. Init => TalkInv
  BY InitTalk
<1>2. IInv /\ TalkInv /\ [Next]_vars => TalkInv'
  BY NextTalk DEF IInv
<1> QED
  BY <1>1, <1>2, TripInvariant, PTL DEF Spec

\* A date is filed on the leg it was given for.
THEOREM TripDatesOnTheirLeg ==
    Spec => []DatesOnTheirLeg
<1>1. TalkInv => DatesOnTheirLeg
  BY DEF TalkInv, DatesOK, DatesOnTheirLeg
<1> QED
  BY <1>1, TripTalkInvariant, PTL

\* The two ends of a trip differ, for any number of cities.
THEOREM TripTwoEnds ==
    Spec => []TwoEnds
<1>1. TalkInv => TwoEnds
  BY DEF TalkInv, EndsOK, TwoEnds
<1> QED
  BY <1>1, TripTalkInvariant, PTL

=============================================================================
