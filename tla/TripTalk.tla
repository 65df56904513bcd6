------------------------------ MODULE TripTalk ------------------------------
(***************************************************************************)
(* What the agent of the consent demo reads in a message, and what it asks   *)
(* next (examples/e2e-consent-demo/agent/conversation.ts): the slots of a    *)
(* trip, the leg they are gathered for and the questions that are open.      *)
(*                                                                          *)
(* A message is the set of things the patterns of conversation.ts read in    *)
(* it; its wording is left out.                                             *)
(***************************************************************************)
EXTENDS Naturals, Sequences

CONSTANTS
    City,      \* cities of CITY_ALIASES
    Home,      \* the city the origin question suggests
    Unset      \* undefined

ASSUME CityAssumption ==
    /\ Home \in City
    /\ Unset \notin City \union {"out", "back", "given", "named", "year"}

\* FLIGHT_INVENTORY and HOTEL_INVENTORY: a flight is named by its route, a
\* hotel by its city; there is none at Home.
Flight == {<<Home, c>> : c \in City \ {Home}} \union {<<c, Home>> : c \in City \ {Home}}
Hotel == City \ {Home}
Item == Flight \union Hotel

-----------------------------------------------------------------------------
(* What the patterns of conversation.ts read in a message.  A date stands    *)
(* for the leg its sender means; a budget is one they named, or a number     *)
(* read in something else.                                                  *)

Track == {"flight", "hotel", "return"}

Field == {"destination", "origin", "departureDate", "returnDate", "travelers",
          "airlinePreference", "hotelBudget"}

Value == City \union {Unset, "out", "back", "given", "named", "year"}

Nothing == [hotel |-> FALSE, return |-> FALSE, flight |-> FALSE, confirm |-> Unset,
            to |-> Unset, city |-> Unset, date |-> Unset, correcting |-> FALSE,
            travelers |-> FALSE, airline |-> FALSE, budget |-> Unset]

\* CHIPS
PlanTrip == [Nothing EXCEPT !.flight = TRUE]
FindHotel == [Nothing EXCEPT !.hotel = TRUE]
BookReturn == [Nothing EXCEPT !.return = TRUE, !.flight = TRUE]

\* "a flight to c", "actually make it c", and something else entirely
FlyTo(c) == [Nothing EXCEPT !.flight = TRUE, !.to = c]
MakeIt(c) == [Nothing EXCEPT !.city = c, !.correcting = TRUE]
FreeForm == Nothing

\* "Yes, book flight HA733", "Yes, book hotel HS-DEL-2": the name of the hotel
\* holds that of its city.
Confirm(i) ==
    [Nothing EXCEPT !.confirm = i, !.flight = i \notin Hotel, !.hotel = i \in Hotel,
                    !.city = IF i \in Hotel THEN i ELSE Unset]

\* extractDate and, of the same text, extractBudget: the year of a date is a
\* number of at least 1000.
OnDate(leg) == [Nothing EXCEPT !.date = leg, !.budget = "year"]

Lone(c) == [Nothing EXCEPT !.city = c]

\* The suggestions of the question for a field.
Suggested(field) ==
    CASE field = "destination" -> {Lone(c) : c \in City \ {Home}}
      [] field = "origin" -> {Lone(Home)}
      [] field = "departureDate" -> {OnDate("out")}
      [] field = "returnDate" -> {OnDate("back")}
      [] field = "travelers" -> {[Nothing EXCEPT !.travelers = TRUE]}
      [] field = "airlinePreference" -> {[Nothing EXCEPT !.airline = TRUE]}
      [] field = "hotelBudget" -> {[Nothing EXCEPT !.budget = "named"]}

Suggestion == UNION {Suggested(f) : f \in Field}

Opening == {PlanTrip, FindHotel, BookReturn, FreeForm} \union {FlyTo(c) : c \in City}
              \union {MakeIt(c) : c \in City}

Message == Suggestion \union Opening \union {Confirm(i) : i \in Item}

\* Mutant: the leg is read from the message alone.
TrackOfMessage(m, answering, track) ==
    IF m.hotel THEN "hotel" ELSE IF m.return THEN "return" ELSE "flight"

ResolveTrack(m, answering, track) ==
    IF m.hotel THEN "hotel"
    ELSE IF m.return THEN "return"
    ELSE IF answering THEN track ELSE "flight"

\* Mutant: once there is a destination, a lone city is the origin.
CityIsOrigin(m, p) ==
    IF m.correcting \/ p["destination"] = Unset THEN "destination" ELSE "origin"

\* A lone city answers whichever city question is outstanding.
CityField(m, p) ==
    IF m.correcting \/ p["destination"] = Unset \/ p["origin"] # Unset \/ m.city = p["destination"]
    THEN "destination"
    ELSE "origin"

\* What extractSlots sets: the fields the message names, and their values.
Named(m, p, forReturn) ==
    [f \in Field |->
        CASE f = "destination" /\ m.to # Unset -> m.to
          [] m.to = Unset /\ m.city # Unset /\ f = CityField(m, p) -> m.city
          [] f = "departureDate" /\ ~forReturn -> m.date
          [] f = "returnDate" /\ forReturn -> m.date
          [] f = "travelers" /\ m.travelers -> "given"
          [] f = "airlinePreference" /\ m.airline -> "given"
          [] f = "hotelBudget" -> m.budget
          [] OTHER -> Unset]

\* Mutant: what was gathered before is not kept.
OnlyMentioned(m, p, forReturn) == Named(m, p, forReturn)

\* Later mentions win.
ExtractSlots(m, p, forReturn) ==
    LET named == Named(m, p, forReturn) IN
    [f \in Field |-> IF named[f] # Unset THEN named[f] ELSE p[f]]

Missing(p, fields) == {f \in fields : p[f] = Unset}

\* The order of asking.
Order == [destination |-> 1, origin |-> 2, departureDate |-> 3, travelers |-> 4,
          airlinePreference |-> 5, hotelBudget |-> 6, returnDate |-> 7]

\* The first of the fields, if any is missing.
FirstOf(fields) ==
    IF fields = {} THEN Unset ELSE CHOOSE f \in fields : \A g \in fields : Order[f] <= Order[g]

NextFlightQuestion(p) ==
    FirstOf(Missing(p, {"destination", "origin", "departureDate", "travelers", "airlinePreference"}))

NextHotelQuestion(p) == FirstOf(Missing(p, {"destination", "hotelBudget"}))

NextReturnQuestion(p) ==
    IF Missing(p, {"origin", "destination"}) # {} THEN NextFlightQuestion(p)
    ELSE FirstOf(Missing(p, {"returnDate"}))

NextQuestion(track, p) ==
    CASE track = "hotel" -> NextHotelQuestion(p)
      [] track = "return" -> NextReturnQuestion(p)
      [] OTHER -> NextFlightQuestion(p)

=============================================================================
