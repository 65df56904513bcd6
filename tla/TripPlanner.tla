---------------------------- MODULE TripPlanner ----------------------------
(***************************************************************************)
(* The planners of the agent (examples/e2e-consent-demo/agent/gemini.ts): a  *)
(* model that may answer anything, the validation of what it answers, and    *)
(* the scripted planner that stands in for it.                              *)
(*                                                                          *)
(* A plan is what POST /api/plan answers: an ask for a field, a text, a      *)
(* search (of the route or city in item) or the booking of item.             *)
(***************************************************************************)
EXTENDS TripTalk

CONSTANT Hub   \* "DEL", the scripted planner's city

ASSUME HubAssumption == Hub \in City \ {Home}

NoPlan == [kind |-> "none", track |-> Unset, field |-> Unset, item |-> Unset]

Ask(track, f) == [NoPlan EXCEPT !.kind = "ask", !.track = track, !.field = f]
SayText == [NoPlan EXCEPT !.kind = "message"]
Search(track, i) == [NoPlan EXCEPT !.kind = "search", !.track = track, !.item = i]
Book(i) == [NoPlan EXCEPT !.kind = "book", !.item = i]

-----------------------------------------------------------------------------
(* The planners of the providers.                                           *)

\* Mutant: an id is taken although it was not offered.
AnyItem(offered) == Item

\* offeredFlightIds, offeredHotelIds
Bookable(offered) == offered

\* validatePlannedToolCall: an id that was not offered becomes a text.
Validated(call, offered) ==
    IF call.kind = "book" /\ call.item \notin Bookable(offered) THEN SayText ELSE call

\* A function call of the model, or its text.  A call that names no tool or
\* lacks an argument is refused like an unknown id.
Called == {Search(Unset, i) : i \in Item} \union {Book(i) : i \in Item}

ModelPlans(offered) == {SayText} \union {Validated(call, offered) : call \in Called}

\* What POST /api/plan may answer to free text, whichever planner does: the
\* scripted plans below are among the model's (TripProofs!FallbackValidated).
Plans(offered) == ModelPlans(offered)

-----------------------------------------------------------------------------
(* DeterministicPlanner, when no key is configured or the provider is down.  *)

\* The words it looks for: "yes", "book" and "option 1" are one of them.
Word == {"book", "return", "hotel", "flight"} \union (City \ {Home})

Words(m) ==
    {w \in Word :
        \/ w = "book" /\ (m.confirm # Unset \/ m.return)
        \/ w = "return" /\ m.return
        \/ w = "hotel" /\ m.hotel
        \/ w = "flight" /\ m.flight /\ m # PlanTrip
        \/ w \in {m.to, m.city} /\ m.confirm = Unset}

\* An earlier mention of a city other than the hub decides for ever.
Towards(text) ==
    LET others == (text \intersect (City \ {Home})) \ {Hub} IN
    IF others = {} THEN {Hub} ELSE others

\* chooseOffered among the ids of the kind that the message speaks of; a message
\* that speaks of both, or of neither, is matched against both.
Chosen(m, offered) ==
    LET ids == IF m.hotel /\ "flight" \notin Words(m) THEN Hotel
               ELSE IF "flight" \in Words(m) /\ ~m.hotel THEN Flight ELSE Item
    IN {m.confirm} \intersect offered \intersect ids

\* selectedHotel or else selectedFlight: the first option of the list.
First(offered) ==
    LET ids == IF offered \intersect Hotel # {} THEN offered \intersect Hotel ELSE offered
    IN IF ids = {} THEN {} ELSE {CHOOSE i \in ids : TRUE}

\* Any word of an earlier message counts as if it was said now: what was
\* confirmed once is confirmed for as long as it is remembered.
Confirmed(m, offered, text) ==
    IF "book" \notin text THEN {}
    ELSE IF Chosen(m, offered) # {} THEN Chosen(m, offered) ELSE First(offered)

ScriptedPlans(m, offered, heard) ==
    LET text == heard \union Words(m) IN
    IF Confirmed(m, offered, text) # {}
    THEN {Validated(Book(i), offered) : i \in Confirmed(m, offered, text)}
    ELSE IF "return" \in text THEN {Search(Unset, <<c, Home>>) : c \in City \ {Home}}
    ELSE IF "hotel" \in text THEN {Search(Unset, Hub)}
    ELSE IF text \ {"book"} # {} THEN {Search(Unset, <<Home, c>>) : c \in Towards(text)}
    ELSE {SayText}

=============================================================================
