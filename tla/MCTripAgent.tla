---------------------------- MODULE MCTripAgent ----------------------------
(***************************************************************************)
(* Instance of TripAgent for TLC.  It starts where talk and bookings each    *)
(* get the messages they need: at the login page with no booking to come,    *)
(* two unsolicited messages, or one and a fault; and after a trip was         *)
(* gathered by typed answers and a flight and a hotel were shown, with two    *)
(* options to select (signed in at both providers), or one and a fault.      *)
(***************************************************************************)
EXTENDS TripAgent

Gathering ==
    /\ Fresh /\ picked = MaxPicks /\ called = MaxCalls
    /\ (said = 0 /\ faults = MaxFaults) \/ (said = MaxSaid - 1 /\ faults = 0)

Away == CHOOSE c \in City : c # Home

Settled ==
    /\ visit = "in"
    /\ profile = [destination |-> Away, origin |-> Home, departureDate |-> "out",
                  returnDate |-> Unset, travelers |-> "given", airlinePreference |-> "given",
                  hotelBudget |-> "year"]
    /\ grants = {}
    /\ turn = [t \in Turn |-> NoTurn]
    /\ awaiting = FALSE /\ track = "hotel" /\ asked = "airlinePreference" /\ chips = Suggestion
    /\ flights = {<<Home, Away>>} /\ hotels = {Away} /\ shown = {<<Home, Away>>, Away}
    /\ pending = NoCall
    /\ said = MaxSaid /\ called = 0
    /\ \/ picked = 0 /\ faults = MaxFaults /\ browser = Sp
       \/ picked = MaxPicks - 1 /\ faults = 0 /\ browser = {}
    /\ window = Closed /\ mail = <<>>
    /\ booked = {} /\ declined = {} /\ twice = FALSE
    /\ crossed = FALSE /\ homeward = FALSE

MCSpec == (Gathering \/ Settled) /\ [][Next]_vars /\ Fairness

=============================================================================
