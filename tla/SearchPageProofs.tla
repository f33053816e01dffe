-------------------------- MODULE SearchPageProofs --------------------------
(***************************************************************************)
(* What the search page shows, for any texts, places, times and filters    *)
(* and any number of things the user does.                                 *)
(***************************************************************************)
EXTENDS SearchPage, TLAPS

USE TextsAssumption, PlacesAssumption, FormAssumption, TimeAssumption

----------------------------------------------------------------------------
(* The place box *)

BoxInv == BoxTypeOK /\ LastTextWins

BoxStep ==
    \/ \E text \in Texts \cup {Blank} : TypeText(text)
    \/ \E place \in Places : PickPlace(place)
    \/ TextDebounced
    \/ RequestEnds
    \/ FlightEnds
    \/ FlightStops
    \/ \E place \in Places : FlightGoesOn(place) \/ MoveMap(place)
    \/ UNCHANGED boxVars

LEMMA OpenBoxInv == ASSUME NEW text \in Texts \cup {Blank}, OpenBox(text) PROVE BoxInv
  BY DEF OpenBox, BoxInv, BoxTypeOK, LastTextWins

\* The map is sent only to places.
LEMMA EffectType ==
    ASSUME NEW picked \in Places \cup {Nowhere}, InitialEffect(picked), BoxTypeOK,
           locationInfo' \in Texts \cup {Nowhere}
    PROVE  /\ hasApplied' \in BOOLEAN
           /\ flight' \in Places \cup {Nowhere}
           /\ view' \in Places \cup {Home}
  <1>1. ASSUME NEW place \in Places, FlyTo(place)
        PROVE  flight' \in Places \cup {Nowhere} /\ view' \in Places \cup {Home}
    BY <1>1 DEF FlyTo, BoxTypeOK
  <1>2. CASE searchText' # Blank /\ ~hasApplied /\ First(locationInfo') # Nowhere
    <2>1. First(locationInfo') \in Places
      BY <1>2 DEF First
    <2>2. QED
      BY <1>1, <1>2, <2>1 DEF InitialEffect
  <1>3. CASE ~(searchText' # Blank /\ ~hasApplied /\ First(locationInfo') # Nowhere)
    <2>1. UNCHANGED hasApplied /\ Send(picked)
      BY <1>3 DEF InitialEffect
    <2>2. QED
      BY <1>1, <2>1 DEF Send, BoxTypeOK
  <1>4. QED
    BY <1>2, <1>3

LEMMA StepKeepsBoxInv == BoxInv /\ BoxStep => BoxInv'
  <1> SUFFICES ASSUME BoxInv, BoxStep PROVE BoxInv'
    OBVIOUS
  <1> USE DEF BoxInv, BoxTypeOK, LastTextWins
  <1>1. ASSUME NEW text \in Texts \cup {Blank}, TypeText(text)
        PROVE  BoxInv'
    <2>1. UNCHANGED locationVars /\ searchText' = text /\ InitialEffect(Nowhere)
      BY <1>1 DEF TypeText
    <2>2. hasApplied' \in BOOLEAN /\ flight' \in Places \cup {Nowhere} /\ view' \in Places \cup {Home}
      BY <2>1, EffectType DEF locationVars
    <2>3. QED
      BY <2>1, <2>2 DEF locationVars
  <1>2. ASSUME NEW place \in Places, PickPlace(place)
        PROVE  BoxInv'
    <2>1. UNCHANGED locationVars /\ searchText' = NameOf[place] /\ InitialEffect(place)
      BY <1>2 DEF PickPlace
    <2>2. hasApplied' \in BOOLEAN /\ flight' \in Places \cup {Nowhere} /\ view' \in Places \cup {Home}
      BY <2>1, EffectType DEF locationVars
    <2>3. QED
      BY <2>1, <2>2 DEF locationVars
  <1>3. CASE TextDebounced
    <2>1. /\ debouncedSearchText' = searchText /\ Geocode(searchText) /\ InitialEffect(Nowhere)
          /\ UNCHANGED searchText
      BY <1>3 DEF TextDebounced
    <2>2. /\ requests' \in SUBSET Texts /\ loading' \in BOOLEAN /\ locationInfo' \in Texts \cup {Nowhere}
          /\ LastTextWins'
      BY <2>1 DEF Geocode
    <2>3. hasApplied' \in BOOLEAN /\ flight' \in Places \cup {Nowhere} /\ view' \in Places \cup {Home}
      BY <2>1, <2>2, EffectType
    <2>4. QED
      BY <2>1, <2>2, <2>3
  <1>4. ASSUME NEW text \in requests, RequestAnswered(text)
        PROVE  BoxInv'
    <2>1. loading /\ requests = {debouncedSearchText} /\ text = debouncedSearchText /\ text \in Texts
      BY <1>4
    <2>2. /\ requests' = {} /\ locationInfo' = debouncedSearchText /\ loading' = FALSE
          /\ InitialEffect(Nowhere) /\ UNCHANGED <<searchText, debouncedSearchText>>
      BY <1>4, <2>1 DEF RequestAnswered
    <2>3. hasApplied' \in BOOLEAN /\ flight' \in Places \cup {Nowhere} /\ view' \in Places \cup {Home}
      BY <2>1, <2>2, EffectType
    <2>4. QED
      BY <2>1, <2>2, <2>3
  <1>5. ASSUME NEW text \in requests, RequestFailed(text)
        PROVE  BoxInv'
    <2>1. loading /\ requests = {debouncedSearchText} /\ text = debouncedSearchText
      BY <1>5
    <2>2. QED
      BY <1>5, <2>1 DEF RequestFailed
  <1>6. CASE \/ FlightEnds \/ FlightStops
             \/ \E place \in Places : FlightGoesOn(place) \/ MoveMap(place)
             \/ UNCHANGED boxVars
    BY <1>6 DEF FlightEnds, FlightStops, FlightGoesOn, MoveMap, boxVars, locationVars
  <1>7. QED
    BY <1>1, <1>2, <1>3, <1>4, <1>5, <1>6 DEF BoxStep, RequestEnds

----------------------------------------------------------------------------
(* The form and its results *)

\* The variables are those of the form once typing has paused; data that are not
\* loading are those of the last search; nothing is searched, or validated,
\* before the map has set the area, and nothing is searched without times.
Searched ==
    /\ ~debouncing /\ Complete(form) => variables = VariablesOf(form)
    /\ ~debouncing /\ Complete(form) /\ errors = {} => requested = VariablesOf(form)
    /\ query = "data" => results = requested
    /\ form.area = None => variables = None /\ query = "none" /\ ~checked
    /\ query # "none" /\ ~checked => Complete(form)

FormInv == FormTypeOK /\ ErrorsAreCurrent /\ Searched

FormStep ==
    \/ \E area \in Areas \cup {form.area} : SetArea(area)
    \/ \E filter \in Filters \cup {Default} : SetFilter(filter)
    \/ \E time \in Times : EditStart(time) \/ EditEnd(time)
    \/ FormDebounced
    \/ QueryEnds
    \/ OpenBooking
    \/ CloseBooking
    \/ Tick
    \/ UNCHANGED formVars

LEMMA OpenFormInv ==
    ASSUME NEW arrival \in Times, NEW departure \in Times, OpenForm(arrival, departure)
    PROVE  FormInv
  <1>1. form \in FormValues /\ form.area = None /\ now \in Times
    BY DEF OpenForm, FormValues, Times
  <1>2. FormTypeOK
    BY <1>1 DEF OpenForm, FormTypeOK
  <1>3. ErrorsAreCurrent
    BY DEF OpenForm, ErrorsAreCurrent
  <1>4. Searched
    BY <1>1 DEF OpenForm, Searched, Complete
  <1>5. QED
    BY <1>2, <1>3, <1>4 DEF FormInv

LEMMA VariablesType == ASSUME NEW f \in FormValues, Complete(f) PROVE VariablesOf(f) \in Variables
  BY DEF FormValues, Complete, VariablesOf, SlotsFilter, Variables

LEMMA SetAreaKeepsInv ==
    ASSUME FormInv, NEW area \in Areas \cup {form.area}, SetArea(area)
    PROVE  FormInv'
  <1>1. /\ form' \in FormValues /\ form'.start = form.start /\ form'.end = form.end
        /\ form'.area = area /\ form'.filter = form.filter
    BY DEF FormInv, FormTypeOK, FormValues, SetArea
  <1>2. UNCHANGED <<errors, checked, variables, queryVars, dialog, now>> /\ debouncing' = TRUE
    BY DEF SetArea
  <1>3. FormTypeOK'
    BY <1>1, <1>2 DEF FormInv, FormTypeOK, queryVars
  <1>4. ErrorsAreCurrent'
    BY <1>1, <1>2 DEF FormInv, ErrorsAreCurrent, Invalid, Searched
  <1>5. Searched'
    BY <1>1, <1>2 DEF FormInv, Searched, Complete, queryVars
  <1>6. QED
    BY <1>3, <1>4, <1>5 DEF FormInv

LEMMA SetFilterKeepsInv ==
    ASSUME FormInv, NEW filter \in Filters \cup {Default}, SetFilter(filter)
    PROVE  FormInv'
  <1>1. /\ form' \in FormValues /\ form'.start = form.start /\ form'.end = form.end
        /\ form'.area = form.area
    BY DEF FormInv, FormTypeOK, FormValues, SetFilter
  <1>2. UNCHANGED <<errors, checked, variables, queryVars, dialog, now>> /\ debouncing' = TRUE
    BY DEF SetFilter
  <1>3. FormTypeOK'
    BY <1>1, <1>2 DEF FormInv, FormTypeOK, queryVars
  <1>4. ErrorsAreCurrent'
    BY <1>1, <1>2 DEF FormInv, ErrorsAreCurrent, Invalid
  <1>5. Searched'
    BY <1>1, <1>2 DEF FormInv, Searched, Complete, queryVars
  <1>6. QED
    BY <1>3, <1>4, <1>5 DEF FormInv

\* A search, or none: the query's state and the variables stay of their types,
\* and data are those of the last search.
LEMMA SearchType ==
    ASSUME FormTypeOK, Searched, NEW v \in Variables, Search(v)
    PROVE  /\ requested' \in Variables \cup {None} /\ query' \in {"loading", "data"}
           /\ results' \in Variables \cup {None} /\ bookable' \in BOOLEAN
           /\ query' = "data" => results' = requested'
           /\ requested' = v
  BY DEF FormTypeOK, Searched, Search

LEMMA EditKeepsInv ==
    ASSUME FormInv, NEW time \in Times, EditStart(time) \/ EditEnd(time)
    PROVE  FormInv'
  <1>1. /\ form' \in FormValues /\ form'.area = form.area
        /\ debouncing' = TRUE /\ SearchWhenErrorsClear /\ UNCHANGED <<variables, dialog, now>>
        /\ checked' = (checked \/ form.area # None)
    BY DEF FormInv, FormTypeOK, FormValues, EditStart, EditEnd, Trigger
  <1>2. errors' \in SUBSET {"startTime", "endTime"} /\ ErrorsAreCurrent'
    <2>1. CASE EditStart(time)
      <3>1. form'.start = time /\ form'.end = form.end
        BY <2>1 DEF FormInv, FormTypeOK, FormValues, EditStart
      <3>2. errors' = (errors \ {"startTime", "endTime"}) \cup ({"startTime", "endTime"} \cap Invalid(form'))
        BY <2>1 DEF EditStart, Trigger
      <3>3. errors' \in SUBSET {"startTime", "endTime"} /\ errors' = Invalid(form')
        BY <3>2 DEF FormInv, FormTypeOK, Invalid
      <3>4. Invalid(form)' = Invalid(form')
        BY <1>1 DEF Invalid
      <3>5. QED
        BY <3>3, <3>4 DEF ErrorsAreCurrent
    <2>2. CASE EditEnd(time)
      <3>1. form'.start = form.start
        BY <2>2 DEF FormInv, FormTypeOK, FormValues, EditEnd
      <3>2. errors' = (errors \ {"endTime"}) \cup ({"endTime"} \cap Invalid(form'))
        BY <2>2 DEF EditEnd, Trigger
      <3>3. "startTime" \in Invalid(form) => "startTime" \in Invalid(form')
        BY <1>1, <3>1 DEF Invalid
      <3>4. Invalid(form)' = Invalid(form')
        BY <1>1 DEF Invalid
      <3>5. QED
        BY <3>2, <3>3, <3>4 DEF FormInv, FormTypeOK, ErrorsAreCurrent
    <2>3. QED
      BY <2>1, <2>2
  <1>3. /\ requested' \in Variables \cup {None} /\ query' \in {"none", "loading", "data", "error"}
        /\ results' \in Variables \cup {None} /\ bookable' \in BOOLEAN
        /\ query' = "data" => results' = requested'
        /\ query' # query => variables # None
    <2>1. CASE UNCHANGED queryVars
      BY <2>1 DEF FormInv, FormTypeOK, Searched, queryVars
    <2>2. CASE variables # None /\ Search(variables)
      BY <2>2, SearchType DEF FormInv, FormTypeOK
    <2>3. QED
      BY <1>1, <2>1, <2>2 DEF SearchWhenErrorsClear
  <1>4. FormTypeOK'
    BY <1>1, <1>2, <1>3 DEF FormInv, FormTypeOK
  <1>5. Searched'
    BY <1>1, <1>3 DEF FormInv, Searched
  <1>6. QED
    BY <1>2, <1>4, <1>5 DEF FormInv

LEMMA DebounceKeepsInv ==
    ASSUME FormInv, FormDebounced
    PROVE  FormInv'
  <1>1. UNCHANGED <<form, errors, checked, dialog, now>> /\ debouncing' = FALSE
    BY DEF FormDebounced
  <1>2. ErrorsAreCurrent'
    BY <1>1 DEF FormInv, ErrorsAreCurrent, Invalid
  <1>3. CASE Complete(form)
    <2>1. variables' = VariablesOf(form) /\ variables' \in Variables
      BY <1>3, VariablesType DEF FormDebounced, FormInv, FormTypeOK
    <2>2. CASE errors = {}
      <3>1. Search(VariablesOf(form))
        BY <1>3, <2>1, <2>2 DEF FormDebounced
      <3>2. /\ requested' \in Variables \cup {None} /\ query' \in {"loading", "data"}
            /\ results' \in Variables \cup {None} /\ bookable' \in BOOLEAN
            /\ query' = "data" => results' = requested'
            /\ requested' = VariablesOf(form)
        BY <2>1, <3>1, SearchType DEF FormInv
      <3>3. FormTypeOK'
        BY <1>1, <2>1, <3>2 DEF FormInv, FormTypeOK
      <3>4. Searched'
        BY <1>1, <1>3, <2>1, <3>2 DEF FormInv, Searched, Complete, VariablesOf, SlotsFilter
      <3>5. QED
        BY <1>2, <3>3, <3>4 DEF FormInv
    <2>3. CASE errors # {}
      <3>1. UNCHANGED queryVars
        BY <2>3 DEF FormDebounced
      <3>2. FormTypeOK'
        BY <1>1, <2>1, <3>1 DEF FormInv, FormTypeOK, queryVars
      <3>3. Searched'
        BY <1>1, <1>3, <2>1, <2>3, <3>1 DEF FormInv, Searched, Complete, VariablesOf, SlotsFilter, queryVars
      <3>4. QED
        BY <1>2, <3>2, <3>3 DEF FormInv
    <2>4. QED
      BY <2>2, <2>3
  <1>4. CASE ~Complete(form)
    <2>1. UNCHANGED <<variables, queryVars>>
      BY <1>4 DEF FormDebounced
    <2>2. FormTypeOK'
      BY <1>1, <2>1 DEF FormInv, FormTypeOK, queryVars
    <2>3. Searched'
      BY <1>1, <1>4, <2>1 DEF FormInv, Searched, Complete, queryVars
    <2>4. QED
      BY <1>2, <2>2, <2>3 DEF FormInv
  <1>5. QED
    BY <1>3, <1>4

LEMMA StepKeepsFormInv == FormInv /\ FormStep => FormInv'
  <1> SUFFICES ASSUME FormInv, FormStep PROVE FormInv'
    OBVIOUS
  <1>1. CASE QueryEnds \/ OpenBooking \/ CloseBooking \/ UNCHANGED formVars
    <2>1. UNCHANGED <<form, errors, checked, debouncing, variables, requested, now>>
      BY <1>1 DEF QueryEnds, QueryAnswered, QueryFailed, OpenBooking, CloseBooking, formVars, queryVars
    <2>2. <<form.start, form.end>> \in Times \X Times
      BY DEF FormInv, FormTypeOK, FormValues
    <2>3. /\ dialog' \in (Times \X Times) \cup {None} /\ bookable' \in BOOLEAN
          /\ query' \in {"none", "loading", "data", "error"} /\ results' \in Variables \cup {None}
          /\ query' = "data" => results' = requested
          /\ query = "none" <=> query' = "none"
      BY <1>1, <2>2 DEF QueryEnds, QueryAnswered, QueryFailed, OpenBooking, CloseBooking, formVars, queryVars,
         BookingDefaults, FormInv, FormTypeOK, Searched
    <2>4. FormTypeOK'
      BY <2>1, <2>3 DEF FormInv, FormTypeOK
    <2>5. ErrorsAreCurrent'
      BY <2>1 DEF FormInv, ErrorsAreCurrent, Invalid
    <2>6. Searched'
      BY <2>1, <2>3 DEF FormInv, Searched, Complete, VariablesOf, SlotsFilter
    <2>7. QED
      BY <2>4, <2>5, <2>6 DEF FormInv
  <1>2. CASE Tick
    <2>1. /\ UNCHANGED <<form, errors, checked, debouncing, variables, queryVars, dialog>>
          /\ now' = now + 1 /\ now' \in Times /\ now \in Nat
      BY <1>2 DEF Tick, FormInv, FormTypeOK, Times
    <2>2. FormTypeOK'
      BY <2>1 DEF FormInv, FormTypeOK, queryVars
    <2>3. ErrorsAreCurrent'
      BY <2>1 DEF FormInv, FormTypeOK, FormValues, Times, ErrorsAreCurrent, Invalid
    <2>4. Searched'
      BY <2>1 DEF FormInv, Searched, Complete, VariablesOf, SlotsFilter, queryVars
    <2>5. QED
      BY <2>2, <2>3, <2>4 DEF FormInv
  <1>3. QED
    BY <1>1, <1>2, SetAreaKeepsInv, SetFilterKeepsInv, EditKeepsInv, DebounceKeepsInv DEF FormStep

LEMMA FormInvSettles == FormInv => SettledShowsForm
  BY DEF FormInv, Searched, SettledShowsForm

----------------------------------------------------------------------------
(* The page *)

\* The area of the form, once set, is where the map is, unless it has moved there
\* unheard.
Heard ==
    /\ unheard \in BOOLEAN
    /\ ~unheard => form.area \in {None, view}

\* What the box and the form do to each other.
PageInv ==
    /\ BoxInv
    /\ FormInv
    /\ Heard
    /\ loaded \in BOOLEAN
    /\ edits \in 0..MaxEdits

LEMMA InitPageInv == Init => PageInv
  <1> SUFFICES ASSUME NEW params \in HomeFormQueries \cup HomeLinkQueries,
                      OpenBox(params.destination), OpenForm(params.arrival, params.departure),
                      loaded = FALSE, unheard = FALSE, edits = 0
               PROVE  PageInv
    BY DEF Init
  <1>1. /\ params.destination \in Texts \cup {Blank}
        /\ params.arrival \in Times /\ params.departure \in Times
    BY DEF HomeFormQueries, HomeLinkQueries, Times
  <1>2. BoxInv /\ FormInv
    BY <1>1, OpenBoxInv, OpenFormInv
  <1>3. Heard
    BY DEF OpenForm, Heard
  <1>4. loaded \in BOOLEAN
    OBVIOUS
  <1>5. edits \in 0..MaxEdits
    BY EditsAssumption
  <1>6. QED
    BY <1>2, <1>3, <1>4, <1>5 DEF PageInv

\* What the steps of the page are made of.
LEMMA PageSteps ==
    ASSUME PageInv, [Next]_vars
    PROVE  /\ BoxStep
           /\ FormStep
           /\ Heard'
           /\ loaded' \in BOOLEAN
           /\ edits' \in 0..MaxEdits
  <1>0. view \in Areas /\ form \in FormValues /\ Heard
    BY AreasAssumption DEF PageInv, BoxInv, BoxTypeOK, FormInv, FormTypeOK
  <1>1. loaded' \in BOOLEAN /\ edits' \in 0..MaxEdits
    <2>1. loaded' \in {loaded, TRUE}
      BY DEF Next, MapLoads, Type, Pick, Drag, Drift, ChooseMode, ChangeTimes, ChangeFilter, Book, TextSettles,
         GeocodingEnds, FlightPasses, FlightArrives, FlightBreaks, FormSettles, SearchEnds, TimePasses,
         ByUser, ByItself, vars
    <2>2. edits' = edits \/ (edits < MaxEdits /\ edits' = edits + 1)
      BY DEF Next, MapLoads, Type, Pick, Drag, Drift, ChooseMode, ChangeTimes, ChangeFilter, Book, TextSettles,
         GeocodingEnds, FlightPasses, FlightArrives, FlightBreaks, FormSettles, SearchEnds, TimePasses,
         ByUser, ByItself, vars
    <2>3. loaded \in BOOLEAN /\ edits \in 0..MaxEdits
      BY DEF PageInv
    <2>4. loaded' \in BOOLEAN
      BY <2>1, <2>3
    <2>5. QED
      BY <2>2, <2>3, <2>4, EditsAssumption
  <1>2. ASSUME NEW area \in Areas \cup {form.area}, SetArea(area)
        PROVE  FormStep /\ form'.area = area
    BY <1>0, <1>2 DEF FormStep, SetArea, FormValues
  <1>3. ASSUME view' \in Areas, MapChanged
        PROVE  FormStep /\ Heard'
    BY <1>2, <1>3 DEF MapChanged, Heard
  <1>4. ASSUME MapUnheard, form'.area = form.area
        PROVE  Heard'
    BY <1>0, <1>4 DEF MapUnheard, Heard
  <1>5. ASSUME BoxStep
        PROVE  view' \in Areas
    BY <1>5, StepKeepsBoxInv, AreasAssumption DEF PageInv, BoxInv, BoxTypeOK
  <1>6. ASSUME BoxStep, NEW flies \in BOOLEAN, BoxFollowed(flies)
        PROVE  FormStep /\ Heard'
    <2>1. CASE MapChanged
      BY <1>3, <1>5, <1>6, <2>1
    <2>2. CASE DestinationFollows /\ MapUnheard
      <3>1. FormStep /\ form'.area = form.area
        BY <1>2, <2>2 DEF DestinationFollows, FormStep, formVars
      <3>2. QED
        BY <1>4, <2>2, <3>1
    <2>3. QED
      BY <1>6, <2>1, <2>2 DEF BoxFollowed
  <1>7. CASE MapLoads
    <2>1. BoxStep /\ MapChanged
      BY <1>7 DEF MapLoads, BoxStep
    <2>2. QED
      BY <1>1, <1>3, <1>5, <2>1
  <1>8. CASE \/ \E text \in Texts \cup {Blank} : Type(text)
             \/ \E place \in Places : Pick(place)
             \/ TextSettles \/ GeocodingEnds
    <2>1. BoxStep /\ \E flies \in BOOLEAN : BoxFollowed(flies)
      BY <1>8 DEF Type, Pick, TextSettles, GeocodingEnds, BoxStep
    <2>2. QED
      BY <1>1, <1>6, <2>1
  <1>9. CASE FlightArrives \/ FlightBreaks \/ (\E place \in Places : Drag(place))
    <2>1. BoxStep /\ MapChanged
      BY <1>9 DEF FlightArrives, FlightBreaks, Drag, BoxStep
    <2>2. QED
      BY <1>1, <1>3, <1>5, <2>1
  <1>10. CASE \E place \in Places : Drift(place) \/ FlightPasses(place)
    <2>1. BoxStep /\ MapUnheard /\ UNCHANGED formVars
      BY <1>10 DEF Drift, FlightPasses, BoxStep
    <2>2. QED
      BY <1>1, <1>4, <2>1 DEF FormStep, formVars
  <1>11. CASE ChooseMode \/ ChangeTimes \/ ChangeFilter \/ Book \/ FormSettles \/ SearchEnds \/ TimePasses
    <2>1. UNCHANGED <<boxVars, unheard>>
      BY <1>11 DEF ChooseMode, ChangeTimes, ChangeFilter, Book, FormSettles, SearchEnds, TimePasses
    <2>2. FormStep /\ form'.area = form.area
      <3>1. CASE ChooseMode
        BY <1>2, <3>1 DEF ChooseMode
      <3>2. CASE ChangeTimes \/ ChangeFilter \/ Book \/ FormSettles \/ SearchEnds \/ TimePasses
        BY <1>0, <3>2 DEF ChangeTimes, ChangeFilter, Book, FormSettles, SearchEnds, TimePasses, FormStep,
           EditStart, EditEnd, SetFilter, OpenBooking, CloseBooking, FormDebounced, QueryEnds, QueryAnswered,
           QueryFailed, Tick, FormValues
      <3>3. QED
        BY <1>11, <3>1, <3>2
    <2>3. QED
      BY <1>0, <1>1, <2>1, <2>2 DEF BoxStep, boxVars, Heard
  <1>12. CASE UNCHANGED vars
    BY <1>0, <1>1, <1>12 DEF vars, boxVars, formVars, BoxStep, FormStep, Heard
  <1>13. QED
    BY <1>7, <1>8, <1>9, <1>10, <1>11, <1>12 DEF Next

LEMMA NextKeepsPageInv == PageInv /\ [Next]_vars => PageInv'
  BY PageSteps, StepKeepsBoxInv, StepKeepsFormInv DEF PageInv

LEMMA PageInvariance == Spec => []PageInv
  BY InitPageInv, NextKeepsPageInv, PTL DEF Spec

----------------------------------------------------------------------------
(* Theorems *)

\* Type correctness of the page.
THEOREM PageTypeCorrect == Spec => []TypeOK
  <1>1. PageInv => TypeOK
    BY DEF PageInv, BoxInv, FormInv, Heard, TypeOK
  <1>2. QED
    BY <1>1, PageInvariance, PTL

\* Overlapping geocoding requests: the last text wins, and the loading flag follows
\* its request.
THEOREM LastTextAlwaysWins == Spec => []LastTextWins
  <1>1. PageInv => LastTextWins
    BY DEF PageInv, BoxInv
  <1>2. QED
    BY <1>1, PageInvariance, PTL

\* Validation marks are neither stale nor missing, whichever time was edited.
THEOREM ErrorsStayCurrent == Spec => []ErrorsAreCurrent
  <1>1. PageInv => ErrorsAreCurrent
    BY DEF PageInv, FormInv
  <1>2. QED
    BY <1>1, PageInvariance, PTL

\* The last edit wins: what was searched last, and is shown, is what the form shows.
THEOREM LastEditWins == Spec => []SettledShowsForm
  <1>1. PageInv => SettledShowsForm
    BY FormInvSettles DEF PageInv
  <1>2. QED
    BY <1>1, PageInvariance, PTL

\* A page at rest shows the garages of the place where its map is, unless the map
\* has moved there without an event that the page handles.
THEOREM ResultsMatchMap == Spec => []RestShowsMap
  <1>1. PageInv => RestShowsMap
    <2> SUFFICES ASSUME PageInv, Settled, ~unheard, errors = {}, query = "data", Complete(form)
                 PROVE  results.area = view
      BY DEF RestShowsMap
    <2>1. results = VariablesOf(form)
      BY FormInvSettles DEF PageInv, SettledShowsForm, Settled
    <2>2. form.area = view
      BY DEF PageInv, Heard, Complete
    <2>3. QED
      BY <2>1, <2>2 DEF VariablesOf
  <1>2. QED
    BY <1>1, PageInvariance, PTL

\* A booking is opened with the times its garage was searched for, unless an edit is
\* pending or rejected.
THEOREM BookingsMatchSearch == Spec => BookedAsSearched
  <1>1. PageInv /\ [Next]_vars =>
            [dialog' \notin {None, dialog} /\ ~debouncing /\ errors = {} /\ query = "data"
                => dialog' = <<results.start, results.end>>]_formVars
    <2> SUFFICES ASSUME PageInv, [Next]_vars, dialog' \notin {None, dialog},
                        ~debouncing, errors = {}, query = "data"
                 PROVE  dialog' = <<results.start, results.end>>
      OBVIOUS
    <2>1. FormStep
      BY PageSteps
    <2>2. OpenBooking
      BY <2>1 DEF FormStep, SetArea, SetFilter, EditStart, EditEnd, FormDebounced, QueryEnds,
         QueryAnswered, QueryFailed, CloseBooking, Tick, formVars
    <2>3. dialog' = <<form.start, form.end>>
      BY <2>2 DEF OpenBooking, BookingDefaults
    <2>4. Complete(form)
      <3>1. FormTypeOK /\ ErrorsAreCurrent /\ Searched
        BY DEF PageInv, FormInv
      <3>2. CASE ~checked
        BY <3>1, <3>2 DEF Searched
      <3>3. CASE checked
        <4>1. form.area # None /\ "endTime" \notin Invalid(form)
          BY <3>1, <3>3 DEF Searched, ErrorsAreCurrent
        <4>2. form.start # 0 /\ form.end > form.start
          BY <4>1 DEF Invalid
        <4>3. form.start \in Nat /\ form.end \in Nat
          BY <3>1 DEF FormTypeOK, FormValues, Times
        <4>4. QED
          BY <4>1, <4>2, <4>3 DEF Complete
      <3>4. QED
        BY <3>2, <3>3
    <2>5. results = VariablesOf(form)
      BY <2>4, FormInvSettles DEF PageInv, SettledShowsForm
    <2>6. QED
      BY <2>3, <2>5 DEF VariablesOf
  <1>2. QED
    BY <1>1, PageInvariance, PTL DEF Spec, BookedAsSearched

\* After the initial location the map is sent only where the user sends it.
THEOREM UserSteers == Spec => OnlyUserSteers
  <1>1. PageInv /\ [Next]_vars =>
            [hasApplied =>
                /\ flight' \notin {Nowhere, flight} => \E place \in Places : PickPlace(place)
                /\ flight = Nowhere /\ view' # view =>
                        \E place \in Places : PickPlace(place) \/ MoveMap(place)]_boxVars
    <2> SUFFICES ASSUME PageInv, [Next]_vars, hasApplied
                 PROVE  /\ flight' \notin {Nowhere, flight} => \E place \in Places : PickPlace(place)
                        /\ flight = Nowhere /\ view' # view =>
                                \E place \in Places : PickPlace(place) \/ MoveMap(place)
      OBVIOUS
    <2>1. BoxStep
      BY PageSteps
    <2>2. ASSUME InitialEffect(Nowhere)
          PROVE  UNCHANGED <<flight, view>>
      BY <2>2 DEF InitialEffect, Send
    <2>3. CASE \/ \E text \in Texts \cup {Blank} : TypeText(text)
               \/ TextDebounced \/ RequestEnds \/ UNCHANGED boxVars
      BY <2>2, <2>3 DEF TypeText, TextDebounced, RequestEnds, RequestAnswered, RequestFailed, boxVars
    <2>4. CASE FlightEnds \/ FlightStops \/ \E place \in Places : FlightGoesOn(place)
      BY <2>4 DEF FlightEnds, FlightStops, FlightGoesOn
    <2>5. CASE \E place \in Places : PickPlace(place) \/ MoveMap(place)
      BY <2>5 DEF MoveMap
    <2>6. QED
      BY <2>1, <2>3, <2>4, <2>5 DEF BoxStep
  <1>2. QED
    BY <1>1, PageInvariance, PTL DEF Spec, OnlyUserSteers
=============================================================================
