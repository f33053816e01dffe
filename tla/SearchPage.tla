----------------------------- MODULE SearchPage -----------------------------
(***************************************************************************)
(* The search page: the place box (LocationSearch) and the form with its   *)
(* results (SearchForm) around one map.  The box writes its text into the   *)
(* form and sends the map about.  The page handles three of the map's      *)
(* events, load, dragend and zoomend: they write the bounds the map then   *)
(* has into the form, which searches again.                                *)
(*                                                                         *)
(* External: dragend comes when the map is let go, zoomend when a zoom or  *)
(* a flight ends or is stopped, or when a jump changes the zoom.  Other    *)
(* moves end with moveend alone, which nobody handles.                     *)
(***************************************************************************)
EXTENDS LocationSearch, SearchForm

CONSTANT MaxEdits   \* bound on what the user does

ASSUME AreasAssumption == Areas = Places \cup {Home}
ASSUME EditsAssumption == MaxEdits \in Nat

VARIABLES
    loaded,   \* the map's load event has come
    unheard,  \* history: the map has moved since the last of the three events
    edits

vars == <<boxVars, formVars, loaded, unheard, edits>>

----------------------------------------------------------------------------
(* How the page is reached: the form of the home page requires a text and   *)
(* both times but does not compare them; its links carry neither.  The mode *)
(* and the category, which no search looks at, are left out.                *)

HomeFormQueries ==
    [destination : Texts, arrival : Times \ {0}, departure : Times \ {0}]

HomeLinkQueries ==
    [destination : {Blank}, arrival : {0}, departure : {0}]

Init ==
    /\ \E params \in HomeFormQueries \cup HomeLinkQueries :
        /\ OpenBox(params.destination)
        /\ OpenForm(params.arrival, params.departure)
    /\ loaded = FALSE
    /\ unheard = FALSE
    /\ edits = 0

----------------------------------------------------------------------------
(* Steps.  handleMapChange and setValue are part of the step that causes    *)
(* them.                                                                    *)

\* FlightBreaks is left out of the count: it is the beginning of a Drag or a Drift.
ByUser == edits < MaxEdits /\ edits' = edits + 1 /\ UNCHANGED loaded

ByItself == UNCHANGED <<loaded, edits>>

\* onSearchTextChange: setValue('destination').
DestinationFollows ==
    IF searchText' # searchText THEN SetArea(form.area) ELSE UNCHANGED formVars

\* Seeded fault: onZoomEnd is not handled.
MapChangedByDragOnly ==
    /\ unheard' = FALSE
    /\ IF view' = flight THEN UNCHANGED formVars ELSE SetArea(view')

\* onDragEnd, onZoomEnd and onLoad: setValue('locationFilter').
MapChanged ==
    /\ unheard' = FALSE
    /\ SetArea(view')

\* The map has come to view' without an event that the page handles.
MapUnheard == unheard' = (unheard \/ view' # view)

MapLoads ==
    /\ ~loaded
    /\ loaded' = TRUE
    /\ UNCHANGED <<boxVars, edits>>
    /\ MapChanged

\* What the page does in a step of the box that calls flyTo if `flies`.  zoomend
\* comes if this stops a flight, and may come, or not, if it is a jump.
BoxFollowed(flies) ==
    \/ flies /\ (flight # Nowhere \/ flight' = Nowhere) /\ MapChanged
    \/ ~(flies /\ flight # Nowhere) /\ DestinationFollows /\ MapUnheard

Type(text)    == TypeText(text) /\ BoxFollowed(hasApplied' # hasApplied) /\ ByUser
Pick(place)   == PickPlace(place) /\ BoxFollowed(TRUE) /\ ByUser
TextSettles   == TextDebounced /\ BoxFollowed(hasApplied' # hasApplied) /\ ByItself
GeocodingEnds == RequestEnds /\ BoxFollowed(hasApplied' # hasApplied) /\ ByItself

FlightPasses(place) == FlightGoesOn(place) /\ MapUnheard /\ UNCHANGED formVars /\ ByItself
FlightArrives == FlightEnds /\ MapChanged /\ ByItself
FlightBreaks  == FlightStops /\ MapChanged /\ ByItself

\* The user drags the map, until he lets it go, or zooms it.
Drag(place) == MoveMap(place) /\ MapChanged /\ ByUser

\* The map moves and moveend alone comes: it glides on after a drag, is moved with
\* the keys, is rotated or pitched, or the window is resized.
Drift(place) == MoveMap(place) /\ MapUnheard /\ UNCHANGED formVars /\ ByUser

\* The buttons, the times, the sidebar and the cards.
ChooseMode ==
    /\ SetArea(form.area)
    /\ ByUser
    /\ UNCHANGED <<boxVars, unheard>>

ChangeTimes ==
    /\ \E time \in Times : EditStart(time) \/ EditEnd(time)
    /\ ByUser
    /\ UNCHANGED <<boxVars, unheard>>

ChangeFilter ==
    /\ \E filter \in Filters \cup {Default} : SetFilter(filter)
    /\ ByUser
    /\ UNCHANGED <<boxVars, unheard>>

Book == (OpenBooking \/ CloseBooking) /\ ByUser /\ UNCHANGED <<boxVars, unheard>>

FormSettles  == FormDebounced /\ UNCHANGED <<boxVars, unheard>> /\ ByItself
SearchEnds   == QueryEnds /\ UNCHANGED <<boxVars, unheard>> /\ ByItself
TimePasses   == Tick /\ UNCHANGED <<boxVars, unheard>> /\ ByItself

Next ==
    \/ MapLoads
    \/ \E text \in Texts \cup {Blank} : Type(text)
    \/ \E place \in Places : Pick(place) \/ Drag(place) \/ Drift(place) \/ FlightPasses(place)
    \/ ChooseMode
    \/ ChangeTimes
    \/ ChangeFilter
    \/ Book
    \/ TextSettles
    \/ GeocodingEnds
    \/ FlightArrives
    \/ FlightBreaks
    \/ FormSettles
    \/ SearchEnds
    \/ TimePasses

Spec == Init /\ [][Next]_vars

\* Browser timers fire, flights end, the map loads, and Mapbox and the API answer
\* or fail in the end.  Nothing is assumed of the user or of the clock.
FairSpec ==
    /\ Spec
    /\ WF_vars(MapLoads)
    /\ WF_vars(TextSettles)
    /\ WF_vars(GeocodingEnds)
    /\ WF_vars(FlightArrives)
    /\ WF_vars(FormSettles)
    /\ WF_vars(SearchEnds)

----------------------------------------------------------------------------
(* Properties; BoxTypeOK, LastTextWins, OnlyUserSteers, ErrorsAreCurrent,    *)
(* SettledShowsForm and BookedAsSearched are those of the parts.            *)

\* The type invariant.
TypeOK ==
    /\ BoxTypeOK /\ FormTypeOK
    /\ loaded \in BOOLEAN /\ unheard \in BOOLEAN
    /\ edits \in 0..MaxEdits

Settled ==
    /\ loaded
    /\ searchText = debouncedSearchText /\ ~loading
    /\ flight = Nowhere
    /\ ~debouncing /\ query # "loading"

\* When the page has come to rest without an error, the garages on it are those of
\* the place where the map is, the place the box sent it to included, except after
\* a move that ended without load, dragend or zoomend (SearchPage.tsx:50-52): then
\* they stay those of another place until the next of these events.
RestShowsMap ==
    Settled /\ ~unheard /\ errors = {} /\ query = "data" /\ Complete(form)
        => results.area = view

\* When the user stops, the page comes to rest: no spinner stays, whatever was
\* in flight, aborted or rejected.
EventuallySettled == <>[]Settled
=============================================================================
