--------------------------- MODULE LocationSearch ---------------------------
(***************************************************************************)
(* The place box of the search page: useSearchLocation geocodes the text   *)
(* of the box (location.ts), SearchPlaceBox offers the answers and sends   *)
(* the map to the place that is picked and, once, to the first answer.     *)
(*                                                                         *)
(* SearchPage passes the watched field `destination` as initialSearchText, *)
(* and every change of the text is written to that field: the two are      *)
(* always equal.  useDebounce, Mapbox and the Autocomplete are external:    *)
(* the debounced text follows once typing pauses, an aborted fetch only    *)
(* rejects with an AbortError, picking an option puts its name in the box, *)
(* flyTo jumps if the user prefers reduced motion (`essential` is not set, *)
(* SearchPlacesBox.tsx:57-61), and whatever moves the map next stops it.   *)
(***************************************************************************)
CONSTANTS
    Texts,       \* what may be typed
    Blank,       \* the empty text
    Places,      \* where the map can be sent
    NameOf,      \* the text of a place in the list of options
    FirstMatch,  \* the first place the geocoder finds for a text, or Nowhere
    MajorCities, \* options offered while there is no answer
    Home,        \* the initial view of the map
    Nowhere

ASSUME TextsAssumption == Blank \notin Texts /\ Nowhere \notin Texts
ASSUME PlacesAssumption ==
    /\ Nowhere \notin Places /\ Home \notin Places /\ Home # Nowhere
    /\ NameOf \in [Places -> Texts]
    /\ FirstMatch \in [Texts -> Places \cup {Nowhere}]
    /\ MajorCities \subseteq Places

VARIABLES
    searchText,          \* the text in the box, and the page's `destination`
    debouncedSearchText,
    requests,            \* texts being geocoded by a fetch that is not aborted
    loading,
    locationInfo,        \* the text whose answer is held, Nowhere: the empty list
    hasApplied,          \* hasAppliedInitialLocation
    flight,              \* where map.flyTo is heading
    view                 \* where the map is

locationVars == <<debouncedSearchText, requests, loading, locationInfo>>
boxVars == <<searchText, locationVars, hasApplied, flight, view>>

----------------------------------------------------------------------------
(* Helpers *)

First(info) == IF info = Nowhere THEN Nowhere ELSE FirstMatch[info]

Options ==
    IF First(locationInfo) # Nowhere THEN {First(locationInfo)} ELSE MajorCities

\* map.flyTo: a flight, which stops the one before it where it is, or a jump.
FlyTo(place) ==
    \/ flight' = place /\ UNCHANGED view
    \/ flight = Nowhere /\ view' = place /\ UNCHANGED flight

\* Where the map is sent in a step, if anywhere; the map goes on as it was if not.
Send(place) == IF place = Nowhere THEN UNCHANGED <<flight, view>> ELSE FlyTo(place)

\* Seeded fault: the ref is not looked at.
InitialEffectEachTime(picked) ==
    IF searchText' # Blank /\ First(locationInfo') # Nowhere
    THEN hasApplied' = TRUE /\ FlyTo(First(locationInfo'))
    ELSE UNCHANGED hasApplied /\ Send(picked)

\* The effect of SearchPlaceBox after a render: the first answer that comes while
\* there is text is flown to, otherwise what was picked in this step.
InitialEffect(picked) ==
    IF searchText' # Blank /\ ~hasApplied /\ First(locationInfo') # Nowhere
    THEN hasApplied' = TRUE /\ FlyTo(First(locationInfo'))
    ELSE UNCHANGED hasApplied /\ Send(picked)

\* Seeded fault: the effect has no cleanup.
GeocodeWithoutAbort(text) ==
    \/ /\ text # Blank
       /\ requests' = requests \cup {text}
       /\ loading' = TRUE
       /\ UNCHANGED locationInfo
    \/ /\ text = Blank
       /\ loading' = FALSE
       /\ locationInfo' = Nowhere
       /\ UNCHANGED requests

\* Seeded fault: clearing the text leaves the flag to the aborted request.
GeocodeKeepsLoading(text) ==
    \/ /\ text # Blank
       /\ requests' = {text}
       /\ loading' = TRUE
       /\ UNCHANGED locationInfo
    \/ /\ text = Blank
       /\ requests' = {}
       /\ locationInfo' = Nowhere
       /\ UNCHANGED loading

\* The effect of useSearchLocation for a new text: the cleanup of the previous
\* one aborts its request, then a new request starts if there is text.
Geocode(text) ==
    \/ /\ text # Blank
       /\ requests' = {text}
       /\ loading' = TRUE
       /\ UNCHANGED locationInfo
    \/ /\ text = Blank
       /\ requests' = {}
       /\ loading' = FALSE
       /\ locationInfo' = Nowhere

----------------------------------------------------------------------------
(* Actions.  The page is opened with the text of its URL, geocoded at once. *)

OpenBox(text) ==
    /\ searchText = text
    /\ debouncedSearchText = text
    /\ requests = {text} \ {Blank}
    /\ loading = (text # Blank)
    /\ locationInfo = Nowhere
    /\ hasApplied = FALSE
    /\ flight = Nowhere
    /\ view = Home

TypeText(text) ==
    /\ text # searchText
    /\ searchText' = text
    /\ UNCHANGED locationVars
    /\ InitialEffect(Nowhere)

\* An option is picked: its name is put in the box and the map is sent there.
PickPlace(place) ==
    /\ place \in Options
    /\ searchText' = NameOf[place]
    /\ UNCHANGED locationVars
    /\ InitialEffect(place)

TextDebounced ==
    /\ debouncedSearchText # searchText
    /\ debouncedSearchText' = searchText
    /\ Geocode(searchText)
    /\ UNCHANGED searchText
    /\ InitialEffect(Nowhere)

\* The answer to a request arrives: `then`, then `finally`.
RequestAnswered(text) ==
    /\ text \in requests
    /\ requests' = requests \ {text}
    /\ locationInfo' = text
    /\ loading' = FALSE
    /\ UNCHANGED <<searchText, debouncedSearchText>>
    /\ InitialEffect(Nowhere)

\* The request fails or is answered with an error: `catch`, then `finally`.
RequestFailed(text) ==
    /\ text \in requests
    /\ requests' = requests \ {text}
    /\ locationInfo' = Nowhere
    /\ loading' = FALSE
    /\ UNCHANGED <<searchText, debouncedSearchText, hasApplied, flight, view>>

RequestEnds == \E text \in requests : RequestAnswered(text) \/ RequestFailed(text)

\* What the map passes on its way.
FlightGoesOn(place) ==
    /\ flight # Nowhere
    /\ view' = place
    /\ UNCHANGED <<searchText, locationVars, hasApplied, flight>>

FlightEnds ==
    /\ flight # Nowhere
    /\ view' = flight
    /\ flight' = Nowhere
    /\ UNCHANGED <<searchText, locationVars, hasApplied>>

\* The user takes hold of the map: before it moves otherwise, a flight is stopped.
FlightStops ==
    /\ flight # Nowhere
    /\ flight' = Nowhere
    /\ UNCHANGED <<searchText, locationVars, hasApplied, view>>

\* Any other move of the map.
MoveMap(place) ==
    /\ flight = Nowhere
    /\ view' = place
    /\ UNCHANGED <<searchText, locationVars, hasApplied, flight>>

----------------------------------------------------------------------------
(* Properties *)

\* The type invariant.
BoxTypeOK ==
    /\ searchText \in Texts \cup {Blank}
    /\ debouncedSearchText \in Texts \cup {Blank}
    /\ requests \in SUBSET Texts
    /\ loading \in BOOLEAN
    /\ locationInfo \in Texts \cup {Nowhere}
    /\ hasApplied \in BOOLEAN
    /\ flight \in Places \cup {Nowhere}
    /\ view \in Places \cup {Home}

\* However requests overlap, the last text wins: when nothing is loading, the
\* options are those of the text last geocoded, and the loading flag is up
\* exactly while a request for that text is out (location.ts:33-74).
LastTextWins ==
    /\ loading <=> requests = {debouncedSearchText}
    /\ ~loading => requests = {}
    /\ ~loading /\ locationInfo # Nowhere => locationInfo = debouncedSearchText

\* Once the initial location has been applied, a map that flies off or jumps does
\* so because the user picked a place or moved it, whatever answers arrive
\* (SearchPlacesBox.tsx:24-38).
OnlyUserSteers ==
    [][hasApplied =>
        /\ flight' \notin {Nowhere, flight} => \E place \in Places : PickPlace(place)
        /\ flight = Nowhere /\ view' # view =>
                \E place \in Places : PickPlace(place) \/ MoveMap(place)]_boxVars
=============================================================================
