----------------------------- MODULE SearchForm -----------------------------
(***************************************************************************)
(* The search form of the web application and the results it leads to:     *)
(* react-hook-form with a zod schema (searchGarages.tsx), its debounced    *)
(* conversion into query variables (searchFormAdapter.ts), the lazy query  *)
(* (ShowGarages.tsx) and the cards that open a booking dialog.             *)
(*                                                                         *)
(* External: react-hook-form runs the resolver and then replaces the       *)
(* errors of the fields it was triggered for, both long before 300 ms are  *)
(* over; Apollo answers only the variables of the last call and keeps the  *)
(* previous data until the next data come.                                 *)
(***************************************************************************)
EXTENDS Naturals

CONSTANTS
    Areas,     \* values of locationFilter
    Filters,   \* settings of the sidebar: sizes, price, slot types
    Default,   \* the default of those settings
    MaxTime,   \* times are 1..MaxTime, 0 is the empty time
    None

ASSUME FormAssumption == None \notin Areas /\ Default \notin Filters /\ None \notin Filters
ASSUME TimeAssumption == MaxTime \in Nat /\ MaxTime >= 2

VARIABLES
    form,        \* the values of the form
    errors,      \* formState.errors: the fields found invalid
    checked,     \* history: a time was edited, and so validated, with an area
    debouncing,  \* the debounced copy is older than the form
    variables,   \* the state of useConvertSearchFormToVariables
    requested,   \* variables of the last searchGarages call
    query,       \* the state of that call
    results,     \* the variables whose data are shown
    bookable,    \* whether a garage of those data has a free space
    dialog,      \* times of the booking dialog, if it is open
    now

queryVars == <<requested, query, results, bookable>>
formVars == <<form, errors, checked, debouncing, variables, queryVars, dialog, now>>

Times == 0..MaxTime
FormValues == [start : Times, end : Times, area : Areas \cup {None}, filter : Filters \cup {Default}]
Variables  == [start : Times \ {0}, end : Times \ {0}, area : Areas, slots : Filters \cup {None}]

----------------------------------------------------------------------------
(* Helpers *)

\* The fields the schema rejects.  Its two refinements run only on an object
\* of the right shape, and without a locationFilter the shape is wrong.
Invalid(f) ==
    IF f.area = None THEN {}
    ELSE {field \in {"startTime", "endTime"} :
            \/ field = "startTime" /\ ~(f.start > now)
            \/ field = "endTime" /\ ~(f.start # 0 /\ f.end > f.start)}

Complete(f) == f.start # 0 /\ f.end # 0 /\ f.area # None

\* Seeded fault: defaults are sent too.
SlotsFilterWithDefaults(f) == f.filter

\* The sidebar's settings are sent only when they are dirty.
SlotsFilter(f) == IF f.filter = Default THEN None ELSE f.filter

VariablesOf(f) ==
    [start |-> f.start, end |-> f.end, area |-> f.area, slots |-> SlotsFilter(f)]

\* Seeded fault: a search is dropped while another one is loading.
SearchUnlessBusy(v) ==
    /\ requested' = IF query = "loading" THEN requested ELSE v
    /\ query' = IF v = requested /\ query = "data" THEN query ELSE "loading"
    /\ UNCHANGED <<results, bookable>>

\* searchGarages({ variables }): nothing happens if Apollo has, or is getting,
\* the data of these variables for this component.
Search(v) ==
    /\ requested' = v
    /\ query' = IF v = requested /\ query \in {"loading", "data"} THEN query ELSE "loading"
    /\ UNCHANGED <<results, bookable>>

\* The hook returns null while there are errors.  When they go away it returns
\* the variables it still has, and the effect of ShowGarages searches them.
SearchWhenErrorsClear ==
    IF errors # {} /\ errors' = {} /\ variables # None
    THEN Search(variables)
    ELSE UNCHANGED queryVars

\* Seeded fault: a new start is not compared with the end.
TriggerFirst(names) ==
    /\ errors' = (errors \ names) \cup (names \cap Invalid(form') \cap {"startTime"})
    /\ checked' = (checked \/ form.area # None)

\* trigger(names): the errors of these fields are replaced.
Trigger(names) ==
    /\ errors' = (errors \ names) \cup (names \cap Invalid(form'))
    /\ checked' = (checked \/ form.area # None)

----------------------------------------------------------------------------
(* Actions *)

\* The page opens with the times of its URL, unvalidated; an absent one is
\* five minutes, or an hour and five minutes, from now.
OpenForm(arrival, departure) ==
    /\ now = 0
    /\ form = [start |-> IF arrival = 0 THEN 1 ELSE arrival,
               end |-> IF departure = 0 THEN 2 ELSE departure,
               area |-> None, filter |-> Default]
    /\ errors = {}
    /\ checked = FALSE
    /\ debouncing = FALSE
    /\ variables = None
    /\ requested = None
    /\ query = "none"
    /\ results = None
    /\ bookable = FALSE
    /\ dialog = None

\* setValue without validation: the map has moved, or (with the same area) a
\* field was set that no variable is made from.
SetArea(area) ==
    /\ form' = [form EXCEPT !.area = area]
    /\ debouncing' = TRUE
    /\ UNCHANGED <<errors, checked, variables, queryVars, dialog, now>>

SetFilter(filter) ==
    /\ filter # form.filter
    /\ form' = [form EXCEPT !.filter = filter]
    /\ debouncing' = TRUE
    /\ UNCHANGED <<errors, checked, variables, queryVars, dialog, now>>

\* A new start validates both times, a new end only itself.
EditStart(time) ==
    /\ time # form.start
    /\ form' = [form EXCEPT !.start = time]
    /\ debouncing' = TRUE
    /\ Trigger({"startTime", "endTime"})
    /\ SearchWhenErrorsClear
    /\ UNCHANGED <<variables, dialog, now>>

EditEnd(time) ==
    /\ time # form.end
    /\ form' = [form EXCEPT !.end = time]
    /\ debouncing' = TRUE
    /\ Trigger({"endTime"})
    /\ SearchWhenErrorsClear
    /\ UNCHANGED <<variables, dialog, now>>

\* Typing has paused: the form, if complete, is converted and searched.
FormDebounced ==
    /\ debouncing
    /\ debouncing' = FALSE
    /\ variables' = IF Complete(form) THEN VariablesOf(form) ELSE variables
    /\ IF Complete(form) /\ errors = {} THEN Search(variables') ELSE UNCHANGED queryVars
    /\ UNCHANGED <<form, errors, checked, dialog, now>>

\* A card, and its dialog, stay if the new data still have its garage, full or
\* not.
QueryAnswered ==
    /\ query = "loading"
    /\ query' = "data"
    /\ results' = requested
    /\ bookable' \in BOOLEAN
    /\ dialog' \in {None, dialog}
    /\ UNCHANGED <<form, errors, checked, debouncing, variables, requested, now>>

\* The error is shown in the place of all cards.
QueryFailed ==
    /\ query = "loading"
    /\ query' = "error"
    /\ dialog' = None
    /\ UNCHANGED <<form, errors, checked, debouncing, variables, requested, results, bookable, now>>

QueryEnds == QueryAnswered \/ QueryFailed

\* The times the booking dialog starts with.
BookingDefaults == <<form.start, form.end>>

\* "View and book" on a card with an available space.
OpenBooking ==
    /\ query # "error"
    /\ bookable
    /\ dialog = None
    /\ dialog' = BookingDefaults
    /\ UNCHANGED <<form, errors, checked, debouncing, variables, queryVars, now>>

CloseBooking ==
    /\ dialog # None
    /\ dialog' = None
    /\ UNCHANGED <<form, errors, checked, debouncing, variables, queryVars, now>>

Tick ==
    /\ now + 1 < MaxTime   \* later no time is left that could be entered
    /\ now' = now + 1
    /\ UNCHANGED <<form, errors, checked, debouncing, variables, queryVars, dialog>>

----------------------------------------------------------------------------
(* Properties *)

\* The type invariant.
FormTypeOK ==
    /\ form \in FormValues
    /\ errors \in SUBSET {"startTime", "endTime"}
    /\ checked \in BOOLEAN
    /\ debouncing \in BOOLEAN
    /\ variables \in Variables \cup {None}
    /\ requested \in Variables \cup {None}
    /\ query \in {"none", "loading", "data", "error"}
    /\ results \in Variables \cup {None}
    /\ bookable \in BOOLEAN
    /\ dialog \in (Times \X Times) \cup {None}
    /\ now \in Times

\* No field carries an error it does not deserve, whatever was edited after the
\* error was found, and once times have been validated an end that is not after
\* the start has one, whichever of the two was edited (SearchPage.tsx:85-107).
ErrorsAreCurrent ==
    /\ errors \subseteq Invalid(form)
    /\ checked /\ "endTime" \in Invalid(form) => "endTime" \in errors

\* When typing has paused and nothing is rejected, the last search was for what
\* the form shows, and data that are not loading any more are its answer,
\* whatever was searched, rejected or answered before (searchFormAdapter.ts:83,
\* ShowGarages.tsx:19-25).
SettledShowsForm ==
    ~debouncing /\ errors = {} /\ Complete(form) =>
        /\ requested = VariablesOf(form)
        /\ query = "data" => results = VariablesOf(form)

\* A booking that is opened while nothing is pending or rejected offers the
\* times for which its garage was found free (SearchGarageCard.tsx:15-36).
BookedAsSearched ==
    [][dialog' \notin {None, dialog} /\ ~debouncing /\ errors = {} /\ query = "data"
        => dialog' = <<results.start, results.end>>]_formVars
=============================================================================
