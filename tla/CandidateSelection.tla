-------------------------- MODULE CandidateSelection --------------------------
(***************************************************************************)
(* Which locals are analysed at a stop (ida_plugin/dayvar_plugin.py,        *)
(* select_recovery_candidate_indexes and AnalysisSelectionCache, with the   *)
(* filters of live_variables_view.py).  Analysing every local of a large    *)
(* function would stall IDA, so a stop analyses at most Budget of them:     *)
(* watched locals, locals with a value, then the rest in rotation from a    *)
(* cursor kept per function.                                                *)
(*                                                                          *)
(* A stop and the answers to its requests are one step: selection reads the *)
(* table only at the next pc_update.  A local is its lvar index.  Retained  *)
(* values are assumed to fit in the bounded history.                        *)
(***************************************************************************)
EXTENDS Naturals, Sequences, FiniteSets, FiniteSetsExt

CONSTANTS
  Funcs,         \* functions the debuggee stops in
  LocalsOf,      \* LocalsOf[f]: the indexes of f's locals that are no arguments
  Named,         \* Named[f]: those with a name of their own
  Recoverable,   \* Recoverable[f]: those the analysis can ever recover
  Watched,       \* watched_lvar_indexes
  Budget,        \* max_recovery_candidates
  Filters        \* filters the user selects, a subset of AllFilters

AllFilters == {"All", "Fresh", "Recoverable", "Arguments", "Named locals", "Unavailable"}

ASSUME SelectionAssumption ==
  /\ \A f \in Funcs : /\ LocalsOf[f] \subseteq Nat /\ IsFiniteSet(LocalsOf[f])
                      /\ Named[f] \subseteq LocalsOf[f]
                      /\ Recoverable[f] \subseteq LocalsOf[f]
  /\ Watched \subseteq Nat /\ IsFiniteSet(Watched)
  /\ Budget \in Nat
  /\ "All" \in Filters /\ Filters \subseteq AllFilters

VARIABLES
  filter,     \* view.active_filter
  rows,       \* status of the locals in the table, by index
  history,    \* <<f, i>> with a retained value (VVariableRecovery._history)
  active,     \* _active_function_ea, None before the first stop
  key,        \* AnalysisSelectionCache.key: <<function, filter>>, or NoKey
  indexes,    \* AnalysisSelectionCache.indexes
  cursor,     \* AnalysisSelectionCache.cursor_by_function, of the functions that have one
  chosen      \* the locals analysed at the latest stop

vars == <<filter, rows, history, active, key, indexes, cursor, chosen>>

None == "none"
NoKey == <<>>
Statuses == {"fresh", "stale", "error", "unavailable"}

Init ==
  /\ filter = "All"
  /\ rows = <<>> /\ history = {} /\ active = None
  /\ key = NoKey /\ indexes = {} /\ cursor = <<>>
  /\ chosen = {}

-----------------------------------------------------------------------------
(* select_recovery_candidate_indexes *)

\* A local that is not in the table has the status it is enumerated with.
StatusOf(i) == IF i \in DOMAIN rows THEN rows[i] ELSE "unavailable"

\* A row is matched by its index, and may be of the function stopped in before.
NamedRow(f, i) == IF i \in DOMAIN rows THEN i \in Named[active] ELSE i \in Named[f]

row_matches_filter(f, i) ==
  CASE filter = "All" -> TRUE
    [] filter = "Fresh" -> StatusOf(i) = "fresh"
    [] filter = "Recoverable" -> StatusOf(i) \in {"fresh", "stale"}
    [] filter = "Arguments" -> FALSE
    [] filter = "Named locals" -> NamedRow(f, i)
    [] filter = "Unavailable" -> StatusOf(i) = "unavailable"

\* The k-th entry is the index with k - 1 smaller ones.
Sorted(S) ==
  [k \in 1..Cardinality(S) |-> CHOOSE i \in S : Cardinality({j \in S : j < i}) = k - 1]

\* The selection once the first k of a list are in it.
WithFirst(selected, list, k) == selected \cup {list[j] : j \in 1..k}

\* add, for every index of a list: those reached before the budget is spent.
AddAll(selected, list) ==
  selected \cup
    {list[k] : k \in {k \in 1..Len(list) :
                       Cardinality(WithFirst(selected, list, k - 1)) < Budget}}

\* A list from its entry start (counted from 0) once around.
Ring(list, start) == [k \in 1..Len(list) |-> list[((start + k - 1) % Len(list)) + 1]]

\* Mutant: the cursor stays where it is.
FixedStart(selected, list, at) ==
  IF list = <<>> \/ Cardinality(selected) >= Budget
    THEN [selected |-> selected, cursor |-> at]
    ELSE LET start == at % Len(list)
         IN  [selected |-> AddAll(selected, Ring(list, start)), cursor |-> start]

\* The list is walked once around from the cursor, until the budget is spent.
add_rotating(selected, list, at) ==
  IF list = <<>> \/ Cardinality(selected) >= Budget
    THEN [selected |-> selected, cursor |-> at]
    ELSE LET start == at % Len(list)
             ring == Ring(list, start)
             Full(k) == Cardinality(WithFirst(selected, ring, k)) >= Budget
             added == Min({k \in 1..Len(list) : Full(k)} \cup {Len(list)})
         IN  [selected |-> AddAll(selected, ring), cursor |-> (start + added) % Len(list)]

\* Locals the table shows a value of; rows are matched by index alone.
Known(f) == {i \in LocalsOf[f] : StatusOf(i) \in {"fresh", "stale"}}

\* Mutant: rows with a value are not preferred.
WatchedOnly(f) == AddAll({}, Sorted(Watched \cap LocalsOf[f]))

\* Mutant: a watched index need not be one of the function's locals.
WatchedUnchecked(f) == AddAll(AddAll({}, Sorted(Watched)), Sorted(Known(f)))

Prioritised(f) ==
  AddAll(AddAll({}, Sorted(Watched \cap LocalsOf[f])), Sorted(Known(f)))

\* cursor_by_function.get(function_ea, 0)
CursorOf(f) == IF f \in DOMAIN cursor THEN cursor[f] ELSE 0

\* Mutant: only what the filter shows is analysed.
VisibleOnly(f) ==
  LET visible == {i \in LocalsOf[f] : row_matches_filter(f, i)}
  IN  add_rotating(Prioritised(f), Sorted(visible), CursorOf(f))

select_recovery_candidate_indexes(f) ==
  LET visible == {i \in LocalsOf[f] : row_matches_filter(f, i)}
      shown == add_rotating(Prioritised(f), Sorted(visible), CursorOf(f))
      remaining == LocalsOf[f] \ shown.selected
  IN  add_rotating(shown.selected, Sorted(remaining), shown.cursor)

-----------------------------------------------------------------------------
(* The controller *)

\* The update repeats pc_seq, function and EA of the one before, as the first
\* one after a reload of the extension may: the cached decision may be used.
CacheHit(f, again) == again /\ active = f /\ key = <<f, filter>>

\* AnalysisSelectionCache.select
select(f, again) ==
  LET picked == select_recovery_candidate_indexes(f) IN
  /\ IF CacheHit(f, again)
       THEN chosen' = indexes /\ UNCHANGED cursor
       ELSE /\ chosen' = picked.selected
            /\ cursor' = [g \in DOMAIN cursor \cup {f} |->
                            IF g = f THEN picked.cursor ELSE cursor[g]]
  /\ indexes' = chosen'
  /\ key' = <<f, filter>>

Retained(f, i) == IF <<f, i>> \in history THEN "stale" ELSE "unavailable"

\* begin_pc and the answers that arrive before the next stop: the recovered
\* locals got, the reads of the locals lost fail.
Recovered(f, got, lost) ==
  /\ rows' = [i \in LocalsOf[f] |->
       IF i \in got THEN "fresh" ELSE IF i \in lost THEN "error" ELSE Retained(f, i)]
  /\ history' = history \cup {<<f, i>> : i \in got}

Stop(f, again) ==
  /\ select(f, again)
  /\ \E got \in SUBSET (chosen' \cap Recoverable[f]) :
       \E lost \in SUBSET ((chosen' \cap Recoverable[f]) \ got) : Recovered(f, got, lost)
  /\ active' = f
  /\ UNCHANGED filter

\* The analysis is not available at this stop: no local keeps its value.
StopUnanalysed(f, again) ==
  /\ select(f, again)
  /\ rows' = [i \in LocalsOf[f] |-> "unavailable"]
  /\ active' = f
  /\ UNCHANGED <<filter, history>>

MappingFailed ==
  /\ key' = NoKey /\ indexes' = {}
  /\ UNCHANGED <<filter, rows, history, active, cursor, chosen>>

EnumerationFailed ==
  /\ key' = NoKey /\ indexes' = {}
  /\ rows' = <<>>
  /\ UNCHANGED <<filter, history, active, cursor, chosen>>

set_filter(name) ==
  /\ filter' = name
  /\ key' = NoKey /\ indexes' = {}
  /\ UNCHANGED <<rows, history, active, cursor, chosen>>

disconnect ==
  /\ key' = NoKey /\ indexes' = {}
  /\ cursor' = <<>>
  /\ UNCHANGED <<filter, rows, history, active, chosen>>

Next ==
  \/ \E f \in Funcs, again \in BOOLEAN : Stop(f, again) \/ StopUnanalysed(f, again)
  \/ MappingFailed \/ EnumerationFailed \/ disconnect
  \/ \E name \in Filters : set_filter(name)

Spec == Init /\ [][Next]_vars

-----------------------------------------------------------------------------
TypeOK ==
  /\ filter \in Filters
  /\ DOMAIN rows \subseteq UNION {LocalsOf[f] : f \in Funcs}
  /\ \A i \in DOMAIN rows : rows[i] \in Statuses
  /\ history \subseteq UNION {{f} \X Recoverable[f] : f \in Funcs}
  /\ active \in Funcs \cup {None}
  /\ key \in (Funcs \X Filters) \cup {NoKey}
  /\ indexes \subseteq UNION {LocalsOf[f] : f \in Funcs}
  /\ DOMAIN cursor \subseteq Funcs
  /\ \A f \in DOMAIN cursor : cursor[f] \in Nat

\* As many locals of f as the budget allows.
Spends(f, S) ==
  /\ S \subseteq LocalsOf[f]
  /\ Cardinality(S) = Min({Budget, Cardinality(LocalsOf[f])})

(***************************************************************************)
(* A stop analyses as many locals as the budget allows, and only locals of  *)
(* its function: neither what is watched, nor rows left over from another   *)
(* function, nor the filter, nor a cached decision makes it waste a place.  *)
(***************************************************************************)
BudgetIsSpent == active # None => Spends(active, chosen)

(***************************************************************************)
(* As long as the table shows a function's retained values and they fit the *)
(* budget, a new stop in the function analyses every local that ever had a  *)
(* value there, so that a stale value is refreshed as soon as the code      *)
(* allows.                                                                  *)
(***************************************************************************)
RetainedAreAnalysed ==
  [][\A f \in Funcs :
       LET had == {i \in LocalsOf[f] : <<f, i>> \in history} IN
       /\ Stop(f, FALSE) /\ active = f
       /\ \A i \in had : StatusOf(i) \in {"fresh", "stale"}
       /\ Cardinality((Watched \cup Known(f)) \cap LocalsOf[f]) <= Budget
       => had \subseteq chosen']_vars

NewStop(f) == Stop(f, FALSE) \/ StopUnanalysed(f, FALSE)

(***************************************************************************)
(* The rotation reaches every local: if the debuggee keeps stopping in f,   *)
(* the plugin stays connected, the table shows all locals, and the locals   *)
(* preferred to the others leave a place in the budget, each local of f is  *)
(* analysed again and again.                                                *)
(***************************************************************************)
Leaves(f) ==
  filter = "All" /\ Cardinality((Watched \cup Known(f)) \cap LocalsOf[f]) < Budget

Rotation ==
  \A f \in Funcs : \A i \in LocalsOf[f] :
    /\ []<><<NewStop(f)>>_vars
    /\ <>[]Leaves(f)
    /\ <>[][~disconnect]_vars
    => []<>(active = f /\ i \in chosen)

-----------------------------------------------------------------------------
\* The inductive invariant behind BudgetIsSpent (CandidateSelectionProofs): a
\* decision that may be used again spends the budget in the function of its key.
CacheInv == key # NoKey => Spends(key[1], indexes)

SelectionInv == TypeOK /\ BudgetIsSpent /\ CacheInv
=============================================================================
