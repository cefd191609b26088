-------------------------------- MODULE Picker --------------------------------
(***************************************************************************)
(* The interactive picker: pickerState of session/interactive.go, the sort *)
(* columns of sortmode.go and the filter of guestrow.go. One user presses  *)
(* keys, and the window changes size between them.                         *)
(*                                                                         *)
(* The rows are one slice: without a filter the list shown IS the list of  *)
(* all rows, and sorting the one in place sorts the other. Rows are taken  *)
(* in an order given per column, and a filter by the score of each row; a  *)
(* row of no score does not match. Positions count from 0, as in the code. *)
(***************************************************************************)
EXTENDS Integers, SequencesExt, FiniteSets

CONSTANTS
    PickerRows,    \* the rows: guests and nodes
    Order,         \* per sort column, all rows in order: total (lessByNameThenID)
    Letters,       \* what the user types into the filter
    Score,         \* per filter text, the rows that match, each with its score
    Stopped,       \* the guests that are not running
    MaxFilter,     \* bound: length of the filter
    WindowHeights  \* heights of the window

sortCycle == <<"id", "name", "status", "host">>

\* A column orders all rows, and a filter scores some of them.
ASSUME PickerAssumption ==
    /\ IsFiniteSet(PickerRows)
    /\ Order \in [ToSet(sortCycle) -> SetToSeqs(PickerRows)]
    /\ MaxFilter \in Nat /\ WindowHeights \subseteq Int
    /\ \A f \in BoundedSeq(Letters, MaxFilter) :
          (\E i \in DOMAIN f : f[i] # " ") =>
             /\ DOMAIN Score[f] \subseteq PickerRows
             /\ \A r \in DOMAIN Score[f] : Score[f][r] \in Int

VARIABLES
    all,       \* the rows, in the order they are kept in
    shown,     \* the rows on the list
    filter,    \* the filter text
    cursor,    \* position of the highlighted row on the list
    offset,    \* position of the first row on the screen
    height,    \* height of the window
    sort,      \* the sort column: "unset" until Tab is pressed
    state      \* "open", "quit" or "chosen": the highlighted row is connected to

view == <<cursor, offset>>
list == <<all, shown, filter, sort>>
pickerVars == <<list, view, height, state>>

reservedRows == 6
minListRows == 3
listRows == IF height - reservedRows < minListRows THEN minListRows ELSE height - reservedRows

SortModes == {"unset"} \union ToSet(sortCycle)

\* sortRows: a fresh picker is in the order of the names.
SortRows(mode) == Order[IF mode = "unset" THEN "name" ELSE mode]

PickerInit ==
    /\ all = SortRows("name") /\ shown = all
    /\ filter = <<>> /\ sort = "unset"
    /\ cursor = 0 /\ offset = 0
    /\ height \in WindowHeights
    /\ state = "open"

Lesser(a, b) == IF a < b THEN a ELSE b
Greater(a, b) == IF a > b THEN a ELSE b

\* Mutant: the view only ever scrolls down.
ScrollsDown(c, n) == Greater(Lesser(Greater(offset, c - listRows + 1), n - listRows), 0)

\* The first row on the screen, for a cursor that is to be on row c of n.
scrollToCursor(c, n) ==
    LET seen == Greater(Lesser(offset, c), c - listRows + 1)
    IN  Greater(Lesser(seen, n - listRows), 0)

\* Mutant: the end of the list does not stop the cursor.
MovesOn(delta) ==
    /\ cursor' = Greater(cursor + delta, 0)
    /\ offset' = IF shown = <<>> THEN 0 ELSE scrollToCursor(cursor', Len(shown))
    /\ UNCHANGED <<list, state>>

\* By so many rows, and no further than the ends of the list.
move(delta) ==
    /\ cursor' = Greater(Lesser(cursor + delta, Len(shown) - 1), 0)
    /\ offset' = IF shown = <<>> THEN 0 ELSE scrollToCursor(cursor', Len(shown))
    /\ UNCHANGED <<list, state>>

IsBlank(f) == \A i \in DOMAIN f : f[i] = " "
PositionOf(r, rows) == CHOOSE i \in DOMAIN rows : rows[i] = r

\* The matching rows that stand above row r.
Above(r, rows, f) ==
    {q \in ToSet(rows) \intersect DOMAIN Score[f] :
        \/ Score[f][q] > Score[f][r]
        \/ Score[f][q] = Score[f][r] /\ PositionOf(q, rows) < PositionOf(r, rows)}

\* The matching rows, best first, and ties in the order they are kept in: each
\* stands behind as many as are above it.
filterRows(rows, f) ==
    IF IsBlank(f) THEN rows
    ELSE LET matching == ToSet(rows) \intersect DOMAIN Score[f]
         IN  [i \in 1..Cardinality(matching) |->
                CHOOSE r \in matching : Cardinality(Above(r, rows, f)) = i - 1]

\* Mutant: an emptied filter leaves the rows as they are kept.
SetsFilterOnly(f) ==
    /\ filter' = f
    /\ shown' = filterRows(all, f)
    /\ cursor' = 0 /\ offset' = 0
    /\ UNCHANGED <<all, sort, state>>

\* Without a filter the chosen column decides, for the rows that are kept too.
setFilter(f) ==
    /\ filter' = f
    /\ all' = IF f = <<>> THEN SortRows(sort) ELSE all
    /\ shown' = IF f = <<>> THEN all' ELSE filterRows(all, f)
    /\ cursor' = 0 /\ offset' = 0
    /\ UNCHANGED <<sort, state>>

\* From the opening state forwards to the head of the cycle, back to its tail.
CycleIndex(m) == IF m = "unset" THEN 0 ELSE PositionOf(m, sortCycle)
nextMode(m) == sortCycle[(CycleIndex(m) % Len(sortCycle)) + 1]
prevMode(m) == IF CycleIndex(m) <= 1 THEN Last(sortCycle) ELSE sortCycle[CycleIndex(m) - 1]

\* While a filter is on, the column is only noted. The highlight stays on its row.
cycleSort(mode) ==
    /\ sort' = mode
    /\ IF filter # <<>> \/ shown = <<>>
       THEN UNCHANGED <<all, shown, view>>
       ELSE /\ all' = SortRows(mode) /\ shown' = all'
            /\ cursor' = PositionOf(shown[cursor + 1], shown') - 1
            /\ offset' = scrollToCursor(cursor', Len(shown'))
    /\ UNCHANGED <<filter, state>>

closes(s) == state' = s /\ UNCHANGED <<list, view>>

\* apply: one key. A row that is not running is not connected to.
Enter == shown # <<>> /\ shown[cursor + 1] \notin Stopped /\ closes("chosen")
Esc == IF filter # <<>> THEN setFilter(<<>>) ELSE closes("quit")
Moves == \E d \in {-1, 1, -listRows, listRows, -Len(shown), Len(shown)} : move(d)
Backspace == filter # <<>> /\ setFilter(Front(filter))
CtrlU == setFilter(<<>>)
Tab == cycleSort(nextMode(sort)) \/ cycleSort(prevMode(sort))
Types(c) ==
    IF c = "q" /\ filter = <<>> THEN closes("quit")
    ELSE Len(filter) < MaxFilter /\ setFilter(Append(filter, c))

apply ==
    /\ state = "open"
    /\ UNCHANGED height
    /\ Enter \/ Esc \/ Moves \/ Backspace \/ CtrlU \/ Tab \/ \E c \in Letters : Types(c)

\* The window changes size: the frame is painted again, and nothing scrolls.
WindowResizes(h) ==
    /\ state = "open"
    /\ height' = h
    /\ UNCHANGED <<list, view, state>>

PickerNext == apply \/ \E h \in WindowHeights : WindowResizes(h)

PickerSpec == PickerInit /\ [][PickerNext]_pickerVars

(***************************************************************************)
(* Properties                                                              *)
(***************************************************************************)
PickerTypeOK ==
    /\ all \in SetToSeqs(PickerRows)
    /\ ToSet(shown) \subseteq PickerRows /\ Len(shown) <= Len(all)
    /\ filter \in BoundedSeq(Letters, MaxFilter)
    /\ sort \in SortModes
    /\ cursor \in 0..Greater(Len(shown) - 1, 0) /\ offset \in 0..Greater(Len(shown) - 1, 0)
    /\ height \in WindowHeights
    /\ state \in {"open", "quit", "chosen"}

\* Without a filter the list is in the order of the column the header marks,
\* also when that was chosen while a filter was on; with one, it holds every
\* row that matches and no row that scores better stands below another.
ListIsInOrder ==
    IF filter = <<>> THEN shown = SortRows(sort) /\ all = shown
    ELSE IF IsBlank(filter) THEN shown = all
    ELSE /\ ToSet(shown) = DOMAIN Score[filter]
         /\ \A i, j \in DOMAIN shown :
               i < j => Score[filter][shown[i]] >= Score[filter][shown[j]]

\* Whatever moves the highlight, the list or the view leaves the highlighted row
\* on the screen, and a change of column leaves the highlight on its row.
InView == offset <= cursor /\ cursor < offset + listRows
HighlightFollows ==
    [][/\ <<view, shown>>' # <<view, shown>> => InView'
       /\ sort' # sort /\ shown # <<>> => shown'[cursor' + 1] = shown[cursor + 1]]_pickerVars
=============================================================================
