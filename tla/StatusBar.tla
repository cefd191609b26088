------------------------------ MODULE StatusBar ------------------------------
(***************************************************************************)
(* The bar on the bottom row of a user's terminal while a guest has the    *)
(* rest: internal/console/statusbar.go and modefilter.go, and the way a    *)
(* new size travels from the terminal to the bar                           *)
(* (cmd/proxpass/resize_unix.go, the forwarding goroutine of ssh.go).      *)
(*                                                                         *)
(* Four goroutines meet on one terminal: the one that copies the guest's   *)
(* output (write a chunk, observe it, draw), the bar's loop (draw), the    *)
(* one that forwards sizes (resize), and the one that stops the bar. What  *)
(* each does under a lock is one step.                                     *)
(*                                                                         *)
(* The terminal is external: it does what the bar assumes of it, which is  *)
(* written down as code in screenmodel_test.go. A cursor is its row.       *)
(***************************************************************************)
EXTENDS Naturals

CONSTANTS
    Heights,     \* heights the user's terminal can have
    MaxResizes,  \* bound: how often the user changes the height
    Chunks       \* what the guest may send at once: two sequences, or text

ASSUME BarAssumption ==
    /\ Heights \subseteq Nat \ {0}
    /\ MaxResizes \in Nat

VARIABLES
    term,      \* the terminal: see Terminals
    rows,      \* the height the bar believes in
    painted,   \* the bar's last text is its present one: a draw is skipped
    active,    \* the bar has a scroll region installed
    hidden,    \* a full-screen application owns the screen
    modes,     \* what the filter has made of the guest's output
    chunk,     \* guest output that is on the terminal and not yet observed
    writer,    \* the copying goroutine: "copy", "observe" or "draw"
    phase,     \* the session: "running", "stopping" or "stopped"
    signal,    \* SIGWINCH is pending
    queue,     \* the size in the channel of one place; 0 if none
    resizes,   \* how often the height has changed
    silent     \* the guest sends nothing any more

barVars  == <<rows, painted, active, hidden, modes>>
sizeVars == <<signal, queue, resizes>>
vars     == <<term, barVars, chunk, writer, phase, sizeVars, silent>>

minBarRows == 4

Least(a, b) == IF a < b THEN a ELSE b

(***************************************************************************)
(* The terminal                                                            *)
(***************************************************************************)
Rows == Nat \ {0}

\* What a screen buffer has of its own: the cursor, its one slot for a saved
\* cursor (0: empty) and the last row of its scroll region.
Buffers == [cur : Rows, slot : Rows \union {0}, bottom : Rows]

\* shown is the row of the normal screen with the bar's present text, or 0.
Terminals ==
    [height : Heights, buf : Buffers, under : Buffers, alt : BOOLEAN,
     origin : BOOLEAN, shown : Rows \union {0}]

Blank(h) == [cur |-> 1, slot |-> 0, bottom |-> h]

\* The guest's output. Text leaves the cursor on row 2, say; a region of the
\* guest's own takes in the bar's row.
AfterGuest(t, s) ==
    CASE s = "text"      -> [t EXCEPT !.buf.cur = 2]
      [] s = "save"      -> [t EXCEPT !.buf.slot = t.buf.cur]
      [] s = "restore"   -> IF t.buf.slot = 0 THEN t
                            ELSE [t EXCEPT !.buf.cur = Least(t.buf.slot, t.height)]
      [] s = "region"    -> [t EXCEPT !.buf.cur = 1, !.buf.bottom = t.height]
      [] s = "erase"     -> IF t.alt THEN t ELSE [t EXCEPT !.shown = 0]
      [] s = "reset"     -> [t EXCEPT !.buf = Blank(t.height), !.under = Blank(t.height),
                                      !.alt = FALSE, !.origin = FALSE, !.shown = 0]
      [] s = "altOn"     -> IF t.alt THEN t
                            ELSE [t EXCEPT !.alt = TRUE, !.under = t.buf,
                                           !.buf = [Blank(t.height) EXCEPT !.slot = t.buf.slot]]
      [] s = "altOff"    -> IF t.alt THEN [t EXCEPT !.alt = FALSE, !.buf = t.under] ELSE t
      [] s = "originOn"  -> [t EXCEPT !.origin = TRUE, !.buf.cur = 1]
      [] s = "originOff" -> [t EXCEPT !.origin = FALSE, !.buf.cur = 1]
      [] OTHER           -> t

\* The user drags the window: the cursor is clamped onto the screen and the
\* terminal discards the scroll region.
Clamped(b, h) == [b EXCEPT !.cur = Least(b.cur, h), !.bottom = h]

AfterResize(t, h) ==
    [t EXCEPT !.height = h, !.origin = FALSE,
              !.buf = Clamped(t.buf, h), !.under = Clamped(t.under, h),
              !.shown = IF t.shown > h THEN 0 ELSE t.shown]

(***************************************************************************)
(* What the bar writes, each in one write                                  *)
(***************************************************************************)
guestRowsLocked(r) == IF r < minBarRows THEN r ELSE r - 1

\* DECSTBM homes the cursor.
SetRegion(t, b) == [t EXCEPT !.buf.cur = 1, !.buf.bottom = Least(b, t.height)]

\* Mutant: the cursor is borrowed although the guest holds the slot.
AlwaysBracketed(t, b, saved) ==
    [t EXCEPT !.buf.slot = t.buf.cur, !.buf.bottom = Least(b, t.height)]

\* Saved and restored around the change, unless the guest holds the slot.
withCursorKept(t, b, saved) ==
    IF saved THEN SetRegion(t, b)
    ELSE [t EXCEPT !.buf.slot = t.buf.cur, !.buf.bottom = Least(b, t.height)]

releaseRegion(t, saved)      == withCursorKept(t, t.height, saved)
reinstallRegion(t, r, saved) == withCursorKept(t, guestRowsLocked(r), saved)

\* The bar's row, painted between a save and a restore. In origin mode a row
\* is counted within the region; on the alternate screen it is another grid.
Paint(t, r) ==
    LET row == Least(r, IF t.origin THEN t.buf.bottom ELSE t.height)
    IN  [t EXCEPT !.buf.slot = t.buf.cur, !.shown = IF t.alt THEN @ ELSE row]

(***************************************************************************)
(* The filter                                                              *)
(***************************************************************************)
Modes == [alt : BOOLEAN, saved : BOOLEAN, origin : BOOLEAN,
          latched : SUBSET {"reset", "region", "left"}, redraw : BOOLEAN]

\* Mutant: coming back from the alternate screen is not latched.
ForgetsLeaving(m, s) ==
    IF s = "altOff" /\ m.alt THEN [m EXCEPT !.alt = FALSE, !.redraw = TRUE]
    ELSE IF s = "region" THEN [m EXCEPT !.latched = @ \union {"region"}, !.redraw = TRUE]
    ELSE IF s = "altOn" THEN [m EXCEPT !.alt = TRUE, !.redraw = TRUE]
    ELSE m

\* One sequence, in the order of the switch of modeFilter.Observe.
Noticed(m, s) ==
    CASE s = "altOn"  /\ ~m.alt -> [m EXCEPT !.alt = TRUE, !.redraw = TRUE]
      [] s = "altOff" /\ m.alt  -> [m EXCEPT !.alt = FALSE, !.redraw = TRUE,
                                             !.latched = @ \union {"left"}]
      [] s = "region"  -> [m EXCEPT !.latched = @ \union {"region"}, !.redraw = TRUE]
      [] s = "reset"   -> [alt |-> FALSE, saved |-> FALSE, origin |-> FALSE,
                           latched |-> m.latched \union {"reset"}, redraw |-> TRUE]
      [] s = "save"    -> [m EXCEPT !.saved = TRUE]
      [] s = "restore" /\ m.saved -> [m EXCEPT !.saved = FALSE, !.redraw = TRUE]
      [] s = "erase"   -> [m EXCEPT !.redraw = TRUE]
      [] s = "originOn"  /\ ~m.origin -> [m EXCEPT !.origin = TRUE, !.redraw = TRUE]
      [] s = "originOff" /\ m.origin  -> [m EXCEPT !.origin = FALSE, !.redraw = TRUE]
      [] OTHER -> m

\* TakeReset() || TakeRegionLost() || TakeLeftAltScreen(): the first that is
\* set is taken, and the rest stay latched.
Untaken(latched) ==
    IF "reset" \in latched THEN latched \ {"reset"}
    ELSE IF "region" \in latched THEN latched \ {"region"}
    ELSE {}

(***************************************************************************)
(* Start                                                                   *)
(***************************************************************************)
\* NewStatusBar and Start: a terminal too small is left untouched. Otherwise
\* the screen is cleared, the region installed and the cursor homed.
Init ==
    \E h \in Heights :
        /\ term = [height |-> h, buf |-> [Blank(h) EXCEPT !.bottom = guestRowsLocked(h)],
                   under |-> Blank(h), alt |-> FALSE, origin |-> FALSE, shown |-> 0]
        /\ rows = h
        /\ active = (h >= minBarRows)
        /\ painted = FALSE
        /\ hidden = FALSE
        /\ modes = [alt |-> FALSE, saved |-> FALSE, origin |-> FALSE,
                    latched |-> {}, redraw |-> FALSE]
        /\ chunk = <<>>
        /\ writer = "copy"
        /\ phase = "running"
        /\ signal = FALSE
        /\ queue = 0
        /\ resizes = 0
        /\ silent = FALSE

(***************************************************************************)
(* The guest's output                                                      *)
(***************************************************************************)
\* barWriter.Write, first half: a chunk goes to the terminal as it is.
GuestWrites(c) ==
    /\ phase = "running"
    /\ writer = "copy"
    /\ ~silent
    /\ term' = AfterGuest(AfterGuest(term, c[1]), c[2])
    /\ chunk' = c
    /\ writer' = "observe"
    /\ UNCHANGED <<barVars, phase, sizeVars, silent>>

GuestFallsSilent ==
    /\ ~silent
    /\ silent' = TRUE
    /\ UNCHANGED <<term, barVars, chunk, writer, phase, sizeVars>>

\* Second half: the filter reads the chunk, and the bar gives the region up
\* or takes it back as it must.
Observe ==
    LET m    == Noticed(Noticed(modes, chunk[1]), chunk[2])
        gone == m.latched # {}
    IN  /\ writer = "observe"
        /\ chunk' = <<>>
        /\ IF ~m.redraw
           THEN /\ modes' = m
                /\ writer' = "copy"
                /\ UNCHANGED <<term, painted, hidden>>
           ELSE /\ modes' = [m EXCEPT !.latched = Untaken(m.latched), !.redraw = FALSE]
                /\ painted' = FALSE
                /\ hidden' = m.alt
                /\ writer' = "draw"
                /\ term' = IF active /\ m.alt THEN releaseRegion(term, m.saved)
                           ELSE IF active /\ gone THEN reinstallRegion(term, rows, m.saved)
                           ELSE term
        /\ UNCHANGED <<rows, active, phase, sizeVars, silent>>

(***************************************************************************)
(* Drawing                                                                 *)
(***************************************************************************)
MayDraw ==
    /\ active /\ ~hidden /\ rows >= minBarRows
    /\ ~modes.origin /\ ~modes.saved
    /\ ~painted

draw ==
    IF MayDraw THEN /\ term' = Paint(term, rows)
                    /\ painted' = TRUE
    ELSE UNCHANGED <<term, painted>>

\* Observe draws at once ...
WriterDraws ==
    /\ writer = "draw"
    /\ writer' = "copy"
    /\ draw
    /\ UNCHANGED <<rows, active, hidden, modes, chunk, phase, sizeVars, silent>>

\* ... and the loop on its next tick, asked for or idle. A draw that would do
\* nothing is not a step.
LoopDraws ==
    /\ MayDraw
    /\ draw
    /\ UNCHANGED <<rows, active, hidden, modes, chunk, writer, phase, sizeVars, silent>>

\* Mutant: a cursor once saved is waited for.
HoldsForever == FALSE /\ UNCHANGED vars

\* CursorSaved: a cursor held for longer than maxCursorHold is given up.
HoldExpires ==
    /\ modes.saved
    /\ modes' = [modes EXCEPT !.saved = FALSE]
    /\ UNCHANGED <<term, rows, painted, active, hidden, chunk, writer, phase, sizeVars, silent>>

(***************************************************************************)
(* Resizing                                                                *)
(***************************************************************************)
UserResizes(h) ==
    /\ resizes < MaxResizes
    /\ h # term.height
    /\ term' = AfterResize(term, h)
    /\ signal' = TRUE
    /\ resizes' = resizes + 1
    /\ UNCHANGED <<barVars, chunk, writer, phase, queue, silent>>

\* watchResizes: the size is read now and sent if the channel has room;
\* otherwise it is dropped.
WatcherSends ==
    /\ signal
    /\ signal' = FALSE
    /\ queue' = IF queue = 0 THEN term.height ELSE queue
    /\ UNCHANGED <<term, barVars, chunk, writer, phase, resizes, silent>>

\* Mutant: a bar that has been stopped, or never was, gets its region back.
ResizesAnyway(t) ==
    IF queue < minBarRows THEN releaseRegion(t, modes.saved)
    ELSE IF hidden THEN t
    ELSE reinstallRegion(t, queue, modes.saved)

\* What StatusBar.Resize writes for the size it is given.
Resized(t) ==
    IF ~active THEN t
    ELSE IF queue < minBarRows THEN releaseRegion(t, modes.saved)
    ELSE IF hidden THEN t
    ELSE reinstallRegion(t, queue, modes.saved)

\* The forwarding goroutine takes a size and resizes the bar. Where nobody
\* waits for it (termproxy.go), it may do so after the bar was stopped.
Resize ==
    /\ queue # 0
    /\ queue' = 0
    /\ rows' = queue
    /\ painted' = FALSE
    /\ term' = Resized(term)
    /\ UNCHANGED <<active, hidden, modes, chunk, writer, phase, signal, resizes, silent>>

(***************************************************************************)
(* Stop                                                                    *)
(***************************************************************************)
\* The output has been copied to the end. A bar that never started is done.
StopBegins ==
    /\ phase = "running"
    /\ writer = "copy"
    /\ active' = FALSE
    /\ phase' = IF active THEN "stopping" ELSE "stopped"
    /\ UNCHANGED <<term, rows, painted, hidden, modes, chunk, writer, sizeVars, silent>>

\* The loop has ended: the region is reset and the bar's row erased.
StopEnds ==
    /\ phase = "stopping"
    /\ phase' = "stopped"
    /\ LET row == Least(rows, term.height)
       IN  term' = [term EXCEPT !.buf.bottom = term.height, !.buf.cur = row,
                                !.shown = IF ~term.alt /\ @ = row THEN 0 ELSE @]
    /\ UNCHANGED <<barVars, chunk, writer, sizeVars, silent>>

Next ==
    \/ \E c \in Chunks : GuestWrites(c)
    \/ GuestFallsSilent
    \/ Observe
    \/ WriterDraws
    \/ LoopDraws
    \/ HoldExpires
    \/ \E h \in Heights : UserResizes(h)
    \/ WatcherSends
    \/ Resize
    \/ StopBegins
    \/ StopEnds

\* The copying goroutine goes on, the loop ticks, a hold runs out, a signal is
\* handled and a queued size is taken. Nobody has to resize, send or stop.
Fairness ==
    /\ WF_vars(Observe)
    /\ WF_vars(WriterDraws)
    /\ WF_vars(LoopDraws)
    /\ WF_vars(HoldExpires)
    /\ WF_vars(WatcherSends)
    /\ WF_vars(Resize)
    /\ WF_vars(StopEnds)

Spec == Init /\ [][Next]_vars /\ Fairness

(***************************************************************************)
(* Properties                                                              *)
(***************************************************************************)
BarTypeOK ==
    /\ term \in Terminals
    /\ rows \in Heights
    /\ painted \in BOOLEAN /\ active \in BOOLEAN /\ hidden \in BOOLEAN
    /\ modes \in Modes
    /\ chunk \in {<<>>} \union Chunks
    /\ writer \in {"copy", "observe", "draw"}
    /\ phase \in {"running", "stopping", "stopped"}
    /\ signal \in BOOLEAN
    /\ queue \in Heights \union {0}
    /\ resizes \in 0..MaxResizes
    /\ silent \in BOOLEAN

\* A step of the bar, as opposed to the guest's, the user's or the end's.
BarActs == Observe \/ WriterDraws \/ LoopDraws \/ Resize

\* What the bar writes leaves the guest's cursor where it was, whatever it
\* does to the region; and while the guest relies on the one slot for a saved
\* cursor, and the bar has seen that, the bar leaves the slot alone.
GuestCursorIsSafe ==
    [][BarActs => IF modes'.saved THEN term'.buf.slot = term.buf.slot
                  ELSE term'.buf.cur = term.buf.cur]_vars

\* Everybody agrees on the height.
SizeAgreed == rows = term.height /\ ~signal /\ queue = 0

\* Whatever the guest has done to the scroll region, once its output has been
\* observed the bar's row is out of it again, unless a full-screen application
\* owns the screen.
RowIsReserved ==
    (active /\ SizeAgreed /\ term.height >= minBarRows /\ writer # "observe" /\ ~term.alt)
    => term.buf.bottom = term.height - 1

\* A guest that has fallen silent, on the normal screen and with the origin mode
\* it may have set reset again, leaves the bar on its row for good: no erase,
\* reset, region or forgotten saved cursor keeps it away, nor a resize. A resize
\* resets the origin mode of the terminal only: the filter goes on believing in
\* it, and the bar stays away.
BarReturns ==
    <>[](silent /\ active /\ rows = term.height /\ rows >= minBarRows
         /\ ~term.alt /\ ~modes.origin => term.shown = term.height)

\* A session that has ended leaves the whole screen to the user's shell, also
\* when a size is forwarded late.
StopReleasesScreen == phase = "stopped" => term.buf.bottom = term.height

\* The last size the user chose reaches a bar that stays (resize_unix.go:40, "the newest
\* size will be picked up by the next read").
LatestSizeArrives == <>[](phase = "running" => rows = term.height)
=============================================================================
