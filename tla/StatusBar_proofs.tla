-------------------------- MODULE StatusBar_proofs --------------------------
(***************************************************************************)
(* Proofs about StatusBar, for terminals of any heights, any number of     *)
(* resizes and whatever the guest sends.                                   *)
(*                                                                         *)
(* Three things follow the guest one sequence at a time: whether the       *)
(* filter knows which screen is shown, whether the bar's row is out of the *)
(* guest's region or the filter has latched that it may not be, and, where *)
(* there is no bar, that the region is the whole screen. A chunk that is on *)
(* the terminal and not yet observed is the hard case: a resize may come    *)
(* in between, so the invariant speaks of what the filter will have seen.   *)
(***************************************************************************)
EXTENDS StatusBar, TLAPS

\* What the filter has made of the chunk under way, or will make of it at least:
\* a cursor saved before may have been given up by then.
Forgot(m) == [m EXCEPT !.saved = FALSE]
Seen ==
    IF writer = "observe" THEN Noticed(Noticed(Forgot(modes), chunk[1]), chunk[2]) ELSE modes

\* The filter knows which screen is shown.
FilterTracks == hidden = modes.alt /\ Seen.alt = term.alt

\* The bar's row is out of the region of the normal screen.
RowIsOut(t) == t.alt \/ t.buf.bottom = t.height - 1

\* ... or the next observation puts it out.
Latched(m) == m.latched # {} /\ m.redraw

RowKept ==
    (active /\ SizeAgreed /\ term.height >= minBarRows)
    => RowIsOut(term) \/ (writer = "observe" /\ Latched(Seen))

\* Both screens are whole.
WholeScreens(t) == t.buf.bottom = t.height /\ t.under.bottom = t.height

NoBarNoRegion ==
    /\ active => phase = "running"
    /\ ~active /\ phase = "running" => WholeScreens(term)
    /\ phase = "stopped" => term.buf.bottom = term.height

IInv == BarTypeOK /\ FilterTracks /\ RowKept /\ NoBarNoRegion

-----------------------------------------------------------------------------
(* One sequence.                                                             *)

LEMMA LeastIsRow ==
  ASSUME NEW a \in Rows, NEW b \in Rows
  PROVE  Least(a, b) \in Rows /\ (b <= a => Least(a, b) = b) /\ (a <= b => Least(a, b) = a)
BY DEF Least, Rows

LEMMA HeightsAreRows == Heights \subseteq Rows
BY BarAssumption DEF Rows

LEMMA SomeRows == 1 \in Rows /\ 2 \in Rows
BY DEF Rows

LEMMA GuestKeepsTerminals ==
  ASSUME NEW t \in Terminals, NEW s
  PROVE  AfterGuest(t, s) \in Terminals /\ AfterGuest(t, s).height = t.height
<1>1. /\ t.height \in Rows /\ t.buf \in Buffers /\ t.under \in Buffers
      /\ 1 \in Rows /\ 2 \in Rows
  BY HeightsAreRows, SomeRows DEF Terminals
<1>2. Blank(t.height) \in Buffers /\ [Blank(t.height) EXCEPT !.slot = t.buf.slot] \in Buffers
  BY <1>1 DEF Blank, Buffers
<1>3. CASE s = "restore"
  <2>1. t.buf.slot # 0 => Least(t.buf.slot, t.height) \in Rows
    BY <1>1, LeastIsRow DEF Buffers
  <2> QED
    BY <1>1, <1>3, <2>1 DEF AfterGuest, Terminals, Buffers
<1>4. CASE s \in {"text", "save", "region", "originOn", "originOff"}
  BY <1>1, <1>4 DEF AfterGuest, Terminals, Buffers
<1>5. CASE s \notin {"text", "save", "region", "originOn", "originOff", "restore"}
  BY <1>1, <1>2, <1>5 DEF AfterGuest, Terminals
<1> QED
  BY <1>3, <1>4, <1>5

\* The guest has nothing but the whole screen to set a region to.
LEMMA GuestKeepsWhole ==
  ASSUME NEW t \in Terminals, NEW s, WholeScreens(t)
  PROVE  WholeScreens(AfterGuest(t, s))
BY DEF WholeScreens, AfterGuest, Terminals, Buffers, Blank

LEMMA NoticedKeepsModes ==
  ASSUME NEW m \in Modes, NEW s
  PROVE  Noticed(m, s) \in Modes
BY DEF Noticed, Modes

\* The filter and the terminal agree on which screen a sequence shows.
LEMMA NoticedTracks ==
  ASSUME NEW t \in Terminals, NEW m \in Modes, NEW s, m.alt = t.alt
  PROVE  Noticed(m, s).alt = AfterGuest(t, s).alt
BY DEF Noticed, AfterGuest, Terminals, Modes

\* What asks for a draw goes on asking, and what is latched stays.
LEMMA NoticedRemembers ==
  ASSUME NEW m \in Modes, NEW s
  PROVE  /\ m.redraw => Noticed(m, s).redraw
         /\ m.latched \subseteq Noticed(m, s).latched
         /\ Noticed(m, s).alt # m.alt => Noticed(m, s).redraw
         /\ m.alt /\ ~Noticed(m, s).alt => Latched(Noticed(m, s))
BY DEF Noticed, Modes, Latched

\* A sequence that takes the bar's row into the region is latched.
LEMMA NoticedLatches ==
  ASSUME NEW t \in Terminals, NEW m \in Modes, NEW s, m.alt = t.alt, RowIsOut(t)
  PROVE  RowIsOut(AfterGuest(t, s)) \/ Latched(Noticed(m, s))
BY DEF Noticed, AfterGuest, Terminals, Modes, Latched, RowIsOut, Buffers, Blank

\* n is m but for a saved cursor that n does not know of.
Under(n, m) ==
    /\ n.alt = m.alt /\ n.latched = m.latched /\ n.origin = m.origin
    /\ n.redraw => m.redraw
    /\ n.saved => m.saved

LEMMA ForgotIsUnder ==
  ASSUME NEW m \in Modes
  PROVE  Forgot(m) \in Modes /\ Under(Forgot(m), m)
BY DEF Forgot, Under, Modes

LEMMA NoticedUnder ==
  ASSUME NEW n \in Modes, NEW m \in Modes, NEW s, Under(n, m)
  PROVE  Under(Noticed(n, s), Noticed(m, s))
BY DEF Under, Noticed, Modes

-----------------------------------------------------------------------------
(* What the bar writes.                                                      *)

LEMMA GuestRows ==
  ASSUME NEW r \in Rows
  PROVE  guestRowsLocked(r) \in Rows /\ (r >= minBarRows => guestRowsLocked(r) = r - 1)
BY DEF guestRowsLocked, Rows, minBarRows

\* Whether the cursor is bracketed or homed, the region is the one asked for, and
\* what the guest relies on is left alone: the slot, or else the cursor.
LEMMA WithCursorKept ==
  ASSUME NEW t \in Terminals, NEW b \in Rows, NEW saved \in BOOLEAN
  PROVE  LET u == withCursorKept(t, b, saved)
         IN  /\ u \in Terminals
             /\ u.height = t.height /\ u.alt = t.alt /\ u.under = t.under
             /\ u.buf.bottom = Least(b, t.height)
             /\ IF saved THEN u.buf.slot = t.buf.slot ELSE u.buf.cur = t.buf.cur
<1>1. t.height \in Rows /\ Least(b, t.height) \in Rows /\ 1 \in Rows
  BY HeightsAreRows, LeastIsRow, SomeRows DEF Terminals
<1> QED
  BY <1>1 DEF withCursorKept, SetRegion, Terminals, Buffers

LEMMA Released ==
  ASSUME NEW t \in Terminals, NEW saved \in BOOLEAN
  PROVE  LET u == releaseRegion(t, saved)
         IN  /\ u \in Terminals
             /\ u.height = t.height /\ u.alt = t.alt
             /\ IF saved THEN u.buf.slot = t.buf.slot ELSE u.buf.cur = t.buf.cur
<1>1. t.height \in Rows
  BY HeightsAreRows DEF Terminals
<1> QED
  BY <1>1, WithCursorKept DEF releaseRegion

LEMMA Reinstalled ==
  ASSUME NEW t \in Terminals, NEW r \in Heights, NEW saved \in BOOLEAN
  PROVE  LET u == reinstallRegion(t, r, saved)
         IN  /\ u \in Terminals
             /\ u.height = t.height /\ u.alt = t.alt
             /\ r >= minBarRows /\ r = t.height => u.buf.bottom = t.height - 1
             /\ IF saved THEN u.buf.slot = t.buf.slot ELSE u.buf.cur = t.buf.cur
<1>1. r \in Rows /\ t.height \in Rows
  BY HeightsAreRows DEF Terminals
<1>2. guestRowsLocked(r) \in Rows /\ (r >= minBarRows => guestRowsLocked(r) = r - 1)
  BY <1>1, GuestRows
<1>3. r >= minBarRows /\ r = t.height => Least(guestRowsLocked(r), t.height) = t.height - 1
  BY <1>1, <1>2 DEF Least, Rows
<1> QED
  BY <1>2, <1>3, WithCursorKept DEF reinstallRegion

LEMMA Painted ==
  ASSUME NEW t \in Terminals, NEW r \in Heights
  PROVE  LET u == Paint(t, r)
         IN  /\ u \in Terminals
             /\ u.height = t.height /\ u.alt = t.alt /\ u.under = t.under
             /\ u.buf.bottom = t.buf.bottom /\ u.buf.cur = t.buf.cur
<1> DEFINE row == Least(r, IF t.origin THEN t.buf.bottom ELSE t.height)
<1>1. row \in Rows
  BY HeightsAreRows, LeastIsRow DEF Terminals, Buffers
<1> HIDE DEF row
<1>2. Paint(t, r) = [t EXCEPT !.buf.slot = t.buf.cur, !.shown = IF t.alt THEN @ ELSE row]
  BY DEF Paint, row
<1> QED
  BY <1>1, <1>2 DEF Terminals, Buffers

-----------------------------------------------------------------------------
(* The steps.                                                                *)

LEMMA InitHolds == Init => IInv
<1> SUFFICES ASSUME Init PROVE IInv
  OBVIOUS
<1>1. PICK h \in Heights :
        /\ term = [height |-> h, buf |-> [Blank(h) EXCEPT !.bottom = guestRowsLocked(h)],
                   under |-> Blank(h), alt |-> FALSE, origin |-> FALSE, shown |-> 0]
        /\ rows = h
        /\ active = (h >= minBarRows)
  BY DEF Init
<1>2. /\ painted = FALSE /\ hidden = FALSE
      /\ modes = [alt |-> FALSE, saved |-> FALSE, origin |-> FALSE,
                  latched |-> {}, redraw |-> FALSE]
      /\ chunk = <<>> /\ writer = "copy" /\ phase = "running"
      /\ signal = FALSE /\ queue = 0 /\ resizes = 0 /\ silent = FALSE
  BY DEF Init
<1>3. h \in Rows /\ guestRowsLocked(h) \in Rows
      /\ (h >= minBarRows => guestRowsLocked(h) = h - 1)
      /\ (~(h >= minBarRows) => guestRowsLocked(h) = h)
  BY HeightsAreRows, GuestRows, SomeRows DEF guestRowsLocked, Rows, minBarRows
<1>4. term \in Terminals
  BY <1>1, <1>3, SomeRows DEF Terminals, Buffers, Blank
<1>5. BarTypeOK
  <2>1. modes \in Modes
    BY <1>2 DEF Modes
  <2>2. resizes \in 0..MaxResizes
    BY <1>2, BarAssumption
  <2>3. rows \in Heights /\ active \in BOOLEAN
    BY <1>1
  <2>4. /\ painted \in BOOLEAN /\ hidden \in BOOLEAN /\ signal \in BOOLEAN /\ silent \in BOOLEAN
        /\ chunk \in {<<>>} \union Chunks /\ queue \in Heights \union {0}
        /\ writer \in {"copy", "observe", "draw"}
        /\ phase \in {"running", "stopping", "stopped"}
    BY <1>2
  <2> QED
    BY <1>4, <2>1, <2>2, <2>3, <2>4 DEF BarTypeOK
<1>6. FilterTracks
  BY <1>1, <1>2 DEF FilterTracks, Seen
<1>7. RowKept
  BY <1>1, <1>3 DEF RowKept, RowIsOut, Blank
<1>8. NoBarNoRegion
  BY <1>1, <1>2, <1>3 DEF NoBarNoRegion, WholeScreens, Blank
<1> QED
  BY <1>5, <1>6, <1>7, <1>8 DEF IInv

\* A chunk is two sequences.
LEMMA GuestWritesKeeps ==
  ASSUME IInv, NEW c \in Chunks, GuestWrites(c)
  PROVE  IInv'
<1> DEFINE t1 == AfterGuest(term, c[1])
           t2 == AfterGuest(t1, c[2])
           m0 == Forgot(modes)
           m1 == Noticed(m0, c[1])
           m2 == Noticed(m1, c[2])
<1>1. /\ phase = "running" /\ writer = "copy" /\ term' = t2 /\ chunk' = c
      /\ writer' = "observe"
      /\ UNCHANGED <<rows, painted, active, hidden, modes, phase, signal, queue, resizes, silent>>
  BY DEF GuestWrites, barVars, sizeVars
<1>2. /\ t1 \in Terminals /\ t2 \in Terminals
      /\ t1.height = term.height /\ t2.height = term.height
  BY GuestKeepsTerminals DEF IInv, BarTypeOK
<1>3. m0 \in Modes /\ m1 \in Modes /\ m2 \in Modes
  BY ForgotIsUnder, NoticedKeepsModes DEF IInv, BarTypeOK
<1>4. m0.alt = term.alt
  BY <1>1, ForgotIsUnder DEF IInv, BarTypeOK, FilterTracks, Seen, Under
<1>5. m1.alt = t1.alt /\ m2.alt = t2.alt
  BY <1>2, <1>3, <1>4, NoticedTracks DEF IInv, BarTypeOK
<1>6. Seen' = m2
  BY <1>1 DEF Seen
<1> HIDE DEF t1, t2, m0, m1, m2
<1>7. BarTypeOK'
  BY <1>1, <1>2 DEF IInv, BarTypeOK
<1>8. FilterTracks'
  BY <1>1, <1>5, <1>6 DEF IInv, FilterTracks
<1>9. RowKept'
  <2> SUFFICES ASSUME active, SizeAgreed, term.height >= minBarRows
               PROVE  RowIsOut(t2) \/ Latched(m2)
    BY <1>1, <1>2, <1>6 DEF RowKept, SizeAgreed
  <2>1. RowIsOut(term)
    BY <1>1 DEF IInv, RowKept
  <2>2. RowIsOut(t1) \/ Latched(m1)
    BY <1>3, <1>4, <2>1, NoticedLatches DEF IInv, BarTypeOK, t1, m1
  <2>3. CASE RowIsOut(t1)
    BY <1>2, <1>3, <1>5, <2>3, NoticedLatches DEF t2, m2
  <2>4. CASE Latched(m1)
    BY <1>3, <2>4, NoticedRemembers DEF m2, Latched
  <2> QED
    BY <2>2, <2>3, <2>4
<1>10. NoBarNoRegion'
  <2>1. WholeScreens(term) => WholeScreens(t2)
    BY <1>2, GuestKeepsWhole DEF IInv, BarTypeOK, t1, t2
  <2> QED
    BY <1>1, <2>1 DEF IInv, NoBarNoRegion
<1> QED
  BY <1>7, <1>8, <1>9, <1>10 DEF IInv

\* The filter reads the chunk: whatever is latched has the region back.
LEMMA ObserveKeeps ==
  ASSUME IInv, Observe
  PROVE  IInv'
<1> DEFINE m1 == Noticed(modes, chunk[1])
           m  == Noticed(m1, chunk[2])
<1>1. /\ writer = "observe" /\ chunk' = <<>> /\ writer' \in {"copy", "draw"}
      /\ UNCHANGED <<rows, active, phase, signal, queue, resizes, silent>>
  BY DEF Observe, sizeVars
<1>2. Under(Seen, m)
  <2> DEFINE n1 == Noticed(Forgot(modes), chunk[1])
  <2>1. modes \in Modes /\ Forgot(modes) \in Modes /\ Under(Forgot(modes), modes)
    BY ForgotIsUnder DEF IInv, BarTypeOK
  <2>2. n1 \in Modes /\ m1 \in Modes /\ Under(n1, m1)
    BY <2>1, NoticedKeepsModes, NoticedUnder
  <2>3. Seen = Noticed(n1, chunk[2])
    BY <1>1 DEF Seen
  <2> HIDE DEF n1, m1
  <2> QED
    BY <2>2, <2>3, NoticedUnder
<1>3. m1 \in Modes /\ m \in Modes
  BY NoticedKeepsModes DEF IInv, BarTypeOK
<1>4. m.alt = term.alt
  BY <1>2 DEF IInv, FilterTracks, Under
<1>5. CASE ~m.redraw
  <2>1. modes' = m /\ UNCHANGED <<term, painted, hidden>>
    BY <1>5 DEF Observe
  <2>2. Seen' = m
    BY <1>1, <2>1 DEF Seen
  <2>3. m.alt = modes.alt
    BY <1>3, <1>5, NoticedRemembers DEF IInv, BarTypeOK
  <2> HIDE DEF m
  <2>4. BarTypeOK'
    BY <1>1, <1>3, <2>1 DEF IInv, BarTypeOK
  <2>5. FilterTracks'
    BY <1>4, <2>1, <2>2, <2>3 DEF IInv, FilterTracks
  <2>6. RowKept'
    BY <1>1, <1>2, <1>5, <2>1 DEF IInv, RowKept, SizeAgreed, Latched, Under
  <2>7. NoBarNoRegion'
    BY <1>1, <2>1 DEF IInv, NoBarNoRegion
  <2> QED
    BY <2>4, <2>5, <2>6, <2>7 DEF IInv
<1>6. CASE m.redraw
  <2>1. /\ modes' = [m EXCEPT !.latched = Untaken(m.latched), !.redraw = FALSE]
        /\ painted' = FALSE /\ hidden' = m.alt
        /\ term' = IF active /\ m.alt THEN releaseRegion(term, m.saved)
                   ELSE IF active /\ m.latched # {} THEN reinstallRegion(term, rows, m.saved)
                   ELSE term
    BY <1>6 DEF Observe
  <2> HIDE DEF m
  <2>2. m.saved \in BOOLEAN /\ term \in Terminals /\ rows \in Heights
    BY <1>3 DEF IInv, BarTypeOK, Modes
  <2>3. term' \in Terminals /\ term'.height = term.height /\ term'.alt = term.alt
    BY <2>1, <2>2, Released, Reinstalled
  <2>4. modes' \in Modes /\ modes'.alt = m.alt /\ Seen' = modes'
    BY <1>1, <1>3, <2>1 DEF Modes, Untaken, Seen
  <2>5. BarTypeOK'
    BY <1>1, <1>3, <2>1, <2>3, <2>4 DEF IInv, BarTypeOK, Modes
  <2>6. FilterTracks'
    BY <1>4, <2>1, <2>3, <2>4 DEF FilterTracks
  <2>7. RowKept'
    <3> SUFFICES ASSUME active, SizeAgreed, term.height >= minBarRows, ~m.alt
                 PROVE  term'.buf.bottom = term'.height - 1
      BY <1>1, <1>4, <2>3 DEF RowKept, SizeAgreed, RowIsOut
    <3>1. CASE m.latched # {}
      BY <2>1, <2>2, <2>3, <3>1, Reinstalled DEF SizeAgreed
    <3>2. CASE m.latched = {}
      BY <1>2, <1>4, <2>1, <3>2 DEF IInv, RowKept, RowIsOut, Latched, Under
    <3> QED
      BY <3>1, <3>2
  <2>8. NoBarNoRegion'
    BY <1>1, <2>1 DEF IInv, NoBarNoRegion, WholeScreens
  <2> QED
    BY <2>5, <2>6, <2>7, <2>8 DEF IInv
<1> QED
  BY <1>5, <1>6

\* A draw moves neither the cursor nor the region.
LEMMA DrawKeeps ==
  ASSUME IInv, draw, writer' \in {writer, "copy"}, writer' = "observe" <=> writer = "observe",
         UNCHANGED <<rows, active, hidden, modes, chunk, phase, sizeVars, silent>>
  PROVE  IInv'
<1>1. CASE MayDraw
  <2>1. term' = Paint(term, rows) /\ painted' = TRUE /\ active
    BY <1>1 DEF draw, MayDraw
  <2>2. /\ term' \in Terminals
        /\ term'.height = term.height /\ term'.alt = term.alt
        /\ term'.buf.bottom = term.buf.bottom
    BY <2>1, Painted DEF IInv, BarTypeOK
  <2>3. Seen' = Seen
    BY DEF Seen
  <2>4. BarTypeOK'
    BY <2>1, <2>2 DEF IInv, BarTypeOK, sizeVars
  <2>5. FilterTracks'
    BY <2>2, <2>3 DEF IInv, FilterTracks
  <2>6. RowKept'
    BY <2>2, <2>3 DEF IInv, RowKept, SizeAgreed, RowIsOut, Latched, sizeVars
  <2>7. NoBarNoRegion'
    BY <2>1, <2>2 DEF IInv, NoBarNoRegion
  <2> QED
    BY <2>4, <2>5, <2>6, <2>7 DEF IInv
<1>2. CASE ~MayDraw
  <2>1. UNCHANGED <<term, painted>>
    BY <1>2 DEF draw
  <2> QED
    BY <2>1 DEF IInv, BarTypeOK, FilterTracks, RowKept, NoBarNoRegion, Seen, SizeAgreed, sizeVars
<1> QED
  BY <1>1, <1>2

\* A saved cursor that is given up has been left out of account already.
LEMMA HoldExpiresKeeps ==
  ASSUME IInv, HoldExpires
  PROVE  IInv'
<1>1. /\ modes' = Forgot(modes)
      /\ UNCHANGED <<term, rows, painted, active, hidden, chunk, writer, phase,
                     signal, queue, resizes, silent>>
  BY DEF HoldExpires, Forgot, sizeVars
<1>2. modes' \in Modes /\ Under(modes', modes) /\ Forgot(modes') = Forgot(modes)
  BY <1>1, ForgotIsUnder DEF IInv, BarTypeOK, Forgot, Modes
<1>3. Seen'.alt = Seen.alt /\ (writer = "observe" => Seen' = Seen)
  BY <1>1, <1>2 DEF Seen, Under
<1>4. BarTypeOK'
  BY <1>1, <1>2 DEF IInv, BarTypeOK
<1>5. FilterTracks'
  BY <1>1, <1>2, <1>3 DEF IInv, FilterTracks, Under
<1>6. RowKept'
  BY <1>1, <1>3 DEF IInv, RowKept, SizeAgreed
<1>7. NoBarNoRegion'
  BY <1>1 DEF IInv, NoBarNoRegion
<1> QED
  BY <1>4, <1>5, <1>6, <1>7 DEF IInv

\* The user's resize leaves the height to be agreed on; both screens are whole.
LEMMA UserResizesKeeps ==
  ASSUME IInv, NEW h \in Heights, UserResizes(h)
  PROVE  IInv'
<1>1. /\ term' = AfterResize(term, h) /\ signal' = TRUE /\ resizes' = resizes + 1
      /\ resizes < MaxResizes
      /\ UNCHANGED <<rows, painted, active, hidden, modes, chunk, writer, phase, queue, silent>>
  BY DEF UserResizes, barVars
<1>2. /\ term' \in Terminals /\ term'.alt = term.alt /\ WholeScreens(term')
  <2>1. h \in Rows /\ term \in Terminals /\ term.buf \in Buffers /\ term.under \in Buffers
    BY HeightsAreRows DEF IInv, BarTypeOK, Terminals
  <2>2. /\ Clamped(term.buf, h) \in Buffers /\ Clamped(term.buf, h).bottom = h
        /\ Clamped(term.under, h) \in Buffers /\ Clamped(term.under, h).bottom = h
    BY <2>1, LeastIsRow DEF Clamped, Buffers
  <2> QED
    BY <1>1, <2>1, <2>2 DEF AfterResize, Terminals, WholeScreens
<1>3. term'.buf.bottom = term'.height
  BY <1>2 DEF WholeScreens
<1>4. BarTypeOK'
  BY <1>1, <1>2, BarAssumption DEF IInv, BarTypeOK
<1>5. FilterTracks'
  BY <1>1, <1>2 DEF IInv, FilterTracks, Seen
<1>6. RowKept'
  BY <1>1 DEF RowKept, SizeAgreed
<1>7. NoBarNoRegion'
  BY <1>1, <1>2, <1>3 DEF IInv, NoBarNoRegion
<1> QED
  BY <1>4, <1>5, <1>6, <1>7 DEF IInv

LEMMA WatcherSendsKeeps ==
  ASSUME IInv, WatcherSends
  PROVE  IInv'
<1>1. /\ signal' = FALSE /\ queue' = IF queue = 0 THEN term.height ELSE queue
      /\ UNCHANGED <<term, rows, painted, active, hidden, modes, chunk, writer, phase,
                     resizes, silent>>
  BY DEF WatcherSends, barVars
<1>2. queue' \in Heights /\ queue' # 0
  BY <1>1, HeightsAreRows DEF IInv, BarTypeOK, Terminals, Rows
<1>3. BarTypeOK'
  BY <1>1, <1>2 DEF IInv, BarTypeOK
<1>4. FilterTracks' /\ NoBarNoRegion'
  BY <1>1 DEF IInv, FilterTracks, Seen, NoBarNoRegion
<1>5. RowKept'
  BY <1>1, <1>2 DEF RowKept, SizeAgreed
<1> QED
  BY <1>3, <1>4, <1>5 DEF IInv

\* A bar that is told of a full-screen application does not take its region; it
\* will when the way back, which is latched, is observed.
LEMMA ResizeKeeps ==
  ASSUME IInv, Resize
  PROVE  IInv'
<1>1. /\ queue # 0 /\ queue' = 0 /\ rows' = queue /\ painted' = FALSE
      /\ term' = Resized(term)
      /\ UNCHANGED <<active, hidden, modes, chunk, writer, phase, signal, resizes, silent>>
  BY DEF Resize
<1>2. /\ queue \in Heights /\ term \in Terminals /\ modes \in Modes
      /\ modes.saved \in BOOLEAN
  BY <1>1 DEF IInv, BarTypeOK, Modes
<1>3. term' \in Terminals /\ term'.height = term.height /\ term'.alt = term.alt
  BY <1>1, <1>2, Released, Reinstalled DEF Resized
<1>4. Seen' = Seen
  BY <1>1 DEF Seen
<1>5. BarTypeOK'
  BY <1>1, <1>2, <1>3 DEF IInv, BarTypeOK
<1>6. FilterTracks'
  BY <1>1, <1>3, <1>4 DEF IInv, FilterTracks
<1>7. RowKept'
  <2> SUFFICES ASSUME active, queue = term.height, queue >= minBarRows
               PROVE  RowIsOut(term') \/ (writer = "observe" /\ Latched(Seen))
    BY <1>1, <1>3, <1>4 DEF RowKept, SizeAgreed
  <2>1. CASE ~hidden
    <3>1. ~(queue < minBarRows)
      BY <1>2, HeightsAreRows DEF Rows, minBarRows
    <3>2. term' = reinstallRegion(term, queue, modes.saved)
      BY <1>1, <2>1, <3>1 DEF Resized
    <3> QED
      BY <1>2, <1>3, <3>2, Reinstalled DEF RowIsOut
  <2>2. CASE hidden /\ ~term.alt
    <3>1. modes.alt /\ ~Seen.alt /\ writer = "observe"
      BY <2>2 DEF IInv, FilterTracks, Seen
    <3> DEFINE n0 == Forgot(modes)
               n1 == Noticed(n0, chunk[1])
               n2 == Noticed(n1, chunk[2])
    <3>2. /\ n0 \in Modes /\ n1 \in Modes /\ n0.alt = modes.alt
          /\ Seen = n2
      BY <1>2, <3>1, ForgotIsUnder, NoticedKeepsModes DEF Under, Seen
    <3> HIDE DEF n0
    <3>3. n1.alt \/ Latched(n1)
      BY <3>1, <3>2, NoticedRemembers
    <3> HIDE DEF n1
    <3>4. Latched(n2)
      <4>1. CASE n1.alt
        BY <3>1, <3>2, <4>1, NoticedRemembers
      <4>2. CASE Latched(n1)
        BY <3>2, <4>2, NoticedRemembers DEF Latched
      <4> QED
        BY <3>3, <4>1, <4>2
    <3> QED
      BY <3>1, <3>2, <3>4
  <2>3. CASE term.alt
    BY <1>3, <2>3 DEF RowIsOut
  <2> QED
    BY <2>1, <2>2, <2>3
<1>8. NoBarNoRegion'
  BY <1>1 DEF IInv, NoBarNoRegion, Resized
<1> QED
  BY <1>5, <1>6, <1>7, <1>8 DEF IInv

LEMMA StopBeginsKeeps ==
  ASSUME IInv, StopBegins
  PROVE  IInv'
<1>1. /\ phase = "running" /\ active' = FALSE
      /\ phase' = IF active THEN "stopping" ELSE "stopped"
      /\ UNCHANGED <<term, rows, painted, hidden, modes, chunk, writer, signal, queue,
                     resizes, silent>>
  BY DEF StopBegins, sizeVars
<1> QED
  BY <1>1 DEF IInv, BarTypeOK, FilterTracks, Seen, RowKept, NoBarNoRegion, WholeScreens

\* The whole screen, wherever the cursor goes.
LEMMA StopEndsKeeps ==
  ASSUME IInv, StopEnds
  PROVE  IInv'
<1> DEFINE row == Least(rows, term.height)
<1>1. /\ phase = "stopping" /\ phase' = "stopped"
      /\ term' = [term EXCEPT !.buf.bottom = term.height, !.buf.cur = row,
                              !.shown = IF ~term.alt /\ @ = row THEN 0 ELSE @]
      /\ UNCHANGED <<rows, painted, active, hidden, modes, chunk, writer, signal, queue,
                     resizes, silent>>
  BY DEF StopEnds, barVars, sizeVars
<1>2. term \in Terminals /\ term.height \in Rows /\ row \in Rows
  BY HeightsAreRows, LeastIsRow DEF IInv, BarTypeOK, Terminals
<1> HIDE DEF row
<1>3. /\ term' \in Terminals /\ term'.alt = term.alt
      /\ term'.buf.bottom = term'.height
  BY <1>1, <1>2 DEF Terminals, Buffers
<1>4. ~active
  BY <1>1 DEF IInv, NoBarNoRegion
<1> QED
  BY <1>1, <1>3, <1>4 DEF IInv, BarTypeOK, FilterTracks, Seen, RowKept, NoBarNoRegion

LEMMA StepHolds == IInv /\ [Next]_vars => IInv'
<1> SUFFICES ASSUME IInv, [Next]_vars PROVE IInv'
  OBVIOUS
<1>1. CASE UNCHANGED vars
  BY <1>1 DEF vars, barVars, sizeVars, IInv, BarTypeOK, FilterTracks, Seen, RowKept,
     SizeAgreed, NoBarNoRegion
<1>2. CASE GuestFallsSilent
  BY <1>2 DEF GuestFallsSilent, barVars, sizeVars, IInv, BarTypeOK, FilterTracks, Seen, RowKept,
     SizeAgreed, NoBarNoRegion
<1>3. CASE WriterDraws
  BY <1>3, DrawKeeps DEF WriterDraws
<1>4. CASE LoopDraws
  BY <1>4, DrawKeeps DEF LoopDraws
<1> QED
  BY <1>1, <1>2, <1>3, <1>4, GuestWritesKeeps, ObserveKeeps, HoldExpiresKeeps, UserResizesKeeps,
     WatcherSendsKeeps, ResizeKeeps, StopBeginsKeeps, StopEndsKeeps DEF Next

LEMMA Inductive == Spec => []IInv
BY InitHolds, StepHolds, PTL DEF Spec

-----------------------------------------------------------------------------
(* The theorems.                                                             *)

\* The terminal, the bar and the filter keep their types.
THEOREM TypeCorrect == Spec => []BarTypeOK
<1>1. IInv => BarTypeOK
  BY DEF IInv
<1> QED
  BY <1>1, Inductive, PTL

\* Whatever the guest does to its region and however often the user resizes, once
\* all is observed and the size agreed on, the bar's row is out of the region.
THEOREM RowStaysReserved == Spec => []RowIsReserved
<1>1. IInv => RowIsReserved
  BY DEF IInv, RowKept, RowIsOut, RowIsReserved
<1> QED
  BY <1>1, Inductive, PTL

\* A session that has ended leaves the whole screen, with a bar or without one,
\* and a size that is forwarded late changes nothing about it.
THEOREM StopGivesTheScreenBack == Spec => []StopReleasesScreen
<1>1. IInv => StopReleasesScreen
  BY DEF IInv, NoBarNoRegion, StopReleasesScreen
<1> QED
  BY <1>1, Inductive, PTL

\* What the bar writes leaves alone what the guest relies on.
THEOREM CursorIsLeftAlone == Spec => GuestCursorIsSafe
<1> DEFINE Safe == IF modes'.saved THEN term'.buf.slot = term.buf.slot
                   ELSE term'.buf.cur = term.buf.cur
<1>1. ASSUME IInv, Observe PROVE Safe
  <2> DEFINE m == Noticed(Noticed(modes, chunk[1]), chunk[2])
  <2>1. m \in Modes /\ m.saved \in BOOLEAN
    BY <1>1, NoticedKeepsModes DEF IInv, BarTypeOK, Modes
  <2>2. CASE ~m.redraw
    BY <1>1, <2>2 DEF Observe
  <2>3. CASE m.redraw
    <3>1. /\ modes' = [m EXCEPT !.latched = Untaken(m.latched), !.redraw = FALSE]
          /\ term' = IF active /\ m.alt THEN releaseRegion(term, m.saved)
                     ELSE IF active /\ m.latched # {} THEN reinstallRegion(term, rows, m.saved)
                     ELSE term
      BY <1>1, <2>3 DEF Observe
    <3> HIDE DEF m
    <3>2. modes'.saved = m.saved
      BY <2>1, <3>1 DEF Modes
    <3>3. term \in Terminals /\ rows \in Heights
      BY <1>1 DEF IInv, BarTypeOK
    <3>4. IF m.saved THEN term'.buf.slot = term.buf.slot ELSE term'.buf.cur = term.buf.cur
      BY <2>1, <3>1, <3>3, Released, Reinstalled
    <3> QED
      BY <3>2, <3>4
  <2> QED
    BY <2>2, <2>3
<1>2. ASSUME IInv, WriterDraws \/ LoopDraws PROVE Safe
  <2>1. draw /\ UNCHANGED modes
    BY <1>2 DEF WriterDraws, LoopDraws
  <2>2. CASE MayDraw
    BY <1>2, <2>1, <2>2, Painted DEF draw, MayDraw, IInv, BarTypeOK
  <2>3. CASE ~MayDraw
    BY <2>1, <2>3 DEF draw
  <2> QED
    BY <2>2, <2>3
<1>3. ASSUME IInv, Resize PROVE Safe
  <2>1. /\ queue \in Heights /\ term \in Terminals /\ modes.saved \in BOOLEAN
        /\ term' = Resized(term) /\ modes' = modes
    BY <1>3 DEF Resize, IInv, BarTypeOK, Modes
  <2> QED
    BY <2>1, Released, Reinstalled DEF Resized
<1>4. IInv /\ [Next]_vars => [BarActs => Safe]_vars
  BY <1>1, <1>2, <1>3 DEF BarActs
<1> QED
  BY <1>4, Inductive, PTL DEF Spec, GuestCursorIsSafe

-----------------------------------------------------------------------------
(* The bar's text. What is painted is on the bar's row, or what took it from *)
(* there has not been observed and asks for a new draw.                      *)

\* The filter knows of the origin mode the terminal is in. It may believe in one
\* that a resize has reset.
OriginSeen == term.origin => Seen.origin

ShownKept ==
    (painted /\ active /\ SizeAgreed)
    => term.alt \/ term.shown = term.height \/ (writer = "observe" /\ Seen.redraw)

LInv == IInv /\ OriginSeen /\ ShownKept

\* One sequence.
LEMMA NoticedOrigin ==
  ASSUME NEW t \in Terminals, NEW m \in Modes, NEW s, t.origin => m.origin
  PROVE  AfterGuest(t, s).origin => Noticed(m, s).origin
BY DEF Noticed, AfterGuest, Terminals, Modes

LEMMA NoticedOriginAsks ==
  ASSUME NEW m \in Modes, NEW s
  PROVE  Noticed(m, s).origin # m.origin => Noticed(m, s).redraw
BY DEF Noticed, Modes

LEMMA NoticedAsks ==
  ASSUME NEW t \in Terminals, NEW m \in Modes, NEW s, m.alt = t.alt
  PROVE  t.alt \/ t.shown = t.height
            => \/ AfterGuest(t, s).alt \/ AfterGuest(t, s).shown = t.height
               \/ Noticed(m, s).redraw
BY DEF Noticed, AfterGuest, Terminals, Modes

LEMMA BarKeepsOrigin ==
  ASSUME NEW t \in Terminals, NEW b, NEW saved
  PROVE  /\ withCursorKept(t, b, saved).origin = t.origin
         /\ withCursorKept(t, b, saved).shown = t.shown
BY DEF withCursorKept, SetRegion, Terminals

LEMMA OriginKept == LInv /\ [Next]_vars => OriginSeen'
<1> SUFFICES ASSUME LInv, [Next]_vars PROVE OriginSeen'
  OBVIOUS
<1>0. modes \in Modes /\ term \in Terminals /\ IInv /\ OriginSeen
  BY DEF LInv, IInv, BarTypeOK
<1>1. ASSUME NEW c \in Chunks, GuestWrites(c) PROVE OriginSeen'
  <2> DEFINE t1 == AfterGuest(term, c[1])
             t2 == AfterGuest(t1, c[2])
             m0 == Forgot(modes)
             m1 == Noticed(m0, c[1])
             m2 == Noticed(m1, c[2])
  <2>1. writer = "copy" /\ term' = t2 /\ Seen' = m2
    BY <1>1 DEF GuestWrites, Seen, barVars
  <2>2. m0 \in Modes /\ m1 \in Modes /\ t1 \in Terminals
    BY <1>0, ForgotIsUnder, NoticedKeepsModes, GuestKeepsTerminals
  <2>3. term.origin => m0.origin
    BY <1>0, <2>1, ForgotIsUnder DEF OriginSeen, Seen, Under
  <2> HIDE DEF m0
  <2>4. t1.origin => m1.origin
    BY <1>0, <2>2, <2>3, NoticedOrigin
  <2> HIDE DEF t1, m1
  <2>5. t2.origin => m2.origin
    BY <2>2, <2>4, NoticedOrigin
  <2> QED BY <2>1, <2>5 DEF OriginSeen
<1>2. CASE Observe
  <2> DEFINE m1 == Noticed(modes, chunk[1])
             m  == Noticed(m1, chunk[2])
             n1 == Noticed(Forgot(modes), chunk[1])
  <2>1. Forgot(modes) \in Modes /\ Under(Forgot(modes), modes)
    BY <1>0, ForgotIsUnder
  <2>2. n1 \in Modes /\ m1 \in Modes /\ Under(n1, m1)
    BY <1>0, <2>1, NoticedKeepsModes, NoticedUnder
  <2>3. Seen = Noticed(n1, chunk[2]) /\ writer' # "observe"
    BY <1>2 DEF Observe, Seen
  <2> HIDE DEF n1, m1
  <2>4. m.origin = Seen.origin /\ m \in Modes
    BY <2>2, <2>3, NoticedUnder, NoticedKeepsModes DEF Under
  <2>5. modes'.origin = m.origin /\ term'.origin = term.origin
    <3>1. CASE ~m.redraw
      BY <1>2, <3>1 DEF Observe, m1
    <3>2. CASE m.redraw
      <4>1. /\ modes' = [m EXCEPT !.latched = Untaken(m.latched), !.redraw = FALSE]
            /\ term' = IF active /\ m.alt THEN releaseRegion(term, m.saved)
                       ELSE IF active /\ m.latched # {} THEN reinstallRegion(term, rows, m.saved)
                       ELSE term
        BY <1>2, <3>2 DEF Observe, m1
      <4> HIDE DEF m
      <4> QED BY <1>0, <2>4, <4>1, BarKeepsOrigin DEF Modes, releaseRegion, reinstallRegion
    <3> QED BY <3>1, <3>2
  <2>6. Seen' = modes'
    BY <2>3 DEF Seen
  <2> QED BY <1>0, <2>4, <2>5, <2>6 DEF OriginSeen
<1>3. CASE WriterDraws \/ LoopDraws
  <2>1. term'.origin = term.origin
    BY <1>0, <1>3 DEF WriterDraws, LoopDraws, draw, Paint, Terminals
  <2>2. Seen' = Seen
    BY <1>3 DEF WriterDraws, LoopDraws, Seen
  <2> QED BY <1>0, <2>1, <2>2 DEF OriginSeen
<1>4. CASE HoldExpires
  <2>1. modes' = Forgot(modes) /\ UNCHANGED <<term, writer, chunk>>
    BY <1>4 DEF HoldExpires, Forgot
  <2>2. Forgot(modes') = Forgot(modes) /\ modes'.origin = modes.origin
    BY <1>0, <2>1 DEF Forgot, Modes
  <2> QED BY <1>0, <2>1, <2>2 DEF OriginSeen, Seen
<1>5. ASSUME NEW h \in Heights, UserResizes(h) PROVE OriginSeen'
  BY <1>0, <1>5 DEF UserResizes, AfterResize, OriginSeen, Terminals
<1>6. CASE Resize
  <2>1. term'.origin = term.origin /\ Seen' = Seen
    BY <1>0, <1>6, BarKeepsOrigin DEF Resize, Resized, releaseRegion, reinstallRegion, Seen
  <2> QED BY <1>0, <2>1 DEF OriginSeen
<1>7. CASE StopEnds
  BY <1>0, <1>7 DEF StopEnds, OriginSeen, Seen, Terminals, barVars
<1>8. CASE GuestFallsSilent \/ WatcherSends \/ StopBegins \/ UNCHANGED vars
  BY <1>0, <1>8 DEF GuestFallsSilent, WatcherSends, StopBegins, vars, barVars, OriginSeen, Seen
<1> QED BY <1>1, <1>2, <1>3, <1>4, <1>5, <1>6, <1>7, <1>8 DEF Next

LEMMA ShownStays == LInv /\ [Next]_vars => ShownKept'
<1> SUFFICES ASSUME LInv, [Next]_vars PROVE ShownKept'
  OBVIOUS
<1>0. /\ modes \in Modes /\ term \in Terminals /\ rows \in Heights
      /\ IInv /\ OriginSeen /\ ShownKept /\ FilterTracks
  BY DEF LInv, IInv, BarTypeOK
<1>1. ASSUME NEW c \in Chunks, GuestWrites(c) PROVE ShownKept'
  <2> DEFINE t1 == AfterGuest(term, c[1])
             t2 == AfterGuest(t1, c[2])
             m0 == Forgot(modes)
             m1 == Noticed(m0, c[1])
             m2 == Noticed(m1, c[2])
  <2>1. /\ writer = "copy" /\ term' = t2 /\ Seen' = m2 /\ writer' = "observe"
        /\ UNCHANGED <<rows, painted, active, signal, queue>>
    BY <1>1 DEF GuestWrites, Seen, barVars, sizeVars
  <2>2. /\ m0 \in Modes /\ m1 \in Modes /\ t1 \in Terminals
        /\ t1.height = term.height /\ t2.height = term.height
    BY <1>0, ForgotIsUnder, NoticedKeepsModes, GuestKeepsTerminals
  <2>3. m0.alt = term.alt
    BY <1>0, <2>1, ForgotIsUnder DEF FilterTracks, Seen, Under
  <2> HIDE DEF m0
  <2>4. m1.alt = t1.alt
    BY <1>0, <2>2, <2>3, NoticedTracks
  <2>5. term.alt \/ term.shown = term.height => t1.alt \/ t1.shown = term.height \/ m1.redraw
    BY <1>0, <2>2, <2>3, NoticedAsks
  <2> HIDE DEF t1, m1
  <2>6. /\ t1.alt \/ t1.shown = t1.height => t2.alt \/ t2.shown = t1.height \/ m2.redraw
        /\ m1.redraw => m2.redraw
    BY <2>2, <2>4, NoticedAsks, NoticedRemembers
  <2> QED BY <1>0, <2>1, <2>2, <2>5, <2>6 DEF ShownKept, SizeAgreed
<1>2. CASE Observe
  <2> DEFINE m1 == Noticed(modes, chunk[1])
             m  == Noticed(m1, chunk[2])
             n1 == Noticed(Forgot(modes), chunk[1])
  <2>1. Forgot(modes) \in Modes /\ Under(Forgot(modes), modes)
    BY <1>0, ForgotIsUnder
  <2>2. n1 \in Modes /\ m1 \in Modes /\ Under(n1, m1)
    BY <1>0, <2>1, NoticedKeepsModes, NoticedUnder
  <2>3. Seen = Noticed(n1, chunk[2]) /\ UNCHANGED <<rows, active, signal, queue>>
    BY <1>2 DEF Observe, Seen, sizeVars
  <2> HIDE DEF n1
  <2>4. Seen.redraw => m.redraw
    BY <2>2, <2>3, NoticedUnder DEF Under
  <2>5. CASE ~m.redraw
    <3>1. UNCHANGED <<term, painted>>
      BY <1>2, <2>5 DEF Observe, m1
    <3> QED BY <1>0, <2>3, <2>4, <2>5, <3>1 DEF ShownKept, SizeAgreed
  <2>6. CASE m.redraw
    BY <1>2, <2>6 DEF Observe, ShownKept
  <2> QED BY <2>5, <2>6
<1>3. CASE WriterDraws \/ LoopDraws
  <2>1. Seen' = Seen /\ UNCHANGED <<rows, active, signal, queue>> /\ (writer = "observe" => writer' = "observe")
    BY <1>3 DEF WriterDraws, LoopDraws, Seen, sizeVars
  <2>2. CASE MayDraw
    <3>1. term' = Paint(term, rows) /\ ~modes.origin
      BY <1>3, <2>2 DEF WriterDraws, LoopDraws, draw, MayDraw
    <3>2. term'.height = term.height /\ term'.alt = term.alt
      BY <1>0, <3>1, Painted
    <3>3. CASE ~term.origin
      <4>1. term.height \in Rows
        BY <1>0, HeightsAreRows DEF Terminals
      <4>2. rows = term.height => Least(rows, term.height) = term.height
        BY DEF Least
      <4>3. rows = term.height => term'.alt \/ term'.shown = term.height
        BY <1>0, <3>1, <3>3, <4>2 DEF Paint, Terminals
      <4> QED BY <2>1, <3>2, <4>3 DEF ShownKept, SizeAgreed
    <3>4. CASE term.origin
      <4>1. Seen.origin /\ writer = "observe"
        BY <1>0, <3>1, <3>4 DEF OriginSeen, Seen
      <4> DEFINE m0 == Forgot(modes)
                 m1 == Noticed(m0, chunk[1])
      <4>2. m0 \in Modes /\ m1 \in Modes /\ m0.origin = modes.origin /\ Seen = Noticed(m1, chunk[2])
        BY <1>0, <4>1, ForgotIsUnder, NoticedKeepsModes DEF Under, Seen
      <4> HIDE DEF m0
      <4>3. m1.origin => m1.redraw
        BY <3>1, <4>2, NoticedOriginAsks
      <4> HIDE DEF m1
      <4>4. Seen.redraw
        BY <3>1, <4>1, <4>2, <4>3, NoticedOriginAsks, NoticedRemembers
      <4> QED BY <2>1, <4>1, <4>4 DEF ShownKept
    <3> QED BY <3>3, <3>4
  <2>3. CASE ~MayDraw
    BY <1>0, <1>3, <2>1, <2>3 DEF WriterDraws, LoopDraws, draw, ShownKept, SizeAgreed
  <2> QED BY <2>2, <2>3
<1>4. CASE HoldExpires
  <2>1. /\ modes' = Forgot(modes)
        /\ UNCHANGED <<term, rows, painted, active, writer, chunk, signal, queue>>
    BY <1>4 DEF HoldExpires, Forgot, sizeVars
  <2>2. Forgot(modes') = Forgot(modes)
    BY <1>0, <2>1 DEF Forgot, Modes
  <2> QED BY <1>0, <2>1, <2>2 DEF ShownKept, SizeAgreed, Seen
<1>5. ASSUME NEW h \in Heights, UserResizes(h) PROVE ShownKept'
  BY <1>5 DEF UserResizes, ShownKept, SizeAgreed
<1>6. CASE WatcherSends
  <2>1. queue' # 0
    BY <1>0, <1>6, HeightsAreRows DEF WatcherSends, Terminals, Rows
  <2> QED BY <2>1 DEF ShownKept, SizeAgreed
<1>7. CASE Resize
  BY <1>7 DEF Resize, ShownKept
<1>8. CASE StopEnds
  <2>1. ~active'
    BY <1>0, <1>8 DEF StopEnds, IInv, NoBarNoRegion, barVars
  <2> QED BY <2>1 DEF ShownKept
<1>9. CASE StopBegins
  BY <1>9 DEF StopBegins, ShownKept
<1>10. CASE GuestFallsSilent \/ UNCHANGED vars
  BY <1>0, <1>10 DEF GuestFallsSilent, vars, barVars, sizeVars, ShownKept, Seen, SizeAgreed
<1> QED BY <1>1, <1>2, <1>3, <1>4, <1>5, <1>6, <1>7, <1>8, <1>9, <1>10 DEF Next

LEMMA SpecLInv == Spec => []LInv
<1>1. Init => OriginSeen /\ ShownKept
  BY DEF Init, OriginSeen, ShownKept, Seen
<1>2. IInv /\ [Next]_vars => IInv'
  BY StepHolds
<1>3. LInv <=> IInv /\ OriginSeen /\ ShownKept
  BY DEF LInv
<1> QED BY <1>1, <1>2, <1>3, OriginKept, ShownStays, InitHolds, PTL DEF Spec

-----------------------------------------------------------------------------
(***************************************************************************)
(* The bar comes back. The provers know ENABLED, of which weak fairness    *)
(* speaks, by name only. So the one fact about it that is needed, that an  *)
(* action can be taken where its guard holds, is a hypothesis.             *)
(***************************************************************************)

\* The guards are those of the actions, whose other conjuncts all give a primed
\* variable a value.
Ready ==
    /\ writer = "observe" => ENABLED <<Observe>>_vars
    /\ signal => ENABLED <<WatcherSends>>_vars
    /\ queue # 0 => ENABLED <<Resize>>_vars
    /\ modes.saved => ENABLED <<HoldExpires>>_vars
    /\ MayDraw => ENABLED <<LoopDraws>>_vars

\* The user leaves the window alone in the end. MaxResizes sees to it in every
\* behaviour; the proof would have to count down to say so.
SameSize  == resizes' = resizes
LeftAlone == <>[][SameSize]_vars

\* All that a silent guest has sent is observed ...
Read == silent /\ writer # "observe"

\* ... and no size is on its way and no cursor waited for.
Calm == Read /\ ~signal /\ queue = 0 /\ ~modes.saved

\* The bar ought to be on the screen.
Wanted ==
    active /\ rows = term.height /\ rows >= minBarRows /\ ~term.alt /\ ~modes.origin

\* Each part of calm stays once it has come.
LEMMA SilentStays ==
  ASSUME [Next]_vars
  PROVE  (silent => silent') /\ (Read => Read')
BY DEF Next, vars, barVars, sizeVars, Read, GuestWrites, GuestFallsSilent, Observe,
   WriterDraws, LoopDraws, HoldExpires, UserResizes, WatcherSends, Resize, StopBegins, StopEnds

LEMMA BarMoves ==
  ASSUME LInv, [Next]_vars, SameSize
  PROVE  /\ ~signal => ~signal'
         /\ ~signal /\ queue = 0 => queue' = 0
         /\ Read /\ ~modes.saved => ~modes'.saved
<1>0. resizes \in Nat
  BY BarAssumption DEF LInv, IInv, BarTypeOK
<1>1. ~\E h \in Heights : UserResizes(h)
  BY <1>0 DEF UserResizes, SameSize
<1> QED
  BY <1>1 DEF Next, vars, barVars, sizeVars, Read, GuestWrites, GuestFallsSilent, Observe,
     WriterDraws, LoopDraws, HoldExpires, WatcherSends, Resize, StopBegins, StopEnds,
     LInv, IInv, BarTypeOK, Modes

\* In a calm the bar's text stays, and nothing makes it due that was not.
LEMMA CalmStep ==
  ASSUME LInv, [Next]_vars, SameSize, Calm
  PROVE  /\ Wanted' => Wanted
         /\ painted => painted'
<1>0. resizes \in Nat /\ term \in Terminals /\ rows \in Heights
  BY BarAssumption DEF LInv, IInv, BarTypeOK
<1>1. ~\E h \in Heights : UserResizes(h)
  BY <1>0 DEF UserResizes, SameSize
<1>2. ~\E c \in Chunks : GuestWrites(c)
  BY DEF GuestWrites, Calm, Read
<1>3. ~Observe /\ ~WatcherSends /\ ~Resize /\ ~HoldExpires
  BY DEF Calm, Read, Observe, WatcherSends, Resize, HoldExpires
<1>4. CASE GuestFallsSilent \/ UNCHANGED vars
  BY <1>4 DEF GuestFallsSilent, vars, barVars, Wanted
<1>5. CASE WriterDraws \/ LoopDraws
  <2>1. UNCHANGED <<rows, active, modes>>
    BY <1>5 DEF WriterDraws, LoopDraws
  <2>2. CASE MayDraw
    BY <1>0, <1>5, <2>1, <2>2, Painted DEF WriterDraws, LoopDraws, draw, Wanted
  <2>3. CASE ~MayDraw
    BY <1>5, <2>1, <2>3 DEF WriterDraws, LoopDraws, draw, Wanted
  <2> QED BY <2>2, <2>3
<1>6. CASE StopBegins
  BY <1>6 DEF StopBegins, Wanted
<1>7. CASE StopEnds
  <2>1. ~active' /\ painted' = painted
    BY <1>7 DEF StopEnds, barVars, LInv, IInv, NoBarNoRegion
  <2> QED BY <2>1 DEF Wanted
<1> QED BY <1>1, <1>2, <1>3, <1>4, <1>5, <1>6, <1>7 DEF Next

\* A signal is handled and a size taken.
LEMMA SizesSettle ==
  Spec /\ []Ready /\ LeftAlone => <>[](~signal /\ queue = 0)
<1>1. LInv /\ [Next]_vars /\ SameSize => (~signal => ~signal')
  BY BarMoves
<1>2. LInv /\ [Next]_vars /\ SameSize => (~signal /\ queue = 0 => (queue = 0)')
  BY BarMoves
<1>3. UNCHANGED vars => SameSize
  BY DEF vars, sizeVars, SameSize
<1>4. <<WatcherSends>>_vars => ~signal'
  BY DEF WatcherSends
<1>5. <<Resize>>_vars => (queue = 0)'
  BY DEF Resize
<1>6. Ready => /\ signal => ENABLED <<WatcherSends>>_vars
               /\ ~(queue = 0) => ENABLED <<Resize>>_vars
  BY DEF Ready
<1>7. Spec /\ []Ready /\ LeftAlone => <>[](~signal)
  BY <1>1, <1>3, <1>4, <1>6, SpecLInv, PTL DEF Spec, Fairness, LeftAlone
<1>8. Spec /\ []Ready /\ LeftAlone => <>[](queue = 0)
  BY <1>2, <1>3, <1>5, <1>6, <1>7, SpecLInv, PTL DEF Spec, Fairness, LeftAlone
<1> QED
  BY <1>7, <1>8, PTL

\* Besides, a chunk is observed and a hold expires.
LEMMA CalmComes ==
  Spec /\ []Ready /\ LeftAlone => [](silent => <>[]Calm)
<1>1. [Next]_vars => (silent => silent') /\ (Read => Read')
  BY SilentStays
<1>2. LInv /\ [Next]_vars /\ SameSize => (Read /\ ~modes.saved => ~(modes.saved)')
  BY BarMoves
<1>3. UNCHANGED vars => SameSize
  BY DEF vars, sizeVars, SameSize
<1>4. <<Observe>>_vars => ~(writer = "observe")'
  BY DEF Observe
<1>5. LInv /\ <<HoldExpires>>_vars => ~(modes.saved)'
  BY DEF HoldExpires, LInv, IInv, BarTypeOK, Modes
<1>6. Ready => /\ writer = "observe" => ENABLED <<Observe>>_vars
               /\ modes.saved => ENABLED <<HoldExpires>>_vars
  BY DEF Ready
<1>7. Read <=> silent /\ ~(writer = "observe")
  BY DEF Read
<1>8. Calm <=> Read /\ ~signal /\ queue = 0 /\ ~modes.saved
  BY DEF Calm
<1>9. Spec /\ []Ready /\ LeftAlone => [](silent => <>[]Read)
  BY <1>1, <1>4, <1>6, <1>7, PTL DEF Spec, Fairness
<1>10. Spec /\ []Ready /\ LeftAlone => [](silent => <>[](~modes.saved))
  BY <1>2, <1>3, <1>5, <1>6, <1>9, SpecLInv, PTL DEF Spec, Fairness, LeftAlone
<1> QED
  BY <1>8, <1>9, <1>10, SizesSettle, PTL

\* For terminals of any heights and whatever the guest sends: once it is silent
\* and the user leaves the window alone, the bar is on its row for good, unless
\* a full-screen application or an origin mode the guest has set keeps it away.
THEOREM BarComesBack == Spec /\ []Ready /\ LeftAlone => BarReturns
<1> DEFINE Bar == term.shown = term.height
<1>1. LInv /\ [Next]_vars /\ SameSize /\ Calm => (Wanted' => Wanted) /\ (painted => painted')
  BY CalmStep
<1>2. UNCHANGED vars => SameSize
  BY DEF vars, sizeVars, SameSize
<1>3. <<LoopDraws>>_vars => painted'
  BY DEF LoopDraws, draw
<1>4. LInv /\ Ready /\ Calm /\ Wanted => painted \/ ENABLED <<LoopDraws>>_vars
  <2>1. LInv /\ Calm /\ Wanted /\ ~painted => MayDraw
    BY DEF LInv, IInv, FilterTracks, Seen, Calm, Read, Wanted, MayDraw
  <2> QED BY <2>1 DEF Ready
<1>5. LInv /\ Calm /\ Wanted /\ painted => Bar
  BY DEF LInv, ShownKept, SizeAgreed, Calm, Read, Wanted
<1>6. (silent /\ active /\ rows = term.height /\ rows >= minBarRows /\ ~term.alt /\ ~modes.origin => Bar)
      <=> (silent /\ Wanted => Bar)
  BY DEF Wanted
<1> HIDE DEF Bar
<1>7. Spec /\ []Ready /\ LeftAlone => <>[](silent /\ Wanted => Bar)
  BY <1>1, <1>2, <1>3, <1>4, <1>5, CalmComes, SpecLInv, PTL DEF Spec, Fairness, LeftAlone
<1> QED
  BY <1>6, <1>7, PTL DEF BarReturns, Bar

-----------------------------------------------------------------------------
(* The way of a size. A size that finds the channel full is dropped, so the  *)
(* last one need not arrive; it does if the channel has room for each.       *)

RoomForEach == [][WatcherSends => queue = 0]_vars

\* The bar has the present height, or it is in the channel, or a signal stands
\* for it.
OnItsWay == signal \/ queue = term.height \/ (queue = 0 /\ rows = term.height)

LEMMA HeightTravels ==
  ASSUME IInv, OnItsWay, [Next]_vars, WatcherSends => queue = 0
  PROVE  OnItsWay'
<1>0. term \in Terminals /\ rows \in Heights /\ modes.saved \in BOOLEAN /\ term.height # 0
  BY HeightsAreRows DEF IInv, BarTypeOK, Terminals, Modes, Rows
<1>1. ASSUME term'.height = term.height, UNCHANGED <<rows, signal, queue>> PROVE OnItsWay'
  BY <1>1 DEF OnItsWay
<1>2. ASSUME NEW c \in Chunks, GuestWrites(c) PROVE OnItsWay'
  <2>1. term'.height = term.height
    BY <1>0, <1>2, GuestKeepsTerminals DEF GuestWrites
  <2> QED BY <1>1, <1>2, <2>1 DEF GuestWrites, barVars, sizeVars
<1>3. CASE Observe
  <2> DEFINE m == Noticed(Noticed(modes, chunk[1]), chunk[2])
  <2>1. m.saved \in BOOLEAN
    <3>1. m \in Modes
      BY NoticedKeepsModes DEF IInv, BarTypeOK
    <3> HIDE DEF m
    <3> QED BY <3>1 DEF Modes
  <2>2. \/ term' = term \/ term' = releaseRegion(term, m.saved)
        \/ term' = reinstallRegion(term, rows, m.saved)
    BY <1>3 DEF Observe
  <2> HIDE DEF m
  <2>3. term'.height = term.height
    BY <1>0, <2>1, <2>2, Released, Reinstalled
  <2> QED BY <1>1, <1>3, <2>3 DEF Observe, sizeVars
<1>4. CASE WriterDraws \/ LoopDraws
  <2>1. term' = term \/ term' = Paint(term, rows)
    BY <1>4 DEF WriterDraws, LoopDraws, draw
  <2>2. term'.height = term.height
    BY <1>0, <2>1, Painted
  <2> QED BY <1>1, <1>4, <2>2 DEF WriterDraws, LoopDraws, sizeVars
<1>5. ASSUME NEW h \in Heights, UserResizes(h) PROVE OnItsWay'
  BY <1>5 DEF UserResizes, OnItsWay
<1>6. CASE WatcherSends
  BY <1>6 DEF WatcherSends, OnItsWay
<1>7. CASE Resize
  <2>1. queue \in Heights /\ rows' = queue /\ queue' = 0 /\ signal' = signal
    BY <1>7 DEF Resize, IInv, BarTypeOK
  <2>2. term' = term \/ term' = releaseRegion(term, modes.saved)
        \/ term' = reinstallRegion(term, queue, modes.saved)
    BY <1>7 DEF Resize, Resized
  <2>3. term'.height = term.height
    BY <1>0, <2>1, <2>2, Released, Reinstalled
  <2> QED BY <1>7, <2>1, <2>3 DEF Resize, OnItsWay
<1>8. CASE StopEnds
  <2>1. term'.height = term.height
    BY <1>0, <1>8 DEF StopEnds, Terminals
  <2> QED BY <1>1, <1>8, <2>1 DEF StopEnds, barVars, sizeVars
<1>9. CASE GuestFallsSilent \/ HoldExpires \/ StopBegins \/ UNCHANGED vars
  BY <1>1, <1>9 DEF GuestFallsSilent, HoldExpires, StopBegins, vars, barVars, sizeVars
<1> QED BY <1>2, <1>3, <1>4, <1>5, <1>6, <1>7, <1>8, <1>9 DEF Next

\* The newest size is picked up, as the comment in watchResizes says, as long as
\* no size finds the channel full: that is all there is to it.
THEOREM RoomIsEnough ==
  Spec /\ []Ready /\ LeftAlone /\ RoomForEach => LatestSizeArrives
<1>1. Init => OnItsWay
  BY DEF Init, OnItsWay
<1>2. IInv /\ OnItsWay /\ [Next]_vars /\ [WatcherSends => queue = 0]_vars => OnItsWay'
  <2>1. CASE UNCHANGED vars
    BY <2>1 DEF vars, barVars, sizeVars, OnItsWay
  <2> QED BY <2>1, HeightTravels
<1>3. LInv => IInv
  BY DEF LInv
<1>4. Spec /\ RoomForEach => []OnItsWay
  BY <1>1, <1>2, <1>3, SpecLInv, PTL DEF Spec, RoomForEach
<1>5. LInv /\ OnItsWay /\ ~signal /\ queue = 0 => (phase = "running" => rows = term.height)
  BY HeightsAreRows DEF OnItsWay, LInv, IInv, BarTypeOK, Terminals, Rows
<1>6. Spec /\ []Ready /\ LeftAlone => <>[](~signal /\ queue = 0)
  BY SizesSettle
<1> QED
  BY <1>4, <1>5, <1>6, SpecLInv, PTL DEF LatestSizeArrives
=============================================================================
