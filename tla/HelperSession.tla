--------------------------- MODULE HelperSession ----------------------------
(***************************************************************************)
(* A transfer session: the helper client, the stream to the node and the   *)
(* helper inside the container.                                            *)
(*                                                                         *)
(* The goroutines of the SFTP server call the client at the same time; its *)
(* mutex lets one request out at a time and holds it until the reply is    *)
(* in, because a reply does not say which request it answers. The first    *)
(* failure closes the client for good. The helper decodes requests on a    *)
(* goroutine of its own and acts on them one after the other; it exits on  *)
(* "quit", at the end of its input, and when nothing arrived for a while.  *)
(*                                                                         *)
(* Time is left out: the idle timer may fire whenever the helper waits.    *)
(***************************************************************************)
EXTENDS Sequences, Naturals

CONSTANTS
  Hello,    (* the handshake                                                 *)
  Ops,      (* the calls made afterwards                                     *)
  Stuck,    (* calls whose file operation never returns: opening a FIFO      *)
  Quit, Eof, None

Calls    == Ops \union {Hello}
Messages == Calls \union {Quit}

ASSUME HelperAssumption ==
  /\ Hello \notin Ops
  /\ Stuck \subseteq Ops
  /\ Quit \notin Calls /\ Eof \notin Messages /\ None \notin Messages \union {Eof}

VARIABLES
  call,      (* where each call is; the one that is "sent" holds Client.mu   *)
  got,       (* the call whose reply a caller was given                      *)
  closed,    (* Client.closed                                                *)
  peer,      (* the session process: Start, Serve, after Close, gone         *)
  link,      (* the connection to the node carries data                      *)
  up, down,  (* stdin and stdout of the helper                               *)
  inbox,     (* reqs, the channel with room for one between its goroutines   *)
  working,   (* the request being dispatched                                 *)
  alive,     (* the helper runs                                              *)
  match,     (* both ends speak the same protocol version                    *)
  done       (* the calls the helper has carried out                         *)

clientVars == <<call, got, closed, peer>>
helperVars == <<inbox, working, alive, done>>
vars == <<clientVars, helperVars, link, up, down, match>>

Settled == {"answered", "failed", "refused"}

TypeOK ==
  /\ call \in [Calls -> {"new", "queued", "sent"} \union Settled]
  /\ got \in [Calls -> Calls \union {None}]
  /\ closed \in BOOLEAN
  /\ peer \in {"starting", "serving", "ended", "dead"}
  /\ link \in BOOLEAN
  /\ up \in Seq(Messages)
  /\ down \in Seq(Calls)
  /\ inbox \in Messages \union {Eof, None}
  /\ working \in Calls \union {None}
  /\ alive \in BOOLEAN
  /\ match \in BOOLEAN
  /\ done \in SUBSET Calls

Init ==
  /\ call = [c \in Calls |-> "new"]
  /\ got = [c \in Calls |-> None]
  /\ closed = FALSE
  /\ peer = "starting"
  /\ link = TRUE
  /\ up = <<>> /\ down = <<>>
  /\ inbox = None
  /\ working = None
  /\ alive = TRUE
  /\ match \in BOOLEAN
  /\ done = {}

-----------------------------------------------------------------------------
(* The session process.                                                      *)

Running == peer \in {"starting", "serving"}
Locked  == \E c \in Calls : call[c] = "sent"

Moves(c, from, to) ==
  /\ Running
  /\ call[c] = from
  /\ call' = [call EXCEPT ![c] = to]

\* What is written to a helper or a connection that is gone is lost, unless
\* the writer is told.
Written(m) == up' = IF alive /\ link THEN Append(up, m) ELSE up

\* The handshake in NewClient, then one call per goroutine.
Invoke(c) ==
  /\ Moves(c, "new", "queued")
  /\ peer = IF c = Hello THEN "starting" ELSE "serving"
  /\ UNCHANGED <<got, closed, peer, helperVars, link, up, down, match>>

\* Client.call: "helper session is closed".
Refuse(c) ==
  /\ Moves(c, "queued", "refused")
  /\ ~Locked /\ closed
  /\ UNCHANGED <<got, closed, peer, helperVars, link, up, down, match>>

\* Mutant: requests go out without the mutex.
SendsAtOnce(c) ==
  /\ Moves(c, "queued", "sent")
  /\ ~closed
  /\ Written(c)
  /\ UNCHANGED <<got, closed, peer, helperVars, link, down, match>>

Sends(c) ==
  /\ Moves(c, "queued", "sent")
  /\ ~Locked /\ ~closed
  /\ Written(c)
  /\ UNCHANGED <<got, closed, peer, helperVars, link, down, match>>

SendFails(c) ==
  /\ Moves(c, "queued", "failed")
  /\ ~Locked /\ ~closed
  /\ ~alive \/ ~link
  /\ closed' = TRUE
  /\ UNCHANGED <<got, peer, helperVars, link, up, down, match>>

Receives(c) ==
  /\ Moves(c, "sent", "answered")
  /\ down # <<>>
  /\ got' = [got EXCEPT ![c] = Head(down)]
  /\ down' = Tail(down)
  /\ UNCHANGED <<closed, peer, helperVars, link, up, match>>

\* Mutant: a failed read leaves the client open.
ReadFailsOpen(c) ==
  /\ Moves(c, "sent", "failed")
  /\ (~alive /\ down = <<>>) \/ ~link
  /\ UNCHANGED <<got, closed, peer, helperVars, link, up, down, match>>

\* Mutant: the end of the helper's output is not noticed.
ReadWaits(c) ==
  /\ Moves(c, "sent", "failed")
  /\ ~link
  /\ closed' = TRUE
  /\ UNCHANGED <<got, peer, helperVars, link, up, down, match>>

\* ReadHeader or ReadPayload meets the end of the stream.
ReadFails(c) ==
  /\ Moves(c, "sent", "failed")
  /\ (~alive /\ down = <<>>) \/ ~link
  /\ closed' = TRUE
  /\ UNCHANGED <<got, peer, helperVars, link, up, down, match>>

\* Mutant: Start goes on with a helper of another version.
HandshakeIgnored ==
  /\ peer = "starting"
  /\ call[Hello] \in {"answered", "failed"}
  /\ peer' = IF call[Hello] = "answered" THEN "serving" ELSE "ended"
  /\ UNCHANGED <<call, got, closed, helperVars, link, up, down, match>>

\* NewClient returns to Start, which drops the stream on any error.
HandshakeEnds ==
  /\ peer = "starting"
  /\ call[Hello] \in {"answered", "failed"}
  /\ peer' = IF call[Hello] = "answered" /\ match THEN "serving" ELSE "ended"
  /\ UNCHANGED <<call, got, closed, helperVars, link, up, down, match>>

\* Session.Close, once Serve has waited for its workers.
Close ==
  /\ peer = "serving"
  /\ \A c \in Calls : call[c] \notin {"queued", "sent"}
  /\ closed' = TRUE
  /\ IF closed THEN UNCHANGED up ELSE Written(Quit)
  /\ peer' = "ended"
  /\ UNCHANGED <<call, got, helperVars, link, down, match>>

\* The connection breaks; each end learns of it in its own time.
Cut ==
  /\ link /\ link' = FALSE
  /\ UNCHANGED <<clientVars, helperVars, up, down, match>>

\* The session process goes away without closing anything.
Dies ==
  /\ Running
  /\ peer' = "dead" /\ link' = FALSE
  /\ UNCHANGED <<call, got, closed, helperVars, up, down, match>>

-----------------------------------------------------------------------------
(* The helper.                                                               *)

\* readLoop. It decodes the next request while the channel is full; that one
\* is still counted as being in stdin.
ReadsRequest ==
  /\ alive /\ inbox = None
  /\ up # <<>>
  /\ inbox' = Head(up)
  /\ up' = Tail(up)
  /\ UNCHANGED <<clientVars, working, alive, done, link, down, match>>

ReadsEof ==
  /\ alive /\ inbox = None
  /\ ~link \/ (peer = "ended" /\ up = <<>>)
  /\ inbox' = Eof
  /\ UNCHANGED <<clientVars, working, alive, done, link, up, down, match>>

Leaves ==
  /\ alive' = FALSE
  /\ working' = None
  /\ UNCHANGED <<clientVars, inbox, done, link, up, down, match>>

\* run, with nothing being dispatched: quit or the end of the input ...
Exits ==
  /\ alive /\ working = None
  /\ inbox \in {Quit, Eof}
  /\ Leaves

\* Mutant: no timer.
NoIdleExit ==
  /\ alive /\ working = None
  /\ inbox \in {Quit, Eof}
  /\ Leaves

\* ... or the timer. When both are ready select picks either.
IdleExit ==
  /\ alive /\ working = None
  /\ Leaves

\* Mutant: a quit is dispatched like any request.
StartsAnything ==
  /\ alive /\ working = None
  /\ inbox \in Messages
  /\ working' = inbox
  /\ inbox' = None
  /\ UNCHANGED <<clientVars, alive, done, link, up, down, match>>

Starts ==
  /\ alive /\ working = None
  /\ inbox \in Calls
  /\ working' = inbox
  /\ inbox' = None
  /\ UNCHANGED <<clientVars, alive, done, link, up, down, match>>

\* dispatch. What it does to a file is done even if no reply gets through.
Acts ==
  /\ alive /\ working \in Calls \ (Stuck \union done)
  /\ done' = done \union {working}
  /\ UNCHANGED <<clientVars, inbox, working, alive, link, up, down, match>>

Replies ==
  /\ alive /\ working \in done
  /\ down' = IF link THEN Append(down, working) ELSE down
  /\ working' = None
  /\ UNCHANGED <<clientVars, inbox, alive, done, link, up, match>>

\* The listing of a large directory is longer than MaxFrame, or stdout is
\* gone: run returns the error.
ReplyFails ==
  /\ alive /\ working \in done
  /\ Leaves

\* The container stops, or the node does.
Killed ==
  /\ alive
  /\ Leaves

-----------------------------------------------------------------------------
Client(c) == Invoke(c) \/ Refuse(c) \/ Sends(c) \/ SendFails(c) \/ Receives(c) \/ ReadFails(c)

Helper == ReadsRequest \/ ReadsEof \/ Exits \/ IdleExit \/ Starts \/ Acts \/ Replies \/ ReplyFails

Next ==
  \/ \E c \in Calls : Client(c)
  \/ HandshakeEnds \/ Close \/ Cut \/ Dies
  \/ Helper \/ Killed

Spec == Init /\ [][Next]_vars

\* A goroutine that can go on does. The end of the input is not promised: a
\* connection that breaks need not tell the node. Neither is a call.
Fairness ==
  /\ \A c \in Calls :
       WF_vars(Refuse(c) \/ Sends(c) \/ SendFails(c) \/ Receives(c) \/ ReadFails(c))
  /\ WF_vars(HandshakeEnds)
  /\ WF_vars(ReadsRequest)
  /\ WF_vars(Exits)
  /\ WF_vars(IdleExit)
  /\ WF_vars(Starts)
  /\ WF_vars(Acts)
  /\ WF_vars(Replies \/ ReplyFails)

FairSpec == Spec /\ Fairness

-----------------------------------------------------------------------------
(* Properties.                                                               *)

\* A caller is given the reply to its own request.
ReplyIsOwn == \A c \in Calls : got[c] \in {None, c}

\* A helper of another version is asked for nothing but its version.
MismatchNeverServes == ~match => done \subseteq {Hello}

Service == INSTANCE FileService WITH
  outcome <- [c \in Calls |-> IF call[c] \in {"queued", "sent"} THEN "open" ELSE call[c]],
  applied <- done

\* The session is the service the SFTP server takes it for.
ImplementsService == Service!SSpec

\* Every call returns, unless the session process itself is gone.
CallsReturn ==
  \A c \in Calls : call[c] \in {"queued", "sent"} ~> call[c] \in Settled \/ peer = "dead"

\* "a leaked helper is gone within a minute": once the session is over, however
\* it ended, the helper does not stay on the node. True as long as every file
\* operation returns.
HelperGone == (peer \in {"ended", "dead"}) ~> ~alive
=============================================================================
