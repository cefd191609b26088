------------------------------- MODULE Console -------------------------------
(***************************************************************************)
(* A user's stream bridged to a remote one, and how the bridge comes down: *)
(* a console over ssh (runSSHConsole, ssh.go), a console over termproxy    *)
(* (connectTermProxy, termproxy.go), the escape hatch they share           *)
(* (escape.go), and a file transfer with a node (pumpSFTP, sftp.go).       *)
(*                                                                         *)
(* Each goroutine of the bridge is a program counter: the copier of stdin, *)
(* the copiers of output, the one that forwards sizes, the watcher of the  *)
(* escape, and the function that waits. stdout and stderr are copied alike *)
(* and count as one. The remote end (sshd, or Proxmox's termproxy) is      *)
(* external: it may stop reading, and ignore an end of input, but it does  *)
(* answer a close.                                                         *)
(***************************************************************************)
EXTENDS Naturals, SequencesExt

CONSTANTS
    MaxKeys,    \* bound: keys typed in one session
    MaxOutput,  \* bound: chunks of output the remote end sends
    Window      \* chunks of input the link holds for a guest that does not read

ASSUME ConsoleAssumption == MaxKeys \in Nat /\ MaxOutput \in Nat /\ Window \in Nat \ {0}

VARIABLES
    transport,  \* "ssh", "termproxy", or "sftp" for a transfer
    typed,      \* every key the stdin copier has looked at, in order
    reader,     \* the escapeReader: pending and done
    held,       \* what its present read has returned, not yet written
    sent,       \* the keys it has written
    backlog,    \* chunks written that the guest has not read
    stdin,      \* the stdin copier: "reading", "writing" or "ended"
    watcher,    \* the goroutine that closes the session on an escape
    sizer,      \* the goroutine that forwards sizes
    copier,     \* the copier of output; under termproxy the function itself is
    link,       \* the remote end: "open", "closing" (by us) or "down"
    produced,   \* chunks of output the remote end has sent
    displayed,  \* chunks that have reached the terminal
    gone,       \* the terminal takes no more output
    main        \* "waiting", "joining" (done is closed) or "returned"

inputVars  == <<typed, reader, held, sent, backlog, stdin>>
outputVars == <<copier, produced, displayed, gone>>
consoleVars == <<transport, inputVars, outputVars, watcher, sizer, link, main>>

Transports == {"ssh", "termproxy", "sftp"}
Keys == {"ctrlA", "x", "other"}

ConsoleInit ==
    /\ transport \in Transports
    /\ typed = <<>> /\ held = <<>> /\ sent = <<>>
    /\ reader = [pending |-> FALSE, done |-> FALSE]
    /\ backlog = 0
    /\ stdin = "reading"
    /\ watcher = (IF transport = "ssh" THEN "waiting" ELSE "ended")
    /\ sizer = (IF transport = "sftp" THEN "ended" ELSE "waiting")
    /\ copier = "copying"
    /\ link = "open"
    /\ produced = 0 /\ displayed = 0
    /\ gone = FALSE
    /\ main = "waiting"

(***************************************************************************)
(* Input                                                                   *)
(***************************************************************************)
\* Mutant: every read starts afresh.
KeyAfresh(e, k) ==
    IF e.done THEN e
    ELSE IF e.pending /\ held # <<>> /\ k = "x" THEN [e EXCEPT !.done = TRUE]
    ELSE [e EXCEPT !.pending = (k = "ctrlA")]

\* escapeReader.Read, one byte of the buffer.
Key(e, k) ==
    IF e.done THEN e
    ELSE IF e.pending /\ k = "x" THEN [e EXCEPT !.done = TRUE]
    ELSE [e EXCEPT !.pending = (k = "ctrlA")]

\* Under termproxy the end of input closes the link.
Closing == IF transport = "termproxy" /\ link = "open" THEN "closing" ELSE link

\* The copier reads the terminal, and the keys of a read are looked at one by
\* one. The one that completes the escape makes the read return nothing and the
\* end of input; after any other there are more, or the read is written on.
UserTypes(k) ==
    /\ stdin = "reading"
    /\ Len(typed) < MaxKeys
    /\ typed' = Append(typed, k)
    /\ reader' = IF transport = "sftp" THEN reader ELSE Key(reader, k)
    /\ IF reader'.done
       THEN stdin' = "ended" /\ held' = <<>> /\ link' = Closing
       ELSE stdin' \in {"reading", "writing"} /\ held' = Append(held, k) /\ UNCHANGED link
    /\ UNCHANGED <<transport, sent, backlog, outputVars, watcher, sizer, main>>

\* The user's own connection ends: the terminal reads as ended.
UserHangsUp ==
    /\ stdin = "reading" /\ held = <<>>
    /\ stdin' = "ended"
    /\ link' = Closing
    /\ UNCHANGED <<transport, typed, reader, held, sent, backlog, outputVars,
                   watcher, sizer, main>>

\* A write waits while the link is full, and fails once it is down.
StdinWrites ==
    /\ stdin = "writing"
    /\ IF link = "down"
       THEN stdin' = "ended" /\ UNCHANGED <<sent, backlog>>
       ELSE /\ backlog < Window
            /\ stdin' = "reading"
            /\ sent' = sent \o held
            /\ backlog' = backlog + 1
    /\ held' = <<>>
    /\ UNCHANGED <<transport, typed, reader, outputVars, watcher, sizer, link, main>>

GuestReads ==
    /\ backlog > 0
    /\ backlog' = backlog - 1
    /\ UNCHANGED <<transport, typed, reader, held, sent, stdin, outputVars,
                   watcher, sizer, link, main>>

(***************************************************************************)
(* The remote end                                                          *)
(***************************************************************************)
RemoteSends ==
    /\ link # "down"
    /\ produced < MaxOutput
    /\ produced' = produced + 1
    /\ UNCHANGED <<transport, inputVars, copier, displayed, gone, watcher, sizer, link, main>>

RemoteExits ==
    /\ link = "open"
    /\ link' = "down"
    /\ UNCHANGED <<transport, inputVars, outputVars, watcher, sizer, main>>

RemoteAnswersClose ==
    /\ link = "closing"
    /\ link' = "down"
    /\ UNCHANGED <<transport, inputVars, outputVars, watcher, sizer, main>>

(***************************************************************************)
(* Output                                                                  *)
(***************************************************************************)
Finished == main # "waiting"

\* A chunk reaches the terminal, through the bar if there is one.
CopierShows ==
    /\ copier = "copying"
    /\ displayed < produced
    /\ ~gone
    /\ displayed' = displayed + 1
    /\ UNCHANGED <<transport, inputVars, copier, produced, gone, watcher, sizer, link, main>>

\* At the end of the output, or when the terminal takes no more. A websocket
\* that we are closing may fail its next read with output still to come.
CopierEnds ==
    /\ copier = "copying"
    /\ \/ gone /\ displayed < produced
       \/ link = "down" /\ displayed = produced
       \/ transport = "termproxy" /\ stdin = "ended" /\ link # "open"
    /\ copier' = "ended"
    /\ UNCHANGED <<transport, inputVars, produced, displayed, gone, watcher, sizer, link, main>>

TerminalFails ==
    /\ ~gone
    /\ gone' = TRUE
    /\ UNCHANGED <<transport, inputVars, copier, produced, displayed, watcher, sizer, link, main>>

SizerEnds ==
    /\ sizer = "waiting"
    /\ Finished
    /\ sizer' = "ended"
    /\ UNCHANGED <<transport, inputVars, outputVars, watcher, link, main>>

(***************************************************************************)
(* Tear-down                                                               *)
(***************************************************************************)
\* Mutant: closing stdin is held to be enough, and the session is not closed.
WatcherOnlySignals ==
    /\ watcher = "waiting"
    /\ reader.done
    /\ watcher' = "ended"
    /\ UNCHANGED <<transport, inputVars, outputVars, sizer, link, main>>

\* The user escapes: the session is closed under the remote command.
WatcherCloses ==
    /\ watcher = "waiting"
    /\ reader.done
    /\ watcher' = "ended"
    /\ link' = IF link = "open" THEN "closing" ELSE link
    /\ UNCHANGED <<transport, inputVars, outputVars, sizer, main>>

WatcherEnds ==
    /\ watcher = "waiting"
    /\ Finished
    /\ watcher' = "ended"
    /\ UNCHANGED <<transport, inputVars, outputVars, sizer, link, main>>

\* ssh: session.Wait returns. termproxy: the read loop is left. A transfer: the
\* first direction is done.
Done ==
    IF transport = "ssh" THEN link = "down"
    ELSE copier = "ended" \/ (transport = "sftp" /\ stdin = "ended")

\* done is closed.
MainWakes ==
    /\ main = "waiting"
    /\ Done
    /\ main' = "joining"
    /\ UNCHANGED <<transport, inputVars, outputVars, watcher, sizer, link>>

\* Mutant: nobody is waited for.
JoinsNobody == TRUE

\* wg.Wait: not the stdin copier, which may be reading for ever, and elsewhere
\* nobody.
Joined == transport = "ssh" => sizer = "ended" /\ copier = "ended"

\* The function returns; the bar is stopped and the connection dropped.
MainReturns ==
    /\ main = "joining"
    /\ Joined
    /\ main' = "returned"
    /\ link' = "down"
    /\ UNCHANGED <<transport, inputVars, outputVars, watcher, sizer>>

ConsoleNext ==
    \/ \E k \in Keys : UserTypes(k)
    \/ UserHangsUp
    \/ StdinWrites
    \/ GuestReads
    \/ RemoteSends
    \/ RemoteExits
    \/ RemoteAnswersClose
    \/ CopierShows
    \/ CopierEnds
    \/ TerminalFails
    \/ SizerEnds
    \/ WatcherCloses
    \/ WatcherEnds
    \/ MainWakes
    \/ MainReturns

\* Goroutines that can go on do, and the remote end answers a close. Nobody
\* has to type, read or exit; a terminal that works stays writable.
ConsoleFairness ==
    /\ WF_consoleVars(RemoteAnswersClose)
    /\ WF_consoleVars(CopierShows)
    /\ WF_consoleVars(CopierEnds)
    /\ WF_consoleVars(SizerEnds)
    /\ WF_consoleVars(WatcherCloses)
    /\ WF_consoleVars(MainWakes)
    /\ WF_consoleVars(MainReturns)

ConsoleSpec == ConsoleInit /\ [][ConsoleNext]_consoleVars /\ ConsoleFairness

(***************************************************************************)
(* Properties                                                              *)
(***************************************************************************)
ConsoleTypeOK ==
    /\ transport \in Transports
    /\ typed \in Seq(Keys) /\ held \in Seq(Keys) /\ sent \in Seq(Keys)
    /\ reader \in [pending : BOOLEAN, done : BOOLEAN]
    /\ backlog \in 0..Window
    /\ stdin \in {"reading", "writing", "ended"}
    /\ watcher \in {"waiting", "ended"} /\ sizer \in {"waiting", "ended"}
    /\ copier \in {"copying", "ended"}
    /\ link \in {"open", "closing", "down"}
    /\ produced \in 0..MaxOutput /\ displayed \in 0..produced
    /\ gone \in BOOLEAN
    /\ main \in {"waiting", "joining", "returned"}

\* The hatch of a console opens exactly when Ctrl+A and X were typed one after
\* the other, however the keys fell into reads and whatever was pressed before;
\* and until then the guest gets every key, once and in order.
EscapeIsExact ==
    /\ reader.done <=>
         /\ transport # "sftp"
         /\ \E i \in 1..(Len(typed) - 1) : typed[i] = "ctrlA" /\ typed[i + 1] = "x"
    /\ IsPrefix(sent \o held, typed)
    /\ stdin # "ended" => sent \o held = typed

\* A user who escapes gets out, a remote end that exits ends the session, and
\* either end of a transfer does, though the guest neither reads nor exits and
\* nobody types another key.
BridgeEnds ==
    (reader.done \/ link = "down" \/ (transport = "sftp" /\ stdin = "ended"))
    ~> main = "returned"

\* When an ssh console returns, and the bar gives the screen back, nobody is
\* left who writes to the terminal, and all the guest said has been shown.
NothingTrails ==
    (main = "returned" /\ transport = "ssh")
    => /\ copier = "ended" /\ sizer = "ended"
       /\ displayed = produced \/ gone
=============================================================================
