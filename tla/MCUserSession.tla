---------------------------- MODULE MCUserSession ----------------------------
(***************************************************************************)
(* The parts of a user's session, one per behaviour: which guest a login   *)
(* name leads to, the picker, the bridge to a console or a node, an upload *)
(* into a container and the status bar. They share no state, so one run    *)
(* checks each on its own instance; the parts that are not taken stay in   *)
(* an initial state in which nothing is due.                               *)
(***************************************************************************)
EXTENDS StatusBar, Login, LoginCases, Picker, Console, Upload, TLC

VARIABLE part  \* the part that runs

(***************************************************************************)
(* The parts                                                               *)
(***************************************************************************)
\* Five rows, more than fit on the lower window, in unlike orders.
PickerOrder ==
    [id     |-> <<"d", "a", "c", "b", "e">>,
     name   |-> <<"a", "b", "c", "d", "e">>,
     status |-> <<"b", "d", "e", "a", "c">>,
     host   |-> <<"e", "c", "a", "d", "b">>]

\* Two rows match better than two others, which match alike; a space at either
\* end of the filter is trimmed.
PickerLetters == {"x", " ", "q"}
PickerScore ==
    [f \in BoundedSeq(PickerLetters, 2) |->
        IF f \in {<<"x">>, <<" ", "x">>, <<"x", " ">>} THEN [a |-> 1, b |-> 1, c |-> 2, d |-> 2]
        ELSE IF f = <<"x", "x">> THEN [b |-> 3, d |-> 3] ELSE <<>>]

Transfer == INSTANCE Transfer WITH
    Attributes <- {{}, {"mode", "times"}, {"size", "mode", "owner", "times"}}

\* The guest's output: text around every sequence, and the pairs that one read
\* may hold and that undo or follow on each other.
Sequences == {"text", "save", "restore", "region", "erase", "reset",
              "altOn", "altOff", "originOn", "originOff"}
BarChunks ==
    {<<"text", s>> : s \in Sequences}
    \union {<<"save", "text">>, <<"save", "region">>, <<"reset", "altOn">>,
            <<"altOn", "altOff">>, <<"altOff", "region">>, <<"restore", "erase">>}

(***************************************************************************)
(* One part runs                                                           *)
(***************************************************************************)
barIs == vars
everything == <<part, barIs, loginVars, pickerVars, consoleVars, uploadVars>>

Parts == {"bar", "login", "picker", "console", "transfer"}

SessionInit ==
    /\ part \in Parts
    /\ part # "login" => guests = {} /\ nodes = {} /\ kind = "console" /\ name = <<"web">>
    /\ part # "picker" => height = 9
    /\ part # "console" => transport = "ssh"
    /\ part # "transfer" => sends = {} /\ file = Transfer!NoFile
    /\ part # "bar" => rows = 3
    /\ Init
    /\ LoginInit
    /\ PickerInit
    /\ ConsoleInit
    /\ Transfer!Init

SessionNext ==
    /\ UNCHANGED part
    /\ \/ part = "bar" /\ Next /\ UNCHANGED <<loginVars, pickerVars, consoleVars, uploadVars>>
       \/ part = "login" /\ LoginNext /\ UNCHANGED <<barIs, pickerVars, consoleVars, uploadVars>>
       \/ part = "picker" /\ PickerNext /\ UNCHANGED <<barIs, loginVars, consoleVars, uploadVars>>
       \/ part = "console" /\ ConsoleNext /\ UNCHANGED <<barIs, loginVars, pickerVars, uploadVars>>
       \/ part = "transfer" /\ Transfer!Next /\ UNCHANGED <<barIs, loginVars, pickerVars, consoleVars>>

SessionSpec ==
    SessionInit /\ [][SessionNext]_everything /\ Fairness /\ ConsoleFairness

(***************************************************************************)
(* What the run checks                                                     *)
(***************************************************************************)
TypeOK ==
    /\ BarTypeOK
    /\ LoginTypeOK
    /\ PickerTypeOK
    /\ ConsoleTypeOK
    /\ Transfer!TypeOK
=============================================================================
