-------------------------------- MODULE Login --------------------------------
(***************************************************************************)
(* What a login name means: connectByLoginName and runPicker (picker.go),  *)
(* the dispatch of Run (session.go), namesANode and namesAGuest            *)
(* (guestcommand.go), runSFTP (sftp.go) and the resolution of a name that  *)
(* they share with "guest connect" (cli/resolve.go).                       *)
(*                                                                         *)
(* One user tries one name after another, with and without a command, as a *)
(* file transfer and through "guest connect", while administrators change  *)
(* what the user may reach. Each question to the server is a step: which   *)
(* nodes, which guests, and the credentials, which come after a check and  *)
(* before the machine is asked for what it may not have.                   *)
(*                                                                         *)
(* A name is the sequence of its parts between "@"s, already folded. That  *)
(* Atoi takes "0100" for the vmid 100 is left out.                         *)
(***************************************************************************)
EXTENDS Naturals, SequencesExt, FiniteSets

CONSTANTS
    Guests,     \* rows of guests
    Instances,  \* rows of instances
    Row,        \* a guest's instance, type, vmid, type-qualified vmid and name
    NodeName,   \* an instance's name, one part
    WithSSHHost, \* the instances whose node can be reached over SSH
    LoginNames, \* what the user may type
    OwnName,    \* the name the user was registered under
    MaxChanges  \* bound: how often the rules change during a session

\* What may stand between two "@"s.
Part == STRING

\* The name of an instance is unique (the schema); an id begins with the type, a
\* vmid is a number. That an instance's name has no "@" is what ParseGuestTarget
\* relies on (a host name, resolve.go:25); nothing checks it.
ASSUME LoginAssumption ==
    /\ IsFiniteSet(Guests)
    /\ NodeName \in [Instances -> Part \ {""}]
    /\ WithSSHHost \subseteq Instances
    /\ \A i, j \in Instances : NodeName[i] = NodeName[j] => i = j
    /\ \A g \in Guests :
          /\ Row[g].inst \in Instances /\ Row[g].type \in {"ct", "vm"}
          /\ Row[g].vmid \in Part /\ Row[g].id \in Part \ {""}
          /\ Row[g].name \in Seq(Part) \ {<<>>}
    /\ \A g, h \in Guests : Row[g].id # Row[h].vmid
    /\ LoginNames \subseteq Seq(Part) \ {<<>>}
    /\ MaxChanges \in Nat

VARIABLES
    guests,   \* the guests this user may reach at present
    nodes,    \* the nodes, of those that can be reached over SSH
    changes,  \* how often they have changed since the session began
    kind,     \* what is asked: "console", "command", "sftp" or "connect"
    name,     \* of whom
    pc,       \* the question that is next, or "done"
    listed,   \* what the picker shows
    target,   \* what the name was resolved to, or what was picked
    outcome,  \* how it ended
    meant,     \* what the name has meant from the start until it was resolved
    disturbed  \* what has interfered with the session so far

rules   == <<guests, nodes, changes>>
session == <<kind, name, pc, listed, target, outcome>>
history == <<meant, disturbed>>
loginVars    == <<rules, session, history>>

Kinds == {"console", "command", "sftp", "connect"}
Nobody == [is |-> "nothing"]
Node(i) == [is |-> "node", of |-> i]
Guest(g) == [is |-> "guest", of |-> g]
Targets == {Nobody} \union {Node(i) : i \in Instances} \union {Guest(g) : g \in Guests}

\* What may interfere: a question fails; other guests may be reached; a node is
\* given; a guest or a node is taken away.
Disturbances == {"failure", "guests", "nodeGiven", "taken"}

isReservedLoginName(n) == n = <<"admin">>

(***************************************************************************)
(* Resolution                                                              *)
(***************************************************************************)
\* A node is named plainly.
NodesNamed(n, reachable) ==
    {i \in reachable : n = <<NodeName[i]>> /\ ~isReservedLoginName(n)}

\* The instances of reachable guests.
namedInstances(pool) == {Row[g].inst : g \in pool}

\* Mutant: the first "@" separates.
SplitsAtFirst(n, visible) ==
    LET qualified == Len(n) > 1 /\ \E i \in visible : Tail(n) = <<NodeName[i]>>
    IN  IF qualified THEN [inst |-> n[2], identifier |-> <<n[1]>>]
        ELSE [inst |-> "", identifier |-> n]

\* The last "@" separates, if what follows it is an instance the caller sees and
\* something precedes it.
ParseGuestTarget(n, visible) ==
    IF Len(n) > 1 /\ Front(n) # <<"">> /\ \E i \in visible : NodeName[i] = Last(n)
    THEN [inst |-> Last(n), identifier |-> Front(n)]
    ELSE [inst |-> "", identifier |-> n]

\* Mutant: of several guests with a vmid the first is taken.
FirstMatch(identifier, pool) ==
    LET byID == {g \in pool : identifier = <<Row[g].id>>}
        byName == {g \in pool : identifier = Row[g].name}
    IN  IF byID # {} THEN {CHOOSE g \in byID : TRUE} ELSE byName

\* The guests that match in the first way that any guest does: by vmid, by
\* type and vmid, by name. Several are an ambiguity.
resolveGuest(identifier, pool) ==
    LET byVmid == {g \in pool : identifier = <<Row[g].vmid>>}
        byID   == {g \in pool : identifier = <<Row[g].id>>}
        byName == {g \in pool : identifier = Row[g].name}
    IN  IF byVmid # {} THEN byVmid ELSE IF byID # {} THEN byID ELSE byName

ResolveGuestAndInstance(n, pool, visible) ==
    LET parsed == ParseGuestTarget(n, visible)
    IN  resolveGuest(parsed.identifier,
                     IF parsed.inst = "" THEN pool
                     ELSE {g \in pool : NodeName[Row[g].inst] = parsed.inst})

\* A login name is split at instances that host a guest the user may reach.
resolveLoginNameGuest(n, pool) == ResolveGuestAndInstance(n, pool, namedInstances(pool))

\* What a name means under the present rules, in one: a node, else the one guest.
Meaning(n) ==
    LET named == NodesNamed(n, nodes)
        found == resolveLoginNameGuest(n, guests)
    IN  IF named # {} THEN {Node(i) : i \in named}
        ELSE IF ~isReservedLoginName(n) /\ Cardinality(found) = 1 THEN {Guest(g) : g \in found}
        ELSE {Nobody}

(***************************************************************************)
(* A session                                                               *)
(***************************************************************************)
LoginInit ==
    /\ guests \in SUBSET Guests /\ nodes \in SUBSET WithSSHHost
    /\ changes = 0
    /\ kind \in Kinds /\ name \in LoginNames
    /\ pc = "done" /\ listed = {} /\ target = Nobody /\ outcome = "none"
    /\ meant = {Nobody} /\ disturbed = {}

Ends(o) == pc' = "done" /\ outcome' = o
Suffers(fails) == disturbed' = IF fails THEN disturbed \union {"failure"} ELSE disturbed

\* Run: under a reserved name a console browses, a command is proxpass's own and
\* a transfer fails. "guest connect" asks for guests alone.
Starts(k, n) ==
    /\ pc = "done"
    /\ kind' = k /\ name' = n
    /\ listed' = {} /\ target' = Nobody
    /\ \/ k = "connect" /\ pc' = "guests" /\ outcome' = "none"
       \/ k # "connect" /\ ~isReservedLoginName(n) /\ pc' = "nodes" /\ outcome' = "none"
       \/ k = "console" /\ isReservedLoginName(n) /\ pc' = "picker" /\ outcome' = "none"
       \/ k = "command" /\ isReservedLoginName(n) /\ Ends("cli")
       \/ k = "sftp" /\ isReservedLoginName(n) /\ Ends("failed")
    /\ meant' = Meaning(n) /\ disturbed' = {}
    /\ changes' = 0 /\ UNCHANGED <<guests, nodes>>

\* Mutant: a command is not tried on a node.
CommandsSkipNodes == IF kind = "command" THEN {} ELSE NodesNamed(name, nodes)

NodesFound == NodesNamed(name, nodes)

\* namesANode. A listing that fails is a listing without the name.
LooksForNode(fails) ==
    /\ pc = "nodes"
    /\ IF ~fails /\ NodesFound # {}
       THEN \E i \in NodesFound : target' = Node(i) /\ pc' = "connect"
       ELSE pc' = "guests" /\ UNCHANGED target
    /\ Suffers(fails)
    /\ UNCHANGED <<rules, kind, name, listed, outcome, meant>>

\* Where "guest connect" splits a name: an administrator's knows every instance.
Qualifiers == {namedInstances(guests)} \union (IF kind = "connect" THEN {Instances} ELSE {})

\* The name names one guest; or it does not, and a command is proxpass's own,
\* a console browses unless the guests are several, and the rest fails.
LooksForGuest(fails) ==
    \E visible \in Qualifiers :
        LET found == ResolveGuestAndInstance(name, guests, visible)
        IN  /\ pc = "guests"
            /\ Suffers(fails)
            /\ UNCHANGED <<rules, kind, name, listed, meant>>
            /\ IF ~fails /\ Cardinality(found) = 1
               THEN /\ \E g \in found : target' = Guest(g)
                    /\ pc' = "connect" /\ UNCHANGED outcome
               ELSE /\ UNCHANGED target
                    /\ IF kind = "command" THEN Ends("cli")
                       ELSE IF kind = "console" /\ ~fails /\ found = {}
                       THEN pc' = "picker" /\ UNCHANGED outcome
                       ELSE Ends("failed")

\* runPicker: the guests, which must be had, and the nodes if they can be had.
PickerLists(fails) ==
    LET rows == {Guest(g) : g \in guests} \union (IF fails THEN {} ELSE {Node(i) : i \in nodes})
    IN  /\ pc = "picker" /\ listed = {}
        /\ \/ (fails \/ rows = {}) /\ Ends("failed") /\ UNCHANGED listed
           \/ rows # {} /\ listed' = rows /\ UNCHANGED <<pc, outcome>>
        /\ UNCHANGED <<rules, kind, name, target, history>>

PickerPicks(t) ==
    /\ pc = "picker" /\ t \in listed
    /\ target' = t
    /\ pc' = "connect"
    /\ UNCHANGED <<rules, kind, name, listed, outcome, history>>

PickerQuits ==
    /\ pc = "picker" /\ listed # {}
    /\ Ends("quit")
    /\ UNCHANGED <<rules, kind, name, listed, target, history>>

\* A command or a transfer needs a container, on an instance with an SSH host;
\* consoles are for virtual machines, too, and a node has whatever is asked.
Serves(t) ==
    t.is = "guest" /\ kind \in {"command", "sftp"}
    => Row[t.of].type = "ct" /\ Row[t.of].inst \in WithSSHHost

\* Whose credentials Connect and ConnectNode give out.
Reachable == {Node(i) : i \in nodes} \union {Guest(g) : g \in guests}

\* Connect and ConnectNode: the check and the credentials are one answer. The
\* server may fail to give it, and the machine to be reached with it.
Connects(fails) ==
    /\ pc = "connect"
    /\ \/ fails /\ Ends("failed")
       \/ /\ ~fails
          /\ IF target \notin Reachable THEN Ends("denied")
             ELSE IF Serves(target) THEN Ends("connected") ELSE Ends("refused")
    /\ Suffers(fails)
    /\ UNCHANGED <<rules, kind, name, listed, target, meant>>

\* Administrators change what the user may reach: guests, nodes, or, with a group,
\* the default policy or an instance that goes, both at once.
RulesChange(gs, ns) ==
    /\ changes < MaxChanges /\ changes' = changes + 1
    /\ UNCHANGED session
    /\ guests' = gs /\ nodes' = ns
    /\ meant' = IF pc \in {"nodes", "guests"} THEN meant \union Meaning(name)' ELSE meant
    /\ disturbed' = IF pc = "done" THEN disturbed ELSE disturbed
          \union (IF gs # guests THEN {"guests"} ELSE {})
          \union (IF ns \subseteq nodes THEN {} ELSE {"nodeGiven"})
          \union (IF guests \subseteq gs /\ nodes \subseteq ns THEN {} ELSE {"taken"})

LoginNext ==
    \/ \E k \in Kinds, n \in LoginNames : Starts(k, n)
    \/ \E fails \in BOOLEAN :
          LooksForNode(fails) \/ LooksForGuest(fails) \/ PickerLists(fails) \/ Connects(fails)
    \/ \E t \in listed : PickerPicks(t)
    \/ PickerQuits
    \/ \E gs \in SUBSET Guests, ns \in SUBSET WithSSHHost : RulesChange(gs, ns)

LoginSpec == LoginInit /\ [][LoginNext]_loginVars

(***************************************************************************)
(* Properties                                                              *)
(***************************************************************************)
LoginTypeOK ==
    /\ guests \subseteq Guests /\ nodes \subseteq WithSSHHost
    /\ changes \in 0..MaxChanges
    /\ kind \in Kinds /\ name \in LoginNames
    /\ pc \in {"nodes", "guests", "picker", "connect", "done"}
    /\ listed \subseteq Targets /\ target \in Targets
    /\ outcome \in {"none", "connected", "denied", "refused", "cli", "failed", "quit"}
    /\ meant \subseteq Targets /\ disturbed \subseteq Disturbances

\* What a name has led to, once it is resolved; what is picked it did not lead to.
Led == IF listed = {} THEN target ELSE Nobody
Resolved == pc \in {"picker", "connect", "done"} /\ kind # "connect"

\* A name denotes the same thing with a command, without one and for a transfer
\* (session.go:118, sftp.go:82). The nodes and the guests are asked for one after
\* the other while the rules change; still, a name leads to what it meant at one
\* moment, unless a listing fails or nodes are given and guests change as well
\* (picker.go:111). And it leads to no closed door: nobody is denied what was
\* listed unless something was taken away (picker.go:159). That a virtual machine
\* has nothing but a console is another matter: see Serves.
SamePlace ==
    /\ Resolved /\ "failure" \notin disturbed /\ ~({"guests", "nodeGiven"} \subseteq disturbed)
       => Led \in meant
    /\ outcome = "denied" => "taken" \in disturbed

\* The ways in which a name can mean a guest: by vmid, id or name, plainly or on
\* its instance.
Ways(n, g) ==
    LET said == [vmid |-> <<Row[g].vmid>>, id |-> <<Row[g].id>>, name |-> Row[g].name]
    IN  {w \in {"vmid", "id", "name"} \X {"", NodeName[Row[g].inst]} :
            n = IF w[2] = "" THEN said[w[1]] ELSE Append(said[w[1]], w[2])}

\* Nobody gets to a machine by a guess: a name that leads to a guest means it in
\* a way in which it means no other guest the user may reach.
NeverAGuess ==
    [][LooksForGuest(FALSE) /\ target' # target =>
         \E w \in Ways(name, target'.of) :
             \A h \in guests \ {target'.of} : w \notin Ways(name, h)]_loginVars

\* A guest that has a name, and one that is not also said of another on its instance.
NamedAlone(g, pool) ==
    /\ Row[g].name # <<"">>
    /\ \A h \in pool \ {g} : Row[h].inst = Row[g].inst =>
          Row[g].name \notin {<<Row[h].vmid>>, <<Row[h].id>>, Row[h].name}

\* Sharing a name hides nothing (picker.go:107): a guest answers to its id on its
\* instance, and to its name there unless that is also said of another, and a
\* node to its name, unless that is the administrator's.
EveryTargetHasAName ==
    /\ \A g \in guests :
          /\ resolveLoginNameGuest(<<Row[g].id, NodeName[Row[g].inst]>>, guests) = {g}
          /\ NamedAlone(g, guests)
             => resolveLoginNameGuest(Append(Row[g].name, NodeName[Row[g].inst]), guests) = {g}
    /\ \A i \in nodes :
          ~isReservedLoginName(<<NodeName[i]>>) => NodesNamed(<<NodeName[i]>>, nodes) = {i}

\* A user whose own name is on a guest keeps proxpass's commands under that name
\* (guestcommand.go:21, "so a client cannot lose access to the CLI").
OwnNameMeansProxpass == (kind = "command" /\ name = OwnName /\ outcome # "none") => outcome = "cli"
=============================================================================
