-------------------------- MODULE MCAdministration --------------------------
(***************************************************************************)
(* Administrators at work, one matter per behaviour: a check of access     *)
(* under their edits, for every kind of rule (tiers) and for a client in   *)
(* two groups (moves); one instance row under its editors; the default     *)
(* policy under its editors. They share no state, so one run checks each   *)
(* on an instance of its own; the matters that are not taken stay in one   *)
(* initial state.                                                          *)
(***************************************************************************)
EXTENDS AccessCheck, EditedInstance, EditedPolicy, TLC

CONSTANTS client, g1, g2, guest, node, c1, c2, p1, a1, a2, n1, n2, s1, s2

VARIABLE matter  \* what the administrators are at

\* Nothing tells the two commands apart.
CommandSymmetry == Permutations({c1, c2})

TwoNodes == a1 :> n1 @@ a2 :> n2

(***************************************************************************)
(* The matters                                                             *)
(***************************************************************************)
AllPolicies   == Policy
GroupPolicies == [client : {FALSE}, groups : SUBSET {g1, g2}, node : {FALSE}]

Moves == INSTANCE AccessCheck WITH
    Groups <- {g1, g2}, Nodes <- {}, Policies <- GroupPolicies, MaxEdits <- 1

Instance == INSTANCE InstanceEdit
PolicyOf == INSTANCE PolicyEdit

everything == <<matter, vars, instanceVars, policyVars>>

(***************************************************************************)
(* One matter at a time                                                    *)
(***************************************************************************)
Matters == {"tiers", "moves", "instance", "policy"}

NoTables ==
    [mine |-> {}, theirs |-> {}, rules |-> {},
     policy |-> [client |-> FALSE, groups |-> {}, node |-> FALSE]]
NoPolicy == [subjects |-> {}, node |-> FALSE]

AdminInit ==
    /\ matter \in Matters
    /\ matter \notin {"tiers", "moves"} => groupRows = {} /\ tables = NoTables
    /\ matter # "policy" => policy = NoPolicy
    /\ IF matter = "moves" THEN Moves!Init ELSE Init
    /\ Instance!Init
    /\ PolicyOf!PolicyInit

\* The id of a removed instance is never handed out again, so nothing is left to
\* do once its editors are done.
InstanceDone ==
    /\ spent /\ row = Absent
    /\ \A e \in Editors : step[e] = "idle"
    /\ UNCHANGED instanceVars

AdminNext ==
    /\ UNCHANGED matter
    /\ \/ matter = "tiers" /\ Next /\ UNCHANGED <<instanceVars, policyVars>>
       \/ matter = "moves" /\ Moves!Next /\ UNCHANGED <<instanceVars, policyVars>>
       \/ matter = "instance" /\ Instance!Next /\ UNCHANGED <<vars, policyVars>>
       \/ matter = "instance" /\ InstanceDone /\ UNCHANGED <<vars, policyVars>>
       \/ matter = "policy" /\ PolicyOf!PolicyNext /\ UNCHANGED <<vars, instanceVars>>

AdminSpec == AdminInit /\ [][AdminNext]_everything

(***************************************************************************)
(* What the run checks                                                     *)
(***************************************************************************)
TypesOK ==
    /\ IF matter = "moves" THEN Moves!TypeOK ELSE TypeOK
    /\ Instance!TypeOK
    /\ PolicyOf!PolicyTypeOK
=============================================================================
