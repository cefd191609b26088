----------------------------- MODULE EditedRows -----------------------------
(***************************************************************************)
(* The rows that administrators read, change and put back whole, at the    *)
(* command line and on the web page: what InstanceEdit and PolicyEdit have *)
(* in common.                                                              *)
(***************************************************************************)
CONSTANTS
  Commands,   (* administrators at the command line                          *)
  Pages,      (* administrators on the web UI                                *)
  Addresses,  (* url and ssh_host of an instance                             *)
  Settings,   (* values of all its fields that have no bearing on the node   *)
  Names,      (* node names                                                  *)
  NodeAt,     (* the node Proxmox reports for an address (ResolveNodeName)   *)
  NoNode,     (* the empty node name                                         *)
  Absent,     (* no such row                                                 *)
  Entries,    (* the clients and groups a policy may name                    *)
  NoForm      (* no policy in hand                                           *)

Editors == Commands \union Pages

InstanceRow == [addr : Addresses, node : Names \union {NoNode}, rest : Settings]
PolicyRow   == [subjects : SUBSET Entries, node : BOOLEAN]

ASSUME EditAssumption ==
  /\ Commands \intersect Pages = {}
  /\ NodeAt \in [Addresses -> Names]
  /\ NoNode \notin Names
  /\ Absent \notin InstanceRow
  /\ NoForm \notin PolicyRow
=============================================================================
