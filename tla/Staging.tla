------------------------------ MODULE Staging -------------------------------
(***************************************************************************)
(* Putting the helper on a node.                                           *)
(*                                                                         *)
(* A transfer runs StageCommand on the node before it launches the helper: *)
(* unless the final file is there and executable, write standard input to  *)
(* a temporary file, make it executable, rename it. The temporary name     *)
(* ends in $$, but between single quotes: the shell does not put its       *)
(* process id there, and every transfer writes to the same name.           *)
(*                                                                         *)
(* One step is one command of the script, or one write of cat.             *)
(***************************************************************************)
EXTENDS Naturals

CONSTANTS
  Sessions,   (* transfers to containers of one node                         *)
  Blocks,     (* bound: how many writes the helper takes                     *)
  NoFile

\* An inode is named by the session that created it.
Inodes == Sessions
Whole  == 1..Blocks

VARIABLES
  tmp, final,   (* the inodes of the two names, or NoFile                    *)
  content,      (* the blocks of an inode that have been written             *)
  mode,         (* the inodes that are executable                            *)
  pc,
  fd,           (* the inode cat writes to                                   *)
  offset        (* how far it is                                             *)

stageVars == <<tmp, final, content, mode, pc, fd, offset>>

\* A node that has not seen the helper.
StageInit ==
  /\ tmp = NoFile /\ final = NoFile
  /\ content = [i \in Inodes |-> {}]
  /\ mode = {}
  /\ pc = [s \in Sessions |-> "check"]
  /\ fd = [s \in Sessions |-> NoFile]
  /\ offset = [s \in Sessions |-> 0]

Goes(s, from, to) == pc[s] = from /\ pc' = [pc EXCEPT ![s] = to]

\* if [ -x final ]; then cat > /dev/null; exit 0; fi
Checks(s) ==
  /\ Goes(s, "check", IF final # NoFile /\ final \in mode THEN "staged" ELSE "open")
  /\ UNCHANGED <<tmp, final, content, mode, fd, offset>>

\* cat > tmp: the file is created, or emptied where there is one already.
Opens(s) ==
  LET i == IF tmp = NoFile THEN s ELSE tmp IN
  /\ Goes(s, "open", "cat")
  /\ tmp' = i
  /\ fd' = [fd EXCEPT ![s] = i]
  /\ content' = [content EXCEPT ![i] = {}]
  /\ UNCHANGED <<final, mode, offset>>

Copies(s) ==
  /\ pc[s] = "cat" /\ offset[s] < Blocks
  /\ offset' = [offset EXCEPT ![s] = @ + 1]
  /\ content' = [content EXCEPT ![fd[s]] = @ \union {offset'[s]}]
  /\ UNCHANGED <<tmp, final, mode, pc, fd>>

CatEnds(s) ==
  /\ Goes(s, "cat", "chmod") /\ offset[s] = Blocks
  /\ fd' = [fd EXCEPT ![s] = NoFile]
  /\ UNCHANGED <<tmp, final, content, mode, offset>>

\* chmod 0755 tmp; set -e ends the script when the name is gone.
Chmods(s) ==
  /\ Goes(s, "chmod", IF tmp = NoFile THEN "failed" ELSE "mv")
  /\ mode' = IF tmp = NoFile THEN mode ELSE mode \union {tmp}
  /\ UNCHANGED <<tmp, final, content, fd, offset>>

\* mv -f tmp final
Renames(s) ==
  /\ Goes(s, "mv", IF tmp = NoFile THEN "failed" ELSE "staged")
  /\ final' = IF tmp = NoFile THEN final ELSE tmp
  /\ tmp' = NoFile
  /\ UNCHANGED <<content, mode, fd, offset>>

StageNext ==
  \E s \in Sessions :
    Checks(s) \/ Opens(s) \/ Copies(s) \/ CatEnds(s) \/ Chmods(s) \/ Renames(s)

StageSpec == StageInit /\ [][StageNext]_stageVars

\* "a concurrent transfer either sees no file or sees a complete one": true if
\* the temporary names differed, and of the code it is not.
SeesNoneOrWhole == final # NoFile => content[final] = Whole
=============================================================================
