---------------------------- MODULE AtomicConfig ----------------------------
(***************************************************************************)
(* What the configuration store of internal/configstore and the mutations  *)
(* of internal/application/management.go promise together: the files of a  *)
(* configuration root change one at a time, from one graph that loads to   *)
(* another.  A crash, or an I/O error during a rollback, may leave the one *)
(* file of the interrupted change behind; the file is then `loose' until a *)
(* load accepts the whole graph again.                                     *)
(***************************************************************************)
CONSTANTS Files, Content, Valid(_), Fresh(_)

VARIABLES
  held,      \* the content of every file, provisional changes left out
  loose      \* the files an interrupted change may have left behind

Init == /\ held \in [Files -> Content]
        /\ Valid(held) \/ Fresh(held)
        /\ loose = {}

(* A change, a file creation or a deletion, that was accepted. *)
Change == /\ held' # held
          /\ \E f \in Files, v \in Content : held' = [held EXCEPT ![f] = v]
          /\ Valid(held')
          /\ loose' \in {loose, {}}

(* An interrupted change: its file may hold either content. *)
Lose == \E f \in Files : /\ loose' = loose \cup {f}
                        /\ \E v \in Content : held' = [held EXCEPT ![f] = v]

(* A load accepted everything. *)
Accept == Valid(held) /\ loose' = {} /\ UNCHANGED held

Next == Change \/ Lose \/ Accept

Spec == Init /\ [][Next]_<<held, loose>>
=============================================================================
