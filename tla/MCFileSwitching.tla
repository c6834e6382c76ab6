-------------------------- MODULE MCFileSwitching ---------------------------
(* Small instances of FileSwitching: three files, of which one has a second *)
(* name and one does not exist at first.                                   *)
EXTENDS FileSwitching, TLC

MCFileOf == [p \in Path |-> IF p = "link" THEN "a" ELSE p]

Limits(openers, workers, kinds, paths, handles, most) ==
    [openers |-> openers, workers |-> workers, kinds |-> kinds, paths |-> paths,
     handles |-> handles, loads |-> most, losses |-> 0, overOpen |-> FALSE]

CONSTANTS o1, o2, w1, w2

(* Two openers, with two names of one file; a restore on an earlier handle; *)
(* files that are deleted; a backup on a handle whose file is deleted and  *)
(* comes back; every kind of work; a session on one file, two at once. *)
MCScopes ==
    { Limits({o1, o2}, {}, {}, {"a", "b", "c", "link"}, 3, 1),
      Limits({o1}, {w1}, {"restore"}, {"b", "c", "link"}, 4, 1),
      [Limits({o1}, {}, {}, {"a", "b", "c"}, 4, 1) EXCEPT !.losses = 1],
      [Limits({o1}, {w1}, {"backup"}, {"b", "c"}, 3, 1) EXCEPT !.losses = 1],
      Limits({o1}, {w1}, Kinds, {"a", "b"}, 2, 1),
      Limits({}, {w1, w2}, Kinds, {}, 1, 2) }

(* The open file is deleted behind the program; a restore runs on it.      *)
LostScopes == {[Limits({o1}, {w1}, {"backup"}, {"a", "b"}, 2, 1)
                  EXCEPT !.losses = 1, !.overOpen = TRUE]}
RestoreScopes == {Limits({}, {w1, w2}, {"write", "undo", "restore"}, {}, 1, 2)}
=============================================================================
