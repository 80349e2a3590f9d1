----------------------------- MODULE RecentLog ------------------------------
(***************************************************************************)
(* What a rolling history promises: entries are only ever added at the end *)
(* of it, it holds the newest Size of those added since it was last reset, *)
(* oldest first, and it changes only when one is added.                    *)
(***************************************************************************)
EXTENDS Naturals, Sequences

CONSTANT Size

VARIABLES added, log

Newest(s) == SubSeq(s, IF Len(s) > Size THEN Len(s) - Size + 1 ELSE 1, Len(s))

Init == added = << >> /\ log = << >>

Add(e) ==
  /\ added' = Append(added, e)
  /\ log' = Newest(added')

Reset == added' = << >> /\ log' = << >>

(* The entry added is any value: the last one of added'. *)
Next == Reset \/ (added' # << >> /\ Add(added'[Len(added')]))

Spec == Init /\ [][Next]_<<added, log>>
=============================================================================
