----------------------------- MODULE AtomicFile -----------------------------
(***************************************************************************)
(* What a file updated by several processes should look like to them: the  *)
(* edits take effect one at a time, none undoes another, and a caller is   *)
(* told that its edit is made only after it took effect.                   *)
(***************************************************************************)
CONSTANT Edit
VARIABLES contents,     \* edits in the file
          confirmed,    \* edits whose caller was told that they are made
          void          \* the promise no longer holds

Init == contents = {} /\ confirmed = {} /\ void = FALSE

Apply(e) ==
    /\ e \notin contents
    /\ contents' = contents \cup {e}
    /\ UNCHANGED <<confirmed, void>>

Confirm(e) ==
    /\ e \in contents
    /\ confirmed' = confirmed \cup {e}
    /\ UNCHANGED <<contents, void>>

\* What voids the promise may do anything to the contents, and so may whatever
\* follows it.
Void == void' = TRUE

Next == Void \/ \E e \in Edit : Apply(e) \/ Confirm(e)

Spec == Init /\ [][Next]_<<contents, confirmed, void>>
=============================================================================
